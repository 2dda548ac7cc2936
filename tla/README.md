# A verification development for lcdpico-34401a

lcdpico-34401a is the firmware of a Raspberry Pi Pico (RP2040/RP2350, with or
without Wi-Fi) that replaces the display of a HP/Agilent 34401A multimeter.  It
listens to the serial bus between the meter's two processors, decodes what the
meter shows, draws it on an LCD, and makes readings and settings available on
USB, telnet, SSH and HTTP.  These modules model the firmware under `src/src/`,
TLC checks them on small instances, and TLAPS proves the central invariants for
every value of the constants.

## 1. Inventory

### How the program runs

Core 0 boots, launches core 1, enables the watchdog, finishes the setup and then
loops over its duties.  Core 1 runs a loop of its own and serves the GPIO
interrupts of the meter's bus.  With Wi-Fi, lwIP's callbacks (DHCP, DNS, SNTP,
HTTP, SSH) run in interrupts of core 0.

```
 meter --SCK,DO,DI,RST--> interrupt (core 1) --ring--> decoder --dmm_context-->
       display_status --cells--> update_display --> LCD controller
                         |
                   core1_state --state_mutex--> transfer_state --> core0_state
                                                                    |
   console, telnet, SSH --> process_command --config_mutex--> cfg --+--> core1_config
   lwIP interrupt: DHCP hook --pmem_mutex--> persistent block, TZ
```

| component | state | operations | interacts through | hard behaviour | what makes it correct |
|---|---|---|---|---|---|
| SCK capture (`decoder_34401a.c`, handlers, FIFO) | bit accumulators, bit count, time of the last edge, ring of 256 words with two indices, reset flag | SCK edge, RST edge, ring append and remove | ring and reset flag, shared by interrupt and loop of one core without a lock | preemption between any two accesses; overruns; missed edges; clock wrap | words are bytes of the wire, in order; a slot is never read half written or overwritten while read; pauses resynchronise |
| Frame decoder (`decoder34401_process`) | frame state, input/output buffers, working message and flags, published message, annunciators, SHIFT window | process a pair, reset, timers | ring; `dmm_context` read by the display | lost end of frame, reset in the middle of a frame, buffer ends, timer and traffic | a message is published as sent; flags describe it; SHIFT is right; a reset is shown |
| LCD layout and display loop (`display_status`, `core1_main`) | shown cells, delayed cells, delay timer, reported text | show new data, poll | reads `dmm_context`, writes `state->disp` | messages held back, restarted timer, two copies | reported text is the shown one; doubtful text only after 300 ms; the last message is shown |
| LCD frame buffers (`update_display`) | two buffers, what each is thought to show | redraw and swap | cells from `display_status`; LCD controller | partial redraw two swaps late; indicators sharing a place | the visible buffer shows what was asked |
| Persistent memory (`lcd-pico.c`, `dhcp.c`) | RAM block with CRC, its mutex, TZ | boot, 1 s update, DHCP zone | main program, DHCP interrupt, resets | reset between stores; interrupt between them; second reset | sealed whenever unlocked; zone agrees with TZ; counters lost only if torn |
| Exchange between cores (`lcd-pico.c`, `command_util.c`, `sensors.c`) | `cfg`, `core1_config`, `core1_state`, `transfer_state`, `core0_state`, two mutexes | commands and sensor polls write `cfg`; three copies with timeouts | two mutexes | timed-out copies, writers outside the lock | a copy is never half of one version; it gets newer; it arrives |
| Boot, main loop, watchdog (`lcd-pico.c`) | boot stage, watchdog timer, duties' timers | setup, launch, setup2, loop | everything | the watchdog runs during the synchronous part of the Wi-Fi start | no reboot loop; the watchdog is fed |
| Wi-Fi link, DHCP, SNTP (`network.c`, `dhcp.c`) | link status, rejoin timer, lease options | init, poll, callbacks | lwIP callbacks in interrupt context | callbacks before init has ended; rejoin timers | what a lease brought is kept; the link is rejoined |
| Logging, syslog (`log.c`, `syslog.c`) | levels, syslog context | open, send (`syslog_close` has no caller) | both cores log | opened by whichever callback or step of the boot comes first | the client is opened once, with the configured server if there is one |
| HTTP status pages (`httpd.c`) | static buffers and cursors of two handlers | generate a page, hand it out part by part | lwIP connections | two connections or an aborted one, one static buffer | no freed buffer is read or freed; a page nobody overlapped comes whole |
| Telnet, SSH consoles (`telnetd.c`, `sshd.c` and libraries) | access lists, keys | start, accept, login | commands, flash files | servers are submodules | an access list admits exactly its networks; keys read back |
| SCPI interpreter (`command.c`, `command_util.c`) | level, stack, last error | a line of commands | `cfg`, `core0_state` | level and stack persist between commands of a line | a command means what it would at its level |
| Configuration (`config.c`, `flash.c`) | `cfg`, flash files | read, write, upload, delete | littlefs, flash lockout | file written in place, failures, upload by lines | an upload is all or nothing; a written file reads back |
| Virtual and I2C sensors (`sensors.c`, `i2c.c`) | sensor modes, contexts, step and sensor index | poll, start, read, timeout | commands change a sensor under the poll | step machine across calls | no read through a freed context; a timeout falls back |
| LCD controller and panel drivers (`lt7680.c`, `st7701.c` ...) | hardware | register sequences | - | - | pure I/O |
| Message patterns (`regex.re`, generated) | - | three predicates | decoder | - | external |
| Utilities, CRC, memory test, embedded web data | line under entry, timers | conversions, masks, timers, CRC-32, memory test | everything | wrap of clocks, ends of buffers and ranges | each agrees with a reference definition |

The hazards of the code, each at its line and with the properties that would
catch it, are listed in `PROJECT.json`.

## 2. Modules and how they correspond to the code

**SckCapture** (core 1's handlers and the ring).  `SckEdge` is
`decoder34401_sckedge`, `ResetEdge` is `decoder34401_reset`; a handler runs to
completion on the core of the loop, so each is one action.  The loop of
`decoder34401_process` is cut at every access to a shared variable: test the
flag, compare the indices, read `in`, read `out`, advance, clear the flag
(`pc`).  Bits are labelled with the byte and place they come from, so "this word
is a byte of the wire" is a statement of the model.  `LoseEdge` is an edge the
core does not see: flash writes pause core 1 (`multicore_lockout`), and so do
long critical sections.  The clock wraps (`TimeMod`).  The majority vote over the
samples of a pin is taken to give the level; debug counters are left out.

**ByteQueue** is what the ring promises: a queue of at most FifoSize - 1 words
with a reader that takes a word apart from removing it, a refused put that drops
the newest word, and a reset flag that merges pulses.  `SckCapture!Q` is the
refinement, and `Decoder` is built on `ByteQueue`'s actions, so what is shown of
the decoder holds over the ring.

**Decoder** (`decoder34401_process` and what it calls).  `Begin` is entry with
the SHIFT timer, `DecodeByte` takes one pair through the frame state machine with
all its calls (`messageByte`, `publishAnnunciators`, `decodeControlFrame`, bar
graph, SHIFT counting), `ResetBody` and `ResetDone` are `process_reset` up to and
including its last store, `Return` is the exit.  Text is bytes, buffers are
functions with the code's bounds as constants, the `regex_*` predicates are
parameters.  The wire delivers the frames of a set, damages or loses pairs, and
resets the meter in the middle of a frame.

**DisplayLayout** has the layout loop of `display_status` as a recursive function
on columns: which message character a cell shows, which overlay it takes in.
`Glyph` is the table of `init_theme`: a character the theme has no tile for, the
three marks among them, is a blank (a letter without a tile of its own has the
capital's).  `Face` and `Seen` are what `update_display` draws of a cell, its own
picture and the overlay it took in, and `Shows` reads the cells back from left to
right.

**DisplayStatus** is `core1_main`'s decision to call `display_status` and the
function itself up to drawing.  Decoder actions are reduced to what they do to
the variables read here.  Time passes in ticks; timers stop at the value past
which the code no longer distinguishes them, so time is unbounded.

**FrameBuffers** is `update_display`: the code's record of each buffer
(`display_state`, `indicator_state`) and the pixels of each buffer are separate
variables.  A tile is a value, geometry is the place of an indicator.

**PersistentMemory** has the stores of `init_persistent_memory`,
`update_persistent_memory` and `update_persistent_memory_tz` as separate steps
with a reset or power cycle possible between any two and the DHCP hook, an
interrupt of the same core, between any two of the main program.  The CRC is the
block it was computed from (two blocks never collide).  A zone has no, one or more
characters: a lease stores any (`Lease`), a boot restores any but the empty one, and
only of the configuration's two characters are asked.  `saved_time` is left out.

**CoreSync** is the exchange between the cores: core 0's `run_cmd` and sensor
polls change `cfg` under `config_mutex`, `update_system_state` copies
`transfer_state`; core 1's loop copies `cfg` and its own state when its timers are
due.  Every memcpy is two stores of a half, a half holds the number of the change
that wrote it, `mutex_enter_timeout_us` may give up once it has found the mutex
taken, and a command that writes flash stops core 1 wherever it is (`paused`).
Two things are written outside the mutexes: `Interrupt` (`core1_gpio_callback`)
counts in both halves of core 1's state wherever its thread is, in the middle of a
copy too, and `SetUpBus` (`setup2`) puts sensor contexts into `cfg` when core 1 runs
already.  Whether a second is over (`ConfigDue`) or half of one (`StateDue`) is open
each time the loop comes round.
The HTTP server's interrupt, which reads `core0_state` with no lock, is not part of
it (see the hazards).

**Network** is core 0's view of the Wi-Fi link.  `wifi_init` is a sequence of
steps (`ArchInit`, `Interface`, `GetMac`, `Connect`, `Connected`, `Services`,
`CopyLogServer`); once the callbacks are set, lwIP's (`Associate`, `Lose`,
`Lease`, with `wifi_link_cb`, `wifi_status_cb` and the DHCP option hook inside)
may come between any two of them, because they are interrupts of the same core.
`wifi_check_status` is cut where an interrupt matters: the status is read
(`PollRead`), compared and stored (`PollCheck`), and the link joined again
(`Rejoin`).  `CommandRejoin` and `CommandCredentials` are what a user changes of
it.  `rested` is history: ticks since an attempt to join began, the boot's, the
user's or the poll's, or since the link was up.  The radio is external: it moves
`link` within what
`cyw43_tcpip_link_status` can report, and `JoinFails` calls nobody, as the driver
does.  A `Tick` is 4 s; the watchdog runs in it, and `Reboot` is its reset.

**NetworkRules** has the operators of the network code that keep no state:
authentication modes, link texts, country codes, access lists, the option hook,
the zone of a lease, pasted PEM texts, log levels, which servers are started, and
the assembly of a syslog message.

**Sensors** has one action for each call the main loop makes: `read_temps`
(`PollInternal`) and one step of `i2c_read_temps` (`StartRound`, `ReadSensor`,
`EndRound`, `PollGivesUp`), and the commands that may come between two calls:
`SetSource`, `WriteSensor`, `UploadSources`, `SReboot`.  A reading has an age;
ages saturate above the longest timeout, so time is unbounded.

**StatusPages** is `csv_stats` and `json_stats`: one set of static variables per
handler, called by the server part by part for connections that take turns
(`Request`, `Continue`), run out of memory (`RequestFails`) or go away
(`Abort`).  A block of the heap is a number and holds the number of the page it
was generated for.

**CommandTree** is the tree of commands and the walk of `run_cmd` through it:
prefix match, numbers in a name, level, stack of subcommands, the handlers on the
way.  **Settings** has every setter as an operator from a configuration and an
argument to `[res, val]`, with the cuts to 8 and 16 bits the code makes.
**FlashFiles** has the calls of `flash.c` on a function from names to contents; a
call takes the set of library calls that fail.  **ConfigStore** builds on them
`clear_config`, the JSON of a configuration, reading, saving and uploading.  A
list is filtered with `Picked`, a recursive function, so that what it does to a
list of any length can be proved.
**Console** puts them together: `EnterLine` and `StartCommand` are
`process_command`, one action per kind of handler (a setter, a question, a file,
a key, a paste), `PasteLine` and the time-outs are the loops that read pasted
text, with `PowerCut`, `Reset` and failing flash calls between and in them.
`result` is `run_cmd`'s `res`: a command may chain leaves of one level
(`SYS:LED:ECHO 2`), whose handlers run one after the other whatever they return.

**Util** has the conversions of `util.c`, `crc32.c`, `memtest.c` and the like.

`*Checks` modules state, as assumptions that TLC evaluates, what the operators of
a module without state must satisfy over bounded inputs, against a reference
definition: for instance `AclExact` (an access list admits an address exactly if
one of its networks holds it), `NoShadowing` (no command hides a later one of
its list), `WrittenWhole` (what was written is read back, and a write that fails
leaves the old file or an empty one, never half a text), `CrcComposes` (the
CRC of two pieces is that of the whole), `MemTestFinds`.

`MC*.tla` give the constants values; every `.cfg` is one run.  **MCDisplay** and
**MCServices** hold components that share no variable: a variable `side`, fixed
at the start, says whose steps a behaviour has, so that the run explores the sum
of their states and not the product.

## 3. What each run checks

| run | module, specification | shows |
|---|---|---|
| `capture` | MCSckCapture, FairSpec | `Framed`: the accumulators hold the last bits of one byte and the count says how many, whenever the wire has given the handler a way to be in step. `ReadsWhole`: the loop's half-read pair is the slot's content. `AppendsWholeBytes`: an appended word is a whole byte or an end of frame. `ResyncClosesFrame`: a pause inside a byte ends the frame. `ImplementsQueue`: the ring is ByteQueue. `ResetAnswered`. |
| `decoder` | MCDecoder, Spec | messages under one fault (lost pair or damaged byte) and a reset: `NulTerminated`, `FlagsDescribeMain`, `EofEndsFrame` (damage ends with the frame), `MessageWhole` (a message is published as sent unless named causes), `ChangesCounted` (no publication the display would not notice). |
| `decoder_buttons` | MCDecoder, FairSpec | `ShiftParity`: SHIFT is on after an odd number of presses, whatever the window, the timer and annunciator frames do. `ResetShown`: a reset is answered and its text published. |
| `display` | MCDisplay, MCFairSpec | `ToldAsShown`, `OnlyOldOrTrusted`, `SettlesOnLast` of the display loop; `CellsAreCurrent`, `LightsAreCurrent` of the frame buffers: no stale cell or light in the visible buffer, also where indicators share a place. By the assumption `LayoutShowsText` every message of up to five characters over a letter, a space, a character without a tile and the three marks reads the same on four cells, but for the blanks `Legible` names: characters without a tile, leading marks and the last of repeated ones. |
| `display_blink` (violation) | MCDisplay, MCSpec | `BlinkFollowsCharacter` fails: bit of a message index, read as a column. |
| `display_held` (violation) | MCDisplay, MCFairSpec | `HeldBackIsShown` fails: any publication restarts the 300 ms. |
| `persistent` | MCPersistentMemory, Spec | `BlockSealed`, `ZoneAgrees`, `WipesOnlyTorn`, `CarriedTimeWasLived`. |
| `persistent_total` (violation) | MCPersistentMemory, Spec | `TotalIsTimeOn` fails: two resets without an update between them count a boot twice. |
| `cores` | MCCoreSync, FairSpec | `CopiesWhole`: no core works on a half-copied structure, as far as its owner's thread writes it; counters of core 1's interrupts may be from both sides of one. `ConfigArrives`, `StateArrives`: changes get across. `CommandRuns`: core 0, which feeds the watchdog, gets the mutex it blocks on. |
| `services` | MCServices, MCFairSpec | Network: `LogClientStands` (opened once, never with another server than the configured one), `RejoinsPaced` (the poll decides to join again only when no attempt of anybody has begun, and the link has not been up, for the delay), `StatusFollows` (a link that stays up is reported up, although a poll may store an older status over a newer one), `KeepsTrying` (a unit that is not joined joins or tries again). Sensors: `WriteLives`, `Reverts` (a written value lasts as long as its timeout says, whatever polls and commands come between), `RoundsComplete` (a device that fails does not starve the others). Pages: `HeapSound`, `PageWhole`. The assumptions of `NetworkChecks` and `UtilChecks`. |
| `network_boot` (violation) | MCServices, BootSpec | `BootEnds` fails: in synchronous mode the watchdog (8 s) ends `wifi_init`'s wait (2 times 10 s), and the boot starts over. |
| `console` | MCConsole, FairSpec | `RefusedChangesNothing` (a handler that returns an error, in a chain of leaves too, leaves the configuration as it was), `OwnSensorOnly` (no command of a line changes the sensor another one named), `SavedSurvives` (what a save wrote comes back at the next start), `UploadAllOrNothing`, `PasteEnds` (and the watchdog runs again). The assumptions of `CommandTreeChecks` and `FlashChecks`, and `DriftIsSeen`. |

Every property of a passing run has a mutant: a definition with one plausible
slip (they stand in each module under "Slips"), with which TLC finds the
property violated under the same configuration.

### Bounds

- `capture`: bytes of 2 bits (any length has a first, an inner and a last bit;
  with 2 the first and the last are distinct, and a lost edge shifts a byte
  into its neighbour), a ring of 3 slots (empty, full and wrapped), a clock of
  5 with pauses of 1, just over the limit, and exactly one turn;
  `MaxBytes` = 4 overruns the ring and wraps it; `MaxLost` = 1.
- `decoder`: buffer of 8 with a frame of 8 and its end, text of 4, counters that
  wrap; `MaxFrames` frames (2: a frame and the one it disturbs; 3 for buttons,
  two presses and an annunciator frame), `MaxFaults` = 1 lost or damaged pair,
  `MaxResets` = 1; `Capacity` = 2 so that the queue is empty, in use and full.
  The press counter wraps at 2 so that every second press wraps it.
- `display`: poll 2 and delay 3 ticks: the order poll < delay < 2 polls of the
  code's 250 and 300 ms is what decides which poll lets a message through; two
  cells and a buffer of five take a mark and a character in either order and a
  message longer than the display.  One cell of the frame buffers and four
  indicators (two that share a place, one that a combined picture replaces),
  because no code relates two cells, or indicators of different places.
- `persistent`: `MaxTicks` = 3, `MaxResets` = 3: a boot, a reset inside a
  rewrite, the boot that finds it, and one more.
- `cores`: `MaxChanges` = 1 configuration after the first (commands and polls go
  on taking the mutex after it), `MaxStates` = 1 and `MaxInterrupts` = 1 (either
  before, between or after the halves of a copy), `MaxSlow` = 1 wait that times
  out (liveness needs them to be finitely many: a command that always holds the
  mutex when core 1 asks would starve it, in the code too).  The theorems are for
  any number of each.
- `services`: `RejoinDelay` = 2 ticks of 4 s for 10 s, `ConnectTime` = 3 and
  `WatchdogDelay` = 2 keep the order watchdog < attempt of the code's 8 and 10 s;
  two log servers and none; eight configurations (static address, synchronous,
  open network, no credentials ...).  Two sensors, two devices, `MaxCommands` = 2
  commands (one that undoes another), one value to write; timeouts 0, 1 and 2.
  Two connections, texts of three parts (first, inner, last), `MaxPages` = 4: two
  pages that overlap, and two that find what they left.
- `console`: `MaxLines` = 3 (change, save, restart), `MaxPasted` = 3 (one more
  than the longest document), `UploadTime` = 2 and `PemTime` = 1 (both time-outs
  with and without text), one fault of the flash in a call: `mount`, `open`,
  `write`, `memory`.  The lines are those of each kind of setter with an
  accepted and a refused argument, those whose second command goes on at the
  level of the first, and two that chain leaves of which the last is refused.

### Fairness

Weak fairness of core 1's loop (`Loop`, `Process`), which is an endless loop
without blocking calls; in `display` also of time.  Nothing is assumed of the
meter or of the network; interrupts are not fair, but finite in number between
two steps of the loop.  In `cores` the two cores' own steps are weakly fair, core 1
finds again and again that a second, or half of one, is over (strong fairness of
`ConfigDue` and `StateDue`: its loop never blocks), and a
core that looks at a mutex gets it if it is free again and again (strong fairness
of the four enter actions, and of the visits to `update_system_state`): the pico
SDK's wait polls the lock until its time is
up, and the other core holds it for microseconds of a second.

In `services` the main program of core 0 (`Boot`, `Loop`, the polls of the
sensors), time and the watchdog's reset are weakly fair; in `console` time and
the time-outs of a paste are.  Nothing is assumed of the radio, the access point,
the devices on the bus, the connections or the user.

## 4. What is proved

TLAPS checks, for all values of the constants that satisfy the named assumptions:

- `SckCaptureProofs`: `TypeCorrect`; `LoopReadsWholeSlots` (`[]ReadsWhole`;
  inductive with the type invariant: the writer never reaches the slot the reader
  is in because the ring keeps one slot free); `CaptureStaysFramed`
  (`[]Framed`), `AppendedWordsAreBytes` and `ResyncCloses` from `CaptureInv`, which adds
  `ClockInv`: last_us is the low part of a time at most `quiet` ago. Without it a
  pause could not be told from the wrapped difference the code computes.
  `RingImplementsQueue`: every step of the ring is a step of ByteQueue or
  stutters, from lemmas on the contents of a ring (`FilledSeq`, `StoreAppends`,
  `AdvanceRemoves`) and from `ResetHeld` (the flag stays up while a reset is
  being answered).
- `PersistentMemoryProofs`: `MemoryTypeCorrect` (with `OwnerInv`: the mutex is held
  in the sections that rewrite the block and nowhere else), `BlockStaysSealed`,
  `ZonesAgree`, `OnlyTornIsWiped` from `MemoryInv`, and `OnlyLivedTimeCarried`.
  `BlockSealed` alone is not inductive: who holds the mutex at which step
  (`OwnerInv`), that a computed CRC is still that of the block (`SumInv`), where the zone was restored
  (`ZoneInv`), and that an untorn block is intact (`HeaderInv`) make it so.
  `OnlyLivedTimeCarried` adds `CarriedInv`: at each step of a boot, what the block
  still holds to be carried over is at most the time lived, unless a boot has
  been counted twice (the finding of `persistent_total`).
- `CoreSyncProofs`: `CopiesStayWhole` and `SectionsExclude` from `SyncInv`:
  where each core holds which mutex (`MutexInv`), that a source is whole outside its
  writer's section (`SourcesWhole`), and that a half copied is of the version the
  source still has (`HalvesMatch`), without which the second half of a copy
  says nothing of the first.  It is about what the owner's thread writes; an
  interrupt that falls into a copy leaves its counters mixed, and the theorem shows
  that it leaves nothing else so.
- `DecoderProofs`: `TextsTerminated`, `FlagsAreTrue`, `ShiftIsParity`,
  `EofResynchronises`, `EveryChangeCounted`, from `ParserInv`: queue, buffers and
  message stay inside their arrays with a terminator where the code puts it
  (`Shapes`), flags are raised only by a publication they are true of
  (`FlagInv`), and SHIFT is the parity of the presses published.  The parity
  survives the wrap of the press counter because its modulus is even
  (`DecoderAssumption`; 256 in the code, a `uint8_t`).
  `MessagesAreWhole` (`MessageWhole`) needs `WholeInv`: while no reset and no
  overflow has touched the frame at hand, the working text is the rendering of the
  bytes taken so far, or will be once it is cleared, and its index is the number
  of places they fill (one more byte moves no earlier one, `OneByteMore`).
  `PublishedIsCString`: what is published has a terminator, and nothing but
  terminators after it; the layout theorems assume exactly that of a message.
- `DisplayProofs`: `DisplayTypeCorrect`, `ShownIsOldOrTrusted` (from `HeldIsLast`: what
  is held back is the message published last), and for any cells
  and indicators `VisibleCellsCurrent` and `VisibleLightsCurrent`: what a buffer
  is thought to show is what it shows, for both buffers, whichever is visible.
  For the lights this needs of a theme (`ThemeAssumption`) that of indicators
  at one place all but the first have mode 2, and that one of mode 2 has an earlier
  one of mode 1 at its place.
  `LayoutShows` is about the recursive functions of the layout and holds of every
  terminated text, where the run has a handful: the loop's source of a column
  (`SourceCounts`, `SourcesGrow`), that no mark is taken in by two cells
  (`TakenInOnce`), the characters one cell shows, blanks only for those that are not
  legible (`CellShowsNext`, `BlankUnlessLegible`), and what the
  cells up to a column show together (`FirstGrows`).  Induction over columns is by
  `CountingUp`, from the well-foundedness of < on the naturals.  `ToldIsShown`
  (`[]ToldAsShown`) rests on it and on `ToldInv`: the cells on the display and the
  text that is told, and those of the message that is coming, are a text and its
  layout.
- `ServicesProofs`: `LogClientStays` from `NetworkInv`: what is known of the client
  at each step of the boot (`ClientInv`).  `RejoinsArePaced` from `PaceInv`: once the
  link is polled, the time since the last change of status is at most the time since
  the last attempt or the last link that was up (`SinceInv`), because at each step of
  the boot it is known what has been noted (`OrderInv`), and a joined link was
  noted as one (`LinkInv`).  `WritesLive` from `WriteInv`: until the timeout a reading is
  exactly as old as the last write, unless default and written value are equal.
- `StatusPagesProofs`: `PagesHeapSound` and `PagesComeWhole` from `PagesInv`: a
  handler points at an allocated block which the other one does not point at, and
  while a page is not overlapped its handler is its own.
- `ConsoleProofs`: `RefusalsChangeNothing`, `SensorsAreSpelled`, `UploadsAreWhole`
  (`RefusedChangesNothing`, `OwnSensorOnly`, `UploadAllOrNothing`), for any lines of
  commands, documents, built-in configuration and faults, from `ConsoleInv`: the
  configuration has all of its sensors whatever text it was read from
  (`SensorsWhole`), each handler still to run was called with a segment of the
  command at hand after a stack of its segments (`Queue`), and a text that is
  being pasted has not ended (`Pasted`).  Without `Queue` nothing ties the number a
  handler finds on the stack to the command it belongs to; it comes from
  `RunCmdSpells`, an induction over the walk of `run_cmd` in whatever tables.
  Every setter that refuses returns the old value (`RefusedSetting`, kind by kind),
  and every handler is `Handled`: it accepts, refuses or leaves alone.
  `SavesSurvive` (`SavedSurvives`) needs `SavedInv` beside it: the configuration in
  use is `Storable` (every list has its length, no access list says more bits than an
  address has, a public key is of the type it says), which every setter, upload and
  start keeps, and every file is `Readable` (a text, or an object of the right
  types), which every call of the flash keeps, copies over the configuration
  included.  Without `Storable` a value may be saved that reading clamps or passes
  over.  The round trip itself is `WrittenComesBack`, field by field; that a list
  which is filtered, written, read and padded is written again as it was is
  `IpListComesBack`, `AclListComesBack` and `PubkeysComeBack`, from lemmas about
  `Picked` (`PickedIsFrom`, `PickedPrefix`) for lists of any length.

Each module's assumptions on its constants (`CaptureAssumption` and its like) are
all that is used; of the console they are also that lines are split into words
(`LinesAssumption`) and that the built-in configuration and what is pasted, if it is
JSON at all, has numbers where numbers belong and lists where lists do
(`JsonAssumption`).  Only model-checked: the assumptions of the `*Checks` modules
(their operators fold over data of any length), and all liveness (`ResetAnswered`, `ResetShown`, `SettlesOnLast`, `ConfigArrives`,
`StateArrives`, `CommandRuns`, `StatusFollows`, `KeepsTrying`, `RoundsComplete`,
`Reverts`, `PasteEnds`), which is out of the prover's reach under fairness.

## 5. Not modelled, and why

Drivers of the LCD controller and the panel and the themes' geometry (pure I/O);
generated code (the message patterns, `lcdpico_fsdata.c`); libraries in
submodules (lwIP, littlefs, telnet and SSH servers, cJSON, sensor drivers), which
appear only as the environment of what calls them; the wording of answers, log
messages, dates and numbers; the LED and the report of slow rounds in the main
loop; the saved wall clock; pasted lines longer than the buffer of `config.c`;
handles and memory that the failure paths of `flash_copy_file`
leave open.  The HTTP server's interrupt reads `core0_state`
with no lock and may see half of one state and half of the next
(`lcd-pico.c:369`): an interrupt of the core that holds the lock cannot wait for
it, and no document promises more, so no property is stated.

## 6. Divergences noticed while modelling

The four `violation` runs show one each (PROJECT.json, `findings`).  The models
have the following as the code has it; where a property would otherwise fail, its
statement names the exception.

Network.
- With a static address, or in synchronous mode, no lease and no later callback
  opens the log client: the configured server is never used.
- The log server of a lease that comes before the end of `wifi_init` is
  overwritten by the configured one even if that is 0.0.0.0 (`network.c:429`).
- A `wifi_init` that returns early never rejoins, although `commands.md` says the
  system "will automatically attempt to rejoin" (SYStem:WIFI:REJOIN).
- `valid_wifi_country` ignores what follows the third character.
- The link may come up in an interrupt between the decision to join again and
  `wifi_rejoin` (`network.c:530`), which takes it down.
- A zone of one character is stored when a lease brings it (`dhcp.c:109`), and not
  when the configuration has it (`lcd-pico.c:297`).

Display and cores.
- A leading mark and the last of repeated marks take a cell of their own and show
  there as blanks: no theme has tiles for them (`display.c:174`).
- `core1_gpio_callback` writes the state that core 1's loop copies under
  `state_mutex` (`lcd-pico.c:451`): SYS:DEBUG may print counters from before an
  interrupt next to counters from after it.
- `setup_i2c_bus` writes `cfg` without `config_mutex` after core 1 was launched
  (`i2c.c:120`); core 1 does not use what it writes.

Commands and settings.
- `uint8_setting` and `uint16_setting` cut the number to the variable before they
  compare it with the limits (`command_util.c:342`): SYS:BACKLIGHT 300 is taken,
  as 44, where `commands.md:574` says "Range: 0 - 100".
- A command of chained leaves is refused as its last leaf is: `SYS:LED:ECHO 2` sets
  the LED mode and then reports a syntax error, because every leaf gets the argument
  and runs whatever the one before it returned (`command_util.c:79`).
- `CONF:VSENSORx:SOURCE INTERNAL` reports a syntax error for what it has set.
- An LED mode out of range, a public key that is refused and a save that fails
  report success.
- A blank line right after `SYS:TLS:PKEY` or `CERT` ends the paste.

Flash and configuration.
- Errors of a write are stored in an unsigned variable and taken for a length.
- `flash_copy_file` closes a file it has not opened when the target exists, and
  leaves the source open.
- A mask of all virtual sensors is not saved (`config.c:439`), and a file
  without it is loaded as none, because `clear_config` leaves 0: a unit that
  starts with the built-in default ("1-8", also in `commands.md:720`), saves and
  restarts shows no virtual sensor on its status page.
  Names set to nothing are not saved either.
- A list of DNS or NTP servers whose first place is empty is not saved at all
  (`config.c:395`, `:403`), whatever its other places hold; a pasted configuration
  can leave such a list.
- An upload drops the contexts of the I2C sensors: they are not read again until
  a restart.

Sensors and pages.
- `commands.md:288` says internal sensors are "not currently read by the
  firmware"; `read_temps` reads them.
- A sensor changed to I2C at run time is read with the context it had at boot, or
  not at all, until a restart.  Changed to manual it keeps humidity and pressure
  of the device until the timeout.
- A page requested while another of its kind is handed out, or after one was
  abandoned, leaks that one's buffer; overlapping connections get mixed texts.
- The bar graph is computed from places of `input_buf` that a short frame has not
  written (`decoder_34401a.c:119`); nothing reads it.

## 7. What is left

The plan of the modules is done, and every safety property of a passing run is a
theorem.  Worth adding: the readers of `core0_state` in interrupts, should the code
come to promise them a whole state; `CoreSync` with the SSH and telnet servers as further writers;
larger instances of `console` for lines of three commands.
