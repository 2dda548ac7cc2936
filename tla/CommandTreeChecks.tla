--------------------------- MODULE CommandTreeChecks ---------------------------
(***************************************************************************)
(* What the user of the command tree relies on, checked over every row of  *)
(* its tables.  The module is extended by the module of a run, so that TLC *)
(* evaluates its assumptions.                                              *)
(***************************************************************************)
EXTENDS Integers, Sequences, FiniteSets
LOCAL T == INSTANCE CommandTree

LOCAL Word(w, q) == [w |-> w, n |-> << >>, q |-> q]
LOCAL Cmd(root, words) == [root |-> root, segs |-> [i \in DOMAIN words |-> Word(words[i], FALSE)]]
LOCAL Funcs(st) == [i \in DOMAIN st.calls |-> st.calls[i].func]

(* Every row can be reached: no earlier row of its table takes the words   *)
(* that are meant for it (run_cmd takes the first row that matches).       *)
ASSUME NoShadowing ==
  \A level \in DOMAIN T!Tables : \A i \in DOMAIN T!Tables[level] :
    LET row == T!Tables[level][i]
    IN T!Found(level, Word(row[1], FALSE)) = << row >>

(* A row has subcommands or a handler, and the tables form one tree below  *)
(* the root.                                                               *)
ASSUME OneTree ==
  LET rows(level) == {T!Tables[level][i] : i \in DOMAIN T!Tables[level]}
      above(level) == {up \in DOMAIN T!Tables : \E r \in rows(up) : r[2] = level}
  IN /\ \A level \in DOMAIN T!Tables : \A r \in rows(level) :
          (r[2] # "" \/ r[3] # "") /\ r[2] \in DOMAIN T!Tables \cup {""}
     /\ \A level \in DOMAIN T!Tables :
          Cardinality(above(level)) = IF level = "commands" THEN 0 ELSE 1

(* A command that begins with ":" or "*" means the same whatever the       *)
(* commands before it on the line left as the level and the stack.         *)
ASSUME AbsoluteCommands ==
  \A level \in DOMAIN T!Tables, words \in {<< "SYS", "LED" >>, << "*RST" >>, << "LED" >>} :
    T!RunCmd(Cmd(TRUE, words), level, << Word("VSENSOR", FALSE) >>)
      = T!RunCmd(Cmd(TRUE, words), "commands", << >>)

(* Both halves of a command separated by ":" after a leaf are run, the     *)
(* result being that of the last; nothing is run of an unknown word, and   *)
(* what was run before it stays run.                                       *)
ASSUME LeavesChain ==
  LET run(words) == Funcs(T!RunCmd(Cmd(TRUE, words), "commands", << >>))
  IN /\ run(<< "SYS", "ECHO", "LED" >>) = << "echo", "led" >>
     /\ run(<< "SYS", "ECHO", "XXXX" >>) = << "echo" >>
     /\ run(<< "MEASURE" >>) = << >> /\ run(<< "SYS", "XXXX", "LED" >>) = << >>
     /\ run(<< "CONF", "VSENSOR", "NAME" >>) = << "vsensor_name" >>

(* Every result of a handler, and of none, has its text for SYS:ERR?. *)
ASSUME EveryErrorHasText == \A res \in -1 .. 2 : T!ErrorNum(res) \in DOMAIN T!ErrorText
=============================================================================
