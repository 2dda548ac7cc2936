---------------------------- MODULE NetworkChecks ----------------------------
(***************************************************************************)
(* The rules of module NetworkRules against what they are for, over small  *)
(* inputs; extended by the module of a run.                                *)
(***************************************************************************)
EXTENDS Integers, Sequences, FiniteSets
LOCAL N == INSTANCE NetworkRules

(* A name of an authentication type says what it is set to again, except   *)
(* "default", which is shown as the type it stands for; an unknown one is  *)
(* the default.                                                            *)
ASSUME AuthRoundTrip ==
  \A i \in DOMAIN N!AuthTypes :
    LET name == N!AuthTypes[i][1]
    IN N!AuthTypeName(N!AuthType(name).type) = IF i = 1 THEN "WPA2" ELSE name

(* Two states of the link are never shown alike, and before wifi_init has  *)
(* begun none but "inactive" is shown, whatever the driver says.           *)
ASSUME LinkTextsDiffer ==
  /\ \A a, b \in DOMAIN N!LinkText : a # b => N!LinkText[a] # N!LinkText[b]
  /\ \A a \in DOMAIN N!LinkText :
       N!StatusReply(FALSE, a, "", "", "")[1] = N!LinkText["INACTIVE"]

(* A country is two capitals and perhaps a digit from 1; what follows the  *)
(* third character is not looked at.  Every country is a valid hostname    *)
(* unless something else follows.                                          *)
LOCAL Classes == {"upper", "lower", "0", "1to9", "-", "other"}
ASSUME CountryForm ==
  \A c \in UNION {[1 .. n -> Classes] : n \in 0 .. 4} :
    /\ N!ValidWifiCountry(c) => Len(c) >= 2 /\ N!ValidHostname(SubSeq(c, 1, Len(c) - 1)
                                                 \o << IF Len(c) < 4 THEN c[Len(c)] ELSE "0" >>)
    /\ Len(c) = 4 => N!ValidWifiCountry(c) = N!ValidWifiCountry(SubSeq(c, 1, 3))

(* An access list lets in exactly what one of its networks holds, and all  *)
(* if it has no network, wherever the unused entries are.                  *)
LOCAL Entries == {[ip |-> a, prefix |-> p] : a \in {0, 5}, p \in 0 .. 3}
ASSUME AclExact ==
  \A acls \in UNION {[1 .. n -> Entries] : n \in 0 .. 3}, src \in 0 .. 7 :
    LET used == {i \in DOMAIN acls : acls[i].prefix > 0}
        inside == \E i \in used :
                    /\ src >= acls[i].ip - (acls[i].ip % 2^(3 - acls[i].prefix))
                    /\ src < acls[i].ip - (acls[i].ip % 2^(3 - acls[i].prefix))
                             + 2^(3 - acls[i].prefix)
    IN /\ N!TelnetAllows(3, acls, src) = (used = {} \/ inside)
       /\ N!SshAllows(3, acls, src) = N!TelnetAllows(3, acls, src)

(* The DHCP hook asks for the two options it wants and leaves the others   *)
(* as they were; the length grows with what it adds.                       *)
LOCAL Options == {[code |-> c, data |-> d] : c \in {53, 55, 57}, d \in {<< >>, << 1, 3 >>}}
ASSUME HookAddsOnly ==
  \A options \in UNION {[1 .. n -> Options] : n \in 0 .. 3} :
    LET new == N!Rebuilt(options, "REQUEST")
        asked == {i \in DOMAIN options : options[i].code = 55}
    IN /\ \A i \in DOMAIN options \ asked : new[i] = options[i]
       /\ N!OptionsLength(new) = N!OptionsLength(options) + 2 * Cardinality(asked)
       /\ N!Rebuilt(options, "DISCOVER") = options

(* A zone is put into effect only when it is new and none is configured. *)
ASSUME ZoneOnlyIfNew ==
  \A type \in {"ACK", "OFFER"}, len \in 0 .. 1, configured, old \in {"", "utc", "eet"} :
    LET set == N!ZoneOfOption(type, len, "eet", configured, old)
    IN set # "" => set # old /\ configured = "" /\ len > 0

(* A PEM text is taken only whole: from BEGIN to END. *)
LOCAL Lines == UNION {[1 .. n -> {"BEGIN", "END", "text", ""}] : n \in 0 .. 4}
ASSUME PemWhole ==
  \A lines \in Lines :
    LET r == N!ReadPem(lines)
    IN r.res = 1 => /\ r.kept[1] = "BEGIN" /\ r.kept[Len(r.kept)] = "END"
                    /\ Cardinality({i \in DOMAIN r.kept : r.kept[i] = "END"}) = 1

(* Names and numbers of log levels agree, both ways; the facilities have   *)
(* the numbers of RFC 3164.                                                *)
ASSUME LogNames ==
  /\ \A p \in 0 .. 7 : N!Str2LogPriority(N!LogPriority2Str(p)) = p
  /\ N!Str2LogPriority("NONE") = -1 /\ N!FacilityNumber("NONE") = -1
  /\ N!FacilityNumber("USER") = 1 /\ N!FacilityNumber("LOCAL7") = 23
  /\ \A f \in 0 .. 23, s \in 0 .. 7 : N!PriorityField(f, s) \div 8 = f

(* A message as urgent as another goes at least where the other goes;      *)
(* likewise debug output.                                                  *)
ASSUME UrgentGoesFurther ==
  \A p, q, l, s \in 0 .. 3 :
    p <= q => /\ N!LogRoute(q, l, s) \subseteq N!LogRoute(p, l, s)
              /\ N!DebugPrinted(q, l) => N!DebugPrinted(p, l)

(* An SSH server listens only with a key of its own and then knows its     *)
(* users, none otherwise; a Telnet server that listens does not need one,  *)
(* and asks for a password only if it was told to.                         *)
ASSUME ServersListen ==
  /\ \A keys \in UNION {[1 .. n -> {"good", "bad"}] : n \in 0 .. 2}, memory \in BOOLEAN :
       LET ssh == N!SshServer(TRUE, keys, memory, TRUE, {"pubkey"})
       IN /\ ssh.listening = (memory /\ \E k \in DOMAIN keys : keys[k] = "good")
          /\ ssh.users = IF ssh.listening THEN {"password", "pubkey"} ELSE {}
  /\ \A memory, auth \in BOOLEAN :
       LET telnet == N!TelnetServer(memory, auth)
       IN telnet.authenticates => telnet.listening /\ auth
  /\ \A cert, key \in {"read", "none"} : N!TlsConfig(cert, key, TRUE) => cert = key

(* syslog_init leaves either a client with its connection or nothing, and  *)
(* only with a client and a clock is a message sent.                       *)
ASSUME SyslogWholeOrNone ==
  \A memory, pcb, bound, connected, clock \in BOOLEAN :
    LET s == N!SyslogInit(memory, pcb, bound, connected)
    IN /\ s.context = (s.pcbs = 1)
       /\ N!SyslogMsg(s.context, clock) = 0 => s.pcbs = 1 /\ clock

=============================================================================
