----------------------------- MODULE FlashChecks -----------------------------
(***************************************************************************)
(* The files and keys of module FlashFiles against what the commands that  *)
(* use them rely on, over small file systems and every set of failing      *)
(* calls; extended by the module of a run.                                 *)
(***************************************************************************)
EXTENDS Integers, Sequences, FiniteSets
LOCAL F == INSTANCE FlashFiles

LOCAL Kinds == {F!NoFile, F!Empty, [text |-> F!Raw("x"), size |-> 2]}
LOCAL Disks == [{"a", "b", "c"} -> Kinds]
LOCAL Calls == {"mount", "open", "create", "stat", "read", "write", "close", "remove", "rename"}
LOCAL Faults == {{}} \cup {{f} : f \in Calls} \cup {{"write", "close"}, {"create", "read"}}
LOCAL Y == F!Raw("y")

(* A call on a file leaves the others alone, whatever fails, and a call    *)
(* that says it failed before it wrote has changed nothing.                *)
ASSUME OthersKept ==
  \A d \in Disks, faults \in Faults :
    LET w == F!FlashWriteFile(d, "a", Y, 1, faults)
        r == F!FlashRenameFile(d, "a", "b", faults)
        x == F!FlashDeleteFile(d, "a", faults)
        k == F!FlashCopyFile(d, "a", "b", TRUE, faults)
    IN /\ \A n \in {"b", "c"} : w.files[n] = d[n] /\ x.files[n] = d[n]
       /\ r.files["c"] = d["c"] /\ k.files["c"] = d["c"] /\ k.files["a"] = d["a"]
       /\ \A op \in {w, r, x} : op.ret # 0 => op.files = d

(* What was written is read back, unless a longer file was there; and a    *)
(* file is never half of one text: a write that failed leaves the old file *)
(* or an empty new one (although flash_write_file then returns success).   *)
ASSUME WrittenWhole ==
  \A d \in Disks, faults \in Faults :
    LET w == F!FlashWriteFile(d, "a", Y, 1, faults)
    IN /\ faults = {} => /\ F!FlashReadFile(w.files, "a", {}).text = Y
                         /\ F!FlashFileSize(w.files, "a", {}) >= 1
       /\ w.files["a"].text \in {Y, d["a"].text, F!Raw("")}

(* A copy does not touch an existing file unless it was told to overwrite  *)
(* it, and a whole copy of a file into a new one equals it.                *)
ASSUME CopyKeepsTarget ==
  \A d \in Disks, faults \in Faults :
    /\ F!Exists(d, "b") => F!FlashCopyFile(d, "a", "b", FALSE, faults).files = d
    /\ LET k == F!FlashCopyFile(d, "a", "b", FALSE, {})
       IN k.ret = 0 => k.files["b"] = d["a"]

(* A renamed file is where it was moved to, and is not lost on itself. *)
ASSUME RenameMoves ==
  \A d \in Disks, new \in {"a", "b"} :
    LET r == F!FlashRenameFile(d, "a", new, {})
    IN r.ret = 0 => r.files[new] = d["a"] /\ (new # "a" => ~F!Exists(r.files, "a"))

(* The two listings agree with each other and with what can be opened; a   *)
(* file system that mounts is never made anew.                             *)
ASSUME ListingsAgree ==
  \A d \in Disks :
    LET lines == F!FlashListDirectory(d, {})
        info == F!FlashGetFsInfo(d, 8, 2, 16, {})
    IN /\ info.files = Cardinality(lines) /\ info.size = info.free + 32
       /\ \A n \in DOMAIN d : (F!FlashReadFile(d, n, {}).ret = 0)
                                 = (\E l \in lines : l = << n, d[n].size >>)
       /\ F!LfsSetup(d, {"format"}) = d /\ F!LfsSetup(d, {}) = d

-----------------------------------------------------------------------------
LOCAL KeyFiles == {F!PkeyAlgorithms[i].filename : i \in 1 .. 3}
LOCAL KeyDisks == [KeyFiles -> Kinds]

(* Creating keys replaces none there is, makes those asked for that can be *)
(* made, and SYS:SSH:KEY? shows what the SSH server then finds; an empty    *)
(* file is shown and found as a key.                                       *)
ASSUME KeysCreated ==
  \A d \in KeyDisks, arg \in {"ALL", "RSA", "none"},
     made \in {{}, {"RSA"}, {"RSA", "ECDSA", "ED25519"}} :
    LET c == F!SshCreatePkey(d, arg, made, {})
    IN /\ \A f \in KeyFiles : d[f].size > 0 => c.files[f] = d[f]
       /\ c.ret = 0 <=> c.files # d
       /\ \A i \in 1 .. 3 : (i \in F!SshListPkeys(c.files, {}))
                              = (F!SshGetPkey(c.files, i - 1, {}) = 1)
       /\ arg = "ALL" => \A i \in 1 .. 3 :
            F!PkeyAlgorithms[i].name \in made => c.files[F!PkeyAlgorithms[i].filename].size > 0

(* A public key that is listed can be entered again as it is shown. *)
ASSUME PubkeyRoundTrip ==
  \A key \in {"k1", "k2"}, name \in {"", "n"} :
    LET k == [username |-> "", type |-> "rsa", key |-> key, name |-> name]
        p == F!StrToSshPubkey(F!SshPubkeyToStr(k), [x \in {"k1"} |-> "rsa"])
    IN IF key = "k1" THEN p = [ret |-> 0, key |-> k] ELSE p.ret = 1

=============================================================================
