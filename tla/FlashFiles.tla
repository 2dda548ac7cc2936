------------------------------ MODULE FlashFiles ------------------------------
(***************************************************************************)
(* The files in flash (flash.c) and the keys kept in them (ssh_util.c).    *)
(*                                                                         *)
(* The file system is external (littlefs): a write is committed when the    *)
(* file is closed, and not at all once a write to it has failed.  `files`   *)
(* maps every name to NoFile or to [text, size]; `faults` are the calls of  *)
(* the library that fail.  An operator's `ret` is what the function         *)
(* returns.                                                                *)
(***************************************************************************)
EXTENDS Integers, Sequences, FiniteSets, SequencesExt

NoText == ""

(* The items of a list at the places in I, in their order *)
Picked(list, I) ==
  LET upto[i \in 0 .. Len(list)] ==
        IF i = 0 THEN << >>
        ELSE IF i \in I THEN Append(upto[i - 1], list[i]) ELSE upto[i - 1]
  IN upto[Len(list)]

Raw(what) == [raw |-> what]        \* a text that is no JSON object
NoFile == [text |-> Raw("none"), size |-> -1]
Empty == [text |-> Raw(NoText), size |-> 0]
Exists(files, name) == files[name].size >= 0

(* The size is that of the longer text: a file is opened without being     *)
(* truncated, so the end of an old one stays behind a new one's end.       *)
Overwritten(old, text, size) ==
  [text |-> text, size |-> IF old.size > size THEN old.size ELSE size]
Created(files, name) == IF Exists(files, name) THEN files
                        ELSE [files EXCEPT ![name] = Empty]

-----------------------------------------------------------------------------
(* lfs_setup: a file system that cannot be mounted is made anew. *)
LfsSetup(files, faults) ==
  IF "mount" \notin faults \/ "format" \in faults THEN files
  ELSE [n \in DOMAIN files |-> NoFile]

(* flash_format *)
FlashFormat(files, faults) ==
  IF "format" \in faults THEN [ret |-> 1, files |-> files]
  ELSE [ret |-> 0, files |-> [n \in DOMAIN files |-> NoFile]]

(* flash_read_file: sizes are unsigned, so the negative result of a read   *)
(* that failed passes for a long one, and the buffer is what malloc gave.  *)
FlashReadFile(files, name, faults) ==
  IF "mount" \in faults THEN [ret |-> -1, text |-> Raw(NoText)]
  ELSE IF ~Exists(files, name) \/ "open" \in faults THEN [ret |-> -3, text |-> Raw(NoText)]
  ELSE IF files[name].size = 0 THEN [ret |-> 0, text |-> Raw(NoText)]
  ELSE IF "memory" \in faults THEN [ret |-> -4, text |-> Raw(NoText)]
  ELSE [ret |-> 0, text |-> IF "read" \in faults THEN Raw("uninitialised")
                            ELSE files[name].text]

(* flash_write_file: likewise a failed write passes for a long one, and    *)
(* what closing the file returned is not looked at.                        *)
FlashWriteFile(files, name, text, size, faults) ==
  IF "mount" \in faults THEN [ret |-> -1, files |-> files]
  ELSE IF "open" \in faults THEN [ret |-> -2, files |-> files]
  ELSE [ret |-> 0,
        files |-> IF faults \cap {"write", "close"} # {} THEN Created(files, name)
                  ELSE [files EXCEPT ![name] = Overwritten(@, text, size)]]

(* flash_delete_file and flash_rename_file; a file of the new name goes. *)
FlashDeleteFile(files, name, faults) ==
  IF "mount" \in faults THEN [ret |-> -1, files |-> files]
  ELSE IF ~Exists(files, name) \/ "stat" \in faults THEN [ret |-> -2, files |-> files]
  ELSE IF "remove" \in faults THEN [ret |-> -3, files |-> files]
  ELSE [ret |-> 0, files |-> [files EXCEPT ![name] = NoFile]]

FlashRenameFile(files, old, new, faults) ==
  IF "mount" \in faults THEN [ret |-> -1, files |-> files]
  ELSE IF ~Exists(files, old) \/ "stat" \in faults THEN [ret |-> -2, files |-> files]
  ELSE IF "rename" \in faults THEN [ret |-> -3, files |-> files]
  ELSE [ret |-> 0, files |-> [files EXCEPT ![new] = files[old],
                                           ![old] = IF old = new THEN @ ELSE NoFile]]

(* flash_copy_file: nothing is copied over an existing file unless         *)
(* `overwrite` says so; a target whose write failed stays, empty.          *)
FlashCopyFile(files, src, dst, overwrite, faults) ==
  IF "mount" \in faults THEN [ret |-> -1, files |-> files]
  ELSE IF "memory" \in faults \/ "open" \in faults \/ ~Exists(files, src)
  THEN [ret |-> -2, files |-> files]
  ELSE IF "create" \in faults \/ (Exists(files, dst) /\ ~overwrite)
  THEN [ret |-> -3, files |-> files]
  ELSE IF "read" \in faults THEN [ret |-> -4, files |-> Created(files, dst)]
  ELSE IF "write" \in faults /\ files[src].size > 0
  THEN [ret |-> -5, files |-> Created(files, dst)]
  ELSE [ret |-> 0,
        files |-> IF "close" \in faults THEN Created(files, dst)
                  ELSE [files EXCEPT ![dst] = Overwritten(@, files[src].text, files[src].size)]]

(* flash_file_size *)
FlashFileSize(files, name, faults) ==
  IF "mount" \in faults THEN -1
  ELSE IF ~Exists(files, name) \/ "stat" \in faults THEN -2
  ELSE files[name].size

(* littlefs_scan_dir: files and their bytes.  The firmware never makes a    *)
(* directory, so there is none to go down into.                            *)
LittlefsScanDir(files) ==
  LET found == {n \in DOMAIN files : Exists(files, n)}
  IN [files |-> Cardinality(found), dirs |-> 0,
      total |-> FoldLeft(LAMBDA sum, n : sum + files[n].size, 0, SetToSeq(found))]

(* flash_get_fs_info *)
FlashGetFsInfo(files, blocks, used, block_size, faults) ==
  IF "mount" \in faults THEN [ret |-> -2]
  ELSE [ret |-> 0, size |-> blocks * block_size, free |-> (blocks - used) * block_size]
         @@ LittlefsScanDir(files)

(* littlefs_list_dir and flash_list_directory: the files' lines *)
FlashListDirectory(files, faults) ==
  IF "mount" \in faults THEN {}
  ELSE {<< n, files[n].size >> : n \in {m \in DOMAIN files : Exists(files, m)}}

-----------------------------------------------------------------------------
(* pkey_algorithms *)
PkeyAlgorithms ==
  << [name |-> "ECDSA", filename |-> "ssh-ecdsa.der"],
     [name |-> "ED25519", filename |-> "ssh-ed25519.der"],
     [name |-> "RSA", filename |-> "ssh-rsa.der"] >>

(* ssh_create_pkey: each algorithm that is asked for and has no key yet;   *)
(* `made` names the algorithms whose generation succeeds.  Out of memory    *)
(* ends the loop at the first of them, with nothing written.               *)
SshCreatePkey(files, arg, made, faults) ==
  LET lacking == {i \in DOMAIN PkeyAlgorithms :
                    /\ arg \in {"ALL", PkeyAlgorithms[i].name}
                    /\ FlashFileSize(files, PkeyAlgorithms[i].filename, faults) <= 0}
      keys == {PkeyAlgorithms[i].filename : i \in {j \in lacking : PkeyAlgorithms[j].name \in made}}
      write(name) == FlashWriteFile(files, name, Raw("key"), 1, faults)
  IN IF "memory" \in faults /\ lacking # {} THEN [ret |-> 2, files |-> files]
     ELSE [ret |-> IF \E n \in keys : write(n).ret = 0 THEN 0 ELSE 1,
           files |-> [n \in DOMAIN files |-> IF n \in keys THEN write(n).files[n] ELSE files[n]]]

(* ssh_delete_pkey *)
SshDeletePkey(files, arg, faults) ==
  LET hits == {i \in DOMAIN PkeyAlgorithms : PkeyAlgorithms[i].name = arg}
  IN IF hits = {} THEN [ret |-> 1, files |-> files]
     ELSE LET d == FlashDeleteFile(files, PkeyAlgorithms[CHOOSE i \in hits : TRUE].filename, faults)
          IN [d EXCEPT !.ret = IF @ \in {-2, 0} THEN 0 ELSE 2]

(* ssh_get_pkey, of an index from 0: 1 a key, 0 none, negative for an error *)
SshGetPkey(files, index, faults) ==
  IF index < 0 THEN -1
  ELSE IF index >= Len(PkeyAlgorithms) THEN -2
  ELSE IF FlashReadFile(files, PkeyAlgorithms[index + 1].filename, faults).ret # 0 THEN 0 ELSE 1

(* ssh_list_pkeys: the lines that show a key *)
SshListPkeys(files, faults) ==
  {i \in DOMAIN PkeyAlgorithms :
     FlashReadFile(files, PkeyAlgorithms[i].filename, faults).ret = 0}

(* str_to_ssh_pubkey: of "type key name", where types gives the type that   *)
(* is found in the bytes of the texts that are keys.                       *)
TypeIn(types, key) == IF key \in DOMAIN types THEN types[key] ELSE NoText
NoPubkey == [username |-> NoText, type |-> NoText, name |-> NoText, key |-> NoText]
StrToSshPubkey(toks, types) ==
  IF Len(toks) < 2 \/ TypeIn(types, toks[2]) # toks[1] THEN [ret |-> 1, key |-> NoPubkey]
  ELSE [ret |-> 0,
        key |-> [username |-> NoText, type |-> toks[1], key |-> toks[2],
                 name |-> IF Len(toks) > 2 THEN toks[3] ELSE NoText]]

(* ssh_pubkey_to_str *)
SshPubkeyToStr(k) == << k.type, k.key >> \o IF k.name = NoText THEN << >> ELSE << k.name >>

=============================================================================
