----------------------------- MODULE WifiConfig -----------------------------
(***************************************************************************)
(* /bin/wifi processes that take the lock of WifiLock and, holding it,    *)
(* rewrite a config file with atomic_write (src/wifi/utils.py, 42-61).     *)
(*                                                                         *)
(* atomic_write opens filename.new for writing (creating it, or           *)
(* truncating one a failed writer left behind), writes the data, closes    *)
(* it and renames it over filename; an IOError or OSError at any of these *)
(* becomes BinWifiException and the process exits.  The file system is     *)
(* the directory (name -> inode) and the data of each inode; a reader of   *)
(* filename (read_or_empty) sees the data of the inode the name points at. *)
(* Each process writes once, so an inode is the initial "i0" or the one   *)
(* the process that created filename.new owns.                             *)
(***************************************************************************)
EXTENDS WifiLock

CONSTANT NoFile   \* model value: a name that is not in the directory

FileNames == {"cfg", "new"}
Inodes == {"i0"} \cup Procs

(* Faulty variant: the data is written to filename itself.                *)
TmpNameSame == "cfg"

(* Line 55: tmp_filename = filename + '.new'.                              *)
TmpName == "new"

VARIABLES
  dir,      \* name -> inode, or NoFile
  data,     \* inode -> "old" (the initial config), "empty" (truncated),
            \* "torn" (part of a write), or the process whose data it holds
  fd,       \* per process: the inode its open file refers to, or NoFile
  wpc,      \* per process: "none", "opened", "written", "renamed"
  lastWriter \* history: whose atomic_write returned last, or "old"

cfgVars == << dir, data, fd, wpc, lastWriter >>
allVars == << vars, cfgVars >>

InitConfig ==
  /\ Init
  /\ dir = [n \in FileNames |-> IF n = "cfg" THEN "i0" ELSE NoFile]
  /\ data = [i \in Inodes |-> IF i = "i0" THEN "old" ELSE "empty"]
  /\ fd = [p \in Procs |-> NoFile]
  /\ wpc = [p \in Procs |-> "none"]
  /\ lastWriter = "old"

(* The IOError or OSError of a step of atomic_write: BinWifiException      *)
(* (line 61) ends the /bin/wifi process; its lock file becomes stale.      *)
WriteFails(p) ==
  /\ pc' = [pc EXCEPT ![p] = "failed"]
  /\ UNCHANGED << timeout, alarmAt, child, tries, nextAt, lockOwner, now >>

(* Faulty variant: the file is opened without truncating it ('r+').       *)
OpenTmpNoTruncate(p) ==
  /\ pc[p] = "locked" /\ wpc[p] = "none"
  /\ \/ LET i == IF dir[TmpName] # NoFile THEN dir[TmpName] ELSE p
        IN  /\ dir' = [dir EXCEPT ![TmpName] = i]
            /\ fd' = [fd EXCEPT ![p] = i]
            /\ wpc' = [wpc EXCEPT ![p] = "opened"]
            /\ UNCHANGED << vars, data >>
     \/ WriteFails(p) /\ UNCHANGED << dir, data, fd, wpc >>
  /\ UNCHANGED lastWriter

(* Line 57: open(tmp_filename, 'w') creates the file or truncates it.     *)
OpenTmp(p) ==
  /\ pc[p] = "locked" /\ wpc[p] = "none"
  /\ \/ LET i == IF dir[TmpName] # NoFile THEN dir[TmpName] ELSE p
        IN  /\ dir' = [dir EXCEPT ![TmpName] = i]
            /\ data' = [data EXCEPT ![i] = "empty"]
            /\ fd' = [fd EXCEPT ![p] = i]
            /\ wpc' = [wpc EXCEPT ![p] = "opened"]
            /\ UNCHANGED vars
     \/ WriteFails(p) /\ UNCHANGED << dir, data, fd, wpc >>
  /\ UNCHANGED lastWriter

(* Line 58 and the close of the with block: tmp.write(data).  Written     *)
(* over another writer's data (only possible when two processes hold the *)
(* lock) the file holds this data or a mix of the two.  A failed write    *)
(* (ENOSPC) leaves part of the data.                                       *)
WriteTmp(p) ==
  /\ pc[p] = "locked" /\ wpc[p] = "opened"
  /\ \/ /\ \E v \in IF data[fd[p]] = "empty" THEN {p} ELSE {p, "torn"} :
             data' = [data EXCEPT ![fd[p]] = v]
        /\ wpc' = [wpc EXCEPT ![p] = "written"]
        /\ UNCHANGED vars
     \/ /\ data' = [data EXCEPT ![fd[p]] = "torn"]
        /\ WriteFails(p) /\ UNCHANGED wpc
  /\ UNCHANGED << dir, fd, lastWriter >>

(* Line 59: os.rename(tmp_filename, filename); it fails (ENOENT) when    *)
(* another process has renamed tmp_filename away already.                 *)
RenameTmp(p) ==
  /\ pc[p] = "locked" /\ wpc[p] = "written"
  /\ \/ /\ dir[TmpName] # NoFile
        /\ dir' = [n \in FileNames |->
                     IF n = "cfg" THEN dir[TmpName]
                     ELSE IF n = TmpName THEN NoFile ELSE dir[n]]
        /\ wpc' = [wpc EXCEPT ![p] = "renamed"]
        /\ lastWriter' = p
        /\ UNCHANGED vars
     \/ WriteFails(p) /\ UNCHANGED << dir, wpc, lastWriter >>
  /\ UNCHANGED << data, fd >>

(* The caller unlocks once atomic_write has returned.                     *)
UnlockAfterWrite(p) == wpc[p] = "renamed" /\ Unlock(p) /\ UNCHANGED cfgVars

NextConfig ==
  \/ \E p \in Procs :
       \/ \E t \in Timeouts : CallLock(p, t) /\ UNCHANGED cfgVars
       \/ (Attempt(p) \/ CallReturns(p) \/ AlarmFires(p)) /\ UNCHANGED cfgVars
       \/ OpenTmp(p) \/ WriteTmp(p) \/ RenameTmp(p) \/ UnlockAfterWrite(p)
  \/ Tick /\ UNCHANGED cfgVars

SpecConfig == InitConfig /\ [][NextConfig]_allVars

-----------------------------------------------------------------------------
(* atomic_write's docstring: the write is atomic, so whatever step of it  *)
(* fails, and however the processes interleave, a reader of filename sees *)
(* a whole version of it, the old one or one a process wrote.             *)
ConfigComplete ==
  dir["cfg"] # NoFile /\ data[dir["cfg"]] \notin {"empty", "torn"}

(* The config holds the data of the atomic_write that returned last: a   *)
(* call that returned is not undone by another still writing.             *)
ConfigIsLastWritten == data[dir["cfg"]] = lastWriter
=============================================================================
