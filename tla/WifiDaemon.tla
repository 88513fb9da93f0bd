----------------------------- MODULE WifiDaemon -----------------------------
(***************************************************************************)
(* The pid-file helpers of src/wifi/utils.py: babysit (96-113), check_pid *)
(* (144-162) and kill_pid (165-188), called one after the other by         *)
(* /bin/wifi processes (they hold the wifi lock) on one program.           *)
(*                                                                         *)
(* The programs they run are the environment, as the code's comments      *)
(* describe them: babysit runs startpid, which writes its pid to the pid  *)
(* file and becomes the program; when the program exits babysit runs it   *)
(* again after retry_timeout.  pkillwait -f program kills every process   *)
(* whose command line names the program (the babysit wrapper's does) and  *)
(* waits for them; killpid kills the pid in the pid file.  Each may exit  *)
(* non-zero, which check_call turns into CalledProcessError.               *)
(***************************************************************************)
EXTENDS Integers

CONSTANTS
  MaxStarts,  \* bound: babysit calls
  MaxCalls,   \* bound: helper calls
  NoPid       \* model value: no pid file

Inst == 1 .. MaxStarts   \* babysit invocations, by order

VARIABLES
  sitter,     \* per invocation: its babysit process is "alive" or "none"
  prog,       \* per invocation: its program "none" (not started yet or
              \* killed with babysit), "running", "exited" (to be restarted)
  pidFile,    \* the invocation whose startpid wrote the pid file last
  started,    \* babysit calls made
  pc,         \* the helper running: "idle", or kill_pid at "pkillwait",
              \* "killpid", "remove"
  killOk,     \* kill_pid: no CalledProcessError so far
  op,         \* the last helper called: "none", "babysit", "check", "kill"
  result,     \* its outcome: "none", "true", "false", "raised"
  calls       \* helper calls made

vars == << sitter, prog, pidFile, started, pc, killOk, op, result, calls >>

Init ==
  /\ sitter = [i \in Inst |-> "none"]
  /\ prog = [i \in Inst |-> "none"]
  /\ pidFile = NoPid
  /\ started = 0
  /\ pc = "idle" /\ killOk = TRUE /\ op = "none" /\ result = "none"
  /\ calls = 0

Call(o) ==
  /\ pc = "idle" /\ calls < MaxCalls
  /\ calls' = calls + 1 /\ op' = o

(* babysit, lines 108-113: start babysit ... startpid pid_filename command *)
(* and return after two seconds, whether or not startpid has written the *)
(* pid file yet.                                                           *)
Babysit ==
  /\ Call("babysit") /\ started < MaxStarts
  /\ started' = started + 1
  /\ sitter' = [sitter EXCEPT ![started + 1] = "alive"]
  /\ result' = "none"
  /\ UNCHANGED << prog, pidFile, pc, killOk >>

(* check_pid, lines 156-162: read the pid file (IOError raises            *)
(* BinWifiException) and return whether kill -0 of the pid succeeds.      *)
CheckPid ==
  /\ Call("check")
  /\ result' = IF pidFile = NoPid THEN "raised"
               ELSE IF prog[pidFile] = "running" THEN "true" ELSE "false"
  /\ UNCHANGED << sitter, prog, pidFile, started, pc, killOk >>

(* kill_pid, line 175: pkillwait -f program.                               *)
KillPid ==
  /\ Call("kill")
  /\ pc' = "pkillwait" /\ killOk' = TRUE /\ result' = "none"
  /\ UNCHANGED << sitter, prog, pidFile, started >>

(* pkillwait exits 0 once every babysit and program is gone; exiting      *)
(* non-zero it may have killed them or not, and the except clause skips   *)
(* killpid (lines 177-179).                                               *)
Pkillwait ==
  /\ pc = "pkillwait"
  /\ \/ /\ sitter' = [i \in Inst |-> "none"] /\ prog' = [i \in Inst |-> "none"]
        /\ pc' = "killpid" /\ UNCHANGED killOk
     \/ /\ \E killed \in BOOLEAN :
             IF killed THEN sitter' = [i \in Inst |-> "none"] /\ prog' = [i \in Inst |-> "none"]
             ELSE UNCHANGED << sitter, prog >>
        /\ pc' = "remove" /\ killOk' = FALSE
  /\ UNCHANGED << pidFile, started, op, result, calls >>

(* Line 176: killpid pid_filename kills the pid it names; it fails when   *)
(* there is no pid file, and may fail otherwise.                          *)
Killpid ==
  /\ pc = "killpid"
  /\ \/ /\ pidFile # NoPid
        /\ prog' = [prog EXCEPT ![pidFile] = IF @ = "running" THEN "exited" ELSE @]
        /\ UNCHANGED killOk
     \/ killOk' = FALSE /\ UNCHANGED prog
  /\ pc' = "remove"
  /\ UNCHANGED << sitter, pidFile, started, op, result, calls >>

(* Faulty variant: the failure is logged and True returned.               *)
KillResultIgnoringFailure(ok) == "true"

(* Lines 177-188: False after a CalledProcessError, else True.            *)
KillResult(ok) == IF ok THEN "true" ELSE "false"

(* Lines 180-186, the finally block: os.remove(pid_filename); an OSError *)
(* while the file still exists propagates in place of the return value.   *)
RemovePid ==
  /\ pc = "remove"
  /\ \/ pidFile' = NoPid /\ result' = KillResult(killOk)
     \/ pidFile # NoPid /\ result' = "raised" /\ UNCHANGED pidFile
  /\ pc' = "idle"
  /\ UNCHANGED << sitter, prog, started, killOk, op, calls >>

(* startpid (environment): a babysit whose program is not running starts *)
(* it (again, after retry_timeout); the new pid is written to the file.   *)
StartProgram(i) ==
  /\ sitter[i] = "alive" /\ prog[i] # "running"
  /\ prog' = [prog EXCEPT ![i] = "running"]
  /\ pidFile' = i
  /\ UNCHANGED << sitter, started, pc, killOk, op, result, calls >>

(* The program exits or crashes (environment).                            *)
ProgramExits(i) ==
  /\ prog[i] = "running"
  /\ prog' = [prog EXCEPT ![i] = "exited"]
  /\ UNCHANGED << sitter, pidFile, started, pc, killOk, op, result, calls >>

Next ==
  \/ Babysit \/ CheckPid \/ KillPid \/ Pkillwait \/ Killpid \/ RemovePid
  \/ \E i \in Inst : StartProgram(i) \/ ProgramExits(i)

Spec == Init /\ [][Next]_vars

-----------------------------------------------------------------------------
(* kill_pid's docstring: it returns whether stopping the program          *)
(* succeeded.  When it has returned True no instance of the program runs,  *)
(* no babysit is left to restart one, and the pid file is gone, until the *)
(* next babysit.                                                           *)
KillPidStopped ==
  (op = "kill" /\ pc = "idle" /\ result = "true") =>
    /\ \A i \in Inst : sitter[i] = "none" /\ prog[i] # "running"
    /\ pidFile = NoPid
=============================================================================
