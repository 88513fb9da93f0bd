------------------------------ MODULE WifiLock ------------------------------
(***************************************************************************)
(* lock() and unlock() of src/wifi/utils.py: /bin/wifi processes that      *)
(* serialise on a lock file.                                               *)
(*                                                                         *)
(* lock(lockfile, timeout_sec) arms SIGALRM for timeout_sec seconds and     *)
(* runs lockfile-create --use-pid --retry N, N from                        *)
(* _lockfile_create_retries; the alarm handler raises BinWifiException.    *)
(* lockfile-create is an external program; it is modelled as the          *)
(* docstring of _lockfile_create_retries describes it: an attempt at once, *)
(* then retry i after sleeping 5*i seconds, giving up after N retries; a  *)
(* lock file whose pid is dead is stale and taken over (--use-pid).       *)
(* subprocess.call's exit status is not looked at.                        *)
(*                                                                         *)
(* Time is counted in whole seconds by the variable now; a step that is   *)
(* due at now (an attempt, an alarm, the return of the call) happens      *)
(* before time moves on.                                                   *)
(***************************************************************************)
EXTENDS Integers, FiniteSets, TLC

CONSTANTS
  Procs,      \* the /bin/wifi processes contending for one lock file
  Timeouts,   \* timeout_sec values the callers pass
  MaxTime,    \* bound: seconds of time modelled
  NoOwner,    \* model value: no lock file
  NoAlarm     \* model value: no alarm pending

RETRY_STEP == 5   \* seconds added to each successive retry's sleep

(* Faulty variant: the retry count solved for timeout_sec, not           *)
(* timeout_sec + 1.                                                        *)
RetriesNoMargin(timeoutSec) ==
  CHOOSE r \in 0 .. timeoutSec + 1 :
    /\ RETRY_STEP * r * (r + 1) >= 2 * timeoutSec
    /\ \A q \in 0 .. r - 1 : RETRY_STEP * q * (q + 1) < 2 * timeoutSec

(* _lockfile_create_retries, lines 312-339: the ceiling of the positive   *)
(* root of 2.5 r^2 + 2.5 r = timeout_sec + 1, i.e. the least r whose      *)
(* 5 * r * (r + 1) / 2 seconds of retries reach timeout_sec + 1.           *)
Retries(timeoutSec) ==
  CHOOSE r \in 0 .. timeoutSec + 1 :
    /\ RETRY_STEP * r * (r + 1) >= 2 * (timeoutSec + 1)
    /\ \A q \in 0 .. r - 1 : RETRY_STEP * q * (q + 1) < 2 * (timeoutSec + 1)

VARIABLES
  pc,         \* per process: "idle", "waiting" (in lock), "locked",
              \* "failed" (BinWifiException, the process exits), "done"
  timeout,    \* per process: the timeout_sec it passed
  alarmAt,    \* per process: when SIGALRM fires, or NoAlarm
  child,      \* per process: its lockfile-create: "none", "running",
              \* "created" (exit 0), "gaveup" (exit non-zero)
  tries,      \* per process: retries lockfile-create has made
  nextAt,     \* per process: when lockfile-create tries next
  lockOwner,  \* the pid in the lock file, or NoOwner
  now         \* seconds elapsed

vars == << pc, timeout, alarmAt, child, tries, nextAt, lockOwner, now >>

Init ==
  /\ pc = [p \in Procs |-> "idle"]
  /\ timeout = [p \in Procs |-> 0]
  /\ alarmAt = [p \in Procs |-> NoAlarm]
  /\ child = [p \in Procs |-> "none"]
  /\ tries = [p \in Procs |-> 0]
  /\ nextAt = [p \in Procs |-> 0]
  /\ lockOwner = NoOwner
  /\ now = 0

(* Lines 356-360: signal.alarm(timeout_sec) (0 cancels any alarm and arms *)
(* none), then lockfile-create is started and waited for.                 *)
CallLock(p, t) ==
  /\ pc[p] = "idle"
  /\ pc' = [pc EXCEPT ![p] = "waiting"]
  /\ timeout' = [timeout EXCEPT ![p] = t]
  /\ alarmAt' = [alarmAt EXCEPT ![p] = IF t = 0 THEN NoAlarm ELSE now + t]
  /\ child' = [child EXCEPT ![p] = "running"]
  /\ tries' = [tries EXCEPT ![p] = 0]
  /\ nextAt' = [nextAt EXCEPT ![p] = now]
  /\ UNCHANGED << lockOwner, now >>

(* The lock file can be created: there is none, or its pid has exited.    *)
LockFree == lockOwner = NoOwner \/ pc[lockOwner] \in {"failed", "done"}

(* lockfile-create (environment): one attempt of p's child.               *)
Attempt(p) ==
  /\ child[p] = "running" /\ nextAt[p] = now
  /\ IF LockFree
       THEN /\ lockOwner' = p
            /\ child' = [child EXCEPT ![p] = "created"]
            /\ UNCHANGED << tries, nextAt >>
       ELSE IF tries[p] = Retries(timeout[p])
         THEN /\ child' = [child EXCEPT ![p] = "gaveup"]
              /\ UNCHANGED << tries, nextAt, lockOwner >>
         ELSE /\ tries' = [tries EXCEPT ![p] = tries[p] + 1]
              /\ nextAt' = [nextAt EXCEPT ![p] = now + RETRY_STEP * (tries[p] + 1)]
              /\ UNCHANGED << child, lockOwner >>
  /\ UNCHANGED << pc, timeout, alarmAt, now >>

(* Lines 360-362: subprocess.call returns, whatever the exit status, and  *)
(* signal.alarm(0) cancels the alarm; lock() returns.                     *)
CallReturns(p) ==
  /\ pc[p] = "waiting" /\ child[p] \in {"created", "gaveup"}
  /\ pc' = [pc EXCEPT ![p] = "locked"]
  /\ alarmAt' = [alarmAt EXCEPT ![p] = NoAlarm]
  /\ UNCHANGED << timeout, child, tries, nextAt, lockOwner, now >>

(* time_out, lines 352-354: SIGALRM raises BinWifiException in whatever   *)
(* p is doing and the process exits; its lockfile-create keeps running.   *)
AlarmFires(p) ==
  /\ pc[p] \in {"waiting", "locked"} /\ alarmAt[p] = now
  /\ pc' = [pc EXCEPT ![p] = "failed"]
  /\ alarmAt' = [alarmAt EXCEPT ![p] = NoAlarm]
  /\ UNCHANGED << timeout, child, tries, nextAt, lockOwner, now >>

(* unlock, lines 365-366: lockfile-remove deletes the lock file, whoever  *)
(* created it.                                                             *)
Unlock(p) ==
  /\ pc[p] = "locked"
  /\ pc' = [pc EXCEPT ![p] = "done"]
  /\ lockOwner' = NoOwner
  /\ UNCHANGED << timeout, alarmAt, child, tries, nextAt, now >>

(* A second passes when nothing is due now.                               *)
Due(p) ==
  \/ child[p] = "running" /\ nextAt[p] = now
  \/ pc[p] \in {"waiting", "locked"} /\ alarmAt[p] = now
  \/ pc[p] = "waiting" /\ child[p] \in {"created", "gaveup"}

Tick ==
  /\ now < MaxTime
  /\ \A p \in Procs : ~Due(p)
  /\ now' = now + 1
  /\ UNCHANGED << pc, timeout, alarmAt, child, tries, nextAt, lockOwner >>

Next ==
  \/ \E p \in Procs :
       \/ \E t \in Timeouts : CallLock(p, t)
       \/ Attempt(p) \/ CallReturns(p) \/ AlarmFires(p) \/ Unlock(p)
  \/ Tick

Spec == Init /\ [][Next]_vars

(* The processes are interchangeable.                                     *)
Symmetry == Permutations(Procs)

-----------------------------------------------------------------------------
(* lock()'s docstring: it returns only with the lock obtained and raises  *)
(* when the timeout is exceeded; so a process between lock() and unlock() *)
(* is the one whose pid is in the lock file.                              *)
LockedHoldsLock == \A p \in Procs : pc[p] = "locked" => lockOwner = p

=============================================================================
