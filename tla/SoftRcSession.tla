---------------------------- MODULE SoftRcSession ----------------------------
(***************************************************************************)
(* What a soft_rc session promises the HID driver, without tokens, frames  *)
(* or input.  A session starts, runs a number of steps and ends done,     *)
(* failed or interrupted, after which nothing changes.  The keys the      *)
(* device holds are at most one per report, all key-down codes; they only *)
(* change while the session runs and never in simulation mode; and a step *)
(* that completes in auto-release mode leaves no key held that was not    *)
(* held before it.  Only a step cut short (os.write raising, SIGINT) may  *)
(* leave a key down in auto-release mode.                                  *)
(***************************************************************************)
EXTENDS FiniteSets

CONSTANTS
  Codes,       \* key-down codes the device can hold
  ReportOf(_)  \* the HID report a code belongs to

VARIABLES
  status,      \* "start", "running", "done", "failed", "interrupted"
  held,        \* the key-down codes the device holds
  auto,        \* auto-release mode
  simu         \* simulation mode: no device

vars == << status, held, auto, simu >>

(* At most one key of each report is held.                                 *)
OnePerReport(s) ==
  s \subseteq Codes /\ \A a, b \in s : ReportOf(a) = ReportOf(b) => a = b

Init ==
  /\ status = "start"
  /\ held = {}
  /\ auto \in BOOLEAN
  /\ simu \in BOOLEAN

(* The device is registered, or not.                                       *)
Start ==
  /\ status = "start"
  /\ status' \in {"running", "failed"}
  /\ UNCHANGED << held, auto, simu >>

(* One step of a running session; it may switch auto-release mode.        *)
Step ==
  /\ status = "running"
  /\ status' \in {"running", "done", "failed", "interrupted"}
  /\ auto' \in BOOLEAN
  /\ OnePerReport(held')
  /\ simu => held' = held
  /\ (auto /\ status' \in {"running", "done"}) => held' \subseteq held
  /\ UNCHANGED simu

Next == Start \/ Step

Spec == Init /\ [][Next]_vars
=============================================================================
