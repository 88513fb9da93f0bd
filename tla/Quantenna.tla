------------------------------ MODULE Quantenna ------------------------------
(***************************************************************************)
(* src/wifi/quantenna.py: /bin/wifi set, set-client and stop on a         *)
(* Quantenna radio, driven through qcsapi commands.                        *)
(*                                                                         *)
(* A call of _set or _stop is the list of qcsapi (and brctl) commands it  *)
(* runs, taken one per step; any command may exit non-zero, and           *)
(* check_output's CalledProcessError then ends the /bin/wifi process with *)
(* the commands before it done.  Successive /bin/wifi calls run one after *)
(* the other (they hold the wifi lock) and see the device as the last     *)
(* one left it.                                                            *)
(*                                                                         *)
(* The firmware is the environment.  startprod returns at once and the   *)
(* firmware reports is_startprod_done some time later; the comment at     *)
(* lines 109-110 says that in STA mode startprod and reload_in_mode enable *)
(* the radio themselves.                                                    *)
(***************************************************************************)
EXTENDS Integers, Sequences

CONSTANTS
  MaxCalls,    \* bound: /bin/wifi invocations
  Bridges,     \* the bridges a caller may name with -b (opt.bridge)
  NoBridge     \* model value: the interface is in no bridge

STARTPROD_POLLS == 30   \* xrange(30), line 90

VARIABLES
  pc,          \* "idle" or "busy" (a /bin/wifi call is running)
  mode,        \* the call: "ap" (set_wifi), "sta" (set_client_wifi), "stop"
  plan,        \* the commands the call has still to run
  polls,       \* is_startprod_done checks made in the wait loop
  result,      \* how the last call ended: "none", "set", "stopped",
               \* "false" (no Quantenna), "failed" (an exception)
  calls,       \* calls made
  rf,          \* the radio is enabled
  fw,          \* firmware: "off", "starting" (startprod run), "ready"
  fwMode,      \* the mode the firmware was started or reloaded in
  cfgMode,     \* the mode parameter of the config: "default", "ap", "sta"
  applied,     \* settings made since restore_default_config
  br,          \* the call's opt.bridge
  bridge       \* the bridge the interface is a port of, or NoBridge

vars == << pc, mode, plan, polls, result, calls, rf, fw, fwMode, cfgMode,
          applied, br, bridge >>

(* Lines 71-86: the commands _set runs before it branches on             *)
(* is_startprod_done.                                                      *)
SetPrefix == << "rfenable0", "restore_default_config", "update_config_param",
                "set_mac_addr", "is_startprod_done" >>

(* Faulty variant: no set_passphrase.                                      *)
ApStepsNoPassphrase ==
  << "addif", "set_ssid", "ssid_broadcast", "rfenable1" >>

(* Lines 97-103: the AP branch.                                             *)
ApSteps ==
  << "addif", "set_ssid", "set_passphrase", "ssid_broadcast", "rfenable1" >>

(* Lines 104-111: the STA branch.                                           *)
StaSteps ==
  << "delif", "create_ssid", "ssid_set_passphrase", "apply_security_config" >>

Branch(m) == IF m = "ap" THEN ApSteps ELSE StaSteps

ApItems  == {"ssid", "psk", "broadcast"}
StaItems == {"ssid", "psk", "security"}

(* Faulty variant: startprod is not waited for.                            *)
StartprodPlanNoWait(m) == << "startprod" >> \o Branch(m)

(* Lines 88-96: startprod, then the wait loop, then the branch.          *)
StartprodPlan(m) == << "startprod", "poll" >> \o Branch(m)

(* Line 87: the firmware is up; reload it in the mode, then the branch.   *)
ReloadPlan(m) == << "reload_in_mode" >> \o Branch(m)

(* _set_interface_in_bridge, lines 50-63: brctl addif fails when the      *)
(* interface is already a port of any bridge, and delif when it is not a  *)
(* port of opt.bridge; the except clause takes both messages, formatted   *)
(* with opt.bridge, for success.  The bridge membership that results.     *)
BrctlResult(c) ==
  IF c = "addif" THEN IF bridge = NoBridge THEN br ELSE bridge
  ELSE IF bridge = br THEN NoBridge ELSE bridge

(* What a command that exits 0 does to the device.                         *)
RunCommand(c) ==
  CASE c = "rfenable0" ->
         rf' = FALSE /\ UNCHANGED << fw, fwMode, cfgMode, applied, bridge >>
    [] c = "rfenable1" ->
         rf' = TRUE /\ UNCHANGED << fw, fwMode, cfgMode, applied, bridge >>
    [] c = "restore_default_config" ->
         /\ cfgMode' = "default" /\ applied' = {}
         /\ UNCHANGED << rf, fw, fwMode, bridge >>
    [] c = "update_config_param" ->
         cfgMode' = mode /\ UNCHANGED << rf, fw, fwMode, applied, bridge >>
    [] c = "startprod" ->
         /\ fw' = "starting" /\ fwMode' = cfgMode
         /\ UNCHANGED << rf, cfgMode, applied, bridge >>
    [] c = "reload_in_mode" ->
         /\ fwMode' = mode /\ rf' = (rf \/ mode = "sta")
         /\ UNCHANGED << fw, cfgMode, applied, bridge >>
    [] c \in {"addif", "delif"} ->
         bridge' = BrctlResult(c) /\ UNCHANGED << rf, fw, fwMode, cfgMode, applied >>
    [] c \in {"set_ssid", "create_ssid"} ->
         applied' = applied \cup {"ssid"} /\ UNCHANGED << rf, fw, fwMode, cfgMode, bridge >>
    [] c \in {"set_passphrase", "ssid_set_passphrase"} ->
         applied' = applied \cup {"psk"} /\ UNCHANGED << rf, fw, fwMode, cfgMode, bridge >>
    [] c = "ssid_broadcast" ->
         applied' = applied \cup {"broadcast"} /\ UNCHANGED << rf, fw, fwMode, cfgMode, bridge >>
    [] c = "apply_security_config" ->
         applied' = applied \cup {"security"} /\ UNCHANGED << rf, fw, fwMode, cfgMode, bridge >>
    [] OTHER -> UNCHANGED << rf, fw, fwMode, cfgMode, applied, bridge >>

deviceVars == << rf, fw, fwMode, cfgMode, applied, bridge >>

Init ==
  /\ pc = "idle" /\ mode = "stop" /\ plan = << >> /\ polls = 0
  /\ result = "none" /\ calls = 0
  /\ rf = FALSE /\ fw = "off" /\ fwMode = "default" /\ cfgMode = "default"
  /\ applied = {} /\ br \in Bridges /\ bridge = NoBridge

(* _get_interface and _get_qcsapi, lines 18-33, run first in each        *)
(* /bin/wifi process (the cache lives as long as the process): "found",   *)
(* "absent" when get-quantenna-interface prints nothing or no qcsapi tool *)
(* is runnable, "error" when get-quantenna-interface exits non-zero and    *)
(* check_output raises CalledProcessError.                                 *)
InterfaceLookups == {"found", "absent", "error"}

(* set_wifi, set_client_wifi, stop_ap_wifi, stop_client_wifi (125-138):   *)
(* the lookups, then the early return of _set and _stop (68-69, 118-119)  *)
(* when there is no Quantenna interface or no qcsapi tool.                *)
Call(m, b) ==
  /\ pc = "idle" /\ calls < MaxCalls
  /\ calls' = calls + 1
  /\ mode' = m /\ br' = b
  /\ \E l \in InterfaceLookups :
       CASE l = "found"  -> /\ pc' = "busy" /\ UNCHANGED result
                           /\ plan' = IF m = "stop" THEN << "rfenable0" >> ELSE SetPrefix
         [] l = "absent" -> result' = "false" /\ UNCHANGED << pc, plan >>
         [] l = "error"  -> result' = "failed" /\ UNCHANGED << pc, plan >>
  /\ UNCHANGED << polls, deviceVars >>

Running == pc = "busy" /\ plan # << >>

(* A command that exits 0 (lines 71-111, 121; brctl in lines 59-63).      *)
Command ==
  /\ Running /\ Head(plan) \notin {"is_startprod_done", "poll"}
  /\ RunCommand(Head(plan))
  /\ plan' = Tail(plan)
  /\ UNCHANGED << pc, mode, polls, result, calls, br >>

(* Line 86: the first is_startprod_done decides reload or startprod.      *)
Probe ==
  /\ Running /\ Head(plan) = "is_startprod_done"
  /\ plan' = IF fw = "ready" THEN ReloadPlan(mode) ELSE StartprodPlan(mode)
  /\ polls' = 0
  /\ UNCHANGED << pc, mode, result, calls, br, deviceVars >>

(* Faulty variant: the loop is never left by exhausting its checks.       *)
PollsExhaustedNever(n) == FALSE

(* Lines 90-95: after the last of the 30 checks, 'startprod timed out'.   *)
PollsExhausted(n) == n = STARTPROD_POLLS

(* Lines 90-95: one is_startprod_done check of the wait loop, and the     *)
(* second's sleep after a check that said no.                             *)
Poll ==
  /\ Running /\ Head(plan) = "poll"
  /\ IF fw = "ready"
       THEN plan' = Tail(plan) /\ UNCHANGED << pc, polls, result >>
     ELSE IF PollsExhausted(polls + 1)
       THEN pc' = "idle" /\ plan' = << >> /\ result' = "failed" /\ UNCHANGED polls
     ELSE /\ polls < STARTPROD_POLLS   \* bound; the loop gives up before it
          /\ polls' = polls + 1 /\ UNCHANGED << pc, plan, result >>
  /\ UNCHANGED << mode, calls, br, deviceVars >>

(* The command at the head exits non-zero, or brctl fails with another    *)
(* message than the tolerated one (line 62): the exception ends the call.  *)
CommandFails ==
  /\ Running
  /\ pc' = "idle" /\ plan' = << >> /\ result' = "failed"
  /\ UNCHANGED << mode, polls, calls, br, deviceVars >>

(* Lines 113 and 122: the call returns True.                              *)
Return ==
  /\ pc = "busy" /\ plan = << >>
  /\ pc' = "idle"
  /\ result' = IF mode = "stop" THEN "stopped" ELSE "set"
  /\ UNCHANGED << mode, plan, polls, calls, br, deviceVars >>

(* The firmware finishes startprod (environment); in STA mode it enables  *)
(* the radio (the comment at lines 109-110).                              *)
StartprodDone ==
  /\ fw = "starting"
  /\ fw' = "ready"
  /\ rf' = (rf \/ fwMode = "sta")
  /\ UNCHANGED << pc, mode, plan, polls, result, calls, fwMode, cfgMode,
                  applied, br, bridge >>

Next ==
  \/ \E m \in {"ap", "sta", "stop"}, b \in Bridges : Call(m, b)
  \/ Command \/ Probe \/ Poll \/ CommandFails \/ Return \/ StartprodDone

(* A /bin/wifi process keeps running: each of its steps that stays        *)
(* possible is taken.  That a command fails is not assumed, nor that the  *)
(* firmware finishes startprod or that a caller calls again.              *)
Spec == Init /\ [][Next]_vars
          /\ WF_vars(Command) /\ WF_vars(Probe) /\ WF_vars(Poll) /\ WF_vars(Return)

-----------------------------------------------------------------------------
(* set_client_wifi returning True means the station is up: the radio is   *)
(* on (enabled by startprod or reload_in_mode, which the wait loop waits  *)
(* for) with its SSID, passphrase and security config applied.            *)
StaSetEnablesRadio ==
  (pc = "idle" /\ result = "set" /\ mode = "sta") => rf /\ StaItems \subseteq applied

(* set_wifi returning True means the access point is up with the         *)
(* requested configuration: radio on, SSID, passphrase and broadcast      *)
(* option set, interface a port of the bridge the caller named (-b).       *)
ApSetConfigured ==
  (pc = "idle" /\ result = "set" /\ mode = "ap") => rf /\ ApItems \subseteq applied /\ bridge = br

(* Every /bin/wifi call returns, even when the firmware never finishes   *)
(* startprod: the wait loop gives up after 30 checks.                     *)
CallsReturn == pc = "busy" ~> pc = "idle"

(* _stop's docstring, "Disable wifi.": once stop has returned True, the   *)
(* radio is off until the next call.                                       *)
StopDisablesRadio == (pc = "idle" /\ result = "stopped") => ~rf
=============================================================================
