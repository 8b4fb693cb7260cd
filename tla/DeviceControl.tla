--------------------------- MODULE DeviceControl ---------------------------
(***************************************************************************)
(* The policy kernel as operators: the rule of a group with its load and   *)
(* temperature bands, and what the policy remembers of one device          *)
(* (DeviceControl), from which it decides whether to command a mode.       *)
(*                                                                         *)
(* An optional value is a set with at most one element. Loads and          *)
(* temperatures are integers: the code only adds and compares them.        *)
(***************************************************************************)
EXTENDS Integers

CONSTANT Mode              \* operating modes

Regime == {"unknown", "idle", "busy"}
Thermal == {"cool", "hot"}

None == {}
Some(x) == {x}
Optional(set) == {None} \cup {Some(x) : x \in set}

InvalidCommand == 0        \* CommandId{}

----------------------------------------------------------------------------
(* GroupRule *)

\* GroupRule::create: both bands must be non-empty; equal or inverted limits
\* would make every evaluation switch back and forth.
ValidRule(rule) ==
    /\ rule.idle_load < rule.busy_load
    /\ \A th \in rule.thermal : th.cool_temp < th.hot_temp

\* next_regime of the average load_sum / count.
NextRegime(rule, prev, load_sum, count) ==
    IF load_sum > rule.busy_load * count THEN "busy"
    ELSE IF load_sum < rule.idle_load * count THEN "idle"
    ELSE prev

\* next_thermal: without a thermal rule the device counts as cool (there is at
\* most one rule, so \A covers its absence).
NextThermal(rule, prev, temp) ==
    IF \E th \in rule.thermal : temp > th.hot_temp THEN "hot"
    ELSE IF \A th \in rule.thermal : temp < th.cool_temp THEN "cool"
    ELSE prev

----------------------------------------------------------------------------
(* DeviceControl *)

Control(CommandIds) ==
    [thermal : Thermal,           \* thermal_
     protection : BOOLEAN,        \* protection_commanded_
     mode : Optional(Mode),       \* mode_: the mode last issued
     command : CommandIds,        \* command_: its id
     failed : BOOLEAN,            \* failed_
     awaiting : BOOLEAN]          \* awaiting_dispatch_

NewControl ==
    [thermal |-> "cool", protection |-> FALSE, mode |-> None,
     command |-> InvalidCommand, failed |-> FALSE, awaiting |-> FALSE]

\* Slip: leaving protection is left to the load regime.
UnknownTarget_LoadOnly(control, rule) ==
    IF control.failed THEN control.mode ELSE None

\* The target of a device that is not hot while its group's regime is unknown:
\* out of protection into idle_mode, or again what failed, or nothing.
UnknownTarget(control, rule) ==
    IF control.protection THEN Some(rule.idle_mode)
    ELSE IF control.failed THEN control.mode
    ELSE None

\* The mode the device should be in, if the rule says so. control.thermal is
\* already the regime of this evaluation.
Target(control, rule, regime) ==
    IF control.thermal = "hot" /\ rule.thermal # None
      THEN {th.hot_mode : th \in rule.thermal}
    ELSE CASE regime = "idle" -> Some(rule.idle_mode)
           [] regime = "busy" -> Some(rule.busy_mode)
           [] regime = "unknown" -> UnknownTarget(control, rule)

\* The first statement of decide: the thermal regime of this evaluation.
Observed(control, rule, temp) ==
    [control EXCEPT !.thermal = NextThermal(rule, control.thermal, temp)]

\* Slip: a protected device is told again on every evaluation.
Settled_Unprotected(control, target) ==
    control.mode = target /\ ~control.failed /\ ~control.protection

\* Nothing to issue: the target is what was issued last, and it did not fail.
Settled(control, target) == control.mode = target /\ ~control.failed

\* decide: the mode to issue now, if any, and the control it leaves behind.
Issued(control, rule, regime) ==
    LET target == Target(control, rule, regime)
    IN  IF target = None \/ Settled(control, target) THEN None ELSE target

AfterDecide(control, rule, regime) ==
    LET issue == Issued(control, rule, regime)
    IN  IF issue = None THEN control
        ELSE [control EXCEPT
                !.mode = issue, !.failed = FALSE, !.awaiting = TRUE,
                !.protection = \/ control.thermal = "hot"
                               \/ regime = "unknown" /\ @]

\* Slip: the answer to a dispatch is taken even after the record was cleared.
Dispatched_Always(control, command) ==
    [control EXCEPT !.awaiting = FALSE, !.command = command,
                    !.failed = (command = InvalidCommand)]

\* dispatched: ignored when the record was cleared while the command was sent.
Dispatched(control, command) ==
    IF ~control.awaiting THEN control
    ELSE [control EXCEPT !.awaiting = FALSE, !.command = command,
                         !.failed = (command = InvalidCommand)]

\* failed: only the command issued last counts.
FailedCommand(control, command) ==
    IF control.command = command THEN [control EXCEPT !.failed = TRUE] ELSE control

\* Slip: clearing starts over with a fresh control.
ClearRecord_All(control) == NewControl

\* clear_record: forget what was issued, not what was observed.
ClearRecord(control) ==
    [control EXCEPT !.mode = None, !.command = InvalidCommand,
                    !.failed = FALSE, !.awaiting = FALSE]
============================================================================
