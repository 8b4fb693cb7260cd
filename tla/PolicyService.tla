--------------------------- MODULE PolicyService ---------------------------
(***************************************************************************)
(* The controller's PolicyService: on every tick it derives the load       *)
(* regime of each group from the reports of its active devices, decides    *)
(* for each of them which mode it should be in, and dispatches a command   *)
(* to those whose target changed or whose last command failed.             *)
(*                                                                         *)
(* It is composed with the promises of the command subsystem               *)
(* (CommandLifecycle, which CommandService implements), with the shadows   *)
(* of DeviceRegistry, and with the set of devices whose session is active. *)
(*                                                                         *)
(* evaluate() first decides for all devices and then sends command by      *)
(* command; sending can break the device's own connection, which calls     *)
(* back into on_device_released. The commands still to be sent are the     *)
(* variable to_command (pending_ in the code); no other handler runs       *)
(* before it is empty.                                                     *)
(***************************************************************************)
EXTENDS CommandLifecycle, DeviceControl, FiniteSetsExt

CONSTANTS
    Group,             \* group names devices register with
    Load, Temp,        \* values devices report (finite ones: others are dropped)
    Policies,          \* policies that can be loaded: functions on some of Group
    MaxDisturbances    \* bound on inputs from outside: reports, disconnects, ...

\* A rule names operating modes; there is at most one thermal rule.
NamesModes(rule) ==
    /\ rule.idle_mode \in Mode /\ rule.busy_mode \in Mode
    /\ rule.thermal = None \/ \E th \in rule.thermal : rule.thermal = Some(th)
    /\ \A th \in rule.thermal : th.hot_mode \in Mode

ASSUME PolicyConstants ==
    /\ Load \subseteq Int /\ Temp \subseteq Int
    /\ \A p \in Policies : DOMAIN p \subseteq Group /\ \A g \in DOMAIN p : NamesModes(p[g])
    /\ MaxCommands \in Nat /\ MaxDisturbances \in Nat

VARIABLES
    shadows,           \* DeviceRegistry: group and last status of each device
    active,            \* devices with an active session
    policy,            \* policy_: group -> rule
    regime,            \* regime_
    controls,          \* controls_
    to_command,        \* pending_: device -> mode, still to be dispatched
    commanded,         \* history: the device and the mode of each command id
    protected,         \* history: devices last commanded while hot
    quiet,             \* history: no input from outside since the last evaluation
    disturbances       \* number of inputs from outside so far, but for activations

policyVars == <<shadows, active, policy, regime, controls, to_command,
                commanded, protected, quiet, disturbances, lifecycleVars>>

Status == [load : Load, temp : Temp]

PolicyTypeOK ==
    /\ shadows \in [Device -> [group : Optional(Group), status : Optional(Status)]]
    /\ active \subseteq Device
    /\ policy \in Policies \cup {<<>>}
    /\ regime \in [Group -> Regime]
    /\ controls \in [Device -> Control({InvalidCommand} \cup CommandId)]
    /\ DOMAIN to_command \subseteq active
    /\ \A d \in DOMAIN to_command : controls[d].awaiting /\ controls[d].mode = Some(to_command[d])
    /\ protected \subseteq Device
    /\ quiet \in BOOLEAN /\ disturbances \in 0..MaxDisturbances

PolicyInit ==
    /\ LifecycleInit
    /\ shadows = [d \in Device |-> [group |-> None, status |-> None]]
    /\ active = {}
    /\ policy \in Policies \cup {<<>>}
    /\ regime = [g \in Group |-> "unknown"]
    /\ controls = [d \in Device |-> NewControl]
    /\ to_command = <<>>
    /\ commanded = [c \in CommandId |-> None]
    /\ protected = {}
    /\ quiet = FALSE /\ disturbances = 0

Disturb == /\ disturbances < MaxDisturbances
           /\ disturbances' = disturbances + 1
           /\ quiet' = FALSE

Undisturbed == UNCHANGED <<quiet, disturbances>>

\* The only member of an optional value.
The(optional) == CHOOSE x \in optional : TRUE

----------------------------------------------------------------------------
(* Sessions and reports, as the policy service sees them *)

\* on_device_released: the device must be told again after it reconnects.
Released(d) == [controls EXCEPT ![d] = ClearRecord(@)]

\* A device asks to register with group g. A session it still had is kicked.
\* Its last status stays. The new session is not active before it is confirmed.
Enroll(d, g) ==
    /\ Disturb
    /\ shadows' = [shadows EXCEPT ![d].group = Some(g)]
    /\ active' = active \ {d}
    /\ controls' = IF d \in active THEN Released(d) ELSE controls
    /\ UNCHANGED <<policy, regime, to_command, commanded, protected, lifecycleVars>>

\* The device confirms the registration.
Activate(d) ==
    /\ d \notin active /\ shadows[d].group # None
    /\ active' = active \cup {d}
    /\ quiet' = FALSE
    /\ UNCHANGED disturbances
    /\ UNCHANGED <<shadows, policy, regime, controls, to_command, commanded,
                   protected, lifecycleVars>>

\* Its connection ends.
Deactivate(d) ==
    /\ d \in active
    /\ Disturb
    /\ active' = active \ {d}
    /\ controls' = Released(d)
    /\ UNCHANGED <<shadows, policy, regime, to_command, commanded, protected,
                   lifecycleVars>>

\* update_status: the latest report replaces the previous one.
Report(d, load, temp) ==
    /\ d \in active
    /\ Disturb
    /\ shadows' = [shadows EXCEPT ![d].status = Some([load |-> load, temp |-> temp])]
    /\ UNCHANGED <<active, policy, regime, controls, to_command, commanded,
                   protected, lifecycleVars>>

----------------------------------------------------------------------------
(* The operations of PolicyService *)

\* set_policy: issued modes are forgotten; regimes and thermal states stay.
SetPolicy(p) ==
    /\ p # policy
    /\ Disturb
    /\ policy' = p
    /\ controls' = [d \in Device |-> ClearRecord(controls[d])]
    /\ UNCHANGED <<shadows, active, regime, to_command, commanded, protected,
                   lifecycleVars>>

\* The devices evaluate() looks at: active, with a report, in a group with a rule.
Observable(d) ==
    /\ d \in active
    /\ shadows[d].status # None
    /\ \E g \in DOMAIN policy : shadows[d].group = Some(g)

Members(g) == {d \in Device : Observable(d) /\ shadows[d].group = Some(g)}
RuleOf(d) == policy[The(shadows[d].group)]
StatusOf(d) == The(shadows[d].status)

\* aggregate_groups: the sum of the loads of a group.
SumOfLoads(reports, devices) ==
    MapThenSumSet(LAMBDA d : The(reports[d].status).load, devices)
LoadSum(g) == SumOfLoads(shadows, Members(g))

\* The regime of every group that has a member; the others keep theirs.
EvaluatedRegime ==
    [g \in Group |->
        IF Members(g) = {} THEN regime[g]
        ELSE NextRegime(policy[g], regime[g], LoadSum(g), Cardinality(Members(g)))]

Evaluate ==
    LET regimeOf(d) == EvaluatedRegime[The(shadows[d].group)]
        observed(d) == Observed(controls[d], RuleOf(d), StatusOf(d).temp)
        issue(d)    == Issued(observed(d), RuleOf(d), regimeOf(d))
        chosen      == {d \in Device : Observable(d) /\ issue(d) # None}
    IN  /\ policy # <<>>
        /\ regime' = EvaluatedRegime
        /\ controls' = [d \in Device |->
                          IF Observable(d)
                            THEN AfterDecide(observed(d), RuleOf(d), regimeOf(d))
                            ELSE controls[d]]
        /\ to_command' = [d \in chosen |-> The(issue(d))]
        /\ protected' = {d \in Device : IF d \in chosen
                                          THEN observed(d).thermal = "hot"
                                          ELSE d \in protected}
        /\ quiet' = TRUE
        /\ UNCHANGED disturbances
        /\ UNCHANGED <<shadows, active, policy, commanded, lifecycleVars>>

\* What CommandSender::send can come to: without an active session nothing is
\* sent; otherwise the message is sent, or cannot be encoded, or is accepted but
\* breaks the connection before send returns.
SendOutcome(d) == IF d \in active THEN {"ok", "encode_fail", "broken"} ELSE {"offline"}

\* command_one: dispatch the command of one device and record its id.
CommandOne(d, outcome) ==
    LET sent == outcome \in {"ok", "broken"}
        command == IF sent THEN issued + 1 ELSE InvalidCommand
    IN  /\ d \in DOMAIN to_command
        /\ to_command' = [x \in DOMAIN to_command \ {d} |-> to_command[x]]
        /\ Issue(d, sent)
        /\ commanded' = [commanded EXCEPT ![issued + 1] =
                            Some([device |-> d, mode |-> to_command[d]])]
        /\ \/ /\ outcome = "broken"
              /\ active' = active \ {d}
              /\ controls' = [controls EXCEPT ![d] = Dispatched(ClearRecord(@), command)]
              /\ Disturb
           \/ /\ outcome # "broken"
              /\ controls' = [controls EXCEPT ![d] = Dispatched(@, command)]
              /\ IF outcome = "ok" THEN Undisturbed ELSE Disturb
              /\ UNCHANGED active
        /\ UNCHANGED <<shadows, policy, regime, protected>>

\* The command subsystem closes a command of d. Failures are reported to the
\* policy service (on_command_failed).
CommandSucceeds(d) ==
    /\ \E c \in open[d] : Close(d, c, "succeeded")
    /\ Undisturbed
    /\ UNCHANGED <<shadows, active, policy, regime, controls, to_command,
                   commanded, protected>>

CommandFails(d) ==
    /\ \E c \in open[d] :
         /\ Close(d, c, "failed")
         /\ controls' = [controls EXCEPT ![d] = FailedCommand(@, c)]
    /\ Disturb
    /\ UNCHANGED <<shadows, active, policy, regime, to_command, commanded, protected>>

----------------------------------------------------------------------------

Between == to_command = <<>>

PolicyNext ==
    \/ \E d \in Device, g \in Group : Between /\ Enroll(d, g)
    \/ \E d \in Device : Between /\ Activate(d)
    \/ \E d \in Device : Between /\ Deactivate(d)
    \/ \E d \in Device, l \in Load, t \in Temp : Between /\ Report(d, l, t)
    \/ \E p \in Policies : Between /\ SetPolicy(p)
    \/ Between /\ Evaluate
    \/ \E d \in Device : \E o \in SendOutcome(d) : CommandOne(d, o)
    \/ \E d \in Device : Between /\ CommandSucceeds(d)
    \/ \E d \in Device : Between /\ CommandFails(d)

PolicySpec == PolicyInit /\ [][PolicyNext]_policyVars

\* The controller evaluates on every tick and finishes an evaluation it began.
\* Every command gets its verdict (CommandService: EveryCommandResolves).
PolicyFairness ==
    /\ WF_policyVars(Between /\ Evaluate)
    /\ WF_policyVars(\E d \in Device : \E o \in SendOutcome(d) : CommandOne(d, o))
    /\ WF_policyVars(\E d \in Device : Between /\ (CommandSucceeds(d) \/ CommandFails(d)))

PolicyFairSpec == PolicySpec /\ PolicyFairness

----------------------------------------------------------------------------
(* Properties *)

\* What a record claims is backed by the command subsystem: when the policy
\* service believes that a device was told mode m, the command that carried m is
\* still being worked on or succeeded, and the device has an active session. A
\* record without that backing would suppress the command for ever. A cleared
\* record claims nothing: no late answer or failure of a command that was issued
\* before brings part of it back.
RecordBacked ==
    \A d \in Device :
        LET c == controls[d] IN
        /\ c.mode = None => c.command = InvalidCommand /\ ~c.failed
        /\ c.mode # None /\ ~c.awaiting =>
            /\ d \in active
            /\ ~c.failed =>
                 /\ c.command \in CommandId
                 /\ commanded[c.command] = {[device |-> d, mode |-> m] : m \in c.mode}
                 /\ c.command \in open[d] \/ verdict[c.command] = "succeeded"

\* What is remembered of a device is well formed and true.
PolicyConsistent == PolicyTypeOK /\ RecordBacked

\* A device is released from the thermal latch only by an evaluation that saw a
\* temperature below cool_temp or a rule without thermal limits: reconnecting,
\* registering elsewhere and reloading the policy do not release it.
LatchHeld ==
    [][\A d \in Device :
         controls[d].thermal = "hot" /\ controls'[d].thermal = "cool" =>
            /\ Observable(d)
            /\ \A th \in RuleOf(d).thermal : StatusOf(d).temp < th.cool_temp]_policyVars

\* A group changes its regime only on a load outside its band, averaged over the
\* members that are connected now.
RegimeHasCause ==
    [][\A g \in Group :
         regime'[g] # regime[g] =>
            LET members == {d \in active : shadows[d].group = Some(g)
                                            /\ shadows[d].status # None}
                sum == SumOfLoads(shadows, members)
                limit(load) == load * Cardinality(members)
            IN  /\ members # {}
                /\ \/ regime'[g] = "busy" /\ sum > limit(policy[g].busy_load)
                   \/ regime'[g] = "idle" /\ sum < limit(policy[g].idle_load)]_policyVars

\* Neither latch nor regime flips without a cause, whatever connects, leaves or is
\* reloaded.
HysteresisHeld == LatchHeld /\ RegimeHasCause

\* Protection ends: when an evaluation finds a device cool that was last
\* commanded while hot, it commands a mode again unless a load mode of its rule is
\* already on record - also when the regime of its group is still unknown, and
\* also if the policy was replaced or the device reconnected in between.
ProtectionReleased ==
    [][\A d \in protected :
         Between /\ Evaluate /\ Observable(d) /\ controls'[d].thermal = "cool" =>
            controls'[d].mode \in {Some(RuleOf(d).idle_mode), Some(RuleOf(d).busy_mode)}
      ]_policyVars

\* No command storm: when nothing happened outside since the last evaluation (a report, a
\* connection that came or went, a new policy, a command that failed or could not be
\* sent), the next one commands nobody. Neither the latches nor the memory of what was
\* issued need a second tick to settle.
CommandsHaveCause ==
    [][quiet /\ Between /\ Evaluate => DOMAIN to_command' = {}]_policyVars

\* Once nothing changes any more, every governed device has been told the mode
\* its rule asks for and its command succeeded.
Converged ==
    \A d \in Device :
        Observable(d) =>
            LET control == Observed(controls[d], RuleOf(d), StatusOf(d).temp)
                target == Target(control, RuleOf(d), EvaluatedRegime[The(shadows[d].group)])
            IN  \/ target = None
                \/ /\ control.mode = target /\ control.command \in CommandId
                   /\ verdict[control.command] = "succeeded"

Converges == <>[]Converged

\* No device is left in a mode its policy does not ask for: neither the protective one
\* after it cooled down, nor any other once nothing changes.
GovernedInTheEnd == ProtectionReleased /\ Converges
============================================================================
