------------------------ MODULE PolicyServiceProofs ------------------------
(***************************************************************************)
(* Proofs about PolicyService and the kernel it decides with, for any      *)
(* number of devices and groups, all policies, and any number of commands. *)
(***************************************************************************)
EXTENDS PolicyService, TLAPS

----------------------------------------------------------------------------
(* The kernel *)

LEMMA TheSome == ASSUME NEW x PROVE The(Some(x)) = x
  BY DEF The, Some

\* What a rule that names modes lets a device be told.
LEMMA TargetType ==
    ASSUME NEW rule, NamesModes(rule), NEW regime_ \in Regime, NEW control,
           control.mode \in Optional(Mode)
    PROVE  Target(control, rule, regime_) \in Optional(Mode)
<1>1. CASE control.thermal = "hot" /\ rule.thermal # None
  <2>1. PICK th \in rule.thermal : rule.thermal = Some(th)
    BY <1>1 DEF NamesModes
  <2>2. {x.hot_mode : x \in rule.thermal} = Some(th.hot_mode) /\ th.hot_mode \in Mode
    BY <2>1 DEF Some, NamesModes
  <2> QED BY <1>1, <2>2 DEF Target, Optional
<1>2. CASE ~(control.thermal = "hot" /\ rule.thermal # None)
  BY <1>2 DEF Target, UnknownTarget, Optional, NamesModes, Regime
<1> QED BY <1>1, <1>2

\* The target goes by the thermal state and, while the regime is unknown, by what
\* UnknownTarget takes from the record.
LEMMA SameTarget ==
    ASSUME NEW rule, NEW regime_ \in Regime, NEW a, NEW b,
           a.thermal = b.thermal, UnknownTarget(a, rule) = UnknownTarget(b, rule)
    PROVE  Target(a, rule, regime_) = Target(b, rule, regime_)
<1>1. CASE a.thermal = "hot" /\ rule.thermal # None
  BY <1>1 DEF Target
<1>2. CASE ~(a.thermal = "hot" /\ rule.thermal # None) /\ regime_ = "unknown"
  BY <1>2 DEF Target
<1>3. CASE ~(a.thermal = "hot" /\ rule.thermal # None) /\ regime_ # "unknown"
  BY <1>3 DEF Target, Regime
<1> QED BY <1>1, <1>2, <1>3

\* Without a thermal rule a device counts as cool.
LEMMA ThermalType ==
    ASSUME NEW rule, NEW prev \in Thermal, NEW temp
    PROVE  /\ NextThermal(rule, prev, temp) \in Thermal
           /\ rule.thermal = None => NextThermal(rule, prev, temp) = "cool"
  BY DEF NextThermal, Thermal, None

\* Neither latch needs a second look at the same inputs.
LEMMA ThermalSettles ==
    ASSUME NEW rule, NEW prev, NEW temp
    PROVE  NextThermal(rule, NextThermal(rule, prev, temp), temp)
             = NextThermal(rule, prev, temp)
  BY DEF NextThermal

LEMMA RegimeSettles ==
    ASSUME NEW rule, NEW prev, NEW sum, NEW count
    PROVE  NextRegime(rule, NextRegime(rule, prev, sum, count), sum, count)
             = NextRegime(rule, prev, sum, count)
  BY DEF NextRegime

\* Nothing is left to command: decide would issue nothing.
Content(control, rule, regime_) ==
    LET target == Target(control, rule, regime_) IN
    target = None \/ Settled(control, target)

LEMMA ContentIssuesNothing ==
    ASSUME NEW control, NEW rule, NEW regime_
    PROVE  Content(control, rule, regime_) <=> Issued(control, rule, regime_) = None
  BY DEF Content, Issued, Settled

\* decide leaves nothing to command behind, whatever it remembered before: also when
\* leaving protection while the regime is unknown, which changes the target itself.
LEMMA DecideSettles ==
    ASSUME NEW rule, NEW regime_ \in Regime,
           NEW control \in Control({InvalidCommand} \cup CommandId),
           rule.thermal = None => control.thermal = "cool"
    PROVE  Content(AfterDecide(control, rule, regime_), rule, regime_)
<1> DEFINE target == Target(control, rule, regime_)
           after == AfterDecide(control, rule, regime_)
<1>1. CASE Issued(control, rule, regime_) = None
  BY <1>1, ContentIssuesNothing DEF AfterDecide
<1>2. CASE Issued(control, rule, regime_) # None
  <2>1. target # None /\ Issued(control, rule, regime_) = target
    BY <1>2 DEF Issued
  <2>2. /\ after.mode = target /\ ~after.failed /\ after.thermal = control.thermal
        /\ after.protection = (\/ control.thermal = "hot"
                               \/ regime_ = "unknown" /\ control.protection)
    BY <1>2, <2>1 DEF AfterDecide, Control
  <2>3. Target(after, rule, regime_) \in {target, None}
    <3> HIDE DEF after
    <3>1. CASE control.thermal = "hot" /\ rule.thermal # None
      BY <2>2, <3>1 DEF Target
    <3>2. CASE ~(control.thermal = "hot" /\ rule.thermal # None) /\ regime_ # "unknown"
      BY <2>2, <3>2 DEF Target, Regime
    <3>3. CASE ~(control.thermal = "hot" /\ rule.thermal # None) /\ regime_ = "unknown"
      <4>1. /\ target = UnknownTarget(control, rule)
            /\ Target(after, rule, regime_) = UnknownTarget(after, rule)
        BY <2>2, <3>3 DEF Target
      <4>2. control.thermal # "hot"
        BY <3>3
      <4>3. after.protection = control.protection
        BY <2>2, <3>3, <4>2 DEF Control
      <4> HIDE DEF target
      <4>4. CASE control.protection
        BY <4>1, <4>3, <4>4 DEF UnknownTarget
      <4>5. CASE ~control.protection
        BY <2>2, <4>1, <4>3, <4>5 DEF UnknownTarget
      <4> QED BY <4>4, <4>5
    <3> QED BY <3>1, <3>2, <3>3
  <2>4. after.mode = target /\ ~after.failed
    BY <2>2
  <2> HIDE DEF after, target
  <2>5. Content(after, rule, regime_)
    BY <2>3, <2>4 DEF Content, Settled
  <2> QED BY <2>5 DEF after
<1> QED BY <1>1, <1>2
----------------------------------------------------------------------------
(* The inductive invariant *)

\* The ids handed out so far, and what is known of the commands that carry them.
CommandsKnown ==
    /\ issued \in 0..MaxCommands
    /\ open \in [Device -> SUBSET CommandId]
    /\ verdict \in [CommandId -> Verdict]
    /\ commanded \in [CommandId -> SUBSET [device : Device, mode : Mode]]
    /\ \A d \in Device : \A c \in open[d] :
          /\ c <= issued /\ verdict[c] = "none"
          /\ \E m \in Mode : commanded[c] = Some([device |-> d, mode |-> m])
    /\ \A c \in CommandId : c > issued => verdict[c] = "none"

\* A record never names an id that is still to be handed out, and what waits to be
\* dispatched has not failed.
ControlsKnown ==
    /\ \A d \in Device : controls[d].command <= issued
    /\ \A d \in DOMAIN to_command : ~controls[d].failed

\* Who was last commanded while hot is remembered as protected.
ProtectedRemembered == \A d \in protected : controls[d].protection

\* Without input since the last evaluation, every group is at its regime, every governed
\* device at its thermal state, and nobody is left to command.
QuietSettled ==
    quiet =>
        /\ \A g \in Group :
              Members(g) # {} =>
                NextRegime(policy[g], regime[g], LoadSum(g), Cardinality(Members(g)))
                  = regime[g]
        /\ \A d \in Device :
              Observable(d) =>
                /\ NextThermal(RuleOf(d), controls[d].thermal, StatusOf(d).temp)
                     = controls[d].thermal
                /\ Content(controls[d], RuleOf(d), regime[The(shadows[d].group)])

PolicyInv ==
    /\ PolicyTypeOK /\ CommandsKnown /\ ControlsKnown
    /\ RecordBacked /\ ProtectedRemembered /\ QuietSettled

----------------------------------------------------------------------------
(* What the operators of the kernel do to a control *)

CommandRef == {InvalidCommand} \cup CommandId

LEMMA ClearedControl ==
    ASSUME NEW control \in Control(CommandRef)
    PROVE  /\ ClearRecord(control) \in Control(CommandRef)
           /\ ClearRecord(control).mode = None
           /\ ClearRecord(control).command = InvalidCommand
           /\ ~ClearRecord(control).failed /\ ~ClearRecord(control).awaiting
           /\ ClearRecord(control).thermal = control.thermal
           /\ ClearRecord(control).protection = control.protection
  BY DEF ClearRecord, Control, CommandRef, Optional, None

LEMMA ObservedControl ==
    ASSUME NEW rule, NEW temp, NEW control \in Control(CommandRef)
    PROVE  /\ Observed(control, rule, temp) \in Control(CommandRef)
           /\ Observed(control, rule, temp).thermal
                = NextThermal(rule, control.thermal, temp)
           /\ \A f \in {"protection", "mode", "command", "failed", "awaiting"} :
                Observed(control, rule, temp)[f] = control[f]
           /\ rule.thermal = None => Observed(control, rule, temp).thermal = "cool"
<1>1. control.thermal \in Thermal
  BY DEF Control
<1>2. NextThermal(rule, control.thermal, temp) \in Thermal
  BY <1>1, ThermalType
<1>3. rule.thermal = None => NextThermal(rule, control.thermal, temp) = "cool"
  BY <1>1, ThermalType
<1> QED BY <1>2, <1>3 DEF Observed, Control

LEMMA DecidedControl ==
    ASSUME NEW rule, NamesModes(rule), NEW regime_ \in Regime,
           NEW control \in Control(CommandRef)
    PROVE  LET issue == Issued(control, rule, regime_)
               after == AfterDecide(control, rule, regime_)
           IN  /\ after \in Control(CommandRef)
               /\ after.thermal = control.thermal /\ after.command = control.command
               /\ issue = None => after = control
               /\ issue # None =>
                    /\ The(issue) \in Mode /\ after.mode = Some(The(issue))
                    /\ ~after.failed /\ after.awaiting
                    /\ control.thermal = "hot" => after.protection
<1> DEFINE issue == Issued(control, rule, regime_)
           after == AfterDecide(control, rule, regime_)
<1>1. control.mode \in Optional(Mode)
  BY DEF Control
<1>2. Target(control, rule, regime_) \in Optional(Mode)
  BY <1>1, TargetType
<1>3. issue \in Optional(Mode)
  BY <1>2 DEF Issued, Optional
<1>4. CASE issue = None
  BY <1>4 DEF AfterDecide
<1>5. CASE issue # None
  <2>1. PICK m \in Mode : issue = Some(m)
    BY <1>3, <1>5 DEF Optional
  <2>2. The(issue) = m
    BY <2>1, TheSome
  <2>3. after = [control EXCEPT !.mode = issue, !.failed = FALSE, !.awaiting = TRUE,
                                !.protection = \/ control.thermal = "hot"
                                               \/ regime_ = "unknown" /\ @]
    BY <1>5 DEF AfterDecide
  <2> HIDE DEF after, issue
  <2>4. /\ after \in Control(CommandRef)
        /\ after.thermal = control.thermal /\ after.command = control.command
        /\ after.mode = issue /\ ~after.failed /\ after.awaiting
        /\ control.thermal = "hot" => after.protection
    BY <1>3, <2>3 DEF Control
  <2> QED BY <1>5, <2>1, <2>2, <2>4 DEF after, issue
<1> QED BY <1>4, <1>5

LEMMA DispatchedControl ==
    ASSUME NEW control \in Control(CommandRef), NEW command \in CommandRef
    PROVE  /\ Dispatched(control, command) \in Control(CommandRef)
           /\ \A f \in {"thermal", "protection", "mode"} :
                Dispatched(control, command)[f] = control[f]
           /\ control.awaiting =>
                /\ ~Dispatched(control, command).awaiting
                /\ Dispatched(control, command).command = command
                /\ Dispatched(control, command).failed = (command = InvalidCommand)
           /\ ~control.awaiting => Dispatched(control, command) = control
  BY DEF Dispatched, Control

LEMMA FailedControl ==
    ASSUME NEW control \in Control(CommandRef), NEW command
    PROVE  /\ FailedCommand(control, command) \in Control(CommandRef)
           /\ \A f \in {"thermal", "protection", "mode", "command", "awaiting"} :
                FailedCommand(control, command)[f] = control[f]
           /\ control.command = command => FailedCommand(control, command).failed
           /\ control.command # command => FailedCommand(control, command) = control
  BY DEF FailedCommand, Control

\* What decide goes by for a device it looks at.
LEMMA ObservableFacts ==
    ASSUME PolicyTypeOK, NEW d \in Device, Observable(d)
    PROVE  /\ d \in active
           /\ The(shadows[d].group) \in Group
           /\ The(shadows[d].group) \in DOMAIN policy
           /\ shadows[d].group = Some(The(shadows[d].group))
           /\ NamesModes(RuleOf(d))
           /\ RuleOf(d) = policy[The(shadows[d].group)]
           /\ StatusOf(d) \in Status
           /\ d \in Members(The(shadows[d].group))
<1>1. PICK g \in DOMAIN policy : shadows[d].group = Some(g)
  BY DEF Observable
<1>2. policy # <<>>
  BY <1>1
<1>3. policy \in Policies
  BY <1>2 DEF PolicyTypeOK
<1>4. g \in Group /\ NamesModes(policy[g])
  BY <1>1, <1>3, PolicyConstants
<1>5. The(shadows[d].group) = g
  BY <1>1, TheSome
<1>6. PICK s \in Status : shadows[d].status = Some(s)
  BY DEF Observable, PolicyTypeOK, Optional
<1>7. StatusOf(d) = s
  BY <1>6, TheSome DEF StatusOf
<1> QED BY <1>1, <1>4, <1>5, <1>6, <1>7 DEF RuleOf, Observable, Members

\* A group with members has a rule, and its next regime is one.
LEMMA RegimeType ==
    ASSUME PolicyTypeOK
    PROVE  EvaluatedRegime \in [Group -> Regime]
  BY DEF PolicyTypeOK, EvaluatedRegime, NextRegime, Regime

----------------------------------------------------------------------------
(* Every step keeps the invariant *)

LEMMA PolicyInvInit == PolicyInit => PolicyInv
<1> SUFFICES ASSUME PolicyInit PROVE PolicyInv
  OBVIOUS
<1> USE DEF PolicyInit, LifecycleInit
<1>1. NewControl \in Control(CommandRef) /\ NewControl.mode = None
      /\ NewControl.command = InvalidCommand /\ ~NewControl.failed
  BY DEF NewControl, Control, CommandRef, Thermal, Optional, None, InvalidCommand
<1>2. DOMAIN to_command = {}
  OBVIOUS
<1>0. disturbances \in 0..MaxDisturbances
  BY PolicyConstants
<1>3. PolicyTypeOK
  BY <1>0, <1>1, <1>2 DEF PolicyTypeOK, Optional, Regime, CommandRef
<1>4. CommandsKnown
  BY PolicyConstants DEF CommandsKnown, CommandId, Verdict, None
<1>5. ControlsKnown /\ RecordBacked
  BY <1>1, <1>2 DEF ControlsKnown, RecordBacked, InvalidCommand
<1>6. ProtectedRemembered /\ QuietSettled
  BY DEF ProtectedRemembered, QuietSettled
<1> QED BY <1>3, <1>4, <1>5, <1>6 DEF PolicyInv

\* An input from outside leaves every record as it is or clears it; the device of a
\* record that stays is still active.
Input ==
    /\ Between
    /\ UNCHANGED <<to_command, commanded, protected, lifecycleVars>>
    /\ quiet' = FALSE
    /\ controls' \in [Device -> Control(CommandRef)]
    /\ \A d \in Device : \/ controls'[d] = ClearRecord(controls[d])
                         \/ controls'[d] = controls[d] /\ (d \in active => d \in active')

LEMMA InputKeeps ==
    ASSUME PolicyInv, Input
    PROVE  /\ CommandsKnown' /\ ControlsKnown' /\ RecordBacked'
           /\ ProtectedRemembered' /\ QuietSettled'
<1> USE DEF PolicyInv, Input
<1>1. controls \in [Device -> Control(CommandRef)] /\ protected \subseteq Device
  BY DEF PolicyTypeOK, CommandRef
<1>2. \A d \in Device : ClearRecord(controls[d]).mode = None
        /\ ClearRecord(controls[d]).command = InvalidCommand
        /\ ~ClearRecord(controls[d]).failed
        /\ ClearRecord(controls[d]).protection = controls[d].protection
  BY <1>1, ClearedControl
<1>3. CommandsKnown'
  BY DEF CommandsKnown, lifecycleVars
<1>4. DOMAIN to_command' = {}
  BY DEF Between
<1>5. ControlsKnown'
  BY <1>2, <1>4 DEF ControlsKnown, CommandsKnown, lifecycleVars, InvalidCommand
<1>6. RecordBacked'
  BY <1>2 DEF RecordBacked, lifecycleVars
<1>7. ProtectedRemembered'
  BY <1>1, <1>2 DEF ProtectedRemembered
<1>8. QuietSettled'
  BY DEF QuietSettled
<1> QED BY <1>3, <1>5, <1>6, <1>7, <1>8

LEMMA DisturbType ==
    ASSUME PolicyTypeOK, Disturb
    PROVE  disturbances' \in 0..MaxDisturbances /\ quiet' = FALSE
  BY PolicyConstants DEF PolicyTypeOK, Disturb

\* The inputs.
LEMMA InputsKeep ==
    ASSUME PolicyInv, Between,
           \/ \E d \in Device, g \in Group : Enroll(d, g)
           \/ \E d \in Device : Activate(d)
           \/ \E d \in Device : Deactivate(d)
           \/ \E d \in Device, l \in Load, t \in Temp : Report(d, l, t)
           \/ \E p \in Policies : SetPolicy(p)
    PROVE  PolicyInv'
<1> USE DEF PolicyInv
<1>1. controls \in [Device -> Control(CommandRef)]
  BY DEF PolicyTypeOK, CommandRef
<1>2. \A d \in Device : ClearRecord(controls[d]) \in Control(CommandRef)
  BY <1>1, ClearedControl
<1>3. DOMAIN to_command = {}
  BY DEF Between
<1> USE <1>1, <1>2, <1>3
<1>4. ASSUME NEW d \in Device, NEW g \in Group, Enroll(d, g)
      PROVE  Input /\ PolicyTypeOK'
  <2>1. controls' \in [Device -> Control(CommandRef)]
    BY <1>4 DEF Enroll, Released
  <2>2. Input
    BY <1>4, <2>1 DEF Input, Enroll, Disturb, Released
  <2>3. shadows' \in [Device -> [group : Optional(Group), status : Optional(Status)]]
    BY <1>4 DEF PolicyTypeOK, Enroll, Optional
  <2>4. PolicyTypeOK'
    <3>1. disturbances' \in 0..MaxDisturbances /\ quiet' = FALSE
      BY <1>4, DisturbType DEF Enroll
    <3> QED BY <1>4, <2>1, <2>3, <3>1 DEF PolicyTypeOK, Enroll, CommandRef
  <2> QED BY <2>2, <2>4
<1>5. ASSUME NEW d \in Device, Activate(d)
      PROVE  Input /\ PolicyTypeOK'
  <2>1. Input
    BY <1>5 DEF Input, Activate
  <2>2. PolicyTypeOK'
    BY <1>5 DEF PolicyTypeOK, Activate
  <2> QED BY <2>1, <2>2
<1>6. ASSUME NEW d \in Device, Deactivate(d)
      PROVE  Input /\ PolicyTypeOK'
  <2>1. controls' \in [Device -> Control(CommandRef)]
    BY <1>6 DEF Deactivate, Released
  <2>2. Input
    BY <1>6, <2>1 DEF Input, Deactivate, Disturb, Released
  <2>3. PolicyTypeOK'
    <3>1. disturbances' \in 0..MaxDisturbances /\ quiet' = FALSE
      BY <1>6, DisturbType DEF Deactivate
    <3> QED BY <1>6, <2>1, <3>1 DEF PolicyTypeOK, Deactivate, CommandRef
  <2> QED BY <2>2, <2>3
<1>7. ASSUME NEW d \in Device, NEW l \in Load, NEW t \in Temp, Report(d, l, t)
      PROVE  Input /\ PolicyTypeOK'
  <2>1. Input
    BY <1>7 DEF Input, Report, Disturb
  <2>2. shadows' \in [Device -> [group : Optional(Group), status : Optional(Status)]]
    BY <1>7 DEF PolicyTypeOK, Report, Optional, Status
  <2>3. PolicyTypeOK'
    <3>1. disturbances' \in 0..MaxDisturbances /\ quiet' = FALSE
      BY <1>7, DisturbType DEF Report
    <3> QED BY <1>7, <2>2, <3>1 DEF PolicyTypeOK, Report
  <2> QED BY <2>1, <2>3
<1>8. ASSUME NEW p \in Policies, SetPolicy(p)
      PROVE  Input /\ PolicyTypeOK'
  <2>1. controls' \in [Device -> Control(CommandRef)]
    BY <1>8 DEF SetPolicy
  <2>2. Input
    BY <1>8, <2>1 DEF Input, SetPolicy, Disturb
  <2>3. PolicyTypeOK'
    <3>1. disturbances' \in 0..MaxDisturbances /\ quiet' = FALSE
      BY <1>8, DisturbType DEF SetPolicy
    <3> QED BY <1>8, <2>1, <3>1 DEF PolicyTypeOK, SetPolicy, CommandRef
  <2> QED BY <2>2, <2>3
<1>9. Input /\ PolicyTypeOK'
  BY <1>4, <1>5, <1>6, <1>7, <1>8
<1> QED BY <1>9, InputKeeps

\* While shadows, sessions and rules stay, so do the groups and their loads.
LEMMA SameGroups ==
    ASSUME UNCHANGED <<shadows, active, policy>>
    PROVE  /\ \A d \in Device : /\ Observable(d)' <=> Observable(d)
                                /\ RuleOf(d)' = RuleOf(d) /\ StatusOf(d)' = StatusOf(d)
           /\ \A g \in Group : Members(g)' = Members(g) /\ LoadSum(g)' = LoadSum(g)
<1>1. \A d \in Device : /\ Observable(d)' <=> Observable(d)
                        /\ RuleOf(d)' = RuleOf(d) /\ StatusOf(d)' = StatusOf(d)
  BY DEF Observable, RuleOf, StatusOf
<1>2. \A g \in Group : Members(g)' = Members(g)
  BY <1>1 DEF Members
<1>3. \A g \in Group : LoadSum(g)' = LoadSum(g)
  BY <1>2 DEF LoadSum
<1> QED BY <1>1, <1>2, <1>3

\* What an evaluation leaves behind for a device it looks at.
Decided(d) ==
    LET control == Observed(controls[d], RuleOf(d), StatusOf(d).temp)
    IN  AfterDecide(control, RuleOf(d), EvaluatedRegime[The(shadows[d].group)])

IssuedTo(d) ==
    LET control == Observed(controls[d], RuleOf(d), StatusOf(d).temp)
    IN  Issued(control, RuleOf(d), EvaluatedRegime[The(shadows[d].group)])

Chosen == {d \in Device : Observable(d) /\ IssuedTo(d) # None}

LEMMA EvaluateStep ==
    ASSUME PolicyTypeOK, Evaluate
    PROVE  /\ regime' = EvaluatedRegime /\ quiet' = TRUE
           /\ controls' = [d \in Device |-> IF Observable(d) THEN Decided(d)
                                            ELSE controls[d]]
           /\ to_command' = [d \in Chosen |-> The(IssuedTo(d))]
           /\ protected' = {d \in Device :
                 IF d \in Chosen
                   THEN Observed(controls[d], RuleOf(d), StatusOf(d).temp).thermal = "hot"
                   ELSE d \in protected}
           /\ UNCHANGED <<disturbances, shadows, active, policy, commanded, lifecycleVars>>
  BY DEF Evaluate, Decided, IssuedTo, Chosen

LEMMA DecidedFacts ==
    ASSUME PolicyTypeOK, NEW d \in Device, Observable(d)
    PROVE  /\ Decided(d) \in Control(CommandRef)
           /\ Decided(d).thermal
                = NextThermal(RuleOf(d), controls[d].thermal, StatusOf(d).temp)
           /\ Decided(d).command = controls[d].command
           /\ d \notin Chosen =>
                \A f \in {"protection", "mode", "command", "failed", "awaiting"} :
                   Decided(d)[f] = controls[d][f]
           /\ d \in Chosen =>
                /\ The(IssuedTo(d)) \in Mode /\ Decided(d).mode = Some(The(IssuedTo(d)))
                /\ ~Decided(d).failed /\ Decided(d).awaiting
                /\ Observed(controls[d], RuleOf(d), StatusOf(d).temp).thermal = "hot"
                     => Decided(d).protection
           /\ Content(Decided(d), RuleOf(d), EvaluatedRegime[The(shadows[d].group)])
<1> DEFINE rule == RuleOf(d)
           regime_ == EvaluatedRegime[The(shadows[d].group)]
           control == Observed(controls[d], rule, StatusOf(d).temp)
<1>1. NamesModes(rule) /\ regime_ \in Regime /\ controls[d] \in Control(CommandRef)
  BY ObservableFacts, RegimeType DEF PolicyTypeOK, CommandRef
<1>2. /\ control \in Control(CommandRef)
      /\ control.thermal = NextThermal(rule, controls[d].thermal, StatusOf(d).temp)
      /\ \A f \in {"protection", "mode", "command", "failed", "awaiting"} :
           control[f] = controls[d][f]
      /\ rule.thermal = None => control.thermal = "cool"
  BY <1>1, ObservedControl
<1>3. Decided(d) = AfterDecide(control, rule, regime_)
      /\ IssuedTo(d) = Issued(control, rule, regime_)
  BY DEF Decided, IssuedTo
<1>4. d \in Chosen <=> IssuedTo(d) # None
  BY DEF Chosen
<1> HIDE DEF rule, regime_, control
<1>5. /\ Decided(d) \in Control(CommandRef)
      /\ Decided(d).thermal = control.thermal /\ Decided(d).command = control.command
      /\ IssuedTo(d) = None => Decided(d) = control
      /\ IssuedTo(d) # None =>
           /\ The(IssuedTo(d)) \in Mode /\ Decided(d).mode = Some(The(IssuedTo(d)))
           /\ ~Decided(d).failed /\ Decided(d).awaiting
           /\ control.thermal = "hot" => Decided(d).protection
  BY <1>1, <1>2, <1>3, DecidedControl
<1>6. Content(Decided(d), rule, regime_)
  BY <1>1, <1>2, <1>3, DecideSettles DEF CommandRef
<1> QED BY <1>2, <1>4, <1>5, <1>6 DEF rule, regime_, control

LEMMA EvaluateKeeps ==
    ASSUME PolicyInv, Evaluate
    PROVE  PolicyInv'
<1> USE DEF PolicyInv
<1>1. /\ regime' = EvaluatedRegime /\ quiet' = TRUE
      /\ controls' = [d \in Device |-> IF Observable(d) THEN Decided(d) ELSE controls[d]]
      /\ to_command' = [d \in Chosen |-> The(IssuedTo(d))]
      /\ protected' = {d \in Device :
            IF d \in Chosen
              THEN Observed(controls[d], RuleOf(d), StatusOf(d).temp).thermal = "hot"
              ELSE d \in protected}
      /\ UNCHANGED <<disturbances, shadows, active, policy, commanded, lifecycleVars>>
  BY EvaluateStep
<1>2. ASSUME NEW d \in Device, Observable(d)
      PROVE  /\ Decided(d) \in Control(CommandRef)
             /\ Decided(d).thermal
                  = NextThermal(RuleOf(d), controls[d].thermal, StatusOf(d).temp)
             /\ Decided(d).command = controls[d].command
             /\ d \notin Chosen =>
                  \A f \in {"protection", "mode", "command", "failed", "awaiting"} :
                     Decided(d)[f] = controls[d][f]
             /\ d \in Chosen =>
                  /\ The(IssuedTo(d)) \in Mode /\ Decided(d).mode = Some(The(IssuedTo(d)))
                  /\ ~Decided(d).failed /\ Decided(d).awaiting
                  /\ Observed(controls[d], RuleOf(d), StatusOf(d).temp).thermal = "hot"
                       => Decided(d).protection
             /\ Content(Decided(d), RuleOf(d), EvaluatedRegime[The(shadows[d].group)])
  BY <1>2, DecidedFacts
<1>3. \A d \in Device : d \in Chosen => Observable(d) /\ d \in active
  BY ObservableFacts DEF Chosen
<1>4. Chosen \subseteq Device
  BY DEF Chosen
<1>5. PolicyTypeOK'
  <2>1. regime' \in [Group -> Regime]
    BY <1>1, RegimeType
  <2>2. controls' \in [Device -> Control(CommandRef)]
    BY <1>1, <1>2 DEF PolicyTypeOK, CommandRef
  <2>3. DOMAIN to_command' \subseteq active'
    BY <1>1, <1>3, <1>4
  <2>4. \A d \in DOMAIN to_command' :
           controls'[d].awaiting /\ controls'[d].mode = Some(to_command'[d])
    BY <1>1, <1>2, <1>3, <1>4
  <2>5. protected' \subseteq Device
    BY <1>1
  <2> HIDE DEF PolicyInv
  <2>6. /\ shadows \in [Device -> [group : Optional(Group), status : Optional(Status)]]
        /\ active \subseteq Device /\ policy \in Policies \cup {<<>>}
        /\ disturbances \in 0..MaxDisturbances
    BY DEF PolicyTypeOK, PolicyInv
  <2> QED BY <1>1, <2>1, <2>2, <2>3, <2>4, <2>5, <2>6 DEF PolicyTypeOK, CommandRef
<1>6. CommandsKnown'
  BY <1>1 DEF CommandsKnown, lifecycleVars
<1>7. ControlsKnown'
  <2>1. \A d \in Device : controls'[d].command <= issued'
    BY <1>1, <1>2 DEF ControlsKnown, lifecycleVars
  <2>2. \A d \in DOMAIN to_command' : ~controls'[d].failed
    BY <1>1, <1>2, <1>3, <1>4
  <2> QED BY <2>1, <2>2 DEF ControlsKnown
<1>8. RecordBacked'
  <2> SUFFICES ASSUME NEW d \in Device
               PROVE  LET c == controls'[d] IN
                      /\ c.mode = None => c.command = InvalidCommand /\ ~c.failed
                      /\ c.mode # None /\ ~c.awaiting =>
                          /\ d \in active'
                          /\ ~c.failed =>
                               /\ c.command \in CommandId
                               /\ commanded'[c.command]
                                    = {[device |-> d, mode |-> m] : m \in c.mode}
                               /\ c.command \in open'[d]
                                    \/ verdict'[c.command] = "succeeded"
    BY DEF RecordBacked
  <2>1. CASE d \in Chosen
    BY <1>1, <1>2, <1>3, <2>1 DEF Some, None
  <2>2. CASE d \notin Chosen
    <3>1. \A f \in {"mode", "command", "failed", "awaiting"} :
             controls'[d][f] = controls[d][f]
      BY <1>1, <1>2, <2>2
    <3>2. /\ controls'[d].mode = controls[d].mode
          /\ controls'[d].command = controls[d].command
          /\ controls'[d].failed = controls[d].failed
          /\ controls'[d].awaiting = controls[d].awaiting
      BY <3>1
    <3>3. /\ active' = active /\ commanded' = commanded
          /\ open' = open /\ verdict' = verdict
      BY <1>1 DEF lifecycleVars
    <3> QED BY <3>2, <3>3 DEF RecordBacked
  <2> QED BY <2>1, <2>2
<1>9. ProtectedRemembered'
  <2> SUFFICES ASSUME NEW d \in protected' PROVE controls'[d].protection
    BY DEF ProtectedRemembered
  <2>1. d \in Device
    BY <1>1
  <2>2. CASE d \in Chosen
    BY <1>1, <1>2, <1>3, <2>1, <2>2
  <2>3. CASE d \notin Chosen
    BY <1>1, <1>2, <2>1, <2>3 DEF ProtectedRemembered
  <2> QED BY <2>2, <2>3
<1>10. QuietSettled'
  <2>1. /\ \A d \in Device : /\ Observable(d)' <=> Observable(d)
                             /\ RuleOf(d)' = RuleOf(d) /\ StatusOf(d)' = StatusOf(d)
        /\ \A g \in Group : Members(g)' = Members(g) /\ LoadSum(g)' = LoadSum(g)
    BY <1>1, SameGroups
  <2>2. ASSUME NEW g \in Group, Members(g)' # {}
        PROVE  NextRegime(policy[g], regime[g], LoadSum(g), Cardinality(Members(g)))'
                 = regime[g]'
    <3>1. regime'[g] = NextRegime(policy[g], regime[g], LoadSum(g), Cardinality(Members(g)))
      BY <1>1, <2>1, <2>2 DEF EvaluatedRegime
    <3>2. NextRegime(policy[g], regime'[g], LoadSum(g), Cardinality(Members(g)))
            = regime'[g]
      BY <3>1, RegimeSettles
    <3> QED BY <1>1, <2>1, <3>2
  <2>3. ASSUME NEW d \in Device, Observable(d)'
        PROVE  /\ NextThermal(RuleOf(d)', controls'[d].thermal, StatusOf(d)'.temp)
                    = controls'[d].thermal
               /\ Content(controls'[d], RuleOf(d)', regime'[The(shadows'[d].group)])
    <3>1. controls'[d] = Decided(d)
      BY <1>1, <2>1, <2>3
    <3>2. NextThermal(RuleOf(d), Decided(d).thermal, StatusOf(d).temp) = Decided(d).thermal
      BY <1>2, <2>1, <2>3, ThermalSettles
    <3> QED BY <1>1, <1>2, <2>1, <2>3, <3>1, <3>2
  <2> QED BY <2>2, <2>3 DEF QuietSettled
<1> QED BY <1>5, <1>6, <1>7, <1>8, <1>9, <1>10

LEMMA CommandOneKeeps ==
    ASSUME PolicyInv, NEW d \in Device, NEW o \in SendOutcome(d), CommandOne(d, o)
    PROVE  PolicyInv'
<1> USE DEF PolicyInv
<1> DEFINE sent == o \in {"ok", "broken"}
           command == IF sent THEN issued + 1 ELSE InvalidCommand
<1>1. /\ d \in DOMAIN to_command /\ d \in active
      /\ controls[d] \in Control(CommandRef) /\ controls[d].awaiting
      /\ controls[d].mode = Some(to_command[d]) /\ ~controls[d].failed
  BY DEF CommandOne, PolicyTypeOK, ControlsKnown, CommandRef
<1>2. o \in {"ok", "encode_fail", "broken"}
  BY <1>1 DEF SendOutcome
<1>3. /\ issued \in 0..MaxCommands /\ issued < MaxCommands
      /\ issued' = issued + 1 /\ issued + 1 \in CommandId
      /\ command \in CommandRef /\ command <= issued'
      /\ command = InvalidCommand <=> ~sent
  BY PolicyConstants DEF CommandOne, Issue, CommandsKnown, CommandId, CommandRef,
                         InvalidCommand
<1>4. to_command[d] \in Mode
  BY <1>1 DEF Control, Optional, Some, None
<1>5. /\ DOMAIN to_command' = DOMAIN to_command \ {d}
      /\ \A x \in DOMAIN to_command' : to_command'[x] = to_command[x]
      /\ commanded' = [commanded EXCEPT ![issued + 1] =
                          Some([device |-> d, mode |-> to_command[d]])]
      /\ open' = [open EXCEPT ![d] = IF sent THEN {issued + 1} ELSE {}]
      /\ verdict' = [c \in CommandId |->
                       CASE c \in open[d] -> "superseded"
                         [] c = issued + 1 /\ ~sent -> "undelivered"
                         [] OTHER -> verdict[c]]
      /\ UNCHANGED <<shadows, policy, regime, protected>>
  BY DEF CommandOne, Issue
<1>6. \/ /\ o = "broken"
         /\ active' = active \ {d} /\ Disturb
         /\ controls' = [controls EXCEPT ![d] = Dispatched(ClearRecord(@), command)]
      \/ /\ o # "broken"
         /\ active' = active
         /\ controls' = [controls EXCEPT ![d] = Dispatched(@, command)]
         /\ IF o = "ok" THEN Undisturbed ELSE Disturb
  BY DEF CommandOne
<1> HIDE DEF command
\* The control of d: cleared when its connection broke, else the answer of the dispatch.
<1>7. /\ controls' \in [Device -> Control(CommandRef)]
      /\ \A x \in Device \ {d} : controls'[x] = controls[x]
      /\ controls'[d].thermal = controls[d].thermal
      /\ controls'[d].protection = controls[d].protection
      /\ o = "broken" => controls'[d].mode = None /\ controls'[d].command = InvalidCommand
                         /\ ~controls'[d].failed
      /\ o # "broken" => /\ controls'[d].mode = controls[d].mode
                         /\ controls'[d].command = command
                         /\ controls'[d].failed = (command = InvalidCommand)
                         /\ ~controls'[d].awaiting
  <2>1. controls \in [Device -> Control(CommandRef)]
    BY DEF PolicyTypeOK, CommandRef
  <2>2. CASE o = "broken"
    <3>1. /\ ClearRecord(controls[d]) \in Control(CommandRef)
          /\ ~ClearRecord(controls[d]).awaiting /\ ~ClearRecord(controls[d]).failed
          /\ ClearRecord(controls[d]).mode = None
          /\ ClearRecord(controls[d]).command = InvalidCommand
          /\ ClearRecord(controls[d]).thermal = controls[d].thermal
          /\ ClearRecord(controls[d]).protection = controls[d].protection
      BY <1>1, ClearedControl
    <3>2. Dispatched(ClearRecord(controls[d]), command) = ClearRecord(controls[d])
      BY <3>1 DEF Dispatched
    <3>3. controls' = [controls EXCEPT ![d] = ClearRecord(controls[d])]
      BY <1>6, <2>2, <3>2
    <3> QED BY <2>1, <2>2, <3>1, <3>3
  <2>3. CASE o # "broken"
    <3>1. /\ Dispatched(controls[d], command) \in Control(CommandRef)
          /\ \A f \in {"thermal", "protection", "mode"} :
                Dispatched(controls[d], command)[f] = controls[d][f]
          /\ ~Dispatched(controls[d], command).awaiting
          /\ Dispatched(controls[d], command).command = command
          /\ Dispatched(controls[d], command).failed = (command = InvalidCommand)
      BY <1>1, <1>3, DispatchedControl
    <3>2. controls' = [controls EXCEPT ![d] = Dispatched(controls[d], command)]
      BY <1>6, <2>3
    <3> QED BY <2>1, <2>3, <3>1, <3>2
  <2> QED BY <2>2, <2>3
<1>8. PolicyTypeOK'
  <2>1. disturbances' \in 0..MaxDisturbances /\ quiet' \in BOOLEAN
    <3>1. CASE Disturb
      BY <3>1, DisturbType
    <3>2. CASE Undisturbed
      BY <3>2 DEF Undisturbed, PolicyTypeOK
    <3> QED BY <1>6, <3>1, <3>2
  <2>2. DOMAIN to_command' \subseteq active' /\ active' \subseteq Device
    BY <1>5, <1>6 DEF PolicyTypeOK
  <2>3. \A x \in DOMAIN to_command' :
           controls'[x].awaiting /\ controls'[x].mode = Some(to_command'[x])
    BY <1>5, <1>7 DEF PolicyTypeOK
  <2> QED BY <1>5, <1>7, <2>1, <2>2, <2>3 DEF PolicyTypeOK, CommandRef
<1>9. CommandsKnown'
  <2>1. open' \in [Device -> SUBSET CommandId] /\ verdict' \in [CommandId -> Verdict]
    BY <1>3, <1>5 DEF CommandsKnown, Verdict
  <2>2. commanded' \in [CommandId -> SUBSET [device : Device, mode : Mode]]
    BY <1>3, <1>4, <1>5 DEF CommandsKnown, Some
  <2>3. issued' \in 0..MaxCommands
    BY <1>3, PolicyConstants
  <2>4. \A c \in CommandId : c > issued' => verdict'[c] = "none"
    <3> SUFFICES ASSUME NEW c \in CommandId, c > issued' PROVE verdict'[c] = "none"
      OBVIOUS
    <3>1. c > issued /\ c # issued + 1
      BY <1>3 DEF CommandId
    <3>2. c \notin open[d] /\ verdict[c] = "none"
      BY <3>1, <1>3 DEF CommandsKnown, CommandId
    <3> QED BY <1>5, <3>1, <3>2
  <2>5. ASSUME NEW x \in Device, NEW c \in open'[x]
        PROVE  /\ c <= issued' /\ verdict'[c] = "none"
               /\ \E m \in Mode : commanded'[c] = Some([device |-> x, mode |-> m])
    <3>1. CASE x = d
      <4>1. c = issued + 1 /\ sent
        BY <1>5, <3>1 DEF CommandsKnown
      <4>2. c \notin open[d] /\ verdict[c] = "none"
        BY <1>3, <4>1 DEF CommandsKnown, CommandId
      <4>3. commanded'[c] = Some([device |-> d, mode |-> to_command[d]])
        BY <1>3, <1>5, <4>1 DEF CommandsKnown
      <4> QED BY <1>3, <1>4, <1>5, <3>1, <4>1, <4>2, <4>3
    <3>2. CASE x # d
      <4>1. c \in open[x] /\ c \in CommandId
        BY <1>5, <3>2 DEF CommandsKnown
      <4>2. PICK m \in Mode : commanded[c] = Some([device |-> x, mode |-> m])
        BY <4>1 DEF CommandsKnown
      <4>3. c <= issued /\ verdict[c] = "none"
        BY <4>1 DEF CommandsKnown
      <4>4. c \notin open[d]
        <5> SUFFICES ASSUME c \in open[d] PROVE FALSE
          OBVIOUS
        <5>1. PICK n \in Mode : commanded[c] = Some([device |-> d, mode |-> n])
          BY DEF CommandsKnown
        <5>2. [device |-> x, mode |-> m] = [device |-> d, mode |-> n]
          BY <4>2, <5>1 DEF Some
        <5>3. [device |-> x, mode |-> m].device = [device |-> d, mode |-> n].device
          BY <5>2
        <5> QED BY <3>2, <5>3
      <4>5. c # issued + 1
        BY <1>3, <4>1, <4>3 DEF CommandId
      <4> QED BY <1>3, <1>5, <4>1, <4>2, <4>3, <4>4, <4>5 DEF CommandId, CommandsKnown
    <3> QED BY <3>1, <3>2
  <2> QED BY <2>1, <2>2, <2>3, <2>4, <2>5 DEF CommandsKnown
<1>10. ControlsKnown'
  <2>1. ASSUME NEW x \in Device PROVE controls'[x].command <= issued'
    <3>1. CASE x = d
      BY <1>2, <1>3, <1>7, <3>1 DEF InvalidCommand
    <3>2. CASE x # d
      <4>1. controls'[x].command = controls[x].command /\ controls[x].command <= issued
        BY <1>7, <3>2 DEF ControlsKnown
      <4>2. controls[x].command \in CommandRef
        BY DEF PolicyTypeOK, Control, CommandRef
      <4> QED BY <1>3, <4>1, <4>2 DEF CommandRef, CommandId, InvalidCommand
    <3> QED BY <3>1, <3>2
  <2>2. \A x \in DOMAIN to_command' : ~controls'[x].failed
    BY <1>5, <1>7 DEF ControlsKnown, PolicyTypeOK
  <2> QED BY <2>1, <2>2 DEF ControlsKnown
<1>11. RecordBacked'
  <2> SUFFICES ASSUME NEW x \in Device
               PROVE  LET c == controls'[x] IN
                      /\ c.mode = None => c.command = InvalidCommand /\ ~c.failed
                      /\ c.mode # None /\ ~c.awaiting =>
                          /\ x \in active'
                          /\ ~c.failed =>
                               /\ c.command \in CommandId
                               /\ commanded'[c.command]
                                    = {[device |-> x, mode |-> m] : m \in c.mode}
                               /\ c.command \in open'[x]
                                    \/ verdict'[c.command] = "succeeded"
    BY DEF RecordBacked
  <2>1. CASE x = d /\ o = "broken"
    BY <1>7, <2>1
  <2>2. CASE x = d /\ o # "broken"
    <3>1. controls'[d].mode = Some(to_command[d]) /\ d \in active'
          /\ controls'[d].mode # None
      BY <1>1, <1>6, <1>7, <2>2 DEF Some, None
    <3>2. ASSUME ~controls'[d].failed
          PROVE  /\ controls'[d].command = issued + 1
                 /\ issued + 1 \in open'[d]
                 /\ commanded'[issued + 1] = {[device |-> d, mode |-> to_command[d]]}
      <4>1. sent /\ command = issued + 1
        BY <1>3, <1>7, <2>2, <3>2 DEF command
      <4> QED BY <1>3, <1>5, <1>7, <2>2, <4>1 DEF CommandsKnown, Some
    <3>3. {[device |-> d, mode |-> m] : m \in Some(to_command[d])}
            = {[device |-> d, mode |-> to_command[d]]}
      BY DEF Some
    <3> QED BY <1>3, <2>2, <3>1, <3>2, <3>3
  <2>3. CASE x # d
    <3>1. controls'[x] = controls[x] /\ (x \in active => x \in active')
      BY <1>6, <1>7, <2>3
    <3>2. ASSUME controls[x].command \in CommandId
          PROVE  commanded'[controls[x].command] = commanded[controls[x].command]
      <4>1. controls[x].command # issued + 1
        BY <1>3, <3>2 DEF ControlsKnown, CommandId
      <4> QED BY <1>5, <3>2, <4>1 DEF CommandsKnown
    <3>3. open'[x] = open[x]
      BY <1>5, <2>3 DEF CommandsKnown
    <3>4. ASSUME NEW c \in CommandId, verdict[c] = "succeeded"
          PROVE  verdict'[c] = "succeeded"
      <4>1. c \notin open[d]
        BY <3>4 DEF CommandsKnown
      <4>2. c # issued + 1
        BY <1>3, <3>4 DEF CommandsKnown, CommandId
      <4> QED BY <1>5, <3>4, <4>1, <4>2
    <3> QED BY <3>1, <3>2, <3>3, <3>4 DEF RecordBacked
  <2> QED BY <2>1, <2>2, <2>3
<1>12. ProtectedRemembered'
  BY <1>5, <1>7 DEF ProtectedRemembered, PolicyTypeOK
<1>13. QuietSettled'
  <2> SUFFICES ASSUME quiet' PROVE QuietSettled'
    BY DEF QuietSettled
  <2>1. o = "ok" /\ active' = active /\ quiet
    BY <1>2, <1>6 DEF Disturb, Undisturbed
  <2>2. /\ \A x \in Device : /\ Observable(x)' <=> Observable(x)
                             /\ RuleOf(x)' = RuleOf(x) /\ StatusOf(x)' = StatusOf(x)
        /\ \A g \in Group : Members(g)' = Members(g) /\ LoadSum(g)' = LoadSum(g)
    BY <1>5, <2>1, SameGroups
  <2>3. ~controls'[d].failed
    BY <1>3, <1>7, <2>1
  <2>4. controls'[d].mode = controls[d].mode /\ controls'[d].failed = controls[d].failed
    <3>1. controls[d].failed \in BOOLEAN /\ controls'[d].failed \in BOOLEAN
      BY <1>1, <1>7 DEF Control, PolicyTypeOK
    <3> QED BY <1>1, <1>7, <2>1, <2>3, <3>1
  <2>5. ASSUME NEW x \in Device, Observable(x)
        PROVE  Content(controls'[x], RuleOf(x), regime[The(shadows[x].group)])
    <3>1. Content(controls[x], RuleOf(x), regime[The(shadows[x].group)])
      BY <2>1, <2>5 DEF QuietSettled
    <3>2. CASE x # d
      BY <1>7, <3>1, <3>2
    <3>3. CASE x = d
      <4>1. UnknownTarget(controls'[x], RuleOf(x)) = UnknownTarget(controls[x], RuleOf(x))
        BY <1>7, <2>4, <3>3 DEF UnknownTarget
      <4>2. controls'[x].thermal = controls[x].thermal
        BY <1>7, <3>3
      <4>3. Target(controls'[x], RuleOf(x), regime[The(shadows[x].group)])
              = Target(controls[x], RuleOf(x), regime[The(shadows[x].group)])
        <5>1. regime[The(shadows[x].group)] \in Regime
          BY <2>5, ObservableFacts DEF PolicyTypeOK
        <5> QED BY <4>1, <4>2, <5>1, SameTarget
      <4> QED BY <2>4, <3>1, <3>3, <4>3 DEF Content, Settled
    <3> QED BY <3>2, <3>3
  <2>6. \A x \in Device : controls'[x].thermal = controls[x].thermal
    BY <1>7
  <2> QED BY <1>5, <2>1, <2>2, <2>5, <2>6 DEF QuietSettled
<1> QED BY <1>8, <1>9, <1>10, <1>11, <1>12, <1>13

LEMMA VerdictsKeep ==
    ASSUME PolicyInv, NEW d \in Device, Between, CommandSucceeds(d) \/ CommandFails(d)
    PROVE  PolicyInv'
<1> USE DEF PolicyInv
<1>1. PICK c \in open[d], v \in {"succeeded", "failed"} :
         /\ Close(d, c, v)
         /\ v = "failed" =>
              /\ controls' = [controls EXCEPT ![d] = FailedCommand(@, c)]
              /\ Disturb
         /\ v = "succeeded" => controls' = controls /\ Undisturbed
         /\ UNCHANGED <<shadows, active, policy, regime, to_command, commanded, protected>>
  BY DEF CommandSucceeds, CommandFails
<1>2. /\ c \in CommandId /\ verdict[c] = "none"
      /\ open' = [open EXCEPT ![d] = @ \ {c}]
      /\ verdict' = [verdict EXCEPT ![c] = v]
      /\ issued' = issued
  BY <1>1 DEF Close, CommandsKnown
<1>3. controls \in [Device -> Control(CommandRef)]
  BY DEF PolicyTypeOK, CommandRef
\* Only the failure of the command issued last changes a record, and marks it failed.
<1>4. /\ controls' \in [Device -> Control(CommandRef)]
      /\ \A x \in Device :
           /\ \A f \in {"thermal", "protection", "mode", "command", "awaiting"} :
                controls'[x][f] = controls[x][f]
           /\ \/ controls'[x] = controls[x] /\ (x = d /\ v = "failed" => controls[x].command # c)
              \/ /\ x = d /\ v = "failed" /\ controls[x].command = c
                 /\ controls'[x].failed
  <2>1. CASE v = "succeeded"
    BY <1>1, <1>3, <2>1
  <2>2. CASE v = "failed"
    <3>1. /\ FailedCommand(controls[d], c) \in Control(CommandRef)
          /\ \A f \in {"thermal", "protection", "mode", "command", "awaiting"} :
                FailedCommand(controls[d], c)[f] = controls[d][f]
          /\ controls[d].command = c => FailedCommand(controls[d], c).failed
          /\ controls[d].command # c => FailedCommand(controls[d], c) = controls[d]
      BY <1>3, FailedControl
    <3>2. controls' = [controls EXCEPT ![d] = FailedCommand(controls[d], c)]
      BY <1>1, <2>2
    <3> QED BY <1>3, <2>2, <3>1, <3>2
  <2> QED BY <2>1, <2>2
<1>5. \A x \in Device : /\ controls'[x].thermal = controls[x].thermal
                        /\ controls'[x].protection = controls[x].protection
                        /\ controls'[x].mode = controls[x].mode
                        /\ controls'[x].command = controls[x].command
                        /\ controls'[x].awaiting = controls[x].awaiting
  BY <1>4
<1>6. DOMAIN to_command' = {}
  BY <1>1 DEF Between
<1>7. PolicyTypeOK'
  <2>1. disturbances' \in 0..MaxDisturbances /\ quiet' \in BOOLEAN
    <3>1. CASE v = "failed"
      BY <1>1, <3>1, DisturbType
    <3>2. CASE v = "succeeded"
      BY <1>1, <3>2 DEF Undisturbed, PolicyTypeOK
    <3> QED BY <3>1, <3>2
  <2> QED BY <1>1, <1>4, <1>6, <2>1 DEF PolicyTypeOK, CommandRef
<1>8. CommandsKnown'
  <2>1. open' \in [Device -> SUBSET CommandId] /\ verdict' \in [CommandId -> Verdict]
    BY <1>2 DEF CommandsKnown, Verdict
  <2>2. ASSUME NEW x \in CommandId, x > issued' PROVE verdict'[x] = "none"
    <3>1. c <= issued /\ verdict[x] = "none"
      BY <1>2, <2>2 DEF CommandsKnown
    <3>2. x # c
      BY <1>2, <2>2, <3>1, PolicyConstants DEF CommandsKnown, CommandId
    <3> QED BY <1>2, <2>2, <3>1, <3>2 DEF CommandsKnown
  <2>3. ASSUME NEW x \in Device, NEW b \in open'[x]
        PROVE  /\ b <= issued' /\ verdict'[b] = "none"
               /\ \E m \in Mode : commanded'[b] = Some([device |-> x, mode |-> m])
    <3>1. b \in open[x] /\ (x = d => b # c)
      BY <1>2 DEF CommandsKnown
    <3>2. b # c
      <4> SUFFICES ASSUME b = c PROVE FALSE
        OBVIOUS
      <4>1. x # d
        BY <3>1
      <4>2. PICK m \in Mode, n \in Mode : /\ commanded[c] = Some([device |-> x, mode |-> m])
                                          /\ commanded[c] = Some([device |-> d, mode |-> n])
        BY <1>1, <3>1 DEF CommandsKnown
      <4>3. [device |-> x, mode |-> m] = [device |-> d, mode |-> n]
        BY <4>2 DEF Some
      <4>4. [device |-> x, mode |-> m].device = [device |-> d, mode |-> n].device
        BY <4>3
      <4> QED BY <4>1, <4>4
    <3> QED BY <1>1, <1>2, <3>1, <3>2 DEF CommandsKnown
  <2> QED BY <1>1, <1>2, <2>1, <2>2, <2>3 DEF CommandsKnown
<1>9. ControlsKnown'
  BY <1>2, <1>5, <1>6 DEF ControlsKnown
<1>10. RecordBacked'
  <2> SUFFICES ASSUME NEW x \in Device
               PROVE  LET r == controls'[x] IN
                      /\ r.mode = None => r.command = InvalidCommand /\ ~r.failed
                      /\ r.mode # None /\ ~r.awaiting =>
                          /\ x \in active'
                          /\ ~r.failed =>
                               /\ r.command \in CommandId
                               /\ commanded'[r.command]
                                    = {[device |-> x, mode |-> m] : m \in r.mode}
                               /\ r.command \in open'[x]
                                    \/ verdict'[r.command] = "succeeded"
    BY DEF RecordBacked
  <2>1. CASE controls'[x] # controls[x]
    <3>1. controls[x].command = c /\ controls'[x].failed
      BY <1>4, <2>1
    <3>2. c # InvalidCommand
      BY <1>2 DEF CommandId, InvalidCommand
    <3>3. controls[x].mode # None
      BY <3>1, <3>2 DEF RecordBacked
    <3> QED BY <1>1, <1>5, <3>1, <3>3 DEF RecordBacked
  <2>2. CASE controls'[x] = controls[x]
    <3>1. ASSUME NEW b \in CommandId, b \in open[x] \/ verdict[b] = "succeeded",
                 b = controls[x].command, ~controls[x].failed
          PROVE  b \in open'[x] \/ verdict'[b] = "succeeded"
      <4>1. CASE b # c
        BY <1>2, <3>1, <4>1 DEF CommandsKnown
      <4>2. CASE b = c /\ v = "succeeded"
        BY <1>2, <4>2 DEF CommandsKnown
      <4>3. CASE b = c /\ v = "failed"
        <5>1. x # d
          BY <1>4, <2>2, <3>1, <4>3
        <5> QED BY <1>2, <3>1, <4>3, <5>1 DEF CommandsKnown
      <4> QED BY <4>1, <4>2, <4>3
    <3> QED BY <1>1, <2>2, <3>1 DEF RecordBacked
  <2> QED BY <2>1, <2>2
<1>11. ProtectedRemembered'
  BY <1>1, <1>5 DEF ProtectedRemembered, PolicyTypeOK
<1>12. QuietSettled'
  <2> SUFFICES ASSUME quiet' PROVE QuietSettled'
    BY DEF QuietSettled
  <2>1. v = "succeeded" /\ controls' = controls /\ quiet
    BY <1>1 DEF Disturb, Undisturbed
  <2>2. /\ \A x \in Device : /\ Observable(x)' <=> Observable(x)
                             /\ RuleOf(x)' = RuleOf(x) /\ StatusOf(x)' = StatusOf(x)
        /\ \A g \in Group : Members(g)' = Members(g) /\ LoadSum(g)' = LoadSum(g)
    BY <1>1, SameGroups
  <2> QED BY <1>1, <2>1, <2>2 DEF QuietSettled
<1> QED BY <1>7, <1>8, <1>9, <1>10, <1>11, <1>12

LEMMA PolicyInvNext == PolicyInv /\ [PolicyNext]_policyVars => PolicyInv'
<1> SUFFICES ASSUME PolicyInv, [PolicyNext]_policyVars PROVE PolicyInv'
  OBVIOUS
<1>1. CASE UNCHANGED policyVars
  <2>1. UNCHANGED <<shadows, active, policy>>
    BY <1>1 DEF policyVars
  <2>2. /\ \A x \in Device : /\ Observable(x)' <=> Observable(x)
                             /\ RuleOf(x)' = RuleOf(x) /\ StatusOf(x)' = StatusOf(x)
        /\ \A g \in Group : Members(g)' = Members(g) /\ LoadSum(g)' = LoadSum(g)
    BY <2>1, SameGroups
  <2>3. QuietSettled'
    BY <1>1, <2>2 DEF QuietSettled, PolicyInv, policyVars
  <2>4. CommandsKnown' /\ ControlsKnown' /\ RecordBacked' /\ ProtectedRemembered'
    BY <1>1 DEF PolicyInv, policyVars, lifecycleVars, CommandsKnown, ControlsKnown,
                RecordBacked, ProtectedRemembered
  <2>5. PolicyTypeOK'
    BY <1>1 DEF PolicyInv, policyVars, PolicyTypeOK
  <2> QED BY <2>3, <2>4, <2>5 DEF PolicyInv
<1>2. CASE \/ \E d \in Device, g \in Group : Between /\ Enroll(d, g)
           \/ \E d \in Device : Between /\ Activate(d)
           \/ \E d \in Device : Between /\ Deactivate(d)
           \/ \E d \in Device, l \in Load, t \in Temp : Between /\ Report(d, l, t)
           \/ \E p \in Policies : Between /\ SetPolicy(p)
  BY <1>2, InputsKeep
<1>3. CASE Between /\ Evaluate
  BY <1>3, EvaluateKeeps
<1>4. CASE \E d \in Device : \E o \in SendOutcome(d) : CommandOne(d, o)
  BY <1>4, CommandOneKeeps
<1>5. CASE \E d \in Device : Between /\ (CommandSucceeds(d) \/ CommandFails(d))
  BY <1>5, VerdictsKeep
<1> QED BY <1>1, <1>2, <1>3, <1>4, <1>5 DEF PolicyNext

LEMMA PolicyInvAlways == PolicySpec => []PolicyInv
  BY PolicyInvInit, PolicyInvNext, PTL DEF PolicySpec

----------------------------------------------------------------------------
(* The properties *)

\* What the policy service believes a device was told is backed by the command
\* subsystem, in every reachable state.
THEOREM RecordsAlwaysBacked == PolicySpec => []PolicyConsistent
<1>1. PolicyInv => PolicyConsistent
  BY DEF PolicyInv, PolicyConsistent
<1> QED BY <1>1, PolicyInvAlways, PTL

\* What a step does to the controls, as far as the thermal state goes.
LEMMA ThermalStep ==
    ASSUME PolicyInv, PolicyNext, NEW d \in Device
    PROVE  \/ controls'[d].thermal = controls[d].thermal
           \/ /\ Observable(d)
              /\ controls'[d].thermal
                   = NextThermal(RuleOf(d), controls[d].thermal, StatusOf(d).temp)
<1> USE DEF PolicyInv
<1>1. controls \in [Device -> Control(CommandRef)]
  BY DEF PolicyTypeOK, CommandRef
<1>2. \A x \in Device : ClearRecord(controls[x]).thermal = controls[x].thermal
  BY <1>1, ClearedControl
<1>3. CASE Between /\ Evaluate
  BY <1>3, EvaluateStep, DecidedFacts
<1>4. CASE \E x \in Device, g \in Group : Between /\ Enroll(x, g)
  BY <1>1, <1>2, <1>4 DEF Enroll, Released
<1>5. CASE \E x \in Device : Between /\ Activate(x)
  BY <1>5 DEF Activate
<1>6. CASE \E x \in Device : Between /\ Deactivate(x)
  BY <1>1, <1>2, <1>6 DEF Deactivate, Released
<1>7. CASE \E x \in Device, l \in Load, t \in Temp : Between /\ Report(x, l, t)
  BY <1>7 DEF Report
<1>8. CASE \E p \in Policies : Between /\ SetPolicy(p)
  BY <1>1, <1>2, <1>8 DEF SetPolicy
<1>9. CASE \E x \in Device : \E o \in SendOutcome(x) : CommandOne(x, o)
  <2>1. PICK x \in Device : \E o \in SendOutcome(x) : CommandOne(x, o)
    BY <1>9
  <2>2. \E command :
           \/ controls' = [controls EXCEPT
                ![x] = Dispatched(ClearRecord(controls[x]), command)]
           \/ controls' = [controls EXCEPT ![x] = Dispatched(controls[x], command)]
    BY <2>1 DEF CommandOne
  <2>3. PICK command :
           \/ controls' = [controls EXCEPT
                ![x] = Dispatched(ClearRecord(controls[x]), command)]
           \/ controls' = [controls EXCEPT ![x] = Dispatched(controls[x], command)]
    BY <2>2
  <2>4. \A control \in Control(CommandRef) :
           Dispatched(control, command).thermal = control.thermal
    BY DEF Dispatched, Control
  <2>5. ClearRecord(controls[x]) \in Control(CommandRef)
    BY <1>1, ClearedControl
  <2> QED BY <1>1, <1>2, <2>3, <2>4, <2>5
<1>10. CASE \E x \in Device : Between /\ (CommandSucceeds(x) \/ CommandFails(x))
  <2>1. \A x \in Device : \A c \in CommandId :
           FailedCommand(controls[x], c).thermal = controls[x].thermal
    BY <1>1, FailedControl
  <2>2. PICK x \in Device : \/ controls' = controls
                             \/ \E c \in open[x] :
                                  controls' = [controls EXCEPT ![x] = FailedCommand(controls[x], c)]
    BY <1>10 DEF CommandSucceeds, CommandFails
  <2>3. open[x] \subseteq CommandId
    BY DEF CommandsKnown
  <2> QED BY <1>1, <2>1, <2>2, <2>3
<1> QED BY <1>3, <1>4, <1>5, <1>6, <1>7, <1>8, <1>9, <1>10 DEF PolicyNext

LEMMA LatchStep == PolicyInv /\ PolicyNext =>
    \A d \in Device :
      controls[d].thermal = "hot" /\ controls'[d].thermal = "cool" =>
        /\ Observable(d)
        /\ \A th \in RuleOf(d).thermal : StatusOf(d).temp < th.cool_temp
  BY ThermalStep DEF NextThermal

LEMMA RegimeStep == PolicyInv /\ PolicyNext =>
    \A g \in Group :
      regime'[g] # regime[g] =>
        LET members == {d \in active : shadows[d].group = Some(g)
                                        /\ shadows[d].status # None}
            sum == SumOfLoads(shadows, members)
            limit(load) == load * Cardinality(members)
        IN  /\ members # {}
            /\ \/ regime'[g] = "busy" /\ sum > limit(policy[g].busy_load)
               \/ regime'[g] = "idle" /\ sum < limit(policy[g].idle_load)
<1> SUFFICES ASSUME PolicyInv, PolicyNext, NEW g \in Group, regime'[g] # regime[g]
             PROVE  LET members == {d \in active : shadows[d].group = Some(g)
                                                    /\ shadows[d].status # None}
                        sum == SumOfLoads(shadows, members)
                        limit(load) == load * Cardinality(members)
                    IN  /\ members # {}
                        /\ \/ regime'[g] = "busy" /\ sum > limit(policy[g].busy_load)
                           \/ regime'[g] = "idle" /\ sum < limit(policy[g].idle_load)
  OBVIOUS
<1> USE DEF PolicyInv
<1>1. Evaluate
  BY DEF PolicyNext, Enroll, Activate, Deactivate, Report, SetPolicy, CommandOne,
         CommandSucceeds, CommandFails
<1>2. regime' = EvaluatedRegime
  BY <1>1, EvaluateStep
<1>3. /\ Members(g) # {}
      /\ regime'[g] = NextRegime(policy[g], regime[g], LoadSum(g), Cardinality(Members(g)))
  BY <1>2 DEF EvaluatedRegime
<1>4. g \in DOMAIN policy
  BY <1>3 DEF Members, Observable, Some
<1>5. Members(g) = {d \in active : shadows[d].group = Some(g) /\ shadows[d].status # None}
  BY <1>4 DEF Members, Observable, PolicyTypeOK
<1>6. \/ /\ regime'[g] = "busy"
         /\ LoadSum(g) > policy[g].busy_load * Cardinality(Members(g))
      \/ /\ regime'[g] = "idle"
         /\ LoadSum(g) < policy[g].idle_load * Cardinality(Members(g))
  BY <1>3 DEF NextRegime
<1> QED BY <1>3, <1>5, <1>6 DEF LoadSum

\* Neither the thermal latch of a device nor the regime of a group flips without a
\* cause, whatever connects, leaves or is reloaded.
THEOREM LatchesHeld == PolicySpec => HysteresisHeld
<1>1. PolicyInv /\ [PolicyNext]_policyVars =>
        [\A d \in Device :
           controls[d].thermal = "hot" /\ controls'[d].thermal = "cool" =>
             /\ Observable(d)
             /\ \A th \in RuleOf(d).thermal : StatusOf(d).temp < th.cool_temp]_policyVars
  BY LatchStep
<1>2. PolicyInv /\ [PolicyNext]_policyVars =>
        [\A g \in Group :
           regime'[g] # regime[g] =>
             LET members == {d \in active : shadows[d].group = Some(g)
                                             /\ shadows[d].status # None}
                 sum == SumOfLoads(shadows, members)
                 limit(load) == load * Cardinality(members)
             IN  /\ members # {}
                 /\ \/ regime'[g] = "busy" /\ sum > limit(policy[g].busy_load)
                    \/ regime'[g] = "idle" /\ sum < limit(policy[g].idle_load)]_policyVars
  BY RegimeStep
<1>3. PolicySpec => LatchHeld
  BY <1>1, PolicyInvAlways, PTL DEF PolicySpec, LatchHeld
<1>4. PolicySpec => RegimeHasCause
  BY <1>2, PolicyInvAlways, PTL DEF PolicySpec, RegimeHasCause
<1> QED BY <1>3, <1>4 DEF HysteresisHeld

LEMMA QuietStep ==
    PolicyInv /\ PolicyNext => (quiet /\ Between /\ Evaluate => DOMAIN to_command' = {})
<1> SUFFICES ASSUME PolicyInv, quiet, Evaluate PROVE DOMAIN to_command' = {}
  OBVIOUS
<1> USE DEF PolicyInv
<1>1. to_command' = [d \in Chosen |-> The(IssuedTo(d))]
  BY EvaluateStep
<1>2. EvaluatedRegime = regime
  BY DEF EvaluatedRegime, QuietSettled, PolicyTypeOK
<1>3. ASSUME NEW d \in Device, Observable(d)
      PROVE  IssuedTo(d) = None
  <2>1. /\ NextThermal(RuleOf(d), controls[d].thermal, StatusOf(d).temp)
             = controls[d].thermal
        /\ Content(controls[d], RuleOf(d), regime[The(shadows[d].group)])
    BY <1>3 DEF QuietSettled
  <2>2. controls[d] \in Control(CommandRef)
    BY DEF PolicyTypeOK, CommandRef
  <2>3. Observed(controls[d], RuleOf(d), StatusOf(d).temp) = controls[d]
    BY <2>1, <2>2 DEF Observed, Control
  <2>4. IssuedTo(d) = Issued(controls[d], RuleOf(d), regime[The(shadows[d].group)])
    BY <1>2, <2>3 DEF IssuedTo
  <2> QED BY <2>1, <2>4, ContentIssuesNothing
<1>4. Chosen = {}
  BY <1>3 DEF Chosen
<1> QED BY <1>1, <1>4

\* No command storm: an evaluation after one that nothing from outside followed
\* commands nobody.
THEOREM NoCommandWithoutCause == PolicySpec => CommandsHaveCause
<1>1. PolicyInv /\ [PolicyNext]_policyVars =>
        [quiet /\ Between /\ Evaluate => DOMAIN to_command' = {}]_policyVars
  BY QuietStep
<1> QED BY <1>1, PolicyInvAlways, PTL DEF PolicySpec, CommandsHaveCause

LEMMA ReleaseStep == PolicyInv /\ PolicyNext =>
    \A d \in protected :
      Between /\ Evaluate /\ Observable(d) /\ controls'[d].thermal = "cool" =>
        controls'[d].mode \in {Some(RuleOf(d).idle_mode), Some(RuleOf(d).busy_mode)}
<1> SUFFICES ASSUME PolicyInv, NEW d \in protected, Evaluate, Observable(d),
                    controls'[d].thermal = "cool"
             PROVE  controls'[d].mode
                      \in {Some(RuleOf(d).idle_mode), Some(RuleOf(d).busy_mode)}
  OBVIOUS
<1> USE DEF PolicyInv
<1> DEFINE regime_ == EvaluatedRegime[The(shadows[d].group)]
           control == Observed(controls[d], RuleOf(d), StatusOf(d).temp)
           target == Target(control, RuleOf(d), regime_)
<1>1. d \in Device /\ controls[d].protection
  BY DEF PolicyTypeOK, ProtectedRemembered
<1>2. controls[d] \in Control(CommandRef) /\ regime_ \in Regime
  BY <1>1, ObservableFacts, RegimeType DEF PolicyTypeOK, CommandRef
<1>3. controls'[d] = AfterDecide(control, RuleOf(d), regime_)
  BY <1>1, EvaluateStep DEF Decided
<1>4. /\ control \in Control(CommandRef)
      /\ control.protection = controls[d].protection
      /\ AfterDecide(control, RuleOf(d), regime_).thermal = control.thermal
  <2>1. /\ control \in Control(CommandRef)
        /\ \A f \in {"protection", "mode", "command", "failed", "awaiting"} :
             control[f] = controls[d][f]
    BY <1>2, ObservedControl
  <2>2. NamesModes(RuleOf(d))
    BY <1>1, ObservableFacts
  <2> QED BY <1>2, <2>1, <2>2, DecidedControl
<1>5. control.thermal = "cool" /\ control.protection
  BY <1>1, <1>3, <1>4
<1> HIDE DEF control
<1>6. target \in {Some(RuleOf(d).idle_mode), Some(RuleOf(d).busy_mode)}
  <2>1. CASE regime_ = "unknown"
    BY <1>5, <2>1 DEF Target, UnknownTarget
  <2>2. CASE regime_ # "unknown"
    BY <1>2, <1>5, <2>2 DEF Target, Regime
  <2> QED BY <2>1, <2>2
<1> HIDE DEF target, regime_
<1>7. target # None
  BY <1>6 DEF Some, None
<1>8. AfterDecide(control, RuleOf(d), regime_).mode = target
  <2>1. CASE Settled(control, target)
    BY <2>1 DEF AfterDecide, Issued, Settled, target
  <2>2. CASE ~Settled(control, target)
    BY <1>4, <1>7, <2>2 DEF AfterDecide, Issued, Control, target
  <2> QED BY <2>1, <2>2
<1> QED BY <1>3, <1>6, <1>8

\* Protection ends: an evaluation that finds a protected device cool leaves a load mode
\* of its rule on record, whatever happened in between.
THEOREM ProtectionAlwaysReleased == PolicySpec => ProtectionReleased
<1>1. PolicyInv /\ [PolicyNext]_policyVars =>
        [\A d \in protected :
           Between /\ Evaluate /\ Observable(d) /\ controls'[d].thermal = "cool" =>
             controls'[d].mode
               \in {Some(RuleOf(d).idle_mode), Some(RuleOf(d).busy_mode)}]_policyVars
  BY ReleaseStep
<1> QED BY <1>1, PolicyInvAlways, PTL DEF PolicySpec, ProtectionReleased
============================================================================
