----------------------- MODULE CommandServiceProofs -----------------------
(***************************************************************************)
(* Theorems about CommandService, for every set of devices and modes and   *)
(* every value of the limits.                                              *)
(***************************************************************************)
EXTENDS CommandService, FiniteSetTheorems, TLAPS

----------------------------------------------------------------------------
(* The helpers. *)

LEMMA CountType ==
    ASSUME metrics \in [Counter -> Nat], NEW counters
    PROVE  Count(counters) \in [Counter -> Nat]
  BY DEF Count

LEMMA PutDomain ==
    ASSUME NEW map, NEW d, NEW s
    PROVE  /\ DOMAIN Put(map, d, s) = DOMAIN map \cup {d}
           /\ \A x \in DOMAIN Put(map, d, s) :
                Put(map, d, s)[x] = IF x = d THEN s ELSE map[x]
  BY DEF Put

LEMMA EraseDomain ==
    ASSUME NEW map, NEW d
    PROVE  /\ DOMAIN Erase(map, d) = DOMAIN map \ {d}
           /\ \A x \in DOMAIN Erase(map, d) : Erase(map, d)[x] = map[x]
  BY DEF Erase

\* A well-formed slot: waiting to be resent only with an attempt left.
GoodSlot(s) == s \in Slot /\ (s.state = "backoff" => s.attempts < MaxAttempts)

\* A map from some of the devices to well-formed slots.
GoodPending(map) ==
    /\ DOMAIN map \subseteq Device
    /\ map \in [DOMAIN map -> Slot]
    /\ \A x \in DOMAIN map : GoodSlot(map[x])

\* The inductive invariant: the type invariant needs to know that a command
\* waiting to be resent has an attempt left, or the resend could exceed the
\* range of attempts.
CommandInv == CommandTypeOK /\ BackoffHasAttempt

LEMMA InvPending == CommandInv => GoodPending(pending)
  BY DEF CommandInv, CommandTypeOK, BackoffHasAttempt, GoodPending, GoodSlot

LEMMA PutGood ==
    ASSUME NEW map, GoodPending(map), NEW d \in Device, NEW s, GoodSlot(s)
    PROVE  GoodPending(Put(map, d, s))
  BY DEF GoodPending, GoodSlot, Put

LEMMA EraseGood ==
    ASSUME NEW map, GoodPending(map), NEW d
    PROVE  GoodPending(Erase(map, d))
  BY DEF GoodPending, Erase

LEMMA UpdateGood ==
    ASSUME NEW map, GoodPending(map), NEW d \in DOMAIN map, NEW s, GoodSlot(s)
    PROVE  GoodPending([map EXCEPT ![d] = s])
  BY DEF GoodPending, GoodSlot

LEMMA BackoffType ==
    ASSUME NEW n \in 1..MaxAttempts
    PROVE  BackoffFor(n) \in Int
<1>1. DoublingsOf(n) \in Nat
  BY CommandConstants DEF DoublingsOf
<1>2. 2 ^ DoublingsOf(n) \in Int
  BY <1>1
<1> QED BY <1>2, CommandConstants DEF BackoffFor

\* What the operations make of a slot.
LEMMA SlotGood ==
    ASSUME NEW s, GoodSlot(s)
    PROVE  /\ GoodSlot(AckedSlot(s))
           /\ GoodSlot(DetachedSlot(s))
           /\ s.state = "backoff" => GoodSlot(ResentSlot(s))
           /\ ~Exhausted(s) =>
                GoodSlot([s EXCEPT !.state = "backoff", !.due = BackoffFor(s.attempts)])
           /\ GoodSlot([s EXCEPT !.due = IF @ < 0 THEN @ ELSE @ - 1])
<1>1. /\ s \in Slot /\ CommandTimeout \in Int
      /\ s.attempts \in 1..MaxAttempts /\ MaxAttempts \in Nat
      /\ s.due \in Int /\ (s.state = "backoff" => s.attempts < MaxAttempts)
  BY CommandConstants DEF GoodSlot, Slot
<1>2. GoodSlot(AckedSlot(s)) /\ GoodSlot(DetachedSlot(s))
  BY <1>1 DEF GoodSlot, Slot, AckedSlot, DetachedSlot
<1>3. ASSUME s.state = "backoff" PROVE GoodSlot(ResentSlot(s))
  <2>1. s.attempts + 1 \in 1..MaxAttempts
    BY <1>1, <1>3
  <2> QED BY <1>1, <2>1 DEF GoodSlot, Slot, ResentSlot
<1>4. ASSUME ~Exhausted(s)
      PROVE  GoodSlot([s EXCEPT !.state = "backoff", !.due = BackoffFor(s.attempts)])
  <2>1. s.attempts < MaxAttempts /\ BackoffFor(s.attempts) \in Int
    BY <1>1, <1>4, BackoffType DEF Exhausted
  <2> QED BY <1>1, <2>1 DEF GoodSlot, Slot
<1>5. GoodSlot([s EXCEPT !.due = IF @ < 0 THEN @ ELSE @ - 1])
  BY <1>1 DEF GoodSlot, Slot
<1> QED BY <1>2, <1>3, <1>4, <1>5

----------------------------------------------------------------------------
(* Type correctness. *)

LEMMA CloseFailedSlotType ==
    ASSUME CommandInv, NEW d \in DOMAIN pending, CloseFailedSlot(d)
    PROVE  /\ GoodPending(pending')
           /\ verdict' \in [CommandId -> Verdict]
           /\ notified' \subseteq CommandId
<1>1. pending[d].id \in CommandId
  BY InvPending DEF GoodPending, GoodSlot, Slot
<1>2. GoodPending(pending')
  BY InvPending, EraseGood DEF CloseFailedSlot
<1>3. verdict' \in [CommandId -> Verdict]
  BY <1>1 DEF CloseFailedSlot, Verdict, CommandInv, CommandTypeOK
<1>4. notified' \subseteq CommandId
  BY <1>1 DEF CloseFailedSlot, When, CommandInv, CommandTypeOK
<1> QED BY <1>2, <1>3, <1>4

\* The parts of a step that FailAttempt determines keep their types.
LEMMA FailAttemptType ==
    ASSUME CommandInv, NEW d \in DOMAIN pending, NEW reason, FailAttempt(d, reason)
    PROVE  /\ GoodPending(pending')
           /\ metrics' \in [Counter -> Nat]
           /\ verdict' \in [CommandId -> Verdict]
           /\ notified' \subseteq CommandId
<1>0. metrics \in [Counter -> Nat] /\ GoodPending(pending) /\ GoodSlot(pending[d])
  BY InvPending DEF CommandInv, CommandTypeOK, GoodPending
<1>1. CASE Exhausted(pending[d])
  <2>1. CloseFailedSlot(d) /\ metrics' = Count({reason, "failed_exhausted"})
    BY <1>1 DEF FailAttempt
  <2> QED BY <1>0, <2>1, CloseFailedSlotType, CountType
<1>2. CASE ~Exhausted(pending[d])
  <2> DEFINE s == [pending[d] EXCEPT !.state = "backoff",
                                     !.due = BackoffFor(pending[d].attempts)]
  <2>1. /\ pending' = [pending EXCEPT ![d] = s]
        /\ metrics' = Count({reason})
        /\ UNCHANGED <<verdict, notified>>
    BY <1>2 DEF FailAttempt
  <2>2. GoodSlot(s)
    BY <1>0, <1>2, SlotGood
  <2>3. GoodPending(pending')
    <3> HIDE DEF s
    <3> QED BY <1>0, <2>1, <2>2, UpdateGood
  <2> QED BY <1>0, <2>1, <2>3, CountType DEF CommandInv, CommandTypeOK
<1> QED BY <1>1, <1>2

LEMMA CommandInvInit == CommandInit => CommandInv
  BY CommandConstants
     DEF CommandInit, CommandInv, CommandTypeOK, BackoffHasAttempt,
         Counter, Verdict, CommandId

\* The invariant after a step, from what its parts become.
LEMMA InvFromParts ==
    ASSUME GoodPending(pending'),
           next_command_id' \in 1..(MaxCommands + 1),
           metrics' \in [Counter -> Nat],
           sink_attached' \in BOOLEAN,
           sweep_due' \subseteq Device \X CommandId,
           unacked' \subseteq Transmission,
           unanswered' \subseteq Transmission,
           verdict' \in [CommandId -> Verdict],
           notified' \subseteq CommandId
    PROVE  CommandInv'
  BY DEF GoodPending, GoodSlot, CommandInv, CommandTypeOK, BackoffHasAttempt

LEMMA DispatchInv ==
    ASSUME CommandInv, NEW d \in Device, NEW m \in Mode, NEW sent \in SendResult,
           Dispatch(d, m, sent)
    PROVE  CommandInv'
<1> USE DEF CommandInv, CommandTypeOK
<1>1. next_command_id \in CommandId /\ next_command_id' \in 1..(MaxCommands + 1)
  BY CommandConstants DEF Dispatch, CommandId
<1>2. GoodPending(pending)
  BY InvPending
<1>3. VerdictsSuperseding(d) \in [CommandId -> Verdict]
  BY <1>2 DEF VerdictsSuperseding, Verdict, Slot, GoodPending
<1>4. GoodSlot(NewSlot(next_command_id, m))
  BY <1>1, CommandConstants DEF NewSlot, GoodSlot, Slot
<1>5. GoodPending(WithoutReplaced(d))
  BY <1>2, EraseGood DEF WithoutReplaced
<1>6. GoodPending(pending')
  BY <1>4, <1>5, PutGood DEF Dispatch
<1>7. metrics' \in [Counter -> Nat]
  BY CountType DEF Dispatch
<1>8. verdict' \in [CommandId -> Verdict]
  BY <1>1, <1>3 DEF Dispatch, Verdict
<1>9. unacked' \subseteq Transmission /\ unanswered' \subseteq Transmission
  <2>1. [device |-> d, id |-> next_command_id, attempt |-> 1] \in Transmission
    BY <1>1, CommandConstants DEF Transmission
  <2> QED BY <2>1 DEF Dispatch, Transmit
<1> QED
  BY <1>1, <1>6, <1>7, <1>8, <1>9, InvFromParts DEF Dispatch

LEMMA AcknowledgeInv ==
    ASSUME CommandInv, NEW t \in unacked, Acknowledge(t)
    PROVE  CommandInv'
<1> USE DEF CommandInv, CommandTypeOK
<1>1. GoodPending(pending)
  BY InvPending
<1>2. CASE Tracked(t.device, t.id)
  <2>1. t.device \in DOMAIN pending /\ GoodSlot(pending[t.device])
    BY <1>1, <1>2 DEF Tracked, GoodPending
  <2>2. GoodPending(pending')
    <3>1. GoodSlot(AckedSlot(pending[t.device]))
      BY <2>1, SlotGood
    <3>2. pending' = [pending EXCEPT ![t.device] = AckedSlot(pending[t.device])]
      BY <1>2 DEF Acknowledge
    <3> QED BY <1>1, <2>1, <3>1, <3>2, UpdateGood
  <2> QED BY <1>2, <2>2, InvFromParts DEF Acknowledge
<1>3. CASE ~Tracked(t.device, t.id)
  BY <1>1, <1>3, CountType, InvFromParts DEF Acknowledge
<1> QED BY <1>2, <1>3

LEMMA SettleInv ==
    ASSUME CommandInv, NEW t \in unanswered, NEW success \in BOOLEAN,
           Settle(t, success)
    PROVE  CommandInv'
<1> USE DEF CommandInv, CommandTypeOK
<1>1. GoodPending(pending)
  BY InvPending
<1>2. CASE ~Tracked(t.device, t.id)
  BY <1>1, <1>2, CountType, InvFromParts DEF Settle
<1>3. CASE Tracked(t.device, t.id) /\ ~success
  <2>1. t.device \in DOMAIN pending
        /\ FailAttempt(t.device, "attempt_failures_agent_failure")
    BY <1>3 DEF Settle, Tracked
  <2> QED BY <2>1, FailAttemptType, InvFromParts DEF Settle
<1>4. CASE Tracked(t.device, t.id) /\ success
  <2>1. GoodPending(pending')
    BY <1>1, <1>4, EraseGood DEF Settle
  <2>2. verdict' \in [CommandId -> Verdict]
    BY <1>4 DEF Settle, Verdict
  <2> QED BY <1>4, <2>1, <2>2, CountType, InvFromParts DEF Settle
<1> QED BY <1>2, <1>3, <1>4

LEMMA SweepBeginInv ==
    ASSUME CommandInv, SweepBegin
    PROVE  CommandInv'
<1>1. GoodPending(pending)
  BY InvPending
<1>2. DueCommands \subseteq Device \X CommandId
  BY <1>1 DEF DueCommands, GoodPending, Slot
<1> QED BY <1>1, <1>2, InvFromParts DEF SweepBegin, CommandInv, CommandTypeOK

LEMMA SweepTimeoutInv ==
    ASSUME CommandInv, NEW d \in Device, NEW c \in CommandId, SweepTimeout(d, c)
    PROVE  CommandInv'
<1>1. d \in DOMAIN pending /\ FailAttempt(d, "attempt_failures_timeout")
  BY DEF SweepTimeout, Tracked
<1> QED
  BY <1>1, FailAttemptType, InvFromParts DEF SweepTimeout, CommandInv, CommandTypeOK

LEMMA SweepResendInv ==
    ASSUME CommandInv, NEW d \in Device, NEW c \in CommandId, NEW sent \in SendResult,
           SweepResend(d, c, sent)
    PROVE  CommandInv'
<1> USE DEF CommandInv, CommandTypeOK
<1>1. /\ GoodPending(pending) /\ d \in DOMAIN pending
      /\ GoodSlot(pending[d]) /\ pending[d].state = "backoff"
  BY InvPending DEF SweepResend, Tracked, GoodPending
<1>2. CASE sent = "ok"
  <2>1. GoodPending(pending')
    <3>1. GoodSlot(ResentSlot(pending[d]))
      BY <1>1, SlotGood
    <3>2. pending' = [pending EXCEPT ![d] = ResentSlot(pending[d])]
      BY <1>2 DEF SweepResend
    <3> QED BY <1>1, <3>1, <3>2, UpdateGood
  <2>2. pending[d].attempts + 1 \in 1..MaxAttempts
    BY <1>1, CommandConstants DEF GoodSlot, Slot
  <2>3. [device |-> d, id |-> c, attempt |-> pending[d].attempts + 1] \in Transmission
    BY <2>2 DEF Transmission
  <2>4. unacked' \subseteq Transmission /\ unanswered' \subseteq Transmission
    BY <1>2, <2>3 DEF SweepResend, Transmit
  <2> QED BY <1>2, <2>1, <2>4, CountType, InvFromParts DEF SweepResend
<1>3. CASE sent # "ok"
  <2>1. CloseFailedSlot(d)
    BY <1>3 DEF SweepResend
  <2> QED
    BY <1>1, <1>3, <2>1, CloseFailedSlotType, CountType, InvFromParts DEF SweepResend
<1> QED BY <1>2, <1>3

LEMMA DetachInv ==
    ASSUME CommandInv, DetachFailureSink
    PROVE  CommandInv'
<1>1. GoodPending(pending)
  BY InvPending
<1>2. \A x \in DOMAIN pending : GoodSlot(DetachedSlot(pending[x]))
  BY <1>1, SlotGood DEF GoodPending
<1>3. GoodPending(pending')
  BY <1>1, <1>2 DEF DetachFailureSink, GoodPending, GoodSlot
<1> QED BY <1>3, InvFromParts DEF DetachFailureSink, CommandInv, CommandTypeOK

LEMMA ElapseInv ==
    ASSUME CommandInv, Elapse
    PROVE  CommandInv'
<1>1. GoodPending(pending)
  BY InvPending
<1> DEFINE Older(s) == [s EXCEPT !.due = IF @ < 0 THEN @ ELSE @ - 1]
<1>2. \A x \in DOMAIN pending : GoodSlot(Older(pending[x]))
  BY <1>1, SlotGood DEF GoodPending
<1>3. pending' = [x \in DOMAIN pending |-> Older(pending[x])]
  BY DEF Elapse
<1>4. GoodPending(pending')
  <2> HIDE DEF Older
  <2> QED BY <1>1, <1>2, <1>3 DEF GoodPending, GoodSlot
<1> QED BY <1>4, InvFromParts DEF Elapse, CommandInv, CommandTypeOK

LEMMA CommandInvStep == CommandInv /\ [CommandNext]_commandVars => CommandInv'
<1> SUFFICES ASSUME CommandInv, [CommandNext]_commandVars PROVE CommandInv'
  OBVIOUS
<1>1. ASSUME NEW d \in Device, NEW m \in Mode, NEW sent \in SendResult,
             Idle, Dispatch(d, m, sent)
      PROVE  CommandInv'
  BY <1>1, DispatchInv
<1>2. ASSUME NEW t \in unacked, Idle, Acknowledge(t) PROVE CommandInv'
  BY <1>2, AcknowledgeInv
<1>3. ASSUME NEW t \in unanswered, NEW success \in BOOLEAN, Idle, Settle(t, success)
      PROVE  CommandInv'
  BY <1>3, SettleInv
<1>4. CASE Idle /\ SweepBegin
  BY <1>4, SweepBeginInv
<1>5. ASSUME NEW d \in Device, NEW c \in CommandId, SweepTimeout(d, c)
      PROVE  CommandInv'
  BY <1>5, SweepTimeoutInv
<1>6. ASSUME NEW d \in Device, NEW c \in CommandId, NEW sent \in SendResult,
             SweepResend(d, c, sent)
      PROVE  CommandInv'
  BY <1>6, SweepResendInv
<1>7. CASE Idle /\ DetachFailureSink
  BY <1>7, DetachInv
<1>8. CASE Idle /\ Elapse
  BY <1>8, ElapseInv
<1>9. CASE UNCHANGED commandVars
  BY <1>9 DEF commandVars, CommandInv, CommandTypeOK, BackoffHasAttempt
<1> QED
  BY <1>1, <1>2, <1>3, <1>4, <1>5, <1>6, <1>7, <1>8, <1>9 DEF CommandNext

\* The state of the command service always has the declared types, and a command
\* waiting to be resent has an attempt left: no slot ever exceeds max_attempts.
THEOREM CommandTypeCorrect == CommandSpec => [](CommandTypeOK /\ BackoffHasAttempt)
<1>1. CommandInv => CommandTypeOK /\ BackoffHasAttempt
  BY DEF CommandInv
<1> QED BY <1>1, CommandInvInit, CommandInvStep, PTL DEF CommandSpec

----------------------------------------------------------------------------
(* Conservation. *)

ConservationInv == CommandInv /\ Conservation

LEMMA PendingCount ==
    ASSUME CommandInv
    PROVE  /\ IsFiniteSet(DOMAIN pending)
           /\ Cardinality(DOMAIN pending) \in Nat
           /\ \A d \in DOMAIN pending :
                Cardinality(DOMAIN pending \ {d}) = Cardinality(DOMAIN pending) - 1
           /\ \A d \in Device \ DOMAIN pending :
                Cardinality(DOMAIN pending \cup {d}) = Cardinality(DOMAIN pending) + 1
<1>1. IsFiniteSet(DOMAIN pending)
  BY CommandConstants, FS_Subset DEF CommandInv, CommandTypeOK
<1> QED BY <1>1, FS_CardinalityType, FS_AddElement, FS_RemoveElement

\* Both conjuncts only read five counts, so a step that changes none of them
\* preserves them.
Counted == {"dispatched", "succeeded", "failed_exhausted", "failed_offline",
            "failed_encode_fail", "superseded", "dispatch_failures_offline",
            "dispatch_failures_encode_fail"}

LEMMA CountedNat ==
    ASSUME CommandInv
    PROVE  /\ metrics["dispatched"] \in Nat
           /\ metrics["succeeded"] \in Nat
           /\ metrics["failed_exhausted"] \in Nat
           /\ metrics["failed_offline"] \in Nat
           /\ metrics["failed_encode_fail"] \in Nat
           /\ metrics["superseded"] \in Nat
           /\ metrics["dispatch_failures_offline"] \in Nat
           /\ metrics["dispatch_failures_encode_fail"] \in Nat
  BY DEF CommandInv, CommandTypeOK, Counter

LEMMA UncountedStep ==
    ASSUME ConservationInv,
           \A k \in Counted : metrics'[k] = metrics[k],
           DOMAIN pending' = DOMAIN pending,
           next_command_id' = next_command_id
    PROVE  Conservation'
  BY DEF ConservationInv, Conservation, Failed, Counted

\* A tracked command leaves pending and exactly one outcome counter takes it.
LEMMA ClosingStep ==
    ASSUME ConservationInv, NEW d \in DOMAIN pending,
           NEW k \in {"succeeded", "failed_exhausted", "failed_offline",
                      "failed_encode_fail"},
           NEW others, others \cap Counted = {},
           metrics' = Count({k} \cup others),
           DOMAIN pending' = DOMAIN pending \ {d},
           next_command_id' = next_command_id
    PROVE  Conservation'
<1>1. /\ Cardinality(DOMAIN pending') = Cardinality(DOMAIN pending) - 1
      /\ Cardinality(DOMAIN pending) \in Nat
  BY PendingCount DEF ConservationInv
<1>2. \A x \in Counted :
         /\ metrics[x] \in Nat
         /\ metrics'[x] = IF x = k THEN metrics[x] + 1 ELSE metrics[x]
  BY DEF Count, Counted, Counter, ConservationInv, CommandInv, CommandTypeOK
<1> QED BY <1>1, <1>2 DEF ConservationInv, Conservation, Failed, Counted,
                          CommandInv, CommandTypeOK

\* The same for a step that only counts the outcome.
LEMMA PlainClosingStep ==
    ASSUME ConservationInv, NEW d \in DOMAIN pending,
           NEW k \in {"succeeded", "failed_exhausted", "failed_offline",
                      "failed_encode_fail"},
           metrics' = Count({k}),
           DOMAIN pending' = DOMAIN pending \ {d},
           next_command_id' = next_command_id
    PROVE  Conservation'
<1>1. {k} = {k} \cup {} /\ {} \cap Counted = {}
  OBVIOUS
<1> QED BY <1>1, ClosingStep

LEMMA FailAttemptConserves ==
    ASSUME ConservationInv, NEW d \in DOMAIN pending,
           NEW reason \in {"attempt_failures_agent_failure", "attempt_failures_timeout"},
           FailAttempt(d, reason), next_command_id' = next_command_id
    PROVE  Conservation'
<1>1. CASE Exhausted(pending[d])
  <2>1. metrics' = Count({"failed_exhausted"} \cup {reason})
    BY <1>1 DEF FailAttempt, Count
  <2>2. DOMAIN pending' = DOMAIN pending \ {d}
    BY <1>1, EraseDomain DEF FailAttempt, CloseFailedSlot
  <2>3. {reason} \cap Counted = {}
    BY DEF Counted
  <2> QED BY <2>1, <2>2, <2>3, ClosingStep
<1>2. CASE ~Exhausted(pending[d])
  <2>1. DOMAIN pending' = DOMAIN pending
    BY <1>2 DEF FailAttempt
  <2>2. \A k \in Counted : metrics'[k] = metrics[k]
    BY <1>2 DEF FailAttempt, Count, Counted, Counter
  <2> QED BY <2>1, <2>2, UncountedStep
<1> QED BY <1>1, <1>2

LEMMA DispatchConserves ==
    ASSUME ConservationInv, NEW d \in Device, NEW m \in Mode, NEW sent \in SendResult,
           Dispatch(d, m, sent)
    PROVE  Conservation'
<1> DEFINE tracked == d \in DOMAIN pending
           replaced == IF tracked THEN 1 ELSE 0
<1>1. /\ \A k \in Counter : metrics[k] \in Nat
      /\ next_command_id \in Nat
  BY CommandConstants DEF ConservationInv, CommandInv, CommandTypeOK
<1>2. /\ Cardinality(DOMAIN pending) \in Nat
      /\ tracked => Cardinality(DOMAIN pending \ {d}) = Cardinality(DOMAIN pending) - 1
      /\ ~tracked => Cardinality(DOMAIN pending \cup {d}) = Cardinality(DOMAIN pending) + 1
      /\ tracked => DOMAIN pending \cup {d} = DOMAIN pending
      /\ ~tracked => DOMAIN pending \ {d} = DOMAIN pending
  BY PendingCount DEF ConservationInv
<1>3. CASE sent = "ok"
  <2>1. Cardinality(DOMAIN pending') =
          Cardinality(DOMAIN pending) + 1 - replaced
    <3>1. pending' = Put(Erase(pending, d), d, NewSlot(next_command_id, m))
      BY <1>3 DEF Dispatch, WithoutReplaced
    <3>2. DOMAIN pending' = DOMAIN Erase(pending, d) \cup {d}
      BY <3>1, PutDomain
    <3>3. DOMAIN Erase(pending, d) = DOMAIN pending \ {d}
      BY EraseDomain
    <3>4. DOMAIN pending' = DOMAIN pending \cup {d}
      BY <3>2, <3>3
    <3> QED BY <1>2, <3>4
  <2>2. metrics' = Count(When(tracked, {"superseded"}) \cup {"dispatched"})
    BY <1>3 DEF Dispatch
  <2>3. /\ metrics'["dispatched"] = metrics["dispatched"] + 1
        /\ metrics'["superseded"] = metrics["superseded"] + replaced
        /\ metrics'["succeeded"] = metrics["succeeded"]
        /\ metrics'["failed_exhausted"] = metrics["failed_exhausted"]
        /\ metrics'["failed_offline"] = metrics["failed_offline"]
        /\ metrics'["failed_encode_fail"] = metrics["failed_encode_fail"]
        /\ metrics'["dispatch_failures_offline"] = metrics["dispatch_failures_offline"]
        /\ metrics'["dispatch_failures_encode_fail"]
             = metrics["dispatch_failures_encode_fail"]
    BY <1>1, <2>2 DEF Count, Counter, When
  <2>4. next_command_id' = next_command_id + 1
    BY DEF Dispatch
  <2> QED
    <3>1. Conservation /\ CommandInv /\ Cardinality(DOMAIN pending) \in Nat
      BY <1>2 DEF ConservationInv
    <3>2. replaced \in Int
      OBVIOUS
    <3> HIDE DEF replaced
    <3> QED BY <1>1, <2>1, <2>3, <2>4, <3>1, <3>2, CountedNat DEF Conservation, Failed
<1>4. ASSUME sent # "ok",
             NEW k \in {"dispatch_failures_offline", "dispatch_failures_encode_fail"},
             metrics' = Count(When(tracked, {"superseded"}) \cup {k})
      PROVE  Conservation'
  <2>1. Cardinality(DOMAIN pending') =
          Cardinality(DOMAIN pending) - replaced
    <3>1. DOMAIN pending' = DOMAIN pending \ {d}
      BY <1>4, EraseDomain DEF Dispatch, WithoutReplaced
    <3> QED BY <1>2, <3>1
  <2>2. /\ metrics'["dispatch_failures_offline"]
               + metrics'["dispatch_failures_encode_fail"]
             = metrics["dispatch_failures_offline"]
               + metrics["dispatch_failures_encode_fail"] + 1
        /\ metrics'["superseded"] = metrics["superseded"] + replaced
        /\ metrics'["dispatch_failures_offline"] \in Nat
        /\ metrics'["dispatch_failures_encode_fail"] \in Nat
        /\ metrics'["dispatched"] = metrics["dispatched"]
        /\ metrics'["succeeded"] = metrics["succeeded"]
        /\ metrics'["failed_exhausted"] = metrics["failed_exhausted"]
        /\ metrics'["failed_offline"] = metrics["failed_offline"]
        /\ metrics'["failed_encode_fail"] = metrics["failed_encode_fail"]
    BY <1>1, <1>4 DEF Count, Counter, When
  <2>3. next_command_id' = next_command_id + 1
    BY DEF Dispatch
  <2> QED
    <3>1. Conservation /\ CommandInv /\ Cardinality(DOMAIN pending) \in Nat
      BY <1>2 DEF ConservationInv
    <3>2. replaced \in Int
      OBVIOUS
    <3> HIDE DEF replaced
    <3>3. next_command_id' - 1 = metrics'["dispatched"]
                                    + metrics'["dispatch_failures_offline"]
                                    + metrics'["dispatch_failures_encode_fail"]
      BY <1>1, <2>2, <2>3, <3>1, CountedNat DEF Conservation
    <3>4. metrics'["dispatched"] = metrics'["succeeded"] + Failed'
            + metrics'["superseded"] + Cardinality(DOMAIN pending')
      BY <2>1, <2>2, <3>1, <3>2, CountedNat DEF Conservation, Failed
    <3> QED BY <3>3, <3>4 DEF Conservation
<1> QED BY <1>3, <1>4 DEF Dispatch

LEMMA ConservationStep ==
    ConservationInv /\ [CommandNext]_commandVars => Conservation'
<1> SUFFICES ASSUME ConservationInv, [CommandNext]_commandVars PROVE Conservation'
  OBVIOUS
<1>1. ASSUME NEW d \in Device, NEW m \in Mode, NEW sent \in SendResult,
             Dispatch(d, m, sent)
      PROVE  Conservation'
  BY <1>1, DispatchConserves
<1>2. ASSUME NEW t \in unacked, Acknowledge(t) PROVE Conservation'
  <2>1. \A k \in Counted : metrics'[k] = metrics[k]
    BY <1>2 DEF Acknowledge, Count, Counted, Counter
  <2>2. DOMAIN pending' = DOMAIN pending /\ next_command_id' = next_command_id
    BY <1>2 DEF Acknowledge
  <2> QED BY <2>1, <2>2, UncountedStep
<1>3. ASSUME NEW t \in unanswered, NEW success \in BOOLEAN, Settle(t, success)
      PROVE  Conservation'
  <2>0. next_command_id' = next_command_id
    BY <1>3 DEF Settle
  <2>1. CASE ~Tracked(t.device, t.id)
    <3>1. metrics' = Count({"stale_responses"}) /\ pending' = pending
      BY <1>3, <2>1 DEF Settle
    <3>2. \A k \in Counted : metrics'[k] = metrics[k]
      BY <3>1 DEF Count, Counted, Counter
    <3> QED BY <2>0, <3>1, <3>2, UncountedStep
  <2>2. CASE Tracked(t.device, t.id) /\ ~success
    BY <1>3, <2>0, <2>2, FailAttemptConserves DEF Settle, Tracked
  <2>3. CASE Tracked(t.device, t.id) /\ success
    <3>1. metrics' = Count({"succeeded"}) /\ pending' = Erase(pending, t.device)
      BY <1>3, <2>3 DEF Settle
    <3>2. t.device \in DOMAIN pending
          /\ DOMAIN pending' = DOMAIN pending \ {t.device}
      BY <2>3, <3>1, EraseDomain DEF Tracked
    <3> QED BY <2>0, <3>1, <3>2, PlainClosingStep
  <2> QED BY <2>1, <2>2, <2>3
<1>4. ASSUME NEW d \in Device, NEW c \in CommandId, SweepTimeout(d, c)
      PROVE  Conservation'
  BY <1>4, FailAttemptConserves DEF SweepTimeout, Tracked
<1>5. ASSUME NEW d \in Device, NEW c \in CommandId, NEW sent \in SendResult,
             SweepResend(d, c, sent)
      PROVE  Conservation'
  <2>0. next_command_id' = next_command_id /\ d \in DOMAIN pending
    BY <1>5 DEF SweepResend, Tracked
  <2>1. CASE sent = "ok"
    <3>1. metrics' = Count({"resends"}) /\ DOMAIN pending' = DOMAIN pending
      BY <1>5, <2>1 DEF SweepResend
    <3>2. \A k \in Counted : metrics'[k] = metrics[k]
      BY <3>1 DEF Count, Counted, Counter
    <3> QED BY <2>0, <3>1, <3>2, UncountedStep
  <2>2. CASE sent # "ok"
    <3>1. DOMAIN pending' = DOMAIN pending \ {d}
      BY <1>5, <2>2, EraseDomain DEF SweepResend, CloseFailedSlot
    <3>2. PICK k \in {"failed_offline", "failed_encode_fail"} :
            metrics' = Count({k})
      BY <1>5, <2>2 DEF SweepResend
    <3> QED BY <2>0, <3>1, <3>2, PlainClosingStep
  <2> QED BY <2>1, <2>2
<1>6. CASE SweepBegin \/ DetachFailureSink \/ Elapse \/ UNCHANGED commandVars
  <2>1. metrics' = metrics /\ next_command_id' = next_command_id
    BY <1>6 DEF SweepBegin, DetachFailureSink, Elapse, commandVars
  <2>2. DOMAIN pending' = DOMAIN pending
    BY <1>6 DEF SweepBegin, DetachFailureSink, Elapse, commandVars
  <2> QED BY <2>1, <2>2, UncountedStep
<1> QED BY <1>1, <1>2, <1>3, <1>4, <1>5, <1>6 DEF CommandNext

LEMMA ConservationInit == CommandInit => Conservation
  BY FS_EmptySet DEF CommandInit, Conservation, Failed, Counter

\* The identities of the metrics documentation hold at every moment, however
\* dispatches, responses, timeouts and retries of the devices interleave:
\* dispatched = succeeded + failed + superseded + pending, and every id handed
\* out was dispatched or counted as a dispatch failure.
THEOREM ConservationHolds == CommandSpec => []Conservation
<1>1. CommandInit => ConservationInv
  BY CommandInvInit, ConservationInit DEF ConservationInv
<1>2. ConservationInv /\ [CommandNext]_commandVars => ConservationInv'
  BY CommandInvStep, ConservationStep DEF ConservationInv
<1>3. ConservationInv => Conservation
  BY DEF ConservationInv
<1> QED BY <1>1, <1>2, <1>3, PTL DEF CommandSpec

----------------------------------------------------------------------------
(* Transmissions, sweep targets and the failure sink. *)

\* What the rest of the invariants needs: ids are handed out once, so that an answer
\* or a sweep target that names a command cannot mean another one.
IdsUsedOnce ==
    /\ \A d \in DOMAIN pending : pending[d].id < next_command_id
    /\ \A d, e \in DOMAIN pending : pending[d].id = pending[e].id => d = e
    /\ \A t \in unacked \cup unanswered : t.id < next_command_id

\* No slot reports to a sink that detached itself.
SinksDetached == ~sink_attached => \A d \in DOMAIN pending : ~pending[d].sink

TrackingInv ==
    /\ CommandInv /\ IdsUsedOnce /\ TransmissionsWithinAttempts
    /\ SweepTargetsTracked /\ SinksDetached

\* The step removes slots or changes what does not matter here.
SlotsKept ==
    /\ DOMAIN pending' \subseteq DOMAIN pending
    /\ \A d \in DOMAIN pending' :
         /\ pending'[d].id = pending[d].id
         /\ pending'[d].attempts >= pending[d].attempts
         /\ pending'[d].sink => pending[d].sink

LEMMA SlotTypes ==
    ASSUME CommandInv, NEW d \in DOMAIN pending
    PROVE  /\ d \in Device /\ pending[d] \in Slot
           /\ pending[d].id \in CommandId /\ pending[d].id \in Nat
           /\ pending[d].attempts \in Nat /\ pending[d].due \in Int
           /\ pending[d].state \in {"in_flight", "backoff"}
  BY CommandConstants DEF CommandInv, CommandTypeOK, Slot, CommandId

LEMMA TransmissionTypes ==
    ASSUME CommandInv, NEW t \in unacked \cup unanswered
    PROVE  /\ t.device \in Device /\ t.id \in CommandId
           /\ t.id \in Nat /\ t.attempt \in Nat
  BY CommandConstants DEF CommandInv, CommandTypeOK, Transmission, CommandId

\* A step that keeps the slots, transmits nothing and hands out no id.
LEMMA SlotsKeptTracking ==
    ASSUME TrackingInv, CommandInv', SlotsKept,
           unacked' \cup unanswered' \subseteq unacked \cup unanswered,
           next_command_id' = next_command_id,
           sink_attached' = sink_attached
    PROVE  IdsUsedOnce' /\ TransmissionsWithinAttempts' /\ SinksDetached'
<1>1. IdsUsedOnce'
  BY DEF TrackingInv, IdsUsedOnce, SlotsKept
<1>2. TransmissionsWithinAttempts'
  <2> SUFFICES ASSUME NEW d \in DOMAIN pending', NEW t \in unacked' \cup unanswered',
                      t.id = pending'[d].id
               PROVE  t.device = d /\ t.attempt <= pending'[d].attempts
    BY DEF TransmissionsWithinAttempts
  <2>1. d \in DOMAIN pending /\ t \in unacked \cup unanswered /\ t.id = pending[d].id
    BY DEF SlotsKept
  <2>2. t.device = d /\ t.attempt <= pending[d].attempts
    BY <2>1 DEF TrackingInv, TransmissionsWithinAttempts
  <2>3. /\ t.attempt \in Nat /\ pending[d].attempts \in Nat
        /\ pending'[d].attempts \in Nat
    BY <2>1, SlotTypes, TransmissionTypes, CommandConstants
       DEF TrackingInv, CommandInv, CommandTypeOK, Slot
  <2> QED BY <2>2, <2>3 DEF SlotsKept
<1>3. SinksDetached'
  BY DEF TrackingInv, SinksDetached, SlotsKept
<1> QED BY <1>1, <1>2, <1>3

LEMMA CloseFailedSlotKeeps ==
    ASSUME CommandInv, NEW d, CloseFailedSlot(d)
    PROVE  SlotsKept /\ \A e \in DOMAIN pending \ {d} :
                          e \in DOMAIN pending' /\ pending'[e] = pending[e]
<1>1. /\ DOMAIN pending' = DOMAIN pending \ {d}
      /\ \A e \in DOMAIN pending' : pending'[e] = pending[e]
  BY EraseDomain DEF CloseFailedSlot
<1> QED BY <1>1, SlotTypes DEF SlotsKept

LEMMA FailAttemptKeeps ==
    ASSUME CommandInv, NEW d \in DOMAIN pending, NEW reason, FailAttempt(d, reason)
    PROVE  SlotsKept /\ \A e \in DOMAIN pending \ {d} :
                          e \in DOMAIN pending' /\ pending'[e] = pending[e]
<1>1. CASE Exhausted(pending[d])
  BY <1>1, CloseFailedSlotKeeps DEF FailAttempt
<1>2. CASE ~Exhausted(pending[d])
  <2>1. pending' = [pending EXCEPT ![d] = [pending[d] EXCEPT
                      !.state = "backoff", !.due = BackoffFor(pending[d].attempts)]]
    BY <1>2 DEF FailAttempt
  <2>2. \A e \in DOMAIN pending : pending[e].attempts >= pending[e].attempts
    BY SlotTypes
  <2>3. pending[d] \in Slot
    BY SlotTypes
  <2> QED BY <2>1, <2>2, <2>3 DEF SlotsKept, Slot
<1> QED BY <1>1, <1>2

\* The sweep handles one target; those of other devices stay as they are.
LEMMA TargetHandled ==
    ASSUME TrackingInv, NEW d, NEW c, Tracked(d, c), <<d, c>> \in sweep_due,
           sweep_due' = sweep_due \ {<<d, c>>},
           \A e \in DOMAIN pending \ {d} : e \in DOMAIN pending' /\ pending'[e] = pending[e]
    PROVE  SweepTargetsTracked'
<1> SUFFICES ASSUME NEW e \in sweep_due'
             PROVE  Tracked(e[1], e[2])' /\ IsDue(pending'[e[1]])
  BY DEF SweepTargetsTracked, IsDue
<1>1. e \in sweep_due /\ e \in Device \X CommandId
  BY DEF TrackingInv, CommandInv, CommandTypeOK
<1>2. Tracked(e[1], e[2]) /\ IsDue(pending[e[1]])
  BY <1>1 DEF TrackingInv, SweepTargetsTracked
<1>3. e[1] # d
  <2>1. e[1] = d => e = <<d, c>>
    BY <1>1, <1>2 DEF Tracked
  <2> QED BY <2>1
<1> QED BY <1>2, <1>3 DEF Tracked

LEMMA DispatchTracking ==
    ASSUME TrackingInv, CommandInv', NEW d \in Device, NEW m \in Mode,
           NEW sent \in SendResult, Idle, Dispatch(d, m, sent)
    PROVE  TrackingInv'
<1> DEFINE c == next_command_id
<1>0. /\ c \in Nat /\ c \in CommandId /\ next_command_id' = c + 1
      /\ CommandInv /\ sink_attached' = sink_attached
  BY CommandConstants DEF Dispatch, TrackingInv, CommandInv, CommandTypeOK, CommandId
<1>1. /\ DOMAIN WithoutReplaced(d) = DOMAIN pending \ {d}
      /\ \A e \in DOMAIN pending \ {d} : WithoutReplaced(d)[e] = pending[e]
  BY EraseDomain DEF WithoutReplaced
<1>2. SweepTargetsTracked'
  BY DEF Idle, Dispatch, SweepTargetsTracked
<1>3. CASE sent = "ok"
  <2> DEFINE new == [device |-> d, id |-> c, attempt |-> 1]
  <2>1. /\ pending' = Put(WithoutReplaced(d), d, NewSlot(c, m))
        /\ unacked' \cup unanswered' = (unacked \cup unanswered) \cup {new}
    BY <1>3 DEF Dispatch, Transmit
  <2>2. /\ DOMAIN pending' = (DOMAIN pending \ {d}) \cup {d}
        /\ pending'[d] = NewSlot(c, m)
        /\ \A e \in DOMAIN pending \ {d} : pending'[e] = pending[e]
    <3>1. ASSUME NEW map, NEW s, map = WithoutReplaced(d), pending' = Put(map, d, s)
          PROVE  /\ DOMAIN pending' = (DOMAIN pending \ {d}) \cup {d}
                 /\ pending'[d] = s
                 /\ \A e \in DOMAIN pending \ {d} : pending'[e] = pending[e]
      BY <1>1, <3>1 DEF Put
    <3> QED BY <2>1, <3>1
  <2>3. /\ NewSlot(c, m).id = c /\ NewSlot(c, m).attempts = 1
        /\ NewSlot(c, m).sink = sink_attached
    BY DEF NewSlot
  <2>4. /\ \A e \in DOMAIN pending : pending[e].id \in Nat /\ pending[e].id < c
        /\ \A t \in unacked \cup unanswered : t.id \in Nat /\ t.id < c
    BY <1>0, SlotTypes, TransmissionTypes DEF TrackingInv, IdsUsedOnce
  <2>5. IdsUsedOnce'
    <3>1. \A e \in DOMAIN pending' : pending'[e].id < next_command_id'
      BY <1>0, <2>2, <2>3, <2>4
    <3>2. \A e, f \in DOMAIN pending' : pending'[e].id = pending'[f].id => e = f
      <4>1. \A e \in DOMAIN pending \ {d} : pending[e].id # c
        BY <1>0, <2>4
      <4>2. \A e, f \in DOMAIN pending : pending[e].id = pending[f].id => e = f
        BY DEF TrackingInv, IdsUsedOnce
      <4> QED BY <2>2, <2>3, <4>1, <4>2
    <3>3. \A t \in unacked' \cup unanswered' : t.id < next_command_id'
      BY <1>0, <2>1, <2>4
    <3> QED BY <3>1, <3>2, <3>3 DEF IdsUsedOnce
  <2>6. TransmissionsWithinAttempts'
    <3> SUFFICES ASSUME NEW e \in DOMAIN pending', NEW t \in unacked' \cup unanswered',
                        t.id = pending'[e].id
                 PROVE  t.device = e /\ t.attempt <= pending'[e].attempts
      BY DEF TransmissionsWithinAttempts
    <3>1. CASE t = new
      <4>1. t.id = c /\ t.device = d /\ t.attempt = 1
        BY <3>1
      <4>2. e = d
        <5>1. \A x \in DOMAIN pending \ {d} : pending'[x].id # c
          BY <1>0, <2>2, <2>4
        <5>2. e \in DOMAIN pending \cup {d} /\ pending'[e].id = c
          BY <2>2, <4>1
        <5> QED BY <5>1, <5>2
      <4> QED BY <4>1, <4>2, <2>2, <2>3
    <3>2. CASE t \in unacked \cup unanswered
      <4>1. e # d
        BY <1>0, <2>2, <2>3, <2>4, <3>2
      <4> QED BY <2>2, <3>2, <4>1 DEF TrackingInv, TransmissionsWithinAttempts
    <3> QED BY <2>1, <3>1, <3>2
  <2>7. SinksDetached'
    BY <1>0, <2>2, <2>3 DEF TrackingInv, SinksDetached
  <2> QED BY <1>2, <2>5, <2>6, <2>7 DEF TrackingInv
<1>4. CASE sent # "ok"
  <2>1. pending' = WithoutReplaced(d) /\ UNCHANGED <<unacked, unanswered>>
    BY <1>4 DEF Dispatch
  <2>2. IdsUsedOnce'
    <3>1. \A e \in DOMAIN pending : pending[e].id \in Nat /\ pending[e].id < c + 1
      BY <1>0, SlotTypes DEF TrackingInv, IdsUsedOnce
    <3>2. \A t \in unacked \cup unanswered : t.id < c + 1
      BY <1>0, TransmissionTypes DEF TrackingInv, IdsUsedOnce
    <3> QED BY <1>0, <1>1, <2>1, <3>1, <3>2 DEF TrackingInv, IdsUsedOnce
  <2>3. TransmissionsWithinAttempts' /\ SinksDetached'
    BY <1>0, <1>1, <2>1 DEF TrackingInv, TransmissionsWithinAttempts, SinksDetached
  <2> QED BY <1>2, <2>2, <2>3 DEF TrackingInv
<1> QED BY <1>3, <1>4

LEMMA SweepResendTracking ==
    ASSUME TrackingInv, CommandInv', NEW d \in Device, NEW c \in CommandId,
           NEW sent \in SendResult, SweepResend(d, c, sent)
    PROVE  TrackingInv'
<1>0. /\ Tracked(d, c) /\ <<d, c>> \in sweep_due /\ sweep_due' = sweep_due \ {<<d, c>>}
      /\ next_command_id' = next_command_id /\ sink_attached' = sink_attached
      /\ d \in DOMAIN pending /\ pending[d].id = c /\ CommandInv
  BY DEF SweepResend, Tracked, TrackingInv
<1>1. CASE sent = "ok"
  <2> DEFINE new == [device |-> d, id |-> c, attempt |-> pending[d].attempts + 1]
  <2>1. /\ pending' = [pending EXCEPT ![d] = ResentSlot(pending[d])]
        /\ unacked' \cup unanswered' = (unacked \cup unanswered) \cup {new}
    BY <1>1 DEF SweepResend, Transmit
  <2>2. /\ ResentSlot(pending[d]).id = c
        /\ ResentSlot(pending[d]).attempts = pending[d].attempts + 1
        /\ ResentSlot(pending[d]).sink = pending[d].sink
        /\ pending[d].attempts \in Nat
    BY <1>0, SlotTypes DEF ResentSlot, Slot
  <2>3. /\ DOMAIN pending' = DOMAIN pending
        /\ pending'[d].id = c /\ pending'[d].attempts = pending[d].attempts + 1
        /\ pending'[d].sink = pending[d].sink
        /\ \A e \in DOMAIN pending \ {d} : pending'[e] = pending[e]
    BY <1>0, <2>1, <2>2
  <2>4. IdsUsedOnce'
    BY <1>0, <2>1, <2>3 DEF TrackingInv, IdsUsedOnce
  <2>5. TransmissionsWithinAttempts'
    <3> SUFFICES ASSUME NEW e \in DOMAIN pending', NEW t \in unacked' \cup unanswered',
                        t.id = pending'[e].id
                 PROVE  t.device = e /\ t.attempt <= pending'[e].attempts
      BY DEF TransmissionsWithinAttempts
    <3>0. e \in DOMAIN pending /\ t.id = pending[e].id
      BY <1>0, <2>3
    <3>1. CASE t = new
      <4>1. t.id = c /\ t.device = d /\ t.attempt = pending[d].attempts + 1
        BY <3>1
      <4>2. e = d
        BY <1>0, <3>0, <4>1 DEF TrackingInv, IdsUsedOnce
      <4> QED BY <2>2, <2>3, <4>1, <4>2
    <3>2. CASE t \in unacked \cup unanswered
      <4>1. t.device = e /\ t.attempt <= pending[e].attempts
        BY <3>0, <3>2 DEF TrackingInv, TransmissionsWithinAttempts
      <4>2. t.attempt \in Nat /\ pending[e].attempts \in Nat
        BY <1>0, <3>0, <3>2, SlotTypes, TransmissionTypes
      <4> QED BY <2>3, <3>0, <4>1, <4>2
    <3> QED BY <2>1, <3>1, <3>2
  <2>6. SinksDetached'
    BY <1>0, <2>3 DEF TrackingInv, SinksDetached
  <2>7. SweepTargetsTracked'
    BY <1>0, <2>3, TargetHandled
  <2> QED BY <2>4, <2>5, <2>6, <2>7 DEF TrackingInv
<1>2. CASE sent # "ok"
  <2>1. CloseFailedSlot(d) /\ UNCHANGED <<unacked, unanswered>>
    BY <1>2 DEF SweepResend
  <2>2. SlotsKept /\ \A e \in DOMAIN pending \ {d} :
                       e \in DOMAIN pending' /\ pending'[e] = pending[e]
    BY <1>0, <2>1, CloseFailedSlotKeeps
  <2> QED BY <1>0, <2>1, <2>2, SlotsKeptTracking, TargetHandled DEF TrackingInv
<1> QED BY <1>1, <1>2

LEMMA TrackingInit == CommandInit => TrackingInv
<1> SUFFICES ASSUME CommandInit PROVE TrackingInv
  OBVIOUS
<1>1. CommandInv
  BY CommandInvInit
<1>2. DOMAIN pending = {} /\ unacked = {} /\ unanswered = {} /\ sweep_due = {}
  BY DEF CommandInit
<1> QED BY <1>1, <1>2 DEF TrackingInv, IdsUsedOnce, TransmissionsWithinAttempts,
                          SweepTargetsTracked, SinksDetached

LEMMA TrackingStep == TrackingInv /\ [CommandNext]_commandVars => TrackingInv'
<1> SUFFICES ASSUME TrackingInv, [CommandNext]_commandVars PROVE TrackingInv'
  OBVIOUS
<1>0. CommandInv /\ CommandInv'
  BY CommandInvStep DEF TrackingInv
<1>a. Idle => (sweep_due' = sweep_due => SweepTargetsTracked')
  BY DEF Idle, SweepTargetsTracked
<1>1. ASSUME NEW d \in Device, NEW m \in Mode, NEW sent \in SendResult,
             Idle, Dispatch(d, m, sent)
      PROVE  TrackingInv'
  BY <1>0, <1>1, DispatchTracking
<1>2. ASSUME NEW t \in unacked, Idle, Acknowledge(t) PROVE TrackingInv'
  <2>1. SlotsKept
    <3>1. CASE Tracked(t.device, t.id)
      <4>1. /\ pending' = [pending EXCEPT ![t.device] = AckedSlot(pending[t.device])]
            /\ t.device \in DOMAIN pending
        BY <1>2, <3>1 DEF Acknowledge, Tracked
      <4>2. \A d \in DOMAIN pending : pending[d].attempts >= pending[d].attempts
        BY <1>0, SlotTypes
      <4>3. /\ AckedSlot(pending[t.device]).id = pending[t.device].id
            /\ AckedSlot(pending[t.device]).attempts = pending[t.device].attempts
            /\ AckedSlot(pending[t.device]).sink = pending[t.device].sink
        BY <1>0, <4>1, SlotTypes DEF AckedSlot, Slot
      <4> QED BY <4>1, <4>2, <4>3 DEF SlotsKept
    <3>2. CASE ~Tracked(t.device, t.id)
      BY <1>0, <1>2, <3>2, SlotTypes DEF Acknowledge, SlotsKept
    <3> QED BY <3>1, <3>2
  <2> QED BY <1>0, <1>a, <1>2, <2>1, SlotsKeptTracking DEF Acknowledge, TrackingInv
<1>3. ASSUME NEW t \in unanswered, NEW success \in BOOLEAN, Idle, Settle(t, success)
      PROVE  TrackingInv'
  <2>1. SlotsKept
    <3>1. CASE ~Tracked(t.device, t.id)
      BY <1>0, <1>3, <3>1, SlotTypes DEF Settle, SlotsKept
    <3>2. CASE Tracked(t.device, t.id) /\ ~success
      BY <1>0, <1>3, <3>2, FailAttemptKeeps DEF Settle, Tracked
    <3>3. CASE Tracked(t.device, t.id) /\ success
      <4>1. pending' = Erase(pending, t.device)
        BY <1>3, <3>3 DEF Settle
      <4>2. /\ DOMAIN pending' = DOMAIN pending \ {t.device}
            /\ \A d \in DOMAIN pending' : pending'[d] = pending[d]
        BY <4>1, EraseDomain
      <4> QED BY <1>0, <4>2, SlotTypes DEF SlotsKept
    <3> QED BY <3>1, <3>2, <3>3
  <2> QED BY <1>0, <1>a, <1>3, <2>1, SlotsKeptTracking DEF Settle, TrackingInv
<1>4. CASE Idle /\ SweepBegin
  <2>1. SlotsKept
    BY <1>0, <1>4, SlotTypes DEF SweepBegin, SlotsKept
  <2>2. SweepTargetsTracked'
    <3> SUFFICES ASSUME NEW e \in DueCommands
                 PROVE  Tracked(e[1], e[2]) /\ IsDue(pending[e[1]])
      BY <1>4 DEF SweepBegin, SweepTargetsTracked, Tracked, IsDue
    <3> QED BY DEF DueCommands, Tracked
  <2> QED BY <1>0, <1>4, <2>1, <2>2, SlotsKeptTracking DEF SweepBegin, TrackingInv
<1>5. ASSUME NEW d \in Device, NEW c \in CommandId, SweepTimeout(d, c)
      PROVE  TrackingInv'
  <2>1. /\ Tracked(d, c) /\ <<d, c>> \in sweep_due /\ d \in DOMAIN pending
        /\ sweep_due' = sweep_due \ {<<d, c>>}
        /\ FailAttempt(d, "attempt_failures_timeout")
        /\ UNCHANGED <<next_command_id, sink_attached, unacked, unanswered>>
    BY <1>5 DEF SweepTimeout, Tracked
  <2>2. SlotsKept /\ \A e \in DOMAIN pending \ {d} :
                       e \in DOMAIN pending' /\ pending'[e] = pending[e]
    BY <1>0, <2>1, FailAttemptKeeps
  <2> QED BY <1>0, <2>1, <2>2, SlotsKeptTracking, TargetHandled DEF TrackingInv
<1>6. ASSUME NEW d \in Device, NEW c \in CommandId, NEW sent \in SendResult,
             SweepResend(d, c, sent)
      PROVE  TrackingInv'
  BY <1>0, <1>6, SweepResendTracking
<1>7. CASE Idle /\ DetachFailureSink
  <2>1. /\ DOMAIN pending' = DOMAIN pending
        /\ \A d \in DOMAIN pending' : /\ pending'[d].id = pending[d].id
                                      /\ pending'[d].attempts = pending[d].attempts
                                      /\ ~pending'[d].sink
    BY <1>0, <1>7, SlotTypes DEF DetachFailureSink, DetachedSlot, Slot
  <2>2. UNCHANGED <<next_command_id, sweep_due, unacked, unanswered>>
    BY <1>7 DEF DetachFailureSink
  <2>3. IdsUsedOnce' /\ TransmissionsWithinAttempts' /\ SinksDetached'
    BY <2>1, <2>2 DEF TrackingInv, IdsUsedOnce, TransmissionsWithinAttempts, SinksDetached
  <2> QED BY <1>0, <1>a, <1>7, <2>2, <2>3 DEF TrackingInv
<1>8. CASE Idle /\ Elapse
  <2>1. SlotsKept
    BY <1>0, <1>8, SlotTypes DEF Elapse, SlotsKept, Slot
  <2> QED BY <1>0, <1>a, <1>8, <2>1, SlotsKeptTracking DEF Elapse, TrackingInv
<1>9. CASE UNCHANGED commandVars
  BY <1>0, <1>9 DEF commandVars, TrackingInv, IdsUsedOnce, TransmissionsWithinAttempts,
                    SweepTargetsTracked, SinksDetached, Tracked, IsDue
<1> QED
  BY <1>1, <1>2, <1>3, <1>4, <1>5, <1>6, <1>7, <1>8, <1>9 DEF CommandNext

\* Whatever answers arrive, how late and for which transmission: no command is
\* transmitted more than max_attempts times, no transmission is taken for one of another
\* command, and what a sweep collected is still tracked and due when it gets there, so
\* that the check for a vanished slot in sweep() is never needed.
THEOREM CommandsAlwaysConsistent == CommandSpec => []CommandsConsistent
<1>1. TrackingInv => CommandsConsistent
  BY DEF TrackingInv, CommandInv, CommandsConsistent, RetryBudget
<1> QED BY <1>1, TrackingInit, TrackingStep, PTL DEF CommandSpec

\* The destructor of the policy service detaches it for good: no failure of a command
\* reaches it afterwards, whatever was in flight, in backoff or being swept.
THEOREM NeverNotifiedAfterDetach == CommandSpec => NoCallbackAfterDetach
<1>1. TrackingInv /\ [CommandNext]_commandVars
        => [~sink_attached => notified' = notified]_commandVars
  <2> SUFFICES ASSUME TrackingInv, CommandNext, ~sink_attached
               PROVE  notified' = notified
    OBVIOUS
  <2>0. \A d \in DOMAIN pending : ~pending[d].sink
    BY DEF TrackingInv, SinksDetached
  <2>1. ASSUME NEW d \in DOMAIN pending, CloseFailedSlot(d) PROVE notified' = notified
    BY <2>0, <2>1 DEF CloseFailedSlot, When
  <2>2. ASSUME NEW d \in DOMAIN pending, NEW reason, FailAttempt(d, reason)
        PROVE  notified' = notified
    BY <2>1, <2>2 DEF FailAttempt
  <2>3. ASSUME NEW t \in unanswered, NEW success \in BOOLEAN, Settle(t, success)
        PROVE  notified' = notified
    BY <2>2, <2>3 DEF Settle, Tracked
  <2>4. ASSUME NEW d \in Device, NEW c \in CommandId, SweepTimeout(d, c)
        PROVE  notified' = notified
    BY <2>2, <2>4 DEF SweepTimeout, Tracked
  <2>5. ASSUME NEW d \in Device, NEW c \in CommandId, NEW sent \in SendResult,
               SweepResend(d, c, sent)
        PROVE  notified' = notified
    BY <2>1, <2>5 DEF SweepResend, Tracked
  <2> QED BY <2>3, <2>4, <2>5
          DEF CommandNext, Dispatch, Acknowledge, SweepBegin, DetachFailureSink, Elapse
<1> QED BY <1>1, TrackingInit, TrackingStep, PTL DEF CommandSpec, NoCallbackAfterDetach

----------------------------------------------------------------------------
(* Refinement of the life cycle. *)

\* The open commands of each device, as the life cycle sees them.
OpenOf(map) == [d \in Device |-> IF d \in DOMAIN map THEN {map[d].id} ELSE {}]

\* A step that neither opens nor closes a command.
LEMMA LifecycleStutters ==
    ASSUME DOMAIN pending' = DOMAIN pending,
           \A d \in DOMAIN pending : pending'[d].id = pending[d].id,
           next_command_id' = next_command_id, verdict' = verdict
    PROVE  UNCHANGED Lifecycle!lifecycleVars
  BY DEF Lifecycle!lifecycleVars

\* A step that closes the command of d with verdict v.
LEMMA LifecycleCloses ==
    ASSUME CommandInv, NEW d \in DOMAIN pending, NEW v \in {"succeeded", "failed"},
           pending' = Erase(pending, d),
           verdict' = [verdict EXCEPT ![pending[d].id] = v],
           next_command_id' = next_command_id
    PROVE  Lifecycle!LifecycleNext
<1>1. d \in Device /\ pending[d].id \in CommandId
  BY SlotTypes
<1>2. /\ DOMAIN pending' = DOMAIN pending \ {d}
      /\ \A e \in DOMAIN pending' : pending'[e] = pending[e]
  BY EraseDomain
<1>3. OpenOf(pending') = [OpenOf(pending) EXCEPT ![d] = @ \ {pending[d].id}]
  BY <1>1, <1>2 DEF OpenOf
<1>4. pending[d].id \in OpenOf(pending)[d]
  BY <1>1 DEF OpenOf
<1>5. Lifecycle!Close(d, pending[d].id, v)
  BY <1>3, <1>4 DEF Lifecycle!Close, OpenOf
<1>6. pending[d].id \in Lifecycle!CommandId
  BY <1>1 DEF Lifecycle!CommandId, CommandId
<1> QED BY <1>1, <1>5, <1>6 DEF Lifecycle!LifecycleNext

LEMMA CloseFailedCloses ==
    ASSUME CommandInv, NEW d \in DOMAIN pending, CloseFailedSlot(d),
           next_command_id' = next_command_id
    PROVE  Lifecycle!LifecycleNext
  BY LifecycleCloses DEF CloseFailedSlot

LEMMA FailAttemptRefines ==
    ASSUME CommandInv, NEW d \in DOMAIN pending, NEW reason, FailAttempt(d, reason),
           next_command_id' = next_command_id
    PROVE  [Lifecycle!LifecycleNext]_(Lifecycle!lifecycleVars)
<1>1. CASE Exhausted(pending[d])
  BY <1>1, CloseFailedCloses DEF FailAttempt
<1>2. CASE ~Exhausted(pending[d])
  <2>1. /\ DOMAIN pending' = DOMAIN pending /\ verdict' = verdict
        /\ \A e \in DOMAIN pending : pending'[e].id = pending[e].id
    BY <1>2, SlotTypes DEF FailAttempt, Slot
  <2> QED BY <2>1, LifecycleStutters
<1> QED BY <1>1, <1>2

LEMMA DispatchRefines ==
    ASSUME TrackingInv, NEW d \in Device, NEW m \in Mode, NEW sent \in SendResult,
           Dispatch(d, m, sent)
    PROVE  Lifecycle!LifecycleNext
<1> DEFINE c == next_command_id
           delivered == sent = "ok"
<1>0. /\ c \in CommandId /\ c \in Nat /\ c <= MaxCommands /\ next_command_id' = c + 1
      /\ CommandInv /\ MaxCommands \in Nat
  BY CommandConstants DEF Dispatch, TrackingInv, CommandInv, CommandTypeOK, CommandId
<1>1. /\ DOMAIN WithoutReplaced(d) = DOMAIN pending \ {d}
      /\ \A e \in DOMAIN pending \ {d} : WithoutReplaced(d)[e] = pending[e]
  BY EraseDomain DEF WithoutReplaced
<1>2. OpenOf(pending') = [OpenOf(pending) EXCEPT ![d] = IF delivered THEN {c} ELSE {}]
  <2>1. CASE delivered
    <3>1. pending' = Put(WithoutReplaced(d), d, NewSlot(c, m)) /\ NewSlot(c, m).id = c
      BY <2>1 DEF Dispatch, NewSlot
    <3>2. ASSUME NEW map, NEW s, map = WithoutReplaced(d), pending' = Put(map, d, s)
          PROVE  /\ DOMAIN pending' = (DOMAIN pending \ {d}) \cup {d}
                 /\ pending'[d] = s
                 /\ \A e \in DOMAIN pending \ {d} : pending'[e] = pending[e]
      BY <1>1, <3>2 DEF Put
    <3>3. /\ DOMAIN pending' = (DOMAIN pending \ {d}) \cup {d}
          /\ pending'[d].id = c
          /\ \A e \in DOMAIN pending \ {d} : pending'[e] = pending[e]
      BY <3>1, <3>2
    <3> QED BY <2>1, <3>3 DEF OpenOf
  <2>2. CASE ~delivered
    <3>1. pending' = WithoutReplaced(d)
      BY <2>2 DEF Dispatch
    <3> QED BY <1>1, <2>2, <3>1 DEF OpenOf
  <2> QED BY <2>1, <2>2
<1>3. verdict' = [x \in CommandId |->
                    CASE x \in OpenOf(pending)[d] -> "superseded"
                      [] x = c /\ ~delivered -> "undelivered"
                      [] OTHER -> verdict[x]]
  <2>1. verdict \in [CommandId -> Verdict]
    BY <1>0 DEF CommandInv, CommandTypeOK
  <2>2. verdict' = IF delivered THEN VerdictsSuperseding(d)
                   ELSE [VerdictsSuperseding(d) EXCEPT ![c] = "undelivered"]
    BY DEF Dispatch
  <2>3. CASE d \in DOMAIN pending
    <3>1. /\ VerdictsSuperseding(d) = [verdict EXCEPT ![pending[d].id] = "superseded"]
          /\ OpenOf(pending)[d] = {pending[d].id}
      BY <2>3 DEF VerdictsSuperseding, OpenOf
    <3>2. pending[d].id \in CommandId /\ pending[d].id # c
      BY <1>0, <2>3, SlotTypes DEF TrackingInv, IdsUsedOnce
    <3> QED BY <1>0, <2>1, <2>2, <3>1, <3>2
  <2>4. CASE d \notin DOMAIN pending
    <3>1. VerdictsSuperseding(d) = verdict /\ OpenOf(pending)[d] = {}
      BY <2>4 DEF VerdictsSuperseding, OpenOf
    <3> QED BY <1>0, <2>1, <2>2, <3>1
  <2> QED BY <2>3, <2>4
<1>4. /\ c - 1 < MaxCommands /\ c - 1 + 1 = c
      /\ next_command_id' - 1 = c - 1 + 1
  BY <1>0
<1>5. Lifecycle!Issue(d, delivered)
  <2> HIDE DEF delivered
  <2>1. [e \in Device |-> IF e \in DOMAIN pending' THEN {pending'[e].id} ELSE {}]
          = [[e \in Device |-> IF e \in DOMAIN pending THEN {pending[e].id} ELSE {}]
               EXCEPT ![d] = IF delivered THEN {c - 1 + 1} ELSE {}]
    BY <1>2, <1>4 DEF OpenOf
  <2>2. verdict' = [x \in 1..MaxCommands |->
                      CASE x \in [e \in Device |-> IF e \in DOMAIN pending
                                                    THEN {pending[e].id} ELSE {}][d]
                             -> "superseded"
                        [] x = c - 1 + 1 /\ ~delivered -> "undelivered"
                        [] OTHER -> verdict[x]]
    BY <1>3, <1>4 DEF OpenOf, CommandId
  <2> QED BY <1>4, <2>1, <2>2 DEF Lifecycle!Issue, Lifecycle!CommandId
<1>6. delivered \in BOOLEAN
  OBVIOUS
<1> QED BY <1>5, <1>6 DEF Lifecycle!LifecycleNext

\* The retry machinery implements the life cycle of commands for every number of
\* devices, commands and attempts: each id is used once, each command that was sent is
\* closed by exactly one verdict that never changes, and a device has one open command.
THEOREM LifecycleImplemented == CommandSpec => ImplementsLifecycle
<1>1. CommandInit => Lifecycle!LifecycleInit
  BY DEF CommandInit, Lifecycle!LifecycleInit, Lifecycle!CommandId, CommandId
<1>2. TrackingInv /\ [CommandNext]_commandVars
        => [Lifecycle!LifecycleNext]_(Lifecycle!lifecycleVars)
  <2> SUFFICES ASSUME TrackingInv, [CommandNext]_commandVars
               PROVE  [Lifecycle!LifecycleNext]_(Lifecycle!lifecycleVars)
    OBVIOUS
  <2>0. CommandInv
    BY DEF TrackingInv
  <2>1. ASSUME NEW d \in Device, NEW m \in Mode, NEW sent \in SendResult,
               Dispatch(d, m, sent)
        PROVE  Lifecycle!LifecycleNext
    BY <2>1, DispatchRefines
  <2>2. ASSUME NEW t \in unacked, Acknowledge(t)
        PROVE  UNCHANGED Lifecycle!lifecycleVars
    <3>1. /\ DOMAIN pending' = DOMAIN pending
          /\ \A e \in DOMAIN pending : pending'[e].id = pending[e].id
      BY <2>0, <2>2, SlotTypes DEF Acknowledge, AckedSlot, Tracked, Slot
    <3> QED BY <2>2, <3>1, LifecycleStutters DEF Acknowledge
  <2>3. ASSUME NEW t \in unanswered, NEW success \in BOOLEAN, Settle(t, success)
        PROVE  [Lifecycle!LifecycleNext]_(Lifecycle!lifecycleVars)
    <3>1. CASE ~Tracked(t.device, t.id)
      BY <2>3, <3>1, LifecycleStutters DEF Settle
    <3>2. CASE Tracked(t.device, t.id) /\ ~success
      BY <2>0, <2>3, <3>2, FailAttemptRefines DEF Settle, Tracked
    <3>3. CASE Tracked(t.device, t.id) /\ success
      BY <2>0, <2>3, <3>3, LifecycleCloses DEF Settle, Tracked
    <3> QED BY <3>1, <3>2, <3>3
  <2>4. ASSUME NEW d \in Device, NEW c \in CommandId, SweepTimeout(d, c)
        PROVE  [Lifecycle!LifecycleNext]_(Lifecycle!lifecycleVars)
    BY <2>0, <2>4, FailAttemptRefines DEF SweepTimeout, Tracked
  <2>5. ASSUME NEW d \in Device, NEW c \in CommandId, NEW sent \in SendResult,
               SweepResend(d, c, sent)
        PROVE  [Lifecycle!LifecycleNext]_(Lifecycle!lifecycleVars)
    <3>0. d \in DOMAIN pending /\ next_command_id' = next_command_id
      BY <2>5 DEF SweepResend, Tracked
    <3>1. CASE sent = "ok"
      <4>0. ResentSlot(pending[d]).id = pending[d].id
        BY <2>0, <3>0, SlotTypes DEF ResentSlot, Slot
      <4>1. /\ DOMAIN pending' = DOMAIN pending /\ verdict' = verdict
            /\ \A e \in DOMAIN pending : pending'[e].id = pending[e].id
        BY <2>5, <3>1, <4>0 DEF SweepResend
      <4> QED BY <3>0, <4>1, LifecycleStutters
    <3>2. CASE sent # "ok"
      BY <2>0, <2>5, <3>0, <3>2, CloseFailedCloses DEF SweepResend
    <3> QED BY <3>1, <3>2
  <2>6. CASE SweepBegin \/ DetachFailureSink \/ Elapse \/ UNCHANGED commandVars
    <3>1. /\ DOMAIN pending' = DOMAIN pending
          /\ next_command_id' = next_command_id /\ verdict' = verdict
      BY <2>6 DEF SweepBegin, DetachFailureSink, Elapse, commandVars
    <3>2. \A e \in DOMAIN pending : pending'[e].id = pending[e].id
      BY <2>0, <2>6, SlotTypes
         DEF SweepBegin, DetachFailureSink, DetachedSlot, Elapse, commandVars, Slot
    <3> QED BY <3>1, <3>2, LifecycleStutters
  <2> QED BY <2>1, <2>2, <2>3, <2>4, <2>5, <2>6 DEF CommandNext
<1> QED
  BY <1>1, <1>2, TrackingInit, TrackingStep, PTL
     DEF CommandSpec, ImplementsLifecycle, Lifecycle!LifecycleSpec
============================================================================
