-------------------------- MODULE CommandService --------------------------
(***************************************************************************)
(* The controller's CommandService: one tracked command per device, with   *)
(* a response deadline, a bounded number of transmissions separated by an  *)
(* exponential backoff, and the counters exported as metrics.              *)
(*                                                                         *)
(* Handlers of the controller run to completion on one reactor thread.     *)
(* sweep() first collects the commands that are due and then handles them  *)
(* one by one; the model keeps these as separate steps (sweep_due holds    *)
(* the collected commands) and lets no other handler start in between.     *)
(*                                                                         *)
(* Time is relative: due is next_at - now, counted down by Elapse and      *)
(* floored at -1, since the code only asks whether next_at < now.          *)
(*                                                                         *)
(* The responses of an agent arrive in any order relative to everything    *)
(* else, arbitrarily late or never. A transmission is acknowledged at most *)
(* once and answered at most once, the answer after the acknowledgement,   *)
(* which is what the agent's command handler sends.                        *)
(***************************************************************************)
EXTENDS Integers, FiniteSets

CONSTANTS
    Device,           \* the devices that can be commanded
    Mode,             \* operating modes a set_mode command can carry
    MaxCommands,      \* bound on the ids handed out (next_command_id is a u64)
    MaxAttempts,      \* max_attempts: transmissions per command
    CommandTimeout,   \* command_timeout, in units of Elapse
    BackoffBase       \* backoff_base, in units of Elapse

ASSUME CommandConstants ==
    /\ IsFiniteSet(Device)
    /\ MaxCommands \in Nat
    /\ MaxAttempts \in Nat \ {0}
    /\ CommandTimeout \in Nat
    /\ BackoffBase \in Nat

VARIABLES
    pending,          \* pending_: device -> slot, defined on tracked devices only
    next_command_id,  \* next_command_id_
    metrics,          \* metrics_: counter name -> value
    sink_attached,    \* the failure sink (PolicyService) still exists
    sweep_due,        \* commands a running sweep() has still to handle
    unacked,          \* transmissions the agent may still acknowledge
    unanswered,       \* transmissions the agent may still answer
    verdict,          \* history: how each command ended
    notified          \* history: commands whose failure reached the sink

commandVars == <<pending, next_command_id, metrics, sink_attached, sweep_due,
                 unacked, unanswered, verdict, notified>>

----------------------------------------------------------------------------
(* Types *)

CommandId == 1..MaxCommands

SendResult == {"ok", "offline", "encode_fail"}

Counter == {"dispatched", "superseded", "succeeded",
            "failed_exhausted", "failed_offline", "failed_encode_fail",
            "dispatch_failures_offline", "dispatch_failures_encode_fail",
            "attempt_failures_agent_failure", "attempt_failures_timeout",
            "resends", "stale_responses"}

Slot == [id : CommandId, mode : Mode, attempts : 1..MaxAttempts,
         state : {"in_flight", "backoff"}, due : Int, sink : BOOLEAN]

Transmission == [device : Device, id : CommandId, attempt : 1..MaxAttempts]

Verdict == {"none", "undelivered", "superseded", "succeeded", "failed"}

CommandTypeOK ==
    /\ DOMAIN pending \subseteq Device
    /\ pending \in [DOMAIN pending -> Slot]
    /\ next_command_id \in 1..(MaxCommands + 1)
    /\ metrics \in [Counter -> Nat]
    /\ sink_attached \in BOOLEAN
    /\ sweep_due \subseteq Device \X CommandId
    /\ unacked \subseteq Transmission
    /\ unanswered \subseteq Transmission
    /\ verdict \in [CommandId -> Verdict]
    /\ notified \subseteq CommandId

----------------------------------------------------------------------------
(* Helpers *)

\* The map with device d bound to slot s, and the map without d.
Put(map, d, s) == [x \in DOMAIN map \cup {d} |-> IF x = d THEN s ELSE map[x]]
Erase(map, d) == [x \in DOMAIN map \ {d} |-> map[x]]

\* The metrics with each counter of the set incremented.
Count(counters) ==
    [k \in Counter |-> IF k \in counters THEN metrics[k] + 1 ELSE metrics[k]]

When(condition, set) == IF condition THEN set ELSE {}

\* Definitions marked "Slip" are plausible mistakes in the definition that
\* follows them. The specification does not use them: substituting one shows
\* that the properties notice.

\* Slip: responses are matched by device only.
Tracked_ByDevice(d, c) == d \in DOMAIN pending

\* find_slot: device d tracks command c.
Tracked(d, c) == d \in DOMAIN pending /\ pending[d].id = c

\* backoff_for: the base, doubled once per earlier transmission, at most 15 times.
DoublingsOf(attempt) == IF attempt < 16 THEN attempt - 1 ELSE 15
BackoffFor(attempt) == BackoffBase * 2 ^ DoublingsOf(attempt)

\* Slip: the sweep forgets commands that wait for a response.
IsDue_BackoffOnly(slot) == slot.due < 0 /\ slot.state = "backoff"

\* A slot is due when next_at < now.
IsDue(slot) == slot.due < 0

\* No handler is in the middle of its work.
Idle == sweep_due = {}

----------------------------------------------------------------------------
(* Operations *)

CommandInit ==
    /\ pending = [d \in {} |-> 0]
    /\ next_command_id = 1
    /\ metrics = [k \in Counter |-> 0]
    /\ sink_attached = TRUE
    /\ sweep_due = {}
    /\ unacked = {}
    /\ unanswered = {}
    /\ verdict = [c \in CommandId |-> "none"]
    /\ notified = {}

\* A message for transmission t was handed to the transport.
Transmit(t) ==
    /\ unacked' = unacked \cup {t}
    /\ unanswered' = unanswered \cup {t}

\* The verdicts after device d's tracked command, if any, is superseded.
VerdictsSuperseding(d) ==
    IF d \in DOMAIN pending
      THEN [verdict EXCEPT ![pending[d].id] = "superseded"] ELSE verdict

NewSlot(c, m) ==
    [id |-> c, mode |-> m, attempts |-> 1, state |-> "in_flight",
     due |-> CommandTimeout, sink |-> sink_attached]

\* Slip: the replaced command stays when its replacement cannot be sent.
WithoutReplaced_Kept(d) == pending

\* The map once the tracked command of device d, if any, was replaced.
WithoutReplaced(d) == Erase(pending, d)

\* dispatch: the tracked command of d is superseded whether or not the new one
\* can be sent; an id is consumed either way.
Dispatch(d, m, sent) ==
    LET c == next_command_id
        replaced == When(d \in DOMAIN pending, {"superseded"})
    IN  /\ c <= MaxCommands
        /\ next_command_id' = c + 1
        /\ \/ /\ sent = "ok"
              /\ pending' = Put(WithoutReplaced(d), d, NewSlot(c, m))
              /\ metrics' = Count(replaced \cup {"dispatched"})
              /\ verdict' = VerdictsSuperseding(d)
              /\ Transmit([device |-> d, id |-> c, attempt |-> 1])
           \/ /\ sent # "ok"
              /\ pending' = WithoutReplaced(d)
              /\ metrics' = Count(replaced \cup
                              {IF sent = "offline"
                                 THEN "dispatch_failures_offline"
                                 ELSE "dispatch_failures_encode_fail"})
              /\ verdict' = [VerdictsSuperseding(d) EXCEPT ![c] = "undelivered"]
              /\ UNCHANGED <<unacked, unanswered>>
        /\ UNCHANGED <<sink_attached, sweep_due, notified>>

\* close_failed_slot: the slot is erased first, then its sink is told.
CloseFailedSlot(d) ==
    LET c == pending[d].id
    IN  /\ pending' = Erase(pending, d)
        /\ verdict' = [verdict EXCEPT ![c] = "failed"]
        /\ notified' = notified \cup When(pending[d].sink, {c})

\* Slip: the last attempt gets a backoff too.
Exhausted_OffByOne(slot) == slot.attempts > MaxAttempts

\* The slot has no attempt left.
Exhausted(slot) == slot.attempts >= MaxAttempts

\* fail_attempt: one more attempt of d's command failed, for the counted reason.
FailAttempt(d, reason) ==
    \/ /\ Exhausted(pending[d])
       /\ metrics' = Count({reason, "failed_exhausted"})
       /\ CloseFailedSlot(d)
    \/ /\ ~Exhausted(pending[d])
       /\ metrics' = Count({reason})
       /\ pending' = [pending EXCEPT
                        ![d].state = "backoff",
                        ![d].due = BackoffFor(pending[d].attempts)]
       /\ UNCHANGED <<verdict, notified>>

\* acknowledge: the response deadline starts again, also when the command was
\* waiting to be resent; the number of attempts stays.
AckedSlot(slot) == [slot EXCEPT !.state = "in_flight", !.due = CommandTimeout]

Acknowledge(t) ==
    /\ t \in unacked
    /\ unacked' = unacked \ {t}
    /\ \/ /\ Tracked(t.device, t.id)
          /\ pending' = [pending EXCEPT ![t.device] = AckedSlot(pending[t.device])]
          /\ UNCHANGED metrics
       \/ /\ ~Tracked(t.device, t.id)
          /\ metrics' = Count({"stale_responses"})
          /\ UNCHANGED pending
    /\ UNCHANGED <<next_command_id, sink_attached, sweep_due, unanswered,
                   verdict, notified>>

\* settle: the agent reports success or failure of command t.id.
Settle(t, success) ==
    /\ t \in unanswered \ unacked
    /\ unanswered' = unanswered \ {t}
    /\ \/ /\ ~Tracked(t.device, t.id)
          /\ metrics' = Count({"stale_responses"})
          /\ UNCHANGED <<pending, verdict, notified>>
       \/ /\ Tracked(t.device, t.id) /\ ~success
          /\ FailAttempt(t.device, "attempt_failures_agent_failure")
       \/ /\ Tracked(t.device, t.id) /\ success
          /\ metrics' = Count({"succeeded"})
          /\ pending' = Erase(pending, t.device)
          /\ verdict' = [verdict EXCEPT ![t.id] = "succeeded"]
          /\ UNCHANGED notified
    /\ UNCHANGED <<next_command_id, sink_attached, sweep_due, unacked>>

\* sweep, first loop: collect the commands that are due.
DueCommands == {<<d, pending[d].id>> : d \in {x \in DOMAIN pending : IsDue(pending[x])}}

SweepBegin ==
    /\ DueCommands # {}
    /\ sweep_due' = DueCommands
    /\ UNCHANGED <<pending, next_command_id, metrics, sink_attached, unacked,
                   unanswered, verdict, notified>>

\* sweep, second loop, a command that waited for its response. The code skips a
\* collected command that is no longer tracked; SweepTargetsTracked shows that
\* this cannot happen.
SweepTimeout(d, c) ==
    /\ <<d, c>> \in sweep_due
    /\ sweep_due' = sweep_due \ {<<d, c>>}
    /\ Tracked(d, c) /\ pending[d].state = "in_flight"
    /\ FailAttempt(d, "attempt_failures_timeout")
    /\ UNCHANGED <<next_command_id, sink_attached, unacked, unanswered>>

\* resend: the same id once more; a failed transmission is final.
ResentSlot(slot) ==
    [slot EXCEPT !.attempts = @ + 1, !.state = "in_flight", !.due = CommandTimeout]

\* sweep, second loop, a command whose backoff is over.
SweepResend(d, c, sent) ==
    /\ <<d, c>> \in sweep_due
    /\ sweep_due' = sweep_due \ {<<d, c>>}
    /\ Tracked(d, c) /\ pending[d].state = "backoff"
    /\ \/ /\ sent = "ok"
          /\ pending' = [pending EXCEPT ![d] = ResentSlot(pending[d])]
          /\ metrics' = Count({"resends"})
          /\ Transmit([device |-> d, id |-> c, attempt |-> pending[d].attempts + 1])
          /\ UNCHANGED <<verdict, notified>>
       \/ /\ sent # "ok"
          /\ metrics' = Count({IF sent = "offline" THEN "failed_offline"
                                                   ELSE "failed_encode_fail"})
          /\ CloseFailedSlot(d)
          /\ UNCHANGED <<unacked, unanswered>>
    /\ UNCHANGED <<next_command_id, sink_attached>>

\* Slip: slots keep pointing at the destroyed sink.
DetachedSlot_Kept(slot) == slot

\* A slot that no longer reports its failure.
DetachedSlot(slot) == [slot EXCEPT !.sink = FALSE]

\* detach_failure_sink, called by the sink's destructor.
DetachFailureSink ==
    /\ sink_attached
    /\ sink_attached' = FALSE
    /\ pending' = [d \in DOMAIN pending |-> DetachedSlot(pending[d])]
    /\ UNCHANGED <<next_command_id, metrics, sweep_due, unacked, unanswered,
                   verdict, notified>>

\* The clock advances by one unit.
Elapse ==
    /\ \E d \in DOMAIN pending : ~IsDue(pending[d])
    /\ pending' = [d \in DOMAIN pending |->
                     [pending[d] EXCEPT !.due = IF @ < 0 THEN @ ELSE @ - 1]]
    /\ UNCHANGED <<next_command_id, metrics, sink_attached, sweep_due, unacked,
                   unanswered, verdict, notified>>
CommandNext ==
    \/ \E d \in Device, m \in Mode, sent \in SendResult :
         Idle /\ Dispatch(d, m, sent)
    \/ \E t \in unacked : Idle /\ Acknowledge(t)
    \/ \E t \in unanswered, success \in BOOLEAN : Idle /\ Settle(t, success)
    \/ Idle /\ SweepBegin
    \/ \E d \in Device, c \in CommandId : SweepTimeout(d, c)
    \/ \E d \in Device, c \in CommandId, sent \in SendResult :
         SweepResend(d, c, sent)
    \/ Idle /\ DetachFailureSink
    \/ Idle /\ Elapse

CommandSpec == CommandInit /\ [][CommandNext]_commandVars

\* The clock never stops and the controller's sweep timer keeps firing: its
\* handler re-arms it on every path, so a due command is eventually swept. A
\* handler that has started finishes. Nothing is assumed of agents or callers.
CommandFairness ==
    /\ WF_commandVars(Idle /\ Elapse)
    /\ WF_commandVars(Idle /\ SweepBegin)
    /\ WF_commandVars(\E d \in Device, c \in CommandId : SweepTimeout(d, c))
    /\ WF_commandVars(\E d \in Device, c \in CommandId, sent \in SendResult :
                        SweepResend(d, c, sent))

CommandFairSpec == CommandSpec /\ CommandFairness

----------------------------------------------------------------------------
(* Properties *)

\* The identities the metrics documentation promises, at every moment: every
\* command whose first transmission succeeded is in exactly one of the
\* outcome counters or still pending, and every id handed out was either
\* dispatched or counted as a dispatch failure.
Failed == metrics["failed_exhausted"] + metrics["failed_offline"]
            + metrics["failed_encode_fail"]

Conservation ==
    /\ metrics["dispatched"] = metrics["succeeded"] + Failed
                               + metrics["superseded"] + Cardinality(DOMAIN pending)
    /\ next_command_id - 1 = metrics["dispatched"]
                               + metrics["dispatch_failures_offline"]
                               + metrics["dispatch_failures_encode_fail"]

\* A command is transmitted at most max_attempts times, also when a late
\* acknowledgement takes it out of its backoff: a command waiting to be resent
\* still has an attempt left, and no transmission carries a number beyond the
\* attempts of its slot.
BackoffHasAttempt ==
    \A d \in DOMAIN pending :
        pending[d].state = "backoff" => pending[d].attempts < MaxAttempts

TransmissionsWithinAttempts ==
    \A d \in DOMAIN pending : \A t \in unacked \cup unanswered :
        t.id = pending[d].id => t.device = d /\ t.attempt <= pending[d].attempts

RetryBudget == BackoffHasAttempt /\ TransmissionsWithinAttempts

\* The second loop of sweep() works on commands collected by the first: each is
\* still the tracked command of its device, in the state it was collected in.
SweepTargetsTracked ==
    \A e \in sweep_due : Tracked(e[1], e[2]) /\ IsDue(pending[e[1]])

\* Slots, attempts and a running sweep fit together, whatever answers arrive, how late
\* and for which transmission.
CommandsConsistent == CommandTypeOK /\ RetryBudget /\ SweepTargetsTracked

\* The policy service never hears of a command after it detached itself (it is
\* being destroyed), whatever was in flight at that moment.
NoCallbackAfterDetach == [][~sink_attached => notified' = notified]_commandVars

\* The retry machinery implements the abstract life cycle: one verdict per
\* command, never revised, never lost; at most one open command per device.
Lifecycle ==
    INSTANCE CommandLifecycle WITH
        issued <- next_command_id - 1,
        open <- [d \in Device |->
                   IF d \in DOMAIN pending THEN {pending[d].id} ELSE {}]

ImplementsLifecycle == Lifecycle!LifecycleSpec

\* Every command gets its verdict, even if its agent never answers or answers
\* every transmission late.
EveryCommandResolves ==
    \A c \in CommandId : (\E d \in Device : Tracked(d, c)) ~> verdict[c] # "none"
============================================================================
