----------------------------- MODULE AgentFleet -----------------------------
(***************************************************************************)
(* The process agent-fleet: many agents on one reactor, started one after  *)
(* the other by a timer, and ended by a signal. A connector is reduced to  *)
(* what it has registered (AgentSession has the rest): a socket while it   *)
(* connects or is connected, a timer while it waits to connect again. The  *)
(* reactor and the scheduler do what Reactor and Timers promise: an event  *)
(* whose registration is gone is dropped, a cancelled timer never expires. *)
(***************************************************************************)
EXTENDS Integers, FiniteSets

CONSTANTS
    Count,      \* count_, the number of agents
    MayThrow    \* whether starting a member or the process may fail

FleetConstants == Count \in Nat \ {0} /\ MayThrow \in BOOLEAN

Member == 1..Count
StartTimer == 0
Signals == {-2, -15}      \* SIGINT and SIGTERM, negated to differ from the members

VARIABLES
    phase,       \* main: "built", "running", "ended", or "killed" by a signal
    immediate,   \* interval_ is 0
    started,     \* started_
    stopped,     \* stopped_
    next,        \* next_, the number of members started
    link,        \* of each connector: "idle", "socket", "timer", "gone"
    start_timer, \* start_timer_ is scheduled
    batch,       \* events epoll_wait returned and not dispatched
    due,         \* timers the scheduler found due and has not served
    pending      \* blocked signals

fleetVars == <<phase, immediate, started, stopped, next, link, start_timer, batch, due, pending>>

FleetInit ==
    /\ phase = "built" /\ immediate \in BOOLEAN
    /\ started = FALSE /\ stopped = FALSE /\ next = 0
    /\ link = [m \in Member |-> "idle"]
    /\ start_timer = FALSE /\ batch = {} /\ due = {} /\ pending = {}

\* Slip: the members wait for their destructors.
LinksAfterStop_Kept == link

\* members_.clear(): the destructors close the sockets and cancel the timers.
LinksAfterStop == [m \in Member |-> "gone"]

\* stop, which does nothing the second time. Its last step unblocks the signals: one that
\* is pending then ends the process.
StopFleet(signals, then) ==
    /\ stopped' = TRUE
    /\ start_timer' = FALSE
    /\ link' = LinksAfterStop
    /\ pending' = {}
    /\ phase' = IF signals = {} THEN then ELSE "killed"

\* Slip: the timer is not set again.
SetsTimer_Once(k) == k = 1 /\ k < Count

\* The timer is set when members are left.
SetsTimer(k) == k < Count

\* start_next: one member, or all of them when there is no interval. A connector has a
\* socket, or a timer if connect failed at once.
StartNext ==
    LET last == IF immediate THEN Count ELSE next + 1 IN
    /\ next' = last
    /\ \E f \in [(next + 1)..last -> {"socket", "timer"}] :
            link' = [m \in Member |-> IF m \in DOMAIN f THEN f[m] ELSE link[m]]
    /\ start_timer' = SetsTimer(last)

\* start, and main goes on to run. When something throws the fleet is stopped, and main
\* ends with the exception.
StartFleet ==
    /\ phase = "built"
    /\ started' = TRUE
    /\ \/ /\ StartNext
          /\ phase' = "running"
          /\ UNCHANGED <<stopped, pending>>
       \/ /\ MayThrow
          /\ StopFleet({}, "ended")
          /\ next' \in 0..(IF immediate THEN Count ELSE 1)
    /\ UNCHANGED <<immediate, batch, due>>

Armed == {m \in Member : link[m] = "timer"} \cup (IF start_timer THEN {StartTimer} ELSE {})

\* epoll_wait: a pending signal is reported at once, the others when something happens.
RunOnce ==
    /\ phase = "running" /\ ~stopped /\ batch = {} /\ due = {}
    /\ \E others \in SUBSET ({m \in Member : link[m] = "socket"}
                                \cup (IF Armed # {} THEN {StartTimer} ELSE {})) :
          batch' = others \cup pending
    /\ batch' # {}
    /\ UNCHANGED <<phase, immediate, started, stopped, next, link, start_timer, due, pending>>

Dispatch(e) == phase = "running" /\ e \in batch /\ due = {} /\ batch' = batch \ {e}

\* The callback of the signal source stops the fleet; what else the batch holds has lost
\* its registration.
OnSignal(s) ==
    /\ Dispatch(s)
    /\ \/ ~stopped /\ StopFleet(pending \ {s}, "running")
       \/ stopped /\ UNCHANGED <<phase, stopped, link, start_timer, pending>>
    /\ UNCHANGED <<immediate, started, next, due>>

\* The scheduler serves the timers that are due.
OnTimers ==
    /\ Dispatch(StartTimer)
    /\ \/ stopped /\ UNCHANGED due
       \/ ~stopped /\ \E d \in SUBSET Armed : d # {} /\ due' = d
    /\ UNCHANGED <<phase, immediate, started, stopped, next, link, start_timer, pending>>

\* The event of a connection, which goes on or breaks.
OnConnection(m) ==
    /\ Dispatch(m)
    /\ link' \in {link, [link EXCEPT ![m] = IF @ = "socket" THEN "timer" ELSE @]}
    /\ UNCHANGED <<phase, immediate, started, stopped, next, start_timer, due, pending>>

\* on_expired of the fleet. An exception leaves run and ends main.
OnExpired ==
    /\ StartTimer \in due
    /\ \/ /\ StartNext
          /\ due' = due \ {StartTimer}
          /\ UNCHANGED <<phase, stopped, batch, pending>>
       \/ /\ MayThrow
          /\ next' = next + 1
          /\ StopFleet(pending, "ended") /\ due' = {} /\ batch' = {}
    /\ UNCHANGED <<immediate, started>>

\* Connector::on_expired connects again.
OnReconnect(m) ==
    /\ m \in due
    /\ due' = due \ {m}
    /\ \E l \in {"socket", "timer"} : link' = [link EXCEPT ![m] = l]
    /\ UNCHANGED <<phase, immediate, started, stopped, next, start_timer, batch, pending>>

\* run returns, and main destroys the fleet.
RunReturns ==
    /\ phase = "running" /\ stopped /\ batch = {} /\ due = {}
    /\ phase' = "ended"
    /\ UNCHANGED <<immediate, started, stopped, next, link, start_timer, batch, due, pending>>

\* A signal is blocked while its source is active, and ends the process otherwise.
Raise(s) ==
    /\ phase \in {"built", "running"}
    /\ \/ /\ started /\ ~stopped
          /\ pending' = pending \cup {s}
          /\ UNCHANGED phase
       \/ /\ ~started \/ stopped
          /\ phase' = "killed"
          /\ UNCHANGED pending
    /\ UNCHANGED <<immediate, started, stopped, next, link, start_timer, batch, due>>

FleetNext ==
    \/ StartFleet \/ RunOnce \/ OnTimers \/ OnExpired \/ RunReturns
    \/ \E s \in Signals : Raise(s) \/ OnSignal(s)
    \/ \E m \in Member : OnConnection(m) \/ OnReconnect(m)

FleetSpec == FleetInit /\ [][FleetNext]_fleetVars

\* The reactor thread runs, and the timer of the next start expires.
ReactorThread ==
    \/ RunOnce \/ OnTimers \/ OnExpired \/ RunReturns
    \/ \E s \in Signals : OnSignal(s)
    \/ \E m \in Member : OnConnection(m) \/ OnReconnect(m)
StartTimerReported == RunOnce /\ StartTimer \in batch'
StartTimerDue == OnTimers /\ StartTimer \in due'

----------------------------------------------------------------------------
(* Properties *)

FleetTypeOK ==
    /\ phase \in {"built", "running", "ended", "killed"}
    /\ {immediate, started, stopped, start_timer} \subseteq BOOLEAN
    /\ next \in 0..Count
    /\ link \in [Member -> {"idle", "socket", "timer", "gone"}]
    /\ batch \subseteq Member \cup {StartTimer} \cup Signals
    /\ due \subseteq Member \cup {StartTimer} /\ pending \subseteq Signals

\* The chain of starts is never broken and never runs ahead: while members are left
\* exactly one start is to come, and they are started in order.
StartsInOrder ==
    started /\ ~stopped =>
        /\ start_timer <=> next < Count
        /\ \A m \in Member : link[m] = "idle" <=> m > next

\* However the fleet ends - a signal between two starts, in the middle of a batch, two
\* signals, a start that fails - no timer and no connection outlives it, and nothing is
\* started any more.
NothingOutlivesStop ==
    (stopped \/ phase = "ended") =>
        ~start_timer /\ due = {} /\ \A m \in Member : link[m] = "gone"

FleetConsistent == FleetTypeOK /\ StartsInOrder /\ NothingOutlivesStop

\* Every member is started unless the fleet stops, and a signal ends the process.
FleetMoves ==
    /\ (phase = "running") ~> (next = Count \/ stopped)
    /\ (pending # {}) ~> (phase \in {"ended", "killed"})
=============================================================================
