--------------------------- MODULE TimerScheduler ---------------------------
(***************************************************************************)
(* The timer scheduler: one timerfd for many timers, a registry of slots   *)
(* that are reused under a new generation, and a heap whose entries outlive *)
(* the cancellation of their timer until they come to the top.             *)
(*                                                                         *)
(* Expiry callbacks schedule and cancel timers and may stop the scheduler  *)
(* in the middle of a dispatch. The timerfd is edge-triggered; setting it  *)
(* forgets an expiration that was not read yet. Time advances at any       *)
(* moment. A deadline that is reached is due at once: the nanosecond that  *)
(* replaces a delay of 0 is below the resolution of the model.             *)
(***************************************************************************)
EXTENDS Integers, Sequences, FiniteSets

CONSTANTS
    MaxNow,      \* bound on the time
    MaxTimers    \* bound on the timers scheduled (generations are 32 bits wide)

TimerConstants == MaxNow \in Nat /\ MaxTimers \in Nat

ASSUME BoundsAreNumbers == TimerConstants

VARIABLES
    now,       \* the clock
    slots,     \* timer_registrations_.slots_
    free,      \* timer_registrations_.free_, the next slot to reuse last
    heap,      \* timer_queue_: entries of pending and of cancelled timers
    active,    \* channel_.registered()
    armed,     \* when the timerfd expires, or Never
    ticks,     \* the timerfd has an expiration that was not read
    edge,      \* the kernel has an event for the timerfd
    at,        \* where on_ready is
    limit,     \* now in dispatch_expired
    issued,    \* history: tokens handed out, in order
    fired      \* history: tokens of the timers whose handler was called

registry == <<slots, free>>
timerfd == <<armed, ticks, edge>>
schedulerVars == <<now, slots, free, heap, active, armed, ticks, edge, at, limit,
                   issued, fired>>

Never == -1

\* A token is a generation and the index of a slot.
Token == (1..(MaxTimers + 1)) \X (1..MaxTimers)

TokensIn(seq) == {seq[i] : i \in DOMAIN seq}

----------------------------------------------------------------------------
(* The registry *)

\* Slip: the generation stays, tokens come back with the slot.
NextGeneration_Same(generation) == generation

NextGeneration(generation) == generation + 1

\* resolve_slot, contains.
Contains(id) == id[2] \in DOMAIN slots /\ slots[id[2]].active /\ slots[id[2]].generation = id[1]

\* insert: the slot freed last is used again, under its present generation.
Inserted ==
    IF free = <<>>
      THEN [id |-> <<1, Len(slots) + 1>>, free |-> free,
            slots |-> Append(slots, [generation |-> 1, active |-> TRUE])]
      ELSE LET index == free[Len(free)] IN
           [id |-> <<slots[index].generation, index>>,
            free |-> SubSeq(free, 1, Len(free) - 1),
            slots |-> [slots EXCEPT ![index].active = TRUE]]

\* release_slot.
Release(id) ==
    /\ slots' = [slots EXCEPT ![id[2]] = [generation |-> NextGeneration(@.generation),
                                          active |-> FALSE]]
    /\ free' = Append(free, id[2])

----------------------------------------------------------------------------
(* The queue *)

\* The order of the heap: by deadline, then by the value of the token, whose upper
\* half is the generation.
Before(e, f) ==
    \/ e.deadline < f.deadline
    \/ e.deadline = f.deadline /\ e.id[1] < f.id[1]
    \/ e.deadline = f.deadline /\ e.id[1] = f.id[1] /\ e.id[2] < f.id[2]

TopOf(entries) == CHOOSE e \in entries : \A f \in entries : f = e \/ Before(e, f)

\* prune_cancelled: what is left of the heap when entries of cancelled timers are
\* removed from the top.
Pruned ==
    LET live == {e \in heap : Contains(e.id)} IN
    {e \in heap : \E f \in live : e = f \/ Before(f, e)}

----------------------------------------------------------------------------
(* The timerfd *)

\* update_timerfd: nothing when stopped, otherwise it is set for the first of the
\* entries, or disarmed.
UpdateTimerfd(entries, registered) ==
    IF registered
      THEN /\ armed' = IF entries = {} THEN Never
                       ELSE IF TopOf(entries).deadline > now THEN TopOf(entries).deadline
                       ELSE now
           /\ ticks' = FALSE
           /\ UNCHANGED edge
      ELSE UNCHANGED timerfd

LiveAfter(entries, gone) == {e \in entries : Contains(e.id) /\ e.id # gone}

----------------------------------------------------------------------------

SchedulerInit ==
    /\ now = 0
    /\ slots = <<>> /\ free = <<>> /\ heap = {}
    /\ active = FALSE /\ armed = Never /\ ticks = FALSE /\ edge = FALSE
    /\ at = "idle" /\ limit = 0
    /\ issued = <<>> /\ fired = {}

\* Other handlers of the process run between events, expiry handlers during a dispatch.
MayCall == at \in {"idle", "callback"}

\* start: what was scheduled before is armed.
Start ==
    /\ MayCall /\ ~active
    /\ active' = TRUE
    /\ UpdateTimerfd({e \in heap : Contains(e.id)}, TRUE)
    /\ heap' = Pruned
    /\ UNCHANGED <<now, registry, at, limit, issued, fired>>

\* stop: timers stay where they are, the timerfd is closed.
Stop ==
    /\ MayCall /\ active
    /\ active' = FALSE
    /\ armed' = Never /\ ticks' = FALSE /\ edge' = FALSE
    /\ UNCHANGED <<now, registry, heap, at, limit, issued, fired>>

\* Slip: the timerfd is only set when it was not.
Earlier_First(deadline) == Pruned = {}

\* Whether the new timer comes before all the others.
Earlier(deadline) == Pruned = {} \/ deadline < TopOf(Pruned).deadline

\* schedule_at.
ScheduleAt(deadline) ==
    /\ MayCall /\ Len(issued) < MaxTimers
    /\ slots' = Inserted.slots /\ free' = Inserted.free
    /\ issued' = Append(issued, Inserted.id)
    /\ LET entry == [deadline |-> deadline, id |-> Inserted.id] IN
         /\ heap' = Pruned \cup {entry}
         /\ IF Earlier(deadline) THEN UpdateTimerfd({entry}, active) ELSE UNCHANGED timerfd
    /\ UNCHANGED <<now, active, at, limit, fired>>

\* Whether the timer is the next one to expire.
WasNext(id) == Pruned # {} /\ TopOf(Pruned).id = id

\* cancel, with any token that was ever handed out.
Cancel(id) ==
    /\ MayCall
    /\ IF Contains(id) THEN Release(id) ELSE UNCHANGED registry
    /\ IF Contains(id) /\ WasNext(id)
         THEN UpdateTimerfd(LiveAfter(heap, id), active) ELSE UNCHANGED timerfd
    /\ heap' = IF Contains(id) /\ WasNext(id) /\ active
                 THEN {e \in heap : \E f \in LiveAfter(heap, id) : e = f \/ Before(f, e)}
                 ELSE Pruned
    /\ UNCHANGED <<now, active, at, limit, issued, fired>>

\* on_ready and drain_timerfd: without an expiration to read nothing is dispatched.
OnReady ==
    /\ at = "idle" /\ active /\ edge
    /\ edge' = FALSE /\ ticks' = FALSE
    /\ at' = IF ticks THEN "dispatch" ELSE "idle"
    /\ limit' = now
    /\ UNCHANGED <<now, registry, heap, active, armed, issued, fired>>

Due == Pruned # {} /\ TopOf(Pruned).deadline <= limit

\* dispatch_expired, one timer: it is taken out before its handler is called.
Expire ==
    LET top == TopOf(Pruned) IN
    /\ at = "dispatch" /\ Due
    /\ heap' = Pruned \ {top}
    /\ Release(top.id)
    /\ fired' = fired \cup {top.id}
    /\ at' = "callback"
    /\ UNCHANGED <<now, active, timerfd, limit, issued>>

\* The loop ends when the handler stopped the scheduler.
AfterCallback == IF active THEN "dispatch" ELSE "idle"

CallbackReturns ==
    /\ at = "callback"
    /\ at' = AfterCallback
    /\ UNCHANGED <<now, registry, heap, active, timerfd, limit, issued, fired>>

\* dispatch_expired, the end: the timerfd is set for the next timer.
DispatchDone ==
    /\ at = "dispatch" /\ ~Due
    /\ heap' = Pruned
    /\ UpdateTimerfd(Pruned, active)
    /\ at' = "idle"
    /\ UNCHANGED <<now, registry, active, limit, issued, fired>>

\* The kernel: the timerfd expires.
TimerfdExpires ==
    /\ armed # Never /\ armed <= now
    /\ armed' = Never /\ ticks' = TRUE /\ edge' = TRUE
    /\ UNCHANGED <<now, registry, heap, active, at, limit, issued, fired>>

Elapse ==
    /\ now < MaxNow
    /\ now' = now + 1
    /\ UNCHANGED <<registry, heap, active, timerfd, at, limit, issued, fired>>

SchedulerNext ==
    \/ Start \/ Stop
    \/ \E deadline \in now..MaxNow : ScheduleAt(deadline)
    \/ \E id \in TokensIn(issued) : Cancel(id)
    \/ OnReady \/ Expire \/ CallbackReturns \/ DispatchDone
    \/ TimerfdExpires \/ Elapse

SchedulerSpec == SchedulerInit /\ [][SchedulerNext]_schedulerVars

\* The steps of a dispatch.
SchedulerThread == OnReady \/ Expire \/ DispatchDone

----------------------------------------------------------------------------
(* Properties *)

Live == {e \in heap : Contains(e.id)}

\* Types. Behind them: a token is handed out once.
SchedulerTypeOK ==
    /\ now \in 0..MaxNow /\ limit \in 0..now
    /\ slots \in Seq([generation : 1..(MaxTimers + 1), active : BOOLEAN])
    /\ free \in Seq(DOMAIN slots)
    /\ heap \subseteq [deadline : 0..MaxNow, id : Token]
    /\ active \in BOOLEAN /\ ticks \in BOOLEAN /\ edge \in BOOLEAN
    /\ armed \in {Never} \cup (0..MaxNow)
    /\ at \in {"idle", "dispatch", "callback"}
    /\ issued \in Seq(Token) /\ fired \subseteq TokensIn(issued)
    /\ \A i, j \in DOMAIN issued : issued[i] = issued[j] => i = j

\* Registry and queue agree although they are updated lazily: every registered timer
\* has exactly one entry, a free slot is free once, and an entry whose timer is gone
\* can never become the entry of another timer.
RegistryExact ==
    /\ {free[i] : i \in DOMAIN free} = {i \in DOMAIN slots : ~slots[i].active}
    /\ \A i, j \in DOMAIN free : free[i] = free[j] => i = j
    /\ \A i \in DOMAIN slots : slots[i].active =>
         Cardinality({e \in heap : e.id = <<slots[i].generation, i>>}) = 1
    /\ \A e \in heap : e.id[1] <= slots[e.id[2]].generation

\* While the reactor waits, the timerfd is set for the first pending timer, or its
\* expiration is about to be delivered; with no timer pending it is not set at all.
\* Whatever was scheduled, cancelled or stopped, and wherever: no timer is overslept.
ArmedForNext ==
    at = "idle" /\ active =>
        IF Live = {} THEN armed = Never
        ELSE \/ edge /\ ticks
             \/ armed # Never /\ armed <= now
             \/ armed = TopOf(Live).deadline

\* Slots, heap and timerfd fit together.
SchedulerConsistent == SchedulerTypeOK /\ RegistryExact /\ ArmedForNext

\* The timers that entries stand for.
PendingOf(entries) ==
    [id \in {e.id : e \in entries} |-> (CHOOSE e \in entries : e.id = id).deadline]

\* Towards its users the scheduler implements Timers.
AbstractTimers == INSTANCE Timers WITH
    running <- active, pending <- PendingOf(Live), issued <- TokensIn(issued)

ImplementsTimers == AbstractTimers!TimersSpec

\* A pending timer expires or is cancelled, or the scheduler is stopped.
IsPending(i) == active /\ i \in DOMAIN issued /\ Contains(issued[i])
TimersExpire == \A i \in 1..MaxTimers : IsPending(i) ~> ~IsPending(i)
============================================================================
