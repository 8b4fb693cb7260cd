------------------------------ MODULE Reactor ------------------------------
(***************************************************************************)
(* The event loop: channels registered with epoll under a token made of    *)
(* descriptor and generation, and batches of events that outlive the       *)
(* registrations they were raised for, because handlers of a batch remove  *)
(* channels, close descriptors and open new ones that get the same number. *)
(*                                                                         *)
(* Each registration has a number of its own (a history variable); the     *)
(* properties compare it with what the tokens tell apart.                  *)
(***************************************************************************)
EXTENDS Integers, Sequences, FiniteSets

CONSTANTS
    Channel,            \* the Channel objects of the program
    NoChannel,          \* an empty slot
    Descriptors,        \* number of descriptors
    Generations,        \* number of generations a slot counts through (2^32 - 1)
    MaxRegistrations,   \* bound on calls of add
    BatchSize           \* max_epoll_events

ASSUME ReactorConstants ==
    /\ NoChannel \notin Channel
    /\ Descriptors \in Nat /\ Generations \in Nat \ {0}
    /\ MaxRegistrations \in Nat
    /\ BatchSize \in Nat \ {0}

VARIABLES
    channels,        \* fd_ and registered_ of each Channel
    slots,           \* channel_registry.slots_, by descriptor
    interest,        \* the kernel: token of each descriptor in the interest list
    ready,           \* the kernel: descriptors in the ready list, oldest first
    batch,           \* events returned by epoll_wait and not dispatched
    at,              \* where run is
    running,         \* running
    registration,    \* history: number of the registration of each channel, or 0
    registrations,   \* history: number of registrations so far
    renewed,         \* history: calls of add by the handlers of the present batch
    delivery         \* history: the registration an event was raised for, and the one
                     \* whose handler it was delivered to

reactorVars == <<channels, slots, interest, ready, batch, at, running, registration,
                 registrations, renewed, delivery>>

objects == <<channels, slots, interest, registration, registrations>>

Descriptor == 1..Descriptors
NoToken == <<0, 0>>
Token == (1..Generations) \X Descriptor

EmptySlot == [channel |-> NoChannel, generation |-> 1, active |-> FALSE]

Owner(fd) == {c \in Channel : channels[c].fd = fd /\ channels[c].registered}

----------------------------------------------------------------------------
(* ChannelRegistry *)

\* resolve.
Resolve(token) ==
    LET slot == slots[token[2]] IN
    IF slot.active /\ slot.generation = token[1] THEN slot.channel ELSE NoChannel

\* Slip: tokens come back with the descriptor.
NextGeneration_Same(generation) == generation

\* next_generation: 0, the value of an empty token, is left out.
NextGeneration(generation) == IF generation = Generations THEN 1 ELSE generation + 1

\* release_slot.
Released(slot) == [channel |-> NoChannel, generation |-> NextGeneration(slot.generation),
                   active |-> FALSE]

\* insert: an occupant of the descriptor is released first.
Inserted(c) ==
    LET slot == slots[channels[c].fd]
        emptied == IF slot.active /\ slot.channel # c THEN Released(slot) ELSE slot
    IN  [emptied EXCEPT !.channel = c, !.active = TRUE]

\* erase: nothing when the slot is not the channel's.
Erased(c) ==
    LET slot == slots[channels[c].fd] IN
    IF slot.active /\ slot.channel = c THEN Released(slot) ELSE slot

----------------------------------------------------------------------------

ReactorInit ==
    /\ channels = [c \in Channel |-> [fd |-> 0, registered |-> FALSE]]
    /\ slots = [fd \in Descriptor |-> EmptySlot]
    /\ interest = [fd \in Descriptor |-> NoToken]
    /\ ready = <<>> /\ batch = <<>>
    /\ at = "out" /\ running = FALSE
    /\ registration = [c \in Channel |-> 0] /\ registrations = 0 /\ renewed = 0
    /\ delivery = [raised |-> 0, received |-> 0]

\* Code of the program runs before run and in handlers.
MayCall == at \in {"out", "callback"}

\* The kernel takes a descriptor from the ready list, where it is at most once.
Unready(fd) ==
    \/ \E i \in DOMAIN ready :
         /\ ready[i] = fd
         /\ ready' = [j \in 1..(Len(ready) - 1) |-> ready[IF j < i THEN j ELSE j + 1]]
    \/ /\ \A i \in DOMAIN ready : ready[i] # fd
       /\ UNCHANGED ready

\* Channel::init: the channel gets a descriptor the kernel just opened, the lowest.
ChannelInit(c) ==
    LET free == Descriptor \ {channels[x].fd : x \in Channel} IN
    /\ MayCall /\ channels[c].fd = 0
    /\ \E fd \in free : /\ \A other \in free : fd <= other
                        /\ channels' = [channels EXCEPT ![c].fd = fd]
    /\ UNCHANGED <<slots, interest, ready, batch, at, running, registration,
                   registrations, renewed, delivery>>

\* Slip: what was inserted stays.
AfterRefusal_Kept(c) == Inserted(c)

\* The slot after insert and erase.
AfterRefusal(c) == Released(Inserted(c))

\* Tokens repeat after as many registrations as there are generations. No batch lasts
\* that long: its handlers call add less often.
Renews == IF at = "callback" THEN renewed < Generations - 1 /\ renewed' = renewed + 1
                             ELSE UNCHANGED renewed

\* Reactor::add.
Add(c) ==
    LET fd == channels[c].fd IN
    /\ MayCall /\ fd # 0 /\ ~channels[c].registered
    /\ registrations < MaxRegistrations
    /\ registrations' = registrations + 1
    /\ Renews
    /\ \/ /\ slots' = [slots EXCEPT ![fd] = Inserted(c)]
          /\ interest' = [interest EXCEPT ![fd] = <<Inserted(c).generation, fd>>]
          /\ channels' = [channels EXCEPT ![c].registered = TRUE]
          /\ registration' = [registration EXCEPT ![c] = registrations + 1]
       \/ /\ slots' = [slots EXCEPT ![fd] = AfterRefusal(c)]
          /\ UNCHANGED <<interest, channels, registration>>
    /\ UNCHANGED <<ready, batch, at, running, delivery>>

\* Reactor::remove.
Remove(c) ==
    LET fd == channels[c].fd IN
    /\ MayCall /\ channels[c].registered
    /\ interest' = [interest EXCEPT ![fd] = NoToken]
    /\ Unready(fd)
    /\ slots' = [slots EXCEPT ![fd] = Erased(c)]
    /\ channels' = [channels EXCEPT ![c].registered = FALSE]
    /\ registration' = [registration EXCEPT ![c] = 0]
    /\ UNCHANGED <<batch, at, running, registrations, renewed, delivery>>

\* Channel::close, which a registered channel must not call: the descriptor is free.
ChannelClose(c) ==
    /\ MayCall /\ channels[c].fd # 0 /\ ~channels[c].registered
    /\ channels' = [channels EXCEPT ![c].fd = 0]
    /\ UNCHANGED <<slots, interest, ready, batch, at, running, registration,
                   registrations, renewed, delivery>>

\* The kernel: an event for a descriptor in the interest list.
Raise(fd) ==
    /\ interest[fd] # NoToken
    /\ \A i \in DOMAIN ready : ready[i] # fd
    /\ ready' = Append(ready, fd)
    /\ UNCHANGED <<objects, batch, at, running, renewed, delivery>>

\* Reactor::run.
Run ==
    /\ at = "out"
    /\ at' = "wait" /\ running' = TRUE
    /\ UNCHANGED <<objects, ready, batch, renewed, delivery>>

RunReturns ==
    /\ at = "wait" /\ ~running
    /\ at' = "out"
    /\ UNCHANGED <<objects, ready, batch, running, renewed, delivery>>

\* Reactor::stop, from a handler: the batch is still dispatched.
Stop ==
    /\ at = "callback" /\ running
    /\ running' = FALSE
    /\ UNCHANGED <<objects, ready, batch, at, renewed, delivery>>

\* epoll_wait: the oldest events, each with the token of the descriptor.
RunOnce ==
    LET n == IF Len(ready) < BatchSize THEN Len(ready) ELSE BatchSize IN
    /\ at = "wait" /\ running /\ ready # <<>>
    /\ batch' = [i \in 1..n |->
                   [token |-> interest[ready[i]],
                    raised |-> registration[CHOOSE c \in Channel :
                                              channels[c].registered /\ channels[c].fd = ready[i]]]]
    /\ ready' = SubSeq(ready, n + 1, Len(ready))
    /\ at' = "batch"
    /\ UNCHANGED <<objects, running, renewed, delivery>>

\* The next event of the batch.
AfterStale == Tail(batch)

\* run_once, one event: its handler is called if the token still resolves.
DispatchEvent ==
    LET c == Resolve(Head(batch).token) IN
    /\ at = "batch" /\ batch # <<>>
    /\ \/ /\ c # NoChannel
          /\ at' = "callback"
          /\ batch' = Tail(batch)
          /\ delivery' = [raised |-> Head(batch).raised, received |-> registration[c]]
       \/ /\ c = NoChannel
          /\ batch' = AfterStale
          /\ UNCHANGED <<at, delivery>>
    /\ UNCHANGED <<objects, ready, running, renewed>>

\* Slip: the rest of the batch is left when a handler stopped the loop.
AfterHandler_IfRunning == IF running THEN "batch" ELSE "out"

\* The rest of the batch is dispatched also when a handler stopped the loop.
AfterHandler == "batch"

CallbackReturns ==
    /\ at = "callback"
    /\ at' = AfterHandler
    /\ UNCHANGED <<objects, ready, batch, running, renewed, delivery>>

BatchDone ==
    /\ at = "batch" /\ batch = <<>>
    /\ at' = "wait" /\ renewed' = 0
    /\ UNCHANGED <<objects, ready, batch, running, delivery>>

ReactorNext ==
    \/ \E c \in Channel : ChannelInit(c) \/ Add(c) \/ Remove(c) \/ ChannelClose(c)
    \/ \E fd \in Descriptor : Raise(fd)
    \/ Run \/ RunReturns \/ Stop \/ RunOnce \/ DispatchEvent \/ CallbackReturns \/ BatchDone

ReactorSpec == ReactorInit /\ [][ReactorNext]_reactorVars

\* The steps of the loop itself. For fairness: it goes on, and handlers return.
ReactorThread == RunOnce \/ DispatchEvent \/ BatchDone \/ RunReturns

----------------------------------------------------------------------------
(* Properties *)

\* Types. Behind them: no slot is ever at the generation of the empty token.
ReactorTypeOK ==
    /\ channels \in [Channel -> [fd : 0..Descriptors, registered : BOOLEAN]]
    /\ slots \in [Descriptor -> [channel : Channel \cup {NoChannel},
                                 generation : 1..Generations, active : BOOLEAN]]
    /\ interest \in [Descriptor -> Token \cup {NoToken}]
    /\ ready \in Seq(Descriptor)
    /\ batch \in Seq([token : Token, raised : 1..MaxRegistrations])
    /\ at \in {"out", "wait", "batch", "callback"} /\ running \in BOOLEAN
    /\ registration \in [Channel -> 0..MaxRegistrations]
    /\ registrations \in 0..MaxRegistrations /\ renewed \in 0..Generations
    /\ delivery \in [raised : 0..MaxRegistrations, received : 0..MaxRegistrations]

\* Registry, interest list and channels agree: a slot is active exactly for the
\* registered channel that holds the descriptor, and the kernel knows its present token.
RegistryMatchesKernel ==
    \A fd \in Descriptor :
        /\ slots[fd].active <=> Owner(fd) # {}
        /\ slots[fd].active => Owner(fd) = {slots[fd].channel}
        /\ interest[fd] = IF slots[fd].active THEN <<slots[fd].generation, fd>> ELSE NoToken

\* The registry is well formed and agrees with the kernel.
ReactorConsistent == ReactorTypeOK /\ RegistryMatchesKernel

\* An event is delivered to the registration it was raised for or to nobody, although
\* earlier handlers of the batch close descriptors and register new channels for them.
DeliveredToItsRegistration == delivery.raised = delivery.received

\* An event of a channel that stays registered is delivered while the loop runs, also
\* behind stale events of the same batch.
EventsDelivered ==
    \A n \in 1..MaxRegistrations :
        (\E i \in DOMAIN batch : batch[i].raised = n) ~>
            (delivery.received = n \/ \A c \in Channel : registration[c] # n)
============================================================================
