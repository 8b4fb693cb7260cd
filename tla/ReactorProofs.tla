--------------------------- MODULE ReactorProofs ---------------------------
(***************************************************************************)
(* Proofs about Reactor, for any number of channels, descriptors,          *)
(* generations and registrations, and batches of any size.                 *)
(***************************************************************************)
EXTENDS Reactor, SequenceTheorems, TLAPS

----------------------------------------------------------------------------
(* The inductive invariant *)

\* A descriptor belongs to one channel, a registered channel has one, and exactly the
\* registered channels have a registration.
ChannelsOpen ==
    /\ \A c, d \in Channel : c # d /\ channels[c].fd = channels[d].fd => channels[c].fd = 0
    /\ \A c \in Channel : channels[c].registered => channels[c].fd # 0
    /\ \A c \in Channel : channels[c].registered <=> registration[c] # 0

\* The ready list names descriptors of the interest list, each once.
ReadyInterested ==
    /\ \A i \in DOMAIN ready : interest[ready[i]] # NoToken
    /\ \A i, j \in DOMAIN ready : ready[i] = ready[j] => i = j

\* Generations count round.
Wrapped(n) == IF n <= Generations THEN n ELSE n - Generations

\* An event of the batch is for the registration its slot has now, ...
Live(event) ==
    LET slot == slots[event.token[2]] IN
    /\ slot.active /\ slot.generation = event.token[1]
    /\ registration[slot.channel] = event.raised

\* ... or its slot was released since, at least once and at most once more than the
\* handlers of the batch registered a channel, so that its generation is another one.
Stale(event) ==
    LET slot == slots[event.token[2]] IN
    \E k \in 1..(renewed + 1) :
        /\ slot.generation = Wrapped(event.token[1] + k)
        /\ slot.active => k <= renewed

EventsAccounted ==
    /\ \A i \in DOMAIN batch : Live(batch[i]) \/ Stale(batch[i])
    /\ renewed < Generations
    /\ at \in {"out", "wait"} => batch = <<>> /\ renewed = 0

ReactorInv ==
    /\ ReactorTypeOK /\ RegistryMatchesKernel
    /\ ChannelsOpen /\ ReadyInterested /\ EventsAccounted
    /\ DeliveredToItsRegistration

LEMMA ReactorInvInit == ReactorInit => ReactorInv
<1> SUFFICES ASSUME ReactorInit PROVE ReactorInv
  OBVIOUS
<1> USE ReactorConstants DEF ReactorInit
<1>1. \A fd \in Descriptor : slots[fd] = EmptySlot /\ ~slots[fd].active
  BY DEF EmptySlot
<1>2. ReactorTypeOK
  <2>1. EmptySlot \in [channel : Channel \cup {NoChannel}, generation : 1..Generations,
                       active : BOOLEAN]
    BY DEF EmptySlot
  <2>2. channels \in [Channel -> [fd : 0..Descriptors, registered : BOOLEAN]]
    OBVIOUS
  <2>3. delivery \in [raised : 0..MaxRegistrations, received : 0..MaxRegistrations]
    OBVIOUS
  <2>4. ready \in Seq(Descriptor)
        /\ batch \in Seq([token : Token, raised : 1..MaxRegistrations])
    OBVIOUS
  <2>5. registrations \in 0..MaxRegistrations /\ renewed \in 0..Generations
        /\ registration \in [Channel -> 0..MaxRegistrations]
    OBVIOUS
  <2>6. slots \in [Descriptor -> [channel : Channel \cup {NoChannel},
                                 generation : 1..Generations, active : BOOLEAN]]
    BY <2>1
  <2>7. interest \in [Descriptor -> Token \cup {NoToken}]
    OBVIOUS
  <2> QED BY <2>2, <2>3, <2>4, <2>5, <2>6, <2>7 DEF ReactorTypeOK
<1>3. RegistryMatchesKernel
  BY <1>1 DEF RegistryMatchesKernel, Owner
<1>4. ChannelsOpen /\ ReadyInterested /\ EventsAccounted /\ DeliveredToItsRegistration
  BY DEF ChannelsOpen, ReadyInterested, EventsAccounted, DeliveredToItsRegistration
<1> QED BY <1>2, <1>3, <1>4 DEF ReactorInv

\* Releasing a slot moves it one generation on.
LEMMA NextWraps ==
    ASSUME NEW g \in 1..Generations, NEW k \in 0..(Generations - 1)
    PROVE  /\ Wrapped(g + k) \in 1..Generations
           /\ NextGeneration(Wrapped(g + k)) = Wrapped(g + (k + 1))
           /\ NextGeneration(Wrapped(g + k)) \in 1..Generations
           /\ k # 0 => Wrapped(g + k) # g
  BY ReactorConstants DEF Wrapped, NextGeneration

LEMMA NextGenerationType ==
    ASSUME NEW g \in 1..Generations
    PROVE  NextGeneration(g) \in 1..Generations
  BY ReactorConstants DEF NextGeneration

\* Facts about one descriptor and its channel.
LEMMA OwnerFacts ==
    ASSUME ReactorInv, NEW c \in Channel, channels[c].fd # 0
    PROVE  /\ channels[c].fd \in Descriptor
           /\ channels[c].registered =>
                /\ slots[channels[c].fd].active /\ slots[channels[c].fd].channel = c
                /\ registration[c] \in 1..MaxRegistrations
           /\ ~channels[c].registered => ~slots[channels[c].fd].active
<1> USE DEF ReactorInv
<1>1. channels[c].fd \in Descriptor
  BY ReactorConstants DEF ReactorTypeOK, Descriptor
<1>2. CASE channels[c].registered
  <2>1. c \in Owner(channels[c].fd)
    BY <1>2 DEF Owner
  <2>2. slots[channels[c].fd].active /\ Owner(channels[c].fd) = {slots[channels[c].fd].channel}
    BY <1>1, <2>1 DEF RegistryMatchesKernel
  <2>3. registration[c] \in 1..MaxRegistrations
    BY <1>2, ReactorConstants DEF ChannelsOpen, ReactorTypeOK
  <2> QED BY <1>1, <1>2, <2>1, <2>2, <2>3
<1>3. CASE ~channels[c].registered
  <2>1. Owner(channels[c].fd) = {}
    BY <1>3 DEF Owner, ChannelsOpen
  <2> QED BY <1>1, <1>3, <2>1 DEF RegistryMatchesKernel
<1> QED BY <1>2, <1>3

----------------------------------------------------------------------------
(* Channels *)

LEMMA InitCloseKeep ==
    ASSUME ReactorInv, NEW c \in Channel, ChannelInit(c) \/ ChannelClose(c)
    PROVE  ReactorInv'
<1> USE DEF ReactorInv
<1> DEFINE used == {channels[x].fd : x \in Channel}
<1>1. PICK fd \in 0..Descriptors :
         /\ channels' = [channels EXCEPT ![c].fd = fd]
         /\ fd # 0 => fd \notin used
         /\ fd = 0 => ~channels[c].registered
         /\ fd # 0 => channels[c].fd = 0
  <2>1. CASE ChannelInit(c)
    <3>1. PICK fd \in Descriptor \ used : channels' = [channels EXCEPT ![c].fd = fd]
      BY <2>1 DEF ChannelInit
    <3>2. fd \in 0..Descriptors /\ fd # 0 /\ fd \notin used /\ channels[c].fd = 0
      BY <2>1, ReactorConstants DEF ChannelInit, Descriptor
    <3> HIDE DEF used
    <3> QED BY <3>1, <3>2
  <2>2. CASE ChannelClose(c)
    <3>1. channels' = [channels EXCEPT ![c].fd = 0] /\ ~channels[c].registered
      BY <2>2 DEF ChannelClose
    <3>2. 0 \in 0..Descriptors
      BY ReactorConstants
    <3> HIDE DEF used
    <3> QED BY <3>1, <3>2
  <2> QED BY <2>1, <2>2
<1>2. UNCHANGED <<slots, interest, ready, batch, at, running, registration,
                  registrations, renewed, delivery>>
  BY DEF ChannelInit, ChannelClose
<1>3. ~channels[c].registered
  BY <1>1 DEF ChannelsOpen
<1>4. channels \in [Channel -> [fd : 0..Descriptors, registered : BOOLEAN]]
  BY DEF ReactorTypeOK
<1>5. /\ channels' \in [Channel -> [fd : 0..Descriptors, registered : BOOLEAN]]
      /\ \A x \in Channel : channels'[x].registered = channels[x].registered
      /\ \A x \in Channel \ {c} : channels'[x] = channels[x]
      /\ channels'[c].fd = fd
  BY <1>1, <1>4
<1>6. ReactorTypeOK'
  BY <1>2, <1>5 DEF ReactorTypeOK
<1>7. RegistryMatchesKernel'
  <2>1. \A f \in Descriptor : Owner(f)' = Owner(f)
    BY <1>3, <1>5 DEF Owner
  <2> QED BY <1>2, <2>1 DEF RegistryMatchesKernel
<1>8. ChannelsOpen'
  <2>1. \A x, y \in Channel : x # y /\ channels'[x].fd = channels'[y].fd
                                => channels'[x].fd = 0
    BY <1>1, <1>5 DEF ChannelsOpen
  <2> QED BY <1>2, <1>3, <1>5, <2>1 DEF ChannelsOpen
<1>9. ReadyInterested' /\ EventsAccounted' /\ DeliveredToItsRegistration'
  BY <1>2 DEF ReadyInterested, EventsAccounted, DeliveredToItsRegistration, Live, Stale
<1> QED BY <1>6, <1>7, <1>8, <1>9

LEMMA ElementType ==
    ASSUME NEW S, NEW s \in Seq(S), NEW i \in DOMAIN s
    PROVE  s[i] \in S
  OBVIOUS

LEMMA BatchEvent ==
    ASSUME ReactorTypeOK, NEW i \in DOMAIN batch
    PROVE  /\ batch[i] \in [token : Token, raised : 1..MaxRegistrations]
           /\ batch[i].token[1] \in 1..Generations /\ batch[i].token[2] \in Descriptor
<1>1. batch \in Seq([token : Token, raised : 1..MaxRegistrations])
  BY DEF ReactorTypeOK
<1>2. batch[i] \in [token : Token, raised : 1..MaxRegistrations]
  BY <1>1, ElementType
<1>3. batch[i].token \in Token
  BY <1>2
<1> QED BY <1>2, <1>3 DEF Token

LEMMA Sooner ==
    ASSUME NEW k \in Nat, k >= 1, NEW m \in Nat, k <= m, m < Generations
    PROVE  k + 1 \in 1..(m + 1) /\ k \in 0..(Generations - 1)
  BY ReactorConstants

LEMMA Later ==
    ASSUME NEW n \in Nat, NEW m \in Nat, n <= m, NEW k \in 1..(n + 1)
    PROVE  k \in 1..(m + 1) /\ (k <= n => k <= m)
  OBVIOUS

\* Registering or releasing one slot leaves the events of the batch accounted for.
LEMMA SlotStep ==
    ASSUME ReactorInv, NEW fd \in Descriptor,
           UNCHANGED <<batch, at>>,
           renewed' \in Nat, renewed <= renewed', renewed' < Generations,
           at \in {"out", "wait"} => renewed' = renewed,
           \A f \in Descriptor \ {fd} : slots'[f] = slots[f],
           \A f \in Descriptor \ {fd} : slots[f].active =>
              registration'[slots[f].channel] = registration[slots[f].channel],
           \/ /\ ~slots[fd].active /\ slots'[fd].active
              /\ slots'[fd].generation = slots[fd].generation
              /\ at = "callback" => renewed' = renewed + 1
           \/ /\ ~slots[fd].active /\ ~slots'[fd].active
              /\ slots'[fd].generation = NextGeneration(slots[fd].generation)
              /\ at = "callback" => renewed' = renewed + 1
           \/ /\ slots[fd].active /\ ~slots'[fd].active
              /\ slots'[fd].generation = NextGeneration(slots[fd].generation),
           at \in {"out", "callback"}
    PROVE  EventsAccounted'
<1> USE DEF ReactorInv
<1>3. renewed \in Nat /\ renewed < Generations
  BY DEF EventsAccounted, ReactorTypeOK
<1>8. renewed' \in Nat /\ renewed' < Generations /\ renewed <= renewed'
  OBVIOUS
<1> SUFFICES ASSUME NEW i \in DOMAIN batch, at = "callback"
             PROVE  Live(batch[i])' \/ Stale(batch[i])'
  BY DEF EventsAccounted
<1> DEFINE g == batch[i].token[1]
           f == batch[i].token[2]
<1>2. g \in 1..Generations /\ f \in Descriptor /\ batch[i]' = batch[i]
  <2>1. ReactorTypeOK /\ batch' = batch
    OBVIOUS
  <2> QED BY <2>1, BatchEvent
<1>4. Live(batch[i]) \/ Stale(batch[i])
  BY DEF EventsAccounted
<1>5. CASE f # fd
  <2>1. Live(batch[i]) => Live(batch[i])'
    BY <1>2, <1>5 DEF Live
  <2>2. Stale(batch[i]) => Stale(batch[i])'
    <3> SUFFICES ASSUME NEW k \in 1..(renewed + 1),
                        slots[f].generation = Wrapped(g + k),
                        slots[f].active => k <= renewed
                 PROVE  Stale(batch[i])'
      BY DEF Stale
    <3>1. k \in 1..(renewed' + 1) /\ (k <= renewed => k <= renewed')
      BY <1>3, <1>8, Later
    <3> QED BY <1>2, <1>5, <3>1 DEF Stale
  <2> QED BY <1>4, <2>1, <2>2
<1>6. CASE f = fd /\ Live(batch[i])
  <2>1. slots[f].active /\ slots[f].generation = g
    BY <1>6 DEF Live
  <2>2. slots'[f].generation = Wrapped(g + 1) /\ ~slots'[f].active
    <3>1. Wrapped(g + 0) = g /\ 0 \in 0..(Generations - 1)
      BY <1>2, ReactorConstants DEF Wrapped
    <3>2. NextGeneration(Wrapped(g + 0)) = Wrapped(g + (0 + 1))
      BY <1>2, <3>1, NextWraps
    <3> QED BY <1>2, <1>6, <2>1, <3>1, <3>2
  <2>3. 1 \in 1..(renewed' + 1)
    BY <1>8
  <2> HIDE DEF f, g
  <2>4. \E k \in 1..(renewed' + 1) : /\ slots'[f].generation = Wrapped(g + k)
                                     /\ slots'[f].active => k <= renewed'
    BY <2>2, <2>3
  <2> QED BY <1>2, <2>4 DEF Stale, f, g
<1>7. CASE f = fd /\ Stale(batch[i])
  <2>1. PICK k \in 1..(renewed + 1) : /\ slots[f].generation = Wrapped(g + k)
                                      /\ slots[f].active => k <= renewed
    BY <1>7 DEF Stale
  <2>2. \E n \in 1..(renewed' + 1) : /\ slots'[f].generation = Wrapped(g + n)
                                     /\ slots'[f].active => n <= renewed'
    <3>1. CASE slots'[fd].active
      <4>1. slots'[f].generation = Wrapped(g + k) /\ k <= renewed' /\ k \in 1..(renewed' + 1)
        BY <1>3, <1>7, <1>8, <2>1, <3>1
      <4> QED BY <4>1
    <3>2. CASE ~slots'[fd].active
      <4>1. slots'[f].generation = NextGeneration(Wrapped(g + k))
        BY <1>7, <2>1, <3>2
      <4>2. k \in Nat /\ k >= 1 /\ k <= renewed'
        <5>1. CASE slots[fd].active
          BY <1>3, <1>7, <1>8, <2>1, <5>1
        <5>2. CASE ~slots[fd].active
          <6>1. renewed' = renewed + 1
            BY <5>2, <3>2
          <6> QED BY <1>3, <2>1, <6>1
        <5> QED BY <5>1, <5>2
      <4>4. k + 1 \in 1..(renewed' + 1) /\ k \in 0..(Generations - 1)
        BY <1>8, <4>2, Sooner
      <4>3. slots'[f].generation = Wrapped(g + (k + 1))
        BY <1>2, <4>1, <4>4, NextWraps
      <4> QED BY <1>7, <3>2, <4>3, <4>4
    <3> QED BY <3>1, <3>2
  <2> QED BY <1>2, <2>2 DEF Stale
<1> QED BY <1>4, <1>5, <1>6, <1>7

LEMMA AddKeeps ==
    ASSUME ReactorInv, NEW c \in Channel, Add(c)
    PROVE  ReactorInv'
<1> USE DEF ReactorInv
<1> DEFINE fd == channels[c].fd
           slot == slots[fd]
<1>1. /\ MayCall /\ fd # 0 /\ ~channels[c].registered
      /\ registrations < MaxRegistrations /\ registrations' = registrations + 1
      /\ Renews
      /\ UNCHANGED <<ready, batch, at, running, delivery>>
  BY DEF Add
<1>2. fd \in Descriptor /\ ~slot.active /\ slot.generation \in 1..Generations
      /\ slot \in [channel : Channel \cup {NoChannel}, generation : 1..Generations,
                   active : BOOLEAN]
  BY <1>1, OwnerFacts DEF ReactorTypeOK
<1>3. Inserted(c) = [slot EXCEPT !.channel = c, !.active = TRUE]
  BY <1>2 DEF Inserted
<1>4. /\ Inserted(c).active /\ Inserted(c).channel = c
      /\ Inserted(c).generation = slot.generation
      /\ AfterRefusal(c) = [channel |-> NoChannel,
                            generation |-> NextGeneration(slot.generation),
                            active |-> FALSE]
  BY <1>2, <1>3 DEF AfterRefusal, Released
<1>5. NextGeneration(slot.generation) \in 1..Generations
  BY <1>2, NextGenerationType
<1>6. /\ renewed' \in Nat /\ renewed <= renewed' /\ renewed' < Generations
      /\ at \in {"out", "wait"} => renewed' = renewed
      /\ at = "callback" => renewed' = renewed + 1
  <2>1. renewed \in Nat /\ renewed < Generations
    BY DEF ReactorTypeOK, EventsAccounted
  <2> QED BY <1>1, <2>1, ReactorConstants DEF Renews
<1>7. at \in {"out", "callback"}
  BY <1>1 DEF MayCall
<1>8. registrations \in Nat /\ registrations' \in 0..MaxRegistrations
      /\ registrations' \in 1..MaxRegistrations
      /\ renewed' \in 0..Generations
  BY <1>1, <1>6, ReactorConstants DEF ReactorTypeOK
<1>9. Owner(fd) = {} /\ \A x \in Channel \ {c} : channels[x].fd # fd
  BY <1>1 DEF Owner, ChannelsOpen
<1> HIDE DEF slot
<1>10. CASE /\ slots' = [slots EXCEPT ![fd] = Inserted(c)]
            /\ interest' = [interest EXCEPT ![fd] = <<Inserted(c).generation, fd>>]
            /\ channels' = [channels EXCEPT ![c].registered = TRUE]
            /\ registration' = [registration EXCEPT ![c] = registrations + 1]
  <2>1. /\ channels' \in [Channel -> [fd : 0..Descriptors, registered : BOOLEAN]]
        /\ \A x \in Channel : channels'[x].fd = channels[x].fd
        /\ \A x \in Channel \ {c} : channels'[x] = channels[x]
        /\ channels'[c].registered
    BY <1>10 DEF ReactorTypeOK
  <2>2. /\ slots'[fd] = Inserted(c)
        /\ \A f \in Descriptor \ {fd} : slots'[f] = slots[f]
        /\ interest'[fd] = <<Inserted(c).generation, fd>>
        /\ \A f \in Descriptor \ {fd} : interest'[f] = interest[f]
        /\ registration'[c] = registrations'
        /\ \A x \in Channel \ {c} : registration'[x] = registration[x]
    BY <1>1, <1>2, <1>10 DEF ReactorTypeOK
  <2>3. ReactorTypeOK'
    <3>1. slots' \in [Descriptor -> [channel : Channel \cup {NoChannel},
                                     generation : 1..Generations, active : BOOLEAN]]
      <4>1. Inserted(c) \in [channel : Channel \cup {NoChannel},
                             generation : 1..Generations, active : BOOLEAN]
        BY <1>2, <1>3 DEF slot
      <4> QED BY <1>10, <4>1 DEF ReactorTypeOK
    <3>2. interest' \in [Descriptor -> Token \cup {NoToken}]
      <4>1. <<Inserted(c).generation, fd>> \in Token
        BY <1>2, <1>4 DEF Token
      <4> QED BY <1>10, <4>1 DEF ReactorTypeOK
    <3>3. registration' \in [Channel -> 0..MaxRegistrations]
      BY <1>1, <1>8, <1>10 DEF ReactorTypeOK
    <3> QED BY <1>1, <1>8, <2>1, <3>1, <3>2, <3>3 DEF ReactorTypeOK
  <2>4. RegistryMatchesKernel'
    <3>1. Owner(fd)' = {c}
      BY <1>9, <2>1 DEF Owner
    <3>2. \A f \in Descriptor \ {fd} : Owner(f)' = Owner(f)
      BY <2>1 DEF Owner
    <3>3. ASSUME NEW f \in Descriptor
          PROVE  /\ slots'[f].active <=> Owner(f)' # {}
                 /\ slots'[f].active => Owner(f)' = {slots'[f].channel}
                 /\ interest'[f] = IF slots'[f].active THEN <<slots'[f].generation, f>>
                                                     ELSE NoToken
      <4>1. CASE f = fd
        BY <1>4, <2>1, <2>2, <3>1, <4>1
      <4>2. CASE f # fd
        BY <2>2, <3>2, <4>2 DEF RegistryMatchesKernel
      <4> QED BY <4>1, <4>2
    <3> QED BY <3>3 DEF RegistryMatchesKernel
  <2>5. ChannelsOpen'
    BY <1>1, <1>8, <2>1, <2>2 DEF ChannelsOpen
  <2>6. ReadyInterested'
    <3>1. <<Inserted(c).generation, fd>> # NoToken
      BY <1>1, <1>2 DEF NoToken
    <3>2. \A i \in DOMAIN ready : ready[i] \in Descriptor
      BY ElementType DEF ReactorTypeOK
    <3>3. \A i \in DOMAIN ready : interest'[ready[i]] # NoToken
      BY <2>2, <3>1, <3>2 DEF ReadyInterested
    <3> QED BY <1>1, <3>3 DEF ReadyInterested
  <2>7. EventsAccounted'
    <3>1. \A f \in Descriptor \ {fd} : slots[f].active => slots[f].channel # c
      BY <1>1 DEF RegistryMatchesKernel, Owner
    <3>2. \A f \in Descriptor \ {fd} : slots[f].active =>
             registration'[slots[f].channel] = registration[slots[f].channel]
      BY <2>2, <3>1 DEF RegistryMatchesKernel, Owner
    <3>3. ~slots[fd].active /\ slots'[fd].active
          /\ slots'[fd].generation = slots[fd].generation
      BY <1>2, <1>4, <2>2 DEF slot
    <3> HIDE DEF ReactorInv, fd
    <3> QED BY <1>1, <1>2, <1>6, <1>7, <2>2, <3>2, <3>3, SlotStep
  <2> QED BY <1>1, <2>3, <2>4, <2>5, <2>6, <2>7 DEF DeliveredToItsRegistration
<1>11. CASE /\ slots' = [slots EXCEPT ![fd] = AfterRefusal(c)]
            /\ UNCHANGED <<interest, channels, registration>>
  <2>1. /\ slots'[fd] = AfterRefusal(c)
        /\ \A f \in Descriptor \ {fd} : slots'[f] = slots[f]
    BY <1>2, <1>11 DEF ReactorTypeOK
  <2>2. ReactorTypeOK'
    <3>1. slots' \in [Descriptor -> [channel : Channel \cup {NoChannel},
                                     generation : 1..Generations, active : BOOLEAN]]
      <4>1. AfterRefusal(c) \in [channel : Channel \cup {NoChannel},
                                 generation : 1..Generations, active : BOOLEAN]
        BY <1>4, <1>5
      <4> QED BY <1>11, <4>1 DEF ReactorTypeOK
    <3> QED BY <1>1, <1>8, <1>11, <3>1 DEF ReactorTypeOK
  <2>3. RegistryMatchesKernel'
    <3>1. \A f \in Descriptor : Owner(f)' = Owner(f)
      BY <1>11 DEF Owner
    <3>2. ~slots'[fd].active
      BY <1>4, <2>1
    <3>3. ASSUME NEW f \in Descriptor
          PROVE  /\ slots'[f].active <=> Owner(f)' # {}
                 /\ slots'[f].active => Owner(f)' = {slots'[f].channel}
                 /\ interest'[f] = IF slots'[f].active THEN <<slots'[f].generation, f>>
                                                     ELSE NoToken
      <4>1. CASE f = fd
        BY <1>2, <1>9, <1>11, <3>1, <3>2, <4>1 DEF RegistryMatchesKernel, slot
      <4>2. CASE f # fd
        BY <1>11, <2>1, <3>1, <4>2 DEF RegistryMatchesKernel
      <4> QED BY <4>1, <4>2
    <3> QED BY <3>3 DEF RegistryMatchesKernel
  <2>4. EventsAccounted'
    <3>1. ~slots[fd].active /\ ~slots'[fd].active
          /\ slots'[fd].generation = NextGeneration(slots[fd].generation)
      BY <1>2, <1>4, <2>1 DEF slot
    <3>2. UNCHANGED registration
      BY <1>11
    <3> HIDE DEF ReactorInv, fd
    <3> QED BY <1>1, <1>2, <1>6, <1>7, <2>1, <3>1, <3>2, SlotStep
  <2> QED BY <1>1, <1>11, <2>2, <2>3, <2>4
          DEF ChannelsOpen, ReadyInterested, DeliveredToItsRegistration
<1> QED BY <1>10, <1>11 DEF Add

LEMMA RemoveKeeps ==
    ASSUME ReactorInv, NEW c \in Channel, Remove(c)
    PROVE  ReactorInv'
<1> USE DEF ReactorInv
<1> DEFINE fd == channels[c].fd
<1>1. /\ MayCall /\ channels[c].registered
      /\ interest' = [interest EXCEPT ![fd] = NoToken]
      /\ Unready(fd)
      /\ slots' = [slots EXCEPT ![fd] = Erased(c)]
      /\ channels' = [channels EXCEPT ![c].registered = FALSE]
      /\ registration' = [registration EXCEPT ![c] = 0]
      /\ UNCHANGED <<batch, at, running, registrations, renewed, delivery>>
  BY DEF Remove
<1>2. /\ fd \in Descriptor /\ fd # 0 /\ slots[fd].active /\ slots[fd].channel = c
      /\ slots[fd].generation \in 1..Generations
  <2>1. fd # 0
    BY <1>1 DEF ChannelsOpen
  <2> QED BY <1>1, <2>1, OwnerFacts DEF ReactorTypeOK
<1>3. Erased(c) = [channel |-> NoChannel,
                   generation |-> NextGeneration(slots[fd].generation), active |-> FALSE]
  BY <1>2 DEF Erased, Released
<1>4. NextGeneration(slots[fd].generation) \in 1..Generations
  BY <1>2, NextGenerationType
<1>5. /\ channels' \in [Channel -> [fd : 0..Descriptors, registered : BOOLEAN]]
      /\ \A x \in Channel : channels'[x].fd = channels[x].fd
      /\ \A x \in Channel \ {c} : channels'[x] = channels[x]
      /\ ~channels'[c].registered
  BY <1>1 DEF ReactorTypeOK
<1>6. /\ slots'[fd] = Erased(c)
      /\ \A f \in Descriptor \ {fd} : slots'[f] = slots[f]
      /\ interest'[fd] = NoToken
      /\ \A f \in Descriptor \ {fd} : interest'[f] = interest[f]
      /\ registration'[c] = 0
      /\ \A x \in Channel \ {c} : registration'[x] = registration[x]
  BY <1>1, <1>2 DEF ReactorTypeOK
\* The descriptor leaves the ready list.
<1>7. /\ ready' \in Seq(Descriptor)
      /\ \A j \in DOMAIN ready' : ready'[j] # fd
      /\ \A j \in DOMAIN ready' : \E i \in DOMAIN ready : ready'[j] = ready[i]
      /\ \A i, j \in DOMAIN ready' : ready'[i] = ready'[j] => i = j
  <2>0. ready \in Seq(Descriptor) /\ \A i, j \in DOMAIN ready : ready[i] = ready[j] => i = j
    BY DEF ReactorTypeOK, ReadyInterested
  <2> HIDE DEF fd, ReactorInv
  <2>1. CASE \E i \in DOMAIN ready :
               /\ ready[i] = fd
               /\ ready' = [j \in 1..(Len(ready) - 1) |->
                              ready[IF j < i THEN j ELSE j + 1]]
    <3>1. PICK i \in DOMAIN ready :
               /\ ready[i] = fd
               /\ ready' = [j \in 1..(Len(ready) - 1) |->
                              ready[IF j < i THEN j ELSE j + 1]]
      BY <2>1
    <3> DEFINE back(j) == IF j < i THEN j ELSE j + 1
    <3>2. Len(ready) \in Nat /\ DOMAIN ready = 1..Len(ready) /\ i \in 1..Len(ready)
      BY <2>0
    <3>3. \A j \in 1..(Len(ready) - 1) : back(j) \in 1..Len(ready) /\ back(j) # i
      BY <3>2
    <3>4. \A j, k \in 1..(Len(ready) - 1) : back(j) = back(k) => j = k
      BY <3>2
    <3>5. DOMAIN ready' = 1..(Len(ready) - 1)
          /\ \A j \in 1..(Len(ready) - 1) : ready'[j] = ready[back(j)]
      BY <3>1
    <3> HIDE DEF back
    <3>6. \A j \in DOMAIN ready' : ready'[j] # fd
      BY <2>0, <3>1, <3>2, <3>3, <3>5
    <3>7. \A j \in DOMAIN ready' : \E n \in DOMAIN ready : ready'[j] = ready[n]
      BY <3>2, <3>3, <3>5
    <3>8. \A n, j \in DOMAIN ready' : ready'[n] = ready'[j] => n = j
      BY <2>0, <3>2, <3>3, <3>4, <3>5
    <3>9. ready' \in Seq(Descriptor)
      <4>1. Len(ready) - 1 \in Nat
        BY <3>2
      <4>2. \A j \in 1..(Len(ready) - 1) : ready'[j] \in Descriptor
        BY <2>0, <3>2, <3>3, <3>5
      <4>3. ready' = [j \in 1..(Len(ready) - 1) |-> ready'[j]]
        BY <3>1
      <4> QED BY <4>1, <4>2, <4>3, IsASeq
    <3> QED BY <3>6, <3>7, <3>8, <3>9
  <2>2. CASE (\A i \in DOMAIN ready : ready[i] # fd) /\ UNCHANGED ready
    BY <2>0, <2>2
  <2> QED BY <1>1, <2>1, <2>2 DEF Unready
<1>8. ReactorTypeOK'
  <2>1. slots' \in [Descriptor -> [channel : Channel \cup {NoChannel},
                                   generation : 1..Generations, active : BOOLEAN]]
    <3>1. Erased(c) \in [channel : Channel \cup {NoChannel},
                         generation : 1..Generations, active : BOOLEAN]
      BY <1>3, <1>4
    <3> QED BY <1>1, <3>1 DEF ReactorTypeOK
  <2>2. interest' \in [Descriptor -> Token \cup {NoToken}]
    BY <1>1 DEF ReactorTypeOK
  <2>3. registration' \in [Channel -> 0..MaxRegistrations]
    BY <1>1, ReactorConstants DEF ReactorTypeOK
  <2> QED BY <1>1, <1>5, <1>7, <2>1, <2>2, <2>3 DEF ReactorTypeOK
<1>9. RegistryMatchesKernel'
  <2>1. Owner(fd)' = {}
    BY <1>2, <1>5 DEF Owner, ChannelsOpen
  <2>2. \A f \in Descriptor \ {fd} : Owner(f)' = Owner(f)
    BY <1>5 DEF Owner
  <2>3. ASSUME NEW f \in Descriptor
        PROVE  /\ slots'[f].active <=> Owner(f)' # {}
               /\ slots'[f].active => Owner(f)' = {slots'[f].channel}
               /\ interest'[f] = IF slots'[f].active THEN <<slots'[f].generation, f>>
                                                   ELSE NoToken
    <3>1. CASE f = fd
      BY <1>3, <1>5, <1>6, <2>1, <3>1
    <3>2. CASE f # fd
      BY <1>6, <2>2, <3>2 DEF RegistryMatchesKernel
    <3> QED BY <3>1, <3>2
  <2> QED BY <2>3 DEF RegistryMatchesKernel
<1>10. ChannelsOpen'
  BY <1>5, <1>6 DEF ChannelsOpen
<1>11. ReadyInterested'
  <2>1. \A i \in DOMAIN ready : ready[i] \in Descriptor
    BY ElementType DEF ReactorTypeOK
  <2> QED BY <1>6, <1>7, <2>1 DEF ReadyInterested
<1>12. EventsAccounted'
  <2>1. \A f \in Descriptor \ {fd} : slots[f].active =>
           registration'[slots[f].channel] = registration[slots[f].channel]
    <3> SUFFICES ASSUME NEW f \in Descriptor \ {fd}, slots[f].active
                 PROVE  registration'[slots[f].channel] = registration[slots[f].channel]
      OBVIOUS
    <3>1. slots[f].channel \in Owner(f)
      BY DEF RegistryMatchesKernel
    <3>2. slots[f].channel \in Channel \ {c}
      BY <3>1 DEF Owner
    <3> QED BY <1>6, <3>2
  <2>2. ~slots'[fd].active /\ slots'[fd].generation = NextGeneration(slots[fd].generation)
    BY <1>3, <1>6
  <2>3. renewed' \in Nat /\ renewed' = renewed /\ renewed <= renewed'
        /\ renewed' < Generations
    BY <1>1 DEF ReactorTypeOK, EventsAccounted
  <2>4. at \in {"out", "callback"} /\ UNCHANGED <<batch, at>>
    BY <1>1 DEF MayCall
  <2> HIDE DEF ReactorInv, fd
  <2> QED BY <1>2, <1>6, <2>1, <2>2, <2>3, <2>4, SlotStep
<1> QED BY <1>1, <1>8, <1>9, <1>10, <1>11, <1>12 DEF DeliveredToItsRegistration

----------------------------------------------------------------------------
(* The loop *)

\* epoll_wait: every event carries the token and the registration of its descriptor.
LEMMA RunOnceKeeps ==
    ASSUME ReactorInv, RunOnce
    PROVE  ReactorInv'
<1> USE DEF ReactorInv
<1> DEFINE n == IF Len(ready) < BatchSize THEN Len(ready) ELSE BatchSize
           holder(fd) == CHOOSE c \in Channel : channels[c].registered /\ channels[c].fd = fd
<1>1. /\ at = "wait" /\ at' = "batch"
      /\ batch' = [i \in 1..n |-> [token |-> interest[ready[i]],
                                   raised |-> registration[holder(ready[i])]]]
      /\ ready' = SubSeq(ready, n + 1, Len(ready))
      /\ UNCHANGED <<channels, slots, interest, registration, registrations, running,
                     renewed, delivery>>
  BY DEF RunOnce, objects
<1>2. ready \in Seq(Descriptor) /\ Len(ready) \in Nat /\ DOMAIN ready = 1..Len(ready)
  BY DEF ReactorTypeOK
<1>3. n \in Nat /\ n <= Len(ready)
  BY <1>2, ReactorConstants
<1>4. renewed = 0 /\ 0 < Generations
  BY <1>1, ReactorConstants DEF EventsAccounted
<1>5. ASSUME NEW i \in 1..n
      PROVE  /\ batch'[i] \in [token : Token, raised : 1..MaxRegistrations]
             /\ Live(batch[i])'
  <2> DEFINE fd == ready[i]
  <2>1. i \in DOMAIN ready /\ fd \in Descriptor
    BY <1>2, <1>3, ElementType
  <2>2. interest[fd] # NoToken
    BY <2>1 DEF ReadyInterested
  <2>3. /\ slots[fd].active /\ interest[fd] = <<slots[fd].generation, fd>>
        /\ Owner(fd) = {slots[fd].channel}
    BY <2>1, <2>2 DEF RegistryMatchesKernel
  <2>4. \A c \in Channel : channels[c].registered /\ channels[c].fd = fd
                             <=> c = slots[fd].channel /\ c \in Channel
    BY <2>3 DEF Owner
  <2>5. slots[fd].channel \in Channel
    BY <2>3 DEF Owner
  <2>6. holder(fd) = slots[fd].channel
    <3> HIDE DEF fd
    <3>1. /\ holder(fd) \in Channel
          /\ channels[holder(fd)].registered /\ channels[holder(fd)].fd = fd
      BY <2>4, <2>5
    <3> HIDE DEF holder
    <3> QED BY <2>4, <3>1
  <2>7. slots[fd].generation \in 1..Generations
    BY <2>1 DEF ReactorTypeOK
  <2>8. registration[slots[fd].channel] \in 1..MaxRegistrations
    <3>1. channels[slots[fd].channel].registered
      BY <2>4, <2>5
    <3> QED BY <2>5, <3>1, ReactorConstants DEF ChannelsOpen, ReactorTypeOK
  <2>9. batch'[i] = [token |-> <<slots[fd].generation, fd>>,
                     raised |-> registration[slots[fd].channel]]
    BY <1>1, <2>3, <2>6
  <2> HIDE DEF fd, ReactorInv
  <2>10. batch'[i] \in [token : Token, raised : 1..MaxRegistrations]
    BY <2>1, <2>7, <2>8, <2>9 DEF Token
  <2>11. Live(batch[i])'
    <3>1. slots' = slots /\ registration' = registration
      BY <1>1
    <3>2. /\ batch'[i].token[1] = slots[fd].generation /\ batch'[i].token[2] = fd
          /\ batch'[i].raised = registration[slots[fd].channel]
      BY <2>9
    <3> QED BY <2>3, <3>1, <3>2 DEF Live
  <2> QED BY <2>10, <2>11
<1>6. batch' \in Seq([token : Token, raised : 1..MaxRegistrations]) /\ DOMAIN batch' = 1..n
  <2> DEFINE T == [token : Token, raised : 1..MaxRegistrations]
  <2>1. \A i \in 1..n : batch'[i] \in T
    BY <1>5
  <2>2. batch' = [i \in 1..n |-> batch'[i]]
    BY <1>1
  <2> HIDE DEF T, n
  <2>3. batch' \in Seq(T)
    BY <1>3, <2>1, <2>2, IsASeq
  <2> QED BY <2>2, <2>3 DEF T
<1>7. /\ ready' \in Seq(Descriptor)
      /\ \A j \in DOMAIN ready' : j + n \in DOMAIN ready /\ ready'[j] = ready[j + n]
      /\ DOMAIN ready' \subseteq Nat
  <2> HIDE DEF n, ReactorInv
  <2> QED BY <1>1, <1>2, <1>3
<1>8. ReactorTypeOK'
  BY <1>1, <1>6, <1>7 DEF ReactorTypeOK
<1>9. RegistryMatchesKernel' /\ ChannelsOpen' /\ DeliveredToItsRegistration'
  BY <1>1 DEF RegistryMatchesKernel, ChannelsOpen, DeliveredToItsRegistration, Owner
<1>10. ReadyInterested'
  <2>1. \A j \in DOMAIN ready' : interest'[ready'[j]] # NoToken
    BY <1>1, <1>7 DEF ReadyInterested
  <2>2. \A j, k \in DOMAIN ready' : ready'[j] = ready'[k] => j = k
    <3> SUFFICES ASSUME NEW j \in DOMAIN ready', NEW k \in DOMAIN ready', ready'[j] = ready'[k]
                 PROVE  j = k
      OBVIOUS
    <3>1. j + n = k + n
      BY <1>7 DEF ReadyInterested
    <3> QED BY <1>3, <1>7, <3>1
  <2> QED BY <2>1, <2>2 DEF ReadyInterested
<1>11. EventsAccounted'
  BY <1>1, <1>4, <1>5, <1>6 DEF EventsAccounted
<1> QED BY <1>8, <1>9, <1>10, <1>11

\* An event whose token still resolves is live: what it resolves to is the channel of the
\* registration the event was raised for.
LEMMA ResolvesLive ==
    ASSUME ReactorInv, NEW i \in DOMAIN batch, Resolve(batch[i].token) # NoChannel
    PROVE  /\ Resolve(batch[i].token) \in Channel
           /\ registration[Resolve(batch[i].token)] = batch[i].raised
<1> USE DEF ReactorInv
<1> DEFINE g == batch[i].token[1]
           fd == batch[i].token[2]
<1>1. g \in 1..Generations /\ fd \in Descriptor
  BY BatchEvent
<1>2. slots[fd].active /\ slots[fd].generation = g
      /\ Resolve(batch[i].token) = slots[fd].channel
  BY DEF Resolve
<1>3. slots[fd].channel \in Channel
  <2>1. slots[fd].channel \in Owner(fd)
    BY <1>1, <1>2 DEF RegistryMatchesKernel
  <2> QED BY <2>1 DEF Owner
<1>4. ~Stale(batch[i])
  <2> SUFFICES ASSUME NEW k \in 1..(renewed + 1), slots[fd].generation = Wrapped(g + k),
                      slots[fd].active => k <= renewed
               PROVE  FALSE
    BY DEF Stale
  <2>1. renewed \in Nat /\ renewed < Generations
    BY DEF ReactorTypeOK, EventsAccounted
  <2>2. k \in 0..(Generations - 1) /\ k # 0
    BY <1>2, <2>1, ReactorConstants
  <2> QED BY <1>1, <1>2, <2>2, NextWraps
<1>5. Live(batch[i])
  BY <1>4 DEF EventsAccounted
<1> QED BY <1>2, <1>3, <1>5 DEF Live

LEMMA DispatchKeeps ==
    ASSUME ReactorInv, DispatchEvent
    PROVE  ReactorInv'
<1> USE DEF ReactorInv
<1> DEFINE c == Resolve(Head(batch).token)
<1>1. /\ at = "batch" /\ batch # <<>> /\ batch' = Tail(batch)
      /\ at' \in {"callback", "batch"}
      /\ \/ c # NoChannel /\ delivery' = [raised |-> Head(batch).raised,
                                          received |-> registration[c]]
         \/ UNCHANGED delivery
      /\ UNCHANGED <<channels, slots, interest, registration, registrations, ready, running,
                     renewed>>
  BY DEF DispatchEvent, AfterStale, objects
<1>2. batch \in Seq([token : Token, raised : 1..MaxRegistrations])
  BY DEF ReactorTypeOK
<1>3. /\ 1 \in DOMAIN batch /\ Head(batch) = batch[1]
      /\ \A i \in DOMAIN batch' : i + 1 \in DOMAIN batch /\ batch'[i] = batch[i + 1]
      /\ batch' \in Seq([token : Token, raised : 1..MaxRegistrations])
  <2> DEFINE T == [token : Token, raised : 1..MaxRegistrations]
  <2>1. batch \in Seq(T) /\ batch # <<>> /\ batch' = Tail(batch)
    BY <1>1, <1>2
  <2> HIDE DEF T, ReactorInv
  <2>2. /\ 1 \in DOMAIN batch /\ Head(batch) = batch[1]
        /\ \A i \in DOMAIN batch' : i + 1 \in DOMAIN batch /\ batch'[i] = batch[i + 1]
        /\ batch' \in Seq(T)
    BY <2>1
  <2> QED BY <2>2 DEF T
<1>4. /\ delivery' \in [raised : 0..MaxRegistrations, received : 0..MaxRegistrations]
      /\ delivery'.raised = delivery'.received
  <2>1. CASE UNCHANGED delivery
    BY <2>1 DEF ReactorTypeOK, DeliveredToItsRegistration
  <2>2. CASE c # NoChannel /\ delivery' = [raised |-> Head(batch).raised,
                                           received |-> registration[c]]
    <3>1. c \in Channel /\ registration[c] = batch[1].raised
      BY <1>3, <2>2, ResolvesLive
    <3>2. registration[c] \in 0..MaxRegistrations
      BY <3>1 DEF ReactorTypeOK
    <3> HIDE DEF c
    <3> QED BY <1>3, <2>2, <3>1, <3>2
  <2> QED BY <1>1, <2>1, <2>2
<1>5. ReactorTypeOK'
  BY <1>1, <1>3, <1>4 DEF ReactorTypeOK
<1>6. RegistryMatchesKernel' /\ ChannelsOpen' /\ ReadyInterested'
  BY <1>1 DEF RegistryMatchesKernel, ChannelsOpen, ReadyInterested, Owner
<1>7. EventsAccounted'
  <2>2. ASSUME NEW i \in DOMAIN batch'
        PROVE  Live(batch[i])' \/ Stale(batch[i])'
    <3>1. i + 1 \in DOMAIN batch /\ batch'[i] = batch[i + 1]
      BY <1>3, <2>2
    <3>2. Live(batch[i + 1]) \/ Stale(batch[i + 1])
      BY <3>1 DEF EventsAccounted
    <3>3. Live(batch[i + 1]) => Live(batch[i])'
      BY <1>1, <3>1 DEF Live
    <3>4. Stale(batch[i + 1]) => Stale(batch[i])'
      BY <1>1, <3>1 DEF Stale
    <3> QED BY <3>2, <3>3, <3>4
  <2> QED BY <1>1, <2>2 DEF EventsAccounted
<1> QED BY <1>4, <1>5, <1>6, <1>7 DEF DeliveredToItsRegistration

LEMMA ReactorInvNext == ReactorInv /\ [ReactorNext]_reactorVars => ReactorInv'
<1> SUFFICES ASSUME ReactorInv, [ReactorNext]_reactorVars PROVE ReactorInv'
  OBVIOUS
<1>1. CASE \E c \in Channel : ChannelInit(c) \/ ChannelClose(c)
  BY <1>1, InitCloseKeep
<1>2. CASE \E c \in Channel : Add(c)
  BY <1>2, AddKeeps
<1>3. CASE \E c \in Channel : Remove(c)
  BY <1>3, RemoveKeeps
<1>4. CASE RunOnce
  BY <1>4, RunOnceKeeps
<1>5. CASE DispatchEvent
  BY <1>5, DispatchKeeps
\* The kernel and the loop outside of events.
<1>6. CASE \/ \E fd \in Descriptor : Raise(fd)
           \/ Run \/ RunReturns \/ Stop \/ CallbackReturns \/ BatchDone
           \/ UNCHANGED reactorVars
  <2> USE DEF ReactorInv
  <2>1. /\ UNCHANGED <<channels, slots, interest, registration, registrations, batch,
                       delivery>>
        /\ at' \in {"out", "wait", "batch", "callback"} /\ running' \in BOOLEAN
        /\ \/ UNCHANGED renewed /\ (at' \in {"out", "wait"} => at \in {"out", "wait"})
           \/ renewed' = 0 /\ batch = <<>>
        /\ \/ UNCHANGED ready
           \/ \E fd \in Descriptor : /\ interest[fd] # NoToken
                                     /\ \A i \in DOMAIN ready : ready[i] # fd
                                     /\ ready' = Append(ready, fd)
    BY <1>6 DEF Raise, Run, RunReturns, Stop, CallbackReturns, AfterHandler, BatchDone, reactorVars, objects,
                ReactorTypeOK
  <2>2. /\ ready' \in Seq(Descriptor)
        /\ \A i \in DOMAIN ready' : interest[ready'[i]] # NoToken
        /\ \A i, j \in DOMAIN ready' : ready'[i] = ready'[j] => i = j
    <3>1. /\ ready \in Seq(Descriptor)
          /\ \A i \in DOMAIN ready : interest[ready[i]] # NoToken
          /\ \A i, j \in DOMAIN ready : ready[i] = ready[j] => i = j
      BY DEF ReactorTypeOK, ReadyInterested
    <3>2. CASE UNCHANGED ready
      BY <3>1, <3>2
    <3>3. ASSUME NEW fd \in Descriptor, interest[fd] # NoToken,
                 \A i \in DOMAIN ready : ready[i] # fd, ready' = Append(ready, fd)
          PROVE  /\ ready' \in Seq(Descriptor)
                 /\ \A i \in DOMAIN ready' : interest[ready'[i]] # NoToken
                 /\ \A i, j \in DOMAIN ready' : ready'[i] = ready'[j] => i = j
      <4> HIDE DEF ReactorInv
      <4>1. /\ ready' \in Seq(Descriptor) /\ DOMAIN ready' = 1..(Len(ready) + 1)
            /\ \A i \in DOMAIN ready : ready'[i] = ready[i]
            /\ DOMAIN ready = 1..Len(ready) /\ Len(ready) \in Nat
            /\ ready'[Len(ready) + 1] = fd
        BY <3>1, <3>3
      <4>2. \A i \in DOMAIN ready' : i \in DOMAIN ready \/ i = Len(ready) + 1
        BY <4>1
      <4> QED BY <3>1, <3>3, <4>1, <4>2
    <3> QED BY <2>1, <3>2, <3>3
  <2>3. renewed' \in 0..Generations /\ renewed' < Generations
    BY <2>1, ReactorConstants DEF ReactorTypeOK, EventsAccounted
  <2>4. ReactorTypeOK'
    BY <2>1, <2>2, <2>3 DEF ReactorTypeOK
  <2>5. RegistryMatchesKernel' /\ ChannelsOpen' /\ DeliveredToItsRegistration'
    BY <2>1 DEF RegistryMatchesKernel, ChannelsOpen, DeliveredToItsRegistration, Owner
  <2>6. ReadyInterested'
    BY <2>1, <2>2 DEF ReadyInterested
  <2>7. EventsAccounted'
    <3>1. CASE UNCHANGED renewed /\ (at' \in {"out", "wait"} => at \in {"out", "wait"})
      BY <2>1, <2>3, <3>1 DEF EventsAccounted, Live, Stale
    <3>2. CASE renewed' = 0 /\ batch = <<>>
      BY <2>1, <2>3, <3>2 DEF EventsAccounted
    <3> QED BY <2>1, <3>1, <3>2
  <2> QED BY <2>4, <2>5, <2>6, <2>7
<1> QED BY <1>1, <1>2, <1>3, <1>4, <1>5, <1>6 DEF ReactorNext

LEMMA ReactorInvAlways == ReactorSpec => []ReactorInv
  BY ReactorInvInit, ReactorInvNext, PTL DEF ReactorSpec

\* Registry, interest list and channels agree in every reachable state: a slot is active
\* exactly for the registered channel that holds its descriptor, under the token that the
\* kernel hands out.
THEOREM RegistryFollowsKernel == ReactorSpec => []ReactorConsistent
<1>1. ReactorInv => ReactorConsistent
  BY DEF ReactorInv, ReactorConsistent
<1> QED BY <1>1, ReactorInvAlways, PTL

\* An event is delivered to the registration it was raised for or to nobody, although
\* generations come round: as long as the handlers of one batch register fewer channels
\* than there are generations.
THEOREM DeliveredAsRaised == ReactorSpec => []DeliveredToItsRegistration
<1>1. ReactorInv => DeliveredToItsRegistration
  BY DEF ReactorInv
<1> QED BY <1>1, ReactorInvAlways, PTL
=============================================================================
