---------------------------- MODULE AgentProofs ----------------------------
(***************************************************************************)
(* Proofs about the agents. The timers they wait by (TimerScheduler), for  *)
(* any number of timers and any deadlines: none is overslept, and each     *)
(* expires once, in order. A session (AgentSession), for any number of     *)
(* commands, restarts and faults: it always waits for something that       *)
(* comes, both sides agree on the protocol, and commands are applied once. *)
(* A fleet (AgentFleet), for any number of members: they are started in    *)
(* order, and nothing outlives the end of the fleet.                       *)
(***************************************************************************)
EXTENDS TimerScheduler, AgentSession, AgentFleet, SequenceTheorems, FiniteSetTheorems, TLAPS

----------------------------------------------------------------------------
(* The timer scheduler: the queue *)

Entry == [deadline : 0..MaxNow, id : Token]

\* Whichever entries are looked at, one is the first. (The heap is finite, but what a
\* step adds to it shows the same without counting.)
WellOrdered(entries) ==
    \A S \in SUBSET entries : S # {} => \E e \in S : \A f \in S : f = e \/ Before(e, f)

\* The first of the entries is one of them and before all the others.
LEMMA TopIsFirst ==
    ASSUME NEW entries, WellOrdered(entries), NEW S \in SUBSET entries, S # {}
    PROVE  TopOf(S) \in S /\ \A f \in S : f = TopOf(S) \/ Before(TopOf(S), f)
<1>1. \E e \in S : \A f \in S : f = e \/ Before(e, f)
  BY DEF WellOrdered
<1> QED BY <1>1 DEF TopOf

\* The order of the entries is strict, and total on entries of different timers.
LEMMA OrderIsStrict ==
    ASSUME TimerConstants, NEW e \in Entry, NEW f \in Entry
    PROVE  /\ ~(Before(e, f) /\ Before(f, e)) /\ ~Before(e, e)
           /\ e.id # f.id => Before(e, f) \/ Before(f, e)
           /\ Before(e, f) => e.deadline <= f.deadline
           /\ \A g \in Entry : Before(e, f) /\ Before(f, g) => Before(e, g)
<1>1. /\ e.deadline \in Int /\ e.id[1] \in Int /\ e.id[2] \in Int
      /\ f.deadline \in Int /\ f.id[1] \in Int /\ f.id[2] \in Int
      /\ e.id = <<e.id[1], e.id[2]>> /\ f.id = <<f.id[1], f.id[2]>>
  BY DEF Entry, Token, TimerConstants
<1>2. ASSUME NEW g \in Entry, Before(e, f), Before(f, g) PROVE Before(e, g)
  <2>1. g.deadline \in Int /\ g.id[1] \in Int /\ g.id[2] \in Int
    BY DEF Entry, Token, TimerConstants
  <2> QED BY <1>1, <1>2, <2>1 DEF Before
<1>3. ~(Before(e, f) /\ Before(f, e)) /\ ~Before(e, e)
  BY <1>1 DEF Before
<1>4. e.id # f.id => Before(e, f) \/ Before(f, e)
  BY <1>1 DEF Before
<1>5. Before(e, f) => e.deadline <= f.deadline
  BY <1>1 DEF Before
<1> QED BY <1>2, <1>3, <1>4, <1>5

\* Removing entries, and adding one of another timer, keeps the order.
LEMMA OrderKept ==
    ASSUME TimerConstants, NEW entries \in SUBSET Entry, WellOrdered(entries),
           NEW x \in Entry, \A e \in entries : e.id # x.id
    PROVE  WellOrdered(entries \cup {x})
<1> SUFFICES ASSUME NEW S \in SUBSET (entries \cup {x}), S # {}
             PROVE  \E e \in S : \A f \in S : f = e \/ Before(e, f)
  BY DEF WellOrdered
<1>1. CASE S \ {x} = {}
  BY <1>1
<1>2. CASE S \ {x} # {}
  <2>1. PICK e \in S \ {x} : \A f \in S \ {x} : f = e \/ Before(e, f)
    BY <1>2 DEF WellOrdered
  <2>2. e \in Entry /\ e \in entries /\ e.id # x.id /\ S \ {x} \subseteq Entry
    OBVIOUS
  <2>3. CASE Before(e, x) \/ x \notin S
    BY <2>1, <2>3
  <2>4. CASE Before(x, e) /\ x \in S
    <3>1. \A f \in S \ {x} : Before(x, f)
      BY <2>1, <2>2, <2>4, OrderIsStrict
    <3> QED BY <2>4, <3>1
  <2> QED BY <2>2, <2>3, <2>4, OrderIsStrict
<1> QED BY <1>1, <1>2

LEMMA OrderOfFewer ==
    ASSUME NEW entries, WellOrdered(entries), NEW S \in SUBSET entries
    PROVE  WellOrdered(S)
  BY DEF WellOrdered

----------------------------------------------------------------------------
(* The timer scheduler: sequences *)

LEMMA ElementType ==
    ASSUME NEW S, NEW s \in Seq(S), NEW i \in DOMAIN s
    PROVE  s[i] \in S
  OBVIOUS

LEMMA WiderSeq ==
    ASSUME NEW S, NEW T, S \subseteq T, NEW s \in Seq(S)
    PROVE  s \in Seq(T)
  OBVIOUS

\* What is appended comes to what there was, and stays different from it if it was new.
LEMMA AppendedElements ==
    ASSUME NEW S, NEW s \in Seq(S), NEW x \in S
    PROVE  /\ Append(s, x) \in Seq(S) /\ Len(Append(s, x)) = Len(s) + 1
           /\ TokensIn(Append(s, x)) = TokensIn(s) \cup {x}
           /\ (\A i, j \in DOMAIN s : s[i] = s[j] => i = j) /\ x \notin TokensIn(s)
                => \A i, j \in DOMAIN Append(s, x) : Append(s, x)[i] = Append(s, x)[j] => i = j
<1> DEFINE a == Append(s, x)
<1>1. /\ a \in Seq(S) /\ Len(a) = Len(s) + 1 /\ Len(s) \in Nat
      /\ DOMAIN a = 1..(Len(s) + 1) /\ DOMAIN s = 1..Len(s)
      /\ a[Len(s) + 1] = x /\ \A i \in DOMAIN s : a[i] = s[i]
  OBVIOUS
<1> HIDE DEF a
<1>2. TokensIn(a) = TokensIn(s) \cup {x}
  <2>1. \A i \in DOMAIN a : a[i] \in TokensIn(s) \cup {x}
    <3> TAKE i \in DOMAIN a
    <3>1. i \in DOMAIN s \/ i = Len(s) + 1
      BY <1>1
    <3> QED BY <1>1, <3>1 DEF TokensIn
  <2>2. \A i \in DOMAIN s : i \in DOMAIN a /\ s[i] = a[i]
    BY <1>1
  <2>3. Len(s) + 1 \in DOMAIN a
    BY <1>1
  <2> QED BY <1>1, <2>1, <2>2, <2>3 DEF TokensIn
<1>3. ASSUME \A i, j \in DOMAIN s : s[i] = s[j] => i = j, x \notin TokensIn(s),
             NEW i \in DOMAIN a, NEW j \in DOMAIN a, a[i] = a[j]
      PROVE  i = j
  <2>1. \A k \in DOMAIN s : s[k] # x
    BY <1>3 DEF TokensIn
  <2>2. (i \in DOMAIN s \/ i = Len(s) + 1) /\ (j \in DOMAIN s \/ j = Len(s) + 1)
    BY <1>1, <1>3
  <2> QED BY <1>1, <1>3, <2>1, <2>2
<1> QED BY <1>1, <1>2, <1>3 DEF a

\* Without the last one the others remain.
LEMMA FrontElements ==
    ASSUME NEW S, NEW s \in Seq(S), s # <<>>, \A i, j \in DOMAIN s : s[i] = s[j] => i = j
    PROVE  /\ Len(s) \in DOMAIN s /\ SubSeq(s, 1, Len(s) - 1) \in Seq(S)
           /\ TokensIn(SubSeq(s, 1, Len(s) - 1)) = TokensIn(s) \ {s[Len(s)]}
           /\ \A i, j \in DOMAIN SubSeq(s, 1, Len(s) - 1) :
                SubSeq(s, 1, Len(s) - 1)[i] = SubSeq(s, 1, Len(s) - 1)[j] => i = j
<1> DEFINE f == SubSeq(s, 1, Len(s) - 1)
<1>1. /\ Len(s) \in Nat /\ Len(s) >= 1 /\ DOMAIN s = 1..Len(s)
      /\ f \in Seq(S) /\ DOMAIN f = 1..(Len(s) - 1)
      /\ \A i \in 1..(Len(s) - 1) : f[i] = s[i]
  OBVIOUS
<1> HIDE DEF f
<1>2. \A i \in DOMAIN s : i # Len(s) => i \in DOMAIN f
  BY <1>1
<1>3. \A i \in DOMAIN f : i \in DOMAIN s /\ i # Len(s)
  BY <1>1
<1>4. Len(s) \in DOMAIN s
  BY <1>1
<1>5. TokensIn(f) = TokensIn(s) \ {s[Len(s)]}
  BY <1>1, <1>2, <1>3, <1>4 DEF TokensIn
<1> QED BY <1>1, <1>3, <1>4, <1>5 DEF f

----------------------------------------------------------------------------
(* The timer scheduler: the inductive invariant *)

Slot == [generation : 1..(MaxTimers + 1), active : BOOLEAN]

\* Slots and tokens: a token handed out is that of its slot, or of an earlier generation
\* of it; a free slot is at a generation that was not handed out yet.
TokensAccounted ==
    /\ Len(slots) <= Len(issued) /\ Len(issued) <= MaxTimers
    /\ \A i \in DOMAIN slots :
         /\ slots[i].active => /\ slots[i].generation <= Len(issued)
                               /\ <<slots[i].generation, i>> \in TokensIn(issued)
         /\ ~slots[i].active => slots[i].generation <= Len(issued) + 1
    /\ \A t \in TokensIn(issued) :
         /\ t[2] \in DOMAIN slots /\ t[1] <= slots[t[2]].generation
         /\ ~slots[t[2]].active => t[1] < slots[t[2]].generation

\* Slots and entries: each entry is of a token handed out, different ones of different
\* tokens, and there is one for each pending timer.
EntriesAccounted ==
    /\ \A e \in heap : e.id \in TokensIn(issued)
    /\ \A e, f \in heap : e.id = f.id => e = f
    /\ \A i \in DOMAIN slots : slots[i].active =>
         \E e \in heap : e.id = <<slots[i].generation, i>>

RegistryInv ==
    /\ slots \in Seq(Slot) /\ free \in Seq(DOMAIN slots)
    /\ heap \subseteq Entry /\ issued \in Seq(Token)
    /\ \A i, j \in DOMAIN issued : issued[i] = issued[j] => i = j
    /\ TokensIn(free) = {i \in DOMAIN slots : ~slots[i].active}
    /\ \A i, j \in DOMAIN free : free[i] = free[j] => i = j
    /\ TokensAccounted /\ EntriesAccounted
    /\ WellOrdered(heap)

\* The loop of a dispatch goes on only while the scheduler is started.
DispatchRunning == at = "dispatch" => active

\* The types of the rest.
ClockTypeOK ==
    /\ now \in 0..MaxNow /\ limit \in 0..now
    /\ active \in BOOLEAN /\ ticks \in BOOLEAN /\ edge \in BOOLEAN
    /\ armed \in {Never} \cup (0..MaxNow)
    /\ at \in {"idle", "dispatch", "callback"}
    /\ fired \subseteq TokensIn(issued)

SchedulerInv == ClockTypeOK /\ RegistryInv /\ DispatchRunning /\ ArmedForNext

\* The invariant says of each pending timer that it has one entry.
LEMMA RegistryIsExact == ASSUME RegistryInv PROVE RegistryExact
<1>1. \A i \in DOMAIN slots : slots[i].active =>
         Cardinality({e \in heap : e.id = <<slots[i].generation, i>>}) = 1
  <2> SUFFICES ASSUME NEW i \in DOMAIN slots, slots[i].active
               PROVE  Cardinality({e \in heap : e.id = <<slots[i].generation, i>>}) = 1
    OBVIOUS
  <2>1. PICK e \in heap : e.id = <<slots[i].generation, i>>
    BY DEF RegistryInv, EntriesAccounted
  <2>2. {f \in heap : f.id = <<slots[i].generation, i>>} = {e}
    <3>1. \A f \in heap : f.id = e.id => f = e
      BY DEF RegistryInv, EntriesAccounted
    <3> QED BY <2>1, <3>1
  <2> QED BY <2>2, FS_Singleton
<1>2. \A e \in heap : e.id[1] <= slots[e.id[2]].generation
  BY DEF RegistryInv, EntriesAccounted, TokensAccounted
<1> QED BY <1>1, <1>2 DEF RegistryExact, RegistryInv, TokensIn

----------------------------------------------------------------------------
(* The timer scheduler: the operations on the registry and the queue *)

LEMMA ActivatedSlot ==
    ASSUME NEW slot \in Slot
    PROVE  /\ [slot EXCEPT !.active = TRUE] \in Slot
           /\ [slot EXCEPT !.active = TRUE] = [generation |-> slot.generation, active |-> TRUE]
<1> DEFINE a == [slot EXCEPT !.active = TRUE]
           b == [generation |-> slot.generation, active |-> TRUE]
<1>1. a \in Slot /\ b \in Slot /\ a.active = b.active /\ a.generation = b.generation
  BY DEF Slot
<1>2. \A s, t \in Slot : s.active = t.active /\ s.generation = t.generation => s = t
  BY DEF Slot
<1> HIDE DEF a, b
<1>3. a = b
  BY <1>1, <1>2
<1> QED BY <1>1, <1>3 DEF a, b

\* insert takes one slot, a free one or a new one, and leaves the others alone.
LEMMA InsertedSlot ==
    ASSUME TimerConstants, RegistryInv, Len(issued) < MaxTimers,
           slots' = Inserted.slots, free' = Inserted.free
    PROVE  \E index \in 1..MaxTimers, generation \in 1..(MaxTimers + 1) :
             /\ Inserted.id = <<generation, index>>
             /\ slots' \in Seq(Slot) /\ Len(slots') <= Len(issued) + 1
             /\ DOMAIN slots' = DOMAIN slots \cup {index}
             /\ slots'[index] = [generation |-> generation, active |-> TRUE]
             /\ \A i \in DOMAIN slots \ {index} : slots'[i] = slots[i]
             /\ index \in DOMAIN slots =>
                  ~slots[index].active /\ slots[index].generation = generation
             /\ index \notin DOMAIN slots => generation = 1
             /\ free' \in Seq(DOMAIN slots) /\ TokensIn(free') = TokensIn(free) \ {index}
             /\ \A i, j \in DOMAIN free' : free'[i] = free'[j] => i = j
<1>0. /\ slots \in Seq(Slot) /\ free \in Seq(DOMAIN slots) /\ Len(slots) \in Nat
      /\ DOMAIN slots = 1..Len(slots) /\ Len(slots) <= Len(issued) /\ Len(issued) \in Nat
      /\ Len(issued) <= MaxTimers /\ MaxTimers \in Nat
      /\ TokensIn(free) = {i \in DOMAIN slots : ~slots[i].active}
      /\ \A i, j \in DOMAIN free : free[i] = free[j] => i = j
  BY DEF RegistryInv, TokensAccounted, TimerConstants
<1>1. CASE free = <<>>
  <2> DEFINE index == Len(slots) + 1
             new == [generation |-> 1, active |-> TRUE]
  <2>1. Inserted = [id |-> <<1, index>>, free |-> free, slots |-> Append(slots, new)]
    BY <1>1 DEF Inserted
  <2>2. new \in Slot
    BY <1>0 DEF Slot
  <2>3. /\ slots' = Append(slots, new) /\ free' = free /\ Inserted.id = <<1, index>>
    BY <2>1
  <2>4. /\ slots' \in Seq(Slot) /\ Len(slots') = Len(slots) + 1
        /\ DOMAIN slots' = 1..(Len(slots) + 1)
        /\ slots'[Len(slots) + 1] = new /\ \A i \in DOMAIN slots : slots'[i] = slots[i]
    BY <1>0, <2>2, <2>3
  <2>5. index \in 1..MaxTimers /\ index \notin DOMAIN slots /\ 1 \in 1..(MaxTimers + 1)
        /\ DOMAIN slots' = DOMAIN slots \cup {index}
        /\ Len(slots') <= Len(issued) + 1
    BY <1>0, <2>4
  <2>6. TokensIn(free) = TokensIn(free) \ {index}
    BY <1>0, <2>5
  <2> QED BY <1>0, <2>3, <2>4, <2>5, <2>6
<1>2. CASE free # <<>>
  <2> DEFINE index == free[Len(free)]
             generation == slots[index].generation
  <2>1. Inserted = [id |-> <<generation, index>>, free |-> SubSeq(free, 1, Len(free) - 1),
                    slots |-> [slots EXCEPT ![index].active = TRUE]]
    BY <1>2 DEF Inserted
  <2>2. /\ slots' = [slots EXCEPT ![index].active = TRUE]
        /\ free' = SubSeq(free, 1, Len(free) - 1)
        /\ Inserted.id = <<generation, index>>
    BY <2>1
  <2>3. /\ Len(free) \in DOMAIN free /\ free' \in Seq(DOMAIN slots)
        /\ TokensIn(free') = TokensIn(free) \ {index}
        /\ \A i, j \in DOMAIN free' : free'[i] = free'[j] => i = j
    <3>1. /\ Len(free) \in DOMAIN free /\ SubSeq(free, 1, Len(free) - 1) \in Seq(DOMAIN slots)
          /\ TokensIn(SubSeq(free, 1, Len(free) - 1)) = TokensIn(free) \ {free[Len(free)]}
          /\ \A i, j \in DOMAIN SubSeq(free, 1, Len(free) - 1) :
               SubSeq(free, 1, Len(free) - 1)[i] = SubSeq(free, 1, Len(free) - 1)[j] => i = j
      BY <1>0, <1>2, FrontElements, Zenon
    <3> QED BY <2>2, <3>1, Zenon
  <2>4. index \in TokensIn(free)
    BY <2>3 DEF TokensIn
  <2>5. index \in DOMAIN slots /\ ~slots[index].active /\ slots[index] \in Slot
    BY <1>0, <2>4, ElementType
  <2> HIDE DEF index
  <2>6. generation \in 1..(MaxTimers + 1)
        /\ [slots[index] EXCEPT !.active = TRUE] = [generation |-> generation, active |-> TRUE]
        /\ [slots[index] EXCEPT !.active = TRUE] \in Slot
    BY <2>5, ActivatedSlot DEF Slot
  <2>7. /\ slots' \in Seq(Slot) /\ Len(slots') = Len(slots) /\ DOMAIN slots' = DOMAIN slots
        /\ slots'[index] = [generation |-> generation, active |-> TRUE]
        /\ \A i \in DOMAIN slots \ {index} : slots'[i] = slots[i]
    BY <1>0, <2>2, <2>5, <2>6
  <2>8. index \in 1..MaxTimers /\ DOMAIN slots' = DOMAIN slots \cup {index}
        /\ Len(slots') <= Len(issued) + 1
    BY <1>0, <2>5, <2>7
  <2> QED BY <2>2, <2>3, <2>5, <2>6, <2>7, <2>8
<1> QED BY <1>1, <1>2

\* What pruning leaves is between the live entries and all of them, and its first entry is
\* the first of the live ones.
LEMMA PrunedIsBetween ==
    ASSUME TimerConstants, RegistryInv
    PROVE  /\ Live \subseteq Pruned /\ Pruned \subseteq heap
           /\ Pruned = {} <=> Live = {}
           /\ Live # {} => TopOf(Pruned) = TopOf(Live)
<1>1. Live \subseteq Pruned /\ Pruned \subseteq heap /\ (Pruned = {} <=> Live = {})
  BY DEF Live, Pruned
<1>2. ASSUME Live # {} PROVE TopOf(Pruned) = TopOf(Live)
  <2>1. heap \subseteq Entry /\ WellOrdered(heap)
    BY DEF RegistryInv
  <2>2. TopOf(Live) \in Live /\ \A f \in Live : f = TopOf(Live) \/ Before(TopOf(Live), f)
    BY <1>1, <1>2, <2>1, TopIsFirst
  <2>3. TopOf(Pruned) \in Pruned
        /\ \A f \in Pruned : f = TopOf(Pruned) \/ Before(TopOf(Pruned), f)
    BY <1>1, <1>2, <2>1, TopIsFirst
  <2>4. TopOf(Live) \in Entry /\ TopOf(Pruned) \in Entry
    BY <1>1, <2>1, <2>2, <2>3
  <2>5. PICK f \in Live : TopOf(Pruned) = f \/ Before(f, TopOf(Pruned))
    BY <2>3 DEF Pruned, Live
  <2>6. f \in Pruned /\ f \in Entry
    BY <1>1, <2>1
  <2>7. TopOf(Pruned) = f
    BY <2>3, <2>4, <2>5, <2>6, OrderIsStrict
  <2>8. TopOf(Pruned) = TopOf(Live) \/ Before(TopOf(Live), TopOf(Pruned))
    BY <2>2, <2>7
  <2>9. TopOf(Pruned) = TopOf(Live) \/ Before(TopOf(Pruned), TopOf(Live))
    BY <1>1, <2>2, <2>3
  <2> QED BY <2>4, <2>8, <2>9, OrderIsStrict
<1> QED BY <1>1, <1>2

\* An entry that is live is the only one of its timer.
LEMMA LiveEntries ==
    ASSUME RegistryInv
    PROVE  /\ Live \subseteq Entry /\ Live \subseteq heap
           /\ \A e, f \in Live : e.id = f.id => e = f
           /\ \A id : Contains(id) /\ id \in Token => \E e \in Live : e.id = id
<1>1. ASSUME NEW id \in Token, Contains(id) PROVE \E e \in Live : e.id = id
  <2>1. id = <<slots[id[2]].generation, id[2]>>
    BY <1>1 DEF Token, Contains
  <2>2. PICK e \in heap : e.id = <<slots[id[2]].generation, id[2]>>
    BY <1>1 DEF Contains, RegistryInv, EntriesAccounted
  <2> QED BY <1>1, <2>1, <2>2 DEF Live
<1> QED BY <1>1 DEF Live, RegistryInv, EntriesAccounted

\* A new timer: its token was never handed out, and nothing else changes.
LEMMA InsertKeeps ==
    ASSUME TimerConstants, RegistryInv, Len(issued) < MaxTimers, NEW deadline \in 0..MaxNow,
           slots' = Inserted.slots, free' = Inserted.free,
           issued' = Append(issued, Inserted.id),
           heap' = Pruned \cup {[deadline |-> deadline, id |-> Inserted.id]}
    PROVE  /\ RegistryInv'
           /\ [deadline |-> deadline, id |-> Inserted.id] \in Entry
           /\ Inserted.id \in Token /\ Inserted.id \notin TokensIn(issued)
           /\ TokensIn(issued)' = TokensIn(issued) \cup {Inserted.id}
           /\ Live' = Live \cup {[deadline |-> deadline, id |-> Inserted.id]}
<1>0. PICK id : id = Inserted.id
  OBVIOUS
<1> DEFINE entry == [deadline |-> deadline, id |-> id]
<1>1. PICK index \in 1..MaxTimers, generation \in 1..(MaxTimers + 1) :
             /\ id = <<generation, index>>
             /\ slots' \in Seq(Slot) /\ Len(slots') <= Len(issued) + 1
             /\ DOMAIN slots' = DOMAIN slots \cup {index}
             /\ slots'[index] = [generation |-> generation, active |-> TRUE]
             /\ \A i \in DOMAIN slots \ {index} : slots'[i] = slots[i]
             /\ index \in DOMAIN slots =>
                  ~slots[index].active /\ slots[index].generation = generation
             /\ index \notin DOMAIN slots => generation = 1
             /\ free' \in Seq(DOMAIN slots) /\ TokensIn(free') = TokensIn(free) \ {index}
             /\ \A i, j \in DOMAIN free' : free'[i] = free'[j] => i = j
  BY <1>0, InsertedSlot
<1>2. id \in Token /\ id[1] = generation /\ id[2] = index
  BY <1>1 DEF Token
<1>3. /\ slots \in Seq(Slot) /\ issued \in Seq(Token) /\ heap \subseteq Entry
      /\ TokensIn(free) = {i \in DOMAIN slots : ~slots[i].active}
      /\ \A i, j \in DOMAIN issued : issued[i] = issued[j] => i = j
      /\ WellOrdered(heap) /\ Len(issued) \in Nat
  BY DEF RegistryInv
<1>4. id \notin TokensIn(issued)
  <2> SUFFICES ASSUME id \in TokensIn(issued) PROVE FALSE
    OBVIOUS
  <2>1. /\ index \in DOMAIN slots /\ generation <= slots[index].generation
        /\ ~slots[index].active => generation < slots[index].generation
    BY <1>2 DEF RegistryInv, TokensAccounted
  <2>2. generation < generation /\ generation \in Int
    BY <1>1, <2>1
  <2> QED BY <2>2
<1>5. entry \in Entry /\ entry.id = id
  BY <1>2 DEF Entry
<1> HIDE DEF entry
<1>6. /\ issued' \in Seq(Token) /\ Len(issued') = Len(issued) + 1
      /\ TokensIn(issued)' = TokensIn(issued) \cup {id}
      /\ \A i, j \in DOMAIN issued' : issued'[i] = issued'[j] => i = j
  <2>1. issued' = Append(issued, id)
    BY <1>0
  <2> QED BY <1>2, <1>3, <1>4, <2>1, AppendedElements
<1>7. Live \subseteq Pruned /\ Pruned \subseteq heap /\ heap' = Pruned \cup {entry}
  BY <1>0, PrunedIsBetween DEF entry
<1>8. \A t \in TokensIn(issued) : t \in Token /\ (t[2] = index => t[1] < generation)
  <2> TAKE t \in TokensIn(issued)
  <2>1. t \in Token
    BY <1>3, ElementType DEF TokensIn
  <2>2. /\ t[2] \in DOMAIN slots /\ t[1] <= slots[t[2]].generation
        /\ ~slots[t[2]].active => t[1] < slots[t[2]].generation
    BY DEF RegistryInv, TokensAccounted
  <2> QED BY <1>1, <2>1, <2>2
<1>9. \A e \in heap : e \in Entry /\ e.id \in TokensIn(issued) /\ e.id # id
  BY <1>3, <1>4 DEF RegistryInv, EntriesAccounted
<1>10. \A e \in heap : Contains(e.id)' <=> Contains(e.id)
  <2> TAKE e \in heap
  <2>1. e.id[2] = index => ~Contains(e.id) /\ e.id[1] < generation
    BY <1>1, <1>8, <1>9 DEF Contains
  <2>2. e.id[2] = index => ~Contains(e.id)'
    <3> SUFFICES ASSUME e.id[2] = index, Contains(e.id)' PROVE FALSE
      OBVIOUS
    <3>1. slots'[index].generation = e.id[1]
      BY DEF Contains
    <3>2. generation = e.id[1] /\ generation < generation /\ generation \in Int
      BY <1>1, <2>1, <3>1
    <3> QED BY <3>2
  <2>3. e.id[2] # index => (Contains(e.id)' <=> Contains(e.id))
    BY <1>1 DEF Contains
  <2> QED BY <2>1, <2>2, <2>3
<1>11. Contains(id)'
  BY <1>1, <1>2 DEF Contains
<1>12. Live' = Live \cup {entry}
  BY <1>5, <1>7, <1>10, <1>11 DEF Live
<1>13. TokensAccounted'
  <2>1. Len(slots)' <= Len(issued)' /\ Len(issued)' <= MaxTimers
    BY <1>1, <1>3, <1>6 DEF TimerConstants
  <2>2. ASSUME NEW i \in DOMAIN slots'
        PROVE  /\ slots'[i].active => /\ slots'[i].generation <= Len(issued)'
                                      /\ <<slots'[i].generation, i>> \in TokensIn(issued)'
               /\ ~slots'[i].active => slots'[i].generation <= Len(issued)' + 1
    <3>1. CASE i = index
      <4>1. generation <= Len(issued) + 1
        BY <1>1, <1>3 DEF RegistryInv, TokensAccounted
      <4> QED BY <1>1, <1>6, <3>1, <4>1
    <3>2. CASE i # index
      <4>1. i \in DOMAIN slots /\ slots'[i] = slots[i] /\ slots[i] \in Slot
        BY <1>1, <1>3, <3>2, ElementType
      <4>2. /\ slots[i].active => /\ slots[i].generation <= Len(issued)
                                  /\ <<slots[i].generation, i>> \in TokensIn(issued)
            /\ ~slots[i].active => slots[i].generation <= Len(issued) + 1
        BY <4>1 DEF RegistryInv, TokensAccounted
      <4>3. slots[i].generation \in Int
        BY <4>1 DEF Slot
      <4> QED BY <1>3, <1>6, <4>1, <4>2, <4>3
    <3> QED BY <3>1, <3>2
  <2>3. ASSUME NEW t \in TokensIn(issued)'
        PROVE  /\ t[2] \in DOMAIN slots' /\ t[1] <= slots'[t[2]].generation
               /\ ~slots'[t[2]].active => t[1] < slots'[t[2]].generation
    <3>1. CASE t = id
      BY <1>1, <1>2, <3>1
    <3>2. CASE t # id
      <4>1. t \in TokensIn(issued)
        BY <1>6, <3>2
      <4>2. /\ t[2] \in DOMAIN slots /\ t[1] <= slots[t[2]].generation
            /\ ~slots[t[2]].active => t[1] < slots[t[2]].generation
            /\ t[2] = index => t[1] < generation
            /\ t[1] \in Int
        BY <1>8, <4>1 DEF RegistryInv, TokensAccounted, Token
      <4>3. CASE t[2] = index
        BY <1>1, <4>2, <4>3
      <4>4. CASE t[2] # index
        BY <1>1, <4>2, <4>4
      <4> QED BY <4>3, <4>4
    <3> QED BY <3>1, <3>2
  <2> QED BY <2>1, <2>2, <2>3 DEF TokensAccounted
<1>14. EntriesAccounted'
  <2>1. \A e \in heap' : e.id \in TokensIn(issued)'
    BY <1>5, <1>6, <1>7, <1>9
  <2>2. \A e, f \in heap' : e.id = f.id => e = f
    BY <1>5, <1>7, <1>9 DEF RegistryInv, EntriesAccounted
  <2>3. ASSUME NEW i \in DOMAIN slots', slots'[i].active
        PROVE  \E e \in heap' : e.id = <<slots'[i].generation, i>>
    <3>1. CASE i = index
      BY <1>1, <1>5, <1>7, <3>1
    <3>2. CASE i # index
      <4>1. i \in DOMAIN slots /\ slots'[i] = slots[i] /\ slots[i].active
        BY <1>1, <2>3, <3>2
      <4>2. PICK e \in heap : e.id = <<slots[i].generation, i>>
        BY <4>1 DEF RegistryInv, EntriesAccounted
      <4>3. Contains(e.id)
        BY <4>1, <4>2 DEF Contains
      <4>4. e \in heap'
        BY <1>7, <4>3 DEF Live
      <4> QED BY <4>1, <4>2, <4>4
    <3> QED BY <3>1, <3>2
  <2> QED BY <2>1, <2>2, <2>3 DEF EntriesAccounted
<1>15. WellOrdered(heap')
  <2>1. WellOrdered(Pruned) /\ Pruned \subseteq Entry /\ \A e \in Pruned : e.id # entry.id
    BY <1>3, <1>5, <1>7, <1>9, OrderOfFewer
  <2> QED BY <1>5, <1>7, <2>1, OrderKept
<1>16. TokensIn(free)' = {i \in DOMAIN slots' : ~slots'[i].active}
  BY <1>1, <1>3
<1>17. free' \in Seq(DOMAIN slots')
  BY <1>1, WiderSeq
<1>18. heap' \subseteq Entry
  BY <1>3, <1>5, <1>7
<1>19. RegistryInv'
  BY <1>1, <1>6, <1>13, <1>14, <1>15, <1>16, <1>17, <1>18 DEF RegistryInv
<1> QED BY <1>0, <1>2, <1>4, <1>5, <1>6, <1>12, <1>19 DEF entry

\* Entries of cancelled timers may go at any time, and nothing changes.
LEMMA PruneKeeps ==
    ASSUME RegistryInv, heap' \subseteq heap, Live \subseteq heap',
           UNCHANGED <<registry, issued>>
    PROVE  RegistryInv' /\ Live' = Live
<1>0. slots' = slots /\ free' = free /\ issued' = issued
  BY DEF registry
<1>1. Live' = Live
  BY <1>0 DEF Live, Contains
<1>2. TokensAccounted' /\ TokensIn(free)' = TokensIn(free) /\ TokensIn(issued)' = TokensIn(issued)
  BY <1>0 DEF TokensAccounted, RegistryInv, TokensIn
<1>3. EntriesAccounted'
  <2>1. ASSUME NEW i \in DOMAIN slots, slots[i].active
        PROVE  \E e \in heap' : e.id = <<slots[i].generation, i>>
    <3>1. PICK e \in heap : e.id = <<slots[i].generation, i>>
      BY <2>1 DEF RegistryInv, EntriesAccounted
    <3> QED BY <2>1, <3>1 DEF Live, Contains
  <2>2. /\ \A e \in heap' : e.id \in TokensIn(issued)
        /\ \A e, f \in heap' : e.id = f.id => e = f
    BY DEF RegistryInv, EntriesAccounted
  <2> QED BY <1>0, <1>2, <2>1, <2>2 DEF EntriesAccounted
<1>4. WellOrdered(heap') /\ heap' \subseteq Entry
  BY OrderOfFewer DEF RegistryInv
<1> QED BY <1>0, <1>1, <1>2, <1>3, <1>4 DEF RegistryInv

\* A timer that is cancelled or expires: its token is never live again, whatever entry of
\* it is left.
LEMMA ReleaseKeeps ==
    ASSUME TimerConstants, RegistryInv, NEW id, Contains(id), Release(id),
           id \in TokensIn(issued), issued' = issued,
           heap' \subseteq heap, LiveAfter(heap, id) \subseteq heap'
    PROVE  RegistryInv' /\ Live' = LiveAfter(heap, id)
<1>0. /\ slots \in Seq(Slot) /\ free \in Seq(DOMAIN slots) /\ issued \in Seq(Token)
      /\ TokensIn(free) = {i \in DOMAIN slots : ~slots[i].active}
      /\ \A i, j \in DOMAIN free : free[i] = free[j] => i = j
      /\ \A i, j \in DOMAIN issued : issued[i] = issued[j] => i = j
      /\ heap \subseteq Entry /\ Len(issued) \in Nat /\ Len(issued) <= MaxTimers
  BY DEF RegistryInv, TokensAccounted
<1>1. PICK index, generation : index = id[2] /\ generation = id[1]
  OBVIOUS
<1>2. /\ index \in DOMAIN slots /\ slots[index].active /\ slots[index].generation = generation
      /\ slots[index] \in Slot /\ id = <<generation, index>>
  <2>1. id \in Token
    BY <1>0, ElementType DEF TokensIn
  <2> QED BY <1>0, <1>1, <2>1, ElementType DEF Contains, Token
<1>3. generation \in 1..MaxTimers /\ generation <= Len(issued)
  BY <1>0, <1>2 DEF RegistryInv, TokensAccounted, Slot, TimerConstants
<1>4. [generation |-> generation + 1, active |-> FALSE] \in Slot
  BY <1>3 DEF Slot, TimerConstants
<1>5. /\ slots' \in Seq(Slot) /\ Len(slots') = Len(slots) /\ DOMAIN slots' = DOMAIN slots
      /\ slots'[index] = [generation |-> generation + 1, active |-> FALSE]
      /\ \A i \in DOMAIN slots \ {index} : slots'[i] = slots[i]
  <2>1. slots' = [slots EXCEPT ![index] = [generation |-> generation + 1, active |-> FALSE]]
    BY <1>1, <1>2 DEF Release, NextGeneration
  <2> QED BY <1>0, <1>2, <1>4, <2>1
<1>6. index \notin TokensIn(free)
  BY <1>0, <1>2
<1>7. /\ free' \in Seq(DOMAIN slots) /\ TokensIn(free') = TokensIn(free) \cup {index}
      /\ \A i, j \in DOMAIN free' : free'[i] = free'[j] => i = j
  <2>1. free' = Append(free, index)
    BY <1>1 DEF Release
  <2>2. /\ Append(free, index) \in Seq(DOMAIN slots)
        /\ TokensIn(Append(free, index)) = TokensIn(free) \cup {index}
        /\ \A i, j \in DOMAIN Append(free, index) :
             Append(free, index)[i] = Append(free, index)[j] => i = j
    <3>1. /\ free \in Seq(DOMAIN slots) /\ index \in DOMAIN slots /\ index \notin TokensIn(free)
          /\ \A i, j \in DOMAIN free : free[i] = free[j] => i = j
      BY <1>0, <1>2, <1>6
    <3> QED BY ONLY <3>1, AppendedElements
  <2> QED BY <2>1, <2>2, Zenon
<1>8. \A e \in heap : e \in Entry /\ e.id \in TokensIn(issued) /\ e.id[1] \in Int
                      /\ (e.id = id <=> e.id[1] = generation /\ e.id[2] = index)
                      /\ e.id[1] <= slots[e.id[2]].generation
  <2> TAKE e \in heap
  <2>1. e \in Entry /\ e.id \in TokensIn(issued)
    BY <1>0 DEF RegistryInv, EntriesAccounted
  <2>2. e.id \in Token
    BY <2>1 DEF Entry
  <2>3. e.id[1] \in Int /\ (e.id = id <=> e.id[1] = generation /\ e.id[2] = index)
    BY <1>2, <2>2 DEF Token
  <2>4. e.id[1] <= slots[e.id[2]].generation
    BY <2>1 DEF RegistryInv, TokensAccounted
  <2> QED BY <2>1, <2>3, <2>4
<1>9. \A e \in heap : Contains(e.id)' <=> Contains(e.id) /\ e.id # id
  <2> TAKE e \in heap
  <2>1. CASE e.id[2] # index
    BY <1>5, <1>8, <2>1 DEF Contains
  <2>2. CASE e.id[2] = index
    <3>1. Contains(e.id) => e.id[1] = generation
      BY <1>2, <2>2 DEF Contains
    <3>2. ~Contains(e.id)'
      BY <1>5, <2>2 DEF Contains
    <3> QED BY <1>8, <2>2, <3>1, <3>2
  <2> QED BY <2>1, <2>2
<1>10. Live' = LiveAfter(heap, id)
  BY <1>9 DEF Live, LiveAfter
<1>11. TokensIn(issued)' = TokensIn(issued)
  BY DEF TokensIn
<1>12. TokensAccounted'
  <2>1. Len(slots)' <= Len(issued)' /\ Len(issued)' <= MaxTimers
    BY <1>0, <1>5 DEF RegistryInv, TokensAccounted
  <2>2. ASSUME NEW i \in DOMAIN slots'
        PROVE  /\ slots'[i].active => /\ slots'[i].generation <= Len(issued)'
                                      /\ <<slots'[i].generation, i>> \in TokensIn(issued)'
               /\ ~slots'[i].active => slots'[i].generation <= Len(issued)' + 1
    <3>1. CASE i = index
      BY <1>0, <1>3, <1>5, <3>1
    <3>2. CASE i # index
      BY <1>5, <1>11, <3>2 DEF RegistryInv, TokensAccounted
    <3> QED BY <3>1, <3>2
  <2>3. ASSUME NEW t \in TokensIn(issued)
        PROVE  /\ t[2] \in DOMAIN slots' /\ t[1] <= slots'[t[2]].generation
               /\ ~slots'[t[2]].active => t[1] < slots'[t[2]].generation
    <3>1. /\ t[2] \in DOMAIN slots /\ t[1] <= slots[t[2]].generation
          /\ ~slots[t[2]].active => t[1] < slots[t[2]].generation
      BY DEF RegistryInv, TokensAccounted
    <3>2. t[1] \in Int
      BY <1>0, ElementType DEF TokensIn, Token
    <3>3. CASE t[2] = index
      BY <1>2, <1>3, <1>5, <3>1, <3>2, <3>3
    <3>4. CASE t[2] # index
      BY <1>5, <3>1, <3>4
    <3> QED BY <3>3, <3>4
  <2> QED BY <1>11, <2>1, <2>2, <2>3 DEF TokensAccounted
<1>13. EntriesAccounted'
  <2>1. /\ \A e \in heap' : e.id \in TokensIn(issued)
        /\ \A e, f \in heap' : e.id = f.id => e = f
    BY DEF RegistryInv, EntriesAccounted
  <2>2. ASSUME NEW i \in DOMAIN slots', slots'[i].active
        PROVE  \E e \in heap' : e.id = <<slots'[i].generation, i>>
    <3>1. i # index /\ i \in DOMAIN slots /\ slots'[i] = slots[i]
      BY <1>5, <2>2
    <3>2. PICK e \in heap : e.id = <<slots[i].generation, i>>
      BY <2>2, <3>1 DEF RegistryInv, EntriesAccounted
    <3>3. Contains(e.id) /\ e.id # id
      BY <1>2, <2>2, <3>1, <3>2 DEF Contains
    <3> QED BY <3>1, <3>2, <3>3 DEF LiveAfter
  <2> QED BY <1>11, <2>1, <2>2 DEF EntriesAccounted
<1>14. WellOrdered(heap') /\ heap' \subseteq Entry
  BY <1>0, OrderOfFewer DEF RegistryInv
<1>15. TokensIn(free)' = {i \in DOMAIN slots' : ~slots'[i].active}
  BY <1>0, <1>2, <1>5, <1>7
<1> QED BY <1>0, <1>5, <1>7, <1>10, <1>12, <1>13, <1>14, <1>15 DEF RegistryInv

----------------------------------------------------------------------------
(* The timer scheduler: what each action does to the timers that are pending *)

LEMMA QuietEffect ==
    ASSUME TimerConstants, RegistryInv,
           \/ Start \/ Stop \/ OnReady \/ CallbackReturns \/ DispatchDone
           \/ TimerfdExpires \/ Elapse \/ UNCHANGED schedulerVars
    PROVE  RegistryInv' /\ Live' = Live
<1>1. heap' = heap \/ heap' = Pruned
  BY DEF Start, Stop, OnReady, CallbackReturns, DispatchDone, TimerfdExpires, Elapse, schedulerVars
<1>2. UNCHANGED <<registry, issued>>
  BY DEF Start, Stop, OnReady, CallbackReturns, DispatchDone, TimerfdExpires, Elapse,
         schedulerVars, registry
<1>3. Live \subseteq heap
  BY DEF Live
<1> QED BY <1>1, <1>2, <1>3, PrunedIsBetween, PruneKeeps

LEMMA CancelEffect ==
    ASSUME TimerConstants, RegistryInv, NEW id \in TokensIn(issued), Cancel(id)
    PROVE  RegistryInv' /\ Live' = IF Contains(id) THEN LiveAfter(heap, id) ELSE Live
<1>1. issued' = issued
  BY DEF Cancel
<1>2. heap' \subseteq heap /\ LiveAfter(heap, id) \subseteq heap'
  <2>1. LiveAfter(heap, id) \subseteq Live /\ LiveAfter(heap, id) \subseteq heap
    BY DEF LiveAfter, Live
  <2>2. CASE heap' = Pruned
    BY <2>1, <2>2, PrunedIsBetween
  <2>3. CASE heap' = {e \in heap : \E f \in LiveAfter(heap, id) : e = f \/ Before(f, e)}
    BY <2>1, <2>3
  <2> QED BY <2>2, <2>3 DEF Cancel
<1>3. CASE Contains(id)
  BY <1>1, <1>2, <1>3, ReleaseKeeps DEF Cancel
<1>4. CASE ~Contains(id)
  <2>1. heap' = Pruned /\ UNCHANGED registry
    BY <1>4 DEF Cancel
  <2> QED BY <1>1, <1>4, <2>1, PrunedIsBetween, PruneKeeps
<1> QED BY <1>3, <1>4

\* The timer that expires is the first of those pending, and due.
LEMMA ExpireEffect ==
    ASSUME TimerConstants, RegistryInv, Expire
    PROVE  \E top \in Live :
             /\ RegistryInv' /\ Live' = LiveAfter(heap, top.id)
             /\ fired' = fired \cup {top.id} /\ top.id \in TokensIn(issued)
             /\ top.deadline <= limit
             /\ \A e \in Live : top.deadline <= e.deadline
             /\ \A e \in Live : e = top \/ Before(top, e)
<1> DEFINE top == TopOf(Pruned)
<1>1. Pruned # {} /\ top.deadline <= limit
  BY DEF Expire, Due
<1>2. Live # {} /\ top = TopOf(Live)
  BY <1>1, PrunedIsBetween
<1>3. heap \subseteq Entry /\ Live \subseteq heap /\ WellOrdered(heap)
  BY DEF RegistryInv, Live
<1>4. top \in Live /\ \A e \in Live : e = top \/ Before(top, e)
  BY <1>2, <1>3, TopIsFirst
<1>5. \A e \in Live : top.deadline <= e.deadline
  <2>1. top.deadline \in Int /\ top \in Entry
    BY <1>3, <1>4 DEF Entry
  <2> QED BY <1>3, <1>4, <2>1, OrderIsStrict
<1>6. heap' = Pruned \ {top} /\ Release(top.id) /\ issued' = issued
      /\ fired' = fired \cup {top.id}
  BY DEF Expire
<1> HIDE DEF top
<1>7. heap' \subseteq heap /\ LiveAfter(heap, top.id) \subseteq heap'
  <2>1. LiveAfter(heap, top.id) \subseteq Live \ {top}
    BY DEF LiveAfter, Live
  <2> QED BY <1>6, <2>1, PrunedIsBetween
<1>8. top.id \in TokensIn(issued) /\ Contains(top.id)
  BY <1>3, <1>4 DEF RegistryInv, EntriesAccounted, Live
<1>9. RegistryInv' /\ Live' = LiveAfter(heap, top.id)
  BY <1>6, <1>7, <1>8, ReleaseKeeps
<1> QED BY <1>1, <1>4, <1>5, <1>6, <1>8, <1>9

----------------------------------------------------------------------------
(* The timer scheduler: the timerfd *)

\* While the reactor waits, expiration and first deadline, for any set of live entries.
TimerfdFollows(entries) ==
    IF entries = {} THEN armed = Never
    ELSE \/ edge /\ ticks
         \/ armed # Never /\ armed <= now
         \/ armed = TopOf(entries).deadline

\* update_timerfd leaves the timerfd set for the first of the entries.
LEMMA TimerfdIsSet ==
    ASSUME now \in 0..MaxNow, now' = now, NEW entries, UpdateTimerfd(entries, TRUE),
           entries # {} => TopOf(entries).deadline \in 0..MaxNow,
           Live' = {} <=> entries = {},
           entries # {} => TopOf(Live)'.deadline = TopOf(entries).deadline
    PROVE  /\ TimerfdFollows(Live)'
           /\ armed' \in {Never} \cup (0..MaxNow) /\ ticks' = FALSE /\ edge' = edge
<1>1. CASE entries = {}
  BY <1>1 DEF UpdateTimerfd, TimerfdFollows
<1>2. CASE entries # {}
  <2>1. now # Never
    BY DEF Never
  <2> QED BY <1>2, <2>1 DEF UpdateTimerfd, TimerfdFollows
<1> QED BY <1>1, <1>2

----------------------------------------------------------------------------
(* The timer scheduler: the invariant holds *)

LEMMA SchedulerInvInit ==
    ASSUME TimerConstants, SchedulerInit
    PROVE  SchedulerInv
<1> USE DEF SchedulerInit
<1>1. /\ slots \in Seq(Slot) /\ free \in Seq(DOMAIN slots) /\ issued \in Seq(Token)
      /\ DOMAIN slots = {} /\ DOMAIN free = {} /\ DOMAIN issued = {}
      /\ Len(slots) = 0 /\ Len(issued) = 0
  OBVIOUS
<1>2. TokensIn(free) = {} /\ TokensIn(issued) = {}
  BY <1>1 DEF TokensIn
<1>3. WellOrdered(heap) /\ EntriesAccounted /\ TokensAccounted
  BY <1>1, <1>2 DEF WellOrdered, EntriesAccounted, TokensAccounted, TimerConstants
<1>4. RegistryInv
  BY <1>1, <1>2, <1>3 DEF RegistryInv
<1>5. ClockTypeOK /\ DispatchRunning /\ ArmedForNext
  <2>1. 0 \in 0..MaxNow /\ 0 \in 0..0
    BY DEF TimerConstants
  <2>2. ClockTypeOK
    BY <1>2, <2>1 DEF ClockTypeOK
  <2> QED BY <2>2 DEF DispatchRunning, ArmedForNext
<1> QED BY <1>4, <1>5 DEF SchedulerInv

\* A live entry has a deadline, and the first of several is one of them.
LEMMA FirstDeadline ==
    ASSUME RegistryInv, NEW S \in SUBSET Live, S # {}
    PROVE  TopOf(S) \in S /\ TopOf(S).deadline \in 0..MaxNow
<1>1. Live \subseteq heap /\ heap \subseteq Entry /\ WellOrdered(heap)
  BY DEF RegistryInv, Live
<1>2. TopOf(S) \in S
  BY <1>1, TopIsFirst
<1> QED BY <1>1, <1>2 DEF Entry

LEMMA StartStep ==
    ASSUME TimerConstants, SchedulerInv, Start
    PROVE  SchedulerInv'
<1>1. RegistryInv' /\ Live' = Live
  BY QuietEffect DEF SchedulerInv
<1>2. now' = now /\ at' = at /\ limit' = limit /\ issued' = issued /\ fired' = fired
      /\ active' = TRUE /\ UpdateTimerfd(Live, TRUE)
  BY DEF Start, Live
<1>3. /\ TimerfdFollows(Live)'
      /\ armed' \in {Never} \cup (0..MaxNow) /\ ticks' = FALSE /\ edge' = edge
  <2>1. TopOf(Live)' = TopOf(Live)
    BY <1>1
  <2>2. Live # {} => TopOf(Live).deadline \in 0..MaxNow
    BY FirstDeadline DEF SchedulerInv
  <2> QED BY <1>1, <1>2, <2>1, <2>2, TimerfdIsSet DEF SchedulerInv, ClockTypeOK
<1> QED BY <1>1, <1>2, <1>3
        DEF SchedulerInv, ClockTypeOK, DispatchRunning, ArmedForNext, TimerfdFollows, TokensIn

LEMMA ScheduleStep ==
    ASSUME TimerConstants, SchedulerInv, NEW deadline \in now..MaxNow, ScheduleAt(deadline)
    PROVE  SchedulerInv'
<1> DEFINE entry == [deadline |-> deadline, id |-> Inserted.id]
<1>0. PICK new \in Entry : new = entry /\ new.deadline = deadline
  <2>1. deadline \in 0..MaxNow
    BY DEF SchedulerInv, ClockTypeOK, TimerConstants
  <2> QED BY <2>1, InsertKeeps DEF ScheduleAt, SchedulerInv
<1>1. RegistryInv' /\ Live' = Live \cup {new}
      /\ TokensIn(issued)' = TokensIn(issued) \cup {Inserted.id}
  <2>1. deadline \in 0..MaxNow
    BY DEF SchedulerInv, ClockTypeOK, TimerConstants
  <2> QED BY <1>0, <2>1, InsertKeeps DEF ScheduleAt, SchedulerInv
<1> HIDE DEF entry
<1>2. now' = now /\ at' = at /\ limit' = limit /\ fired' = fired /\ active' = active
  BY DEF ScheduleAt
<1>3. Live' # {} /\ TopOf(Live)' \in Live' /\ TopOf(Live)'.deadline \in 0..MaxNow
      /\ \A f \in Live' : f = TopOf(Live)' \/ Before(TopOf(Live)', f)
  <2>1. Live' \subseteq heap' /\ heap' \subseteq Entry /\ WellOrdered(heap') /\ Live' # {}
    BY <1>1 DEF RegistryInv, Live
  <2>2. TopOf(Live') \in Live' /\ \A f \in Live' : f = TopOf(Live') \/ Before(TopOf(Live'), f)
    BY <2>1, TopIsFirst
  <2> QED BY <2>1, <2>2 DEF Entry
<1>4. Live \subseteq Entry /\ Live' \subseteq Entry
      /\ \A e, f \in Entry : Before(e, f) => e.deadline <= f.deadline
  BY <1>0, <1>1, LiveEntries, OrderIsStrict DEF SchedulerInv
<1>5. deadline \in Int /\ \A e \in Entry : e.deadline \in Int
  BY DEF SchedulerInv, ClockTypeOK, Entry
<1>6. CASE Earlier(deadline)
  <2>1. TopOf(Live)'.deadline = deadline
    <3>1. \A e \in Live : deadline <= e.deadline
      <4> SUFFICES ASSUME NEW e \in Live PROVE deadline <= e.deadline
        OBVIOUS
      <4>1. Live # {} /\ TopOf(Pruned) = TopOf(Live) /\ deadline < TopOf(Live).deadline
        BY <1>6, PrunedIsBetween DEF Earlier, SchedulerInv
      <4>2. TopOf(Live) \in Live /\ (e = TopOf(Live) \/ Before(TopOf(Live), e))
        BY <4>1, TopIsFirst DEF SchedulerInv, RegistryInv, Live
      <4> QED BY <1>4, <1>5, <4>1, <4>2
    <3>2. TopOf(Live)'.deadline <= deadline
      <4>1. new \in Live' /\ TopOf(Live)' \in Entry
        BY <1>1, <1>3, <1>4
      <4>2. new = TopOf(Live)' \/ Before(TopOf(Live)', new)
        BY <1>3, <4>1
      <4> QED BY <1>0, <1>4, <1>5, <4>1, <4>2
    <3>3. deadline <= TopOf(Live)'.deadline
      BY <1>0, <1>1, <1>3, <1>5, <3>1
    <3> QED BY <1>3, <1>4, <1>5, <3>2, <3>3
  <2>2. UpdateTimerfd({new}, active)
    BY <1>0, <1>6 DEF ScheduleAt, entry
  <2>3. CASE active
    <3>1. TopOf({new}) = new
      BY DEF TopOf
    <3>2. /\ TimerfdFollows(Live)'
          /\ armed' \in {Never} \cup (0..MaxNow) /\ ticks' = FALSE /\ edge' = edge
      <4>1. UpdateTimerfd({new}, TRUE) /\ now \in 0..MaxNow
        BY <2>2, <2>3 DEF SchedulerInv, ClockTypeOK
      <4>2. TopOf({new}).deadline \in 0..MaxNow /\ TopOf(Live)'.deadline = TopOf({new}).deadline
        BY <1>0, <1>3, <2>1, <3>1
      <4> QED BY <1>2, <1>3, <4>1, <4>2, TimerfdIsSet
    <3> QED BY <1>1, <1>2, <3>2
            DEF SchedulerInv, ClockTypeOK, DispatchRunning, ArmedForNext, TimerfdFollows
  <2>4. CASE ~active
    <3>1. UNCHANGED timerfd
      BY <2>2, <2>4 DEF UpdateTimerfd
    <3> QED BY <1>1, <1>2, <2>4, <3>1
            DEF SchedulerInv, ClockTypeOK, DispatchRunning, ArmedForNext, timerfd
  <2> QED BY <2>3, <2>4 DEF SchedulerInv, ClockTypeOK
<1>7. CASE ~Earlier(deadline)
  <2>1. Live # {} /\ ~(deadline < TopOf(Live).deadline)
    BY <1>7, PrunedIsBetween DEF Earlier, SchedulerInv
  <2>2. TopOf(Live) \in Live /\ \A e \in Live : e = TopOf(Live) \/ Before(TopOf(Live), e)
    BY <2>1, TopIsFirst DEF SchedulerInv, RegistryInv, Live
  <2>3. TopOf(Live)'.deadline = TopOf(Live).deadline
    <3>1. TopOf(Live)'.deadline <= TopOf(Live).deadline
      <4>1. TopOf(Live) \in Live' /\ TopOf(Live) \in Entry /\ TopOf(Live)' \in Entry
        BY <1>1, <1>3, <1>4, <2>2
      <4>2. TopOf(Live) = TopOf(Live)' \/ Before(TopOf(Live)', TopOf(Live))
        BY <1>3, <4>1
      <4> QED BY <1>4, <1>5, <4>1, <4>2
    <3>2. TopOf(Live).deadline <= TopOf(Live)'.deadline
      <4>1. \A e \in Live : TopOf(Live).deadline <= e.deadline
        BY <1>4, <1>5, <2>2
      <4>2. TopOf(Live).deadline <= new.deadline
        BY <1>0, <1>4, <1>5, <2>1, <2>2
      <4> QED BY <1>1, <1>3, <4>1, <4>2
    <3> QED BY <1>3, <1>4, <1>5, <2>2, <3>1, <3>2
  <2>4. UNCHANGED timerfd
    BY <1>7 DEF ScheduleAt
  <2> QED BY <1>1, <1>2, <1>3, <2>1, <2>3, <2>4
          DEF SchedulerInv, ClockTypeOK, DispatchRunning, ArmedForNext, timerfd
<1> QED BY <1>6, <1>7

\* The first of the live entries stays the first when another timer is cancelled.
LEMMA FirstStays ==
    ASSUME TimerConstants, RegistryInv, NEW id, Live # {}, TopOf(Live).id # id
    PROVE  LiveAfter(heap, id) # {} /\ TopOf(LiveAfter(heap, id)) = TopOf(Live)
<1> DEFINE rest == LiveAfter(heap, id)
<1>1. heap \subseteq Entry /\ WellOrdered(heap) /\ Live \subseteq heap
      /\ rest \subseteq Live
  BY DEF RegistryInv, Live, LiveAfter
<1>2. TopOf(Live) \in Live /\ \A e \in Live : e = TopOf(Live) \/ Before(TopOf(Live), e)
  BY <1>1, TopIsFirst
<1>3. TopOf(Live) \in rest
  BY <1>2 DEF Live, LiveAfter
<1> HIDE DEF rest
<1>4. TopOf(rest) \in rest /\ \A e \in rest : e = TopOf(rest) \/ Before(TopOf(rest), e)
  BY <1>1, <1>3, TopIsFirst
<1>5. TopOf(rest) = TopOf(Live)
  <2>1. TopOf(rest) \in Entry /\ TopOf(Live) \in Entry
    BY <1>1, <1>2, <1>4
  <2> QED BY <1>1, <1>2, <1>3, <1>4, <2>1, OrderIsStrict
<1> QED BY <1>3, <1>5 DEF rest

LEMMA CancelStep ==
    ASSUME TimerConstants, SchedulerInv, NEW id \in TokensIn(issued), Cancel(id)
    PROVE  SchedulerInv'
<1>1. RegistryInv' /\ Live' = IF Contains(id) THEN LiveAfter(heap, id) ELSE Live
  BY CancelEffect DEF SchedulerInv
<1>2. /\ now' = now /\ at' = at /\ limit' = limit /\ issued' = issued /\ fired' = fired
      /\ active' = active
  BY DEF Cancel
<1>3. CASE Contains(id) /\ WasNext(id) /\ active
  <2>1. UpdateTimerfd(Live', TRUE)
    BY <1>1, <1>3 DEF Cancel
  <2>2. Live' \subseteq Live
    BY <1>1 DEF LiveAfter, Live
  <2>3. Live' # {} => TopOf(Live').deadline \in 0..MaxNow
    BY <2>2, FirstDeadline DEF SchedulerInv
  <2>4. PICK S : S = Live'
    OBVIOUS
  <2>5. /\ TimerfdFollows(Live)'
        /\ armed' \in {Never} \cup (0..MaxNow) /\ ticks' = FALSE /\ edge' = edge
    <3>1. UpdateTimerfd(S, TRUE) /\ (S # {} => TopOf(S).deadline \in 0..MaxNow)
          /\ (Live' = {} <=> S = {})
      BY <2>1, <2>3, <2>4
    <3>2. TopOf(Live)' = TopOf(S)
      BY <2>4
    <3> QED BY <1>2, <3>1, <3>2, TimerfdIsSet DEF SchedulerInv, ClockTypeOK
  <2> QED BY <1>1, <1>2, <2>5
          DEF SchedulerInv, ClockTypeOK, DispatchRunning, ArmedForNext, TimerfdFollows, TokensIn
<1>4. CASE ~(Contains(id) /\ WasNext(id) /\ active)
  <2>1. UNCHANGED timerfd
    BY <1>4 DEF Cancel, UpdateTimerfd
  <2>2. active => /\ Live' = {} <=> Live = {}
                  /\ Live # {} => TopOf(Live)' = TopOf(Live)
    <3>1. CASE ~Contains(id)
      BY <1>1, <3>1
    <3>2. CASE Contains(id) /\ active
      <4>1. Live # {}
        <5>1. id \in Token
          BY ElementType DEF SchedulerInv, RegistryInv, TokensIn
        <5> QED BY <3>2, <5>1, LiveEntries DEF SchedulerInv
      <4>2. TopOf(Live).id # id
        BY <1>4, <3>2, <4>1, PrunedIsBetween DEF WasNext, SchedulerInv
      <4>3. LiveAfter(heap, id) # {} /\ TopOf(LiveAfter(heap, id)) = TopOf(Live)
        BY <4>1, <4>2, FirstStays DEF SchedulerInv
      <4>4. Live' = LiveAfter(heap, id)
        BY <1>1, <3>2
      <4>5. TopOf(Live)' = TopOf(LiveAfter(heap, id))
        BY <4>4
      <4> QED BY <4>1, <4>3, <4>4, <4>5
    <3> QED BY <3>1, <3>2
  <2> QED BY <1>1, <1>2, <2>1, <2>2
          DEF SchedulerInv, ClockTypeOK, DispatchRunning, ArmedForNext, timerfd, TokensIn
<1> QED BY <1>3, <1>4

LEMMA ExpireStep ==
    ASSUME TimerConstants, SchedulerInv, Expire
    PROVE  SchedulerInv'
<1>1. PICK top \in Live :
             /\ RegistryInv' /\ Live' = LiveAfter(heap, top.id)
             /\ fired' = fired \cup {top.id} /\ top.id \in TokensIn(issued)
             /\ top.deadline <= limit
             /\ \A e \in Live : top.deadline <= e.deadline
  BY ExpireEffect DEF SchedulerInv
<1>2. /\ now' = now /\ at' = "callback" /\ limit' = limit /\ issued' = issued
      /\ active' = active /\ UNCHANGED timerfd
  BY DEF Expire
<1>3. ClockTypeOK'
  BY <1>1, <1>2 DEF SchedulerInv, ClockTypeOK, timerfd, TokensIn
<1>4. DispatchRunning' /\ ArmedForNext'
  BY <1>2 DEF DispatchRunning, ArmedForNext
<1> QED BY <1>1, <1>3, <1>4 DEF SchedulerInv

LEMMA DispatchDoneStep ==
    ASSUME TimerConstants, SchedulerInv, DispatchDone
    PROVE  SchedulerInv'
<1>1. RegistryInv' /\ Live' = Live
  BY QuietEffect DEF SchedulerInv
<1>2. /\ now' = now /\ at' = "idle" /\ limit' = limit /\ issued' = issued /\ fired' = fired
      /\ active' = active /\ active /\ UpdateTimerfd(Pruned, TRUE)
  BY DEF DispatchDone, SchedulerInv, DispatchRunning, ClockTypeOK
<1>3. /\ TimerfdFollows(Live)'
      /\ armed' \in {Never} \cup (0..MaxNow) /\ ticks' = FALSE /\ edge' = edge
  <2>1. TopOf(Live)' = TopOf(Live)
    BY <1>1
  <2>2. (Pruned = {} <=> Live = {}) /\ (Live # {} => TopOf(Pruned) = TopOf(Live))
    BY PrunedIsBetween DEF SchedulerInv
  <2>3. Live # {} => TopOf(Pruned).deadline \in 0..MaxNow
    BY <2>2, FirstDeadline DEF SchedulerInv
  <2> QED BY <1>1, <1>2, <2>1, <2>2, <2>3, TimerfdIsSet DEF SchedulerInv, ClockTypeOK
<1> QED BY <1>1, <1>2, <1>3
        DEF SchedulerInv, ClockTypeOK, DispatchRunning, ArmedForNext, TimerfdFollows, TokensIn

LEMMA SchedulerInvStep ==
    ASSUME TimerConstants, SchedulerInv, [SchedulerNext]_schedulerVars
    PROVE  SchedulerInv'
<1>1. CASE Stop \/ OnReady \/ CallbackReturns \/ TimerfdExpires \/ Elapse
           \/ UNCHANGED schedulerVars
  <2>1. RegistryInv' /\ Live' = Live
    BY <1>1, QuietEffect DEF SchedulerInv
  <2>2. issued' = issued /\ fired' = fired /\ TopOf(Live)' = TopOf(Live)
    BY <1>1, <2>1 DEF Stop, OnReady, CallbackReturns, TimerfdExpires, Elapse, schedulerVars
  <2>3. ClockTypeOK'
    <3>1. TokensIn(issued)' = TokensIn(issued)
      BY <2>2 DEF TokensIn
    <3>2. MaxNow \in Nat
      BY DEF TimerConstants
    <3>3. now \in 0..MaxNow /\ limit \in 0..now
      BY DEF SchedulerInv, ClockTypeOK
    <3>4. CASE Stop \/ CallbackReturns \/ TimerfdExpires \/ UNCHANGED schedulerVars
      BY <2>2, <3>1, <3>4
         DEF SchedulerInv, ClockTypeOK, Stop, CallbackReturns, AfterCallback, TimerfdExpires,
             schedulerVars, timerfd
    <3>5. CASE OnReady
      <4>1. now' = now /\ limit' = now /\ at' \in {"dispatch", "idle"} /\ edge' = FALSE
            /\ ticks' = FALSE /\ armed' = armed /\ active' = active
        BY <3>5 DEF OnReady
      <4>2. limit' \in 0..now'
        BY <3>3, <4>1
      <4> QED BY <2>2, <3>1, <3>3, <4>1, <4>2 DEF SchedulerInv, ClockTypeOK
    <3>6. CASE Elapse
      <4>1. now' \in 0..MaxNow /\ limit' \in 0..now'
        BY <3>2, <3>3, <3>6 DEF Elapse
      <4> QED BY <2>2, <3>1, <3>6, <4>1 DEF SchedulerInv, ClockTypeOK, Elapse, timerfd
    <3> QED BY <1>1, <3>4, <3>5, <3>6
  <2>4. DispatchRunning'
    BY <1>1 DEF SchedulerInv, ClockTypeOK, DispatchRunning, Stop, MayCall, OnReady,
                CallbackReturns, AfterCallback, TimerfdExpires, Elapse, schedulerVars
  <2>5. ArmedForNext'
    <3>1. CASE Stop
      BY <3>1 DEF ArmedForNext, Stop
    <3>2. CASE OnReady
      BY <2>1, <2>2, <3>2 DEF SchedulerInv, ClockTypeOK, ArmedForNext, OnReady
    <3>3. CASE CallbackReturns
      BY <3>3 DEF ArmedForNext, CallbackReturns, AfterCallback
    <3>4. CASE TimerfdExpires
      BY <2>1, <2>2, <3>4 DEF SchedulerInv, ArmedForNext, TimerfdExpires
    <3>5. CASE Elapse
      <4>1. armed \in Int /\ now \in Int /\ now' = now + 1 /\ armed' = armed
            /\ UNCHANGED <<active, ticks, edge, at>>
        BY <3>5 DEF SchedulerInv, ClockTypeOK, Never, Elapse, timerfd
      <4>2. armed <= now => armed' <= now'
        BY <4>1
      <4> QED BY <2>1, <2>2, <4>1, <4>2 DEF SchedulerInv, ArmedForNext
    <3>6. CASE UNCHANGED schedulerVars
      BY <2>1, <2>2, <3>6 DEF SchedulerInv, ArmedForNext, schedulerVars
    <3> QED BY <1>1, <3>1, <3>2, <3>3, <3>4, <3>5, <3>6
  <2> QED BY <2>1, <2>3, <2>4, <2>5 DEF SchedulerInv
<1>2. ASSUME NEW deadline \in now..MaxNow, ScheduleAt(deadline) PROVE SchedulerInv'
  BY <1>2, ScheduleStep
<1>3. ASSUME NEW id \in TokensIn(issued), Cancel(id) PROVE SchedulerInv'
  BY <1>3, CancelStep
<1> QED BY <1>1, <1>2, <1>3, StartStep, ExpireStep, DispatchDoneStep DEF SchedulerNext

\* The scheduler is consistent: every pending timer has exactly one entry, a token is that
\* of one timer for ever, and while the reactor waits the timerfd is set for the first
\* pending timer: none is overslept.
THEOREM SchedulerIsConsistent == SchedulerSpec => []SchedulerConsistent
<1>1. SchedulerInv => SchedulerConsistent
  <2> SUFFICES ASSUME SchedulerInv PROVE SchedulerConsistent
    OBVIOUS
  <2>1. SchedulerTypeOK
    BY DEF SchedulerInv, ClockTypeOK, RegistryInv, SchedulerTypeOK, Slot, Entry
  <2> QED BY <2>1, RegistryIsExact DEF SchedulerInv, SchedulerConsistent
<1>2. SchedulerInit => SchedulerInv
  BY SchedulerInvInit, BoundsAreNumbers
<1>3. SchedulerInv /\ [SchedulerNext]_schedulerVars => SchedulerInv'
  BY SchedulerInvStep, BoundsAreNumbers
<1> QED BY <1>1, <1>2, <1>3, PTL DEF SchedulerSpec

----------------------------------------------------------------------------
(* The timer scheduler implements Timers *)

OneEach(entries) == \A e, f \in entries : e.id = f.id => e = f

LEMMA PendingOfEntries ==
    ASSUME NEW entries, OneEach(entries)
    PROVE  /\ DOMAIN PendingOf(entries) = {e.id : e \in entries}
           /\ \A e \in entries : PendingOf(entries)[e.id] = e.deadline
<1>1. \A e \in entries : (CHOOSE f \in entries : f.id = e.id) = e
  BY DEF OneEach
<1> QED BY <1>1 DEF PendingOf

LEMMA PendingOfMore ==
    ASSUME NEW entries, NEW x, OneEach(entries), \A e \in entries : e.id # x.id
    PROVE  PendingOf(entries \cup {x})
             = [y \in DOMAIN PendingOf(entries) \cup {x.id} |->
                  IF y = x.id THEN x.deadline ELSE PendingOf(entries)[y]]
<1> DEFINE more == entries \cup {x}
           right == [y \in DOMAIN PendingOf(entries) \cup {x.id} |->
                       IF y = x.id THEN x.deadline ELSE PendingOf(entries)[y]]
<1>1. OneEach(more)
  BY DEF OneEach
<1>2. DOMAIN PendingOf(more) = {e.id : e \in entries} \cup {x.id}
      /\ \A e \in more : PendingOf(more)[e.id] = e.deadline
  <2>1. {e.id : e \in more} = {e.id : e \in entries} \cup {x.id}
    OBVIOUS
  <2> HIDE DEF more
  <2>2. DOMAIN PendingOf(more) = {e.id : e \in more}
        /\ \A e \in more : PendingOf(more)[e.id] = e.deadline
    BY <1>1, PendingOfEntries
  <2> QED BY <2>1, <2>2
<1>3. DOMAIN PendingOf(entries) = {e.id : e \in entries}
      /\ \A e \in entries : PendingOf(entries)[e.id] = e.deadline
  BY PendingOfEntries
<1>4. DOMAIN right = DOMAIN PendingOf(more)
  BY <1>2, <1>3
<1>5. \A y \in DOMAIN right : right[y] = PendingOf(more)[y]
  BY <1>2, <1>3
<1>6. PendingOf(more) = [y \in DOMAIN PendingOf(more) |-> PendingOf(more)[y]]
  BY DEF PendingOf
<1>7. right = [y \in DOMAIN right |-> right[y]]
  OBVIOUS
<1> HIDE DEF right, more
<1>8. PendingOf(more) = right
  BY <1>4, <1>5, <1>6, <1>7
<1> QED BY <1>8 DEF right, more

LEMMA PendingOfFewer ==
    ASSUME NEW entries, NEW id, OneEach(entries)
    PROVE  PendingOf({e \in entries : e.id # id})
             = [y \in DOMAIN PendingOf(entries) \ {id} |-> PendingOf(entries)[y]]
<1> DEFINE fewer == {e \in entries : e.id # id}
           right == [y \in DOMAIN PendingOf(entries) \ {id} |-> PendingOf(entries)[y]]
<1>1. OneEach(fewer)
  BY DEF OneEach
<1>2. DOMAIN PendingOf(fewer) = {e.id : e \in entries} \ {id}
      /\ \A e \in fewer : PendingOf(fewer)[e.id] = e.deadline
  <2>1. {e.id : e \in fewer} = {e.id : e \in entries} \ {id}
    OBVIOUS
  <2> HIDE DEF fewer
  <2>2. DOMAIN PendingOf(fewer) = {e.id : e \in fewer}
        /\ \A e \in fewer : PendingOf(fewer)[e.id] = e.deadline
    BY <1>1, PendingOfEntries
  <2> QED BY <2>1, <2>2
<1>3. DOMAIN PendingOf(entries) = {e.id : e \in entries}
      /\ \A e \in entries : PendingOf(entries)[e.id] = e.deadline
  BY PendingOfEntries
<1>4. DOMAIN right = DOMAIN PendingOf(fewer)
  BY <1>2, <1>3
<1>5. \A y \in DOMAIN right : right[y] = PendingOf(fewer)[y]
  BY <1>2, <1>3
<1>6. PendingOf(fewer) = [y \in DOMAIN PendingOf(fewer) |-> PendingOf(fewer)[y]]
  BY DEF PendingOf
<1>7. right = [y \in DOMAIN right |-> right[y]]
  OBVIOUS
<1> HIDE DEF right, fewer
<1>8. PendingOf(fewer) = right
  BY <1>4, <1>5, <1>6, <1>7
<1> QED BY <1>8 DEF right, fewer

\* A timer leaves the pending ones when its entry is the one that is no longer live.
LEMMA PendingLosesOne ==
    ASSUME RegistryInv, NEW id, Live' = LiveAfter(heap, id)
    PROVE  PendingOf(Live)' = [y \in DOMAIN PendingOf(Live) \ {id} |-> PendingOf(Live)[y]]
<1>1. OneEach(Live)
  BY LiveEntries DEF OneEach
<1>2. LiveAfter(heap, id) = {e \in Live : e.id # id}
  BY DEF LiveAfter, Live
<1>3. PendingOf(Live)' = PendingOf({e \in Live : e.id # id})
  BY <1>2
<1> QED BY <1>1, <1>3, PendingOfFewer

LEMMA ScheduleRefines ==
    ASSUME TimerConstants, SchedulerInv, NEW deadline \in now..MaxNow, ScheduleAt(deadline)
    PROVE  AbstractTimers!TimersNext
<1> DEFINE entry == [deadline |-> deadline, id |-> Inserted.id]
<1>1. deadline \in 0..MaxNow
  BY DEF SchedulerInv, ClockTypeOK, TimerConstants
<1>2. /\ entry \in Entry /\ Inserted.id \in Token /\ Inserted.id \notin TokensIn(issued)
      /\ TokensIn(issued)' = TokensIn(issued) \cup {Inserted.id}
      /\ Live' = Live \cup {entry}
  BY <1>1, InsertKeeps DEF ScheduleAt, SchedulerInv
<1>3. PICK x : x = entry
  OBVIOUS
<1>4. x.id = Inserted.id /\ x.deadline = deadline
  BY <1>3
<1> HIDE DEF entry
<1>5. OneEach(Live) /\ \A e \in Live : e.id # x.id
  BY <1>2, <1>4, LiveEntries DEF OneEach, SchedulerInv, RegistryInv, EntriesAccounted
<1>6. PendingOf(Live)' = [y \in DOMAIN PendingOf(Live) \cup {x.id} |->
                            IF y = x.id THEN x.deadline ELSE PendingOf(Live)[y]]
  <2>1. PendingOf(Live)' = PendingOf(Live \cup {x})
    BY <1>2, <1>3
  <2>2. PendingOf(Live \cup {x}) = [y \in DOMAIN PendingOf(Live) \cup {x.id} |->
                                     IF y = x.id THEN x.deadline ELSE PendingOf(Live)[y]]
    <3>1. \A entries : OneEach(entries) /\ (\A e \in entries : e.id # x.id)
             => PendingOf(entries \cup {x}) = [y \in DOMAIN PendingOf(entries) \cup {x.id} |->
                                     IF y = x.id THEN x.deadline ELSE PendingOf(entries)[y]]
      BY PendingOfMore
    <3> QED BY <1>5, <3>1
  <2> QED BY <2>1, <2>2, Zenon
<1>7. now' = now /\ active' = active /\ fired' = fired
  BY DEF ScheduleAt
<1>8. AbstractTimers!Schedule(x.id, x.deadline)
  BY <1>2, <1>4, <1>6, <1>7 DEF AbstractTimers!Schedule
<1> QED BY <1>1, <1>2, <1>4, <1>8 DEF AbstractTimers!TimersNext

LEMMA CancelRefines ==
    ASSUME TimerConstants, SchedulerInv, NEW id \in TokensIn(issued), Cancel(id)
    PROVE  [AbstractTimers!TimersNext]_(AbstractTimers!timersVars)
<1>1. Live' = IF Contains(id) THEN LiveAfter(heap, id) ELSE Live
  BY CancelEffect DEF SchedulerInv
<1>2. now' = now /\ active' = active /\ fired' = fired /\ TokensIn(issued)' = TokensIn(issued)
  BY DEF Cancel, TokensIn
<1>3. CASE Contains(id)
  <2>1. id \in Token
    BY ElementType DEF SchedulerInv, RegistryInv, TokensIn
  <2>2. id \in DOMAIN PendingOf(Live)
    <3>1. OneEach(Live) /\ \E e \in Live : e.id = id
      BY <1>3, <2>1, LiveEntries DEF OneEach, SchedulerInv
    <3>2. DOMAIN PendingOf(Live) = {e.id : e \in Live}
      BY <3>1, PendingOfEntries
    <3> QED BY <3>1, <3>2
  <2>3. PendingOf(Live)' = [y \in DOMAIN PendingOf(Live) \ {id} |-> PendingOf(Live)[y]]
    BY <1>1, <1>3, PendingLosesOne DEF SchedulerInv
  <2>4. AbstractTimers!Cancel(id)
    BY <1>2, <2>2, <2>3 DEF AbstractTimers!Cancel
  <2> QED BY <2>1, <2>4 DEF AbstractTimers!TimersNext
<1>4. CASE ~Contains(id)
  BY <1>1, <1>2, <1>4 DEF AbstractTimers!timersVars
<1> QED BY <1>3, <1>4

LEMMA ExpireRefines ==
    ASSUME TimerConstants, SchedulerInv, Expire
    PROVE  AbstractTimers!TimersNext
<1>1. PICK top \in Live :
             /\ RegistryInv' /\ Live' = LiveAfter(heap, top.id)
             /\ fired' = fired \cup {top.id} /\ top.id \in TokensIn(issued)
             /\ top.deadline <= limit
             /\ \A e \in Live : top.deadline <= e.deadline
             /\ \A e \in Live : e = top \/ Before(top, e)
  BY ExpireEffect DEF SchedulerInv
<1>2. PICK id : id = top.id
  OBVIOUS
<1>3. now' = now /\ active' = active /\ active /\ TokensIn(issued)' = TokensIn(issued)
  BY DEF Expire, SchedulerInv, DispatchRunning, TokensIn
<1>4. OneEach(Live)
  BY LiveEntries DEF OneEach, SchedulerInv
<1>5. id \in DOMAIN PendingOf(Live) /\ PendingOf(Live)[id] = top.deadline
      /\ \A y \in DOMAIN PendingOf(Live) : PendingOf(Live)[id] <= PendingOf(Live)[y]
      /\ \A z \in DOMAIN PendingOf(Live) \ {id} :
            PendingOf(Live)[z] = PendingOf(Live)[id] => AbstractTimers!Smaller(id, z)
  <2>1. DOMAIN PendingOf(Live) = {e.id : e \in Live}
        /\ \A e \in Live : PendingOf(Live)[e.id] = e.deadline
    BY <1>4, PendingOfEntries
  <2>2. top.deadline \in Int
    BY <1>1, LiveEntries DEF SchedulerInv, Entry
  <2>3. ASSUME NEW e \in Live, e.id # id, e.deadline = top.deadline
        PROVE  AbstractTimers!Smaller(id, e.id)
    <3>1. Before(top, e)
      BY <1>1, <1>2, <2>3
    <3>2. ~(top.deadline < e.deadline)
      BY <2>2, <2>3
    <3>3. top.id[1] < e.id[1] \/ (top.id[1] = e.id[1] /\ top.id[2] < e.id[2])
      BY <3>1, <3>2 DEF Before
    <3> QED BY <1>2, <3>3 DEF AbstractTimers!Smaller
  <2> QED BY <1>1, <1>2, <2>1, <2>3
<1>6. PendingOf(Live)[id] <= now
  <2>1. top.deadline \in Int
    BY <1>1, LiveEntries DEF SchedulerInv, Entry
  <2>2. limit \in Int /\ now \in Int /\ limit <= now
    BY DEF SchedulerInv, ClockTypeOK
  <2> QED BY <1>1, <1>5, <2>1, <2>2
<1>7. PendingOf(Live)' = [y \in DOMAIN PendingOf(Live) \ {id} |-> PendingOf(Live)[y]]
  BY <1>1, <1>2, PendingLosesOne DEF SchedulerInv
<1>8. AbstractTimers!Expire(id)
  BY <1>1, <1>2, <1>3, <1>5, <1>6, <1>7 DEF AbstractTimers!Expire
<1>9. id \in Token
  BY <1>1, <1>2, ElementType DEF SchedulerInv, RegistryInv, TokensIn
<1> QED BY <1>8, <1>9 DEF AbstractTimers!TimersNext

\* The scheduler implements Timers: a timer expires once, in the order of the deadlines and
\* not before its own, and never after it was cancelled or while the scheduler is stopped.
THEOREM TimersImplemented == SchedulerSpec => ImplementsTimers
<1>1. SchedulerInit => AbstractTimers!TimersInit
  <2> SUFFICES ASSUME SchedulerInit PROVE AbstractTimers!TimersInit
    OBVIOUS
  <2>1. Live = {} /\ TokensIn(issued) = {}
    BY DEF SchedulerInit, Live, TokensIn
  <2>2. PendingOf({}) = <<>>
    BY DEF PendingOf
  <2> QED BY <2>1, <2>2 DEF SchedulerInit, AbstractTimers!TimersInit
<1>2. SchedulerInv /\ [SchedulerNext]_schedulerVars
        => [AbstractTimers!TimersNext]_(AbstractTimers!timersVars)
  <2> SUFFICES ASSUME SchedulerInv, [SchedulerNext]_schedulerVars
               PROVE  [AbstractTimers!TimersNext]_(AbstractTimers!timersVars)
    OBVIOUS
  <2>0. TimerConstants
    BY BoundsAreNumbers
  <2>1. CASE \/ Start \/ Stop \/ OnReady \/ CallbackReturns \/ DispatchDone
             \/ TimerfdExpires \/ Elapse \/ UNCHANGED schedulerVars
    <3>1. Live' = Live
      BY <2>0, <2>1, QuietEffect DEF SchedulerInv
    <3>2. PendingOf(Live)' = PendingOf(Live)
      BY <3>1
    <3>3. TokensIn(issued)' = TokensIn(issued) /\ fired' = fired
      BY <2>1 DEF Start, Stop, OnReady, CallbackReturns, DispatchDone, TimerfdExpires, Elapse,
                  schedulerVars, TokensIn
    <3>4. CASE Start \/ Stop
      <4>1. now' = now /\ active' = ~active
        BY <3>4 DEF Start, Stop, SchedulerInv, ClockTypeOK
      <4>2. AbstractTimers!StartOrStop
        BY <3>2, <3>3, <4>1 DEF AbstractTimers!StartOrStop
      <4> QED BY <4>2 DEF AbstractTimers!TimersNext
    <3>5. CASE Elapse
      <4>1. AbstractTimers!Tick
        BY <3>2, <3>3, <3>5 DEF Elapse, AbstractTimers!Tick
      <4> QED BY <4>1 DEF AbstractTimers!TimersNext
    <3>6. CASE \/ OnReady \/ CallbackReturns \/ DispatchDone \/ TimerfdExpires
               \/ UNCHANGED schedulerVars
      <4>1. now' = now /\ active' = active
        BY <3>6 DEF OnReady, CallbackReturns, DispatchDone, TimerfdExpires, schedulerVars
      <4> QED BY <3>2, <3>3, <4>1 DEF AbstractTimers!timersVars
    <3> QED BY <2>1, <3>4, <3>5, <3>6
  <2>2. ASSUME NEW deadline \in now..MaxNow, ScheduleAt(deadline)
        PROVE  AbstractTimers!TimersNext
    BY <2>0, <2>2, ScheduleRefines
  <2>3. ASSUME NEW id \in TokensIn(issued), Cancel(id)
        PROVE  [AbstractTimers!TimersNext]_(AbstractTimers!timersVars)
    BY <2>0, <2>3, CancelRefines
  <2>4. CASE Expire
    BY <2>0, <2>4, ExpireRefines
  <2> QED BY <2>1, <2>2, <2>3, <2>4 DEF SchedulerNext
<1>3. SchedulerInit => SchedulerInv
  BY SchedulerInvInit, BoundsAreNumbers
<1>4. SchedulerInv /\ [SchedulerNext]_schedulerVars => SchedulerInv'
  BY SchedulerInvStep, BoundsAreNumbers
<1> QED BY <1>1, <1>2, <1>3, <1>4, PTL
        DEF SchedulerSpec, ImplementsTimers, AbstractTimers!TimersSpec

----------------------------------------------------------------------------
(* The inductive invariant of a session *)

OutMessage ==
    [type : {"register_request", "register_ack", "heartbeat", "status_report"}]
      \cup [type : {"command_ack"}, id : CommandId]
      \cup [type : {"command_outcome"}, id : CommandId, success : BOOLEAN]

InMessage ==
    [type : {"register_success", "register_failed", "closed"}]
      \cup [type : {"command_request"}, id : CommandId]

QueuesInv == tx \in Seq(OutMessage) /\ inbox \in Seq(InMessage)

\* What an agent sends once it is registered.
IsReport(message) == message.type \notin {"register_request", "register_ack"}

IsOutcome(message) == message.type \in {"register_success", "register_failed"}
IsRequest(message) == message.type = "command_request"

\* Without a connection there is no session, and no command is remembered.
RestInv == conn # "connected" => state = "idle" /\ last_command = NoCommand

\* How far each side is in the handshake, and what is under way between them.
HandshakeInv ==
    /\ peer = "handshaking" =>
         state = "registering" /\ tx = <<Message("register_request")>> /\ inbox = <<>>
    /\ peer = "confirming" =>
         \/ state = "registering" /\ tx = <<>> /\ inbox = <<Message("register_success")>>
         \/ /\ state = "active" /\ inbox = <<>>
            /\ tx # <<>> /\ tx[1] = Message("register_ack")
            /\ \A i \in 2..Len(tx) : IsReport(tx[i])
    /\ peer = "active" => state = "active" /\ \A i \in 1..Len(tx) : IsReport(tx[i])

\* What waits for the agent fits its state, also when the controller has closed the
\* connection since: the outcome of a registration comes first, commands come in the
\* order of their ids, and none is older than the one remembered.
InboxInv ==
    /\ \A i \in 1..Len(inbox) :
         /\ IsOutcome(inbox[i]) => i = 1 /\ state = "registering"
         /\ IsRequest(inbox[i]) => state = "active" /\ last_command.id <= inbox[i].id
    /\ \A i, j \in 1..Len(inbox) :
         i < j /\ IsRequest(inbox[i]) /\ IsRequest(inbox[j]) => inbox[i].id <= inbox[j].id

\* As long as the controller has a session, every id under way or remembered is one that
\* its present incarnation issued.
IssuedInv ==
    peer # "none" =>
    /\ last_command.id <= issued_ids
    /\ \A i \in 1..Len(inbox) : IsRequest(inbox[i]) => inbox[i].id <= issued_ids

\* ... and a success remembered or reported is one of its commands.
AppliedInv ==
    peer # "none" =>
    /\ last_command.id # 0 /\ last_command.success => <<epoch, last_command.id>> \in applied
    /\ \A i \in 1..Len(tx) :
         tx[i].type = "command_outcome" /\ tx[i].success => <<epoch, tx[i].id>> \in applied

AgreementInv == RestInv /\ HandshakeInv /\ InboxInv /\ IssuedInv /\ AppliedInv

SessionInv == AgentConsistent /\ QueuesInv /\ (intact => AgreementInv)

----------------------------------------------------------------------------
(* Queues of messages *)

\* Taking the first message.
LEMMA QueueTail ==
    ASSUME NEW S, NEW queue \in Seq(S), queue # <<>>
    PROVE  /\ Head(queue) \in S /\ Head(queue) = queue[1]
           /\ Tail(queue) \in Seq(S)
           /\ Len(queue) \in Nat \ {0} /\ Len(Tail(queue)) = Len(queue) - 1
           /\ \A i \in 1..Len(Tail(queue)) : i + 1 \in 2..Len(queue) /\ Tail(queue)[i] = queue[i + 1]
BY HeadTailProperties

\* Adding messages at the end.
LEMMA QueueAppend ==
    ASSUME NEW S, NEW queue \in Seq(S), NEW message \in S
    PROVE  /\ Append(queue, message) \in Seq(S)
           /\ Len(queue) \in Nat /\ Len(Append(queue, message)) = Len(queue) + 1
           /\ \A i \in 1..Len(queue) : Append(queue, message)[i] = queue[i]
           /\ Append(queue, message)[Len(queue) + 1] = message
BY AppendProperties

LEMMA QueueConcat ==
    ASSUME NEW S, NEW queue \in Seq(S), NEW messages \in Seq(S)
    PROVE  /\ queue \o messages \in Seq(S)
           /\ Len(queue) \in Nat /\ Len(messages) \in Nat
           /\ Len(queue \o messages) = Len(queue) + Len(messages)
           /\ \A i \in 1..Len(queue) : (queue \o messages)[i] = queue[i]
           /\ \A i \in 1..Len(messages) : (queue \o messages)[Len(queue) + i] = messages[i]
           /\ \A i \in 1..Len(queue \o messages) :
                i \in 1..Len(queue) \/ \E j \in 1..Len(messages) : i = Len(queue) + j
<1>1. /\ queue \o messages \in Seq(S)
      /\ Len(queue \o messages) = Len(queue) + Len(messages)
      /\ \A i \in 1..Len(queue) + Len(messages) :
           (queue \o messages)[i] = IF i <= Len(queue) THEN queue[i] ELSE messages[i - Len(queue)]
  BY ConcatProperties
<1>2. Len(queue) \in Nat /\ Len(messages) \in Nat
  OBVIOUS
<1>3. ASSUME NEW i \in 1..Len(messages)
      PROVE  (queue \o messages)[Len(queue) + i] = messages[i]
  <2>1. Len(queue) + i \in 1..Len(queue) + Len(messages) /\ ~(Len(queue) + i <= Len(queue))
    BY <1>2
  <2>2. (Len(queue) + i) - Len(queue) = i
    BY <1>2
  <2> QED BY <1>1, <2>1, <2>2
<1>4. ASSUME NEW i \in 1..Len(queue \o messages), i \notin 1..Len(queue)
      PROVE  \E j \in 1..Len(messages) : i = Len(queue) + j
  <2>1. i - Len(queue) \in 1..Len(messages) /\ i = Len(queue) + (i - Len(queue))
    BY <1>1, <1>2, <1>4
  <2> QED BY <2>1
<1>5. \A i \in 1..Len(queue) : (queue \o messages)[i] = queue[i]
  BY <1>1, <1>2
<1> QED BY <1>1, <1>2, <1>3, <1>4, <1>5

\* The messages there are.
LEMMA MessagesTyped ==
    /\ \A type \in {"register_request", "register_ack", "heartbeat", "status_report"} :
         Message(type) \in OutMessage
    /\ \A type \in {"register_success", "register_failed", "closed"} : Message(type) \in InMessage
    /\ \A id \in CommandId : CommandRequest(id) \in InMessage /\ CommandAck(id) \in OutMessage
    /\ \A id \in CommandId, success \in BOOLEAN : CommandOutcome(id, success) \in OutMessage
BY DEF Message, CommandRequest, CommandAck, CommandOutcome, InMessage, OutMessage

LEMMA GreetingTyped == Greeting \in Seq(OutMessage) /\ Len(Greeting) = 2
                       /\ Greeting[1] = Message("register_ack")
                       /\ Greeting[2] = Message("status_report")
BY MessagesTyped DEF Greeting

----------------------------------------------------------------------------
(* What steps have in common *)

\* A fault is counted.
LEMMA FaultsTyped ==
    ASSUME AgentTypeOK, Fault \/ NoFault \/ SendFault
    PROVE  faults' \in 0..MaxFaults /\ intact' \in BOOLEAN
<1>1. intact' = intact \/ intact' = FALSE
  BY Zenon DEF Fault, NoFault, SendFault
<1>2. intact' \in BOOLEAN
  BY <1>1, Zenon DEF AgentTypeOK
<1>3. faults' = faults \/ (faults < MaxFaults /\ faults' = faults + 1)
  BY DEF Fault, NoFault, SendFault
<1>4. MaxFaults \in Nat /\ faults \in 0..MaxFaults
  BY AgentConstants DEF AgentConstants, AgentTypeOK
<1>5. faults' \in 0..MaxFaults
  BY <1>3, <1>4
<1> QED BY <1>2, <1>5

\* Ending the connection leaves the reconnect timer and nothing under way.
LEMMA DroppedKeeps ==
    ASSUME AgentTypeOK, NEW rearmed \in SUBSET {"register_timeout", "heartbeat", "status_report"},
           Dropped(rearmed)
    PROVE  /\ conn' = "idle" /\ reconnect_armed' = TRUE /\ timers' = rearmed
           /\ tx' = <<>> /\ inbox' = <<>> /\ peer' = "none"
           /\ tx' \in Seq(OutMessage) /\ inbox' \in Seq(InMessage)
           /\ epoch' \in Epoch /\ issued_ids' \in 0..MaxCommands
BY DEF Dropped, AgentTypeOK

\* ... so does the end of the session with it, on which both sides agree.
LEMMA DisconnectKeeps ==
    ASSUME SessionInv, Disconnect, Fault \/ NoFault, UNCHANGED applied
    PROVE  SessionInv'
<1> USE DEF SessionInv, AgentConsistent
<1>1. /\ conn' = "idle" /\ reconnect_armed' = TRUE /\ timers' = {}
      /\ tx' = <<>> /\ inbox' = <<>> /\ peer' = "none"
      /\ tx' \in Seq(OutMessage) /\ inbox' \in Seq(InMessage)
      /\ epoch' \in Epoch /\ issued_ids' \in 0..MaxCommands
  BY DroppedKeeps DEF Disconnect
<1>2. state' = "idle" /\ last_command' = NoCommand /\ applied' = applied
  BY DEF Disconnect, OnDisconnected
<1>3. faults' \in 0..MaxFaults /\ intact' \in BOOLEAN
  BY FaultsTyped
<1>4. AgentConsistent'
  BY <1>1, <1>2, <1>3 DEF AgentTypeOK, NoCommand, ReconnectPending, WaitsAreTimed
<1>5. AgreementInv'
  <2>1. Len(inbox') = 0
    BY <1>1
  <2> QED BY <1>1, <1>2, <2>1
          DEF AgreementInv, RestInv, HandshakeInv, InboxInv, IssuedInv, AppliedInv
<1> QED BY <1>1, <1>4, <1>5 DEF QueuesInv

\* A connection that a send ended inside a handler: only consistency is left to keep.
LEMMA BrokenKeeps ==
    ASSUME SessionInv, SendFault,
           NEW rearmed \in SUBSET {"register_timeout", "heartbeat", "status_report"},
           Dropped(rearmed),
           state' \in {"idle", "active"},
           state' = "active" => {"heartbeat", "status_report"} \subseteq rearmed,
           last_command' \in [id : {0} \cup CommandId, success : BOOLEAN],
           applied' \subseteq Epoch \X CommandId
    PROVE  SessionInv'
<1> USE DEF SessionInv, AgentConsistent
<1>1. /\ conn' = "idle" /\ reconnect_armed' = TRUE /\ timers' = rearmed
      /\ tx' = <<>> /\ inbox' = <<>> /\ peer' = "none"
      /\ tx' \in Seq(OutMessage) /\ inbox' \in Seq(InMessage)
      /\ epoch' \in Epoch /\ issued_ids' \in 0..MaxCommands
  BY DroppedKeeps
<1>2. faults' \in 0..MaxFaults /\ intact' = FALSE
  BY FaultsTyped DEF SendFault
<1>3. AgentConsistent'
  BY <1>1, <1>2 DEF AgentTypeOK, ReconnectPending, WaitsAreTimed
<1> QED BY <1>1, <1>2, <1>3 DEF QueuesInv

----------------------------------------------------------------------------
(* The invariant holds initially and is kept, action by action *)

LEMMA SessionStarts == AgentInit => SessionInv
<1> SUFFICES ASSUME AgentInit PROVE SessionInv
  OBVIOUS
<1>1. AgentTypeOK
  <2>1. 0 \in 0..MaxRestarts /\ 0 \in 0..MaxCommands /\ 0 \in 0..MaxFaults
    BY AgentConstants DEF AgentConstants
  <2>2. NoCommand \in [id : {0} \cup CommandId, success : BOOLEAN]
    BY DEF NoCommand
  <2>3. reconnect_armed \in BOOLEAN /\ intact \in BOOLEAN
    BY Zenon DEF AgentInit
  <2> QED BY <2>1, <2>2, <2>3 DEF AgentInit, AgentTypeOK, Epoch
<1>2. tx = <<>> /\ inbox = <<>> /\ Len(inbox) = 0 /\ peer = "none" /\ state = "idle"
  BY DEF AgentInit
<1>3. AgreementInv
  BY <1>2 DEF AgentInit, AgreementInv, RestInv, HandshakeInv, InboxInv, IssuedInv, AppliedInv
<1> QED BY <1>1, <1>2, <1>3
        DEF AgentInit, SessionInv, AgentConsistent, ReconnectPending, WaitsAreTimed, QueuesInv

LEMMA ConnectKeeps ==
    ASSUME SessionInv, NEW ok \in BOOLEAN, Connect(ok)
    PROVE  SessionInv'
<1> USE DEF SessionInv, AgentConsistent
<1>1. faults' \in 0..MaxFaults /\ intact' \in BOOLEAN /\ intact' = intact
  BY FaultsTyped DEF Connect, Fault, NoFault
<1>2. conn = "idle" /\ conn' # "connected"
  BY DEF Connect, ReconnectPending
<1>3. UNCHANGED <<timers, tx, state, last_command, peer, inbox, epoch, issued_ids, applied>>
  BY DEF Connect, peerVars
<1>4. AgentConsistent'
  BY <1>1, <1>2, <1>3 DEF Connect, AgentTypeOK, ReconnectPending, WaitsAreTimed
<1>5. QueuesInv' /\ (AgreementInv => AgreementInv')
  BY <1>2, <1>3 DEF QueuesInv, AgreementInv, RestInv, HandshakeInv, InboxInv, IssuedInv, AppliedInv
<1> QED BY <1>1, <1>4, <1>5

LEMMA OnConnectedKeeps ==
    ASSUME SessionInv, NEW breaks \in BOOLEAN, OnConnected(breaks)
    PROVE  SessionInv'
<1> USE DEF SessionInv, AgentConsistent
<1>1. CASE breaks
  <2>1. /\ SendFault /\ Dropped({"register_timeout"}) /\ state' = "idle"
        /\ last_command' = NoCommand /\ applied' = applied
    BY <1>1 DEF OnConnected, OnDisconnected
  <2>2. applied' \subseteq Epoch \X CommandId /\ NoCommand \in [id : {0} \cup CommandId, success : BOOLEAN]
    BY <2>1 DEF AgentTypeOK, NoCommand
  <2> QED BY <2>1, <2>2, BrokenKeeps
<1>2. CASE ~breaks
  <2>1. /\ conn = "connecting" /\ conn' = "connected" /\ peer' = "handshaking"
        /\ tx = <<>> /\ inbox = <<>> /\ NoFault
        /\ UNCHANGED <<reconnect_armed, last_command, inbox, epoch, issued_ids, applied>>
    BY <1>2 DEF OnConnected, AgentTypeOK
  <2>2. faults' \in 0..MaxFaults /\ intact' \in BOOLEAN /\ intact' = intact
    BY <2>1, FaultsTyped DEF NoFault
  <2>3. CASE /\ state = "idle" /\ state' = "registering"
             /\ tx' = <<Message("register_request")>>
             /\ timers' = timers \cup {"register_timeout"}
    <3>1. AgentConsistent'
      BY <2>1, <2>2, <2>3 DEF AgentTypeOK, ReconnectPending, WaitsAreTimed
    <3>2. QueuesInv'
      BY <2>1, <2>3, MessagesTyped DEF QueuesInv
    <3>3. ASSUME AgreementInv PROVE AgreementInv'
      <4>1. last_command' = NoCommand /\ inbox' = <<>> /\ Len(inbox') = 0 /\ Len(tx') = 1
        BY <2>1, <2>3, <3>3 DEF AgreementInv, RestInv
      <4>2. tx'[1].type # "command_outcome"
        BY <2>3 DEF Message
      <4>3. issued_ids' \in Nat
        BY <2>1, AgentConstants DEF AgentTypeOK
      <4> QED BY <2>1, <2>3, <4>1, <4>2, <4>3
              DEF AgreementInv, RestInv, HandshakeInv, InboxInv, IssuedInv, AppliedInv, NoCommand
    <3> QED BY <2>2, <3>1, <3>2, <3>3
  <2>4. CASE state # "idle" /\ UNCHANGED <<state, tx, timers>>
    <3>1. AgentConsistent'
      BY <2>1, <2>2, <2>4 DEF AgentTypeOK, ReconnectPending, WaitsAreTimed
    <3>2. QueuesInv' /\ ~intact'
      BY <2>1, <2>2, <2>4 DEF QueuesInv, AgreementInv, RestInv
    <3> QED BY <3>1, <3>2
  <2> QED BY <1>2, <2>3, <2>4 DEF OnConnected
<1> QED BY <1>1, <1>2

LEMMA ConnectionEnds ==
    ASSUME SessionInv, ConnectFails \/ ConnectionLost
    PROVE  SessionInv'
BY DisconnectKeeps DEF ConnectFails, ConnectionLost

\* A message that the controller adds to what waits.
LEMMA InboxGrows ==
    ASSUME inbox \in Seq(InMessage), InboxInv, UNCHANGED <<state, last_command>>,
           NEW message \in InMessage, inbox' = Append(inbox, message),
           ~IsOutcome(message),
           IsRequest(message) =>
             /\ state = "active" /\ last_command.id <= message.id
             /\ \A i \in 1..Len(inbox) : IsRequest(inbox[i]) => inbox[i].id <= message.id
    PROVE  InboxInv'
<1>1. /\ Len(inbox) \in Nat /\ Len(inbox') = Len(inbox) + 1
      /\ \A i \in 1..Len(inbox) : inbox'[i] = inbox[i]
      /\ inbox'[Len(inbox) + 1] = message
  BY QueueAppend
<1>2. ASSUME NEW i \in 1..Len(inbox')
      PROVE  /\ IsOutcome(inbox'[i]) => i = 1 /\ state' = "registering"
             /\ IsRequest(inbox'[i]) => state' = "active" /\ last_command'.id <= inbox'[i].id
  <2>1. CASE i \in 1..Len(inbox)
    BY <1>1, <2>1 DEF InboxInv
  <2>2. CASE i = Len(inbox) + 1
    BY <1>1, <2>2
  <2> QED BY <1>1, <2>1, <2>2
<1>3. ASSUME NEW i \in 1..Len(inbox'), NEW j \in 1..Len(inbox'), i < j,
             IsRequest(inbox'[i]), IsRequest(inbox'[j])
      PROVE  inbox'[i].id <= inbox'[j].id
  <2>1. i \in 1..Len(inbox) /\ inbox'[i] = inbox[i]
    BY <1>1, <1>3
  <2>2. CASE j \in 1..Len(inbox)
    BY <1>1, <1>3, <2>1, <2>2 DEF InboxInv
  <2>3. CASE j = Len(inbox) + 1
    BY <1>1, <1>3, <2>1, <2>3
  <2> QED BY <1>1, <2>2, <2>3
<1> QED BY <1>2, <1>3 DEF InboxInv

\* The controller's session ends: what waits is followed by the end of the connection.
LEMMA ClosedKeeps ==
    ASSUME QueuesInv, Closes, UNCHANGED <<state, last_command>>
    PROVE  /\ inbox' \in Seq(InMessage) /\ peer' = "none"
           /\ InboxInv => InboxInv'
<1>1. inbox' = Append(inbox, Message("closed")) /\ peer' = "none"
  BY DEF Closes, Send
<1>2. Message("closed") \in InMessage /\ ~IsOutcome(Message("closed")) /\ ~IsRequest(Message("closed"))
  BY MessagesTyped DEF Message, IsOutcome, IsRequest
<1>3. inbox' \in Seq(InMessage)
  BY <1>1, <1>2, QueueAppend DEF QueuesInv
<1> QED BY <1>1, <1>2, <1>3, InboxGrows DEF QueuesInv

LEMMA PeerClosesKeeps ==
    ASSUME SessionInv, PeerCloses
    PROVE  SessionInv'
<1> USE DEF SessionInv, AgentConsistent
<1>1. /\ Closes /\ conn = "connected"
      /\ UNCHANGED <<conn, reconnect_armed, timers, tx, state, last_command, epoch, issued_ids, applied>>
  BY DEF PeerCloses, connectorVars, AgentTypeOK
<1>2. inbox' \in Seq(InMessage) /\ peer' = "none" /\ (InboxInv => InboxInv')
  BY <1>1, ClosedKeeps
<1>3. Fault \/ NoFault
  BY DEF PeerCloses
<1>4. intact' = intact /\ faults' \in 0..MaxFaults /\ intact' \in BOOLEAN
  <2>1. intact' = intact
    BY <1>3 DEF Fault, NoFault
  <2> QED BY <1>3, <2>1, FaultsTyped
<1>5. AgentConsistent'
  BY <1>1, <1>2, <1>4 DEF AgentTypeOK, ReconnectPending, WaitsAreTimed
<1>6. QueuesInv' /\ (AgreementInv => AgreementInv')
  BY <1>1, <1>2 DEF QueuesInv, AgreementInv, RestInv, HandshakeInv, IssuedInv, AppliedInv
<1> QED BY <1>4, <1>5, <1>6

LEMMA ControllerRestartsKeeps ==
    ASSUME SessionInv, ControllerRestarts
    PROVE  SessionInv'
<1> USE DEF SessionInv, AgentConsistent
<1>1. /\ epoch' = epoch + 1 /\ epoch < MaxRestarts /\ issued_ids' = 0 /\ peer' = "none"
      /\ UNCHANGED <<conn, reconnect_armed, timers, tx, state, last_command, applied, faults, intact>>
  BY DEF ControllerRestarts, connectorVars
<1>2. epoch' \in Epoch /\ issued_ids' \in 0..MaxCommands
  BY <1>1, AgentConstants DEF AgentConstants, AgentTypeOK, Epoch
<1>3. inbox' \in Seq(InMessage) /\ (InboxInv => InboxInv') /\ (conn # "connected" => inbox' = <<>>)
  <2>1. CASE peer = "none"
    <3>1. inbox' = inbox
      BY <2>1 DEF ControllerRestarts
    <3> QED BY <1>1, <3>1 DEF QueuesInv, InboxInv, AgentTypeOK
  <2>2. CASE peer # "none"
    <3>1. Closes /\ conn = "connected"
      BY <1>1, <2>2 DEF ControllerRestarts, Closes, Send, AgentTypeOK
    <3> QED BY <1>1, <3>1, ClosedKeeps
  <2> QED BY <2>1, <2>2
<1>4. AgentConsistent'
  BY <1>1, <1>2, <1>3 DEF AgentTypeOK, ReconnectPending, WaitsAreTimed
<1>5. QueuesInv' /\ (AgreementInv => AgreementInv')
  BY <1>1, <1>3 DEF QueuesInv, AgreementInv, RestInv, HandshakeInv, IssuedInv, AppliedInv
<1> QED BY <1>1, <1>4, <1>5

LEMMA PeerCommandsKeeps ==
    ASSUME SessionInv, NEW retry \in BOOLEAN, PeerCommands(retry)
    PROVE  SessionInv'
<1> USE DEF SessionInv, AgentConsistent
<1>1. /\ peer = "active" /\ conn = "connected" /\ inbox' = Append(inbox, CommandRequest(issued_ids'))
      /\ UNCHANGED <<conn, reconnect_armed, timers, tx, state, last_command, peer, epoch, applied>>
  BY DEF PeerCommands, Send, connectorVars, AgentTypeOK
<1>2. issued_ids' \in CommandId /\ issued_ids' \in 0..MaxCommands /\ issued_ids \in Nat /\ issued_ids <= issued_ids'
  <2>1. MaxCommands \in Nat /\ issued_ids \in 0..MaxCommands
    BY AgentConstants DEF AgentConstants, AgentTypeOK
  <2>2. \/ issued_ids' = issued_ids /\ issued_ids > 0
        \/ issued_ids' = issued_ids + 1 /\ issued_ids < MaxCommands
    BY DEF PeerCommands
  <2> QED BY <2>1, <2>2 DEF CommandId
<1>3. intact' = intact /\ faults' \in 0..MaxFaults /\ intact' \in BOOLEAN
  <2>1. Fault \/ NoFault
    BY DEF PeerCommands
  <2>2. intact' = intact
    BY <2>1 DEF Fault, NoFault
  <2> QED BY <2>1, <2>2, FaultsTyped
<1>4. AgentConsistent'
  BY <1>1, <1>2, <1>3 DEF AgentTypeOK, ReconnectPending, WaitsAreTimed
<1> DEFINE message == CommandRequest(issued_ids')
<1>5. message \in InMessage /\ ~IsOutcome(message) /\ IsRequest(message) /\ message.id = issued_ids'
  <2>1. message \in InMessage
    BY <1>2, MessagesTyped
  <2> QED BY <2>1 DEF CommandRequest, IsOutcome, IsRequest
<1>6. /\ inbox \in Seq(InMessage) /\ inbox' \in Seq(InMessage)
      /\ Len(inbox) \in Nat /\ Len(inbox') = Len(inbox) + 1
      /\ \A i \in 1..Len(inbox) : inbox'[i] = inbox[i]
      /\ inbox'[Len(inbox) + 1] = message
  BY <1>1, <1>5, QueueAppend DEF QueuesInv
<1>7. ASSUME AgreementInv PROVE AgreementInv'
  <2>1. /\ state = "active" /\ last_command.id <= issued_ids
        /\ \A i \in 1..Len(inbox) : IsRequest(inbox[i]) => inbox[i].id <= issued_ids
    BY <1>1, <1>7 DEF AgreementInv, HandshakeInv, IssuedInv
  <2>2. /\ last_command.id \in Nat
        /\ \A i \in 1..Len(inbox) : IsRequest(inbox[i]) => inbox[i].id \in Nat
    BY <1>6, AgentConstants DEF AgentConstants, AgentTypeOK, InMessage, IsRequest, CommandId
  <2>3. /\ last_command.id <= issued_ids'
        /\ \A i \in 1..Len(inbox) : IsRequest(inbox[i]) => inbox[i].id <= issued_ids'
    BY <1>2, <2>1, <2>2
  <2>4. InboxInv'
    BY <1>1, <1>5, <1>6, <1>7, <2>1, <2>3, InboxGrows DEF AgreementInv
  <2>5. IssuedInv'
    <3>1. ASSUME NEW i \in 1..Len(inbox'), IsRequest(inbox'[i]) PROVE inbox'[i].id <= issued_ids'
      <4>1. CASE i \in 1..Len(inbox)
        BY <1>6, <2>3, <3>1, <4>1
      <4>2. CASE i = Len(inbox) + 1
        BY <1>2, <1>5, <1>6, <4>2
      <4> QED BY <1>6, <4>1, <4>2
    <3> QED BY <1>1, <2>3, <3>1 DEF IssuedInv
  <2> QED BY <1>1, <1>7, <2>4, <2>5 DEF AgreementInv, RestInv, HandshakeInv, AppliedInv
<1> QED BY <1>1, <1>3, <1>4, <1>6, <1>7 DEF QueuesInv

LEMMA OnRegisterTimeoutKeeps ==
    ASSUME SessionInv, OnRegisterTimeout
    PROVE  SessionInv'
<1>1. CASE state = "registering"
  BY <1>1, DisconnectKeeps DEF OnRegisterTimeout
<1>2. CASE state # "registering"
  <2>1. /\ NoFault /\ timers' = timers \ {"register_timeout"}
        /\ UNCHANGED <<conn, reconnect_armed, tx, state, last_command, peer, inbox, epoch, issued_ids,
                       applied, faults, intact>>
    BY <1>2 DEF OnRegisterTimeout, NoFault, peerVars
  <2>2. AgentConsistent'
    BY <1>2, <2>1 DEF SessionInv, AgentConsistent, AgentTypeOK, ReconnectPending, WaitsAreTimed
  <2> QED BY <2>1, <2>2 DEF SessionInv, QueuesInv, AgreementInv, RestInv, HandshakeInv, InboxInv,
                            IssuedInv, AppliedInv
<1> QED BY <1>1, <1>2

\* Reports that an active session adds to what it sends.
LEMMA ReportsQueued ==
    ASSUME QueuesInv, NEW messages \in Seq(OutMessage), conn = "connected", Sent(messages),
           \A i \in 1..Len(messages) : IsReport(messages[i]),
           state = "active", state' = "active", UNCHANGED peer,
           inbox' = inbox \/ inbox # <<>>
    PROVE  /\ tx' \in Seq(OutMessage) /\ Len(tx) \in Nat
           /\ \A i \in 1..Len(tx) : i \in 1..Len(tx') /\ tx'[i] = tx[i]
           /\ \A i \in 1..Len(tx') :
                i \in 1..Len(tx) \/ \E j \in 1..Len(messages) : tx'[i] = messages[j]
           /\ HandshakeInv => HandshakeInv'
<1>1. tx' = tx \o messages /\ tx \in Seq(OutMessage)
  BY DEF Sent, QueuesInv
<1>2. /\ tx' \in Seq(OutMessage)
      /\ Len(tx) \in Nat /\ Len(messages) \in Nat /\ Len(tx') = Len(tx) + Len(messages)
      /\ \A i \in 1..Len(tx) : tx'[i] = tx[i]
      /\ \A i \in 1..Len(messages) : tx'[Len(tx) + i] = messages[i]
      /\ \A i \in 1..Len(tx') :
           i \in 1..Len(tx) \/ \E j \in 1..Len(messages) : i = Len(tx) + j
  BY <1>1, QueueConcat
<1>3. \A i \in 1..Len(tx) : i \in 1..Len(tx') /\ tx'[i] = tx[i]
  BY <1>2
<1>4. \A i \in 1..Len(tx') : i \in 1..Len(tx) \/ \E j \in 1..Len(messages) : tx'[i] = messages[j]
  BY <1>2
<1>5. ASSUME HandshakeInv PROVE HandshakeInv'
  <2>1. CASE peer = "confirming"
    <3>1. /\ inbox = <<>> /\ tx # <<>> /\ tx[1] = Message("register_ack")
          /\ \A i \in 2..Len(tx) : IsReport(tx[i])
      BY <1>5, <2>1 DEF HandshakeInv
    <3>2. Len(tx) >= 1 /\ 1 \in 1..Len(tx)
      BY <1>1, <1>2, <3>1
    <3>3. tx'[1] = Message("register_ack") /\ tx' # <<>>
      BY <1>2, <1>3, <3>1, <3>2
    <3>4. ASSUME NEW i \in 2..Len(tx') PROVE IsReport(tx'[i])
      <4>1. i \in 1..Len(tx')
        BY <1>2
      <4>2. CASE i \in 1..Len(tx)
        BY <1>3, <3>1, <4>2
      <4> QED BY <1>4, <4>1, <4>2
    <3> QED BY <2>1, <3>1, <3>3, <3>4 DEF HandshakeInv
  <2>2. CASE peer = "active"
    <3>1. \A i \in 1..Len(tx) : IsReport(tx[i])
      BY <1>5, <2>2 DEF HandshakeInv
    <3>2. \A i \in 1..Len(tx') : IsReport(tx'[i])
      BY <1>3, <1>4, <3>1
    <3> QED BY <2>2, <3>2 DEF HandshakeInv
  <2>3. peer # "handshaking"
    BY <1>5 DEF HandshakeInv
  <2> QED BY <2>1, <2>2, <2>3 DEF HandshakeInv
<1> QED BY <1>2, <1>3, <1>4, <1>5

LEMMA OnPeriodicTimerKeeps ==
    ASSUME SessionInv, NEW timer \in {"heartbeat", "status_report"}, NEW breaks \in BOOLEAN,
           OnPeriodicTimer(timer, breaks)
    PROVE  SessionInv'
<1> USE DEF SessionInv, AgentConsistent
<1>1. CASE state = "active" /\ ~breaks
  <2>1. /\ NoFault /\ Sent(<<Message(timer)>>)
        /\ UNCHANGED <<conn, reconnect_armed, timers, state, last_command, peer, inbox, epoch,
                       issued_ids, applied, faults, intact>>
    BY <1>1 DEF OnPeriodicTimer, connectorVars, peerVars, NoFault
  <2>2. Message(timer) \in OutMessage
    BY MessagesTyped
  <2>3. <<Message(timer)>> \in Seq(OutMessage) /\ Len(<<Message(timer)>>) = 1
        /\ <<Message(timer)>>[1] = Message(timer)
    BY <2>2
  <2>4. IsReport(Message(timer)) /\ Message(timer).type # "command_outcome"
    BY DEF Message, IsReport
  <2>5. tx' \in Seq(OutMessage) /\ (conn # "connected" => tx' = tx)
    <3>1. CASE conn = "connected"
      BY <2>1, <2>3, <3>1, QueueConcat DEF Sent, QueuesInv
    <3> QED BY <2>1, <3>1 DEF Sent, QueuesInv
  <2>6. AgentConsistent'
    BY <2>1, <2>5 DEF AgentTypeOK, ReconnectPending, WaitsAreTimed
  <2>7. ASSUME AgreementInv PROVE AgreementInv'
    <3>1. conn = "connected"
      BY <1>1, <2>7 DEF AgreementInv, RestInv
    <3>2. /\ Len(tx) \in Nat
          /\ \A i \in 1..Len(tx) : i \in 1..Len(tx') /\ tx'[i] = tx[i]
          /\ \A i \in 1..Len(tx') : i \in 1..Len(tx) \/ tx'[i] = Message(timer)
          /\ HandshakeInv'
      <4> DEFINE messages == <<Message(timer)>>
      <4>1. messages \in Seq(OutMessage) /\ \A i \in 1..Len(messages) : messages[i] = Message(timer)
        BY <2>3
      <4>2. Sent(messages) /\ HandshakeInv /\ UNCHANGED <<peer, inbox>> /\ state' = "active"
        BY <1>1, <2>1, <2>7 DEF AgreementInv
      <4> HIDE DEF messages
      <4>3. /\ Len(tx) \in Nat
            /\ \A i \in 1..Len(tx) : i \in 1..Len(tx') /\ tx'[i] = tx[i]
            /\ \A i \in 1..Len(tx') :
                 i \in 1..Len(tx) \/ \E j \in 1..Len(messages) : tx'[i] = messages[j]
            /\ HandshakeInv => HandshakeInv'
        BY <1>1, <2>4, <3>1, <4>1, <4>2, ReportsQueued
      <4> QED BY <4>1, <4>2, <4>3
    <3>3. AppliedInv'
      BY <2>1, <2>4, <2>7, <3>2 DEF AgreementInv, AppliedInv
    <3>4. RestInv' /\ InboxInv' /\ IssuedInv'
      BY <2>1, <2>7 DEF AgreementInv, RestInv, InboxInv, IssuedInv
    <3> QED BY <3>2, <3>3, <3>4 DEF AgreementInv
  <2> QED BY <2>1, <2>5, <2>6, <2>7 DEF QueuesInv
<1>2. CASE state = "active" /\ breaks
  <2>1. /\ SendFault /\ Dropped({timer}) /\ state' = "idle" /\ last_command' = NoCommand
        /\ applied' = applied
    BY <1>2 DEF OnPeriodicTimer, OnDisconnected
  <2>2. applied' \subseteq Epoch \X CommandId /\ NoCommand \in [id : {0} \cup CommandId, success : BOOLEAN]
    BY <2>1 DEF AgentTypeOK, NoCommand
  <2>3. {timer} \in SUBSET {"register_timeout", "heartbeat", "status_report"}
    OBVIOUS
  <2> QED BY <2>1, <2>2, <2>3, BrokenKeeps
<1>3. CASE state # "active"
  <2>1. /\ timers' = timers \ {timer}
        /\ UNCHANGED <<conn, reconnect_armed, tx, state, last_command, peer, inbox, epoch, issued_ids,
                       applied, faults, intact>>
    BY <1>3 DEF OnPeriodicTimer, peerVars, NoFault
  <2>2. AgentConsistent'
    BY <1>3, <2>1 DEF AgentTypeOK, ReconnectPending, WaitsAreTimed
  <2> QED BY <2>1, <2>2 DEF QueuesInv, AgreementInv, RestInv, HandshakeInv, InboxInv, IssuedInv,
                            AppliedInv
<1> QED BY <1>1, <1>2, <1>3

\* The agent's first message of a registered session, and all that was waiting is gone.
LEMMA OnRegisterOutcomeKeeps ==
    ASSUME SessionInv, NEW breaks \in BOOLEAN, OnRegisterOutcome(breaks)
    PROVE  SessionInv'
<1> USE DEF SessionInv, AgentConsistent
<1>1. CASE Disconnect /\ NoFault
  BY <1>1, DisconnectKeeps DEF OnRegisterOutcome
<1>2. CASE /\ SendFault /\ Dropped({"heartbeat", "status_report"})
           /\ last_command' = NoCommand /\ state' = "active"
  <2>1. applied' \subseteq Epoch \X CommandId /\ NoCommand \in [id : {0} \cup CommandId, success : BOOLEAN]
    BY DEF OnRegisterOutcome, AgentTypeOK, NoCommand
  <2> QED BY <1>2, <2>1, BrokenKeeps
<1>3. CASE /\ Received("register_success") /\ NoFault
           /\ inbox' = Tail(inbox)
           /\ timers' = (timers \ {"register_timeout"}) \cup {"heartbeat", "status_report"}
           /\ Sent(Greeting)
           /\ state' = "active"
           /\ UNCHANGED <<conn, reconnect_armed, last_command, peer, epoch, issued_ids>>
  <2>1. /\ state = "registering" /\ conn = "connected" /\ inbox # <<>>
        /\ tx' = tx \o Greeting
        /\ UNCHANGED <<applied, faults, intact>>
    BY <1>3 DEF OnRegisterOutcome, Received, Sent, NoFault
  <2>2. /\ Tail(inbox) \in Seq(InMessage) /\ Len(inbox) \in Nat \ {0} /\ Len(inbox') = Len(inbox) - 1
        /\ \A i \in 1..Len(inbox') : i + 1 \in 2..Len(inbox) /\ inbox'[i] = inbox[i + 1]
    BY <1>3, <2>1, QueueTail DEF QueuesInv
  <2>3. /\ tx' \in Seq(OutMessage) /\ Len(tx) \in Nat /\ Len(tx') = Len(tx) + 2
        /\ \A i \in 1..Len(tx) : tx'[i] = tx[i]
        /\ tx'[Len(tx) + 1] = Message("register_ack")
        /\ tx'[Len(tx) + 2] = Message("status_report")
    <3>1. /\ tx' \in Seq(OutMessage) /\ Len(tx) \in Nat /\ Len(tx') = Len(tx) + Len(Greeting)
          /\ \A i \in 1..Len(tx) : tx'[i] = tx[i]
          /\ \A i \in 1..Len(Greeting) : tx'[Len(tx) + i] = Greeting[i]
      <4>1. tx \in Seq(OutMessage) /\ Greeting \in Seq(OutMessage)
        BY GreetingTyped DEF QueuesInv
      <4>2. /\ tx \o Greeting \in Seq(OutMessage) /\ Len(tx) \in Nat
            /\ Len(tx \o Greeting) = Len(tx) + Len(Greeting)
            /\ \A i \in 1..Len(tx) : (tx \o Greeting)[i] = tx[i]
            /\ \A i \in 1..Len(Greeting) : (tx \o Greeting)[Len(tx) + i] = Greeting[i]
        BY <4>1, QueueConcat
      <4> QED BY <2>1, <4>2
    <3> QED BY <3>1, GreetingTyped
  <2>4. AgentConsistent'
    BY <1>3, <2>1 DEF AgentTypeOK, ReconnectPending, WaitsAreTimed
  <2>5. ASSUME AgreementInv PROVE AgreementInv'
    <3>1. RestInv'
      BY <1>3, <2>1 DEF RestInv
    <3>2. peer \notin {"handshaking", "active"}
      BY <2>1, <2>5 DEF AgreementInv, HandshakeInv
    <3>3. ASSUME peer = "confirming"
          PROVE  /\ Len(tx) = 0 /\ Len(tx') = 2 /\ inbox' = <<>>
                 /\ tx'[1] = Message("register_ack") /\ tx'[2] = Message("status_report")
      <4>1. tx = <<>> /\ inbox = <<Message("register_success")>>
        BY <2>1, <2>5, <3>3 DEF AgreementInv, HandshakeInv
      <4>2. Len(tx) = 0 /\ Len(inbox) = 1
        BY <4>1
      <4>3. Len(Tail(inbox)) = 0 /\ Tail(inbox) = <<>>
        BY <1>3, <2>2, <4>2
      <4> QED BY <1>3, <2>3, <4>2, <4>3
    <3>4. HandshakeInv'
      <4>1. IsReport(Message("status_report"))
        BY DEF IsReport, Message
      <4>2. ASSUME peer = "confirming"
            PROVE tx' # <<>> /\ \A i \in 2..Len(tx') : IsReport(tx'[i])
        <5>1. \A i \in 2..Len(tx') : i = 2
          <6>1. Len(tx') = 2
            BY <3>3, <4>2
          <6> QED BY <6>1
        <5> QED BY <3>3, <4>1, <4>2, <5>1
      <4> QED BY <1>3, <3>2, <3>3, <4>2 DEF HandshakeInv
    <3>5. ASSUME NEW i \in 1..Len(inbox')
          PROVE  ~IsOutcome(inbox'[i]) /\ ~IsRequest(inbox'[i])
      <4>1. i + 1 \in 1..Len(inbox) /\ i + 1 # 1 /\ inbox'[i] = inbox[i + 1]
        BY <2>2
      <4>2. InboxInv
        BY <2>5 DEF AgreementInv
      <4> QED BY <2>1, <4>1, <4>2 DEF InboxInv
    <3>6. InboxInv' /\ IssuedInv'
      BY <1>3, <2>5, <3>5 DEF AgreementInv, InboxInv, IssuedInv
    <3>7. AppliedInv'
      <4>1. ASSUME NEW i \in 1..Len(tx'), peer # "none" PROVE tx'[i].type # "command_outcome"
        <5>1. peer = "confirming"
          BY <3>2, <4>1 DEF AgentTypeOK
        <5>2. Len(tx') = 2
          BY <3>3, <5>1
        <5>3. i \in {1, 2}
          BY <5>2
        <5> QED BY <3>3, <5>1, <5>3 DEF Message
      <4> QED BY <1>3, <2>1, <2>5, <4>1 DEF AgreementInv, AppliedInv
    <3> QED BY <3>1, <3>4, <3>6, <3>7 DEF AgreementInv
  <2> QED BY <1>3, <2>1, <2>2, <2>3, <2>4, <2>5 DEF QueuesInv
<1> QED BY <1>1, <1>2, <1>3 DEF OnRegisterOutcome

\* A command is answered, and its answer agrees with what was applied; the next one waiting
\* is not older than it.
LEMMA OnCommandKeeps ==
    ASSUME SessionInv, NEW success \in BOOLEAN, NEW breaks \in BOOLEAN, OnCommand(success, breaks)
    PROVE  SessionInv'
<1> DEFINE id == Head(inbox).id
           answer == IF Repeated(id) THEN last_command.success ELSE success
           remembered == [id |-> id, success |-> success]
           messages == <<CommandAck(id), CommandOutcome(id, answer)>>
<1> USE DEF SessionInv, AgentConsistent
<1>1. /\ state = "active" /\ conn = "connected" /\ inbox # <<>> /\ Head(inbox).type = "command_request"
      /\ applied' = IF ~Repeated(id) /\ success THEN applied \cup {<<epoch, id>>} ELSE applied
  BY DEF OnCommand, Received
<1>2. /\ Head(inbox) = inbox[1] /\ Head(inbox) \in InMessage
      /\ Tail(inbox) \in Seq(InMessage) /\ Len(inbox) \in Nat \ {0} /\ Len(Tail(inbox)) = Len(inbox) - 1
      /\ \A i \in 1..Len(Tail(inbox)) : i + 1 \in 2..Len(inbox) /\ Tail(inbox)[i] = inbox[i + 1]
  BY <1>1, QueueTail DEF QueuesInv
<1>3. id \in CommandId
  BY <1>1, <1>2 DEF InMessage
<1>4. id \in Nat \ {0} /\ last_command.id \in Nat /\ last_command.success \in BOOLEAN
  BY <1>3, AgentConstants DEF AgentConstants, CommandId, AgentTypeOK
<1>5. answer \in BOOLEAN
  BY <1>4
<1>6. remembered \in [id : {0} \cup CommandId, success : BOOLEAN]
  BY <1>3
<1>7. applied' \subseteq Epoch \X CommandId
  BY <1>1, <1>3 DEF AgentTypeOK
<1>8. messages \in Seq(OutMessage) /\ Len(messages) = 2
      /\ messages[1] = CommandAck(id) /\ messages[2] = CommandOutcome(id, answer)
  <2>1. CommandAck(id) \in OutMessage /\ CommandOutcome(id, answer) \in OutMessage
    BY <1>3, <1>5, MessagesTyped
  <2> QED BY <2>1
<1>9. CASE breaks
  <2>1. /\ SendFault /\ Dropped({}) /\ state' = "idle"
        /\ last_command' = IF Repeated(id) THEN NoCommand ELSE remembered
    BY <1>9 DEF OnCommand
  <2>2. last_command' \in [id : {0} \cup CommandId, success : BOOLEAN]
    BY <1>6, <2>1 DEF NoCommand
  <2> QED BY <1>7, <2>1, <2>2, BrokenKeeps
<1>10. CASE ~breaks
  <2>1. /\ inbox' = Tail(inbox) /\ Sent(messages)
        /\ last_command' = IF Repeated(id) THEN last_command ELSE remembered
        /\ UNCHANGED <<conn, reconnect_armed, timers, state, peer, epoch, issued_ids, faults, intact>>
    BY <1>10 DEF OnCommand, connectorVars, NoFault
  <2> HIDE DEF messages
  <2>2. last_command' \in [id : {0} \cup CommandId, success : BOOLEAN] /\ last_command'.id = id
    BY <1>4, <1>6, <2>1 DEF AgentTypeOK, Repeated
  <2>3. tx' \in Seq(OutMessage)
    BY <1>1, <1>8, <2>1, QueueConcat DEF Sent, QueuesInv
  <2>4. AgentConsistent'
    BY <1>1, <1>7, <2>1, <2>2 DEF AgentTypeOK, ReconnectPending, WaitsAreTimed
  <2>5. ASSUME AgreementInv PROVE AgreementInv'
    <3>1. IsReport(CommandAck(id)) /\ IsReport(CommandOutcome(id, answer))
      BY DEF IsReport, CommandAck, CommandOutcome
    <3>2. \A i \in 1..Len(messages) : IsReport(messages[i])
      <4>1. \A i \in 1..Len(messages) : i \in {1, 2}
        BY <1>8
      <4> QED BY <1>8, <3>1, <4>1
    <3>3. /\ Len(tx) \in Nat
          /\ \A i \in 1..Len(tx) : i \in 1..Len(tx') /\ tx'[i] = tx[i]
          /\ \A i \in 1..Len(tx') :
               i \in 1..Len(tx) \/ \E j \in 1..Len(messages) : tx'[i] = messages[j]
          /\ HandshakeInv'
      <4>1. HandshakeInv /\ QueuesInv /\ state' = "active"
        BY <1>1, <2>1, <2>5 DEF AgreementInv
      <4> QED BY <1>1, <1>8, <2>1, <3>2, <4>1, ReportsQueued
    <3>4. IsRequest(inbox[1]) /\ inbox[1].id = id /\ 1 \in 1..Len(inbox)
      BY <1>1, <1>2 DEF IsRequest
    <3>5. RestInv'
      BY <1>1, <2>1 DEF RestInv
    <3>6. ASSUME NEW i \in 1..Len(inbox')
          PROVE  /\ i + 1 \in 2..Len(inbox) /\ i + 1 \in 1..Len(inbox) /\ 1 < i + 1
                 /\ inbox'[i] = inbox[i + 1]
      BY <1>2, <2>1
    <3>7. InboxInv'
      <4>1. InboxInv
        BY <2>5 DEF AgreementInv
      <4>2. ASSUME NEW i \in 1..Len(inbox')
            PROVE  /\ ~IsOutcome(inbox'[i])
                   /\ IsRequest(inbox'[i]) => state' = "active" /\ last_command'.id <= inbox'[i].id
        <5>1. ~IsOutcome(inbox[i + 1])
          BY <3>6, <4>1 DEF InboxInv
        <5>2. IsRequest(inbox[i + 1]) => id <= inbox[i + 1].id
          BY <3>4, <3>6, <4>1 DEF InboxInv
        <5> QED BY <1>1, <2>1, <2>2, <3>6, <5>1, <5>2
      <4>3. ASSUME NEW i \in 1..Len(inbox'), NEW j \in 1..Len(inbox'), i < j,
                   IsRequest(inbox'[i]), IsRequest(inbox'[j])
            PROVE  inbox'[i].id <= inbox'[j].id
        <5>1. i + 1 < j + 1
          BY <1>2, <2>1, <4>3
        <5> QED BY <3>6, <4>1, <4>3, <5>1 DEF InboxInv
      <4> QED BY <4>2, <4>3 DEF InboxInv
    <3>8. IssuedInv'
      <4>1. ASSUME peer # "none"
            PROVE  \A i \in 1..Len(inbox) : IsRequest(inbox[i]) => inbox[i].id <= issued_ids
        BY <2>5, <4>1 DEF AgreementInv, IssuedInv
      <4> QED BY <2>1, <2>2, <3>4, <3>6, <4>1 DEF IssuedInv
    <3>9. AppliedInv'
      <4>1. SUFFICES ASSUME peer # "none"
                     PROVE  /\ last_command'.id # 0 /\ last_command'.success =>
                                 <<epoch, last_command'.id>> \in applied'
                            /\ \A i \in 1..Len(tx') :
                                 tx'[i].type = "command_outcome" /\ tx'[i].success =>
                                   <<epoch, tx'[i].id>> \in applied'
        BY <2>1, Zenon DEF AppliedInv
      <4>2. /\ last_command.id # 0 /\ last_command.success => <<epoch, last_command.id>> \in applied
            /\ \A i \in 1..Len(tx) :
                 tx[i].type = "command_outcome" /\ tx[i].success => <<epoch, tx[i].id>> \in applied
        BY <2>5, <4>1 DEF AgreementInv, AppliedInv
      <4>3. applied \subseteq applied'
        BY <1>1
      <4>4. answer => <<epoch, id>> \in applied'
        <5>1. CASE Repeated(id)
          BY <1>1, <4>2, <5>1 DEF Repeated
        <5>2. CASE ~Repeated(id)
          BY <1>1, <5>2
        <5> QED BY <5>1, <5>2
      <4>5. last_command'.success = answer
        BY <2>1
      <4>6. ASSUME NEW i \in 1..Len(tx'), tx'[i].type = "command_outcome", tx'[i].success
            PROVE  <<epoch, tx'[i].id>> \in applied'
        <5>1. CASE i \in 1..Len(tx)
          BY <3>3, <4>2, <4>3, <4>6, <5>1
        <5>2. CASE \E j \in 1..Len(messages) : tx'[i] = messages[j]
          <6>1. \A j \in 1..Len(messages) : j \in {1, 2}
            BY <1>8
          <6>2. tx'[i] \in {CommandAck(id), CommandOutcome(id, answer)}
            BY <1>8, <5>2, <6>1
          <6>3. tx'[i] = CommandOutcome(id, answer)
            BY <4>6, <6>2 DEF CommandAck
          <6> QED BY <4>4, <4>6, <6>3 DEF CommandOutcome
        <5> QED BY <3>3, <5>1, <5>2
      <4> QED BY <2>2, <4>4, <4>5, <4>6
    <3> QED BY <3>3, <3>5, <3>7, <3>8, <3>9 DEF AgreementInv
  <2> QED BY <1>2, <2>1, <2>3, <2>4, <2>5 DEF QueuesInv
<1> QED BY <1>9, <1>10

\* Whatever the controller's session makes of a message, its answers are messages.
LEMMA PeerHandlesTyped ==
    ASSUME SessionInv, NEW message, PeerHandles(message)
    PROVE  /\ inbox' \in Seq(InMessage)
           /\ peer' \in {"none", "handshaking", "confirming", "active"}
           /\ Fault \/ NoFault
<1> DEFINE rejection == <<Message("register_failed"), Message("closed")>>
<1>1. inbox \in Seq(InMessage) /\ peer \in {"none", "handshaking", "confirming", "active"}
  BY DEF SessionInv, AgentConsistent, QueuesInv, AgentTypeOK
<1>2. /\ Message("closed") \in InMessage /\ Message("register_success") \in InMessage
      /\ rejection \in Seq(InMessage)
  BY MessagesTyped
<1>3. Fault \/ NoFault
  BY DEF PeerHandles
<1>4. \/ Closes
      \/ peer' = "confirming" /\ Send(Message("register_success"))
      \/ peer' = "none" /\ inbox' = inbox \o rejection
      \/ UNCHANGED inbox /\ peer' \in {peer, "active"}
  BY DEF PeerHandles
<1> HIDE DEF rejection
<1>5. CASE Closes
  BY <1>1, <1>2, <1>3, <1>5, AppendProperties DEF Closes, Send
<1>6. CASE peer' = "confirming" /\ Send(Message("register_success"))
  BY <1>1, <1>2, <1>3, <1>6, AppendProperties DEF Send
<1>7. CASE peer' = "none" /\ inbox' = inbox \o rejection
  BY <1>1, <1>2, <1>3, <1>7, ConcatProperties
<1>8. CASE UNCHANGED inbox /\ peer' \in {peer, "active"}
  BY <1>1, <1>3, <1>8
<1> QED BY <1>4, <1>5, <1>6, <1>7, <1>8

LEMMA TransmitKeeps ==
    ASSUME SessionInv, NEW breaks \in BOOLEAN, Transmit(breaks)
    PROVE  SessionInv'
<1> USE DEF SessionInv, AgentConsistent
<1>1. CASE breaks
  BY <1>1, DisconnectKeeps DEF Transmit
<1>2. CASE ~breaks
  <2>1. /\ conn = "connected" /\ tx # <<>> /\ tx' = Tail(tx) /\ PeerHandles(Head(tx))
        /\ UNCHANGED <<conn, reconnect_armed, timers, state, last_command, epoch, issued_ids, applied>>
    BY <1>2 DEF Transmit, connectorVars
  <2>2. /\ Head(tx) \in OutMessage /\ Head(tx) = tx[1] /\ tx' \in Seq(OutMessage)
        /\ Len(tx) \in Nat \ {0} /\ Len(tx') = Len(tx) - 1
        /\ \A i \in 1..Len(tx') : i + 1 \in 2..Len(tx) /\ tx'[i] = tx[i + 1]
    BY <2>1, QueueTail DEF QueuesInv
  <2>3. /\ inbox' \in Seq(InMessage) /\ peer' \in {"none", "handshaking", "confirming", "active"}
        /\ Fault \/ NoFault
    BY <2>1, PeerHandlesTyped
  <2>4. faults' \in 0..MaxFaults /\ intact' \in BOOLEAN /\ intact' = intact
    BY <2>3, FaultsTyped DEF Fault, NoFault
  <2>5. AgentConsistent'
    BY <2>1, <2>3, <2>4 DEF AgentTypeOK, ReconnectPending, WaitsAreTimed
  <2>6. ASSUME AgreementInv PROVE AgreementInv'
    <3> USE DEF AgreementInv
    <3>1. RestInv'
      BY <2>1, <2>6 DEF RestInv
    <3>2. CASE peer = "none"
      <4>1. UNCHANGED <<peer, inbox>>
        BY <2>1, <3>2 DEF PeerHandles
      <4> QED BY <2>1, <2>6, <3>1, <3>2, <4>1 DEF HandshakeInv, InboxInv, IssuedInv, AppliedInv
    <3>3. CASE peer = "handshaking"
      <4>1. /\ state = "registering" /\ tx = <<Message("register_request")>> /\ inbox = <<>>
            /\ Len(inbox) = 0
        BY <2>6, <3>3 DEF HandshakeInv
      <4>2. Len(tx) = 1 /\ Head(tx).type = "register_request"
        BY <2>2, <4>1 DEF Message
      <4>3. Len(tx') = 0 /\ tx' = <<>>
        BY <2>2, <4>2
      <4>4. /\ Message("register_success") \in InMessage /\ IsOutcome(Message("register_success"))
            /\ ~IsRequest(Message("register_success"))
        BY MessagesTyped DEF Message, IsOutcome, IsRequest
      <4>5. CASE peer' = "confirming" /\ Send(Message("register_success"))
        <5>1. inbox' = <<Message("register_success")>> /\ Len(inbox') = 1
              /\ inbox'[1] = Message("register_success")
          BY <4>1, <4>5 DEF Send
        <5>2. \A i \in 1..Len(inbox') : i = 1
          BY <5>1
        <5>3. HandshakeInv' /\ InboxInv' /\ IssuedInv'
          BY <2>1, <2>6, <3>3, <4>1, <4>3, <4>4, <4>5, <5>1, <5>2
             DEF HandshakeInv, InboxInv, IssuedInv
        <5>4. AppliedInv'
          BY <2>1, <2>6, <3>3, <4>3 DEF AppliedInv
        <5> QED BY <3>1, <5>3, <5>4
      <4>6. CASE Closes
        BY <2>1, <2>6, <3>1, <4>6, ClosedKeeps DEF HandshakeInv, IssuedInv, AppliedInv
      <4>7. CASE /\ peer' = "none"
                 /\ inbox' = inbox \o <<Message("register_failed"), Message("closed")>>
        <5>1. /\ inbox' = <<Message("register_failed"), Message("closed")>> /\ Len(inbox') = 2
              /\ inbox'[1] = Message("register_failed") /\ inbox'[2] = Message("closed")
          BY <4>1, <4>7
        <5>2. /\ ~IsRequest(Message("register_failed")) /\ ~IsRequest(Message("closed"))
              /\ ~IsOutcome(Message("closed"))
          BY DEF Message, IsOutcome, IsRequest
        <5>3. \A i \in 1..Len(inbox') : i \in {1, 2}
          BY <5>1
        <5>4. InboxInv'
          BY <2>1, <4>1, <5>1, <5>2, <5>3 DEF InboxInv
        <5> QED BY <3>1, <4>7, <5>4 DEF HandshakeInv, IssuedInv, AppliedInv
      <4> QED BY <2>1, <3>3, <4>2, <4>5, <4>6, <4>7 DEF PeerHandles
    <3>4. CASE peer = "confirming" \/ peer = "active"
      <4>1. \A i \in 2..Len(tx) : IsReport(tx[i])
        BY <2>1, <2>6, <3>4 DEF HandshakeInv
      <4>2. peer = "confirming" => tx[1] = Message("register_ack") /\ inbox = <<>>
        BY <2>1, <2>6 DEF HandshakeInv
      <4>3. peer = "active" => IsReport(tx[1])
        BY <2>2, <2>6 DEF HandshakeInv
      <4>4. peer' = "active" /\ UNCHANGED inbox
        <5>1. CASE peer = "confirming"
          BY <2>1, <2>2, <4>2, <5>1 DEF PeerHandles, Message
        <5>2. CASE peer = "active"
          BY <2>1, <2>2, <4>3, <5>2 DEF PeerHandles, IsReport
        <5> QED BY <3>4, <5>1, <5>2
      <4>5. state = "active"
        BY <2>1, <2>6, <3>4 DEF HandshakeInv
      <4>6. \A i \in 1..Len(tx') : IsReport(tx'[i])
        BY <2>2, <4>1
      <4>7. HandshakeInv' /\ InboxInv' /\ IssuedInv'
        BY <2>1, <2>6, <3>4, <4>4, <4>5, <4>6 DEF HandshakeInv, InboxInv, IssuedInv
      <4>8. \A i \in 1..Len(tx') : i + 1 \in 1..Len(tx) /\ tx'[i] = tx[i + 1]
        BY <2>2
      <4>9. AppliedInv'
        BY <2>1, <2>6, <3>4, <4>4, <4>8 DEF AppliedInv
      <4> QED BY <3>1, <4>7, <4>9
    <3> QED BY <3>2, <3>3, <3>4 DEF AgentTypeOK
  <2> QED BY <2>2, <2>3, <2>4, <2>5, <2>6 DEF QueuesInv
<1> QED BY <1>1, <1>2

LEMMA SessionStepKeeps == SessionInv /\ [AgentNext]_agentVars => SessionInv'
<1> SUFFICES ASSUME SessionInv, [AgentNext]_agentVars PROVE SessionInv'
  OBVIOUS
<1>1. ASSUME NEW ok \in BOOLEAN, Connect(ok) PROVE SessionInv'
  BY <1>1, ConnectKeeps
<1>2. ASSUME NEW breaks \in BOOLEAN, OnConnected(breaks) PROVE SessionInv'
  BY <1>2, OnConnectedKeeps
<1>3. CASE ConnectFails \/ ConnectionLost
  BY <1>3, ConnectionEnds
<1>4. ASSUME NEW breaks \in BOOLEAN, Transmit(breaks) PROVE SessionInv'
  BY <1>4, TransmitKeeps
<1>5. CASE PeerCloses
  BY <1>5, PeerClosesKeeps
<1>6. CASE ControllerRestarts
  BY <1>6, ControllerRestartsKeeps
<1>7. ASSUME NEW retry \in BOOLEAN, PeerCommands(retry) PROVE SessionInv'
  BY <1>7, PeerCommandsKeeps
<1>8. ASSUME NEW breaks \in BOOLEAN, OnRegisterOutcome(breaks) PROVE SessionInv'
  BY <1>8, OnRegisterOutcomeKeeps
<1>9. ASSUME NEW success \in BOOLEAN, NEW breaks \in BOOLEAN, OnCommand(success, breaks)
      PROVE SessionInv'
  BY <1>9, OnCommandKeeps
<1>10. CASE OnRegisterTimeout
  BY <1>10, OnRegisterTimeoutKeeps
<1>11. ASSUME NEW timer \in {"heartbeat", "status_report"}, NEW breaks \in BOOLEAN,
              OnPeriodicTimer(timer, breaks)
       PROVE SessionInv'
  BY <1>11, OnPeriodicTimerKeeps
<1>12. CASE UNCHANGED agentVars
  BY <1>12 DEF agentVars, SessionInv, AgentConsistent, AgentTypeOK, ReconnectPending, WaitsAreTimed,
               QueuesInv, AgreementInv, RestInv, HandshakeInv, InboxInv, IssuedInv, AppliedInv
<1> QED BY <1>1, <1>2, <1>3, <1>4, <1>5, <1>6, <1>7, <1>8, <1>9, <1>10, <1>11, <1>12 DEF AgentNext

LEMMA SessionAlways == AgentSpec => []SessionInv
BY SessionStarts, SessionStepKeeps, PTL DEF AgentSpec

\* What the invariant says of the next message of either side.
LEMMA InvariantAgrees == SessionInv => SessionsAgree
<1> SUFFICES ASSUME SessionInv, intact PROVE ProtocolAgreed /\ OutcomeTruthful
  BY DEF SessionsAgree, ProtocolAgreed, OutcomeTruthful
<1>1. AgreementInv /\ QueuesInv
  BY DEF SessionInv
<1>2. inbox # <<>> => Head(inbox) = inbox[1] /\ 1 \in 1..Len(inbox)
  BY <1>1, QueueTail DEF QueuesInv
<1>3. tx # <<>> => Head(tx) = tx[1] /\ 1 \in 1..Len(tx)
  BY <1>1, QueueTail DEF QueuesInv
<1>4. ASSUME inbox # <<>>
      PROVE  /\ Head(inbox).type \in {"register_success", "register_failed"} => state = "registering"
             /\ Head(inbox).type = "command_request" => state = "active"
  BY <1>1, <1>2, <1>4 DEF AgreementInv, InboxInv, IsOutcome, IsRequest
<1>5. ASSUME tx # <<>>, peer = "handshaking" PROVE Head(tx).type = "register_request"
  BY <1>1, <1>3, <1>5 DEF AgreementInv, HandshakeInv, Message
<1>6. ASSUME tx # <<>>, peer = "confirming" PROVE Head(tx).type = "register_ack"
  BY <1>1, <1>3, <1>6 DEF AgreementInv, HandshakeInv, Message
<1>7. ASSUME tx # <<>>, peer = "active"
      PROVE  Head(tx).type \notin {"register_request", "register_ack"}
  BY <1>1, <1>3, <1>7 DEF AgreementInv, HandshakeInv, IsReport
<1>8. peer \in {"none", "handshaking", "confirming", "active"}
  BY DEF SessionInv, AgentConsistent, AgentTypeOK
<1>9. ProtocolAgreed
  BY <1>4, <1>5, <1>6, <1>7, <1>8 DEF ProtocolAgreed
<1>10. OutcomeAlwaysTruthful
  BY <1>1 DEF OutcomeAlwaysTruthful, AgreementInv, AppliedInv
<1> QED BY <1>9, <1>10 DEF OutcomeTruthful

----------------------------------------------------------------------------
(* The theorems about a session *)

\* The agent never gives up and never waits for what cannot come: whatever fails, also a
\* send inside a handler that goes on, an unconnected agent has its reconnect timer armed,
\* a registration its timeout, and an active session its periodic timers.
THEOREM AgentAlwaysWaits == AgentSpec => []AgentConsistent
<1>1. SessionInv => AgentConsistent
  BY DEF SessionInv
<1> QED BY <1>1, SessionAlways, PTL

\* Until a send breaks the connection inside a handler, neither side receives a message it
\* does not expect, and a success that the agent reports is one of a command of the present
\* controller that it applied.
THEOREM SessionsAlwaysAgree == AgentSpec => []SessionsAgree
BY InvariantAgrees, SessionAlways, PTL

\* In a session no command is applied a second time, however often and however late it is
\* sent again.
THEOREM CommandsAppliedOnce == AgentSpec => AppliedOncePerSession
<1>1. SessionInv /\ [AgentNext]_agentVars =>
        [\A success \in BOOLEAN :
           intact /\ OnCommand(success, FALSE) /\ ~Repeated(Head(inbox).id) =>
             Head(inbox).id > last_command.id]_agentVars
  <2> SUFFICES ASSUME SessionInv, NEW success \in BOOLEAN, intact, OnCommand(success, FALSE),
                      ~Repeated(Head(inbox).id)
               PROVE  Head(inbox).id > last_command.id
    OBVIOUS
  <2>1. /\ inbox # <<>> /\ Head(inbox).type = "command_request" /\ QueuesInv /\ InboxInv
    BY DEF OnCommand, Received, SessionInv, AgreementInv
  <2>2. Head(inbox) = inbox[1] /\ Head(inbox) \in InMessage /\ 1 \in 1..Len(inbox)
    BY <2>1, QueueTail DEF QueuesInv
  <2>3. Head(inbox).id \in CommandId /\ last_command.id <= Head(inbox).id
    BY <2>1, <2>2 DEF InboxInv, IsRequest, InMessage
  <2>4. last_command.id \in Nat /\ Head(inbox).id \in Nat \ {0}
    BY <2>3, AgentConstants
       DEF AgentConstants, CommandId, SessionInv, AgentConsistent, AgentTypeOK
  <2> QED BY <2>3, <2>4 DEF Repeated
<1> QED BY <1>1, SessionAlways, PTL DEF AgentSpec, AppliedOncePerSession

----------------------------------------------------------------------------
(* The inductive invariant of a fleet *)

\* What main has done in each phase.
PhaseInv ==
    /\ phase = "built" => /\ ~started /\ ~stopped /\ ~start_timer /\ next = 0
                          /\ \A m \in Member : link[m] = "idle"
    /\ phase = "running" => started
    /\ phase = "ended" => stopped
    /\ started => phase # "built"

\* The timers that the scheduler is about to serve are still scheduled: their owners live.
DueInv ==
    /\ due # {} => phase = "running" /\ started /\ ~stopped
    /\ StartTimer \in due => start_timer
    /\ \A m \in Member : m \in due => link[m] = "timer"

FleetInv == FleetConsistent /\ PhaseInv /\ DueInv

LEMMA FleetStarts == FleetConstants /\ FleetInit => FleetInv
<1> SUFFICES ASSUME FleetConstants, FleetInit PROVE FleetInv
  OBVIOUS
<1>1. FleetTypeOK
  <2>1. next \in 0..Count /\ link \in [Member -> {"idle", "socket", "timer", "gone"}]
    BY DEF FleetConstants, FleetInit
  <2> QED BY <2>1 DEF FleetInit, FleetTypeOK
<1> QED BY <1>1 DEF FleetInit, FleetInv, FleetConsistent, StartsInOrder, NothingOutlivesStop,
        PhaseInv, DueInv

\* One step of the start: the next members get a link, the others keep theirs, and the
\* timer is set again exactly if some are left.
LEMMA StartNextAdvances ==
    ASSUME FleetConstants, link \in [Member -> {"idle", "socket", "timer", "gone"}],
           next \in 0..Count, next < Count, StartNext,
           \A m \in Member : link[m] = "idle" <=> m > next
    PROVE  /\ next' \in 0..Count
           /\ start_timer' \in BOOLEAN /\ (start_timer' <=> next' < Count)
           /\ link' \in [Member -> {"idle", "socket", "timer", "gone"}]
           /\ \A m \in Member : link'[m] = "idle" <=> m > next'
           /\ \A m \in Member : link[m] # "idle" => link'[m] = link[m]
<1> DEFINE last == IF immediate THEN Count ELSE next + 1
<1>1. Count \in Nat /\ next \in Nat /\ last \in (next + 1)..Count
  BY DEF FleetConstants
<1>2. next' = last /\ start_timer' = (last < Count)
  BY DEF StartNext, SetsTimer
<1>3. PICK f \in [(next + 1)..last -> {"socket", "timer"}] :
          link' = [m \in Member |-> IF m \in DOMAIN f THEN f[m] ELSE link[m]]
  BY DEF StartNext
<1>4. \A m \in Member : m \in (next + 1)..last => link'[m] \in {"socket", "timer"}
  BY <1>3
<1>5. \A m \in Member : m \notin (next + 1)..last => link'[m] = link[m]
  BY <1>3
<1>6. link' \in [Member -> {"idle", "socket", "timer", "gone"}]
  BY <1>3, <1>4, <1>5
<1> HIDE DEF last
<1>7. ASSUME NEW m \in Member
      PROVE  /\ link'[m] = "idle" <=> m > last
             /\ link[m] # "idle" => link'[m] = link[m]
  <2>1. m \in Nat
    BY <1>1 DEF Member
  <2>2. CASE m \in (next + 1)..last
    BY <1>1, <1>4, <2>1, <2>2
  <2>3. CASE m \notin (next + 1)..last
    BY <1>1, <1>5, <2>1, <2>3
  <2> QED BY <2>2, <2>3
<1>8. start_timer' \in BOOLEAN /\ (start_timer' <=> next' < Count)
  <2>1. (last < Count) \in BOOLEAN
    BY <1>1
  <2>2. start_timer' \in BOOLEAN
    BY <1>2, <2>1, Zenon
  <2>3. start_timer' <=> next' < Count
    BY <1>2, Zenon
  <2> QED BY <2>2, <2>3
<1>9. next' \in 0..Count
  BY <1>1, <1>2
<1> QED BY <1>2, <1>6, <1>7, <1>8, <1>9

\* After stop nothing is left, whoever calls it.
LEMMA StopFleetEndsAll ==
    ASSUME FleetTypeOK, NEW signals, NEW then \in {"running", "ended"}, StopFleet(signals, then)
    PROVE  /\ stopped' /\ ~start_timer' /\ pending' = {}
           /\ link' \in [Member -> {"idle", "socket", "timer", "gone"}]
           /\ \A m \in Member : link'[m] = "gone"
           /\ phase' \in {then, "killed"}
           /\ stopped' \in BOOLEAN /\ start_timer' \in BOOLEAN
BY DEF StopFleet, LinksAfterStop

LEMMA FleetStepKeeps == FleetConstants /\ FleetInv /\ [FleetNext]_fleetVars => FleetInv'
<1> SUFFICES ASSUME FleetConstants, FleetInv, [FleetNext]_fleetVars PROVE FleetInv'
  OBVIOUS
<1> Count \in Nat \ {0} /\ FleetTypeOK /\ StartTimer \notin Member
  BY DEF FleetConstants, FleetInv, FleetConsistent, StartTimer, Member
<1> USE DEF FleetInv, FleetConsistent, FleetTypeOK, StartsInOrder, NothingOutlivesStop, PhaseInv,
            DueInv
<1>1. CASE StartFleet
  <2>1. CASE StartNext /\ phase' = "running" /\ UNCHANGED <<stopped, pending>>
    <3>1. /\ next' \in 0..Count
          /\ start_timer' \in BOOLEAN /\ (start_timer' <=> next' < Count)
          /\ link' \in [Member -> {"idle", "socket", "timer", "gone"}]
          /\ \A m \in Member : link'[m] = "idle" <=> m > next'
      BY <1>1, <2>1, StartNextAdvances DEF StartFleet, Member
    <3> QED BY <1>1, <2>1, <3>1 DEF StartFleet
  <2>2. CASE /\ StopFleet({}, "ended") /\ next' \in 0..(IF immediate THEN Count ELSE 1)
    <3>1. next' \in 0..Count
      BY <2>2
    <3>2. /\ stopped' /\ ~start_timer' /\ pending' = {} /\ phase' \in {"ended", "killed"}
          /\ stopped' \in BOOLEAN /\ start_timer' \in BOOLEAN
          /\ link' \in [Member -> {"idle", "socket", "timer", "gone"}]
          /\ \A m \in Member : link'[m] = "gone"
      BY <2>2, StopFleetEndsAll
    <3>3. started' = TRUE /\ due = {} /\ UNCHANGED <<immediate, batch, due>>
      BY <1>1 DEF StartFleet
    <3> QED BY <3>1, <3>2, <3>3
  <2> QED BY <1>1, <2>1, <2>2 DEF StartFleet
<1>2. CASE RunOnce
  <2>1. batch' \subseteq Member \cup {StartTimer} \cup Signals
    BY <1>2 DEF RunOnce
  <2> QED BY <1>2, <2>1 DEF RunOnce
<1>3. CASE OnTimers
  <2>1. due' \subseteq Armed /\ (stopped => due' = {}) /\ (~stopped \/ UNCHANGED due)
    BY <1>3 DEF OnTimers, Dispatch
  <2>2. /\ \A m \in Member : m \in due' => link[m] = "timer"
        /\ StartTimer \in due' => start_timer
        /\ due' \subseteq Member \cup {StartTimer}
    BY <2>1 DEF Armed
  <2> QED BY <1>3, <2>1, <2>2 DEF OnTimers, Dispatch
<1>4. CASE OnExpired
  <2>1. started /\ ~stopped /\ start_timer /\ next < Count /\ phase = "running"
    BY <1>4 DEF OnExpired
  <2>2. CASE StartNext /\ due' = due \ {StartTimer} /\ UNCHANGED <<phase, stopped, batch, pending>>
    <3>1. /\ next' \in 0..Count
          /\ start_timer' \in BOOLEAN /\ (start_timer' <=> next' < Count)
          /\ link' \in [Member -> {"idle", "socket", "timer", "gone"}]
          /\ \A m \in Member : link'[m] = "idle" <=> m > next'
          /\ \A m \in Member : link[m] # "idle" => link'[m] = link[m]
      BY <2>1, <2>2, StartNextAdvances
    <3> QED BY <1>4, <2>1, <2>2, <3>1 DEF OnExpired
  <2>3. CASE next' = next + 1 /\ StopFleet(pending, "ended") /\ due' = {} /\ batch' = {}
    <3>1. next' \in 0..Count
      BY <2>1, <2>3
    <3>2. /\ stopped' /\ ~start_timer' /\ pending' = {} /\ phase' \in {"ended", "killed"}
          /\ stopped' \in BOOLEAN /\ start_timer' \in BOOLEAN
          /\ link' \in [Member -> {"idle", "socket", "timer", "gone"}]
          /\ \A m \in Member : link'[m] = "gone"
      BY <2>3, StopFleetEndsAll
    <3>3. due' = {} /\ batch' = {} /\ UNCHANGED <<immediate, started>>
      BY <1>4, <2>3 DEF OnExpired
    <3> QED BY <2>1, <3>1, <3>2, <3>3
  <2> QED BY <1>4, <2>2, <2>3 DEF OnExpired
<1>5. CASE RunReturns
  BY <1>5 DEF RunReturns
<1>6. ASSUME NEW s \in Signals, Raise(s) PROVE FleetInv'
  BY <1>6 DEF Raise
<1>7. ASSUME NEW s \in Signals, OnSignal(s) PROVE FleetInv'
  <2>1. CASE ~stopped /\ StopFleet(pending \ {s}, "running")
    <3>1. /\ stopped' /\ ~start_timer' /\ pending' = {} /\ phase' \in {"running", "killed"}
          /\ stopped' \in BOOLEAN /\ start_timer' \in BOOLEAN
          /\ link' \in [Member -> {"idle", "socket", "timer", "gone"}]
          /\ \A m \in Member : link'[m] = "gone"
      BY <2>1, StopFleetEndsAll
    <3>2. /\ phase = "running" /\ due' = {} /\ batch' \subseteq batch
          /\ UNCHANGED <<immediate, started, next>>
      BY <1>7 DEF OnSignal, Dispatch
    <3> QED BY <3>1, <3>2
  <2>2. CASE stopped /\ UNCHANGED <<phase, stopped, link, start_timer, pending>>
    BY <1>7, <2>2 DEF OnSignal, Dispatch
  <2> QED BY <1>7, <2>1, <2>2 DEF OnSignal
<1>8. ASSUME NEW m \in Member, OnConnection(m) PROVE FleetInv'
  <2>1. /\ link' \in [Member -> {"idle", "socket", "timer", "gone"}]
        /\ \A n \in Member : link'[n] = link[n] \/ (link[n] = "socket" /\ link'[n] = "timer")
    BY <1>8 DEF OnConnection
  <2>2. /\ due' = {} /\ batch' \subseteq batch /\ phase = "running"
        /\ UNCHANGED <<phase, immediate, started, stopped, next, start_timer, pending>>
    BY <1>8 DEF OnConnection, Dispatch
  <2>3. \A n \in Member : (link'[n] = "idle" <=> link[n] = "idle") /\ (link[n] = "gone" => link'[n] = "gone")
    BY <2>1
  <2> QED BY <2>1, <2>2, <2>3
<1>9. ASSUME NEW m \in Member, OnReconnect(m) PROVE FleetInv'
  <2>1. link[m] = "timer" /\ ~stopped /\ phase = "running"
    BY <1>9 DEF OnReconnect
  <2>2. /\ link' \in [Member -> {"idle", "socket", "timer", "gone"}]
        /\ link'[m] \in {"socket", "timer"}
        /\ \A n \in Member \ {m} : link'[n] = link[n]
    BY <1>9 DEF OnReconnect
  <2> QED BY <1>9, <2>1, <2>2 DEF OnReconnect
<1>10. CASE UNCHANGED fleetVars
  BY <1>10 DEF fleetVars
<1> QED BY <1>1, <1>2, <1>3, <1>4, <1>5, <1>6, <1>7, <1>8, <1>9, <1>10 DEF FleetNext

----------------------------------------------------------------------------
(* The theorem about a fleet *)

\* Members are started in order, one to come while any is left; and wherever a signal or
\* an exception ends the fleet, no timer and no connection outlives it.
THEOREM FleetIsConsistent ==
    ASSUME FleetConstants
    PROVE  FleetSpec => []FleetConsistent
<1>1. FleetInv => FleetConsistent
  BY DEF FleetInv
<1> QED BY <1>1, FleetStarts, FleetStepKeeps, PTL DEF FleetSpec
=============================================================================
