----------------------- MODULE TransportServerProofs -----------------------
(***************************************************************************)
(* Proofs about TransportServer, for any bounds, any capacity of the rings *)
(* and of the sockets, and callbacks that nest as deeply as they like.     *)
(***************************************************************************)
EXTENDS TransportServer, Acceptor, FiniteSetTheorems, TLAPS

Entry == [id : Conn, why : Reason]

----------------------------------------------------------------------------
(* The inductive invariant *)

Handling == {"receive", "dispatch", "after_read"}

\* The call made first, which is the handler of an event while there is one.
Bottom == stack[Len(stack)]

\* Handlers are called by the reactor only. A callback runs for a frame that is dispatched
\* or in a reap, or it is called by a timer; a reap runs for an event or for a callback.
\* Nobody is left to reap for what a timer calls.
StackShape ==
    /\ \A i \in DOMAIN stack : stack[i].at \in Handling =>
         i = Len(stack) /\ stack[i].id # 0
    /\ \A i \in DOMAIN stack : stack[i].at = "application" =>
         IF i = Len(stack) THEN stack[i].id = 0 ELSE stack[i + 1].at \in {"dispatch", "reap"}
    /\ \A i \in DOMAIN stack : stack[i].at = "reap" =>
         i = Len(stack) \/ stack[i + 1].at = "application"
    /\ stack # <<>> /\ Bottom.at = "receive" => Active(Bottom.id)
    /\ stack = <<>> \/ (Len(stack) = 1 /\ Bottom.at = "application") => reap_queue = <<>>

Queued(c) == \E i \in DOMAIN reap_queue : reap_queue[i].id = c

\* A connection that a callback disconnected has ended, or the reap that the callback is
\* waiting for has it in the queue.
GoneOrQueued ==
    \A i \in DOMAIN stack : stack[i].gone # 0 =>
        /\ stack[i].at = "application"
        /\ status[stack[i].gone] = "ended" \/ (i # 1 /\ Queued(stack[i].gone))

\* Ids are issued in order, and the session layer is told of every connection that was
\* registered, until it is erased.
IdsInOrder ==
    /\ \A c \in Conn : c >= next_id =>
         socket[c] = NewSocket /\ heard[c] = <<>> /\ status[c] = "new"
    /\ \A c \in Conn : status[c] = "connected" <=> c \in DOMAIN connections /\ status[c] # "new"
    /\ \A c \in DOMAIN connections : connections[c].registered => status[c] = "connected"
    /\ \A c \in ready : Active(c)

\* What the peer sent was delivered, is in the ring, or is in the socket.
FramesAccounted ==
    /\ \A c \in Conn : Len(heard[c]) + Len(socket[c].arrived) <= socket[c].sent
    /\ \A c \in DOMAIN connections :
         Len(heard[c]) + Len(connections[c].rx) + Len(socket[c].arrived) = socket[c].sent

\* Frames that a peer sent one after the other, after so many.
Numbered(frames, after) == \A i \in DOMAIN frames : frames[i].number = after + i

\* In the ring lie the messages that follow the ones delivered, in the socket the last ones
\* sent: with FramesAccounted, the peer's messages in the order they were sent.
NumbersInOrder ==
    /\ \A c \in DOMAIN connections : Numbered(connections[c].rx, Len(heard[c]))
    /\ \A c \in Conn : Numbered(socket[c].arrived, socket[c].sent - Len(socket[c].arrived))

\* A close was reported, or will be, when nothing was left and nothing can follow.
Drained(c) == socket[c].closed /\ Len(heard[c]) = socket[c].sent /\ ~Active(c)

ClosesInOrder ==
    /\ \A c \in Conn : reason[c] = "peer_closed" => Drained(c) /\ c < next_id
    /\ \A i \in DOMAIN reap_queue : reap_queue[i].why = "peer_closed" => Drained(reap_queue[i].id)

Unread(s) == s.arrived # <<>> \/ s.closed \/ s.broken

Handled(c) == stack # <<>> /\ Bottom.at \in Handling /\ Bottom.id = c

\* A connection nobody handles is woken up if there is anything to do for it.
Awake(c) ==
    /\ connections[c].rx = <<>>
    /\ Readiness(socket[c], connections[c].writes) # {} => c \in ready

\* For one that is handled, what happened after its events were taken wakes it up again,
\* and the handler will find the rest.
InHand(c) ==
    LET s == socket[c] IN
    /\ connections[c].writes /\ s.room > 0 => c \in ready \/ "writable" \in Bottom.events
    /\ Bottom.at \in {"receive", "after_read"} => connections[c].rx = <<>>
    /\ Bottom.at = "dispatch" /\ Bottom.result = "would_block" => (Unread(s) => c \in ready)
    /\ Bottom.at = "dispatch" /\ Bottom.result = "peer_closed" => s.closed /\ s.arrived = <<>>
    /\ Bottom.at = "dispatch" => Bottom.result # "none"
    /\ Bottom.at = "after_read" => (Unread(s) => c \in ready)

NoneForgotten ==
    \A c \in DOMAIN connections : connections[c].registered =>
        /\ connections[c].writes = (connections[c].tx > 0)
        /\ IF Handled(c) THEN InHand(c) ELSE Awake(c)

\* What is left of the bounds.
WithinBudget ==
    /\ budget \in [Bounded -> Nat] /\ \A what \in Bounded : budget[what] <= Largest(what)
    /\ \A c \in DOMAIN connections : connections[c].tx + budget.sends <= Largest("sends")

SequencesTyped == stack \in Seq(Call) /\ reap_queue \in Seq(Entry)

ServerInv ==
    /\ ServerTypeOK /\ SequencesTyped /\ WithinBudget
    /\ StackShape /\ GoneOrQueued /\ IdsInOrder /\ ReapQueueExact
    /\ FramesAccounted /\ ClosesInOrder /\ NoneForgotten

----------------------------------------------------------------------------
(* Bounds, sequences of frames and the stack of calls *)

\* Every bound has a largest value, and no behaviour starts with more.
LEMMA LargestBounds ==
    ASSUME NEW what \in Bounded
    PROVE  Largest(what) \in Nat /\ \A b \in Budgets : b[what] <= Largest(what)
<1> DEFINE S == {b[what] : b \in Budgets}
<1>1. PICK most \in Budgets : \A b \in Budgets : b[what] <= most[what]
  BY ServerConstants DEF ServerConstants
<1>2. most[what] \in S /\ \A n \in S : most[what] >= n
  <2>1. \A b \in Budgets : b[what] \in Nat
    BY ServerConstants DEF ServerConstants
  <2> QED BY <1>1, <2>1
<1>3. Max(S) \in S /\ \A n \in S : Max(S) >= n
  BY <1>2 DEF Max
<1>4. \A b \in Budgets : b[what] \in S /\ b[what] \in Nat
  BY ServerConstants DEF ServerConstants
<1>5. Largest(what) = Max(S)
  BY DEF Largest
<1>6. \A n \in S : n \in Nat
  BY <1>4
<1> HIDE DEF S
<1>7. Max(S) \in Nat /\ \A b \in Budgets : b[what] <= Max(S)
  BY <1>3, <1>4, <1>6
<1> QED BY <1>5, <1>7

LEMMA BoundsAreNumbers ==
    /\ MaxConnections \in Nat /\ MaxFrames \in Nat /\ Largest("sends") \in Nat
    /\ Conn \subseteq Nat \ {0}
BY LargestBounds DEF MaxConnections, MaxFrames, Bounded, Conn

LEMMA ElementType ==
    ASSUME NEW S, NEW s \in Seq(S), NEW i \in DOMAIN s
    PROVE  s[i] \in S
  OBVIOUS

\* Frames(n) are the sequences of at most n frames.
LEMMA FramesAreSequences ==
    ASSUME NEW n \in Nat, NEW s
    PROVE  s \in Frames(n) <=> s \in Seq(Frame) /\ Len(s) <= n
<1>1. ASSUME s \in Frames(n) PROVE s \in Seq(Frame) /\ Len(s) <= n
  <2>1. PICK k \in 0..n : s \in [1..k -> Frame]
    BY <1>1 DEF Frames
  <2> QED BY <2>1
<1>2. ASSUME s \in Seq(Frame), Len(s) <= n PROVE s \in Frames(n)
  <2>1. Len(s) \in 0..n /\ s \in [1..Len(s) -> Frame]
    BY <1>2
  <2> QED BY <2>1 DEF Frames
<1> QED BY <1>1, <1>2

LEMMA OneCall ==
    ASSUME NEW call \in Call
    PROVE  <<call>> \in Seq(Call) /\ <<>> \in Seq(Call)
           /\ Len(<<call>>) = 1 /\ <<call>>[1] = call /\ DOMAIN <<call>> = {1}
  OBVIOUS

\* A call in front of the others.
LEMMA PushedCall ==
    ASSUME NEW s \in Seq(Call), NEW call \in Call
    PROVE  /\ <<call>> \o s \in Seq(Call) /\ <<call>> \o s # <<>>
           /\ Len(<<call>> \o s) = Len(s) + 1
           /\ (<<call>> \o s)[1] = call
           /\ \A i \in 1..Len(s) : (<<call>> \o s)[i + 1] = s[i]
           /\ \A i \in 2..(Len(s) + 1) : (<<call>> \o s)[i] = s[i - 1]
  OBVIOUS

LEMMA RestOfCalls ==
    ASSUME NEW s \in Seq(Call), s # <<>>
    PROVE  /\ Tail(s) \in Seq(Call) /\ Len(s) \in Nat /\ Len(s) >= 1
           /\ Len(Tail(s)) = Len(s) - 1
           /\ \A i \in 1..(Len(s) - 1) : Tail(s)[i] = s[i + 1]
           /\ s[1] \in Call
  OBVIOUS

\* The same calls, but for the innermost.
LEMMA ReplacedCall ==
    ASSUME NEW s \in Seq(Call), s # <<>>, NEW call \in Call
    PROVE  /\ <<call>> \o Tail(s) \in Seq(Call) /\ Len(<<call>> \o Tail(s)) = Len(s)
           /\ (<<call>> \o Tail(s))[1] = call /\ <<call>> \o Tail(s) # <<>>
           /\ \A i \in 2..Len(s) : (<<call>> \o Tail(s))[i] = s[i]
<1>1. /\ Tail(s) \in Seq(Call) /\ Len(s) \in Nat /\ Len(s) >= 1
      /\ Len(Tail(s)) = Len(s) - 1
      /\ \A i \in 1..(Len(s) - 1) : Tail(s)[i] = s[i + 1]
  BY RestOfCalls
<1> DEFINE t == Tail(s)
<1> HIDE DEF t
<1>2. /\ <<call>> \o t \in Seq(Call) /\ Len(<<call>> \o t) = Len(t) + 1
      /\ (<<call>> \o t)[1] = call /\ <<call>> \o t # <<>>
      /\ \A i \in 2..(Len(t) + 1) : (<<call>> \o t)[i] = t[i - 1]
  BY <1>1, PushedCall DEF t
<1>3. \A i \in 2..Len(s) : (<<call>> \o t)[i] = s[i]
  <2> TAKE i \in 2..Len(s)
  <2>1. i - 1 \in 1..(Len(s) - 1) /\ i - 1 + 1 = i
    BY <1>1
  <2> QED BY <1>1, <1>2, <2>1 DEF t
<1> QED BY <1>1, <1>2, <1>3 DEF t

\* What is called begins on no connection it would have disconnected.
LEMMA InvokedCall ==
    ASSUME NEW place \in {"receive", "dispatch", "after_read", "reap", "application"},
           NEW id \in {0} \cup Conn
    PROVE  /\ Invoke(place, id) \in Call
           /\ Invoke(place, id).at = place /\ Invoke(place, id).id = id /\ Invoke(place, id).gone = 0
           /\ Invoke(place, id).events = {} /\ Invoke(place, id).result = "none"
BY DEF Invoke, Call, Event

----------------------------------------------------------------------------
(* What steps do to the connections *)

\* Connection c was registered and is given up; nothing else changes.
Retired(c, why) ==
    /\ c \in DOMAIN connections /\ connections[c].registered /\ why \in Reason
    /\ DOMAIN connections' = DOMAIN connections
    /\ connections'[c] \in Connection /\ ~connections'[c].registered
    /\ connections'[c].rx = connections[c].rx
    /\ \A x \in DOMAIN connections : x # c => connections'[x] = connections[x]
    /\ ready' = ready \ {c}
    /\ reap_queue' = Append(reap_queue, [id |-> c, why |-> why])

\* Nothing of it is there or not, or given up or not.
Untouched ==
    /\ DOMAIN connections' = DOMAIN connections
    /\ \A x \in DOMAIN connections : connections'[x].registered = connections[x].registered
    /\ reap_queue' = reap_queue

LEMMA RetireEffect ==
    ASSUME NEW c \in DOMAIN connections, connections[c].registered, NEW conn \in Connection,
           conn.rx = connections[c].rx, NEW why \in Reason, Retire(c, conn, why)
    PROVE  Retired(c, why) /\ connections'[c].tx = conn.tx
BY DEF Retire, Retired, Connection

LEMMA ScheduleReapEffect ==
    ASSUME NEW c \in DOMAIN connections, connections[c] \in Connection, NEW why \in Reason,
           ScheduleReap(c, why)
    PROVE  \/ Retired(c, why) /\ connections'[c].tx = connections[c].tx
           \/ ~connections[c].registered /\ UNCHANGED <<connections, ready, reap_queue>>
BY RetireEffect DEF ScheduleReap, Connection

LEMMA UpdateEffect ==
    ASSUME NEW c \in DOMAIN connections, NEW conn \in Connection, NEW s,
           UpdateInterests(c, conn, s)
    PROVE  /\ DOMAIN connections' = DOMAIN connections /\ reap_queue' = reap_queue
           /\ connections'[c] \in Connection
           /\ connections'[c].registered = conn.registered
           /\ connections'[c].rx = conn.rx /\ connections'[c].tx = conn.tx
           /\ connections'[c].writes = (conn.tx > 0)
           /\ \A x \in DOMAIN connections : x # c => connections'[x] = connections[x]
           /\ ready' = IF conn.writes = (conn.tx > 0) THEN ready
                       ELSE Polled(c, s, conn.tx > 0)
<1>1. CASE conn.writes = WantsWrites(conn)
  BY <1>1 DEF UpdateInterests, WantsWrites, Connection
<1>2. CASE conn.writes # WantsWrites(conn)
  <2> DEFINE after == [conn EXCEPT !.writes = WantsWrites(conn)]
  <2>1. WantsWrites(conn) \in BOOLEAN /\ WantsWrites(conn) = (conn.tx > 0)
    BY DEF WantsWrites
  <2>2. /\ after \in Connection /\ after.registered = conn.registered
        /\ after.rx = conn.rx /\ after.tx = conn.tx /\ after.writes = WantsWrites(conn)
    <3> HIDE <1>2
    <3> DEFINE w == WantsWrites(conn)
    <3>1. w \in BOOLEAN
      BY <2>1
    <3> HIDE DEF w
    <3> QED BY <3>1 DEF w, Connection
  <2>3. /\ connections' = [connections EXCEPT ![c] = after]
        /\ ready' = Polled(c, s, WantsWrites(conn)) /\ reap_queue' = reap_queue
    BY <1>2 DEF UpdateInterests
  <2> HIDE DEF after
  <2>4. conn.writes # (conn.tx > 0) /\ ready' = Polled(c, s, conn.tx > 0)
    BY <1>2, <2>1, <2>3
  <2> QED BY <2>1, <2>2, <2>3, <2>4
<1> QED BY <1>1, <1>2

----------------------------------------------------------------------------
(* The call in progress *)

\* Only the reactor calls handlers, so a handler that runs is the only call.
LEMMA HandlerRuns ==
    ASSUME StackShape, SequencesTyped, stack # <<>>, Top.at \in Handling
    PROVE  /\ Len(stack) = 1 /\ DOMAIN stack = {1} /\ Bottom = Top /\ Top \in Call
           /\ Top.id \in Conn /\ Handled(Top.id)
<1>1. Len(stack) \in Nat /\ DOMAIN stack = 1..Len(stack) /\ Len(stack) >= 1
  BY DEF SequencesTyped
<1>2. 1 \in DOMAIN stack /\ stack[1] \in Call
  BY <1>1, ElementType DEF SequencesTyped
<1>3. Len(stack) = 1 /\ stack[1].id # 0
  BY <1>2 DEF StackShape, Top
<1> QED BY <1>1, <1>2, <1>3 DEF Top, Bottom, Handled, Call

LEMMA TopIsCall ==
    ASSUME SequencesTyped, stack # <<>>
    PROVE  Top \in Call /\ 1 \in DOMAIN stack /\ Len(stack) \in Nat /\ Len(stack) >= 1
<1>1. 1 \in DOMAIN stack /\ Len(stack) \in Nat /\ Len(stack) >= 1
  BY DEF SequencesTyped
<1> QED BY <1>1, ElementType DEF SequencesTyped, Top

----------------------------------------------------------------------------
(* Types, and the steps that leave ids and the session layer's view alone *)

TypeInv == ServerTypeOK /\ SequencesTyped /\ WithinBudget

BudgetOK ==
    budget \in [Bounded -> Nat] /\ \A what \in Bounded : budget[what] <= Largest(what)

ConnectionsTyped ==
    \A c \in DOMAIN connections :
        /\ connections[c] \in Connection
        /\ connections[c].tx + budget.sends <= Largest("sends")

LEMMA SpendEffect ==
    ASSUME BudgetOK, NEW what \in Bounded, Spend(what)
    PROVE  /\ BudgetOK' /\ budget'[what] = budget[what] - 1
           /\ \A other \in Bounded : other # what => budget'[other] = budget[other]
<1>1. \A other \in Bounded : Largest(other) \in Nat
  BY LargestBounds
<1>2. /\ budget' \in [Bounded -> Nat] /\ budget'[what] = budget[what] - 1
      /\ \A other \in Bounded : other # what => budget'[other] = budget[other]
  BY DEF Spend, BudgetOK
<1>3. \A other \in Bounded : budget'[other] <= Largest(other)
  <2> TAKE other \in Bounded
  <2>1. budget[other] \in Nat /\ budget[other] <= Largest(other) /\ Largest(other) \in Nat
    BY <1>1 DEF BudgetOK
  <2> QED BY <1>2, <2>1
<1> QED BY <1>2, <1>3 DEF BudgetOK

\* The parts of the type invariant that a step without new connections has to show.
LEMMA TypesKept ==
    ASSUME TypeInv, UNCHANGED <<next_id, status, reason>>,
           DOMAIN connections' = DOMAIN connections, ConnectionsTyped',
           listening' \in BOOLEAN, reap_queue' \in Seq(Entry), stack' \in Seq(Call),
           socket' \in [Conn -> Socket], ready' \subseteq Conn, heard' \in [Conn -> Seq(1..MaxFrames)],
           BudgetOK'
    PROVE  TypeInv'
<1>1. \A i \in DOMAIN reap_queue' : reap_queue'[i] \in [id : Conn, why : Reason]
  BY ElementType DEF Entry
<1>2. \A i \in DOMAIN stack' : stack'[i] \in Call
  BY ElementType
<1>3. ServerTypeOK'
  BY <1>1, <1>2 DEF TypeInv, ServerTypeOK, ConnectionsTyped
<1> QED BY <1>3
         DEF TypeInv, SequencesTyped, WithinBudget, BudgetOK, ConnectionsTyped

LEMMA TypesUsed ==
    ASSUME TypeInv
    PROVE  /\ BudgetOK /\ ConnectionsTyped /\ SequencesTyped
           /\ listening \in BOOLEAN /\ next_id \in 1..(MaxConnections + 1)
           /\ DOMAIN connections \subseteq 1..(next_id - 1) /\ DOMAIN connections \subseteq Conn
           /\ socket \in [Conn -> Socket] /\ ready \subseteq Conn
           /\ heard \in [Conn -> Seq(1..MaxFrames)]
           /\ reap_queue \in Seq(Entry) /\ stack \in Seq(Call)
           /\ \A c \in DOMAIN connections : connections[c] \in Connection
<1>1. DOMAIN connections \subseteq Conn
  BY BoundsAreNumbers DEF TypeInv, ServerTypeOK, Conn
<1> QED BY <1>1 DEF TypeInv, ServerTypeOK, WithinBudget, BudgetOK, ConnectionsTyped, SequencesTyped

\* No id is issued, nobody is told of a connection, and at most one is given up.
QuietStep ==
    /\ UNCHANGED <<next_id, status, reason>>
    /\ \/ Untouched /\ \A x \in ready' : x \in ready \/ Active(x)
       \/ \E c \in DOMAIN connections, why \in Reason : Retired(c, why)

\* A connection that is given up leaves every type as it was.
LEMMA RetiredTypes ==
    ASSUME TypeInv, UNCHANGED <<next_id, status, reason, listening, heard>>,
           NEW c \in DOMAIN connections, NEW why \in Reason, Retired(c, why),
           stack' \in Seq(Call), socket' \in [Conn -> Socket], BudgetOK',
           connections'[c].tx + budget'.sends <= Largest("sends"),
           budget'.sends <= budget.sends
    PROVE  TypeInv' /\ QuietStep
<1> USE TypesUsed
<1>1. [id |-> c, why |-> why] \in Entry
  BY DEF Entry
<1>2. reap_queue' \in Seq(Entry) /\ ready' \subseteq Conn
  BY <1>1 DEF Retired
<1>3. ConnectionsTyped'
  <2> SUFFICES ASSUME NEW x \in DOMAIN connections
               PROVE  /\ connections'[x] \in Connection
                      /\ connections'[x].tx + budget'.sends <= Largest("sends")
    BY DEF ConnectionsTyped, Retired
  <2>1. CASE x = c
    BY <2>1 DEF Retired
  <2>2. CASE x # c
    <3>1. connections'[x] = connections[x] /\ connections[x] \in Connection
          /\ connections[x].tx + budget.sends <= Largest("sends")
      BY <2>2 DEF Retired, ConnectionsTyped
    <3>2. connections[x].tx \in Int /\ budget.sends \in Int /\ budget'.sends \in Int
          /\ Largest("sends") \in Int
      BY <3>1, BoundsAreNumbers DEF Connection, BudgetOK, Bounded
    <3>3. budget'.sends <= budget.sends
      OBVIOUS
    <3> QED BY ONLY <3>1, <3>2, <3>3
  <2> QED BY <2>1, <2>2
<1>4. TypeInv'
  BY <1>2, <1>3, TypesKept DEF Retired
<1> QED BY <1>4 DEF QuietStep

\* A connection that stays as it is, or changes without being given up.
LEMMA UntouchedTypes ==
    ASSUME TypeInv, UNCHANGED <<next_id, status, reason, listening, reap_queue>>,
           DOMAIN connections' = DOMAIN connections, NEW c \in DOMAIN connections,
           \A x \in DOMAIN connections : x # c => connections'[x] = connections[x],
           connections'[c] \in Connection,
           connections'[c].registered = connections[c].registered,
           connections'[c].tx + budget'.sends <= Largest("sends"),
           budget'.sends <= budget.sends, BudgetOK',
           stack' \in Seq(Call), socket' \in [Conn -> Socket],
           ready' \subseteq Conn, \A x \in ready' : x \in ready \/ Active(x),
           heard' \in [Conn -> Seq(1..MaxFrames)]
    PROVE  TypeInv' /\ QuietStep
<1> USE TypesUsed
<1>1. ConnectionsTyped'
  <2> SUFFICES ASSUME NEW x \in DOMAIN connections
               PROVE  /\ connections'[x] \in Connection
                      /\ connections'[x].tx + budget'.sends <= Largest("sends")
    BY DEF ConnectionsTyped
  <2>1. CASE x = c
    BY <2>1
  <2>2. CASE x # c
    <3>1. connections'[x] = connections[x] /\ connections[x] \in Connection
          /\ connections[x].tx + budget.sends <= Largest("sends")
      BY <2>2 DEF ConnectionsTyped
    <3>2. connections[x].tx \in Int /\ budget.sends \in Int /\ budget'.sends \in Int
          /\ Largest("sends") \in Int
      BY <3>1, BoundsAreNumbers DEF Connection, BudgetOK, Bounded
    <3>3. budget'.sends <= budget.sends
      OBVIOUS
    <3> QED BY ONLY <3>1, <3>2, <3>3
  <2> QED BY <2>1, <2>2
<1>2. reap_queue' \in Seq(Entry)
  OBVIOUS
<1>3. TypeInv'
  BY <1>1, <1>2, TypesKept
<1>4. \A x \in DOMAIN connections : connections'[x].registered = connections[x].registered
  OBVIOUS
<1> QED BY <1>3, <1>4 DEF QuietStep, Untouched

\* The connections stay exactly as they are.
LEMMA SameTypes ==
    ASSUME TypeInv, UNCHANGED <<next_id, status, reason, listening, reap_queue, connections>>,
           budget'.sends <= budget.sends, BudgetOK',
           stack' \in Seq(Call), socket' \in [Conn -> Socket],
           ready' \subseteq Conn, \A x \in ready' : x \in ready \/ Active(x),
           heard' \in [Conn -> Seq(1..MaxFrames)]
    PROVE  TypeInv' /\ QuietStep
<1> USE TypesUsed
<1>1. ConnectionsTyped'
  <2> SUFFICES ASSUME NEW x \in DOMAIN connections
               PROVE  connections[x].tx + budget'.sends <= Largest("sends")
    BY DEF ConnectionsTyped
  <2>1. /\ connections[x] \in Connection
        /\ connections[x].tx + budget.sends <= Largest("sends")
    BY DEF ConnectionsTyped
  <2>2. connections[x].tx \in Int /\ budget.sends \in Int /\ budget'.sends \in Int
        /\ Largest("sends") \in Int
    BY <2>1, BoundsAreNumbers DEF Connection, BudgetOK, Bounded
  <2> QED BY <2>1, <2>2
<1>2. reap_queue' \in Seq(Entry)
  OBVIOUS
<1>3. TypeInv'
  BY <1>1, <1>2, TypesKept
<1> QED BY <1>3 DEF QuietStep, Untouched

LEMMA SameBudget ==
    ASSUME TypeInv, UNCHANGED budget
    PROVE  BudgetOK' /\ budget'.sends <= budget.sends
BY TypesUsed DEF BudgetOK, Bounded

\* What is left of another bound is spent.
LEMMA SpentBudget ==
    ASSUME TypeInv, NEW what \in Bounded \ {"sends"}, Spend(what)
    PROVE  BudgetOK' /\ budget'.sends <= budget.sends /\ budget'.sends = budget.sends
<1>1. BudgetOK
  BY TypesUsed
<1>2. /\ BudgetOK' /\ budget'[what] = budget[what] - 1
      /\ \A other \in Bounded : other # what => budget'[other] = budget[other]
  BY <1>1, SpendEffect
<1>3. "sends" \in Bounded /\ "sends" # what /\ budget["sends"] \in Nat
  BY <1>1 DEF BudgetOK, Bounded
<1> QED BY <1>2, <1>3

----------------------------------------------------------------------------
(* Types, action by action *)

LEMMA EventTypes ==
    ASSUME ServerInv, NEW c \in Conn, OnConnectionEvent(c)
    PROVE  TypeInv' /\ QuietStep
<1> DEFINE events == Readiness(socket[c], connections[c].writes)
           place == IF "readable" \in events THEN "receive" ELSE "after_read"
           call == [Invoke(place, c) EXCEPT !.events = events]
<1>1. TypeInv
  BY DEF ServerInv, TypeInv
<1>2. events \in SUBSET Event /\ Invoke(place, c) \in Call
  BY InvokedCall DEF Readiness
<1>3. call \in Call
  BY <1>2 DEF Call
<1>4. stack' = <<>> \/ stack' = <<call>>
  BY DEF OnConnectionEvent
<1> HIDE DEF call
<1>5. stack' \in Seq(Call)
  BY <1>3, <1>4, OneCall
<1> QED BY <1>1, <1>5, TypesUsed, SameTypes, SameBudget DEF OnConnectionEvent, portVars

LEMMA DispatchTypes ==
    ASSUME ServerInv, DispatchFrame
    PROVE  TypeInv' /\ QuietStep
<1> DEFINE c == Top.id
<1>1. TypeInv /\ StackShape /\ FramesAccounted
  BY DEF ServerInv, TypeInv
<1>2. stack # <<>> /\ Active(c) /\ connections[c].rx # <<>> /\ Top.at \in Handling
  BY DEF DispatchFrame, Running, Handling
<1>3. c \in Conn /\ c \in DOMAIN connections /\ connections[c] \in Connection
      /\ connections[c].tx + budget.sends <= Largest("sends")
  BY <1>1, <1>2, HandlerRuns, TypesUsed DEF Active, ConnectionsTyped
<1>4. socket' \in [Conn -> Socket] /\ BudgetOK' /\ budget'.sends <= budget.sends
  BY <1>1, TypesUsed, SameBudget DEF DispatchFrame
<1>5. CASE Head(connections[c].rx).kind = "good" /\ connections' = [connections EXCEPT ![c].rx = Tail(@)]
           /\ heard' = [heard EXCEPT ![c] = Append(@, Head(connections[c].rx).number)]
           /\ Calls(Invoke("application", c))
           /\ UNCHANGED <<reap_queue, ready>>
  <2> DEFINE rx == connections[c].rx
  <2>1. RingCapacity \in Nat
    BY ServerConstants DEF ServerConstants
  <2>2. rx \in Seq(Frame) /\ Len(rx) <= RingCapacity /\ Len(rx) >= 1
    BY <1>2, <1>3, <2>1, FramesAreSequences DEF Connection
  <2>3. Tail(rx) \in Frames(RingCapacity)
    <3>1. Tail(rx) \in Seq(Frame) /\ Len(Tail(rx)) <= RingCapacity
      BY <2>1, <2>2
    <3> QED BY <2>1, <3>1, FramesAreSequences
  <2>4. connections'[c] \in Connection /\ connections'[c].tx = connections[c].tx
        /\ connections'[c].registered = connections[c].registered
    BY <1>3, <1>5, <2>3 DEF Connection
  <2>5. Append(heard[c], Head(rx).number) \in Seq(1..MaxFrames)
    <3>1. Head(rx) \in Frame
      BY <2>2
    <3>2. Head(rx).number \in 1..MaxFrames /\ heard[c] \in Seq(1..MaxFrames)
      BY <1>1, <1>3, <3>1, TypesUsed DEF Frame
    <3> QED BY <3>2
  <2>6. heard' \in [Conn -> Seq(1..MaxFrames)]
    <3> DEFINE more == Append(heard[c], Head(rx).number)
    <3>1. heard' = [heard EXCEPT ![c] = more] /\ more \in Seq(1..MaxFrames)
      BY <1>5, <2>5
    <3> HIDE DEF more, c
    <3> QED BY <1>1, <1>3, <3>1, TypesUsed
  <2>7. stack' \in Seq(Call)
    <3>1. Invoke("application", c) \in Call
      BY <1>3, InvokedCall
    <3> QED BY <1>1, <1>5, <3>1, PushedCall, TypesUsed DEF Calls
  <2>8. /\ DOMAIN connections' = DOMAIN connections
        /\ \A x \in DOMAIN connections : x # c => connections'[x] = connections[x]
    BY <1>5
  <2>9. connections'[c].tx + budget'.sends <= Largest("sends")
    BY <1>3, <2>4 DEF DispatchFrame
  <2>10. UNCHANGED <<next_id, status, reason, listening, reap_queue, ready>>
    BY <1>5 DEF DispatchFrame
  <2> HIDE DEF c
  <2> QED BY <1>1, <1>3, <1>4, <2>4, <2>6, <2>7, <2>8, <2>9, <2>10, UntouchedTypes, TypesUsed
<1>6. CASE ScheduleReap(c, "frame_error") /\ UNCHANGED <<heard, stack>>
  <2>1. Retired(c, "frame_error") /\ connections'[c].tx = connections[c].tx
    BY <1>2, <1>3, <1>6, ScheduleReapEffect DEF Reason, Active
  <2>2. connections'[c].tx + budget'.sends <= Largest("sends")
    BY <1>3, <2>1 DEF DispatchFrame
  <2>3. UNCHANGED <<next_id, status, reason, listening, heard>>
    BY <1>6 DEF DispatchFrame
  <2> HIDE DEF c
  <2> QED BY <1>1, <1>3, <1>4, <1>6, <2>1, <2>2, <2>3, RetiredTypes, TypesUsed DEF Reason
<1> QED BY <1>5, <1>6 DEF DispatchFrame

\* What is taken goes from the front of what arrived to the end of the ring.
LEMMA RingTakes ==
    ASSUME NEW ring \in Frames(RingCapacity), NEW come \in Frames(MaxFrames),
           NEW taken \in Nat, taken <= Len(come), Len(ring) + taken <= RingCapacity
    PROVE  /\ ring \o SubSeq(come, 1, taken) \in Frames(RingCapacity)
           /\ Len(ring \o SubSeq(come, 1, taken)) = Len(ring) + taken
           /\ SubSeq(come, taken + 1, Len(come)) \in Frames(MaxFrames)
           /\ Len(SubSeq(come, taken + 1, Len(come))) = Len(come) - taken
<1>1. RingCapacity \in Nat /\ MaxFrames \in Nat
  BY ServerConstants, BoundsAreNumbers DEF ServerConstants
<1>2. /\ ring \in Seq(Frame) /\ Len(ring) <= RingCapacity /\ Len(ring) \in Nat
      /\ come \in Seq(Frame) /\ Len(come) <= MaxFrames /\ Len(come) \in Nat
  BY <1>1, FramesAreSequences
<1>3. /\ SubSeq(come, 1, taken) \in Seq(Frame) /\ Len(SubSeq(come, 1, taken)) = taken
  BY <1>2
<1> DEFINE rx == ring \o SubSeq(come, 1, taken)
           left == SubSeq(come, taken + 1, Len(come))
<1>4. left \in Seq(Frame) /\ Len(left) = Len(come) - taken
  BY <1>2
<1>5. rx \in Seq(Frame) /\ Len(rx) = Len(ring) + taken
  BY <1>2, <1>3
<1> HIDE DEF rx, left
<1>6. Len(rx) <= RingCapacity /\ Len(left) <= MaxFrames
  BY <1>1, <1>2, <1>4, <1>5
<1>7. rx \in Frames(RingCapacity) /\ left \in Frames(MaxFrames)
  BY <1>1, <1>4, <1>5, <1>6, FramesAreSequences
<1> QED BY <1>4, <1>5, <1>7 DEF rx, left

\* What Receive does to its connection and its socket.
LEMMA ReceiveEffect ==
    ASSUME ServerInv, Receive
    PROVE  LET c == Top.id  s == socket[c]  ring == connections[c].rx IN
           /\ c \in Conn /\ c \in DOMAIN connections /\ Active(c) /\ stack # <<>>
           /\ Len(stack) = 1 /\ Top.at = "receive" /\ Bottom = Top /\ Top \in Call
           /\ DOMAIN connections' = DOMAIN connections
           /\ \A x \in DOMAIN connections : x # c => connections'[x] = connections[x]
           /\ connections'[c] \in Connection
           /\ connections'[c].registered = connections[c].registered
           /\ connections'[c].writes = connections[c].writes
           /\ connections'[c].tx = connections[c].tx
           /\ socket' \in [Conn -> Socket]
           /\ \A x \in Conn : x # c => socket'[x] = socket[x]
           /\ socket'[c].sent = s.sent /\ socket'[c].closed = s.closed
           /\ socket'[c].broken = s.broken /\ socket'[c].room = s.room
           /\ Len(connections'[c].rx) + Len(socket'[c].arrived) = Len(ring) + Len(s.arrived)
           /\ \E call \in Call :
                /\ call = [Top EXCEPT !.at = "dispatch",
                                      !.result = ReceiveResult(Len(connections'[c].rx), s)]
                /\ GoTo(call)
           /\ Len(connections'[c].rx) # RingCapacity => socket'[c].arrived = <<>>
           /\ Len(connections'[c].rx) \in Nat
           /\ \E taken \in Nat :
                /\ taken <= Len(s.arrived)
                /\ connections'[c].rx = ring \o SubSeq(s.arrived, 1, taken)
                /\ socket'[c].arrived = SubSeq(s.arrived, taken + 1, Len(s.arrived))
<1> DEFINE c == Top.id
           s == socket[c]
           ring == connections[c].rx
           taken == Taken(ring, s)
<1>1. TypeInv /\ StackShape /\ stack # <<>> /\ Top.at = "receive" /\ Top.at \in Handling
  BY DEF ServerInv, TypeInv, Receive, Running, Handling
<1>2. /\ c \in Conn /\ Len(stack) = 1 /\ Bottom = Top /\ Top \in Call
  BY <1>1, HandlerRuns, TypesUsed
<1>3. Active(c) /\ c \in DOMAIN connections
  BY <1>1, <1>2 DEF StackShape, Active
<1>4. connections[c] \in Connection /\ s \in Socket
  BY <1>1, <1>2, <1>3, TypesUsed
<1>5. ring \in Frames(RingCapacity) /\ s.arrived \in Frames(MaxFrames)
  BY <1>4 DEF Connection, Socket
<1>6. taken = IF Len(s.arrived) <= RingCapacity - Len(ring) THEN Len(s.arrived)
              ELSE RingCapacity - Len(ring)
  BY DEF Taken
<1> DEFINE rx == ring \o SubSeq(s.arrived, 1, taken)
           left == SubSeq(s.arrived, taken + 1, Len(s.arrived))
<1>7. /\ taken \in Nat /\ taken <= Len(s.arrived) /\ Len(ring) + taken <= RingCapacity
      /\ rx \in Frames(RingCapacity) /\ Len(rx) = Len(ring) + taken
      /\ left \in Frames(MaxFrames) /\ Len(left) = Len(s.arrived) - taken
      /\ Len(ring) + taken # RingCapacity => taken = Len(s.arrived)
  <2>1. RingCapacity \in Nat /\ MaxFrames \in Nat
    BY ServerConstants, BoundsAreNumbers DEF ServerConstants
  <2>2. Len(ring) \in Nat /\ Len(ring) <= RingCapacity /\ Len(s.arrived) \in Nat
    BY <1>5, <2>1, FramesAreSequences
  <2>3. /\ taken \in Nat /\ taken <= Len(s.arrived) /\ Len(ring) + taken <= RingCapacity
        /\ Len(ring) + taken # RingCapacity => taken = Len(s.arrived)
    <3> HIDE DEF s, ring, taken
    <3> QED BY <1>6, <2>1, <2>2
  <2> DEFINE come == s.arrived
  <2>4. come \in Frames(MaxFrames) /\ taken <= Len(come)
    BY <1>5, <2>3
  <2>5. rx = ring \o SubSeq(come, 1, taken) /\ left = SubSeq(come, taken + 1, Len(come))
    OBVIOUS
  <2> HIDE DEF taken, ring, come, rx, left
  <2>6. /\ rx \in Frames(RingCapacity) /\ Len(rx) = Len(ring) + taken
        /\ left \in Frames(MaxFrames) /\ Len(left) = Len(come) - taken
    BY <1>5, <2>3, <2>4, <2>5, RingTakes
  <2> QED BY <2>3, <2>6 DEF come
<1>8. Len(ring) \in Nat /\ Len(s.arrived) \in Nat /\ s.arrived \in Seq(Frame)
  BY <1>5, FramesAreSequences, ServerConstants, BoundsAreNumbers DEF ServerConstants
<1>9. Len(rx) # RingCapacity => left = <<>>
  BY <1>7, <1>8
<1>10. /\ connections' = [connections EXCEPT ![c].rx = rx]
       /\ socket' = [socket EXCEPT ![c].arrived = left]
       /\ GoTo([Top EXCEPT !.at = "dispatch", !.result = ReceiveResult(Len(rx), s)])
  BY <1>1, <1>2, <1>7, TypesUsed DEF Receive, Received
<1> HIDE DEF taken, ring, s, rx, left
<1>11. /\ DOMAIN connections' = DOMAIN connections
       /\ \A x \in DOMAIN connections : x # c => connections'[x] = connections[x]
       /\ connections'[c] = [connections[c] EXCEPT !.rx = rx]
  BY <1>3, <1>10
<1>12. /\ connections'[c] \in Connection /\ connections'[c].rx = rx
       /\ connections'[c].registered = connections[c].registered
       /\ connections'[c].writes = connections[c].writes
       /\ connections'[c].tx = connections[c].tx
  BY <1>4, <1>7, <1>11 DEF Connection
<1>13. /\ socket'[c] = [socket[c] EXCEPT !.arrived = left]
       /\ \A x \in Conn : x # c => socket'[x] = socket[x]
       /\ socket' = [x \in Conn |-> IF x = c THEN [socket[c] EXCEPT !.arrived = left] ELSE socket[x]]
  BY <1>1, <1>2, <1>10, TypesUsed
<1>14. /\ socket'[c] \in Socket /\ socket'[c].arrived = left
       /\ socket'[c].sent = s.sent /\ socket'[c].closed = s.closed
       /\ socket'[c].broken = s.broken /\ socket'[c].room = s.room
  <2>1. socket[c] \in Socket
    BY <1>4 DEF s
  <2>2. left \in Frames(MaxFrames)
    BY <1>7
  <2> QED BY <1>13, <2>1, <2>2 DEF Socket, s
<1>15. socket' \in [Conn -> Socket]
  <2>1. \A x \in Conn : socket[x] \in Socket
    BY <1>1, TypesUsed
  <2> QED BY <1>13, <1>14, <2>1
<1>16. [Top EXCEPT !.at = "dispatch", !.result = ReceiveResult(Len(rx), s)] \in Call
  <2>1. ReceiveResult(Len(rx), s) \in {"would_block", "full", "peer_closed", "error"}
    BY DEF ReceiveResult
  <2> QED BY <1>2, <2>1 DEF Call
<1>17. Len(rx) + Len(left) = Len(ring) + Len(s.arrived) /\ Len(rx) \in Nat
  <2> DEFINE a == Len(rx)
             b == Len(left)
             m == Len(ring)
             n == Len(s.arrived)
  <2>1. a = m + taken /\ b = n - taken /\ m \in Nat /\ n \in Nat /\ taken \in Nat
    BY <1>7, <1>8
  <2> HIDE DEF a, b, m, n
  <2>2. a + b = m + n /\ a \in Nat
    BY <2>1
  <2> QED BY <2>2 DEF a, b, m, n
<1>18. \E n \in Nat : /\ n <= Len(s.arrived)
                       /\ connections'[c].rx = ring \o SubSeq(s.arrived, 1, n)
                       /\ socket'[c].arrived = SubSeq(s.arrived, n + 1, Len(s.arrived))
  <2>1. /\ connections'[c].rx = ring \o SubSeq(s.arrived, 1, taken)
        /\ socket'[c].arrived = SubSeq(s.arrived, taken + 1, Len(s.arrived))
    BY <1>12, <1>14 DEF rx, left
  <2> QED BY <1>7, <2>1
<1> QED
  BY <1>1, <1>2, <1>3, <1>9, <1>10, <1>11, <1>12, <1>13, <1>14, <1>15, <1>16, <1>17, <1>18
  DEF s, ring

LEMMA ReceiveTypes ==
    ASSUME ServerInv, Receive
    PROVE  TypeInv' /\ QuietStep
<1> DEFINE c == Top.id
<1>1. TypeInv
  BY DEF ServerInv, TypeInv
<1>2. /\ c \in DOMAIN connections /\ stack # <<>>
      /\ DOMAIN connections' = DOMAIN connections
      /\ \A x \in DOMAIN connections : x # c => connections'[x] = connections[x]
      /\ connections'[c] \in Connection
      /\ connections'[c].registered = connections[c].registered
      /\ connections'[c].tx = connections[c].tx
      /\ socket' \in [Conn -> Socket]
      /\ \E call \in Call : GoTo(call)
  BY ReceiveEffect
<1>3. stack' \in Seq(Call)
  BY <1>1, <1>2, TypesUsed, ReplacedCall DEF GoTo
<1>4. UNCHANGED <<next_id, status, reason, listening, reap_queue, ready, heard, budget>>
  BY DEF Receive, portVars
<1>5. BudgetOK' /\ budget'.sends <= budget.sends
  BY <1>1, <1>4, SameBudget
<1>6. connections'[c].tx + budget'.sends <= Largest("sends")
  BY <1>1, <1>2, <1>4, TypesUsed DEF ConnectionsTyped
<1> HIDE DEF c
<1> QED BY <1>1, <1>2, <1>3, <1>4, <1>5, <1>6, UntouchedTypes, TypesUsed

LEMMA AfterDispatchTypes ==
    ASSUME ServerInv, AfterDispatch
    PROVE  /\ TypeInv' /\ QuietStep
           /\ \/ UNCHANGED <<connections, ready, reap_queue>>
              \/ /\ Top.result = "peer_closed" /\ Retired(Top.id, "peer_closed")
                 /\ connections[Top.id].rx = <<>>
              \/ Top.result = "error" /\ Retired(Top.id, "io_error")
<1> DEFINE c == Top.id
           afterRead == [Top EXCEPT !.at = "after_read", !.result = "none"]
           call == IF Active(c) /\ Top.result = "full"
                   THEN [afterRead EXCEPT !.at = "receive"] ELSE afterRead
<1>1. TypeInv /\ StackShape /\ stack # <<>> /\ Top.at \in Handling
  BY DEF ServerInv, TypeInv, AfterDispatch, Running, Handling
<1>2. c \in Conn /\ Top \in Call
  BY <1>1, HandlerRuns, TypesUsed
<1>3. stack' \in Seq(Call)
  <2>1. call \in Call
    BY <1>2 DEF Call
  <2>2. GoTo(call)
    BY DEF AfterDispatch
  <2> HIDE DEF call
  <2> QED BY <1>1, <2>1, <2>2, TypesUsed, ReplacedCall DEF GoTo
<1>4. UNCHANGED <<listening, next_id, socket, status, reason, heard, budget>>
  BY DEF AfterDispatch, portVars
<1>5. BudgetOK' /\ budget'.sends <= budget.sends
  BY <1>1, <1>4, SameBudget
<1>6. socket' \in [Conn -> Socket]
  BY <1>1, <1>4, TypesUsed
<1>7. CASE UNCHANGED <<connections, ready, reap_queue>>
  BY <1>1, <1>3, <1>4, <1>5, <1>6, <1>7, SameTypes, TypesUsed
<1>8. ASSUME NEW why \in {"peer_closed", "io_error"}, Active(c), ScheduleReap(c, why)
      PROVE  TypeInv' /\ QuietStep /\ Retired(c, why)
  <2>1. c \in DOMAIN connections /\ connections[c] \in Connection /\ connections[c].registered
        /\ connections[c].tx + budget.sends <= Largest("sends") /\ why \in Reason
    BY <1>1, <1>8, TypesUsed DEF Active, ConnectionsTyped, Reason
  <2>2. Retired(c, why) /\ connections'[c].tx = connections[c].tx
    BY <1>8, <2>1, ScheduleReapEffect
  <2>3. connections'[c].tx + budget'.sends <= Largest("sends")
    BY <1>4, <2>1, <2>2
  <2> HIDE DEF c
  <2> QED BY <1>1, <1>3, <1>4, <1>5, <1>6, <2>1, <2>2, <2>3, RetiredTypes
<1>9. \/ UNCHANGED <<connections, ready, reap_queue>>
      \/ Active(c) /\ Top.result = "peer_closed" /\ ScheduleReap(c, "peer_closed")
      \/ Active(c) /\ Top.result = "error" /\ ScheduleReap(c, "io_error")
  BY DEF AfterDispatch
<1>10. Active(c) => connections[c].rx = <<>>
  BY DEF AfterDispatch
<1> QED BY <1>7, <1>8, <1>9, <1>10

\* What can be transmitted is: all that is queued, or all that there is room for.
LEMMA TransmitCounts ==
    ASSUME NEW tx \in Nat, NEW room \in Nat
    PROVE  LET n == IF tx < room THEN tx ELSE room IN
           /\ tx - n \in 0..tx /\ room - n \in 0..room
           /\ tx - n > 0 => room - n = 0
  OBVIOUS

\* What AfterRead does to its connection and its socket. One that stays registered is
\* in the ready list if there is anything to do for it.
LEMMA AfterReadEffect ==
    ASSUME ServerInv, AfterRead
    PROVE  LET c == Top.id IN
           /\ c \in Conn /\ Top.at = "after_read" /\ stack # <<>> /\ Len(stack) = 1 /\ Bottom = Top
           /\ GoTo(Invoke("reap", 0)) /\ UNCHANGED <<listening, next_id, portVars>>
           /\ BudgetOK' /\ budget'.sends = budget.sends
           /\ socket' \in [Conn -> Socket] /\ \A x \in Conn : x # c => socket'[x] = socket[x]
           /\ socket'[c].arrived = socket[c].arrived /\ socket'[c].sent = socket[c].sent
           /\ socket'[c].closed = socket[c].closed /\ socket'[c].broken = socket[c].broken
           /\ \/ ~Active(c) /\ UNCHANGED <<connections, ready, reap_queue, socket>>
              \/ /\ Retired(c, "io_error") /\ connections'[c].tx <= connections[c].tx
              \/ /\ Active(c) /\ DOMAIN connections' = DOMAIN connections
                 /\ \A x \in DOMAIN connections : x # c => connections'[x] = connections[x]
                 /\ connections'[c] \in Connection /\ connections'[c].registered
                 /\ connections'[c].rx = connections[c].rx
                 /\ connections'[c].tx <= connections[c].tx
                 /\ connections'[c].writes = (connections'[c].tx > 0)
                 /\ reap_queue' = reap_queue
                  /\ ready \subseteq ready' /\ ready' \subseteq ready \cup {c}
                 /\ Readiness(socket'[c], connections'[c].writes) # {} => c \in ready'
<1> DEFINE c == Top.id
           n == IF "writable" \in Top.events THEN Transmitted(c) ELSE 0
           conn == [connections[c] EXCEPT !.tx = @ - n]
           s == [socket[c] EXCEPT !.room = @ - n]
<1>1. TypeInv /\ StackShape /\ stack # <<>> /\ Top.at \in Handling /\ Top.at = "after_read"
      /\ NoneForgotten
  BY DEF ServerInv, TypeInv, AfterRead, Running, Handling
<1>2. c \in Conn /\ Top \in Call /\ Len(stack) = 1 /\ Bottom = Top /\ Handled(c)
  BY <1>1, HandlerRuns, TypesUsed
<1>3. GoTo(Invoke("reap", 0)) /\ UNCHANGED <<listening, next_id, portVars>>
  BY DEF AfterRead
<1>4. /\ socket[c] \in Socket /\ socket \in [Conn -> Socket]
      /\ socket[c].room \in 0..SocketRoom /\ SocketRoom \in Nat
  BY <1>1, <1>2, TypesUsed, ServerConstants DEF Socket, ServerConstants
<1>5. ASSUME Active(c)
      PROVE  /\ c \in DOMAIN connections /\ connections[c] \in Connection
             /\ connections[c].registered /\ connections[c].tx \in Nat
             /\ conn \in Connection /\ conn.registered /\ conn.rx = connections[c].rx
             /\ conn.writes = connections[c].writes /\ conn.tx <= connections[c].tx
             /\ s \in Socket /\ s.arrived = socket[c].arrived /\ s.sent = socket[c].sent
             /\ s.closed = socket[c].closed /\ s.broken = socket[c].broken
             /\ "writable" \notin Top.events => s.room = socket[c].room
             /\ "writable" \in Top.events /\ conn.tx > 0 => s.room = 0
  <2>1. c \in DOMAIN connections /\ connections[c] \in Connection /\ connections[c].registered
    BY <1>1, <1>5, TypesUsed DEF Active
  <2>2. connections[c].tx \in 0..Largest("sends") /\ Largest("sends") \in Nat
    BY <2>1, BoundsAreNumbers DEF Connection
  <2>3. /\ connections[c].tx - n \in 0..connections[c].tx /\ socket[c].room - n \in 0..socket[c].room
        /\ "writable" \in Top.events /\ connections[c].tx - n > 0 => socket[c].room - n = 0
        /\ "writable" \notin Top.events => n = 0
    <3>1. connections[c].tx \in Nat /\ socket[c].room \in Nat
      BY <1>4, <2>2
    <3>2. CASE "writable" \in Top.events
      <4>1. n = IF connections[c].tx < socket[c].room THEN connections[c].tx ELSE socket[c].room
        BY <3>2 DEF Transmitted
      <4> HIDE DEF n, c
      <4> QED BY <3>1, <3>2, <4>1, TransmitCounts
    <3>3. CASE "writable" \notin Top.events
      BY <3>1, <3>3
    <3> QED BY <3>2, <3>3
  <2> HIDE DEF n, c
  <2>4. /\ conn \in Connection /\ conn.registered /\ conn.rx = connections[c].rx
        /\ conn.writes = connections[c].writes /\ conn.tx = connections[c].tx - n
    <3>1. connections[c].tx - n \in 0..Largest("sends")
      BY <2>2, <2>3
    <3> QED BY <2>1, <3>1 DEF Connection
  <2>5. /\ s \in Socket /\ s.arrived = socket[c].arrived /\ s.sent = socket[c].sent
        /\ s.closed = socket[c].closed /\ s.broken = socket[c].broken /\ s.room = socket[c].room - n
    <3>1. socket[c].room - n \in 0..SocketRoom
      BY <1>4, <2>3
    <3> QED BY <1>4, <3>1 DEF Socket
  <2>6. conn.tx <= connections[c].tx
    BY <2>2, <2>3, <2>4
  <2>7. "writable" \notin Top.events => s.room = socket[c].room
    BY <1>4, <2>3, <2>5
  <2>8. connections[c].tx \in Nat
    BY <2>2
  <2> QED BY <2>1, <2>3, <2>4, <2>5, <2>6, <2>7, <2>8
<1> HIDE DEF c, n, conn, s
<1>6. [socket EXCEPT ![c] = s] \in [Conn -> Socket] \/ ~Active(c)
  BY <1>2, <1>4, <1>5
<1>7. CASE ~Active(c) /\ UNCHANGED <<connections, ready, reap_queue, socket, budget>>
  <2>1. BudgetOK' /\ budget'.sends = budget.sends
    BY <1>1, <1>7, SameBudget
  <2> QED BY <1>1, <1>2, <1>3, <1>4, <1>7, <2>1 DEF c
<1>8. CASE Active(c) /\ ScheduleReap(c, "io_error")
           /\ UNCHANGED socket /\ (UNCHANGED budget \/ Spend("faults"))
  <2>1. BudgetOK' /\ budget'.sends = budget.sends
    BY <1>1, <1>8, SameBudget, SpentBudget DEF Bounded
  <2>2. Retired(c, "io_error") /\ connections'[c].tx = connections[c].tx
    BY <1>5, <1>8, ScheduleReapEffect DEF Reason
  <2>3. connections'[c].tx <= connections[c].tx
    BY <1>5, <1>8, <2>2
  <2> QED BY <1>1, <1>2, <1>3, <1>4, <1>8, <2>1, <2>2, <2>3 DEF c
<1>9. ASSUME Active(c), socket' = [socket EXCEPT ![c] = s]
      PROVE  /\ socket' \in [Conn -> Socket] /\ socket'[c] = s
             /\ \A x \in Conn : x # c => socket'[x] = socket[x]
  BY <1>2, <1>4, <1>6, <1>9
<1>10. CASE Active(c) /\ Spend("faults") /\ InterestsRefused(c, conn)
            /\ socket' = [socket EXCEPT ![c] = s]
  <2>1. BudgetOK' /\ budget'.sends = budget.sends
    BY <1>1, <1>10, SpentBudget DEF Bounded
  <2>2. Retired(c, "io_error") /\ connections'[c].tx = conn.tx
    BY <1>5, <1>10, RetireEffect DEF InterestsRefused, Reason
  <2> QED BY <1>1, <1>2, <1>3, <1>4, <1>5, <1>9, <1>10, <2>1, <2>2 DEF c
<1>11. CASE Active(c) /\ UpdateInterests(c, conn, s) /\ UNCHANGED budget
            /\ socket' = [socket EXCEPT ![c] = s]
  <2>1. BudgetOK' /\ budget'.sends = budget.sends
    BY <1>1, <1>11, SameBudget
  <2>2. /\ DOMAIN connections' = DOMAIN connections /\ reap_queue' = reap_queue
        /\ connections'[c] \in Connection
        /\ connections'[c].registered = conn.registered
        /\ connections'[c].rx = conn.rx /\ connections'[c].tx = conn.tx
        /\ connections'[c].writes = (conn.tx > 0)
        /\ \A x \in DOMAIN connections : x # c => connections'[x] = connections[x]
        /\ ready' = IF conn.writes = (conn.tx > 0) THEN ready
                    ELSE Polled(c, s, conn.tx > 0)
    BY <1>5, <1>11, UpdateEffect
  <2>3. ready \subseteq ready' /\ ready' \subseteq ready \cup {c}
    BY <2>2 DEF Polled
  <2>4. Readiness(s, conn.tx > 0) # {} => c \in ready'
    <3>1. CASE conn.writes # (conn.tx > 0)
      BY <2>2, <3>1 DEF Polled
    <3>2. CASE conn.writes = (conn.tx > 0)
      <4>1. InHand(c)
        BY <1>1, <1>2, <1>5, <1>11 DEF NoneForgotten
      <4>2. /\ connections[c].writes /\ socket[c].room > 0 => c \in ready \/ "writable" \in Top.events
            /\ Unread(socket[c]) => c \in ready
        BY <1>1, <1>2, <4>1 DEF InHand
      <4>3. ASSUME conn.tx > 0, s.room > 0 PROVE c \in ready
        <5>1. conn.writes
          BY <3>2, <4>3
        <5>2. connections[c].writes
          BY <1>5, <1>11, <5>1
        <5>3. s.room # 0
          BY <4>3
        <5>4. "writable" \notin Top.events /\ s.room = socket[c].room
          BY <1>5, <1>11, <4>3, <5>3
        <5> QED BY <4>2, <4>3, <5>2, <5>4
      <4>4. s.arrived # <<>> \/ s.closed \/ s.broken => c \in ready
        BY <1>5, <1>11, <4>2 DEF Unread
      <4> QED BY <2>3, <4>3, <4>4 DEF Readiness
    <3> QED BY <3>1, <3>2
  <2>5. Readiness(socket'[c], connections'[c].writes) # {} => c \in ready'
    BY <1>9, <1>11, <2>2, <2>4
  <2> QED BY <1>1, <1>2, <1>3, <1>4, <1>5, <1>9, <1>11, <2>1, <2>2, <2>3, <2>5 DEF c
<1>12. \/ ~Active(c) /\ UNCHANGED <<connections, ready, reap_queue, socket, budget>>
       \/ Active(c) /\ ScheduleReap(c, "io_error")
            /\ UNCHANGED socket /\ (UNCHANGED budget \/ Spend("faults"))
       \/ Active(c) /\ Spend("faults") /\ InterestsRefused(c, conn)
            /\ socket' = [socket EXCEPT ![c] = s]
       \/ Active(c) /\ UpdateInterests(c, conn, s) /\ UNCHANGED budget
            /\ socket' = [socket EXCEPT ![c] = s]
  BY DEF AfterRead, c, conn, s, n
<1> QED BY <1>7, <1>8, <1>10, <1>11, <1>12

LEMMA AfterReadTypes ==
    ASSUME ServerInv, AfterRead
    PROVE  TypeInv' /\ QuietStep
<1> DEFINE c == Top.id
<1>1. TypeInv
  BY DEF ServerInv, TypeInv
<1>2. /\ c \in Conn /\ stack # <<>> /\ GoTo(Invoke("reap", 0))
      /\ UNCHANGED <<listening, next_id, status, reason, heard>>
      /\ BudgetOK' /\ budget'.sends = budget.sends /\ socket' \in [Conn -> Socket]
  BY AfterReadEffect DEF portVars
<1>3. stack' \in Seq(Call)
  <2>1. Invoke("reap", 0) \in Call
    BY InvokedCall
  <2> QED BY <1>1, <1>2, <2>1, TypesUsed, ReplacedCall DEF GoTo
<1>4. budget.sends \in Nat /\ Largest("sends") \in Nat /\ budget'.sends <= budget.sends
  <2>1. BudgetOK /\ "sends" \in Bounded
    BY <1>1, TypesUsed DEF Bounded
  <2>2. budget.sends \in Nat
    BY <2>1 DEF BudgetOK
  <2> QED BY <1>2, <2>2, BoundsAreNumbers
<1>5. \/ ~Active(c) /\ UNCHANGED <<connections, ready, reap_queue, socket>>
      \/ Retired(c, "io_error") /\ connections'[c].tx <= connections[c].tx
      \/ /\ Active(c) /\ DOMAIN connections' = DOMAIN connections
         /\ \A x \in DOMAIN connections : x # c => connections'[x] = connections[x]
         /\ connections'[c] \in Connection /\ connections'[c].registered
         /\ connections'[c].tx <= connections[c].tx
         /\ reap_queue' = reap_queue /\ ready' \subseteq ready \cup {c}
  BY AfterReadEffect
<1> HIDE DEF c
<1>6. ASSUME c \in DOMAIN connections, connections'[c] \in Connection,
             connections'[c].tx <= connections[c].tx
      PROVE  connections'[c].tx + budget'.sends <= Largest("sends")
  <2>1. connections[c].tx \in Int /\ connections'[c].tx \in Int
        /\ connections[c].tx + budget.sends <= Largest("sends")
    BY <1>1, <1>6, TypesUsed, BoundsAreNumbers DEF ConnectionsTyped, Connection
  <2> QED BY <1>2, <1>4, <1>6, <2>1
<1>7. CASE UNCHANGED <<connections, ready, reap_queue, socket>>
  BY <1>1, <1>2, <1>3, <1>4, <1>7, SameTypes, TypesUsed
<1>8. CASE Retired(c, "io_error") /\ connections'[c].tx <= connections[c].tx
  BY <1>1, <1>2, <1>3, <1>4, <1>6, <1>8, RetiredTypes DEF Retired
<1>9. CASE /\ Active(c) /\ DOMAIN connections' = DOMAIN connections
           /\ \A x \in DOMAIN connections : x # c => connections'[x] = connections[x]
           /\ connections'[c] \in Connection /\ connections'[c].registered
           /\ connections'[c].tx <= connections[c].tx
           /\ reap_queue' = reap_queue /\ ready' \subseteq ready \cup {c}
  <2>1. c \in DOMAIN connections /\ connections[c] \in Connection
        /\ connections'[c].registered = connections[c].registered
    BY <1>1, <1>9, TypesUsed DEF Active, Connection
  <2>2. ready' \subseteq Conn /\ \A x \in ready' : x \in ready \/ Active(x)
    BY <1>1, <1>2, <1>9, TypesUsed
  <2>3. heard' \in [Conn -> Seq(1..MaxFrames)]
    BY <1>1, <1>2, TypesUsed
  <2> QED BY <1>1, <1>2, <1>3, <1>4, <1>6, <1>9, <2>1, <2>2, <2>3, UntouchedTypes
<1> QED BY <1>5, <1>7, <1>8, <1>9

\* A call by the innermost one, which is itself replaced.
LEMMA CalledCall ==
    ASSUME NEW s \in Seq(Call), s # <<>>, NEW call \in Call, NEW caller \in Call
    PROVE  LET t == <<call, caller>> \o Tail(s) IN
           /\ t \in Seq(Call) /\ Len(t) = Len(s) + 1 /\ t # <<>>
           /\ t[1] = call /\ t[2] = caller
           /\ \A i \in 3..(Len(s) + 1) : t[i] = s[i - 1]
<1> DEFINE r == Tail(s)
<1>1. /\ r \in Seq(Call) /\ Len(s) \in Nat /\ Len(s) >= 1 /\ Len(r) = Len(s) - 1
      /\ \A i \in 1..(Len(s) - 1) : r[i] = s[i + 1]
  BY RestOfCalls
<1> HIDE DEF r
<1> DEFINE t == <<call, caller>> \o r
<1>2. /\ t \in Seq(Call) /\ Len(t) = Len(r) + 2 /\ t # <<>>
      /\ t[1] = call /\ t[2] = caller
      /\ \A i \in 3..(Len(r) + 2) : t[i] = r[i - 2]
  BY <1>1
<1> HIDE DEF t
<1>3. \A i \in 3..(Len(s) + 1) : t[i] = s[i - 1]
  <2> TAKE i \in 3..(Len(s) + 1)
  <2>1. i \in 3..(Len(r) + 2) /\ i - 2 \in 1..(Len(s) - 1) /\ i - 2 + 1 = i - 1
    BY <1>1
  <2> QED BY <1>1, <1>2, <2>1
<1>4. Len(t) = Len(s) + 1
  BY <1>1, <1>2
<1> QED BY <1>2, <1>3, <1>4 DEF t, r

LEMMA QuietCallsTypes ==
    ASSUME ServerInv, ReapDone \/ Tick \/ CallbackReturns
    PROVE  TypeInv' /\ QuietStep /\ UNCHANGED <<connections, ready, reap_queue, heard, socket>>
<1>1. TypeInv
  BY DEF ServerInv, TypeInv
<1>2. stack' \in Seq(Call)
  <2>1. CASE ReapDone \/ CallbackReturns
    BY <1>1, <2>1, RestOfCalls, TypesUsed DEF ReapDone, CallbackReturns, Return, Running
  <2>2. CASE Tick
    <3>1. Invoke("application", 0) \in Call
      BY InvokedCall
    <3> QED BY <2>2, <3>1, OneCall DEF Tick
  <2> QED BY <2>1, <2>2
<1>3. UNCHANGED <<next_id, status, reason, listening, reap_queue, connections, ready, heard,
                  socket>>
  BY DEF ReapDone, Tick, CallbackReturns, portVars
<1>4. BudgetOK' /\ budget'.sends <= budget.sends
  BY <1>1, SameBudget, SpentBudget DEF ReapDone, Tick, CallbackReturns, Bounded
<1> QED BY <1>1, <1>2, <1>3, <1>4, SameTypes, TypesUsed

\* disconnect gives the connection up, if that was not done before.
LEMMA DisconnectTypes ==
    ASSUME ServerInv, NEW c \in Conn, Disconnect(c)
    PROVE  /\ TypeInv' /\ QuietStep
           /\ \/ UNCHANGED <<connections, ready, reap_queue>>
              \/ Retired(c, "disconnected by the session layer")
           /\ c \in DOMAIN connections => DisconnectCalls(c)
                /\ (Retired(c, "disconnected by the session layer") \/ ~connections[c].registered)
           /\ c \notin DOMAIN connections => GoTo([Top EXCEPT !.gone = c])
           /\ [Top EXCEPT !.gone = c] \in Call /\ stack # <<>> /\ Top.at = "application"
<1>1. TypeInv /\ stack # <<>> /\ Top \in Call /\ Top.at = "application"
  BY TopIsCall DEF ServerInv, TypeInv, Disconnect, Running
<1> DEFINE caller == [Top EXCEPT !.gone = c]
<1>2. caller \in Call /\ Invoke("reap", 0) \in Call
  BY <1>1, InvokedCall DEF Call
<1>3. UNCHANGED <<next_id, status, reason, listening, heard, socket>>
      /\ BudgetOK' /\ budget'.sends = budget.sends /\ budget'.sends <= budget.sends
  BY <1>1, SpentBudget DEF Disconnect, portVars, Bounded
<1> HIDE DEF caller
<1>4. stack' \in Seq(Call)
  <2>1. stack' = <<Invoke("reap", 0), caller>> \o Tail(stack) \/ stack' = <<caller>> \o Tail(stack)
    BY DEF Disconnect, DisconnectCalls, GoTo, caller
  <2>2. <<Invoke("reap", 0), caller>> \o Tail(stack) \in Seq(Call)
    BY <1>1, <1>2, CalledCall, TypesUsed
  <2>3. <<caller>> \o Tail(stack) \in Seq(Call)
    BY <1>1, <1>2, ReplacedCall, TypesUsed
  <2> QED BY <2>1, <2>2, <2>3
<1>5. socket' \in [Conn -> Socket]
  BY <1>1, <1>3, TypesUsed
<1>6. ASSUME UNCHANGED <<connections, ready, reap_queue>> PROVE TypeInv' /\ QuietStep
  BY <1>1, <1>3, <1>4, <1>5, <1>6, SameTypes, TypesUsed
<1>7. CASE c \in DOMAIN connections
  <2>1. ScheduleReap(c, "disconnected by the session layer") /\ DisconnectCalls(c)
    BY <1>7 DEF Disconnect
  <2>2. connections[c] \in Connection /\ connections[c].tx + budget.sends <= Largest("sends")
    BY <1>1, <1>7, TypesUsed DEF ConnectionsTyped
  <2>3. CASE /\ Retired(c, "disconnected by the session layer")
             /\ connections'[c].tx = connections[c].tx
    <3>1. connections'[c].tx + budget'.sends <= Largest("sends")
      BY <1>3, <2>2, <2>3
    <3>2. TypeInv' /\ QuietStep
      BY <1>1, <1>3, <1>4, <1>5, <1>7, <2>3, <3>1, RetiredTypes DEF Reason
    <3> QED BY <1>1, <1>2, <1>7, <2>1, <2>3, <3>2 DEF caller
  <2>4. CASE ~connections[c].registered /\ UNCHANGED <<connections, ready, reap_queue>>
    BY <1>1, <1>2, <1>6, <1>7, <2>1, <2>4 DEF caller
  <2> QED BY <1>7, <2>1, <2>2, <2>3, <2>4, ScheduleReapEffect DEF Reason
<1>8. CASE c \notin DOMAIN connections
  <2>1. UNCHANGED <<connections, ready, reap_queue>> /\ GoTo([Top EXCEPT !.gone = c])
    BY <1>8 DEF Disconnect
  <2> QED BY <1>1, <1>2, <1>6, <1>8, <2>1 DEF caller
<1> QED BY <1>7, <1>8

LEMMA ThrowTypes ==
    ASSUME ServerInv, CallbackThrows
    PROVE  /\ TypeInv' /\ QuietStep /\ stack # <<>> /\ Top.at = "application" /\ Return
           /\ Top.id # 0 /\ UNCHANGED <<socket, heard>>
           /\ \/ UNCHANGED <<connections, ready, reap_queue>>
              \/ Retired(Top.id, "internal_error")
<1> DEFINE c == Top.id
<1>1. TypeInv /\ stack # <<>> /\ Top.at = "application" /\ c # 0 /\ Return
  BY DEF ServerInv, TypeInv, CallbackThrows, Running
<1>2. stack' \in Seq(Call)
  BY <1>1, RestOfCalls, TypesUsed DEF Return
<1>3. UNCHANGED <<next_id, status, reason, listening, heard, socket>>
      /\ BudgetOK' /\ budget'.sends = budget.sends /\ budget'.sends <= budget.sends
  BY <1>1, SpentBudget DEF CallbackThrows, portVars, Bounded
<1>4. socket' \in [Conn -> Socket]
  BY <1>1, <1>3, TypesUsed
<1>5. CASE UNCHANGED <<connections, ready, reap_queue>>
  BY <1>1, <1>2, <1>3, <1>4, <1>5, SameTypes, TypesUsed
<1>6. CASE Active(c) /\ ScheduleReap(c, "internal_error")
  <2>1. c \in DOMAIN connections /\ connections[c] \in Connection /\ connections[c].registered
        /\ connections[c].tx + budget.sends <= Largest("sends")
    BY <1>1, <1>6, TypesUsed DEF Active, ConnectionsTyped
  <2>2. Retired(c, "internal_error") /\ connections'[c].tx = connections[c].tx
    BY <1>6, <2>1, ScheduleReapEffect DEF Reason
  <2>3. connections'[c].tx + budget'.sends <= Largest("sends")
    BY <1>3, <2>1, <2>2
  <2>4. TypeInv' /\ QuietStep
    <3> HIDE DEF c
    <3> QED BY <1>1, <1>2, <1>3, <1>4, <2>1, <2>2, <2>3, RetiredTypes DEF Reason
  <2> QED BY <1>1, <1>3, <2>2, <2>4
<1> QED BY <1>5, <1>6 DEF CallbackThrows

\* send queues the message and asks for write events; when that is refused the connection
\* is given up. One that stays registered is in the ready list if there is room.
LEMMA SendEffect ==
    ASSUME ServerInv, NEW c \in Conn, Send(c)
    PROVE  /\ TypeInv' /\ QuietStep /\ stack # <<>> /\ Top.at = "application"
           /\ Calls(Invoke("reap", 0)) /\ UNCHANGED <<socket, heard, status>>
           /\ \/ Retired(c, "io_error")
              \/ /\ Active(c) /\ DOMAIN connections' = DOMAIN connections
                 /\ \A x \in DOMAIN connections : x # c => connections'[x] = connections[x]
                 /\ connections'[c] \in Connection /\ connections'[c].registered
                 /\ connections'[c].rx = connections[c].rx
                 /\ connections'[c].tx > 0 /\ connections'[c].writes
                 /\ reap_queue' = reap_queue
                  /\ ready \subseteq ready' /\ ready' \subseteq ready \cup {c}
                 /\ connections[c].writes \/ ready' = Polled(c, socket[c], TRUE)
<1> DEFINE conn == [connections[c] EXCEPT !.tx = @ + 1]
<1>1. TypeInv /\ stack # <<>> /\ Top.at = "application" /\ Active(c) /\ budget.sends > 0
  BY DEF ServerInv, TypeInv, Send, Running
<1>2. c \in DOMAIN connections /\ connections[c] \in Connection /\ connections[c].registered
      /\ connections[c].tx + budget.sends <= Largest("sends")
      /\ connections[c].tx \in Nat /\ budget.sends \in Nat /\ Largest("sends") \in Nat
  BY <1>1, TypesUsed, BoundsAreNumbers DEF Active, ConnectionsTyped, Connection, BudgetOK, Bounded
<1>3. connections[c].tx + 1 \in 0..Largest("sends")
  BY <1>1, <1>2
<1>4. conn \in Connection /\ conn.registered /\ conn.rx = connections[c].rx
      /\ conn.writes = connections[c].writes /\ conn.tx = connections[c].tx + 1 /\ conn.tx > 0
  BY <1>2, <1>3 DEF Connection
<1> HIDE DEF conn
<1>5. UNCHANGED <<next_id, status, reason, listening, heard, socket>> /\ Calls(Invoke("reap", 0))
  BY DEF Send, portVars
<1>6. stack' \in Seq(Call)
  <2>1. Invoke("reap", 0) \in Call
    BY InvokedCall
  <2> QED BY <1>1, <1>5, <2>1, PushedCall, TypesUsed DEF Calls
<1>7. BudgetOK' /\ budget'.sends = budget.sends - 1
  <2>1. \/ budget' = [budget EXCEPT !.sends = @ - 1]
        \/ budget.faults > 0 /\ budget' = [budget EXCEPT !.sends = @ - 1, !.faults = @ - 1]
    BY DEF Send
  <2>2. budget \in [Bounded -> Nat] /\ \A what \in Bounded : budget[what] <= Largest(what)
    BY <1>1, TypesUsed DEF BudgetOK
  <2>3. /\ budget' \in [Bounded -> Nat] /\ budget'.sends = budget.sends - 1
        /\ \A what \in Bounded : budget'[what] <= budget[what]
    <3>1. /\ budget["sends"] \in Nat /\ budget["sends"] > 0 /\ budget["faults"] \in Nat
          /\ "sends" \in Bounded /\ "faults" \in Bounded
      BY <1>1, <2>2 DEF Bounded
    <3>2. CASE budget' = [budget EXCEPT !["sends"] = @ - 1]
      BY <2>2, <3>1, <3>2
    <3>3. CASE /\ budget["faults"] > 0
               /\ budget' = [budget EXCEPT !["sends"] = @ - 1, !["faults"] = @ - 1]
      BY <2>2, <3>1, <3>3
    <3> QED BY <2>1, <3>2, <3>3
  <2>4. \A what \in Bounded : budget'[what] <= Largest(what)
    <3> TAKE what \in Bounded
    <3>1. budget[what] \in Nat /\ budget'[what] \in Nat /\ Largest(what) \in Nat
      BY <2>2, <2>3, LargestBounds
    <3> QED BY <2>2, <2>3, <3>1
  <2>5. BudgetOK'
    BY <2>3, <2>4 DEF BudgetOK
  <2> QED BY <2>3, <2>5
<1>8. conn.tx + budget'.sends <= Largest("sends") /\ budget'.sends <= budget.sends
  BY <1>2, <1>4, <1>7
<1>9. socket' \in [Conn -> Socket] /\ heard' \in [Conn -> Seq(1..MaxFrames)]
  BY <1>1, <1>5, TypesUsed
<1>10. CASE InterestsRefused(c, conn)
  <2>1. Retired(c, "io_error") /\ connections'[c].tx = conn.tx
    BY <1>2, <1>4, <1>10, RetireEffect DEF InterestsRefused, Reason
  <2>2. TypeInv' /\ QuietStep
    BY <1>1, <1>2, <1>5, <1>6, <1>7, <1>8, <1>9, <2>1, RetiredTypes DEF Reason
  <2> QED BY <1>1, <1>5, <2>1, <2>2
<1>11. CASE UpdateInterests(c, conn, socket[c])
  <2>1. /\ DOMAIN connections' = DOMAIN connections /\ reap_queue' = reap_queue
        /\ connections'[c] \in Connection
        /\ connections'[c].registered = conn.registered
        /\ connections'[c].rx = conn.rx /\ connections'[c].tx = conn.tx
        /\ connections'[c].writes = (conn.tx > 0)
        /\ \A x \in DOMAIN connections : x # c => connections'[x] = connections[x]
        /\ ready' = IF conn.writes = (conn.tx > 0) THEN ready
                    ELSE Polled(c, socket[c], conn.tx > 0)
    BY <1>2, <1>4, <1>11, UpdateEffect
  <2>2. (conn.tx > 0) = TRUE /\ connections'[c].writes
    BY <1>4, <2>1
  <2>3. ready' = IF conn.writes = TRUE THEN ready ELSE Polled(c, socket[c], TRUE)
    BY <2>1, <2>2
  <2>4. ready \subseteq ready' /\ ready' \subseteq ready \cup {c}
        /\ (connections[c].writes \/ ready' = Polled(c, socket[c], TRUE))
    BY <1>4, <2>3 DEF Polled, Connection
  <2>5. TypeInv' /\ QuietStep
    <3>1. ready' \subseteq Conn /\ \A x \in ready' : x \in ready \/ Active(x)
      BY <1>1, <2>4, TypesUsed
    <3>2. connections'[c].registered = connections[c].registered
      BY <1>2, <1>4, <2>1
    <3>3. connections'[c].tx + budget'.sends <= Largest("sends")
      BY <1>8, <2>1
    <3> QED BY <1>1, <1>2, <1>5, <1>6, <1>7, <1>8, <1>9, <2>1, <3>1, <3>2, <3>3, UntouchedTypes
  <2>6. connections'[c].tx > 0 /\ connections'[c].registered /\ connections'[c].rx = connections[c].rx
    BY <1>4, <2>1
  <2> QED BY <1>1, <1>5, <2>1, <2>2, <2>4, <2>5, <2>6
<1> QED BY <1>10, <1>11 DEF Send, conn

PeerStep(c) ==
    \/ \E kind \in Kind : PeerSends(c, kind)
    \/ PeerCloses(c) \/ PeerBreaks(c) \/ PeerReads(c)

\* A peer changes its socket only. A registered connection is woken up by it, unless the
\* peer read and the socket was not full or nobody wants to write.
LEMMA PeerEffect ==
    ASSUME ServerInv, NEW c \in Conn, PeerStep(c)
    PROVE  /\ TypeInv' /\ QuietStep
           /\ UNCHANGED <<listening, connections, next_id, reap_queue, stack, portVars>>
           /\ c < next_id /\ \A x \in Conn : x # c => socket'[x] = socket[x]
           /\ ready \subseteq ready' /\ ready' \subseteq ready \cup {c}
           /\ socket[c].closed => socket'[c].closed /\ socket'[c].sent = socket[c].sent
           /\ Len(socket'[c].arrived) + socket[c].sent = Len(socket[c].arrived) + socket'[c].sent
           /\ \/ socket'[c].arrived = socket[c].arrived /\ socket'[c].sent = socket[c].sent
              \/ \E frame \in Frame : /\ frame.number = socket[c].sent + 1
                                      /\ socket'[c].arrived = Append(socket[c].arrived, frame)
                                      /\ socket'[c].sent = socket[c].sent + 1
           /\ \/ Active(c) => c \in ready'
              \/ /\ socket'[c].arrived = socket[c].arrived
                 /\ socket'[c].closed = socket[c].closed /\ socket'[c].broken = socket[c].broken
                 /\ connections[c].writes => socket[c].room > 0
<1>1. TypeInv /\ FramesAccounted
  BY DEF ServerInv, TypeInv
<1>2. /\ socket \in [Conn -> Socket] /\ socket[c] \in Socket
      /\ socket[c].arrived \in Frames(MaxFrames) /\ socket[c].sent \in 0..MaxFrames
      /\ socket[c].room \in 0..SocketRoom /\ SocketRoom \in Nat /\ MaxFrames \in Nat
  BY <1>1, TypesUsed, ServerConstants, BoundsAreNumbers DEF Socket, ServerConstants
<1>3. /\ socket[c].arrived \in Seq(Frame) /\ Len(socket[c].arrived) \in Nat
      /\ Len(heard[c]) \in Nat /\ Len(heard[c]) + Len(socket[c].arrived) <= socket[c].sent
  <2>1. heard[c] \in Seq(1..MaxFrames)
    BY <1>1, TypesUsed
  <2>2. Len(heard[c]) \in Nat
    BY <2>1
  <2>3. socket[c].arrived \in Seq(Frame)
    BY <1>2, FramesAreSequences
  <2>4. Len(socket[c].arrived) \in Nat
    BY <2>3
  <2>5. Len(heard[c]) + Len(socket[c].arrived) <= socket[c].sent
    BY <1>1 DEF FramesAccounted
  <2> QED BY <2>2, <2>3, <2>4, <2>5
<1>4. /\ UNCHANGED <<listening, connections, next_id, reap_queue, stack, portVars, budget>>
      /\ c < next_id
  BY DEF PeerStep, PeerSends, PeerCloses, PeerBreaks, PeerReads, Changes
<1>5. /\ ready \subseteq ready' /\ ready' \subseteq ready \cup {c}
      /\ \A x \in ready' : x \in ready \/ Active(x)
  BY DEF PeerStep, PeerSends, PeerCloses, PeerBreaks, PeerReads, Wake
<1>6. ASSUME NEW s \in Socket, socket' = [socket EXCEPT ![c] = s]
      PROVE  /\ TypeInv' /\ QuietStep /\ socket'[c] = s
             /\ \A x \in Conn : x # c => socket'[x] = socket[x]
  <2>1. /\ socket'[c] = s /\ socket' \in [Conn -> Socket]
        /\ \A x \in Conn : x # c => socket'[x] = socket[x]
    BY <1>2, <1>6
  <2>2. UNCHANGED <<next_id, status, reason, listening, reap_queue, connections, heard, stack>>
    BY <1>4 DEF portVars
  <2>3. BudgetOK' /\ budget'.sends <= budget.sends
    BY <1>1, <1>4, SameBudget
  <2>4. stack' \in Seq(Call) /\ heard' \in [Conn -> Seq(1..MaxFrames)] /\ ready' \subseteq Conn
    BY <1>1, <1>5, <2>2, TypesUsed
  <2> QED BY <1>1, <1>5, <2>1, <2>2, <2>3, <2>4, SameTypes
<1>7. ASSUME NEW kind \in Kind, PeerSends(c, kind)
      PROVE  \E s \in Socket : /\ socket' = [socket EXCEPT ![c] = s]
                               /\ s.closed = socket[c].closed /\ ~socket[c].closed
                               /\ Len(s.arrived) = Len(socket[c].arrived) + 1
                               /\ \E frame \in Frame :
                                    /\ frame.number = socket[c].sent + 1
                                    /\ s.arrived = Append(socket[c].arrived, frame)
                               /\ s.sent = socket[c].sent + 1
                               /\ Active(c) => c \in ready'
  <2> DEFINE frame == [number |-> socket[c].sent + 1, kind |-> kind]
             more == Append(socket[c].arrived, frame)
             s == [socket[c] EXCEPT !.arrived = more, !.sent = @ + 1]
  <2>1. socket[c].sent < budget.frames /\ budget.frames \in Nat /\ budget.frames <= MaxFrames
    BY <1>1, <1>7, TypesUsed DEF PeerSends, BudgetOK, Bounded, MaxFrames
  <2>2. /\ more \in Seq(Frame) /\ Len(more) = Len(socket[c].arrived) + 1
        /\ \E f \in Frame : f.number = socket[c].sent + 1 /\ more = Append(socket[c].arrived, f)
    <3>1. socket[c].sent + 1 \in 1..MaxFrames
      BY <1>2, <2>1
    <3>2. frame \in Frame /\ frame.number = socket[c].sent + 1
      BY <3>1 DEF Frame
    <3> DEFINE come == socket[c].arrived
    <3>3. come \in Seq(Frame) /\ more = Append(come, frame)
      BY <1>3
    <3> HIDE DEF frame, come, more
    <3>4. more \in Seq(Frame) /\ Len(more) = Len(come) + 1
      BY <3>2, <3>3
    <3> QED BY <3>2, <3>3, <3>4 DEF come
  <2>3. socket[c].sent + 1 \in 0..MaxFrames /\ Len(more) <= MaxFrames
    <3> HIDE DEF more
    <3>1. socket[c].sent \in Nat /\ socket[c].sent + 1 <= MaxFrames
      BY <1>2, <2>1
    <3> DEFINE a == Len(socket[c].arrived)
               h == Len(heard[c])
               n == socket[c].sent
               b == Len(more)
    <3>2. a \in Nat /\ h \in Nat /\ h + a <= n /\ b = a + 1 /\ n \in Nat /\ n + 1 <= MaxFrames
      BY <1>3, <2>2, <3>1
    <3> HIDE DEF a, h, n, b
    <3>3. b <= MaxFrames
      BY <1>2, <3>2
    <3> QED BY <1>2, <3>1, <3>3 DEF b
  <2>4. more \in Frames(MaxFrames)
    BY <1>2, <2>2, <2>3, FramesAreSequences
  <2> HIDE DEF more
  <2>5. /\ s \in Socket /\ s.closed = socket[c].closed
        /\ s.arrived = more /\ s.sent = socket[c].sent + 1
    BY <1>2, <2>3, <2>4 DEF Socket
  <2>6. socket' = [socket EXCEPT ![c] = s]
    BY <1>7 DEF PeerSends, Changes, more
  <2>7. ~socket[c].closed /\ (Active(c) => c \in ready')
    BY <1>7 DEF PeerSends, Wake
  <2> QED BY <2>2, <2>5, <2>6, <2>7
<1>8. ASSUME PeerCloses(c) \/ PeerBreaks(c)
      PROVE  \E s \in Socket : /\ socket' = [socket EXCEPT ![c] = s]
                               /\ socket[c].closed => s.closed
                               /\ s.arrived = socket[c].arrived /\ s.sent = socket[c].sent
                               /\ Active(c) => c \in ready'
  <2> DEFINE closed == [socket[c] EXCEPT !.closed = TRUE]
             broken == [socket[c] EXCEPT !.broken = TRUE]
  <2>1. /\ closed \in Socket /\ closed.closed
        /\ closed.arrived = socket[c].arrived /\ closed.sent = socket[c].sent
        /\ broken \in Socket /\ broken.closed = socket[c].closed
        /\ broken.arrived = socket[c].arrived /\ broken.sent = socket[c].sent
    BY <1>2 DEF Socket
  <2>2. /\ socket' = [socket EXCEPT ![c] = closed] \/ socket' = [socket EXCEPT ![c] = broken]
        /\ Active(c) => c \in ready'
    BY <1>8 DEF PeerCloses, PeerBreaks, Changes, Wake
  <2> HIDE DEF closed, broken
  <2> QED BY <2>1, <2>2
<1>9. ASSUME PeerReads(c)
      PROVE  \E s \in Socket : /\ socket' = [socket EXCEPT ![c] = s]
                               /\ s.closed = socket[c].closed /\ s.broken = socket[c].broken
                               /\ s.arrived = socket[c].arrived /\ s.sent = socket[c].sent
                               /\ \/ Active(c) => c \in ready'
                                  \/ connections[c].writes => socket[c].room > 0
  <2> DEFINE s == [socket[c] EXCEPT !.room = @ + 1]
  <2>1. socket[c].room + 1 \in 0..SocketRoom
    BY <1>2, <1>9 DEF PeerReads
  <2>2. /\ s \in Socket /\ s.closed = socket[c].closed /\ s.broken = socket[c].broken
        /\ s.arrived = socket[c].arrived /\ s.sent = socket[c].sent
    BY <1>2, <2>1 DEF Socket
  <2>3. socket' = [socket EXCEPT ![c] = s]
    BY <1>9 DEF PeerReads, Changes
  <2>4. (Active(c) => c \in ready') \/ (connections[c].writes => socket[c].room > 0)
    BY <1>2, <1>9 DEF PeerReads, Wake
  <2> HIDE DEF s
  <2> QED BY <2>2, <2>3, <2>4
<1>10. CASE \E kind \in Kind : PeerSends(c, kind)
  <2>1. PICK s \in Socket : /\ socket' = [socket EXCEPT ![c] = s]
                            /\ s.closed = socket[c].closed /\ ~socket[c].closed
                            /\ Len(s.arrived) = Len(socket[c].arrived) + 1
                            /\ \E frame \in Frame :
                                 /\ frame.number = socket[c].sent + 1
                                 /\ s.arrived = Append(socket[c].arrived, frame)
                            /\ s.sent = socket[c].sent + 1
                            /\ Active(c) => c \in ready'
    BY <1>7, <1>10
  <2>2. Len(s.arrived) + socket[c].sent = Len(socket[c].arrived) + s.sent
    <3>1. \A m, n \in Nat : (m + 1) + n = m + (n + 1)
      OBVIOUS
    <3>2. Len(socket[c].arrived) \in Nat /\ socket[c].sent \in Nat
      BY <1>2, <1>3
    <3>3. (Len(socket[c].arrived) + 1) + socket[c].sent = Len(socket[c].arrived) + (socket[c].sent + 1)
      BY <3>1, <3>2
    <3> QED BY <2>1, <3>3
  <2> QED BY <1>4, <1>5, <1>6, <2>1, <2>2
<1>11. CASE PeerCloses(c) \/ PeerBreaks(c)
  BY <1>4, <1>5, <1>6, <1>8, <1>11
<1>12. CASE PeerReads(c)
  BY <1>4, <1>5, <1>6, <1>9, <1>12
<1> QED BY <1>10, <1>11, <1>12 DEF PeerStep

\* A connection is accepted: stored, registered and announced; refused; or stored only.
LEMMA AcceptEffect ==
    ASSUME ServerInv, OnAccepted
    PROVE  LET c == next_id IN
           /\ TypeInv' /\ stack = <<>> /\ c \in Conn /\ next_id' = c + 1
           /\ UNCHANGED <<listening, reap_queue, socket, reason, heard>>
           /\ \/ /\ DOMAIN connections' = DOMAIN connections \cup {c}
                 /\ connections'[c] = NewConnection
                 /\ \A x \in DOMAIN connections : connections'[x] = connections[x]
                 /\ ready' = Polled(c, socket[c], FALSE)
                 /\ status' = [status EXCEPT ![c] = "connected"]
                 /\ stack' = <<Invoke("application", c), Invoke("reap", 0)>>
              \/ UNCHANGED <<connections, ready, status, stack>>
              \/ /\ DOMAIN connections' = DOMAIN connections \cup {c}
                 /\ connections'[c] = [NewConnection EXCEPT !.registered = FALSE]
                 /\ \A x \in DOMAIN connections : connections'[x] = connections[x]
                 /\ UNCHANGED <<ready, status, stack>>
<1> DEFINE c == next_id
<1>1. TypeInv /\ stack = <<>> /\ c <= budget.connections
  BY DEF ServerInv, TypeInv, OnAccepted
<1>2. /\ c \in Conn /\ c \in Nat /\ MaxConnections \in Nat /\ Conn = 1..MaxConnections
      /\ DOMAIN connections \subseteq 1..(c - 1) /\ c \notin DOMAIN connections
  <2>1. budget.connections <= MaxConnections /\ budget.connections \in Nat
    BY <1>1, TypesUsed DEF BudgetOK, Bounded, MaxConnections
  <2>2. MaxConnections \in Nat /\ c \in 1..(MaxConnections + 1) /\ Conn = 1..MaxConnections
    BY <1>1, TypesUsed, BoundsAreNumbers DEF Conn
  <2>3. DOMAIN connections \subseteq 1..(c - 1)
    BY <1>1, TypesUsed
  <2> HIDE DEF c
  <2> QED BY <1>1, <2>1, <2>2, <2>3
<1>3. next_id' = c + 1 /\ UNCHANGED <<listening, reap_queue, socket, reason, heard>>
  BY DEF OnAccepted, IssueId
<1>4. BudgetOK' /\ budget'.sends = budget.sends /\ budget'.sends <= budget.sends
  BY <1>1, SameBudget, SpentBudget DEF OnAccepted, Bounded
<1>5. ASSUME NEW conn, With(c, conn) = connections'
      PROVE  /\ DOMAIN connections' = DOMAIN connections \cup {c}
             /\ connections'[c] = conn
             /\ \A x \in DOMAIN connections : connections'[x] = connections[x]
  BY <1>2, <1>5 DEF With
<1>6. \/ /\ connections' = With(c, NewConnection)
         /\ ready' = Polled(c, socket[c], FALSE)
         /\ status' = [status EXCEPT ![c] = "connected"]
         /\ stack' = <<Invoke("application", c), Invoke("reap", 0)>>
      \/ UNCHANGED <<connections, ready, status, stack>>
      \/ /\ connections' = With(c, [NewConnection EXCEPT !.registered = FALSE])
         /\ UNCHANGED <<ready, status, stack>>
  BY DEF OnAccepted
<1>7. \A conn \in {NewConnection, [NewConnection EXCEPT !.registered = FALSE]} :
         conn \in Connection /\ conn.tx = 0
  <2>1. RingCapacity \in Nat /\ Largest("sends") \in Nat
    BY ServerConstants, BoundsAreNumbers DEF ServerConstants
  <2>2. <<>> \in Frames(RingCapacity)
    <3>1. <<>> \in Seq(Frame) /\ Len(<<>>) = 0 /\ 0 <= RingCapacity
      BY <2>1
    <3> QED BY <2>1, <3>1, FramesAreSequences
  <2>3. 0 \in 0..Largest("sends")
    BY <2>1
  <2>4. NewConnection \in Connection /\ NewConnection.tx = 0
    BY <2>2, <2>3 DEF NewConnection, Connection
  <2>5. \A conn \in Connection : /\ [conn EXCEPT !.registered = FALSE] \in Connection
                                  /\ [conn EXCEPT !.registered = FALSE].tx = conn.tx
    BY DEF Connection
  <2> QED BY <2>4, <2>5
<1>8. TypeInv'
  <2>1. /\ reap_queue' \in Seq(Entry) /\ listening' \in BOOLEAN /\ socket' \in [Conn -> Socket]
        /\ heard' \in [Conn -> Seq(1..MaxFrames)] /\ reason' \in [Conn -> Reason \cup {"none"}]
    BY <1>1, <1>3, TypesUsed DEF TypeInv, ServerTypeOK
  <2>2. status' \in [Conn -> {"new", "connected", "ended"}]
    <3>1. status \in [Conn -> {"new", "connected", "ended"}]
      BY <1>1 DEF TypeInv, ServerTypeOK
    <3> QED BY <1>6, <3>1
  <2>3. stack' \in Seq(Call)
    <3>1. Invoke("application", c) \in Call /\ Invoke("reap", 0) \in Call
      BY <1>2, InvokedCall
    <3> HIDE DEF c
    <3>2. <<Invoke("application", c), Invoke("reap", 0)>> \in Seq(Call)
      BY <3>1
    <3> QED BY <1>1, <1>6, <3>2, TypesUsed
  <2>4. ready' \subseteq Conn
    BY <1>1, <1>2, <1>6, TypesUsed DEF Polled
  <2>5. next_id' \in 1..(MaxConnections + 1) /\ DOMAIN connections' \subseteq 1..(next_id' - 1)
    <3>1. DOMAIN connections' \subseteq DOMAIN connections \cup {c}
      BY <1>5, <1>6
    <3> HIDE DEF c
    <3>2. c + 1 \in 1..(MaxConnections + 1) /\ 1..(c - 1) \cup {c} \subseteq 1..((c + 1) - 1)
      BY <1>2
    <3> QED BY <1>2, <1>3, <3>1, <3>2 DEF c
  <2>6. ConnectionsTyped'
    <3> SUFFICES ASSUME NEW x \in DOMAIN connections'
                 PROVE  /\ connections'[x] \in Connection
                        /\ connections'[x].tx + budget'.sends <= Largest("sends")
      BY DEF ConnectionsTyped
    <3>1. budget.sends \in Nat /\ budget.sends <= Largest("sends") /\ Largest("sends") \in Nat
      BY <1>1, TypesUsed, BoundsAreNumbers DEF BudgetOK, Bounded
    <3>2. CASE x \in DOMAIN connections /\ connections'[x] = connections[x]
      BY <1>1, <1>4, <3>2, TypesUsed DEF ConnectionsTyped
    <3>3. CASE connections'[x] \in {NewConnection, [NewConnection EXCEPT !.registered = FALSE]}
      <4>1. connections'[x] \in Connection /\ connections'[x].tx = 0
        BY <1>7, <3>3
      <4>2. 0 + budget'.sends <= Largest("sends")
        BY <1>4, <3>1
      <4> QED BY <4>1, <4>2
    <3> QED BY <1>5, <1>6, <3>2, <3>3
  <2>7. /\ \A i \in DOMAIN reap_queue' : reap_queue'[i] \in [id : Conn, why : Reason]
        /\ \A i \in DOMAIN stack' : stack'[i] \in Call
    BY <2>1, <2>3, ElementType DEF Entry
  <2>8. ServerTypeOK'
    BY <2>1, <2>2, <2>4, <2>5, <2>6, <2>7 DEF ServerTypeOK, ConnectionsTyped
  <2> QED BY <1>4, <2>1, <2>3, <2>6, <2>8
         DEF TypeInv, SequencesTyped, WithinBudget, BudgetOK, ConnectionsTyped
<1> QED BY <1>1, <1>2, <1>3, <1>5, <1>6, <1>8

LEMMA QueueParts ==
    ASSUME NEW q \in Seq(Entry), q # <<>>
    PROVE  /\ Head(q) = q[1] /\ q[1] \in Entry /\ 1 \in DOMAIN q
           /\ Tail(q) \in Seq(Entry) /\ Len(q) \in Nat /\ Len(q) >= 1
           /\ DOMAIN q = 1..Len(q) /\ DOMAIN Tail(q) = 1..(Len(q) - 1)
           /\ \A i \in 1..(Len(q) - 1) : Tail(q)[i] = q[i + 1]
  OBVIOUS

\* The first of the queue was given up before; it is erased and its end is reported.
LEMMA ReapEffect ==
    ASSUME ServerInv, Reap
    PROVE  LET c == reap_queue[1].id IN
           /\ TypeInv' /\ stack # <<>> /\ Top.at = "reap" /\ reap_queue # <<>>
           /\ c \in DOMAIN connections /\ c \in Conn /\ status[c] = "connected"
           /\ ~connections[c].registered
           /\ reap_queue' = Tail(reap_queue)
           /\ DOMAIN connections' = DOMAIN connections \ {c}
           /\ \A x \in DOMAIN connections' : connections'[x] = connections[x]
           /\ status' = [status EXCEPT ![c] = "ended"]
           /\ reason' = [reason EXCEPT ![c] = reap_queue[1].why]
           /\ Calls(Invoke("application", c))
           /\ UNCHANGED <<listening, next_id, socket, ready, heard>>
<1> DEFINE c == reap_queue[1].id
<1>1. TypeInv /\ stack # <<>> /\ Top.at = "reap" /\ reap_queue # <<>> /\ ReapQueueExact /\ IdsInOrder
  BY DEF ServerInv, TypeInv, Reap, Running
<1>2. /\ Head(reap_queue) = reap_queue[1] /\ reap_queue[1] \in Entry /\ 1 \in DOMAIN reap_queue
      /\ Tail(reap_queue) \in Seq(Entry)
  BY <1>1, QueueParts, TypesUsed
<1>3. c \in DOMAIN connections /\ c \notin Stranded /\ ~connections[c].registered
  BY <1>1, <1>2 DEF ReapQueueExact
<1>4. c \in Conn /\ status[c] = "connected" /\ reap_queue[1].why \in Reason
  BY <1>1, <1>2, <1>3 DEF IdsInOrder, Stranded, Entry
<1>5. /\ reap_queue' = Tail(reap_queue)
      /\ connections' = Without(c)
      /\ status' = [status EXCEPT ![c] = "ended"]
      /\ reason' = [reason EXCEPT ![c] = reap_queue[1].why]
      /\ Calls(Invoke("application", c))
      /\ UNCHANGED <<listening, next_id, socket, ready, heard, budget>>
  BY <1>2, <1>3 DEF Reap
<1>6. /\ DOMAIN connections' = DOMAIN connections \ {c}
      /\ \A x \in DOMAIN connections' : connections'[x] = connections[x]
  BY <1>5 DEF Without
<1>7. TypeInv'
  <2>1. Invoke("application", c) \in Call
    BY <1>4, InvokedCall
  <2>2. stack' \in Seq(Call)
    <3> HIDE DEF c
    <3> QED BY <1>1, <1>5, <2>1, PushedCall, TypesUsed DEF Calls
  <2>3. reap_queue' \in Seq(Entry)
    BY <1>2, <1>5
  <2>4. /\ status' \in [Conn -> {"new", "connected", "ended"}]
        /\ reason' \in [Conn -> Reason \cup {"none"}]
    <3>1. /\ status \in [Conn -> {"new", "connected", "ended"}]
          /\ reason \in [Conn -> Reason \cup {"none"}]
      BY <1>1 DEF TypeInv, ServerTypeOK
    <3> HIDE DEF c
    <3> QED BY <1>4, <1>5, <3>1 DEF c
  <2>5. ConnectionsTyped' /\ BudgetOK'
    BY <1>1, <1>5, <1>6, TypesUsed DEF ConnectionsTyped, BudgetOK
  <2>6. /\ \A i \in DOMAIN reap_queue' : reap_queue'[i] \in [id : Conn, why : Reason]
        /\ \A i \in DOMAIN stack' : stack'[i] \in Call
    BY <2>2, <2>3, ElementType DEF Entry
  <2>7. ServerTypeOK'
    <3>1. DOMAIN connections' \subseteq 1..(next_id' - 1)
      BY <1>1, <1>5, <1>6, TypesUsed
    <3> QED BY <1>1, <1>5, <2>4, <2>5, <2>6, <3>1, TypesUsed DEF ServerTypeOK, ConnectionsTyped
  <2> QED BY <2>2, <2>3, <2>5, <2>7
         DEF TypeInv, SequencesTyped, WithinBudget, BudgetOK, ConnectionsTyped
<1> QED BY <1>1, <1>3, <1>4, <1>5, <1>6, <1>7

\* An enumeration of a finite set of connections names none twice.
LEMMA EachOnce ==
    ASSUME NEW S \in SUBSET Conn, NEW order \in [1..Cardinality(S) -> S],
           \A c \in S : \E i \in DOMAIN order : order[i] = c
    PROVE  /\ Cardinality(S) \in Nat /\ order \in Seq(S)
           /\ \A i, j \in DOMAIN order : order[i] = order[j] => i = j
<1> DEFINE n == Cardinality(S)
<1>1. IsFiniteSet(S)
  <2>1. IsFiniteSet(1..MaxConnections)
    BY BoundsAreNumbers, FS_Interval
  <2> QED BY <2>1, FS_Subset DEF Conn
<1>2. n \in Nat
  BY <1>1, FS_CardinalityType
<1>3. IsFiniteSet(1..n) /\ Cardinality(1..n) = n
  <2> HIDE DEF n
  <2>1. IsFiniteSet(1..n) /\ Cardinality(1..n) = IF 1 > n THEN 0 ELSE n - 1 + 1
    BY <1>2, FS_Interval
  <2> QED BY <1>2, <2>1
<1>4. order \in Surjection(1..n, S)
  BY DEF Surjection
<1>5. order \in Injection(1..n, S)
  BY <1>3, <1>4, FS_SurjSameCardinalityImpliesInj
<1>6. \A i, j \in DOMAIN order : order[i] = order[j] => i = j
  BY <1>5 DEF Injection, IsInjective
<1> QED BY <1>2, <1>6

\* stop gives up every connection that is registered, once.
LEMMA StopEffect ==
    ASSUME ServerInv, Stop
    PROVE  /\ TypeInv' /\ stack = <<>> /\ reap_queue = <<>> /\ stack' = <<Invoke("reap", 0)>>
           /\ UNCHANGED <<next_id, socket, portVars>>
           /\ DOMAIN connections' = DOMAIN connections
           /\ \A x \in DOMAIN connections :
                ~connections'[x].registered /\ connections'[x].rx = connections[x].rx
           /\ ready' = {}
           /\ \A i \in DOMAIN reap_queue' : /\ Active(reap_queue'[i].id)
                                            /\ reap_queue'[i].why = "shutdown"
           /\ \A c \in DOMAIN connections :
                connections[c].registered => \E i \in DOMAIN reap_queue' : reap_queue'[i].id = c
           /\ \A i, j \in DOMAIN reap_queue' : reap_queue'[i].id = reap_queue'[j].id => i = j
<1> DEFINE doomed == {c \in DOMAIN connections : connections[c].registered}
<1>1. TypeInv /\ stack = <<>> /\ reap_queue = <<>>
  BY DEF ServerInv, TypeInv, Stop, StackShape
<1>2. PICK order \in [1..Cardinality(doomed) -> doomed] :
         /\ \A c \in doomed : \E i \in DOMAIN order : order[i] = c
         /\ reap_queue' = reap_queue \o
                [i \in DOMAIN order |-> [id |-> order[i], why |-> "shutdown"]]
  BY DEF Stop
<1>3. doomed \in SUBSET Conn
  BY <1>1, TypesUsed
<1> DEFINE n == Cardinality(doomed)
           queue == [i \in DOMAIN order |-> [id |-> order[i], why |-> "shutdown"]]
<1>4. n \in Nat /\ DOMAIN order = 1..n /\ \A i, j \in DOMAIN order : order[i] = order[j] => i = j
  <2> HIDE DEF doomed
  <2> QED BY <1>2, <1>3, EachOnce
<1>5. \A i \in DOMAIN order : order[i] \in doomed /\ [id |-> order[i], why |-> "shutdown"] \in Entry
  BY <1>3 DEF Entry, Reason
<1>6. queue \in Seq(Entry) /\ DOMAIN queue = DOMAIN order
      /\ \A i \in DOMAIN order : queue[i].id = order[i] /\ queue[i].why = "shutdown"
  <2> HIDE DEF doomed, n
  <2>1. queue \in [1..n -> Entry]
    BY <1>4, <1>5
  <2> QED BY <1>4, <2>1
<1>7. reap_queue' = queue
  <2>1. reap_queue' = <<>> \o queue
    BY <1>1, <1>2
  <2> HIDE DEF queue
  <2> QED BY <1>6, <2>1
<1> HIDE DEF queue
<1>8. /\ \A i \in DOMAIN reap_queue' : /\ Active(reap_queue'[i].id)
                                       /\ reap_queue'[i].why = "shutdown"
      /\ \A c \in DOMAIN connections :
           connections[c].registered => \E i \in DOMAIN reap_queue' : reap_queue'[i].id = c
      /\ \A i, j \in DOMAIN reap_queue' : reap_queue'[i].id = reap_queue'[j].id => i = j
  <2>1. \A c \in doomed : Active(c)
    BY DEF Active
  <2>2. \A c \in DOMAIN connections : connections[c].registered => c \in doomed
    OBVIOUS
  <2> HIDE DEF doomed, n
  <2>3. /\ DOMAIN reap_queue' = DOMAIN order
        /\ \A i \in DOMAIN order : reap_queue'[i].id = order[i] /\ reap_queue'[i].why = "shutdown"
    BY <1>6, <1>7
  <2>4. ASSUME NEW i \in DOMAIN reap_queue'
        PROVE  Active(reap_queue'[i].id) /\ reap_queue'[i].why = "shutdown"
    BY <1>5, <2>1, <2>3
  <2>5. ASSUME NEW c \in DOMAIN connections, connections[c].registered
        PROVE  \E i \in DOMAIN reap_queue' : reap_queue'[i].id = c
    <3>1. c \in doomed
      BY <2>2, <2>5
    <3>2. PICK i \in DOMAIN order : order[i] = c
      BY <1>2, <3>1, Zenon
    <3> QED BY <2>3, <3>2
  <2>6. \A i, j \in DOMAIN reap_queue' : reap_queue'[i].id = reap_queue'[j].id => i = j
    BY <1>4, <2>3
  <2> QED BY <2>4, <2>5, <2>6
<1>9. /\ UNCHANGED <<next_id, socket, portVars, budget>> /\ ready' = {} /\ listening' = FALSE
      /\ stack' = <<Invoke("reap", 0)>>
      /\ connections' = [c \in DOMAIN connections |-> [connections[c] EXCEPT !.registered = FALSE]]
  BY DEF Stop
<1>10. /\ DOMAIN connections' = DOMAIN connections
       /\ \A x \in DOMAIN connections :
            /\ connections'[x] \in Connection /\ ~connections'[x].registered
            /\ connections'[x].rx = connections[x].rx /\ connections'[x].tx = connections[x].tx
  <2>1. \A x \in DOMAIN connections : connections[x] \in Connection
    BY <1>1, TypesUsed
  <2> QED BY <1>9, <2>1 DEF Connection
<1>11. TypeInv'
  <2>1. ConnectionsTyped' /\ BudgetOK'
    BY <1>1, <1>9, <1>10, TypesUsed DEF ConnectionsTyped, BudgetOK
  <2>2. stack' \in Seq(Call)
    BY <1>9, InvokedCall, OneCall
  <2>3. UNCHANGED <<next_id, status, reason, heard, socket>>
    BY <1>9 DEF portVars
  <2> QED BY <1>1, <1>6, <1>7, <1>9, <1>10, <2>1, <2>2, <2>3, TypesKept, TypesUsed
<1> QED BY <1>1, <1>8, <1>9, <1>10, <1>11

----------------------------------------------------------------------------
(* Ids, the reap queue and what the session layer was told *)

\* ReapQueueExact, entry by entry.
QueueShape ==
    /\ \A i \in DOMAIN reap_queue :
         LET c == reap_queue[i].id IN
         c \in DOMAIN connections /\ status[c] # "new" /\ ~connections[c].registered
    /\ \A c \in DOMAIN connections :
         status[c] # "new" /\ ~connections[c].registered => Queued(c)
    /\ \A i, j \in DOMAIN reap_queue : reap_queue[i].id = reap_queue[j].id => i = j

LEMMA QueueShapeIsExact == QueueShape <=> ReapQueueExact
<1>1. ASSUME QueueShape PROVE ReapQueueExact
  BY <1>1 DEF QueueShape, ReapQueueExact, Stranded, Queued
<1>2. ASSUME ReapQueueExact PROVE QueueShape
  <2> DEFINE ids == {reap_queue[i].id : i \in DOMAIN reap_queue}
             doomed == {c \in DOMAIN connections \ Stranded : ~connections[c].registered}
  <2>1. ids = doomed /\ \A i, j \in DOMAIN reap_queue : reap_queue[i].id = reap_queue[j].id => i = j
    BY <1>2 DEF ReapQueueExact
  <2>2. \A i \in DOMAIN reap_queue : reap_queue[i].id \in ids
    OBVIOUS
  <2>3. \A c \in ids : Queued(c)
    BY DEF Queued
  <2>4. \A c : c \in doomed <=> c \in DOMAIN connections /\ status[c] # "new"
                                /\ ~connections[c].registered
    BY DEF Stranded
  <2> HIDE DEF ids, doomed
  <2> QED BY <2>1, <2>2, <2>3, <2>4 DEF QueueShape
<1> QED BY <1>1, <1>2

LEMMA AppendedEntry ==
    ASSUME NEW q \in Seq(Entry), NEW e \in Entry
    PROVE  /\ Append(q, e) \in Seq(Entry) /\ Len(q) \in Nat /\ DOMAIN q = 1..Len(q)
           /\ DOMAIN Append(q, e) = 1..(Len(q) + 1)
           /\ \A i \in 1..Len(q) : Append(q, e)[i] = q[i]
           /\ Append(q, e)[Len(q) + 1] = e
           /\ \A i \in 1..(Len(q) + 1) : i = Len(q) + 1 \/ i \in 1..Len(q)
  OBVIOUS

Registry == IdsInOrder /\ QueueShape

LEMMA RetiredRegistry ==
    ASSUME TypeInv, Registry, UNCHANGED <<next_id, status>>,
           NEW c \in DOMAIN connections, NEW why \in Reason, Retired(c, why)
    PROVE  QueueShape' /\ Queued(c)' /\ (\A x \in Conn : Queued(x) => Queued(x)')
<1> DEFINE e == [id |-> c, why |-> why]
           n == Len(reap_queue)
<1>1. c \in Conn /\ reap_queue \in Seq(Entry) /\ e \in Entry
  BY TypesUsed DEF Entry
<1>2. reap_queue' = Append(reap_queue, e) /\ e.id = c
  BY DEF Retired
<1>3. connections[c].registered /\ status[c] = "connected"
      /\ DOMAIN connections' = DOMAIN connections /\ ~connections'[c].registered
      /\ \A x \in DOMAIN connections : x # c => connections'[x] = connections[x]
  BY DEF Retired, Registry, IdsInOrder
<1> HIDE DEF e, n
<1>4. /\ n \in Nat /\ DOMAIN reap_queue = 1..n /\ DOMAIN reap_queue' = 1..(n + 1)
      /\ \A i \in 1..n : reap_queue'[i] = reap_queue[i]
      /\ reap_queue'[n + 1].id = c
      /\ \A i \in 1..(n + 1) : i = n + 1 \/ i \in 1..n
  BY <1>1, <1>2, AppendedEntry DEF n
<1>5. 1..n \subseteq 1..(n + 1) /\ n + 1 \in 1..(n + 1)
  BY <1>4
<1>6. \A i \in 1..n : /\ reap_queue[i].id \in DOMAIN connections /\ reap_queue[i].id # c
                      /\ status[reap_queue[i].id] # "new"
                      /\ ~connections[reap_queue[i].id].registered
  BY <1>3, <1>4 DEF Registry, QueueShape
<1>7. \A i \in DOMAIN reap_queue' :
         /\ reap_queue'[i].id \in DOMAIN connections'
         /\ status'[reap_queue'[i].id] # "new"
         /\ ~connections'[reap_queue'[i].id].registered
  <2> TAKE i \in DOMAIN reap_queue'
  <2>1. CASE i = n + 1
    BY <1>3, <1>4, <2>1
  <2>2. CASE i \in 1..n
    BY <1>3, <1>4, <1>6, <2>2
  <2> QED BY <1>4, <2>1, <2>2
<1>8. \A x : Queued(x) => Queued(x)'
  BY <1>4, <1>5 DEF Queued
<1>9. Queued(c)'
  BY <1>4, <1>5 DEF Queued
<1>10. \A x \in DOMAIN connections' :
          status'[x] # "new" /\ ~connections'[x].registered => Queued(x)'
  <2> TAKE x \in DOMAIN connections'
  <2>1. CASE x = c
    BY <1>9, <2>1
  <2>2. CASE x # c
    BY <1>3, <1>8, <2>2 DEF Registry, QueueShape
  <2> QED BY <2>1, <2>2
<1>11. \A i, j \in DOMAIN reap_queue' : reap_queue'[i].id = reap_queue'[j].id => i = j
  <2> SUFFICES ASSUME NEW i \in DOMAIN reap_queue', NEW j \in DOMAIN reap_queue',
                      reap_queue'[i].id = reap_queue'[j].id
               PROVE  i = j
    OBVIOUS
  <2>1. CASE i = n + 1 \/ j = n + 1
    BY <1>4, <1>6, <2>1
  <2>2. CASE i \in 1..n /\ j \in 1..n
    BY <1>4, <2>2 DEF Registry, QueueShape
  <2> QED BY <1>4, <2>1, <2>2
<1> QED BY <1>7, <1>8, <1>9, <1>10, <1>11 DEF QueueShape

\* Quiet steps keep ids, queue and the session layer's view in agreement; what is queued
\* stays queued.
LEMMA QuietRegistry ==
    ASSUME TypeInv, Registry, QuietStep,
           \A c \in Conn : c >= next_id => socket'[c] = socket[c] /\ heard'[c] = heard[c]
    PROVE  Registry' /\ (\A x \in Conn : Queued(x) => Queued(x)')
<1>1. UNCHANGED <<next_id, status>>
  BY DEF QuietStep
<1>2. CASE Untouched /\ \A x \in ready' : x \in ready \/ Active(x)
  <2>1. IdsInOrder'
    BY <1>1, <1>2 DEF Registry, IdsInOrder, Untouched, Active
  <2>2. QueueShape' /\ (\A x : Queued(x) => Queued(x)')
    BY <1>1, <1>2 DEF Registry, QueueShape, Untouched, Queued
  <2> QED BY <2>1, <2>2 DEF Registry
<1>3. ASSUME NEW c \in DOMAIN connections, NEW why \in Reason, Retired(c, why)
      PROVE  Registry' /\ (\A x \in Conn : Queued(x) => Queued(x)')
  <2>1. IdsInOrder'
    <3>1. /\ DOMAIN connections' = DOMAIN connections /\ ~connections'[c].registered
          /\ \A x \in DOMAIN connections : x # c => connections'[x] = connections[x]
          /\ ready' = ready \ {c}
      BY <1>3 DEF Retired
    <3> QED BY <1>1, <3>1 DEF Registry, IdsInOrder, Active
  <2> QED BY <1>1, <1>3, <2>1, RetiredRegistry DEF Registry
<1> QED BY <1>2, <1>3 DEF QuietStep

LEMMA AcceptRegistry ==
    ASSUME ServerInv, OnAccepted
    PROVE  Registry'
<1> DEFINE c == next_id
<1>1. TypeInv /\ Registry
  BY QueueShapeIsExact DEF ServerInv, TypeInv, Registry
<1>2. /\ c \in Conn /\ c \in Nat /\ Conn \subseteq Nat /\ next_id' = c + 1
      /\ status[c] = "new" /\ c \notin DOMAIN connections
      /\ UNCHANGED <<listening, reap_queue, socket, reason, heard>>
  <2>1. c \in Conn /\ next_id' = c + 1 /\ UNCHANGED <<listening, reap_queue, socket, reason, heard>>
    BY AcceptEffect
  <2>2. Conn \subseteq Nat /\ DOMAIN connections \subseteq 1..(c - 1)
    BY <1>1, TypesUsed, BoundsAreNumbers
  <2>3. c \in Nat /\ c >= c
    BY <2>1, <2>2
  <2>4. status[c] = "new"
    BY <1>1, <2>1, <2>3 DEF Registry, IdsInOrder
  <2> HIDE DEF c
  <2> QED BY <2>1, <2>2, <2>3, <2>4
<1>3. \/ /\ DOMAIN connections' = DOMAIN connections \cup {c}
         /\ connections'[c].registered
         /\ \A x \in DOMAIN connections : connections'[x] = connections[x]
         /\ ready' \subseteq ready \cup {c}
         /\ status' = [status EXCEPT ![c] = "connected"]
      \/ UNCHANGED <<connections, ready, status>>
      \/ /\ DOMAIN connections' = DOMAIN connections \cup {c}
         /\ ~connections'[c].registered
         /\ \A x \in DOMAIN connections : connections'[x] = connections[x]
         /\ UNCHANGED <<ready, status>>
  <2>1. NewConnection.registered /\ ~[NewConnection EXCEPT !.registered = FALSE].registered
    BY DEF NewConnection
  <2>2. Polled(c, socket[c], FALSE) \subseteq ready \cup {c}
    BY DEF Polled
  <2>3. \/ /\ DOMAIN connections' = DOMAIN connections \cup {c}
           /\ connections'[c] = NewConnection
           /\ \A x \in DOMAIN connections : connections'[x] = connections[x]
           /\ ready' = Polled(c, socket[c], FALSE)
           /\ status' = [status EXCEPT ![c] = "connected"]
        \/ UNCHANGED <<connections, ready, status>>
        \/ /\ DOMAIN connections' = DOMAIN connections \cup {c}
           /\ connections'[c] = [NewConnection EXCEPT !.registered = FALSE]
           /\ \A x \in DOMAIN connections : connections'[x] = connections[x]
           /\ UNCHANGED <<ready, status>>
    BY AcceptEffect
  <2> HIDE DEF c
  <2> QED BY <2>1, <2>2, <2>3
<1>4. /\ \A x \in Conn : x >= next_id' => x # c /\ x >= next_id
      /\ status \in [Conn -> {"new", "connected", "ended"}]
  <2>1. \A x \in Conn : x >= c + 1 => x # c /\ x >= c
    BY <1>2
  <2> QED BY <1>1, <1>2, <2>1 DEF TypeInv, ServerTypeOK
<1> HIDE DEF c
<1>5. CASE /\ DOMAIN connections' = DOMAIN connections \cup {c}
           /\ connections'[c].registered
           /\ \A x \in DOMAIN connections : connections'[x] = connections[x]
           /\ ready' \subseteq ready \cup {c}
           /\ status' = [status EXCEPT ![c] = "connected"]
  <2>1. status'[c] = "connected" /\ \A x \in Conn : x # c => status'[x] = status[x]
    BY <1>2, <1>4, <1>5
  <2>2. IdsInOrder'
    BY <1>1, <1>2, <1>4, <1>5, <2>1 DEF Registry, IdsInOrder, Active
  <2>3. QueueShape'
    <3>1. DOMAIN connections \subseteq Conn
      BY <1>1, TypesUsed
    <3> QED BY <1>1, <1>2, <1>5, <2>1, <3>1 DEF Registry, QueueShape, Queued
  <2> QED BY <2>2, <2>3 DEF Registry
<1>6. CASE UNCHANGED <<connections, ready, status>>
  BY <1>1, <1>2, <1>4, <1>6 DEF Registry, IdsInOrder, QueueShape, Queued, Active
<1>7. CASE /\ DOMAIN connections' = DOMAIN connections \cup {c}
           /\ ~connections'[c].registered
           /\ \A x \in DOMAIN connections : connections'[x] = connections[x]
           /\ UNCHANGED <<ready, status>>
  <2>1. IdsInOrder'
    BY <1>1, <1>2, <1>4, <1>7 DEF Registry, IdsInOrder, Active
  <2>2. QueueShape'
    BY <1>1, <1>2, <1>7 DEF Registry, QueueShape, Queued
  <2> QED BY <2>1, <2>2 DEF Registry
<1> QED BY <1>3, <1>5, <1>6, <1>7

\* The entry that is taken was the only one for its connection.
LEMMA ReapRegistry ==
    ASSUME ServerInv, Reap
    PROVE  Registry' /\ \A x \in Conn : Queued(x) => Queued(x)' \/ x = reap_queue[1].id
<1> DEFINE c == reap_queue[1].id
           n == Len(reap_queue)
<1>1. TypeInv /\ Registry
  BY QueueShapeIsExact DEF ServerInv, TypeInv, Registry
<1>2. /\ c \in DOMAIN connections /\ c \in Conn /\ status[c] = "connected" /\ reap_queue # <<>>
      /\ ~connections[c].registered
      /\ DOMAIN connections' = DOMAIN connections \ {c}
      /\ \A x \in DOMAIN connections' : connections'[x] = connections[x]
      /\ status' = [status EXCEPT ![c] = "ended"]
      /\ UNCHANGED <<listening, next_id, socket, ready, heard>>
  BY ReapEffect
<1>3. /\ 1 \in DOMAIN reap_queue /\ n \in Nat /\ n >= 1
      /\ DOMAIN reap_queue = 1..n /\ DOMAIN reap_queue' = 1..(n - 1)
      /\ \A i \in 1..(n - 1) : reap_queue'[i] = reap_queue[i + 1]
  <2>1. reap_queue' = Tail(reap_queue) /\ reap_queue \in Seq(Entry)
    BY <1>1, ReapEffect, TypesUsed
  <2> QED BY <1>2, <2>1, QueueParts
<1>4. \A x \in Conn : status'[x] = IF x = c THEN "ended" ELSE status[x]
  BY <1>1, <1>2 DEF TypeInv, ServerTypeOK
<1> HIDE DEF n
<1>5. \A i \in 1..(n - 1) : i + 1 \in 1..n /\ i + 1 # 1 /\ i \in Int
  BY <1>3
<1>6. \A i \in 1..n : i = 1 \/ (i - 1 \in 1..(n - 1) /\ (i - 1) + 1 = i)
  BY <1>3
<1>7. \A i \in 1..(n - 1) : reap_queue'[i].id # c
  BY <1>1, <1>3, <1>5 DEF Registry, QueueShape
<1>8. \A x : Queued(x) => Queued(x)' \/ x = c
  <2> SUFFICES ASSUME NEW x, NEW i \in 1..n, reap_queue[i].id = x, x # c
               PROVE  \E j \in 1..(n - 1) : reap_queue'[j].id = x
    BY <1>3 DEF Queued
  <2>1. i # 1
    OBVIOUS
  <2> QED BY <1>3, <1>6, <2>1
<1> HIDE DEF c
<1>9. IdsInOrder'
  <2>1. DOMAIN connections \subseteq 1..(next_id - 1) /\ Conn \subseteq Nat /\ next_id \in Nat
        /\ DOMAIN connections \subseteq Conn
    BY <1>1, TypesUsed, BoundsAreNumbers
  <2>2. ~(c >= next_id)
    BY <1>2, <2>1
  <2>3. \A x \in ready : x # c /\ x \in DOMAIN connections
    BY <1>1, <1>2 DEF Registry, IdsInOrder, Active
  <2>4. \A x \in Conn : x >= next_id' =>
            socket'[x] = NewSocket /\ heard'[x] = <<>> /\ status'[x] = "new"
    BY <1>1, <1>2, <1>4, <2>2 DEF Registry, IdsInOrder
  <2>5. \A x \in Conn : status'[x] = "connected" <=> x \in DOMAIN connections' /\ status'[x] # "new"
    BY <1>1, <1>2, <1>4 DEF Registry, IdsInOrder
  <2>6. \A x \in DOMAIN connections' : connections'[x].registered => status'[x] = "connected"
    BY <1>1, <1>2, <1>4, <2>1 DEF Registry, IdsInOrder
  <2>7. \A x \in ready' : Active(x)'
    BY <1>1, <1>2, <2>3 DEF Registry, IdsInOrder, Active
  <2> QED BY <2>4, <2>5, <2>6, <2>7 DEF IdsInOrder
<1>10. \A i \in DOMAIN reap_queue' :
          LET x == reap_queue'[i].id IN
          x \in DOMAIN connections' /\ status'[x] # "new" /\ ~connections'[x].registered
  <2> TAKE i \in DOMAIN reap_queue'
  <2>1. i + 1 \in DOMAIN reap_queue /\ reap_queue'[i] = reap_queue[i + 1] /\ reap_queue'[i].id # c
    BY <1>3, <1>5, <1>7
  <2>2. DOMAIN connections \subseteq Conn
    BY <1>1, TypesUsed
  <2> QED BY <1>1, <1>2, <1>4, <2>1, <2>2 DEF Registry, QueueShape
<1>11. \A x \in DOMAIN connections' :
          status'[x] # "new" /\ ~connections'[x].registered => Queued(x)'
  <2>1. DOMAIN connections \subseteq Conn
    BY <1>1, TypesUsed
  <2> QED BY <1>1, <1>2, <1>4, <1>8, <2>1 DEF Registry, QueueShape
<1>12. \A i, j \in DOMAIN reap_queue' : reap_queue'[i].id = reap_queue'[j].id => i = j
  <2> SUFFICES ASSUME NEW i \in 1..(n - 1), NEW j \in 1..(n - 1),
                      reap_queue'[i].id = reap_queue'[j].id
               PROVE  i = j
    BY <1>3
  <2>1. \A k, l \in DOMAIN reap_queue : reap_queue[k].id = reap_queue[l].id => k = l
    BY <1>1 DEF Registry, QueueShape
  <2>2. i + 1 \in DOMAIN reap_queue /\ j + 1 \in DOMAIN reap_queue
    BY <1>3, <1>5
  <2>3. reap_queue[i + 1].id = reap_queue[j + 1].id
    BY <1>3
  <2>4. i + 1 = j + 1
    BY <2>1, <2>2, <2>3
  <2> QED BY <1>5, <2>4
<1> QED BY <1>8, <1>9, <1>10, <1>11, <1>12 DEF Registry, QueueShape, c

LEMMA StopRegistry ==
    ASSUME ServerInv, Stop
    PROVE  Registry'
<1>1. TypeInv /\ Registry
  BY QueueShapeIsExact DEF ServerInv, TypeInv, Registry
<1>2. /\ UNCHANGED <<next_id, socket, status, reason, heard>> /\ reap_queue = <<>>
      /\ DOMAIN connections' = DOMAIN connections
      /\ \A x \in DOMAIN connections : ~connections'[x].registered
      /\ ready' = {}
      /\ \A i \in DOMAIN reap_queue' : Active(reap_queue'[i].id)
      /\ \A c \in DOMAIN connections :
           connections[c].registered => \E i \in DOMAIN reap_queue' : reap_queue'[i].id = c
      /\ \A i, j \in DOMAIN reap_queue' : reap_queue'[i].id = reap_queue'[j].id => i = j
  BY StopEffect DEF portVars
<1>3. IdsInOrder'
  BY <1>1, <1>2 DEF Registry, IdsInOrder
<1>4. \A c \in DOMAIN connections : status[c] # "new" => connections[c].registered
  BY <1>1, <1>2 DEF Registry, QueueShape, Queued
<1>5. QueueShape'
  BY <1>1, <1>2, <1>4 DEF Registry, IdsInOrder, QueueShape, Queued, Active
<1> QED BY <1>3, <1>5 DEF Registry

----------------------------------------------------------------------------
(* The stack of calls *)

\* Nothing is called above a handler that receives.
LEMMA ReceiverIsAlone ==
    ASSUME SequencesTyped, StackShape, stack # <<>>, Bottom.at = "receive"
    PROVE  Len(stack) = 1 /\ Top = Bottom
<1> DEFINE n == Len(stack)
<1>1. n \in Nat /\ n >= 1 /\ DOMAIN stack = 1..n
  BY DEF SequencesTyped
<1> HIDE DEF n
<1>2. ASSUME n # 1 PROVE FALSE
  <2>1. n - 1 \in DOMAIN stack /\ (n - 1) + 1 = n /\ n - 1 # n
    BY <1>1, <1>2
  <2>2. stack[n - 1] \in Call /\ stack[n].at = "receive"
    BY <2>1, ElementType DEF SequencesTyped, Bottom, n
  <2>3. stack[n - 1].at \notin Handling
    BY <2>1 DEF StackShape, n
  <2>4. stack[n - 1].at # "application"
    BY <2>1, <2>2 DEF StackShape, n
  <2>5. stack[n - 1].at # "reap"
    BY <2>1, <2>2 DEF StackShape, n
  <2> QED BY <2>2, <2>3, <2>4, <2>5 DEF Call, Handling
<1> QED BY <1>1, <1>2 DEF Top, Bottom, n

LEMMA OneFits ==
    ASSUME NEW call \in Call, stack' = <<call>>,
           \/ /\ call.at \in Handling /\ call.id # 0
              /\ call.at = "receive" =>
                   call.id \in DOMAIN connections' /\ connections'[call.id].registered
           \/ call.at = "reap"
           \/ call.at = "application" /\ call.id = 0 /\ reap_queue' = <<>>
    PROVE  StackShape'
<1>1. Len(stack') = 1 /\ stack'[1] = call /\ DOMAIN stack' = {1} /\ stack' # <<>>
  BY OneCall
<1>2. Bottom' = call
  BY <1>1 DEF Bottom
<1>3. (Bottom.at)' = "receive" => Active(Bottom.id)'
  BY <1>2 DEF Active, Handling
<1> QED BY <1>1, <1>2, <1>3 DEF StackShape, Handling

\* What the innermost call calls is put in front of the others, which stay where they are.
InFront(call) ==
    /\ stack' \in Seq(Call) /\ Len(stack') = Len(stack) + 1 /\ stack'[1] = call
    /\ \A i \in 1..Len(stack) :
         stack'[i + 1].at = stack[i].at /\ stack'[i + 1].id = stack[i].id

LEMMA PushedFits ==
    ASSUME SequencesTyped, StackShape, stack # <<>>, NEW call \in Call, InFront(call),
           \/ call.at = "application" /\ Top.at \in {"dispatch", "reap"}
           \/ call.at = "reap" /\ Top.at = "application"
    PROVE  StackShape'
<1> DEFINE n == Len(stack)
<1>1. /\ n \in Nat /\ n >= 1 /\ DOMAIN stack = 1..n
      /\ stack' \in Seq(Call) /\ stack' # <<>> /\ Len(stack') = n + 1 /\ stack'[1] = call
      /\ \A i \in 1..n : stack'[i + 1].at = stack[i].at /\ stack'[i + 1].id = stack[i].id
  BY DEF SequencesTyped, InFront
<1>2. DOMAIN stack' = 1..(n + 1)
  BY <1>1
<1> HIDE DEF n
<1>3. \A i \in 1..(n + 1) : i = 1 \/ \E j \in 1..n : i = j + 1
  <2> TAKE i \in 1..(n + 1)
  <2>1. i = 1 \/ (i - 1 \in 1..n /\ i = (i - 1) + 1)
    BY <1>1
  <2> QED BY <2>1
<1>4. \A i \in 1..n : /\ i \in Int /\ (i + 1 = n + 1 <=> i = n) /\ (i # n => i + 1 \in 1..n)
  BY <1>1
<1>5. stack'[2].at = stack[1].at /\ n + 1 # 1 /\ stack'[n + 1].at = stack[n].at
      /\ 1 + 1 = 2
  <2>1. n \in 1..n /\ 1 \in 1..n /\ 1 + 1 = 2 /\ n + 1 # 1
    BY <1>1
  <2>2. stack'[1 + 1].at = stack[1].at /\ stack'[n + 1].at = stack[n].at
    BY <1>1, <2>1
  <2> QED BY <2>1, <2>2
<1>6. \A i \in DOMAIN stack' : stack'[i].at \in Handling => i = n + 1 /\ stack'[i].id # 0
  <2> TAKE i \in DOMAIN stack'
  <2>1. CASE i = 1
    BY <1>1, <2>1 DEF Handling
  <2>2. ASSUME NEW j \in 1..n, i = j + 1
        PROVE  stack'[i].at \in Handling => i = n + 1 /\ stack'[i].id # 0
    <3>1. stack[j].at \in Handling => j = n /\ stack[j].id # 0
      BY <1>1 DEF StackShape, n
    <3> QED BY <1>1, <2>2, <3>1
  <2> QED BY <1>2, <1>3, <2>1, <2>2
<1>7. \A i \in DOMAIN stack' : stack'[i].at = "application" =>
        IF i = n + 1 THEN stack'[i].id = 0 ELSE stack'[i + 1].at \in {"dispatch", "reap"}
  <2> TAKE i \in DOMAIN stack'
  <2>1. CASE i = 1
    BY <1>1, <1>5, <2>1 DEF Top
  <2>2. ASSUME NEW j \in 1..n, i = j + 1
        PROVE  stack'[i].at = "application" =>
                 IF i = n + 1 THEN stack'[i].id = 0 ELSE stack'[i + 1].at \in {"dispatch", "reap"}
    <3>1. stack[j].at = "application" =>
            IF j = n THEN stack[j].id = 0 ELSE stack[j + 1].at \in {"dispatch", "reap"}
      BY <1>1 DEF StackShape, n
    <3>2. j # n => stack'[(j + 1) + 1].at = stack[j + 1].at
      BY <1>1, <1>4
    <3> QED BY <1>1, <1>4, <2>2, <3>1, <3>2
  <2> QED BY <1>2, <1>3, <2>1, <2>2
<1>8. \A i \in DOMAIN stack' : stack'[i].at = "reap" =>
        i = n + 1 \/ stack'[i + 1].at = "application"
  <2> TAKE i \in DOMAIN stack'
  <2>1. CASE i = 1
    BY <1>1, <1>5, <2>1 DEF Top
  <2>2. ASSUME NEW j \in 1..n, i = j + 1
        PROVE  stack'[i].at = "reap" => i = n + 1 \/ stack'[i + 1].at = "application"
    <3>1. stack[j].at = "reap" => j = n \/ stack[j + 1].at = "application"
      BY <1>1 DEF StackShape, n
    <3>2. j # n => stack'[(j + 1) + 1].at = stack[j + 1].at
      BY <1>1, <1>4
    <3> QED BY <1>1, <1>4, <2>2, <3>1, <3>2
  <2> QED BY <1>2, <1>3, <2>1, <2>2
<1>9. (Bottom.at)' # "receive" /\ (Bottom.at)' = Bottom.at
  <2>1. (Bottom.at)' = stack[n].at
    BY <1>1, <1>5 DEF Bottom
  <2>2. Bottom = stack[n]
    BY DEF Bottom, n
  <2>3. Bottom.at # "receive"
    <3>1. Top.at # "receive"
      OBVIOUS
    <3> QED BY <3>1, ReceiverIsAlone
  <2> QED BY <2>1, <2>2, <2>3
<1>10. stack' # <<>> /\ Len(stack') = n + 1 /\ Len(stack') # 1
  BY <1>1
<1> QED BY <1>6, <1>7, <1>8, <1>9, <1>10 DEF StackShape

\* The innermost call goes on as what it is.
LEMMA ReplacedFits ==
    ASSUME SequencesTyped, StackShape, stack # <<>>, NEW call \in Call,
           stack' = <<call>> \o Tail(stack), call.at = Top.at, call.id = Top.id,
           Top.at = "application", reap_queue' = reap_queue
    PROVE  StackShape'
<1> DEFINE n == Len(stack)
<1>1. /\ n \in Nat /\ n >= 1 /\ DOMAIN stack = 1..n
      /\ stack' \in Seq(Call) /\ stack' # <<>> /\ Len(stack') = n
      /\ stack'[1] = call /\ \A i \in 2..n : stack'[i] = stack[i]
  BY ReplacedCall DEF SequencesTyped
<1> HIDE DEF n
<1>2. DOMAIN stack' = 1..n /\ n \in 1..n /\ \A i \in 1..n : i = 1 \/ i \in 2..n
  BY <1>1
<1>3. \A i \in 1..n : stack'[i].at = stack[i].at /\ stack'[i].id = stack[i].id
  BY <1>1, <1>2 DEF Top
<1>4. \A i \in 1..n : i # n => i + 1 \in 1..n
  BY <1>1
<1>5. \A i \in DOMAIN stack' : stack'[i].at \in Handling => i = n /\ stack'[i].id # 0
  BY <1>1, <1>2, <1>3 DEF StackShape, n
<1>6. \A i \in DOMAIN stack' : stack'[i].at = "application" =>
        IF i = n THEN stack'[i].id = 0 ELSE stack'[i + 1].at \in {"dispatch", "reap"}
  <2> TAKE i \in DOMAIN stack'
  <2>1. stack[i].at = "application" =>
          IF i = n THEN stack[i].id = 0 ELSE stack[i + 1].at \in {"dispatch", "reap"}
    BY <1>1, <1>2 DEF StackShape, n
  <2> QED BY <1>2, <1>3, <1>4, <2>1
<1>7. \A i \in DOMAIN stack' : stack'[i].at = "reap" => i = n \/ stack'[i + 1].at = "application"
  <2> TAKE i \in DOMAIN stack'
  <2>1. stack[i].at = "reap" => i = n \/ stack[i + 1].at = "application"
    BY <1>1, <1>2 DEF StackShape, n
  <2> QED BY <1>2, <1>3, <1>4, <2>1
<1>8. (Bottom.at)' = Bottom.at /\ Bottom.at # "receive"
  <2>1. (Bottom.at)' = stack[n].at
    BY <1>1, <1>2, <1>3 DEF Bottom
  <2>2. Bottom = stack[n]
    BY DEF Bottom, n
  <2> QED BY <2>1, <2>2, ReceiverIsAlone
<1>9. (Len(stack') = 1 /\ (Bottom.at)' = "application") => reap_queue' = <<>>
  BY <1>1, <1>8 DEF StackShape, n
<1> QED BY <1>1, <1>5, <1>6, <1>7, <1>8, <1>9 DEF StackShape

\* A callback or a reap returns. A caller that is a timer finds the queue empty.
LEMMA PoppedFits ==
    ASSUME SequencesTyped, StackShape, stack # <<>>, stack' = Tail(stack),
           Top.at \in {"application", "reap"},
           Len(stack) = 1 \/ stack[2].at = "application" => reap_queue' = <<>>
    PROVE  StackShape'
<1> DEFINE n == Len(stack)
<1>1. /\ n \in Nat /\ n >= 1 /\ DOMAIN stack = 1..n
      /\ stack' \in Seq(Call) /\ Len(stack') = n - 1
      /\ \A i \in 1..(n - 1) : stack'[i] = stack[i + 1]
  BY RestOfCalls DEF SequencesTyped
<1>2. DOMAIN stack' = 1..(n - 1)
  BY <1>1
<1> HIDE DEF n
<1>3. \A i \in 1..(n - 1) : i \in Int /\ i + 1 \in 1..n /\ (i = n - 1 <=> i + 1 = n)
                            /\ (i # n - 1 => i + 1 \in 1..(n - 1))
  BY <1>1
<1>4. \A i \in DOMAIN stack' : stack'[i].at \in Handling => i = n - 1 /\ stack'[i].id # 0
  <2> TAKE i \in DOMAIN stack'
  <2>1. stack'[i] = stack[i + 1] /\ i + 1 \in DOMAIN stack
    BY <1>1, <1>2, <1>3
  <2>2. stack[i + 1].at \in Handling => i + 1 = n /\ stack[i + 1].id # 0
    BY <2>1 DEF StackShape, n
  <2> QED BY <1>2, <1>3, <2>1, <2>2
<1>5. \A i \in DOMAIN stack' : stack'[i].at = "application" =>
        IF i = n - 1 THEN stack'[i].id = 0 ELSE stack'[i + 1].at \in {"dispatch", "reap"}
  <2> TAKE i \in DOMAIN stack'
  <2>1. stack'[i] = stack[i + 1] /\ i + 1 \in DOMAIN stack
    BY <1>1, <1>2, <1>3
  <2>2. stack[i + 1].at = "application" =>
          IF i + 1 = n THEN stack[i + 1].id = 0 ELSE stack[(i + 1) + 1].at \in {"dispatch", "reap"}
    BY <2>1 DEF StackShape, n
  <2>3. i # n - 1 => stack'[i + 1] = stack[(i + 1) + 1]
    BY <1>1, <1>2, <1>3
  <2> QED BY <1>2, <1>3, <2>1, <2>2, <2>3
<1>6. \A i \in DOMAIN stack' : stack'[i].at = "reap" =>
        i = n - 1 \/ stack'[i + 1].at = "application"
  <2> TAKE i \in DOMAIN stack'
  <2>1. stack'[i] = stack[i + 1] /\ i + 1 \in DOMAIN stack
    BY <1>1, <1>2, <1>3
  <2>2. stack[i + 1].at = "reap" => i + 1 = n \/ stack[(i + 1) + 1].at = "application"
    BY <2>1 DEF StackShape, n
  <2>3. i # n - 1 => stack'[i + 1] = stack[(i + 1) + 1]
    BY <1>1, <1>2, <1>3
  <2> QED BY <1>2, <1>3, <2>1, <2>2, <2>3
<1>7. CASE n = 1
  <2>1. stack' = <<>> /\ reap_queue' = <<>>
    BY <1>1, <1>7 DEF n
  <2> QED BY <1>1, <1>4, <1>5, <1>6, <2>1 DEF StackShape
<1>8. CASE n # 1
  <2>1. stack' # <<>> /\ stack'[n - 1] = stack[n] /\ stack'[1] = stack[2]
    <3>1. n - 1 \in 1..(n - 1) /\ 1 \in 1..(n - 1) /\ (n - 1) + 1 = n /\ 1 + 1 = 2
      BY <1>1, <1>8
    <3>2. stack'[n - 1] = stack[(n - 1) + 1] /\ stack'[1] = stack[1 + 1]
      BY <1>1, <3>1
    <3> QED BY <1>2, <3>1, <3>2
  <2>2. Bottom' = Bottom
    BY <1>1, <2>1 DEF Bottom, n
  <2>3. Bottom.at # "receive"
    BY <1>8, ReceiverIsAlone DEF n
  <2>4. ~(Len(stack') = 1 /\ (Bottom.at)' = "application") \/ reap_queue' = <<>>
    <3> SUFFICES ASSUME n - 1 = 1, (Bottom.at)' = "application" PROVE reap_queue' = <<>>
      BY <1>1
    <3>1. Bottom' = stack'[1]
      BY <1>1 DEF Bottom
    <3> QED BY <2>1, <3>1
  <2> QED BY <1>1, <1>4, <1>5, <1>6, <2>1, <2>2, <2>3, <2>4 DEF StackShape
<1> QED BY <1>7, <1>8

LEMMA PushedInFront ==
    ASSUME SequencesTyped, NEW call \in Call, stack' = <<call>> \o stack
    PROVE  InFront(call)
<1>1. /\ stack' \in Seq(Call) /\ Len(stack') = Len(stack) + 1 /\ stack'[1] = call
      /\ \A i \in 1..Len(stack) : stack'[i + 1] = stack[i]
  BY PushedCall DEF SequencesTyped
<1> QED BY <1>1 DEF InFront

LEMMA CalledInFront ==
    ASSUME SequencesTyped, stack # <<>>, NEW call \in Call, NEW caller \in Call,
           caller.at = Top.at, caller.id = Top.id,
           stack' = <<call, caller>> \o Tail(stack)
    PROVE  InFront(call)
<1>1. /\ stack' \in Seq(Call) /\ Len(stack') = Len(stack) + 1
      /\ stack'[1] = call /\ stack'[2] = caller
      /\ \A i \in 3..(Len(stack) + 1) : stack'[i] = stack[i - 1]
  BY CalledCall DEF SequencesTyped
<1>2. Len(stack) \in Nat /\ Len(stack) >= 1
  BY DEF SequencesTyped
<1> DEFINE n == Len(stack)
<1> HIDE DEF n
<1>3. \A i \in 1..n : stack'[i + 1].at = stack[i].at /\ stack'[i + 1].id = stack[i].id
  <2> TAKE i \in 1..n
  <2>1. CASE i = 1
    <3>1. i + 1 = 2
      BY <2>1
    <3> QED BY <1>1, <2>1, <3>1 DEF Top
  <2>2. CASE i # 1
    <3>1. i + 1 \in 3..(n + 1) /\ (i + 1) - 1 = i
      BY <1>2, <2>2 DEF n
    <3> QED BY <1>1, <3>1 DEF n
  <2> QED BY <2>1, <2>2
<1> QED BY <1>1, <1>3 DEF InFront, n

LEMMA HandlerReplaced ==
    ASSUME SequencesTyped, stack # <<>>, Len(stack) = 1, NEW call, GoTo(call)
    PROVE  stack' = <<call>>
<1>1. Tail(stack) \in Seq(Call) /\ Len(Tail(stack)) = 0
  BY RestOfCalls DEF SequencesTyped
<1>2. Tail(stack) = <<>>
  <2> DEFINE t == Tail(stack)
  <2> HIDE DEF t
  <2>1. t \in Seq(Call) /\ Len(t) = 0
    BY <1>1 DEF t
  <2>2. t = <<>>
    BY <2>1
  <2> QED BY <2>2 DEF t
<1>3. <<call>> \o <<>> = <<call>>
  OBVIOUS
<1> QED BY <1>2, <1>3 DEF GoTo

\* Whatever is called in whatever order, the stack keeps its shape.
LEMMA ShapeKeptByServer ==
    ASSUME ServerInv, ServerSteps
    PROVE  StackShape'
<1>1. TypeInv /\ SequencesTyped /\ StackShape /\ Registry
  BY QueueShapeIsExact DEF ServerInv, TypeInv, Registry
<1>2. CASE OnAccepted
  <2>1. stack = <<>> /\ next_id \in Conn /\ reap_queue' = reap_queue /\ reap_queue = <<>>
    BY <1>1, <1>2, AcceptEffect DEF StackShape
  <2>2. CASE stack' = <<Invoke("application", next_id), Invoke("reap", 0)>>
    <3>1. Invoke("application", next_id).at = "application" /\ Invoke("reap", 0).at = "reap"
      BY DEF Invoke
    <3>2. /\ DOMAIN stack' = {1, 2} /\ Len(stack') = 2 /\ stack' # <<>>
          /\ stack'[1].at = "application" /\ stack'[2].at = "reap"
      BY <2>2, <3>1
    <3> QED BY <3>2 DEF StackShape, Bottom, Handling
  <2>3. CASE stack' = stack
    BY <2>1, <2>3 DEF StackShape
  <2> QED BY <1>2, <2>2, <2>3, AcceptEffect
<1>3. ASSUME NEW c \in Conn, OnConnectionEvent(c)
      PROVE  StackShape'
  <2> DEFINE events == Readiness(socket[c], connections[c].writes)
             place == IF "readable" \in events THEN "receive" ELSE "after_read"
             call == [Invoke(place, c) EXCEPT !.events = events]
  <2>1. stack = <<>> /\ c \in ready /\ (stack' = <<>> \/ stack' = <<call>>)
        /\ reap_queue = <<>> /\ reap_queue' = reap_queue /\ connections' = connections
    BY <1>1, <1>3 DEF OnConnectionEvent, StackShape
  <2>2. c \in DOMAIN connections' /\ connections'[c].registered /\ c # 0
    BY <1>1, <2>1, BoundsAreNumbers DEF Registry, IdsInOrder, Active
  <2>3. call \in Call /\ call.at \in Handling /\ call.id = c
    <3>1. events \in SUBSET Event
      BY DEF Readiness
    <3>3. place \in {"receive", "dispatch", "after_read", "reap", "application"}
      OBVIOUS
    <3>4. Invoke(place, c) \in Call /\ Invoke(place, c).at = place /\ Invoke(place, c).id = c
      <4>1. c \in {0} \cup Conn
        BY <1>3
      <4> HIDE DEF place
      <4> QED BY <3>3, <4>1, InvokedCall
    <3>2. place \in Handling
      BY DEF Handling
    <3> HIDE DEF events, place
    <3> QED BY <3>1, <3>2, <3>4 DEF Call
  <2> HIDE DEF call
  <2>4. CASE stack' = <<>>
    BY <2>1, <2>4 DEF StackShape
  <2>5. CASE stack' = <<call>>
    BY <2>2, <2>3, <2>5, OneFits
  <2> QED BY <2>1, <2>4, <2>5
<1>4. CASE Receive
  <2>1. /\ stack # <<>> /\ Len(stack) = 1 /\ Top \in Call /\ Top.id \in Conn
        /\ \E call \in Call :
              /\ call = [Top EXCEPT !.at = "dispatch",
                           !.result = ReceiveResult(Len(connections'[Top.id].rx), socket[Top.id])]
              /\ GoTo(call)
    BY <1>4, ReceiveEffect
  <2>2. PICK call \in Call : call.at = "dispatch" /\ call.id = Top.id /\ GoTo(call)
    BY <2>1 DEF Call
  <2>3. stack' = <<call>> /\ call.id # 0
    BY <1>1, <2>1, <2>2, HandlerReplaced, BoundsAreNumbers
  <2> QED BY <2>2, <2>3, OneFits DEF Handling
<1>5. CASE DispatchFrame
  <2>1. stack # <<>> /\ Top.at = "dispatch" /\ Len(stack) = 1 /\ Bottom = Top /\ Top.id \in Conn
        /\ 1 \in DOMAIN stack
    BY <1>1, <1>5, HandlerRuns DEF DispatchFrame, Running, Handling
  <2>2. CASE Calls(Invoke("application", Top.id))
    <3>1. Invoke("application", Top.id) \in Call /\ Invoke("application", Top.id).at = "application"
      BY <2>1, InvokedCall
    <3> QED BY <1>1, <2>1, <2>2, <3>1, PushedInFront, PushedFits DEF Calls
  <2>3. CASE stack' = stack
    <3>1. Bottom' = Bottom
      BY <2>3 DEF Bottom
    <3> QED BY <1>1, <2>1, <2>3, <3>1 DEF StackShape
  <2> QED BY <1>5, <2>2, <2>3 DEF DispatchFrame
<1>6. CASE AfterDispatch
  <2>1. stack # <<>> /\ Len(stack) = 1 /\ Bottom = Top /\ Top.id \in Conn /\ Top \in Call
    BY <1>1, <1>6, HandlerRuns DEF AfterDispatch, Running, Handling
  <2> DEFINE afterRead == [Top EXCEPT !.at = "after_read", !.result = "none"]
             again == [afterRead EXCEPT !.at = "receive"]
  <2>2. /\ afterRead \in Call /\ afterRead.at = "after_read" /\ afterRead.id = Top.id
        /\ again \in Call /\ again.at = "receive" /\ again.id = Top.id
    BY <2>1 DEF Call
  <2>3. \/ GoTo(afterRead)
        \/ GoTo(again) /\ Active(Top.id) /\ Top.result = "full" /\ UNCHANGED connections
    BY <1>6 DEF AfterDispatch
  <2>4. Top.id # 0
    BY <2>1, BoundsAreNumbers
  <2> HIDE DEF afterRead, again
  <2>5. CASE GoTo(afterRead)
    <3>1. stack' = <<afterRead>>
      BY <1>1, <2>1, <2>5, HandlerReplaced
    <3> QED BY <2>2, <2>4, <3>1, OneFits DEF Handling
  <2>6. CASE GoTo(again) /\ Active(Top.id) /\ UNCHANGED connections
    <3>1. stack' = <<again>>
      BY <1>1, <2>1, <2>6, HandlerReplaced
    <3>2. again.id \in DOMAIN connections' /\ connections'[again.id].registered
      BY <2>2, <2>6 DEF Active
    <3> QED BY <2>2, <2>4, <3>1, <3>2, OneFits DEF Handling
  <2> QED BY <2>3, <2>5, <2>6
<1>7. CASE AfterRead
  <2>1. stack # <<>> /\ Len(stack) = 1 /\ GoTo(Invoke("reap", 0))
    BY <1>7, AfterReadEffect
  <2>2. stack' = <<Invoke("reap", 0)>>
    BY <1>1, <2>1, HandlerReplaced
  <2> QED BY <2>2, InvokedCall, OneFits
<1>8. CASE Reap
  <2>1. /\ stack # <<>> /\ Top.at = "reap" /\ reap_queue[1].id \in Conn
        /\ Calls(Invoke("application", reap_queue[1].id))
    BY <1>8, ReapEffect
  <2> DEFINE call == Invoke("application", reap_queue[1].id)
  <2>2. call \in Call /\ call.at = "application"
    BY <2>1, InvokedCall
  <2> HIDE DEF call
  <2> QED BY <1>1, <2>1, <2>2, PushedInFront, PushedFits DEF Calls, call
<1>9. CASE ReapDone
  <2>1. stack # <<>> /\ Top.at = "reap" /\ stack' = Tail(stack) /\ reap_queue' = <<>>
    BY <1>9 DEF ReapDone, Running, Return
  <2> QED BY <1>1, <2>1, PoppedFits
<1>10. CASE Stop
  <2>1. stack' = <<Invoke("reap", 0)>>
    BY <1>10 DEF Stop
  <2> QED BY <2>1, InvokedCall, OneFits
<1> QED BY <1>2, <1>3, <1>4, <1>5, <1>6, <1>7, <1>8, <1>9, <1>10 DEF ServerSteps

LEMMA ShapeKeptByOthers ==
    ASSUME ServerInv, SessionLayerSteps \/ \E c \in Conn : PeerStep(c)
    PROVE  StackShape'
<1>1. TypeInv /\ SequencesTyped /\ StackShape
  BY DEF ServerInv, TypeInv
<1>2. CASE Tick
  <2>1. stack' = <<Invoke("application", 0)>> /\ stack = <<>> /\ reap_queue' = reap_queue
    BY <1>2 DEF Tick
  <2>2. reap_queue' = <<>>
    BY <1>1, <2>1 DEF StackShape
  <2> QED BY <2>1, <2>2, InvokedCall, OneFits
<1>3. ASSUME NEW c \in Conn, Disconnect(c)
      PROVE  StackShape'
  <2> DEFINE caller == [Top EXCEPT !.gone = c]
  <2>1. /\ caller \in Call /\ stack # <<>> /\ Top.at = "application"
        /\ \/ stack' = <<Invoke("reap", 0), caller>> \o Tail(stack)
           \/ stack' = <<caller>> \o Tail(stack) /\ reap_queue' = reap_queue
    <3>1. c \in DOMAIN connections \/ UNCHANGED reap_queue
      BY <1>3 DEF Disconnect
    <3> QED BY <1>3, <3>1, DisconnectTypes DEF DisconnectCalls, GoTo
  <2>2. caller.at = Top.at /\ caller.id = Top.id
    <3>1. Top \in Call
      BY <1>1, <2>1, TopIsCall
    <3> QED BY <3>1 DEF Call
  <2> HIDE DEF caller
  <2>3. CASE stack' = <<Invoke("reap", 0), caller>> \o Tail(stack)
    <3>1. Invoke("reap", 0) \in Call /\ Invoke("reap", 0).at = "reap"
      BY InvokedCall
    <3> QED BY <1>1, <2>1, <2>2, <2>3, <3>1, CalledInFront, PushedFits
  <2>4. CASE stack' = <<caller>> \o Tail(stack) /\ reap_queue' = reap_queue
    BY <1>1, <2>1, <2>2, <2>4, ReplacedFits
  <2> QED BY <2>1, <2>3, <2>4
<1>4. ASSUME NEW c \in Conn, Send(c)
      PROVE  StackShape'
  <2>1. stack # <<>> /\ Top.at = "application" /\ Calls(Invoke("reap", 0))
    BY <1>4, SendEffect
  <2>2. Invoke("reap", 0) \in Call /\ Invoke("reap", 0).at = "reap"
    BY InvokedCall
  <2> QED BY <1>1, <2>1, <2>2, PushedInFront, PushedFits DEF Calls
<1>5. ASSUME stack # <<>>, Top.at = "application", stack' = Tail(stack),
             Len(stack) = 1 => reap_queue' = reap_queue
      PROVE  StackShape'
  <2>1. Len(stack) \in Nat /\ Len(stack) >= 1 /\ DOMAIN stack = 1..Len(stack)
    BY <1>1, <1>5 DEF SequencesTyped
  <2>2. CASE Len(stack) = 1
    <3>1. reap_queue = <<>>
      BY <1>1, <1>5, <2>2 DEF StackShape, Bottom, Top
    <3> QED BY <1>1, <1>5, <2>2, <3>1, PoppedFits
  <2>3. CASE Len(stack) # 1
    <3>1. 1 \in DOMAIN stack /\ 1 # Len(stack) /\ 1 + 1 = 2
      BY <2>1, <2>3
    <3>2. stack[1 + 1].at \in {"dispatch", "reap"}
      BY <1>1, <1>5, <3>1 DEF StackShape, Top
    <3> QED BY <1>1, <1>5, <2>3, <3>1, <3>2, PoppedFits
  <2> QED BY <2>2, <2>3
<1>6. CASE CallbackReturns
  BY <1>5, <1>6 DEF CallbackReturns, Running, Return
<1>7. CASE CallbackThrows
  <2>1. stack # <<>> /\ Top.at = "application" /\ Top.id # 0 /\ stack' = Tail(stack)
    BY <1>7 DEF CallbackThrows, Running, Return
  <2>2. Len(stack) # 1
    <3>1. 1 \in DOMAIN stack
      BY <1>1, <2>1, TopIsCall
    <3> QED BY <1>1, <2>1, <3>1 DEF StackShape, Top
  <2> QED BY <1>5, <2>1, <2>2
<1>8. CASE \E c \in Conn : PeerStep(c)
  <2>1. UNCHANGED <<connections, reap_queue, stack>>
    BY <1>8, PeerEffect
  <2> QED BY <1>1, <2>1 DEF StackShape, Bottom, Active
<1> QED BY <1>2, <1>3, <1>4, <1>6, <1>7, <1>8 DEF SessionLayerSteps

----------------------------------------------------------------------------
(* Types, ids and the queue, for every step *)

QuietSteps ==
    \/ \E c \in Conn : OnConnectionEvent(c) \/ Disconnect(c) \/ Send(c) \/ PeerStep(c)
    \/ Receive \/ DispatchFrame \/ AfterDispatch \/ AfterRead
    \/ ReapDone \/ Tick \/ CallbackReturns \/ CallbackThrows

LEMMA StepsAreQuiet ==
    ServerNext <=> QuietSteps \/ OnAccepted \/ Reap \/ Stop
BY DEF ServerNext, ServerSteps, SessionLayerSteps, PeerSteps, PeerStep, QuietSteps

\* A connection that is there has an id that was issued.
LEMMA StoredIdsAreIssued ==
    ASSUME TypeInv, NEW c \in DOMAIN connections
    PROVE  c \in Conn /\ c < next_id /\ ~(c >= next_id)
<1>1. DOMAIN connections \subseteq 1..(next_id - 1) /\ DOMAIN connections \subseteq Conn
      /\ next_id \in Int
  BY TypesUsed, BoundsAreNumbers
<1>2. c \in 1..(next_id - 1)
  BY <1>1
<1>3. c < next_id /\ ~(c >= next_id)
  BY <1>1, <1>2
<1> QED BY <1>1, <1>3

LEMMA QuietSoFar ==
    ASSUME ServerInv, QuietSteps
    PROVE  /\ TypeInv' /\ QuietStep
           /\ \A x \in Conn : x >= next_id => socket'[x] = socket[x] /\ heard'[x] = heard[x]
<1>1. TypeInv /\ StackShape
  BY DEF ServerInv, TypeInv
<1> DEFINE Unused == \A x \in Conn : x >= next_id => socket'[x] = socket[x] /\ heard'[x] = heard[x]
<1>2. ASSUME NEW c \in DOMAIN connections,
             \A x \in Conn : x # c => socket'[x] = socket[x] /\ heard'[x] = heard[x]
      PROVE  Unused
  BY <1>1, <1>2, StoredIdsAreIssued
<1>3. ASSUME UNCHANGED <<socket, heard>> PROVE Unused
  BY <1>3
<1> HIDE DEF Unused
<1>4. ASSUME NEW c \in Conn, OnConnectionEvent(c) PROVE TypeInv' /\ QuietStep /\ Unused
  BY <1>3, <1>4, EventTypes DEF OnConnectionEvent, portVars
<1>5. ASSUME NEW c \in Conn, Disconnect(c) PROVE TypeInv' /\ QuietStep /\ Unused
  BY <1>3, <1>5, DisconnectTypes DEF Disconnect, portVars
<1>6. ASSUME NEW c \in Conn, Send(c) PROVE TypeInv' /\ QuietStep /\ Unused
  BY <1>3, <1>6, SendEffect
<1>7. ASSUME NEW c \in Conn, PeerStep(c) PROVE TypeInv' /\ QuietStep /\ Unused
  <2>1. /\ TypeInv' /\ QuietStep /\ UNCHANGED heard
        /\ c < next_id /\ \A x \in Conn : x # c => socket'[x] = socket[x]
    BY <1>7, PeerEffect DEF portVars
  <2>2. next_id \in Int /\ Conn \subseteq Int
    BY <1>1, TypesUsed, BoundsAreNumbers
  <2>3. ~(c >= next_id)
    BY <2>1, <2>2
  <2> QED BY <2>1, <2>3 DEF Unused
<1>8. CASE Receive
  <2>1. /\ Top.id \in DOMAIN connections /\ \A x \in Conn : x # Top.id => socket'[x] = socket[x]
    BY <1>8, ReceiveEffect
  <2>2. UNCHANGED heard
    BY <1>8 DEF Receive, portVars
  <2>3. Unused
    BY <1>2, <2>1, <2>2
  <2> QED BY <1>8, <2>3, ReceiveTypes DEF Unused
<1>9. CASE DispatchFrame
  <2>1. Top.id \in DOMAIN connections /\ UNCHANGED socket
    BY <1>9 DEF DispatchFrame, Active
  <2>2. \A x \in Conn : x # Top.id => heard'[x] = heard[x]
    <3>1. heard \in [Conn -> Seq(1..MaxFrames)]
      BY <1>1, TypesUsed
    <3> QED BY <1>9, <3>1 DEF DispatchFrame
  <2>3. Unused
    BY <1>2, <2>1, <2>2
  <2> QED BY <1>9, <2>3, DispatchTypes DEF Unused
<1>10. CASE AfterDispatch
  BY <1>3, <1>10, AfterDispatchTypes DEF AfterDispatch, portVars
<1>11. CASE AfterRead
  <2>1. /\ \A x \in Conn : x # Top.id => socket'[x] = socket[x]
        /\ UNCHANGED heard /\ (Top.id \in DOMAIN connections \/ UNCHANGED socket)
    BY <1>11, AfterReadEffect DEF portVars, Retired, Active
  <2>2. Unused
    BY <1>2, <1>3, <2>1
  <2> QED BY <1>11, <2>2, AfterReadTypes DEF Unused
<1>12. CASE ReapDone \/ Tick \/ CallbackReturns
  BY <1>3, <1>12, QuietCallsTypes
<1>13. CASE CallbackThrows
  BY <1>3, <1>13, ThrowTypes
<1> QED BY <1>4, <1>5, <1>6, <1>7, <1>8, <1>9, <1>10, <1>11, <1>12, <1>13 DEF QuietSteps, Unused

\* An end that was reported stays so, and what is queued stays queued until it is reported.
Kept ==
    \A x \in Conn : /\ status[x] = "ended" => status'[x] = "ended"
                    /\ Queued(x) => Queued(x)' \/ status'[x] = "ended"

LEMMA RegistryKept ==
    ASSUME ServerInv, ServerNext
    PROVE  TypeInv' /\ Registry' /\ Kept
<1>1. TypeInv /\ Registry /\ StackShape
  BY QueueShapeIsExact DEF ServerInv, TypeInv, Registry
<1>2. status \in [Conn -> {"new", "connected", "ended"}]
  BY <1>1 DEF TypeInv, ServerTypeOK
<1>3. CASE QuietSteps
  <2>1. /\ TypeInv' /\ QuietStep
        /\ \A x \in Conn : x >= next_id => socket'[x] = socket[x] /\ heard'[x] = heard[x]
    BY <1>3, QuietSoFar
  <2>2. Registry' /\ (\A x \in Conn : Queued(x) => Queued(x)')
    BY <1>1, <2>1, QuietRegistry
  <2>3. status' = status
    BY <2>1 DEF QuietStep
  <2> QED BY <2>1, <2>2, <2>3 DEF Kept
<1>4. CASE OnAccepted
  <2>1. /\ TypeInv' /\ next_id \in Conn /\ reap_queue' = reap_queue
        /\ status' = status \/ status' = [status EXCEPT ![next_id] = "connected"]
    BY <1>4, AcceptEffect
  <2>2. status[next_id] # "ended"
    <3>1. next_id >= next_id
      BY <1>1, TypesUsed, BoundsAreNumbers
    <3> QED BY <1>1, <2>1, <3>1 DEF Registry, IdsInOrder
  <2>3. Kept
    BY <1>2, <2>1, <2>2 DEF Kept, Queued
  <2> QED BY <1>4, <2>1, <2>3, AcceptRegistry
<1>5. CASE Reap
  <2>1. /\ TypeInv' /\ reap_queue[1].id \in Conn
        /\ status' = [status EXCEPT ![reap_queue[1].id] = "ended"]
    BY <1>5, ReapEffect
  <2>2. Registry' /\ \A x \in Conn : Queued(x) => Queued(x)' \/ x = reap_queue[1].id
    BY <1>5, ReapRegistry
  <2> QED BY <1>2, <2>1, <2>2 DEF Kept
<1>6. CASE Stop
  <2>1. TypeInv' /\ reap_queue = <<>> /\ status' = status
    BY <1>6, StopEffect DEF portVars
  <2>2. Kept
    BY <2>1 DEF Kept, Queued
  <2> QED BY <1>6, <2>1, <2>2, StopRegistry
<1> QED BY <1>3, <1>4, <1>5, <1>6, StepsAreQuiet

----------------------------------------------------------------------------
(* A connection that was disconnected ends before disconnect returns *)

LEMMA OneGone ==
    ASSUME NEW call \in Call, stack' = <<call>>, call.gone = 0
    PROVE  GoneOrQueued'
<1>1. DOMAIN stack' = {1} /\ stack'[1] = call
  BY OneCall
<1> QED BY <1>1 DEF GoneOrQueued

\* What has to be shown for a call of the new stack.
Settled(call, innermost) ==
    call.gone # 0 =>
        /\ call.at = "application"
        /\ \/ status'[call.gone] = "ended"
           \/ ~innermost /\ \E i \in DOMAIN reap_queue' : reap_queue'[i].id = call.gone

LEMMA AllSettled ==
    ASSUME \A i \in DOMAIN stack' : Settled(stack'[i], i = 1)
    PROVE  GoneOrQueued'
BY DEF Settled, GoneOrQueued, Queued

\* A call that was in progress stays settled; it is innermost if it was, or if the queue
\* was empty, or if it is not a callback.
LEMMA StaysSettled ==
    ASSUME SequencesTyped, GoneOrQueued, Kept, NEW i \in DOMAIN stack, NEW innermost \in BOOLEAN,
           innermost => reap_queue = <<>> \/ i = 1 \/ stack[i].at # "application"
    PROVE  Settled(stack[i], innermost)
<1>1. stack[i].gone \in {0} \cup Conn
  <2>1. stack[i] \in Call
    BY ElementType DEF SequencesTyped
  <2> QED BY <2>1 DEF Call
<1>2. stack[i].gone # 0 =>
        /\ stack[i].at = "application"
        /\ status[stack[i].gone] = "ended" \/ (i # 1 /\ Queued(stack[i].gone))
  BY DEF GoneOrQueued
<1>3. reap_queue = <<>> => ~Queued(stack[i].gone)
  BY DEF Queued
<1> DEFINE c == stack[i].gone
<1>4. c # 0 => (status[c] = "ended" => status'[c] = "ended")
               /\ (Queued(c) => status'[c] = "ended"
                                \/ \E k \in DOMAIN reap_queue' : reap_queue'[k].id = c)
  BY <1>1 DEF Kept, Queued
<1> QED BY <1>1, <1>2, <1>3, <1>4 DEF Settled

LEMMA PushedGone ==
    ASSUME SequencesTyped, GoneOrQueued, Kept, NEW call \in Call, call.gone = 0,
           stack' = <<call>> \o stack
    PROVE  GoneOrQueued'
<1> DEFINE n == Len(stack)
<1>1. /\ n \in Nat /\ DOMAIN stack = 1..n
      /\ stack' \in Seq(Call) /\ Len(stack') = n + 1 /\ stack'[1] = call
      /\ \A i \in 2..(n + 1) : stack'[i] = stack[i - 1]
  BY PushedCall DEF SequencesTyped
<1> HIDE DEF n
<1>2. DOMAIN stack' = 1..(n + 1)
  BY <1>1
<1>3. ASSUME NEW i \in 1..(n + 1) PROVE Settled(stack'[i], i = 1)
  <2>1. CASE i = 1
    BY <1>1, <2>1 DEF Settled
  <2>2. CASE i # 1
    <3>1. i \in 2..(n + 1) /\ i - 1 \in DOMAIN stack /\ (i = 1) = FALSE
      BY <1>1, <2>2
    <3>2. Settled(stack[i - 1], FALSE)
      BY <3>1, StaysSettled
    <3> QED BY <1>1, <3>1, <3>2
  <2> QED BY <2>1, <2>2
<1> QED BY <1>2, <1>3, AllSettled

LEMMA ReplacedGone ==
    ASSUME SequencesTyped, GoneOrQueued, Kept, stack # <<>>, NEW call \in Call,
           Settled(call, TRUE), stack' = <<call>> \o Tail(stack)
    PROVE  GoneOrQueued'
<1> DEFINE n == Len(stack)
<1>1. /\ n \in Nat /\ DOMAIN stack = 1..n
      /\ stack' \in Seq(Call) /\ Len(stack') = n /\ stack'[1] = call
      /\ \A i \in 2..n : stack'[i] = stack[i]
  BY ReplacedCall DEF SequencesTyped
<1> HIDE DEF n
<1>2. DOMAIN stack' = 1..n
  BY <1>1
<1>3. ASSUME NEW i \in 1..n PROVE Settled(stack'[i], i = 1)
  <2>1. CASE i = 1
    BY <1>1, <2>1
  <2>2. CASE i # 1
    <3>1. i \in 2..n /\ i \in DOMAIN stack /\ (i = 1) = FALSE
      BY <1>1, <2>2
    <3>2. Settled(stack[i], FALSE)
      BY <3>1, StaysSettled
    <3> QED BY <1>1, <3>1, <3>2
  <2> QED BY <2>1, <2>2
<1> QED BY <1>2, <1>3, AllSettled

LEMMA CalledGone ==
    ASSUME SequencesTyped, GoneOrQueued, Kept, stack # <<>>, NEW call \in Call,
           NEW caller \in Call, call.gone = 0, Settled(caller, FALSE),
           stack' = <<call, caller>> \o Tail(stack)
    PROVE  GoneOrQueued'
<1> DEFINE n == Len(stack)
<1>1. /\ n \in Nat /\ DOMAIN stack = 1..n
      /\ stack' \in Seq(Call) /\ Len(stack') = n + 1 /\ stack'[1] = call /\ stack'[2] = caller
      /\ \A i \in 3..(n + 1) : stack'[i] = stack[i - 1]
  BY CalledCall DEF SequencesTyped
<1> HIDE DEF n
<1>2. DOMAIN stack' = 1..(n + 1)
  BY <1>1
<1>3. ASSUME NEW i \in 1..(n + 1) PROVE Settled(stack'[i], i = 1)
  <2>1. CASE i = 1
    BY <1>1, <2>1 DEF Settled
  <2>2. CASE i = 2
    <3>1. (i = 1) = FALSE
      BY <2>2
    <3> QED BY <1>1, <2>2, <3>1
  <2>3. CASE i # 1 /\ i # 2
    <3>1. i \in 3..(n + 1) /\ i - 1 \in DOMAIN stack /\ (i = 1) = FALSE
      BY <1>1, <2>3
    <3>2. Settled(stack[i - 1], FALSE)
      BY <3>1, StaysSettled
    <3> QED BY <1>1, <3>1, <3>2
  <2> QED BY <2>1, <2>2, <2>3
<1> QED BY <1>2, <1>3, AllSettled

LEMMA PoppedGone ==
    ASSUME SequencesTyped, GoneOrQueued, Kept, stack # <<>>, stack' = Tail(stack),
           reap_queue = <<>> \/ Len(stack) = 1 \/ stack[2].at # "application"
    PROVE  GoneOrQueued'
<1> DEFINE n == Len(stack)
<1>1. /\ n \in Nat /\ DOMAIN stack = 1..n
      /\ stack' \in Seq(Call) /\ Len(stack') = n - 1
      /\ \A i \in 1..(n - 1) : stack'[i] = stack[i + 1]
      /\ reap_queue = <<>> \/ n = 1 \/ stack[2].at # "application"
  BY RestOfCalls DEF SequencesTyped
<1> HIDE DEF n
<1>2. DOMAIN stack' = 1..(n - 1)
  BY <1>1
<1>3. ASSUME NEW i \in 1..(n - 1) PROVE Settled(stack'[i], i = 1)
  <2>1. i + 1 \in DOMAIN stack /\ (i = 1) \in BOOLEAN /\ n # 1 /\ (i = 1 => i + 1 = 2)
    BY <1>1
  <2>2. (i = 1) => reap_queue = <<>> \/ stack[i + 1].at # "application"
    BY <1>1, <2>1
  <2>3. Settled(stack[i + 1], i = 1)
    BY <2>1, <2>2, StaysSettled
  <2> QED BY <1>1, <2>3
<1> QED BY <1>2, <1>3, AllSettled

LEMMA SameGone ==
    ASSUME SequencesTyped, GoneOrQueued, Kept, stack' = stack
    PROVE  GoneOrQueued'
<1>1. ASSUME NEW i \in DOMAIN stack PROVE Settled(stack[i], i = 1)
  <2>1. (i = 1) \in BOOLEAN
    OBVIOUS
  <2> QED BY <2>1, StaysSettled
<1> QED BY <1>1, AllSettled

\* Handlers disconnect nothing themselves.
LEMMA HandlersSettled ==
    ASSUME SequencesTyped, GoneOrQueued, stack # <<>>, Top.at # "application"
    PROVE  Top.gone = 0
BY TopIsCall DEF GoneOrQueued, Top

\* No step leaves a disconnected connection behind.
LEMMA GoneKept ==
    ASSUME ServerInv, ServerNext
    PROVE  GoneOrQueued'
<1>1. SequencesTyped /\ GoneOrQueued /\ StackShape /\ Registry /\ TypeInv
  BY QueueShapeIsExact DEF ServerInv, TypeInv, Registry
<1>2. TypeInv' /\ Registry' /\ Kept
  BY RegistryKept
<1>3. ASSUME NEW place \in {"reap", "application"}, NEW c \in {0} \cup Conn, Calls(Invoke(place, c))
      PROVE  GoneOrQueued'
  <2>1. Invoke(place, c) \in Call /\ Invoke(place, c).gone = 0
    BY InvokedCall
  <2> QED BY <1>1, <1>2, <1>3, <2>1, PushedGone DEF Calls
<1>4. ASSUME NEW call \in Call, GoTo(call), stack # <<>>, call.gone = 0
      PROVE  GoneOrQueued'
  <2>1. Settled(call, TRUE)
    BY <1>4 DEF Settled
  <2> QED BY <1>1, <1>2, <1>4, <2>1, ReplacedGone DEF GoTo
<1>5. CASE OnAccepted
  <2>1. CASE stack' = <<Invoke("application", next_id), Invoke("reap", 0)>>
    <3>1. Invoke("application", next_id).gone = 0 /\ Invoke("reap", 0).gone = 0
      BY DEF Invoke
    <3>2. DOMAIN stack' = {1, 2} /\ stack'[1].gone = 0 /\ stack'[2].gone = 0
      BY <2>1, <3>1
    <3> QED BY <3>2 DEF GoneOrQueued
  <2>2. CASE stack' = stack
    BY <1>1, <1>2, <2>2, SameGone
  <2> QED BY <1>5, <2>1, <2>2, AcceptEffect
<1>6. ASSUME NEW c \in Conn, OnConnectionEvent(c)
      PROVE  GoneOrQueued'
  <2> DEFINE events == Readiness(socket[c], connections[c].writes)
             place == IF "readable" \in events THEN "receive" ELSE "after_read"
             call == [Invoke(place, c) EXCEPT !.events = events]
  <2>1. stack' = <<>> \/ stack' = <<call>>
    BY <1>6 DEF OnConnectionEvent
  <2>2. call.gone = 0
    BY DEF Invoke
  <2> HIDE DEF call
  <2>3. \A i \in DOMAIN stack' : stack'[i].gone = 0
    BY <2>1, <2>2
  <2> QED BY <2>3 DEF GoneOrQueued
<1>7. CASE Receive
  <2>1. /\ stack # <<>> /\ Top \in Call /\ Top.at = "receive"
        /\ \E call \in Call :
              /\ call = [Top EXCEPT !.at = "dispatch",
                           !.result = ReceiveResult(Len(connections'[Top.id].rx), socket[Top.id])]
              /\ GoTo(call)
    BY <1>7, ReceiveEffect
  <2>2. PICK call \in Call : call.gone = Top.gone /\ GoTo(call)
    BY <2>1 DEF Call
  <2>3. call.gone = 0
    BY <1>1, <2>1, <2>2, HandlersSettled
  <2> QED BY <1>4, <2>1, <2>2, <2>3
<1>8. CASE DispatchFrame
  <2>1. Top.id \in Conn
    BY <1>1, <1>8, HandlerRuns DEF DispatchFrame, Running, Handling
  <2>2. CASE Calls(Invoke("application", Top.id))
    BY <1>3, <2>1, <2>2
  <2>3. CASE stack' = stack
    BY <1>1, <1>2, <2>3, SameGone
  <2> QED BY <1>8, <2>2, <2>3 DEF DispatchFrame
<1>9. CASE AfterDispatch
  <2>1. stack # <<>> /\ Top \in Call /\ Top.at = "dispatch"
    BY <1>1, <1>9, TopIsCall DEF AfterDispatch, Running
  <2> DEFINE afterRead == [Top EXCEPT !.at = "after_read", !.result = "none"]
             again == [afterRead EXCEPT !.at = "receive"]
  <2>2. /\ afterRead \in Call /\ afterRead.gone = Top.gone
        /\ again \in Call /\ again.gone = Top.gone
    BY <2>1 DEF Call
  <2>3. GoTo(afterRead) \/ GoTo(again)
    BY <1>9 DEF AfterDispatch
  <2>4. Top.gone = 0
    BY <1>1, <2>1, HandlersSettled
  <2> HIDE DEF afterRead, again
  <2> QED BY <1>4, <2>1, <2>2, <2>3, <2>4
<1>10. CASE AfterRead
  <2>1. stack # <<>> /\ GoTo(Invoke("reap", 0))
    BY <1>10, AfterReadEffect
  <2>2. Invoke("reap", 0) \in Call /\ Invoke("reap", 0).gone = 0
    BY InvokedCall
  <2> QED BY <1>4, <2>1, <2>2
<1>11. CASE Reap
  <2>1. reap_queue[1].id \in Conn /\ Calls(Invoke("application", reap_queue[1].id))
    BY <1>11, ReapEffect
  <2> QED BY <1>3, <2>1
<1>12. CASE ReapDone
  <2>1. stack # <<>> /\ stack' = Tail(stack) /\ reap_queue = <<>>
    BY <1>12 DEF ReapDone, Running, Return
  <2> QED BY <1>1, <1>2, <2>1, PoppedGone
<1>13. CASE Stop \/ Tick
  <2>1. stack' = <<Invoke("reap", 0)>> \/ stack' = <<Invoke("application", 0)>>
    BY <1>13 DEF Stop, Tick
  <2>2. /\ Invoke("reap", 0) \in Call /\ Invoke("reap", 0).gone = 0
        /\ Invoke("application", 0) \in Call /\ Invoke("application", 0).gone = 0
    BY InvokedCall
  <2> QED BY <2>1, <2>2, OneGone
<1>14. ASSUME NEW c \in Conn, Disconnect(c)
       PROVE  GoneOrQueued'
  <2> DEFINE caller == [Top EXCEPT !.gone = c]
  <2>1. /\ caller \in Call /\ stack # <<>> /\ Top.at = "application"
        /\ c \in DOMAIN connections => DisconnectCalls(c)
             /\ (Retired(c, "disconnected by the session layer") \/ ~connections[c].registered)
        /\ c \notin DOMAIN connections => GoTo(caller)
    BY <1>14, DisconnectTypes
  <2>2. caller.at = "application" /\ caller.gone = c
    <3>1. Top \in Call
      BY <1>1, <2>1, TopIsCall
    <3> QED BY <2>1, <3>1 DEF Call
  <2>3. status[c] # "new" /\ status' = status
    BY <1>14 DEF Disconnect, portVars
  <2>4. CASE c \in DOMAIN connections
    <3>1. c \in DOMAIN connections' /\ ~connections'[c].registered
      <4>1. CASE Retired(c, "disconnected by the session layer")
        BY <2>4, <4>1 DEF Retired
      <4>2. CASE ~connections[c].registered
        BY <1>14, <2>4, <4>2 DEF Disconnect, ScheduleReap
      <4> QED BY <2>1, <2>4, <4>1, <4>2
    <3>2. \E i \in DOMAIN reap_queue' : reap_queue'[i].id = c
      BY <1>2, <2>3, <3>1 DEF Registry, QueueShape, Queued
    <3>3. Settled(caller, FALSE)
      BY <2>2, <3>2 DEF Settled
    <3>4. stack' = <<Invoke("reap", 0), caller>> \o Tail(stack)
      BY <2>1, <2>4 DEF DisconnectCalls
    <3>5. Invoke("reap", 0) \in Call /\ Invoke("reap", 0).gone = 0
      BY InvokedCall
    <3> HIDE DEF caller
    <3> QED BY <1>1, <1>2, <2>1, <3>3, <3>4, <3>5, CalledGone
  <2>5. CASE c \notin DOMAIN connections
    <3>1. status[c] \in {"new", "connected", "ended"}
      BY <1>1 DEF TypeInv, ServerTypeOK
    <3>2. status'[c] = "ended"
      BY <1>1, <2>3, <2>5, <3>1 DEF Registry, IdsInOrder
    <3>3. Settled(caller, TRUE)
      BY <2>2, <3>2 DEF Settled
    <3> HIDE DEF caller
    <3> QED BY <1>1, <1>2, <2>1, <2>5, <3>3, ReplacedGone DEF GoTo
  <2> QED BY <2>4, <2>5
<1>15. ASSUME NEW c \in Conn, Send(c)
       PROVE  GoneOrQueued'
  BY <1>3, <1>15, SendEffect
<1>16. CASE CallbackReturns \/ CallbackThrows
  <2>1. stack # <<>> /\ stack' = Tail(stack) /\ Top.at = "application"
    BY <1>16 DEF CallbackReturns, CallbackThrows, Running, Return
  <2>2. Len(stack) = 1 \/ stack[2].at # "application"
    <3>1. 1 \in DOMAIN stack /\ 1 + 1 = 2
      BY <1>1, <2>1, TopIsCall
    <3>2. Len(stack) # 1 => stack[1 + 1].at \in {"dispatch", "reap"}
      BY <1>1, <2>1, <3>1 DEF StackShape, Top
    <3> QED BY <3>1, <3>2
  <2> QED BY <1>1, <1>2, <2>1, <2>2, PoppedGone
<1>17. CASE \E c \in Conn : PeerStep(c)
  <2>1. stack' = stack
    BY <1>17, PeerEffect
  <2> QED BY <1>1, <1>2, <2>1, SameGone
<1> QED
  BY <1>5, <1>6, <1>7, <1>8, <1>9, <1>10, <1>11, <1>12, <1>13, <1>14, <1>15, <1>16, <1>17,
     StepsAreQuiet DEF QuietSteps

----------------------------------------------------------------------------
(* Frames and closes *)

LEMMA FramesStay ==
    ASSUME FramesAccounted, DOMAIN connections' \subseteq DOMAIN connections,
           \A x \in DOMAIN connections' : connections'[x].rx = connections[x].rx,
           heard' = heard,
           \A x \in Conn : socket'[x].arrived = socket[x].arrived /\ socket'[x].sent = socket[x].sent,
           DOMAIN connections \subseteq Conn
    PROVE  FramesAccounted'
BY DEF FramesAccounted

\* The numbers that FramesAccounted adds up.
LEMMA FrameCounts ==
    ASSUME TypeInv, NEW c \in Conn
    PROVE  /\ Len(heard[c]) \in Nat /\ Len(socket[c].arrived) \in Nat /\ socket[c].sent \in Nat
           /\ c \in DOMAIN connections => Len(connections[c].rx) \in Nat
<1>1. RingCapacity \in Nat /\ MaxFrames \in Nat
  BY ServerConstants, BoundsAreNumbers DEF ServerConstants
<1>2. socket[c] \in Socket /\ heard[c] \in Seq(1..MaxFrames)
  BY TypesUsed
<1>3. socket[c].arrived \in Seq(Frame) /\ socket[c].sent \in 0..MaxFrames
  BY <1>1, <1>2, FramesAreSequences DEF Socket
<1>4. ASSUME c \in DOMAIN connections PROVE Len(connections[c].rx) \in Nat
  <2>1. connections[c].rx \in Seq(Frame)
    BY <1>1, <1>4, TypesUsed, FramesAreSequences DEF Connection
  <2> QED BY <2>1
<1> QED BY <1>1, <1>2, <1>3, <1>4

LEMMA FramesKept ==
    ASSUME ServerInv, ServerNext
    PROVE  FramesAccounted'
<1>1. TypeInv /\ FramesAccounted /\ Registry /\ StackShape
  BY QueueShapeIsExact DEF ServerInv, TypeInv, Registry
<1>2. DOMAIN connections \subseteq Conn /\ heard \in [Conn -> Seq(1..MaxFrames)]
      /\ \A x \in DOMAIN connections : connections[x] \in Connection
  BY <1>1, TypesUsed
<1>3. ASSUME NEW c, NEW why, Retired(c, why), heard' = heard,
             \A x \in Conn : socket'[x].arrived = socket[x].arrived /\ socket'[x].sent = socket[x].sent
      PROVE  FramesAccounted'
  <2>1. /\ DOMAIN connections' = DOMAIN connections
        /\ \A x \in DOMAIN connections : connections'[x].rx = connections[x].rx
    BY <1>3 DEF Retired
  <2> QED BY <1>1, <1>2, <1>3, <2>1, FramesStay
<1>4. ASSUME UNCHANGED <<connections, heard, socket>> PROVE FramesAccounted'
  BY <1>1, <1>4 DEF FramesAccounted
<1>5. ASSUME NEW c \in Conn, OnConnectionEvent(c) PROVE FramesAccounted'
  BY <1>4, <1>5 DEF OnConnectionEvent, portVars
<1>6. CASE ReapDone \/ Tick \/ CallbackReturns
  BY <1>4, <1>6, QuietCallsTypes
<1>7. ASSUME NEW c \in Conn, Disconnect(c) PROVE FramesAccounted'
  BY <1>3, <1>4, <1>7, DisconnectTypes DEF Disconnect, portVars
<1>8. CASE CallbackThrows
  BY <1>3, <1>4, <1>8, ThrowTypes
<1>9. ASSUME NEW c \in Conn, Send(c) PROVE FramesAccounted'
  <2>1. UNCHANGED <<socket, heard>>
    BY <1>9, SendEffect
  <2>2. CASE Retired(c, "io_error")
    BY <1>3, <2>1, <2>2
  <2>3. CASE /\ DOMAIN connections' = DOMAIN connections
             /\ \A x \in DOMAIN connections : x # c => connections'[x] = connections[x]
             /\ connections'[c].rx = connections[c].rx
    <3>1. \A x \in DOMAIN connections' : connections'[x].rx = connections[x].rx
      BY <2>3
    <3> QED BY <1>1, <1>2, <2>1, <2>3, <3>1, FramesStay
  <2> QED BY <1>9, <2>2, <2>3, SendEffect
<1>10. CASE AfterRead
  <2>1. /\ heard' = heard
        /\ \A x \in Conn : socket'[x].arrived = socket[x].arrived /\ socket'[x].sent = socket[x].sent
    BY <1>10, AfterReadEffect DEF portVars
  <2>2. CASE Retired(Top.id, "io_error")
    BY <1>3, <2>1, <2>2
  <2>3. CASE /\ DOMAIN connections' = DOMAIN connections
             /\ \A x \in DOMAIN connections : x # Top.id => connections'[x] = connections[x]
             /\ connections'[Top.id].rx = connections[Top.id].rx
    <3>1. \A x \in DOMAIN connections' : connections'[x].rx = connections[x].rx
      BY <2>3
    <3> QED BY <1>1, <1>2, <2>1, <2>3, <3>1, FramesStay
  <2>4. CASE UNCHANGED <<connections, socket>>
    BY <1>4, <2>1, <2>4
  <2> QED BY <1>10, <2>2, <2>3, <2>4, AfterReadEffect
<1>11. CASE AfterDispatch
  BY <1>3, <1>4, <1>11, AfterDispatchTypes DEF AfterDispatch, portVars
<1>12. CASE Receive
  <2> DEFINE c == Top.id
  <2>1. /\ c \in Conn /\ c \in DOMAIN connections
        /\ DOMAIN connections' = DOMAIN connections
        /\ \A x \in DOMAIN connections : x # c => connections'[x] = connections[x]
        /\ \A x \in Conn : x # c => socket'[x] = socket[x]
        /\ socket'[c].sent = socket[c].sent
        /\ Len(connections'[c].rx) + Len(socket'[c].arrived)
             = Len(connections[c].rx) + Len(socket[c].arrived)
    BY <1>12, ReceiveEffect
  <2>2. heard' = heard /\ TypeInv'
    BY <1>12, ReceiveTypes DEF Receive, portVars
  <2> HIDE DEF c
  <2>3. /\ Len(heard[c]) \in Nat /\ Len(connections[c].rx) \in Nat /\ Len(socket[c].arrived) \in Nat
        /\ Len(connections'[c].rx) \in Nat /\ Len(socket'[c].arrived) \in Nat /\ socket[c].sent \in Nat
    <3>1. Len(connections'[c].rx) \in Nat
      BY <1>12, ReceiveEffect DEF c
    <3>2. Len(socket'[c].arrived) \in Nat
      <4>1. socket'[c] \in Socket /\ MaxFrames \in Nat
        BY <2>1, <2>2, BoundsAreNumbers DEF TypeInv, ServerTypeOK
      <4>2. socket'[c].arrived \in Seq(Frame)
        BY <4>1, FramesAreSequences DEF Socket
      <4> QED BY <4>2
    <3> QED BY <1>1, <2>1, <3>1, <3>2, FrameCounts
  <2>4. Len(heard[c]) + Len(connections[c].rx) + Len(socket[c].arrived) = socket[c].sent
    BY <1>1, <2>1 DEF FramesAccounted
  <2>5. /\ Len(heard[c]) + Len(connections'[c].rx) + Len(socket'[c].arrived) = socket[c].sent
        /\ Len(heard[c]) + Len(socket'[c].arrived) <= socket[c].sent
    <3> DEFINE h == Len(heard[c])
               a == Len(connections[c].rx)
               b == Len(socket[c].arrived)
               aa == Len(connections'[c].rx)
               bb == Len(socket'[c].arrived)
               s == socket[c].sent
    <3>1. /\ h \in Nat /\ a \in Nat /\ b \in Nat /\ aa \in Nat /\ bb \in Nat /\ s \in Nat
          /\ h + a + b = s /\ aa + bb = a + b
      BY <2>1, <2>3, <2>4
    <3> HIDE DEF h, a, b, aa, bb, s
    <3>2. h + aa + bb = s /\ h + bb <= s
      BY <3>1
    <3> QED BY <3>2 DEF h, aa, bb, s
  <2>6. \A x \in Conn : Len(heard'[x]) + Len(socket'[x].arrived) <= socket'[x].sent
    BY <1>1, <2>1, <2>2, <2>5 DEF FramesAccounted
  <2>7. \A x \in DOMAIN connections' :
            Len(heard'[x]) + Len(connections'[x].rx) + Len(socket'[x].arrived) = socket'[x].sent
    BY <1>1, <1>2, <2>1, <2>2, <2>5 DEF FramesAccounted
  <2> QED BY <2>6, <2>7 DEF FramesAccounted
<1>13. CASE DispatchFrame
  <2> DEFINE c == Top.id
  <2>1. c \in DOMAIN connections /\ c \in Conn /\ socket' = socket
    BY <1>2, <1>13 DEF DispatchFrame, Active
  <2>2. CASE ScheduleReap(c, "frame_error") /\ heard' = heard
    <3>1. \/ Retired(c, "frame_error")
          \/ UNCHANGED connections
      BY <1>2, <2>1, <2>2, ScheduleReapEffect DEF Reason
    <3> QED BY <1>3, <1>4, <2>1, <2>2, <3>1
  <2>3. CASE /\ connections' = [connections EXCEPT ![c].rx = Tail(@)]
             /\ heard' = [heard EXCEPT ![c] = Append(@, Head(connections[c].rx).number)]
             /\ connections[c].rx # <<>>
    <3> HIDE DEF c
    <3>1. connections[c].rx \in Seq(Frame)
      BY <1>2, <2>1, FramesAreSequences, ServerConstants DEF Connection, ServerConstants
    <3> DEFINE rx == connections[c].rx
    <3>2. rx \in Seq(Frame) /\ rx # <<>>
      BY <2>3, <3>1
    <3>3. Len(Tail(rx)) = Len(rx) - 1 /\ Len(rx) \in Nat /\ Len(rx) >= 1
      <4> HIDE DEF rx
      <4> QED BY <3>2
    <3>4. /\ connections'[c].rx = Tail(rx) /\ Len(heard'[c]) = Len(heard[c]) + 1
          /\ DOMAIN connections' = DOMAIN connections
          /\ \A x \in DOMAIN connections : x # c => connections'[x] = connections[x]
          /\ \A x \in Conn : x # c => heard'[x] = heard[x]
      <4>1. Len(heard'[c]) = Len(heard[c]) + 1
        <5>1. heard[c] \in Seq(1..MaxFrames) /\ Head(rx).number \in 1..MaxFrames
          <6>1. Head(rx) \in Frame
            BY <3>2
          <6> QED BY <1>2, <2>1, <6>1 DEF Frame
        <5>2. heard'[c] = Append(heard[c], Head(rx).number)
          BY <1>2, <2>1, <2>3
        <5> QED BY <5>1, <5>2
      <4> QED BY <1>2, <2>1, <2>3, <4>1 DEF Connection
    <3> HIDE DEF rx
    <3>5. /\ Len(heard[c]) \in Nat /\ Len(socket[c].arrived) \in Nat /\ socket[c].sent \in Nat
      BY <1>1, <2>1, FrameCounts
    <3>6. Len(heard[c]) + Len(rx) + Len(socket[c].arrived) = socket[c].sent
      BY <1>1, <2>1 DEF FramesAccounted, rx
    <3>7. /\ Len(heard'[c]) + Len(connections'[c].rx) + Len(socket[c].arrived) = socket[c].sent
          /\ Len(heard'[c]) + Len(socket[c].arrived) <= socket[c].sent
      <4> DEFINE h == Len(heard[c])
                 a == Len(rx)
                 b == Len(socket[c].arrived)
                 n == socket[c].sent
      <4>1. h \in Nat /\ a \in Nat /\ a >= 1 /\ b \in Nat /\ n \in Nat /\ h + a + b = n
        BY <3>3, <3>5, <3>6
      <4> HIDE DEF h, a, b, n
      <4>2. (h + 1) + (a - 1) + b = n /\ (h + 1) + b <= n
        BY <4>1
      <4> QED BY <3>3, <3>4, <4>2 DEF h, a, b, n
    <3>8. \A x \in Conn : Len(heard'[x]) + Len(socket'[x].arrived) <= socket'[x].sent
      BY <1>1, <2>1, <3>4, <3>7 DEF FramesAccounted
    <3>9. \A x \in DOMAIN connections' :
             Len(heard'[x]) + Len(connections'[x].rx) + Len(socket'[x].arrived) = socket'[x].sent
      BY <1>1, <1>2, <2>1, <3>4, <3>7 DEF FramesAccounted
    <3> QED BY <3>8, <3>9 DEF FramesAccounted
  <2> QED BY <1>13, <2>2, <2>3 DEF DispatchFrame
<1>14. CASE OnAccepted
  <2> DEFINE c == next_id
  <2>1. /\ c \in Conn /\ UNCHANGED <<socket, heard>>
        /\ \/ UNCHANGED connections
           \/ /\ DOMAIN connections' = DOMAIN connections \cup {c}
              /\ \/ connections'[c] = NewConnection
                 \/ connections'[c] = [NewConnection EXCEPT !.registered = FALSE]
              /\ \A x \in DOMAIN connections : connections'[x] = connections[x]
    BY <1>14, AcceptEffect
  <2>2. socket[c] = NewSocket /\ heard[c] = <<>>
    <3>1. c >= next_id
      BY <1>1, TypesUsed, BoundsAreNumbers
    <3> QED BY <1>1, <2>1, <3>1 DEF Registry, IdsInOrder
  <2>3. socket[c].arrived = <<>> /\ socket[c].sent = 0
    BY <2>2 DEF NewSocket
  <2>4. NewConnection.rx = <<>> /\ [NewConnection EXCEPT !.registered = FALSE].rx = <<>>
    BY DEF NewConnection
  <2> HIDE DEF c
  <2>5. CASE /\ DOMAIN connections' = DOMAIN connections \cup {c}
             /\ connections'[c].rx = <<>>
             /\ \A x \in DOMAIN connections : connections'[x] = connections[x]
    <3>1. Len(heard[c]) + Len(connections'[c].rx) + Len(socket[c].arrived) = socket[c].sent
      <4>1. Len(heard[c]) = 0 /\ Len(connections'[c].rx) = 0 /\ Len(socket[c].arrived) = 0
        BY <2>2, <2>3, <2>5
      <4>2. 0 + 0 + 0 = 0
        OBVIOUS
      <4> QED BY <2>2, <2>3, <4>1, <4>2
    <3> QED BY <1>1, <2>1, <2>5, <3>1 DEF FramesAccounted
  <2> QED BY <1>4, <2>1, <2>4, <2>5
<1>15. CASE Reap
  <2>1. /\ DOMAIN connections' \subseteq DOMAIN connections
        /\ \A x \in DOMAIN connections' : connections'[x] = connections[x]
        /\ UNCHANGED <<socket, heard>>
    BY <1>15, ReapEffect
  <2> QED BY <1>1, <1>2, <2>1, FramesStay
<1>16. CASE Stop
  <2>1. /\ DOMAIN connections' = DOMAIN connections
        /\ \A x \in DOMAIN connections : connections'[x].rx = connections[x].rx
        /\ UNCHANGED <<socket, heard>>
    BY <1>16, StopEffect DEF portVars
  <2> QED BY <1>1, <1>2, <2>1, FramesStay
<1>17. ASSUME NEW c \in Conn, PeerStep(c) PROVE FramesAccounted'
  <2>1. /\ UNCHANGED <<connections, heard>> /\ \A x \in Conn : x # c => socket'[x] = socket[x]
        /\ Len(socket'[c].arrived) + socket[c].sent = Len(socket[c].arrived) + socket'[c].sent
        /\ TypeInv'
    BY <1>17, PeerEffect DEF portVars
  <2>2. /\ Len(heard[c]) \in Nat /\ Len(socket[c].arrived) \in Nat /\ socket[c].sent \in Nat
        /\ c \in DOMAIN connections => Len(connections[c].rx) \in Nat
    BY <1>1, FrameCounts
  <2>3. Len(socket'[c].arrived) \in Nat /\ socket'[c].sent \in Nat
    <3>1. socket'[c] \in Socket /\ MaxFrames \in Nat
      BY <2>1, BoundsAreNumbers DEF TypeInv, ServerTypeOK
    <3>2. socket'[c].arrived \in Seq(Frame) /\ socket'[c].sent \in 0..MaxFrames
      BY <3>1, FramesAreSequences DEF Socket
    <3> QED BY <3>1, <3>2
  <2>4. Len(heard[c]) + Len(socket[c].arrived) <= socket[c].sent
        /\ (c \in DOMAIN connections =>
              Len(heard[c]) + Len(connections[c].rx) + Len(socket[c].arrived) = socket[c].sent)
    BY <1>1 DEF FramesAccounted
  <2> DEFINE h == Len(heard[c])
             r == Len(connections[c].rx)
             a == Len(socket[c].arrived)
             n == socket[c].sent
             aa == Len(socket'[c].arrived)
             nn == socket'[c].sent
  <2>5. /\ h \in Nat /\ a \in Nat /\ n \in Nat /\ aa \in Nat /\ nn \in Nat
        /\ aa + n = a + nn /\ h + a <= n
        /\ c \in DOMAIN connections => r \in Nat /\ h + r + a = n
    BY <2>1, <2>2, <2>3, <2>4
  <2> HIDE DEF h, r, a, n, aa, nn
  <2>6. h + aa <= nn /\ (c \in DOMAIN connections => h + r + aa = nn)
    BY <2>5
  <2>7. \A x \in Conn : Len(heard'[x]) + Len(socket'[x].arrived) <= socket'[x].sent
    BY <1>1, <2>1, <2>6 DEF FramesAccounted, h, aa, nn
  <2>8. \A x \in DOMAIN connections' :
            Len(heard'[x]) + Len(connections'[x].rx) + Len(socket'[x].arrived) = socket'[x].sent
    BY <1>1, <1>2, <2>1, <2>6 DEF FramesAccounted, h, r, aa, nn
  <2> QED BY <2>7, <2>8 DEF FramesAccounted
<1> QED
  BY <1>5, <1>6, <1>7, <1>8, <1>9, <1>10, <1>11, <1>12, <1>13, <1>14, <1>15, <1>16, <1>17,
     StepsAreQuiet DEF QuietSteps

\* What is over stays over: a closed socket sends no more, and nothing is delivered from a
\* connection that is not active, nor is it registered again.
LEMMA NothingAfterTheEnd ==
    ASSUME ServerInv, ServerNext, NEW c \in Conn, c < next_id
    PROVE  /\ socket[c].closed => socket'[c].closed /\ socket'[c].sent = socket[c].sent
           /\ ~Active(c) => ~Active(c)' /\ heard'[c] = heard[c]
<1>1. TypeInv /\ heard \in [Conn -> Seq(1..MaxFrames)]
  BY TypesUsed DEF ServerInv, TypeInv
<1>2. ASSUME QuietStep, ~Active(c) PROVE ~Active(c)'
  BY <1>2 DEF QuietStep, Untouched, Retired, Active
<1>3. CASE QuietSteps
  <2>1. QuietStep
    BY <1>3, QuietSoFar
  <2>2. socket[c].closed => socket'[c].closed /\ socket'[c].sent = socket[c].sent
    <3>1. CASE socket' = socket
      BY <3>1
    <3>2. CASE Receive \/ AfterRead
      <4>1. /\ socket'[Top.id].closed = socket[Top.id].closed
            /\ socket'[Top.id].sent = socket[Top.id].sent
            /\ \A x \in Conn : x # Top.id => socket'[x] = socket[x]
        BY <3>2, ReceiveEffect, AfterReadEffect
      <4> QED BY <4>1
    <3>3. ASSUME NEW x \in Conn, PeerStep(x)
          PROVE  socket[c].closed => socket'[c].closed /\ socket'[c].sent = socket[c].sent
      <4>1. /\ \A y \in Conn : y # x => socket'[y] = socket[y]
            /\ socket[x].closed => socket'[x].closed /\ socket'[x].sent = socket[x].sent
        BY <3>3, PeerEffect
      <4> QED BY <4>1
    <3>4. socket' = socket \/ Receive \/ AfterRead \/ \E x \in Conn : PeerStep(x)
      BY <1>3 DEF QuietSteps, OnConnectionEvent, Disconnect, Send, DispatchFrame, AfterDispatch,
         ReapDone, Tick, CallbackReturns, CallbackThrows
    <3> QED BY <3>1, <3>2, <3>3, <3>4
  <2>3. ~Active(c) => heard'[c] = heard[c]
    <3>1. CASE DispatchFrame
      BY <1>1, <3>1 DEF DispatchFrame
    <3>2. ASSUME NEW x \in Conn, PeerStep(x) PROVE heard' = heard
      BY <3>2, PeerEffect DEF portVars
    <3>3. heard' = heard \/ DispatchFrame \/ \E x \in Conn : PeerStep(x)
      BY <1>3 DEF QuietSteps, OnConnectionEvent, Disconnect, Send, Receive, AfterDispatch,
         AfterRead, ReapDone, Tick, CallbackReturns, CallbackThrows, portVars
    <3> QED BY <3>1, <3>2, <3>3
  <2> QED BY <1>2, <2>1, <2>2, <2>3
<1>4. CASE OnAccepted
  <2>1. /\ UNCHANGED <<socket, heard>>
        /\ \/ UNCHANGED connections
           \/ /\ DOMAIN connections' = DOMAIN connections \cup {next_id}
              /\ \A x \in DOMAIN connections : connections'[x] = connections[x]
    BY <1>4, AcceptEffect
  <2>2. c # next_id
    <3>1. c \in Int /\ next_id \in Int
      BY <1>1, TypesUsed, BoundsAreNumbers
    <3> QED BY <3>1
  <2> QED BY <2>1, <2>2 DEF Active
<1>5. CASE Reap
  <2>1. /\ UNCHANGED <<socket, heard>>
        /\ DOMAIN connections' \subseteq DOMAIN connections
        /\ \A x \in DOMAIN connections' : connections'[x] = connections[x]
    BY <1>5, ReapEffect
  <2> QED BY <2>1 DEF Active
<1>6. CASE Stop
  <2>1. /\ UNCHANGED <<socket, heard>> /\ DOMAIN connections' = DOMAIN connections
        /\ \A x \in DOMAIN connections : ~connections'[x].registered
    BY <1>6, StopEffect DEF portVars
  <2> QED BY <2>1 DEF Active
<1> QED BY <1>3, <1>4, <1>5, <1>6, StepsAreQuiet

LEMMA DrainedStays ==
    ASSUME ServerInv, ServerNext, NEW c \in Conn, c < next_id, Drained(c)
    PROVE  Drained(c)'
BY NothingAfterTheEnd DEF Drained

\* Only handle_readable gives a connection up because its peer closed it, when it found the
\* end of what the peer sent and dispatched all of it.
LEMMA OneWayToClose ==
    ASSUME ServerInv, QuietSteps
    PROVE  \/ reap_queue' = reap_queue
           \/ \E c \in DOMAIN connections, why \in Reason :
                /\ Retired(c, why)
                /\ why = "peer_closed" =>
                     Running("dispatch") /\ Top.result = "peer_closed" /\ c = Top.id
                     /\ connections[c].rx = <<>> /\ UNCHANGED <<heard, socket>>
<1> DEFINE Goal == \/ reap_queue' = reap_queue
                   \/ \E c \in DOMAIN connections, why \in Reason :
                        /\ Retired(c, why)
                        /\ why = "peer_closed" =>
                             Running("dispatch") /\ Top.result = "peer_closed" /\ c = Top.id
                             /\ connections[c].rx = <<>> /\ UNCHANGED <<heard, socket>>
<1>1. ASSUME NEW c, NEW why \in Reason \ {"peer_closed"}, Retired(c, why) PROVE Goal
  BY <1>1 DEF Retired
<1>2. ASSUME reap_queue' = reap_queue PROVE Goal
  BY <1>2
<1>3. CASE AfterDispatch
  <2>1. \/ reap_queue' = reap_queue
        \/ /\ Top.result = "peer_closed" /\ Retired(Top.id, "peer_closed")
           /\ connections[Top.id].rx = <<>>
        \/ Retired(Top.id, "io_error")
    BY <1>3, AfterDispatchTypes
  <2>2. Running("dispatch") /\ UNCHANGED <<heard, socket>>
    BY <1>3 DEF AfterDispatch, portVars
  <2>3. CASE /\ Top.result = "peer_closed" /\ Retired(Top.id, "peer_closed")
             /\ connections[Top.id].rx = <<>>
    BY <2>2, <2>3 DEF Retired
  <2>4. CASE Retired(Top.id, "io_error")
    BY <1>1, <2>4 DEF Reason
  <2> QED BY <2>1, <2>3, <2>4
<1> HIDE DEF Goal
<1>4. CASE DispatchFrame
  <2>1. TypeInv /\ Top.id \in DOMAIN connections
    BY <1>4 DEF DispatchFrame, Active, ServerInv, TypeInv
  <2>2. connections[Top.id] \in Connection
    BY <2>1, TypesUsed
  <2>3. reap_queue' = reap_queue \/ ScheduleReap(Top.id, "frame_error")
    BY <1>4 DEF DispatchFrame
  <2>4. reap_queue' = reap_queue \/ Retired(Top.id, "frame_error")
    BY <2>1, <2>2, <2>3, ScheduleReapEffect DEF Reason
  <2> QED BY <1>1, <1>2, <2>4 DEF Reason, Goal
<1>5. CASE AfterRead
  <2>1. reap_queue' = reap_queue \/ Retired(Top.id, "io_error")
    BY <1>5, AfterReadEffect
  <2> QED BY <1>1, <1>2, <2>1 DEF Reason, Goal
<1>6. ASSUME NEW c \in Conn, Disconnect(c) PROVE Goal
  BY <1>1, <1>2, <1>6, DisconnectTypes DEF Reason
<1>7. ASSUME NEW c \in Conn, Send(c) PROVE Goal
  BY <1>1, <1>2, <1>7, SendEffect DEF Reason
<1>8. CASE CallbackThrows
  BY <1>1, <1>2, <1>8, ThrowTypes DEF Reason, Goal
<1>9. ASSUME NEW c \in Conn, PeerStep(c) PROVE Goal
  BY <1>2, <1>9, PeerEffect
<1>10. CASE ReapDone \/ Tick \/ CallbackReturns \/ Receive \/ \E c \in Conn : OnConnectionEvent(c)
  BY <1>2, <1>10 DEF ReapDone, Tick, CallbackReturns, Receive, OnConnectionEvent
<1> QED BY <1>3, <1>4, <1>5, <1>6, <1>7, <1>8, <1>9, <1>10 DEF QuietSteps, Goal

\* A close is reported after everything that came before it.
LEMMA ClosesKept ==
    ASSUME ServerInv, ServerNext
    PROVE  ClosesInOrder'
<1>1. /\ TypeInv /\ Registry /\ StackShape /\ FramesAccounted /\ ClosesInOrder /\ NoneForgotten
      /\ reap_queue \in Seq(Entry) /\ DOMAIN connections \subseteq Conn
  BY QueueShapeIsExact, TypesUsed DEF ServerInv, TypeInv, Registry
<1>2. next_id' >= next_id /\ next_id \in Int /\ next_id' \in Int
  <2>1. next_id' = next_id \/ next_id' = next_id + 1
    <3>1. CASE QuietSteps
      BY <3>1, QuietSoFar DEF QuietStep
    <3>2. CASE Reap
      BY <3>2, ReapEffect
    <3>3. CASE Stop
      BY <3>3, StopEffect
    <3> QED BY <3>1, <3>2, <3>3, AcceptEffect, StepsAreQuiet
  <2>2. next_id \in Int
    BY <1>1, TypesUsed, BoundsAreNumbers
  <2> QED BY <2>1, <2>2
<1>3. ASSUME NEW c \in Conn, c < next_id
      PROVE  c < next_id'
  <2>1. c \in Int
    BY BoundsAreNumbers
  <2> QED BY <1>2, <1>3, <2>1
<1> DEFINE Over(c) == socket'[c].closed /\ Len(heard'[c]) = socket'[c].sent
                      /\ ~(c \in DOMAIN connections' /\ connections'[c].registered)
<1>4. ASSUME NEW c \in Conn, c < next_id, Drained(c) PROVE Over(c)
  <2>1. Drained(c)'
    BY <1>4, DrainedStays
  <2> QED BY <2>1 DEF Drained, Active
<1>5. ASSUME NEW i \in DOMAIN reap_queue, reap_queue[i].why = "peer_closed"
      PROVE  LET c == reap_queue[i].id IN c \in Conn /\ c < next_id /\ Drained(c)
  <2>1. reap_queue[i].id \in DOMAIN connections
    BY <1>1 DEF Registry, QueueShape
  <2>2. reap_queue[i].id \in Conn /\ reap_queue[i].id < next_id
    BY <1>1, <2>1, StoredIdsAreIssued
  <2> QED BY <1>1, <1>5, <2>2 DEF ClosesInOrder
<1>6. \A i \in DOMAIN reap_queue : reap_queue[i].why = "peer_closed" => Over(reap_queue[i].id)
  <2> HIDE DEF Over
  <2> QED BY <1>4, <1>5
<1>7. \A c \in Conn : reason'[c] = "peer_closed" => Over(c) /\ c < next_id'
  <2> HIDE DEF Over
  <2>1. CASE reason' = reason
    BY <1>1, <1>3, <1>4, <2>1 DEF ClosesInOrder
  <2>2. CASE Reap
    <3>1. /\ reap_queue # <<>> /\ reason' = [reason EXCEPT ![reap_queue[1].id] = reap_queue[1].why]
          /\ reap_queue[1].id \in Conn
      BY <2>2, ReapEffect
    <3>2. reason \in [Conn -> Reason \cup {"none"}] /\ 1 \in DOMAIN reap_queue
      BY <1>1, <3>1, QueueParts DEF TypeInv, ServerTypeOK
    <3> TAKE c \in Conn
    <3>3. CASE c = reap_queue[1].id
      <4>1. reason'[c] = reap_queue[1].why
        BY <3>1, <3>2, <3>3
      <4> QED BY <1>3, <1>5, <1>6, <3>2, <3>3, <4>1
    <3>4. CASE c # reap_queue[1].id
      <4>1. reason'[c] = reason[c]
        BY <3>1, <3>2, <3>4
      <4> QED BY <1>1, <1>3, <1>4, <4>1 DEF ClosesInOrder
    <3> QED BY <3>3, <3>4
  <2>3. reason' = reason \/ Reap
    <3>1. CASE QuietSteps
      BY <3>1, QuietSoFar DEF QuietStep
    <3>2. CASE Stop
      BY <3>2, StopEffect DEF portVars
    <3> QED BY <3>1, <3>2, AcceptEffect, StepsAreQuiet
  <2> QED BY <2>1, <2>2, <2>3
<1>8. \A i \in DOMAIN reap_queue' : reap_queue'[i].why = "peer_closed" => Over(reap_queue'[i].id)
  <2>1. CASE QuietSteps
    <3>1. CASE reap_queue' = reap_queue
      BY <1>6, <3>1
    <3>2. ASSUME NEW c \in DOMAIN connections, NEW why \in Reason, Retired(c, why),
                 why = "peer_closed" =>
                     Running("dispatch") /\ Top.result = "peer_closed" /\ c = Top.id
                     /\ connections[c].rx = <<>> /\ UNCHANGED <<heard, socket>>
          PROVE  \A i \in DOMAIN reap_queue' :
                    reap_queue'[i].why = "peer_closed" => Over(reap_queue'[i].id)
      <4> DEFINE e == [id |-> c, why |-> why]
      <4>1. e \in Entry /\ e.id = c /\ e.why = why /\ reap_queue' = Append(reap_queue, e)
        BY <1>1, <3>2 DEF Entry, Retired
      <4>2. ASSUME why = "peer_closed" PROVE Over(c)
        <5>1. /\ stack # <<>> /\ Top.at = "dispatch" /\ Top.result = "peer_closed" /\ c = Top.id
              /\ connections[c].rx = <<>> /\ UNCHANGED <<heard, socket>>
          BY <3>2, <4>2 DEF Running
        <5>2. Bottom = Top /\ Handled(c) /\ c \in Conn /\ SequencesTyped
          BY <1>1, <5>1, HandlerRuns DEF Handling, TypeInv
        <5>3. connections[c].registered /\ ~connections'[c].registered
          BY <3>2 DEF Retired
        <5>4. socket[c].closed /\ socket[c].arrived = <<>>
          BY <1>1, <5>1, <5>2, <5>3 DEF NoneForgotten, InHand
        <5>5. Len(heard[c]) = socket[c].sent
          <6>1. Len(heard[c]) + Len(connections[c].rx) + Len(socket[c].arrived) = socket[c].sent
            BY <1>1 DEF FramesAccounted
          <6>2. Len(connections[c].rx) = 0 /\ Len(socket[c].arrived) = 0 /\ Len(heard[c]) \in Nat
            BY <1>1, <5>1, <5>2, <5>4, FrameCounts
          <6>3. Len(heard[c]) + 0 + 0 = Len(heard[c])
            BY <6>2
          <6> QED BY <6>1, <6>2, <6>3
        <5> QED BY <5>1, <5>3, <5>4, <5>5
      <4> HIDE DEF Over, e
      <4>3. /\ Len(reap_queue) \in Nat /\ DOMAIN reap_queue = 1..Len(reap_queue)
            /\ DOMAIN reap_queue' = 1..(Len(reap_queue) + 1)
            /\ \A i \in 1..Len(reap_queue) : reap_queue'[i] = reap_queue[i]
            /\ reap_queue'[Len(reap_queue) + 1] = e
            /\ \A i \in 1..(Len(reap_queue) + 1) : i = Len(reap_queue) + 1 \/ i \in 1..Len(reap_queue)
        BY <1>1, <4>1, AppendedEntry
      <4> QED BY <1>6, <4>1, <4>2, <4>3
    <3> HIDE DEF Over
    <3> QED BY <2>1, <3>1, <3>2, OneWayToClose
  <2>2. CASE OnAccepted
    BY <1>6, <2>2, AcceptEffect
  <2>3. CASE Reap
    <3>1. /\ DOMAIN reap_queue = 1..Len(reap_queue) /\ DOMAIN reap_queue' = 1..(Len(reap_queue) - 1)
          /\ \A i \in 1..(Len(reap_queue) - 1) : reap_queue'[i] = reap_queue[i + 1]
          /\ Len(reap_queue) \in Nat
      <4>1. reap_queue' = Tail(reap_queue) /\ reap_queue # <<>>
        BY <2>3, ReapEffect
      <4> QED BY <1>1, <4>1, QueueParts
    <3> DEFINE n == Len(reap_queue)
    <3> HIDE DEF Over, n
    <3>2. \A i \in 1..(n - 1) : i + 1 \in 1..n
      BY <3>1 DEF n
    <3> QED BY <1>6, <3>1, <3>2 DEF n
  <2>4. CASE Stop
    BY <2>4, StopEffect
  <2> QED BY <2>1, <2>2, <2>3, <2>4, StepsAreQuiet
<1> QED BY <1>7, <1>8 DEF ClosesInOrder, Drained, Active

----------------------------------------------------------------------------
(* Edges *)

\* What NoneForgotten says of one connection.
Remembered(c) ==
    /\ connections[c].writes = (connections[c].tx > 0)
    /\ IF Handled(c) THEN InHand(c) ELSE Awake(c)

\* The step begins, ends and changes no handler of an event.
SameHandler ==
    \A x \in Conn : IF Handled(x) THEN stack' # <<>> /\ Bottom' = Bottom ELSE ~Handled(x)'

LEMMA RememberedStays ==
    ASSUME NEW x \in Conn, Remembered(x), SameHandler, connections'[x] = connections[x],
           socket'[x] = socket[x], x \in ready => x \in ready'
    PROVE  Remembered(x)'
<1>1. CASE Handled(x)
  <2>1. stack' # <<>> /\ Bottom' = Bottom /\ Handled(x)' /\ InHand(x)
    BY <1>1 DEF SameHandler, Handled, Remembered
  <2>2. InHand(x)'
    BY <2>1 DEF InHand, Unread
  <2> QED BY <2>1, <2>2 DEF Remembered
<1>2. CASE ~Handled(x)
  BY <1>2 DEF SameHandler, Remembered, Awake
<1> QED BY <1>1, <1>2

LEMMA PushedHandler ==
    ASSUME SequencesTyped, stack # <<>>, NEW call \in Call, stack' = <<call>> \o stack
    PROVE  SameHandler /\ stack' # <<>> /\ Bottom' = Bottom
<1> DEFINE n == Len(stack)
<1>1. /\ n \in Nat /\ n >= 1 /\ stack' # <<>> /\ Len(stack') = n + 1
      /\ \A i \in 1..n : stack'[i + 1] = stack[i]
  BY PushedCall DEF SequencesTyped
<1> HIDE DEF n
<1>2. stack'[n + 1] = stack[n]
  BY <1>1
<1>3. Bottom' = Bottom
  BY <1>1, <1>2 DEF Bottom, n
<1> QED BY <1>1, <1>3 DEF SameHandler, Handled

LEMMA PoppedHandler ==
    ASSUME SequencesTyped, stack # <<>>, Top.at \notin Handling, stack' = Tail(stack)
    PROVE  SameHandler
<1> DEFINE n == Len(stack)
<1>1. /\ n \in Nat /\ n >= 1 /\ Len(stack') = n - 1 /\ stack' \in Seq(Call)
      /\ \A i \in 1..(n - 1) : stack'[i] = stack[i + 1]
  BY RestOfCalls DEF SequencesTyped
<1> HIDE DEF n
<1>2. CASE n = 1
  <2>1. Bottom = Top /\ stack' = <<>>
    BY <1>1, <1>2 DEF Bottom, Top, n
  <2> QED BY <2>1 DEF SameHandler, Handled
<1>3. CASE n # 1
  <2>1. n - 1 \in 1..(n - 1) /\ (n - 1) + 1 = n
    BY <1>1, <1>3
  <2>2. stack'[n - 1] = stack[n] /\ stack' # <<>>
    <3>1. stack'[n - 1] = stack[(n - 1) + 1]
      BY <1>1, <2>1
    <3>2. n - 1 # 0 /\ Len(stack') = n - 1
      BY <1>1, <1>3
    <3>3. stack' # <<>>
      BY <3>2
    <3> QED BY <2>1, <3>1, <3>3
  <2>3. Bottom' = Bottom
    BY <1>1, <2>2 DEF Bottom, n
  <2> QED BY <2>2, <2>3 DEF SameHandler, Handled
<1> QED BY <1>2, <1>3

LEMMA DisconnectedHandler ==
    ASSUME SequencesTyped, stack # <<>>, Top.at = "application", NEW caller \in Call,
           NEW call \in Call, caller.at = "application",
           \/ stack' = <<call, caller>> \o Tail(stack)
           \/ stack' = <<caller>> \o Tail(stack)
    PROVE  SameHandler
<1> DEFINE n == Len(stack)
<1>1. /\ n \in Nat /\ n >= 1 /\ stack' # <<>>
      /\ \/ /\ Len(stack') = n + 1 /\ stack'[2] = caller
            /\ \A i \in 3..(n + 1) : stack'[i] = stack[i - 1]
         \/ /\ Len(stack') = n /\ stack'[1] = caller
            /\ \A i \in 2..n : stack'[i] = stack[i]
  <2>1. n \in Nat /\ n >= 1
    BY DEF SequencesTyped
  <2>2. CASE stack' = <<call, caller>> \o Tail(stack)
    BY <2>1, <2>2, CalledCall DEF SequencesTyped
  <2>3. CASE stack' = <<caller>> \o Tail(stack)
    BY <2>1, <2>3, ReplacedCall DEF SequencesTyped
  <2> QED BY <2>2, <2>3
<1> HIDE DEF n
<1>2. CASE n = 1
  <2>1. Bottom = Top /\ 1 + 1 = 2
    BY <1>2 DEF Bottom, Top, n
  <2>2. Bottom' = caller
    BY <1>1, <1>2, <2>1 DEF Bottom
  <2> QED BY <2>1, <2>2 DEF SameHandler, Handled, Handling
<1>3. CASE n # 1
  <2>1. n + 1 \in 3..(n + 1) /\ n \in 2..n /\ (n + 1) - 1 = n
    BY <1>1, <1>3
  <2>2. stack'[Len(stack')] = stack[n]
    <3>1. CASE Len(stack') = n + 1 /\ \A i \in 3..(n + 1) : stack'[i] = stack[i - 1]
      <4>1. stack'[n + 1] = stack[(n + 1) - 1]
        BY <2>1, <3>1
      <4> QED BY <2>1, <3>1, <4>1
    <3>2. CASE Len(stack') = n /\ \A i \in 2..n : stack'[i] = stack[i]
      BY <2>1, <3>2
    <3> QED BY <1>1, <3>1, <3>2
  <2>3. Bottom' = Bottom
    BY <2>2 DEF Bottom, n
  <2> QED BY <1>1, <2>3 DEF SameHandler, Handled
<1> QED BY <1>2, <1>3

\* Before and after there is no handler at all.
LEMMA NoHandler ==
    ASSUME stack = <<>> \/ Bottom.at \notin Handling,
           stack' = <<>> \/ (Bottom.at)' \notin Handling
    PROVE  SameHandler
BY DEF SameHandler, Handled

LEMMA RememberedUsed ==
    ASSUME ServerInv
    PROVE  /\ TypeInv /\ SequencesTyped /\ StackShape /\ Registry /\ DOMAIN connections \subseteq Conn
           /\ \A x \in DOMAIN connections : connections[x] \in Connection
           /\ \A x \in DOMAIN connections : connections[x].registered => Remembered(x)
<1>1. TypeInv /\ SequencesTyped /\ StackShape /\ Registry /\ NoneForgotten
  BY QueueShapeIsExact DEF ServerInv, TypeInv, Registry
<1> QED BY <1>1, TypesUsed DEF NoneForgotten, Remembered

\* Nothing but who is registered changes.
LEMMA OnlyRetired ==
    ASSUME ServerInv, SameHandler, socket' = socket,
           \/ UNCHANGED <<connections, ready>>
           \/ \E c \in Conn, why \in Reason : Retired(c, why)
    PROVE  NoneForgotten'
<1>1. ASSUME NEW x \in DOMAIN connections, connections[x].registered,
             connections'[x] = connections[x], x \in ready => x \in ready'
      PROVE  Remembered(x)'
  BY <1>1, RememberedUsed, RememberedStays
<1>2. CASE UNCHANGED <<connections, ready>>
  <2>1. \A x \in DOMAIN connections' : connections'[x].registered => Remembered(x)'
    BY <1>1, <1>2
  <2> QED BY <2>1 DEF NoneForgotten, Remembered
<1>3. ASSUME NEW c \in Conn, NEW why \in Reason, Retired(c, why) PROVE NoneForgotten'
  <2>1. /\ DOMAIN connections' = DOMAIN connections /\ ~connections'[c].registered
        /\ \A x \in DOMAIN connections : x # c => connections'[x] = connections[x]
        /\ ready' = ready \ {c}
    BY <1>3 DEF Retired
  <2>2. \A x \in DOMAIN connections' : connections'[x].registered => Remembered(x)'
    BY <1>1, <2>1
  <2> QED BY <2>2 DEF NoneForgotten, Remembered
<1> QED BY <1>2, <1>3

LEMMA AllRemembered ==
    ASSUME \A x \in DOMAIN connections' : connections'[x].registered => Remembered(x)'
    PROVE  NoneForgotten'
BY DEF NoneForgotten, Remembered

\* A connection that is accepted is polled.
LEMMA AcceptRemembers ==
    ASSUME ServerInv, OnAccepted
    PROVE  NoneForgotten'
<1>0. PICK c \in Conn : c = next_id
  BY AcceptEffect
<1>1. /\ UNCHANGED socket /\ stack = <<>>
      /\ \/ /\ DOMAIN connections' = DOMAIN connections \cup {c}
            /\ connections'[c] = NewConnection
            /\ \A x \in DOMAIN connections : connections'[x] = connections[x]
            /\ ready' = Polled(c, socket[c], FALSE)
            /\ stack' = <<Invoke("application", c), Invoke("reap", 0)>>
         \/ UNCHANGED <<connections, ready, stack>>
         \/ /\ DOMAIN connections' = DOMAIN connections \cup {c}
            /\ connections'[c] = [NewConnection EXCEPT !.registered = FALSE]
            /\ \A x \in DOMAIN connections : connections'[x] = connections[x]
            /\ UNCHANGED <<ready, stack>>
  BY <1>0, AcceptEffect
<1>2. SameHandler /\ (stack' = <<>> \/ (Bottom.at)' \notin Handling)
  <2>1. ASSUME stack' = <<Invoke("application", c), Invoke("reap", 0)>>
        PROVE  (Bottom.at)' = "reap"
    <3>1. Invoke("reap", 0).at = "reap"
      BY DEF Invoke
    <3>2. Len(stack') = 2 /\ stack'[2] = Invoke("reap", 0)
      BY <2>1
    <3> QED BY <3>1, <3>2 DEF Bottom
  <2>2. stack' = <<>> \/ (Bottom.at)' \notin Handling
    BY <1>1, <2>1 DEF Handling
  <2> QED BY <1>1, <2>2, NoHandler
<1>3. ready \subseteq ready'
  BY <1>1 DEF Polled
<1>4. ASSUME NEW x \in DOMAIN connections, connections[x].registered,
             connections'[x] = connections[x]
      PROVE  Remembered(x)'
  BY <1>1, <1>2, <1>3, <1>4, RememberedUsed, RememberedStays
<1>5. ASSUME connections'[c] = NewConnection, ready' = Polled(c, socket[c], FALSE)
      PROVE  Remembered(c)'
  <2>1. /\ NewConnection.writes = FALSE /\ NewConnection.tx = 0 /\ NewConnection.rx = <<>>
    BY DEF NewConnection
  <2>2. Readiness(socket[c], FALSE) # {} => c \in ready'
    BY <1>5 DEF Polled
  <2>3. Awake(c)' /\ connections'[c].writes = (connections'[c].tx > 0)
    <3>1. (0 > 0) = FALSE
      OBVIOUS
    <3>2. connections'[c].writes = FALSE /\ connections'[c].tx = 0 /\ connections'[c].rx = <<>>
      BY <1>5, <2>1
    <3> QED BY <1>1, <2>2, <3>1, <3>2 DEF Awake
  <2>4. ~Handled(c)'
    BY <1>2 DEF Handled
  <2> QED BY <2>3, <2>4 DEF Remembered
<1>6. ~[NewConnection EXCEPT !.registered = FALSE].registered
  BY DEF NewConnection
<1>7. \A x \in DOMAIN connections' : connections'[x].registered => Remembered(x)'
  BY <1>1, <1>4, <1>5, <1>6
<1> QED BY <1>7, AllRemembered

\* The events that are taken from the ready list are in the hands of the handler.
LEMMA EventRemembers ==
    ASSUME ServerInv, NEW c \in Conn, OnConnectionEvent(c)
    PROVE  NoneForgotten'
<1> DEFINE s == socket[c]
           events == Readiness(s, connections[c].writes)
           place == IF "readable" \in events THEN "receive" ELSE "after_read"
           call == [Invoke(place, c) EXCEPT !.events = events]
<1>1. /\ stack = <<>> /\ c \in ready /\ ready' = ready \ {c}
      /\ stack' = IF events = {} THEN <<>> ELSE <<call>>
      /\ UNCHANGED <<connections, socket>>
  BY DEF OnConnectionEvent
<1>2. /\ call.at = place /\ call.id = c /\ call.events = events
  BY DEF Invoke
<1>3. /\ place \in {"receive", "after_read"} /\ (place = "after_read" => "readable" \notin events)
  OBVIOUS
<1>4. ASSUME NEW x \in DOMAIN connections, connections[x].registered
      PROVE  connections[x].writes = (connections[x].tx > 0) /\ Awake(x)
  BY <1>1, <1>4, RememberedUsed DEF Remembered, Handled
<1>5. /\ "readable" \notin events => ~Unread(s)
      /\ connections[c].writes /\ s.room > 0 => "writable" \in events
  BY DEF Readiness, Event, Unread
<1> HIDE DEF place, events
<1>6. CASE events = {}
  <2>1. stack' = <<>>
    BY <1>1, <1>6
  <2>2. ASSUME NEW x \in DOMAIN connections, connections[x].registered
        PROVE  Remembered(x)'
    <3>1. Awake(x)'
      <4>1. CASE x = c
        <5>1. connections[c].rx = <<>> /\ Readiness(socket[c], connections[c].writes) = {}
          BY <1>4, <1>6, <2>2, <4>1 DEF Awake, events
        <5> QED BY <1>1, <4>1, <5>1 DEF Awake
      <4>2. CASE x # c
        BY <1>1, <1>4, <2>2, <4>2 DEF Awake
      <4> QED BY <4>1, <4>2
    <3> QED BY <1>1, <1>4, <2>1, <2>2, <3>1 DEF Remembered, Handled
  <2> QED BY <1>1, <2>2, AllRemembered
<1>7. CASE events # {}
  <2> HIDE DEF call
  <2>1. stack' # <<>> /\ Bottom' = call
    <3>1. stack' = <<call>>
      BY <1>1, <1>7
    <3>2. Len(stack') = 1 /\ stack'[1] = call /\ stack' # <<>>
      BY <3>1
    <3> QED BY <3>2 DEF Bottom
  <2>2. ASSUME NEW x \in DOMAIN connections, connections[x].registered
        PROVE  Remembered(x)'
    <3>1. CASE x = c
      <4>1. Handled(c)'
        BY <1>2, <1>3, <2>1 DEF Handled, Handling
      <4>2. connections[c].rx = <<>>
        BY <1>4, <2>2, <3>1 DEF Awake
      <4>3. InHand(c)'
        BY <1>1, <1>2, <1>3, <1>5, <2>1, <4>2 DEF InHand, Unread
      <4> QED BY <1>1, <1>4, <2>2, <3>1, <4>1, <4>3 DEF Remembered
    <3>2. CASE x # c
      <4>1. ~Handled(x)'
        BY <1>2, <2>1, <3>2 DEF Handled
      <4>2. Awake(x)'
        BY <1>1, <1>4, <2>2, <3>2 DEF Awake
      <4> QED BY <1>1, <1>4, <2>2, <4>1, <4>2 DEF Remembered
    <3> QED BY <3>1, <3>2
  <2> QED BY <1>1, <2>2, AllRemembered
<1> QED BY <1>6, <1>7

\* A receive that ends early found the socket empty; one that filled the ring is repeated.
LEMMA ReceiveRemembers ==
    ASSUME ServerInv, Receive
    PROVE  NoneForgotten'
<1>0. PICK c \in Conn : c = Top.id
  BY ReceiveEffect
<1> DEFINE s == socket[c]
           result == ReceiveResult(Len(connections'[c].rx), s)
<1>1. /\ c \in DOMAIN connections /\ connections[c].registered /\ stack # <<>>
      /\ Len(stack) = 1 /\ Top.at = "receive" /\ Bottom = Top /\ Top \in Call
      /\ DOMAIN connections' = DOMAIN connections
      /\ \A x \in DOMAIN connections : x # c => connections'[x] = connections[x]
      /\ connections'[c].writes = connections[c].writes
      /\ connections'[c].tx = connections[c].tx
      /\ \A x \in Conn : x # c => socket'[x] = socket[x]
      /\ socket'[c].closed = s.closed /\ socket'[c].broken = s.broken /\ socket'[c].room = s.room
      /\ \E call \in Call :
           call = [Top EXCEPT !.at = "dispatch", !.result = result] /\ GoTo(call)
      /\ Len(connections'[c].rx) # RingCapacity => socket'[c].arrived = <<>>
  BY <1>0, ReceiveEffect DEF Active
<1>2. ready' = ready
  BY DEF Receive
<1>3. /\ result \in {"would_block", "full", "peer_closed", "error"}
      /\ result = "would_block" => Len(connections'[c].rx) # RingCapacity /\ ~s.closed /\ ~s.broken
      /\ result = "peer_closed" => Len(connections'[c].rx) # RingCapacity /\ s.closed
  BY DEF ReceiveResult
<1> HIDE DEF result
<1>4. PICK call \in Call : call = [Top EXCEPT !.at = "dispatch", !.result = result] /\ GoTo(call)
  BY <1>1
<1>5. call.at = "dispatch" /\ call.id = c /\ call.events = Top.events /\ call.result = result
  BY <1>0, <1>1, <1>4 DEF Call
<1>6. stack' # <<>> /\ Bottom' = call
  <2>1. stack' = <<call>>
    BY <1>1, <1>4, RememberedUsed, HandlerReplaced
  <2>2. Len(stack') = 1 /\ stack'[1] = call /\ stack' # <<>>
    BY <2>1
  <2> QED BY <2>2 DEF Bottom
<1>7. Handled(c) /\ Handled(c)'
  BY <1>0, <1>1, <1>5, <1>6 DEF Handled, Handling
<1>8. Remembered(c)'
  <2>1. connections[c].writes = (connections[c].tx > 0) /\ InHand(c)
    BY <1>1, <1>7, RememberedUsed DEF Remembered
  <2>2. InHand(c)'
    BY <1>1, <1>2, <1>3, <1>5, <1>6, <2>1 DEF InHand, Unread
  <2> QED BY <1>1, <1>7, <2>1, <2>2 DEF Remembered
<1>9. ASSUME NEW x \in DOMAIN connections, x # c, connections[x].registered
      PROVE  Remembered(x)'
  <2>1. Remembered(x) /\ x \in Conn /\ ~Handled(x) /\ ~Handled(x)'
    BY <1>0, <1>1, <1>5, <1>6, <1>9, RememberedUsed DEF Handled
  <2> QED BY <1>1, <1>2, <1>9, <2>1 DEF Remembered, Awake
<1>10. \A x \in DOMAIN connections' : connections'[x].registered => Remembered(x)'
  BY <1>1, <1>8, <1>9
<1> QED BY <1>10, AllRemembered

LEMMA DispatchRemembers ==
    ASSUME ServerInv, DispatchFrame
    PROVE  NoneForgotten'
<1>1. /\ stack # <<>> /\ Top.at = "dispatch" /\ Len(stack) = 1 /\ Bottom = Top
      /\ Top.id \in DOMAIN connections /\ socket' = socket
  BY RememberedUsed, HandlerRuns DEF DispatchFrame, Running, Handling, Active
<1>2. PICK c \in Conn : c = Top.id
  BY <1>1, RememberedUsed
<1>3. CASE ScheduleReap(c, "frame_error") /\ stack' = stack
  <2>1. connections[c] \in Connection /\ c \in DOMAIN connections
    BY <1>1, <1>2, RememberedUsed
  <2>2. Retired(c, "frame_error") \/ UNCHANGED <<connections, ready>>
    BY <1>3, <2>1, ScheduleReapEffect DEF Reason
  <2>3. SameHandler
    BY <1>1, <1>3 DEF SameHandler, Handled, Bottom
  <2> QED BY <1>1, <2>2, <2>3, OnlyRetired DEF Reason
<1>4. CASE /\ connections' = [connections EXCEPT ![c].rx = Tail(@)]
           /\ Calls(Invoke("application", c)) /\ ready' = ready
  <2>1. SameHandler /\ stack' # <<>> /\ Bottom' = Bottom
    <3>1. Invoke("application", c) \in Call
      BY InvokedCall
    <3> QED BY <1>1, <1>4, <3>1, RememberedUsed, PushedHandler DEF Calls
  <2>2. /\ DOMAIN connections' = DOMAIN connections
        /\ \A x \in DOMAIN connections : x # c => connections'[x] = connections[x]
        /\ connections'[c].writes = connections[c].writes
        /\ connections'[c].tx = connections[c].tx
        /\ connections'[c].registered = connections[c].registered
    BY <1>1, <1>2, <1>4, RememberedUsed DEF Connection
  <2>3. ASSUME connections[c].registered PROVE Remembered(c)'
    <3>1. Handled(c) /\ Handled(c)' /\ Bottom.at = "dispatch"
      BY <1>1, <1>2, <2>1 DEF Handled, Handling
    <3>2. connections[c].writes = (connections[c].tx > 0) /\ InHand(c)
      BY <1>1, <1>2, <2>3, <3>1, RememberedUsed DEF Remembered
    <3>3. InHand(c)'
      BY <1>1, <1>4, <2>1, <2>2, <3>1, <3>2 DEF InHand, Unread
    <3> QED BY <2>2, <3>1, <3>2, <3>3 DEF Remembered
  <2>4. ASSUME NEW x \in DOMAIN connections, x # c, connections[x].registered
        PROVE  Remembered(x)'
    BY <1>1, <1>4, <2>1, <2>2, <2>4, RememberedUsed, RememberedStays
  <2>5. \A x \in DOMAIN connections' : connections'[x].registered => Remembered(x)'
    BY <2>2, <2>3, <2>4
  <2> QED BY <2>5, AllRemembered
<1> QED BY <1>2, <1>3, <1>4 DEF DispatchFrame

LEMMA AfterDispatchRemembers ==
    ASSUME ServerInv, AfterDispatch
    PROVE  NoneForgotten'
<1>1. /\ stack # <<>> /\ Top.at = "dispatch" /\ Len(stack) = 1 /\ Bottom = Top /\ Top \in Call
      /\ Top.id \in Conn /\ socket' = socket
  BY RememberedUsed, HandlerRuns DEF AfterDispatch, Running, Handling
<1>2. PICK c \in Conn : c = Top.id
  BY <1>1
<1> DEFINE afterRead == [Top EXCEPT !.at = "after_read", !.result = "none"]
           again == [afterRead EXCEPT !.at = "receive"]
<1>3. /\ afterRead.at = "after_read" /\ afterRead.id = c /\ afterRead.events = Top.events
      /\ again.at = "receive" /\ again.id = c /\ again.events = Top.events
  BY <1>1, <1>2 DEF Call
<1>4. \/ GoTo(afterRead) /\ ~(Active(c) /\ Top.result = "full")
      \/ GoTo(again) /\ Active(c) /\ Top.result = "full"
  BY <1>2 DEF AfterDispatch
<1>5. /\ Active(c) => connections[c].rx = <<>>
      /\ \/ Active(c) /\ Top.result = "peer_closed" /\ ScheduleReap(c, "peer_closed")
         \/ Active(c) /\ Top.result = "error" /\ ScheduleReap(c, "io_error")
         \/ /\ ~(Active(c) /\ Top.result \in {"peer_closed", "error"})
            /\ UNCHANGED <<connections, ready>>
  BY <1>2 DEF AfterDispatch
<1> HIDE DEF afterRead, again
<1>6. /\ stack' # <<>>
      /\ \/ Bottom' = afterRead /\ ~(Active(c) /\ Top.result = "full")
         \/ Bottom' = again /\ Active(c) /\ Top.result = "full"
  <2>1. ASSUME NEW call, GoTo(call) PROVE stack' # <<>> /\ Bottom' = call
    <3>1. stack' = <<call>>
      BY <1>1, <2>1, RememberedUsed, HandlerReplaced
    <3>2. Len(stack') = 1 /\ stack'[1] = call /\ stack' # <<>>
      BY <3>1
    <3> QED BY <3>2 DEF Bottom
  <2> QED BY <1>4, <2>1
<1>7. /\ (Bottom.at)' \in {"after_read", "receive"} /\ (Bottom.id)' = c
      /\ (Bottom.events)' = Top.events
      /\ (Bottom.at)' = "after_read" => ~(Active(c) /\ Top.result = "full")
  BY <1>3, <1>6
<1>8. Handled(c) /\ Handled(c)' /\ \A x \in Conn : x # c => ~Handled(x) /\ ~Handled(x)'
  BY <1>1, <1>2, <1>6, <1>7 DEF Handled, Handling
<1>9. ASSUME NEW x \in DOMAIN connections, x # c, connections[x].registered,
             connections'[x] = connections[x], x \in ready => x \in ready'
      PROVE  Remembered(x)'
  <2>1. Remembered(x) /\ x \in Conn /\ ~Handled(x) /\ ~Handled(x)'
    BY <1>8, <1>9, RememberedUsed
  <2> QED BY <1>1, <1>9, <2>1 DEF Remembered, Awake
<1>10. CASE \E why \in Reason : Retired(c, why)
  <2>1. /\ DOMAIN connections' = DOMAIN connections /\ ~connections'[c].registered
        /\ \A x \in DOMAIN connections : x # c => connections'[x] = connections[x]
        /\ ready' = ready \ {c}
    BY <1>10 DEF Retired
  <2>2. \A x \in DOMAIN connections' : connections'[x].registered => Remembered(x)'
    BY <1>9, <2>1
  <2> QED BY <2>2, AllRemembered
<1>11. CASE UNCHANGED <<connections, ready>> /\ ~(Active(c) /\ Top.result \in {"peer_closed", "error"})
  <2>1. ASSUME Active(c) PROVE Remembered(c)'
    <3>1. connections[c].writes = (connections[c].tx > 0) /\ InHand(c)
      BY <1>8, <2>1, RememberedUsed DEF Remembered, Active
    <3>2. Top.result \in {"would_block", "full"}
      BY <1>1, <1>11, <2>1, <3>1 DEF InHand, Call
    <3>3. InHand(c)'
      BY <1>1, <1>5, <1>7, <1>11, <2>1, <3>1, <3>2 DEF InHand, Unread
    <3> QED BY <1>8, <1>11, <3>1, <3>3 DEF Remembered
  <2>2. \A x \in DOMAIN connections' : connections'[x].registered => Remembered(x)'
    BY <1>9, <1>11, <2>1 DEF Active
  <2> QED BY <2>2, AllRemembered
<1>12. ASSUME NEW why \in {"peer_closed", "io_error"}, Active(c), ScheduleReap(c, why)
       PROVE  \E w \in Reason : Retired(c, w)
  <2>1. c \in DOMAIN connections /\ connections[c] \in Connection /\ connections[c].registered
    BY <1>12, RememberedUsed DEF Active
  <2> QED BY <1>12, <2>1, ScheduleReapEffect DEF Reason
<1> QED BY <1>5, <1>10, <1>11, <1>12

\* When the handler is done, its connection is looked after by the kernel again.
LEMMA AfterReadRemembers ==
    ASSUME ServerInv, AfterRead
    PROVE  NoneForgotten'
<1>0. PICK c \in Conn : c = Top.id
  BY AfterReadEffect
<1>1. /\ Top.at = "after_read" /\ stack # <<>> /\ Len(stack) = 1 /\ Bottom = Top
      /\ GoTo(Invoke("reap", 0)) /\ \A x \in Conn : x # c => socket'[x] = socket[x]
      /\ \/ ~Active(c) /\ UNCHANGED <<connections, ready, socket>>
         \/ Retired(c, "io_error")
         \/ /\ Active(c) /\ DOMAIN connections' = DOMAIN connections
            /\ \A x \in DOMAIN connections : x # c => connections'[x] = connections[x]
            /\ connections'[c].rx = connections[c].rx
            /\ connections'[c].writes = (connections'[c].tx > 0)
            /\ ready \subseteq ready'
            /\ Readiness(socket'[c], connections'[c].writes) # {} => c \in ready'
  BY <1>0, AfterReadEffect
<1>2. stack' # <<>> /\ (Bottom.at)' = "reap"
  <2>1. stack' = <<Invoke("reap", 0)>>
    BY <1>1, RememberedUsed, HandlerReplaced
  <2>2. Len(stack') = 1 /\ stack'[1] = Invoke("reap", 0) /\ stack' # <<>>
    BY <2>1
  <2>3. Invoke("reap", 0).at = "reap"
    BY DEF Invoke
  <2> QED BY <2>2, <2>3 DEF Bottom
<1>3. Handled(c) /\ \A x \in Conn : ~Handled(x)' /\ (x # c => ~Handled(x))
  BY <1>0, <1>1, <1>2 DEF Handled, Handling
<1>4. ASSUME NEW x \in DOMAIN connections, x # c, connections[x].registered,
             connections'[x] = connections[x], x \in ready => x \in ready'
      PROVE  Remembered(x)'
  <2>1. Remembered(x) /\ x \in Conn /\ ~Handled(x) /\ ~Handled(x)'
    BY <1>3, <1>4, RememberedUsed
  <2> QED BY <1>1, <1>4, <2>1 DEF Remembered, Awake
<1>5. CASE ~Active(c) /\ UNCHANGED <<connections, ready, socket>>
  <2>1. \A x \in DOMAIN connections' : connections'[x].registered => Remembered(x)'
    BY <1>4, <1>5 DEF Active
  <2> QED BY <2>1, AllRemembered
<1>6. CASE Retired(c, "io_error")
  <2>1. /\ DOMAIN connections' = DOMAIN connections /\ ~connections'[c].registered
        /\ \A x \in DOMAIN connections : x # c => connections'[x] = connections[x]
        /\ ready' = ready \ {c}
    BY <1>6 DEF Retired
  <2>2. \A x \in DOMAIN connections' : connections'[x].registered => Remembered(x)'
    BY <1>4, <2>1
  <2> QED BY <2>2, AllRemembered
<1>7. CASE /\ Active(c) /\ DOMAIN connections' = DOMAIN connections
           /\ \A x \in DOMAIN connections : x # c => connections'[x] = connections[x]
           /\ connections'[c].rx = connections[c].rx
           /\ connections'[c].writes = (connections'[c].tx > 0)
           /\ ready \subseteq ready'
           /\ Readiness(socket'[c], connections'[c].writes) # {} => c \in ready'
  <2>1. InHand(c)
    BY <1>3, <1>7, RememberedUsed DEF Remembered, Active
  <2>2. connections[c].rx = <<>>
    BY <1>1, <2>1 DEF InHand
  <2>3. Remembered(c)'
    BY <1>3, <1>7, <2>2 DEF Remembered, Awake
  <2>4. \A x \in DOMAIN connections' : connections'[x].registered => Remembered(x)'
    BY <1>4, <1>7, <2>3
  <2> QED BY <2>4, AllRemembered
<1> QED BY <1>1, <1>5, <1>6, <1>7

\* A message that is queued is transmitted as soon as there is room.
LEMMA SendRemembers ==
    ASSUME ServerInv, NEW c \in Conn, Send(c)
    PROVE  NoneForgotten'
<1>1. /\ stack # <<>> /\ Calls(Invoke("reap", 0)) /\ socket' = socket
  BY SendEffect
<1>2. SameHandler /\ stack' # <<>> /\ Bottom' = Bottom
  <2>1. Invoke("reap", 0) \in Call
    BY InvokedCall
  <2> QED BY <1>1, <2>1, RememberedUsed, PushedHandler DEF Calls
<1>3. CASE Retired(c, "io_error")
  BY <1>1, <1>2, <1>3, OnlyRetired DEF Reason
<1>4. CASE /\ Active(c) /\ DOMAIN connections' = DOMAIN connections
           /\ \A x \in DOMAIN connections : x # c => connections'[x] = connections[x]
           /\ connections'[c] \in Connection /\ connections'[c].rx = connections[c].rx
           /\ connections'[c].tx > 0 /\ connections'[c].writes
           /\ ready \subseteq ready'
           /\ connections[c].writes \/ ready' = Polled(c, socket[c], TRUE)
  <2>1. Remembered(c) /\ c \in DOMAIN connections /\ connections[c] \in Connection
    BY <1>4, RememberedUsed DEF Active
  <2>2. connections'[c].writes = (connections'[c].tx > 0) /\ connections'[c].writes = TRUE
    BY <1>4 DEF Connection
  <2>3. connections[c].writes = TRUE \/ (Readiness(socket[c], TRUE) # {} => c \in ready')
    BY <1>4, <2>1 DEF Polled, Connection
  <2>4. socket[c].room > 0 => "writable" \in Readiness(socket[c], TRUE)
    BY DEF Readiness, Event
  <2>5. ASSUME Handled(c) PROVE Remembered(c)'
    <3>1. Handled(c)' /\ InHand(c)
      BY <1>2, <2>1, <2>5 DEF Handled, Remembered
    <3>2. connections'[c].writes /\ socket[c].room > 0 => c \in ready' \/ "writable" \in Bottom.events
      BY <1>4, <2>3, <2>4, <3>1 DEF InHand
    <3>3. InHand(c)'
      BY <1>1, <1>2, <1>4, <3>1, <3>2 DEF InHand, Unread
    <3> QED BY <2>2, <3>1, <3>3 DEF Remembered
  <2>6. ASSUME ~Handled(c) PROVE Remembered(c)'
    <3>1. ~Handled(c)' /\ Awake(c)
      BY <1>2, <2>1, <2>6 DEF SameHandler, Remembered
    <3>2. Readiness(socket[c], TRUE) # {} => c \in ready'
      BY <1>4, <2>3, <3>1 DEF Awake
    <3>3. Awake(c)'
      BY <1>1, <1>4, <2>2, <3>1, <3>2 DEF Awake
    <3> QED BY <2>2, <3>1, <3>3 DEF Remembered
  <2>7. Remembered(c)'
    BY <2>5, <2>6
  <2>8. ASSUME NEW x \in DOMAIN connections, x # c, connections[x].registered
        PROVE  Remembered(x)'
    BY <1>1, <1>2, <1>4, <2>8, RememberedUsed, RememberedStays
  <2>9. \A x \in DOMAIN connections' : connections'[x].registered => Remembered(x)'
    BY <1>4, <2>7, <2>8
  <2> QED BY <2>9, AllRemembered
<1> QED BY <1>3, <1>4, SendEffect

\* The kernel notices whatever a handler or the reactor would have to know.
LEMMA PeerRemembers ==
    ASSUME ServerInv, NEW c \in Conn, PeerStep(c)
    PROVE  NoneForgotten'
<1>1. /\ UNCHANGED <<connections, stack>>
      /\ \A x \in Conn : x # c => socket'[x] = socket[x]
      /\ ready \subseteq ready'
      /\ socket[c].closed => socket'[c].closed /\ socket'[c].sent = socket[c].sent
      /\ Len(socket'[c].arrived) + socket[c].sent = Len(socket[c].arrived) + socket'[c].sent
      /\ \/ Active(c) => c \in ready'
         \/ /\ socket'[c].arrived = socket[c].arrived
            /\ socket'[c].closed = socket[c].closed /\ socket'[c].broken = socket[c].broken
            /\ connections[c].writes => socket[c].room > 0
      /\ TypeInv'
  BY PeerEffect
<1>2. SameHandler /\ (Handled(c) <=> Handled(c)')
  BY <1>1 DEF SameHandler, Handled, Bottom
<1>3. ASSUME NEW x \in DOMAIN connections, x # c, connections[x].registered
      PROVE  Remembered(x)'
  BY <1>1, <1>2, <1>3, RememberedUsed, RememberedStays
<1>4. ASSUME socket[c].closed, socket[c].arrived = <<>>
      PROVE  socket'[c].closed /\ socket'[c].arrived = <<>>
  <2>1. socket'[c] \in Socket /\ MaxFrames \in Nat /\ socket[c] \in Socket
    BY <1>1, RememberedUsed, BoundsAreNumbers DEF TypeInv, ServerTypeOK
  <2>2. socket'[c].arrived \in Seq(Frame) /\ socket[c].sent \in Nat
    BY <2>1, FramesAreSequences DEF Socket
  <2> DEFINE a == socket'[c].arrived
             n == socket[c].sent
  <2>3. Len(a) + n = 0 + n
    <3>1. Len(socket[c].arrived) = 0
      BY <1>4
    <3> QED BY <1>1, <1>4, <3>1
  <2>4. a \in Seq(Frame) /\ n \in Nat
    BY <2>2
  <2> HIDE DEF a, n
  <2>5. a = <<>>
    BY <2>3, <2>4
  <2> QED BY <1>1, <1>4, <2>5 DEF a
<1>5. ASSUME c \in DOMAIN connections, connections[c].registered
      PROVE  Remembered(c)'
  <2>1. Remembered(c) /\ Active(c)
    BY <1>5, RememberedUsed DEF Active
  <2>2. CASE Handled(c)
    <3>1. InHand(c) /\ Bottom' = Bottom
      BY <1>1, <2>1, <2>2 DEF Remembered, Bottom
    <3>2. ASSUME c \in ready' PROVE InHand(c)'
      BY <1>1, <1>4, <3>1, <3>2 DEF InHand, Unread
    <3>3. ASSUME socket'[c].arrived = socket[c].arrived,
                 socket'[c].closed = socket[c].closed, socket'[c].broken = socket[c].broken,
                 connections[c].writes => socket[c].room > 0
          PROVE  InHand(c)'
      BY <1>1, <3>1, <3>3 DEF InHand, Unread
    <3>4. InHand(c)'
      BY <1>1, <2>1, <3>2, <3>3
    <3> QED BY <1>1, <1>2, <2>1, <2>2, <3>4 DEF Remembered
  <2>3. CASE ~Handled(c)
    <3>1. Awake(c)
      BY <2>1, <2>3 DEF Remembered
    <3>2. ASSUME c \in ready' PROVE Awake(c)'
      BY <1>1, <3>1, <3>2 DEF Awake
    <3>3. ASSUME socket'[c].arrived = socket[c].arrived,
                 socket'[c].closed = socket[c].closed, socket'[c].broken = socket[c].broken,
                 connections[c].writes => socket[c].room > 0
          PROVE  Awake(c)'
      <4>1. Readiness(socket'[c], connections[c].writes)
              \subseteq Readiness(socket[c], connections[c].writes)
        BY <3>3 DEF Readiness
      <4>2. connections'[c].rx = <<>>
            /\ (Readiness(socket'[c], connections'[c].writes) # {} => c \in ready')
        BY <1>1, <3>1, <4>1 DEF Awake
      <4> QED BY <4>2 DEF Awake
    <3>4. Awake(c)'
      BY <1>1, <2>1, <3>2, <3>3
    <3> QED BY <1>1, <1>2, <2>1, <2>3, <3>4 DEF Remembered
  <2> QED BY <2>2, <2>3
<1>6. \A x \in DOMAIN connections' : connections'[x].registered => Remembered(x)'
  BY <1>1, <1>3, <1>5
<1> QED BY <1>6, AllRemembered

\* No step forgets anything.
LEMMA NoneForgottenKept ==
    ASSUME ServerInv, ServerNext
    PROVE  NoneForgotten'
<1>1. SequencesTyped /\ StackShape
  BY RememberedUsed
<1>2. CASE Reap
  <2>1. /\ stack # <<>> /\ reap_queue[1].id \in Conn
        /\ Calls(Invoke("application", reap_queue[1].id))
        /\ DOMAIN connections' \subseteq DOMAIN connections
        /\ \A x \in DOMAIN connections' : connections'[x] = connections[x]
        /\ UNCHANGED <<socket, ready>>
    BY <1>2, ReapEffect
  <2>2. SameHandler
    <3> DEFINE call == Invoke("application", reap_queue[1].id)
    <3>1. call \in Call
      BY <2>1, InvokedCall
    <3> HIDE DEF call
    <3> QED BY <1>1, <2>1, <3>1, PushedHandler DEF Calls, call
  <2>3. \A x \in DOMAIN connections' : connections'[x].registered => Remembered(x)'
    BY <2>1, <2>2, RememberedUsed, RememberedStays
  <2> QED BY <2>3, AllRemembered
<1>3. CASE Stop
  <2>1. DOMAIN connections' = DOMAIN connections
        /\ \A x \in DOMAIN connections : ~connections'[x].registered
    BY <1>3, StopEffect
  <2> QED BY <2>1 DEF NoneForgotten
<1>4. CASE ReapDone \/ CallbackReturns
  <2>1. stack # <<>> /\ Top.at \notin Handling /\ stack' = Tail(stack)
    BY <1>4 DEF ReapDone, CallbackReturns, Running, Return, Handling
  <2>2. SameHandler
    BY <1>1, <2>1, PoppedHandler
  <2> QED BY <1>4, <2>2, OnlyRetired, QuietCallsTypes
<1>5. CASE Tick
  <2>1. stack = <<>> /\ stack' = <<Invoke("application", 0)>>
    BY <1>5 DEF Tick
  <2>2. (Bottom.at)' = "application"
    <3>1. Len(stack') = 1 /\ stack'[1] = Invoke("application", 0)
      BY <2>1
    <3>2. Invoke("application", 0).at = "application"
      BY DEF Invoke
    <3> QED BY <3>1, <3>2 DEF Bottom
  <2>3. SameHandler
    BY <2>1, <2>2, NoHandler DEF Handling
  <2> QED BY <1>5, <2>3, OnlyRetired, QuietCallsTypes
<1>6. ASSUME NEW c \in Conn, Disconnect(c) PROVE NoneForgotten'
  <2>1. /\ stack # <<>> /\ Top.at = "application" /\ [Top EXCEPT !.gone = c] \in Call
        /\ \/ stack' = <<Invoke("reap", 0), [Top EXCEPT !.gone = c]>> \o Tail(stack)
           \/ stack' = <<[Top EXCEPT !.gone = c]>> \o Tail(stack)
        /\ \/ UNCHANGED <<connections, ready>>
           \/ Retired(c, "disconnected by the session layer")
    BY <1>6, DisconnectTypes DEF DisconnectCalls, GoTo
  <2>2. [Top EXCEPT !.gone = c].at = "application" /\ Invoke("reap", 0) \in Call
    <3>1. Top \in Call
      BY <1>1, <2>1, TopIsCall
    <3> QED BY <2>1, <3>1, InvokedCall DEF Call
  <2> DEFINE caller == [Top EXCEPT !.gone = c]
  <2>3. SameHandler
    <3>1. /\ caller \in Call /\ caller.at = "application"
          /\ \/ stack' = <<Invoke("reap", 0), caller>> \o Tail(stack)
             \/ stack' = <<caller>> \o Tail(stack)
      BY <2>1, <2>2
    <3> HIDE DEF caller
    <3> QED BY <1>1, <2>1, <2>2, <3>1, DisconnectedHandler
  <2>4. socket' = socket
    BY <1>6 DEF Disconnect
  <2> QED BY <2>1, <2>3, <2>4, OnlyRetired DEF Reason
<1>7. CASE CallbackThrows
  <2>1. /\ stack # <<>> /\ Top.at = "application" /\ stack' = Tail(stack)
        /\ socket' = socket
        /\ UNCHANGED <<connections, ready>> \/ Retired(Top.id, "internal_error")
    BY <1>7, ThrowTypes DEF Return
  <2>2. SameHandler
    BY <1>1, <2>1, PoppedHandler DEF Handling
  <2>3. UNCHANGED <<connections, ready>> \/ \E c \in Conn, why \in Reason : Retired(c, why)
    <3>1. Retired(Top.id, "internal_error") => Top.id \in Conn
      BY RememberedUsed DEF Retired
    <3> QED BY <2>1, <3>1 DEF Reason
  <2> QED BY <2>1, <2>2, <2>3, OnlyRetired
<1> QED
  BY <1>2, <1>3, <1>4, <1>5, <1>6, <1>7, AcceptRemembers, EventRemembers, ReceiveRemembers,
     DispatchRemembers, AfterDispatchRemembers, AfterReadRemembers, SendRemembers, PeerRemembers,
     StepsAreQuiet DEF QuietSteps

----------------------------------------------------------------------------
(* The invariant, and what it says for the session layer *)

LEMMA ServerInvInit == ServerInit => ServerInv
<1> SUFFICES ASSUME ServerInit PROVE ServerInv
  OBVIOUS
<1>1. /\ listening = TRUE /\ connections = <<>> /\ next_id = 1 /\ reap_queue = <<>> /\ stack = <<>>
      /\ socket = [c \in Conn |-> NewSocket] /\ ready = {}
      /\ status = [c \in Conn |-> "new"] /\ reason = [c \in Conn |-> "none"]
      /\ heard = [c \in Conn |-> <<>>] /\ budget \in Budgets
  BY DEF ServerInit
<1>2. DOMAIN connections = {} /\ DOMAIN reap_queue = {} /\ DOMAIN stack = {}
  <2>1. DOMAIN connections = 1..Len(connections) /\ Len(connections) = 0
    BY <1>1
  <2> QED BY <1>1, <2>1
<1>3. NewSocket \in Socket /\ NewSocket.arrived = <<>> /\ NewSocket.sent = 0
  <2>1. <<>> \in Frames(MaxFrames) /\ 0 \in 0..MaxFrames
    <3>1. PICK nothing : nothing = <<>>
      OBVIOUS
    <3>2. MaxFrames \in Nat /\ nothing \in Seq(Frame) /\ Len(nothing) <= MaxFrames
      BY <3>1, BoundsAreNumbers
    <3>3. nothing \in Frames(MaxFrames) /\ 0 \in 0..MaxFrames
      BY <3>2, FramesAreSequences
    <3> QED BY <3>1, <3>3
  <2>2. SocketRoom \in 0..SocketRoom
    BY ServerConstants DEF ServerConstants
  <2> QED BY <2>1, <2>2 DEF NewSocket, Socket
<1>4. WithinBudget
  <2>1. budget \in [Bounded -> Nat]
    BY <1>1, ServerConstants DEF ServerConstants
  <2>2. \A what \in Bounded : budget[what] <= Largest(what)
    BY <1>1, LargestBounds
  <2> QED BY <1>2, <2>1, <2>2 DEF WithinBudget
<1>5. ServerTypeOK
  <2>1. next_id \in 1..(MaxConnections + 1) /\ heard \in [Conn -> Seq(1..MaxFrames)]
    BY <1>1, BoundsAreNumbers
  <2> QED BY <1>1, <1>2, <1>3, <2>1 DEF ServerTypeOK
<1>6. SequencesTyped
  BY <1>1 DEF SequencesTyped
<1>7. StackShape /\ GoneOrQueued /\ ReapQueueExact
  <2>1. StackShape /\ GoneOrQueued
    BY <1>1, <1>2 DEF StackShape, GoneOrQueued
  <2>2. QueueShape
    BY <1>2 DEF QueueShape
  <2> QED BY <2>1, <2>2, QueueShapeIsExact
<1>8. IdsInOrder
  BY <1>1, <1>2 DEF IdsInOrder
<1>9. FramesAccounted
  <2>1. \A c \in Conn : socket[c].arrived = <<>> /\ socket[c].sent = 0 /\ heard[c] = <<>>
    BY <1>1, <1>3
  <2>2. Len(<<>>) = 0 /\ 0 + 0 <= 0
    OBVIOUS
  <2>3. \A c \in Conn : Len(heard[c]) + Len(socket[c].arrived) <= socket[c].sent
    BY <2>1, <2>2
  <2> QED BY <1>2, <2>3 DEF FramesAccounted
<1>10. ClosesInOrder /\ NoneForgotten
  BY <1>1, <1>2 DEF ClosesInOrder, NoneForgotten
<1> QED BY <1>4, <1>5, <1>6, <1>7, <1>8, <1>9, <1>10 DEF ServerInv

LEMMA ServerInvStutters ==
    ASSUME ServerInv, UNCHANGED serverVars
    PROVE  ServerInv'
<1> USE DEF serverVars, portVars
<1>1. (ServerTypeOK /\ SequencesTyped /\ WithinBudget)'
  BY DEF ServerInv, ServerTypeOK, SequencesTyped, WithinBudget
<1>2. StackShape'
  BY DEF ServerInv, StackShape, Bottom, Active
<1>3. GoneOrQueued'
  BY DEF ServerInv, GoneOrQueued, Queued
<1>4. IdsInOrder'
  BY DEF ServerInv, IdsInOrder, Active
<1>5. ReapQueueExact'
  BY DEF ServerInv, ReapQueueExact, Stranded
<1>6. FramesAccounted'
  BY DEF ServerInv, FramesAccounted
<1>7. ClosesInOrder'
  BY DEF ServerInv, ClosesInOrder, Drained, Active
<1>8. NoneForgotten'
  BY DEF ServerInv, NoneForgotten, Handled, InHand, Awake, Unread, Bottom
<1> QED BY <1>1, <1>2, <1>3, <1>4, <1>5, <1>6, <1>7, <1>8 DEF ServerInv

LEMMA ServerInvStep ==
    ASSUME ServerInv, ServerNext
    PROVE  ServerInv'
<1>1. TypeInv' /\ Registry'
  BY RegistryKept
<1>2. ReapQueueExact'
  <2>1. (QueueShape <=> ReapQueueExact)'
    BY QueueShapeIsExact, PTL
  <2> QED BY <1>1, <2>1 DEF Registry
<1>3. StackShape'
  <2>1. ServerSteps \/ SessionLayerSteps \/ \E c \in Conn : PeerStep(c)
    BY DEF ServerNext, PeerSteps, PeerStep
  <2> QED BY <2>1, ShapeKeptByServer, ShapeKeptByOthers
<1>4. GoneOrQueued' /\ FramesAccounted' /\ ClosesInOrder' /\ NoneForgotten'
  BY GoneKept, FramesKept, ClosesKept, NoneForgottenKept
<1> QED BY <1>1, <1>2, <1>3, <1>4 DEF ServerInv, TypeInv, Registry

LEMMA ServerInvAlways == ServerSpec => []ServerInv
<1>1. ServerInv /\ [ServerNext]_serverVars => ServerInv'
  BY ServerInvStutters, ServerInvStep
<1> QED BY <1>1, ServerInvInit, PTL DEF ServerSpec

\* Between events nobody is left to reap, so nothing can be queued.
LEMMA InvIsConsistent == ServerInv => ServerConsistent
<1> SUFFICES ASSUME ServerInv PROVE ServerConsistent
  OBVIOUS
<1>1. ServerTypeOK /\ ReapQueueExact /\ Registry
  BY QueueShapeIsExact DEF ServerInv, Registry
<1>2. CleanBetweenEvents
  <2> SUFFICES ASSUME stack = <<>>
               PROVE  /\ reap_queue = <<>>
                      /\ DOMAIN connections \ Stranded = {c \in Conn : status[c] = "connected"}
                      /\ \A c \in DOMAIN connections : connections[c].registered = (c \notin Stranded)
    BY DEF CleanBetweenEvents
  <2>1. reap_queue = <<>>
    BY DEF ServerInv, StackShape
  <2>2. \A c \in DOMAIN connections : status[c] # "new" => connections[c].registered
    BY <1>1, <2>1 DEF Registry, QueueShape, Queued
  <2>3. \A c \in DOMAIN connections : c \in Conn /\ connections[c].registered \in BOOLEAN
    BY TypesUsed DEF ServerInv, TypeInv, Connection
  <2>4. DOMAIN connections \ Stranded = {c \in Conn : status[c] = "connected"}
    BY <1>1, <2>3 DEF Registry, IdsInOrder, Stranded
  <2>5. \A c \in DOMAIN connections : connections[c].registered = (c \notin Stranded)
    BY <1>1, <2>2, <2>3 DEF Registry, IdsInOrder, Stranded
  <2> QED BY <2>1, <2>4, <2>5
<1>3. SynchronousDisconnect
  <2>1. stack # <<>> => 1 \in DOMAIN stack
    BY TopIsCall DEF ServerInv
  <2> QED BY <2>1 DEF SynchronousDisconnect, ServerInv, GoneOrQueued, Running, Top
<1> QED BY <1>1, <1>2, <1>3 DEF ServerConsistent

\* Between events nothing is handled, so everything to do is in the ready list.
LEMMA InvForgetsNothing == ServerInv => NothingForgotten
<1> SUFFICES ASSUME ServerInv PROVE NothingForgotten
  OBVIOUS
<1>1. NoLostEdge
  <2> SUFFICES ASSUME stack = <<>>, NEW c \in DOMAIN connections, connections[c].registered
               PROVE  /\ Readiness(socket[c], connections[c].tx > 0) # {} => c \in ready
                      /\ connections[c].rx = <<>>
                      /\ connections[c].writes = (connections[c].tx > 0)
    BY DEF NoLostEdge
  <2>1. ~Handled(c) /\ Remembered(c)
    BY RememberedUsed DEF Handled
  <2> QED BY <2>1 DEF Remembered, Awake
<1>2. CloseAfterMessages
  BY DEF CloseAfterMessages, ServerInv, ClosesInOrder, Drained
<1> QED BY <1>1, <1>2 DEF NothingForgotten

\* The server keeps its connections, its reap queue and what it told the session layer in
\* agreement, however deeply callbacks, reaps and disconnects nest.
THEOREM ServerAlwaysConsistent == ServerSpec => []ServerConsistent
BY ServerInvAlways, InvIsConsistent, PTL

\* No edge of a socket is lost and no close overtakes a message: handlers read until the
\* socket would block, and what changes while they run wakes the connection again.
THEOREM NothingEverForgotten == ServerSpec => []NothingForgotten
BY ServerInvAlways, InvForgetsNothing, PTL

----------------------------------------------------------------------------
(* The port *)

LEMMA NumbersStay ==
    ASSUME NumbersInOrder, DOMAIN connections' \subseteq DOMAIN connections,
           \A x \in DOMAIN connections' : connections'[x].rx = connections[x].rx,
           heard' = heard,
           \A x \in Conn : socket'[x].arrived = socket[x].arrived /\ socket'[x].sent = socket[x].sent,
           DOMAIN connections \subseteq Conn
    PROVE  NumbersInOrder'
BY DEF NumbersInOrder

\* What is taken goes on after the ring, and what is left goes on after that.
LEMMA NumbersTaken ==
    ASSUME NEW ring \in Seq(Frame), NEW come \in Seq(Frame), NEW h \in Nat,
           NEW taken \in Nat, taken <= Len(come),
           Numbered(ring, h), Numbered(come, h + Len(ring))
    PROVE  /\ Numbered(ring \o SubSeq(come, 1, taken), h)
           /\ Numbered(SubSeq(come, taken + 1, Len(come)), (h + Len(ring)) + taken)
<1> DEFINE m == Len(ring)
           n == Len(come)
           front == SubSeq(come, 1, taken)
           left == SubSeq(come, taken + 1, n)
           rx == ring \o front
<1>1. m \in Nat /\ n \in Nat /\ taken <= n
  OBVIOUS
<1>2. front \in Seq(Frame) /\ Len(front) = taken /\ \A j \in 1..taken : front[j] = come[j]
  OBVIOUS
<1>3. DOMAIN left = 1..(n - taken) /\ \A i \in 1..(n - taken) : left[i] = come[i + taken]
  OBVIOUS
<1>4. DOMAIN ring = 1..m /\ DOMAIN come = 1..n
  OBVIOUS
<1>5. \A i \in 1..n : come[i].number = (h + m) + i
  BY <1>4 DEF Numbered
<1>6. \A i \in 1..m : ring[i].number = h + i
  BY <1>4 DEF Numbered
<1> HIDE DEF front
<1>7. /\ DOMAIN rx = 1..(m + taken)
      /\ \A i \in 1..(m + taken) : rx[i] = IF i <= m THEN ring[i] ELSE front[i - m]
  BY <1>2
<1> HIDE DEF m, n, rx, left
<1>8. Numbered(rx, h)
  <2> SUFFICES ASSUME NEW i \in 1..(m + taken)
               PROVE  rx[i].number = h + i
    BY <1>7 DEF Numbered
  <2>1. CASE i <= m
    <3>1. i \in 1..m
      BY <1>1, <2>1
    <3> QED BY <1>6, <1>7, <2>1, <3>1
  <2>2. CASE ~(i <= m)
    <3>1. i - m \in 1..taken /\ i - m \in 1..n /\ (h + m) + (i - m) = h + i
      BY <1>1, <2>2
    <3>2. rx[i] = come[i - m]
      BY <1>2, <1>7, <2>2, <3>1
    <3> QED BY <1>5, <3>1, <3>2
  <2> QED BY <2>1, <2>2
<1>9. Numbered(left, (h + m) + taken)
  <2> SUFFICES ASSUME NEW i \in 1..(n - taken)
               PROVE  left[i].number = ((h + m) + taken) + i
    BY <1>3 DEF Numbered
  <2>1. i + taken \in 1..n /\ (h + m) + (i + taken) = ((h + m) + taken) + i
    BY <1>1
  <2>2. left[i] = come[i + taken]
    BY <1>3
  <2> QED BY <1>5, <2>1, <2>2
<1> QED BY <1>8, <1>9 DEF rx, left, front, m, n

\* One more goes on where the others end.
LEMMA NumbersAppended ==
    ASSUME NEW come \in Seq(Frame), NEW h \in Nat, Numbered(come, h),
           NEW frame \in Frame, frame.number = (h + Len(come)) + 1
    PROVE  Numbered(Append(come, frame), h)
<1> DEFINE n == Len(come)
           more == Append(come, frame)
<1>1. /\ DOMAIN more = 1..(n + 1) /\ DOMAIN come = 1..n /\ n \in Nat
      /\ more[n + 1] = frame /\ \A i \in 1..n : more[i] = come[i]
  OBVIOUS
<1>2. (h + n) + 1 = h + (n + 1) /\ frame.number = (h + n) + 1
  BY <1>1
<1> HIDE DEF n, more
<1>3. ASSUME NEW i \in 1..(n + 1) PROVE more[i].number = h + i
  <2>1. i = n + 1 \/ i \in 1..n
    BY <1>1
  <2> QED BY <1>1, <1>2, <2>1 DEF Numbered
<1> QED BY <1>1, <1>3 DEF Numbered, more

\* Without the first, the next one is the first.
LEMMA NumbersDelivered ==
    ASSUME NEW ring \in Seq(Frame), ring # <<>>, NEW h \in Nat, Numbered(ring, h)
    PROVE  Numbered(Tail(ring), h + 1) /\ Head(ring).number = h + 1
<1>1. 1 \in DOMAIN ring /\ Head(ring) = ring[1]
  OBVIOUS
<1>2. ASSUME NEW i \in DOMAIN Tail(ring)
      PROVE  Tail(ring)[i].number = (h + 1) + i
  <2>1. i \in Nat /\ i + 1 \in DOMAIN ring /\ Tail(ring)[i] = ring[i + 1]
    OBVIOUS
  <2>2. ring[i + 1].number = h + (i + 1)
    BY <2>1 DEF Numbered
  <2>3. h + (i + 1) = (h + 1) + i
    BY <2>1
  <2> QED BY <2>1, <2>2, <2>3
<1> QED BY <1>1, <1>2 DEF Numbered

\* Nothing changes the order: what is read goes behind the ring, what is delivered comes from
\* its front, and what the peer sends goes behind what arrived.
LEMMA NumbersKept ==
    ASSUME ServerInv, NumbersInOrder, ServerNext
    PROVE  NumbersInOrder'
<1>1. TypeInv /\ FramesAccounted /\ Registry
  BY QueueShapeIsExact DEF ServerInv, TypeInv, Registry
<1>2. DOMAIN connections \subseteq Conn /\ heard \in [Conn -> Seq(1..MaxFrames)]
      /\ \A x \in DOMAIN connections : connections[x] \in Connection
  BY <1>1, TypesUsed
<1>3. ASSUME NEW c, NEW why, Retired(c, why), heard' = heard,
             \A x \in Conn : socket'[x].arrived = socket[x].arrived /\ socket'[x].sent = socket[x].sent
      PROVE  NumbersInOrder'
  <2>1. /\ DOMAIN connections' = DOMAIN connections
        /\ \A x \in DOMAIN connections : connections'[x].rx = connections[x].rx
    BY <1>3 DEF Retired
  <2> QED BY <1>2, <1>3, <2>1, NumbersStay
<1>4. ASSUME UNCHANGED <<connections, heard, socket>> PROVE NumbersInOrder'
  BY <1>4 DEF NumbersInOrder
<1>5. ASSUME NEW c \in Conn, OnConnectionEvent(c) PROVE NumbersInOrder'
  BY <1>4, <1>5 DEF OnConnectionEvent, portVars
<1>6. CASE ReapDone \/ Tick \/ CallbackReturns
  BY <1>4, <1>6, QuietCallsTypes
<1>7. ASSUME NEW c \in Conn, Disconnect(c) PROVE NumbersInOrder'
  BY <1>3, <1>4, <1>7, DisconnectTypes DEF Disconnect, portVars
<1>8. CASE CallbackThrows
  BY <1>3, <1>4, <1>8, ThrowTypes
<1>9. ASSUME NEW c \in Conn, Send(c) PROVE NumbersInOrder'
  <2>1. UNCHANGED <<socket, heard>>
    BY <1>9, SendEffect
  <2>2. CASE Retired(c, "io_error")
    BY <1>3, <2>1, <2>2
  <2>3. CASE /\ DOMAIN connections' = DOMAIN connections
             /\ \A x \in DOMAIN connections : x # c => connections'[x] = connections[x]
             /\ connections'[c].rx = connections[c].rx
    <3>1. \A x \in DOMAIN connections' : connections'[x].rx = connections[x].rx
      BY <2>3
    <3> QED BY <1>2, <2>1, <2>3, <3>1, NumbersStay
  <2> QED BY <1>9, <2>2, <2>3, SendEffect
<1>10. CASE AfterRead
  <2>1. /\ heard' = heard
        /\ \A x \in Conn : socket'[x].arrived = socket[x].arrived /\ socket'[x].sent = socket[x].sent
    BY <1>10, AfterReadEffect DEF portVars
  <2>2. CASE Retired(Top.id, "io_error")
    BY <1>3, <2>1, <2>2
  <2>3. CASE /\ DOMAIN connections' = DOMAIN connections
             /\ \A x \in DOMAIN connections : x # Top.id => connections'[x] = connections[x]
             /\ connections'[Top.id].rx = connections[Top.id].rx
    <3>1. \A x \in DOMAIN connections' : connections'[x].rx = connections[x].rx
      BY <2>3
    <3> QED BY <1>2, <2>1, <2>3, <3>1, NumbersStay
  <2>4. CASE UNCHANGED <<connections, socket>>
    BY <1>4, <2>1, <2>4
  <2> QED BY <1>10, <2>2, <2>3, <2>4, AfterReadEffect
<1>11. CASE AfterDispatch
  BY <1>3, <1>4, <1>11, AfterDispatchTypes DEF AfterDispatch, portVars
<1>12. CASE Receive
  <2>1. PICK c \in Conn : c = Top.id
    BY <1>12, ReceiveEffect
  <2>2. /\ c \in DOMAIN connections /\ DOMAIN connections' = DOMAIN connections
        /\ \A x \in DOMAIN connections : x # c => connections'[x] = connections[x]
        /\ \A x \in Conn : x # c => socket'[x] = socket[x]
        /\ socket'[c].sent = socket[c].sent
        /\ \E taken \in Nat :
             /\ taken <= Len(socket[c].arrived)
             /\ connections'[c].rx = connections[c].rx \o SubSeq(socket[c].arrived, 1, taken)
             /\ socket'[c].arrived = SubSeq(socket[c].arrived, taken + 1, Len(socket[c].arrived))
    BY <1>12, <2>1, ReceiveEffect
  <2>3. heard' = heard
    BY <1>12 DEF Receive, portVars
  <2> DEFINE h == Len(heard[c])
             ring == connections[c].rx
             come == socket[c].arrived
             sent == socket[c].sent
  <2>4. PICK taken \in Nat : /\ taken <= Len(come)
                             /\ connections'[c].rx = ring \o SubSeq(come, 1, taken)
                             /\ socket'[c].arrived = SubSeq(come, taken + 1, Len(come))
    BY <2>2
  <2>5. h \in Nat /\ sent \in Nat /\ ring \in Seq(Frame) /\ come \in Seq(Frame)
    <3>1. RingCapacity \in Nat /\ MaxFrames \in Nat
      BY ServerConstants, BoundsAreNumbers DEF ServerConstants
    <3>2. socket[c] \in Socket /\ connections[c] \in Connection
      BY <1>1, <2>2, TypesUsed
    <3>3. ring \in Frames(RingCapacity) /\ come \in Frames(MaxFrames)
      BY <3>2 DEF Connection, Socket
    <3>4. h \in Nat /\ sent \in Nat
      BY <1>1, FrameCounts
    <3> HIDE DEF ring, come, h, sent
    <3> QED BY <3>1, <3>3, <3>4, FramesAreSequences
  <2>6. h + Len(ring) + Len(come) = sent
    BY <1>1, <2>2 DEF FramesAccounted
  <2>7. Numbered(ring, h) /\ Numbered(come, sent - Len(come))
    BY <2>2 DEF NumbersInOrder
  <2> HIDE DEF h, ring, come, sent
  <2> DEFINE rx == ring \o SubSeq(come, 1, taken)
             left == SubSeq(come, taken + 1, Len(come))
  <2>8. /\ sent - Len(come) = h + Len(ring)
        /\ Len(left) = Len(come) - taken
        /\ sent - (Len(come) - taken) = (h + Len(ring)) + taken
    <3> DEFINE m == Len(ring)
               n == Len(come)
    <3>1. m \in Nat /\ n \in Nat /\ h + m + n = sent /\ taken <= n
      BY <2>4, <2>5, <2>6
    <3>2. Len(left) = n - taken
      BY <2>4, <2>5
    <3> HIDE DEF m, n, left
    <3>3. sent - n = h + m /\ sent - (n - taken) = (h + m) + taken
      BY <2>5, <3>1
    <3> QED BY <3>2, <3>3 DEF m, n
  <2>9. Numbered(rx, h) /\ Numbered(left, sent - Len(left))
    <3>1. Numbered(come, h + Len(ring))
      BY <2>7, <2>8
    <3>2. Numbered(rx, h) /\ Numbered(left, (h + Len(ring)) + taken)
      BY <2>4, <2>5, <2>7, <3>1, NumbersTaken
    <3> HIDE DEF left
    <3> QED BY <2>8, <3>2
  <2> HIDE DEF rx, left
  <2>10. /\ Numbered(connections'[c].rx, Len(heard'[c]))
         /\ Numbered(socket'[c].arrived, socket'[c].sent - Len(socket'[c].arrived))
    BY <2>2, <2>3, <2>4, <2>9 DEF h, sent, rx, left
  <2>11. ASSUME NEW x \in DOMAIN connections' PROVE Numbered(connections'[x].rx, Len(heard'[x]))
    <3>1. CASE x = c
      BY <2>10, <3>1
    <3>2. CASE x # c
      BY <2>2, <2>3, <2>11, <3>2 DEF NumbersInOrder
    <3> QED BY <3>1, <3>2
  <2>12. ASSUME NEW x \in Conn
         PROVE  Numbered(socket'[x].arrived, socket'[x].sent - Len(socket'[x].arrived))
    <3>1. CASE x = c
      BY <2>10, <3>1
    <3>2. CASE x # c
      BY <2>2, <3>2 DEF NumbersInOrder
    <3> QED BY <3>1, <3>2
  <2> QED BY <2>11, <2>12 DEF NumbersInOrder
<1>13. CASE DispatchFrame
  <2>1. PICK c : c = Top.id
    OBVIOUS
  <2>2. c \in DOMAIN connections /\ c \in Conn /\ socket' = socket
    BY <1>2, <1>13, <2>1 DEF DispatchFrame, Active
  <2>3. CASE ScheduleReap(c, "frame_error") /\ heard' = heard
    <3>1. Retired(c, "frame_error") \/ UNCHANGED connections
      BY <1>2, <2>2, <2>3, ScheduleReapEffect DEF Reason
    <3> QED BY <1>3, <1>4, <2>2, <2>3, <3>1
  <2>4. CASE /\ connections' = [connections EXCEPT ![c].rx = Tail(@)]
             /\ heard' = [heard EXCEPT ![c] = Append(@, Head(connections[c].rx).number)]
             /\ connections[c].rx # <<>>
    <3>1. Len(heard'[c]) = Len(heard[c]) + 1 /\ Len(heard[c]) \in Nat
          /\ \A x \in Conn : x # c => heard'[x] = heard[x]
      <4>1. heard[c] \in Seq(1..MaxFrames) /\ connections[c].rx \in Seq(Frame)
        BY <1>2, <2>2, FramesAreSequences, ServerConstants DEF Connection, ServerConstants
      <4> DEFINE first == Head(connections[c].rx)
      <4>2. first \in Frame
        <5> DEFINE ring == connections[c].rx
        <5>1. ring \in Seq(Frame) /\ ring # <<>>
          BY <2>4, <4>1
        <5> HIDE DEF ring
        <5>2. Head(ring) \in Frame
          BY <5>1
        <5> QED BY <5>2 DEF ring
      <4>3. heard'[c] = Append(heard[c], first.number) /\ \A x \in Conn : x # c => heard'[x] = heard[x]
        BY <1>2, <2>2, <2>4
      <4>4. first.number \in 1..MaxFrames
        BY <4>2 DEF Frame
      <4> HIDE DEF first
      <4> QED BY <4>1, <4>3, <4>4
    <3> DEFINE ring == connections[c].rx
               h == Len(heard[c])
    <3>2. ring \in Seq(Frame) /\ ring # <<>>
      BY <1>2, <2>2, <2>4, FramesAreSequences, ServerConstants DEF Connection, ServerConstants
    <3>3. connections'[c].rx = Tail(ring)
      BY <1>2, <2>2, <2>4 DEF Connection
    <3>4. Numbered(ring, h) /\ h \in Nat
      BY <2>2, <3>1 DEF NumbersInOrder
    <3>5. DOMAIN connections' = DOMAIN connections
          /\ \A x \in DOMAIN connections : x # c => connections'[x] = connections[x]
      BY <2>2, <2>4
    <3> HIDE DEF ring, h
    <3>6. Numbered(Tail(ring), h + 1)
      BY <3>2, <3>4, NumbersDelivered
    <3>7. Numbered(connections'[c].rx, Len(heard'[c]))
      BY <3>1, <3>3, <3>6 DEF h
    <3>8. ASSUME NEW x \in DOMAIN connections' PROVE Numbered(connections'[x].rx, Len(heard'[x]))
      <4>1. CASE x = c
        BY <3>7, <4>1
      <4>2. CASE x # c
        BY <1>2, <3>1, <3>5, <3>8, <4>2 DEF NumbersInOrder
      <4> QED BY <4>1, <4>2
    <3> QED BY <2>2, <3>8 DEF NumbersInOrder
  <2> QED BY <1>13, <2>1, <2>3, <2>4 DEF DispatchFrame
<1>14. CASE OnAccepted
  <2>1. PICK c : c = next_id
    OBVIOUS
  <2>2. /\ UNCHANGED <<socket, heard>>
        /\ \/ UNCHANGED connections
           \/ /\ DOMAIN connections' = DOMAIN connections \cup {c}
              /\ \/ connections'[c] = NewConnection
                 \/ connections'[c] = [NewConnection EXCEPT !.registered = FALSE]
              /\ \A x \in DOMAIN connections : connections'[x] = connections[x]
    BY <1>14, <2>1, AcceptEffect
  <2>3. NewConnection.rx = <<>> /\ [NewConnection EXCEPT !.registered = FALSE].rx = <<>>
    BY DEF NewConnection
  <2>4. Numbered(<<>>, Len(heard[c]))
    BY DEF Numbered
  <2>5. CASE /\ DOMAIN connections' = DOMAIN connections \cup {c}
             /\ connections'[c].rx = <<>>
             /\ \A x \in DOMAIN connections : connections'[x] = connections[x]
    BY <2>2, <2>4, <2>5 DEF NumbersInOrder
  <2> QED BY <1>4, <2>2, <2>3, <2>5
<1>15. CASE Reap
  <2>1. /\ DOMAIN connections' \subseteq DOMAIN connections
        /\ \A x \in DOMAIN connections' : connections'[x] = connections[x]
        /\ UNCHANGED <<socket, heard>>
    BY <1>15, ReapEffect
  <2> QED BY <1>2, <2>1, NumbersStay
<1>16. CASE Stop
  <2>1. /\ DOMAIN connections' = DOMAIN connections
        /\ \A x \in DOMAIN connections : connections'[x].rx = connections[x].rx
        /\ UNCHANGED <<socket, heard>>
    BY <1>16, StopEffect DEF portVars
  <2> QED BY <1>2, <2>1, NumbersStay
<1>17. ASSUME NEW c \in Conn, PeerStep(c) PROVE NumbersInOrder'
  <2>1. UNCHANGED <<connections, heard>> /\ \A x \in Conn : x # c => socket'[x] = socket[x]
    BY <1>17, PeerEffect DEF portVars
  <2>2. CASE socket'[c].arrived = socket[c].arrived /\ socket'[c].sent = socket[c].sent
    <3>1. \A x \in Conn : socket'[x].arrived = socket[x].arrived /\ socket'[x].sent = socket[x].sent
      BY <2>1, <2>2
    <3> QED BY <1>2, <2>1, <3>1, NumbersStay
  <2>3. ASSUME NEW frame \in Frame, frame.number = socket[c].sent + 1,
               socket'[c].arrived = Append(socket[c].arrived, frame),
               socket'[c].sent = socket[c].sent + 1
        PROVE  NumbersInOrder'
    <3> DEFINE come == socket[c].arrived
               sent == socket[c].sent
               n == Len(come)
               h == sent - n
    <3>1. come \in Seq(Frame) /\ sent \in Nat /\ n \in Nat
      <4>1. socket[c] \in Socket /\ MaxFrames \in Nat
        BY <1>1, TypesUsed, BoundsAreNumbers
      <4>2. come \in Frames(MaxFrames)
        BY <4>1 DEF Socket
      <4>3. come \in Seq(Frame)
        BY <4>1, <4>2, FramesAreSequences
      <4> QED BY <1>1, <4>3, FrameCounts
    <3>2. Numbered(come, h)
      BY DEF NumbersInOrder
    <3>3. /\ h \in Nat /\ frame.number = (h + n) + 1 /\ (sent + 1) - (n + 1) = h
      <4> DEFINE d == Len(heard[c])
      <4>1. d \in Nat /\ d + n <= sent /\ frame.number = sent + 1
        BY <1>1, <2>3, FrameCounts DEF FramesAccounted
      <4> HIDE DEF come, sent, n, d
      <4>2. h \in Nat /\ (h + n) + 1 = sent + 1 /\ (sent + 1) - (n + 1) = h
        BY <3>1, <4>1
      <4> QED BY <4>1, <4>2
    <3> DEFINE more == Append(come, frame)
    <3>4. Len(more) = n + 1
      BY <3>1
    <3> HIDE DEF h
    <3>5. Numbered(more, h)
      BY <3>1, <3>2, <3>3, NumbersAppended
    <3> HIDE DEF come, more
    <3>6. Numbered(socket'[c].arrived, socket'[c].sent - Len(socket'[c].arrived))
      <4>1. socket'[c].arrived = more /\ socket'[c].sent = sent + 1
        BY <2>3 DEF come, more
      <4> HIDE DEF sent, n
      <4> QED BY <3>3, <3>4, <3>5, <4>1
    <3>7. ASSUME NEW x \in Conn
          PROVE  Numbered(socket'[x].arrived, socket'[x].sent - Len(socket'[x].arrived))
      <4>1. CASE x = c
        BY <3>6, <4>1
      <4>2. CASE x # c
        BY <2>1, <4>2 DEF NumbersInOrder
      <4> QED BY <4>1, <4>2
    <3> QED BY <2>1, <3>7 DEF NumbersInOrder
  <2> QED BY <1>17, <2>2, <2>3, PeerEffect
<1> QED
  BY <1>5, <1>6, <1>7, <1>8, <1>9, <1>10, <1>11, <1>12, <1>13, <1>14, <1>15, <1>16, <1>17,
     StepsAreQuiet DEF QuietSteps

\* How many messages each peer sent, which is the port's variable sent.
Sent == [c \in Conn |-> socket[c].sent]

\* Only a peer sends.
LEMMA SentStays ==
    ASSUME ServerInv, ServerNext, \A c \in Conn : ~PeerStep(c)
    PROVE  Sent' = Sent
<1>1. socket' = socket \/ Receive \/ AfterRead
  BY StepsAreQuiet DEF QuietSteps, OnConnectionEvent, Disconnect, Send, DispatchFrame,
     AfterDispatch, ReapDone, Tick, CallbackReturns, CallbackThrows, OnAccepted, Reap, Stop
<1>2. ASSUME Receive \/ AfterRead PROVE \A x \in Conn : socket'[x].sent = socket[x].sent
  <2>1. /\ socket'[Top.id].sent = socket[Top.id].sent
        /\ \A x \in Conn : x # Top.id => socket'[x] = socket[x]
    BY <1>2, ReceiveEffect, AfterReadEffect
  <2> QED BY <2>1
<1> QED BY <1>1, <1>2 DEF Sent

\* A message is delivered from a connection the session layer knows. It is the one that follows
\* the messages delivered before, and the peer sent it.
LEMMA DispatchRefines ==
    ASSUME ServerInv, NumbersInOrder, DispatchFrame
    PROVE  UNCHANGED <<status, Sent, heard>> \/ \E c \in Conn : Port!Message(c)
<1>1. TypeInv /\ Registry /\ FramesAccounted
  BY QueueShapeIsExact DEF ServerInv, TypeInv, Registry
<1>2. PICK c : c = Top.id
  OBVIOUS
<1>3. c \in DOMAIN connections /\ connections[c].registered /\ connections[c].rx # <<>>
  BY <1>2 DEF DispatchFrame, Active
<1>4. c \in Conn /\ status[c] = "connected" /\ status' = status /\ Sent' = Sent
  BY <1>1, <1>3, StoredIdsAreIssued DEF Registry, IdsInOrder, DispatchFrame, Sent
<1>5. heard' = heard \/ heard' = [heard EXCEPT ![c] = Append(@, Head(connections[c].rx).number)]
  BY <1>2 DEF DispatchFrame
<1> DEFINE r == connections[c].rx
           h == Len(heard[c])
           m == Len(r)
           a == Len(socket[c].arrived)
           n == socket[c].sent
<1>6. r \in Seq(Frame) /\ r # <<>>
  BY <1>1, <1>3, TypesUsed, FramesAreSequences, ServerConstants DEF Connection, ServerConstants
<1>7. m \in Nat /\ m >= 1 /\ h \in Nat
  <2>1. h \in Nat
    BY <1>1, <1>4, FrameCounts
  <2> HIDE DEF r, h
  <2> QED BY <1>6, <2>1
<1>8. Head(r).number = h + 1
  <2>1. Numbered(r, h)
    BY <1>3 DEF NumbersInOrder
  <2> HIDE DEF r, h
  <2> QED BY <1>6, <1>7, <2>1, NumbersDelivered
<1>9. h < n
  <2>1. h \in Nat /\ m \in Nat /\ m >= 1 /\ a \in Nat /\ n \in Nat /\ h + m + a = n
    BY <1>1, <1>3, <1>4, <1>7, FrameCounts DEF FramesAccounted
  <2> HIDE DEF h, m, a, n
  <2> QED BY <2>1
<1>10. heard' = heard \/ heard' = [heard EXCEPT ![c] = Append(@, Len(@) + 1)]
  BY <1>5, <1>8
<1>11. Sent[c] = n
  BY <1>4 DEF Sent
<1>12. CASE heard' = [heard EXCEPT ![c] = Append(@, Len(@) + 1)]
  <2>1. Port!Message(c)
    BY <1>4, <1>9, <1>11, <1>12 DEF Port!Message, Sent
  <2> QED BY <1>4, <2>1
<1> QED BY <1>4, <1>10, <1>12

\* Ids grow, so the connection that is announced is the latest.
LEMMA AcceptRefines ==
    ASSUME ServerInv, OnAccepted
    PROVE  UNCHANGED <<status, Sent, heard>> \/ \E c \in Conn : Port!Connected(c)
<1>1. TypeInv /\ Registry
  BY QueueShapeIsExact DEF ServerInv, TypeInv, Registry
<1>2. PICK c : c = next_id
  OBVIOUS
<1>3. /\ c \in Conn /\ heard' = heard /\ Sent' = Sent
      /\ status' = status \/ status' = [status EXCEPT ![c] = "connected"]
  BY <1>2, AcceptEffect DEF Sent
<1>4. \A x \in Conn : x >= c => status[x] = "new"
  BY <1>1, <1>2 DEF Registry, IdsInOrder
<1>5. c \in Int /\ \A x \in Conn : x \in Int
  BY <1>3, BoundsAreNumbers
<1>6. status[c] = "new" /\ \A later \in Conn : later > c => status[later] = "new"
  <2>1. c >= c /\ \A later \in Conn : later > c => later >= c
    BY <1>5
  <2> QED BY <1>3, <1>4, <2>1
<1>7. CASE status' = [status EXCEPT ![c] = "connected"]
  <2>1. Port!Connected(c)
    BY <1>3, <1>6, <1>7 DEF Port!Connected, Port!Conn, Conn, Sent
  <2> QED BY <1>3, <2>1
<1> QED BY <1>3, <1>7

\* What a peer does to its socket is nothing to the port unless it sends.
LEMMA PeerRefines ==
    ASSUME ServerInv, NEW c \in Conn, PeerStep(c)
    PROVE  UNCHANGED <<status, Sent, heard>> \/ Port!Sends(c)
<1>1. /\ UNCHANGED <<status, heard>> /\ \A x \in Conn : x # c => socket'[x] = socket[x]
      /\ socket'[c].sent = socket[c].sent \/ socket'[c].sent = socket[c].sent + 1
      /\ TypeInv'
  BY PeerEffect DEF portVars
<1>2. CASE socket'[c].sent = socket[c].sent
  <2>1. \A x \in Conn : socket'[x].sent = socket[x].sent
    BY <1>1, <1>2
  <2> QED BY <1>1, <2>1 DEF Sent
<1>3. CASE socket'[c].sent = socket[c].sent + 1
  <2> DEFINE n == socket[c].sent
             nn == socket'[c].sent
  <2>1. n \in Nat /\ nn \in 0..MaxFrames /\ nn = n + 1 /\ MaxFrames \in Nat
    <3>1. socket'[c] \in Socket /\ socket[c] \in Socket
      BY <1>1, TypesUsed DEF TypeInv, ServerTypeOK, ServerInv
    <3> QED BY <1>3, <3>1, BoundsAreNumbers DEF Socket
  <2> HIDE DEF n, nn
  <2>2. n < MaxFrames
    BY <2>1
  <2>3. Sent[c] < MaxFrames
    BY <2>2 DEF Sent, n
  <2>4. Sent' = [Sent EXCEPT ![c] = @ + 1]
    BY <1>1, <1>3 DEF Sent
  <2> QED BY <1>1, <2>3, <2>4 DEF Port!Sends, Sent
<1> QED BY <1>1, <1>2, <1>3

LEMMA PortStep ==
    ASSUME ServerInv, NumbersInOrder, ServerNext
    PROVE  UNCHANGED <<status, Sent, heard>> \/ Port!PortNext
<1>1. CASE OnAccepted
  <2>1. UNCHANGED <<status, Sent, heard>> \/ \E c \in Conn : Port!Connected(c)
    BY <1>1, AcceptRefines
  <2> QED BY <2>1 DEF Port!PortNext, Port!Conn, Conn
<1>2. CASE DispatchFrame
  <2>1. UNCHANGED <<status, Sent, heard>> \/ \E c \in Conn : Port!Message(c)
    BY <1>2, DispatchRefines
  <2> QED BY <2>1 DEF Port!PortNext, Port!Conn, Conn
<1>3. CASE Reap
  <2>1. PICK c : c = reap_queue[1].id
    OBVIOUS
  <2>2. /\ c \in Conn /\ status[c] = "connected" /\ heard' = heard /\ Sent' = Sent
        /\ status' = [status EXCEPT ![c] = "ended"]
    BY <1>3, <2>1, ReapEffect DEF Sent
  <2>3. Port!Disconnected(c)
    BY <2>2 DEF Port!Disconnected, Sent
  <2> QED BY <2>2, <2>3 DEF Port!PortNext, Port!Conn, Conn
<1>4. CASE Stop
  BY <1>4 DEF Stop, portVars, Sent
<1>5. ASSUME NEW c \in Conn, PeerStep(c)
      PROVE  UNCHANGED <<status, Sent, heard>> \/ Port!PortNext
  <2>1. UNCHANGED <<status, Sent, heard>> \/ Port!Sends(c)
    BY <1>5, PeerRefines
  <2> QED BY <2>1 DEF Port!PortNext, Port!Conn, Conn
<1>6. CASE QuietSteps /\ ~DispatchFrame /\ \A c \in Conn : ~PeerStep(c)
  <2>1. status' = status
    BY <1>6, QuietSoFar DEF QuietStep
  <2>2. heard' = heard
    BY <1>6 DEF QuietSteps, OnConnectionEvent, Disconnect, Send, Receive, AfterDispatch,
                AfterRead, ReapDone, Tick, CallbackReturns, CallbackThrows, portVars
  <2>3. Sent' = Sent
    BY <1>6, SentStays
  <2> QED BY <2>1, <2>2, <2>3
<1> QED BY <1>1, <1>2, <1>3, <1>4, <1>5, <1>6, StepsAreQuiet

\* The server implements the port: connections are announced in the order of their ids, each
\* ends at most once, and between the two the messages of its peer are delivered in the order
\* they were sent, none left out, none twice (dispatch_frames and receive_into).
THEOREM PortImplemented == ServerSpec => ImplementsPort
<1>1. ServerInit => NumbersInOrder
  BY DEF ServerInit, NumbersInOrder, Numbered, NewSocket
<1>2. ServerInv /\ NumbersInOrder /\ [ServerNext]_serverVars => NumbersInOrder'
  <2>1. ASSUME NumbersInOrder, UNCHANGED serverVars PROVE NumbersInOrder'
    BY <2>1 DEF serverVars, portVars, NumbersInOrder
  <2> QED BY <2>1, NumbersKept
<1>3. ServerInit => Port!PortInit
  BY DEF ServerInit, Port!PortInit, Port!Conn, Conn, NewSocket
<1>4. ServerInv /\ NumbersInOrder /\ [ServerNext]_serverVars => [Port!PortNext]_(Port!portVars)
  <2> SUFFICES ASSUME ServerInv, NumbersInOrder, [ServerNext]_serverVars
               PROVE  UNCHANGED <<status, Sent, heard>> \/ Port!PortNext
    BY DEF Port!portVars, Sent
  <2>1. CASE UNCHANGED serverVars
    BY <2>1 DEF serverVars, portVars, Sent
  <2> QED BY <2>1, PortStep
<1> QED BY <1>1, <1>2, <1>3, <1>4, ServerInvAlways, PTL DEF ServerSpec, ImplementsPort, Port!PortSpec

----------------------------------------------------------------------------
(* The acceptor *)

\* The spare descriptor has an entry of the table, and an event comes for what is left
\* when the backlog was found empty.
AcceptorInv ==
    /\ AcceptorTypeOK
    /\ turned_away + backlog <= arrived /\ arrived \in 0..MaxArrivals
    /\ spare => free <= MaxFree
    /\ at \in {"reject", "reopen"} => ~spare /\ fd_exhausted
    \* What stays in the backlog is seen again or was reported.
    /\ StrandedOnlyAfterReport
    /\ at = "reopen" /\ drained = "empty" /\ ~edge => backlog = 0
    \* While the table of the system has room, closing the spare descriptor makes some.
    /\ undisturbed => ~system_full
    /\ at \in {"idle", "accept"} /\ undisturbed => spare
    /\ at \in {"reject", "reopen"} /\ undisturbed => free > 0
    \* A count is taken before a connection is turned away.
    /\ fd_exhausted => rejected_while_exhausted >= turned_away
    /\ at = "reject" => rejected_while_exhausted > turned_away

LEMMA AcceptorStarts == ASSUME AcceptorConstants, AcceptorInit PROVE AcceptorInv
<1>1. /\ at = "idle" /\ edge = FALSE /\ backlog = 0 /\ free = MaxFree /\ system_full = FALSE
      /\ spare = TRUE /\ fd_exhausted = FALSE /\ rejected_while_exhausted = 0
      /\ drained = "yes" /\ reported = FALSE /\ turned_away = 0 /\ arrived = 0
      /\ undisturbed = TRUE
  BY DEF AcceptorInit
<1>2. MaxArrivals \in Nat /\ MaxFree \in Nat
  BY DEF AcceptorConstants
<1>3. /\ free \in 0..(MaxFree + 1) /\ backlog \in 0..MaxArrivals /\ turned_away \in 0..MaxArrivals
      /\ arrived \in 0..MaxArrivals /\ turned_away + backlog <= arrived /\ free <= MaxFree
      /\ rejected_while_exhausted \in Nat
  BY <1>1, <1>2
<1>4. AcceptorTypeOK
  BY <1>1, <1>3 DEF AcceptorTypeOK
<1> QED BY <1>1, <1>3, <1>4 DEF AcceptorInv, StrandedOnlyAfterReport

\* Every step of the acceptor, of the process and of the system keeps the invariant.
LEMMA AcceptorStepKeeps ==
    ASSUME AcceptorConstants, AcceptorInv, [AcceptorNext]_acceptorVars
    PROVE  AcceptorInv'
<1> USE DEF AcceptorInv, AcceptorTypeOK, StrandedOnlyAfterReport, CanOpen
<1>1. MaxArrivals \in Nat /\ MaxFree \in Nat /\ arrived \in Nat
  <2>1. MaxArrivals \in Nat /\ MaxFree \in Nat
    BY DEF AcceptorConstants
  <2> QED BY <2>1
<1>2. CASE OnReady
  BY <1>1, <1>2 DEF OnReady
<1>3. CASE AcceptConnection
  <2>1. /\ at = "accept" /\ free > 0 /\ ~system_full /\ backlog > 0 /\ backlog' = backlog - 1
        /\ fd_exhausted' = FALSE /\ free' \in {free - 1, free}
        /\ UNCHANGED <<at, edge, system_full, spare, rejected_while_exhausted, drained, reported,
                       turned_away, arrived, undisturbed>>
    BY <1>3 DEF AcceptConnection
  <2>2. /\ free \in 0..(MaxFree + 1) /\ backlog \in 0..MaxArrivals /\ turned_away \in 0..MaxArrivals
        /\ turned_away + backlog <= arrived /\ (spare => free <= MaxFree)
    OBVIOUS
  <2>3. /\ free' \in 0..(MaxFree + 1) /\ backlog' \in 0..MaxArrivals
        /\ turned_away' + backlog' <= arrived' /\ (spare => free' <= MaxFree)
    BY <1>1, <2>1, <2>2
  <2> QED BY <2>1, <2>3
<1>4. CASE NothingPending
  BY <1>1, <1>4 DEF NothingPending, kernel
<1>5. CASE AcceptFails
  BY <1>1, <1>5 DEF AcceptFails, kernel
<1>6. CASE DescriptorsExhausted
  <2>1. /\ at = "accept" /\ at' = "reject" /\ fd_exhausted' = TRUE /\ spare' = FALSE
        /\ UNCHANGED <<edge, backlog, system_full, arrived, drained, reported, undisturbed>>
    BY <1>6 DEF DescriptorsExhausted, kernel
  <2>2. free' \in 0..(MaxFree + 1) /\ (undisturbed => free' > 0)
    <3>1. free' = IF spare THEN free + 1 ELSE free
      BY <1>6 DEF DescriptorsExhausted, FreeAfterClose
    <3> QED BY <1>1, <2>1, <3>1
  <2>3. /\ rejected_while_exhausted' \in Nat /\ rejected_while_exhausted' > turned_away'
        /\ turned_away' \in 0..MaxArrivals /\ turned_away' + backlog' <= arrived'
    <3>1. CASE fd_exhausted
      <4>1. /\ turned_away' = turned_away
            /\ rejected_while_exhausted' = rejected_while_exhausted + 1
        BY <1>6, <3>1 DEF DescriptorsExhausted, RejectedSoFar
      <4> QED BY <1>1, <2>1, <3>1, <4>1
    <3>2. CASE ~fd_exhausted
      <4>1. turned_away' = 0 /\ rejected_while_exhausted' = 1
        BY <1>6, <3>2 DEF DescriptorsExhausted, RejectedSoFar
      <4> QED BY <1>1, <2>1, <4>1
    <3> QED BY <3>1, <3>2
  <2>4. rejected_while_exhausted' >= turned_away'
    BY <1>1, <2>3
  <2> QED BY <2>1, <2>2, <2>3, <2>4
<1>7. CASE RejectPending
  BY <1>1, <1>7 DEF RejectPending
<1>8. CASE ReopenSpare
  <2>1. /\ at = "reopen" /\ ~spare /\ fd_exhausted
        /\ UNCHANGED <<edge, backlog, system_full, arrived, fd_exhausted,
                       rejected_while_exhausted, drained, turned_away, undisturbed>>
    BY <1>8 DEF ReopenSpare, kernel
  <2>2. CASE free > 0 /\ ~system_full
    <3>1. /\ spare' = TRUE /\ free' = free - 1
          /\ at' = (IF drained = "yes" THEN "accept" ELSE "idle")
          /\ reported' = (drained = "failed")
      BY <1>8, <2>2 DEF ReopenSpare, Reopens, AfterReject, Reports
    <3>2. free' \in 0..(MaxFree + 1) /\ free' <= MaxFree
      BY <1>1, <2>2, <3>1
    <3>3. drained \in {"yes", "empty", "failed"}
      OBVIOUS
    <3>4. CASE drained = "yes"
      <4>1. at' = "accept" /\ reported' = FALSE
        BY <3>1, <3>4
      <4> QED BY <2>1, <3>1, <3>2, <4>1
    <3>5. CASE drained = "empty"
      <4>1. at' = "idle" /\ reported' = FALSE
        BY <3>1, <3>5
      <4>2. ~edge => backlog = 0
        BY <2>1, <3>5
      <4> QED BY <2>1, <3>1, <3>2, <4>1, <4>2
    <3>6. CASE drained = "failed"
      <4>1. at' = "idle" /\ reported' = TRUE
        BY <3>1, <3>6
      <4> QED BY <2>1, <3>1, <3>2, <4>1
    <3> QED BY <3>3, <3>4, <3>5, <3>6
  <2>3. CASE ~(free > 0 /\ ~system_full)
    <3>1. at' = "idle" /\ reported' = TRUE /\ spare' = spare /\ free' = free
      BY <1>8, <2>3 DEF ReopenSpare, Reopens
    <3> QED BY <2>1, <2>3, <3>1
  <2> QED BY <2>2, <2>3
<1>9. CASE DescriptorsChange
  BY <1>1, <1>9 DEF DescriptorsChange, kernel
<1>10. CASE SystemTableChanges
  BY <1>1, <1>10 DEF SystemTableChanges
<1>11. CASE Arrive
  BY <1>1, <1>11 DEF Arrive
<1>12. CASE UNCHANGED acceptorVars
  BY <1>12 DEF acceptorVars
<1> QED BY <1>2, <1>3, <1>4, <1>5, <1>6, <1>7, <1>8, <1>9, <1>10, <1>11, <1>12
        DEF AcceptorNext, AcceptLoop

\* Whichever table is full and whatever arrives meanwhile (accept_connections and
\* reject_pending_connection): a connection is left in the backlog without an event to come
\* only if an error was reported, the spare descriptor is back whenever the loop ends while
\* only the table of the process was full, and every connection turned away is counted.
THEOREM AcceptorAlwaysConsistent ==
    ASSUME AcceptorConstants
    PROVE  AcceptorSpec => []AcceptorConsistent
<1>1. AcceptorInv => AcceptorConsistent
  BY DEF AcceptorInv, AcceptorConsistent, SpareHeld, RejectionsCounted
<1>2. AcceptorInit => AcceptorInv
  BY AcceptorStarts
<1>3. AcceptorInv /\ [AcceptorNext]_acceptorVars => AcceptorInv'
  BY AcceptorStepKeeps
<1> QED BY <1>1, <1>2, <1>3, PTL DEF AcceptorSpec
============================================================================
