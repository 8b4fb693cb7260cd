-------------------------- MODULE TransportServer --------------------------
(***************************************************************************)
(* The controller's transport Server: its connections, the reap queue      *)
(* through which every one of them ends, and the handlers of socket        *)
(* events, around callbacks of the session layer that may send and         *)
(* disconnect before they return.                                          *)
(*                                                                         *)
(* The call stack of the reactor thread is a variable, so that a callback  *)
(* can run in the middle of a handler and a reap in the middle of a        *)
(* callback. Each step is a stretch of code between two calls or checks    *)
(* that can see the effect of a callback.                                  *)
(*                                                                         *)
(* Sockets are edge-triggered: the kernel makes a socket ready when        *)
(* something changes, not while it lasts. Bytes are left to the framing:   *)
(* a frame is good or bad and passes the receive ring in one piece. It     *)
(* bears a number, so that the order of delivery can be told.              *)
(***************************************************************************)
EXTENDS Integers, Sequences, FiniteSetsExt

CONSTANTS
    Budgets,          \* the bounds of a behaviour, one of these
    RingCapacity,     \* frames the receive ring of a connection holds
    SocketRoom        \* frames the send buffer of a socket holds

\* What a behaviour may use up: connections accepted (next_connection_id_ is a u64),
\* frames a peer sends on each, messages the session layer sends and connections it
\* disconnects, its calls from a timer, failing system calls and throwing callbacks,
\* and calls of Reactor::add that throw (no memory for its table).
Bounded == {"connections", "frames", "sends", "disconnects", "ticks", "faults", "throws"}

\* Each bound has a largest value among the behaviours.
ASSUME ServerConstants ==
    /\ Budgets \subseteq [Bounded -> Nat] /\ Budgets # {}
    /\ \A what \in Bounded : \E most \in Budgets : \A b \in Budgets : b[what] <= most[what]
    /\ RingCapacity \in Nat \ {0} /\ SocketRoom \in Nat \ {0}

VARIABLES
    listening,     \* acceptor_.registered()
    connections,   \* connections_: id -> connection
    next_id,       \* next_connection_id_
    reap_queue,    \* reap_queue_: ids and reasons of the ends still to be reported
    stack,         \* calls in progress, the innermost first
    socket,        \* the kernel's side of each connection
    ready,         \* connections whose socket waits in the kernel's ready list
    status,        \* history: what the session layer was told of each connection
    reason,        \* history: the reason it was told for the end of each connection
    heard,         \* history: numbers of the messages delivered from each connection
    budget         \* what is left of the bounds

portVars == <<status, reason, heard>>

serverVars == <<listening, connections, next_id, reap_queue, stack, socket, ready,
                portVars, budget>>

\* The most of it that any behaviour has.
Largest(what) == Max({b[what] : b \in Budgets})
MaxConnections == Largest("connections")
MaxFrames == Largest("frames")

Conn == 1..MaxConnections

Reason == {"peer_closed", "io_error", "frame_error", "shutdown", "internal_error",
           "disconnected by the session layer"}

Event == {"readable", "writable", "error"}

\* What a peer sends: its how-manyth frame, which the session layer is given or which
\* violates the protocol.
Kind == {"good", "bad"}
Frame == [number : 1..MaxFrames, kind : Kind]

Frames(n) == UNION {[1..k -> Frame] : k \in 0..n}

\* A connection: whether its channel is registered, whether write events are
\* asked for, the messages queued for transmission and the frames received.
Connection == [registered : BOOLEAN, writes : BOOLEAN, tx : 0..Largest("sends"),
               rx : Frames(RingCapacity)]

\* The kernel's side: frames that arrived and were not read, how many the peer sent
\* in all, whether it closed or broke the connection, and the room for sending.
Socket == [arrived : Frames(MaxFrames), sent : 0..MaxFrames, closed : BOOLEAN,
           broken : BOOLEAN, room : 0..SocketRoom]

\* A call: where it is, the connection it works on, the events it handles, the
\* result of its last receive, and the connection it disconnected last.
Call == [at : {"receive", "dispatch", "after_read", "reap", "application"},
         id : {0} \cup Conn, events : SUBSET Event,
         result : {"none", "would_block", "full", "peer_closed", "error"},
         gone : {0} \cup Conn]

----------------------------------------------------------------------------

NewConnection == [registered |-> TRUE, writes |-> FALSE, tx |-> 0, rx |-> <<>>]
NewSocket == [arrived |-> <<>>, sent |-> 0, closed |-> FALSE, broken |-> FALSE,
              room |-> SocketRoom]

Invoke(at, id) ==
    [at |-> at, id |-> id, events |-> {}, result |-> "none", gone |-> 0]

Top == stack[1]
Running(at) == stack # <<>> /\ Top.at = at

\* The innermost call goes on elsewhere, calls, or returns.
GoTo(call) == stack' = <<call>> \o Tail(stack)
Calls(call) == stack' = <<call>> \o stack
Return == stack' = Tail(stack)

Spend(what) == /\ budget[what] > 0
               /\ budget' = [budget EXCEPT ![what] = @ - 1]

\* find_active.
Active(c) == c \in DOMAIN connections /\ connections[c].registered

\* The events a socket shows when it is polled.
Readiness(s, writes) ==
    {e \in Event : \/ e = "readable" /\ (s.arrived # <<>> \/ s.closed \/ s.broken)
                   \/ e = "writable" /\ writes /\ s.room > 0
                   \/ e = "error" /\ s.broken}

\* The kernel polls a socket when its channel is added or modified.
Polled(c, s, writes) == IF Readiness(s, writes) # {} THEN ready \cup {c} ELSE ready

\* schedule_reap of connection c in state conn: the channel is removed from the
\* reactor, the rest is left to the next reap.
Retire(c, conn, why) ==
    /\ connections' = [connections EXCEPT ![c] = [conn EXCEPT !.registered = FALSE]]
    /\ ready' = ready \ {c}
    /\ reap_queue' = Append(reap_queue, [id |-> c, why |-> why])

\* Slip: a connection may be queued twice.
ScheduleReap_Again(c, why) == Retire(c, connections[c], why)

\* schedule_reap: nothing happens if it was done before.
ScheduleReap(c, why) ==
    IF connections[c].registered
      THEN Retire(c, connections[c], why)
      ELSE UNCHANGED <<connections, ready, reap_queue>>

\* Slip: a drained queue leaves the write interest as it is.
WantsWrites_Sticky(conn) == conn.writes \/ conn.tx > 0

\* Write events are wanted as long as messages are queued.
WantsWrites(conn) == conn.tx > 0

\* update_interests of connection c, which is in state conn, on socket s. When the
\* reactor refuses the change the connection ends.
UpdateInterests(c, conn, s) ==
    IF conn.writes = WantsWrites(conn)
      THEN /\ connections' = [connections EXCEPT ![c] = conn]
           /\ UNCHANGED <<ready, reap_queue>>
      ELSE /\ connections' = [connections EXCEPT ![c] =
                                [conn EXCEPT !.writes = WantsWrites(conn)]]
           /\ ready' = Polled(c, s, WantsWrites(conn))
           /\ UNCHANGED reap_queue

InterestsRefused(c, conn) ==
    /\ conn.writes # WantsWrites(conn)
    /\ Retire(c, conn, "io_error")

----------------------------------------------------------------------------

ServerInit ==
    /\ listening = TRUE
    /\ connections = <<>>
    /\ next_id = 1
    /\ reap_queue = <<>>
    /\ stack = <<>>
    /\ socket = [c \in Conn |-> NewSocket]
    /\ ready = {}
    /\ status = [c \in Conn |-> "new"]
    /\ reason = [c \in Conn |-> "none"]
    /\ heard = [c \in Conn |-> <<>>]
    /\ budget \in Budgets

----------------------------------------------------------------------------
(* Handlers of the server *)

With(c, conn) == [x \in DOMAIN connections \cup {c} |->
                    IF x = c THEN conn ELSE connections[x]]
Without(c) == [x \in DOMAIN connections \ {c} |-> connections[x]]

\* issue_id: ids only grow; 64 bits do not wrap.
IssueId(c) == next_id' = c + 1

\* on_accepted: the connection is stored, its channel is added to the reactor and
\* the session layer is told. An id is consumed unless there is no memory at all.
OnAccepted ==
    LET c == next_id IN
    /\ stack = <<>> /\ listening /\ c <= budget.connections
    /\ IssueId(c)
    /\ \/ /\ connections' = With(c, NewConnection)
          /\ ready' = Polled(c, socket[c], FALSE)
          /\ status' = [status EXCEPT ![c] = "connected"]
          /\ stack' = <<Invoke("application", c), Invoke("reap", 0)>>
          /\ UNCHANGED budget
       \/ /\ Spend("faults")                    \* nothing is stored, or it is erased
          /\ UNCHANGED <<connections, ready, status, stack>>
       \/ /\ Spend("throws")                    \* Reactor::add throws
          /\ connections' = With(c, [NewConnection EXCEPT !.registered = FALSE])
          /\ UNCHANGED <<ready, status, stack>>
    /\ UNCHANGED <<listening, reap_queue, socket, reason, heard>>

\* on_connection_event, up to the call of handle_readable. A socket that has nothing
\* to show any more only leaves the ready list.
OnConnectionEvent(c) ==
    LET events == Readiness(socket[c], connections[c].writes)
        at == IF "readable" \in events THEN "receive" ELSE "after_read"
    IN  /\ stack = <<>> /\ c \in ready
        /\ ready' = ready \ {c}
        /\ stack' = IF events = {} THEN <<>>
                    ELSE <<[Invoke(at, c) EXCEPT !.events = events]>>
        /\ UNCHANGED <<listening, connections, next_id, reap_queue, socket, portVars,
                       budget>>

\* receive_into: as much as the ring has space for.
Taken(ring, s) ==
    IF Len(s.arrived) <= RingCapacity - Len(ring) THEN Len(s.arrived)
                                                  ELSE RingCapacity - Len(ring)

\* Slip: the two pieces of free space, before and behind the wrap, are filled in the
\* wrong order.
Received_Swapped(arrived, taken) == [i \in 1..taken |-> arrived[taken + 1 - i]]

\* What comes into the ring.
Received(arrived, taken) == SubSeq(arrived, 1, taken)

\* Slip: a full ring is taken for an empty socket.
ReceiveResult_FullBlocks(ring, s) ==
    IF ring = RingCapacity THEN "would_block" ELSE IF s.broken THEN "error"
    ELSE IF s.closed THEN "peer_closed" ELSE "would_block"

\* What receive_into reports once the ring holds so many frames: without space it
\* does not ask the socket.
ReceiveResult(ring, s) ==
    IF ring = RingCapacity THEN "full"
    ELSE IF s.broken THEN "error"
    ELSE IF s.closed THEN "peer_closed"
    ELSE "would_block"

\* handle_readable: receive as much as fits.
Receive ==
    LET c == Top.id
        s == socket[c]
        ring == connections[c].rx
        taken == Taken(ring, s)
    IN  /\ Running("receive")
        /\ connections' = [connections EXCEPT ![c].rx = ring \o Received(s.arrived, taken)]
        /\ socket' = [socket EXCEPT ![c].arrived = SubSeq(@, taken + 1, Len(@))]
        /\ GoTo([Top EXCEPT !.at = "dispatch",
                            !.result = ReceiveResult(Len(ring) + taken, s)])
        /\ UNCHANGED <<listening, next_id, reap_queue, ready, portVars, budget>>

\* dispatch_frames, one frame of the ring: a good one is delivered, a bad one ends
\* the connection.
DispatchFrame ==
    LET c == Top.id
        frame == Head(connections[c].rx)
    IN  /\ Running("dispatch") /\ Active(c) /\ connections[c].rx # <<>>
        /\ \/ /\ frame.kind = "good"
              /\ connections' = [connections EXCEPT ![c].rx = Tail(@)]
              /\ heard' = [heard EXCEPT ![c] = Append(@, frame.number)]
              /\ Calls(Invoke("application", c))
              /\ UNCHANGED <<reap_queue, ready>>
           \/ /\ frame.kind = "bad"
              /\ ScheduleReap(c, "frame_error")
              /\ UNCHANGED <<heard, stack>>
        /\ UNCHANGED <<listening, next_id, socket, status, reason, budget>>

\* handle_readable after dispatch_frames: the ring is empty or the connection gone.
AfterDispatch ==
    LET c == Top.id
        afterRead == [Top EXCEPT !.at = "after_read", !.result = "none"]
    IN  /\ Running("dispatch")
        /\ Active(c) => connections[c].rx = <<>>
        /\ GoTo(IF Active(c) /\ Top.result = "full"
                  THEN [afterRead EXCEPT !.at = "receive"] ELSE afterRead)
        /\ IF Active(c) /\ Top.result = "peer_closed" THEN ScheduleReap(c, "peer_closed")
           ELSE IF Active(c) /\ Top.result = "error" THEN ScheduleReap(c, "io_error")
           ELSE UNCHANGED <<connections, ready, reap_queue>>
        /\ UNCHANGED <<listening, next_id, socket, portVars, budget>>

\* transmit_from: as much of the queue as the socket takes.
Transmitted(c) ==
    IF connections[c].tx < socket[c].room THEN connections[c].tx ELSE socket[c].room

\* on_connection_event after handle_readable: transmit, then ask for the write
\* events that are still needed.
AfterRead ==
    LET c == Top.id
        n == IF "writable" \in Top.events THEN Transmitted(c) ELSE 0
        conn == [connections[c] EXCEPT !.tx = @ - n]
        s == [socket[c] EXCEPT !.room = @ - n]
        usable == Active(c) /\ "error" \notin Top.events
    IN  /\ Running("after_read")
        /\ GoTo(Invoke("reap", 0))
        /\ \/ /\ ~Active(c)
              /\ UNCHANGED <<connections, ready, reap_queue, socket, budget>>
           \/ /\ Active(c) /\ "error" \in Top.events
              /\ ScheduleReap(c, "io_error")
              /\ UNCHANGED <<socket, budget>>
           \/ /\ usable
              /\ UpdateInterests(c, conn, s)
              /\ socket' = [socket EXCEPT ![c] = s]
              /\ UNCHANGED budget
           \/ /\ usable /\ Spend("faults")
              /\ InterestsRefused(c, conn)
              /\ socket' = [socket EXCEPT ![c] = s]
           \/ /\ usable /\ "writable" \in Top.events /\ Spend("faults")  \* send fails
              /\ ScheduleReap(c, "io_error")
              /\ UNCHANGED socket
        /\ UNCHANGED <<listening, next_id, portVars>>

\* reap_scheduled, one entry: the connection is erased, then its end is reported.
Reap ==
    LET entry == Head(reap_queue) IN
    /\ Running("reap") /\ reap_queue # <<>>
    /\ reap_queue' = Tail(reap_queue)
    /\ IF entry.id \in DOMAIN connections
         THEN /\ connections' = Without(entry.id)
              /\ status' = [status EXCEPT ![entry.id] = "ended"]
              /\ reason' = [reason EXCEPT ![entry.id] = entry.why]
              /\ Calls(Invoke("application", entry.id))
         ELSE UNCHANGED <<connections, status, reason, stack>>
    /\ UNCHANGED <<listening, next_id, socket, ready, heard, budget>>

ReapDone ==
    /\ Running("reap") /\ reap_queue = <<>>
    /\ Return
    /\ UNCHANGED <<listening, connections, next_id, reap_queue, socket, ready,
                   portVars, budget>>

\* stop: the listening socket and, in the order of a hash table, every connection
\* are given up.
Stop ==
    LET doomed == {c \in DOMAIN connections : connections[c].registered} IN
    /\ stack = <<>> /\ listening
    /\ listening' = FALSE
    /\ connections' = [c \in DOMAIN connections |->
                         [connections[c] EXCEPT !.registered = FALSE]]
    /\ ready' = {}
    /\ \E order \in [1..Cardinality(doomed) -> doomed] :
         /\ \A c \in doomed : \E i \in DOMAIN order : order[i] = c
         /\ reap_queue' = reap_queue \o
                [i \in DOMAIN order |-> [id |-> order[i], why |-> "shutdown"]]
    /\ stack' = <<Invoke("reap", 0)>>
    /\ UNCHANGED <<next_id, socket, portVars, budget>>

----------------------------------------------------------------------------
(* The session layer: what its callbacks may do *)

\* A timer of the controller expires and runs code of the session layer.
Tick ==
    /\ stack = <<>>
    /\ Spend("ticks")
    /\ stack' = <<Invoke("application", 0)>>
    /\ UNCHANGED <<listening, connections, next_id, reap_queue, socket, ready, portVars>>

\* disconnect reaps before it returns.
DisconnectCalls(c) ==
    stack' = <<Invoke("reap", 0), [Top EXCEPT !.gone = c]>> \o Tail(stack)

\* Disconnector::disconnect of a connection the session layer was told of.
Disconnect(c) ==
    /\ Running("application") /\ status[c] # "new"
    /\ Spend("disconnects")
    /\ IF c \in DOMAIN connections
         THEN /\ ScheduleReap(c, "disconnected by the session layer")
              /\ DisconnectCalls(c)
         ELSE /\ GoTo([Top EXCEPT !.gone = c])
              /\ UNCHANGED <<connections, ready, reap_queue>>
    /\ UNCHANGED <<listening, next_id, socket, portVars>>

\* MessageSender::send. The message is queued, and transmitted when the socket
\* turns writable. It is dropped when the connection is not active.
Send(c) ==
    LET conn == [connections[c] EXCEPT !.tx = @ + 1] IN
    /\ Running("application") /\ Active(c)
    /\ budget.sends > 0
    /\ \/ /\ UpdateInterests(c, conn, socket[c])
          /\ budget' = [budget EXCEPT !.sends = @ - 1]
       \/ /\ budget.faults > 0
          /\ InterestsRefused(c, conn)
          /\ budget' = [budget EXCEPT !.sends = @ - 1, !.faults = @ - 1]
    /\ Calls(Invoke("reap", 0))
    /\ UNCHANGED <<listening, next_id, socket, portVars>>

CallbackReturns ==
    /\ Running("application")
    /\ Return
    /\ UNCHANGED <<listening, connections, next_id, reap_queue, socket, ready,
                   portVars, budget>>

\* A callback throws: notify_connected and notify_message end the connection if it
\* is still there, after notify_disconnected it is not.
CallbackThrows ==
    LET c == Top.id IN
    /\ Running("application") /\ c # 0
    /\ Spend("faults")
    /\ Return
    /\ IF Active(c) THEN ScheduleReap(c, "internal_error")
                    ELSE UNCHANGED <<connections, ready, reap_queue>>
    /\ UNCHANGED <<listening, next_id, socket, portVars>>

----------------------------------------------------------------------------
(* Peers and the kernel *)

\* What happens to a socket is noticed while its channel is registered.
Changes(c, s) ==
    /\ c < next_id /\ ~socket[c].broken
    /\ socket' = [socket EXCEPT ![c] = s]
    /\ UNCHANGED <<listening, connections, next_id, reap_queue, stack, portVars, budget>>

Wake(c) == ready' = IF Active(c) THEN ready \cup {c} ELSE ready

PeerSends(c, kind) ==
    LET frame == [number |-> socket[c].sent + 1, kind |-> kind] IN
    /\ socket[c].sent < budget.frames /\ ~socket[c].closed
    /\ Changes(c, [socket[c] EXCEPT !.arrived = Append(@, frame), !.sent = @ + 1])
    /\ Wake(c)

PeerCloses(c) ==
    /\ ~socket[c].closed
    /\ Changes(c, [socket[c] EXCEPT !.closed = TRUE])
    /\ Wake(c)

PeerBreaks(c) ==
    /\ Changes(c, [socket[c] EXCEPT !.broken = TRUE])
    /\ Wake(c)

\* The peer reads. Only a socket that was full becomes writable by that, and only
\* one whose write events are wanted is woken up.
PeerReads(c) ==
    /\ socket[c].room < SocketRoom
    /\ Changes(c, [socket[c] EXCEPT !.room = @ + 1])
    /\ IF socket[c].room = 0 /\ Active(c) /\ connections[c].writes
         THEN Wake(c) ELSE UNCHANGED ready

----------------------------------------------------------------------------

ServerSteps ==
    \/ OnAccepted \/ \E c \in Conn : OnConnectionEvent(c)
    \/ Receive \/ DispatchFrame \/ AfterDispatch \/ AfterRead
    \/ Reap \/ ReapDone \/ Stop

SessionLayerSteps ==
    \/ Tick
    \/ \E c \in Conn : Disconnect(c) \/ Send(c)
    \/ CallbackReturns \/ CallbackThrows

PeerSteps ==
    \E c \in Conn :
        \/ \E kind \in Kind : PeerSends(c, kind)
        \/ PeerCloses(c) \/ PeerBreaks(c) \/ PeerReads(c)

ServerNext == ServerSteps \/ SessionLayerSteps \/ PeerSteps

ServerSpec == ServerInit /\ [][ServerNext]_serverVars

\* Code that was entered runs to its end, callbacks included, and the reactor
\* delivers what is ready. A live peer reads what it is sent.
ServerFairness ==
    /\ WF_serverVars(Receive \/ DispatchFrame \/ AfterDispatch \/ AfterRead)
    /\ WF_serverVars(Reap \/ ReapDone)
    /\ WF_serverVars(CallbackReturns)
    /\ \A c \in Conn : WF_serverVars(OnConnectionEvent(c)) /\ WF_serverVars(PeerReads(c))

ServerFairSpec == ServerSpec /\ ServerFairness

----------------------------------------------------------------------------
(* Properties *)

\* Types. Behind them: ids are never reused, and connections have ids already issued.
ServerTypeOK ==
    /\ listening \in BOOLEAN
    /\ next_id \in 1..(MaxConnections + 1)
    /\ DOMAIN connections \subseteq 1..(next_id - 1)
    /\ \A c \in DOMAIN connections : connections[c] \in Connection
    /\ \A i \in DOMAIN reap_queue : reap_queue[i] \in [id : Conn, why : Reason]
    /\ \A i \in DOMAIN stack : stack[i] \in Call
    /\ socket \in [Conn -> Socket]
    /\ ready \subseteq Conn
    /\ status \in [Conn -> {"new", "connected", "ended"}]
    /\ reason \in [Conn -> Reason \cup {"none"}]
    /\ heard \in [Conn -> Seq(1..MaxFrames)]

\* Connections that were stored and never announced: Reactor::add threw.
Stranded == {c \in DOMAIN connections : status[c] = "new"}

\* A connection whose channel was removed waits in the reap queue exactly once, and
\* nothing else waits there: whatever calls are in progress, no connection is lost
\* and none ends twice.
ReapQueueExact ==
    /\ {reap_queue[i].id : i \in DOMAIN reap_queue} =
         {c \in DOMAIN connections \ Stranded : ~connections[c].registered}
    /\ \A i, j \in DOMAIN reap_queue : reap_queue[i].id = reap_queue[j].id => i = j

\* Every handler leaves the server clean: between events the reap queue is empty and
\* exactly the connections the session layer believes in are stored and registered,
\* but for one whose registration threw, which stays behind unregistered for good.
CleanBetweenEvents ==
    stack = <<>> =>
        /\ reap_queue = <<>>
        /\ DOMAIN connections \ Stranded = {c \in Conn : status[c] = "connected"}
        /\ \A c \in DOMAIN connections : connections[c].registered = (c \notin Stranded)

\* No edge is lost: whenever the reactor waits for events, a connection with
\* something to read, or with something to send and room for it, is in the ready
\* list. Nothing received lies in a ring, and write events are wanted exactly if
\* something is queued.
NoLostEdge ==
    stack = <<>> =>
        \A c \in DOMAIN connections :
            LET conn == connections[c] IN
            conn.registered =>
              /\ Readiness(socket[c], conn.tx > 0) # {} => c \in ready
              /\ conn.rx = <<>>
              /\ conn.writes = (conn.tx > 0)

\* An orderly close is reported only after everything the peer sent before it was
\* delivered, however often the ring was full in between.
CloseAfterMessages ==
    \A c \in Conn : reason[c] = "peer_closed" => Len(heard[c]) = socket[c].sent

\* Nothing that arrived is forgotten, neither by an edge nor behind a close.
NothingForgotten == NoLostEdge /\ CloseAfterMessages

\* disconnect reports the end of the connection before it returns to the session
\* layer, also when that runs inside another callback, another reap, or after the
\* connection was already given up for another reason.
SynchronousDisconnect ==
    Running("application") /\ Top.gone # 0 => status[Top.gone] = "ended"

\* Whatever callbacks do, connections, reap queue and the session layer agree.
ServerConsistent ==
    ServerTypeOK /\ ReapQueueExact /\ CleanBetweenEvents /\ SynchronousDisconnect

Port == INSTANCE ConnectionPort WITH sent <- [c \in Conn |-> socket[c].sent]

\* Towards the session layer the server implements the port: see ConnectionPort.
ImplementsPort == Port!PortSpec

\* There is something to do for a connection: messages that arrived or that wait for
\* transmission, or a peer or a server that gave it up.
Busy(c) ==
    /\ status[c] = "connected"
    /\ \/ socket[c].arrived # <<>> \/ connections[c].tx > 0
       \/ socket[c].closed \/ socket[c].broken \/ ~connections[c].registered

\* With edge-triggered events everything goes on: what arrives is read, messages that
\* are queued are transmitted, and a connection that the peer closed or broke, or the
\* server gave up, ends.
EverythingMoves == \A c \in Conn : Busy(c) ~> ~Busy(c)
============================================================================
