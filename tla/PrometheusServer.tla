-------------------------- MODULE PrometheusServer --------------------------
(***************************************************************************)
(* The metrics endpoint: it accepts connections, reads a request, answers  *)
(* with one scrape and closes.  Everything is edge-triggered: what a       *)
(* handler leaves behind unread or unsent is only seen again if an event   *)
(* is still to come for it.                                                *)
(*                                                                         *)
(* Requests and responses are counted in units (a read of the code's       *)
(* buffer).  A request is complete with RequestLength units, if the client *)
(* is one that ends its request, or with Cap units.                        *)
(***************************************************************************)
EXTENDS Integers, FiniteSets

CONSTANTS
    Client,          \* connections
    NoClient,
    Endless,         \* clients whose request has no end
    RequestLength,   \* units of a request
    Cap,             \* request_cap
    ResponseLength,  \* units of a response
    Room,            \* units the kernel takes before the peer reads
    MaxSent,         \* bound on what a peer sends
    Faults           \* TRUE when descriptors run out and system calls are refused

ASSUME PrometheusConstants ==
    /\ NoClient \notin Client /\ Endless \subseteq Client
    /\ {RequestLength, Cap, ResponseLength, Room} \subseteq Nat \ {0}
    /\ RequestLength <= Cap /\ MaxSent \in Nat
    /\ Faults \in BOOLEAN

VARIABLES
    connections,  \* connections_, and what comes before and after
    socket,       \* the kernel: the socket of each connection
    ready,        \* the kernel: events of each connection not yet reported
    listening,    \* listen_channel_ is registered
    edge,         \* the kernel: an event of the listener not yet reported
    full,         \* the descriptor table is full
    reported,     \* history: an accept failure was logged since the last accept loop ended well
    at,           \* "wait", "accepting" or "modify"
    current,      \* the connection of at = "modify"
    refused       \* history: connections given up because epoll_ctl failed

promVars == <<connections, socket, ready, listening, edge, full, reported, at, current,
              refused>>

Connection == [state : {"absent", "backlog", "reading", "writing", "closed"},
               rx : 0..Cap, tx_pos : 0..ResponseLength,
               interests : {"none", "read", "write"}]

Socket == [in : 0..MaxSent, sent : 0..MaxSent, fin : BOOLEAN, broken : BOOLEAN,
           out : 0..Room, got : 0..ResponseLength]

Backlog == {c \in Client : connections[c].state = "backlog"}
Open == {c \in Client : connections[c].state \in {"reading", "writing"}}

\* epoll_ctl looks at the socket as it is.
Polled(s, interests) ==
    {e \in {"in", "out", "err"} :
        \/ e = "in" /\ interests = "read" /\ (s.in > 0 \/ s.fin)
        \/ e = "out" /\ interests = "write" /\ s.out < Room
        \/ e = "err" /\ s.broken}

PromInit ==
    /\ connections = [c \in Client |-> [state |-> "absent", rx |-> 0, tx_pos |-> 0,
                                        interests |-> "none"]]
    /\ socket = [c \in Client |-> [in |-> 0, sent |-> 0, fin |-> FALSE, broken |-> FALSE,
                                   out |-> 0, got |-> 0]]
    /\ ready = [c \in Client |-> {}]
    /\ listening = TRUE /\ edge = FALSE /\ full = FALSE /\ reported = FALSE
    /\ at = "wait" /\ current = NoClient /\ refused = {}

\* A connection leaves connections_ and its descriptor is closed. What the peer did not
\* read yet is lost when data of the peer is still unread.
ClosedConnection(conn) == [conn EXCEPT !.state = "closed", !.interests = "none"]
ClosedSocket(s) == IF s.in > 0 THEN [s EXCEPT !.out = 0] ELSE s

Drop(c, s) ==
    /\ connections' = [connections EXCEPT ![c] = ClosedConnection(@)]
    /\ socket' = [socket EXCEPT ![c] = ClosedSocket(s)]
    /\ ready' = [ready EXCEPT ![c] = {}]

----------------------------------------------------------------------------
(* The listener *)

OnReady ==
    /\ at = "wait" /\ listening /\ edge
    /\ at' = "accepting" /\ edge' = FALSE
    /\ UNCHANGED <<connections, socket, ready, listening, full, reported, current, refused>>

\* close, and with it stop: whatever is open or waits in the backlog is closed.
EndOfServer ==
    /\ listening' = FALSE /\ edge' = FALSE
    /\ connections' = [c \in Client |-> IF c \in Open \cup Backlog
                                        THEN ClosedConnection(connections[c]) ELSE connections[c]]
    /\ socket' = [c \in Client |-> IF c \in Open THEN ClosedSocket(socket[c]) ELSE socket[c]]
    /\ ready' = [c \in Client |-> {}]
    /\ UNCHANGED <<full, reported, current, refused>>

\* on_ready of a listener in error, or the end of the controller.
Close == at = "wait" /\ listening /\ EndOfServer /\ UNCHANGED at

\* accept_connections, one connection: added to the reactor, or dropped when that fails.
AcceptConnection(c) ==
    /\ at = "accepting" /\ c \in Backlog /\ ~full
    /\ \/ /\ connections' = [connections EXCEPT ![c].state = "reading", ![c].interests = "read"]
          /\ ready' = [ready EXCEPT ![c] = Polled(socket[c], "read")]
          /\ UNCHANGED <<socket, refused>>
       \/ Faults /\ Drop(c, socket[c]) /\ refused' = refused \cup {c}
    /\ UNCHANGED <<listening, edge, full, reported, at, current>>

\* accept_connections: the backlog is empty.
AcceptNone ==
    /\ at = "accepting" /\ Backlog = {} /\ ~full
    /\ at' = "wait" /\ reported' = FALSE
    /\ UNCHANGED <<connections, socket, ready, listening, edge, full, current, refused>>

\* The log line of an accept failure.
ReportedFailure == TRUE

\* accept_connections: no descriptor, the rest of the backlog has to wait.
AcceptFails ==
    /\ at = "accepting" /\ full
    /\ at' = "wait" /\ reported' = ReportedFailure
    /\ UNCHANGED <<connections, socket, ready, listening, edge, full, current, refused>>

\* accept_connections: the pool, the map or the reactor has no memory for the connection
\* that was accepted. Nothing catches the exception, it ends the controller.
AcceptThrows ==
    /\ Faults /\ at = "accepting" /\ Backlog # {} /\ ~full
    /\ EndOfServer /\ at' = "wait"

----------------------------------------------------------------------------
(* A connection *)

Least(a, b) == IF a < b THEN a ELSE b

\* receive: everything is read, what goes beyond the cap is thrown away.
Received(conn, s) == [conn EXCEPT !.rx = Least(Cap, @ + s.in)]
Drained(s) == [s EXCEPT !.in = 0]

\* request_complete.
RequestComplete(c, conn) == (c \notin Endless /\ conn.rx >= RequestLength) \/ conn.rx >= Cap

\* Slip: the end of the input is looked at before the request is.
GivesUp_EvenIfComplete(c, conn, s) == s.fin

\* The peer has closed before its request was complete.
GivesUp(c, conn, s) == s.fin /\ ~RequestComplete(c, conn)

\* Slip: the connection goes on waiting for input.
InterestsToWrite_Kept == "read"

\* write_interest.
InterestsToWrite == "write"

\* transmit: drained, or waiting until the peer has read.
Respond(c, conn, s) ==
    LET n == Least(ResponseLength - conn.tx_pos, Room - s.out)
        sent == [conn EXCEPT !.tx_pos = @ + n]
        filled == [s EXCEPT !.out = @ + n]
    IN  IF sent.tx_pos = ResponseLength
        THEN Drop(c, filled) /\ UNCHANGED <<at, current>>
        ELSE /\ connections' = [connections EXCEPT ![c] = sent]
             /\ socket' = [socket EXCEPT ![c] = filled]
             /\ ready' = [ready EXCEPT ![c] = {}]
             /\ at' = "modify" /\ current' = c

\* on_connection_event.
OnConnectionEvent(c) ==
    LET conn == connections[c]
        s == socket[c]
        fed == Received(conn, s)
    IN
    /\ at = "wait" /\ c \in Open /\ ready[c] # {}
    /\ \/ /\ s.broken                              \* error or hangup, or a failing call
          /\ Drop(c, s) /\ UNCHANGED <<at, current>>
       \/ /\ ~s.broken /\ conn.state = "reading" /\ "in" \in ready[c]
          /\ GivesUp(c, fed, s)
          /\ Drop(c, Drained(s)) /\ UNCHANGED <<at, current>>
       \/ /\ ~s.broken /\ conn.state = "reading" /\ "in" \in ready[c]
          /\ ~GivesUp(c, fed, s) /\ ~RequestComplete(c, fed)
          /\ connections' = [connections EXCEPT ![c] = fed]
          /\ socket' = [socket EXCEPT ![c] = Drained(s)]
          /\ ready' = [ready EXCEPT ![c] = {}]
          /\ UNCHANGED <<at, current>>
       \/ /\ ~s.broken /\ conn.state = "reading" /\ "in" \in ready[c]
          /\ ~GivesUp(c, fed, s) /\ RequestComplete(c, fed)
          /\ Respond(c, [fed EXCEPT !.state = "writing"], Drained(s))
       \/ /\ ~s.broken /\ conn.state = "writing"
          /\ Respond(c, conn, s)
    /\ UNCHANGED <<listening, edge, full, reported, refused>>

\* on_connection_event: writable events are asked for, or the connection is given up.
Modify ==
    /\ at = "modify"
    /\ \/ /\ connections' = [connections EXCEPT ![current].interests = InterestsToWrite]
          /\ ready' = [ready EXCEPT ![current] = Polled(socket[current], InterestsToWrite)]
          /\ UNCHANGED <<socket, refused>>
       \/ Faults /\ Drop(current, socket[current]) /\ refused' = refused \cup {current}
    /\ at' = "wait" /\ current' = NoClient
    /\ UNCHANGED <<listening, edge, full, reported>>

----------------------------------------------------------------------------
(* The peers and the system *)

Alive(c) == c \in Open \cup Backlog /\ ~socket[c].broken

Raise(c, e) == ready' = [ready EXCEPT ![c] = IF c \in Open THEN @ \cup e ELSE @]

Connect(c) ==
    /\ connections[c].state = "absent" /\ listening
    /\ connections' = [connections EXCEPT ![c].state = "backlog"]
    /\ edge' = TRUE
    /\ UNCHANGED <<socket, ready, listening, full, reported, at, current, refused>>

PeerSends(c) ==
    /\ Alive(c) /\ ~socket[c].fin /\ socket[c].sent < MaxSent
    /\ socket' = [socket EXCEPT ![c].in = @ + 1, ![c].sent = @ + 1]
    /\ Raise(c, IF connections[c].interests = "read" THEN {"in"} ELSE {})
    /\ UNCHANGED <<connections, listening, edge, full, reported, at, current, refused>>

PeerCloses(c) ==
    /\ Alive(c) /\ ~socket[c].fin
    /\ socket' = [socket EXCEPT ![c].fin = TRUE]
    /\ Raise(c, IF connections[c].interests = "read" THEN {"in"} ELSE {})
    /\ UNCHANGED <<connections, listening, edge, full, reported, at, current, refused>>

PeerBreaks(c) ==
    /\ Faults /\ Alive(c)
    /\ socket' = [socket EXCEPT ![c].broken = TRUE]
    /\ Raise(c, {"err"})
    /\ UNCHANGED <<connections, listening, edge, full, reported, at, current, refused>>

PeerReads(c) ==
    /\ socket[c].out > 0
    /\ socket' = [socket EXCEPT ![c].out = @ - 1, ![c].got = @ + 1]
    /\ Raise(c, IF connections[c].interests = "write" THEN {"out"} ELSE {})
    /\ UNCHANGED <<connections, listening, edge, full, reported, at, current, refused>>

DescriptorsChange ==
    /\ Faults /\ full' = ~full
    /\ UNCHANGED <<connections, socket, ready, listening, edge, reported, at, current, refused>>

ServerStep ==
    \/ OnReady \/ AcceptNone \/ AcceptFails \/ Modify
    \/ \E c \in Client : AcceptConnection(c) \/ OnConnectionEvent(c)

PromNext ==
    \/ ServerStep \/ Close \/ AcceptThrows \/ DescriptorsChange
    \/ \E c \in Client : \/ Connect(c) \/ PeerSends(c) \/ PeerCloses(c) \/ PeerBreaks(c)
                         \/ PeerReads(c)

PromSpec == PromInit /\ [][PromNext]_promVars

\* The loop serves its events, and a peer that waits for its answer reads it.
PromFairSpec ==
    /\ PromSpec
    /\ WF_promVars(OnReady) /\ WF_promVars(Modify)
    /\ WF_promVars(AcceptNone \/ AcceptFails \/ \E c \in Client : AcceptConnection(c))
    /\ \A c \in Client : WF_promVars(OnConnectionEvent(c)) /\ WF_promVars(PeerReads(c))

----------------------------------------------------------------------------
(* Properties *)

PromTypeOK ==
    /\ connections \in [Client -> Connection] /\ socket \in [Client -> Socket]
    /\ ready \in [Client -> SUBSET {"in", "out", "err"}]
    /\ {listening, edge, full, reported} \subseteq BOOLEAN
    /\ at \in {"wait", "accepting", "modify"}
    /\ refused \subseteq Client
    /\ current \in Client \cup {NoClient} /\ (at = "modify" <=> current # NoClient)

\* A connection for which no event is to come waits for its peer: it has read everything
\* and the request is not complete, or it has filled the socket. Room that appears between
\* the failed send and the change of interests is not missed.
NoLostScrape ==
    \A c \in Open :
        (ready[c] = {} /\ current # c) =>
            /\ ~socket[c].broken
            /\ connections[c].state = "reading" =>
                  socket[c].in = 0 /\ ~socket[c].fin /\ ~RequestComplete(c, connections[c])
            /\ connections[c].state = "writing" => socket[c].out = Room

\* The endpoint sheds no load. A connection left in the backlog without an event to come
\* is accepted with the next one that arrives, and the log says why it waits.
BacklogReported == (listening /\ at = "wait" /\ Backlog # {} /\ ~edge) => reported

\* No connection is left without an event to come that it is waiting for.
PromConsistent == PromTypeOK /\ NoLostScrape /\ BacklogReported

\* A client that sends its request, and no more than that, reads the whole response,
\* unless the connection breaks, epoll refuses it or the endpoint is closed.
ScrapeAnswered ==
    \A c \in Client :
        (socket[c].sent = RequestLength /\ connections[c].state = "reading")
            ~> \/ socket[c].got = ResponseLength
               \/ socket[c].sent > RequestLength \/ c \in Endless
               \/ socket[c].broken \/ c \in refused \/ ~listening

\* A peer that closes before its request is complete, and one that sends more than the
\* cap, is not kept.
AbandonedEnd ==
    \A c \in Client :
        (c \in Open /\ (socket[c].fin \/ socket[c].sent >= Cap)) ~> (c \notin Open)

\* Every connection ends, with an answer if it deserves one.
ScrapesEnd == ScrapeAnswered /\ AbandonedEnd
=============================================================================
