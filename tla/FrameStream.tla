---------------------------- MODULE FrameStream ----------------------------
(***************************************************************************)
(* One end of a connection between the kernel and the session layer: bytes *)
(* received into a ring, decoded into frames whose payloads live in pooled *)
(* buffers, and messages framed in pooled buffers, queued and transmitted. *)
(* Controller (Server, Connection) and agent (Connector, Connection) share *)
(* this code; the differences are noted at the actions.                    *)
(*                                                                         *)
(* A byte is a small number. Each half of the four byte header stands as   *)
(* one byte. That edges of the socket are not forgotten is the matter of   *)
(* TransportServer: here the kernel reports a socket as long as it is      *)
(* ready.                                                                  *)
(***************************************************************************)
EXTENDS CircularBuffer, LinearBuffer, ObjectPool, FiniteSets, SequencesExt, Functions

CONSTANTS
    Magic,          \* the first half of a header
    MaxPayload,     \* max_payload_length
    RxBufferSize,   \* the configured size of the receive buffer
    Payloads,       \* payloads the peer sends
    Strays,         \* bytes the peer may send in place of a frame, its last ones
    Messages,       \* payloads the session layer sends
    SocketRoom,     \* bytes the send buffer of the socket holds
    Budgets,        \* bounds on a behaviour, one of which it begins with: how many frames
                    \* the peer sends, messages the session layer sends, connections it
                    \* gives up, connections there are, and slots there is memory for
    MaxSlots        \* the most slots of a budget

HeaderSize == 2
MaxFrame == HeaderSize + MaxPayload      \* max_frame_size

\* fit_rx_capacity: the power of two that holds the request and the longest frame.
FitRxCapacity(requested) ==
    LET size == Max({requested, MaxFrame}) IN
    CHOOSE p \in {2^k : k \in 0..size} :
        p >= size /\ \A k \in 0..size : 2^k >= size => p <= 2^k

Byte == 0..(Magic + 1)

\* Bytes at the front of which is a whole frame.
BeginWithFrame(bytes) ==
    /\ Len(bytes) >= HeaderSize /\ bytes[1] = Magic /\ bytes[2] <= MaxPayload
    /\ Len(bytes) >= HeaderSize + bytes[2]

\* fit_rx_capacity leaves room for the longest frame, and the positions of the ring wrap
\* after more than one round.
ASSUME FrameConstants ==
    /\ MaxPayload \in Nat /\ Magic \in Nat /\ MaxPayload < Magic
    /\ RxBufferSize \in Nat /\ SocketRoom \in Nat /\ MaxSlots \in Nat
    /\ ChunkSize \in Nat \ {0} /\ BufferCapacity = MaxFrame
    /\ Capacity = FitRxCapacity(RxBufferSize) /\ Capacity \in Nat /\ Capacity >= MaxFrame
    /\ SeqModulus \in Nat /\ SeqModulus > Capacity /\ SeqModulus % Capacity = 0
    /\ \A p \in Payloads : p \in Seq(Byte) /\ Len(p) <= MaxPayload
    /\ \A m \in Messages : m \in Seq(Byte)
    /\ \A b \in Strays : b \in Seq(Byte) /\ ~BeginWithFrame(b)
    /\ \A b \in Budgets :
         /\ b \in [received : Nat, queued : Nat, disconnects : Nat, connections : Nat, slots : Nat]
         /\ b.slots <= MaxSlots

VARIABLES
    ring,       \* rx_buffer_
    pool,       \* message_pool_: its slots
    buffer,     \* message_pool_: the buffer in each slot
    tx,         \* tx_queue_: slots
    held,       \* the slot whose payload a callback holds, 0 if none runs
    at,         \* where the handler of the reactor thread is
    result,     \* what the last receive_into returned
    socket,     \* the kernel's side: bytes to read, closed by the peer, bytes unread by it
    sent,       \* history: payloads the peer sent on this connection, in frames
    stray,      \* history: the bytes it sent after them
    heard,      \* history: payloads delivered
    queued,     \* history: payloads accepted for transmission
    written,    \* history: bytes given to the kernel
    state,      \* "connected", or why the connection ended
    budget      \* what is left of the bounds

frameVars == <<ring, pool, buffer, tx, held, at, result, socket, sent, stray, heard, queued,
               written, state, budget>>

Slot == 1..MaxSlots

----------------------------------------------------------------------------
(* Frames *)

Header(length) == <<Magic, length>>

\* encode_frame prepends the header.
Framed(payload) == Header(Len(payload)) \o payload

\* Slip: the length in the header is not checked.
Decoded_AnyLength(r) ==
    IF RingSize(r) < HeaderSize THEN "incomplete"
    ELSE LET h == Peeked(r, HeaderSize) IN
         CASE h[1] # Magic -> "bad_magic"
           [] h[1] = Magic /\ RingSize(r) < HeaderSize + h[2] -> "incomplete"
           [] OTHER -> "ok"

\* decode_frame: what the bytes of the ring begin with. read_error cannot happen: the
\* size was checked, and a buffer from the pool holds the longest payload.
Decoded(r) ==
    IF RingSize(r) < HeaderSize THEN "incomplete"
    ELSE LET h == Peeked(r, HeaderSize) IN
         CASE h[1] # Magic -> "bad_magic"
           [] h[1] = Magic /\ h[2] > MaxPayload -> "too_long"
           [] h[1] = Magic /\ h[2] <= MaxPayload
                /\ RingSize(r) < HeaderSize + h[2] -> "incomplete"
           [] OTHER -> "ok"

\* decode_frame, when it is ok: the ring without the header, and then the payload.
AfterHeader(r) == Consumed(r, HeaderSize)
PayloadLength(r) == Peeked(r, HeaderSize)[2]
PayloadOf(r) == Peeked(AfterHeader(r), PayloadLength(r))
AfterFrame(r) == Consumed(AfterHeader(r), PayloadLength(r))

----------------------------------------------------------------------------

NewSocket == [arrived |-> <<>>, closed |-> FALSE, unread |-> 0]

FrameInit ==
    /\ ring = NewRing(0)
    /\ pool = EmptyPool
    /\ buffer = [s \in Slot |-> NewBuffer]
    /\ tx = <<>> /\ held = 0
    /\ at = "idle" /\ result = "none"
    /\ socket = NewSocket
    /\ sent = <<>> /\ stray = <<>> /\ heard = <<>> /\ queued = <<>> /\ written = <<>>
    /\ state = "connected"
    /\ budget \in Budgets

Spend(what) == /\ budget[what] > 0
               /\ budget' = [budget EXCEPT ![what] = @ - 1]

\* Memory for one more chunk, and whether a slot can be had.
Stocks == pool.available # <<>> \/ pool.capacity + ChunkSize <= budget.slots

\* Connection::close, by the reap of the controller or disconnect_and_reconnect of the
\* agent: the socket is closed, the ring cleared, and the queued buffers return to the
\* pool from the front of the queue.
Close(why, p, b) ==
    /\ state' = why
    /\ ring' = RingCleared(ring)
    /\ tx' = <<>>
    /\ pool' = AllReleased(p, tx)
    /\ buffer' = [s \in Slot |-> IF s \in ToSet(tx) THEN NewBuffer ELSE b[s]]
    /\ socket' = NewSocket

----------------------------------------------------------------------------
(* Events of the socket *)

Connected == state = "connected"
Readable == socket.arrived # <<>> \/ socket.closed
Room == SocketRoom - socket.unread

\* on_connection_event / handle_connected: what is readable is read first, then the
\* queue is transmitted.
OnConnectionEvent ==
    /\ at = "idle" /\ Connected
    /\ Readable \/ (tx # <<>> /\ Room > 0)
    /\ at' = IF Readable THEN "receive" ELSE "transmit"
    /\ UNCHANGED <<ring, pool, buffer, tx, held, result, socket, sent, stray, heard, queued,
                   written, state, budget>>

\* receive_into, one recv: as much as arrived and as fits before the storage ends.
Receive ==
    LET n == Min({Len(socket.arrived), ContiguousWritable(ring)}) IN
    /\ at = "receive" /\ n > 0
    /\ ring' = Committed(ring, SubSeq(socket.arrived, 1, n))
    /\ socket' = [socket EXCEPT !.arrived = SubSeq(@, n + 1, Len(@))]
    /\ UNCHANGED <<pool, buffer, tx, held, at, result, sent, stray, heard, queued, written,
                   state, budget>>

\* Slip: the end of the stream is not told from a socket without bytes.
ReceiveResult_NoEnd(r, s) == IF ContiguousWritable(r) = 0 THEN "full" ELSE "would_block"

\* What receive_into returns: a full ring comes before the end of the stream.
ReceiveResult(r, s) ==
    IF ContiguousWritable(r) = 0 THEN "full"
    ELSE IF s.closed THEN "peer_closed" ELSE "would_block"

\* receive_into returns: the ring is full, or the socket has nothing more.
ReceiveReturns ==
    /\ at = "receive"
    /\ ContiguousWritable(ring) = 0 \/ socket.arrived = <<>>
    /\ at' = "dispatch"
    /\ result' = ReceiveResult(ring, socket)
    /\ UNCHANGED <<ring, pool, buffer, tx, held, socket, sent, stray, heard, queued, written,
                   state, budget>>

\* dispatch_frames, a frame is decoded: a buffer is acquired before the ring is
\* changed, filled with the payload and handed to the session layer.
DispatchFrame ==
    LET payload == PayloadOf(ring)
        slot == Taken(pool)
    IN  /\ at = "dispatch" /\ Connected /\ Decoded(ring) = "ok" /\ Stocks
        /\ pool' = Acquired(pool)
        /\ buffer' = [buffer EXCEPT ![slot] = Appended(@, payload)]
        /\ ring' = AfterFrame(ring)
        /\ held' = slot
        /\ heard' = Append(heard, payload)
        /\ at' = "callback"
        /\ UNCHANGED <<tx, result, socket, sent, stray, queued, written, state, budget>>

\* acquire finds no memory: the exception leaves the reactor and ends the process.
DispatchThrows ==
    /\ at = "dispatch" /\ Connected /\ Decoded(ring) = "ok" /\ ~Stocks
    /\ at' = "idle"
    /\ state' = "terminated"
    /\ UNCHANGED <<ring, pool, buffer, tx, held, result, socket, sent, stray, heard, queued,
                   written, budget>>

\* dispatch_frames, bytes that are no frame end the connection.
FrameError ==
    /\ at = "dispatch" /\ Connected /\ Decoded(ring) \in {"bad_magic", "too_long"}
    /\ Close("frame_error", pool, buffer)
    /\ at' = "idle"
    /\ UNCHANGED <<held, result, sent, stray, heard, queued, written, budget>>

\* dispatch_frames has nothing more to decode, or the connection is gone.
DispatchReturns ==
    /\ at = "dispatch"
    /\ Connected => Decoded(ring) = "incomplete"
    /\ IF Connected /\ result = "peer_closed"
         THEN Close("peer_closed", pool, buffer) /\ at' = "idle"
         ELSE /\ at' = CASE ~Connected -> "idle"
                         [] Connected /\ result = "full" -> "receive"
                         [] OTHER -> "transmit"
              /\ UNCHANGED <<ring, pool, buffer, tx, socket, state>>
    /\ UNCHANGED <<held, result, sent, stray, heard, queued, written, budget>>

\* transmit_from, one send: the socket takes a part of the front buffer, which is
\* released once nothing is left of it.
Transmit ==
    LET slot == Head(tx) IN
    /\ at = "transmit" /\ tx # <<>> /\ Room > 0
    /\ \E n \in 1..Min({Len(buffer[slot].data), Room}) :
         /\ written' = written \o SubSeq(buffer[slot].data, 1, n)
         /\ socket' = [socket EXCEPT !.unread = @ + n]
         /\ IF n = Len(buffer[slot].data)
              THEN /\ tx' = Tail(tx)
                   /\ pool' = Released(pool, slot)
                   /\ buffer' = [buffer EXCEPT ![slot] = NewBuffer]
              ELSE /\ buffer' = [buffer EXCEPT ![slot] = ConsumedFront(@, n)]
                   /\ UNCHANGED <<tx, pool>>
    /\ UNCHANGED <<ring, held, at, result, sent, stray, heard, queued, state, budget>>

\* transmit_from returns: drained, or would_block.
TransmitReturns ==
    /\ at = "transmit" /\ (tx = <<>> \/ Room = 0)
    /\ at' = "idle"
    /\ UNCHANGED <<ring, pool, buffer, tx, held, result, socket, sent, stray, heard, queued,
                   written, state, budget>>

----------------------------------------------------------------------------
(* The session layer *)

\* The application runs in the callback of a message, or from a timer.
Application == at \in {"idle", "callback"} /\ state # "terminated"

\* make_message_buffer with the payload appended.
Composed(payload) == Appended(WithHeadroom(NewBuffer, HeaderSize), payload)
Encodes(payload) == Len(payload) <= TailroomSize(WithHeadroom(NewBuffer, HeaderSize))

\* make_message_buffer, an encoder and send. What does not fit is not sent, and what is
\* sent without a connection is dropped: the buffer goes back.
Send(payload) ==
    LET slot == Taken(pool) IN
    /\ Application /\ Stocks
    /\ Spend("queued")
    /\ IF Connected /\ Encodes(payload)
         THEN /\ pool' = Acquired(pool)
              /\ buffer' = [buffer EXCEPT ![slot] =
                              Prepended(Composed(payload), Header(Len(payload)))]
              /\ tx' = Append(tx, slot)
              /\ queued' = Append(queued, payload)
         ELSE /\ pool' = Released(Acquired(pool), slot)
              /\ UNCHANGED <<buffer, tx, queued>>
    /\ UNCHANGED <<ring, held, at, result, socket, sent, stray, heard, written, state>>

\* make_message_buffer finds no memory in a callback of the controller, which gives the
\* connection up: notify_message.
SendThrows ==
    /\ at = "callback" /\ ~Stocks /\ budget.queued > 0
    /\ IF Connected
         THEN Close("internal_error", Released(pool, held),
                    [buffer EXCEPT ![held] = NewBuffer])
         ELSE /\ pool' = Released(pool, held)
              /\ buffer' = [buffer EXCEPT ![held] = NewBuffer]
              /\ UNCHANGED <<ring, tx, socket, state>>
    /\ held' = 0
    /\ at' = "dispatch"
    /\ UNCHANGED <<result, sent, stray, heard, queued, written, budget>>

\* disconnect.
Disconnect ==
    /\ Application /\ Connected
    /\ Spend("disconnects")
    /\ Close("disconnected", pool, buffer)
    /\ UNCHANGED <<held, at, result, sent, stray, heard, queued, written>>

\* The callback returns and its buffer with it.
CallbackReturns ==
    /\ at = "callback"
    /\ pool' = Released(pool, held)
    /\ buffer' = [buffer EXCEPT ![held] = NewBuffer]
    /\ held' = 0
    /\ at' = "dispatch"
    /\ UNCHANGED <<ring, tx, result, socket, sent, stray, heard, queued, written, state, budget>>

\* The next connection of the same Connection object: accepted by the controller, which
\* takes it from a pool, or made by the agent's connect.
Reconnect ==
    /\ at = "idle" /\ ~Connected /\ state # "terminated"
    /\ Spend("connections")
    /\ state' = "connected"
    /\ socket' = NewSocket
    /\ sent' = <<>> /\ stray' = <<>> /\ heard' = <<>>
    /\ queued' = <<>> /\ written' = <<>>
    /\ result' = "none"
    /\ UNCHANGED <<ring, pool, buffer, tx, held, at>>

----------------------------------------------------------------------------
(* The peer *)

MaySend == Connected /\ ~socket.closed /\ stray = <<>>

PeerSends(payload) ==
    /\ MaySend
    /\ Spend("received")
    /\ sent' = Append(sent, payload)
    /\ socket' = [socket EXCEPT !.arrived = @ \o Framed(payload)]
    /\ UNCHANGED <<ring, pool, buffer, tx, held, at, result, stray, heard, queued, written, state>>

\* The last bytes of a peer: no frame, or the beginning of one.
PeerStrays(bytes) ==
    /\ MaySend
    /\ stray' = bytes
    /\ socket' = [socket EXCEPT !.arrived = @ \o bytes]
    /\ UNCHANGED <<ring, pool, buffer, tx, held, at, result, sent, heard, queued, written, state,
                   budget>>

PeerCloses ==
    /\ Connected /\ ~socket.closed
    /\ socket' = [socket EXCEPT !.closed = TRUE]
    /\ UNCHANGED <<ring, pool, buffer, tx, held, at, result, sent, stray, heard, queued, written,
                   state, budget>>

PeerReads ==
    /\ Connected /\ socket.unread > 0
    /\ socket' = [socket EXCEPT !.unread = 0]
    /\ UNCHANGED <<ring, pool, buffer, tx, held, at, result, sent, stray, heard, queued, written,
                   state, budget>>

----------------------------------------------------------------------------

FrameNext ==
    \/ OnConnectionEvent \/ Receive \/ ReceiveReturns
    \/ DispatchFrame \/ DispatchThrows \/ FrameError \/ DispatchReturns
    \/ Transmit \/ TransmitReturns
    \/ \E m \in Messages : Send(m)
    \/ SendThrows \/ Disconnect \/ CallbackReturns \/ Reconnect
    \/ \E p \in Payloads : PeerSends(p)
    \/ \E b \in Strays : PeerStrays(b)
    \/ PeerCloses \/ PeerReads

FrameSpec == FrameInit /\ [][FrameNext]_frameVars

\* The steps of a handler up to its end, for fairness.
HandlerSteps ==
    \/ Receive \/ ReceiveReturns \/ DispatchFrame \/ DispatchThrows
    \/ FrameError \/ DispatchReturns \/ Transmit \/ TransmitReturns

----------------------------------------------------------------------------
(* Properties *)

FrameTypeOK ==
    /\ ring \in Ring(Byte)
    /\ RingSize(ring) <= Capacity
    /\ pool.capacity \in 0..MaxSlots
    /\ buffer \in [Slot -> Buffer(Byte)]
    /\ held \in {0} \cup Slot
    /\ at \in {"idle", "receive", "dispatch", "callback", "transmit"}
    /\ result \in {"none", "would_block", "full", "peer_closed"}
    /\ state \in {"connected", "peer_closed", "frame_error", "disconnected",
                  "internal_error", "terminated"}

\* The pool is exact: every slot is available, queued or held by a callback, in one of
\* these ways only and once, the count agrees, and what is available was reset.
PoolExact ==
    /\ IsInjective(pool.available) /\ IsInjective(tx)
    /\ LET available == ToSet(pool.available)
           used == ToSet(tx) \cup ({held} \ {0})
       IN  /\ available \cup used = 1..pool.capacity
           /\ available \cap used = {} /\ held \notin ToSet(tx)
           /\ InUse(pool) = Cardinality(used)
           /\ \A s \in available : buffer[s] = NewBuffer

\* A ring that is full holds a frame, or bytes that end the connection: the handler never
\* receives again without having made room.
NeverStuck == at = "dispatch" /\ Connected /\ RingFull(ring) => Decoded(ring) # "incomplete"

\* Buffers and ring keep their accounts.
FramesConsistent == FrameTypeOK /\ PoolExact /\ NeverStuck

Stream(payloads) == FlattenSeq([i \in DOMAIN payloads |-> Framed(payloads[i])])

\* Wherever frames are cut by the socket and by the end of the ring, what was delivered,
\* what lies in the ring and what is still to be read are the bytes the peer sent, in
\* order; what was written and what is queued are the frames of the accepted messages.
\* Nothing of one connection is met by the next.
BytesInOrder ==
    Connected =>
        /\ Stream(heard) \o Peeked(ring, RingSize(ring)) \o socket.arrived
             = Stream(sent) \o stray
        /\ written \o FlattenSeq([i \in DOMAIN tx |-> buffer[tx[i]].data]) = Stream(queued)

\* When the end of a connection is orderly every frame before it was delivered, and an
\* incomplete one was not; a stray header ends the connection where it stands.
EndsTruthful ==
    /\ IsPrefix(heard, sent)
    /\ state = "peer_closed" => heard = sent
    /\ state = "frame_error" => heard = sent /\ stray # <<>>

\* A peer is never told something else than what was sent, nor told an end too early.
StreamsIntact == BytesInOrder /\ EndsTruthful

\* What arrives is delivered and what is accepted is written, unless the connection ends.
FramesProgress ==
    /\ (Connected /\ Len(heard) < Len(sent)) ~> (~Connected \/ heard = sent)
    /\ (Connected /\ tx # <<>>) ~> (~Connected \/ tx = <<>>)
    /\ (Connected /\ socket.closed) ~> ~Connected
=============================================================================
