--------------------------- MODULE SessionService ---------------------------
(***************************************************************************)
(* The controller's SessionService and SessionRegistry: one session per    *)
(* connection, taken through handshaking, confirming and active by the     *)
(* messages of an agent, and the index that binds a device to at most one  *)
(* connection.                                                             *)
(*                                                                         *)
(* Disconnecting is synchronous: Disconnector::disconnect calls            *)
(* on_disconnected back before it returns, so a registration that evicts   *)
(* an older connection runs through three sessions' worth of callbacks in  *)
(* one handler. Sending can break the connection in the same way.          *)
(*                                                                         *)
(* Time is relative: silence counts the units since last_seen, up to one   *)
(* more than the longest timeout.                                          *)
(***************************************************************************)
EXTENDS Integers, FiniteSets

CONSTANTS
    Device,            \* valid device ids
    MaxConnections,    \* bound on the connections accepted
    HandshakeTimeout,  \* handshake_timeout, in units of Elapse
    LivenessTimeout    \* liveness_timeout, in units of Elapse

ASSUME SessionConstants ==
    /\ MaxConnections \in Nat
    /\ HandshakeTimeout \in Nat
    /\ LivenessTimeout \in Nat

VARIABLES
    sessions,            \* sessions_: connection -> session
    device_index,        \* device_index_: device -> connection
    next_conn,           \* the id of the next connection (Server::issue_id)
    connections_closed,  \* metrics_.connections_closed_total: reason -> count
    victims,             \* a running sweep(): <<connection, reason>> to end
    commanded            \* history: device -> connection its last command went
                         \* to, until the policy service is told to forget it

sessionVars == <<sessions, device_index, next_conn, connections_closed, victims,
                 commanded>>

Conn == 1..MaxConnections

Reason == {"transport", "kicked", "handshake_expired", "liveness_expired",
           "register_rejected", "protocol", "internal_error"}

MaxSilence == 1 + IF HandshakeTimeout > LivenessTimeout
                    THEN HandshakeTimeout ELSE LivenessTimeout

\* A session; devices holds the bound device, or nothing while handshaking.
Session == [state : {"handshaking", "confirming", "active"},
            devices : {{}} \cup {{d} : d \in Device},
            silence : 0..MaxSilence]

SessionTypeOK ==
    /\ DOMAIN sessions \subseteq 1..(next_conn - 1)
    /\ sessions \in [DOMAIN sessions -> Session]
    /\ DOMAIN device_index \subseteq Device
    /\ device_index \in [DOMAIN device_index -> Conn]
    /\ next_conn \in 1..(MaxConnections + 1)
    /\ connections_closed \in [Reason -> Nat]
    /\ victims \subseteq Conn \X {"handshake_expired", "liveness_expired"}
    /\ DOMAIN commanded \subseteq Device
    /\ commanded \in [DOMAIN commanded -> Conn]

SessionInit ==
    /\ sessions = [c \in {} |-> 0]
    /\ device_index = [d \in {} |-> 0]
    /\ next_conn = 1
    /\ connections_closed = [r \in Reason |-> 0]
    /\ victims = {}
    /\ commanded = [d \in {} |-> 0]

----------------------------------------------------------------------------
(* Helpers *)

InState(c, state) == c \in DOMAIN sessions /\ sessions[c].state = state

Put(map, key, value) ==
    [x \in DOMAIN map \cup {key} |-> IF x = key THEN value ELSE map[x]]
Without(map, keys) == [x \in DOMAIN map \ keys |-> map[x]]

NewSession == [state |-> "handshaking", devices |-> {}, silence |-> 0]
BoundSession(d) == [state |-> "confirming", devices |-> {d}, silence |-> 0]

\* Slip: the device is looked up when the session is already erased.
DevicesOf_AfterErase(conns) == {}

\* The devices whose sessions end with these connections.
DevicesOf(conns) == UNION {sessions[c].devices : c \in conns}

\* Slip: only an active session occupies its device.
Occupant_ActiveOnly(d) ==
    {c \in Conn : d \in DOMAIN device_index /\ device_index[d] = c
                    /\ sessions[c].state = "active"}

\* find(device): the connection a registration of d has to evict.
Occupant(d) == IF d \in DOMAIN device_index THEN {device_index[d]} ELSE {}

\* Slip: sessions that are being confirmed are not watched.
OverdueRegistrations_Handshaking ==
    {c \in DOMAIN sessions : InState(c, "handshaking")
                               /\ sessions[c].silence > HandshakeTimeout}

\* Both stages of a registration have the handshake budget, ...
OverdueRegistrations ==
    {c \in DOMAIN sessions : ~InState(c, "active")
                               /\ sessions[c].silence > HandshakeTimeout}

\* ... active sessions the liveness budget.
OverdueActive ==
    {c \in DOMAIN sessions : InState(c, "active")
                               /\ sessions[c].silence > LivenessTimeout}

\* What the first loop of sweep collects.
Expired == (OverdueRegistrations \X {"handshake_expired"})
             \cup (OverdueActive \X {"liveness_expired"})

\* Slip: an end nested in the end of another connection is not counted.
CountAndRelease_Outer(ended) ==
    /\ connections_closed' = [r \in Reason |->
            IF \E c \in Conn : ended = {<<c, r>>}
              THEN connections_closed[r] + 1 ELSE connections_closed[r]]
    /\ commanded' = Without(commanded, DevicesOf({e[1] : e \in ended}))

\* What on_disconnected does for each <<connection, reason>> that ended, apart
\* from erasing the session: it is counted, and the policy service forgets what
\* it commanded the device (on_device_released).
CountAndRelease(ended) ==
    LET gone == {e[1] : e \in ended} IN
    /\ connections_closed' = [r \in Reason |->
            connections_closed[r] + Cardinality({e \in ended : e[2] = r})]
    /\ commanded' = Without(commanded, DevicesOf(gone))

\* Slip: only active sessions have an entry in the index.
Disconnect_ActiveIndexed(c, reason) ==
    /\ sessions' = Without(sessions, {c})
    /\ device_index' = IF InState(c, "active")
                         THEN Without(device_index, sessions[c].devices)
                         ELSE device_index
    /\ CountAndRelease({<<c, reason>>})

\* Connection c ends: its session and, if bound, its device's entry are erased.
Disconnect(c, reason) ==
    /\ sessions' = Without(sessions, {c})
    /\ device_index' = Without(device_index, sessions[c].devices)
    /\ CountAndRelease({<<c, reason>>})

Idle == victims = {}

----------------------------------------------------------------------------
(* Operations *)

OnConnected ==
    /\ next_conn \in Conn
    /\ next_conn' = next_conn + 1
    /\ sessions' = Put(sessions, next_conn, NewSession)
    /\ UNCHANGED <<device_index, connections_closed, victims, commanded>>

\* The transport ended the connection: closed by the peer, an error on the
\* socket, a malformed frame.
OnDisconnected(c) ==
    /\ c \in DOMAIN sessions
    /\ Disconnect(c, "transport")
    /\ UNCHANGED <<next_conn, victims>>

\* A message that cannot be decoded or does not belong to the session's state.
OnBadMessage(c) ==
    /\ c \in DOMAIN sessions
    /\ Disconnect(c, "protocol")
    /\ UNCHANGED <<next_conn, victims>>

\* A registration with an invalid device id. Sending the rejection may already
\* break the connection; disconnecting it then has no effect.
RejectRegistration(c, reason) ==
    /\ InState(c, "handshaking")
    /\ Disconnect(c, reason)
    /\ UNCHANGED <<next_conn, victims>>

\* handle_register_request for a valid device: the connection that occupies the
\* device is disconnected, c is bound to it and the outcome is sent. When that
\* fails, c ends as well: because its device is still occupied, because the
\* outcome cannot be encoded, or because sending broke the connection.
HandleRegisterRequest(c, d, sent) ==
    LET kicked == Occupant(d)
        freed == Without(device_index, DevicesOf(kicked))
        failure == IF d \in DOMAIN freed THEN {"register_rejected"}
                   ELSE CASE sent = "ok" -> {}
                          [] sent = "encode_fail" -> {"internal_error"}
                          [] sent = "broken" -> {"transport"}
        remaining == Without(sessions, kicked)
    IN  /\ InState(c, "handshaking")
        /\ IF failure = {}
             THEN /\ sessions' = Put(remaining, c, BoundSession(d))
                  /\ device_index' = Put(freed, d, c)
             ELSE /\ sessions' = Without(remaining, {c})
                  /\ device_index' = freed
        /\ CountAndRelease({<<k, "kicked">> : k \in kicked}
                            \cup {<<c, reason>> : reason \in failure})
        /\ UNCHANGED <<next_conn, victims>>

\* The session of c as it is after its agent was heard of.
Seen(c, state) ==
    sessions' = [sessions EXCEPT ![c].state = state, ![c].silence = 0]

HandleRegisterAck(c) ==
    /\ InState(c, "confirming")
    /\ Seen(c, "active")
    /\ UNCHANGED <<device_index, next_conn, connections_closed, victims, commanded>>

\* A heartbeat, status report, command acknowledgement or command outcome.
HandleActiveMessage(c) ==
    /\ InState(c, "active")
    /\ Seen(c, "active")
    /\ UNCHANGED <<device_index, next_conn, connections_closed, victims, commanded>>

\* CommandSender::send to a device with an active session (else it is offline).
SendCommand(d, sent) ==
    /\ d \in DOMAIN device_index /\ InState(device_index[d], "active")
    /\ \/ /\ sent = "ok"
          /\ commanded' = Put(commanded, d, device_index[d])
          /\ UNCHANGED <<sessions, device_index, connections_closed>>
       \/ /\ sent = "broken"
          /\ Disconnect(device_index[d], "transport")
    /\ UNCHANGED <<next_conn, victims>>

\* sweep, first loop.
SweepBegin ==
    /\ Expired # {}
    /\ victims' = Expired
    /\ UNCHANGED <<sessions, device_index, next_conn, connections_closed, commanded>>

\* sweep, second loop.
SweepDisconnect(c, reason) ==
    /\ <<c, reason>> \in victims
    /\ victims' = victims \ {<<c, reason>>}
    /\ Disconnect(c, reason)
    /\ UNCHANGED next_conn

\* The clock advances by one unit.
Elapse ==
    /\ \E c \in DOMAIN sessions : sessions[c].silence < MaxSilence
    /\ sessions' = [c \in DOMAIN sessions |->
            [sessions[c] EXCEPT !.silence = IF @ < MaxSilence THEN @ + 1 ELSE @]]
    /\ UNCHANGED <<device_index, next_conn, connections_closed, victims, commanded>>

SessionNext ==
    \/ Idle /\ OnConnected
    \/ \E c \in Conn : Idle /\ OnDisconnected(c)
    \/ \E c \in Conn : Idle /\ OnBadMessage(c)
    \/ \E c \in Conn, reason \in {"register_rejected", "transport"} :
         Idle /\ RejectRegistration(c, reason)
    \/ \E c \in Conn, d \in Device, sent \in {"ok", "encode_fail", "broken"} :
         Idle /\ HandleRegisterRequest(c, d, sent)
    \/ \E c \in Conn : Idle /\ HandleRegisterAck(c)
    \/ \E c \in Conn : Idle /\ HandleActiveMessage(c)
    \/ \E d \in Device, sent \in {"ok", "broken"} : Idle /\ SendCommand(d, sent)
    \/ Idle /\ SweepBegin
    \/ \E c \in Conn, reason \in Reason : SweepDisconnect(c, reason)
    \/ Idle /\ Elapse

SessionSpec == SessionInit /\ [][SessionNext]_sessionVars

\* The clock never stops, the controller sweeps on every tick, and a sweep that
\* has begun is finished. Nothing is assumed of agents.
SessionFairness ==
    /\ WF_sessionVars(Idle /\ Elapse)
    /\ WF_sessionVars(Idle /\ SweepBegin)
    /\ WF_sessionVars(\E c \in Conn, reason \in Reason : SweepDisconnect(c, reason))

SessionFairSpec == SessionSpec /\ SessionFairness

----------------------------------------------------------------------------
(* Properties *)

\* The index is the inverse of the bound sessions: a device is bound to at most
\* one connection, every bound session can be found by its device, and no entry
\* points to a connection that ended.
IndexInverse ==
    /\ \A d \in DOMAIN device_index :
         /\ device_index[d] \in DOMAIN sessions
         /\ sessions[device_index[d]].devices = {d}
    /\ \A c \in DOMAIN sessions :
         IF sessions[c].state = "handshaking" THEN sessions[c].devices = {}
         ELSE \E d \in DOMAIN device_index : device_index[d] = c

\* What the policy service believes it commanded was sent over the session the
\* device has now, however the sessions before it ended: the agent of a new
\* connection has received nothing yet.
CommandedOnThisSession ==
    \A d \in DOMAIN commanded :
        /\ d \in DOMAIN device_index
        /\ commanded[d] = device_index[d]
        /\ sessions[device_index[d]].state = "active"

\* Every connection that was accepted is either in the registry or counted as
\* closed for one reason, also when its end was nested in another handler.
EveryCloseCounted ==
    next_conn - 1 = Cardinality(DOMAIN sessions) +
        connections_closed["transport"] + connections_closed["kicked"] +
        connections_closed["handshake_expired"] +
        connections_closed["liveness_expired"] +
        connections_closed["register_rejected"] + connections_closed["protocol"] +
        connections_closed["internal_error"]

\* sweep() works on what it collected before it disconnected anything: each
\* collected connection still exists and has overrun the budget of the stage it
\* is in; ending one never ends another.
VictimsOverdue ==
    \A c \in Conn :
        /\ <<c, "handshake_expired">> \in victims =>
             /\ InState(c, "handshaking") \/ InState(c, "confirming")
             /\ sessions[c].silence > HandshakeTimeout
        /\ <<c, "liveness_expired">> \in victims =>
             InState(c, "active") /\ sessions[c].silence > LivenessTimeout

\* Sessions, index and a running sweep fit together, however deeply the ends of
\* connections are nested in other handlers.
SessionsConsistent == SessionTypeOK /\ IndexInverse /\ VictimsOverdue

\* New wins: a registration whose outcome could be sent takes the device over,
\* in whatever stage the session was that held it; the code's defensive rejection
\* of an occupied device is never reached.
NewWins ==
    [][\A c \in Conn, d \in Device :
         Idle /\ HandleRegisterRequest(c, d, "ok") =>
            /\ device_index'[d] = c
            /\ connections_closed'["register_rejected"]
                 = connections_closed["register_rejected"]]_sessionVars

\* A registration does not linger: each of its two stages ends within its
\* budget, whatever the agent sends or does not send.
StagesEnd ==
    \A c \in Conn : \A stage \in {"handshaking", "confirming"} :
        InState(c, stage) ~> ~InState(c, stage)

\* A silent agent loses its session, so its commands find it offline: an active
\* session that stays is heard of again and again.
ActiveIsHeard ==
    \A c \in Conn : []<>(InState(c, "active") => sessions[c].silence <= LivenessTimeout)

\* The sweep notices both.
SilenceEnds == StagesEnd /\ ActiveIsHeard
============================================================================
