---------------------------- MODULE AgentSession ----------------------------
(***************************************************************************)
(* The agent: its SessionService (registration, heartbeat, status report,  *)
(* command handling with a memory of the last command) on top of its       *)
(* Connector (connection, application timers, reconnect timer), talking to *)
(* the controller's session for the present connection.                    *)
(*                                                                         *)
(* Every handler runs to completion on the agent's reactor thread, but     *)
(* sending may break the connection before it returns: queueing the first  *)
(* message asks the reactor for write events, and when that fails the      *)
(* connection is closed, the timers are cancelled and on_disconnected is   *)
(* called, all inside send(). The handler then carries on.                 *)
(*                                                                         *)
(* The controller's session (peer) handles a message when the agent        *)
(* transmits it; what it sends waits in inbox. Both end with the           *)
(* connection. Delays of timers are left open.                             *)
(***************************************************************************)
EXTENDS Naturals, Sequences

CONSTANTS
    MaxCommands,      \* bound on the commands a controller issues
    MaxRestarts,      \* bound on the restarts of the controller
    MaxFaults,        \* bound on failures, retries and lost connections
    MaxQueued,        \* bound on the messages queued by periodic timers
    SendsMayBreak     \* whether sending may break the connection

ASSUME AgentConstants ==
    /\ MaxCommands \in Nat /\ MaxRestarts \in Nat
    /\ MaxFaults \in Nat /\ MaxQueued \in Nat \ {0}
    /\ SendsMayBreak \in BOOLEAN

VARIABLES
    conn,             \* connection_.state()
    reconnect_armed,  \* reconnect_timer_ is valid
    timers,           \* app_timer_: the armed application timers
    tx,               \* messages queued on the connection
    state,            \* SessionService::state_
    last_command,     \* last_command_id_, last_command_code_ = success
    peer,             \* state of the controller's session, or "none"
    inbox,            \* what the controller sent on this connection
    epoch, issued_ids,    \* the controller's incarnation and the ids it issued
    applied,          \* history: commands (epoch and id) applied to the device
    faults,           \* number of faults so far
    intact            \* history: no send has broken a connection inside a handler

agentVars == <<conn, reconnect_armed, timers, tx, state, last_command, peer, inbox,
               epoch, issued_ids, applied, faults, intact>>

connectorVars == <<conn, reconnect_armed, timers>>
peerVars == <<peer, inbox, epoch, issued_ids>>

NoCommand == [id |-> 0, success |-> TRUE]

Message(type) == [type |-> type]
CommandAck(id) == [type |-> "command_ack", id |-> id]
CommandOutcome(id, success) ==
    [type |-> "command_outcome", id |-> id, success |-> success]
CommandRequest(id) == [type |-> "command_request", id |-> id]

Epoch == 0..MaxRestarts
CommandId == 1..MaxCommands

AgentTypeOK ==
    /\ conn \in {"idle", "connecting", "connected"}
    /\ reconnect_armed \in BOOLEAN
    /\ timers \subseteq {"register_timeout", "heartbeat", "status_report"}
    /\ conn # "connected" => tx = <<>> /\ inbox = <<>> /\ peer = "none"
    /\ state \in {"idle", "registering", "active"}
    /\ last_command \in [id : {0} \cup CommandId, success : BOOLEAN]
    /\ peer \in {"none", "handshaking", "confirming", "active"}
    /\ epoch \in Epoch /\ issued_ids \in 0..MaxCommands
    /\ applied \subseteq Epoch \X CommandId
    /\ faults \in 0..MaxFaults /\ intact \in BOOLEAN

AgentInit ==
    /\ conn = "connecting"
    /\ reconnect_armed = FALSE
    /\ timers = {}
    /\ tx = <<>>
    /\ state = "idle"
    /\ last_command = NoCommand
    /\ peer = "none" /\ inbox = <<>>
    /\ epoch = 0 /\ issued_ids = 0
    /\ applied = {}
    /\ faults = 0 /\ intact = TRUE

Fault == faults < MaxFaults /\ faults' = faults + 1 /\ UNCHANGED intact
NoFault == UNCHANGED <<faults, intact>>

\* The fault is a send that ends the connection while its handler goes on.
SendFault == faults < MaxFaults /\ faults' = faults + 1 /\ intact' = FALSE

----------------------------------------------------------------------------
(* Connector *)

\* disconnect_and_reconnect up to the callback: the socket is closed, queues and
\* buffers are dropped, the application timers cancelled, the reconnect armed.
\* Timers the interrupted handler arms afterwards are "rearmed".
Dropped(rearmed) ==
    /\ conn' = "idle"
    /\ tx' = <<>>
    /\ timers' = rearmed
    /\ reconnect_armed' = TRUE
    /\ peer' = "none" /\ inbox' = <<>>
    /\ UNCHANGED <<epoch, issued_ids>>

\* SessionService::on_disconnected.
OnDisconnected ==
    /\ state' = "idle"
    /\ last_command' = NoCommand

\* The connection ends outside of send().
Disconnect == Dropped({}) /\ OnDisconnected

\* Whether the next send can fail to arm write events: it only asks for them
\* when nothing was queued yet.
MayBreak == SendsMayBreak /\ conn = "connected" /\ tx = <<>>

\* send: messages are dropped unless connected.
Sent(messages) == tx' = IF conn = "connected" THEN tx \o messages ELSE tx

\* The reconnect timer expires: connect() starts, or fails and is scheduled again.
Connect(ok) ==
    /\ reconnect_armed
    /\ reconnect_armed' = ~ok
    /\ conn' = IF ok THEN "connecting" ELSE conn
    /\ IF ok THEN NoFault ELSE Fault
    /\ UNCHANGED <<timers, tx, state, last_command, applied, peerVars>>

\* handle_connecting, an error.
ConnectFails ==
    /\ conn = "connecting"
    /\ Fault
    /\ Disconnect
    /\ UNCHANGED applied

\* handle_connecting, success, and SessionService::on_connected: a session that is
\* not idle does not register.
OnConnected(breaks) ==
    /\ conn = "connecting"
    /\ UNCHANGED applied
    /\ \/ /\ ~breaks /\ NoFault
          /\ conn' = "connected" /\ peer' = "handshaking"
          /\ \/ /\ state = "idle"
                /\ state' = "registering"
                /\ tx' = <<Message("register_request")>>
                /\ timers' = timers \cup {"register_timeout"}
             \/ /\ state # "idle"
                /\ UNCHANGED <<state, tx, timers>>
          /\ UNCHANGED <<reconnect_armed, last_command, inbox, epoch, issued_ids>>
       \/ /\ breaks /\ SendsMayBreak /\ state = "idle"
          /\ SendFault
          /\ Dropped({"register_timeout"})
          /\ OnDisconnected

\* The connection fails or is closed by the peer, after what it sent was handled.
ConnectionLost ==
    /\ conn = "connected"
    /\ \/ inbox # <<>> /\ Head(inbox) = Message("closed") /\ NoFault
       \/ Fault
    /\ Disconnect
    /\ UNCHANGED applied

----------------------------------------------------------------------------
(* The controller's session *)

Send(message) == inbox' = Append(inbox, message)

Closes == peer' = "none" /\ Send(Message("closed"))

\* SessionService::on_message of the controller. A registration may be rejected;
\* the connection ends at once. Server::disconnect drops the queued rejection with
\* the connection, but the protocol lets it arrive and the agent is ready for it.
PeerHandles(message) ==
    CASE peer = "none" -> UNCHANGED <<peer, inbox>> /\ NoFault
      [] peer = "handshaking" /\ message.type = "register_request" ->
           \/ peer' = "confirming" /\ Send(Message("register_success")) /\ NoFault
           \/ /\ Fault
              /\ \/ Closes
                 \/ /\ peer' = "none"
                    /\ inbox' = inbox \o <<Message("register_failed"), Message("closed")>>
      [] peer = "confirming" /\ message.type = "register_ack" ->
           peer' = "active" /\ UNCHANGED inbox /\ NoFault
      [] peer = "active" /\ message.type \notin {"register_request", "register_ack"} ->
           UNCHANGED <<peer, inbox>> /\ NoFault
      [] OTHER -> Closes /\ NoFault

\* One queued message goes out. When the queue is empty, write events are switched
\* off, which can fail as well.
Transmit(breaks) ==
    /\ conn = "connected" /\ tx # <<>>
    /\ UNCHANGED applied
    /\ \/ /\ ~breaks
          /\ tx' = Tail(tx)
          /\ PeerHandles(Head(tx))
          /\ UNCHANGED <<connectorVars, state, last_command, epoch, issued_ids>>
       \/ /\ breaks /\ SendsMayBreak /\ Len(tx) = 1
          /\ Fault
          /\ Disconnect

\* The controller closes the connection: a timeout, a newer connection of the same
\* device, shutdown. An agent that does not register is bound to be timed out.
PeerCloses ==
    /\ peer # "none"
    /\ Closes
    /\ IF peer = "handshaking" /\ state # "registering" THEN NoFault ELSE Fault
    /\ UNCHANGED <<connectorVars, tx, state, last_command, epoch, issued_ids, applied>>

\* The controller restarts and issues ids from 1 again.
ControllerRestarts ==
    /\ epoch < MaxRestarts
    /\ epoch' = epoch + 1 /\ issued_ids' = 0
    /\ peer' = "none"
    /\ inbox' = IF peer = "none" THEN inbox ELSE Append(inbox, Message("closed"))
    /\ UNCHANGED <<connectorVars, tx, state, last_command, applied, faults, intact>>

\* CommandService: a new command, or the last one again.
PeerCommands(retry) ==
    /\ peer = "active"
    /\ IF retry THEN issued_ids > 0 /\ Fault ELSE issued_ids < MaxCommands /\ NoFault
    /\ issued_ids' = IF retry THEN issued_ids ELSE issued_ids + 1
    /\ Send(CommandRequest(issued_ids'))
    /\ UNCHANGED <<connectorVars, tx, state, last_command, peer, epoch, applied>>

----------------------------------------------------------------------------
(* SessionService *)

Received(type) == conn = "connected" /\ inbox # <<>> /\ Head(inbox).type = type

\* Slip: the status report goes out before the acknowledgement.
Greeting_ReportFirst == <<Message("status_report"), Message("register_ack")>>

\* send_register_ack, then enter_active: the acknowledgement and a first report.
Greeting == <<Message("register_ack"), Message("status_report")>>

\* handle_register_outcome. When sending the acknowledgement breaks the
\* connection, the session becomes active all the same.
OnRegisterOutcome(breaks) ==
    /\ state = "registering"
    /\ UNCHANGED applied
    /\ \/ /\ Received("register_failed") /\ ~breaks
          /\ NoFault
          /\ Disconnect
       \/ /\ Received("register_success") /\ ~breaks
          /\ NoFault
          /\ inbox' = Tail(inbox)
          /\ timers' = (timers \ {"register_timeout"}) \cup {"heartbeat", "status_report"}
          /\ Sent(Greeting)
          /\ state' = "active"
          /\ UNCHANGED <<conn, reconnect_armed, last_command, peer, epoch, issued_ids>>
       \/ /\ Received("register_success") /\ breaks /\ MayBreak
          /\ SendFault
          /\ Dropped({"heartbeat", "status_report"})
          /\ last_command' = NoCommand
          /\ state' = "active"

\* Slip: every command is taken for a new one.
Repeated_Never(id) == FALSE

\* The command is the one remembered.
Repeated(id) == id # 0 /\ id = last_command.id

\* handle_command: a repeated command is answered from memory, any other one is
\* applied, successfully or not, and remembered - also when sending its
\* acknowledgement broke the connection.
OnCommand(success, breaks) ==
    LET id == Head(inbox).id
        answer == IF Repeated(id) THEN last_command.success ELSE success
        remembered == [id |-> id, success |-> success]
    IN  /\ state = "active" /\ Received("command_request")
        /\ applied' = IF ~Repeated(id) /\ success
                        THEN applied \cup {<<epoch, id>>} ELSE applied
        /\ \/ /\ ~breaks /\ NoFault
              /\ inbox' = Tail(inbox)
              /\ Sent(<<CommandAck(id), CommandOutcome(id, answer)>>)
              /\ last_command' = IF Repeated(id) THEN last_command ELSE remembered
              /\ UNCHANGED <<connectorVars, state, peer, epoch, issued_ids>>
           \/ /\ breaks /\ MayBreak /\ SendFault
              /\ Dropped({})
              /\ state' = "idle"
              /\ last_command' = IF Repeated(id) THEN NoCommand ELSE remembered

\* on_timer(register_timeout): no outcome arrived in time.
OnRegisterTimeout ==
    /\ "register_timeout" \in timers
    /\ UNCHANGED applied
    /\ \/ /\ state = "registering"
          /\ Fault
          /\ Disconnect
       \/ /\ state # "registering" /\ NoFault
          /\ timers' = timers \ {"register_timeout"}
          /\ UNCHANGED <<conn, reconnect_armed, tx, state, last_command, peerVars>>

\* Slip: the timer is armed again only when the message could be queued.
OnPeriodicTimer_NotRearmed(timer, breaks) ==
    /\ timer \in timers
    /\ Len(tx) < MaxQueued
    /\ state = "active" /\ ~breaks
    /\ Sent(<<Message(timer)>>)
    /\ timers' = IF tx = <<>> THEN timers ELSE timers \ {timer}
    /\ UNCHANGED <<conn, reconnect_armed, state, last_command, peerVars, applied, faults, intact>>

\* on_timer(heartbeat) and on_timer(status_report): sent and armed again, also
\* when sending broke the connection; an idle session lets the timer lapse.
OnPeriodicTimer(timer, breaks) ==
    /\ timer \in timers
    /\ Len(tx) < MaxQueued
    /\ UNCHANGED applied
    /\ \/ /\ state = "active" /\ ~breaks /\ NoFault
          /\ Sent(<<Message(timer)>>)
          /\ UNCHANGED <<connectorVars, state, last_command, peerVars>>
       \/ /\ state = "active" /\ breaks /\ MayBreak /\ SendFault
          /\ Dropped({timer})
          /\ OnDisconnected
       \/ /\ state # "active" /\ ~breaks /\ NoFault
          /\ timers' = timers \ {timer}
          /\ UNCHANGED <<conn, reconnect_armed, tx, state, last_command, peerVars>>

----------------------------------------------------------------------------

AgentNext ==
    \/ \E ok \in BOOLEAN : Connect(ok)
    \/ ConnectFails
    \/ \E breaks \in BOOLEAN : OnConnected(breaks)
    \/ ConnectionLost
    \/ \E breaks \in BOOLEAN : Transmit(breaks)
    \/ PeerCloses
    \/ ControllerRestarts
    \/ \E retry \in BOOLEAN : PeerCommands(retry)
    \/ \E breaks \in BOOLEAN : OnRegisterOutcome(breaks)
    \/ \E success, breaks \in BOOLEAN : OnCommand(success, breaks)
    \/ OnRegisterTimeout
    \/ \E timer \in {"heartbeat", "status_report"}, breaks \in BOOLEAN :
         OnPeriodicTimer(timer, breaks)

AgentSpec == AgentInit /\ [][AgentNext]_agentVars

\* What fairness is about: timers that are armed fire, sockets that are ready are served,
\* connecting comes to an end, the controller closes connections that do not register.
ReconnectFires == \E ok \in BOOLEAN : Connect(ok)
ConnectEnds == ConnectFails \/ \E breaks \in BOOLEAN : OnConnected(breaks)
LossNoticed == ConnectionLost /\ NoFault
Transmits == \E breaks \in BOOLEAN : Transmit(breaks)
PeerGivesUp == PeerCloses /\ NoFault
HearsOutcome == \E breaks \in BOOLEAN : OnRegisterOutcome(breaks)
HearsCommand == \E success, breaks \in BOOLEAN : OnCommand(success, breaks)

----------------------------------------------------------------------------
(* Properties *)

\* The agent never gives up: whenever it has no connection and is not connecting,
\* the reconnect timer is armed - whatever failed, and in whichever handler.
ReconnectPending == conn = "idle" <=> reconnect_armed

\* Whatever the agent is waiting for is watched by a timer: a registration by its
\* timeout, an active session by its heartbeat (which the controller expects) and
\* its status report.
WaitsAreTimed ==
    /\ state = "registering" => "register_timeout" \in timers
    /\ state = "active" => {"heartbeat", "status_report"} \subseteq timers

\* The agent always waits for something that comes: an event of the connection it is
\* making or has, or a timer.
AgentConsistent == AgentTypeOK /\ ReconnectPending /\ WaitsAreTimed

\* Neither side meets a message it does not expect in its state, so no connection
\* is closed for a violation of the protocol - as long as no handler went on after
\* its send ended the connection.
ProtocolAgreed ==
    intact =>
    /\ inbox # <<>> =>
         CASE Head(inbox).type \in {"register_success", "register_failed"} ->
                state = "registering"
           [] Head(inbox).type = "command_request" -> state = "active"
           [] OTHER -> TRUE
    /\ tx # <<>> /\ peer # "none" =>
         CASE Head(tx).type = "register_request" -> peer = "handshaking"
           [] Head(tx).type = "register_ack" -> peer = "confirming"
           [] OTHER -> peer = "active"

\* What on_disconnected of session_service.cpp says of the memory of the last command,
\* that it does not outlive its session: a reported success is true of a command of
\* this controller, not of an earlier one that had the same id.
OutcomeAlwaysTruthful ==
    \A i \in 1..Len(tx) :
        tx[i].type = "command_outcome" /\ tx[i].success /\ peer = "active" =>
            <<epoch, tx[i].id>> \in applied

\* The same as long as no handler went on after its send ended the connection.
OutcomeTruthful == intact => OutcomeAlwaysTruthful

\* Until a send breaks the connection inside a handler both sides agree on the protocol,
\* and a reported success is true.
SessionsAgree == ProtocolAgreed /\ OutcomeTruthful

\* Within a session a command is applied at most once, however often it is resent.
AppliedOncePerSession ==
    [][\A success \in BOOLEAN :
         intact /\ OnCommand(success, FALSE) /\ ~Repeated(Head(inbox).id) =>
            Head(inbox).id > last_command.id]_agentVars

\* Once nothing fails any more the agent is registered and stays so.
Recovers == <>[](conn = "connected" /\ state = "active" /\ peer = "active")
============================================================================
