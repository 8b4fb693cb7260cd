--------------------------- MODULE ConnectionPort ---------------------------
(***************************************************************************)
(* What the transport promises to the session layer through its ports      *)
(* ConnectionListener and MessageReceiver: connections are announced in    *)
(* the order of their ids, a connection ends at most once, and between its *)
(* announcement and its end the messages its peer sent are delivered: in   *)
(* the order they were sent, none left out, none twice, none made up. The  *)
(* messages of a connection are numbered as its peer sends them.           *)
(*                                                                         *)
(* TransportServer implements this specification. That a connection which  *)
(* was closed or given up does end is a matter of fairness, and stated     *)
(* there.                                                                  *)
(***************************************************************************)
EXTENDS Naturals, Sequences

CONSTANTS MaxConnections,   \* bound on the connections accepted
          MaxFrames         \* bound on the frames a peer sends

VARIABLES status,    \* status[c]: "new", "connected" or "ended"
          sent,      \* sent[c]: how many messages the peer of c sent
          heard      \* heard[c]: the messages delivered from c, in that order

portVars == <<status, sent, heard>>

Conn == 1..MaxConnections

PortInit ==
    /\ status = [c \in Conn |-> "new"]
    /\ sent = [c \in Conn |-> 0]
    /\ heard = [c \in Conn |-> <<>>]

Connected(c) ==
    /\ status[c] = "new"
    /\ \A later \in Conn : later > c => status[later] = "new"
    /\ status' = [status EXCEPT ![c] = "connected"]
    /\ UNCHANGED <<sent, heard>>

\* The peer does not wait for the announcement.
Sends(c) ==
    /\ sent[c] < MaxFrames
    /\ sent' = [sent EXCEPT ![c] = @ + 1]
    /\ UNCHANGED <<status, heard>>

\* The message after the last one that was delivered.
Message(c) ==
    /\ status[c] = "connected" /\ Len(heard[c]) < sent[c]
    /\ heard' = [heard EXCEPT ![c] = Append(@, Len(@) + 1)]
    /\ UNCHANGED <<status, sent>>

Disconnected(c) ==
    /\ status[c] = "connected"
    /\ status' = [status EXCEPT ![c] = "ended"]
    /\ UNCHANGED <<sent, heard>>

PortNext == \E c \in Conn : Connected(c) \/ Sends(c) \/ Message(c) \/ Disconnected(c)

PortSpec == PortInit /\ [][PortNext]_portVars
============================================================================
