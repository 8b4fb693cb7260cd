---------------------------- MODULE MCTransport ----------------------------
(***************************************************************************)
(* Four kinds of behaviour of the transport server: two connections with   *)
(* callbacks that reach from one to the other, without failures but with   *)
(* messages sent, or with failures and calls from a timer, or where        *)
(* Reactor::add throws for one of them; and one connection with enough     *)
(* traffic to fill its ring and its socket, where everything may happen.   *)
(***************************************************************************)
EXTENDS TransportServer

Answers == [connections |-> 2, frames |-> 1, sends |-> 1, disconnects |-> 1,
            ticks |-> 0, faults |-> 0, throws |-> 0]
Failures == [connections |-> 2, frames |-> 1, sends |-> 0, disconnects |-> 1,
             ticks |-> 1, faults |-> 1, throws |-> 0]
Throwing == [connections |-> 2, frames |-> 1, sends |-> 0, disconnects |-> 1,
             ticks |-> 0, faults |-> 0, throws |-> 1]
HeavyTraffic == [connections |-> 1, frames |-> 3, sends |-> 2, disconnects |-> 1,
                 ticks |-> 1, faults |-> 1, throws |-> 1]

TransportBudgets == {Answers, Failures, Throwing, HeavyTraffic}
============================================================================
