---------------------------- MODULE MCEventLoop ----------------------------
(***************************************************************************)
(* The reactor and the acceptor in one run. They meet only in what Reactor *)
(* promises about events: a behaviour exercises one of them, and the other *)
(* rests in its initial state.                                             *)
(***************************************************************************)
EXTENDS Reactor

CONSTANTS MaxArrivals, MaxFree, MaxErrors, SystemMayFill

VARIABLES
    component,
    a_at, edge, backlog, free, system_full, spare, fd_exhausted, rejected_while_exhausted,
    drained, reported, turned_away, arrived, errors, undisturbed

A == INSTANCE Acceptor WITH at <- a_at

ASSUME A!AcceptorConstants

acceptorVars == <<a_at, edge, backlog, free, system_full, spare, fd_exhausted,
                  rejected_while_exhausted, drained, reported, turned_away, arrived, errors,
                  undisturbed>>
loopVars == <<component, reactorVars, acceptorVars>>

LoopInit == component \in {"reactor", "acceptor"} /\ ReactorInit /\ A!AcceptorInit

LoopNext ==
    /\ \/ component = "reactor" /\ ReactorNext /\ UNCHANGED acceptorVars
       \/ component = "acceptor" /\ A!AcceptorNext /\ UNCHANGED reactorVars
    /\ UNCHANGED component

\* The reactor goes on and handlers return; the accept loop runs when its event is there.
LoopFairness ==
    /\ WF_reactorVars(component = "reactor" /\ ReactorThread)
    /\ WF_reactorVars(component = "reactor" /\ CallbackReturns)
    /\ WF_acceptorVars(component = "acceptor" /\ A!AcceptLoop)

LoopSpec == LoopInit /\ [][LoopNext]_loopVars /\ LoopFairness

----------------------------------------------------------------------------
(* Properties *)

\* Nothing that is ready is forgotten: events of a registered channel are delivered, and
\* connections are accepted or turned away, or wait behind a reported exhaustion whose
\* descriptors and counts fit together.
LoopServes == EventsDelivered /\ A!BacklogDrains /\ []A!AcceptorConsistent
=============================================================================
