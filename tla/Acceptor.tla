------------------------------ MODULE Acceptor ------------------------------
(***************************************************************************)
(* The acceptor of the controller: an edge-triggered listening socket, the *)
(* descriptor table of the process, and the spare descriptor that is given *)
(* up for a moment to turn connections away when the table is full.        *)
(*                                                                         *)
(* accept4 allocates a descriptor before it looks at the queue, so with a  *)
(* full table it fails whether or not a connection is pending. The process *)
(* has one thread: its own descriptors do not change while the accept loop *)
(* runs, but the table of the system (ENFILE) may fill up and empty at any *)
(* moment, and connections arrive at any moment.                           *)
(***************************************************************************)
EXTENDS Naturals

CONSTANTS
    MaxArrivals,      \* bound on the connections that arrive
    MaxFree,          \* descriptors the process can open
    MaxErrors,        \* bound on other failures of accept4
    SystemMayFill     \* whether the table of the system may be full

AcceptorConstants ==
    /\ MaxArrivals \in Nat /\ MaxFree \in Nat /\ MaxErrors \in Nat
    /\ SystemMayFill \in BOOLEAN

VARIABLES
    at,                         \* where the accept loop is
    edge,                       \* the kernel has an event for the listening socket
    backlog,                    \* connections the listening socket holds
    free,                       \* free entries of the descriptor table
    system_full,                \* whether the table of the system is full
    spare,                      \* accept_spare_fd_.valid()
    fd_exhausted,               \* fd_exhausted_
    rejected_while_exhausted,   \* rejected_while_exhausted_
    drained,                    \* what the last accept of reject_pending_connection did
    reported,                   \* history: the last accept loop ended with an error report
    turned_away,                \* history: connections turned away since fd_exhausted was set
    arrived,                    \* number of connections that arrived
    errors,                     \* number of other failures of accept4
    undisturbed                 \* history: only the table of the process was full so far

acceptorVars == <<at, edge, backlog, free, system_full, spare, fd_exhausted,
                  rejected_while_exhausted, drained, reported, turned_away, arrived, errors,
                  undisturbed>>

kernel == <<edge, backlog, system_full, arrived>>

AcceptorTypeOK ==
    /\ at \in {"idle", "accept", "reject", "reopen"}
    /\ edge \in BOOLEAN /\ system_full \in BOOLEAN /\ spare \in BOOLEAN
    /\ backlog \in 0..MaxArrivals
    /\ free \in 0..(MaxFree + 1)
    /\ fd_exhausted \in BOOLEAN /\ reported \in BOOLEAN
    /\ rejected_while_exhausted \in Nat
    /\ drained \in {"yes", "empty", "failed"}
    /\ turned_away \in 0..MaxArrivals
    /\ undisturbed \in BOOLEAN

AcceptorInit ==
    /\ at = "idle" /\ edge = FALSE /\ backlog = 0
    /\ free = MaxFree /\ system_full = FALSE /\ spare = TRUE
    /\ fd_exhausted = FALSE /\ rejected_while_exhausted = 0
    /\ drained = "yes" /\ reported = FALSE /\ turned_away = 0
    /\ arrived = 0 /\ errors = 0 /\ undisturbed = TRUE

\* A system call can allocate a descriptor.
CanOpen(n) == n > 0 /\ ~system_full

----------------------------------------------------------------------------
(* The accept loop *)

\* on_ready: the event starts the loop.
OnReady ==
    /\ at = "idle" /\ edge
    /\ edge' = FALSE
    /\ at' = "accept"
    /\ reported' = FALSE
    /\ UNCHANGED <<backlog, free, system_full, spare, fd_exhausted,
                   rejected_while_exhausted, drained, turned_away, arrived, errors, undisturbed>>

\* accept_connections: a connection is handed over to the server, which keeps its
\* descriptor or, when it cannot set up the connection, closes it.
AcceptConnection ==
    /\ at = "accept" /\ CanOpen(free) /\ backlog > 0
    /\ backlog' = backlog - 1
    /\ fd_exhausted' = FALSE
    /\ free' \in {free - 1, free}
    /\ UNCHANGED <<at, edge, system_full, spare, rejected_while_exhausted, drained, reported,
                   turned_away, arrived, errors, undisturbed>>

\* accept_connections: the end of the loop.
NothingPending ==
    /\ at = "accept" /\ CanOpen(free) /\ backlog = 0
    /\ at' = "idle"
    /\ UNCHANGED <<kernel, free, spare, fd_exhausted, rejected_while_exhausted, drained,
                   reported, turned_away, errors, undisturbed>>

\* accept_connections: any other failure is left to the log. (EINTR and ECONNABORTED
\* only repeat the call.)
AcceptFails ==
    /\ at = "accept" /\ errors < MaxErrors
    /\ at' = "idle"
    /\ reported' = TRUE
    /\ errors' = errors + 1 /\ undisturbed' = FALSE
    /\ UNCHANGED <<kernel, free, spare, fd_exhausted, rejected_while_exhausted, drained,
                   turned_away>>

\* Closing the spare descriptor frees an entry if it is open.
FreeAfterClose == IF spare THEN free + 1 ELSE free

\* The number that is logged on recovery.
RejectedSoFar == IF fd_exhausted THEN rejected_while_exhausted + 1 ELSE 1

\* accept_connections without a descriptor, and the first step of
\* reject_pending_connection: the spare one is closed.
DescriptorsExhausted ==
    /\ at = "accept" /\ ~CanOpen(free)
    /\ at' = "reject"
    /\ fd_exhausted' = TRUE
    /\ rejected_while_exhausted' = RejectedSoFar
    /\ turned_away' = IF fd_exhausted THEN turned_away ELSE 0
    /\ spare' = FALSE
    /\ free' = FreeAfterClose
    /\ UNCHANGED <<kernel, drained, reported, errors, undisturbed>>

\* reject_pending_connection: a connection is accepted and closed.
RejectPending ==
    /\ at = "reject"
    /\ at' = "reopen"
    /\ \/ /\ CanOpen(free) /\ backlog > 0
          /\ backlog' = backlog - 1
          /\ turned_away' = turned_away + 1
          /\ drained' = "yes"
       \/ /\ CanOpen(free) /\ backlog = 0
          /\ drained' = "empty"
          /\ UNCHANGED <<backlog, turned_away>>
       \/ /\ ~CanOpen(free)
          /\ drained' = "failed"
          /\ UNCHANGED <<backlog, turned_away>>
    /\ UNCHANGED <<edge, free, system_full, spare, fd_exhausted,
                   rejected_while_exhausted, reported, arrived, errors, undisturbed>>

\* Whether the spare descriptor can be opened again.
Reopens(n) == CanOpen(n)

\* The loop goes on when a connection was turned away.
AfterReject(outcome) == IF outcome = "yes" THEN "accept" ELSE "idle"

\* An empty backlog is the normal end, any other failure is reported.
Reports(outcome) == outcome = "failed"

\* reject_pending_connection: the spare descriptor is opened again.
ReopenSpare ==
    /\ at = "reopen"
    /\ \/ /\ Reopens(free)
          /\ spare' = TRUE
          /\ free' = free - 1
          /\ at' = AfterReject(drained)
          /\ reported' = Reports(drained)
       \/ /\ ~Reopens(free)
          /\ at' = "idle"
          /\ reported' = TRUE
          /\ UNCHANGED <<spare, free>>
    /\ UNCHANGED <<kernel, fd_exhausted, rejected_while_exhausted, drained, turned_away, errors,
                   undisturbed>>

----------------------------------------------------------------------------
(* The rest of the process, the system and the peers *)

\* Other handlers open and close descriptors.
DescriptorsChange ==
    /\ at = "idle"
    /\ free' \in 0..(IF spare THEN MaxFree ELSE MaxFree + 1)
    /\ UNCHANGED <<at, kernel, spare, fd_exhausted, rejected_while_exhausted, drained,
                   reported, turned_away, errors, undisturbed>>

SystemTableChanges ==
    /\ SystemMayFill
    /\ system_full' = ~system_full /\ undisturbed' = FALSE
    /\ UNCHANGED <<at, edge, backlog, free, spare, fd_exhausted, rejected_while_exhausted,
                   drained, reported, turned_away, arrived, errors>>

\* A connection arrives and raises an edge.
Arrive ==
    /\ arrived < MaxArrivals
    /\ arrived' = arrived + 1
    /\ backlog' = backlog + 1
    /\ edge' = TRUE
    /\ UNCHANGED <<at, free, system_full, spare, fd_exhausted, rejected_while_exhausted,
                   drained, reported, turned_away, errors, undisturbed>>

AcceptLoop ==
    \/ OnReady \/ AcceptConnection \/ NothingPending \/ AcceptFails
    \/ DescriptorsExhausted \/ RejectPending \/ ReopenSpare

AcceptorNext == AcceptLoop \/ DescriptorsChange \/ SystemTableChanges \/ Arrive

AcceptorSpec == AcceptorInit /\ [][AcceptorNext]_acceptorVars

----------------------------------------------------------------------------
(* Properties *)

\* A connection is left in the backlog without an event to come only if the accept
\* loop reported an error: however full the descriptor table, and whatever arrives
\* while a connection is being turned away.
StrandedOnlyAfterReport ==
    at = "idle" /\ ~edge /\ backlog > 0 => reported

\* While only the table of the process is full, the spare descriptor is always
\* back when the loop ends: closing the rejected connection first makes room for it.
SpareHeld == at = "idle" /\ undisturbed => spare

\* While only the table of the process is full, every connection is accepted or
\* turned away; none waits for the next one to arrive.
BacklogDrains == backlog > 0 ~> (backlog = 0 \/ ~undisturbed)

\* No connection turned away during an exhaustion is missing in the number that is logged
\* on recovery. (It may be too high: each accept loop that ends with a full table counts
\* the attempt that found the backlog empty.)
RejectionsCounted ==
    at = "idle" /\ fd_exhausted => rejected_while_exhausted >= turned_away

\* Descriptors, reports and counts fit together whichever table is full.
AcceptorConsistent ==
    AcceptorTypeOK /\ StrandedOnlyAfterReport /\ SpareHeld /\ RejectionsCounted
============================================================================
