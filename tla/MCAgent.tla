------------------------------ MODULE MCAgent ------------------------------
(***************************************************************************)
(* The parts of an agent process in one run: a session with its connector, *)
(* the timer scheduler under it, and the fleet that starts and ends many   *)
(* sessions. A behaviour exercises one of the parts, and the others rest   *)
(* in their initial states.                                                *)
(***************************************************************************)
EXTENDS TimerScheduler, AgentSession, AgentFleet

VARIABLE component

ASSUME FleetConstants

processVars == <<component, agentVars, schedulerVars, fleetVars>>

\* A fleet at rest has one fixed initial state.
ProcessInit ==
    /\ component \in {"session", "timers", "fleet"}
    /\ AgentInit /\ SchedulerInit /\ FleetInit
    /\ component # "fleet" => immediate

ProcessNext ==
    /\ \/ component = "session" /\ AgentNext /\ UNCHANGED <<schedulerVars, fleetVars>>
       \/ component = "timers" /\ SchedulerNext /\ UNCHANGED <<agentVars, fleetVars>>
       \/ component = "fleet" /\ FleetNext /\ UNCHANGED <<agentVars, schedulerVars>>
    /\ UNCHANGED component

SessionFairness ==
    /\ WF_agentVars(component = "session" /\ ReconnectFires)
    /\ WF_agentVars(component = "session" /\ ConnectEnds)
    /\ WF_agentVars(component = "session" /\ LossNoticed)
    /\ WF_agentVars(component = "session" /\ Transmits)
    /\ WF_agentVars(component = "session" /\ PeerGivesUp)
    /\ WF_agentVars(component = "session" /\ HearsOutcome)
    /\ WF_agentVars(component = "session" /\ HearsCommand)

\* Time passes, the kernel's timer expires, the reactor delivers its event and handlers
\* return.
SchedulerFairness ==
    /\ WF_schedulerVars(component = "timers" /\ Elapse)
    /\ WF_schedulerVars(component = "timers" /\ TimerfdExpires)
    /\ WF_schedulerVars(component = "timers" /\ SchedulerThread)
    /\ WF_schedulerVars(component = "timers" /\ CallbackReturns)

FleetFairness ==
    /\ WF_fleetVars(component = "fleet" /\ StartFleet)
    /\ WF_fleetVars(component = "fleet" /\ ReactorThread)
    /\ SF_fleetVars(component = "fleet" /\ StartTimerReported)
    /\ SF_fleetVars(component = "fleet" /\ StartTimerDue)

ProcessSpec ==
    /\ ProcessInit /\ [][ProcessNext]_processVars
    /\ SessionFairness /\ SchedulerFairness /\ FleetFairness

----------------------------------------------------------------------------
(* Properties *)

\* Whatever waits comes: once nothing fails any more the agent is registered and stays so,
\* every timer expires or is cancelled, every member of a fleet is started, and a signal
\* ends it.
ProcessMoves ==
    /\ component = "session" => Recovers
    /\ TimersExpire
    /\ FleetMoves
=============================================================================
