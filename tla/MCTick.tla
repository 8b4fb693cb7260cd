------------------------------- MODULE MCTick -------------------------------
(***************************************************************************)
(* The controller with policy files that parse and that do not. Of the     *)
(* behaviours that only differ by names one is kept: which of the valid    *)
(* contents comes first, and which of the two signals that are handled     *)
(* alike, SIGINT and SIGTERM, comes alone.                                 *)
(***************************************************************************)
EXTENDS ControllerTick

CONSTANT FirstPolicy   \* the valid contents that come first

ASSUME FirstPolicyIsValid == FirstPolicy \in Valid

TickInit == ControllerInit /\ file \in {FirstPolicy} \cup Broken

TickNext ==
    /\ ControllerNext
    /\ file \in Broken => file' \in {file, FirstPolicy}
    /\ "SIGTERM" \in pending' \ pending => "SIGINT" \in pending

TickFairSpec ==
    /\ TickInit /\ [][TickNext]_tickAllVars
    /\ WF_tickAllVars(ControllerStep) /\ WF_tickAllVars(Elapse)
=============================================================================
