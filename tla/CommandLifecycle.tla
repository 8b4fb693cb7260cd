------------------------- MODULE CommandLifecycle -------------------------
(***************************************************************************)
(* What the command subsystem of the controller promises: every command    *)
(* id is used once, in increasing order, for one device; a command that    *)
(* was sent is open until it gets exactly one verdict, which never         *)
(* changes; a device has at most one open command, and the only way to     *)
(* open a second one is to supersede the first.                            *)
(*                                                                         *)
(* CommandService implements this specification.                           *)
(***************************************************************************)
EXTENDS Naturals

CONSTANTS Device,        \* the devices the controller knows
          MaxCommands    \* bound on the number of ids handed out

VARIABLES issued,        \* number of ids handed out so far
          open,          \* open[d]: the set of open command ids of device d
          verdict        \* verdict[c]: how command c ended, "none" if it has not

lifecycleVars == <<issued, open, verdict>>

CommandId == 1..MaxCommands

Verdict == {"none", "undelivered", "superseded", "succeeded", "failed"}

LifecycleInit ==
    /\ issued = 0
    /\ open = [d \in Device |-> {}]
    /\ verdict = [c \in CommandId |-> "none"]

\* The next id is handed out for device d. Whatever was open on d is
\* superseded; the new command is open, or undelivered if its first
\* transmission failed.
Issue(d, delivered) ==
    /\ issued < MaxCommands
    /\ issued' = issued + 1
    /\ open' = [open EXCEPT ![d] = IF delivered THEN {issued + 1} ELSE {}]
    /\ verdict' = [c \in CommandId |->
                     CASE c \in open[d] -> "superseded"
                       [] c = issued + 1 /\ ~delivered -> "undelivered"
                       [] OTHER -> verdict[c]]

\* An open command of device d gets its verdict.
Close(d, c, v) ==
    /\ c \in open[d]
    /\ open' = [open EXCEPT ![d] = @ \ {c}]
    /\ verdict' = [verdict EXCEPT ![c] = v]
    /\ UNCHANGED issued

LifecycleNext ==
    \/ \E d \in Device, delivered \in BOOLEAN : Issue(d, delivered)
    \/ \E d \in Device, c \in CommandId, v \in {"succeeded", "failed"} :
         Close(d, c, v)

LifecycleSpec == LifecycleInit /\ [][LifecycleNext]_lifecycleVars
============================================================================
