------------------------------- MODULE Timers -------------------------------
(***************************************************************************)
(* What a timer scheduler promises: a timer expires once, not before its   *)
(* deadline, not after it was cancelled, not while the scheduler is        *)
(* stopped, and before every timer with a later deadline; timers with the  *)
(* same deadline expire in the order of their tokens, which is not that of *)
(* their registration. A token stands for one timer for ever: cancelling   *)
(* an old one concerns no other timer.                                     *)
(*                                                                         *)
(* TimerScheduler implements this specification.                           *)
(***************************************************************************)
EXTENDS Naturals

CONSTANTS Token,    \* what names a timer, a number with an upper and a lower half
          MaxNow    \* bound on the time

VARIABLES now,       \* the clock
          running,   \* whether the scheduler is started
          pending,   \* pending timers: token -> deadline
          issued,    \* tokens handed out so far
          fired      \* tokens of the timers that expired

timersVars == <<now, running, pending, issued, fired>>

TimersInit ==
    /\ now = 0
    /\ running = FALSE
    /\ pending = <<>>
    /\ issued = {}
    /\ fired = {}

Tick ==
    /\ now < MaxNow
    /\ now' = now + 1
    /\ UNCHANGED <<running, pending, issued, fired>>

StartOrStop ==
    /\ running' = ~running
    /\ UNCHANGED <<now, pending, issued, fired>>

Schedule(t, deadline) ==
    /\ t \notin issued
    /\ issued' = issued \cup {t}
    /\ pending' = [x \in DOMAIN pending \cup {t} |-> IF x = t THEN deadline ELSE pending[x]]
    /\ UNCHANGED <<now, running, fired>>

Cancel(t) ==
    /\ t \in DOMAIN pending
    /\ pending' = [x \in DOMAIN pending \ {t} |-> pending[x]]
    /\ UNCHANGED <<now, running, issued, fired>>

Smaller(s, t) == s[1] < t[1] \/ (s[1] = t[1] /\ s[2] < t[2])

Expire(t) ==
    /\ running /\ t \in DOMAIN pending
    /\ pending[t] <= now
    /\ \A x \in DOMAIN pending : pending[t] <= pending[x]
    /\ \A x \in DOMAIN pending \ {t} : pending[x] = pending[t] => Smaller(t, x)
    /\ pending' = [x \in DOMAIN pending \ {t} |-> pending[x]]
    /\ fired' = fired \cup {t}
    /\ UNCHANGED <<now, running, issued>>

TimersNext ==
    \/ Tick \/ StartOrStop
    \/ \E t \in Token :
         \/ \E deadline \in 0..MaxNow : Schedule(t, deadline)
         \/ Cancel(t) \/ Expire(t)

TimersSpec == TimersInit /\ [][TimersNext]_timersVars
============================================================================
