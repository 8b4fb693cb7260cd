-------------------------- MODULE BackoffSchedule --------------------------
(***************************************************************************)
(* The wait of an agent before it connects again. Time is counted in units *)
(* of 2^24 nanoseconds, about 17 milliseconds: the 32 bits of the random   *)
(* number reach over RandomRange = 256 units, and the defaults of one and  *)
(* thirty seconds are about 60 and 1788 units.                             *)
(***************************************************************************)
EXTENDS Integers, FiniteSetsExt

CONSTANTS
    BaseDelay, MaxDelay,
    RandomRange,     \* values of next_rand
    MaxAttempts      \* bound on the attempts

JitterPercent == 25

VARIABLES
    attempt,   \* attempt_
    delay      \* the last delay, 0 before the first

backoffVars == <<attempt, delay>>

\* next_delay: the base doubles with every attempt, as long as it is below the cap.
Doubled[n \in 0..MaxAttempts] ==
    IF n = 0 THEN BaseDelay
    ELSE IF Doubled[n - 1] < MaxDelay THEN 2 * Doubled[n - 1] ELSE Doubled[n - 1]

Centre(n) == Min({Doubled[n], MaxDelay})
JitterSpan(d) == (d * JitterPercent * 2) \div 100
Lower(d) == d - (d * JitterPercent) \div 100

\* next_delay, for a random number.
DelayFor(d, random) == Lower(d) + (random % (JitterSpan(d) + 1))

BackoffInit == attempt = 0 /\ delay = 0

NextDelay ==
    /\ attempt < MaxAttempts
    /\ \E random \in 0..(RandomRange - 1) : delay' = DelayFor(Centre(attempt), random)
    /\ attempt' = attempt + 1

\* reset, when the agent is registered.
Reset == attempt' = 0 /\ UNCHANGED delay

BackoffNext == NextDelay \/ Reset

BackoffSpec == BackoffInit /\ [][BackoffNext]_backoffVars

----------------------------------------------------------------------------
(* Properties *)

\* What the documentation says of the wait: the jitter is uniform over 25% on both sides,
\* so that at the cap of thirty seconds the wait may be up to 37.5 seconds. Every length
\* between the bounds can come out.
JitterCoversBothSides ==
    LET d == Centre(attempt) IN
    \A wait \in Lower(d)..(Lower(d) + JitterSpan(d)) :
        \E random \in 0..(RandomRange - 1) : DelayFor(d, random) = wait
=============================================================================
