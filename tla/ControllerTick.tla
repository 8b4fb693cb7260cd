--------------------------- MODULE ControllerTick ---------------------------
(***************************************************************************)
(* The life of a controller process: boot, the event loop with the sweep   *)
(* timer and the signal source, the three phases of a tick with exceptions *)
(* between them, the fixed-rate schedule, the tick statistics and the      *)
(* profile recorder, and the way out of main.                              *)
(*                                                                         *)
(* What the phases do is in CommandService, SessionService and             *)
(* PolicyService. Here a phase takes time and completes or throws.  The    *)
(* timer scheduler is used as Timers describes it: one pending timer, due  *)
(* from its deadline on.                                                   *)
(***************************************************************************)
EXTENDS Integers, Sequences, FiniteSets, SequencesExt, FiniteSetsExt

CONSTANTS
    Interval,      \* sweep_interval
    Capacity,      \* capacity of the profile recorder
    Valid,         \* contents of the policy file that parse
    Broken,        \* contents that do not
    NoPolicy,      \* the empty policy of a controller that loaded none
    MaxNow,        \* bound on the clock
    MaxSignals,    \* bound on signals
    MaxEdits,      \* bound on changes of the policy file
    Failures       \* TRUE when booting and phases may throw

ASSUME TickConstants ==
    /\ Interval \in Nat \ {0} /\ Capacity \in Nat \ {0}
    /\ Valid \cap Broken = {} /\ NoPolicy \notin Valid
    /\ MaxNow \in Nat /\ MaxSignals \in Nat /\ MaxEdits \in Nat
    /\ Failures \in BOOLEAN

VARIABLES
    now,              \* the clock
    at,               \* where the process is
    running,          \* Reactor: running
    batch,            \* Reactor: ready channels not yet dispatched
    signal_source,    \* SignalSource: its channel is registered and its signals are blocked
    pending,          \* the kernel: signals that are blocked and not yet read
    edge,             \* the kernel: the signalfd has an event that was not yet reported
    sweep_schedule,   \* FixedRateSchedule: deadline_
    sweep_timer,      \* deadline of the armed timer, or 0
    origin,           \* profile_timestamp_converter_
    started,          \* on_expired: its local now
    sample,           \* on_expired: its local profile_sample
    next_tick_id,     \* next_profile_tick_id_
    stats,            \* sweep_stats_
    recorder,         \* the profile recorder
    policy,           \* the policy in force
    file,             \* the policy file
    controller_error, \* main: the controller ended with an exception
    first,            \* history: the first deadline
    announced,        \* history: SIGHUP came after the last change of the file
    budget            \* history: signals and edits so far

processVars == <<at, running, batch, signal_source, controller_error>>
signalVars == <<pending, edge>>
tickVars == <<sweep_schedule, sweep_timer, origin, started, sample, next_tick_id, stats,
              recorder, first>>
policyVars == <<policy, file, announced>>
tickAllVars == <<now, processVars, signalVars, tickVars, policyVars, budget>>

\* In the order in which the kernel hands pending ones out.
Signals == <<"SIGHUP", "SIGINT", "SIGTERM">>

Phases == {"command_sweep", "session_sweep", "policy_evaluate"}
Outcomes == Phases \cup {"completed"}
Ended == {"exited", "killed"}

NoSample == [id |-> 0, started |-> 0, command |-> 0, session |-> 0, policy |-> 0,
             finished |-> 0, outcome |-> "completed"]

----------------------------------------------------------------------------
(* FixedRateSchedule *)

\* Periods that are over when the tick is.
Skipped(next, finished) == (finished - next) \div Interval + 1

\* advance.
Advance(deadline, finished) ==
    LET next == deadline + Interval
        skipped == IF next > finished THEN 0 ELSE Skipped(next, finished)
    IN  [deadline |-> next + Interval * skipped, skipped |-> skipped]

----------------------------------------------------------------------------

ControllerInit ==
    /\ now = 0 /\ at = "new" /\ running = FALSE /\ batch = <<>>
    /\ signal_source = FALSE /\ pending = {} /\ edge = FALSE
    /\ sweep_schedule = 0 /\ sweep_timer = 0 /\ first = 0
    /\ origin = 0 /\ started = 0 /\ sample = NoSample /\ next_tick_id = 1
    /\ stats = [lateness |-> 0, work |-> 0, sum |-> 0, skipped |-> 0]
    /\ recorder = [samples |-> <<>>, dropped |-> 0, finished |-> FALSE]
    /\ policy = NoPolicy /\ file \in Valid \cup Broken
    /\ controller_error = FALSE /\ announced = FALSE
    /\ budget = [signals |-> 0, edits |-> 0]

GoTo(place) == at' = place

\* What does not parse leaves the policy as it is.
Loaded == IF file \in Valid THEN file ELSE policy

\* load_policy.
LoadPolicy ==
    /\ policy' = Loaded
    /\ UNCHANGED <<file, announced>>

\* start, until the signals are blocked.
StartSignals ==
    /\ at = "new" /\ GoTo("starting")
    /\ signal_source' = TRUE
    /\ UNCHANGED <<now, running, batch, controller_error, signalVars, tickVars, policyVars, budget>>

\* start: a server cannot be started, or a phase of start throws.
StartFails ==
    /\ Failures
    /\ at = "starting" /\ GoTo("unwinding")
    /\ controller_error' = TRUE
    /\ UNCHANGED <<now, running, batch, signal_source, signalVars, tickVars, policyVars, budget>>

\* start: the servers are up, the policy is loaded.
StartPolicy ==
    /\ at = "starting" /\ GoTo("scheduling")
    /\ LoadPolicy
    /\ origin' = now
    /\ UNCHANGED <<now, running, batch, signal_source, controller_error, signalVars, budget,
                   sweep_schedule, sweep_timer, started, sample, next_tick_id, stats, recorder, first>>

\* start: the first tick.
StartSchedule ==
    /\ at = "scheduling" /\ GoTo("started")
    /\ sweep_schedule' = now + Interval
    /\ sweep_timer' = sweep_schedule' /\ first' = sweep_schedule'
    /\ UNCHANGED <<now, running, batch, signal_source, controller_error, signalVars, policyVars,
                   budget, origin, started, sample, next_tick_id, stats, recorder>>

\* run.
Run ==
    /\ at = "started" /\ GoTo("wait")
    /\ running' = TRUE
    /\ UNCHANGED <<now, batch, signal_source, controller_error, signalVars, tickVars, policyVars,
                   budget>>

TimerDue == sweep_timer # 0 /\ sweep_timer <= now

\* run_once: what is ready, in either order.
RunOnce ==
    /\ at = "wait" /\ running
    /\ \E order \in {<<"timer">>, <<"signal">>, <<"timer", "signal">>, <<"signal", "timer">>} :
          /\ ToSet(order) = {s \in {"timer", "signal"} : IF s = "timer" THEN TimerDue ELSE edge}
          /\ batch' = order
    /\ edge' = FALSE
    /\ GoTo("batch")
    /\ UNCHANGED <<now, running, signal_source, controller_error, pending, tickVars, policyVars,
                   budget>>

BatchDone ==
    /\ at = "batch" /\ batch = <<>> /\ GoTo("wait")
    /\ UNCHANGED <<now, running, batch, signal_source, controller_error, signalVars, tickVars,
                   policyVars, budget>>

\* The channel was deregistered by the other handler of the batch.
DispatchStale ==
    /\ at = "batch" /\ batch # <<>>
    /\ IF Head(batch) = "timer" THEN ~TimerDue ELSE ~signal_source
    /\ batch' = Tail(batch)
    /\ UNCHANGED <<now, at, running, signal_source, controller_error, signalVars, tickVars,
                   policyVars, budget>>

----------------------------------------------------------------------------
(* A tick *)

\* on_expired, until the first phase.
OnExpired ==
    /\ at = "batch" /\ batch # <<>> /\ Head(batch) = "timer" /\ TimerDue
    /\ batch' = Tail(batch)
    /\ GoTo("command_sweep")
    /\ sweep_timer' = 0
    /\ started' = now
    /\ stats' = [stats EXCEPT !.lateness = @ + 1]
    /\ sample' = [NoSample EXCEPT !.id = next_tick_id, !.started = now - origin]
    /\ next_tick_id' = next_tick_id + 1
    /\ UNCHANGED <<now, running, signal_source, controller_error, signalVars, policyVars, budget,
                   sweep_schedule, origin, recorder, first>>

\* Recorder::record.
Recorded(r, s) ==
    IF r.finished THEN r
    ELSE IF Len(r.samples) = Capacity THEN [r EXCEPT !.dropped = @ + 1]
    ELSE [r EXCEPT !.samples = Append(@, s)]

CommandSweepEnds ==
    /\ at = "command_sweep" /\ GoTo("session_sweep")
    /\ sample' = [sample EXCEPT !.command = now - origin]
    /\ UNCHANGED <<now, running, batch, signal_source, controller_error, signalVars, policyVars,
                   budget, sweep_schedule, sweep_timer, origin, started, next_tick_id, stats,
                   recorder, first>>

SessionSweepEnds ==
    /\ at = "session_sweep" /\ GoTo("policy_evaluate")
    /\ sample' = [sample EXCEPT !.session = now - origin]
    /\ UNCHANGED <<now, running, batch, signal_source, controller_error, signalVars, policyVars,
                   budget, sweep_schedule, sweep_timer, origin, started, next_tick_id, stats,
                   recorder, first>>

\* Only a complete tick counts as work.
PolicyEvaluateEnds ==
    /\ at = "policy_evaluate" /\ GoTo("rescheduling")
    /\ sample' = [sample EXCEPT !.policy = now - origin, !.finished = now - origin]
    /\ stats' = [stats EXCEPT !.work = @ + 1, !.sum = @ + now - started]
    /\ recorder' = Recorded(recorder, sample')
    /\ UNCHANGED <<now, running, batch, signal_source, controller_error, signalVars, policyVars,
                   budget, sweep_schedule, sweep_timer, origin, started, next_tick_id, first>>

\* Slip: a tick that fails is recorded as one that did its work.
OutcomeOf_Completed(phase) == "completed"

\* execute_tick_phases: the outcome names the phase that threw.
OutcomeOf(phase) == phase

\* A phase throws: the phases after it are left out.
PhaseThrows ==
    /\ Failures
    /\ at \in Phases /\ GoTo("rescheduling")
    /\ controller_error' = TRUE
    /\ sample' = [sample EXCEPT !.finished = now - origin, !.outcome = OutcomeOf(at)]
    /\ recorder' = Recorded(recorder, sample')
    /\ UNCHANGED <<now, running, batch, signal_source, signalVars, policyVars, budget,
                   sweep_schedule, sweep_timer, origin, started, next_tick_id, stats, first>>

\* Slip: a late tick shifts those that follow it.
ScheduledNext_FromNow == [deadline |-> now + Interval, skipped |-> 0]

\* The next deadline, counted from the last one.
ScheduledNext == Advance(sweep_schedule, now)

\* The timer of the next tick.
TimerAfterTick == ScheduledNext.deadline

\* schedule_sweep, after a failure too; then the exception leaves run.
ScheduleSweep ==
    /\ at = "rescheduling"
    /\ sweep_schedule' = ScheduledNext.deadline
    /\ stats' = [stats EXCEPT !.skipped = @ + ScheduledNext.skipped]
    /\ sweep_timer' = TimerAfterTick
    /\ IF controller_error THEN GoTo("unwinding") /\ batch' = <<>>
                           ELSE GoTo("batch") /\ UNCHANGED batch
    /\ sample' = NoSample
    /\ UNCHANGED <<now, running, signal_source, controller_error, signalVars, policyVars, budget,
                   origin, started, next_tick_id, recorder, first>>

----------------------------------------------------------------------------
(* Signals *)

\* SignalSource::on_ready.
OnSignalReady ==
    /\ at = "batch" /\ batch # <<>> /\ Head(batch) = "signal" /\ signal_source
    /\ batch' = Tail(batch)
    /\ GoTo("draining")
    /\ UNCHANGED <<now, running, signal_source, controller_error, signalVars, tickVars, policyVars,
                   budget>>

\* The drain goes on after the callback.
AfterReload == "draining"

\* Slip: one read takes all that is pending.
Unread_None(s) == {}

\* A read of the signalfd takes one signal.
Unread(s) == pending \ {s}

\* drain_signalfd: the next pending signal is read.
DrainSignal ==
    LET first_pending == CHOOSE i \in DOMAIN Signals :
                            /\ Signals[i] \in pending
                            /\ \A j \in 1..(i - 1) : Signals[j] \notin pending
    IN
    /\ at = "draining" /\ pending # {}
    /\ pending' = Unread(Signals[first_pending])
    /\ GoTo(IF Signals[first_pending] = "SIGHUP" THEN "reloading" ELSE "stopping")
    /\ UNCHANGED <<now, running, batch, signal_source, controller_error, edge, tickVars,
                   policyVars, budget>>

\* drain_signalfd: nothing more to read.
DrainDone ==
    /\ at = "draining" /\ pending = {}
    /\ GoTo("batch")
    /\ UNCHANGED <<now, running, batch, signal_source, controller_error, signalVars, tickVars,
                   policyVars, budget>>

\* handle_signal of SIGHUP.
Reload ==
    /\ at = "reloading" /\ GoTo(AfterReload)
    /\ LoadPolicy
    /\ UNCHANGED <<now, running, batch, signal_source, controller_error, signalVars, tickVars,
                   budget>>

\* TimerScheduler::stop drops the timer.
TimerAfterStop == 0

\* Controller::stop.  With the mask of before, signals that are pending take their
\* default action.
StopAll(next) ==
    /\ sweep_timer' = TimerAfterStop
    /\ signal_source' = FALSE /\ edge' = FALSE
    /\ running' = FALSE
    /\ GoTo(IF pending # {} THEN "killed" ELSE next)
    /\ UNCHANGED <<pending, sweep_schedule, origin, started, sample, next_tick_id, stats,
                   recorder, first>>

\* handle_signal of SIGINT and SIGTERM.
HandleTermination ==
    /\ at = "stopping"
    /\ StopAll("batch")
    /\ UNCHANGED <<now, batch, controller_error, policyVars, budget>>

\* run returns.
RunReturns ==
    /\ at = "wait" /\ ~running
    /\ GoTo("unwinding")
    /\ UNCHANGED <<now, running, batch, signal_source, controller_error, signalVars, tickVars,
                   policyVars, budget>>

\* ~Impl: stop again, and close.
Destroy ==
    /\ at = "unwinding"
    /\ StopAll("dumping")
    /\ UNCHANGED <<now, batch, controller_error, policyVars, budget>>

\* main: the recording is finished and dumped.
DumpRecording ==
    /\ at = "dumping" /\ GoTo("exited")
    /\ recorder' = [recorder EXCEPT !.finished = TRUE]
    /\ UNCHANGED <<now, running, batch, signal_source, controller_error, signalVars, policyVars,
                   budget, sweep_schedule, sweep_timer, origin, started, sample, next_tick_id,
                   stats, first>>

----------------------------------------------------------------------------
(* The environment *)

\* A signal that is blocked waits for the signalfd; one that is not ends the process.
Signal(s) ==
    /\ at \notin Ended /\ budget.signals < MaxSignals
    /\ budget' = [budget EXCEPT !.signals = @ + 1]
    /\ IF signal_source
       THEN pending' = pending \cup {s} /\ edge' = TRUE /\ UNCHANGED at
       ELSE at' = "killed" /\ UNCHANGED signalVars
    /\ announced' = (announced \/ s = "SIGHUP")
    /\ UNCHANGED <<now, running, batch, signal_source, controller_error, tickVars, policy, file>>

Edit(text) ==
    /\ at \notin Ended /\ budget.edits < MaxEdits /\ text # file
    /\ budget' = [budget EXCEPT !.edits = @ + 1]
    /\ file' = text /\ announced' = FALSE
    /\ UNCHANGED <<now, processVars, signalVars, tickVars, policy>>

\* Time passes where the program may look at the clock afterwards: from the start of the
\* recording until the loop is left.
Elapse ==
    /\ at \notin Ended \cup {"new", "starting", "stopping", "unwinding", "dumping"}
    /\ now < MaxNow
    /\ now' = now + 1
    /\ UNCHANGED <<processVars, signalVars, tickVars, policyVars, budget>>

ControllerStep ==
    \/ StartSignals \/ StartFails \/ StartPolicy \/ StartSchedule \/ Run
    \/ RunOnce \/ BatchDone \/ DispatchStale
    \/ OnExpired \/ CommandSweepEnds \/ SessionSweepEnds \/ PolicyEvaluateEnds \/ PhaseThrows
    \/ ScheduleSweep
    \/ OnSignalReady \/ DrainSignal \/ DrainDone \/ Reload \/ HandleTermination
    \/ RunReturns \/ Destroy \/ DumpRecording

ControllerNext ==
    \/ ControllerStep
    \/ \E i \in DOMAIN Signals : Signal(Signals[i])
    \/ \E text \in Valid \cup Broken : Edit(text)
    \/ Elapse

ControllerSpec == ControllerInit /\ [][ControllerNext]_tickAllVars

\* The process gets processor time.
ControllerFairSpec == ControllerSpec /\ WF_tickAllVars(ControllerStep) /\ WF_tickAllVars(Elapse)

----------------------------------------------------------------------------
(* Properties *)

Times == 0..(2 * MaxNow + Interval)

ControllerTypeOK ==
    /\ now \in 0..MaxNow /\ running \in BOOLEAN /\ signal_source \in BOOLEAN /\ edge \in BOOLEAN
    /\ at \in Phases \cup Ended \cup
             {"new", "starting", "scheduling", "started", "wait", "batch", "rescheduling",
              "draining", "reloading", "stopping", "unwinding", "dumping"}
    /\ ToSet(batch) \subseteq {"timer", "signal"} /\ pending \subseteq ToSet(Signals)
    /\ {sweep_schedule, sweep_timer, first} \subseteq Times /\ {origin, started} \subseteq 0..MaxNow
    /\ sample.id < next_tick_id
    /\ stats \in [lateness : Nat, work : Nat, sum : 0..MaxNow, skipped : Nat]
    /\ Len(recorder.samples) <= Capacity
    /\ policy \in Valid \cup {NoPolicy} /\ file \in Valid \cup Broken
    /\ controller_error \in BOOLEAN /\ announced \in BOOLEAN

InTick == at \in Phases \cup {"rescheduling"}
Attempts == next_tick_id - 1

\* Every point of the grid that starts at the first deadline is attempted once or skipped
\* once, no matter how long ticks take and how late they start: the next deadline is as
\* many periods after the first as there were attempts and skipped periods, and the timer
\* is armed for it whenever the loop runs and no tick is in progress.
EveryPeriodCounted ==
    (first # 0 /\ ~InTick) =>
        /\ sweep_schedule = first + Interval * (stats.lateness + stats.skipped)
        /\ running => sweep_timer = sweep_schedule

\* A tick never starts before its deadline, and never a period or more after one that
\* could have run instead: when a tick is scheduled its deadline is ahead, by one period
\* at most.
NextDeadlineAhead ==
    [][at = "rescheduling" /\ at' # at =>
         sweep_schedule' > now /\ (sweep_schedule' <= now + Interval)]_tickAllVars

\* Ticks stay on the grid of the period.
TicksOnGrid == ControllerTypeOK /\ EveryPeriodCounted

\* is_valid_tick_sample.
ValidSample(s) ==
    /\ s.id # 0
    /\ CASE s.outcome = "completed" ->
              s.started <= s.command /\ s.command <= s.session /\ s.session <= s.policy
              /\ s.policy = s.finished
         [] s.outcome = "command_sweep" ->
              s.command = 0 /\ s.session = 0 /\ s.policy = 0 /\ s.started <= s.finished
         [] s.outcome = "session_sweep" ->
              s.session = 0 /\ s.policy = 0 /\ s.started <= s.command /\ s.command <= s.finished
         [] s.outcome = "policy_evaluate" ->
              s.policy = 0 /\ s.started <= s.command /\ s.command <= s.session
              /\ s.session <= s.finished

\* One invalid sample and serialize_recording refuses the whole recording: samples are
\* valid whatever phase threw, numbered without gaps, and one begins after the one
\* before it has ended.
RecordingSerializable ==
    \A i \in DOMAIN recorder.samples :
        LET s == recorder.samples[i] IN
        /\ ValidSample(s) /\ s.id = i
        /\ i > 1 => recorder.samples[i - 1].finished <= s.started

\* Each attempt is recorded or counted as dropped, once, also the one that throws.
AttemptsRecordedOnce ==
    at \notin Phases => Len(recorder.samples) + recorder.dropped = Attempts

\* f[1] + ... + f[n] of a sequence f of length n.
Total(f) ==
    LET sum[i \in 0..Len(f)] == IF i = 0 THEN 0 ELSE sum[i - 1] + f[i]
    IN  sum[Len(f)]

Completed(s) == s.outcome = "completed"
CompletedOf(samples) == [i \in DOMAIN samples |-> IF Completed(samples[i]) THEN 1 ELSE 0]
TimeOf(samples) ==
    [i \in DOMAIN samples |->
        IF Completed(samples[i]) THEN samples[i].finished - samples[i].started ELSE 0]

\* verify_tick_metrics_snapshot: unless samples were dropped, the recording and the
\* exported statistics agree on the number of completed ticks and on their total time.
MetricsMatchRecording ==
    recorder.dropped = 0 =>
        /\ stats.work = Total(CompletedOf(recorder.samples))
        /\ stats.sum = Total(TimeOf(recorder.samples))

\* Once a signal has stopped the controller no tick starts, not even the one whose expiry
\* is in the same batch of events.
NoTickAfterStop == [][at # "command_sweep" /\ at' = "command_sweep" => running]_tickAllVars

\* The signalfd is edge-triggered: whatever is pending when the loop waits has an event
\* that is still to be reported.
NoSignalForgotten == (at = "wait" /\ pending # {}) => edge

\* Signals of one number merge and the file is read some time after SIGHUP. Still, when no
\* SIGHUP is pending and the file did not change since the last, the policy is the one
\* in the file, if it is valid.
ReloadsLatest ==
    (at = "wait" /\ announced /\ "SIGHUP" \notin pending /\ file \in Valid) => policy = file

\* Signals are served although they merge and are announced once.
SignalsServed == NoSignalForgotten /\ ReloadsLatest

\* Ticks stay on the grid of the period; what is recorded of them can be dumped, complete
\* and valid; and the signals that come meanwhile are served.
ControllerConsistent ==
    TicksOnGrid /\ RecordingSerializable /\ AttemptsRecordedOnce /\ SignalsServed

\* A controller that was started ends when it is told to.
TerminationHonoured ==
    (signal_source /\ pending \cap {"SIGINT", "SIGTERM"} # {}) ~> at \in Ended

\* A controller that is told to stop does no more than end.
StopHonoured == NoTickAfterStop /\ TerminationHonoured

\* While the loop runs, every deadline that is reached is attempted.
TicksGoOn ==
    (running /\ ~InTick /\ now >= sweep_schedule) ~> (InTick \/ ~running)

\* Ticks neither fall behind nor stop.
TicksKeepUp == NextDeadlineAhead /\ TicksGoOn

\* Ticks go on in time until the controller is told to stop, and then end.
TicksUntilStopped == TicksKeepUp /\ StopHonoured
=============================================================================
