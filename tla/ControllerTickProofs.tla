------------------------- MODULE ControllerTickProofs -------------------------
(***************************************************************************)
(* Proofs about the life of a controller process (ControllerTick), for any *)
(* period, any time and whatever phase throws: ticks stay on their grid,   *)
(* are recorded once and truly, and signals are served. And about the dump *)
(* of the recording at its end (ProfileDump), for a recording of any       *)
(* length: it is whole or not there, and what it returns is true.          *)
(***************************************************************************)
EXTENDS ControllerTick, ProfileDump, SequenceTheorems, WellFoundedInduction, TLAPS

----------------------------------------------------------------------------
(* The inductive invariant of the process *)

Boot == {"new", "starting", "scheduling"}
Tick == Phases \cup {"rescheduling"}
Draining == {"draining", "reloading", "stopping"}
Loop == {"wait", "batch"} \cup Tick \cup Draining
Source == {"timer", "signal"}

Sample == [id : Nat, started : Nat, command : Nat, session : Nat, policy : Nat, finished : Nat,
           outcome : Outcomes]

DataInv ==
    /\ batch \in Seq(Source)
    /\ sample \in Sample /\ next_tick_id \in Nat \ {0}
    /\ recorder \in [samples : Seq(Sample), dropped : Nat, finished : BOOLEAN]

\* Where the process is tells whether the loop runs, and whether it hears signals.
PlaceInv ==
    /\ at \in Boot \cup {"started", "wait"} => batch = <<>>
    /\ at \in {"starting", "scheduling", "started"} \cup Tick \cup Draining => signal_source
    /\ running => signal_source /\ first # 0
    /\ at \in Tick => running
    /\ at \in Loop /\ ~running => sweep_timer = 0
    /\ recorder.finished => at = "exited"

\* The grid of the deadlines. In a tick the attempt is counted and the next deadline is
\* not yet known.
GridInv ==
    /\ at \in Boot => first = 0
    /\ at = "started" => first # 0 /\ sweep_timer = sweep_schedule
    /\ first = 0 => stats.lateness = 0 /\ stats.skipped = 0
    /\ first # 0 /\ at \notin Tick =>
         /\ sweep_schedule = first + Interval * (stats.lateness + stats.skipped)
         /\ running => sweep_timer = sweep_schedule
    /\ at \in Tick =>
         /\ sweep_schedule + Interval = first + Interval * (stats.lateness + stats.skipped)
         /\ sweep_schedule <= started
    /\ sweep_schedule <= MaxNow + Interval /\ first <= MaxNow + Interval
    /\ started <= now /\ origin <= now
    /\ stats.sum <= now /\ (at \in Phases => stats.sum <= started)

\* A sample grows with the phases.
SampleInv ==
    /\ at \in Phases =>
         /\ sample.id = next_tick_id - 1 /\ sample.outcome = "completed"
         /\ sample.started <= now - origin
         /\ sample.policy = 0 /\ sample.finished = 0
    /\ at = "command_sweep" => sample.command = 0 /\ sample.session = 0
    /\ at = "session_sweep" =>
         /\ sample.started <= sample.command /\ sample.command <= now - origin
         /\ sample.session = 0
    /\ at = "policy_evaluate" =>
         /\ sample.started <= sample.command /\ sample.command <= sample.session
         /\ sample.session <= now - origin

\* What is recorded is over before the next tick begins, and samples are dropped only when
\* the recorder is full.
RecordInv ==
    /\ RecordingSerializable
    /\ Len(recorder.samples) + recorder.dropped =
         IF at \in Phases THEN next_tick_id - 2 ELSE next_tick_id - 1
    /\ recorder.dropped # 0 => Len(recorder.samples) = Capacity
    /\ first = 0 => next_tick_id = 1
    /\ \A i \in 1..Len(recorder.samples) :
         /\ recorder.samples[i].finished <= now - origin
         /\ at \in Phases => recorder.samples[i].finished <= sample.started

\* A signal that is pending has an event to come, or is about to be read; and one SIGHUP
\* after the last change of the file is enough.
SignalInv ==
    /\ pending # {} /\ signal_source =>
         edge \/ "signal" \in ToSet(batch) \/ at \in Draining \cup {"unwinding"}
    /\ pending # {} /\ ~signal_source => at = "killed"
    /\ announced /\ file \in Valid /\ at \notin Ended =>
         policy = file \/ "SIGHUP" \in pending \/ at = "reloading"

ProcessInv ==
    ControllerTypeOK /\ DataInv /\ PlaceInv /\ GridInv /\ SampleInv /\ RecordInv /\ SignalInv

----------------------------------------------------------------------------
(* Facts about the operators *)

LEMMA TickParameters ==
    /\ Interval \in Nat \ {0} /\ Capacity \in Nat \ {0} /\ MaxNow \in Nat
    /\ Valid \cap Broken = {} /\ NoPolicy \notin Valid
BY TickConstants DEF TickConstants

\* Whole periods in a time.
LEMMA Periods ==
    ASSUME NEW d \in Nat, NEW p \in Nat \ {0}
    PROVE  d \div p \in Nat /\ p * (d \div p) <= d /\ d < p * (d \div p) + p
BY SMT

\* The next deadline lies on the grid, ahead, and by one period at most.
LEMMA AdvanceIsNext ==
    ASSUME NEW deadline \in Nat, NEW finished \in Nat, deadline <= finished
    PROVE  /\ Advance(deadline, finished).deadline \in Nat
           /\ Advance(deadline, finished).skipped \in Nat
           /\ Advance(deadline, finished).deadline =
                deadline + Interval + Interval * Advance(deadline, finished).skipped
           /\ Advance(deadline, finished).deadline > finished
           /\ Advance(deadline, finished).deadline <= finished + Interval
<1> DEFINE next == deadline + Interval
           q == (finished - next) \div Interval
<1>1. Interval \in Nat \ {0} /\ next \in Nat
  BY TickParameters
<1>2. CASE next > finished
  <2>1. Advance(deadline, finished).deadline = next + Interval * 0
        /\ Advance(deadline, finished).skipped = 0
    BY <1>2 DEF Advance
  <2> QED BY <1>1, <1>2, <2>1
<1>3. CASE ~(next > finished)
  <2>1. /\ Advance(deadline, finished).skipped = q + 1
        /\ Advance(deadline, finished).deadline = next + Interval * (q + 1)
    BY <1>3 DEF Advance, Skipped
  <2>2. finished - next \in Nat
    BY <1>1, <1>3
  <2>3. q \in Nat /\ Interval * q <= finished - next /\ finished - next < Interval * q + Interval
    BY <1>1, <2>2, Periods
  <2> HIDE DEF q
  <2>4. Interval * (q + 1) = Interval * q + Interval /\ Interval * q \in Nat
    BY <1>1, <2>3
  <2> QED BY <1>1, <2>1, <2>2, <2>3, <2>4
<1> QED BY <1>2, <1>3

\* The events of a batch, one after the other.
LEMMA BatchTail ==
    ASSUME NEW queue \in Seq(Source), queue # <<>>
    PROVE  /\ Head(queue) \in Source /\ Tail(queue) \in Seq(Source)
           /\ ToSet(queue) = {Head(queue)} \cup ToSet(Tail(queue))
<1>1. /\ Head(queue) \in Source /\ Tail(queue) \in Seq(Source) /\ Head(queue) = queue[1]
      /\ Len(queue) \in Nat \ {0} /\ Len(Tail(queue)) = Len(queue) - 1
      /\ \A i \in 1..Len(Tail(queue)) : Tail(queue)[i] = queue[i + 1]
  BY HeadTailProperties
<1>2. DOMAIN queue = 1..Len(queue) /\ DOMAIN Tail(queue) = 1..Len(Tail(queue))
  BY <1>1
<1>3. ASSUME NEW i \in 1..Len(queue), i # 1 PROVE queue[i] \in ToSet(Tail(queue))
  <2>1. i - 1 \in 1..Len(Tail(queue)) /\ (i - 1) + 1 = i
    BY <1>1, <1>3
  <2> QED BY <1>1, <1>2, <2>1 DEF ToSet
<1>4. ASSUME NEW i \in 1..Len(Tail(queue)) PROVE Tail(queue)[i] \in ToSet(queue)
  BY <1>1, <1>2, <1>4 DEF ToSet
<1>5. queue[1] \in ToSet(queue)
  BY <1>1, <1>2 DEF ToSet
<1>6. ToSet(queue) \subseteq {Head(queue)} \cup ToSet(Tail(queue))
  BY <1>1, <1>2, <1>3 DEF ToSet
<1>7. ToSet(Tail(queue)) \subseteq ToSet(queue)
  BY <1>2, <1>4 DEF ToSet
<1> QED BY <1>1, <1>5, <1>6, <1>7

LEMMA BatchOrders ==
    /\ ToSet(<<>>) = {}
    /\ ToSet(<<"timer">>) = {"timer"} /\ ToSet(<<"signal">>) = {"signal"}
    /\ ToSet(<<"timer", "signal">>) = Source /\ ToSet(<<"signal", "timer">>) = Source
<1>1. \A queue : Len(queue) = 0 /\ queue \in Seq(Source) => ToSet(queue) = {}
  BY DEF ToSet
<1>2. \A a \in Source : ToSet(<<a>>) = {a}
  BY DEF ToSet
<1>3. \A a, b \in Source : ToSet(<<a, b>>) = {a, b}
  BY DEF ToSet
<1>4. ToSet(<<>>) = {}
  <2>1. <<>> \in Seq(Source) /\ Len(<<>>) = 0
    OBVIOUS
  <2> HIDE DEF ToSet
  <2> QED BY <1>1, <2>1, Zenon
<1>5. "timer" \in Source /\ "signal" \in Source /\ Source = {"timer", "signal"}
  BY DEF Source
<1>6. ToSet(<<"timer">>) = {"timer"} /\ ToSet(<<"signal">>) = {"signal"}
  BY <1>2, <1>5
<1>7. ToSet(<<"timer", "signal">>) = {"timer", "signal"}
  BY <1>3, <1>5
<1>8. ToSet(<<"signal", "timer">>) = {"signal", "timer"}
  BY <1>3, <1>5
<1> QED BY <1>4, <1>5, <1>6, <1>7, <1>8

LEMMA BatchTyped ==
    ASSUME NEW queue \in Seq(Source)
    PROVE  ToSet(queue) \subseteq Source
BY DEF ToSet

\* A sample is appended while there is room, and counted otherwise.
LEMMA RecordedSample ==
    ASSUME NEW r \in [samples : Seq(Sample), dropped : Nat, finished : BOOLEAN],
           NEW s \in Sample, ~r.finished, Len(r.samples) <= Capacity
    PROVE  /\ Recorded(r, s) \in [samples : Seq(Sample), dropped : Nat, finished : BOOLEAN]
           /\ ~Recorded(r, s).finished
           /\ Len(Recorded(r, s).samples) <= Capacity
           /\ Len(Recorded(r, s).samples) + Recorded(r, s).dropped = Len(r.samples) + r.dropped + 1
           /\ \/ /\ Len(r.samples) = Capacity
                 /\ Recorded(r, s).samples = r.samples
              \/ /\ Len(r.samples) < Capacity
                 /\ Recorded(r, s).dropped = r.dropped
                 /\ Len(Recorded(r, s).samples) = Len(r.samples) + 1
                 /\ \A i \in 1..Len(r.samples) : Recorded(r, s).samples[i] = r.samples[i]
                 /\ Recorded(r, s).samples[Len(r.samples) + 1] = s
<1>1. /\ Append(r.samples, s) \in Seq(Sample) /\ Len(r.samples) \in Nat
      /\ Len(Append(r.samples, s)) = Len(r.samples) + 1
      /\ \A i \in 1..Len(r.samples) : Append(r.samples, s)[i] = r.samples[i]
      /\ Append(r.samples, s)[Len(r.samples) + 1] = s
  BY AppendProperties
<1>2. CASE Len(r.samples) = Capacity
  <2>1. Recorded(r, s) = [r EXCEPT !.dropped = @ + 1]
    BY <1>2 DEF Recorded
  <2>2. /\ Recorded(r, s) \in [samples : Seq(Sample), dropped : Nat, finished : BOOLEAN]
        /\ Recorded(r, s).samples = r.samples /\ Recorded(r, s).dropped = r.dropped + 1
        /\ Recorded(r, s).finished = r.finished
    BY <2>1
  <2>3. r.dropped \in Nat
    OBVIOUS
  <2> QED BY <1>1, <1>2, <2>2, <2>3
<1>3. CASE Len(r.samples) # Capacity
  <2>1. Recorded(r, s) = [r EXCEPT !.samples = Append(@, s)]
    BY <1>3 DEF Recorded
  <2>2. Len(r.samples) < Capacity
    BY <1>1, <1>3, TickParameters
  <2>3. /\ Recorded(r, s) \in [samples : Seq(Sample), dropped : Nat, finished : BOOLEAN]
        /\ Recorded(r, s).samples = Append(r.samples, s) /\ Recorded(r, s).dropped = r.dropped
        /\ Recorded(r, s).finished = r.finished
    BY <1>1, <2>1
  <2> QED BY <1>1, <2>2, <2>3, TickParameters
<1> QED BY <1>2, <1>3

----------------------------------------------------------------------------
(* What steps leave alone *)

\* Between ticks: the schedule and the recording rest.
LEMMA TicksRest ==
    ASSUME ProcessInv, UNCHANGED <<now, tickVars>>,
           at' = at \/ (at \notin Tick /\ at' \notin Tick),
           at' \in Boot => at \in Boot, at' = "started" => at \in Boot \cup {"started"},
           at' = "started" => at = "started",
           running' => running \/ at = "started"
    PROVE  GridInv' /\ SampleInv' /\ RecordInv'
<1> USE DEF ProcessInv
<1>1. UNCHANGED <<now, sweep_schedule, sweep_timer, origin, started, sample, next_tick_id, stats,
                  recorder, first>>
  BY DEF tickVars
<1>2. GridInv'
  BY <1>1 DEF GridInv, Tick
<1>3. SampleInv'
  BY <1>1 DEF SampleInv, Tick, Phases
<1>4. at' \in Phases <=> at \in Phases
  BY DEF Tick
<1>5. RecordInv'
  BY <1>1, <1>4 DEF RecordInv, RecordingSerializable
<1> QED BY <1>2, <1>3, <1>5

\* In a tick: signals and the policy rest.
LEMMA SignalsRest ==
    ASSUME ProcessInv, UNCHANGED <<signalVars, policyVars, signal_source>>,
           at \notin Draining \cup Ended \cup {"unwinding"}, at' \notin Ended,
           "signal" \in ToSet(batch) => "signal" \in ToSet(batch') \/ at' = "unwinding",
           at' = "unwinding" \/ at' \notin Draining
    PROVE  SignalInv'
BY DEF ProcessInv, SignalInv, signalVars, policyVars, Draining, Ended

\* The parts of the type that most steps leave alone.
LEMMA TypesRest ==
    ASSUME ProcessInv,
           UNCHANGED <<now, sweep_schedule, sweep_timer, origin, started, sample, next_tick_id, stats,
                       recorder, first>>,
           running' \in BOOLEAN, signal_source' \in BOOLEAN, edge' \in BOOLEAN,
           at' \in Phases \cup Ended \cup
             {"new", "starting", "scheduling", "started", "wait", "batch", "rescheduling",
              "draining", "reloading", "stopping", "unwinding", "dumping"},
           batch' \in Seq(Source), pending' \subseteq ToSet(Signals),
           policy' \in Valid \cup {NoPolicy}, file' \in Valid \cup Broken,
           controller_error' \in BOOLEAN, announced' \in BOOLEAN
    PROVE  ControllerTypeOK' /\ DataInv'
<1>1. ToSet(batch') \subseteq {"timer", "signal"}
  BY BatchTyped DEF Source
<1> QED BY <1>1 DEF ProcessInv, ControllerTypeOK, DataInv

\* What a state of the process is, in types that provers use: the clocks,
LEMMA ClockTypes ==
    ASSUME ProcessInv
    PROVE  /\ now \in Nat /\ now <= MaxNow /\ origin \in Nat /\ now - origin \in Nat
           /\ started \in Nat /\ started <= now
           /\ sweep_schedule \in Nat /\ sweep_timer \in Nat /\ first \in Nat
           /\ stats.sum \in Nat /\ stats.sum <= now
<1>1. now \in 0..MaxNow /\ {sweep_schedule, sweep_timer, first} \subseteq Times
      /\ {origin, started} \subseteq 0..MaxNow
      /\ stats \in [lateness : Nat, work : Nat, sum : 0..MaxNow, skipped : Nat]
  BY DEF ProcessInv, ControllerTypeOK
<1>2. started <= now /\ origin <= now /\ stats.sum <= now
  BY DEF ProcessInv, GridInv
<1>3. stats.sum \in 0..MaxNow
  BY <1>1
<1> QED BY <1>1, <1>2, <1>3, TickParameters DEF Times

\* the recorder,
LEMMA RecorderTypes ==
    ASSUME ProcessInv
    PROVE  /\ recorder \in [samples : Seq(Sample), dropped : Nat, finished : BOOLEAN]
           /\ Len(recorder.samples) \in Nat /\ Len(recorder.samples) <= Capacity
           /\ Len(recorder.samples) + recorder.dropped \in Nat
           /\ DOMAIN recorder.samples = 1..Len(recorder.samples)
           /\ \A i \in 1..Len(recorder.samples) : recorder.samples[i] \in Sample
<1>1. recorder \in [samples : Seq(Sample), dropped : Nat, finished : BOOLEAN]
  BY DEF ProcessInv, DataInv
<1>2. recorder.samples \in Seq(Sample) /\ recorder.dropped \in Nat
  BY <1>1
<1>3. Len(recorder.samples) <= Capacity
  BY DEF ProcessInv, ControllerTypeOK
<1>4. /\ Len(recorder.samples) \in Nat /\ DOMAIN recorder.samples = 1..Len(recorder.samples)
      /\ \A i \in 1..Len(recorder.samples) : recorder.samples[i] \in Sample
  BY <1>2
<1>5. Len(recorder.samples) + recorder.dropped \in Nat
  BY <1>2, <1>4
<1> QED BY <1>1, <1>3, <1>4, <1>5

\* and what a tick counts.
LEMMA TallyTypes ==
    ASSUME ProcessInv
    PROVE  /\ stats \in [lateness : Nat, work : Nat, sum : Nat, skipped : Nat]
           /\ sample \in Sample /\ next_tick_id \in Nat /\ next_tick_id # 0
           /\ batch \in Seq(Source)
<1>1. stats \in [lateness : Nat, work : Nat, sum : 0..MaxNow, skipped : Nat]
  BY DEF ProcessInv, ControllerTypeOK
<1>2. stats \in [lateness : Nat, work : Nat, sum : Nat, skipped : Nat]
  BY <1>1, TickParameters
<1>3. sample \in Sample /\ next_tick_id \in Nat /\ next_tick_id # 0 /\ batch \in Seq(Source)
  BY DEF ProcessInv, DataInv
<1> QED BY <1>2, <1>3

----------------------------------------------------------------------------
(* The invariant holds initially and is kept, action by action *)

LEMMA NoSampleTyped == NoSample \in Sample
BY DEF NoSample, Sample, Outcomes

LEMMA ProcessStarts == ControllerInit => ProcessInv
<1> SUFFICES ASSUME ControllerInit PROVE ProcessInv
  OBVIOUS
<1>1. 0 \in 0..MaxNow /\ 0 \in Times /\ 0 <= MaxNow + Interval /\ 0 <= Capacity
  BY TickParameters DEF Times
<1>2. /\ batch = <<>> /\ batch \in Seq(Source) /\ ToSet(batch) = {}
      /\ recorder = [samples |-> <<>>, dropped |-> 0, finished |-> FALSE]
      /\ recorder.samples = <<>> /\ Len(recorder.samples) = 0 /\ recorder.samples \in Seq(Sample)
      /\ DOMAIN recorder.samples = {} /\ recorder.dropped = 0 /\ recorder.finished = FALSE
  BY BatchOrders DEF ControllerInit
<1>3. stats = [lateness |-> 0, work |-> 0, sum |-> 0, skipped |-> 0] /\ sample = NoSample
      /\ NoSample.id = 0
  BY DEF ControllerInit, NoSample
<1>4. running \in BOOLEAN /\ signal_source \in BOOLEAN /\ edge \in BOOLEAN
      /\ controller_error \in BOOLEAN /\ announced \in BOOLEAN
  BY Zenon DEF ControllerInit
<1>5. ControllerTypeOK
  BY <1>1, <1>2, <1>3, <1>4 DEF ControllerInit, ControllerTypeOK
<1>6. DataInv
  BY <1>2, <1>3, NoSampleTyped DEF ControllerInit, DataInv
<1>7. PlaceInv
  BY <1>2 DEF ControllerInit, PlaceInv, Boot, Tick, Phases, Draining, Loop
<1>8. GridInv /\ SampleInv
  BY <1>1, <1>3 DEF ControllerInit, GridInv, SampleInv, Boot, Tick, Phases
<1>9. RecordInv
  BY <1>1, <1>2 DEF ControllerInit, RecordInv, RecordingSerializable, Phases
<1>10. SignalInv
  BY DEF ControllerInit, SignalInv
<1> QED BY <1>5, <1>6, <1>7, <1>8, <1>9, <1>10 DEF ProcessInv

LEMMA PlainMoves ==
    ASSUME ProcessInv,
           StartSignals \/ StartFails \/ Run \/ BatchDone \/ DrainDone \/ RunReturns \/ Reload
    PROVE  ProcessInv'
<1> USE DEF GoTo, signalVars, policyVars
<1>1. CASE StartSignals
  <2>1. ControllerTypeOK' /\ DataInv'
    <3>1. UNCHANGED <<now, sweep_schedule, sweep_timer, origin, started, sample, next_tick_id, stats,
                      recorder, first>>
      BY <1>1 DEF StartSignals, tickVars
    <3> QED BY <1>1, <3>1, TypesRest DEF StartSignals, ProcessInv, ControllerTypeOK, DataInv
  <2>2. GridInv' /\ SampleInv' /\ RecordInv'
    BY <1>1, TicksRest DEF StartSignals, Tick, Phases, Boot, processVars
  <2>3. PlaceInv'
    BY <1>1 DEF StartSignals, ProcessInv, PlaceInv, GridInv, Boot, Tick, Phases, Draining, Loop, tickVars
  <2>4. SignalInv'
    BY <1>1, BatchOrders DEF StartSignals, ProcessInv, SignalInv, PlaceInv, Boot, Tick, Phases, Draining, Ended
  <2> QED BY <2>1, <2>2, <2>3, <2>4 DEF ProcessInv
<1>2. CASE StartFails
  <2>1. ControllerTypeOK' /\ DataInv'
    <3>1. UNCHANGED <<now, sweep_schedule, sweep_timer, origin, started, sample, next_tick_id, stats,
                      recorder, first>>
      BY <1>2 DEF StartFails, tickVars
    <3> QED BY <1>2, <3>1, TypesRest DEF StartFails, ProcessInv, ControllerTypeOK, DataInv
  <2>2. GridInv' /\ SampleInv' /\ RecordInv'
    BY <1>2, TicksRest DEF StartFails, Tick, Phases, Boot, processVars
  <2>3. PlaceInv'
    BY <1>2 DEF StartFails, ProcessInv, PlaceInv, GridInv, Boot, Tick, Phases, Draining, Loop, tickVars
  <2>4. SignalInv'
    BY <1>2, BatchOrders DEF StartFails, ProcessInv, SignalInv, PlaceInv, Boot, Tick, Phases, Draining, Ended
  <2> QED BY <2>1, <2>2, <2>3, <2>4 DEF ProcessInv
<1>3. CASE Run
  <2>1. ControllerTypeOK' /\ DataInv'
    <3>1. UNCHANGED <<now, sweep_schedule, sweep_timer, origin, started, sample, next_tick_id, stats,
                      recorder, first>>
      BY <1>3 DEF Run, tickVars
    <3> QED BY <1>3, <3>1, TypesRest DEF Run, ProcessInv, ControllerTypeOK, DataInv
  <2>2. GridInv' /\ SampleInv' /\ RecordInv'
    BY <1>3, TicksRest DEF Run, Tick, Phases, Boot, processVars
  <2>3. PlaceInv'
    BY <1>3 DEF Run, ProcessInv, PlaceInv, GridInv, Boot, Tick, Phases, Draining, Loop, tickVars
  <2>4. SignalInv'
    BY <1>3, BatchOrders DEF Run, ProcessInv, SignalInv, PlaceInv, Boot, Tick, Phases, Draining, Ended
  <2> QED BY <2>1, <2>2, <2>3, <2>4 DEF ProcessInv
<1>4. CASE BatchDone
  <2>1. ControllerTypeOK' /\ DataInv'
    <3>1. UNCHANGED <<now, sweep_schedule, sweep_timer, origin, started, sample, next_tick_id, stats,
                      recorder, first>>
      BY <1>4 DEF BatchDone, tickVars
    <3> QED BY <1>4, <3>1, TypesRest DEF BatchDone, ProcessInv, ControllerTypeOK, DataInv
  <2>2. GridInv' /\ SampleInv' /\ RecordInv'
    BY <1>4, TicksRest DEF BatchDone, Tick, Phases, Boot, processVars
  <2>3. PlaceInv'
    BY <1>4 DEF BatchDone, ProcessInv, PlaceInv, GridInv, Boot, Tick, Phases, Draining, Loop, tickVars
  <2>4. SignalInv'
    BY <1>4, BatchOrders DEF BatchDone, ProcessInv, SignalInv, PlaceInv, Boot, Tick, Phases, Draining, Ended
  <2> QED BY <2>1, <2>2, <2>3, <2>4 DEF ProcessInv
<1>5. CASE DrainDone
  <2>1. ControllerTypeOK' /\ DataInv'
    <3>1. UNCHANGED <<now, sweep_schedule, sweep_timer, origin, started, sample, next_tick_id, stats,
                      recorder, first>>
      BY <1>5 DEF DrainDone, tickVars
    <3> QED BY <1>5, <3>1, TypesRest DEF DrainDone, ProcessInv, ControllerTypeOK, DataInv
  <2>2. GridInv' /\ SampleInv' /\ RecordInv'
    BY <1>5, TicksRest DEF DrainDone, Tick, Phases, Boot, processVars
  <2>3. PlaceInv'
    BY <1>5 DEF DrainDone, ProcessInv, PlaceInv, GridInv, Boot, Tick, Phases, Draining, Loop, tickVars
  <2>4. SignalInv'
    BY <1>5, BatchOrders DEF DrainDone, ProcessInv, SignalInv, PlaceInv, Boot, Tick, Phases, Draining, Ended
  <2> QED BY <2>1, <2>2, <2>3, <2>4 DEF ProcessInv
<1>6. CASE RunReturns
  <2>1. ControllerTypeOK' /\ DataInv'
    <3>1. UNCHANGED <<now, sweep_schedule, sweep_timer, origin, started, sample, next_tick_id, stats,
                      recorder, first>>
      BY <1>6 DEF RunReturns, tickVars
    <3> QED BY <1>6, <3>1, TypesRest DEF RunReturns, ProcessInv, ControllerTypeOK, DataInv
  <2>2. GridInv' /\ SampleInv' /\ RecordInv'
    BY <1>6, TicksRest DEF RunReturns, Tick, Phases, Boot, processVars
  <2>3. PlaceInv'
    BY <1>6 DEF RunReturns, ProcessInv, PlaceInv, GridInv, Boot, Tick, Phases, Draining, Loop, tickVars
  <2>4. SignalInv'
    BY <1>6, BatchOrders DEF RunReturns, ProcessInv, SignalInv, PlaceInv, Boot, Tick, Phases, Draining, Ended
  <2> QED BY <2>1, <2>2, <2>3, <2>4 DEF ProcessInv
<1>7. CASE Reload
  <2>1. ControllerTypeOK' /\ DataInv'
    <3>1. UNCHANGED <<now, sweep_schedule, sweep_timer, origin, started, sample, next_tick_id, stats,
                      recorder, first>>
      BY <1>7 DEF Reload, tickVars
    <3> QED BY <1>7, <3>1, TypesRest DEF Reload, ProcessInv, ControllerTypeOK, DataInv, LoadPolicy, Loaded, AfterReload
  <2>2. GridInv' /\ SampleInv' /\ RecordInv'
    BY <1>7, TicksRest DEF Reload, AfterReload, Tick, Phases, Boot, processVars
  <2>3. PlaceInv'
    BY <1>7 DEF Reload, AfterReload, ProcessInv, PlaceInv, GridInv, Boot, Tick, Phases, Draining, Loop, tickVars
  <2>4. SignalInv'
    BY <1>7, BatchOrders DEF Reload, ProcessInv, SignalInv, PlaceInv, Boot, Tick, Phases, Draining, Ended, LoadPolicy, Loaded, AfterReload
  <2> QED BY <2>1, <2>2, <2>3, <2>4 DEF ProcessInv
<1> QED BY <1>1, <1>2, <1>3, <1>4, <1>5, <1>6, <1>7

LEMMA RunOnceKeeps == ASSUME ProcessInv, RunOnce PROVE ProcessInv'
<1>1. PICK order \in {<<"timer">>, <<"signal">>, <<"timer", "signal">>, <<"signal", "timer">>} :
         /\ ToSet(order) = {s \in {"timer", "signal"} : IF s = "timer" THEN TimerDue ELSE edge}
         /\ batch' = order
  BY Zenon DEF RunOnce
<1>2. batch' \in Seq(Source)
  <2>1. \A a, b \in Source : <<a>> \in Seq(Source) /\ <<a, b>> \in Seq(Source)
    OBVIOUS
  <2>2. "timer" \in Source /\ "signal" \in Source
    BY DEF Source
  <2> QED BY <1>1, <2>1, <2>2, Zenon
<1>3. edge => "signal" \in ToSet(batch')
  <2>1. "signal" # "timer"
    OBVIOUS
  <2> QED BY <1>1, <2>1, Zenon
<1>4. ControllerTypeOK' /\ DataInv'
  <2>1. UNCHANGED <<now, sweep_schedule, sweep_timer, origin, started, sample, next_tick_id, stats,
                    recorder, first>>
    BY DEF RunOnce, tickVars
  <2> QED BY <1>2, <2>1, TypesRest
          DEF RunOnce, GoTo, policyVars, ProcessInv, ControllerTypeOK, DataInv
<1>5. GridInv' /\ SampleInv' /\ RecordInv'
  BY TicksRest DEF RunOnce, GoTo, Tick, Phases, Boot
<1>6. PlaceInv'
  BY DEF RunOnce, GoTo, ProcessInv, PlaceInv, Boot, Tick, Phases, Draining, Loop, tickVars
<1>7. SignalInv'
  <2>1. ToSet(batch) = {}
    BY BatchOrders DEF RunOnce, ProcessInv, PlaceInv
  <2> QED BY <1>3, <2>1
          DEF RunOnce, GoTo, policyVars, ProcessInv, SignalInv, PlaceInv, Draining, Ended
<1> QED BY <1>4, <1>5, <1>6, <1>7 DEF ProcessInv

LEMMA DispatchKeeps == ASSUME ProcessInv, DispatchStale \/ OnSignalReady PROVE ProcessInv'
<1> USE DEF GoTo, signalVars, policyVars
<1>1. /\ Tail(batch) \in Seq(Source) /\ ToSet(batch) = {Head(batch)} \cup ToSet(Tail(batch))
      /\ batch' = Tail(batch) /\ at = "batch"
  BY BatchTail DEF DispatchStale, OnSignalReady, ProcessInv, DataInv
<1>2. UNCHANGED <<now, sweep_schedule, sweep_timer, origin, started, sample, next_tick_id, stats,
                  recorder, first>> /\ UNCHANGED <<now, tickVars>>
  BY DEF DispatchStale, OnSignalReady, tickVars
<1>3. ControllerTypeOK' /\ DataInv'
  BY <1>1, <1>2, TypesRest DEF DispatchStale, OnSignalReady, ProcessInv, ControllerTypeOK, DataInv
<1>4. GridInv' /\ SampleInv' /\ RecordInv'
  BY <1>1, <1>2, TicksRest DEF DispatchStale, OnSignalReady, Tick, Phases, Boot
<1>5. PlaceInv'
  BY <1>1, <1>2 DEF DispatchStale, OnSignalReady, ProcessInv, PlaceInv, Boot, Tick, Phases,
                    Draining, Loop
<1>6. SignalInv'
  <2>1. CASE OnSignalReady
    BY <1>1, <2>1 DEF OnSignalReady, ProcessInv, SignalInv, PlaceInv, Draining, Ended
  <2>2. CASE DispatchStale
    <3>1. signal_source => Head(batch) # "signal"
      BY <2>2 DEF DispatchStale
    <3> QED BY <1>1, <2>2, <3>1 DEF DispatchStale, ProcessInv, SignalInv, Draining, Ended
  <2> QED BY <2>1, <2>2
<1> QED BY <1>3, <1>4, <1>5, <1>6 DEF ProcessInv

LEMMA DrainSignalKeeps == ASSUME ProcessInv, DrainSignal PROVE ProcessInv'
<1> USE DEF GoTo, policyVars
<1>1. PICK s : /\ pending' = pending \ {s}
               /\ at' = (IF s = "SIGHUP" THEN "reloading" ELSE "stopping")
  BY DEF DrainSignal, Unread
<1>2. UNCHANGED <<now, sweep_schedule, sweep_timer, origin, started, sample, next_tick_id, stats,
                  recorder, first>> /\ UNCHANGED <<now, tickVars>>
  BY DEF DrainSignal, tickVars
<1>3. /\ at = "draining"
      /\ UNCHANGED <<running, batch, signal_source, controller_error, edge, policy, file, announced>>
  BY DEF DrainSignal
<1>4. ControllerTypeOK' /\ DataInv'
  BY <1>1, <1>2, <1>3, TypesRest DEF ProcessInv, ControllerTypeOK, DataInv
<1>5. GridInv' /\ SampleInv' /\ RecordInv'
  BY <1>1, <1>2, <1>3, TicksRest DEF Tick, Phases, Boot
<1>6. PlaceInv'
  BY <1>1, <1>2, <1>3 DEF ProcessInv, PlaceInv, Boot, Tick, Phases, Draining, Loop
<1>7. SignalInv'
  BY <1>1, <1>3 DEF ProcessInv, SignalInv, Draining, Ended
<1> QED BY <1>4, <1>5, <1>6, <1>7 DEF ProcessInv

----------------------------------------------------------------------------
(* Boot and the end *)

LEMMA StartPolicyKeeps == ASSUME ProcessInv, StartPolicy PROVE ProcessInv'
<1> USE DEF GoTo, LoadPolicy, Loaded
<1>1. /\ now \in Nat /\ now <= MaxNow /\ stats.lateness = 0 /\ stats.skipped = 0 /\ first = 0
      /\ next_tick_id = 1 /\ Len(recorder.samples) \in Nat /\ recorder.dropped \in Nat
  <2>1. now \in Nat /\ now <= MaxNow
    BY ClockTypes
  <2>2. Len(recorder.samples) \in Nat /\ recorder.dropped \in Nat
    BY RecorderTypes
  <2> QED BY <2>1, <2>2 DEF StartPolicy, ProcessInv, GridInv, RecordInv, Boot
<1>2. Len(recorder.samples) = 0 /\ recorder.samples \in Seq(Sample)
  <2>1. recorder.samples \in Seq(Sample)
    BY RecorderTypes
  <2> QED BY <1>1, <2>1 DEF StartPolicy, ProcessInv, RecordInv, Phases
<1>3. ControllerTypeOK' /\ DataInv'
  BY <1>1 DEF StartPolicy, signalVars, ProcessInv, ControllerTypeOK, DataInv
<1>4. GridInv' /\ SampleInv'
  BY <1>1 DEF StartPolicy, ProcessInv, GridInv, SampleInv, Boot, Tick, Phases
<1>5. PlaceInv'
  BY DEF StartPolicy, ProcessInv, PlaceInv, Boot, Tick, Phases, Draining, Loop
<1>6. RecordInv'
  <2>1. DOMAIN recorder.samples = {} /\ 1..Len(recorder.samples) = {}
    BY <1>2
  <2> QED BY <1>1, <1>2, <2>1
          DEF StartPolicy, ProcessInv, RecordInv, RecordingSerializable, Phases
<1>7. SignalInv'
  BY BatchOrders DEF StartPolicy, signalVars, ProcessInv, PlaceInv, SignalInv, Boot, Draining, Ended
<1> QED BY <1>3, <1>4, <1>5, <1>6, <1>7 DEF ProcessInv

LEMMA StartScheduleKeeps == ASSUME ProcessInv, StartSchedule PROVE ProcessInv'
<1> USE DEF GoTo, policyVars, signalVars
<1>1. /\ now \in Nat /\ now <= MaxNow /\ stats.lateness = 0 /\ stats.skipped = 0 /\ first = 0
      /\ next_tick_id = 1 /\ stats.sum <= now /\ origin <= now /\ started <= now
  BY ClockTypes DEF StartSchedule, ProcessInv, GridInv, RecordInv, Boot
<1>2. now + Interval \in Times /\ now + Interval <= MaxNow + Interval /\ now + Interval # 0
      /\ Interval * (0 + 0) = 0
  BY <1>1, TickParameters DEF Times
<1>3. ControllerTypeOK' /\ DataInv'
  BY <1>2 DEF StartSchedule, ProcessInv, ControllerTypeOK, DataInv
<1>4. GridInv' /\ SampleInv'
  BY <1>1, <1>2, TickParameters DEF StartSchedule, ProcessInv, GridInv, SampleInv, Boot, Tick, Phases
<1>5. PlaceInv'
  BY <1>2 DEF StartSchedule, ProcessInv, PlaceInv, Boot, Tick, Phases, Draining, Loop
<1>6. RecordInv'
  BY <1>1, <1>2 DEF StartSchedule, ProcessInv, RecordInv, RecordingSerializable, Phases
<1>7. SignalInv'
  BY DEF StartSchedule, ProcessInv, PlaceInv, SignalInv, Boot, Draining, Ended
<1> QED BY <1>3, <1>4, <1>5, <1>6, <1>7 DEF ProcessInv

----------------------------------------------------------------------------
(* A tick *)


LEMMA OnExpiredKeeps == ASSUME ProcessInv, OnExpired PROVE ProcessInv'
<1> USE DEF GoTo
<1>1. /\ Tail(batch) \in Seq(Source) /\ ToSet(batch) = {Head(batch)} \cup ToSet(Tail(batch))
      /\ Head(batch) = "timer" /\ ToSet(Tail(batch)) \subseteq {"timer", "signal"}
  BY BatchTail, BatchTyped DEF OnExpired, ProcessInv, DataInv, Source
<1>2. /\ sweep_timer # 0 /\ sweep_timer <= now /\ running /\ first # 0 /\ signal_source
      /\ sweep_timer = sweep_schedule
      /\ sweep_schedule = first + Interval * (stats.lateness + stats.skipped)
  BY DEF OnExpired, TimerDue, ProcessInv, PlaceInv, GridInv, Loop, Tick, Phases
<1>3. sample' = [id |-> next_tick_id, started |-> now - origin, command |-> 0, session |-> 0,
                 policy |-> 0, finished |-> 0, outcome |-> "completed"]
  BY DEF OnExpired, NoSample
<1>4. /\ stats' = [stats EXCEPT !.lateness = @ + 1]
      /\ stats' \in [lateness : Nat, work : Nat, sum : 0..MaxNow, skipped : Nat]
      /\ stats'.lateness = stats.lateness + 1 /\ stats'.skipped = stats.skipped
      /\ stats'.sum = stats.sum
  <2>1. stats \in [lateness : Nat, work : Nat, sum : 0..MaxNow, skipped : Nat]
    BY DEF ProcessInv, ControllerTypeOK
  <2>2. stats' = [stats EXCEPT !.lateness = @ + 1]
    BY DEF OnExpired
  <2> QED BY <2>1, <2>2
<1>5. now \in Nat /\ now - origin \in Nat /\ next_tick_id \in Nat \ {0} /\ sample' \in Sample
      /\ stats.sum \in Nat /\ stats.sum <= now
  <2>1. /\ now \in Nat /\ now - origin \in Nat /\ next_tick_id \in Nat /\ next_tick_id # 0
        /\ stats.sum \in Nat /\ stats.sum <= now
    BY ClockTypes, TallyTypes
  <2>2. sample' \in Sample
    BY <1>3, <2>1 DEF Sample, Outcomes
  <2> QED BY <2>1, <2>2
<1> DEFINE sampled == sample'
<1>0. /\ sampled.id = next_tick_id /\ sampled.started = now - origin /\ sampled.command = 0
      /\ sampled.session = 0 /\ sampled.policy = 0 /\ sampled.finished = 0
      /\ sampled.outcome = "completed"
  BY <1>3
<1>6. ControllerTypeOK'
  <2>1. 0 \in Times
    BY TickParameters DEF Times
  <2>2. sample'.id < next_tick_id'
    BY <1>5, <1>0 DEF OnExpired
  <2> QED BY <1>1, <1>4, <2>1, <2>2
          DEF OnExpired, signalVars, policyVars, ProcessInv, ControllerTypeOK, Phases
<1>7. DataInv'
  BY <1>1, <1>5 DEF OnExpired, ProcessInv, DataInv
<1>8. PlaceInv'
  BY <1>2 DEF OnExpired, ProcessInv, PlaceInv, Boot, Tick, Phases, Draining, Loop
<1>9. GridInv'
  <2>1. sweep_schedule + Interval = first + Interval * (stats.lateness + 1 + stats.skipped)
    <3>1. /\ Interval \in Nat /\ first \in Nat /\ stats.lateness \in Nat /\ stats.skipped \in Nat
          /\ sweep_schedule \in Nat
      BY ClockTypes, TallyTypes, TickParameters
    <3>2. \A l, k \in Nat : Interval * (l + 1 + k) = Interval * (l + k) + Interval
      BY TickParameters
    <3>3. Interval * (stats.lateness + 1 + stats.skipped)
            = Interval * (stats.lateness + stats.skipped) + Interval
      BY <3>1, <3>2
    <3>4. Interval * (stats.lateness + stats.skipped) \in Nat
      BY <3>1
    <3> QED BY <1>2, <3>1, <3>3, <3>4
  <2> QED BY <1>2, <1>4, <1>5, <2>1 DEF OnExpired, ProcessInv, GridInv, Boot, Tick, Phases
<1>10. SampleInv'
  <2>1. sample'.id = next_tick_id' - 1
    BY <1>5, <1>0 DEF OnExpired
  <2> QED BY <1>5, <1>0, <2>1 DEF OnExpired, SampleInv, Phases
<1>11. RecordInv'
  BY <1>2, <1>3, <1>5 DEF OnExpired, ProcessInv, RecordInv, RecordingSerializable, Phases
<1>12. SignalInv'
  BY <1>1, SignalsRest DEF OnExpired, Draining, Ended
<1> QED BY <1>6, <1>7, <1>8, <1>9, <1>10, <1>11, <1>12 DEF ProcessInv

LEMMA PhaseEndsKeeps == ASSUME ProcessInv, CommandSweepEnds \/ SessionSweepEnds PROVE ProcessInv'
<1> USE DEF GoTo
<1>1. /\ now \in Nat /\ now - origin \in Nat /\ sample \in Sample
      /\ \A i \in 1..Len(recorder.samples) : recorder.samples[i] \in Sample
  <2>1. now \in Nat /\ now - origin \in Nat
    BY ClockTypes
  <2>2. sample \in Sample
    BY TallyTypes
  <2> QED BY <2>1, <2>2, RecorderTypes
<1>2. /\ sample' \in Sample /\ sample'.id = sample.id /\ sample'.started = sample.started
      /\ sample'.policy = sample.policy /\ sample'.finished = sample.finished
      /\ sample'.outcome = sample.outcome
      /\ CommandSweepEnds => sample'.command = now - origin /\ sample'.session = sample.session
      /\ SessionSweepEnds => sample'.session = now - origin /\ sample'.command = sample.command
  BY <1>1 DEF CommandSweepEnds, SessionSweepEnds, Sample
<1>3. /\ UNCHANGED <<now, running, batch, signal_source, controller_error, origin, started, stats,
                     recorder, first, sweep_schedule, sweep_timer, next_tick_id>>
      /\ UNCHANGED <<signalVars, policyVars>>
      /\ at \in Phases /\ at' \in Phases
  BY DEF CommandSweepEnds, SessionSweepEnds, Phases
<1>4. ControllerTypeOK' /\ DataInv'
  BY <1>2, <1>3 DEF ProcessInv, ControllerTypeOK, DataInv, signalVars, policyVars
<1>5. PlaceInv' /\ GridInv'
  BY <1>3 DEF ProcessInv, PlaceInv, GridInv, Boot, Tick, Phases, Draining, Loop
<1>6. SampleInv'
  BY <1>1, <1>2, <1>3 DEF CommandSweepEnds, SessionSweepEnds, ProcessInv, SampleInv, Phases
<1>7. RecordInv'
  BY <1>1, <1>2, <1>3 DEF ProcessInv, RecordInv, RecordingSerializable
<1>8. SignalInv'
  BY <1>3, SignalsRest DEF Phases, Draining, Ended
<1> QED BY <1>4, <1>5, <1>6, <1>7, <1>8 DEF ProcessInv

\* The tick is over, in one way or the other: its sample is valid, later than those before,
\* and recorded.
LEMMA RecordingKeeps ==
    ASSUME ProcessInv, at \in Phases, at' = "rescheduling",
           UNCHANGED <<now, running, batch, signal_source, origin, first, next_tick_id>>,
           sample' \in Sample, sample'.id = sample.id, sample'.started = sample.started,
           sample'.finished = now - origin, ValidSample(sample'),
           recorder' = Recorded(recorder, sample')
    PROVE  /\ RecordInv'
           /\ recorder' \in [samples : Seq(Sample), dropped : Nat, finished : BOOLEAN]
           /\ Len(recorder'.samples) <= Capacity /\ ~recorder'.finished
<1>1. /\ recorder \in [samples : Seq(Sample), dropped : Nat, finished : BOOLEAN]
      /\ Len(recorder.samples) \in Nat /\ Len(recorder.samples) <= Capacity
      /\ \A i \in 1..Len(recorder.samples) : recorder.samples[i] \in Sample
      /\ next_tick_id \in Nat \ {0} /\ now - origin \in Nat /\ sample \in Sample
      /\ DOMAIN recorder.samples = 1..Len(recorder.samples)
  <2>1. now - origin \in Nat
    BY ClockTypes
  <2>2. next_tick_id \in Nat \ {0} /\ sample \in Sample
    BY TallyTypes
  <2> QED BY <2>1, <2>2, RecorderTypes
<1>2. ~recorder.finished
  BY DEF ProcessInv, PlaceInv, Phases
<1>3. /\ recorder' \in [samples : Seq(Sample), dropped : Nat, finished : BOOLEAN]
      /\ ~recorder'.finished /\ Len(recorder'.samples) <= Capacity
      /\ Len(recorder'.samples) + recorder'.dropped = Len(recorder.samples) + recorder.dropped + 1
      /\ \/ /\ Len(recorder.samples) = Capacity
            /\ recorder'.samples = recorder.samples
         \/ /\ Len(recorder.samples) < Capacity
            /\ recorder'.dropped = recorder.dropped
            /\ Len(recorder'.samples) = Len(recorder.samples) + 1
            /\ \A i \in 1..Len(recorder.samples) : recorder'.samples[i] = recorder.samples[i]
            /\ recorder'.samples[Len(recorder.samples) + 1] = sample'
  <2> HIDE DEF ProcessInv
  <2> QED BY <1>1, <1>2, RecordedSample
<1>4. /\ RecordingSerializable
      /\ Len(recorder.samples) + recorder.dropped = next_tick_id - 2
      /\ recorder.dropped # 0 => Len(recorder.samples) = Capacity
      /\ first # 0
      /\ \A i \in 1..Len(recorder.samples) :
           /\ recorder.samples[i].finished <= now - origin
           /\ recorder.samples[i].finished <= sample.started
      /\ sample.id = next_tick_id - 1
  BY <1>1 DEF ProcessInv, RecordInv, SampleInv, PlaceInv, Tick
<1>5. recorder.dropped \in Nat /\ recorder'.dropped \in Nat
      /\ recorder'.samples \in Seq(Sample) /\ Len(recorder'.samples) \in Nat
      /\ DOMAIN recorder'.samples = 1..Len(recorder'.samples)
  BY <1>1, <1>3
<1>6. /\ Len(recorder'.samples) + recorder'.dropped = next_tick_id' - 1
      /\ recorder'.dropped # 0 => Len(recorder'.samples) = Capacity
  BY <1>1, <1>3, <1>4, <1>5
<1>7. ASSUME NEW i \in 1..Len(recorder'.samples)
      PROVE  /\ ValidSample(recorder'.samples[i]) /\ recorder'.samples[i].id = i
             /\ i > 1 => recorder'.samples[i - 1].finished <= recorder'.samples[i].started
             /\ recorder'.samples[i].finished <= now' - origin'
  <2>1. CASE recorder'.samples = recorder.samples
    BY <1>1, <1>4, <2>1 DEF RecordingSerializable
  <2>2. CASE /\ Len(recorder.samples) < Capacity
             /\ recorder'.dropped = recorder.dropped
             /\ Len(recorder'.samples) = Len(recorder.samples) + 1
             /\ \A j \in 1..Len(recorder.samples) : recorder'.samples[j] = recorder.samples[j]
             /\ recorder'.samples[Len(recorder.samples) + 1] = sample'
    <3>1. recorder.dropped = 0 /\ sample'.id = Len(recorder.samples) + 1
      <4>1. recorder.dropped = 0
        BY <1>1, <1>4, <2>2
      <4> QED BY <1>1, <1>4, <4>1
    <3>2. CASE i \in 1..Len(recorder.samples)
      <4>1. i > 1 => i - 1 \in 1..Len(recorder.samples)
        BY <1>1, <3>2
      <4> QED BY <1>1, <1>4, <2>2, <3>2, <4>1 DEF RecordingSerializable
    <3>3. CASE i = Len(recorder.samples) + 1
      <4>1. i > 1 => i - 1 \in 1..Len(recorder.samples)
        BY <1>1, <3>3
      <4> QED BY <1>1, <1>4, <2>2, <3>1, <3>3, <4>1
    <3> QED BY <1>1, <2>2, <3>2, <3>3
  <2> QED BY <1>3, <2>1, <2>2
<1>8. RecordInv'
  BY <1>4, <1>5, <1>6, <1>7 DEF RecordInv, RecordingSerializable, Phases
<1> QED BY <1>3, <1>8

LEMMA EndedTickKeeps ==
    ASSUME ProcessInv, at \in Phases, at' = "rescheduling", controller_error' \in BOOLEAN,
           UNCHANGED <<now, running, batch, signal_source, origin, started, first, next_tick_id,
                       sweep_schedule, sweep_timer>>,
           UNCHANGED <<signalVars, policyVars>>,
           sample' \in Sample, sample'.id = sample.id, sample'.started = sample.started,
           sample'.finished = now - origin, ValidSample(sample'),
           recorder' = Recorded(recorder, sample'),
           stats' \in [lateness : Nat, work : Nat, sum : 0..MaxNow, skipped : Nat],
           stats'.lateness = stats.lateness, stats'.skipped = stats.skipped, stats'.sum <= now
    PROVE  ProcessInv'
<1>1. /\ RecordInv'
      /\ recorder' \in [samples : Seq(Sample), dropped : Nat, finished : BOOLEAN]
      /\ Len(recorder'.samples) <= Capacity /\ ~recorder'.finished
  BY RecordingKeeps
<1>2. ControllerTypeOK' /\ DataInv'
  BY <1>1 DEF ProcessInv, ControllerTypeOK, DataInv, signalVars, policyVars
<1>3. PlaceInv' /\ GridInv' /\ SampleInv'
  BY <1>1 DEF ProcessInv, PlaceInv, GridInv, SampleInv, Boot, Tick, Phases, Draining, Loop
<1>4. SignalInv'
  BY SignalsRest DEF Phases, Draining, Ended
<1> QED BY <1>1, <1>2, <1>3, <1>4 DEF ProcessInv

LEMMA PolicyEvaluateEndsKeeps == ASSUME ProcessInv, PolicyEvaluateEnds PROVE ProcessInv'
<1>1. /\ now \in Nat /\ now <= MaxNow /\ now - origin \in Nat /\ started \in Nat /\ started <= now
      /\ sample \in Sample /\ next_tick_id \in Nat /\ next_tick_id # 0 /\ MaxNow \in Nat
      /\ stats \in [lateness : Nat, work : Nat, sum : Nat, skipped : Nat]
  <2>1. /\ sample \in Sample /\ next_tick_id \in Nat /\ next_tick_id # 0
        /\ stats \in [lateness : Nat, work : Nat, sum : Nat, skipped : Nat]
    BY TallyTypes
  <2> QED BY <2>1, ClockTypes, TickParameters
<1>2. stats.sum \in Nat /\ stats.sum <= started /\ at = "policy_evaluate" /\ next_tick_id - 1 # 0
  <2>1. first # 0 /\ Len(recorder.samples) + recorder.dropped = next_tick_id - 2
    BY DEF PolicyEvaluateEnds, ProcessInv, PlaceInv, RecordInv, Tick, Phases
  <2>2. Len(recorder.samples) + recorder.dropped \in Nat
    BY RecorderTypes
  <2>3. at = "policy_evaluate" /\ stats.sum <= started
    BY DEF PolicyEvaluateEnds, ProcessInv, GridInv, Phases
  <2> QED BY <1>1, <2>1, <2>2, <2>3
<1> DEFINE ended == sample'
<1>3. ended = [sample EXCEPT !.policy = now - origin, !.finished = now - origin]
  BY DEF PolicyEvaluateEnds
<1>4. /\ ended \in Sample /\ ended.id = sample.id /\ ended.started = sample.started
      /\ ended.command = sample.command /\ ended.session = sample.session
      /\ ended.policy = now - origin /\ ended.finished = now - origin
      /\ ended.outcome = sample.outcome
  BY <1>1, <1>3 DEF Sample
<1>5. /\ sample.id = next_tick_id - 1 /\ sample.outcome = "completed"
      /\ sample.started <= sample.command /\ sample.command <= sample.session
      /\ sample.session <= now - origin
  BY <1>2 DEF ProcessInv, SampleInv, Phases
<1>6. ValidSample(ended)
  BY <1>1, <1>2, <1>4, <1>5 DEF ValidSample
<1>7. /\ stats' \in [lateness : Nat, work : Nat, sum : 0..MaxNow, skipped : Nat]
      /\ stats'.lateness = stats.lateness /\ stats'.skipped = stats.skipped /\ stats'.sum <= now
  <2>1. stats' = [stats EXCEPT !.work = @ + 1, !.sum = @ + now - started]
    BY DEF PolicyEvaluateEnds
  <2>2. stats.sum + now - started \in 0..MaxNow /\ stats.sum + now - started <= now
    BY <1>1, <1>2
  <2>3. /\ stats'.lateness = stats.lateness /\ stats'.skipped = stats.skipped
        /\ stats'.sum = stats.sum + now - started
    BY <1>1, <2>1
  <2>4. stats' \in [lateness : Nat, work : Nat, sum : 0..MaxNow, skipped : Nat]
    <3> DEFINE total == stats.sum + now - started
    <3>1. total \in 0..MaxNow /\ stats.work + 1 \in Nat
          /\ stats' = [stats EXCEPT !.work = stats.work + 1, !.sum = total]
      BY <1>1, <2>1, <2>2
    <3> HIDE DEF total
    <3> QED BY <1>1, <3>1
  <2> QED BY <2>2, <2>3, <2>4
<1>8. /\ at \in Phases /\ at' = "rescheduling" /\ controller_error' \in BOOLEAN
      /\ UNCHANGED <<now, running, batch, signal_source, origin, started, first, next_tick_id,
                     sweep_schedule, sweep_timer>>
      /\ UNCHANGED <<signalVars, policyVars>>
      /\ recorder' = Recorded(recorder, sample')
  BY <1>2 DEF PolicyEvaluateEnds, GoTo, Phases, ProcessInv, ControllerTypeOK
<1> QED BY <1>4, <1>6, <1>7, <1>8, EndedTickKeeps

LEMMA PhaseThrowsKeeps == ASSUME ProcessInv, PhaseThrows PROVE ProcessInv'
<1>1. /\ now \in Nat /\ now <= MaxNow /\ now - origin \in Nat
      /\ sample \in Sample /\ next_tick_id \in Nat /\ next_tick_id # 0
      /\ stats \in [lateness : Nat, work : Nat, sum : 0..MaxNow, skipped : Nat] /\ stats.sum <= now
  <2>1. /\ sample \in Sample /\ next_tick_id \in Nat /\ next_tick_id # 0
    BY TallyTypes
  <2>2. stats \in [lateness : Nat, work : Nat, sum : 0..MaxNow, skipped : Nat]
    BY DEF ProcessInv, ControllerTypeOK
  <2> QED BY <2>1, <2>2, ClockTypes
<1>2. /\ at \in Phases /\ at' = "rescheduling" /\ controller_error' = TRUE
      /\ UNCHANGED <<now, running, batch, signal_source, origin, started, first, next_tick_id,
                     sweep_schedule, sweep_timer, stats>>
      /\ UNCHANGED <<signalVars, policyVars>>
      /\ recorder' = Recorded(recorder, sample')
      /\ sample' = [sample EXCEPT !.finished = now - origin, !.outcome = at]
  BY DEF PhaseThrows, GoTo, OutcomeOf
<1>3. next_tick_id - 1 # 0
  <2>1. first # 0 /\ Len(recorder.samples) + recorder.dropped = next_tick_id - 2
    BY <1>2 DEF ProcessInv, PlaceInv, RecordInv, Tick
  <2>2. Len(recorder.samples) + recorder.dropped \in Nat
    BY RecorderTypes
  <2> QED BY <1>1, <2>1, <2>2
<1> DEFINE ended == sample'
<1>4. /\ ended \in Sample /\ ended.id = sample.id /\ ended.started = sample.started
      /\ ended.command = sample.command /\ ended.session = sample.session
      /\ ended.policy = sample.policy /\ ended.finished = now - origin
      /\ ended.outcome = at
  BY <1>1, <1>2 DEF Sample, Outcomes
<1>5. sample.id = next_tick_id - 1 /\ sample.started <= now - origin /\ sample.policy = 0
  BY <1>2 DEF ProcessInv, SampleInv
<1>6. ValidSample(ended)
  <2>1. CASE at = "command_sweep"
    BY <1>1, <1>3, <1>4, <1>5, <2>1 DEF ProcessInv, SampleInv, ValidSample
  <2>2. CASE at = "session_sweep"
    BY <1>1, <1>3, <1>4, <1>5, <2>2 DEF ProcessInv, SampleInv, ValidSample
  <2>3. CASE at = "policy_evaluate"
    BY <1>1, <1>3, <1>4, <1>5, <2>3 DEF ProcessInv, SampleInv, ValidSample
  <2> QED BY <1>2, <2>1, <2>2, <2>3 DEF Phases
<1> QED BY <1>1, <1>2, <1>4, <1>6, EndedTickKeeps

\* The attempt that was counted when the tick began closes the gap to the next deadline.
LEMMA ScheduleSweepKeeps == ASSUME ProcessInv, ScheduleSweep PROVE ProcessInv'
<1> DEFINE next == Advance(sweep_schedule, now)
<1>1. /\ now \in Nat /\ now <= MaxNow /\ sweep_schedule \in Nat /\ first \in Nat
      /\ stats \in [lateness : Nat, work : Nat, sum : Nat, skipped : Nat]
      /\ Interval \in Nat /\ Interval # 0 /\ MaxNow \in Nat /\ stats.sum <= now
      /\ started \in Nat /\ started <= now
  <2>1. stats \in [lateness : Nat, work : Nat, sum : Nat, skipped : Nat]
    BY TallyTypes
  <2> QED BY <2>1, ClockTypes, TickParameters
<1>2. /\ at = "rescheduling" /\ running /\ first # 0 /\ signal_source
      /\ sweep_schedule + Interval = first + Interval * (stats.lateness + stats.skipped)
      /\ sweep_schedule <= started
  BY DEF ScheduleSweep, ProcessInv, PlaceInv, GridInv, Tick
<1>3. /\ next.deadline \in Nat /\ next.skipped \in Nat
      /\ next.deadline = sweep_schedule + Interval + Interval * next.skipped
      /\ next.deadline > now /\ next.deadline <= now + Interval
  <2>1. sweep_schedule <= now
    BY <1>1, <1>2
  <2> QED BY <1>1, <2>1, AdvanceIsNext
<1>4. /\ sweep_schedule' = next.deadline /\ sweep_timer' = next.deadline
      /\ stats' = [stats EXCEPT !.skipped = @ + next.skipped]
      /\ sample' = NoSample
      /\ at' = (IF controller_error THEN "unwinding" ELSE "batch")
      /\ batch' = (IF controller_error THEN <<>> ELSE batch)
      /\ UNCHANGED <<now, running, signal_source, controller_error, origin, started, next_tick_id,
                     recorder, first>>
      /\ UNCHANGED <<signalVars, policyVars>>
  BY DEF ScheduleSweep, GoTo, ScheduledNext, TimerAfterTick
<1> HIDE DEF next
<1>5. /\ stats' \in [lateness : Nat, work : Nat, sum : 0..MaxNow, skipped : Nat]
      /\ stats'.lateness = stats.lateness /\ stats'.skipped = stats.skipped + next.skipped
      /\ stats'.sum = stats.sum /\ stats.sum \in 0..MaxNow /\ stats.lateness \in Nat
      /\ stats.skipped \in Nat
  <2>1. stats.sum \in 0..MaxNow
    BY <1>1
  <2>2. stats \in [lateness : Nat, work : Nat, sum : 0..MaxNow, skipped : Nat]
    BY <1>1, <2>1
  <2>3. stats' = [stats EXCEPT !.skipped = @ + next.skipped] /\ next.skipped \in Nat
    BY <1>3, <1>4
  <2> QED BY <2>1, <2>2, <2>3
<1>6. /\ batch' \in Seq(Source) /\ ToSet(batch') \subseteq {"timer", "signal"}
  <2>1. <<>> \in Seq(Source) /\ batch \in Seq(Source)
    BY TallyTypes
  <2>2. batch' \in Seq(Source)
    BY <1>4, <2>1
  <2> QED BY <2>2, BatchTyped DEF Source
<1>7. ControllerTypeOK' /\ DataInv'
  <2>1. next.deadline \in Times
    BY <1>1, <1>3 DEF Times
  <2>2. sample'.id < next_tick_id' /\ sample' \in Sample
    BY <1>4, NoSampleTyped, TallyTypes DEF NoSample
  <2> QED BY <1>4, <1>5, <1>6, <2>1, <2>2
          DEF ProcessInv, ControllerTypeOK, DataInv, signalVars, policyVars
<1>8. PlaceInv'
  BY <1>2, <1>4 DEF ProcessInv, PlaceInv, Boot, Tick, Phases, Draining, Loop
<1>9. GridInv'
  <2>1. next.deadline = first + Interval * (stats'.lateness + stats'.skipped)
    <3>1. \A l, s, k \in Nat : Interval * (l + (s + k)) = Interval * (l + s) + Interval * k
      BY <1>1
    <3>2. Interval * (stats'.lateness + stats'.skipped)
            = Interval * (stats.lateness + stats.skipped) + Interval * next.skipped
      BY <1>3, <1>5, <3>1
    <3>3. Interval * (stats.lateness + stats.skipped) \in Nat /\ Interval * next.skipped \in Nat
      BY <1>1, <1>3, <1>5
    <3> QED BY <1>1, <1>2, <1>3, <3>2, <3>3
  <2>2. next.deadline <= MaxNow + Interval /\ first <= MaxNow + Interval
    BY <1>1, <1>3 DEF ProcessInv, GridInv
  <2>3. started' <= now' /\ origin' <= now' /\ stats'.sum <= now' /\ first' # 0
    BY <1>1, <1>2, <1>4, <1>5 DEF ProcessInv, GridInv
  <2> QED BY <1>4, <2>1, <2>2, <2>3 DEF GridInv, Boot, Tick, Phases
<1>10. SampleInv' /\ RecordInv'
  BY <1>2, <1>4 DEF ProcessInv, SampleInv, RecordInv, RecordingSerializable, Phases
<1>11. SignalInv'
  BY <1>2, <1>4, SignalsRest DEF Draining, Ended
<1> QED BY <1>7, <1>8, <1>9, <1>10, <1>11 DEF ProcessInv

----------------------------------------------------------------------------
(* The end, and the environment *)

LEMMA StopKeeps == ASSUME ProcessInv, HandleTermination \/ Destroy PROVE ProcessInv'
<1> USE DEF GoTo, StopAll, TimerAfterStop
<1>1. /\ at \in {"stopping", "unwinding"} /\ at' \in {"batch", "dumping", "killed"}
      /\ pending # {} => at' = "killed"
      /\ sweep_timer' = 0 /\ signal_source' = FALSE /\ edge' = FALSE /\ running' = FALSE
      /\ UNCHANGED <<pending, sweep_schedule, origin, started, sample, next_tick_id, stats,
                     recorder, first, now, batch, controller_error>>
      /\ UNCHANGED <<policy, file, announced>>
  BY DEF HandleTermination, Destroy, policyVars
<1>2. 0 \in Times
  BY TickParameters DEF Times
<1>3. ControllerTypeOK' /\ DataInv'
  BY <1>1, <1>2 DEF ProcessInv, ControllerTypeOK, DataInv, Ended
<1>4. PlaceInv'
  BY <1>1 DEF ProcessInv, PlaceInv, Boot, Tick, Phases, Draining, Loop
<1>5. GridInv' /\ SampleInv'
  BY <1>1 DEF ProcessInv, GridInv, SampleInv, Boot, Tick, Phases
<1>6. RecordInv'
  BY <1>1 DEF ProcessInv, RecordInv, RecordingSerializable, Phases
<1>7. SignalInv'
  BY <1>1 DEF ProcessInv, SignalInv, Draining, Ended
<1> QED BY <1>3, <1>4, <1>5, <1>6, <1>7 DEF ProcessInv

LEMMA DumpRecordingKeeps == ASSUME ProcessInv, DumpRecording PROVE ProcessInv'
<1>1. /\ at = "dumping" /\ at' = "exited"
      /\ UNCHANGED <<now, running, batch, signal_source, controller_error, sweep_schedule,
                     sweep_timer, origin, started, sample, next_tick_id, stats, first>>
      /\ UNCHANGED <<pending, edge, policy, file, announced>>
      /\ recorder' = [recorder EXCEPT !.finished = TRUE]
  BY DEF DumpRecording, GoTo, signalVars, policyVars
<1>2. /\ recorder' \in [samples : Seq(Sample), dropped : Nat, finished : BOOLEAN]
      /\ recorder'.samples = recorder.samples /\ recorder'.dropped = recorder.dropped
  BY <1>1, RecorderTypes
<1>3. ControllerTypeOK' /\ DataInv'
  BY <1>1, <1>2 DEF ProcessInv, ControllerTypeOK, DataInv, Ended
<1>4. PlaceInv'
  BY <1>1 DEF ProcessInv, PlaceInv, Boot, Tick, Phases, Draining, Loop
<1>5. GridInv' /\ SampleInv'
  BY <1>1 DEF ProcessInv, GridInv, SampleInv, Boot, Tick, Phases
<1>6. RecordInv'
  BY <1>1, <1>2 DEF ProcessInv, RecordInv, RecordingSerializable, Phases
<1>7. SignalInv'
  BY <1>1 DEF ProcessInv, SignalInv, Draining, Ended
<1> QED BY <1>3, <1>4, <1>5, <1>6, <1>7 DEF ProcessInv

LEMMA SignalKeeps ==
    ASSUME ProcessInv, NEW i \in DOMAIN Signals, Signal(Signals[i]) PROVE ProcessInv'
<1> DEFINE s == Signals[i]
<1>1. s \in ToSet(Signals)
  BY DEF ToSet
<1> HIDE DEF s
<1>2. Signal(s)
  BY DEF s
<1>3. /\ at \notin Ended
      /\ IF signal_source THEN pending' = pending \cup {s} /\ edge' = TRUE /\ UNCHANGED at
                          ELSE at' = "killed" /\ UNCHANGED <<pending, edge>>
      /\ announced' = (announced \/ s = "SIGHUP")
      /\ UNCHANGED <<now, running, batch, signal_source, controller_error, policy, file>>
      /\ UNCHANGED <<sweep_schedule, sweep_timer, origin, started, sample, next_tick_id, stats,
                     recorder, first>>
  BY <1>2 DEF Signal, signalVars, tickVars
<1>4. at \in Tick => at' = at
  BY <1>3 DEF ProcessInv, PlaceInv
<1>5. ControllerTypeOK' /\ DataInv'
  <2>1. announced' \in BOOLEAN
    BY <1>3
  <2>2. pending' \subseteq ToSet(Signals) /\ edge' \in BOOLEAN
    BY <1>1, <1>3 DEF ProcessInv, ControllerTypeOK
  <2> QED BY <1>3, <2>1, <2>2, TypesRest DEF ProcessInv, ControllerTypeOK, DataInv, Ended
<1>6. PlaceInv'
  BY <1>3, <1>4 DEF ProcessInv, PlaceInv, Boot, Tick, Phases, Draining, Loop, Ended
<1>7. GridInv' /\ SampleInv'
  BY <1>3, <1>4 DEF ProcessInv, GridInv, SampleInv, Boot, Tick, Phases
<1>8. RecordInv'
  BY <1>3, <1>4 DEF ProcessInv, RecordInv, RecordingSerializable, Tick, Phases
<1>9. SignalInv'
  BY <1>3 DEF ProcessInv, SignalInv, Draining, Ended
<1> QED BY <1>5, <1>6, <1>7, <1>8, <1>9 DEF ProcessInv

LEMMA EditKeeps ==
    ASSUME ProcessInv, NEW text \in Valid \cup Broken, Edit(text) PROVE ProcessInv'
<1>1. /\ file' = text /\ announced' = FALSE
      /\ UNCHANGED <<now, at, running, batch, signal_source, controller_error, pending, edge, policy>>
      /\ UNCHANGED tickVars
  BY DEF Edit, processVars, signalVars
<1>2. ControllerTypeOK' /\ DataInv'
  <2>1. file' \in Valid \cup Broken /\ announced' \in BOOLEAN
    BY <1>1
  <2>2. UNCHANGED <<sweep_schedule, sweep_timer, origin, started, sample, next_tick_id, stats,
                    recorder, first>>
    BY <1>1 DEF tickVars
  <2> QED BY <1>1, <2>1, <2>2, TypesRest DEF ProcessInv, ControllerTypeOK, DataInv
<1>3. GridInv' /\ SampleInv' /\ RecordInv'
  BY <1>1, TicksRest
<1>4. PlaceInv' /\ SignalInv'
  BY <1>1 DEF tickVars, ProcessInv, PlaceInv, SignalInv
<1> QED BY <1>2, <1>3, <1>4 DEF ProcessInv

LEMMA ElapseKeeps == ASSUME ProcessInv, Elapse PROVE ProcessInv'
<1>1. /\ now' = now + 1 /\ now' \in 0..MaxNow /\ now \in Nat /\ origin \in Nat /\ started \in Nat
      /\ UNCHANGED <<at, running, batch, signal_source, controller_error, pending, edge, policy,
                     file, announced>>
      /\ UNCHANGED <<sweep_schedule, sweep_timer, origin, started, sample, next_tick_id, stats,
                     recorder, first>>
  <2>1. now \in Nat /\ origin \in Nat /\ started \in Nat
    BY ClockTypes
  <2>2. /\ now' = now + 1 /\ now < MaxNow
        /\ UNCHANGED <<processVars, signalVars, tickVars, policyVars>>
    BY DEF Elapse
  <2>3. now' \in 0..MaxNow
    BY <2>1, <2>2, TickParameters
  <2>4. UNCHANGED <<at, running, batch, signal_source, controller_error, pending, edge, policy,
                    file, announced>>
    BY <2>2 DEF processVars, signalVars, policyVars
  <2>5. UNCHANGED <<sweep_schedule, sweep_timer, origin, started, sample, next_tick_id, stats,
                    recorder, first>>
    BY <2>2 DEF tickVars
  <2> QED BY <2>1, <2>2, <2>3, <2>4, <2>5
<1>2. ControllerTypeOK' /\ DataInv'
  BY <1>1 DEF ProcessInv, ControllerTypeOK, DataInv
<1>3. PlaceInv' /\ SignalInv'
  BY <1>1 DEF ProcessInv, PlaceInv, SignalInv
<1>4. GridInv'
  <2>1. stats.sum \in Nat
    BY ClockTypes
  <2> QED BY <1>1, <2>1 DEF ProcessInv, GridInv
<1>5. SampleInv'
  <2>1. sample.started \in Nat /\ sample.command \in Nat /\ sample.session \in Nat
    <3>1. sample \in Sample
      BY TallyTypes
    <3> QED BY <3>1 DEF Sample
  <2> QED BY <1>1, <2>1 DEF ProcessInv, SampleInv
<1>6. RecordInv'
  <2>1. \A i \in 1..Len(recorder.samples) : recorder.samples[i].finished \in Nat
    <3>1. \A i \in 1..Len(recorder.samples) : recorder.samples[i] \in Sample
      BY RecorderTypes
    <3> QED BY <3>1 DEF Sample
  <2> QED BY <1>1, <2>1 DEF ProcessInv, RecordInv, RecordingSerializable
<1> QED BY <1>2, <1>3, <1>4, <1>5, <1>6 DEF ProcessInv

LEMMA ProcessRests == ASSUME ProcessInv, UNCHANGED tickAllVars PROVE ProcessInv'
<1>1. UNCHANGED <<now, at, running, batch, signal_source, controller_error, pending, edge, policy,
                  file, announced>>
  BY DEF tickAllVars, processVars, signalVars, policyVars
<1>2. UNCHANGED tickVars
  BY DEF tickAllVars
<1>3. ControllerTypeOK' /\ DataInv'
  BY <1>1, <1>2, TypesRest DEF tickVars, ProcessInv, ControllerTypeOK, DataInv
<1>4. GridInv' /\ SampleInv' /\ RecordInv'
  BY <1>1, <1>2, TicksRest
<1>5. PlaceInv' /\ SignalInv'
  BY <1>1, <1>2 DEF tickVars, ProcessInv, PlaceInv, SignalInv
<1> QED BY <1>3, <1>4, <1>5 DEF ProcessInv

LEMMA ProcessStepKeeps == ProcessInv /\ [ControllerNext]_tickAllVars => ProcessInv'
<1> SUFFICES ASSUME ProcessInv, [ControllerNext]_tickAllVars PROVE ProcessInv'
  OBVIOUS
<1>1. ASSUME ControllerStep PROVE ProcessInv'
  BY <1>1, PlainMoves, StartPolicyKeeps, StartScheduleKeeps, RunOnceKeeps, DispatchKeeps,
     OnExpiredKeeps, PhaseEndsKeeps, PolicyEvaluateEndsKeeps, PhaseThrowsKeeps,
     ScheduleSweepKeeps, DrainSignalKeeps, StopKeeps, DumpRecordingKeeps, Zenon
     DEF ControllerStep
<1>2. ASSUME NEW i \in DOMAIN Signals, Signal(Signals[i]) PROVE ProcessInv'
  BY <1>2, SignalKeeps
<1>3. ASSUME NEW text \in Valid \cup Broken, Edit(text) PROVE ProcessInv'
  BY <1>3, EditKeeps
<1> QED BY <1>1, <1>2, <1>3, ElapseKeeps, ProcessRests, Zenon DEF ControllerNext

LEMMA ProcessAlways == ControllerSpec => []ProcessInv
BY ProcessStarts, ProcessStepKeeps, PTL DEF ControllerSpec

----------------------------------------------------------------------------
(* Sums of sequences *)

LEMMA Least == ASSUME NEW S \in SUBSET Nat, S # {} PROVE \E n \in S : \A m \in S : n <= m
<1> DEFINE R == OpToRel(<, Nat)
<1>1. IsWellFoundedOn(R, Nat)
  BY NatLessThanWellFounded
<1> HIDE DEF R
<1>2. PICK n \in S : \A m \in S : ~ (<<m, n>> \in R)
  BY <1>1, WFMin
<1>3. \A m, k \in Nat : m < k => <<m, k>> \in R
  BY DEF R, OpToRel
<1>4. ASSUME NEW m \in S PROVE n <= m
  <2>1. ~ (m < n)
    BY <1>2, <1>3
  <2> QED BY <2>1
<1> QED BY <1>4

LEMMA SetInduction ==
  ASSUME NEW S, 0 \in S, \A n \in Nat : n \in S => n + 1 \in S
  PROVE Nat \subseteq S
<1>1. SUFFICES ASSUME NEW k \in Nat, k \notin S PROVE FALSE
  OBVIOUS
<1> DEFINE T == {n \in Nat : n \notin S}
<1>2. T \in SUBSET Nat /\ T # {}
  BY <1>1
<1>3. PICK n \in T : \A m \in T : n <= m
  BY <1>2, Least
<1>4. n # 0 /\ n - 1 \in Nat
  OBVIOUS
<1>5. n - 1 \in S
  BY <1>3, <1>4
<1> QED BY <1>4, <1>5

LEMMA SumExists ==
  ASSUME NEW f
  PROVE \A n \in Nat : \E sum : sum = [i \in 0..n |-> IF i = 0 THEN 0 ELSE sum[i-1] + f[i]]
<1> DEFINE S == {n \in Nat : \E sum : sum = [i \in 0..n |-> IF i = 0 THEN 0 ELSE sum[i-1] + f[i]]}
<1>1. 0 \in S
  <2> DEFINE s == [i \in 0..0 |-> 0]
  <2>1. s = [i \in 0..0 |-> IF i = 0 THEN 0 ELSE s[i-1] + f[i]]
    OBVIOUS
  <2> QED BY <2>1
<1>2. ASSUME NEW n \in Nat, n \in S PROVE n + 1 \in S
  <2>1. PICK s : s = [i \in 0..n |-> IF i = 0 THEN 0 ELSE s[i-1] + f[i]]
    BY <1>2
  <2> DEFINE t == [i \in 0..(n+1) |-> IF i = n + 1 THEN s[n] + f[n + 1] ELSE s[i]]
  <2>2. t = [i \in 0..(n+1) |-> IF i = 0 THEN 0 ELSE t[i-1] + f[i]]
    <3>1. ASSUME NEW i \in 0..(n+1) PROVE t[i] = IF i = 0 THEN 0 ELSE t[i-1] + f[i]
      <4>1. CASE i = n + 1
        BY <4>1
      <4>2. CASE i # n + 1
        <5>1. i \in 0..n /\ (i # 0 => i - 1 \in 0..n)
          BY <4>2
        <5>2. s[i] = IF i = 0 THEN 0 ELSE s[i-1] + f[i]
          BY <2>1, <5>1
        <5> QED BY <4>2, <5>1, <5>2
      <4> QED BY <4>1, <4>2
    <3> QED BY <3>1
  <2> HIDE DEF t
  <2>3. \E sum : sum = [i \in 0..(n+1) |-> IF i = 0 THEN 0 ELSE sum[i-1] + f[i]]
    BY <2>2, Zenon
  <2>4. n + 1 \in Nat
    OBVIOUS
  <2> QED BY <2>3, <2>4, Zenon
<1> HIDE DEF S
<1>3. Nat \subseteq S
  BY <1>1, <1>2, SetInduction
<1> QED BY <1>3 DEF S

LEMMA TotalIs == ASSUME NEW f, Len(f) \in Nat PROVE \E s : s = [i \in 0..Len(f) |-> IF i = 0 THEN 0 ELSE s[i-1] + f[i]] /\ Total(f) = s[Len(f)]
<1> DEFINE sum == CHOOSE s : s = [i \in 0..Len(f) |-> IF i = 0 THEN 0 ELSE s[i-1] + f[i]]
<1>1. sum = [i \in 0..Len(f) |-> IF i = 0 THEN 0 ELSE sum[i-1] + f[i]]
  <2>1. \E s : s = [i \in 0..Len(f) |-> IF i = 0 THEN 0 ELSE s[i-1] + f[i]]
    BY SumExists
  <2> QED BY <2>1, Zenon
<1>2. Total(f) = sum[Len(f)]
  BY DEF Total
<1> HIDE DEF sum
<1> QED BY <1>1, <1>2

LEMMA TotalExtended ==
    ASSUME NEW f, NEW g, NEW n \in Nat, Len(f) = n, Len(g) = n + 1,
           \A i \in 1..n : f[i] \in Int /\ g[i] = f[i],
           g[n + 1] \in Int
    PROVE  Total(f) \in Int /\ Total(g) = Total(f) + g[n + 1]
<1>1. PICK s : s = [i \in 0..n |-> IF i = 0 THEN 0 ELSE s[i-1] + f[i]] /\ Total(f) = s[n]
  BY TotalIs
<1>2. PICK t : t = [i \in 0..(n + 1) |-> IF i = 0 THEN 0 ELSE t[i-1] + g[i]] /\ Total(g) = t[n + 1]
  BY TotalIs
<1> DEFINE S == {k \in Nat : k <= n => s[k] \in Int /\ t[k] = s[k]}
<1>3. 0 \in S
  BY <1>1, <1>2
<1>4. ASSUME NEW k \in Nat, k \in S PROVE k + 1 \in S
  <2> SUFFICES ASSUME k + 1 <= n PROVE s[k + 1] \in Int /\ t[k + 1] = s[k + 1]
    OBVIOUS
  <2>1. s[k] \in Int /\ t[k] = s[k] /\ k + 1 \in 1..n /\ (k + 1) - 1 = k
    BY <1>4
  <2>2. s[k + 1] = s[k] + f[k + 1] /\ t[k + 1] = t[k] + g[k + 1]
    BY <1>1, <1>2, <2>1
  <2> QED BY <2>1, <2>2
<1> HIDE DEF S
<1>5. n \in S
  BY <1>3, <1>4, SetInduction
<1>6. s[n] \in Int /\ t[n] = s[n]
  BY <1>5 DEF S
<1>7. t[n + 1] = t[n] + g[n + 1]
  BY <1>2
<1> QED BY <1>1, <1>2, <1>6, <1>7

LEMMA EmptyTotal == ASSUME NEW f, Len(f) = 0 PROVE Total(f) = 0
BY TotalIs

----------------------------------------------------------------------------
(* The statistics and the recording *)

\* A tick that begins enters its sample at the time it takes for its own.
TotalsInv ==
    /\ at \in Phases => sample.started = started - origin
    /\ MetricsMatchRecording

\* What a sample adds to the totals of the samples before it.
LEMMA RecordedTotals ==
    ASSUME NEW f \in Seq(Sample), NEW g \in Seq(Sample), Len(g) = Len(f) + 1,
           \A i \in 1..Len(f) : g[i] = f[i]
    PROVE  /\ Total(CompletedOf(g)) =
                Total(CompletedOf(f)) + (IF Completed(g[Len(g)]) THEN 1 ELSE 0)
           /\ Total(TimeOf(g)) =
                Total(TimeOf(f)) + (IF Completed(g[Len(g)])
                                    THEN g[Len(g)].finished - g[Len(g)].started ELSE 0)
<1> DEFINE n == Len(f)
<1>1. /\ n \in Nat /\ DOMAIN f = 1..n /\ DOMAIN g = 1..(n + 1) /\ Len(g) = n + 1
      /\ \A i \in 1..(n + 1) : g[i] \in Sample
      /\ \A i \in 1..n : f[i] = g[i] /\ i \in 1..(n + 1)
  OBVIOUS
<1> HIDE DEF n
<1>2. \A i \in 1..(n + 1) : g[i].finished \in Nat /\ g[i].started \in Nat
  BY <1>1 DEF Sample
<1>3. /\ Len(CompletedOf(f)) = n /\ Len(CompletedOf(g)) = n + 1
      /\ Len(TimeOf(f)) = n /\ Len(TimeOf(g)) = n + 1
  BY <1>1 DEF CompletedOf, TimeOf
<1>4. n + 1 \in 1..(n + 1)
  BY <1>1
<1>5. Total(CompletedOf(g)) = Total(CompletedOf(f)) + CompletedOf(g)[n + 1]
  <2>1. CompletedOf(g)[n + 1] \in Int
    BY <1>1, <1>4 DEF CompletedOf
  <2>2. \A i \in 1..n : CompletedOf(f)[i] \in Int /\ CompletedOf(g)[i] = CompletedOf(f)[i]
    BY <1>1 DEF CompletedOf
  <2> QED BY ONLY <1>1, <1>3, <2>1, <2>2, TotalExtended
<1>6. Total(TimeOf(g)) = Total(TimeOf(f)) + TimeOf(g)[n + 1]
  <2>1. TimeOf(g)[n + 1] \in Int
    BY <1>1, <1>2, <1>4 DEF TimeOf
  <2>2. \A i \in 1..n : TimeOf(f)[i] \in Int /\ TimeOf(g)[i] = TimeOf(f)[i]
    BY <1>1, <1>2 DEF TimeOf
  <2> QED BY ONLY <1>1, <1>3, <2>1, <2>2, TotalExtended
<1> QED BY <1>1, <1>4, <1>5, <1>6 DEF CompletedOf, TimeOf

LEMMA TotalsStart == ControllerInit => TotalsInv
<1> SUFFICES ASSUME ControllerInit PROVE TotalsInv
  OBVIOUS
<1>1. at \notin Phases /\ stats.work = 0 /\ stats.sum = 0 /\ recorder.samples = <<>>
  BY DEF ControllerInit, Phases
<1>2. Len(CompletedOf(recorder.samples)) = 0 /\ Len(TimeOf(recorder.samples)) = 0
  BY <1>1 DEF CompletedOf, TimeOf
<1> QED BY <1>1, <1>2, EmptyTotal DEF TotalsInv, MetricsMatchRecording

\* Only the two ends of a tick change the recording, and only the complete one the work.
LEMMA TotalsRest ==
    ASSUME TotalsInv, UNCHANGED <<recorder, stats>>,
           at' \in Phases => at \in Phases /\ UNCHANGED <<sample, started, origin>>
    PROVE  TotalsInv'
BY DEF TotalsInv, MetricsMatchRecording

LEMMA TickEndsTotals ==
    ASSUME ProcessInv, TotalsInv, at \in Phases, at' = "rescheduling", UNCHANGED <<now, origin>>,
           sample' \in Sample, sample'.started = sample.started, sample'.finished = now - origin,
           recorder' = Recorded(recorder, sample'),
           stats \in [lateness : Nat, work : Nat, sum : Nat, skipped : Nat],
           IF Completed(sample')
             THEN stats'.work = stats.work + 1 /\ stats'.sum = stats.sum + now - started
             ELSE stats'.work = stats.work /\ stats'.sum = stats.sum
    PROVE  TotalsInv'
<1>1. /\ recorder \in [samples : Seq(Sample), dropped : Nat, finished : BOOLEAN]
      /\ Len(recorder.samples) <= Capacity /\ ~recorder.finished
  BY RecorderTypes DEF ProcessInv, PlaceInv, Phases
<1>2. recorder' \in [samples : Seq(Sample), dropped : Nat, finished : BOOLEAN]
  BY <1>1, RecordedSample
<1>3. /\ recorder.samples \in Seq(Sample) /\ recorder'.samples \in Seq(Sample)
      /\ recorder.dropped \in Nat /\ recorder'.dropped \in Nat
      /\ Len(recorder.samples) \in Nat /\ Len(recorder'.samples) \in Nat
  BY <1>1, <1>2
<1> SUFFICES ASSUME recorder'.dropped = 0
             PROVE  /\ stats'.work = Total(CompletedOf(recorder'.samples))
                    /\ stats'.sum = Total(TimeOf(recorder'.samples))
  BY DEF TotalsInv, MetricsMatchRecording, Phases
<1>4. /\ recorder.dropped = 0 /\ Len(recorder'.samples) = Len(recorder.samples) + 1
      /\ \A i \in 1..Len(recorder.samples) : recorder'.samples[i] = recorder.samples[i]
      /\ recorder'.samples[Len(recorder.samples) + 1] = sample'
  <2>1. Len(recorder'.samples) + recorder'.dropped = Len(recorder.samples) + recorder.dropped + 1
        /\ \/ recorder'.samples = recorder.samples
           \/ /\ recorder'.dropped = recorder.dropped
              /\ Len(recorder'.samples) = Len(recorder.samples) + 1
              /\ \A i \in 1..Len(recorder.samples) : recorder'.samples[i] = recorder.samples[i]
              /\ recorder'.samples[Len(recorder.samples) + 1] = sample'
    <3>1. recorder' = Recorded(recorder, sample') /\ sample' \in Sample
      OBVIOUS
    <3> QED BY ONLY <1>1, <3>1, RecordedSample
  <2>2. recorder'.samples # recorder.samples
    BY <1>3, <2>1
  <2> QED BY <2>1, <2>2
<1>5. /\ Total(CompletedOf(recorder'.samples)) =
           Total(CompletedOf(recorder.samples)) + (IF Completed(sample') THEN 1 ELSE 0)
      /\ Total(TimeOf(recorder'.samples)) =
           Total(TimeOf(recorder.samples))
             + (IF Completed(sample') THEN sample'.finished - sample'.started ELSE 0)
  <2>1. recorder'.samples[Len(recorder'.samples)] = sample'
    BY <1>4
  <2> QED BY <1>3, <1>4, <2>1, RecordedTotals
<1>6. /\ stats.work = Total(CompletedOf(recorder.samples))
      /\ stats.sum = Total(TimeOf(recorder.samples))
      /\ sample.started = started - origin
  BY <1>4 DEF TotalsInv, MetricsMatchRecording
<1>7. now \in Nat /\ origin \in Nat /\ started \in Nat /\ stats.sum \in Nat /\ stats.work \in Nat
  BY ClockTypes, TallyTypes
<1>8. CASE Completed(sample')
  <2>1. sample'.finished - sample'.started = now - started
    BY <1>6, <1>7
  <2> QED BY <1>5, <1>6, <1>7, <1>8, <2>1
<1>9. CASE ~Completed(sample')
  BY <1>5, <1>6, <1>7, <1>9
<1> QED BY <1>8, <1>9

LEMMA PolicyEvaluateTotals == ASSUME ProcessInv, TotalsInv, PolicyEvaluateEnds PROVE TotalsInv'
<1>1. /\ at = "policy_evaluate" /\ at' = "rescheduling" /\ UNCHANGED <<now, origin>>
      /\ sample' = [sample EXCEPT !.policy = now - origin, !.finished = now - origin]
      /\ stats' = [stats EXCEPT !.work = @ + 1, !.sum = @ + now - started]
      /\ recorder' = Recorded(recorder, sample')
  BY DEF PolicyEvaluateEnds, GoTo
<1>2. /\ sample \in Sample /\ now - origin \in Nat
      /\ stats \in [lateness : Nat, work : Nat, sum : Nat, skipped : Nat]
  BY TallyTypes, ClockTypes
<1>3. sample.outcome = "completed"
  BY <1>1 DEF ProcessInv, SampleInv, Phases
<1>4. /\ sample' \in Sample /\ sample'.started = sample.started
      /\ sample'.finished = now - origin /\ sample'.outcome = sample.outcome
  BY <1>1, <1>2 DEF Sample
<1>5. stats'.work = stats.work + 1 /\ stats'.sum = stats.sum + now - started
  BY <1>1, <1>2
<1> QED BY <1>1, <1>2, <1>3, <1>4, <1>5, TickEndsTotals DEF Completed, Phases

LEMMA PhaseThrowsTotals == ASSUME ProcessInv, TotalsInv, PhaseThrows PROVE TotalsInv'
<1>1. /\ at \in Phases /\ at' = "rescheduling" /\ UNCHANGED <<now, origin, stats>>
      /\ sample' = [sample EXCEPT !.finished = now - origin, !.outcome = at]
      /\ recorder' = Recorded(recorder, sample')
  BY DEF PhaseThrows, GoTo, OutcomeOf
<1>2. /\ sample \in Sample /\ now - origin \in Nat
      /\ stats \in [lateness : Nat, work : Nat, sum : Nat, skipped : Nat]
  BY TallyTypes, ClockTypes
<1>3. /\ sample' \in Sample /\ sample'.started = sample.started
      /\ sample'.finished = now - origin /\ sample'.outcome = at
  BY <1>1, <1>2 DEF Sample, Outcomes
<1>4. at # "completed"
  BY <1>1 DEF Phases
<1> QED BY <1>1, <1>2, <1>3, <1>4, TickEndsTotals DEF Completed

LEMMA TotalsStepKeeps == ProcessInv /\ TotalsInv /\ [ControllerNext]_tickAllVars => TotalsInv'
<1> SUFFICES ASSUME ProcessInv, TotalsInv, [ControllerNext]_tickAllVars PROVE TotalsInv'
  OBVIOUS
<1> USE DEF GoTo, Phases
<1>1. ASSUME OnExpired PROVE TotalsInv'
  <2>1. /\ stats' = [stats EXCEPT !.lateness = @ + 1] /\ started' = now
        /\ sample' = [NoSample EXCEPT !.id = next_tick_id, !.started = now - origin]
        /\ UNCHANGED <<recorder, origin>>
    BY <1>1 DEF OnExpired
  <2>2. stats'.work = stats.work /\ stats'.sum = stats.sum
    BY <2>1, TallyTypes
  <2>3. sample'.started = started' - origin'
    BY <2>1 DEF NoSample
  <2> QED BY <2>1, <2>2, <2>3 DEF TotalsInv, MetricsMatchRecording
<1>2. ASSUME ScheduleSweep PROVE TotalsInv'
  <2>1. /\ stats' = [stats EXCEPT !.skipped = @ + ScheduledNext.skipped] /\ at' \notin Phases
        /\ UNCHANGED recorder
    BY <1>2 DEF ScheduleSweep
  <2>2. stats'.work = stats.work /\ stats'.sum = stats.sum
    BY <2>1, TallyTypes
  <2> QED BY <2>1, <2>2 DEF TotalsInv, MetricsMatchRecording
<1>3. ASSUME DumpRecording PROVE TotalsInv'
  <2>1. recorder' = [recorder EXCEPT !.finished = TRUE] /\ at' \notin Phases /\ UNCHANGED stats
    BY <1>3 DEF DumpRecording
  <2>2. recorder'.samples = recorder.samples /\ recorder'.dropped = recorder.dropped
    BY <2>1, RecorderTypes
  <2> QED BY <2>1, <2>2 DEF TotalsInv, MetricsMatchRecording
<1>4. ASSUME CommandSweepEnds \/ SessionSweepEnds PROVE TotalsInv'
  <2>1. sample'.started = sample.started /\ at \in Phases /\ UNCHANGED <<recorder, stats, started, origin>>
    BY <1>4, TallyTypes DEF CommandSweepEnds, SessionSweepEnds, Sample
  <2> QED BY <2>1 DEF TotalsInv, MetricsMatchRecording
<1>5. ASSUME StartSignals \/ StartFails \/ StartPolicy \/ StartSchedule \/ Run \/ RunOnce \/ BatchDone
             \/ DispatchStale \/ OnSignalReady \/ DrainDone \/ DrainSignal \/ Reload
             \/ HandleTermination \/ RunReturns \/ Destroy
      PROVE  TotalsInv'
  <2>1. ASSUME StartSignals \/ StartFails \/ StartPolicy \/ StartSchedule \/ Run \/ RunReturns
        PROVE  UNCHANGED <<recorder, stats>> /\ at' \notin Phases
    BY <2>1 DEF StartSignals, StartFails, StartPolicy, StartSchedule, Run, RunReturns, tickVars
  <2>2. ASSUME \/ RunOnce \/ BatchDone \/ DispatchStale \/ OnSignalReady \/ DrainDone
               \/ DrainSignal \/ Reload
        PROVE  UNCHANGED <<recorder, stats>> /\ at' \notin Phases
    BY <2>2 DEF RunOnce, BatchDone, DispatchStale, OnSignalReady, DrainDone, DrainSignal, Reload,
                AfterReload, tickVars
  <2>3. ASSUME HandleTermination \/ Destroy
        PROVE  UNCHANGED <<recorder, stats>> /\ at' \notin Phases
    <3>1. CASE HandleTermination
      BY <3>1 DEF HandleTermination, StopAll
    <3>2. CASE Destroy
      BY <3>2 DEF Destroy, StopAll
    <3> QED BY <2>3, <3>1, <3>2
  <2>4. UNCHANGED <<recorder, stats>> /\ at' \notin Phases
    BY <1>5, <2>1, <2>2, <2>3
  <2> QED BY <2>4, TotalsRest
<1>6. ASSUME \/ \E i \in DOMAIN Signals : Signal(Signals[i])
             \/ \E text \in Valid \cup Broken : Edit(text)
             \/ Elapse
             \/ UNCHANGED tickAllVars
      PROVE  TotalsInv'
  <2>1. UNCHANGED <<recorder, stats, sample, started, origin>> /\ (at' \in Phases => at \in Phases)
    BY <1>6 DEF Signal, Edit, Elapse, processVars, tickVars, tickAllVars
  <2> QED BY <2>1, TotalsRest
<1> QED BY <1>1, <1>2, <1>3, <1>4, <1>5, <1>6, PolicyEvaluateTotals, PhaseThrowsTotals
        DEF ControllerNext, ControllerStep

----------------------------------------------------------------------------
(* The theorems about the process *)

LEMMA ProcessConsistent == ProcessInv => ControllerConsistent
<1> SUFFICES ASSUME ProcessInv PROVE ControllerConsistent
  OBVIOUS
<1>1. ControllerTypeOK /\ RecordingSerializable
  BY DEF ProcessInv, RecordInv
<1>2. EveryPeriodCounted
  BY DEF ProcessInv, GridInv, EveryPeriodCounted, InTick, Tick
<1>3. AttemptsRecordedOnce
  BY DEF ProcessInv, RecordInv, AttemptsRecordedOnce, Attempts
<1>4. SignalsServed
  <2>1. ToSet(<<>>) = {}
    BY BatchOrders
  <2>2. NoSignalForgotten
    BY <2>1 DEF ProcessInv, PlaceInv, SignalInv, NoSignalForgotten, Draining
  <2>3. ReloadsLatest
    BY DEF ProcessInv, SignalInv, ReloadsLatest, Ended
  <2> QED BY <2>2, <2>3 DEF SignalsServed
<1> QED BY <1>1, <1>2, <1>3, <1>4 DEF ControllerConsistent, TicksOnGrid

\* Ticks stay on their grid, what is recorded of them can be serialized, and signals are
\* served, however long phases take and whichever of them throws.
THEOREM ControllerAlwaysConsistent == ControllerSpec => []ControllerConsistent
BY ProcessAlways, ProcessConsistent, PTL

\* What Prometheus is told of the ticks is what the recording says of them, for a recording
\* of any length: as many complete ticks, and as much time.
THEOREM MetricsAlwaysMatch == ControllerSpec => []MetricsMatchRecording
<1>1. ControllerSpec => [](ProcessInv /\ TotalsInv)
  BY ProcessStarts, ProcessStepKeeps, TotalsStart, TotalsStepKeeps, PTL DEF ControllerSpec
<1>2. TotalsInv => MetricsMatchRecording
  BY DEF TotalsInv
<1> QED BY <1>1, <1>2, PTL

\* After Controller::stop no tick starts, not even from the batch that was ready.
THEOREM NoTickEverAfterStop == ControllerSpec => NoTickAfterStop
<1>1. ProcessInv /\ [ControllerNext]_tickAllVars
        => [at # "command_sweep" /\ at' = "command_sweep" => running]_tickAllVars
  <2> SUFFICES ASSUME ProcessInv, ControllerNext, at # "command_sweep", at' = "command_sweep"
               PROVE  running
    OBVIOUS
  <2>1. OnExpired
    BY DEF ControllerNext, ControllerStep, StartSignals, StartFails, StartPolicy, StartSchedule,
           Run, RunOnce, BatchDone, DispatchStale, CommandSweepEnds, SessionSweepEnds,
           PolicyEvaluateEnds, PhaseThrows, ScheduleSweep, OnSignalReady, DrainSignal, DrainDone,
           Reload, AfterReload, HandleTermination, StopAll, RunReturns, Destroy, DumpRecording,
           Signal, Edit, Elapse, GoTo, processVars
  <2> QED BY <2>1 DEF OnExpired, TimerDue, ProcessInv, PlaceInv, Loop
<1> QED BY <1>1, ProcessAlways, PTL DEF ControllerSpec, NoTickAfterStop

\* A deadline that schedule_sweep sets is ahead of the clock, by one period at most.
THEOREM NextDeadlineAlwaysAhead == ControllerSpec => NextDeadlineAhead
<1>1. ProcessInv /\ [ControllerNext]_tickAllVars
        => [at = "rescheduling" /\ at' # at =>
              sweep_schedule' > now /\ (sweep_schedule' <= now + Interval)]_tickAllVars
  <2> SUFFICES ASSUME ProcessInv, ControllerNext, at = "rescheduling", at' # at
               PROVE  sweep_schedule' > now /\ sweep_schedule' <= now + Interval
    OBVIOUS
  <2>1. signal_source
    BY DEF ProcessInv, PlaceInv, Tick
  <2>2. ScheduleSweep
    BY <2>1 DEF ControllerNext, ControllerStep, StartSignals, StartFails, StartPolicy, StartSchedule,
           Run, RunOnce, BatchDone, DispatchStale, OnExpired, CommandSweepEnds, SessionSweepEnds,
           PolicyEvaluateEnds, PhaseThrows, Phases, OnSignalReady, DrainSignal, DrainDone,
           Reload, HandleTermination, RunReturns, Destroy, DumpRecording,
           Signal, Edit, Elapse, GoTo, processVars
  <2>3. sweep_schedule \in Nat /\ now \in Nat /\ sweep_schedule <= now
    <3>1. sweep_schedule <= started /\ started <= now
      BY DEF ProcessInv, GridInv, Tick
    <3> QED BY <3>1, ClockTypes
  <2> QED BY <2>2, <2>3, AdvanceIsNext DEF ScheduleSweep, ScheduledNext
<1> QED BY <1>1, ProcessAlways, PTL DEF ControllerSpec, NextDeadlineAhead

----------------------------------------------------------------------------
(* The dump: the inductive invariant, what each call has already done *)

BeforeLink == {"create", "chmod", "write", "sync", "close", "link"}

\* What the temporary file holds before each call.
TemporaryAt ==
    /\ call = "create" => temporary = Absent
    /\ call \in {"create", "chmod"} => offset = 0
    /\ call \in {"chmod", "write"} => temporary = File(offset, 0)
    /\ call = "sync" => temporary = File(Length, 0)
    /\ call \in {"close", "link", "unlink"} => temporary = File(Length, Length)

\* The output is linked by the last call but one, complete and on disk; a crash can take
\* the name away but nothing of the contents.
OutputAt ==
    /\ Linked => output = File(Length, Length)
    /\ call \in BeforeLink => ~Linked
    /\ call = "unlink" => Linked

DumpInv == DumpTypeOK /\ TemporaryAt /\ OutputAt /\ NoLeftovers /\ ResultTruthful

\* A file holds no more than was written, and a file is neither absent nor somebody else's.
LEMMA FileFacts ==
    /\ \A n, d : File(n, d).state = "file" /\ File(n, d).written = n /\ File(n, d).durable = d
    /\ \A n, d : File(n, d) # Absent /\ File(n, d) # Foreign
    /\ Absent.state # "file" /\ Foreign.state # "file" /\ Absent # Foreign
BY DEF File, Absent, Foreign

\* Nothing is missing of what was synced.
LEMMA LostOutput ==
    ASSUME Length \in Nat, NEW o \in {Absent, Foreign, File(Length, Length)}, NEW p \in Lost(o)
    PROVE  p \in {Absent, Foreign, File(Length, Length)}
BY FileFacts DEF Lost

\* What is left of a temporary file is still one.
LEMMA LostTemporary ==
    ASSUME Length \in Nat, NEW f \in Files, NEW g \in Lost(f)
    PROVE  g \in Files
<1>1. CASE f = Absent
  BY <1>1, FileFacts DEF Lost, Files
<1>2. ASSUME NEW n \in 0..Length, NEW d \in 0..Length, f = File(n, d)  PROVE g \in Files
  <2>1. g = Absent \/ \E k \in d..n : g = File(k, d)
    BY <1>2, FileFacts DEF Lost
  <2> QED BY <2>1 DEF Files
<1> QED BY <1>1, <1>2 DEF Files

LEMMA DumpStarts == DumpConstants /\ DumpInit => DumpInv
<1> SUFFICES ASSUME DumpConstants, DumpInit PROVE DumpInv
  OBVIOUS
<1> Length \in Nat
  BY DEF DumpConstants
<1>1. DumpTypeOK
  BY DEF DumpInit, DumpTypeOK, Files, Foreign, Absent, NoResult, Result, Errors
<1> QED
  BY <1>1, FileFacts DEF DumpInit, DumpInv, TemporaryAt, OutputAt, BeforeLink, Linked,
     NoLeftovers, ResultTruthful

\* A failure before the link: nothing is published, and the temporary file is removed
\* unless that fails, too.
LEMMA FailureKeeps ==
    ASSUME DumpConstants, DumpInv, call \in BeforeLink, NEW error \in Errors \ {"none"},
           Fail(error), UNCHANGED <<output, offset>>,
           temporary' \in {Absent, temporary}, unlinked' \in BOOLEAN,
           unlinked' => temporary' = Absent
    PROVE  DumpInv'
<1> Length \in Nat
  BY DEF DumpConstants
<1>1. DumpTypeOK'
  BY DEF Fail, DumpInv, DumpTypeOK, Files, Result
<1>2. call' = "done" /\ ~result'.published /\ result'.error # "none" /\ ~Linked'
  BY DEF Fail, Result, DumpInv, OutputAt, Linked
<1> QED
  BY <1>1, <1>2 DEF DumpInv, TemporaryAt, OutputAt, BeforeLink, NoLeftovers, ResultTruthful

LEMMA CleanedUp ==
    ASSUME DumpConstants, DumpInv, call \in BeforeLink, NEW error \in Errors \ {"none"},
           FailAndCleanUp(error)
    PROVE  DumpInv'
<1>1. Fail(error) /\ UNCHANGED <<output, offset>>
  BY DEF FailAndCleanUp
<1>2. /\ temporary' \in {Absent, temporary} /\ unlinked' \in BOOLEAN
      /\ unlinked' => temporary' = Absent
  BY DEF FailAndCleanUp, Cleanup, TemporaryAfterFailure, DumpInv, DumpTypeOK
<1> QED BY <1>1, <1>2, FailureKeeps

LEMMA DumpStepKeeps == DumpConstants /\ DumpInv /\ [DumpNext]_dumpVars => DumpInv'
<1> SUFFICES ASSUME DumpConstants, DumpInv, [DumpNext]_dumpVars PROVE DumpInv'
  OBVIOUS
<1> Length \in Nat \ {0}
  BY DEF DumpConstants
<1>1. CASE Create
  <2>1. CASE /\ temporary' = File(0, 0) /\ call' = "chmod"
             /\ UNCHANGED <<output, offset, unlinked, result>>
    <3>1. DumpTypeOK'
      BY <1>1, <2>1 DEF DumpInv, DumpTypeOK, Files
    <3> QED BY <1>1, <2>1, <3>1
      DEF Create, DumpInv, TemporaryAt, OutputAt, BeforeLink, Linked, NoLeftovers, ResultTruthful
  <2>2. ASSUME NEW error \in {"invalid_metadata", "invalid_recording",
                              "temporary_file_create_failed"},
               Fail(error), UNCHANGED temporary
        PROVE  DumpInv'
    <3>1. /\ UNCHANGED <<output, offset>> /\ call \in BeforeLink /\ error \in Errors \ {"none"}
          /\ temporary' = Absent /\ unlinked' \in BOOLEAN
      BY <1>1, <2>2 DEF Create, BeforeLink, Errors, DumpInv, DumpTypeOK, TemporaryAt
    <3> QED BY <2>2, <3>1, FailureKeeps
  <2> QED BY <1>1, <2>1, <2>2 DEF Create
<1>2. CASE Chmod
  <2>1. CASE call' = "write" /\ UNCHANGED <<temporary, output, offset, result, unlinked>>
    BY <1>2, <2>1 DEF Chmod, DumpInv, DumpTypeOK, TemporaryAt, OutputAt, BeforeLink, Linked,
       NoLeftovers, ResultTruthful
  <2> QED BY <1>2, <2>1, CleanedUp DEF Chmod, BeforeLink, Errors
<1>3. CASE Write
  <2>1. ASSUME NEW n \in (offset + 1)..Length,
               offset' = n, temporary' = [temporary EXCEPT !.written = n],
               call' = IF WriteEnds(n) THEN "sync" ELSE "write",
               UNCHANGED <<output, result, unlinked>>
        PROVE  DumpInv'
    <3>1. temporary' = File(n, 0) /\ n \in 0..Length
      BY <1>3, <2>1 DEF Write, DumpInv, DumpTypeOK, TemporaryAt, File
    <3>2. DumpTypeOK'
      BY <2>1, <3>1 DEF DumpInv, DumpTypeOK, Files, WriteEnds
    <3> QED BY <1>3, <2>1, <3>1, <3>2
      DEF Write, WriteEnds, DumpInv, TemporaryAt, OutputAt, BeforeLink, Linked, NoLeftovers,
          ResultTruthful
  <2> QED BY <1>3, <2>1, CleanedUp DEF Write, BeforeLink, Errors
<1>4. CASE Sync
  <2>1. CASE /\ temporary' = [temporary EXCEPT !.durable = temporary.written]
             /\ call' = "close" /\ UNCHANGED <<output, offset, result, unlinked>>
    <3>1. temporary' = File(Length, Length)
      BY <1>4, <2>1 DEF Sync, DumpInv, TemporaryAt, File
    <3>2. DumpTypeOK'
      BY <1>4, <2>1, <3>1 DEF Sync, DumpInv, DumpTypeOK, Files
    <3> QED BY <1>4, <2>1, <3>1, <3>2
      DEF Sync, DumpInv, TemporaryAt, OutputAt, BeforeLink, Linked, NoLeftovers, ResultTruthful
  <2> QED BY <1>4, <2>1, CleanedUp DEF Sync, BeforeLink, Errors
<1>5. CASE Close
  <2>1. CASE call' = "link" /\ UNCHANGED <<temporary, output, offset, result, unlinked>>
    BY <1>5, <2>1 DEF Close, DumpInv, DumpTypeOK, TemporaryAt, OutputAt, BeforeLink, Linked,
       NoLeftovers, ResultTruthful
  <2> QED BY <1>5, <2>1, CleanedUp DEF Close, BeforeLink, Errors
<1>6. CASE Link
  <2>1. CASE MayLink /\ output' = temporary /\ call' = "unlink"
             /\ UNCHANGED <<temporary, offset, result, unlinked>>
    <3>1. output' = File(Length, Length) /\ temporary' = File(Length, Length)
      BY <1>6, <2>1 DEF Link, DumpInv, TemporaryAt
    <3>2. DumpTypeOK'
      BY <1>6, <2>1, <3>1 DEF Link, DumpInv, DumpTypeOK, Files
    <3> QED BY <1>6, <2>1, <3>1, <3>2, FileFacts
      DEF Link, DumpInv, TemporaryAt, OutputAt, BeforeLink, Linked, NoLeftovers, ResultTruthful
  <2> QED BY <1>6, <2>1, CleanedUp DEF Link, BeforeLink, Errors
<1>7. CASE Unlink
  <2>1. DumpTypeOK'
    <3>1. Result("none", TRUE) \in [error : Errors, published : BOOLEAN]
      BY DEF Result, Errors
    <3>2. CleanupFailure \in [error : Errors, published : BOOLEAN]
      BY DEF CleanupFailure, Result, Errors
    <3>3. result' \in [error : Errors, published : BOOLEAN]
      BY <1>7, <3>1, <3>2 DEF Unlink
    <3>4. temporary' = Absent \/ temporary' = temporary
      BY <1>7 DEF Unlink
    <3>5. temporary' \in Files
      BY <3>4 DEF DumpInv, DumpTypeOK, Files
    <3>6. UNCHANGED <<output, offset>> /\ call' = "done" /\ unlinked' \in BOOLEAN
      BY <1>7 DEF Unlink, DumpInv, DumpTypeOK
    <3> QED BY <3>3, <3>5, <3>6 DEF DumpInv, DumpTypeOK, Files
  <2>2. /\ call' = "done" /\ Linked' /\ result'.published /\ UNCHANGED <<output, offset>>
        /\ result'.error = "none" => temporary' = Absent
        /\ unlinked' => temporary' = Absent
    BY <1>7 DEF Unlink, CleanupFailure, Result, DumpInv, OutputAt, Linked
  <2> QED BY <2>1, <2>2
    DEF DumpInv, TemporaryAt, OutputAt, BeforeLink, Linked, NoLeftovers, ResultTruthful
<1>8. CASE Kill
  BY <1>8 DEF Kill, DumpInv, DumpTypeOK, TemporaryAt, OutputAt, BeforeLink, Linked, NoLeftovers,
     ResultTruthful
<1>9. CASE SystemCrash
  <2>1. output \in {Absent, Foreign, File(Length, Length)}
    BY FileFacts DEF DumpInv, DumpTypeOK, OutputAt, Linked, Files
  <2>2. output' \in {Absent, Foreign, File(Length, Length)} /\ temporary' \in Files
    BY <1>9, <2>1, LostOutput, LostTemporary DEF SystemCrash, DumpInv, DumpTypeOK
  <2>3. DumpTypeOK'
    BY <1>9, <2>2 DEF SystemCrash, DumpInv, DumpTypeOK, Files
  <2> QED BY <1>9, <2>2, <2>3, FileFacts
    DEF SystemCrash, DumpInv, TemporaryAt, OutputAt, BeforeLink, Linked, NoLeftovers,
        ResultTruthful
<1>10. CASE OthersCreate \/ OthersRemove
  <2>1. /\ UNCHANGED <<temporary, call, offset, result, unlinked>>
        /\ ~Linked /\ ~Linked' /\ output' \in {Absent, Foreign}
    BY <1>10, FileFacts DEF OthersCreate, OthersRemove, Linked
  <2>2. DumpTypeOK'
    BY <2>1 DEF DumpInv, DumpTypeOK, Files
  <2> QED BY <2>1, <2>2
    DEF DumpInv, TemporaryAt, OutputAt, BeforeLink, Linked, NoLeftovers, ResultTruthful
<1>11. CASE UNCHANGED dumpVars
  BY <1>11 DEF dumpVars, DumpInv, DumpTypeOK, TemporaryAt, OutputAt, BeforeLink, Linked,
     NoLeftovers, ResultTruthful
<1> QED BY <1>1, <1>2, <1>3, <1>4, <1>5, <1>6, <1>7, <1>8, <1>9, <1>10, <1>11 DEF DumpNext

----------------------------------------------------------------------------
(* The theorems about the dump *)

\* Whoever finds the output finds the whole recording, whatever failed and wherever the
\* process or the system stopped; nothing is left behind unasked, and the caller is told
\* the truth.
THEOREM DumpIsWhole ==
    ASSUME DumpConstants
    PROVE  DumpSpec => []DumpConsistent
<1>1. DumpInv => DumpConsistent
  BY FileFacts DEF DumpInv, OutputAt, OutputComplete, DumpConsistent
<1> QED BY <1>1, DumpStarts, DumpStepKeeps, PTL DEF DumpSpec

\* A file of somebody else is never replaced by the dump.
THEOREM OthersAreKept == DumpSpec => NeverReplaces
<1>1. [DumpNext]_dumpVars => [output = Foreign => ~(output'.state = "file")]_dumpVars
  <2> SUFFICES ASSUME DumpNext, output = Foreign PROVE ~(output'.state = "file")
    BY DEF dumpVars
  <2>1. CASE Link
    BY <2>1, FileFacts DEF Link, MayLink, FailAndCleanUp
  <2>2. CASE SystemCrash
    BY <2>2, FileFacts DEF SystemCrash, Lost
  <2> QED BY <2>1, <2>2, FileFacts
    DEF DumpNext, Create, Chmod, Write, Sync, Close, Unlink, Kill, OthersCreate, OthersRemove,
        FailAndCleanUp
<1> QED BY <1>1, PTL DEF DumpSpec, NeverReplaces
=============================================================================
