----------------------------- MODULE TickProfile -----------------------------
(***************************************************************************)
(* The way of a measurement: a controller records its ticks and exports    *)
(* their number and duration, the recording is serialized when it ends,    *)
(* and profile-report and profile-verify read it, perhaps after somebody   *)
(* changed the file. How ticks are run and when they are late is in        *)
(* ControllerTick, here a tick is a step; how the file gets on the disk is *)
(* in ProfileDump.                                                         *)
(*                                                                         *)
(* An optional value is the set of it. Times are nanoseconds, of which     *)
(* NsPerUs make a microsecond; seconds are written with FractionDigits     *)
(* digits of base Ten behind the point.                                    *)
(***************************************************************************)
EXTENDS Integers, Sequences, FiniteSets, SequencesExt

CONSTANTS
    NsPerUs, Ten, FractionDigits,
    SampleCapacity,  \* capacity of the recorder
    MaxU64,          \* the largest number of 64 bits, and a bound on the times of a run
    Gaps,            \* times between two ticks
    Durations,       \* durations of the three phases of a tick
    UtcWindows,      \* windows a report is asked for: optional bounds
    MaxTicks         \* bound on the ticks of a run

\* At most one number.
Optional(value) == \A n \in value : n \in Nat /\ value = {n}

ProfileConstants ==
    /\ {NsPerUs, Ten, FractionDigits, SampleCapacity, MaxU64, MaxTicks} \subseteq Nat \ {0}
    /\ Ten > 1
    /\ Gaps \subseteq Nat
    /\ Durations \subseteq Nat \X Nat \X Nat
    /\ \A window \in UtcWindows : Optional(window.from) /\ Optional(window.to)

Power[n \in 0..FractionDigits] == IF n = 0 THEN 1 ELSE Ten * Power[n - 1]
UsPerSecond == Power[FractionDigits]

VARIABLES
    run,        \* "boot", "running", "ended", "dumped", "changed"
    clock,      \* UTC, which the controller reads at boot
    origin,     \* history: UTC of the recording origin
    bracket,    \* recording_origin_utc
    recorder,   \* Recorder
    stats,      \* sweep_stats_.work
    snapshot,   \* what was scraped last
    scraped,    \* history: ticks completed at that time
    file,       \* the recording on disk
    verdict,    \* profile-verify
    report      \* profile-report: its window and what it says

profileVars == <<run, clock, origin, bracket, recorder, stats, snapshot, scraped, file, verdict,
                 report>>

----------------------------------------------------------------------------
(* The recording *)

\* is_valid_tick_sample, is_known_outcome.
IsValidSample(s) ==
    /\ s.id # 0
    /\ CASE s.outcome = "completed" ->
              s.started <= s.command /\ s.command <= s.session /\ s.session <= s.policy
              /\ s.policy = s.finished
         [] s.outcome = "command_sweep_threw" ->
              s.command = 0 /\ s.session = 0 /\ s.policy = 0 /\ s.started <= s.finished
         [] s.outcome = "session_sweep_threw" ->
              s.session = 0 /\ s.policy = 0 /\ s.started <= s.command /\ s.command <= s.finished
         [] s.outcome = "policy_evaluate_threw" ->
              s.policy = 0 /\ s.started <= s.command /\ s.command <= s.session
              /\ s.session <= s.finished
         [] OTHER -> FALSE

\* command_sweep_completed and the two others: the phases an outcome stands for.
Completes(outcome) ==
    CASE outcome = "completed" -> {"command", "session", "policy"}
      [] outcome = "policy_evaluate_threw" -> {"command", "session"}
      [] outcome = "session_sweep_threw" -> {"command"}
      [] OTHER -> {}

\* append_sample: the end of a phase that did not complete is null.
Endpoint(s, phase) == IF phase \in Completes(s.outcome) THEN {s[phase]} ELSE {}
SerializedSample(s) ==
    [id |-> s.id, started |-> s.started, finished |-> s.finished, outcome |-> s.outcome,
     command |-> Endpoint(s, "command"), session |-> Endpoint(s, "session"),
     policy |-> Endpoint(s, "policy")]

NoFile == [schema |-> "none"]

\* serialize_recording. A run has an identifier: main refuses an empty one.
Serializable ==
    /\ \A b \in bracket : b.before <= b.after
    /\ \A i \in DOMAIN recorder.samples : IsValidSample(recorder.samples[i])
Serialized ==
    [schema |-> "v1", origin |-> bracket, capacity |-> SampleCapacity,
     captured |-> Len(recorder.samples), dropped |-> recorder.dropped,
     samples |-> [i \in DOMAIN recorder.samples |-> SerializedSample(recorder.samples[i])]]

\* parse_sample: what is null or missing must be so, and the sample is valid.
ParsedSample(v) ==
    LET end(phase) == IF phase \in Completes(v.outcome) THEN CHOOSE n \in v[phase] : TRUE ELSE 0
    IN  [id |-> v.id, started |-> v.started, finished |-> v.finished, outcome |-> v.outcome,
         command |-> end("command"), session |-> end("session"), policy |-> end("policy")]
Parses(v) ==
    /\ \A phase \in {"command", "session", "policy"} : v[phase] # {} <=> phase \in Completes(v.outcome)
    /\ IsValidSample(ParsedSample(v))

----------------------------------------------------------------------------
(* The exported counters *)

\* append_microseconds_as_seconds: digits from the last one on; zeros at the end are left
\* out, and so is the point when only zeros follow it.
Digits(us) ==
    LET rest[n \in 0..FractionDigits] ==
            IF n = 0 THEN us % UsPerSecond ELSE rest[n - 1] \div Ten
    IN  [i \in 1..FractionDigits |-> rest[FractionDigits - i] % Ten]
AsSeconds(us) ==
    LET digits == Digits(us)
        last == CHOOSE n \in 0..FractionDigits :
                    /\ n > 0 => digits[n] # 0
                    /\ \A i \in (n + 1)..FractionDigits : digits[i] = 0
    IN  [whole |-> us \div UsPerSecond, fraction |-> SubSeq(digits, 1, last)]

\* The value of digits behind the point, in microseconds.
DigitsValue(digits) ==
    LET value[n \in 0..FractionDigits] ==
            IF n = 0 THEN 0
            ELSE value[n - 1] * Ten + (IF n <= Len(digits) THEN digits[n] ELSE 0)
    IN  value[FractionDigits]

\* parse_seconds_as_microseconds.
ParseSeconds(text) ==
    LET us == DigitsValue(text.fraction) IN
    IF Len(text.fraction) > FractionDigits \/ text.whole > (MaxU64 - us) \div UsPerSecond THEN {}
    ELSE {text.whole * UsPerSecond + us}

\* scrape, of which the two counters are looked at; parse_tick_metrics_snapshot takes the
\* lines of just these two.
Scraped == [ticks |-> stats.count, duration |-> AsSeconds(stats.sum_us)]

----------------------------------------------------------------------------
(* Analysis *)

\* The sum over chosen places, one sample after the other.
SumsOf(chosen, values) ==
    LET sum[n \in 0..Len(values)] ==
            IF n = 0 THEN 0 ELSE sum[n - 1] + (IF n \in chosen THEN values[n] ELSE 0)
    IN  sum
SumOf(chosen, values) == SumsOf(chosen, values)[Len(values)]

\* DistributionAccumulator: the nearest rank of 95 percent.
P95Rank(n) == n - n \div 20

Distribution(chosen, values) ==
    LET n == Cardinality(chosen)
        AtMost(v) == {i \in chosen : values[i] <= v}
        Below(v) == {i \in chosen : values[i] < v}
        Ranked(rank) == CHOOSE v \in {values[i] : i \in chosen} :
                            Cardinality(Below(v)) < rank /\ rank <= Cardinality(AtMost(v))
    IN  IF n = 0 THEN [count |-> 0, mean |-> {}, p95 |-> {}, max |-> {}]
        ELSE [count |-> n, mean |-> {SumOf(chosen, values) \div n},
              p95 |-> {Ranked(P95Rank(n))}, max |-> {Ranked(n)}]

\* in_window: [from, to) of the time a tick started, up to a tick.
InWindow(s, window, through) ==
    /\ \A from \in window.from : s.started >= from
    /\ \A to \in window.to : s.started < to
    /\ \A tick \in through : s.id <= tick

\* add_completed_durations: each duration is rounded down, as DurationStats does.
Microseconds(durations) == [i \in DOMAIN durations |-> durations[i] \div NsPerUs]

Error(what) == [error |-> what]

\* The summary of parsed samples. The sums of the phases are below that of the ticks.
Summarized(samples, f, window, through) ==
    LET selected == {i \in DOMAIN samples : InWindow(samples[i], window, through)}
        Of(outcome) == {i \in selected : samples[i].outcome = outcome}
        completed == Of("completed")
        Over(from, to) == [i \in DOMAIN samples |-> samples[i][to] - samples[i][from]]
        ticks == Over("started", "finished")
        pairs == {i \in selected : i - 1 \in selected}
        adjacent == {i \in pairs : samples[i].id - samples[i - 1].id = 1}
        intervals == [i \in DOMAIN samples |->
                         IF i \in pairs THEN samples[i].started - samples[i - 1].started ELSE 0]
    IN  IF SumOf(completed, ticks) > MaxU64 \/ SumOf(adjacent, intervals) > MaxU64
          THEN Error("arithmetic_overflow")
        ELSE [error |-> "none", origin |-> f.origin, dropped |-> f.dropped,
              selected_ticks |-> Cardinality(selected),
              completed_ticks |-> Cardinality(completed),
              duration_us |-> SumOf(completed, Microseconds(ticks)),
              failures |-> [o \in {"command_sweep_threw", "session_sweep_threw",
                                   "policy_evaluate_threw"} |-> Cardinality(Of(o))],
              tick |-> Distribution(completed, ticks),
              command_sweep |-> Distribution(completed, Over("started", "command")),
              session_sweep |-> Distribution(completed, Over("command", "session")),
              policy_evaluate |-> Distribution(completed, Over("session", "policy")),
              start_interval |-> Distribution(adjacent, intervals),
              start_interval_gaps |-> Cardinality(pairs \ adjacent)]

\* Ticks and the times they start are in order.
Ordered(samples) ==
    \A i \in 2..Len(samples) : /\ samples[i].id > samples[i - 1].id
                               /\ samples[i].started >= samples[i - 1].started

\* analyze_recording_impl, of a file that is JSON.
Analyzed(f, window, through) ==
    LET samples == [i \in DOMAIN f.samples |-> ParsedSample(f.samples[i])]
    IN  IF \E from \in window.from, to \in window.to : from > to THEN Error("invalid_window")
        ELSE IF f.schema # "v1" THEN Error("unsupported_schema")
        ELSE IF f.capacity = 0 \/ f.captured > f.capacity \/ f.captured # Len(f.samples)
                  \/ \E b \in f.origin : b.before > b.after
               THEN Error("invalid_recording")
        ELSE IF \E i \in DOMAIN f.samples : ~Parses(f.samples[i]) THEN Error("invalid_recording")
        ELSE IF ~Ordered(samples) THEN Error("invalid_recording")
        ELSE Summarized(samples, f, window, through)

Anything == [from |-> {}, to |-> {}]

\* verify_tick_metrics_snapshot.
Crosscheck(summary, ticks, duration_us) ==
    CASE summary.dropped # 0 -> "incomplete_recording"
      [] summary.selected_ticks # ticks -> "raw_prefix_sample_count_mismatch"
      [] summary.completed_ticks # ticks -> "raw_prefix_completed_count_mismatch"
      [] summary.duration_us # duration_us -> "raw_prefix_duration_mismatch"
      [] OTHER -> "pass"

\* profile-verify: the ticks up to the number that was completed at the scrape.
Verified ==
    LET duration == ParseSeconds(snapshot.duration)
        summary == Analyzed(file, Anything, {snapshot.ticks})
    IN  IF duration = {} THEN "invalid_tick_duration_total"
        ELSE IF summary.error # "none" THEN summary.error
        ELSE Crosscheck(summary, snapshot.ticks, CHOOSE d \in duration : TRUE)

SubtractOrZero(value, subtrahend) == IF value > subtrahend THEN value - subtrahend ELSE 0

\* Slip: the wrong ends of the bracket.
MapUnixWindow_Wide(window, b) ==
    [from |-> {SubtractOrZero(from, b.after) : from \in window.from},
     to |-> {SubtractOrZero(to, b.before) : to \in window.to}]

\* map_unix_window, before the bounds are compared.
MapUnixWindow(window, b) ==
    [from |-> {SubtractOrZero(from, b.before) : from \in window.from},
     to |-> {SubtractOrZero(to, b.after) : to \in window.to}]

\* profile-report with a window of UTC.
Reported(window) ==
    LET metadata == Analyzed(file, Anything, {}) IN
    IF metadata.error # "none" THEN metadata
    ELSE IF metadata.origin = {} THEN Error("no recording_origin_utc")
    ELSE LET mapped == MapUnixWindow(window, CHOOSE b \in metadata.origin : TRUE) IN
         IF \E from \in mapped.from, to \in mapped.to : from > to THEN Error("no raw interval")
         ELSE Analyzed(file, mapped, {})

----------------------------------------------------------------------------

ProfileInit ==
    /\ run = "boot" /\ clock = 1 /\ origin = 0 /\ bracket = {}
    /\ recorder = [samples |-> <<>>, dropped |-> 0]
    /\ stats = [sum_us |-> 0, count |-> 0]
    /\ snapshot = [ticks |-> 0, duration |-> AsSeconds(0)] /\ scraped = 0
    /\ file = NoFile /\ verdict = "none" /\ report = [window |-> Anything, says |-> Error("none yet")]

\* main and Controller::start: the origin is between two looks at the wall clock, of which
\* one may fail.
Boot ==
    /\ run = "boot" /\ run' = "running"
    /\ \E start \in 0..1, rest \in 0..1 :
         /\ origin' = clock + start
         /\ clock' = clock + start + rest
         /\ \/ bracket' = {[before |-> clock, after |-> clock']}
            \/ bracket' = {}
    /\ UNCHANGED <<recorder, stats, snapshot, scraped, file, verdict, report>>

Ticks == Len(recorder.samples) + recorder.dropped

\* Recorder::record, while the controller runs.
Record(s) ==
    recorder' = IF Len(recorder.samples) = SampleCapacity
                  THEN [recorder EXCEPT !.dropped = @ + 1]
                  ELSE [recorder EXCEPT !.samples = Append(@, s)]

\* Bound: times fit 64 bits, with a microsecond to spare.
InTime(time) == time + NsPerUs <= MaxU64

\* A tick that completes: DurationStats::record.
Tick(gap, d) ==
    LET started == clock - origin + gap
        command == started + d[1]
        session == command + d[2]
        finished == session + d[3]
    IN  /\ run = "running" /\ Ticks < MaxTicks /\ InTime(finished)
        /\ clock' = origin + finished
        /\ stats' = [sum_us |-> stats.sum_us + (finished - started) \div NsPerUs,
                     count |-> stats.count + 1]
        /\ Record([id |-> Ticks + 1, started |-> started, command |-> command,
                   session |-> session, policy |-> finished, finished |-> finished,
                   outcome |-> "completed"])
        /\ UNCHANGED <<run, origin, bracket, snapshot, scraped, file, verdict, report>>

\* A tick that throws: its exception leaves the event loop. It is recorded and not counted.
TickThrows(gap, d, outcome) ==
    LET started == clock - origin + gap
        command == IF "command" \in Completes(outcome) THEN started + d[1] ELSE 0
        session == IF "session" \in Completes(outcome) THEN command + d[2] ELSE 0
        finished == started + d[1] + d[2] + d[3]
    IN  /\ run = "running" /\ Ticks < MaxTicks /\ InTime(finished)
        /\ clock' = origin + finished
        /\ Record([id |-> Ticks + 1, started |-> started, command |-> command,
                   session |-> session, policy |-> 0, finished |-> finished,
                   outcome |-> outcome])
        /\ run' = "ended"
        /\ UNCHANGED <<origin, bracket, stats, snapshot, scraped, file, verdict, report>>

\* A scrape, between two ticks.
Scrape ==
    /\ run = "running" /\ snapshot # Scraped
    /\ snapshot' = Scraped /\ scraped' = stats.count
    /\ UNCHANGED <<run, clock, origin, bracket, recorder, stats, file, verdict, report>>

Stop ==
    /\ run = "running" /\ run' = "ended"
    /\ UNCHANGED <<clock, origin, bracket, recorder, stats, snapshot, scraped, file, verdict, report>>

\* finish and dump_recording.
DumpRecording ==
    /\ run = "ended" /\ run' = "dumped"
    /\ file' = IF Serializable THEN Serialized ELSE NoFile
    /\ UNCHANGED <<clock, origin, bracket, recorder, stats, snapshot, scraped, verdict, report>>

Swapped(samples, i) == [samples EXCEPT ![i] = samples[i - 1], ![i - 1] = samples[i]]
Lengthened(samples, i) ==
    [samples EXCEPT ![i] = [@ EXCEPT !.policy = {MaxU64}, !.finished = MaxU64]]

\* Somebody makes file g of file f: a sample is taken out, with the count kept or corrected,
\* two are swapped, the last one is made to last for ever, or the schema is of another version.
Changed(f, g) ==
    \/ g = [f EXCEPT !.schema = "v2"]
    \/ \E i \in DOMAIN f.samples, n \in {f.captured, f.captured - 1} :
           g = [f EXCEPT !.samples = RemoveAt(f.samples, i), !.captured = n]
    \/ \E i \in 2..Len(f.samples) : g = [f EXCEPT !.samples = Swapped(f.samples, i)]
    \/ \E i \in DOMAIN f.samples \cap {Len(f.samples)} :
           g = [f EXCEPT !.samples = Lengthened(f.samples, i)]

\* One of the tools reads the file.
MayRead == /\ run \in {"dumped", "changed"} /\ file # NoFile
            /\ verdict = "none" /\ report.says.error = "none yet"

Change ==
    /\ MayRead /\ run = "dumped" /\ run' = "changed"
    /\ Changed(file, file')
    /\ UNCHANGED <<clock, origin, bracket, recorder, stats, snapshot, scraped, verdict, report>>

Verify ==
    /\ MayRead
    /\ verdict' = Verified
    /\ UNCHANGED <<run, clock, origin, bracket, recorder, stats, snapshot, scraped, file, report>>

Report(window) ==
    /\ MayRead
    /\ report' = [window |-> window, says |-> Reported(window)]
    /\ UNCHANGED <<run, clock, origin, bracket, recorder, stats, snapshot, scraped, file, verdict>>

ProfileNext ==
    \/ Boot
    \/ \E gap \in Gaps, d \in Durations : Tick(gap, d)
    \/ \E gap \in Gaps, d \in Durations,
         o \in {"command_sweep_threw", "session_sweep_threw", "policy_evaluate_threw"} :
            TickThrows(gap, d, o)
    \/ Scrape \/ Stop \/ DumpRecording \/ Change \/ Verify
    \/ \E window \in UtcWindows : Report(window)

ProfileSpec == ProfileInit /\ [][ProfileNext]_profileVars

----------------------------------------------------------------------------
(* Properties *)

ProfileTypeOK ==
    /\ run \in {"boot", "running", "ended", "dumped", "changed"}
    /\ clock \in Nat /\ origin \in 0..clock
    /\ Len(recorder.samples) <= SampleCapacity
    /\ stats.count <= MaxTicks /\ scraped <= stats.count

\* profile-verify tells the truth about a scrape and a file: a run of which no sample was
\* dropped passes, whatever tick the scrape saw and whether the run ended in an exception;
\* and it passes only with the ticks of that run up to the scrape, all of them and no others.
VerifyTruthful ==
    /\ run = "dumped" /\ verdict # "none" => (verdict = "pass" <=> recorder.dropped = 0)
    /\ verdict = "pass" =>
         /\ recorder.dropped = 0
         /\ scraped <= Len(recorder.samples) /\ scraped <= Len(file.samples)
         /\ \A i \in 1..scraped : file.samples[i] = SerializedSample(recorder.samples[i])
         /\ \A i \in DOMAIN file.samples : file.samples[i].id <= scraped => i <= scraped

\* True start of a recorded sample.
StartedAt(s) == origin + s.started
Inside(s, window) ==
    /\ \A from \in window.from : StartedAt(s) >= from
    /\ \A to \in window.to : StartedAt(s) < to

\* How far inside: by the width of the bracket.
WellInside(s, window) ==
    \A b \in bracket :
        /\ \A from \in window.from : StartedAt(s) - (b.after - b.before) >= from
        /\ \A to \in window.to : StartedAt(s) + (b.after - b.before) < to

\* What a report says of the recording, when it was asked for a window.
SaysTrue(says, window) ==
    LET sure == {i \in DOMAIN recorder.samples : WellInside(recorder.samples[i], window)}
        inside == {i \in DOMAIN recorder.samples : Inside(recorder.samples[i], window)}
    IN  /\ Cardinality(sure) <= says.selected_ticks
        /\ says.selected_ticks <= Cardinality(inside)
        /\ says.selected_ticks = says.completed_ticks + says.failures["command_sweep_threw"]
               + says.failures["session_sweep_threw"] + says.failures["policy_evaluate_threw"]
        /\ says.start_interval_gaps = 0
        /\ says.selected_ticks > 0 => says.start_interval.count = says.selected_ticks - 1
        /\ \A p \in says.tick.p95, m \in says.tick.max : p <= m

\* A report of an untouched file counts ticks that started inside the UTC window it was
\* asked for, whatever the origin was inside its bracket, and misses at most those near
\* its ends; each selected tick is counted as completed or failed, and each pair of
\* successive ones as an interval or a gap, of which an untouched file has none.
ReportTruthful ==
    run = "dumped" /\ report.says.error = "none" => SaysTrue(report.says, report.window)

\* What is said about a run is true of it.
ProfilesTruthful == ProfileTypeOK /\ VerifyTruthful /\ ReportTruthful
=============================================================================
