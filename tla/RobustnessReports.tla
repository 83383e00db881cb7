------------------------- MODULE RobustnessReports -------------------------
(***************************************************************************)
(* The directory of benchmark results and who works on it: the commands    *)
(* `benchmark robustness --out-dir` and `robustness-report`, the worker    *)
(* that executes a benchmark run of the dashboard, and the dashboard's     *)
(* report; besides, the command `benchmark kgw` (or synthid), whose report *)
(* goes elsewhere.                                                         *)
(*                                                                         *)
(* A file is not written in one step: opening it for writing empties it,   *)
(* and until it is closed a reader, or a kill, finds some of its lines and *)
(* possibly a part of the next. Reading one file is one step.              *)
(***************************************************************************)
EXTENDS RobustnessResults

CONSTANTS
    CliSpec, RunSpec,   \* [detector, config, lengths, samples, seed, transforms, profile]
    CliVerdicts, RunVerdicts,   \* bound: the verdicts their detectors come to
    Run,                \* id of the dashboard's run
    StatLengths, StatSamples, Scores, Thresholds,   \* of the command benchmark kgw
    MaxWorks,           \* bound: robustness commands and executions of the run together
    MaxFaults,          \* bound: processes killed, and exceptions
    MaxReports          \* bound: reports that are asked for

\* The command and validate_benchmark_config ask for a sample at least; lengths and names
\* may be listed twice, and the two may name one configuration.
ASSUME ReportsAssumption ==
    /\ \A spec \in {CliSpec, RunSpec} :
          /\ spec.config \in Nat   \* their order is that of the names
          /\ spec.samples \in Nat \ {0}
          /\ spec.lengths \in Seq(Nat) \ {<<>>}
          /\ resolve_experiment_transforms(spec) \in Seq(DOMAIN CategoryOf)
    /\ Stride \in Nat /\ StatLengths \in Seq(Int) /\ StatSamples \in Nat
    /\ CliVerdicts \cup RunVerdicts \subseteq {TRUE, FALSE, None}

VARIABLES
    files,     \* path -> Absent, or [lines, state]
    cli,       \* robustness command: [pc, lines, printed]; printed is its own report
    worker,    \* [pc, lines]
    manifest, row,   \* the run's experiment in manifest.json, and its row
    reader,    \* reader -> [pc, todo, lines, warnings, at]
    scored,    \* the records of the command benchmark kgw, if it ran
    left,      \* what the bounds leave: [works, faults, reports]
    stampFailed   \* history: the worker's stamping of the results failed or was killed

vars == <<files, cli, worker, manifest, row, reader, scored, left, stampFailed>>

Absent == [lines |-> <<>>, state |-> "absent"]
Evaluation == [sample_count |-> 0]   \* an EvaluationRecord's line: no result's fields
Readers == {"report", "dashboard"}
CliIdle == [pc |-> "idle", lines |-> <<>>, printed |-> None]
Quiet == [pc |-> "idle", todo |-> {}, lines |-> <<>>, warnings |-> {}, at |-> None]

\* The *.jsonl files, sorted: benchmark_results.jsonl and records.jsonl of the
\* command's directory, then those of the runs.
Paths == <<"cli/benchmark_results", "cli/records", "runs/benchmark_results">>
CliResults == Paths[1]
CliRecords == Paths[2]
RunResults == Paths[3]

Init ==
    /\ files = [p \in ToSet(Paths) |-> Absent]
    /\ cli = CliIdle
    /\ worker = [pc |-> "idle", lines |-> <<>>]
    /\ manifest = "absent" /\ row = "queued"
    /\ reader = [r \in Readers |-> Quiet]
    /\ scored = <<>>
    /\ left = [works |-> MaxWorks, faults |-> MaxFaults, reports |-> MaxReports]
    /\ stampFailed = FALSE

-----------------------------------------------------------------------------
(* Files *)

\* Mutant: the results are appended to those of an earlier command.
MutAppends(path, lines) ==
    files' = [files EXCEPT ![path] = [lines |-> @.lines \o lines, state |-> "open"]]

\* open(path, "w"): what was there is gone; the lines arrive until it is closed.
OpenForWriting(path, lines) ==
    files' = [files EXCEPT ![path] = [lines |-> lines, state |-> "open"]]
Close(path) == files' = [files EXCEPT ![path].state = "whole"]

\* A kill, or an exception, leaves what was flushed, and the last line whole or not.
CutShort(path) ==
    \E kept \in Prefixes(files[path].lines), state \in {"whole", "torn"} :
        files' = [files EXCEPT ![path] = [lines |-> kept, state |-> state]]

-----------------------------------------------------------------------------
(* benchmark robustness --out-dir *)

\* Seeded samples of one length and seed are one text, and have one verdict.
Outcomes(spec, Verdicts) ==
    LET samples == ToSet(generate_watermark_samples(spec))
        names == ToSet(resolve_experiment_transforms(spec))
    IN  {[original |-> o, after |-> [x \in samples \X names |->
                                        IF x[2] = "identity" THEN o[x[1]] ELSE a[x]]] :
            o \in [samples -> Verdicts], a \in [samples \X (names \ {"identity"}) -> Verdicts]}

CliOutcomes == Outcomes(CliSpec, CliVerdicts)
RunOutcomes == Outcomes(RunSpec, RunVerdicts)

Evaluated(spec, outcome) ==
    evaluate_robustness_experiment(generate_watermark_samples(spec),
        resolve_experiment_transforms(spec), outcome.original, outcome.after)

CliFrame == UNCHANGED <<worker, manifest, row, reader, scored, stampFailed>>

_benchmark_robustness_watermark(outcome) ==
    /\ cli.pc = "idle"
    /\ left.works > 0
    /\ left' = [left EXCEPT !.works = @ - 1]
    /\ LET records == Evaluated(CliSpec, outcome)
       IN  cli' = [pc |-> "evaluated", lines |-> benchmark_results(CliSpec, records),
                   printed |-> render_robustness_report(compute_robustness_report(records))]
    /\ UNCHANGED files
    /\ CliFrame

\* records.jsonl holds evaluation records; the report beside it is no *.jsonl file.
WriteEvaluationRecords ==
    /\ \/ /\ cli.pc = "evaluated"
          /\ OpenForWriting(CliRecords, <<Evaluation>>)
          /\ cli' = [cli EXCEPT !.pc = "records", !.printed = None]
       \/ /\ cli.pc = "records"
          /\ Close(CliRecords)
          /\ cli' = [cli EXCEPT !.pc = "recorded"]
    /\ UNCHANGED left
    /\ CliFrame

write_watermark_benchmark_results ==
    /\ \/ /\ cli.pc = "recorded"
          /\ OpenForWriting(CliResults, cli.lines)
          /\ cli' = [cli EXCEPT !.pc = "results"]
       \/ /\ cli.pc = "results"
          /\ Close(CliResults)
          /\ cli' = CliIdle
    /\ UNCHANGED left
    /\ CliFrame

\* The command is interrupted, or ends with an exception.
KillCli ==
    /\ cli.pc \in {"evaluated", "records", "recorded", "results"}
    /\ left.faults > 0
    /\ left' = [left EXCEPT !.faults = @ - 1]
    /\ LET path == IF cli.pc = "records" THEN CliRecords ELSE CliResults IN
       IF cli.pc \in {"records", "results"}
       THEN CutShort(path) ELSE UNCHANGED files
    /\ cli' = CliIdle
    /\ CliFrame

-----------------------------------------------------------------------------
(* A run of the dashboard: run_plan_experiment, then _stamp_run_metadata *)

WorkerFrame == UNCHANGED <<cli, reader, scored>>

\* A retry resumes: an experiment that the manifest has as completed is not run again.
_execute_run(outcome) ==
    /\ worker.pc = "idle"
    /\ row \in {"queued", "failed"}
    /\ left.works > 0
    /\ left' = [left EXCEPT !.works = @ - 1]
    /\ row' = "running"
    /\ IF manifest = "completed"
       THEN /\ worker' = [pc |-> "stamp", lines |-> <<>>]
            /\ UNCHANGED manifest
       ELSE /\ worker' = [pc |-> "evaluated",
                          lines |-> benchmark_results(RunSpec, Evaluated(RunSpec, outcome))]
            /\ manifest' = "running"
    /\ UNCHANGED <<files, stampFailed>>
    /\ WorkerFrame

\* Mutant: the manifest says completed before the results are written.
MutCompletesFirst ==
    /\ \/ /\ worker.pc = "evaluated"
          /\ manifest' = "completed"
          /\ OpenForWriting(RunResults, worker.lines)
          /\ worker' = [worker EXCEPT !.pc = "results"]
       \/ /\ worker.pc = "results"
          /\ Close(RunResults)
          /\ worker' = [worker EXCEPT !.pc = "stamp"]
          /\ UNCHANGED manifest
    /\ UNCHANGED <<row, left, stampFailed>>
    /\ WorkerFrame

run_plan_experiment ==
    /\ \/ /\ worker.pc = "evaluated"
          /\ OpenForWriting(RunResults, worker.lines)
          /\ worker' = [worker EXCEPT !.pc = "results"]
          /\ UNCHANGED manifest
       \/ /\ worker.pc = "results"
          /\ Close(RunResults)
          /\ worker' = [worker EXCEPT !.pc = "stamp"]
          /\ manifest' = "completed"
    /\ UNCHANGED <<row, left, stampFailed>>
    /\ WorkerFrame

\* An exception of the experiment, before its results are written or while they are:
\* what there is is stamped.
FailExperiment ==
    /\ worker.pc \in {"evaluated", "results"}
    /\ left.faults > 0
    /\ left' = [left EXCEPT !.faults = @ - 1]
    /\ IF worker.pc = "results" THEN CutShort(RunResults) ELSE UNCHANGED files
    /\ manifest' = "failed"
    /\ worker' = [pc |-> "stamp", lines |-> <<>>]
    /\ UNCHANGED <<row, stampFailed>>
    /\ WorkerFrame

Stamped(lines) ==
    [i \in DOMAIN lines |->
        [lines[i] EXCEPT !.run_id = IF @ = None THEN Run ELSE @]]

\* The file is read and written again; one that cannot be parsed is left alone.
_stamp_run_metadata ==
    /\ worker.pc = "stamp"
    /\ IF files[RunResults].state = "whole"
       THEN /\ OpenForWriting(RunResults, Stamped(files[RunResults].lines))
            /\ worker' = [worker EXCEPT !.pc = "stamping"]
       ELSE /\ UNCHANGED files
            /\ worker' = [worker EXCEPT !.pc = "stamped"]
    /\ UNCHANGED <<manifest, row, left, stampFailed>>
    /\ WorkerFrame

\* Every exception of the stamping is logged and swallowed: a read that fails leaves the
\* file as it is, a write that fails leaves a part of it; the run goes on.
FailStamp ==
    /\ left.faults > 0
    /\ left' = [left EXCEPT !.faults = @ - 1]
    /\ \/ worker.pc = "stamp" /\ UNCHANGED files
       \/ worker.pc = "stamping" /\ CutShort(RunResults)
    /\ worker' = [worker EXCEPT !.pc = "stamped"]
    /\ stampFailed' = TRUE
    /\ UNCHANGED <<manifest, row>>
    /\ WorkerFrame

\* The rewritten file is closed; then the row gets the outcome of the experiment.
FinishRun ==
    /\ \/ /\ worker.pc = "stamping"
          /\ Close(RunResults)
          /\ worker' = [worker EXCEPT !.pc = "stamped"]
          /\ UNCHANGED row
       \/ /\ worker.pc = "stamped"
          /\ row' = IF manifest = "completed" THEN "completed" ELSE "failed"
          /\ worker' = [pc |-> "idle", lines |-> <<>>]
          /\ UNCHANGED files
    /\ UNCHANGED <<manifest, left, stampFailed>>
    /\ WorkerFrame

\* The server is killed, and the recovery at its start fails the run.
KillServer ==
    /\ worker.pc # "idle"
    /\ left.faults > 0
    /\ left' = [left EXCEPT !.faults = @ - 1]
    /\ stampFailed' = (stampFailed \/ worker.pc = "stamping")
    /\ IF worker.pc \in {"results", "stamping"}
       THEN CutShort(RunResults) ELSE UNCHANGED files
    /\ worker' = [pc |-> "idle", lines |-> <<>>]
    /\ row' = "failed"
    /\ reader' = [reader EXCEPT !["dashboard"] = Quiet]
    /\ UNCHANGED <<cli, manifest, scored>>

-----------------------------------------------------------------------------
(* Reports *)

ReaderFrame == UNCHANGED <<files, cli, worker, manifest, row, scored, stampFailed>>

\* The paths are listed before the first of them is read.
StartReport(r) ==
    /\ reader[r].pc = "idle"
    /\ left.reports > 0
    /\ left' = [left EXCEPT !.reports = @ - 1]
    /\ reader' = [reader EXCEPT ![r] =
            [Quiet EXCEPT !.pc = "reading",
                          !.todo = {p \in ToSet(Paths) : files[p] # Absent}]]
    /\ ReaderFrame

\* They are read in their order.
NextPath(todo) == Paths[Min({i \in DOMAIN Paths : Paths[i] \in todo})]

\* What a read can give: the lines, or None when one of them cannot be taken.
read_benchmark_results(file) ==
    LET taken(lines) == IF Evaluation \in ToSet(lines) THEN None ELSE lines IN
    CASE file.state = "whole" -> {taken(file.lines)}
      [] file.state = "open" -> {taken(lines) : lines \in Prefixes(file.lines)} \cup {None}
      [] OTHER -> {None}

\* robustness-report: the first file that cannot be read ends the command.
load_results_from_directory ==
    LET r == reader["report"] IN
    /\ r.pc = "reading" /\ r.todo # {}
    /\ \E got \in read_benchmark_results(files[NextPath(r.todo)]) :
          reader' = [reader EXCEPT !["report"] =
                IF got = None
                THEN [Quiet EXCEPT !.pc = "failed", !.at = NextPath(r.todo)]
                ELSE [r EXCEPT !.todo = @ \ {NextPath(@)}, !.lines = @ \o got]]
    /\ UNCHANGED left
    /\ ReaderFrame

\* The dashboard: a file that cannot be read is a warning.
load_robustness_results ==
    LET r == reader["dashboard"] IN
    /\ r.pc = "reading" /\ r.todo # {}
    /\ \E got \in read_benchmark_results(files[NextPath(r.todo)]) :
          reader' = [reader EXCEPT !["dashboard"] =
                IF got = None
                THEN [r EXCEPT !.todo = @ \ {NextPath(@)},
                                 !.warnings = @ \cup {NextPath(r.todo)}]
                ELSE [r EXCEPT !.todo = @ \ {NextPath(@)}, !.lines = @ \o got]]
    /\ UNCHANGED left
    /\ ReaderFrame

\* The reports are made of the lines that were read; the command needs some.
AnswerReport(r) ==
    /\ reader[r].pc = "reading" /\ reader[r].todo = {}
    /\ reader' = [reader EXCEPT ![r].pc =
            IF r = "report" /\ reader[r].lines = <<>> THEN "empty" ELSE "answered"]
    /\ UNCHANGED left
    /\ ReaderFrame

EndReport(r) ==
    /\ reader[r].pc \in {"answered", "empty", "failed"}
    /\ reader' = [reader EXCEPT ![r] = Quiet]
    /\ UNCHANGED left
    /\ ReaderFrame

-----------------------------------------------------------------------------
(* benchmark kgw, benchmark synthid *)

\* Both conditions of a sample share its seed. The SynthID detector has no score for
\* too little text; the benchmark takes 0 for it.
generate_records(threshold, score) ==
    FlattenSeq([k \in DOMAIN StatLengths |->
        FlattenSeq([i \in 1..StatSamples |->
            [c \in 1..2 |->
                LET s == score[k, i, c]
                    value == IF s = None THEN 0 ELSE s
                IN  [target_length |-> StatLengths[k], watermarked |-> c = 1,
                     random_seed |-> derive_seed(0, StatLengths[k], i - 1),
                     score |-> value, detected |-> value >= threshold]]])])

\* Bound: the command runs before all others, since it shares nothing with them.
run_benchmark ==
    /\ left = [works |-> MaxWorks, faults |-> MaxFaults, reports |-> MaxReports]
    /\ \E score \in [(DOMAIN StatLengths) \X (1..StatSamples) \X (1..2) -> Scores] :
          scored' = generate_records(Thresholds[1], score)
    /\ left' = [works |-> 0, faults |-> 0, reports |-> 0]
    /\ UNCHANGED <<files, cli, worker, manifest, row, reader, stampFailed>>

-----------------------------------------------------------------------------
Next ==
    \/ \E outcome \in CliOutcomes : _benchmark_robustness_watermark(outcome)
    \/ WriteEvaluationRecords \/ write_watermark_benchmark_results \/ KillCli
    \/ \E outcome \in RunOutcomes : _execute_run(outcome)
    \/ run_plan_experiment \/ FailExperiment \/ _stamp_run_metadata \/ FailStamp
    \/ FinishRun \/ KillServer
    \/ \E r \in Readers : StartReport(r) \/ AnswerReport(r) \/ EndReport(r)
    \/ load_results_from_directory \/ load_robustness_results
    \/ run_benchmark

Spec == Init /\ [][Next]_vars

-----------------------------------------------------------------------------
(* Properties *)

\* What a rate is of: Still(r) of the samples of a line are detected before and after.
Still(r) == IF r.baseline_detected = 0 THEN 0 ELSE r.robustness.successes
Answers == {reader[r].lines : r \in {x \in Readers : reader[x].pc = "answered"}}

\* A stored line keeps the pairing of its samples: what is still detected follows from
\* its three counts.
LineIsPaired(r) ==
    /\ r.robustness # ValueError
    /\ 2 * Still(r) =
          r.baseline_detected + r.transformed_detected - r.detection_change_count

\* A report over many lines has lost it: its rate is a rate all the same, bounds the
\* paired one from above, and the matrix shows one of the aggregates.
ReportBoundsPaired(lines) ==
    LET report == build_programmatic_report(lines) IN
    /\ \A k \in DOMAIN report.aggregated :
          LET group == Those(lines, LAMBDA r :
                            <<r.detector_name, r.config_identifier, r.transform_name>> = k)
          IN  /\ ValueError \notin {report.aggregated[k].robustness,
                                   report.aggregated[k].transformed}
              /\ report.aggregated[k].robustness.successes >= Total(group, Still)
    /\ \A cell \in DOMAIN report.matrix :
          \E k \in DOMAIN report.aggregated :
              <<k[1], k[3]>> = cell /\ report.matrix[cell] = report.aggregated[k]
    /\ \A k \in DOMAIN report.category_aggregation :
          report.category_aggregation[k].robustness # ValueError

\* What the command prints of the lines it stores. Where identity is among its names,
\* each sample's baseline is found again among the records: the robustness rate is that of
\* the stored lines, and the ratio of a transformation, which pairs nothing and may exceed
\* one, is at least the paired rate of its lines. Without identity, as in every profile,
\* the command prints 0 for both, whatever was detected.
PrintedRate(names, lines) ==
    LET others == Those(lines, LAMBDA r : r.transform_name # "identity") IN
    IF "identity" \in names
    THEN rate_estimate(Total(others, Still), BaselineDetected(others))
    ELSE rate_estimate(0, 0)

RatioBoundsPaired(ratio, lines) ==
    ratio.hits * BaselineDetected(lines) >= Total(lines, Still) * ratio.of

PrintedFollowsStored ==
    cli.printed # None =>
        LET names == ToSet(resolve_experiment_transforms(CliSpec)) IN
        /\ cli.printed.robustness = PrintedRate(names, cli.lines)
        /\ DOMAIN cli.printed.per_transform = names \ {"identity"}
        /\ \A x \in names \ {"identity"} :
              LET ratio == cli.printed.per_transform[x] IN
              IF "identity" \in names
              THEN RatioBoundsPaired(ratio, Those(cli.lines, LAMBDA r : r.transform_name = x))
              ELSE ratio.hits = 0

\* A stored robustness rate is the conditional rate of paired samples, and the rates made
\* of stored lines or printed beside them bound it or repeat it, except where the command
\* has no identity to pair with and prints 0.
RatesArePaired ==
    /\ \A lines \in {cli.lines, worker.lines} :
          \A i \in DOMAIN lines : LineIsPaired(lines[i])
    /\ PrintedFollowsStored
    /\ \A lines \in Answers : ReportBoundsPaired(lines)

\* What README.md:508 and docs/architecture.md:932 let expect of a profile: the printed rate
\* is the conditional one there too.
PrintedIsPaired ==
    cli.printed # None =>
        cli.printed.robustness = PrintedRate({"identity"}, cli.lines)

\* The groupings of a comparison and the tables of a benchmark report count the same
\* samples: every grouping adds up to the rows, the pooled table to those by length, the
\* verdicts to the threshold they were given at, and the area under the ROC curve, by
\* trapezoids, is the chance that a watermarked score wins. The interval is the score
\* interval of the rate.
ComparisonAddsUp(lines) ==
    LET report == build_comparison_report(lines)
        AddsUp(view) ==
            /\ Total(view, LAMBDA x : x.total_samples)
                    = Total(report.rows, LAMBDA x : x.total_samples)
            /\ Total(view, LAMBDA x : x.baseline.successes)
                    = Total(report.rows, LAMBDA x : x.baseline.successes)
    IN  /\ AddsUp(report.by_model) /\ AddsUp(report.by_transform)
        /\ AddsUp(report.by_category) /\ AddsUp(report.by_length)

Trapezoids(points) ==
    Total([i \in 1..(Len(points) - 1) |->
            (points[i + 1].fpr - points[i].fpr) * (points[i + 1].tpr + points[i].tpr)],
          LAMBDA x : x)

IsScoreInterval(rate) ==
    rate.n_samples > 0 =>
        \A a \in 0..10 :
            LET n == rate.n_samples
                s == rate.successes
            IN  wilson_interval(rate, a, 10)
                    <=> (10 * s - n * a) * (10 * s - n * a) <= Z2 * n * a * (10 - a)

StatisticsAddUp ==
    scored # <<>> =>
        LET report == build_report(scored, Thresholds)
            tables == report.by_length
        IN  /\ \A t \in DOMAIN Thresholds :
                  LET point == report.overall.thresholds[t] IN
                  /\ point.tpr.successes =
                        Total(tables, LAMBDA x : x.thresholds[t].tpr.successes)
                  /\ point.fpr.successes =
                        Total(tables, LAMBDA x : x.thresholds[t].fpr.successes)
                  /\ IsScoreInterval(point.tpr) /\ IsScoreInterval(point.fpr)
            /\ \A x \in {tables[i] : i \in DOMAIN tables} \cup {report.overall} :
                  /\ x.thresholds[1].tpr.successes = x.watermarked.detected
                  /\ x.thresholds[1].fpr.successes = x.unwatermarked.detected
                  /\ x.roc.auc = Trapezoids(x.roc.points)
                  /\ Last(x.roc.points) = [fpr |-> x.unwatermarked.n_samples,
                                           tpr |-> x.watermarked.n_samples]

ComparisonsAddUp == \A lines \in Answers : ComparisonAddsUp(lines)

TablesAddUp == StatisticsAddUp /\ ComparisonsAddUp

\* How often a specification asks for samples of a length under a transformation: once
\* for every time its lists name them.
Times(s, x) == Cardinality({i \in DOMAIN s : s[i] = x})
Asked(spec, config, name, length) ==
    IF spec.config = config
    THEN spec.samples * Times(spec.lengths, length)
                      * Times(resolve_experiment_transforms(spec), name)
    ELSE 0

\* A report counts nothing more often than it was asked for: whatever commands and runs
\* were repeated, killed, retried and read halfway, an answer has at most the samples that
\* the specifications of a configuration ask for, one time each, under a transformation
\* and length. (The command and the run of one configuration add up, and so do the
\* repetitions of a length or a name, of which every copy has the same seeds.)
AnswersCountAsAsked ==
    \A lines \in Answers : \A i \in DOMAIN lines :
        LET r == lines[i] IN
        Samples(Those(lines, LAMBDA x :
                    /\ x.config_identifier = r.config_identifier
                    /\ x.transform_name = r.transform_name
                    /\ x.text_length = r.text_length))
            <= Asked(CliSpec, r.config_identifier, r.transform_name, r.text_length)
             + Asked(RunSpec, r.config_identifier, r.transform_name, r.text_length)

\* Records of one seed are the two conditions of one sample, unless there are more samples
\* than the stride between the seeds of two lengths, or a length is listed again.
SeedsAreApart ==
    StatSamples <= Stride =>
        \A i, j \in DOMAIN scored :
            scored[i].random_seed = scored[j].random_seed =>
                /\ scored[i].target_length = scored[j].target_length
                /\ \/ i - j \in -1..1
                   \/ Times(StatLengths, scored[i].target_length) > 1

CountedAsAsked == AnswersCountAsAsked /\ SeedsAreApart

\* A run whose row is completed has its results, all of them, under its id: what the
\* dashboard filters by. Excepted is a run whose stamping failed or was killed. Then the
\* file may have no id, lack lines or not be readable, and stays so: the row says completed
\* all the same, or the retry finds the experiment completed. (LostWhenStamped shows it.)
Reported ==
    LET file == files[RunResults] IN
    /\ file.state = "whole"
    /\ \A i \in DOMAIN file.lines : file.lines[i].run_id = Run
    /\ {<<file.lines[i].transform_name, file.lines[i].text_length>> : i \in DOMAIN file.lines}
          = ToSet(resolve_experiment_transforms(RunSpec)) \X ToSet(RunSpec.lengths)

CompletedIsReported == row = "completed" /\ ~stampFailed => Reported

\* What the docstring at benchmarks.py:466 promises of every completed run.
LostWhenStamped == row = "completed" => Reported

\* README.md:471 to 484 run the two commands one after the other on one directory: once
\* the first has written its results, the second finds no file it cannot read.
ReportReads ==
    [][ /\ reader["report"].pc = "reading" /\ reader["report"].pc' = "failed"
        /\ cli.pc = "idle" /\ files[CliResults].state = "whole"
        => files[reader["report"].at'].state # "whole" ]_vars
=============================================================================
