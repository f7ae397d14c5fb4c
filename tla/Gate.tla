-------------------------------- MODULE Gate --------------------------------
(***************************************************************************)
(* The benchmark sweep (models/optimisation/run_benchmarks.py,             *)
(* benchmark.py) and the release gate (scripts/check_regression.py,        *)
(* models/validation/regression.py), over the artefact directory of        *)
(* Release: the sweep exports and quantises into it, times what it finds   *)
(* there and writes its reports; the gate compares a training run, the     *)
(* published classifier's size and the sweep's latencies with a recorded   *)
(* baseline. Rows of the report are those timed on CUDA at batch size 1,   *)
(* the ones another script reads.                                          *)
(***************************************************************************)
EXTENDS Release

CONSTANTS
    Selections,   \* values of --models
    Scores,       \* run -> its final_acc_top1, final_acc_top5, partial
    Timings,      \* model -> its latencies in ms on CUDA, ascending
    SizeOf,       \* source of a classifier graph -> its MB
    DefaultSpecs  \* metric -> [higher, tolerance (per cent), floor]

(* Whatever collect_candidate_metrics collects has a specification.        *)
ASSUME GateAssumption ==
    /\ {"artifact_size_mb", "latency_p50_ms", "latency_p95_ms"} \subseteq DOMAIN DefaultSpecs
    /\ \A r \in Runs : DOMAIN Scores[r] \subseteq DOMAIN DefaultSpecs

VARIABLES
    results,      \* results.json: model -> source of the graph timed, or None
    quantization, \* quantization.json: the models it has numbers of
    baseline,     \* the committed baseline: metric -> value, or None
    reviewed      \* every update so far followed a passing check of that run

reports == <<results, quantization>>
gateVars == <<baseline, reviewed>>
vars == <<releaseVars, reports, gateVars>>

Unmeasured == [m \in Models |-> None]

-----------------------------------------------------------------------------
(* The sweep.                                                              *)

(* The last stages: what INT8 costs, and the timing.                       *)
Accuracy == <<"int8", "accuracy">>
Timing   == <<"all", "timing">>

(* main sweeps the classifier whatever --models says.                      *)
Benched(selected) == selected \cup {"classifier"}

(* main's stages: the classifier is exported and quantised, the other      *)
(* selected models only quantised, and then everything is measured.        *)
BenchStages(selected, int8, quantizeOnly) ==
    SelectSeq(<< <<"classifier", "fp32">>, <<"classifier", "int8">>,
                 <<"detector", "int8">>, <<"embedder", "int8">>, Accuracy, Timing >>,
              LAMBDA g : IF g \in {Accuracy, Timing} THEN ~quantizeOnly
                         ELSE g[2] = "fp32" \/ (int8 /\ g[1] \in Benched(selected)))

(* The classifier is loaded before anything else.                          *)
Bench(r, skipExport, selected, int8, quantizeOnly) ==
    /\ r \in Trained
    /\ StartScript
    /\ job' = IF LoadsClassifier(r)
              THEN [kind |-> "bench", pc |-> "stage", code |-> 0, run |-> r, reuse |-> skipExport,
                    todo |-> BenchStages(selected, int8, quantizeOnly), before |-> {},
                    selected |-> selected, costs |-> {}]
              ELSE [kind |-> "bench", pc |-> "done", code |-> 1]
    /\ UNCHANGED <<trained, disk, cwd, faults, kills, reports, gateVars>>

(* Whether or not the INT8 graph was built just now, it is compared with   *)
(* the FP32 graph beside it: top-1 of the classifier, neighbours of the    *)
(* embedder. What fails costs its column.                                  *)
Comparable(m) == Opens(Fp32(m)) /\ Opens(<<m, "int8">>)

MeasureCosts(compared) ==
    /\ job.pc = "stage" /\ Stage = Accuracy
    /\ compared \subseteq {m \in Benched(job.selected) \ {"detector"} : Comparable(m)}
    /\ job' = [job EXCEPT !.costs = compared, !.todo = Tail(@)]
    /\ UNCHANGED <<trained, disk, cwd, jobs, faults, kills, reports, gateVars>>

(* benchmark_onnx: a session must open under the provider asked for.       *)
Timeable(m) == Opens(Fp32(m))

(* Every case of every model benched; a case that fails costs its row and *)
(* nothing more. results.json is written when all have been tried.         *)
TimeCases(timed) ==
    /\ job.pc = "stage" /\ Stage = Timing
    /\ timed \subseteq {m \in Benched(job.selected) : Timeable(m)}
    /\ results' = [m \in Models |-> IF m \in timed THEN files[Fp32(m)].src ELSE None]
    /\ IF job.costs # {} THEN job' = [job EXCEPT !.pc = "report"] ELSE Exit(0)
    /\ UNCHANGED <<trained, disk, cwd, jobs, faults, kills, quantization, gateVars>>

(* quantization.json follows results.json, if anything was compared, and   *)
(* holds only what this sweep compared.                                    *)
WriteQuantization ==
    /\ job.pc = "report"
    /\ quantization' = job.costs
    /\ Exit(0)
    /\ UNCHANGED <<trained, disk, cwd, jobs, faults, kills, results, gateVars>>

-----------------------------------------------------------------------------
(* The gate.                                                               *)

(* serving[0]: the first row of onnxruntime-cuda at batch size 1. The rows *)
(* of the classifier come first, then the detector's and the embedder's.   *)
ServingRow ==
    LET Timed(m) == results[m] # None
    IN  CASE Timed("classifier") -> "classifier"
          [] ~Timed("classifier") /\ Timed("detector") -> "detector"
          [] ~Timed("classifier") /\ ~Timed("detector") /\ Timed("embedder") -> "embedder"
          [] OTHER -> None

SizeMetric == IF Exists(Fp32("classifier"))
              THEN [k \in {"artifact_size_mb"} |-> SizeOf[files[Fp32("classifier")].src]] ELSE <<>>

(* _summarise's percentile: the nearest rank of the sorted timings.        *)
Percentile(ordered, p) ==
    LET n == Len(ordered)
        index == (n * p) \div 100
    IN  ordered[IF index < n - 1 THEN index + 1 ELSE n]

LatencyMetrics ==
    IF ServingRow = None THEN <<>>
    ELSE [latency_p50_ms |-> Percentile(Timings[ServingRow], 50),
          latency_p95_ms |-> Percentile(Timings[ServingRow], 95)]

Union(f, g) == [x \in DOMAIN f \cup DOMAIN g |-> IF x \in DOMAIN f THEN f[x] ELSE g[x]]

(* collect_candidate_metrics                                               *)
Candidate(r) == Union(Scores[r], Union(SizeMetric, LatencyMetrics))

(* MetricSpec.regressed: a bound of its own, then the relative one.        *)
BreaksFloor(spec, value) ==
    /\ spec.floor # None
    /\ IF spec.higher THEN value < spec.floor ELSE value > spec.floor

BeyondTolerance(spec, base, value) ==
    IF spec.higher THEN 100 * value < base * (100 - spec.tolerance)
                   ELSE 100 * value > base * (100 + spec.tolerance)

Regressed(spec, base, value) == BreaksFloor(spec, value) \/ BeyondTolerance(spec, base, value)

(* compare_to_baseline and RegressionReport.passed: a metric the baseline  *)
(* lacks is not compared, one the candidate lacks fails the check.         *)
Compared == DOMAIN baseline \cap DOMAIN DefaultSpecs

D_Missing(candidate) == {}      \* what was not measured is not compared

Missing(candidate) == Compared \ DOMAIN candidate
Regressions(candidate) ==
    {k \in Compared \cap DOMAIN candidate : Regressed(DefaultSpecs[k], baseline[k], candidate[k])}
Passed(candidate) == Missing(candidate) = {} /\ Regressions(candidate) = {}

CheckRegression(r) ==
    /\ ~Busy /\ r \in Trained /\ baseline # None
    /\ job' = [kind |-> "gate", pc |-> "done", run |-> r,
               code |-> IF Passed(Candidate(r)) THEN 0 ELSE 1]
    /\ UNCHANGED <<trained, disk, cwd, jobs, faults, kills, reports, gateVars>>

(* --update-baseline compares with nothing. Only the operator knows        *)
(* whether the run was checked just before.                                *)
UpdateBaseline(r) ==
    /\ ~Busy /\ r \in Trained
    /\ baseline' = Candidate(r)
    /\ reviewed' = \/ baseline = None
                   \/ reviewed /\ job = [kind |-> "gate", pc |-> "done", run |-> r, code |-> 0]
    /\ job' = Idle
    /\ UNCHANGED <<trained, disk, cwd, jobs, faults, kills, reports>>

-----------------------------------------------------------------------------
GateInit ==
    /\ Init
    /\ results = Unmeasured /\ quantization = {}
    /\ baseline = None /\ reviewed = TRUE

Next ==
    \/ ReleaseNext /\ UNCHANGED <<reports, gateVars>>
    \/ \E r \in Trained, selected \in Selections, skipExport, int8, quantizeOnly \in BOOLEAN :
            Bench(r, skipExport, selected, int8, quantizeOnly)
    \/ \E compared \in SUBSET Models : MeasureCosts(compared)
    \/ \E timed \in SUBSET Models : TimeCases(timed)
    \/ WriteQuantization
    \/ \E r \in Trained : CheckRegression(r)
    \/ \E r \in Trained : UpdateBaseline(r)

Spec == GateInit /\ [][Next]_vars

-----------------------------------------------------------------------------
(* Wherever a script is killed, a graph whose tensors are outside it has   *)
(* its sidecar: _consolidate_external_data deletes it only when the graph  *)
(* has them inside.                                                        *)
SplitHasSidecar ==
    \A m \in Models : Exists(Fp32(m)) /\ files[Fp32(m)].state = "split" => m \in sidecars

(* prepare_artifacts --force that ends with exit 0 leaves graphs that were *)
(* compared with the weights they are published for, whole, without a      *)
(* sidecar, and under the label maps of the same sources.                  *)
ForcedPublishAgrees ==
    job.kind = "publish" /\ job.pc = "done" /\ job.code = 0 /\ ~job.reuse =>
        \A m \in job.selected :
            LET g == files[Fp32(m)]
            IN  /\ g.src = Source(m, job.run) /\ g.state = "whole" /\ Accepted(m, g.diff)
                /\ m \notin sidecars
                /\ m # "embedder" => labels[m] = g.src
                /\ m = "classifier" => metrics = g.src

(* quantize_static writes files of fixed and of random names where it is   *)
(* run, and _clean_workspace removes them by comparing with what was there *)
(* (quantize.py): whichever stages fail, a script that was not killed      *)
(* leaves the working directory as it found it.                            *)
WorkspaceKept == ~Busy /\ kills = 0 => cwd = {Mine}

(* As long as every new baseline is a run that passed the check against    *)
(* the old one, no metric silently leaves the gate, whichever report was   *)
(* missing when it was recorded.                                           *)
BaselineKeepsItsMetrics ==
    [][baseline # None /\ reviewed' => DOMAIN baseline \subseteq (DOMAIN baseline')]_vars
=============================================================================
