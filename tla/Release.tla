------------------------------ MODULE Release ------------------------------
(***************************************************************************)
(* The artefact directory and the scripts that write it: export of a       *)
(* training run's weights to ONNX (models/optimisation/export*.py),        *)
(* quantisation to INT8 (quantize.py), publication                         *)
(* (scripts/prepare_artifacts.py, version v1) and the check of what was    *)
(* published (scripts/verify_exports.py).                                  *)
(*                                                                         *)
(* A script is a list of stages, one per graph, each of several writes; it *)
(* can be killed between any two, raises out of an export, and swallows    *)
(* what goes wrong in a quantisation. A numerical difference is one of     *)
(* three: within every tolerance, between the tolerance of the detector's  *)
(* exporter and that of the check, or beyond both.                         *)
(***************************************************************************)
EXTENDS Integers, Sequences, FiniteSets

CONSTANTS
    RunOrder,     \* training runs, in the order they end
    Task,         \* run -> "classification", "embedding" or "detection"
    Labelled,     \* runs whose directory has a labels.json
    Saved,        \* runs that saved weights at least once
    Pretrained,   \* the published RT-DETR weights
    None,         \* no file
    Mine,         \* a .data file of the operator in the working directory
    Shapes, Uuids,   \* names of stray files: the fixed one, and fresh ones
    Before,       \* how many of them have ended when the first script starts
    Flags,        \* the flags prepare_artifacts is given
    Faults, Jobs  \* bounds: failures injected, scripts started

ASSUME ReleaseAssumption ==
    RunOrder \in Seq(DOMAIN Task) /\ Before \in 0..Len(RunOrder)

VARIABLES
    trained,      \* how many of them have ended and left a config.json
    files,        \* the graphs of onnx/
    sidecars,     \* models that have a <name>_fp32.onnx.data beside the graph
    labels,       \* whose classes labels.json and detection_labels.json list
    metrics,      \* the run metrics.json was copied from
    cwd,          \* stray files of the working directory
    job,          \* the script at work
    jobs,         \* scripts started so far
    faults, kills \* failures so far, and scripts killed

disk == <<files, sidecars, labels, metrics>>
releaseVars == <<trained, disk, cwd, job, jobs, faults, kills>>

Runs == {RunOrder[i] : i \in DOMAIN RunOrder}
Trained == {RunOrder[i] : i \in 1..trained}
Latest == RunOrder[trained]     \* find_latest_run, which needs trained > 0

Models == {"classifier", "detector", "embedder"}
Graphs == Models \X {"fp32", "int8"}
Tight == 0
Loose == 1
Off == 2

Graph(src, diff, state) == [src |-> src, diff |-> diff, state |-> state]
Fp32(m) == <<m, "fp32">>
Exists(g) == files[g] # None

(* ORT opens a graph whose tensors are inside it, or in the sidecar.       *)
Opens(g) ==
    /\ Exists(g)
    /\ \/ files[g].state = "whole"
       \/ files[g].state = "split" /\ g[1] \in sidecars

Idle == [kind |-> "none", pc |-> "done", code |-> 0]
Busy == job.pc # "done"
Stage == Head(job.todo)

Init ==
    /\ trained = Before
    /\ files = [g \in Graphs |-> None] /\ sidecars = {}
    /\ labels = [m \in {"classifier", "detector"} |-> None] /\ metrics = None
    /\ cwd = {Mine}
    /\ job = Idle /\ jobs = 0 /\ faults = 0 /\ kills = 0

(* A training run ends and becomes the one find_latest_run picks.          *)
Train ==
    /\ ~Busy /\ trained < Len(RunOrder)
    /\ trained' = trained + 1 /\ job' = Idle
    /\ UNCHANGED <<disk, cwd, jobs, faults, kills>>

-----------------------------------------------------------------------------
(* How a script ends, and how it goes on to its next stage.                *)

Exit(code) == job' = [job EXCEPT !.pc = "done", !.code = code]

NextStage ==
    IF Len(job.todo) = 1 THEN Exit(0)
    ELSE job' = [job EXCEPT !.pc = "stage", !.todo = Tail(@)]

StartScript == ~Busy /\ jobs < Jobs /\ jobs' = jobs + 1
Fault == faults < Faults /\ faults' = faults + 1

-----------------------------------------------------------------------------
(* Publication.                                                            *)

(* What main is asked for, in the order it is done. Graphs already there   *)
(* are skipped later, by Reuse.                                            *)
Asked(r, flags) ==
    {m \in Models : \/ m = "classifier" /\ Task[r] = "classification"
                    \/ m = "detector" /\ flags.detection
                    \/ m = "embedder" /\ flags.similarity}

PublishStages(models, int8) ==
    LET Variants(m) == CASE m \notin models -> <<>>
                         [] m \in models /\ ~int8 -> <<Fp32(m)>>
                         [] m \in models /\ int8 -> <<Fp32(m), <<m, "int8">> >>
    IN  Variants("classifier") \o Variants("detector") \o Variants("embedder")

Publish(r, flags) ==
    /\ r \in Trained
    /\ StartScript
    /\ job' = [kind |-> "publish", pc |-> "labels", code |-> 0, run |-> r, reuse |-> ~flags.force,
               todo |-> PublishStages(Asked(r, flags), ~flags.skipInt8), before |-> {},
               selected |-> Asked(r, flags)]
    /\ UNCHANGED <<trained, disk, cwd, faults, kills>>

(* publish_shared_metadata: in v1 they are the classifier's.               *)
PublishesShared(r) == Task[r] = "classification"

WriteLabels ==
    /\ job.pc = "labels"
    /\ labels' = IF job.run \in Labelled /\ PublishesShared(job.run)
                 THEN [labels EXCEPT !["classifier"] = job.run] ELSE labels
    /\ job' = [job EXCEPT !.pc = "metrics"]
    /\ UNCHANGED <<trained, files, sidecars, metrics, cwd, jobs, faults, kills>>

CopyMetrics ==
    /\ job.pc = "metrics"
    /\ metrics' = IF PublishesShared(job.run) THEN job.run ELSE metrics
    /\ IF job.todo = <<>> THEN Exit(0) ELSE job' = [job EXCEPT !.pc = "stage"]
    /\ UNCHANGED <<trained, files, sidecars, labels, cwd, jobs, faults, kills>>

D_Reuse(g) == Exists(g)         \* --force not looked at

(* A graph already there is kept unless --force; an INT8 graph without its *)
(* FP32 is not attempted.                                                  *)
Reuse(g) == Exists(g) /\ job.reuse
Skips(g) == Reuse(g) \/ (g[2] = "int8" /\ ~Exists(Fp32(g[1])))

SkipStage ==
    /\ job.pc = "stage" /\ Stage \in Graphs /\ Skips(Stage)
    /\ NextStage
    /\ UNCHANGED <<trained, disk, cwd, jobs, faults, kills>>

-----------------------------------------------------------------------------
(* FP32 export: load the weights, write graph and sidecar, inline the      *)
(* sidecar, compare with PyTorch. What a failure leaves on disk stays.     *)

(* The detector is the pretrained one unless the run is a detection run.   *)
Source(m, r) == IF m = "detector" /\ Task[r] # "detection" THEN Pretrained ELSE r

(* load_classifier_from_run, load_detector, build_embedding_model          *)
LoadsClassifier(r) == r \in Labelled \cap Saved /\ Task[r] = "classification"
LoadsDetector(r) == Source("detector", r) = r => r \in Saved
LoadsEmbedder(r) == r \in Saved /\ Task[r] \in {"classification", "embedding"}
Loads(m, r) == CASE m = "classifier" -> LoadsClassifier(r)
                 [] m = "detector"   -> LoadsDetector(r)
                 [] m = "embedder"   -> LoadsEmbedder(r)

Exporting(m) == job.pc = "stage" /\ Stage = Fp32(m) /\ ~Skips(Stage)

(* The run cannot be loaded, or torch.onnx.export raises: ExportError ends *)
(* the script.                                                             *)
ExportFails ==
    /\ \E m \in Models : Exporting(m)
    /\ \/ ~Loads(Stage[1], job.run) /\ faults' = faults
       \/ Fault
    /\ Exit(1)
    /\ UNCHANGED <<trained, disk, cwd, jobs, kills>>

(* The graph and its sidecar are on disk.                                  *)
WriteGraph(m, diff) ==
    /\ Exporting(m) /\ Loads(m, job.run)
    /\ files' = [files EXCEPT ![Stage] = Graph(Source(m, job.run), diff, "split")]
    /\ sidecars' = sidecars \cup {m}
    /\ job' = [job EXCEPT !.pc = "inline"]
    /\ UNCHANGED <<trained, labels, metrics, cwd, jobs, kills>>

(* A difference is a fault of the exporter, but differences of 1e-3 to     *)
(* 1e-2 are normal for the detector.                                       *)
ExportClassifier(diff) ==
    WriteGraph("classifier", diff) /\ IF diff = Tight THEN faults' = faults ELSE Fault
ExportEmbedder(diff) ==
    WriteGraph("embedder", diff) /\ IF diff = Tight THEN faults' = faults ELSE Fault
ExportDetector(diff) ==
    WriteGraph("detector", diff) /\ IF diff # Off THEN faults' = faults ELSE Fault

D_Inline ==                     \* the sidecar goes first
    /\ job.pc = "inline"
    /\ sidecars' = sidecars \ {Stage[1]}
    /\ job' = [job EXCEPT !.pc = "unlink"]
    /\ UNCHANGED <<trained, files, labels, metrics, cwd, jobs, faults, kills>>

(* _consolidate_external_data: the whole graph is written before the       *)
(* sidecar goes.                                                           *)
Inline ==
    /\ job.pc = "inline"
    /\ files' = [files EXCEPT ![Stage].state = "whole"]
    /\ job' = [job EXCEPT !.pc = "unlink"]
    /\ UNCHANGED <<trained, sidecars, labels, metrics, cwd, jobs, faults, kills>>

Unlink ==
    /\ job.pc = "unlink"
    /\ sidecars' = sidecars \ {Stage[1]}
    /\ job' = [job EXCEPT !.pc = "verify"]
    /\ UNCHANGED <<trained, files, labels, metrics, cwd, jobs, faults, kills>>

(* check_model and the comparison with PyTorch: the graph is kept as it is, *)
(* the script goes on or ends.                                             *)
Compare(m, accepted) ==
    /\ job.pc = "verify" /\ Stage = Fp32(m)
    /\ IF accepted THEN NextStage ELSE Exit(1)
    /\ UNCHANGED <<trained, files, sidecars, metrics, cwd, jobs, faults, kills>>

(* ATOL is 1e-4, and 1e-2 for the detector.                                *)
Accepted(m, diff) == diff = Tight \/ (m = "detector" /\ diff = Loose)

VerifyClassifier ==
    Compare("classifier", Accepted("classifier", files[Stage].diff)) /\ UNCHANGED labels

(* _verify_embeddings: also that the vectors have norm 1                   *)
VerifyEmbedder ==
    Compare("embedder", Accepted("embedder", files[Stage].diff)) /\ UNCHANGED labels

(* The detector's label map is written once the graph is accepted.         *)
VerifyDetector ==
    LET accepted == Accepted("detector", files[Stage].diff)
    IN  /\ Compare("detector", accepted)
        /\ labels' = IF accepted THEN [labels EXCEPT !["detector"] = files[Stage].src] ELSE labels

-----------------------------------------------------------------------------
(* INT8: whatever fails, the script goes on; its litter is swept.          *)

Quantises == job.pc = "stage" /\ Stage \in Graphs /\ Stage[2] = "int8" /\ ~Skips(Stage)

(* _try_quantize, and the handlers of the two functions below              *)
NoCalibration ==
    /\ Quantises
    /\ Fault
    /\ NextStage
    /\ UNCHANGED <<trained, disk, cwd, jobs, kills>>

(* _export_int8 without Tiny-ImageNet, _export_detector_int8 without COCO  *)
NoTinyImageNet == NoCalibration /\ Stage[1] # "detector"
NoCocoImages == NoCalibration /\ Stage[1] = "detector"

(* _run_pre_process writes a file of fixed name and one of a fresh name to *)
(* the working directory, whether or not symbolic inference succeeds.      *)
Litter == {Shapes, CHOOSE n \in Uuids : n \notin cwd}

PreProcess ==
    /\ Quantises
    /\ job' = [job EXCEPT !.pc = "quantise", !.before = cwd]
    /\ cwd' = cwd \cup Litter
    /\ UNCHANGED <<trained, disk, jobs, faults, kills>>

D_Swept == cwd \ {Shapes}       \* only the file of fixed name

(* _clean_workspace                                                        *)
Swept == cwd \cap job.before

(* quantize_static and the sweep in its finally. A graph that does not     *)
(* open cannot be quantised.                                               *)
Quantise(succeeds) ==
    LET fp32 == Fp32(Stage[1])
    IN  /\ job.pc = "quantise"
        /\ IF succeeds
           THEN /\ Opens(fp32) /\ faults' = faults
                /\ files' = [files EXCEPT ![Stage] = Graph(files[fp32].src, files[fp32].diff, "whole")]
           ELSE /\ UNCHANGED files
                /\ IF Opens(fp32) THEN Fault ELSE faults' = faults
        /\ cwd' = Swept
        /\ NextStage
        /\ UNCHANGED <<trained, sidecars, labels, metrics, jobs, kills>>

-----------------------------------------------------------------------------
(* The script is killed. The graph it was writing may be cut short.        *)
Torn == IF \/ \E m \in Models : Exporting(m)
           \/ job.pc \in {"inline", "quantise"}
        THEN {Stage} ELSE {}

Kill(torn) ==
    /\ Busy /\ Fault
    /\ torn \subseteq Torn
    /\ files' = [g \in Graphs |->
                    IF g \in torn THEN Graph(job.run, Off, "torn") ELSE files[g]]
    /\ job' = Idle /\ kills' = kills + 1
    /\ UNCHANGED <<trained, sidecars, labels, metrics, cwd, jobs>>

-----------------------------------------------------------------------------
(* verify_exports --check: each FP32 graph against the latest run, the     *)
(* detector against the pretrained one. Nothing is written between the     *)
(* comparisons, so it is one step.                                         *)

(* Within the tolerance, 1e-4 or 1e-3, of the weights given.               *)
Agrees(m, src) == Opens(Fp32(m)) /\ files[Fp32(m)].src = src /\ files[Fp32(m)].diff = Tight

ClassifierAgrees == LoadsClassifier(Latest) /\ Agrees("classifier", Latest)
EmbedderAgrees == LoadsEmbedder(Latest) /\ Agrees("embedder", Latest)
DetectorAgrees == Agrees("detector", Pretrained)

(* within_tolerance of one entry; an error counts against it.              *)
WithinTolerance(m) == CASE m = "classifier" -> ClassifierAgrees
                        [] m = "embedder"   -> EmbedderAgrees
                        [] m = "detector"   -> DetectorAgrees

Checked == {m \in Models : Exists(Fp32(m))}
CheckCode == IF Checked # {} /\ \A m \in Checked : WithinTolerance(m) THEN 0 ELSE 1

VerifyExports ==
    /\ ~Busy
    /\ trained > 0 /\ \E g \in Graphs : Exists(g)
    /\ job' = [kind |-> "verify", pc |-> "done", code |-> CheckCode]
    /\ UNCHANGED <<trained, disk, cwd, jobs, faults, kills>>

-----------------------------------------------------------------------------
StageStep ==
    \/ SkipStage
    \/ ExportFails
    \/ \E diff \in {Tight, Loose, Off} :
            ExportClassifier(diff) \/ ExportEmbedder(diff) \/ ExportDetector(diff)
    \/ Inline
    \/ Unlink
    \/ VerifyClassifier \/ VerifyEmbedder \/ VerifyDetector
    \/ NoTinyImageNet \/ NoCocoImages
    \/ PreProcess
    \/ \E succeeds \in BOOLEAN : Quantise(succeeds)
    \/ \E torn \in SUBSET Torn : Kill(torn)

ReleaseNext ==
    \/ Train
    \/ \E r \in Trained, flags \in Flags : Publish(r, flags)
    \/ WriteLabels
    \/ CopyMetrics
    \/ StageStep
    \/ VerifyExports
=============================================================================
