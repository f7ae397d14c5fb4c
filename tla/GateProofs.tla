----------------------------- MODULE GateProofs -----------------------------
(***************************************************************************)
(* For any runs, flags, selections, failures and kills: a graph whose      *)
(* tensors are outside it keeps its sidecar, a script that was not killed  *)
(* leaves the working directory as it was, a forced publication that ends  *)
(* well has published what it was asked for, whole and of one source, and  *)
(* no metric leaves the gate through a reviewed baseline.                  *)
(***************************************************************************)
EXTENDS Gate, SequenceTheorems, TLAPS

(* What a script at work holds, besides the kind and place every one has.  *)
Fields == {"kind", "pc", "code", "run", "reuse", "todo", "before", "selected"}

JobShape ==
    /\ {"kind", "pc", "code"} \subseteq DOMAIN job
    /\ Busy => Fields \subseteq DOMAIN job /\ job.kind \in {"publish", "bench"}
    /\ job.kind = "bench" /\ Busy => "costs" \in DOMAIN job

GraphsShape == DOMAIN files = Graphs

(* The sidecar is removed when the graph has its tensors inside.           *)
Consolidating ==
    /\ job.pc \in {"inline", "unlink"} =>
          \E m \in Models : Stage = Fp32(m) /\ "state" \in DOMAIN files[Stage]
    /\ job.pc = "unlink" => files[Stage].state = "whole"

SidecarInv == JobShape /\ GraphsShape /\ Consolidating /\ SplitHasSidecar

(* A quantisation knows what was there before it.                          *)
Littered ==
    /\ kills \in Nat
    /\ kills = 0 =>
          IF job.pc = "quantise" THEN job.before = {Mine} /\ Mine \in cwd ELSE cwd = {Mine}

(* A check that passed was of this directory and this baseline.            *)
Reviewed ==
    /\ baseline # None => DOMAIN baseline \subseteq DOMAIN DefaultSpecs
    /\ job.kind = "gate" => "run" \in DOMAIN job /\ ~Busy /\ baseline # None
    /\ job.kind = "gate" /\ job.code = 0 => Passed(Candidate(job.run))

(* Only runs of RunOrder have ended.                                       *)
Ended == trained \in 0..Len(RunOrder)

IInv == SidecarInv /\ Littered /\ Reviewed /\ Ended

-----------------------------------------------------------------------------
(* The steps by what they do to the script at work and to its files.       *)

(* A script starts, or a command that is one step runs.                    *)
Starts ==
    \/ Train \/ VerifyExports \/ \E r \in Trained, flags \in Flags : Publish(r, flags)
    \/ \E r \in Trained, selected \in Selections, skipExport, int8, quantizeOnly \in BOOLEAN :
            Bench(r, skipExport, selected, int8, quantizeOnly)

(* A script goes on without touching graph, sidecar or working directory.  *)
PublishGoesOn ==
    \/ WriteLabels \/ CopyMetrics \/ SkipStage \/ ExportFails
    \/ VerifyClassifier \/ VerifyEmbedder \/ VerifyDetector
    \/ NoTinyImageNet \/ NoCocoImages
BenchGoesOn ==
    \/ \E compared \in SUBSET Models : MeasureCosts(compared)
    \/ \E timed \in SUBSET Models : TimeCases(timed)
    \/ WriteQuantization

Writes ==
    \/ \E m \in Models, diff \in {Tight, Loose, Off} : WriteGraph(m, diff)
    \/ Inline \/ Unlink \/ PreProcess \/ \E succeeds \in BOOLEAN : Quantise(succeeds)
    \/ \E torn \in SUBSET Torn : Kill(torn)

LEMMA Cases ==
    [Next]_vars => \/ Starts /\ UNCHANGED gateVars
                   \/ (PublishGoesOn \/ BenchGoesOn) /\ UNCHANGED gateVars
                   \/ Writes /\ UNCHANGED <<reports, gateVars>>
                   \/ \E r \in Trained : CheckRegression(r) \/ UpdateBaseline(r)
                   \/ UNCHANGED vars
<1> SUFFICES ASSUME Next
             PROVE  \/ Starts /\ UNCHANGED gateVars
                    \/ (PublishGoesOn \/ BenchGoesOn) /\ UNCHANGED gateVars
                    \/ Writes /\ UNCHANGED <<reports, gateVars>>
                    \/ \E r \in Trained : CheckRegression(r) \/ UpdateBaseline(r)
  OBVIOUS
<1>1. CASE ReleaseNext /\ UNCHANGED <<reports, gateVars>>
  <2>1. ReleaseNext => Starts \/ PublishGoesOn \/ Writes
    BY Zenon DEF ReleaseNext, StageStep, Starts, PublishGoesOn, Writes, ExportClassifier,
                 ExportEmbedder, ExportDetector, Models
  <2> QED
    BY <1>1, <2>1
<1>2. CASE \E r \in Trained, selected \in Selections, skipExport, int8, quantizeOnly \in BOOLEAN :
              Bench(r, skipExport, selected, int8, quantizeOnly)
  <2>1. UNCHANGED gateVars
    BY <1>2 DEF Bench
  <2> QED
    BY <1>2, <2>1 DEF Starts
<1>3. CASE BenchGoesOn
  <2>1. UNCHANGED gateVars
    BY <1>3 DEF BenchGoesOn, MeasureCosts, TimeCases, WriteQuantization
  <2> QED
    BY <1>3, <2>1
<1> QED
  BY <1>1, <1>2, <1>3 DEF Next, BenchGoesOn

LEMMA StartsShape ==
    ASSUME Starts
    PROVE  /\ UNCHANGED <<files, sidecars, cwd, kills>>
           /\ JobShape' /\ job'.kind # "gate" /\ job'.pc \in {"done", "labels", "stage"}
           /\ ~Busy
<1> DEFINE Goal == /\ UNCHANGED <<files, sidecars, cwd, kills>>
                   /\ JobShape' /\ job'.kind # "gate" /\ job'.pc \in {"done", "labels", "stage"}
                   /\ ~Busy
<1>1. CASE Train \/ VerifyExports
  BY <1>1 DEF Train, VerifyExports, Idle, Busy, JobShape, Fields, disk
<1>2. ASSUME NEW r \in Trained, NEW flags \in Flags, Publish(r, flags) PROVE Goal
  BY <1>2 DEF Publish, StartScript, Busy, JobShape, Fields, disk
<1>3. ASSUME NEW r \in Trained, NEW selected \in Selections,
             NEW skipExport \in BOOLEAN, NEW int8 \in BOOLEAN, NEW quantizeOnly \in BOOLEAN,
             Bench(r, skipExport, selected, int8, quantizeOnly)
      PROVE  Goal
  BY <1>3 DEF Bench, StartScript, Busy, JobShape, Fields, disk
<1> QED
  BY <1>1, <1>2, <1>3 DEF Starts

(* A script that ends, or goes on to its next stage.                       *)
LEMMA NextStageShape ==
    ASSUME JobShape, Busy, NextStage \/ Exit(0) \/ Exit(1)
    PROVE  JobShape' /\ job'.pc \in {"done", "stage"} /\ job'.kind = job.kind
  BY DEF JobShape, Busy, Fields, NextStage, Exit

LEMMA GoesOnShape ==
    ASSUME JobShape, PublishGoesOn \/ BenchGoesOn
    PROVE  /\ UNCHANGED <<files, sidecars, cwd, kills>>
           /\ JobShape' /\ job'.kind = job.kind
           /\ job'.pc \in {"done", "stage", "metrics", "report"}
           /\ Busy /\ job.pc # "quantise"
<1> DEFINE Goal == /\ UNCHANGED <<files, sidecars, cwd, kills>>
                   /\ JobShape' /\ job'.kind = job.kind
                   /\ job'.pc \in {"done", "stage", "metrics", "report"}
                   /\ Busy /\ job.pc # "quantise"
<1>1. CASE WriteLabels
  BY <1>1 DEF WriteLabels, JobShape, Busy, Fields
<1>2. CASE CopyMetrics
  <2>1. Busy /\ job.pc # "quantise" /\ UNCHANGED <<files, sidecars, cwd, kills>>
    BY <1>2 DEF CopyMetrics, Busy
  <2>2. CASE Exit(0)
    BY <2>1, <2>2, NextStageShape
  <2>3. CASE job' = [job EXCEPT !.pc = "stage"]
    BY <2>1, <2>3 DEF JobShape, Busy, Fields
  <2> QED
    BY <1>2, <2>2, <2>3 DEF CopyMetrics
<1>3. CASE SkipStage \/ NoTinyImageNet \/ NoCocoImages
  <2>1. /\ Busy /\ job.pc # "quantise" /\ UNCHANGED <<files, sidecars, cwd, kills>>
        /\ NextStage
    BY <1>3 DEF SkipStage, NoTinyImageNet, NoCocoImages, NoCalibration, Quantises, Busy, disk
  <2> QED
    BY <2>1, NextStageShape
<1>4. CASE ExportFails \/ WriteQuantization
  <2>1. /\ Busy /\ job.pc # "quantise" /\ UNCHANGED <<files, sidecars, cwd, kills>>
        /\ Exit(0) \/ Exit(1)
    BY <1>4 DEF ExportFails, WriteQuantization, Exporting, Busy, disk
  <2> QED
    BY <2>1, NextStageShape
<1>5. CASE VerifyClassifier \/ VerifyEmbedder \/ VerifyDetector
  <2>1. /\ Busy /\ job.pc # "quantise" /\ UNCHANGED <<files, sidecars, cwd, kills>>
        /\ NextStage \/ Exit(1)
    BY <1>5 DEF VerifyClassifier, VerifyEmbedder, VerifyDetector, Compare, Busy
  <2> QED
    BY <2>1, NextStageShape
<1>6. ASSUME NEW compared \in SUBSET Models, MeasureCosts(compared) PROVE Goal
  <2>1. /\ Busy /\ job.pc = "stage" /\ UNCHANGED <<files, sidecars, cwd, kills>>
        /\ job' = [job EXCEPT !.costs = compared, !.todo = Tail(@)]
    BY <1>6 DEF MeasureCosts, Busy, disk
  <2> QED
    BY <2>1 DEF JobShape, Busy, Fields
<1>7. ASSUME NEW timed \in SUBSET Models, TimeCases(timed) PROVE Goal
  <2>1. Busy /\ job.pc = "stage" /\ UNCHANGED <<files, sidecars, cwd, kills>>
    BY <1>7 DEF TimeCases, Busy, disk
  <2>2. CASE job' = [job EXCEPT !.pc = "report"]
    BY <2>1, <2>2 DEF JobShape, Busy, Fields
  <2>3. CASE Exit(0)
    BY <2>1, <2>3, NextStageShape
  <2> QED
    BY <1>7, <2>2, <2>3 DEF TimeCases
<1> QED
  BY <1>1, <1>2, <1>3, <1>4, <1>5, <1>6, <1>7 DEF PublishGoesOn, BenchGoesOn

LEMMA WritesShape ==
    ASSUME JobShape, Writes
    PROVE  JobShape' /\ Busy /\ (job'.kind = job.kind \/ job' = Idle)
<1> DEFINE Goal == JobShape' /\ Busy /\ (job'.kind = job.kind \/ job' = Idle)
<1>1. ASSUME NEW m \in Models, NEW diff \in {Tight, Loose, Off}, WriteGraph(m, diff) PROVE Goal
  BY <1>1 DEF WriteGraph, Exporting, JobShape, Busy, Fields
<1>2. CASE Inline \/ Unlink
  BY <1>2 DEF Inline, Unlink, JobShape, Busy, Fields
<1>3. CASE PreProcess
  <2>1. /\ job.pc = "stage"
        /\ job' = [job EXCEPT !.pc = "quantise", !.before = cwd]
    BY <1>3 DEF PreProcess, Quantises
  <2> QED
    BY <2>1 DEF JobShape, Busy, Fields
<1>4. ASSUME NEW succeeds \in BOOLEAN, Quantise(succeeds) PROVE Goal
  <2>1. job.pc = "quantise" /\ NextStage
    BY <1>4 DEF Quantise
  <2>2. Busy
    BY <2>1 DEF Busy
  <2> QED
    BY <2>1, <2>2, NextStageShape
<1>5. ASSUME NEW torn \in SUBSET Torn, Kill(torn) PROVE Goal
  <2>1. Busy /\ job' = Idle
    BY <1>5 DEF Kill
  <2> QED
    BY <2>1 DEF JobShape, Idle, Busy
<1> QED
  BY <1>1, <1>2, <1>3, <1>4, <1>5 DEF Writes

(* CheckRegression and UpdateBaseline only read the directory.             *)
LEMMA GateShape ==
    ASSUME NEW r \in Trained, CheckRegression(r) \/ UpdateBaseline(r)
    PROVE  /\ UNCHANGED <<files, sidecars, cwd, kills>>
           /\ JobShape' /\ job'.pc = "done" /\ ~Busy
<1>1. CASE CheckRegression(r)
  <2>1. /\ UNCHANGED <<files, sidecars, cwd, kills>> /\ ~Busy
        /\ \E code \in {0, 1} : job' = [kind |-> "gate", pc |-> "done", run |-> r, code |-> code]
    BY <1>1 DEF CheckRegression, disk
  <2> QED
    BY <2>1 DEF Busy, JobShape
<1>2. CASE UpdateBaseline(r)
  <2>1. UNCHANGED <<files, sidecars, cwd, kills>> /\ ~Busy /\ job' = Idle
    BY <1>2 DEF UpdateBaseline, disk
  <2> QED
    BY <2>1 DEF Idle, Busy, JobShape
<1> QED
  BY <1>1, <1>2

-----------------------------------------------------------------------------
(* Sidecars.                                                               *)

LEMMA SidecarStep == SidecarInv /\ [Next]_vars => SidecarInv'
<1> SUFFICES ASSUME SidecarInv, [Next]_vars PROVE SidecarInv'
  OBVIOUS
<1> USE DEF SidecarInv
<1>a. ASSUME UNCHANGED <<files, sidecars>>, JobShape', job'.pc \notin {"inline", "unlink"}
      PROVE  SidecarInv'
  BY <1>a DEF GraphsShape, Consolidating, SplitHasSidecar, Exists
<1>1. CASE Starts
  BY <1>1, <1>a, StartsShape
<1>2. CASE PublishGoesOn \/ BenchGoesOn
  BY <1>2, <1>a, GoesOnShape
<1>3. ASSUME NEW r \in Trained, CheckRegression(r) \/ UpdateBaseline(r) PROVE SidecarInv'
  BY <1>3, <1>a, GateShape
<1>4. ASSUME NEW m \in Models, NEW diff \in {Tight, Loose, Off}, WriteGraph(m, diff)
      PROVE  SidecarInv'
  <2>1. JobShape'
    BY <1>4, WritesShape DEF Writes
  <2>2. /\ Stage = Fp32(m) /\ Fp32(m) \in Graphs
        /\ files' = [files EXCEPT ![Stage] = Graph(Source(m, job.run), diff, "split")]
        /\ sidecars' = sidecars \cup {m}
        /\ job' = [job EXCEPT !.pc = "inline"] /\ Busy
    BY <1>4 DEF WriteGraph, Exporting, Fp32, Graphs, Busy
  <2>3. job'.pc = "inline" /\ Stage' = Stage
    BY <2>2 DEF JobShape, Fields, Stage
  <2>4. GraphsShape'
    BY <2>2 DEF GraphsShape
  <2>5. Consolidating'
    BY <2>2, <2>3 DEF Consolidating, GraphsShape, Graph
  <2>6. SplitHasSidecar'
    BY <2>2 DEF SplitHasSidecar, GraphsShape, Exists, Fp32, Graphs
  <2> QED
    BY <2>1, <2>4, <2>5, <2>6
<1>5. CASE Inline
  <2>1. PICK m \in Models : Stage = Fp32(m) /\ "state" \in DOMAIN files[Stage]
    BY <1>5 DEF Inline, Consolidating
  <2>2. /\ files' = [files EXCEPT ![Stage] = [files[Stage] EXCEPT !.state = "whole"]]
        /\ UNCHANGED sidecars /\ job' = [job EXCEPT !.pc = "unlink"] /\ Busy
    BY <1>5 DEF Inline, Busy
  <2>3. Stage \in Graphs
    BY <2>1 DEF Graphs, Fp32
  <2>4. job'.pc = "unlink" /\ Stage' = Stage
    BY <2>2 DEF JobShape, Fields, Stage
  <2>5. /\ files'[Stage].state = "whole" /\ "state" \in DOMAIN files'[Stage]
        /\ DOMAIN files' = Graphs /\ \A g \in Graphs : g # Stage => files'[g] = files[g]
    BY <2>1, <2>2, <2>3 DEF GraphsShape
  <2>6. JobShape'
    BY <1>5, WritesShape DEF Writes
  <2>7. GraphsShape'
    BY <2>5 DEF GraphsShape
  <2>8. Consolidating'
    BY <2>1, <2>4, <2>5 DEF Consolidating
  <2>9. SplitHasSidecar'
    BY <2>2, <2>5 DEF SplitHasSidecar, Exists, Fp32, Graphs
  <2> QED
    BY <2>6, <2>7, <2>8, <2>9
<1>6. CASE Unlink
  <2>1. PICK m \in Models : Stage = Fp32(m) /\ files[Stage].state = "whole"
    BY <1>6 DEF Unlink, Consolidating
  <2>2. /\ UNCHANGED files /\ sidecars' = sidecars \ {m}
        /\ job' = [job EXCEPT !.pc = "verify"] /\ Busy
    BY <1>6, <2>1 DEF Unlink, Busy, Fp32
  <2>3. JobShape' /\ job'.pc = "verify"
    BY <1>6, <2>2, WritesShape DEF Writes, JobShape
  <2>4. ASSUME NEW n \in Models, Exists(Fp32(n)), files[Fp32(n)].state = "split" PROVE n \in sidecars'
    BY <2>1, <2>2, <2>4 DEF SplitHasSidecar
  <2> QED
    BY <2>2, <2>3, <2>4 DEF GraphsShape, Consolidating, SplitHasSidecar, Exists
<1>7. CASE PreProcess
  <2>1. UNCHANGED <<files, sidecars>> /\ job' = [job EXCEPT !.pc = "quantise", !.before = cwd]
    BY <1>7 DEF PreProcess, disk
  <2>2. JobShape'
    BY <1>7, WritesShape DEF Writes
  <2>3. job'.pc = "quantise"
    BY <2>1 DEF JobShape
  <2> QED
    BY <2>1, <2>2, <2>3, <1>a
<1>8. ASSUME NEW succeeds \in BOOLEAN, Quantise(succeeds) PROVE SidecarInv'
  <2>1. /\ \/ UNCHANGED files
           \/ \E src, diff : files' = [files EXCEPT ![Stage] = Graph(src, diff, "whole")]
        /\ UNCHANGED sidecars /\ NextStage /\ Busy
    BY <1>8 DEF Quantise, Busy
  <2>2. JobShape' /\ job'.pc \in {"done", "stage"}
    BY <2>1, NextStageShape
  <2>3. CASE UNCHANGED files
    BY <2>1, <2>2, <2>3, <1>a
  <2>4. ASSUME NEW src, NEW diff, files' = [files EXCEPT ![Stage] = Graph(src, diff, "whole")]
        PROVE  SidecarInv'
    <3>1. GraphsShape'
      BY <2>4 DEF GraphsShape
    <3>2. SplitHasSidecar'
      BY <2>1, <2>4 DEF SplitHasSidecar, GraphsShape, Exists, Graph, Fp32, Graphs
    <3> QED
      BY <2>2, <3>1, <3>2 DEF Consolidating
  <2> QED
    BY <2>1, <2>3, <2>4
<1>9. ASSUME NEW torn \in SUBSET Torn, Kill(torn) PROVE SidecarInv'
  <2>1. /\ files' = [g \in Graphs |->
                        IF g \in torn THEN Graph(job.run, Off, "torn") ELSE files[g]]
        /\ UNCHANGED sidecars /\ job' = Idle
    BY <1>9 DEF Kill
  <2>2. JobShape' /\ job'.pc = "done"
    BY <1>9, <2>1, WritesShape DEF Writes, Idle
  <2>3. GraphsShape'
    BY <2>1 DEF GraphsShape
  <2>4. SplitHasSidecar'
    BY <2>1 DEF SplitHasSidecar, Exists, Graph, Fp32, Graphs
  <2> QED
    BY <2>2, <2>3, <2>4 DEF Consolidating
<1>10. CASE UNCHANGED vars
  <2>1. UNCHANGED <<job, files, sidecars>>
    BY <1>10 DEF vars, releaseVars, disk
  <2> QED
    BY <2>1 DEF JobShape, Busy, GraphsShape, Consolidating, SplitHasSidecar, Exists, Stage
<1> QED
  BY <1>1, <1>2, <1>3, <1>4, <1>5, <1>6, <1>7, <1>8, <1>9, <1>10, Cases DEF Writes

-----------------------------------------------------------------------------
(* The working directory.                                                  *)

LEMMA LitterStep == JobShape /\ Littered /\ [Next]_vars => Littered'
<1> SUFFICES ASSUME JobShape, Littered, [Next]_vars PROVE Littered'
  OBVIOUS
<1>a. ASSUME UNCHANGED <<cwd, kills>>, job.pc # "quantise", job'.pc # "quantise"
      PROVE  Littered'
  BY <1>a DEF Littered
<1>1. CASE Starts
  BY <1>1, <1>a, StartsShape DEF Busy
<1>2. CASE PublishGoesOn \/ BenchGoesOn
  BY <1>2, <1>a, GoesOnShape
<1>3. ASSUME NEW r \in Trained, CheckRegression(r) \/ UpdateBaseline(r) PROVE Littered'
  BY <1>3, <1>a, GateShape DEF Busy
<1>4. CASE Inline \/ Unlink \/ \E m \in Models, diff \in {Tight, Loose, Off} : WriteGraph(m, diff)
  <2>1. /\ UNCHANGED <<cwd, kills>> /\ job.pc \in {"stage", "inline", "unlink"}
        /\ job' \in {[job EXCEPT !.pc = pc] : pc \in {"inline", "unlink", "verify"}}
    BY <1>4 DEF Inline, Unlink, WriteGraph, Exporting
  <2> QED
    BY <2>1, <1>a DEF JobShape
<1>5. CASE PreProcess
  <2>1. /\ job.pc = "stage" /\ UNCHANGED kills
        /\ job' = [job EXCEPT !.pc = "quantise", !.before = cwd]
        /\ cwd \subseteq cwd'
    BY <1>5 DEF PreProcess, Quantises
  <2>2. job'.pc = "quantise" /\ job'.before = cwd
    BY <2>1 DEF JobShape, Busy, Fields
  <2> QED
    BY <2>1, <2>2 DEF Littered
<1>6. ASSUME NEW succeeds \in BOOLEAN, Quantise(succeeds) PROVE Littered'
  <2>1. job.pc = "quantise" /\ UNCHANGED kills /\ NextStage /\ cwd' = cwd \cap job.before
    BY <1>6 DEF Quantise, Swept
  <2>2. job'.pc \in {"done", "stage"}
    BY <2>1, NextStageShape DEF Busy
  <2> QED
    BY <2>1, <2>2 DEF Littered
<1>7. ASSUME NEW torn \in SUBSET Torn, Kill(torn) PROVE Littered'
  BY <1>7 DEF Kill, Littered
<1>8. CASE UNCHANGED vars
  BY <1>8 DEF vars, releaseVars, Littered
<1> QED
  BY <1>1, <1>2, <1>3, <1>4, <1>5, <1>6, <1>7, <1>8, Cases DEF Writes

-----------------------------------------------------------------------------
(* The gate.                                                               *)

(* What is collected has a specification.                                  *)
LEMMA CandidateSpecified ==
    ASSUME NEW r \in Runs PROVE DOMAIN Candidate(r) \subseteq DOMAIN DefaultSpecs
<1>1. DOMAIN SizeMetric \subseteq DOMAIN DefaultSpecs
  BY GateAssumption DEF SizeMetric
<1>2. DOMAIN LatencyMetrics \subseteq DOMAIN DefaultSpecs
  BY GateAssumption DEF LatencyMetrics
<1>3. DOMAIN Scores[r] \subseteq DOMAIN DefaultSpecs
  BY GateAssumption
<1> QED
  BY <1>1, <1>2, <1>3 DEF Candidate, Union

(* A candidate that passes has every metric of the baseline.               *)
LEMMA PassedHasAll ==
    ASSUME NEW candidate, Passed(candidate), DOMAIN baseline \subseteq DOMAIN DefaultSpecs
    PROVE  DOMAIN baseline \subseteq DOMAIN candidate
  BY DEF Passed, Missing, Compared

(* The reports a candidate is collected from.                              *)
LEMMA CandidateSame ==
    ASSUME NEW r, UNCHANGED <<files, results, baseline>>
    PROVE  Candidate(r)' = Candidate(r) /\ (Passed(Candidate(r)) => Passed(Candidate(r))')
<1>1. Candidate(r)' = Candidate(r)
  BY DEF Candidate, SizeMetric, LatencyMetrics, ServingRow, Exists
<1> QED
  BY <1>1 DEF Passed, Missing, Regressions, Compared

LEMMA EndedStep == Ended /\ [Next]_vars => Ended'
<1> SUFFICES ASSUME Ended, [Next]_vars PROVE trained' = trained \/ Train
  BY ReleaseAssumption DEF Ended, Train
<1>1. Starts => trained' = trained \/ Train
  BY DEF Starts, VerifyExports, Publish, Bench
<1>2. PublishGoesOn \/ BenchGoesOn => trained' = trained
  BY DEF PublishGoesOn, BenchGoesOn, WriteLabels, CopyMetrics, SkipStage, ExportFails, Compare,
         VerifyClassifier, VerifyEmbedder, VerifyDetector, NoTinyImageNet, NoCocoImages,
         NoCalibration, MeasureCosts, TimeCases, WriteQuantization
<1>3. Writes => trained' = trained
  BY DEF Writes, WriteGraph, Inline, Unlink, PreProcess, Quantise, Kill
<1>4. ASSUME NEW r \in Trained, CheckRegression(r) \/ UpdateBaseline(r) PROVE trained' = trained
  BY <1>4 DEF CheckRegression, UpdateBaseline
<1>5. UNCHANGED vars => trained' = trained
  BY DEF vars, releaseVars
<1> QED
  BY <1>1, <1>2, <1>3, <1>4, <1>5, Cases

LEMMA ReviewStep ==
    JobShape /\ Reviewed /\ Ended /\ [Next]_vars
        => /\ Reviewed'
           /\ baseline # None /\ reviewed' => DOMAIN baseline \subseteq (DOMAIN baseline')
<1> SUFFICES ASSUME JobShape, Reviewed, Ended, [Next]_vars
             PROVE  /\ Reviewed'
                    /\ baseline # None /\ reviewed' => DOMAIN baseline \subseteq (DOMAIN baseline')
  OBVIOUS
<1>a. ASSUME UNCHANGED baseline, job'.kind # "gate" PROVE Reviewed' /\ UNCHANGED baseline
  BY <1>a DEF Reviewed
<1>1. CASE Starts /\ UNCHANGED gateVars
  BY <1>1, <1>a, StartsShape DEF gateVars
<1>2. CASE (PublishGoesOn \/ BenchGoesOn) /\ UNCHANGED gateVars
  <2>1. Busy /\ job'.kind = job.kind
    BY <1>2, GoesOnShape
  <2> QED
    BY <1>2, <2>1, <1>a DEF gateVars, Reviewed
<1>3. CASE Writes /\ UNCHANGED <<reports, gateVars>>
  <2>1. Busy /\ (job'.kind = job.kind \/ job' = Idle)
    BY <1>3, WritesShape
  <2> QED
    BY <1>3, <2>1, <1>a DEF gateVars, Reviewed, Idle
<1>4. ASSUME NEW r \in Trained, CheckRegression(r) PROVE Reviewed' /\ UNCHANGED baseline
  <2>1. UNCHANGED <<files, results, baseline>> /\ baseline # None
    BY <1>4 DEF CheckRegression, disk, reports, gateVars
  <2>2. job' = [kind |-> "gate", pc |-> "done", run |-> r,
                code |-> IF Passed(Candidate(r)) THEN 0 ELSE 1]
    BY <1>4 DEF CheckRegression
  <2>3. job'.code = 0 => Passed(Candidate(r))'
    BY <2>1, <2>2, CandidateSame
  <2> QED
    BY <2>1, <2>2, <2>3 DEF Reviewed, Busy
<1>5. ASSUME NEW r \in Trained, UpdateBaseline(r)
      PROVE  /\ Reviewed'
             /\ baseline # None /\ reviewed' => DOMAIN baseline \subseteq (DOMAIN baseline')
  <2>1. /\ baseline' = Candidate(r) /\ job' = Idle
        /\ reviewed' = \/ baseline = None
                       \/ reviewed /\ job = [kind |-> "gate", pc |-> "done", run |-> r, code |-> 0]
    BY <1>5 DEF UpdateBaseline
  <2>2. r \in Runs
    BY ReleaseAssumption DEF Trained, Runs, Ended
  <2>3. Reviewed'
    BY <2>1, <2>2, CandidateSpecified DEF Reviewed, Idle
  <2>4. ASSUME baseline # None, reviewed' PROVE DOMAIN baseline \subseteq (DOMAIN baseline')
    <3>0. job = [kind |-> "gate", pc |-> "done", run |-> r, code |-> 0]
      BY <2>1, <2>4, Zenon
    <3>1. job.kind = "gate" /\ job.code = 0 /\ job.run = r
      BY <3>0
    <3>2. Passed(Candidate(r))
      BY <3>1 DEF Reviewed
    <3> QED
      BY <2>1, <2>4, <3>2, PassedHasAll DEF Reviewed
  <2> QED
    BY <2>3, <2>4
<1>6. CASE UNCHANGED vars
  <2>1. UNCHANGED <<files, results, baseline, job>>
    BY <1>6 DEF vars, releaseVars, disk, reports, gateVars
  <2>2. Passed(Candidate(job.run)) => Passed(Candidate(job.run))'
    BY <2>1, CandidateSame
  <2> QED
    BY <2>1, <2>2 DEF Reviewed, Busy
<1> QED
  BY <1>1, <1>2, <1>3, <1>4, <1>5, <1>6, Cases

-----------------------------------------------------------------------------
LEMMA Inductive == Spec => []IInv
<1>1. GateInit => IInv
  BY ReleaseAssumption
     DEF GateInit, Init, IInv, SidecarInv, Ended, JobShape, GraphsShape, Consolidating, SplitHasSidecar,
         Littered, Reviewed, Idle, Busy, Exists, Fp32, Graphs
<1>2. IInv /\ [Next]_vars => IInv'
  BY SidecarStep, LitterStep, ReviewStep, EndedStep DEF IInv, SidecarInv
<1> QED
  BY <1>1, <1>2, PTL DEF Spec

(* Whatever is killed when, _consolidate_external_data (export.py) never   *)
(* leaves a graph without the tensors outside it.                          *)
THEOREM SidecarKept == Spec => []SplitHasSidecar
<1>1. IInv => SplitHasSidecar
  BY DEF IInv, SidecarInv
<1> QED
  BY <1>1, Inductive, PTL

(* _clean_workspace (quantize.py) sweeps all a script left in the working  *)
(* directory, and nothing else, whichever of its stages fail.              *)
THEOREM WorkspaceClean == Spec => []WorkspaceKept
<1>1. IInv => WorkspaceKept
  BY DEF IInv, Littered, WorkspaceKept, Busy
<1> QED
  BY <1>1, Inductive, PTL

(* check_regression.py loses no metric as long as updates are reviewed.    *)
THEOREM MetricsStay == Spec => BaselineKeepsItsMetrics
<1>1. IInv /\ [Next]_vars => [baseline # None /\ reviewed' => DOMAIN baseline \subseteq (DOMAIN baseline')]_vars
  BY ReviewStep DEF IInv, SidecarInv
<1> QED
  BY <1>1, Inductive, PTL DEF Spec, BaselineKeepsItsMetrics
-----------------------------------------------------------------------------
(* Publication with --force.                                               *)

In(x, seq) == \E i \in 1..Len(seq) : seq[i] = x

LEMMA InConcat ==
    \A s, t \in Seq(Graphs) : \A x : In(x, s) \/ In(x, t) => In(x, s \o t)
<1> SUFFICES ASSUME NEW s \in Seq(Graphs), NEW t \in Seq(Graphs), NEW x, In(x, s) \/ In(x, t)
             PROVE  \E i \in 1..Len(s \o t) : (s \o t)[i] = x
  BY DEF In
<1>1. CASE In(x, s)
  <2>1. PICK i \in 1..Len(s) : s[i] = x
    BY <1>1 DEF In
  <2>2. i \in 1..Len(s \o t) /\ (s \o t)[i] = x
    BY <2>1
  <2> QED
    BY <2>2
<1>2. CASE In(x, t)
  <2>1. PICK i \in 1..Len(t) : t[i] = x
    BY <1>2 DEF In
  <2>2. Len(s) + i \in 1..Len(s \o t) /\ (s \o t)[Len(s) + i] = x
    BY <2>1
  <2> QED
    BY <2>2
<1> QED
  BY <1>1, <1>2

(* What is not the head is in the rest.                                    *)
LEMMA InTail ==
    ASSUME NEW s \in Seq(Graphs), NEW x, In(x, s), x # Head(s) PROVE s # <<>> /\ In(x, Tail(s))
<1>1. PICK i \in 1..Len(s) : s[i] = x
  BY DEF In
<1>2. i # 1 /\ s # <<>>
  BY <1>1
<1>3. i - 1 \in 1..Len(Tail(s)) /\ Tail(s)[i - 1] = x
  BY <1>1, <1>2
<1> QED
  BY <1>2, <1>3 DEF In

(* main has an export for every model it was asked for.                    *)
LEMMA StagesComplete ==
    ASSUME NEW models \in SUBSET Models, NEW int8 \in BOOLEAN
    PROVE  /\ PublishStages(models, int8) \in Seq(Graphs)
           /\ \A m \in models : In(Fp32(m), PublishStages(models, int8))
<1> DEFINE Variants(m) == CASE m \notin models -> <<>>
                            [] m \in models /\ ~int8 -> <<Fp32(m)>>
                            [] m \in models /\ int8 -> <<Fp32(m), <<m, "int8">> >>
<1>1. ASSUME NEW m \in Models
      PROVE  Variants(m) \in Seq(Graphs) /\ (m \in models => In(Fp32(m), Variants(m)))
  <2>1. Fp32(m) \in Graphs /\ <<m, "int8">> \in Graphs
    BY DEF Fp32, Graphs
  <2>2. CASE m \notin models
    BY <2>2
  <2>3. CASE m \in models /\ ~int8
    <3>1. Variants(m) = <<Fp32(m)>>
      BY <2>3
    <3> HIDE DEF Variants
    <3>2. Variants(m) \in Seq(Graphs) /\ Len(Variants(m)) = 1 /\ Variants(m)[1] = Fp32(m)
      BY <2>1, <3>1
    <3> QED
      BY <3>2 DEF In
  <2>4. CASE m \in models /\ int8
    <3>1. Variants(m) = <<Fp32(m), <<m, "int8">> >>
      BY <2>4
    <3> HIDE DEF Variants
    <3>2. Variants(m) \in Seq(Graphs) /\ Len(Variants(m)) = 2 /\ Variants(m)[1] = Fp32(m)
      BY <2>1, <3>1
    <3> QED
      BY <3>2 DEF In
  <2> QED
    BY <2>2, <2>3, <2>4
<1>2. PublishStages(models, int8)
        = Variants("classifier") \o Variants("detector") \o Variants("embedder")
  BY DEF PublishStages
<1> HIDE DEF Variants
<1>3. /\ Variants("classifier") \in Seq(Graphs) /\ Variants("detector") \in Seq(Graphs)
      /\ Variants("embedder") \in Seq(Graphs)
      /\ Variants("classifier") \o Variants("detector") \in Seq(Graphs)
  BY <1>1 DEF Models
<1>4. ASSUME NEW m \in models PROVE In(Fp32(m), PublishStages(models, int8))
  <2>1. m \in {"classifier", "detector", "embedder"} /\ In(Fp32(m), Variants(m))
    BY <1>1 DEF Models
  <2>2. CASE m \in {"classifier", "detector"}
    <3>1. In(Fp32(m), Variants("classifier") \o Variants("detector"))
      BY <2>1, <2>2, <1>3, InConcat
    <3> QED
      BY <3>1, <1>2, <1>3, InConcat
  <2>3. CASE m = "embedder"
    BY <2>1, <2>3, <1>2, <1>3, InConcat
  <2> QED
    BY <2>1, <2>2, <2>3
<1> QED
  BY <1>2, <1>3, <1>4

(* The graph of m, its sidecar and what is published beside it are of the  *)
(* sources the script was started for.                                     *)
Published(m) ==
    LET g == files[Fp32(m)]
    IN  /\ g.src = Source(m, job.run) /\ g.state = "whole" /\ Accepted(m, g.diff)
        /\ m \notin sidecars
        /\ m # "embedder" => labels[m] = g.src
        /\ m = "classifier" => metrics = g.src

Forced == job.kind = "publish" /\ ~job.reuse

(* Where a publication can be, and what is ahead of it.                    *)
ForcedPlace ==
    /\ job.pc \in {"labels", "metrics", "stage", "inline", "unlink", "verify", "quantise", "done"}
    /\ job.todo \in Seq(Graphs)
    /\ job.pc \notin {"labels", "metrics", "done"} => job.todo # <<>>
    /\ job.pc = "quantise" => Stage[2] = "int8"
    /\ job.selected \subseteq Models
    /\ "classifier" \in job.selected => Task[job.run] = "classification"

(* The shared metadata goes first.                                         *)
ForcedShared ==
    Task[job.run] = "classification" =>
        /\ job.pc # "labels" /\ job.run \in Labelled => labels["classifier"] = job.run
        /\ job.pc \notin {"labels", "metrics"} => metrics = job.run

(* Each graph of the models asked for is still ahead, or is published; the *)
(* one at work is as the steps so far leave it.                            *)
ForcedStages ==
    /\ Busy => \A m \in job.selected : In(Fp32(m), job.todo) \/ Published(m)
    /\ ~Busy /\ job.code = 0 => \A m \in job.selected : Published(m)
    /\ job.pc \in {"inline", "unlink", "verify"} =>
          \E m \in Models : /\ Stage = Fp32(m) /\ files[Stage].src = Source(m, job.run)
                            /\ {"src", "diff", "state"} \subseteq DOMAIN files[Stage]
                            /\ m = "classifier" => job.run \in Labelled /\ Task[job.run] = "classification"
    /\ job.pc \in {"unlink", "verify"} => files[Stage].state = "whole"
    /\ job.pc = "verify" => Stage[1] \notin sidecars

LabelsShape == DOMAIN labels = {"classifier", "detector"}

ForcedInv == LabelsShape /\ (Forced => ForcedPlace /\ ForcedShared /\ ForcedStages)
(* What a step of the script leaves alone of the script.                   *)
LEMMA JobKept ==
    ASSUME JobShape, Busy, NEW p,
           \/ job' = [job EXCEPT !.pc = p]
           \/ \E c : job' = [job EXCEPT !.pc = p, !.code = c]
           \/ \E b : job' = [job EXCEPT !.pc = p, !.before = b]
    PROVE  /\ job'.pc = p /\ job'.kind = job.kind /\ job'.run = job.run /\ job'.reuse = job.reuse
           /\ job'.selected = job.selected /\ job'.todo = job.todo /\ Stage' = Stage
           /\ Forced' = Forced
  BY DEF JobShape, Busy, Fields, Stage, Forced

LEMMA PublishedKept ==
    ASSUME NEW m \in Models, Published(m),
           files'[Fp32(m)] = files[Fp32(m)], job'.run = job.run, m \in sidecars' => m \in sidecars,
           m # "embedder" => labels'[m] = labels[m], metrics' = metrics
    PROVE  Published(m)'
  BY DEF Published, Source, Accepted, Fp32

(* The script goes on, or ends well, with what it has done published.      *)
LEMMA ForcedNext ==
    ASSUME JobShape, Busy, Forced, ForcedInv, job.pc \notin {"labels", "metrics"}, NextStage,
           LabelsShape', labels'["classifier"] = labels["classifier"], metrics' = metrics,
           \A m \in job.selected : Published(m) \/ Stage = Fp32(m) => Published(m)'
    PROVE  ForcedInv'
<1> USE DEF ForcedInv
<1>1. ForcedPlace /\ ForcedShared /\ ForcedStages
  OBVIOUS
<1>2. job.todo \in Seq(Graphs) /\ job.todo # <<>>
  BY <1>1 DEF ForcedPlace, Busy
<1>3. CASE Len(job.todo) = 1
  <2>1. job' = [job EXCEPT !.pc = "done", !.code = 0]
    BY <1>3 DEF NextStage, Exit
  <2>2. /\ job'.pc = "done" /\ job'.code = 0 /\ job'.selected = job.selected /\ job'.run = job.run
        /\ job'.todo = job.todo
    BY <2>1 DEF JobShape, Busy, Fields
  <2>3. ASSUME NEW m \in job.selected PROVE Published(m)'
    <3>1. In(Fp32(m), job.todo) \/ Published(m)
      BY <1>1 DEF ForcedStages
    <3>2. ASSUME In(Fp32(m), job.todo) PROVE Stage = Fp32(m)
      <4>1. PICK i \in 1..Len(job.todo) : job.todo[i] = Fp32(m)
        BY <3>2 DEF In
      <4>2. i = 1
        BY <4>1, <1>3
      <4>3. Head(job.todo) = job.todo[1]
        BY <1>2
      <4> QED
        BY <4>1, <4>2, <4>3 DEF Stage
    <3> QED
      BY <3>1, <3>2
  <2>4. ForcedPlace' /\ ForcedShared'
    BY <1>1, <2>2 DEF ForcedPlace, ForcedShared, Busy
  <2>5. ForcedStages'
    BY <2>2, <2>3 DEF ForcedStages, Busy
  <2> QED
    BY <2>4, <2>5
<1>4. CASE Len(job.todo) # 1
  <2>1. job' = [job EXCEPT !.pc = "stage", !.todo = Tail(@)]
    BY <1>4 DEF NextStage
  <2>2. /\ job'.pc = "stage" /\ job'.selected = job.selected /\ job'.run = job.run
        /\ job'.todo = Tail(job.todo)
    BY <2>1 DEF JobShape, Busy, Fields
  <2>3. Tail(job.todo) \in Seq(Graphs) /\ Tail(job.todo) # <<>>
    <3>1. Len(job.todo) \in Nat \ {0}
      BY <1>2, EmptySeq
    <3>2. Tail(job.todo) \in Seq(Graphs) /\ Len(Tail(job.todo)) = Len(job.todo) - 1
      BY <1>2, HeadTailProperties
    <3>3. Len(Tail(job.todo)) # 0
      BY <3>1, <3>2, <1>4
    <3> QED
      BY <3>2, <3>3, EmptySeq
  <2>4. ASSUME NEW m \in job.selected PROVE In(Fp32(m), job'.todo) \/ Published(m)'
    <3>1. In(Fp32(m), job.todo) \/ Published(m)
      BY <1>1 DEF ForcedStages
    <3>2. CASE Published(m) \/ Stage = Fp32(m)
      BY <3>2
    <3>3. CASE In(Fp32(m), job.todo) /\ Stage # Fp32(m)
      BY <1>2, <3>3, <2>2, InTail DEF Stage
    <3> QED
      BY <3>1, <3>2, <3>3
  <2>5. ForcedPlace' /\ ForcedShared'
    BY <1>1, <2>2, <2>3 DEF ForcedPlace, ForcedShared, Busy
  <2>6. ForcedStages'
    BY <2>2, <2>4 DEF ForcedStages, Busy
  <2> QED
    BY <2>5, <2>6
<1> QED
  BY <1>3, <1>4

(* A script that fails promises nothing.                                   *)
LEMMA ForcedFails ==
    ASSUME JobShape, Busy, Forced, ForcedInv, job.pc \notin {"labels", "metrics"}, Exit(1),
           LabelsShape', labels'["classifier"] = labels["classifier"], metrics' = metrics
    PROVE  ForcedInv'
<1>1. ForcedPlace /\ ForcedShared
  BY DEF ForcedInv
<1>2. /\ job'.pc = "done" /\ job'.code = 1 /\ job'.selected = job.selected /\ job'.run = job.run
      /\ job'.todo = job.todo
  BY DEF Exit, JobShape, Busy, Fields
<1>3. ForcedPlace' /\ ForcedShared'
  BY <1>1, <1>2 DEF ForcedPlace, ForcedShared, Busy
<1>4. ForcedStages'
  BY <1>2 DEF ForcedStages, Busy
<1> QED
  BY <1>3, <1>4 DEF ForcedInv

LEMMA ForcedGoesOn ==
    ASSUME JobShape, GraphsShape, Forced, ForcedInv, PublishGoesOn \/ BenchGoesOn
    PROVE  ForcedInv'
<1>1. ForcedPlace /\ ForcedShared /\ ForcedStages /\ LabelsShape
  BY DEF ForcedInv
<1>2. job.pc \notin {"labels", "metrics", "done"} =>
         Stage \in Graphs /\ (~Reuse(Stage)) /\ (Skips(Stage) => Stage[2] = "int8")
  BY <1>1 DEF ForcedPlace, Stage, Forced, Reuse, Skips
<1>3. job.selected \subseteq Models
  BY <1>1 DEF ForcedPlace
<1>4. CASE WriteLabels
  <2>1. /\ job.pc = "labels" /\ Busy /\ job' = [job EXCEPT !.pc = "metrics"]
        /\ UNCHANGED <<files, sidecars, metrics>>
        /\ labels' = IF job.run \in Labelled /\ Task[job.run] = "classification"
                     THEN [labels EXCEPT !["classifier"] = job.run] ELSE labels
    BY <1>4 DEF WriteLabels, PublishesShared, Busy
  <2>2. /\ job'.pc = "metrics" /\ job'.run = job.run /\ job'.selected = job.selected
        /\ job'.todo = job.todo
    BY <2>1, JobKept
  <2>3. LabelsShape'
    BY <2>1, <1>1 DEF LabelsShape
  <2>4. ASSUME NEW m \in job.selected, Published(m) PROVE Published(m)'
    <3>1. m \in Models
      BY <1>3
    <3>2. m # "embedder" => labels'[m] = labels[m]
      <4>1. CASE m = "classifier"
        <5>1. labels["classifier"] = job.run
          BY <4>1, <2>4, <1>1 DEF Published, Source
        <5> QED
          BY <4>1, <5>1, <2>1, <1>1 DEF LabelsShape
      <4>2. CASE m # "classifier"
        BY <2>1, <4>2, <3>1, <1>1 DEF LabelsShape, Models
      <4> QED
        BY <4>1, <4>2
    <3> QED
      BY <3>1, <3>2, <2>1, <2>2, <2>4, PublishedKept
  <2>5. ForcedPlace'
    BY <1>1, <2>2 DEF ForcedPlace
  <2>6. ForcedShared'
    BY <2>1, <2>2, <1>1 DEF ForcedShared, LabelsShape
  <2>7. ForcedStages'
    BY <2>1, <2>2, <2>4, <1>1 DEF ForcedStages, Busy
  <2> QED
    BY <2>3, <2>5, <2>6, <2>7 DEF ForcedInv
<1>5. CASE CopyMetrics
  <2>1. /\ job.pc = "metrics" /\ Busy /\ UNCHANGED <<files, sidecars, labels>>
        /\ metrics' = IF Task[job.run] = "classification" THEN job.run ELSE metrics
        /\ \/ job.todo = <<>> /\ job' = [job EXCEPT !.pc = "done", !.code = 0]
           \/ job.todo # <<>> /\ job' = [job EXCEPT !.pc = "stage"]
    BY <1>5 DEF CopyMetrics, PublishesShared, Busy, Exit
  <2>2. /\ job'.pc \in {"done", "stage"} /\ job'.run = job.run /\ job'.selected = job.selected
        /\ job'.todo = job.todo /\ (job'.pc = "done" <=> job.todo = <<>>)
    <3>1. CASE job.todo = <<>> /\ job' = [job EXCEPT !.pc = "done", !.code = 0]
      BY <2>1, <3>1, JobKept
    <3>2. CASE job.todo # <<>> /\ job' = [job EXCEPT !.pc = "stage"]
      BY <2>1, <3>2, JobKept
    <3> QED
      BY <2>1, <3>1, <3>2
  <2>3. ASSUME NEW m \in job.selected, Published(m) PROVE Published(m)'
    <3>1. m = "classifier" => metrics' = metrics
      <4>1. ASSUME m = "classifier" PROVE metrics = job.run
        BY <4>1, <2>3 DEF Published, Source
      <4> QED
        BY <4>1, <2>1
    <3> QED
      BY <3>1, <2>1, <2>2, <2>3 DEF Published, Source, Accepted, Fp32
  <2>4. LabelsShape'
    BY <2>1, <1>1 DEF LabelsShape
  <2>5. ForcedPlace'
    BY <1>1, <2>2 DEF ForcedPlace
  <2>6. ForcedShared'
    BY <2>1, <2>2, <1>1 DEF ForcedShared
  <2>7. job.todo = <<>> => \A m \in job.selected : Published(m)
    BY <2>1, <1>1 DEF ForcedStages, In
  <2>8. ForcedStages'
    BY <2>1, <2>2, <2>3, <2>7, <1>1 DEF ForcedStages, Busy
  <2> QED
    BY <2>4, <2>5, <2>6, <2>8 DEF ForcedInv
<1>6. CASE SkipStage \/ NoTinyImageNet \/ NoCocoImages
  <2>1. /\ job.pc = "stage" /\ Busy /\ UNCHANGED <<files, sidecars, labels, metrics>>
        /\ NextStage /\ Stage[2] = "int8"
    BY <1>6, <1>2 DEF SkipStage, NoTinyImageNet, NoCocoImages, NoCalibration, Quantises, Busy, disk
  <2>2. job'.run = job.run
    BY <2>1 DEF NextStage, Exit, JobShape, Fields
  <2>3. ASSUME NEW m \in job.selected PROVE Published(m) \/ Stage = Fp32(m) => Published(m)'
    BY <2>1, <2>2, <1>3, PublishedKept DEF Fp32
  <2> QED
    BY <2>1, <2>3, <1>1, ForcedNext DEF LabelsShape
<1>7. CASE ExportFails
  BY <1>7, <1>1, ForcedFails DEF ExportFails, Exporting, Busy, disk, LabelsShape
<1>8. CASE VerifyClassifier \/ VerifyEmbedder \/ VerifyDetector
  <2>1. PICK m \in Models :
           /\ Stage = Fp32(m) /\ Compare(m, Accepted(m, files[Stage].diff))
           /\ IF m = "detector" /\ Accepted(m, files[Stage].diff)
              THEN labels' = [labels EXCEPT !["detector"] = files[Stage].src] ELSE UNCHANGED labels
    BY <1>8 DEF VerifyClassifier, VerifyEmbedder, VerifyDetector, Compare, Models
  <2>2. /\ job.pc = "verify" /\ Busy /\ UNCHANGED <<files, sidecars, metrics>>
        /\ IF Accepted(m, files[Stage].diff) THEN NextStage ELSE Exit(1)
    BY <2>1 DEF Compare, Busy
  <2>3. LabelsShape' /\ labels'["classifier"] = labels["classifier"]
    BY <2>1, <1>1 DEF LabelsShape
  <2>4. CASE ~Accepted(m, files[Stage].diff)
    BY <2>2, <2>3, <2>4, ForcedFails
  <2>5. CASE Accepted(m, files[Stage].diff)
    <3>1. job'.run = job.run
      BY <2>2, <2>5 DEF NextStage, Exit, JobShape, Fields
    <3>2. /\ files[Stage].src = Source(m, job.run) /\ files[Stage].state = "whole" /\ m \notin sidecars
          /\ m = "classifier" => job.run \in Labelled /\ Task[job.run] = "classification"
      BY <2>1, <2>2, <1>1 DEF ForcedStages, Fp32
    <3>3. Published(m)'
      <4>1. m = "classifier" => labels'[m] = job.run /\ metrics' = job.run /\ files[Stage].src = job.run
        BY <3>2, <2>2, <2>3, <1>1 DEF ForcedShared, Source
      <4>2. m = "detector" => labels'[m] = files[Stage].src
        BY <2>1, <2>5, <1>1 DEF LabelsShape
      <4>3. m # "embedder" => labels'[m] = files[Stage].src
        BY <4>1, <4>2 DEF Models
      <4> QED
        BY <2>1, <2>2, <2>5, <3>1, <3>2, <4>1, <4>3 DEF Published, Source, Accepted, Fp32
    <3>4. ASSUME NEW n \in job.selected PROVE Published(n) \/ Stage = Fp32(n) => Published(n)'
      <4>1. CASE n = m
        BY <3>3, <4>1
      <4>2. CASE n # m
        <5>1. Stage # Fp32(n)
          BY <2>1, <4>2 DEF Fp32
        <5>2. n # "embedder" => labels'[n] = labels[n]
          BY <2>1, <4>2, <1>1, <1>3 DEF LabelsShape, Models
        <5> QED
          BY <5>1, <5>2, <2>2, <3>1, <1>3, PublishedKept
      <4> QED
        BY <4>1, <4>2
    <3> QED
      BY <2>2, <2>3, <2>5, <3>4, ForcedNext
  <2> QED
    BY <2>4, <2>5
<1>9. ~BenchGoesOn
  <2>1. job.pc # "report" /\ (job.pc = "stage" => Stage \in Graphs)
    BY <1>1, <1>2 DEF ForcedPlace
  <2>2. Accuracy \notin Graphs /\ Timing \notin Graphs
    BY DEF Accuracy, Timing, Graphs, Models
  <2> QED
    BY <2>1, <2>2 DEF BenchGoesOn, MeasureCosts, TimeCases, WriteQuantization
<1> QED
  BY <1>4, <1>5, <1>6, <1>7, <1>8, <1>9 DEF PublishGoesOn
LEMMA ForcedWrites ==
    ASSUME JobShape, GraphsShape, Consolidating, Forced, ForcedInv, Writes PROVE ForcedInv'
<1>1. ForcedPlace /\ ForcedShared /\ ForcedStages /\ LabelsShape
  BY DEF ForcedInv
<1>2. job.selected \subseteq Models
  BY <1>1 DEF ForcedPlace
<1>a. Writes => LabelsShape'
  BY <1>1 DEF Writes, WriteGraph, Inline, Unlink, PreProcess, Quantise, Kill, LabelsShape, disk
(* The steps of one export.                                                *)
<1>b. ASSUME NEW p \in {"inline", "unlink", "verify"}, job' = [job EXCEPT !.pc = p], Busy,
             UNCHANGED <<labels, metrics>>, job.pc \notin {"labels", "metrics"},
             NEW n \in Models, Stage = Fp32(n), job.todo # <<>>,
             files'[Stage].src = Source(n, job.run),
             {"src", "diff", "state"} \subseteq DOMAIN files'[Stage],
             n = "classifier" => job.run \in Labelled /\ Task[job.run] = "classification",
             p \in {"unlink", "verify"} => files'[Stage].state = "whole",
             p = "verify" => n \notin sidecars',
             \A m \in Models \ {n} : files'[Fp32(m)] = files[Fp32(m)] /\ (m \in sidecars' => m \in sidecars),
             In(Stage, job.todo) \/ n \notin job.selected
      PROVE  ForcedInv'
  <2>1. /\ job'.pc = p /\ job'.run = job.run /\ job'.selected = job.selected
        /\ job'.todo = job.todo /\ Stage' = Stage
    BY <1>b, JobKept
  <2>2. ASSUME NEW m \in job.selected PROVE In(Fp32(m), job.todo) \/ Published(m)'
    <3>1. m \in Models
      BY <1>2
    <3>2. CASE m = n
      BY <3>2, <1>b
    <3>3. CASE m # n
      <4>1. In(Fp32(m), job.todo) \/ Published(m)
        BY <1>1, <1>b DEF ForcedStages
      <4> QED
        BY <4>1, <3>1, <3>3, <1>b, <2>1, PublishedKept
    <3> QED
      BY <3>2, <3>3
  <2>3. LabelsShape'
    BY <1>1, <1>b DEF LabelsShape
  <2>4. ForcedPlace'
    BY <1>1, <1>b, <2>1 DEF ForcedPlace
  <2>5. ForcedShared'
    BY <1>1, <1>b, <2>1 DEF ForcedShared, Busy
  <2>6. Stage[1] = n
    BY <1>b DEF Fp32
  <2>7. ForcedStages'
    <3>1. Busy' /\ \A m \in job'.selected : In(Fp32(m), job'.todo) \/ Published(m)'
      BY <2>1, <2>2 DEF Busy
    <3>2. /\ Stage' = Fp32(n) /\ files'[Stage'].src = Source(n, job'.run)
          /\ {"src", "diff", "state"} \subseteq DOMAIN files'[Stage']
          /\ n = "classifier" => job'.run \in Labelled /\ Task[job'.run] = "classification"
      BY <1>b, <2>1
    <3>3. job'.pc \in {"unlink", "verify"} => files'[Stage'].state = "whole"
      BY <1>b, <2>1
    <3>4. job'.pc = "verify" => Stage'[1] \notin sidecars'
      BY <1>b, <2>1, <2>6
    <3> QED
      BY <3>1, <3>2, <3>3, <3>4 DEF ForcedStages
  <2> QED
    BY <2>3, <2>4, <2>5, <2>7 DEF ForcedInv
<1>3. ASSUME NEW n \in Models, NEW diff \in {Tight, Loose, Off}, WriteGraph(n, diff) PROVE ForcedInv'
  <2>1. /\ job.pc = "stage" /\ Busy /\ Stage = Fp32(n) /\ Loads(n, job.run)
        /\ files' = [files EXCEPT ![Stage] = Graph(Source(n, job.run), diff, "split")]
        /\ sidecars' = sidecars \cup {n} /\ job' = [job EXCEPT !.pc = "inline"]
        /\ UNCHANGED <<labels, metrics>>
    BY <1>3 DEF WriteGraph, Exporting, Busy
  <2>2. /\ files'[Stage] = Graph(Source(n, job.run), diff, "split")
        /\ \A m \in Models \ {n} : files'[Fp32(m)] = files[Fp32(m)]
    BY <2>1 DEF GraphsShape, Fp32, Graphs
  <2>3. /\ files'[Stage].src = Source(n, job.run)
        /\ {"src", "diff", "state"} \subseteq DOMAIN files'[Stage]
    BY <2>2 DEF Graph
  <2>4. n = "classifier" => job.run \in Labelled /\ Task[job.run] = "classification"
    BY <2>1 DEF Loads, LoadsClassifier
  <2>5. job.todo # <<>> /\ In(Stage, job.todo)
    <3>1. job.todo \in Seq(Graphs) /\ job.todo # <<>>
      BY <1>1, <2>1 DEF ForcedPlace
    <3>2. 1 \in 1..Len(job.todo) /\ Head(job.todo) = job.todo[1]
      BY <3>1
    <3> QED
      BY <3>1, <3>2 DEF In, Stage
  <2> QED
    BY <2>1, <2>2, <2>3, <2>4, <2>5, <1>b
<1>4. CASE Inline \/ Unlink
  <2>1. PICK n \in Models :
           /\ Stage = Fp32(n) /\ files[Stage].src = Source(n, job.run)
           /\ {"src", "diff", "state"} \subseteq DOMAIN files[Stage]
           /\ n = "classifier" => job.run \in Labelled /\ Task[job.run] = "classification"
    BY <1>1, <1>4 DEF ForcedStages, Inline, Unlink
  <2>2. /\ job.pc \in {"inline", "unlink"} /\ Busy /\ UNCHANGED <<labels, metrics>>
    BY <1>4 DEF Inline, Unlink, Busy
  <2>3. job.todo # <<>> /\ In(Stage, job.todo)
    <3>1. job.todo \in Seq(Graphs) /\ job.todo # <<>>
      BY <1>1, <2>2 DEF ForcedPlace
    <3>2. 1 \in 1..Len(job.todo) /\ Head(job.todo) = job.todo[1]
      BY <3>1
    <3> QED
      BY <3>1, <3>2 DEF In, Stage
  <2>4. Stage \in DOMAIN files /\ \A m \in Models \ {n} : Fp32(m) # Stage
    BY <2>1 DEF GraphsShape, Fp32, Graphs
  <2>5. CASE Inline
    <3>1. /\ files' = [files EXCEPT ![Stage] = [files[Stage] EXCEPT !.state = "whole"]]
          /\ UNCHANGED sidecars /\ job' = [job EXCEPT !.pc = "unlink"]
      BY <2>5 DEF Inline
    <3>2. files'[Stage] = [files[Stage] EXCEPT !.state = "whole"]
      BY <3>1, <2>4
    <3>3. /\ files'[Stage].src = files[Stage].src /\ files'[Stage].state = "whole"
          /\ {"src", "diff", "state"} \subseteq DOMAIN files'[Stage]
      BY <3>2, <2>1
    <3>4. \A m \in Models \ {n} : files'[Fp32(m)] = files[Fp32(m)] /\ (m \in sidecars' => m \in sidecars)
      BY <3>1, <2>4
    <3> QED
      BY <2>1, <2>2, <2>3, <3>1, <3>3, <3>4, <1>b
  <2>6. CASE Unlink
    <3>1. /\ UNCHANGED files /\ sidecars' = sidecars \ {n} /\ job' = [job EXCEPT !.pc = "verify"]
          /\ files[Stage].state = "whole"
      BY <2>1, <2>6, <1>1 DEF Unlink, ForcedStages, Fp32
    <3> QED
      BY <2>1, <2>2, <2>3, <3>1, <1>b
  <2> QED
    BY <1>4, <2>5, <2>6
<1>5. CASE PreProcess
  <2>1. /\ job.pc = "stage" /\ Busy /\ Stage[2] = "int8"
        /\ UNCHANGED <<files, sidecars, labels, metrics>>
        /\ job' = [job EXCEPT !.pc = "quantise", !.before = cwd]
    BY <1>5 DEF PreProcess, Quantises, Busy, disk
  <2>2. /\ job'.pc = "quantise" /\ job'.run = job.run /\ job'.selected = job.selected
        /\ job'.todo = job.todo /\ Stage' = Stage
    BY <2>1, JobKept
  <2>3. ASSUME NEW m \in job.selected, Published(m) PROVE Published(m)'
    BY <2>1, <2>2, <2>3, <1>2, PublishedKept
  <2>4. ForcedPlace' /\ ForcedShared'
    BY <1>1, <2>1, <2>2 DEF ForcedPlace, ForcedShared
  <2>5. ForcedStages'
    BY <1>1, <2>1, <2>2, <2>3 DEF ForcedStages, Busy
  <2> QED
    BY <1>5, <1>a, <2>4, <2>5 DEF ForcedInv, Writes
<1>6. ASSUME NEW succeeds \in BOOLEAN, Quantise(succeeds) PROVE ForcedInv'
  <2>1. /\ job.pc = "quantise" /\ Busy /\ Stage[2] = "int8" /\ NextStage
        /\ UNCHANGED <<sidecars, labels, metrics>>
        /\ \/ UNCHANGED files
           \/ \E g : files' = [files EXCEPT ![Stage] = g]
    BY <1>6, <1>1 DEF Quantise, Busy, ForcedPlace
  <2>2. ASSUME NEW m \in Models PROVE Fp32(m) # Stage /\ files'[Fp32(m)] = files[Fp32(m)]
    <3>1. Fp32(m) # Stage
      BY <2>1 DEF Fp32
    <3>2. Fp32(m) \in DOMAIN files
      BY DEF GraphsShape, Fp32, Graphs
    <3> QED
      BY <2>1, <3>1, <3>2
  <2>3. job'.run = job.run
    BY <2>1 DEF NextStage, Exit, JobShape, Fields
  <2>4. ASSUME NEW m \in job.selected PROVE Published(m) \/ Stage = Fp32(m) => Published(m)'
    BY <2>1, <2>2, <2>3, <1>2, PublishedKept
  <2> QED
    BY <1>1, <2>1, <2>4, ForcedNext DEF LabelsShape
<1>7. ASSUME NEW torn \in SUBSET Torn, Kill(torn) PROVE ForcedInv'
  <2>1. job' = Idle /\ UNCHANGED labels
    BY <1>7 DEF Kill
  <2> QED
    BY <2>1, <1>1 DEF ForcedInv, Forced, Idle, LabelsShape
<1> QED
  BY <1>3, <1>4, <1>5, <1>6, <1>7 DEF Writes

LEMMA ForcedStarts == ASSUME LabelsShape, Starts PROVE ForcedInv'
<1>1. UNCHANGED labels
  BY DEF Starts, Train, VerifyExports, Publish, Bench, disk
<1>2. CASE Train \/ VerifyExports
  BY <1>1, <1>2 DEF Train, VerifyExports, Idle, ForcedInv, Forced, LabelsShape
<1>3. ASSUME NEW r \in Trained, NEW flags \in Flags, Publish(r, flags) PROVE ForcedInv'
  <2>0. PICK todo : todo = PublishStages(Asked(r, flags), ~flags.skipInt8)
    OBVIOUS
  <2>1. /\ job'.kind = "publish" /\ job'.pc = "labels" /\ job'.run = r
        /\ job'.selected = Asked(r, flags) /\ job'.todo = todo
    BY <1>3, <2>0 DEF Publish
  <2>2. Asked(r, flags) \in SUBSET Models /\ ("classifier" \in Asked(r, flags) => Task[r] = "classification")
    BY DEF Asked
  <2>3. todo \in Seq(Graphs) /\ \A m \in Asked(r, flags) : In(Fp32(m), todo)
    BY <2>0, <2>2, StagesComplete
  <2>4. ForcedPlace' /\ ForcedShared'
    BY <2>1, <2>2, <2>3 DEF ForcedPlace, ForcedShared
  <2>5. ForcedStages'
    BY <2>1, <2>3 DEF ForcedStages, Busy
  <2> QED
    BY <1>1, <2>4, <2>5 DEF ForcedInv, LabelsShape
<1>4. ASSUME NEW r \in Trained, NEW selected \in Selections,
             NEW skipExport \in BOOLEAN, NEW int8 \in BOOLEAN, NEW quantizeOnly \in BOOLEAN,
             Bench(r, skipExport, selected, int8, quantizeOnly)
      PROVE  ForcedInv'
  <2>1. job'.kind = "bench"
    BY <1>4 DEF Bench
  <2> QED
    BY <1>1, <2>1 DEF ForcedInv, Forced, LabelsShape
<1> QED
  BY <1>2, <1>3, <1>4 DEF Starts

LEMMA ForcedStep == SidecarInv /\ ForcedInv /\ [Next]_vars => ForcedInv'
<1> SUFFICES ASSUME SidecarInv, ForcedInv, [Next]_vars PROVE ForcedInv'
  OBVIOUS
<1> USE DEF SidecarInv
<1>1. CASE Starts
  BY <1>1, ForcedStarts DEF ForcedInv
<1>2. CASE PublishGoesOn \/ BenchGoesOn
  <2>1. CASE Forced
    BY <1>2, <2>1, ForcedGoesOn
  <2>2. CASE ~Forced
    <3>1. ~Forced'
      <4>1. CASE job.kind # "publish"
        BY <1>2, <4>1, GoesOnShape DEF Forced
      <4>2. CASE job.kind = "publish" /\ job.reuse
        <5>1. Busy /\ job'.kind = job.kind /\ job'.reuse = job.reuse
          <6>1. Busy /\ job'.kind = job.kind
            BY <1>2, GoesOnShape
          <6>2. job'.reuse = job.reuse
            BY <1>2, <6>1 DEF PublishGoesOn, BenchGoesOn, WriteLabels, CopyMetrics, SkipStage,
                   ExportFails, VerifyClassifier, VerifyEmbedder, VerifyDetector, Compare,
                   NoTinyImageNet, NoCocoImages, NoCalibration, MeasureCosts, TimeCases,
                   WriteQuantization, NextStage, Exit, JobShape, Fields
          <6> QED
            BY <6>1, <6>2
        <5> QED
          BY <4>2, <5>1 DEF Forced
      <4> QED
        BY <2>2, <4>1, <4>2 DEF Forced
    <3>2. LabelsShape'
      BY <1>2 DEF ForcedInv, LabelsShape, PublishGoesOn, BenchGoesOn, WriteLabels, CopyMetrics,
                   SkipStage, ExportFails, VerifyClassifier, VerifyEmbedder, VerifyDetector,
                   NoTinyImageNet, NoCocoImages, NoCalibration, MeasureCosts, TimeCases,
                   WriteQuantization, disk
    <3> QED
      BY <3>1, <3>2 DEF ForcedInv
  <2> QED
    BY <2>1, <2>2
<1>3. CASE Writes
  <2>1. CASE Forced
    BY <1>3, <2>1, ForcedWrites
  <2>2. CASE ~Forced
    <3>1. ~Forced'
      <4>1. Busy /\ (job'.kind = job.kind \/ job' = Idle)
        BY <1>3, WritesShape
      <4>2. job' = Idle \/ (job.kind = "publish" => job'.reuse = job.reuse)
        BY <1>3, <4>1 DEF Writes, WriteGraph, Inline, Unlink, PreProcess, Quantise, Kill,
                          NextStage, Exit, JobShape, Fields
      <4> QED
        BY <2>2, <4>1, <4>2 DEF Forced, Idle
    <3>2. LabelsShape'
      BY <1>3 DEF ForcedInv, Writes, WriteGraph, Inline, Unlink, PreProcess, Quantise, Kill,
                  LabelsShape, disk
    <3> QED
      BY <3>1, <3>2 DEF ForcedInv
  <2> QED
    BY <2>1, <2>2
<1>4. ASSUME NEW r \in Trained, CheckRegression(r) \/ UpdateBaseline(r) PROVE ForcedInv'
  <2>1. CASE CheckRegression(r)
    <3>1. job'.kind = "gate" /\ UNCHANGED labels
      BY <2>1 DEF CheckRegression, disk
    <3> QED
      BY <3>1 DEF ForcedInv, Forced, LabelsShape
  <2>2. CASE UpdateBaseline(r)
    <3>1. job'.kind = "none" /\ UNCHANGED labels
      BY <2>2 DEF UpdateBaseline, Idle, disk
    <3> QED
      BY <3>1 DEF ForcedInv, Forced, LabelsShape
  <2> QED
    BY <1>4, <2>1, <2>2
<1>5. CASE UNCHANGED vars
  <2>1. UNCHANGED <<job, files, sidecars, labels, metrics>>
    BY <1>5 DEF vars, releaseVars, disk
  <2> QED
    BY <2>1 DEF ForcedInv, Forced, LabelsShape, ForcedPlace, ForcedShared, ForcedStages, Busy,
                Stage, Published, Source, Accepted, Fp32
<1> QED
  BY <1>1, <1>2, <1>3, <1>4, <1>5, Cases

(* prepare_artifacts --force that ends with exit 0 has exported and        *)
(* verified every graph it was asked for, and put beside it the label map  *)
(* and the metrics of the same source.                                     *)
THEOREM ForcedAgrees == Spec => []ForcedPublishAgrees
<1>1. GateInit => ForcedInv
  BY DEF GateInit, Init, Idle, ForcedInv, Forced, LabelsShape
<1>2. IInv /\ ForcedInv /\ [Next]_vars => ForcedInv'
  BY ForcedStep DEF IInv
<1>3. ForcedInv => ForcedPublishAgrees
  BY DEF ForcedInv, Forced, ForcedStages, Busy, Published, ForcedPublishAgrees
<1> QED
  BY <1>1, <1>2, <1>3, Inductive, PTL DEF Spec
=============================================================================
