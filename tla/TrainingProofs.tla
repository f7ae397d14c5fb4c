--------------------------- MODULE TrainingProofs ---------------------------
(***************************************************************************)
(* For any number of ranks, epochs, batches and launches, and whichever    *)
(* step the job dies at: what latest-epoch names is whole (LatestIsWhole), *)
(* a run that leaves its epoch loop early keeps the model it held          *)
(* (EarlyExitKeepsWork), the metrics of a finished run are of the weights  *)
(* it exports (MetricsDescribeWeights), and the learning-rate schedule is  *)
(* never stepped beyond the steps it was made for (ScheduleSpansRun).      *)
(* Ranks that nothing disturbs are never left in collectives that do not   *)
(* match (RanksMeet).                                                      *)
(* The last section is about the data the runs read: for any catalogue,    *)
(* what is in place is whole (TrustedIsWhole) and what the loader accepts  *)
(* is labelled truthfully (LoadedLabelsTrue).                              *)
(***************************************************************************)
EXTENDS Training, Datasets, SequenceTheorems, FiniteSetTheorems, TLAPS

(* Main is between the creation of the directory of its epoch and the end  *)
(* of the checkpoint; its state is written; its weights are exported too.  *)
InDir == {"made_dir", "save_state", "writing_state", "weights", "writing_weights",
          "link", "replace"}
StateWritten == {"weights", "writing_weights", "link", "replace"}
WeightsWritten == {"link", "replace"}

(* Main has left the epoch loop.                                           *)
Ended == {"finish", "done", "metrics", "config", "labels"}

(* A checkpoint in progress: a directory latest-epoch already names is     *)
(* noted as written again, and what is written is main's model.            *)
SaveInProgress ==
    /\ pc[Main] \in InDir /\ latest = epoch[Main] => latest \in again
    /\ pc[Main] \in StateWritten => ckpt[epoch[Main]][Main] = model[Main]
    /\ pc[Main] \in WeightsWritten => weights[epoch[Main]] = model[Main]

(* last_saved_epoch tells the truth to the end of the epoch that saved.    *)
SavedIsLatest ==
    /\ saved[Main] # None => saved[Main] <= epoch[Main]
    /\ saved[Main] = epoch[Main] =>
          /\ pc[Main] \in {"exit"} \cup Ended
          /\ latest = epoch[Main] /\ ckpt[epoch[Main]][Main] = model[Main]

(* The loop ends with a saved epoch, or after the last one.                *)
EndedWell ==
    pc[Main] \in Ended =>
        saved[Main] = epoch[Main] \/ epoch[Main] + 1 >= start + NumEpochs

IInv == TypeOK /\ LatestIsWhole /\ SaveInProgress /\ SavedIsLatest /\ EndedWell

-----------------------------------------------------------------------------
(* Every step keeps the types.                                             *)

LEMMA SomeBatch == Batches \in Nat /\ Cardinality(Ranks) \in Nat \ {0} /\ Batches >= Cardinality(Ranks)
<1>1. Cardinality(Ranks) \in Nat /\ Cardinality(Ranks) # 0
  BY TrainingAssumption, FS_CardinalityType, FS_EmptySet
<1> QED
  BY <1>1, TrainingAssumption

(* Every rank of a job has a batch, and one process has them all.          *)
LEMMA Quotient ==
    ASSUME NEW n \in Nat \ {0}, NEW m \in Nat, m >= n
    PROVE  m \div n \in 1 .. m
  OBVIOUS

LEMMA Shares ==
    ASSUME TypeOK, world # {}
    PROVE  Share \in 1 .. Batches /\ Share \in Nat /\ (world = {Main} => Share = Batches)
<1>1. CASE world = {Main}
  <2>1. Cardinality(world) = 1
    BY <1>1, FS_Singleton
  <2>2. Batches \div 1 = Batches /\ Batches \in 1 .. Batches
    BY SomeBatch
  <2> QED
    BY <2>1, <2>2 DEF Share
<1>2. CASE world = Ranks /\ world # {Main}
  <2>1. Share = Batches \div Cardinality(Ranks)
    BY <1>2 DEF Share
  <2>2. Share \in 1 .. Batches
    BY <2>1, SomeBatch, Quotient
  <2> QED
    BY <1>2, <2>2, SomeBatch
<1> QED
  BY <1>1, <1>2 DEF TypeOK

(* A run that trains starts its schedule, and so its epochs, at 0.         *)
LEMMA StartsAtZero ==
    ASSUME NEW first \in StartEpochs, Starts(first)
    PROVE  first = 0
<1>1. first \in Nat /\ Batches \in Nat \ {0} /\ first * Batches = 0
  BY TrainingAssumption, SomeBatch DEF Starts, PriorSteps, StepsPerEpoch
<1>2. ASSUME NEW m \in Nat, NEW n \in Nat \ {0}, m * n = 0 PROVE m = 0
  BY <1>2
<1> QED
  BY <1>1, <1>2

(* What a launch that gets to its loop starts with.                        *)
LEMMA Launches ==
    ASSUME TypeOK, Launch
    PROVE  /\ UNCHANGED <<conf, stateDir, files, mishaps>>
           /\ launch' \in Nat /\ world' \in {{Main}, Ranks}
           /\ \E restored \in Contents : EnterRun(0, world', restored)
<1>1. PICK first \in StartEpochs :
         /\ Starts(first)
         /\ \/ EnterRun(first, world', NewModel)
            \/ Resumable /\ EnterRun(first, world', ckpt[LoadPath][Main])
  BY DEF Launch
<1>2. first = 0
  BY <1>1, StartsAtZero
<1>3. launch' \in Nat /\ NewModel \in Contents
  BY DEF Launch, NewModel, Contents, TypeOK
<1>4. ASSUME Resumable PROVE ckpt[LoadPath][Main] \in Contents
  BY <1>4, TrainingAssumption DEF Resumable, LoadPath, Whole, TypeOK, Stored
<1> QED
  BY <1>1, <1>2, <1>3, <1>4 DEF Launch

LEMMA TypeInit == Init => TypeOK
<1>1. 0 \in Epochs /\ 0 + NumEpochs - 1 \in Epochs /\ 0 \in 0 .. Batches
  BY TrainingAssumption, SomeBatch DEF Epochs
<1> QED
  BY <1>1, TrainingAssumption DEF Init, TypeOK, Stored, Places

(* A model stays one when it misses a batch or makes a step.               *)
LEMMA Misses == ASSUME NEW m \in Contents, NEW w \in BOOLEAN PROVE [m EXCEPT !.whole = w] \in Contents
  BY DEF Contents
LEMMA Steps == ASSUME NEW m \in Contents, NEW n \in Nat
               PROVE [m EXCEPT !.launch = n, !.steps = @ + 1] \in Contents
<1>1. m.steps + 1 \in Nat
  BY DEF Contents
<1>2. [m EXCEPT !.launch = n] \in Contents
  BY DEF Contents
<1>3. ASSUME NEW k \in Contents, NEW i \in Nat PROVE [k EXCEPT !.steps = i] \in Contents
  BY DEF Contents
<1> QED
  BY <1>1, <1>2, <1>3

LEMMA TypeStep == TypeOK /\ [Next]_vars => TypeOK'
<1> SUFFICES ASSUME TypeOK, [Next]_vars PROVE TypeOK'
  OBVIOUS
<1> USE TrainingAssumption
<1>0. 0 \in Epochs /\ 0 + NumEpochs - 1 \in Epochs /\ 0 \in 0 .. Batches
  BY SomeBatch DEF Epochs
<1>a. \A r \in world : Share \in Nat /\ Share <= Batches /\ Batches \in Nat
  BY Shares, SomeBatch
<1>1. CASE Launch
  <2>1. PICK restored \in Contents : EnterRun(0, world', restored)
    BY <1>1, Launches
  <2>2. launch' \in Nat /\ world' \in {{Main}, Ranks} /\ UNCHANGED <<conf, stateDir, mishaps>>
    BY <1>1, Launches
  <2> QED
    BY <1>0, <2>1, <2>2 DEF EnterRun, TypeOK, stateDir, Places
<1>2. ASSUME NEW r \in Ranks, TrainBatch(r) PROVE TypeOK'
  <2>1. r \in world /\ batch[r] < Share /\ batch[r] \in 0 .. Batches
    BY <1>2 DEF TrainBatch, At, TypeOK
  <2>2. batch[r] + 1 \in 0 .. Batches
    BY <1>a, <2>1
  <2> QED
    BY <1>2, <2>2 DEF TrainBatch, At, Goes, TypeOK, jobVars, stateDir, Places, Reduces
<1>3. ASSUME NEW r \in Ranks, SkipBatch(r) PROVE TypeOK'
  <2>1. model[r] \in Contents
    BY <1>3 DEF SkipBatch, At, TypeOK
  <2>2. [model[r] EXCEPT !.whole = FALSE] \in Contents
    BY <2>1, Misses
  <2>3. model' = [model EXCEPT ![r] = [model[r] EXCEPT !.whole = FALSE]]
    BY <1>3 DEF SkipBatch
  <2>4. /\ model' \in [Ranks -> Contents \cup {None}]
        /\ \A q \in Ranks : pc[q] # "down" => model'[q] \in Contents
    BY <2>2, <2>3 DEF TypeOK
  <2>5. mishaps' \in Nat /\ batch' \in [Ranks -> 0 .. Batches] /\ nan' \in [Ranks -> Nat]
    <3>1. r \in world /\ batch[r] < Share /\ batch[r] \in 0 .. Batches
      BY <1>3 DEF SkipBatch, At, TypeOK
    <3>2. batch[r] + 1 \in 0 .. Batches
      BY <1>a, <3>1
    <3> QED
      BY <1>3, <3>2 DEF SkipBatch, TypeOK
  <2> QED
    BY <1>3, <2>4, <2>5 DEF SkipBatch, TypeOK, jobVars, stateDir
<1>4. ASSUME NEW r \in Ranks, Abort(r) PROVE TypeOK'
  BY <1>0, <1>4 DEF Abort, JobDies, TypeOK, jobVars, stateDir, Places
<1>5. ASSUME NEW r \in Ranks, Exhausted(r) PROVE TypeOK'
  BY <1>5 DEF Exhausted, At, Goes, LeaveLoop, AfterEval, TypeOK, jobVars, loopVars, stateDir,
              Places, Gathers, Saving
<1>6. CASE AllReduce
  <2>1. ASSUME NEW r \in world
        PROVE [model[r] EXCEPT !.launch = launch, !.steps = @ + 1] \in Contents
    <3>1. model[r] \in Contents /\ launch \in Nat
      BY <1>6, <2>1 DEF AllReduce, Reduces, TypeOK
    <3> QED
      BY <3>1, Steps
  <2>2. /\ model' \in [Ranks -> Contents \cup {None}]
        /\ \A r \in Ranks : pc[r] # "down" => model'[r] \in Contents
    BY <1>6, <2>1 DEF AllReduce, TypeOK
  <2>3. /\ pc' \in [Ranks -> Places]
        /\ \A r \in Ranks : pc'[r] # "down" => pc[r] # "down"
    BY <1>6 DEF AllReduce, Reduces, TypeOK, Places, Gathers
  <2> QED
    BY <1>6, <2>2, <2>3 DEF AllReduce, TypeOK, jobVars, stateDir
<1>7. CASE Gather
  <2>1. ASSUME NEW r \in Ranks
        PROVE pc'[r] \in {"evaluate", "check", "before_save", "exit", pc[r]}
    BY <1>7 DEF Gather, AfterEval, TypeOK
  <2>2. /\ pc' \in [Ranks -> Places]
        /\ \A r \in Ranks : pc'[r] # "down" => r \in world \/ pc[r] # "down"
    BY <1>7, <2>1 DEF Gather, At, TypeOK, Places, Gathers, Saving
  <2>3. \A r \in world : pc[r] # "down"
    BY <1>7 DEF Gather, Gathers
  <2>4. gstep' \in [Ranks -> Nat] /\ final' \in Contents \cup {None}
    BY <1>7 DEF Gather, Evaluated, TypeOK
  <2> QED
    BY <1>7, <2>2, <2>3, <2>4 DEF Gather, TypeOK, jobVars, stateDir
<1>8. ASSUME NEW r \in Ranks, CheckSignal(r) PROVE TypeOK'
  <2>1. CASE term[r]
    <3>1. model[r] \in Contents
      BY <1>8 DEF CheckSignal, At, TypeOK
    <3>2. PICK w \in BOOLEAN : model' = [model EXCEPT ![r] = [model[r] EXCEPT !.whole = w]]
      BY <1>8, <2>1 DEF CheckSignal
    <3>3. [model[r] EXCEPT !.whole = w] \in Contents
      BY <3>1, Misses
    <3> QED
      BY <1>8, <2>1, <3>2, <3>3 DEF CheckSignal, At, Goes, LeaveLoop, AfterEval, TypeOK, jobVars,
                                    stateDir, Places, Gathers, Saving
  <2>2. CASE ~term[r]
    BY <1>8, <2>2 DEF CheckSignal, At, Goes, TypeOK, jobVars, stateDir, Places
  <2> QED
    BY <2>1, <2>2
<1>9. ASSUME NEW r \in Ranks, ExitCheck(r) PROVE TypeOK'
  <2>1. epoch' \in [Ranks -> Epochs] /\ batch' \in [Ranks -> 0 .. Batches]
    <3>1. epoch[r] + 1 < start + NumEpochs => epoch[r] + 1 \in Epochs
      BY DEF TypeOK, Epochs
    <3>2. 0 \in 0 .. Batches
      BY <1>0
    <3>3. CASE UNCHANGED <<epoch, batch>>
      BY <3>3 DEF TypeOK
    <3>4. CASE /\ epoch[r] + 1 < start + NumEpochs
               /\ epoch' = [epoch EXCEPT ![r] = @ + 1]
               /\ batch' = [batch EXCEPT ![r] = 0]
      BY <3>1, <3>2, <3>4 DEF TypeOK
    <3> QED
      BY <1>9, <3>3, <3>4 DEF ExitCheck
  <2>2. pc' \in [Ranks -> Places] /\ \A q \in Ranks : pc'[q] # "down" => pc[q] # "down"
    BY <1>9 DEF ExitCheck, At, Goes, TypeOK, Places, Saving, Barriers
  <2> QED
    BY <1>9, <2>1, <2>2 DEF ExitCheck, TypeOK, jobVars, stateDir
<1>10. CASE Barrier
  BY <1>10 DEF Barrier, At, TypeOK, jobVars, loopVars, stateDir, Places, Barriers, Saving, Summary
<1>11. CASE MakeDir
  BY <1>11 DEF MakeDir, At, Goes, TypeOK, jobVars, loopVars, Places, Barriers
<1>12. ASSUME NEW r \in Ranks, BeginState(r) PROVE TypeOK'
  BY <1>12 DEF BeginState, At, Goes, TypeOK, jobVars, loopVars, Stored, Places, Saving
<1>13. ASSUME NEW r \in Ranks, EndState(r) PROVE TypeOK'
  BY <1>13 DEF EndState, At, Goes, TypeOK, jobVars, Stored, Places, Saving
<1>14. CASE BeginWeights
  BY <1>14 DEF BeginWeights, At, Goes, TypeOK, jobVars, loopVars, Stored, Places, Saving
<1>15. CASE EndWeights
  BY <1>15 DEF EndWeights, At, Goes, TypeOK, jobVars, loopVars, Stored, Places, Saving
<1>16. CASE MakeLink
  BY <1>16 DEF MakeLink, At, Goes, TypeOK, jobVars, loopVars, Places, Saving
<1>17. CASE ReplaceLatest
  BY <1>17 DEF ReplaceLatest, At, Goes, TypeOK, jobVars, Places
<1>18. CASE WriteMetrics \/ WriteConfig \/ WriteLabels
  BY <1>18 DEF WriteMetrics, WriteConfig, WriteLabels, WriteSummary, At, Goes, TypeOK, jobVars,
               loopVars, stateDir, Places, Summary
<1>19. ASSUME NEW r \in Ranks, Sigterm(r) PROVE TypeOK'
  BY <1>19 DEF Sigterm, At, TypeOK, jobVars, loopVars, stateDir
<1>20. CASE Crash
  BY <1>0, <1>20 DEF Crash, JobDies, TypeOK, jobVars, stateDir, Places
<1>21. CASE UNCHANGED vars
  BY <1>21 DEF vars, TypeOK, jobVars, loopVars, stateDir
<1> QED
  BY <1>1, <1>2, <1>3, <1>4, <1>5, <1>6, <1>7, <1>8, <1>9, <1>10, <1>11, <1>12, <1>13, <1>14,
     <1>15, <1>16, <1>17, <1>18, <1>19, <1>20, <1>21 DEF Next, RankStep, MainStep, Meet

-----------------------------------------------------------------------------
(* Every step keeps what latest-epoch names whole.                         *)

LEMMA WholeStep ==
    TypeOK /\ LatestIsWhole /\ SaveInProgress /\ [Next]_vars
        => LatestIsWhole' /\ SaveInProgress'
<1> SUFFICES ASSUME TypeOK, LatestIsWhole, SaveInProgress, [Next]_vars
             PROVE  LatestIsWhole' /\ SaveInProgress'
  OBVIOUS
<1> USE TrainingAssumption DEF LatestIsWhole, SaveInProgress
<1> DEFINE Kept == /\ UNCHANGED stateDir
                   /\ pc'[Main] \notin InDir \cup StateWritten \cup WeightsWritten
<1>0. Kept => LatestIsWhole' /\ SaveInProgress'
  BY DEF stateDir
<1>1. CASE Launch
  <2>1. pc'[Main] \in {"batch", "down"}
    BY <1>1 DEF Launch, EnterRun
  <2> QED
    BY <1>1, <2>1, <1>0 DEF Launch, stateDir, InDir, StateWritten, WeightsWritten
<1>2. ASSUME NEW r \in Ranks, TrainBatch(r) \/ Exhausted(r) \/ ExitCheck(r) PROVE LatestIsWhole' /\ SaveInProgress'
  <2>1. UNCHANGED <<stateDir, model>>
    BY <1>2 DEF TrainBatch, Exhausted, ExitCheck, loopVars
  <2>2. CASE r = Main
    <3>1. pc'[Main] \in {"batch", "backward", "evaluate", "before_save", "exit", "finish"}
      BY <1>2, <2>2 DEF TrainBatch, Exhausted, ExitCheck, At, Goes, LeaveLoop, AfterEval, TypeOK
    <3> QED
      BY <2>1, <3>1, <1>0 DEF InDir, StateWritten, WeightsWritten
  <2>3. CASE r # Main
    <3>1. pc'[Main] = pc[Main] /\ epoch'[Main] = epoch[Main]
      BY <1>2, <2>3 DEF TrainBatch, Exhausted, ExitCheck, At, Goes, TypeOK, loopVars
    <3> QED
      BY <2>1, <3>1 DEF stateDir
  <2> QED
    BY <2>2, <2>3
<1>3. ASSUME NEW r \in Ranks, SkipBatch(r) \/ CheckSignal(r) PROVE LatestIsWhole' /\ SaveInProgress'
  <2>1. UNCHANGED stateDir
    BY <1>3 DEF SkipBatch, CheckSignal
  <2>2. CASE r = Main
    <3>1. pc'[Main] \in {"batch", "evaluate", "before_save", "exit"}
      BY <1>3, <2>2 DEF SkipBatch, CheckSignal, At, Goes, LeaveLoop, AfterEval, TypeOK
    <3> QED
      BY <2>1, <3>1, <1>0 DEF InDir, StateWritten, WeightsWritten
  <2>3. CASE r # Main
    <3>1. pc'[Main] = pc[Main] /\ epoch'[Main] = epoch[Main] /\ model'[Main] = model[Main]
      BY <1>3, <2>3 DEF SkipBatch, CheckSignal, At, Goes, TypeOK
    <3> QED
      BY <2>1, <3>1 DEF stateDir
  <2> QED
    BY <2>2, <2>3
<1>4. CASE (\E r \in Ranks : Abort(r)) \/ Crash
  <2>1. UNCHANGED stateDir /\ pc'[Main] = "down"
    BY <1>4 DEF Abort, Crash, JobDies
  <2> QED
    BY <2>1, <1>0 DEF InDir, StateWritten, WeightsWritten
<1>5. CASE AllReduce \/ Gather
  <2>1. UNCHANGED <<stateDir, epoch>>
    BY <1>5 DEF AllReduce, Gather
  <2>2. CASE Main \in world
    <3>1. pc'[Main] \in {"gather", "evaluate", "check", "before_save", "exit"}
      <4>1. CASE AllReduce
        BY <4>1, <2>2 DEF AllReduce, TypeOK
      <4>2. CASE Gather
        <5>1. pc[Main] \in {"gather", "evaluate"}
          BY <4>2, <2>2 DEF Gather, Gathers
        <5>2. pc'[Main] \in {"evaluate", "check", "before_save", "exit", pc[Main]}
          BY <4>2 DEF Gather, AfterEval, TypeOK
        <5> QED
          BY <5>1, <5>2
      <4> QED
        BY <1>5, <4>1, <4>2
    <3> QED
      BY <2>1, <3>1, <1>0 DEF InDir, StateWritten, WeightsWritten
  <2>3. CASE Main \notin world
    <3>1. pc'[Main] = pc[Main] /\ model'[Main] = model[Main]
      BY <1>5, <2>3 DEF AllReduce, Gather, At, TypeOK
    <3> QED
      BY <2>1, <3>1 DEF stateDir
  <2> QED
    BY <2>2, <2>3
<1>6. CASE Barrier
  <2>1. UNCHANGED <<stateDir, epoch, model>>
    BY <1>6 DEF Barrier, loopVars
  <2>2. pc'[Main] \in {"make_dir", "metrics", pc[Main]} \/ (pc[Main] = "made_dir" /\ pc'[Main] = "save_state")
    BY <1>6 DEF Barrier, At, TypeOK
  <2>3. CASE pc'[Main] \in {"make_dir", "metrics"}
    BY <2>1, <2>3, <1>0 DEF InDir, StateWritten, WeightsWritten
  <2>4. CASE pc'[Main] = pc[Main]
    BY <2>1, <2>4 DEF stateDir
  <2>5. CASE pc[Main] = "made_dir" /\ pc'[Main] = "save_state"
    BY <2>1, <2>5 DEF stateDir, InDir, StateWritten, WeightsWritten
  <2> QED
    BY <2>2, <2>3, <2>4, <2>5
<1>7. CASE MakeDir
  <2>1. /\ UNCHANGED <<ckpt, weights, latest, epoch, model>>
        /\ again' = again \cup {e \in {epoch[Main]} : \E r \in Ranks : ckpt[e][r] # None}
        /\ pc'[Main] = "made_dir"
    BY <1>7 DEF MakeDir, Goes, loopVars, TypeOK
  <2>2. ASSUME latest = epoch[Main], latest \notin again PROVE latest \in again'
    <3>1. latest # None
      BY <2>2 DEF TypeOK, Epochs
    <3>2. ckpt[epoch[Main]][Main] # None
      BY <2>2, <3>1 DEF Whole
    <3> QED
      BY <2>1, <2>2, <3>2
  <2> QED
    BY <2>1, <2>2 DEF InDir, StateWritten, WeightsWritten
<1>8. ASSUME NEW r \in Ranks, BeginState(r) PROVE LatestIsWhole' /\ SaveInProgress'
  <2>1. /\ UNCHANGED <<weights, latest, again, epoch, model>>
        /\ ckpt' = [ckpt EXCEPT ![epoch[r]][r] = Torn]
        /\ pc[r] = "save_state" /\ pc' = [pc EXCEPT ![r] = "writing_state"]
    BY <1>8 DEF BeginState, At, Goes, loopVars
  <2>2. CASE r = Main
    <3>1. \A e \in Epochs : e # epoch[Main] => ckpt'[e][Main] = ckpt[e][Main]
      BY <2>1 DEF TypeOK
    <3> QED
      BY <2>1, <2>2, <3>1 DEF TypeOK, InDir, StateWritten, WeightsWritten
  <2>3. CASE r # Main
    <3>1. pc'[Main] = pc[Main] /\ \A e \in Epochs : ckpt'[e][Main] = ckpt[e][Main]
      BY <2>1, <2>3 DEF TypeOK
    <3> QED
      BY <2>1, <3>1 DEF TypeOK
  <2> QED
    BY <2>2, <2>3
<1>9. ASSUME NEW r \in Ranks, EndState(r) PROVE LatestIsWhole' /\ SaveInProgress'
  <2>1. /\ UNCHANGED <<weights, latest, again, epoch, model>>
        /\ ckpt' = [ckpt EXCEPT ![epoch[r]][r] = model[r]]
        /\ pc[r] = "writing_state"
        /\ pc' = [pc EXCEPT ![r] = IF r = Main THEN "weights" ELSE "exit"]
    BY <1>9 DEF EndState, At, Goes
  <2>2. CASE r = Main
    <3>1. /\ \A e \in Epochs : e # epoch[Main] => ckpt'[e][Main] = ckpt[e][Main]
          /\ ckpt'[epoch[Main]][Main] = model[Main]
          /\ pc'[Main] = "weights"
      BY <2>1, <2>2 DEF TypeOK
    <3> QED
      BY <2>1, <2>2, <3>1 DEF TypeOK, InDir, StateWritten, WeightsWritten
  <2>3. CASE r # Main
    <3>1. pc'[Main] = pc[Main] /\ \A e \in Epochs : ckpt'[e][Main] = ckpt[e][Main]
      BY <2>1, <2>3 DEF TypeOK
    <3> QED
      BY <2>1, <3>1 DEF TypeOK
  <2> QED
    BY <2>2, <2>3
<1>10. CASE BeginWeights \/ EndWeights
  <2>1. /\ UNCHANGED <<ckpt, latest, again, epoch, model>>
        /\ \A e \in Epochs : e # epoch[Main] => weights'[e] = weights[e]
        /\ pc[Main] \in {"weights", "writing_weights"}
        /\ \/ pc'[Main] = "writing_weights"
           \/ pc'[Main] = "link" /\ weights'[epoch[Main]] = model[Main]
    BY <1>10 DEF BeginWeights, EndWeights, At, Goes, loopVars, TypeOK
  <2> QED
    BY <2>1 DEF TypeOK, InDir, StateWritten, WeightsWritten
<1>11. CASE MakeLink
  <2>1. /\ UNCHANGED <<ckpt, weights, latest, again, epoch, model>>
        /\ pc[Main] = "link" /\ pc'[Main] = "replace"
    BY <1>11 DEF MakeLink, At, Goes, loopVars, TypeOK
  <2> QED
    BY <2>1 DEF InDir, StateWritten, WeightsWritten
<1>12. CASE ReplaceLatest
  <2>1. /\ UNCHANGED <<ckpt, weights, again, epoch, model>>
        /\ latest' = epoch[Main]
        /\ pc[Main] = "replace" /\ pc'[Main] = "exit"
    BY <1>12 DEF ReplaceLatest, At, Goes, TypeOK
  <2>2. Whole(model[Main])
    BY <2>1 DEF Whole, TypeOK
  <2> QED
    BY <2>1, <2>2 DEF InDir, StateWritten, WeightsWritten
<1>13. CASE WriteMetrics \/ WriteConfig \/ WriteLabels
  <2>1. UNCHANGED stateDir /\ pc'[Main] \in {"config", "labels", "done"}
    BY <1>13 DEF WriteMetrics, WriteConfig, WriteLabels, WriteSummary, Goes, TypeOK
  <2> QED
    BY <2>1, <1>0 DEF InDir, StateWritten, WeightsWritten
<1>14. CASE (\E r \in Ranks : Sigterm(r)) \/ UNCHANGED vars
  BY <1>14 DEF Sigterm, vars, loopVars, stateDir
<1> QED
  BY <1>1, <1>2, <1>3, <1>4, <1>5, <1>6, <1>7, <1>8, <1>9, <1>10, <1>11, <1>12, <1>13, <1>14
     DEF Next, RankStep, MainStep, Meet

-----------------------------------------------------------------------------
(* Every step keeps what last_saved_epoch says true, and the main process  *)
(* leaves its loop only with a saved epoch or after the last one.          *)
LEMMA EarlyStep ==
    TypeOK /\ SaveInProgress /\ SavedIsLatest /\ EndedWell /\ [Next]_vars
        => SavedIsLatest' /\ EndedWell'
<1> SUFFICES ASSUME TypeOK, SaveInProgress, SavedIsLatest, EndedWell, [Next]_vars
             PROVE  SavedIsLatest' /\ EndedWell'
  OBVIOUS
<1> USE TrainingAssumption
<1> DEFINE Mine == <<pc[Main], epoch[Main], saved[Main], model[Main], latest,
                     ckpt[epoch[Main]][Main], start>>
           Loop == {"batch", "backward", "gather", "evaluate", "check", "before_save",
                    "make_dir"} \cup InDir
(* Main is in its loop, and has not saved its epoch.                       *)
<1>a. pc[Main] \in Loop => saved[Main] # epoch[Main]
  BY DEF SavedIsLatest, InDir, Ended
<1>b. UNCHANGED Mine => SavedIsLatest' /\ EndedWell'
  BY DEF SavedIsLatest, EndedWell
<1>c. /\ UNCHANGED <<epoch, saved>>
      /\ pc[Main] \in Loop
      /\ pc'[Main] \in Loop \cup {"exit"}
      => SavedIsLatest' /\ EndedWell'
  BY <1>a DEF SavedIsLatest, EndedWell, InDir, Ended
<1>1. CASE Launch
  <2>1. pc'[Main] \in {"batch", "down"} /\ saved'[Main] = None /\ epoch'[Main] \in Epochs
    <3>1. 0 \in Epochs /\ \E restored \in Contents : EnterRun(0, world', restored)
      BY <1>1, Launches DEF Epochs
    <3> QED
      BY <3>1 DEF EnterRun
  <2>2. None \notin Epochs
    BY DEF Epochs
  <2> QED
    BY <2>1, <2>2 DEF SavedIsLatest, EndedWell, Ended
<1>2. CASE (\E r \in Ranks : Abort(r)) \/ Crash
  <2>1. pc'[Main] = "down" /\ saved'[Main] = None /\ epoch'[Main] = 0
    BY <1>2 DEF Abort, Crash, JobDies
  <2> QED
    BY <2>1 DEF SavedIsLatest, EndedWell, Ended
<1>3. ASSUME NEW r \in Ranks, r # Main,
             RankStep(r) \/ SkipBatch(r)
      PROVE  SavedIsLatest' /\ EndedWell'
  <2>1. /\ pc'[Main] = pc[Main] /\ epoch'[Main] = epoch[Main] /\ saved'[Main] = saved[Main]
        /\ model'[Main] = model[Main] /\ latest' = latest /\ start' = start
    <3>1. CASE RankStep(r)
      BY <1>3, <3>1 DEF RankStep, TrainBatch, Exhausted, CheckSignal, ExitCheck, BeginState,
                        EndState, At, Goes, TypeOK, jobVars, loopVars, stateDir
    <3>2. CASE SkipBatch(r)
      BY <1>3, <3>2 DEF SkipBatch, At, TypeOK, jobVars, stateDir
    <3> QED
      BY <1>3, <3>1, <3>2
  <2>2. \A e \in Epochs : ckpt'[e][Main] = ckpt[e][Main]
    <3>1. CASE BeginState(r) \/ EndState(r)
      BY <1>3, <3>1 DEF BeginState, EndState, TypeOK
    <3>2. CASE TrainBatch(r) \/ Exhausted(r) \/ CheckSignal(r) \/ ExitCheck(r) \/ SkipBatch(r)
      BY <3>2 DEF TrainBatch, Exhausted, CheckSignal, ExitCheck, SkipBatch, stateDir
    <3> QED
      BY <1>3, <3>1, <3>2 DEF RankStep
  <2>3. epoch[Main] \in Epochs
    BY DEF TypeOK
  <2> QED
    BY <2>1, <2>2, <2>3, <1>b
<1>4. CASE TrainBatch(Main) \/ Exhausted(Main) \/ CheckSignal(Main) \/ SkipBatch(Main)
  <2>1. /\ UNCHANGED <<epoch, saved>>
        /\ pc[Main] \in {"batch", "check"}
        /\ pc'[Main] \in {"batch", "backward", "evaluate", "before_save", "exit"}
    BY <1>4 DEF TrainBatch, Exhausted, CheckSignal, SkipBatch, At, Goes, LeaveLoop, AfterEval,
                TypeOK, loopVars
  <2> QED
    BY <2>1, <1>c
<1>5. CASE ExitCheck(Main)
  <2>1. /\ UNCHANGED <<saved, model, ckpt, latest, start>>
        /\ pc[Main] = "exit"
    BY <1>5 DEF ExitCheck, At, jobVars, stateDir
  <2>2. CASE saved[Main] # epoch[Main] /\ pc'[Main] = "before_save" /\ UNCHANGED epoch
    BY <2>1, <2>2 DEF SavedIsLatest, EndedWell, Ended
  <2>3. CASE saved[Main] = epoch[Main] /\ pc'[Main] = "finish" /\ UNCHANGED epoch
    BY <2>1, <2>3 DEF SavedIsLatest, EndedWell, Ended
  <2>4. CASE epoch'[Main] = epoch[Main] + 1 /\ pc'[Main] = "batch"
    <3>1. epoch[Main] \in Int /\ (saved[Main] # None => saved[Main] \in Int)
      BY DEF TypeOK, Epochs
    <3>2. epoch'[Main] # None
      BY <3>1, <2>4 DEF TypeOK, Epochs
    <3> QED
      BY <2>1, <2>4, <3>1, <3>2 DEF SavedIsLatest, EndedWell, Ended
  <2>5. CASE epoch[Main] + 1 >= start + NumEpochs /\ pc'[Main] = "finish" /\ UNCHANGED epoch
    BY <2>1, <2>5 DEF SavedIsLatest, EndedWell, Ended
  <2> QED
    BY <1>5, <2>2, <2>3, <2>4, <2>5 DEF ExitCheck, Goes, TypeOK
<1>6. CASE AllReduce \/ Gather
  <2>1. UNCHANGED <<epoch, saved, stateDir, start>>
    BY <1>6 DEF AllReduce, Gather, jobVars
  <2>2. CASE Main \in world
    <3>1. CASE AllReduce
      <4>1. pc[Main] = "backward" /\ pc'[Main] = "gather"
        BY <3>1, <2>2 DEF AllReduce, Reduces, TypeOK
      <4> QED
        BY <4>1, <2>1, <1>c
    <3>2. CASE Gather
      <4>1. pc[Main] \in {"gather", "evaluate"}
        BY <3>2, <2>2 DEF Gather, Gathers
      <4>2. pc'[Main] \in {"evaluate", "check", "before_save", "exit", pc[Main]}
        BY <3>2 DEF Gather, AfterEval, TypeOK
      <4> QED
        BY <4>1, <4>2, <2>1, <1>c
    <3> QED
      BY <1>6, <3>1, <3>2
  <2>3. CASE Main \notin world
    <3>1. pc'[Main] = pc[Main] /\ model'[Main] = model[Main]
      BY <1>6, <2>3 DEF AllReduce, Gather, At, TypeOK
    <3> QED
      BY <2>1, <3>1, <1>b DEF stateDir
  <2> QED
    BY <2>2, <2>3
<1>7. CASE Barrier
  <2>1. UNCHANGED <<stateDir, epoch, saved, model, start>>
    BY <1>7 DEF Barrier, loopVars, jobVars
  <2>2. \/ pc[Main] = "before_save" /\ pc'[Main] = "make_dir"
        \/ pc[Main] = "made_dir" /\ pc'[Main] = "save_state"
        \/ pc[Main] = "finish" /\ pc'[Main] = "metrics"
        \/ pc'[Main] = pc[Main]
    BY <1>7 DEF Barrier, At, TypeOK
  <2>3. CASE pc[Main] = "finish" /\ pc'[Main] = "metrics"
    BY <2>1, <2>3 DEF SavedIsLatest, EndedWell, Ended, stateDir
  <2>4. CASE pc'[Main] = pc[Main]
    BY <2>1, <2>4, <1>b DEF stateDir
  <2> QED
    BY <2>1, <2>2, <2>3, <2>4, <1>c DEF InDir
<1>8. CASE MakeDir \/ BeginState(Main) \/ BeginWeights \/ EndWeights \/ MakeLink
  <2>1. UNCHANGED <<epoch, saved>> /\ pc[Main] \in Loop /\ pc'[Main] \in Loop
    BY <1>8 DEF MakeDir, BeginState, BeginWeights, EndWeights, MakeLink, At, Goes, loopVars,
                TypeOK, InDir
  <2> QED
    BY <2>1, <1>c
<1>9. CASE EndState(Main)
  <2>1. /\ UNCHANGED epoch /\ saved'[Main] = saved[Main]
        /\ pc[Main] = "writing_state" /\ pc'[Main] = "weights"
    BY <1>9 DEF EndState, At, Goes, TypeOK
  <2> QED
    BY <2>1, <1>a DEF SavedIsLatest, EndedWell, InDir, Ended
<1>10. CASE ReplaceLatest
  <2>1. /\ UNCHANGED <<epoch, model, ckpt>>
        /\ latest' = epoch[Main] /\ saved'[Main] = epoch[Main]
        /\ pc[Main] = "replace" /\ pc'[Main] = "exit"
    BY <1>10 DEF ReplaceLatest, At, Goes, TypeOK
  <2>2. epoch[Main] \in Int
    BY DEF TypeOK, Epochs
  <2> QED
    BY <2>1, <2>2 DEF SaveInProgress, StateWritten, SavedIsLatest, EndedWell, Ended
<1>11. CASE WriteMetrics \/ WriteConfig \/ WriteLabels
  <2>1. /\ UNCHANGED <<epoch, saved, model, ckpt, latest, start>>
        /\ pc[Main] \in Ended /\ pc'[Main] \in Ended
    BY <1>11 DEF WriteMetrics, WriteConfig, WriteLabels, WriteSummary, At, Goes, TypeOK, loopVars,
                 stateDir, jobVars, Ended
  <2> QED
    BY <2>1 DEF SavedIsLatest, EndedWell
<1>12. CASE (\E r \in Ranks : Sigterm(r)) \/ UNCHANGED vars
  BY <1>12, <1>b DEF Sigterm, vars, loopVars, jobVars, stateDir
<1> QED
  BY <1>1, <1>2, <1>3, <1>4, <1>5, <1>6, <1>7, <1>8, <1>9, <1>10, <1>11, <1>12
     DEF Next, RankStep, MainStep, Meet

-----------------------------------------------------------------------------
LEMMA Inductive == Spec => []IInv
<1>1. Init => IInv
  <2>1. ASSUME Init PROVE LatestIsWhole /\ SaveInProgress /\ SavedIsLatest /\ EndedWell
    BY <2>1, TrainingAssumption
       DEF Init, LatestIsWhole, SaveInProgress, SavedIsLatest, EndedWell, InDir, StateWritten,
           WeightsWritten, Ended
  <2> QED
    BY <2>1, TypeInit DEF IInv
<1>2. IInv /\ [Next]_vars => IInv'
  BY TypeStep, WholeStep, EarlyStep DEF IInv
<1> QED
  BY <1>1, <1>2, PTL DEF Spec

(* Whatever the ranks, signals and deaths of a job do, every variable of a *)
(* run keeps its type.                                                     *)
THEOREM TypeCorrect == Spec => []TypeOK
<1>1. IInv => TypeOK
  BY DEF IInv
<1> QED
  BY <1>1, Inductive, PTL

(* Whichever step a job dies at (_save_checkpoint, pipeline.py), what      *)
(* latest-epoch names is whole, unless it was written a second time.       *)
THEOREM LatestWhole == Spec => []LatestIsWhole
<1>1. IInv => LatestIsWhole
  BY DEF IInv
<1> QED
  BY <1>1, Inductive, PTL

(* A run told to stop (run, pipeline.py) leaves under latest-epoch the     *)
(* model it held.                                                          *)
THEOREM EarlyExit == Spec => []EarlyExitKeepsWork
<1>1. IInv => EarlyExitKeepsWork
  <2> SUFFICES ASSUME IInv, pc[Main] \in {"finish", "done"} \cup Summary,
                      epoch[Main] + 1 < start + NumEpochs
               PROVE  latest = epoch[Main] /\ ckpt[latest][Main] = model[Main]
    BY DEF EarlyExitKeepsWork
  <2>1. pc[Main] \in Ended
    BY DEF Ended, Summary
  <2>2. epoch[Main] \in Int /\ start \in Int /\ NumEpochs \in Int
    BY TrainingAssumption DEF IInv, TypeOK, Epochs
  <2>3. saved[Main] = epoch[Main]
    BY <2>1, <2>2 DEF IInv, EndedWell
  <2> QED
    BY <2>3 DEF IInv, SavedIsLatest
<1> QED
  BY <1>1, Inductive, PTL
-----------------------------------------------------------------------------
(* The metrics a run leaves are those of the weights it leaves.            *)

(* With an evaluation and a checkpoint every epoch, main reaches the save  *)
(* only behind an evaluation of the model it holds, and the exit check     *)
(* only behind a save of that model; the summary is of this evaluation.    *)
EveryEpoch == conf.unit = "ep" /\ conf.every = 1 /\ conf.save = 1
MetricsKept ==
    EveryEpoch =>
        /\ pc[Main] \in Saving \cup {"exit"} \cup Ended => final = model[Main]
        /\ pc[Main] \in {"exit"} \cup Ended =>
              latest = epoch[Main] /\ weights[epoch[Main]] = model[Main]
        /\ pc[Main] \in {"config", "labels", "done"} => files.metrics.of = final

FilesNamed == DOMAIN files = {"metrics", "config", "labels"}

LEMMA EveryOne == \A n \in Nat : n % 1 = 0
  OBVIOUS

(* The end of an epoch leads to its evaluation, and that to its save.      *)
LEMMA EvaluatesAndSaves ==
    ASSUME TypeOK, EveryEpoch, NEW r \in Ranks
    PROVE  LeaveLoop(r) = "evaluate" /\ AfterEval(epoch[r]) = "before_save"
<1>1. epoch[r] + 1 \in Nat
  BY DEF TypeOK, Epochs
<1>2. (epoch[r] + 1) % 1 = 0
  BY <1>1, EveryOne
<1> QED
  BY <1>2 DEF LeaveLoop, AfterEval, EvalDue, SaveDue, EveryEpoch

LEMMA MetricsStep ==
    TypeOK /\ SaveInProgress /\ FilesNamed /\ MetricsKept /\ [Next]_vars
        => FilesNamed' /\ MetricsKept'
<1> SUFFICES ASSUME TypeOK, SaveInProgress, FilesNamed, MetricsKept, [Next]_vars
             PROVE  FilesNamed' /\ MetricsKept'
  OBVIOUS
<1> USE TrainingAssumption
<1>a. FilesNamed'
  BY DEF FilesNamed, Next, RankStep, MainStep, Meet, Launch, TrainBatch, Exhausted, CheckSignal,
         ExitCheck, BeginState, EndState, SkipBatch, Abort, JobDies, Sigterm, MakeDir,
         BeginWeights, EndWeights, MakeLink, ReplaceLatest, WriteMetrics, WriteConfig, WriteLabels,
         WriteSummary, AllReduce, Gather, Barrier, Crash, vars
<1>b. UNCHANGED conf
  BY DEF Next, RankStep, MainStep, Meet, Launch, TrainBatch, Exhausted, CheckSignal,
         ExitCheck, BeginState, EndState, SkipBatch, Abort, JobDies, Sigterm, MakeDir,
         BeginWeights, EndWeights, MakeLink, ReplaceLatest, WriteMetrics, WriteConfig, WriteLabels,
         WriteSummary, AllReduce, Gather, Barrier, Crash, vars, jobVars
<1> SUFFICES ASSUME EveryEpoch PROVE MetricsKept'
  BY <1>a, <1>b DEF MetricsKept, EveryEpoch
<1> DEFINE Left == Saving \cup {"exit"} \cup Ended
           Mine == <<pc[Main], epoch[Main], model[Main], final, latest, weights, files>>
<1>c. UNCHANGED Mine => MetricsKept'
  BY <1>b DEF MetricsKept, EveryEpoch
<1>d. pc'[Main] \notin Left => MetricsKept'
  BY DEF MetricsKept, Left, Ended
<1>e. /\ UNCHANGED <<model, final>>
      /\ pc[Main] \in Left /\ pc'[Main] \in Saving
      => MetricsKept'
  BY DEF MetricsKept, Left, Saving, Ended
<1>1. CASE Launch
  <2>1. pc'[Main] \in {"batch", "down"}
    BY <1>1 DEF Launch, EnterRun
  <2> QED
    BY <2>1, <1>d DEF Left, Saving, Ended
<1>2. CASE (\E r \in Ranks : Abort(r)) \/ Crash
  <2>1. pc'[Main] = "down"
    BY <1>2 DEF Abort, Crash, JobDies
  <2> QED
    BY <2>1, <1>d DEF Left, Saving, Ended
<1>3. ASSUME NEW r \in Ranks, r # Main, RankStep(r) \/ SkipBatch(r) PROVE MetricsKept'
  <2>1. /\ pc'[Main] = pc[Main] /\ epoch'[Main] = epoch[Main] /\ model'[Main] = model[Main]
        /\ UNCHANGED <<final, latest, weights, files>>
    BY <1>3 DEF RankStep, TrainBatch, Exhausted, CheckSignal, ExitCheck, BeginState, EndState,
                SkipBatch, At, Goes, TypeOK, loopVars, stateDir
  <2> QED
    BY <2>1, <1>c
<1>4. CASE TrainBatch(Main) \/ Exhausted(Main) \/ CheckSignal(Main) \/ SkipBatch(Main)
  <2>1. LeaveLoop(Main) = "evaluate"
    BY EvaluatesAndSaves
  <2>2. pc'[Main] \in {"batch", "backward", "evaluate"}
    BY <1>4, <2>1 DEF TrainBatch, Exhausted, CheckSignal, SkipBatch, At, Goes, TypeOK
  <2> QED
    BY <2>2, <1>d DEF Left, Saving, Ended
<1>5. CASE ExitCheck(Main)
  <2>1. /\ UNCHANGED <<model, final, latest, weights, files>>
        /\ pc[Main] = "exit"
        /\ \/ pc'[Main] = "before_save"
           \/ pc'[Main] = "batch"
           \/ pc'[Main] = "finish" /\ epoch'[Main] = epoch[Main]
    BY <1>5 DEF ExitCheck, At, Goes, TypeOK, stateDir
  <2>2. CASE pc'[Main] = "before_save"
    BY <2>1, <2>2, <1>e DEF Left, Saving
  <2>3. CASE pc'[Main] = "batch"
    BY <2>3, <1>d DEF Left, Saving, Ended
  <2>4. CASE pc'[Main] = "finish" /\ epoch'[Main] = epoch[Main]
    BY <2>1, <2>4 DEF MetricsKept, Ended
  <2> QED
    BY <2>1, <2>2, <2>3, <2>4
<1>6. CASE AllReduce
  <2>1. CASE Main \in world
    <3>1. pc'[Main] = "gather"
      BY <1>6, <2>1 DEF AllReduce, TypeOK
    <3> QED
      BY <3>1, <1>d DEF Left, Saving, Ended
  <2>2. CASE Main \notin world
    <3>1. UNCHANGED Mine
      BY <1>6, <2>2 DEF AllReduce, TypeOK, stateDir
    <3> QED
      BY <3>1, <1>c
  <2> QED
    BY <2>1, <2>2
<1>7. CASE Gather
  <2>1. UNCHANGED <<model, epoch, latest, weights, files>>
    BY <1>7 DEF Gather, stateDir
  <2>2. CASE At(Main, "evaluate")
    <3>1. final' = model[Main] /\ pc'[Main] = "before_save"
      <4>1. AfterEval(epoch[Main]) = "before_save"
        BY EvaluatesAndSaves
      <4>2. ~At(Main, "gather") /\ conf.unit = "ep"
        BY <2>2 DEF At, EveryEpoch
      <4> QED
        BY <1>7, <2>2, <4>1, <4>2 DEF Gather, Evaluated, At
    <3> QED
      BY <2>1, <3>1 DEF MetricsKept, Ended
  <2>3. CASE At(Main, "gather")
    <3>1. pc'[Main] = "check"
      BY <1>7, <2>3 DEF Gather, EvalDue, EveryEpoch, At
    <3> QED
      BY <3>1, <1>d DEF Left, Saving, Ended
  <2>4. CASE ~At(Main, "evaluate") /\ ~At(Main, "gather")
    <3>1. pc'[Main] = pc[Main]
      BY <1>7, <2>4 DEF Gather
    <3>2. CASE pc[Main] = "evaluate"
      BY <3>1, <3>2, <1>d DEF Left, Saving, Ended
    <3>3. CASE pc[Main] # "evaluate"
      <4>1. final' = final
        BY <1>7, <3>3 DEF Gather, Evaluated
      <4> QED
        BY <2>1, <3>1, <4>1, <1>c
    <3> QED
      BY <3>2, <3>3
  <2> QED
    BY <2>2, <2>3, <2>4
<1>8. CASE Barrier
  <2>1. UNCHANGED <<model, final, epoch, latest, weights, files>>
    BY <1>8 DEF Barrier, loopVars, stateDir
  <2>2. \/ pc[Main] = "before_save" /\ pc'[Main] = "make_dir"
        \/ pc[Main] = "made_dir" /\ pc'[Main] = "save_state"
        \/ pc[Main] = "finish" /\ pc'[Main] = "metrics"
        \/ pc'[Main] = pc[Main]
    BY <1>8 DEF Barrier, At, TypeOK
  <2>3. CASE pc[Main] = "finish" /\ pc'[Main] = "metrics"
    BY <2>1, <2>3 DEF MetricsKept, Ended
  <2>4. CASE pc'[Main] = pc[Main]
    BY <2>1, <2>4, <1>c
  <2> QED
    BY <2>1, <2>2, <2>3, <2>4, <1>e DEF Left, Saving
<1>9. CASE MakeDir \/ BeginState(Main) \/ EndState(Main) \/ BeginWeights \/ EndWeights \/ MakeLink
  <2>1. UNCHANGED <<model, final>> /\ pc[Main] \in Saving /\ pc'[Main] \in Saving
    BY <1>9 DEF MakeDir, BeginState, EndState, BeginWeights, EndWeights, MakeLink, At, Goes,
                loopVars, TypeOK, Saving
  <2> QED
    BY <2>1, <1>e DEF Left
<1>10. CASE ReplaceLatest
  <2>1. /\ UNCHANGED <<model, final, epoch, weights>>
        /\ latest' = epoch[Main]
        /\ pc[Main] = "replace" /\ pc'[Main] = "exit"
    BY <1>10 DEF ReplaceLatest, At, Goes, TypeOK
  <2> QED
    BY <2>1 DEF MetricsKept, SaveInProgress, WeightsWritten, Saving, Ended
<1>11. CASE WriteMetrics \/ WriteConfig \/ WriteLabels
  <2>1. UNCHANGED <<model, final, epoch, latest, weights>>
    BY <1>11 DEF WriteMetrics, WriteConfig, WriteLabels, WriteSummary, loopVars, stateDir
  <2>2. CASE WriteMetrics
    <3>1. files'.metrics.of = final /\ pc[Main] = "metrics" /\ pc'[Main] = "config"
      BY <2>2 DEF WriteMetrics, WriteSummary, At, Goes, TypeOK, FilesNamed
    <3> QED
      BY <2>1, <3>1 DEF MetricsKept, Ended
  <2>3. CASE WriteConfig \/ WriteLabels
    <3>1. /\ files'.metrics = files.metrics
          /\ pc[Main] \in {"config", "labels"} /\ pc'[Main] \in {"labels", "done"}
      BY <2>3 DEF WriteConfig, WriteLabels, WriteSummary, At, Goes, TypeOK, FilesNamed
    <3> QED
      BY <2>1, <3>1 DEF MetricsKept, Ended
  <2> QED
    BY <1>11, <2>2, <2>3
<1>12. CASE (\E r \in Ranks : Sigterm(r)) \/ UNCHANGED vars
  BY <1>12, <1>c DEF Sigterm, vars, loopVars, stateDir
<1> QED
  BY <1>1, <1>2, <1>3, <1>4, <1>5, <1>6, <1>7, <1>8, <1>9, <1>10, <1>11, <1>12
     DEF Next, RankStep, MainStep, Meet

(* A finished run that evaluates and saves every epoch: metrics.json is of *)
(* the weights under latest-epoch, which load_classifier_from_run exports  *)
(* when they are those of the highest epoch (_write_run_summary,           *)
(* pipeline.py).                                                           *)
THEOREM MetricsOfWeights == Spec => []MetricsDescribeWeights
<1>1. Init => FilesNamed /\ MetricsKept
  BY TrainingAssumption DEF Init, FilesNamed, MetricsKept, Saving, Ended
<1>2. IInv /\ FilesNamed /\ MetricsKept /\ [Next]_vars => FilesNamed' /\ MetricsKept'
  BY MetricsStep DEF IInv
<1>3. MetricsKept => MetricsDescribeWeights
  BY DEF MetricsKept, EveryEpoch, Ended, MetricsDescribeWeights
<1> QED
  BY <1>1, <1>2, <1>3, Inductive, PTL DEF Spec
-----------------------------------------------------------------------------
(* The schedule of a run stays within its steps.                           *)

(* The batches of the epochs before e, had one process trained on them.    *)
Work(e) == e * Batches

LEMMA WorkNext == \A e \in Nat : Work(e) \in Nat /\ Work(e + 1) = Work(e) + Batches
  BY SomeBatch DEF Work

LEMMA WorkGrows == ASSUME NEW e \in Nat, NEW f \in Nat, e <= f PROVE Work(e) <= Work(f)
<1>1. PICK k \in Nat : f = e + k
  <2>1. f - e \in Nat /\ f = e + (f - e)
    OBVIOUS
  <2> QED
    BY <2>1
<1>2. Work(f) = Work(e) + k * Batches
  BY <1>1, SomeBatch DEF Work
<1>3. k * Batches \in Nat /\ Work(e) \in Nat
  BY SomeBatch, WorkNext
<1> QED
  BY <1>2, <1>3

(* A gradient step under way: entered, and not yet counted.                *)
Pending(r) == IF pc[r] \in {"backward", "gather"} THEN 1 ELSE 0

(* Rank r is the only one, and every batch closed its window.              *)
Exact(r) == world = {Main} /\ conf.accum = 1 /\ model[r].whole

(* Where r is behind its last epoch's loop.                                *)
LoopLeft(r) == pc[r] \in Saving \cup {"exit"} \cup Ended \/ (pc[r] = "evaluate" /\ conf.unit = "ep")

(* There is no gradient step without a batch of its own, and one process   *)
(* that accumulates nothing has made one with each.                        *)
StepsCounted(r) ==
    pc[r] # "down" =>
        /\ gstep[r] + Pending(r) <= Work(epoch[r]) + batch[r]
        /\ Exact(r) => gstep[r] + Pending(r) = Work(epoch[r]) + batch[r]
        /\ Exact(r) /\ LoopLeft(r) => batch[r] = Batches

CountInv == start = 0 /\ \A r \in world : StepsCounted(r)

(* With no accumulation every batch is followed by an optimiser step.      *)
LEMMA EverySyncs ==
    ASSUME TypeOK, NEW r \in Ranks, conf.accum = 1
    PROVE  SyncPoint(batch[r] + 1)
<1>1. batch[r] + 1 \in Nat
  BY SomeBatch DEF TypeOK
<1>2. (batch[r] + 1) % 1 = 0
  BY <1>1, EveryOne
<1> QED
  BY <1>2 DEF SyncPoint

(* A step of r that is neither a batch nor a new epoch.                    *)
LEMMA CountMoves ==
    ASSUME NEW r \in Ranks, StepsCounted(r), pc[r] # "down",
           UNCHANGED <<conf, world>>, epoch'[r] = epoch[r], batch'[r] = batch[r],
           gstep'[r] + Pending(r)' = gstep[r] + Pending(r),
           model'[r].whole => model[r].whole,
           Exact(r)' /\ LoopLeft(r)' => LoopLeft(r) \/ batch[r] = Batches
    PROVE  StepsCounted(r)'
<1>1. Exact(r)' => Exact(r)
  BY DEF Exact
<1>2. Work(epoch[r])' = Work(epoch[r])
  BY DEF Work
<1> QED
  BY <1>1, <1>2 DEF StepsCounted

(* A step that touches neither the counters of r nor the job keeps both.   *)
LEMMA CountKept ==
    ASSUME NEW r \in Ranks, StepsCounted(r),
           pc'[r] = pc[r], model'[r] = model[r], epoch'[r] = epoch[r], batch'[r] = batch[r],
           gstep'[r] = gstep[r], UNCHANGED <<conf, world>>
    PROVE  StepsCounted(r)'
  BY DEF StepsCounted, Exact, Pending, LoopLeft, Work

(* The step of one rank leaves the others as they are.                     *)
LEMMA OthersCount ==
    ASSUME TypeOK, CountInv, NEW q \in Ranks,
           RankStep(q) \/ SkipBatch(q),
           StepsCounted(q)'
    PROVE  CountInv'
<1>1. ASSUME NEW r \in Ranks, r # q
      PROVE  /\ pc'[r] = pc[r] /\ model'[r] = model[r] /\ epoch'[r] = epoch[r]
             /\ batch'[r] = batch[r] /\ gstep'[r] = gstep[r]
  BY <1>1 DEF RankStep, TrainBatch, Exhausted, CheckSignal, ExitCheck, BeginState, EndState,
              SkipBatch, Goes, TypeOK, loopVars
<1>2. UNCHANGED <<start, conf, world>>
  BY DEF RankStep, TrainBatch, Exhausted, CheckSignal, ExitCheck, BeginState, EndState,
         SkipBatch, jobVars
<1>3. ASSUME NEW r \in world', r # q PROVE StepsCounted(r)'
  <2>1. r \in Ranks /\ StepsCounted(r)
    BY <1>2, <1>3, TrainingAssumption DEF TypeOK, CountInv
  <2> QED
    BY <2>1, <1>1, <1>2, <1>3, CountKept
<1> QED
  BY <1>2, <1>3 DEF CountInv

(* One rank's own steps.                                                   *)
LEMMA RankCounts ==
    ASSUME TypeOK, CountInv, NEW q \in Ranks, RankStep(q) \/ SkipBatch(q)
    PROVE  CountInv'
<1>1. q \in world /\ pc[q] # "down" /\ UNCHANGED <<conf, start, world>>
  BY DEF RankStep, TrainBatch, Exhausted, CheckSignal, ExitCheck, BeginState, EndState, SkipBatch,
         At, jobVars
<1>2. StepsCounted(q) /\ model[q] \in Contents
  BY <1>1 DEF CountInv, TypeOK
<1>3. /\ Batches \in Nat /\ epoch[q] \in Nat /\ gstep[q] \in Nat
      /\ batch[q] \in Nat /\ batch[q] <= Batches
  BY SomeBatch DEF TypeOK, Epochs
<1>4. Work(epoch[q]) \in Nat /\ Work(epoch[q] + 1) = Work(epoch[q]) + Batches
  BY <1>3, WorkNext
<1>5. world = {Main} => Share = Batches
  BY <1>1, Shares
<1>6. CASE TrainBatch(q)
  <2>1. /\ UNCHANGED <<epoch, model, gstep>>
        /\ pc[q] = "batch" /\ batch'[q] = batch[q] + 1
        /\ pc'[q] \in {"backward", "batch"} /\ (conf.accum = 1 => pc'[q] = "backward")
    BY <1>6, EverySyncs DEF TrainBatch, At, Goes, TypeOK
  <2>2. /\ Work(epoch[q])' = Work(epoch[q]) /\ (Exact(q)' <=> Exact(q)) /\ ~LoopLeft(q)'
        /\ Pending(q) = 0 /\ Pending(q)' \in {0, 1} /\ (Exact(q) => Pending(q)' = 1)
    BY <1>1, <2>1 DEF Work, Exact, LoopLeft, Saving, Ended, Pending
  <2>3. StepsCounted(q)'
    BY <1>1, <1>2, <1>3, <1>4, <2>1, <2>2 DEF StepsCounted
  <2> QED
    BY <1>6, <2>3, OthersCount DEF RankStep
<1>7. CASE SkipBatch(q)
  <2>1. /\ UNCHANGED <<epoch, gstep, pc>> /\ pc[q] = "batch" /\ batch'[q] = batch[q] + 1
        /\ model'[q].whole = FALSE
    BY <1>2, <1>7 DEF SkipBatch, At, TypeOK, Contents
  <2>2. Work(epoch[q])' = Work(epoch[q]) /\ ~Exact(q)' /\ Pending(q)' = 0 /\ Pending(q) = 0
    BY <2>1 DEF Work, Exact, Pending
  <2>3. StepsCounted(q)'
    BY <1>1, <1>2, <1>3, <1>4, <2>1, <2>2 DEF StepsCounted
  <2> QED
    BY <1>7, <2>3, OthersCount
<1>8. CASE Exhausted(q) \/ CheckSignal(q)
  <2>1. /\ UNCHANGED <<epoch, gstep, batch>> /\ pc[q] \in {"batch", "check"}
        /\ pc'[q] \in {"batch", "evaluate", "before_save", "exit"}
    BY <1>8 DEF Exhausted, CheckSignal, At, Goes, LeaveLoop, AfterEval, TypeOK, loopVars
  <2>2. /\ model'[q].whole => model[q].whole
        /\ model'[q].whole /\ LoopLeft(q)' => batch[q] = Share
    <3>1. CASE Exhausted(q)
      BY <3>1 DEF Exhausted, loopVars
    <3>2. CASE CheckSignal(q) /\ term[q]
      <4>1. model'[q].whole = (model[q].whole /\ batch[q] = Share)
        BY <1>2, <3>2 DEF CheckSignal, TypeOK, Contents
      <4> QED
        BY <4>1
    <3>3. CASE CheckSignal(q) /\ ~term[q]
      <4>1. UNCHANGED model /\ pc'[q] = "batch"
        BY <3>3 DEF CheckSignal, Goes, TypeOK
      <4> QED
        BY <4>1 DEF LoopLeft, Saving, Ended
    <3> QED
      BY <1>8, <3>1, <3>2, <3>3
  <2>3. gstep'[q] + Pending(q)' = gstep[q] + Pending(q)
    BY <2>1 DEF Pending
  <2>4. Exact(q)' /\ LoopLeft(q)' => batch[q] = Batches
    BY <1>1, <1>5, <2>2 DEF Exact
  <2>5. StepsCounted(q)'
    BY <1>1, <1>2, <2>1, <2>2, <2>3, <2>4, CountMoves
  <2> QED
    BY <1>8, <2>5, OthersCount DEF RankStep
<1>9. CASE ExitCheck(q)
  <2>1. UNCHANGED <<gstep, model>> /\ pc[q] = "exit"
    BY <1>9 DEF ExitCheck, At
  <2>2. LoopLeft(q) /\ Pending(q) = 0
    BY <2>1 DEF LoopLeft, Pending
  <2>3. CASE pc'[q] \in {"before_save", "finish"} /\ UNCHANGED <<epoch, batch>>
    <3>1. Pending(q)' = 0
      BY <2>3 DEF Pending
    <3> QED
      BY <1>1, <1>2, <1>9, <2>1, <2>2, <2>3, <3>1, CountMoves, OthersCount DEF RankStep
  <2>4. CASE pc'[q] = "batch" /\ epoch'[q] = epoch[q] + 1 /\ batch'[q] = 0
    <3>1. /\ Work(epoch[q])' = Work(epoch[q]) + Batches /\ (Exact(q)' <=> Exact(q))
          /\ ~LoopLeft(q)' /\ Pending(q)' = 0
      BY <1>1, <1>4, <2>1, <2>4 DEF Work, Exact, LoopLeft, Saving, Ended, Pending
    <3>2. StepsCounted(q)'
      BY <1>1, <1>2, <1>3, <1>4, <2>1, <2>2, <2>4, <3>1 DEF StepsCounted
    <3> QED
      BY <1>9, <3>2, OthersCount DEF RankStep
  <2> QED
    BY <1>9, <2>3, <2>4 DEF ExitCheck, Goes, TypeOK
<1>10. CASE BeginState(q) \/ EndState(q)
  <2>1. /\ UNCHANGED <<epoch, batch, gstep, model>> /\ pc[q] \in {"save_state", "writing_state"}
        /\ pc'[q] \in {"writing_state", "weights", "exit"}
    BY <1>10 DEF BeginState, EndState, At, Goes, TypeOK, loopVars
  <2>2. LoopLeft(q) /\ Pending(q) = 0 /\ Pending(q)' = 0
    BY <2>1 DEF LoopLeft, Saving, Pending
  <2>3. StepsCounted(q)'
    BY <1>1, <1>2, <2>1, <2>2, CountMoves
  <2> QED
    BY <1>10, <2>3, OthersCount DEF RankStep
<1> QED
  BY <1>6, <1>7, <1>8, <1>9, <1>10 DEF RankStep

(* The steps the ranks take together, and main's own.                      *)
LEMMA MeetCounts ==
    ASSUME TypeOK, CountInv, Meet \/ MainStep
    PROVE  CountInv'
<1>1. UNCHANGED <<conf, start, world, epoch, batch>>
  BY DEF Meet, AllReduce, Gather, Barrier, MainStep, MakeDir, BeginWeights, EndWeights, MakeLink,
         ReplaceLatest, WriteMetrics, WriteConfig, WriteLabels, WriteSummary, jobVars, loopVars
<1> SUFFICES ASSUME NEW r \in world PROVE StepsCounted(r)'
  BY <1>1 DEF CountInv
<1>2. r \in Ranks /\ StepsCounted(r) /\ gstep[r] \in Nat
  BY TrainingAssumption DEF CountInv, TypeOK
<1>3. CASE AllReduce
  <2>1. pc[r] = "backward" /\ pc'[r] = "gather" /\ UNCHANGED gstep
    BY <1>2, <1>3 DEF AllReduce, Reduces
  <2>2. model'[r].whole = model[r].whole
    <3>1. model[r] \in Contents
      BY <1>2, <2>1 DEF TypeOK
    <3> QED
      BY <1>2, <1>3, <3>1 DEF AllReduce, Contents
  <2>3. Pending(r)' = Pending(r) /\ ~LoopLeft(r)'
    BY <2>1 DEF Pending, LoopLeft, Saving, Ended
  <2> QED
    BY <1>1, <1>2, <2>1, <2>2, <2>3, CountMoves
<1>4. CASE Gather
  <2>1. pc[r] \in {"gather", "evaluate"} /\ UNCHANGED model
    BY <1>4 DEF Gather, Gathers
  <2>2. CASE pc[r] = "gather"
    <3>1. gstep'[r] = gstep[r] + 1
      BY <1>2, <1>4, <2>2 DEF Gather, At
    <3>2. pc'[r] = "check" \/ (pc'[r] = "evaluate" /\ conf.unit = "ba")
      BY <1>2, <1>4, <2>2 DEF Gather, At, EvalDue
    <3>3. Pending(r) = 1 /\ Pending(r)' = 0 /\ ~LoopLeft(r)'
      BY <1>1, <2>2, <3>2 DEF Pending, LoopLeft, Saving, Ended
    <3> QED
      BY <1>1, <1>2, <2>1, <2>2, <3>1, <3>3, CountMoves
  <2>3. CASE pc[r] = "evaluate"
    <3>1. gstep'[r] = gstep[r]
      BY <1>2, <1>4, <2>3 DEF Gather, At
    <3>2. \/ pc'[r] = "check"
          \/ pc'[r] = "evaluate" /\ conf.unit # "ep"
          \/ pc'[r] \in {"before_save", "exit"} /\ LoopLeft(r)
      BY <1>2, <1>4, <2>3 DEF Gather, At, AfterEval, LoopLeft
    <3>3. Pending(r) = 0 /\ Pending(r)' = 0 /\ (LoopLeft(r)' => LoopLeft(r))
      BY <1>1, <2>3, <3>2 DEF Pending, LoopLeft, Saving, Ended
    <3> QED
      BY <1>1, <1>2, <2>1, <2>3, <3>1, <3>3, CountMoves
  <2> QED
    BY <2>1, <2>2, <2>3
<1>5. CASE Barrier
  <2>1. /\ pc[r] \in {"before_save", "made_dir", "finish"} /\ UNCHANGED <<model, gstep>>
        /\ pc'[r] \in {"make_dir", "made_dir", "save_state", "metrics", "done"}
    BY <1>2, <1>5 DEF Barrier, At, Barriers, loopVars
  <2>2. LoopLeft(r) /\ Pending(r) = 0 /\ Pending(r)' = 0
    BY <2>1 DEF LoopLeft, Saving, Ended, Pending
  <2> QED
    BY <1>1, <1>2, <2>1, <2>2, CountMoves
<1>6. CASE MainStep
  <2>1. /\ UNCHANGED <<gstep, model>>
        /\ pc[Main] \in Saving \cup Ended /\ pc'[Main] \in Saving \cup {"exit"} \cup Ended
        /\ \A q \in Ranks : q # Main => pc'[q] = pc[q]
    BY <1>6, TrainingAssumption
       DEF MainStep, MakeDir, BeginWeights, EndWeights, MakeLink, ReplaceLatest, WriteMetrics,
           WriteConfig, WriteLabels, WriteSummary, At, Goes, TypeOK, loopVars, Saving, Ended
  <2>2. CASE r # Main
    BY <1>1, <1>2, <2>1, <2>2, CountKept
  <2>3. CASE r = Main
    <3>1. LoopLeft(r) /\ Pending(r) = 0 /\ Pending(r)' = 0 /\ pc[r] # "down"
      BY <2>1, <2>3 DEF LoopLeft, Saving, Ended, Pending
    <3> QED
      BY <1>1, <1>2, <2>1, <3>1, CountMoves
  <2> QED
    BY <2>2, <2>3
<1> QED
  BY <1>3, <1>4, <1>5, <1>6 DEF Meet

LEMMA CountStep == TypeOK /\ CountInv /\ [Next]_vars => CountInv'
<1> SUFFICES ASSUME TypeOK, CountInv, [Next]_vars PROVE CountInv'
  OBVIOUS
<1>1. CASE Launch
  <2>1. PICK restored \in Contents : EnterRun(0, world', restored)
    BY <1>1, Launches
  <2>2. world' \subseteq Ranks
    BY <1>1, Launches, TrainingAssumption
  <2>3. ASSUME NEW r \in world' PROVE StepsCounted(r)'
    <3>1. pc'[r] = "batch" /\ epoch'[r] = 0 /\ batch'[r] = 0 /\ gstep'[r] = 0
      BY <2>1, <2>2 DEF EnterRun
    <3>2. Work(epoch[r])' = 0 /\ Pending(r)' = 0 /\ ~LoopLeft(r)'
      BY <3>1, SomeBatch DEF Work, Pending, LoopLeft, Saving, Ended
    <3> QED
      BY <3>1, <3>2 DEF StepsCounted
  <2> QED
    BY <2>1, <2>3 DEF EnterRun, CountInv
<1>2. CASE (\E r \in Ranks : Abort(r)) \/ Crash
  <2>1. UNCHANGED <<start, world>> /\ \A r \in Ranks : pc'[r] = "down"
    BY <1>2 DEF Abort, Crash, JobDies, jobVars
  <2> QED
    BY <2>1, TrainingAssumption DEF CountInv, StepsCounted, TypeOK
<1>3. CASE (\E r \in Ranks : Sigterm(r)) \/ UNCHANGED vars
  <2>1. UNCHANGED <<conf, start, world, epoch, batch, gstep, model, pc>>
    BY <1>3 DEF Sigterm, vars, jobVars, loopVars
  <2> QED
    BY <2>1, CountKept, TrainingAssumption DEF CountInv, TypeOK
<1> QED
  BY <1>1, <1>2, <1>3, RankCounts, MeetCounts DEF Next

(* For any number of processes, epochs and batches, whatever they          *)
(* accumulate or skip: the schedule of create_lr_scheduler (utility.py) is *)
(* never stepped beyond num_training_steps, and one process that misses no *)
(* batch and accumulates none is exactly an epoch further at its end.      *)
THEOREM ScheduleInSpan == Spec => []ScheduleSpansRun
<1>1. Init => CountInv
  BY DEF Init, CountInv
<1>2. IInv /\ CountInv /\ [Next]_vars => CountInv'
  BY CountStep DEF IInv
<1>3. IInv /\ CountInv => ScheduleSpansRun
  <2> SUFFICES ASSUME IInv, CountInv, NEW r \in world, pc[r] # "down"
               PROVE  /\ ScheduleAt(r) <= TotalSteps
                      /\ Exact(r) /\ pc[r] = "exit" => ScheduleAt(r) = PriorSteps(epoch[r] + 1)
    BY DEF ScheduleSpansRun, Exact
  <2>1. r \in Ranks /\ StepsCounted(r)
    BY TrainingAssumption DEF IInv, TypeOK, CountInv
  <2>2. /\ gstep[r] \in Nat /\ batch[r] \in Nat /\ batch[r] <= Batches
        /\ epoch[r] \in Nat /\ epoch[r] + 1 <= NumEpochs /\ Batches \in Nat /\ NumEpochs \in Nat
    BY <2>1, SomeBatch, TrainingAssumption DEF IInv, TypeOK, Epochs
  <2>3. ScheduleAt(r) = gstep[r]
    BY <2>2 DEF ScheduleAt, PriorSteps, StepsPerEpoch, CountInv
  <2>4. /\ Work(epoch[r]) \in Nat /\ Work(epoch[r] + 1) = Work(epoch[r]) + Batches
        /\ Work(epoch[r] + 1) <= Work(NumEpochs)
    <3>1. epoch[r] + 1 \in Nat
      BY <2>2
    <3> QED
      BY <2>2, <3>1, WorkNext, WorkGrows
  <2>5. Work(NumEpochs) \in Nat /\ TotalSteps = Work(NumEpochs)
        /\ PriorSteps(epoch[r] + 1) = Work(epoch[r] + 1)
    BY <2>2, WorkNext DEF TotalSteps, StepsPerEpoch, PriorSteps, Work
  <2>6. Pending(r) \in {0, 1} /\ (pc[r] = "exit" => Pending(r) = 0 /\ LoopLeft(r))
    BY DEF Pending, LoopLeft
  <2> QED
    BY <2>1, <2>2, <2>3, <2>4, <2>5, <2>6 DEF StepsCounted
<1> QED
  BY <1>1, <1>2, <1>3, Inductive, PTL DEF Spec

-----------------------------------------------------------------------------
(* The ranks meet: what can be said of RunEnds without fairness.           *)

(* The gradient steps of an epoch, and those a rank in it has still ahead. *)
SyncPoints == {j \in 1 .. Share : SyncPoint(j)}
Ahead(r) == {j \in SyncPoints : j > batch[r] \/ (j = batch[r] /\ pc[r] = "backward")}

(* A meeting of the ranks: a collective, the epoch it is in, and the       *)
(* gradient steps then ahead.                                              *)
Meeting(at, e, ahead) == [at |-> at, epoch |-> e, ahead |-> ahead]
AfterSave(e)  == IF e + 1 < start + NumEpochs THEN Meeting("backward", e + 1, SyncPoints)
                 ELSE Meeting("finish", e, {})
BeforeExit(e) == IF SaveDue(e) THEN Meeting("before_save", e, {}) ELSE AfterSave(e)
AfterLoop(e)  == IF EvalDue("ep", e + 1) THEN Meeting("evaluate", e, {}) ELSE BeforeExit(e)

(* Where the code of a rank that nothing disturbs leads next.              *)
NextMeeting(place, e, ahead) ==
    CASE place \in {"backward", "gather", "evaluate"} -> Meeting(place, e, ahead)
      [] place \in {"batch", "check"} ->
            IF ahead # {} THEN Meeting("backward", e, ahead) ELSE AfterLoop(e)
      [] place = "before_save" -> Meeting("before_save", e, {})
      [] place \in {"make_dir", "made_dir"} -> Meeting("made_dir", e, {})
      [] place \in {"save_state", "writing_state", "weights", "writing_weights",
                    "link", "replace", "exit"} -> AfterSave(e)
      [] place = "finish" -> Meeting("finish", e, {})
      [] OTHER -> Meeting("over", 0, {})

Meets(r) == NextMeeting(pc[r], epoch[r], Ahead(r))

NoneDisturbed == \A r \in world : ~term[r] /\ model[r].whole

(* Undisturbed ranks come to one meeting next, after as many steps each.   *)
SameMeeting ==
    Running /\ NoneDisturbed => \A a, b \in world : Meets(a) = Meets(b) /\ gstep[a] = gstep[b]

(* The all-reduce of backward is entered at a gradient step only.          *)
BackwardAtStep == \A r \in world : pc[r] = "backward" => batch[r] \in SyncPoints

MeetInv == SameMeeting /\ BackwardAtStep

Waiting == Reduces \cup Gathers \cup Barriers

(* While no rank was told to stop or missed a batch, the ranks are never   *)
(* all at a collective, or gone, without being at one that they can        *)
(* complete together.                                                      *)
RanksMeet ==
    Running /\ Undisturbed /\ (\A r \in world : pc[r] \in Waiting \cup {"done"})
    => \/ \A r \in world : pc[r] \in Reduces
       \/ \A r \in world : pc[r] \in Gathers
       \/ \A r \in world : pc[r] \in Barriers

(* Within a launch the tables do not change.                               *)
LEMMA TablesKept ==
    ASSUME start' = start, conf' = conf, world' = world
    PROVE  /\ SyncPoints' = SyncPoints
           /\ \A e : AfterSave(e)' = AfterSave(e) /\ BeforeExit(e)' = BeforeExit(e)
                     /\ AfterLoop(e)' = AfterLoop(e)
           /\ \A place, e, ahead : NextMeeting(place, e, ahead)' = NextMeeting(place, e, ahead)
<1>1. SyncPoints' = SyncPoints
  BY DEF SyncPoints, SyncPoint, Share
<1>2. \A e : AfterSave(e)' = AfterSave(e)
  BY <1>1 DEF AfterSave, Meeting
<1>3. \A e : BeforeExit(e)' = BeforeExit(e)
  BY <1>2 DEF BeforeExit, Meeting, SaveDue
<1>4. \A e : AfterLoop(e)' = AfterLoop(e)
  BY <1>3 DEF AfterLoop, Meeting, EvalDue
<1>5. \A place, e, ahead : NextMeeting(place, e, ahead)' = NextMeeting(place, e, ahead)
  BY <1>2, <1>4 DEF NextMeeting, Meeting
<1> QED
  BY <1>1, <1>2, <1>3, <1>4, <1>5

(* The last batch of an epoch is always a gradient step.                   *)
LEMMA LastIsStep ==
    ASSUME TypeOK, world # {}
    PROVE  Share \in SyncPoints /\ SyncPoints \subseteq 1 .. Share /\ Share \in Nat
  BY Shares, SomeBatch DEF SyncPoints, SyncPoint

(* A step of one rank that leads to the same meeting.                      *)
LEMMA MovesAlone ==
    ASSUME TypeOK, MeetInv, NEW q \in world,
           UNCHANGED <<conf, start, world, gstep, term>>,
           pc[q] \notin {"down", "done"},
           \A r \in world : r # q => /\ pc'[r] = pc[r] /\ epoch'[r] = epoch[r]
                                     /\ batch'[r] = batch[r],
           \A r \in world : model'[r].whole => model[r].whole,
           NoneDisturbed' => Meets(q)' = Meets(q),
           pc'[q] = "backward" => batch'[q] \in SyncPoints
    PROVE  MeetInv'
<1>1. NoneDisturbed' => Running /\ NoneDisturbed
  BY DEF NoneDisturbed, Running
<1>2. ASSUME NEW r \in world, r # q PROVE Meets(r)' = Meets(r)
  <2>1. Ahead(r)' = Ahead(r)
    BY <1>2, TablesKept DEF Ahead
  <2> QED
    BY <1>2, <2>1, TablesKept DEF Meets
<1>3. NoneDisturbed' => \A r \in world : Meets(r)' = Meets(r)
  BY <1>2
<1>4. SameMeeting'
  <2> SUFFICES ASSUME NoneDisturbed', NEW a \in world, NEW b \in world
               PROVE  Meets(a)' = Meets(b)' /\ gstep'[a] = gstep'[b]
    BY DEF SameMeeting
  <2>1. Meets(a) = Meets(b) /\ gstep[a] = gstep[b]
    BY <1>1 DEF MeetInv, SameMeeting
  <2> QED
    BY <1>3, <2>1
<1>5. BackwardAtStep'
  BY TablesKept DEF MeetInv, BackwardAtStep
<1> QED
  BY <1>4, <1>5 DEF MeetInv

(* A rank that trains on a batch comes no nearer to another meeting.       *)
LEMMA TrainMeets ==
    ASSUME TypeOK, MeetInv, NEW q \in Ranks, TrainBatch(q)
    PROVE  MeetInv'
<1> USE TrainingAssumption
<1>1. /\ q \in world /\ pc[q] = "batch" /\ batch[q] < Share
      /\ UNCHANGED <<conf, start, world, gstep, term, epoch, model>>
      /\ batch' = [batch EXCEPT ![q] = @ + 1]
      /\ pc' = [pc EXCEPT ![q] = IF SyncPoint(batch[q] + 1) THEN "backward" ELSE "batch"]
  BY DEF TrainBatch, At, Goes, jobVars
<1>0. Share \in SyncPoints /\ SyncPoints \subseteq 1 .. Share /\ Share \in Nat
  BY <1>1, LastIsStep
<1>2. /\ pc'[q] = IF SyncPoint(batch[q] + 1) THEN "backward" ELSE "batch"
      /\ batch'[q] = batch[q] + 1 /\ batch[q] \in 0 .. (Share - 1)
      /\ \A r \in world : r # q => pc'[r] = pc[r] /\ batch'[r] = batch[r]
  BY <1>1, <1>0 DEF TypeOK
<1>3. SyncPoint(batch[q] + 1) <=> batch[q] + 1 \in SyncPoints
  BY <1>0, <1>2 DEF SyncPoints
<1>4. Ahead(q)' = {j \in SyncPoints : j > batch[q] + 1 \/ (j = batch[q] + 1 /\ pc'[q] = "backward")}
  BY <1>1, <1>2, TablesKept DEF Ahead
<1>5. Ahead(q) = {j \in SyncPoints : j > batch[q]}
  BY <1>1 DEF Ahead
<1>6. Ahead(q)' = Ahead(q)
  <2>1. \A j \in SyncPoints : j \in Nat
    BY <1>0
  <2>2. \A j \in SyncPoints : j > batch[q] <=> j > batch[q] + 1 \/ j = batch[q] + 1
    BY <1>2, <2>1
  <2>3. \A j \in SyncPoints : j = batch[q] + 1 => pc'[q] = "backward"
    BY <1>2, <1>3
  <2>4. \A j \in SyncPoints :
          j > batch[q] <=> j > batch[q] + 1 \/ (j = batch[q] + 1 /\ pc'[q] = "backward")
    BY <2>2, <2>3
  <2> QED
    BY <1>4, <1>5, <2>4
<1>7. Ahead(q) # {}
  BY <1>0, <1>1, <1>5
<1>8. Meets(q)' = Meets(q)
  <2>1. NextMeeting(pc'[q], epoch[q], Ahead(q)) = Meeting("backward", epoch[q], Ahead(q))
    BY <1>2, <1>7 DEF NextMeeting
  <2>2. NextMeeting(pc[q], epoch[q], Ahead(q)) = Meeting("backward", epoch[q], Ahead(q))
    BY <1>1, <1>7 DEF NextMeeting
  <2> QED
    BY <1>1, <1>6, <2>1, <2>2, TablesKept DEF Meets
<1>9. pc'[q] = "backward" => batch'[q] \in SyncPoints
  BY <1>2, <1>3
<1> QED
  BY <1>1, <1>2, <1>8, <1>9, MovesAlone

(* A rank whose epoch has no batch left goes where AfterLoop says.         *)
LEMMA LeavesLoop ==
    ASSUME TypeOK, NEW q \in world, batch[q] = Share, pc[q] # "backward",
           UNCHANGED <<conf, start, world, epoch, batch>>, pc'[q] = LeaveLoop(q)
    PROVE  /\ Ahead(q) = {}
           /\ Meets(q)' = AfterLoop(epoch[q])
           /\ pc'[q] # "backward"
<1>1. ASSUME NEW j \in SyncPoints PROVE ~(j > Share)
  <2>1. j \in 1 .. Share /\ Share \in Nat
    BY LastIsStep
  <2> QED
    BY <2>1
<1>2. pc'[q] \in {"evaluate", "before_save", "exit"}
  BY DEF LeaveLoop, AfterEval
<1>3. Ahead(q) = {} /\ Ahead(q)' = {}
  BY <1>1, <1>2, TablesKept DEF Ahead
<1>4. Meets(q)' = NextMeeting(pc'[q], epoch[q], {})
  BY <1>3, TablesKept DEF Meets
<1>5. NextMeeting(pc'[q], epoch[q], {}) = AfterLoop(epoch[q])
  <2>1. CASE EvalDue("ep", epoch[q] + 1)
    BY <2>1 DEF LeaveLoop, NextMeeting, AfterLoop
  <2>2. CASE ~EvalDue("ep", epoch[q] + 1) /\ SaveDue(epoch[q])
    BY <2>2 DEF LeaveLoop, AfterEval, NextMeeting, AfterLoop, BeforeExit
  <2>3. CASE ~EvalDue("ep", epoch[q] + 1) /\ ~SaveDue(epoch[q])
    BY <2>3 DEF LeaveLoop, AfterEval, NextMeeting, AfterLoop, BeforeExit
  <2> QED
    BY <2>1, <2>2, <2>3
<1> QED
  BY <1>2, <1>3, <1>4, <1>5

LEMMA ExhaustedMeets ==
    ASSUME TypeOK, MeetInv, NEW q \in Ranks, Exhausted(q)
    PROVE  MeetInv'
<1>1. /\ q \in world /\ pc[q] = "batch" /\ batch[q] = Share
      /\ UNCHANGED <<conf, start, world, gstep, term, epoch, batch, model>>
      /\ pc' = [pc EXCEPT ![q] = LeaveLoop(q)]
  BY DEF Exhausted, At, Goes, jobVars, loopVars
<1>2. pc'[q] = LeaveLoop(q) /\ \A r \in world : r # q => pc'[r] = pc[r]
  BY <1>1 DEF TypeOK
<1>3. Ahead(q) = {} /\ Meets(q)' = AfterLoop(epoch[q]) /\ pc'[q] # "backward"
  BY <1>1, <1>2, LeavesLoop
<1>4. Meets(q) = AfterLoop(epoch[q])
  BY <1>1, <1>3 DEF Meets, NextMeeting
<1> QED
  BY <1>1, <1>2, <1>3, <1>4, MovesAlone

LEMMA CheckMeets ==
    ASSUME TypeOK, MeetInv, NEW q \in Ranks, CheckSignal(q)
    PROVE  MeetInv'
<1>1. /\ q \in world /\ pc[q] = "check"
      /\ UNCHANGED <<conf, start, world, gstep, term, epoch, batch>>
  BY DEF CheckSignal, At, jobVars
<1>2. CASE term[q]
  <2>1. /\ pc' = [pc EXCEPT ![q] = LeaveLoop(q)]
        /\ model' = [model EXCEPT ![q].whole = @ /\ batch[q] = Share]
    BY <1>2 DEF CheckSignal, Goes
  <2>2. pc'[q] = LeaveLoop(q) /\ \A r \in world : r # q => pc'[r] = pc[r]
    BY <1>1, <2>1 DEF TypeOK
  <2>3. pc'[q] # "backward"
    BY <2>2 DEF LeaveLoop, AfterEval
  <2>4. ~NoneDisturbed'
    BY <1>1, <1>2 DEF NoneDisturbed
  <2>5. \A r \in world : r # q => model'[r] = model[r]
    BY <2>1 DEF TypeOK
  <2>6. model'[q].whole => model[q].whole
    <3>1. model[q] \in Contents
      BY <1>1 DEF TypeOK
    <3> QED
      BY <2>1, <3>1 DEF TypeOK, Contents
  <2> QED
    BY <1>1, <2>2, <2>3, <2>4, <2>5, <2>6, MovesAlone
<1>3. CASE ~term[q]
  <2>1. pc' = [pc EXCEPT ![q] = "batch"] /\ model' = model
    BY <1>3 DEF CheckSignal, Goes
  <2>2. pc'[q] = "batch" /\ \A r \in world : r # q => pc'[r] = pc[r]
    BY <1>1, <2>1 DEF TypeOK
  <2>3. Ahead(q)' = Ahead(q)
    BY <1>1, <2>2, TablesKept DEF Ahead
  <2>4. NextMeeting("batch", epoch[q], Ahead(q)) = NextMeeting("check", epoch[q], Ahead(q))
    BY DEF NextMeeting
  <2>5. Meets(q)' = Meets(q)
    BY <1>1, <2>2, <2>3, <2>4, TablesKept DEF Meets
  <2> QED
    BY <1>1, <2>1, <2>2, <2>5, MovesAlone
<1> QED
  BY <1>2, <1>3

(* At the end of an epoch's body a rank that was not told to stop goes on  *)
(* to the first gradient step of the next epoch, or to the end.            *)
LEMMA ExitMeets ==
    ASSUME TypeOK, MeetInv, NEW q \in Ranks, ExitCheck(q)
    PROVE  MeetInv'
<1>1. /\ q \in world /\ pc[q] = "exit"
      /\ UNCHANGED <<conf, start, world, gstep, term, model>>
  BY DEF ExitCheck, At, jobVars
<1>0. Share \in SyncPoints /\ SyncPoints \subseteq 1 .. Share
  BY <1>1, LastIsStep
<1>2. CASE term[q]
  <2>1. ~NoneDisturbed'
    BY <1>1, <1>2 DEF NoneDisturbed
  <2>2. /\ UNCHANGED <<epoch, batch>>
        /\ pc' = [pc EXCEPT ![q] = "before_save"] \/ pc' = [pc EXCEPT ![q] = "finish"]
    BY <1>2 DEF ExitCheck, Goes
  <2>3. pc'[q] # "backward" /\ \A r \in world : r # q => pc'[r] = pc[r]
    BY <1>1, <2>2 DEF TypeOK
  <2> QED
    BY <1>1, <2>1, <2>2, <2>3, MovesAlone
<1>3. CASE ~term[q] /\ epoch[q] + 1 < start + NumEpochs
  <2>1. /\ epoch' = [epoch EXCEPT ![q] = @ + 1]
        /\ batch' = [batch EXCEPT ![q] = 0]
        /\ pc' = [pc EXCEPT ![q] = "batch"]
    <3>1. epoch[q] + 1 \in Nat /\ start + NumEpochs \in Nat
      BY TrainingAssumption DEF TypeOK, Epochs
    <3>2. ~(epoch[q] + 1 >= start + NumEpochs)
      BY <1>3, <3>1
    <3> QED
      BY <1>3, <3>2 DEF ExitCheck, Goes
  <2>2. /\ pc'[q] = "batch" /\ epoch'[q] = epoch[q] + 1 /\ batch'[q] = 0
        /\ \A r \in world : r # q => pc'[r] = pc[r] /\ epoch'[r] = epoch[r] /\ batch'[r] = batch[r]
    BY <1>1, <2>1 DEF TypeOK
  <2>3. Ahead(q)' = SyncPoints
    <3>1. \A j \in SyncPoints : j > 0
      BY <1>0
    <3> QED
      BY <1>1, <2>2, <3>1, TablesKept DEF Ahead
  <2>4. Meets(q)' = Meeting("backward", epoch[q] + 1, SyncPoints)
    <3>1. NextMeeting("batch", epoch[q] + 1, SyncPoints) = Meeting("backward", epoch[q] + 1, SyncPoints)
      BY <1>0 DEF NextMeeting
    <3> QED
      BY <1>1, <2>2, <2>3, <3>1, TablesKept DEF Meets
  <2>5. Meets(q) = Meeting("backward", epoch[q] + 1, SyncPoints)
    BY <1>1, <1>3 DEF Meets, NextMeeting, AfterSave
  <2> QED
    BY <1>1, <2>2, <2>4, <2>5, MovesAlone
<1>4. CASE ~term[q] /\ ~(epoch[q] + 1 < start + NumEpochs)
  <2>1. UNCHANGED <<epoch, batch>> /\ pc' = [pc EXCEPT ![q] = "finish"]
    BY <1>4 DEF ExitCheck, Goes
  <2>2. pc'[q] = "finish" /\ \A r \in world : r # q => pc'[r] = pc[r]
    BY <1>1, <2>1 DEF TypeOK
  <2>3. Meets(q)' = Meeting("finish", epoch[q], {})
    <3>1. Meets(q)' = NextMeeting("finish", epoch[q], Ahead(q)')
      BY <1>1, <2>1, <2>2, TablesKept DEF Meets
    <3> QED
      BY <3>1 DEF NextMeeting
  <2>4. Meets(q) = Meeting("finish", epoch[q], {})
    BY <1>1, <1>4 DEF Meets, NextMeeting, AfterSave
  <2> QED
    BY <1>1, <2>1, <2>2, <2>3, <2>4, MovesAlone
<1> QED
  BY <1>2, <1>3, <1>4

(* A step between two places that lead to the same meeting of the epoch.   *)
LEMMA ShiftMeets ==
    ASSUME TypeOK, MeetInv, NEW q \in world, NEW place \in Places,
           UNCHANGED <<conf, start, world, gstep, term, epoch, batch, model>>,
           pc' = [pc EXCEPT ![q] = place],
           pc[q] \notin {"down", "done"}, place # "backward",
           \A e, old, new : NextMeeting(pc[q], e, old) = NextMeeting(place, e, new)
    PROVE  MeetInv'
<1>1. pc'[q] = place /\ \A r \in world : r # q => pc'[r] = pc[r]
  BY TrainingAssumption DEF TypeOK
<1>2. Meets(q)' = NextMeeting(place, epoch[q], Ahead(q)')
  BY <1>1, TablesKept DEF Meets
<1>3. Meets(q)' = Meets(q)
  BY <1>2 DEF Meets
<1> QED
  BY <1>1, <1>3, MovesAlone

LEMMA StateMeets ==
    ASSUME TypeOK, MeetInv, NEW q \in Ranks, BeginState(q) \/ EndState(q)
    PROVE  MeetInv'
<1>1. UNCHANGED <<conf, start, world, gstep, term, epoch, batch, model>> /\ q \in world
  BY DEF BeginState, EndState, At, jobVars, loopVars
<1>2. PICK place \in {"writing_state", "weights", "exit"} :
         /\ pc[q] \in {"save_state", "writing_state"}
         /\ pc' = [pc EXCEPT ![q] = place]
  BY DEF BeginState, EndState, At, Goes
<1>3. \A e, old, new : NextMeeting(pc[q], e, old) = NextMeeting(place, e, new)
  BY <1>2 DEF NextMeeting
<1>4. place \in Places /\ place # "backward" /\ pc[q] \notin {"down", "done"}
  BY <1>2 DEF Places, Saving
<1> HIDE DEF NextMeeting
<1> QED
  BY <1>1, <1>2, <1>3, <1>4, ShiftMeets

LEMMA MainMeets ==
    ASSUME TypeOK, MeetInv, MainStep
    PROVE  MeetInv'
<1>1. UNCHANGED <<conf, start, world, gstep, term, epoch, batch, model>> /\ Main \in world
  BY DEF MainStep, MakeDir, BeginWeights, EndWeights, MakeLink, ReplaceLatest, WriteMetrics,
         WriteConfig, WriteLabels, WriteSummary, At, jobVars, loopVars
<1>2. PICK place \in {"made_dir", "writing_weights", "link", "replace", "exit",
                      "config", "labels", "done"} :
         /\ pc' = [pc EXCEPT ![Main] = place]
         /\ \/ pc[Main] = "make_dir" /\ place = "made_dir"
            \/ pc[Main] \in {"weights", "writing_weights", "link", "replace"}
               /\ place \in {"writing_weights", "link", "replace", "exit"}
            \/ pc[Main] \in {"metrics", "config", "labels"}
               /\ place \in {"config", "labels", "done"}
  BY DEF MainStep, MakeDir, BeginWeights, EndWeights, MakeLink, ReplaceLatest, WriteMetrics,
         WriteConfig, WriteLabels, WriteSummary, At, Goes
<1>3. \A e, old, new : NextMeeting(pc[Main], e, old) = NextMeeting(place, e, new)
  BY <1>2 DEF NextMeeting
<1>4. place \in Places /\ place # "backward" /\ pc[Main] \notin {"down", "done"}
  BY <1>2 DEF Places, Saving, Barriers, Summary
<1> QED
  BY <1>1, <1>2, <1>3, <1>4, ShiftMeets

(* The collectives: the ranks that complete one go to the same next one.   *)
LEMMA TogetherMeets ==
    ASSUME TypeOK, MeetInv,
           UNCHANGED <<start, conf, world>>, NoneDisturbed' => NoneDisturbed, Running,
           SameMeeting /\ Running /\ NoneDisturbed =>
              \A a, b \in world : Meets(a)' = Meets(b)' /\ gstep'[a] = gstep'[b],
           \A r \in world : pc'[r] # "backward"
    PROVE  MeetInv'
  BY DEF MeetInv, SameMeeting, BackwardAtStep

LEMMA ReduceMeets ==
    ASSUME TypeOK, MeetInv, AllReduce
    PROVE  MeetInv'
<1>1. /\ Running /\ world \subseteq Ranks /\ \A r \in world : pc[r] = "backward"
      /\ UNCHANGED <<conf, start, world, gstep, term, epoch, batch>>
      /\ \A r \in world : /\ pc'[r] = "gather"
                          /\ model'[r] = [model[r] EXCEPT !.launch = launch, !.steps = @ + 1]
  BY TrainingAssumption DEF AllReduce, Reduces, jobVars, TypeOK
<1>n. ASSUME NEW r \in world PROVE batch[r] \in Nat
  <2>1. r \in Ranks /\ batch \in [Ranks -> 0 .. Batches] /\ Batches \in Nat
    BY <1>1, SomeBatch DEF TypeOK
  <2> QED
    BY <2>1
<1>2. NoneDisturbed' => NoneDisturbed
  <2>1. ASSUME NEW r \in world PROVE model'[r].whole = model[r].whole
    <3>1. model[r] \in Contents
      BY <1>1 DEF TypeOK
    <3> QED
      BY <1>1, <3>1 DEF Contents
  <2> QED
    BY <1>1, <2>1 DEF NoneDisturbed
<1>3. ASSUME SameMeeting, NoneDisturbed, NEW a \in world, NEW b \in world
      PROVE  Meets(a)' = Meets(b)' /\ gstep'[a] = gstep'[b]
  <2>1. Meeting("backward", epoch[a], Ahead(a)) = Meeting("backward", epoch[b], Ahead(b))
        /\ gstep[a] = gstep[b]
    <3>1. Meets(a) = Meets(b) /\ gstep[a] = gstep[b]
      BY <1>1, <1>3 DEF SameMeeting
    <3>2. ASSUME NEW r \in world PROVE Meets(r) = Meeting("backward", epoch[r], Ahead(r))
      BY <1>1 DEF Meets, NextMeeting
    <3> QED
      BY <3>1, <3>2
  <2>2. epoch[a] = epoch[b] /\ Ahead(a) = Ahead(b)
    BY <2>1 DEF Meeting
  <2>3. batch[a] = batch[b]
    <3>1. ASSUME NEW x \in world, NEW y \in world, Ahead(x) = Ahead(y)
          PROVE  batch[x] >= batch[y]
      <4>1. batch[x] \in Ahead(x)
        BY <1>1 DEF MeetInv, BackwardAtStep, Ahead
      <4>2. batch[x] \in Nat /\ batch[y] \in Nat
        BY <1>n
      <4>3. batch[x] > batch[y] \/ batch[x] = batch[y]
        BY <3>1, <4>1 DEF Ahead
      <4> QED
        BY <4>2, <4>3
    <3>2. batch[a] >= batch[b] /\ batch[b] >= batch[a]
      BY <2>2, <3>1
    <3>3. batch[a] \in Nat /\ batch[b] \in Nat
      BY <1>n
    <3> QED
      BY <3>2, <3>3
  <2>4. Ahead(a)' = Ahead(b)'
    BY <1>1, <2>3 DEF Ahead
  <2>5. Meets(a)' = Meets(b)'
    BY <1>1, <2>2, <2>4, TablesKept DEF Meets
  <2> QED
    BY <1>1, <2>1, <2>5
<1> QED
  BY <1>1, <1>2, <1>3, TogetherMeets

LEMMA GatherMeets ==
    ASSUME TypeOK, MeetInv, Gather
    PROVE  MeetInv'
<1>1. /\ Running /\ world \subseteq Ranks /\ \A r \in world : pc[r] \in {"gather", "evaluate"}
      /\ UNCHANGED <<conf, start, world, term, epoch, batch, model>>
  BY TrainingAssumption DEF Gather, Gathers, jobVars, TypeOK
<1>2. ASSUME NEW r \in world
      PROVE  /\ gstep'[r] = gstep[r] + IF pc[r] = "gather" THEN 1 ELSE 0
             /\ pc[r] = "gather" =>
                  pc'[r] = IF EvalDue("ba", gstep[r] + 1) THEN "evaluate" ELSE "check"
             /\ pc[r] = "evaluate" =>
                  pc'[r] = IF conf.unit = "ba" THEN "check"
                           ELSE IF conf.unit = "ep" THEN AfterEval(epoch[r]) ELSE "evaluate"
  <2>1. r \in Ranks /\ (At(r, "gather") <=> pc[r] = "gather")
                    /\ (At(r, "evaluate") <=> pc[r] = "evaluate")
    BY <1>1 DEF At
  <2>2. gstep'[r] = gstep[r] + IF At(r, "gather") THEN 1 ELSE 0
    BY <2>1 DEF Gather
  <2>3. pc'[r] =
          CASE At(r, "gather") /\ EvalDue("ba", gstep[r] + 1) -> "evaluate"
            [] At(r, "gather") /\ ~EvalDue("ba", gstep[r] + 1) -> "check"
            [] At(r, "evaluate") /\ conf.unit = "ba" -> "check"
            [] At(r, "evaluate") /\ conf.unit = "ep" -> AfterEval(epoch[r])
            [] OTHER -> pc[r]
    BY <2>1 DEF Gather
  <2>4. CASE pc[r] = "gather"
    BY <2>1, <2>2, <2>3, <2>4
  <2>5. CASE pc[r] = "evaluate"
    BY <2>1, <2>2, <2>3, <2>5
  <2> QED
    BY <1>1, <2>4, <2>5
<1>3. ASSUME NEW r \in world PROVE pc'[r] # "backward"
  BY <1>1, <1>2 DEF AfterEval
<1>4. ASSUME SameMeeting, NoneDisturbed, NEW a \in world, NEW b \in world
      PROVE  Meets(a)' = Meets(b)' /\ gstep'[a] = gstep'[b]
  <2>1. Meeting(pc[a], epoch[a], Ahead(a)) = Meeting(pc[b], epoch[b], Ahead(b))
        /\ gstep[a] = gstep[b]
    <3>1. ASSUME NEW r \in world PROVE Meets(r) = Meeting(pc[r], epoch[r], Ahead(r))
      BY <1>1 DEF Meets, NextMeeting
    <3> QED
      BY <1>1, <1>4, <3>1 DEF SameMeeting
  <2>2. pc[a] = pc[b] /\ epoch[a] = epoch[b] /\ Ahead(a) = Ahead(b)
    BY <2>1 DEF Meeting
  <2>3. pc'[a] = pc'[b] /\ gstep'[a] = gstep'[b]
    BY <1>1, <1>2, <2>1, <2>2
  <2>4. ASSUME NEW r \in world PROVE Ahead(r)' = Ahead(r)
    BY <1>1, <1>3, TablesKept DEF Ahead
  <2>5. Ahead(a)' = Ahead(b)'
    BY <2>2, <2>4
  <2> QED
    BY <1>1, <2>2, <2>3, <2>5, TablesKept DEF Meets
<1>5. NoneDisturbed' => NoneDisturbed
  BY <1>1 DEF NoneDisturbed
<1> QED
  BY <1>1, <1>3, <1>4, <1>5, TogetherMeets

LEMMA BarrierMeets ==
    ASSUME TypeOK, MeetInv, Barrier
    PROVE  MeetInv'
<1>1. /\ Running /\ world \subseteq Ranks
      /\ \A r \in world : pc[r] \in {"before_save", "made_dir", "finish"}
      /\ UNCHANGED <<conf, start, world, gstep, term, epoch, batch, model>>
  BY TrainingAssumption DEF Barrier, Barriers, jobVars, loopVars, TypeOK
<1>2. ASSUME NEW r \in world
      PROVE  /\ pc[r] = "before_save" => pc'[r] \in {"make_dir", "made_dir"}
             /\ pc[r] = "made_dir" => pc'[r] = "save_state"
             /\ pc[r] = "finish" => pc'[r] \in {"metrics", "done"}
  <2>1. pc'[r] =
          CASE At(r, "before_save") -> IF r = Main THEN "make_dir" ELSE "made_dir"
            [] At(r, "made_dir") -> "save_state"
            [] At(r, "finish") -> IF r = Main THEN "metrics" ELSE "done"
            [] OTHER -> pc[r]
    BY <1>1 DEF Barrier
  <2>2. CASE pc[r] = "before_save"
    BY <2>1, <2>2 DEF At
  <2>3. CASE pc[r] = "made_dir"
    BY <2>1, <2>3 DEF At
  <2>4. CASE pc[r] = "finish"
    BY <2>1, <2>4 DEF At
  <2> QED
    BY <1>1, <2>2, <2>3, <2>4
<1>3. ASSUME NEW r \in world PROVE pc'[r] # "backward"
  BY <1>1, <1>2
<1>4. ASSUME SameMeeting, NoneDisturbed, NEW a \in world, NEW b \in world
      PROVE  Meets(a)' = Meets(b)' /\ gstep'[a] = gstep'[b]
  <2>1. ASSUME NEW r \in world
        PROVE  /\ pc[r] \in {"before_save", "made_dir", "finish"}
               /\ Meets(r) = Meeting(pc[r], epoch[r], {})
    BY <1>1 DEF Meets, NextMeeting
  <2>2. Meets(a) = Meets(b) /\ gstep[a] = gstep[b]
    BY <1>1, <1>4 DEF SameMeeting
  <2>3. pc[a] = pc[b] /\ epoch[a] = epoch[b]
    BY <2>1, <2>2 DEF Meeting
  <2>4. ASSUME NEW r \in world
        PROVE  Meets(r)' = IF pc[r] = "before_save" THEN Meeting("made_dir", epoch[r], {})
                           ELSE IF pc[r] = "made_dir" THEN AfterSave(epoch[r])
                           ELSE Meeting("over", 0, {})
    <3>1. Meets(r)' = NextMeeting(pc'[r], epoch[r], Ahead(r)')
      BY <1>1, TablesKept DEF Meets
    <3> QED
      BY <1>2, <2>1, <3>1 DEF NextMeeting
  <2> QED
    BY <1>1, <2>2, <2>3, <2>4
<1>5. NoneDisturbed' => NoneDisturbed
  BY <1>1 DEF NoneDisturbed
<1> QED
  BY <1>1, <1>3, <1>4, <1>5, TogetherMeets

LEMMA LaunchMeets ==
    ASSUME TypeOK, Launch
    PROVE  MeetInv'
<1>1. PICK first, restored : EnterRun(first, world', restored)
  BY DEF Launch
<1>2. world' \subseteq Ranks
  BY TrainingAssumption, Launches
<1>3. ASSUME NEW r \in world'
      PROVE  pc'[r] = "batch" /\ epoch'[r] = first /\ batch'[r] = 0 /\ gstep'[r] = 0
  BY <1>1, <1>2 DEF EnterRun
<1>4. ASSUME NEW a \in world', NEW b \in world' PROVE Ahead(a)' = Ahead(b)'
  BY <1>3, <1>4 DEF Ahead
<1>5. ASSUME NEW a \in world', NEW b \in world' PROVE Meets(a)' = Meets(b)' /\ gstep'[a] = gstep'[b]
  <2>1. Ahead(a)' = Ahead(b)' /\ pc'[a] = pc'[b] /\ epoch'[a] = epoch'[b] /\ gstep'[a] = gstep'[b]
    BY <1>3, <1>4
  <2> QED
    BY <2>1 DEF Meets, NextMeeting, AfterLoop, BeforeExit, AfterSave
<1> QED
  BY <1>3, <1>5 DEF MeetInv, SameMeeting, BackwardAtStep

LEMMA MeetStep == TypeOK /\ MeetInv /\ [Next]_vars => MeetInv'
<1> SUFFICES ASSUME TypeOK, MeetInv, [Next]_vars PROVE MeetInv'
  OBVIOUS
<1>1. CASE Launch
  BY <1>1, LaunchMeets
<1>2. ASSUME NEW r \in Ranks, RankStep(r) PROVE MeetInv'
  BY <1>2, TrainMeets, ExhaustedMeets, CheckMeets, ExitMeets, StateMeets DEF RankStep
<1>3. ASSUME JobDies PROVE MeetInv'
  <2>1. world' \subseteq Ranks /\ \A r \in world' : pc'[r] = "down"
    BY <1>3, TrainingAssumption DEF JobDies, jobVars, TypeOK
  <2> QED
    BY <2>1 DEF MeetInv, SameMeeting, BackwardAtStep, Running
<1>4. ASSUME NEW r \in Ranks, SkipBatch(r) PROVE MeetInv'
  <2>1. /\ r \in world /\ pc[r] = "batch" /\ r \in Ranks
        /\ UNCHANGED <<conf, start, world, pc, gstep, term, epoch>>
        /\ batch' = [batch EXCEPT ![r] = @ + 1]
        /\ model' = [model EXCEPT ![r].whole = FALSE]
    BY <1>4 DEF SkipBatch, At, jobVars
  <2>2. PICK no : no = FALSE
    OBVIOUS
  <2>3. model[r] \in Contents
    BY <2>1 DEF TypeOK
  <2>4. model'[r] = [model[r] EXCEPT !.whole = no] /\ \A x \in world : x # r => model'[x] = model[x]
    BY <2>1, <2>2 DEF TypeOK
  <2>5. model'[r].whole = no
    BY <2>3, <2>4 DEF Contents
  <2>6. ~NoneDisturbed' /\ \A x \in world : model'[x].whole => model[x].whole
    BY <2>1, <2>2, <2>4, <2>5 DEF NoneDisturbed
  <2>7. \A x \in world : x # r => batch'[x] = batch[x]
    BY <2>1 DEF TypeOK
  <2> QED
    BY <2>1, <2>6, <2>7, MovesAlone
<1>5. ASSUME NEW r \in Ranks, Sigterm(r) PROVE MeetInv'
  <2>1. /\ r \in world /\ term' = [term EXCEPT ![r] = TRUE]
        /\ UNCHANGED <<conf, start, world, pc, gstep, epoch, batch>>
    BY <1>5 DEF Sigterm, At, jobVars, loopVars
  <2>2. ~NoneDisturbed'
    BY <2>1 DEF NoneDisturbed, TypeOK
  <2> QED
    BY <2>1, <2>2, TablesKept DEF MeetInv, SameMeeting, BackwardAtStep
<1>6. ASSUME UNCHANGED vars PROVE MeetInv'
  <2>1. UNCHANGED <<conf, start, world, pc, gstep, epoch, batch, term, model>>
    BY <1>6 DEF vars, jobVars, loopVars
  <2>2. SyncPoints' = SyncPoints /\ \A r : Ahead(r)' = Ahead(r)
    BY <2>1, TablesKept DEF Ahead
  <2>3. \A r : Meets(r)' = Meets(r)
    BY <2>1, <2>2, TablesKept DEF Meets
  <2>4. SameMeeting'
    BY <2>1, <2>3 DEF MeetInv, SameMeeting, Running, NoneDisturbed
  <2> QED
    BY <2>1, <2>2, <2>4 DEF MeetInv, BackwardAtStep
<1> QED
  BY <1>1, <1>2, <1>3, <1>4, <1>5, <1>6, MainMeets, ReduceMeets, GatherMeets, BarrierMeets
  DEF Next, Meet, Abort, Crash

(* "gating it on is_main_process deadlocks" (pipeline.py:177): the ranks   *)
(* of a job that nothing disturbs never wait for each other in collectives *)
(* that do not match, whatever their number, the intervals, the gradient   *)
(* accumulation and the launch.  RunEnds adds what fairness gives.         *)
THEOREM CollectivesMatch == Spec => []RanksMeet
<1>1. Init => MeetInv
  BY DEF Init, MeetInv, SameMeeting, BackwardAtStep
<1>2. TypeOK /\ MeetInv => RanksMeet
  <2> SUFFICES ASSUME TypeOK, MeetInv, Running, Undisturbed,
                      \A r \in world : pc[r] \in Waiting \cup {"done"}
               PROVE  \/ \A r \in world : pc[r] \in Reduces
                      \/ \A r \in world : pc[r] \in Gathers
                      \/ \A r \in world : pc[r] \in Barriers
    BY DEF RanksMeet
  <2>1. PICK a \in world : pc[a] \in Waiting
    BY DEF Running
  <2>2. CASE world = {Main}
    BY <2>1, <2>2 DEF Waiting
  <2>3. CASE NoneDisturbed
    <3>1. ASSUME NEW r \in world
          PROVE  Meets(r).at = IF pc[r] \in Waiting THEN pc[r] ELSE "over"
      BY <3>1 DEF Meets, NextMeeting, Meeting, Waiting, Reduces, Gathers, Barriers
    <3>2. \A r \in world : Meets(r) = Meets(a)
      BY <2>3 DEF MeetInv, SameMeeting
    <3>3. pc[a] # "over"
      BY <2>1 DEF Waiting, Reduces, Gathers, Barriers
    <3>4. \A r \in world : pc[r] = pc[a]
      BY <2>1, <3>1, <3>2, <3>3
    <3> QED
      BY <2>1, <3>4 DEF Waiting
  <2> QED
    BY <2>2, <2>3 DEF Undisturbed, NoneDisturbed
<1> QED
  BY <1>1, <1>2, MeetStep, TypeInit, TypeStep, PTL DEF Spec

-----------------------------------------------------------------------------
(* The data a run reads: the downloads of Datasets.                        *)

(* What download_dataset has extracted when it asks for the next archive   *)
(* or prepares the tree: a flat val/, of the published version where a     *)
(* checksum was compared.                                                  *)
TreeOf(d, v, roots) ==
    [version |-> v, roots |-> roots, nested |-> d \notin WithExtra, place |-> [i \in Images |-> Flat]]
FlatStaged(tree, d, roots) ==
    \E v : tree = TreeOf(d, v, roots) /\ (d \in Checked => v = Published)

Archives(d) == IF d \in WithExtra THEN {1, 2} ELSE {1}

(* What "already present" may trust.                                       *)
PreparedWell(d, tree) ==
    /\ tree.roots = Archives(d)
    /\ ~tree.nested
    /\ d \in Labelled => \A i \in DOMAIN tree.place : tree.place[i] = ClassOf[i]
    /\ d \in Sampled => Cardinality(DOMAIN tree.place) <= SampleSize
    /\ d \in Checked => tree.version = Published

AtFile == {"request", "receive", "verify", "extract"}

DataShape ==
    /\ DOMAIN target = Names /\ DOMAIN archive = Files
    /\ todo \in Seq(Names)
    /\ phase \in AtFile \cup {"prepare", "move"} =>
          todo # <<>> /\ file \in Files /\ (file[2] = 2 => file[1] \in WithExtra)

StagingGrows ==
    /\ phase \in AtFile /\ file[2] = 2 => FlatStaged(staging, file[1], {1})
    /\ phase = "extract" /\ file[2] = 1 /\ file[1] \in Checked => archive[file] = Digest
    /\ phase = "prepare" => FlatStaged(staging, file[1], Archives(file[1]))
    /\ phase = "move" => PreparedWell(file[1], staging)

InPlace == \A d \in Names : target[d] # Absent /\ ~ByHand(d) => PreparedWell(d, target[d])

LoadedTrue ==
    loaded # Absent =>
        /\ \A i \in DOMAIN loaded.place : loaded.place[i] = ClassOf[i]
        /\ {loaded.place[i] : i \in DOMAIN loaded.place} = Classes

DataInv == DataShape /\ StagingGrows /\ InPlace /\ LoadedTrue

\* A non-empty set of numbers has a least one.
Less == {ss \in Nat \X Nat : ss[1] < ss[2]}
LEMMA LessWF == IsWellFoundedOn(Less, Nat)
<1>1. OpToRel(<, Nat) = Less
  BY Zenon DEF OpToRel, Less
<1> QED
  BY <1>1, NatLessThanWellFounded, Zenon
LEMMA MinExists ==
    ASSUME NEW S \in SUBSET Nat, S # {}
    PROVE  \E i \in S : \A k \in S : i <= k
<1>1. \E x \in S : \A y \in S : <<y, x>> \notin Less
  BY LessWF, WFMin, Zenon
<1>2. PICK x \in S : \A y \in S : <<y, x>> \notin Less
  BY <1>1
<1>3. ASSUME NEW y \in S PROVE x <= y
  <2>1. x \in Nat /\ y \in Nat /\ <<y, x>> \in Nat \X Nat
    BY <1>2
  <2>2. ~(y < x)
    BY <1>2, <2>1 DEF Less
  <2> QED
    BY <2>1, <2>2
<1> QED
  BY <1>3

(* subsample_coco keeps no more images than the sample is large: those up  *)
(* to the kept image with the most images before it are all that is kept.  *)
LEMMA FewSampled ==
    ASSUME NEW D \in SUBSET Nat, IsFiniteSet(D), NEW n \in Nat
    PROVE  Cardinality({j \in D : Cardinality({k \in D : k <= j}) <= n}) <= n
<1> DEFINE Upto(j) == {k \in D : k <= j}
           Kept == {j \in D : Cardinality(Upto(j)) <= n}
           Rest == {n - Cardinality(Upto(j)) : j \in Kept}
<1>1. \A j \in D : IsFiniteSet(Upto(j)) /\ Cardinality(Upto(j)) \in Nat
  BY FS_Subset, FS_CardinalityType
<1> SUFFICES Cardinality(Kept) <= n
  OBVIOUS
<1>2. CASE Kept = {}
  <2> HIDE DEF Kept
  <2> QED
    BY <1>2, FS_EmptySet
<1>3. CASE Kept # {}
  <2>1. Rest \in SUBSET Nat /\ Rest # {}
    <3>1. \A j \in Kept : Cardinality(Upto(j)) \in Nat /\ Cardinality(Upto(j)) <= n
      BY <1>1
    <3>2. \A j \in Kept : n - Cardinality(Upto(j)) \in Nat
      <4> HIDE DEF Upto, Kept
      <4> QED
        BY <3>1
    <3> HIDE DEF Upto, Kept
    <3> QED
      BY <1>3, <3>2
  <2>2. PICK r \in Rest : \A k \in Rest : r <= k
    <3> HIDE DEF Rest
    <3> QED
      BY <2>1, MinExists
  <2>3. PICK j \in Kept : r = n - Cardinality(Upto(j))
    BY <2>2
  <2>4. ASSUME NEW i \in Kept PROVE i \in Upto(j)
    <3>1. n - Cardinality(Upto(j)) <= n - Cardinality(Upto(i))
      BY <2>2, <2>3
    <3>2. i \in Nat /\ j \in Nat
      OBVIOUS
    <3>3. CASE j < i
      <4>1. Upto(j) \subseteq Upto(i)
        <5>1. ASSUME NEW k \in D, k <= j PROVE k <= i
          BY <3>2, <3>3, <5>1
        <5> QED
          BY <5>1
      <4>2. i \in Upto(i) /\ i \notin Upto(j)
        BY <3>2, <3>3
      <4>3. Cardinality(Upto(j)) <= Cardinality(Upto(i))
            /\ (Cardinality(Upto(i)) = Cardinality(Upto(j)) => Upto(j) = Upto(i))
        <5>1. IsFiniteSet(Upto(i))
          BY <1>1
        <5> HIDE DEF Upto, Kept
        <5> QED
          BY <4>1, <5>1, FS_Subset
      <4>4. Cardinality(Upto(j)) \in Nat /\ Cardinality(Upto(i)) \in Nat
        BY <1>1
      <4> HIDE DEF Upto, Kept
      <4> QED
        BY <3>1, <4>2, <4>3, <4>4
    <3> QED
      BY <3>2, <3>3
  <2>5. Cardinality(Kept) <= Cardinality(Upto(j)) /\ Cardinality(Kept) \in Nat
    <3>1. IsFiniteSet(Upto(j))
      BY <1>1
    <3>2. Kept \subseteq Upto(j)
      BY <2>4
    <3> HIDE DEF Upto, Kept
    <3> QED
      BY <3>1, <3>2, FS_Subset, FS_CardinalityType
  <2>6. Cardinality(Upto(j)) \in Nat /\ Cardinality(Upto(j)) <= n
    BY <1>1
  <2> HIDE DEF Upto, Kept
  <2> QED
    BY <2>5, <2>6
<1> QED
  BY <1>2, <1>3


(* _prepare on a tree whose archives are all extracted: one root is        *)
(* flattened, val/ restructured, the sample kept.                          *)
LEMMA PreparesWell ==
    ASSUME NEW d \in Names, NEW v, d \in Checked => v = Published
    PROVE  PreparedWell(d, Prepared(d, TreeOf(d, v, Archives(d))))
<1>0. PICK no : no = FALSE
  OBVIOUS
<1> DEFINE tree == TreeOf(d, v, Archives(d))
           flat == [version |-> v, roots |-> Archives(d), nested |-> no, place |-> [i \in Images |-> Flat]]
<1> SUFFICES PreparedWell(d, Prepared(d, tree))
  OBVIOUS
<1>1. Flattened(tree) = flat
  <2>1. PICK n : n = (d \notin WithExtra)
    OBVIOUS
  <2>2. tree = [version |-> v, roots |-> Archives(d), nested |-> n, place |-> [i \in Images |-> Flat]]
    BY <2>1, Zenon DEF TreeOf
  <2>3. tree.roots = Archives(d) /\ tree.nested = n /\ [tree EXCEPT !.nested = no] = flat
    BY <2>2
  <2> HIDE DEF tree, flat
  <2>4. (IF Cardinality(tree.roots) = 1 THEN FALSE ELSE tree.nested) = no
    <3>1. Cardinality({1}) = 1
      BY FS_Singleton
    <3>2. Cardinality(Archives(d)) = 1 \/ n = FALSE
      BY <2>1, <3>1 DEF Archives
    <3> QED
      BY <1>0, <2>3, <3>2
  <2>5. Flattened(tree)
          = [tree EXCEPT !.nested = IF Cardinality(tree.roots) = 1 THEN FALSE ELSE tree.nested]
    BY Zenon DEF Flattened
  <2> QED
    BY <2>3, <2>4, <2>5, Zenon
<1>2. flat = [version |-> v, roots |-> Archives(d), nested |-> no, place |-> [i \in Images |-> Flat]]
  OBVIOUS
<1>3. DOMAIN flat.place = Images /\ \A i \in Images : flat.place[i] = Flat
  BY <1>2
<1> HIDE DEF flat
<1>4. CASE d \in Labelled
  <2>1. Prepared(d, tree) = Restructured(flat)
    BY <1>1, <1>4 DEF Prepared
  <2>2. d \notin Sampled
    BY DatasetsAssumption, <1>4
  <2>3. CASE Images = {}
    <3>1. Restructured(flat) = [flat EXCEPT !.place = flat.place]
      BY <1>3, <2>3 DEF Restructured, ImagesOf
    <3> QED
      BY <1>0, <1>2, <1>3, <2>1, <2>2, <2>3, <3>1 DEF PreparedWell
  <2>4. CASE Images # {}
    <3>1. Restructured(flat) =
            [flat EXCEPT !.place = [i \in Images \cap Annotated[flat.version] |-> ClassOf[i]]]
      BY <1>3, <2>4 DEF Restructured, ImagesOf
    <3>2. Prepared(d, tree) =
            [version |-> v, roots |-> Archives(d), nested |-> no,
             place |-> [i \in Images \cap Annotated[flat.version] |-> ClassOf[i]]]
      BY <1>0, <1>2, <2>1, <3>1
    <3> HIDE DEF tree
    <3> QED
      BY <1>0, <2>2, <3>2 DEF PreparedWell
  <2> QED
    BY <2>3, <2>4
<1>5. CASE d \in Sampled /\ d \notin Labelled
  <2>1. Prepared(d, tree) = Subsampled(flat)
    BY <1>1, <1>5 DEF Prepared
  <2> DEFINE kept == {j \in Images : Cardinality({k \in Images : k <= j}) <= SampleSize}
  <2>2. kept = {j \in Images : Cardinality({k \in Images : k <= j}) <= SampleSize}
    OBVIOUS
  <2>3. Subsampled(flat) = [flat EXCEPT !.place = [i \in kept |-> flat.place[i]]]
    <3> HIDE DEF kept
    <3> QED
      BY <1>3, <2>2 DEF Subsampled, ImagesOf
  <2>4. Cardinality(kept) <= SampleSize
    BY DatasetsAssumption, FewSampled
  <2> HIDE DEF kept
  <2>5. Subsampled(flat) = [version |-> v, roots |-> Archives(d), nested |-> no,
                                 place |-> [i \in kept |-> flat.place[i]]]
    BY <1>0, <1>2, <2>3
  <2> QED
    BY <1>0, <1>5, <2>1, <2>4, <2>5 DEF PreparedWell
<1>6. CASE d \notin Labelled /\ d \notin Sampled
  BY <1>0, <1>1, <1>2, <1>6 DEF Prepared, PreparedWell
<1> QED
  BY <1>4, <1>5, <1>6

LEMMA DataStarts == DataInit => DataInv
  BY EmptySeq DEF DataInit, DataInv, DataShape, AtFile, StagingGrows, InPlace, LoadedTrue

(* download_all goes on to the next dataset, or the process ends.          *)
LEMMA DataSkips ==
    ASSUME DataInv,
           (phase' = "dataset" /\ todo # <<>> /\ todo' = Tail(todo)) \/ (phase' = "idle" /\ todo' = <<>>),
           loaded' = loaded, DOMAIN archive' = DOMAIN archive, DOMAIN target' = DOMAIN target, InPlace'
    PROVE  DataInv'
<1>1. todo' \in Seq(Names)
  <2>1. CASE todo' = <<>>
    BY <2>1, EmptySeq
  <2>2. CASE todo' = Tail(todo) /\ todo # <<>>
    BY <2>2, HeadTailProperties DEF DataInv, DataShape
  <2> QED
    BY <2>1, <2>2
<1> QED
  BY <1>1 DEF DataInv, DataShape, AtFile, StagingGrows, LoadedTrue

(* The step of a file stays with it, and leaves its archives' tree alone.  *)
LEMMA DataStep ==
    ASSUME DataInv, [DataNext]_dataVars PROVE DataInv'
<1> USE DEF disk, process
<1>1. CASE Start
  <2>1. todo' \in Seq(Names)
    <3>1. ASSUME NEW d \in Names PROVE <<d>> \in Seq(Names)
      OBVIOUS
    <3> QED
      BY DatasetsAssumption, <1>1, <3>1 DEF Start
  <2> QED
    BY <1>1, <2>1 DEF Start, DataInv, DataShape, AtFile, StagingGrows, InPlace, LoadedTrue, ByHand
<1>2. CASE Exit
  BY <1>2 DEF Exit, DataInv, DataShape, AtFile, StagingGrows, InPlace, LoadedTrue, ByHand
<1>3. CASE BeginDataset
  <2> DEFINE d == Head(todo)
  <2>1. phase = "dataset" /\ todo # <<>> /\ UNCHANGED <<part, archive, upstream, loaded, faults>>
    BY <1>3 DEF BeginDataset
  <2>2. d \in Names
    BY <2>1, HeadTailProperties DEF DataInv, DataShape
  <2>3. CASE SkipToNext /\ UNCHANGED target
    <3>1. InPlace'
      BY <2>3 DEF DataInv, InPlace, ByHand
    <3> QED
      BY <2>1, <2>3, <3>1, DataSkips DEF SkipToNext
  <2>4. CASE /\ target' = [target EXCEPT ![d] = Absent] /\ file' = <<d, 1>> /\ phase' = "request"
             /\ UNCHANGED todo
    <3>1. file' \in Files
      BY <2>2, <2>4 DEF Files
    <3>2. InPlace'
      BY <2>4 DEF DataInv, DataShape, InPlace, ByHand
    <3> QED
      BY <2>1, <2>4, <3>1, <3>2 DEF DataInv, DataShape, AtFile, StagingGrows, LoadedTrue
  <2> QED
    BY <1>3, <2>3, <2>4 DEF BeginDataset
<1>4. CASE Request
  <2>1. phase = "request" /\ UNCHANGED <<archive, target, upstream, force, loaded, faults>>
    BY <1>4 DEF Request
  <2>2. CASE Fail
    <3>1. todo # <<>> /\ InPlace'
      BY <2>1 DEF DataInv, DataShape, AtFile, InPlace, ByHand
    <3> QED
      BY <2>1, <2>2, <3>1, DataSkips DEF Fail, SkipToNext
  <2>3. CASE phase' = "receive" /\ UNCHANGED <<todo, staging, file, failed>>
    BY <2>1, <2>3 DEF DataInv, DataShape, AtFile, StagingGrows, FlatStaged, InPlace, LoadedTrue, ByHand
  <2> QED
    BY <1>4, <2>2, <2>3 DEF Request
<1>5. CASE Receive
  BY <1>5 DEF Receive, DataInv, DataShape, AtFile, StagingGrows, FlatStaged, InPlace, LoadedTrue,
              ByHand
<1>6. CASE Rename
  BY <1>6 DEF Rename, DataInv, DataShape, AtFile, StagingGrows, FlatStaged, InPlace, LoadedTrue,
              ByHand
<1>7. CASE Verify
  <2>1. phase = "verify" /\ UNCHANGED <<part, archive, target, upstream, force, loaded, faults>>
    BY <1>7 DEF Verify
  <2>2. CASE Fail
    <3>1. todo # <<>> /\ InPlace'
      BY <2>1 DEF DataInv, DataShape, AtFile, InPlace, ByHand
    <3> QED
      BY <2>1, <2>2, <3>1, DataSkips DEF Fail, SkipToNext
  <2>3. CASE /\ Dataset(file) \notin Checked \/ md5(archive[file]) = Digest
             /\ phase' = "extract" /\ UNCHANGED <<todo, staging, file, failed, reply>>
    <3>1. file[1] \in Checked => archive[file] = Digest
      BY <2>3 DEF md5, Dataset
    <3> QED
      BY <2>1, <2>3, <3>1 DEF DataInv, DataShape, AtFile, StagingGrows, FlatStaged, InPlace, LoadedTrue,
                              ByHand, Digest
  <2> QED
    BY <1>7, <2>2, <2>3 DEF Verify
<1>8. CASE Extract
  <2>1. phase = "extract" /\ UNCHANGED <<part, target, upstream, force, failed, loaded, faults>>
    BY <1>8 DEF Extract
  <2>2. CASE phase' = "idle" /\ todo' = <<>> /\ UNCHANGED archive
    <3>1. InPlace'
      BY <2>1 DEF DataInv, InPlace, ByHand
    <3> QED
      BY <2>1, <2>2, <3>1, DataSkips
  <2>3. CASE /\ staging' = Extracted(staging, file, archive[file][1])
             /\ archive' = [archive EXCEPT ![file] = Absent]
             /\ IF file[2] = 1 /\ Dataset(file) \in WithExtra
                THEN phase' = "request" /\ file' = <<Dataset(file), 2>>
                ELSE phase' = "prepare" /\ UNCHANGED file
             /\ UNCHANGED <<todo, reply>>
    <3>1. todo # <<>> /\ file \in Files /\ (file[2] = 2 => file[1] \in WithExtra)
      BY <2>1 DEF DataInv, DataShape, AtFile
    <3>2. file[2] \in {1, 2} /\ file[1] \in Names
      BY <3>1 DEF Files
    <3>3. ASSUME file[2] = 1 PROVE FlatStaged(staging', file[1], {1})
      <4>1. PICK v : v = archive[file][1]
        OBVIOUS
      <4>2. staging' = TreeOf(file[1], v, {1})
        BY <2>3, <3>3, <4>1 DEF Extracted, FlatTree, Dataset, TreeOf
      <4>3. file[1] \in Checked => v = Published
        BY DatasetsAssumption, <2>1, <3>3, <4>1 DEF DataInv, StagingGrows, Digest
      <4> QED
        BY <2>3, <4>2, <4>3 DEF FlatStaged
    <3>4. ASSUME file[2] = 2 PROVE FlatStaged(staging', file[1], {1, 2})
      <4>1. PICK v : staging = TreeOf(file[1], v, {1}) /\ (file[1] \in Checked => v = Published)
        BY <2>1, <3>4 DEF DataInv, StagingGrows, AtFile, FlatStaged
      <4>2. staging' = TreeOf(file[1], v, {1, 2})
        <5>1. PICK n : n = (file[1] \notin WithExtra)
          OBVIOUS
        <5> DEFINE tree(roots) == [version |-> v, roots |-> roots, nested |-> n,
                                   place |-> [i \in Images |-> Flat]]
        <5>2. staging = tree({1})
          BY <4>1, <5>1, Zenon DEF TreeOf
        <5>6. TreeOf(file[1], v, {1, 2}) = tree({1, 2})
          BY <5>1, Zenon DEF TreeOf
        <5>3. staging' = [staging EXCEPT !.roots = @ \cup {2}]
          BY <2>3, <3>4 DEF Extracted
        <5>4. staging.roots \cup {2} = {1, 2}
          BY <5>2
        <5>5. [staging EXCEPT !.roots = {1, 2}] = tree({1, 2})
          <6>1. ASSUME NEW r PROVE [tree({1}) EXCEPT !.roots = r] = tree(r)
            OBVIOUS
          <6> HIDE DEF tree
          <6> QED
            BY <5>2, <6>1
        <5> HIDE DEF tree
        <5> QED
          BY <5>3, <5>4, <5>5, <5>6
      <4> QED
        BY <2>3, <4>1, <4>2 DEF FlatStaged
    <3>5. DataShape'
      BY <2>1, <2>3, <3>1, <3>2 DEF DataInv, DataShape, AtFile, Files, Dataset
    <3>6. InPlace' /\ LoadedTrue'
      BY <2>1 DEF DataInv, InPlace, LoadedTrue, ByHand
    <3>6a. file'[1] = file[1]
      BY <2>3 DEF Dataset
    <3>7. StagingGrows'
      <4>1. CASE file[2] = 1 /\ file[1] \in WithExtra
        BY <2>3, <3>3, <3>6a, <4>1 DEF StagingGrows, FlatStaged, Dataset
      <4>2. CASE file[2] = 1 /\ file[1] \notin WithExtra
        BY <2>3, <3>3, <3>6a, <4>2 DEF StagingGrows, FlatStaged, AtFile, Archives, Dataset
      <4>3. CASE file[2] = 2
        BY <2>3, <3>1, <3>4, <3>6a, <4>3 DEF StagingGrows, FlatStaged, AtFile, Archives, Dataset
      <4> QED
        BY <3>2, <4>1, <4>2, <4>3
    <3> QED
      BY <3>5, <3>6, <3>7 DEF DataInv
  <2> QED
    BY <1>8, <2>2, <2>3 DEF Extract
<1>9. CASE Prepare
  <2>1. phase = "prepare" /\ phase' = "move" /\ staging' = Prepared(file[1], staging)
        /\ UNCHANGED <<archive, target, todo, file, loaded>>
    BY <1>9 DEF Prepare, Dataset
  <2>2. file[1] \in Names
    BY <2>1 DEF DataInv, DataShape, Files
  <2>3. PICK v : staging = TreeOf(file[1], v, Archives(file[1])) /\ (file[1] \in Checked => v = Published)
    BY <2>1 DEF DataInv, StagingGrows, FlatStaged
  <2>4. PreparedWell(file[1], staging')
    BY <2>1, <2>2, <2>3, PreparesWell
  <2> QED
    BY <2>1, <2>4 DEF DataInv, DataShape, AtFile, StagingGrows, PreparedWell, InPlace, LoadedTrue, ByHand
<1>10. CASE Move
  <2>1. /\ phase = "move" /\ SkipToNext /\ UNCHANGED <<archive, loaded>>
        /\ target' = [target EXCEPT ![file[1]] = staging]
    BY <1>10 DEF Move, Dataset
  <2>2. PreparedWell(file[1], staging)
    BY <2>1 DEF DataInv, StagingGrows
  <2>3. InPlace'
    <3>1. ASSUME NEW d \in Names, target'[d] # Absent, ~ByHand(d)' PROVE PreparedWell(d, target'[d])
      <4>1. CASE d = file[1]
        BY <2>1, <2>2, <4>1 DEF DataInv, DataShape
      <4>2. CASE d # file[1]
        BY <2>1, <3>1, <4>2 DEF DataInv, InPlace, ByHand
      <4> QED
        BY <4>1, <4>2
    <3> QED
      BY <3>1 DEF InPlace
  <2>4. todo # <<>>
    BY <2>1 DEF DataInv, DataShape
  <2> QED
    BY <2>1, <2>3, <2>4, DataSkips DEF SkipToNext
<1>11. CASE \E d \in Labelled : LoadData(d)
  <2>1. PICK d \in Labelled : LoadData(d)
    BY <1>11
  <2>2. /\ target[d] # Absent /\ loaded' = target[d]
        /\ \A i \in DOMAIN target[d].place : target[d].place[i] # Flat
        /\ {target[d].place[i] : i \in DOMAIN target[d].place} = Classes
        /\ UNCHANGED <<archive, target, staging, phase, todo, file>>
    BY <2>1 DEF LoadData, AssertRestructured, ClassDirs, ImagesOf
  <2>3. \A i \in DOMAIN target[d].place : target[d].place[i] = ClassOf[i]
    <3>1. CASE ByHand(d)
      BY <2>2, <3>1 DEF ByHand, FlatTree
    <3>2. CASE ~ByHand(d)
      BY DatasetsAssumption, <2>2, <3>2 DEF DataInv, InPlace, PreparedWell
    <3> QED
      BY <3>1, <3>2
  <2> QED
    BY <2>2, <2>3 DEF DataInv, DataShape, AtFile, StagingGrows, FlatStaged, InPlace, LoadedTrue, ByHand
<1>12. CASE \E d \in Labelled : PlaceByHand(d)
  <2>1. PICK d \in Labelled : PlaceByHand(d)
    BY <1>12
  <2>2. /\ target' = [target EXCEPT ![d] = FlatTree(Published)]
        /\ UNCHANGED <<archive, staging, phase, todo, file, loaded>>
    BY <2>1 DEF PlaceByHand
  <2>3. InPlace'
    BY <2>2 DEF DataInv, DataShape, InPlace, ByHand
  <2> QED
    BY <2>2, <2>3 DEF DataInv, DataShape, AtFile, StagingGrows, FlatStaged, LoadedTrue
<1>13. CASE Kill
  <2>1. phase' = "idle" /\ todo' = <<>> /\ UNCHANGED <<archive, target, loaded>>
    BY <1>13 DEF Kill
  <2>2. InPlace'
    BY <2>1 DEF DataInv, InPlace, ByHand
  <2> QED
    BY <2>1, <2>2, DataSkips
<1>14. CASE CutTransfer
  <2>1. phase = "receive" /\ SkipToNext /\ UNCHANGED <<archive, target, loaded>>
    BY <1>14 DEF CutTransfer, Fail
  <2>2. todo # <<>> /\ InPlace'
    BY <2>1 DEF DataInv, DataShape, AtFile, InPlace, ByHand
  <2> QED
    BY <2>1, <2>2, DataSkips DEF SkipToNext
<1>15. CASE Republish \/ UNCHANGED dataVars
  <2>1. UNCHANGED <<archive, target, staging, phase, todo, file, loaded>>
    BY <1>15 DEF Republish, dataVars
  <2> QED
    BY <2>1 DEF DataInv, DataShape, AtFile, StagingGrows, FlatStaged, InPlace, LoadedTrue, ByHand
<1> QED
  BY <1>1, <1>2, <1>3, <1>4, <1>5, <1>6, <1>7, <1>8, <1>9, <1>10, <1>11, <1>12, <1>13, <1>14, <1>15
     DEF DataNext, Step

(* download_dataset (download_datasets.py): whatever run was killed or cut *)
(* off and resumed, "already present" trusts only what was prepared whole. *)
THEOREM DatasetsTrusted == DataSpec => []TrustedIsWhole
<1>1. DataInit => DataInv
  BY DataStarts
<1>2. DataInv /\ [DataNext]_dataVars => DataInv'
  BY DataStep
<1>3. DataInv => TrustedIsWhole
  BY DEF DataInv, InPlace, PreparedWell, Archives, TrustedIsWhole, ImagesOf
<1> QED
  BY <1>1, <1>2, <1>3, PTL DEF DataSpec

(* assert_val_is_restructured (tiny_imagenet.py): whoever put the tree in  *)
(* place, no image build_datasets accepts carries a wrong label.           *)
THEOREM LoadedTruthful == DataSpec => []LoadedLabelsTrue
<1>1. DataInit => DataInv
  BY DataStarts
<1>2. DataInv /\ [DataNext]_dataVars => DataInv'
  BY DataStep
<1>3. DataInv => LoadedLabelsTrue
  BY DEF DataInv, LoadedTrue, LoadedLabelsTrue, ImagesOf, ClassDirs
<1> QED
  BY <1>1, <1>2, <1>3, PTL DEF DataSpec
=============================================================================
