------------------------------ MODULE Training ------------------------------
(***************************************************************************)
(* A distributed training run of models/training: the ranks of one job,    *)
(* the collectives they meet in, the checkpoint written at the end of an   *)
(* epoch or on SIGTERM, and the files a run leaves for the export.  The    *)
(* job can die at any step and be launched again into the same directory,  *)
(* fresh or resuming from latest-epoch.                                    *)
(*                                                                         *)
(* A model's weights are abstracted to where they come from: the launch    *)
(* that made the last optimiser step, the number of steps, and whether     *)
(* every batch so far was trained on.                                      *)
(***************************************************************************)
EXTENDS Naturals, FiniteSets, FiniteSetsExt

CONSTANTS
    Ranks,        \* the processes of a job
    Main,         \* accelerator.is_main_process
    Configs,      \* records [unit, every, save, accum]
    NumEpochs,    \* training.epochs
    Batches,      \* whole batches in the training split
    StartEpochs,  \* the values of training.start_epoch_at
    MaxNan,       \* MAX_CONSECUTIVE_NAN
    MaxLaunches,  \* bound: launches into the directory
    MaxMishaps,   \* bound: non-finite losses, signals and deaths
    None, Torn    \* no file; a file whose write was cut short

Epochs == 0 .. (NumEpochs - 1)

(* What a checkpoint of one rank holds: a model, by where it comes from.   *)
Contents == [launch : Nat, steps : Nat, whole : BOOLEAN]
Stored == Contents \cup {None, Torn}

ASSUME TrainingAssumption ==
    /\ Main \in Ranks
    /\ None \notin Contents /\ Torn \notin Contents /\ None \notin Nat
    /\ NumEpochs \in Nat \ {0}
    /\ IsFiniteSet(Ranks) /\ Batches \in Nat /\ Batches >= Cardinality(Ranks)
    /\ StartEpochs \subseteq Nat /\ 0 \in StartEpochs

VARIABLES
    launch, start, world,                   \* the job: set by Launch
    conf,                                   \* its configuration, the same in every launch
    pc, epoch, batch, gstep, nan, saved,    \* per rank: the locals of run()
    term, model, final,                     \* sigterm_received, weights, last evaluation
    ckpt, weights, latest, tmp, again,      \* accelerate_states/
    files,                                  \* metrics.json, config.json, labels.json
    mishaps                                 \* mishaps so far: bounds the runs

jobVars  == <<launch, conf, start, world>>
loopVars == <<epoch, batch, gstep, nan, saved, model, final>>
stateDir == <<ckpt, weights, latest, tmp, again>>
vars     == <<jobVars, pc, loopVars, term, stateDir, files, mishaps>>

(* Where a rank can be.  The rank waits for the others at a collective.    *)
Reduces   == {"backward"}
Gathers   == {"gather", "evaluate"}
Barriers  == {"before_save", "made_dir", "finish"}
Saving    == {"before_save", "make_dir", "made_dir", "save_state", "writing_state",
              "weights", "writing_weights", "link", "replace"}
Summary   == {"metrics", "config", "labels"}
Places    == {"down", "done", "batch", "check", "exit"}
                \cup Reduces \cup Gathers \cup Barriers \cup Saving \cup Summary

Running == \E r \in world : pc[r] \notin {"down", "done"}
At(r, place) == r \in world /\ pc[r] = place
Goes(r, place) == pc' = [pc EXCEPT ![r] = place]

NewModel == [launch |-> launch', steps |-> 0, whole |-> TRUE]
Whole(content) == content \notin {None, Torn}

-----------------------------------------------------------------------------
Init ==
    /\ launch = 0 /\ start = 0 /\ world = {}
    /\ conf \in Configs
    /\ pc = [r \in Ranks |-> "down"]
    /\ epoch = [r \in Ranks |-> 0] /\ batch = [r \in Ranks |-> 0]
    /\ gstep = [r \in Ranks |-> 0] /\ nan = [r \in Ranks |-> 0]
    /\ saved = [r \in Ranks |-> None] /\ term = [r \in Ranks |-> FALSE]
    /\ model = [r \in Ranks |-> None] /\ final = None
    /\ ckpt = [e \in Epochs |-> [r \in Ranks |-> None]]
    /\ weights = [e \in Epochs |-> None]
    /\ latest = None /\ tmp = {} /\ again = {}
    /\ files = [metrics |-> None, config |-> None, labels |-> None]
    /\ mishaps = 0

(* _get_checkpoint_load_path with continue_folder unset: latest-epoch, or  *)
(* FileNotFoundError.                                                      *)
LoadPath == latest

(* calculate_steps_per_epoch: of the whole split, however many processes   *)
(* train on it and however many batches make a gradient step.              *)
D_StepsPerEpoch == Batches \div conf.accum
StepsPerEpoch == Batches
TotalSteps == StepsPerEpoch * NumEpochs

(* create_lr_scheduler: the position the schedule starts from.             *)
PriorSteps(first) == first * StepsPerEpoch
ScheduleAt(r) == PriorSteps(start) + gstep[r]

(* accelerator.prepare shards the loader: the batches of one rank's epoch. *)
Share == Batches \div Cardinality(world)

(* The locals run() starts with; load_state restores the model only.       *)
EnterRun(first, ranks, loaded) ==
    /\ start' = first
    /\ epoch' = [r \in Ranks |-> first]
    /\ batch' = [r \in Ranks |-> 0]
    /\ gstep' = [r \in Ranks |-> 0]
    /\ nan' = [r \in Ranks |-> 0]
    /\ saved' = [r \in Ranks |-> None]
    /\ term' = [r \in Ranks |-> FALSE]
    /\ model' = [r \in Ranks |-> IF r \in ranks THEN loaded ELSE None]
    /\ final' = None
    /\ pc' = [r \in Ranks |-> IF r \in ranks THEN "batch" ELSE "down"]

(* Every process of the job is gone, and with it what it held in memory.   *)
JobDies ==
    /\ pc' = [r \in Ranks |-> "down"]
    /\ epoch' = [r \in Ranks |-> 0] /\ batch' = [r \in Ranks |-> 0]
    /\ gstep' = [r \in Ranks |-> 0] /\ nan' = [r \in Ranks |-> 0]
    /\ saved' = [r \in Ranks |-> None] /\ term' = [r \in Ranks |-> FALSE]
    /\ model' = [r \in Ranks |-> None] /\ final' = None
    /\ UNCHANGED <<jobVars, stateDir, files>>

(* train.main: neither start_epoch_at nor continue_training is part of the *)
(* run's name, and so of its directory: each launch has its own and finds  *)
(* what the earlier ones left.  A position other than the start makes the  *)
(* schedule's constructor raise (its optimizer is new and has no           *)
(* initial_lr), and continue_training with nothing to load raises too:     *)
(* such a launch ends before the loop and leaves everything as it is.      *)
Starts(first) == PriorSteps(first) = 0
Resumable == LoadPath # None /\ Whole(ckpt[LoadPath][Main])

Launch ==
    /\ ~Running
    /\ launch < MaxLaunches
    /\ launch' = launch + 1
    /\ world' \in {{Main}, Ranks}
    /\ \E first \in StartEpochs :
          /\ Starts(first)
          /\ \/ EnterRun(first, world', NewModel)
             \/ Resumable /\ EnterRun(first, world', ckpt[LoadPath][Main])
    /\ UNCHANGED <<conf, stateDir, files, mishaps>>

-----------------------------------------------------------------------------
(* The training loop of one epoch.                                         *)

SyncPoint(b) == b % conf.accum = 0 \/ b = Share
EvalDue(unit, n) == conf.unit = unit /\ n % conf.every = 0
SaveDue(e) == (e + 1) % conf.save = 0
AfterEval(e) == IF SaveDue(e) THEN "before_save" ELSE "exit"
LeaveLoop(r) == IF EvalDue("ep", epoch[r] + 1) THEN "evaluate" ELSE AfterEval(epoch[r])

(* A finite loss: backward, which waits for the other ranks when this      *)
(* micro-batch closes the accumulation window.                             *)
TrainBatch(r) ==
    /\ At(r, "batch") /\ batch[r] < Share
    /\ batch' = [batch EXCEPT ![r] = @ + 1]
    /\ nan' = [nan EXCEPT ![r] = 0]
    /\ Goes(r, IF SyncPoint(batch[r] + 1) THEN "backward" ELSE "batch")
    /\ UNCHANGED <<jobVars, epoch, gstep, saved, model, final, term, stateDir, files, mishaps>>

(* A non-finite loss on this rank: the batch is skipped, and with it the   *)
(* collectives the other ranks enter.                                      *)
SkipBatch(r) ==
    /\ At(r, "batch") /\ batch[r] < Share
    /\ mishaps < MaxMishaps /\ nan[r] + 1 < MaxNan
    /\ mishaps' = mishaps + 1
    /\ batch' = [batch EXCEPT ![r] = @ + 1]
    /\ nan' = [nan EXCEPT ![r] = @ + 1]
    /\ model' = [model EXCEPT ![r].whole = FALSE]
    /\ UNCHANGED <<jobVars, pc, epoch, gstep, saved, final, term, stateDir, files>>

(* The MAX_CONSECUTIVE_NAN-th in a row raises; the launcher stops the job. *)
Abort(r) ==
    /\ At(r, "batch") /\ batch[r] < Share
    /\ mishaps < MaxMishaps /\ nan[r] + 1 >= MaxNan
    /\ mishaps' = mishaps + 1
    /\ JobDies

Exhausted(r) ==
    /\ At(r, "batch") /\ batch[r] = Share
    /\ Goes(r, LeaveLoop(r))
    /\ UNCHANGED <<jobVars, loopVars, term, stateDir, files, mishaps>>

(* backward's all-reduce and the optimiser step behind it.                 *)
AllReduce ==
    /\ Running
    /\ \A r \in world : pc[r] \in Reduces
    /\ model' = [r \in Ranks |-> IF r \notin world THEN model[r]
                    ELSE [model[r] EXCEPT !.launch = launch, !.steps = @ + 1]]
    /\ pc' = [r \in Ranks |-> IF r \in world THEN "gather" ELSE pc[r]]
    /\ UNCHANGED <<jobVars, epoch, batch, gstep, nan, saved, final, term, stateDir, files, mishaps>>

D_Evaluated == IF pc[Main] = "evaluate" /\ final = None THEN model[Main] ELSE final

(* _evaluate ends in _log_eval_metrics, which keeps the result on main.    *)
Evaluated == IF pc[Main] = "evaluate" THEN model[Main] ELSE final

(* gather of the step's loss, and gather_for_metrics in the evaluation.    *)
Gather ==
    /\ Running
    /\ \A r \in world : pc[r] \in Gathers
    /\ gstep' = [r \in Ranks |-> gstep[r] + IF At(r, "gather") THEN 1 ELSE 0]
    /\ final' = Evaluated
    /\ pc' = [r \in Ranks |->
                CASE At(r, "gather") /\ EvalDue("ba", gstep[r] + 1) -> "evaluate"
                  [] At(r, "gather") /\ ~EvalDue("ba", gstep[r] + 1) -> "check"
                  [] At(r, "evaluate") /\ conf.unit = "ba" -> "check"
                  [] At(r, "evaluate") /\ conf.unit = "ep" -> AfterEval(epoch[r])
                  [] OTHER -> pc[r]]
    /\ UNCHANGED <<jobVars, epoch, batch, nan, saved, model, term, stateDir, files, mishaps>>

(* if sigterm_received: break                                              *)
CheckSignal(r) ==
    /\ At(r, "check")
    /\ IF term[r]
       THEN /\ Goes(r, LeaveLoop(r))
            /\ model' = [model EXCEPT ![r].whole = @ /\ batch[r] = Share]
       ELSE /\ Goes(r, "batch")
            /\ UNCHANGED model
    /\ UNCHANGED <<jobVars, epoch, batch, gstep, nan, saved, final, term, stateDir, files, mishaps>>

D_ExitCheck(r) ==      \* leaves at once on SIGTERM
    /\ At(r, "exit")
    /\ IF ~term[r] /\ epoch[r] + 1 < start + NumEpochs
       THEN /\ epoch' = [epoch EXCEPT ![r] = @ + 1]
            /\ batch' = [batch EXCEPT ![r] = 0]
            /\ Goes(r, "batch")
       ELSE /\ Goes(r, "finish")
            /\ UNCHANGED <<epoch, batch>>
    /\ UNCHANGED <<jobVars, gstep, nan, saved, model, final, term, stateDir, files, mishaps>>

(* The end of the epoch's body: checkpoint before leaving on SIGTERM       *)
(* unless this epoch has one, else the next epoch.                         *)
ExitCheck(r) ==
    /\ At(r, "exit")
    /\ \/ /\ term[r] /\ saved[r] # epoch[r]
          /\ Goes(r, "before_save")
          /\ UNCHANGED <<epoch, batch>>
       \/ /\ term[r] /\ saved[r] = epoch[r]
          /\ Goes(r, "finish")
          /\ UNCHANGED <<epoch, batch>>
       \/ /\ ~term[r] /\ epoch[r] + 1 < start + NumEpochs
          /\ epoch' = [epoch EXCEPT ![r] = @ + 1]
          /\ batch' = [batch EXCEPT ![r] = 0]
          /\ Goes(r, "batch")
       \/ /\ ~term[r] /\ epoch[r] + 1 >= start + NumEpochs
          /\ Goes(r, "finish")
          /\ UNCHANGED <<epoch, batch>>
    /\ UNCHANGED <<jobVars, gstep, nan, saved, model, final, term, stateDir, files, mishaps>>

-----------------------------------------------------------------------------
(* _save_checkpoint, step by step.                                         *)

D_Barrier ==           \* save_state on the main process only
    /\ Running
    /\ \A r \in world : pc[r] \in Barriers
    /\ pc' = [r \in Ranks |->
                CASE At(r, "before_save") -> IF r = Main THEN "make_dir" ELSE "exit"
                  [] At(r, "made_dir") -> "save_state"
                  [] At(r, "finish") -> IF r = Main THEN "metrics" ELSE "done"
                  [] OTHER -> pc[r]]
    /\ UNCHANGED <<jobVars, loopVars, term, stateDir, files, mishaps>>

(* wait_for_everyone: any barrier of one rank pairs with any of another.   *)
Barrier ==
    /\ Running
    /\ \A r \in world : pc[r] \in Barriers
    /\ pc' = [r \in Ranks |->
                CASE At(r, "before_save") -> IF r = Main THEN "make_dir" ELSE "made_dir"
                  [] At(r, "made_dir") -> "save_state"
                  [] At(r, "finish") -> IF r = Main THEN "metrics" ELSE "done"
                  [] OTHER -> pc[r]]
    /\ UNCHANGED <<jobVars, loopVars, term, stateDir, files, mishaps>>

(* mkdir(exist_ok=True): a directory left by an earlier save is reused.    *)
MakeDir ==
    /\ At(Main, "make_dir")
    /\ again' = again \cup {e \in {epoch[Main]} : \E r \in Ranks : ckpt[e][r] # None}
    /\ Goes(Main, "made_dir")
    /\ UNCHANGED <<jobVars, loopVars, term, ckpt, weights, latest, tmp, files, mishaps>>

(* accelerator.save_state: every rank writes its part.                     *)
BeginState(r) ==
    /\ At(r, "save_state")
    /\ ckpt' = [ckpt EXCEPT ![epoch[r]][r] = Torn]
    /\ Goes(r, "writing_state")
    /\ UNCHANGED <<jobVars, loopVars, term, weights, latest, tmp, again, files, mishaps>>

D_EndState(r) ==       \* the link first, the weights not yet
    /\ At(r, "writing_state")
    /\ ckpt' = [ckpt EXCEPT ![epoch[r]][r] = model[r]]
    /\ saved' = [saved EXCEPT ![r] = IF r = Main THEN @ ELSE epoch[r]]
    /\ Goes(r, IF r = Main THEN "link" ELSE "exit")
    /\ UNCHANGED <<jobVars, epoch, batch, gstep, nan, model, final, term,
                   weights, latest, tmp, again, files, mishaps>>

(* The other ranks return here; main exports the weights.                  *)
EndState(r) ==
    /\ At(r, "writing_state")
    /\ ckpt' = [ckpt EXCEPT ![epoch[r]][r] = model[r]]
    /\ saved' = [saved EXCEPT ![r] = IF r = Main THEN @ ELSE epoch[r]]
    /\ Goes(r, IF r = Main THEN "weights" ELSE "exit")
    /\ UNCHANGED <<jobVars, epoch, batch, gstep, nan, model, final, term,
                   weights, latest, tmp, again, files, mishaps>>

BeginWeights ==
    /\ At(Main, "weights")
    /\ weights' = [weights EXCEPT ![epoch[Main]] = Torn]
    /\ Goes(Main, "writing_weights")
    /\ UNCHANGED <<jobVars, loopVars, term, ckpt, latest, tmp, again, files, mishaps>>

EndWeights ==
    /\ At(Main, "writing_weights")
    /\ weights' = [weights EXCEPT ![epoch[Main]] = model[Main]]
    /\ Goes(Main, "link")
    /\ UNCHANGED <<jobVars, loopVars, term, ckpt, latest, tmp, again, files, mishaps>>

(* The temporary link; one a dead process left is unlinked first.          *)
MakeLink ==
    /\ At(Main, "link")
    /\ tmp' = tmp \cup {epoch[Main]}
    /\ Goes(Main, "replace")
    /\ UNCHANGED <<jobVars, loopVars, term, ckpt, weights, latest, again, files, mishaps>>

(* os.replace, and the best-effort upload that never fails the run.        *)
ReplaceLatest ==
    /\ At(Main, "replace")
    /\ latest' = epoch[Main]
    /\ tmp' = tmp \ {epoch[Main]}
    /\ saved' = [saved EXCEPT ![Main] = epoch[Main]]
    /\ Goes(Main, "exit")
    /\ UNCHANGED <<jobVars, epoch, batch, gstep, nan, model, final, term,
                   ckpt, weights, again, files, mishaps>>

-----------------------------------------------------------------------------
(* _write_run_summary, on main, after run() has returned: three files.     *)
WriteSummary(place, name, value, next) ==
    /\ At(Main, place)
    /\ files' = [files EXCEPT ![name] = value]
    /\ Goes(Main, next)
    /\ UNCHANGED <<jobVars, loopVars, term, stateDir, mishaps>>

WriteMetrics == WriteSummary("metrics", "metrics", [launch |-> launch, of |-> final], "config")
WriteConfig  == WriteSummary("config", "config", launch, "labels")
WriteLabels  == WriteSummary("labels", "labels", launch, "done")

(* The handler run() installs sets a flag of its own process, whichever    *)
(* step that is at.  The loop reads it at two places only, so a signal is  *)
(* delivered to a rank that is about to read it: earlier is the same.      *)
Sigterm(r) ==
    /\ At(r, "check") \/ At(r, "exit")
    /\ ~term[r]
    /\ mishaps < MaxMishaps
    /\ mishaps' = mishaps + 1
    /\ term' = [term EXCEPT ![r] = TRUE]
    /\ UNCHANGED <<jobVars, pc, loopVars, stateDir, files>>

(* The job dies: a kill, a lost node, a collective that times out.         *)
Crash ==
    /\ Running
    /\ mishaps < MaxMishaps
    /\ mishaps' = mishaps + 1
    /\ JobDies

-----------------------------------------------------------------------------
(* What rank r does on its own, and main alone.                            *)
RankStep(r) ==
    TrainBatch(r) \/ Exhausted(r) \/ CheckSignal(r) \/ ExitCheck(r) \/ BeginState(r) \/ EndState(r)
MainStep ==
    MakeDir \/ BeginWeights \/ EndWeights \/ MakeLink \/ ReplaceLatest
        \/ WriteMetrics \/ WriteConfig \/ WriteLabels
Meet == AllReduce \/ Gather \/ Barrier

Next ==
    \/ Launch
    \/ \E r \in Ranks : RankStep(r) \/ SkipBatch(r) \/ Abort(r) \/ Sigterm(r)
    \/ MainStep
    \/ Meet
    \/ Crash

Spec == Init /\ [][Next]_vars

(* A process that can take a step of its code takes it, and a collective   *)
(* every rank has entered completes.  Launches and faults are not forced.  *)
FairSpec ==
    /\ Spec
    /\ \A r \in Ranks : WF_vars(RankStep(r))
    /\ WF_vars(MainStep)
    /\ WF_vars(Meet)

-----------------------------------------------------------------------------
(* Types of the variables of a training job.                               *)
TypeOK ==
    /\ launch \in Nat /\ conf \in Configs /\ world \in {{}, {Main}, Ranks}
    /\ start \in Epochs /\ start + NumEpochs - 1 \in Epochs
    /\ pc \in [Ranks -> Places]
    /\ epoch \in [Ranks -> Epochs] /\ batch \in [Ranks -> 0 .. Batches]
    /\ gstep \in [Ranks -> Nat] /\ nan \in [Ranks -> Nat]
    /\ saved \in [Ranks -> Epochs \cup {None}] /\ term \in [Ranks -> BOOLEAN]
    /\ model \in [Ranks -> Contents \cup {None}] /\ final \in Contents \cup {None}
    /\ \A r \in Ranks : pc[r] # "down" => model[r] \in Contents
    /\ ckpt \in [Epochs -> [Ranks -> Stored]] /\ weights \in [Epochs -> Stored]
    /\ latest \in Epochs \cup {None} /\ tmp \in SUBSET Epochs /\ again \in SUBSET Epochs
    /\ mishaps \in Nat

(* Whatever step the job dies at, the checkpoint latest-epoch names is     *)
(* complete on the main process and its exported weights are the same      *)
(* model (pipeline.py:189-206 writes both before the link is replaced),    *)
(* unless that directory was written a second time, in place.              *)
LatestIsWhole ==
    latest # None /\ latest \notin again =>
        Whole(ckpt[latest][Main]) /\ weights[latest] = ckpt[latest][Main]

(* "SIGTERM checkpoints and exits cleanly, so a pre-empted spot instance   *)
(* ... does not discard an epoch of work" (pipeline.py:8): a run that left *)
(* its epoch loop early has the very model it held under latest-epoch,     *)
(* also when the epoch's regular checkpoint had been written already.      *)
EarlyExitKeepsWork ==
    /\ pc[Main] \in {"finish", "done"} \cup Summary
    /\ epoch[Main] + 1 < start + NumEpochs
    => latest = epoch[Main] /\ ckpt[latest][Main] = model[Main]

(* load_classifier_from_run exports the weights with the highest epoch     *)
(* number and metrics.json is published beside them: with an evaluation    *)
(* and a checkpoint every epoch, the metrics of a run that finished are    *)
(* those of these weights when they are the ones latest-epoch names.       *)
Exported == {e \in Epochs : weights[e] # None}
MetricsDescribeWeights ==
    /\ pc[Main] = "done" /\ conf.unit = "ep" /\ conf.every = 1 /\ conf.save = 1
    /\ Exported # {} /\ latest = Max(Exported)
    => files.metrics.of = weights[latest]

(* "explicit scheduler-step arithmetic" (utility.py:5): however many       *)
(* processes train, whatever they accumulate or skip and wherever a run    *)
(* was resumed, no rank steps its schedule beyond num_training_steps,      *)
(* where a cosine turns upwards again; and one process that accumulates    *)
(* nothing and missed no batch ends each epoch exactly on its share of it. *)
ScheduleSpansRun ==
    \A r \in world : pc[r] # "down" =>
        /\ ScheduleAt(r) <= TotalSteps
        /\ world = {Main} /\ conf.accum = 1 /\ model[r].whole /\ pc[r] = "exit"
              => ScheduleAt(r) = PriorSteps(epoch[r] + 1)

(* The ranks never wait for each other for ever: a job of one process, or  *)
(* one in which no rank skipped a batch or was told to stop, ends          *)
(* ("gating it on is_main_process deadlocks", pipeline.py:177).            *)
Undisturbed ==
    world = {Main} \/ \A r \in world : ~term[r] /\ model[r].whole
RunEnds == (Running /\ Undisturbed) ~> (~Running \/ ~Undisturbed)

=============================================================================
