---------------------------- MODULE ModelRegistry ----------------------------
(***************************************************************************)
(* The artefacts that scripts/prepare_artifacts.py publishes, the models a *)
(* replica of the API loads from them at startup                           *)
(* (api/services/model_service.py, api/main.py), and the experiment it     *)
(* accepts (api/services/experiment_service.py).                           *)
(*                                                                         *)
(* A training run is a number.  A file on disk is the number of the run    *)
(* whose labels or weights it holds, Absent when there is none.  Publishing*)
(* writes the files one after another, so a replica may start in between;  *)
(* a startup reads them at one instant.                                    *)
(***************************************************************************)
EXTENDS Naturals, Sequences, FiniteSets

CONSTANTS
    Replicas,        \* processes of the API
    Versions,        \* versions of the classifier
    DefaultVersion,  \* DEFAULT_VERSION, in the flat layout
    Chain,           \* fallback chain of the configured backend, best first
    Int8,            \* the backend that reads the INT8 graph
    Initially,       \* the versions published in full at first, in order
    Entries,         \* the entries of experiments.json, None if not an object
    Total,           \* what the weights must sum to (1.0)
    Position,        \* <<experiment name, user>> -> hash, below Total
    MaxRun,          \* bound: training runs
    MaxStarts,       \* bound: startups
    None

Absent   == 0
Runs     == 1..MaxRun
Backends == {Chain[i] : i \in DOMAIN Chain}

ASSUME RegistryAssumption ==
    /\ DefaultVersion \in Versions
    /\ None \notin Versions
    /\ Initially \in Seq(Versions) /\ Len(Initially) <= MaxRun
    /\ MaxRun \in Nat
    /\ MaxStarts \in Nat

IsSequence(s) == Len(s) \in Nat /\ DOMAIN s = 1..Len(s)

ASSUME EntriesAssumption ==
    /\ IsSequence(Entries)
    /\ \A i \in DOMAIN Entries : Entries[i] = None \/ IsSequence(Entries[i].variants)

VARIABLES
    files,       \* version -> its labels.json, FP32 graph and INT8 graph
    publishing,  \* the run of prepare_artifacts in progress, or None
    published,   \* the version each run was published as, in order
    replica,     \* process -> loaded models, active version, experiment
    starts       \* startups so far

registryVars == <<files, publishing, published, replica, starts>>

-----------------------------------------------------------------------------
(* Publishing.  The labels are written first, whatever the options; then the
   FP32 graph, and the INT8 graph quantized from the FP32 file.  Without
   --force a graph that exists is kept.  The INT8 export is skipped on request
   and when it raises.                                                      *)

WriteLabels(v, force) ==
    /\ publishing = None
    /\ Len(published) < MaxRun
    /\ published' = Append(published, v)
    /\ files' = [files EXCEPT ![v].labels = Len(published')]
    /\ publishing' = [version |-> v, run |-> Len(published'), force |-> force, step |-> "fp32"]
    /\ UNCHANGED <<replica, starts>>

ExportFp32 ==
    /\ publishing # None
    /\ publishing.step = "fp32"
    /\ files' = IF files[publishing.version].fp32 # Absent /\ ~publishing.force
                THEN files
                ELSE [files EXCEPT ![publishing.version].fp32 = publishing.run]
    /\ publishing' = [publishing EXCEPT !.step = "int8"]
    /\ UNCHANGED <<published, replica, starts>>

ExportInt8 ==
    /\ publishing # None
    /\ publishing.step = "int8"
    /\ files[publishing.version].int8 # Absent => publishing.force
    /\ files' = [files EXCEPT ![publishing.version].int8 =
                                files[publishing.version].fp32]
    /\ publishing' = None
    /\ UNCHANGED <<published, replica, starts>>

\* The script ends: done, without an INT8 graph, or because an export raised.
EndPublish ==
    /\ publishing # None
    /\ publishing' = None
    /\ UNCHANGED <<files, published, replica, starts>>

Publish ==
    \/ \E v \in Versions, force \in BOOLEAN : WriteLabels(v, force)
    \/ ExportFp32 \/ ExportInt8 \/ EndPublish

-----------------------------------------------------------------------------
(* Loading                                                                  *)

D_GraphFallsBack(v, backend) ==
    LET own == IF backend = Int8 THEN files[v].int8 ELSE files[v].fp32
    IN IF own # Absent THEN own ELSE files[DefaultVersion].fp32

\* _artifact_for and resolve_versioned_artifact: every version has its own
\* files, and FP32 serves every backend but one.
Graph(v, backend) == IF backend = Int8 THEN files[v].int8 ELSE files[v].fp32

\* What load_classifier may return: labels are mandatory, and any candidate of
\* the chain that has a graph may be the first whose session and warm-up work.
Loads(v) ==
    IF files[v].labels = Absent THEN {}
    ELSE {[version |-> v, backend |-> b, weights |-> Graph(v, b), labels |-> files[v].labels] :
             b \in {b \in Backends : Graph(v, b) # Absent}}

CumulativeWeight(e) ==
    LET sum[i \in 0..Len(e.variants)] ==
            IF i = 0 THEN 0 ELSE sum[i - 1] + e.variants[i].weight
    IN sum

\* The checks of Variant and Experiment at construction.
WellFormed(e) ==
    /\ Len(e.variants) > 0
    /\ \A i \in DOMAIN e.variants : e.variants[i].weight \in 0..Total
    /\ CumulativeWeight(e)[Len(e.variants)] = Total
    /\ \A i, k \in DOMAIN e.variants : e.variants[i].name = e.variants[k].name => i = k

D_ServableControl(e, loaded) == e.variants[1].version \in loaded

Servable(e, loaded) == \A i \in DOMAIN e.variants : e.variants[i].version \in loaded

D_LoadExperiment(loaded) ==
    LET good == {i \in DOMAIN Entries : WellFormed(Entries[i])}
        last == Entries[CHOOSE i \in good : \A k \in good : k <= i]
        kept == SelectSeq(last.variants, LAMBDA x : x.version \in loaded)
    IN IF good = {} \/ kept = <<>> THEN None ELSE [last EXCEPT !.variants = kept]

\* ExperimentRegistry.load: entries that cannot be served are dropped, and the
\* last of the others stands for the model.
LoadExperiment(loaded) ==
    LET good == {i \in DOMAIN Entries : WellFormed(Entries[i]) /\ Servable(Entries[i], loaded)}
    IN IF good = {} THEN None
       ELSE Entries[CHOOSE i \in good : \A k \in good : k <= i]

Down(why) == [up |-> FALSE, why |-> why, loaded |-> <<>>, active |-> None, experiment |-> None]

\* lifespan up to its yield: the default version must load and becomes active,
\* any other version may; the experiments come last.  An entry that is not an
\* object raises outside any handler, whatever was loaded.
Startup(r) ==
    /\ ~replica[r].up
    /\ starts < MaxStarts
    /\ starts' = starts + 1
    /\ \E versions \in SUBSET Versions :
         /\ \A v \in versions : Loads(v) # {}
         /\ \E loaded \in [versions -> UNION {Loads(v) : v \in versions}] :
              /\ \A v \in versions : loaded[v] \in Loads(v)
              /\ replica' = [replica EXCEPT ![r] =
                   IF DefaultVersion \notin versions THEN Down("no_model")
                   ELSE IF \E i \in DOMAIN Entries : Entries[i] = None
                   THEN Down("experiment_error")
                   ELSE [up |-> TRUE, why |-> "serving", loaded |-> loaded,
                         active |-> DefaultVersion,
                         experiment |-> LoadExperiment(versions)]]
    /\ UNCHANGED <<files, publishing, published>>

Stop(r) ==
    /\ replica[r].up
    /\ replica' = [replica EXCEPT ![r] = Down("stopped")]
    /\ UNCHANGED <<files, publishing, published, starts>>

D_SetActive(r, v) ==
    /\ replica[r].up
    /\ replica' = [replica EXCEPT ![r].active = v]
    /\ UNCHANGED <<files, publishing, published, starts>>

\* set_active, the promotion of docs/operations.md.
SetActive(r, v) ==
    /\ replica[r].up
    /\ v \in DOMAIN replica[r].loaded
    /\ replica' = [replica EXCEPT ![r].active = v]
    /\ UNCHANGED <<files, publishing, published, starts>>

-----------------------------------------------------------------------------
(* Resolution                                                               *)

\* Experiment.assign
Assign(e, user) ==
    LET sum   == CumulativeWeight(e)
        below == {i \in DOMAIN e.variants : Position[<<e.name, user>>] < sum[i]}
    IN IF ~e.enabled THEN e.variants[1]
       ELSE IF below = {} THEN e.variants[Len(e.variants)]
       ELSE e.variants[CHOOSE i \in below : \A k \in below : i <= k]

\* ModelService.get: the named version, or the active one; None if not loaded.
Get(r, version) ==
    LET resolved == IF version = None THEN replica[r].active ELSE version
    IN IF resolved \in DOMAIN replica[r].loaded THEN replica[r].loaded[resolved] ELSE None

RegistryInit ==
    /\ files = [v \in Versions |->
         LET run == IF \E i \in DOMAIN Initially : Initially[i] = v
                    THEN CHOOSE i \in DOMAIN Initially : Initially[i] = v ELSE Absent
         IN [labels |-> run, fp32 |-> run, int8 |-> run]]
    /\ publishing = None
    /\ published = Initially
    /\ replica = [r \in Replicas |-> Down("stopped")]
    /\ starts = 0

-----------------------------------------------------------------------------
(* Properties                                                               *)

Files  == [labels : 0..MaxRun, fp32 : 0..MaxRun, int8 : 0..MaxRun]
Models == [version : Versions, backend : Backends, weights : Runs, labels : Runs]

ASSUME NoneAssumption == None \notin Models

LoadedSets == UNION {[V -> Models] : V \in SUBSET Versions}

ReplicaStates ==
    [up : BOOLEAN, why : {"stopped", "no_model", "experiment_error", "serving"},
     loaded : LoadedSets, active : Versions \cup {None},
     experiment : {None} \cup {Entries[i] : i \in DOMAIN Entries}]

RegistryTypeOK ==
    /\ files \in [Versions -> Files]
    /\ published \in Seq(Versions) /\ Len(published) <= MaxRun
    /\ publishing = None
       \/ publishing \in [version : Versions, run : Runs, force : BOOLEAN, step : {"fp32", "int8"}]
    /\ replica \in [Replicas -> ReplicaStates]
    /\ \A r \in Replicas : replica[r].up <=> replica[r].active \in DOMAIN replica[r].loaded
    /\ starts \in 0..MaxStarts

\* "a caller pinning v2 silently receives v1 weights while the response claims
\* v2": what is loaded as a version was published as that version, weights and
\* labels, however publishing was interrupted.
VersionsNotMixed ==
    \A r \in Replicas : \A v \in DOMAIN replica[r].loaded :
        LET m == replica[r].loaded[v]
        IN published[m.weights] = v /\ published[m.labels] = v
=============================================================================
