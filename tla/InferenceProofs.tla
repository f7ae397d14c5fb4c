--------------------------- MODULE InferenceProofs ----------------------------
(***************************************************************************)
(* Proofs about Inference and the registry it runs on, for all replicas,   *)
(* requests, versions, fallback chains, experiments and publications.      *)
(***************************************************************************)
EXTENDS Inference, WellFoundedInduction, FiniteSetTheorems, TLAPS

-----------------------------------------------------------------------------
(* The registry                                                             *)

\* A file of a version is absent or comes from a run published as that version.
FromVersion(pub, run, v) == run # Absent => run <= Len(pub) /\ pub[run] = v

\* Every file on disk and the publication in progress are of their version.
FilesOwn ==
    /\ \A v \in Versions : /\ FromVersion(published, files[v].labels, v)
                           /\ FromVersion(published, files[v].fp32, v)
                           /\ FromVersion(published, files[v].int8, v)
    /\ publishing # None => FromVersion(published, publishing.run, publishing.version)

\* What a replica has loaded as a version comes from runs published as it.
LoadedOwn ==
    \A r \in Replicas : \A v \in DOMAIN replica[r].loaded :
        /\ FromVersion(published, replica[r].loaded[v].weights, v)
        /\ FromVersion(published, replica[r].loaded[v].labels, v)
        /\ replica[r].loaded[v].version = v

RegistryInv == RegistryTypeOK /\ FilesOwn /\ LoadedOwn

LEMMA NoModelsLoaded == <<>> \in LoadedSets /\ DOMAIN <<>> = {}
<1>1. <<>> \in [{} -> Models]
  OBVIOUS
<1> QED
  BY <1>1 DEF LoadedSets

LEMMA DownType ==
    ASSUME NEW why \in {"stopped", "no_model", "experiment_error"}
    PROVE  /\ Down(why) \in ReplicaStates
           /\ Down(why).up = FALSE
           /\ DOMAIN Down(why).loaded = {}
  BY NoModelsLoaded DEF Down, ReplicaStates

LEMMA RegistryInitInv == RegistryInit => RegistryInv
<1> SUFFICES ASSUME RegistryInit PROVE RegistryInv
  OBVIOUS
<1> USE RegistryAssumption
<1>1. published \in Seq(Versions) /\ Len(published) <= MaxRun /\ published = Initially
  BY DEF RegistryInit
<1>2. ASSUME NEW v \in Versions
      PROVE  /\ files[v] \in Files
             /\ FromVersion(published, files[v].labels, v)
             /\ FromVersion(published, files[v].fp32, v)
             /\ FromVersion(published, files[v].int8, v)
  <2> DEFINE run == IF \E i \in DOMAIN Initially : Initially[i] = v
                    THEN CHOOSE i \in DOMAIN Initially : Initially[i] = v ELSE Absent
  <2>1. files[v] = [labels |-> run, fp32 |-> run, int8 |-> run]
    BY DEF RegistryInit
  <2>2. run = Absent \/ (run \in DOMAIN Initially /\ Initially[run] = v)
    OBVIOUS
  <2> HIDE DEF run
  <2>3. run \in 0..MaxRun /\ FromVersion(published, run, v)
    BY <2>2, <1>1 DEF FromVersion, Absent
  <2> QED
    BY <2>1, <2>3 DEF Files
<1>3. files \in [Versions -> Files]
  <2>1. DOMAIN files = Versions /\ files = [v \in DOMAIN files |-> files[v]]
    BY DEF RegistryInit
  <2> QED
    BY <2>1, <1>2
<1>4. publishing = None /\ starts = 0
  BY DEF RegistryInit
<1>5. replica \in [Replicas -> ReplicaStates]
      /\ \A r \in Replicas : ~replica[r].up /\ DOMAIN replica[r].loaded = {}
  BY DownType DEF RegistryInit
<1>6. RegistryTypeOK
  BY <1>1, <1>3, <1>4, <1>5 DEF RegistryTypeOK
<1>7. FilesOwn /\ LoadedOwn
  BY <1>2, <1>4, <1>5 DEF FilesOwn, LoadedOwn
<1> QED
  BY <1>6, <1>7 DEF RegistryInv

\* Runs of a version stay runs of that version when another is published.
LEMMA FromVersionStays ==
    ASSUME NEW pub \in Seq(Versions), NEW run \in Nat, NEW v, NEW w \in Versions,
           FromVersion(pub, run, v)
    PROVE  FromVersion(Append(pub, w), run, v)
  BY DEF FromVersion, Absent

\* What a step must respect for the registry invariant to hold after it.
LEMMA FilesStep ==
    ASSUME RegistryInv, UNCHANGED <<replica, starts>>,
           published' \in Seq(Versions), Len(published') <= MaxRun,
           files' \in [Versions -> Files],
           publishing' = None \/ publishing' \in
             [version : Versions, run : Runs, force : BOOLEAN, step : {"fp32", "int8"}],
           published' = published \/ \E w \in Versions : published' = Append(published, w),
           \A v \in Versions : /\ FromVersion(published', files'[v].labels, v)
                               /\ FromVersion(published', files'[v].fp32, v)
                               /\ FromVersion(published', files'[v].int8, v),
           publishing' # None => FromVersion(published', publishing'.run, publishing'.version)
    PROVE  RegistryInv'
<1> USE RegistryAssumption
<1>1. RegistryTypeOK'
  BY DEF RegistryInv, RegistryTypeOK
<1>2. FilesOwn'
  BY DEF FilesOwn
<1>3. ASSUME NEW r \in Replicas, NEW v \in DOMAIN replica[r].loaded
      PROVE  /\ FromVersion(published', replica[r].loaded[v].weights, v)
             /\ FromVersion(published', replica[r].loaded[v].labels, v)
  <2>1. replica[r].loaded[v] \in Models
    BY DEF RegistryInv, RegistryTypeOK, ReplicaStates, LoadedSets
  <2>2. replica[r].loaded[v].weights \in Nat /\ replica[r].loaded[v].labels \in Nat
    BY <2>1 DEF Models, Runs
  <2>3. published \in Seq(Versions)
    BY DEF RegistryInv, RegistryTypeOK
  <2>4. /\ FromVersion(published, replica[r].loaded[v].weights, v)
        /\ FromVersion(published, replica[r].loaded[v].labels, v)
    BY DEF RegistryInv, LoadedOwn
  <2>5. CASE published' = published
    BY <2>4, <2>5
  <2>6. ASSUME NEW w \in Versions, published' = Append(published, w)
        PROVE  /\ FromVersion(published', replica[r].loaded[v].weights, v)
               /\ FromVersion(published', replica[r].loaded[v].labels, v)
    <3> DEFINE m == replica[r].loaded[v]
    <3> HIDE DEF m
    <3>1. FromVersion(Append(published, w), m.weights, v)
      BY <2>2, <2>3, <2>4, FromVersionStays DEF m
    <3>2. FromVersion(Append(published, w), m.labels, v)
      BY <2>2, <2>3, <2>4, FromVersionStays DEF m
    <3> QED
      BY <2>6, <3>1, <3>2 DEF m
  <2> QED
    BY <2>5, <2>6
<1>4. LoadedOwn'
  BY <1>3 DEF LoadedOwn, RegistryInv
<1> QED
  BY <1>1, <1>2, <1>4 DEF RegistryInv

LEMMA FileWritten ==
    ASSUME NEW f \in [Versions -> Files], NEW v \in Versions, NEW n \in 0..MaxRun
    PROVE  /\ [f EXCEPT ![v].labels = n] \in [Versions -> Files]
           /\ [f EXCEPT ![v].fp32 = n] \in [Versions -> Files]
           /\ [f EXCEPT ![v].int8 = n] \in [Versions -> Files]
<1>1. /\ [f[v] EXCEPT !.labels = n] \in Files
      /\ [f[v] EXCEPT !.fp32 = n] \in Files
      /\ [f[v] EXCEPT !.int8 = n] \in Files
  BY DEF Files
<1> QED
  BY <1>1

LEMMA PublishStep == RegistryInv /\ Publish => RegistryInv'
<1> SUFFICES ASSUME RegistryInv, Publish PROVE RegistryInv'
  OBVIOUS
<1> USE RegistryAssumption
<1>t. /\ files \in [Versions -> Files]
      /\ published \in Seq(Versions) /\ Len(published) \in Nat /\ Len(published) <= MaxRun
      /\ publishing = None \/ publishing \in
           [version : Versions, run : Runs, force : BOOLEAN, step : {"fp32", "int8"}]
  BY DEF RegistryInv, RegistryTypeOK
<1>f. /\ \A v \in Versions : /\ FromVersion(published, files[v].labels, v)
                             /\ FromVersion(published, files[v].fp32, v)
                             /\ FromVersion(published, files[v].int8, v)
      /\ publishing # None => FromVersion(published, publishing.run, publishing.version)
  BY DEF RegistryInv, FilesOwn
<1>w. UNCHANGED <<replica, starts>>
  BY DEF Publish, WriteLabels, ExportFp32, ExportInt8, EndPublish
<1>1. ASSUME NEW v \in Versions, NEW force \in BOOLEAN, WriteLabels(v, force)
      PROVE  RegistryInv'
  <2>1. /\ published' = Append(published, v) /\ Len(published') = Len(published) + 1
        /\ published'[Len(published')] = v
        /\ published' \in Seq(Versions) /\ Len(published') <= MaxRun
        /\ Len(published') \in Runs
    BY <1>1, <1>t DEF WriteLabels, Runs
  <2>2. files' = [files EXCEPT ![v].labels = Len(published')]
    BY <1>1 DEF WriteLabels
  <2>3. files' \in [Versions -> Files]
    <3>1. Len(published') \in 0..MaxRun
      BY <2>1 DEF Runs
    <3> QED
      BY <3>1, <2>2, <1>t, FileWritten
  <2>4. publishing' = [version |-> v, run |-> Len(published'), force |-> force, step |-> "fp32"]
    BY <1>1 DEF WriteLabels
  <2>6. FromVersion(published', Len(published'), v)
    BY <2>1 DEF FromVersion
  <2>7. ASSUME NEW x \in Versions
        PROVE  /\ FromVersion(published', files'[x].labels, x)
               /\ FromVersion(published', files'[x].fp32, x)
               /\ FromVersion(published', files'[x].int8, x)
    <3>1. files[x].labels \in Nat /\ files[x].fp32 \in Nat /\ files[x].int8 \in Nat
      BY <1>t DEF Files
    <3>2. /\ FromVersion(published', files[x].labels, x)
          /\ FromVersion(published', files[x].fp32, x)
          /\ FromVersion(published', files[x].int8, x)
      BY <3>1, <2>1, <1>t, <1>f, FromVersionStays
    <3>3. /\ files'[x].fp32 = files[x].fp32 /\ files'[x].int8 = files[x].int8
          /\ files'[x].labels = files[x].labels \/ (x = v /\ files'[x].labels = Len(published'))
      BY <2>2, <1>t DEF Files
    <3> QED
      BY <3>2, <3>3, <2>6
  <2> QED
    BY <2>1, <2>3, <2>4, <2>6, <2>7, <1>w, FilesStep
<1>2. CASE ExportFp32
  <2>1. /\ published' = published /\ publishing # None
        /\ publishing' = [publishing EXCEPT !.step = "int8"]
        /\ files' = files \/ files' = [files EXCEPT ![publishing.version].fp32 = publishing.run]
    BY <1>2 DEF ExportFp32
  <2>2. publishing.version \in Versions /\ publishing.run \in 0..MaxRun
    BY <1>t, <2>1 DEF Runs
  <2>3. files' \in [Versions -> Files]
    <3>1. CASE files' = files
      BY <3>1, <1>t
    <3>2. CASE files' = [files EXCEPT ![publishing.version].fp32 = publishing.run]
      BY <3>2, <2>2, <1>t, FileWritten
    <3> QED
      BY <2>1, <3>1, <3>2
  <2>4. /\ publishing' \in [version : Versions, run : Runs, force : BOOLEAN, step : {"fp32", "int8"}]
        /\ publishing'.run = publishing.run /\ publishing'.version = publishing.version
    BY <2>1, <1>t
  <2>5. ASSUME NEW x \in Versions
        PROVE  /\ files'[x].labels = files[x].labels /\ files'[x].int8 = files[x].int8
               /\ \/ files'[x].fp32 = files[x].fp32
                  \/ x = publishing.version /\ files'[x].fp32 = publishing.run
    BY <2>1, <2>2, <1>t DEF Files
  <2> QED
    BY <2>1, <2>3, <2>4, <2>5, <1>t, <1>f, <1>w, FilesStep
<1>3. CASE ExportInt8
  <2>1. /\ published' = published /\ publishing # None /\ publishing' = None
        /\ files' = [files EXCEPT ![publishing.version].int8 = files[publishing.version].fp32]
    BY <1>3 DEF ExportInt8
  <2>2. publishing.version \in Versions
    BY <1>t, <2>1
  <2>3. files' \in [Versions -> Files]
    <3>1. files[publishing.version].fp32 \in 0..MaxRun
      BY <2>2, <1>t DEF Files
    <3> QED
      BY <3>1, <2>1, <2>2, <1>t, FileWritten
  <2>5. ASSUME NEW x \in Versions
        PROVE  /\ files'[x].labels = files[x].labels /\ files'[x].fp32 = files[x].fp32
               /\ \/ files'[x].int8 = files[x].int8
                  \/ x = publishing.version /\ files'[x].int8 = files[x].fp32
    BY <2>1, <2>2, <1>t DEF Files
  <2> QED
    BY <2>1, <2>3, <2>5, <1>t, <1>f, <1>w, FilesStep
<1>4. CASE EndPublish
  BY <1>4, <1>t, <1>f, <1>w, FilesStep DEF EndPublish
<1> QED
  BY <1>1, <1>2, <1>3, <1>4 DEF Publish

\* The step of one replica.
LEMMA ReplicaStep ==
    ASSUME RegistryInv, NEW r \in Replicas, NEW X \in ReplicaStates,
           UNCHANGED <<files, publishing, published>>,
           starts' \in 0..MaxStarts,
           replica' = [replica EXCEPT ![r] = X],
           X.up <=> X.active \in DOMAIN X.loaded,
           \A v \in DOMAIN X.loaded : /\ FromVersion(published, X.loaded[v].weights, v)
                                     /\ FromVersion(published, X.loaded[v].labels, v)
                                     /\ X.loaded[v].version = v
    PROVE  RegistryInv'
<1>1. replica \in [Replicas -> ReplicaStates]
  BY DEF RegistryInv, RegistryTypeOK
<1>2. replica' \in [Replicas -> ReplicaStates]
  BY <1>1
<1>3. \A x \in Replicas : replica'[x] = IF x = r THEN X ELSE replica[x]
  BY <1>1
<1>4. RegistryTypeOK'
  BY <1>2, <1>3 DEF RegistryInv, RegistryTypeOK
<1>5. FilesOwn'
  BY DEF RegistryInv, FilesOwn
<1>6. LoadedOwn'
  BY <1>3 DEF RegistryInv, LoadedOwn
<1> QED
  BY <1>4, <1>5, <1>6 DEF RegistryInv

LEMMA LoadsOwn ==
    ASSUME RegistryInv, NEW v \in Versions, NEW m \in Loads(v)
    PROVE  /\ m \in Models /\ m.version = v
           /\ FromVersion(published, m.weights, v) /\ FromVersion(published, m.labels, v)
<1>1. /\ files[v] \in Files
      /\ FromVersion(published, files[v].labels, v)
      /\ FromVersion(published, files[v].fp32, v)
      /\ FromVersion(published, files[v].int8, v)
  BY DEF RegistryInv, RegistryTypeOK, FilesOwn
<1>2. PICK b \in Backends :
        /\ Graph(v, b) # Absent /\ files[v].labels # Absent
        /\ m = [version |-> v, backend |-> b, weights |-> Graph(v, b), labels |-> files[v].labels]
  BY DEF Loads
<1>3. Graph(v, b) = files[v].int8 \/ Graph(v, b) = files[v].fp32
  BY DEF Graph
<1>4. /\ Graph(v, b) \in Runs /\ files[v].labels \in Runs
      /\ FromVersion(published, Graph(v, b), v)
  BY <1>1, <1>2, <1>3 DEF Files, Runs, Absent
<1> QED
  BY <1>1, <1>2, <1>4 DEF Models

\* A non-empty set of numbers has a least one, and a greatest if it is bounded:
\* what the choices of LoadExperiment and Assign rest on.
Less == {ss \in Nat \X Nat : ss[1] < ss[2]}
LEMMA LessWF == IsWellFoundedOn(Less, Nat)
<1>1. OpToRel(<, Nat) = Less
  BY Zenon DEF OpToRel, Less
<1> QED
  BY <1>1, NatLessThanWellFounded, Zenon
LEMMA MinExists ==
    ASSUME NEW S \in SUBSET Nat, S # {}
    PROVE  \E i \in S : \A k \in S : i <= k
<1>1. \E x \in S : \A y \in S : <<y, x>> \notin Less
  BY LessWF, WFMin, Zenon
<1>2. PICK x \in S : \A y \in S : <<y, x>> \notin Less
  BY <1>1
<1>3. ASSUME NEW y \in S PROVE x <= y
  <2>1. x \in Nat /\ y \in Nat /\ <<y, x>> \in Nat \X Nat
    BY <1>2
  <2>2. ~(y < x)
    BY <1>2, <2>1 DEF Less
  <2> QED
    BY <2>1, <2>2
<1> QED
  BY <1>3

LEMMA MaxExists ==
    ASSUME NEW n \in Nat, NEW S \in SUBSET (1..n), S # {}
    PROVE  \E i \in S : \A k \in S : k <= i
<1> DEFINE T == {n - i : i \in S}
<1>0. \A i \in S : n - i \in Nat
  OBVIOUS
<1>1. T \in SUBSET Nat 
  BY <1>0
<1>3. T # {}
  <2>1. PICK i \in S : TRUE
   OBVIOUS
  <2>2. n - i \in T
   BY <2>1
  <2> QED
   BY <2>2
<1>2. PICK x \in T : \A y \in T : x <= y
  <2> HIDE DEF T
  <2> QED BY <1>1, <1>3, MinExists
<1>4. PICK i \in S : x = n - i
  BY <1>2
<1>5. ASSUME NEW k \in S PROVE k <= i
  <2>1. n - k \in T
    OBVIOUS
  <2>2. n - i <= n - k
    BY <2>1, <1>2, <1>4
  <2>3. i \in Nat /\ k \in Nat
    OBVIOUS
  <2> HIDE DEF T
  <2> QED
    BY <2>2, <2>3
<1> QED
  BY <1>5

\* The experiment of a replica, if any, is one of the entries, well formed, and
\* every variant of it names a version the replica has loaded.
LEMMA LoadExperimentServable ==
    ASSUME NEW loaded
    PROVE  \/ LoadExperiment(loaded) = None
           \/ \E i \in DOMAIN Entries : /\ LoadExperiment(loaded) = Entries[i]
                                        /\ WellFormed(Entries[i])
                                        /\ Servable(Entries[i], loaded)
<1> DEFINE good == {i \in DOMAIN Entries : WellFormed(Entries[i]) /\ Servable(Entries[i], loaded)}
           last == CHOOSE i \in good : \A k \in good : k <= i
<1>1. LoadExperiment(loaded) = IF good = {} THEN None ELSE Entries[last]
  BY DEF LoadExperiment
<1>2. ASSUME good # {} PROVE last \in good
  <2>1. good \in SUBSET (1..Len(Entries)) /\ Len(Entries) \in Nat
    BY EntriesAssumption DEF IsSequence
  <2> HIDE DEF good
  <2>2. \E i \in good : \A k \in good : k <= i
    BY <1>2, <2>1, MaxExists
  <2> QED
    BY <2>2
<1> QED
  BY <1>1, <1>2

LEMMA AssignOneOf ==
    ASSUME NEW e, IsSequence(e.variants), Len(e.variants) > 0, NEW user
    PROVE  \E i \in DOMAIN e.variants : Assign(e, user) = e.variants[i]
<1> DEFINE sum == CumulativeWeight(e)
           below == {i \in DOMAIN e.variants : Position[<<e.name, user>>] < sum[i]}
           first == CHOOSE i \in below : \A k \in below : i <= k
<1>1. Assign(e, user) = IF ~e.enabled THEN e.variants[1]
                        ELSE IF below = {} THEN e.variants[Len(e.variants)]
                        ELSE e.variants[first]
  BY DEF Assign
<1>2. 1 \in DOMAIN e.variants /\ Len(e.variants) \in DOMAIN e.variants
  BY DEF IsSequence
<1>3. ASSUME below # {} PROVE first \in DOMAIN e.variants
  <2>1. below \in SUBSET Nat /\ below \subseteq DOMAIN e.variants
    BY DEF IsSequence
  <2> HIDE DEF below
  <2>2. \E i \in below : \A k \in below : i <= k
    BY <1>3, <2>1, MinExists
  <2> QED
    BY <2>1, <2>2
<1> HIDE DEF below, first
<1> QED
  BY <1>1, <1>2, <1>3

LEMMA StartupStep == RegistryInv /\ (\E r \in Replicas : Startup(r)) => RegistryInv'
<1> SUFFICES ASSUME RegistryInv, NEW r \in Replicas, Startup(r) PROVE RegistryInv'
  OBVIOUS
<1>1. UNCHANGED <<files, publishing, published>> /\ starts' \in 0..MaxStarts
  BY RegistryAssumption DEF Startup, RegistryInv, RegistryTypeOK
<1> DEFINE After(versions, loaded) ==
             IF DefaultVersion \notin versions THEN Down("no_model")
             ELSE IF \E i \in DOMAIN Entries : Entries[i] = None
             THEN Down("experiment_error")
             ELSE [up |-> TRUE, why |-> "serving", loaded |-> loaded,
                   active |-> DefaultVersion, experiment |-> LoadExperiment(versions)]
<1>0. PICK versions \in SUBSET Versions :
        \E loaded \in [versions -> UNION {Loads(v) : v \in versions}] :
           /\ \A v \in versions : loaded[v] \in Loads(v)
           /\ replica' = [replica EXCEPT ![r] = After(versions, loaded)]
  BY DEF Startup
<1>2. PICK loaded \in [versions -> UNION {Loads(v) : v \in versions}] :
        /\ \A v \in versions : loaded[v] \in Loads(v)
        /\ replica' = [replica EXCEPT ![r] = After(versions, loaded)]
  BY <1>0
<1> DEFINE X == [up |-> TRUE, why |-> "serving", loaded |-> loaded,
                 active |-> DefaultVersion, experiment |-> LoadExperiment(versions)]
<1>3. \A v \in versions : /\ loaded[v] \in Models /\ loaded[v].version = v
                           /\ FromVersion(published, loaded[v].weights, v)
                           /\ FromVersion(published, loaded[v].labels, v)
  BY <1>2, LoadsOwn
<1>4. loaded \in LoadedSets /\ DOMAIN loaded = versions
  <2>1. loaded \in [versions -> Models]
    BY <1>3
  <2> QED
    BY <2>1 DEF LoadedSets
<1>5. X \in ReplicaStates
  <2>1. LoadExperiment(versions) \in {None} \cup {Entries[i] : i \in DOMAIN Entries}
    BY LoadExperimentServable
  <2> QED
    BY <2>1, <1>4, RegistryAssumption DEF ReplicaStates
<1>6. CASE replica' = [replica EXCEPT ![r] = Down("no_model")]
  BY <1>1, <1>6, DownType, ReplicaStep
<1>7. CASE replica' = [replica EXCEPT ![r] = Down("experiment_error")]
  BY <1>1, <1>7, DownType, ReplicaStep
<1>8. CASE DefaultVersion \in versions /\ replica' = [replica EXCEPT ![r] = X]
  <2>1. X.up <=> X.active \in DOMAIN X.loaded
    BY <1>4, <1>8
  <2>2. \A v \in DOMAIN X.loaded : /\ FromVersion(published, X.loaded[v].weights, v)
                                   /\ FromVersion(published, X.loaded[v].labels, v)
                                   /\ X.loaded[v].version = v
    BY <1>3, <1>4
  <2> HIDE DEF X
  <2> QED
    BY <1>1, <1>5, <1>8, <2>1, <2>2, ReplicaStep
<1> QED
  BY <1>2, <1>6, <1>7, <1>8

LEMMA StopStep == RegistryInv /\ (\E r \in Replicas : Stop(r)) => RegistryInv'
<1> SUFFICES ASSUME RegistryInv, NEW r \in Replicas, Stop(r) PROVE RegistryInv'
  OBVIOUS
<1>1. /\ UNCHANGED <<files, publishing, published>> /\ starts' \in 0..MaxStarts
      /\ replica' = [replica EXCEPT ![r] = Down("stopped")]
  BY DEF Stop, RegistryInv, RegistryTypeOK
<1> QED
  BY <1>1, DownType, ReplicaStep

LEMMA SetActiveStep ==
    RegistryInv /\ (\E r \in Replicas, v \in Versions : SetActive(r, v)) => RegistryInv'
<1> SUFFICES ASSUME RegistryInv, NEW r \in Replicas, NEW v \in Versions, SetActive(r, v)
             PROVE RegistryInv'
  OBVIOUS
<1> DEFINE X == [replica[r] EXCEPT !.active = v]
<1>1. /\ UNCHANGED <<files, publishing, published>> /\ starts' \in 0..MaxStarts
      /\ replica' = [replica EXCEPT ![r] = X]
      /\ replica[r].up /\ v \in DOMAIN replica[r].loaded
  BY DEF SetActive, RegistryInv, RegistryTypeOK
<1>2. replica[r] \in ReplicaStates
  BY DEF RegistryInv, RegistryTypeOK
<1>3. X \in ReplicaStates /\ X.loaded = replica[r].loaded /\ X.active = v
  BY <1>2 DEF ReplicaStates
<1>4. X.up = replica[r].up
  BY <1>2 DEF ReplicaStates
<1>5. \A x \in DOMAIN X.loaded : /\ FromVersion(published, X.loaded[x].weights, x)
                                 /\ FromVersion(published, X.loaded[x].labels, x)
                                 /\ X.loaded[x].version = x
  BY <1>3 DEF RegistryInv, LoadedOwn
<1> HIDE DEF X
<1> QED
  BY <1>1, <1>3, <1>4, <1>5, ReplicaStep

\* Every other step leaves the registry alone.
LEMMA RegistrySteps ==
    ASSUME [Next]_vars
    PROVE  \/ Publish
           \/ \E r \in Replicas : Startup(r)
           \/ \E r \in Replicas, v \in Versions : SetActive(r, v)
           \/ \E r \in Replicas : Stop(r)
           \/ UNCHANGED registryVars
<1>1. ASSUME NEW q \in Requests, RequestStep(q) PROVE UNCHANGED registryVars
  BY <1>1 DEF RequestStep, Receive, UploadTooLarge, Validate, Hit, Miss, FindsUnparsable,
              FindsMisshapen, Drop, Run, RunFails, DecodeFails, Store
<1> QED
  BY <1>1 DEF Next, vars, Evict, Damage, StopReplica, Registry

LEMMA RegistryInvStep == RegistryInv /\ [Next]_vars => RegistryInv'
<1> SUFFICES ASSUME RegistryInv, [Next]_vars PROVE RegistryInv'
  OBVIOUS
<1>1. CASE UNCHANGED registryVars
  BY <1>1 DEF registryVars, RegistryInv, RegistryTypeOK, FilesOwn, LoadedOwn, FromVersion
<1> QED
  BY <1>1, RegistrySteps, PublishStep, StartupStep, StopStep, SetActiveStep

\* Whatever is published, interrupted, loaded and promoted, a replica serves as
\* a version only weights and labels that were published as that version.
THEOREM VersionsOwn == Spec => []VersionsNotMixed
<1>1. Init => RegistryInv
  BY RegistryInitInv DEF Init
<1>2. RegistryInv => VersionsNotMixed
  <2> SUFFICES ASSUME RegistryInv, NEW r \in Replicas, NEW v \in DOMAIN replica[r].loaded
               PROVE  /\ published[replica[r].loaded[v].weights] = v
                      /\ published[replica[r].loaded[v].labels] = v
    BY DEF VersionsNotMixed
  <2>1. replica[r].loaded[v] \in Models
    BY DEF RegistryInv, RegistryTypeOK, ReplicaStates, LoadedSets
  <2>2. replica[r].loaded[v].weights # Absent /\ replica[r].loaded[v].labels # Absent
    BY <2>1, RegistryAssumption DEF Models, Runs, Absent
  <2> QED
    BY <2>2 DEF RegistryInv, LoadedOwn, FromVersion
<1> QED
  BY <1>1, <1>2, RegistryInvStep, PTL DEF Spec

-----------------------------------------------------------------------------
(* The requests                                                             *)

\* Predictions computed from this input by this version and backend.
Matches(p, in, m) ==
    /\ p.payload = "predictions" /\ p.image = in.image /\ p.options = in.options
    /\ p.version = m.version /\ p.backend = m.backend

\* Every usable entry of the cache was computed from what its key says.
CacheTrue ==
    \A k \in DOMAIN cache : cache[k].payload = "predictions" =>
        /\ cache[k].image = k.image /\ cache[k].options = k.options
        /\ cache[k].version = k.version /\ cache[k].backend = k.backend

\* The predictions a request holds are of its input and model.
HeldTrue(q) ==
    request[q].pc \in {"store", "answered"} =>
        Matches(request[q].predictions, request[q].input, request[q].model)

\* A pin is the version asked for and no variant; its model is of that version.
PinKept(q) ==
    request[q].pc # "new" /\ request[q].input.version # None =>
        /\ request[q].version = request[q].input.version /\ request[q].variant = None
        /\ request[q].pc \in {"lookup", "drop", "run", "store", "answered"} =>
              request[q].model.version = request[q].input.version

\* What an unpinned request was routed to is loaded where it runs.
RoutedLoaded(q) ==
    request[q].pc = "upload" /\ request[q].input.version = None =>
        LET r == replica[request[q].replica]
        IN r.up /\ (request[q].version = None \/ request[q].version \in DOMAIN r.loaded)

\* An answered request has been audited and counted as it was answered.
Settled(q) ==
    request[q].pc = "answered" =>
        /\ audit[q] = [status |-> "success", cached |-> request[q].cached,
                       version |-> request[q].model.version,
                       backend |-> request[q].model.backend,
                       variant |-> request[q].variant]
        /\ counted[q] = [version |-> request[q].model.version,
                         backend |-> request[q].model.backend, success |-> TRUE]

NotFoundPinned(q) ==
    request[q].error = "not_found" =>
        request[q].input.version # None \/ request[q].input.backend # None

\* A replica that serves has an experiment it can serve.
ExperimentLoaded ==
    \A r \in Replicas : replica[r].up =>
        /\ replica[r].active \in DOMAIN replica[r].loaded
        /\ \/ replica[r].experiment = None
           \/ LET e == replica[r].experiment
              IN /\ IsSequence(e.variants) /\ Len(e.variants) > 0
                 /\ Servable(e, DOMAIN replica[r].loaded)

RequestInv(q) ==
    /\ HeldTrue(q) /\ PinKept(q) /\ RoutedLoaded(q) /\ Settled(q) /\ NotFoundPinned(q)

IInv ==
    /\ RegistryInv /\ TypeOK /\ ExperimentLoaded /\ CacheTrue
    /\ \A q \in Requests : RequestInv(q)

LEMMA InitInv == Init => IInv
<1> SUFFICES ASSUME Init PROVE IInv
  OBVIOUS
<1>1. RegistryInv
  BY RegistryInitInv DEF Init
<1>2. /\ cache = <<>> /\ request = [q \in Requests |-> NewRequest]
      /\ audit = [q \in Requests |-> None] /\ counted = [q \in Requests |-> None]
      /\ replica = [r \in Replicas |-> Down("stopped")]
  BY DEF Init, RegistryInit
<1>3. CacheTrue /\ \A k \in DOMAIN cache : FALSE
  BY <1>2 DEF CacheTrue
<1>4. \A q \in Requests : request[q] = NewRequest /\ request[q].pc = "new" /\ request[q].error = "none"
  BY <1>2 DEF NewRequest
<1>5. TypeOK
  BY <1>1, <1>2, <1>3, <1>4 DEF TypeOK, RegistryInv
<1>6. ExperimentLoaded
  BY <1>2, DownType DEF ExperimentLoaded
<1>7. ASSUME NEW q \in Requests PROVE RequestInv(q)
  BY <1>4 DEF RequestInv, HeldTrue, PinKept, RoutedLoaded, Settled, NotFoundPinned
<1> QED
  BY <1>1, <1>3, <1>5, <1>6, <1>7 DEF IInv

\* A step of request q changes nothing else but the cache.
LEMMA OtherRequests ==
    ASSUME IInv, NEW q \in Requests, RequestStep(q)
    PROVE  /\ UNCHANGED registryVars
           /\ \A x \in Requests \ {q} : /\ request'[x] = request[x] /\ audit'[x] = audit[x]
                                        /\ counted'[x] = counted[x]
<1>1. DOMAIN request = Requests /\ DOMAIN audit = Requests /\ DOMAIN counted = Requests
  BY DEF IInv, TypeOK
<1> QED
  BY <1>1 DEF RequestStep, Receive, UploadTooLarge, Validate, Hit, Miss, FindsUnparsable,
              FindsMisshapen, Drop, Run, RunFails, DecodeFails, Store, Fail, Respond

LEMMA OthersKept ==
    ASSUME NEW q \in Requests, RequestInv(q), request'[q] = request[q],
           audit'[q] = audit[q], counted'[q] = counted[q], replica' = replica
    PROVE  RequestInv(q)'
  BY DEF RequestInv, HeldTrue, PinKept, RoutedLoaded, Settled, NotFoundPinned

\* The part of TypeOK about one request.
Typed(q) ==
    /\ DOMAIN request[q] = DOMAIN NewRequest
    /\ request[q].pc \in {"new", "upload", "lookup", "drop", "run", "store",
                          "answered", "failed", "lost"}
    /\ request[q].pc # "new" =>
         request[q].input \in Inputs /\ request[q].replica \in Replicas
    /\ request[q].pc \in {"lookup", "drop", "run", "store", "answered"} =>
         request[q].model \in Models
    /\ counted[q] \in {None} \cup [version : Versions, backend : Backends, success : BOOLEAN]

\* What Get finds on a replica is a model of the version asked for; it finds
\* one when that version is loaded, or when none is asked for and it serves.
LEMMA GetModel ==
    ASSUME IInv, NEW r \in Replicas, NEW version
    PROVE  /\ Get(r, version) # None =>
                /\ Get(r, version) \in Models
                /\ version # None => Get(r, version).version = version
           /\ replica[r].up /\ (version = None \/ version \in DOMAIN replica[r].loaded) =>
                Get(r, version) # None
<1>1. /\ replica[r] \in ReplicaStates
      /\ replica[r].up => replica[r].active \in DOMAIN replica[r].loaded
      /\ \A v \in DOMAIN replica[r].loaded : replica[r].loaded[v].version = v
  BY DEF IInv, RegistryInv, RegistryTypeOK, LoadedOwn
<1>2. \A v \in DOMAIN replica[r].loaded : replica[r].loaded[v] \in Models
  BY <1>1 DEF ReplicaStates, LoadedSets
<1>3. DOMAIN replica[r].loaded \subseteq Versions
  BY <1>1 DEF ReplicaStates, LoadedSets
<1> QED
  BY <1>1, <1>2, <1>3, NoneAssumption DEF Get

LEMMA ReceiveStep ==
    ASSUME IInv, NEW q \in Requests, NEW r \in Replicas, NEW in \in Inputs, Receive(q, r, in)
    PROVE  Typed(q)' /\ RequestInv(q)'
<1> DEFINE e == replica[r].experiment
           routed == in.version = None /\ e # None
           version == IF routed THEN Assign(e, in.user).version ELSE in.version
           variant == IF routed THEN Assign(e, in.user).name ELSE None
<1>1. /\ request[q].pc = "new" /\ replica[r].up
      /\ request' = [request EXCEPT ![q] =
            [NewRequest EXCEPT !.pc = "upload", !.replica = r, !.input = in,
               !.version = version, !.variant = variant]]
      /\ UNCHANGED <<registryVars, cache, audit, counted>>
  BY DEF Receive
<1>2. routed => version \in DOMAIN replica[r].loaded
  <2> SUFFICES ASSUME routed PROVE Assign(e, in.user).version \in DOMAIN replica[r].loaded
    OBVIOUS
  <2>1. /\ IsSequence(e.variants) /\ Len(e.variants) > 0
        /\ Servable(e, DOMAIN replica[r].loaded)
    BY <1>1 DEF IInv, ExperimentLoaded
  <2> HIDE DEF e
  <2>2. PICK i \in DOMAIN e.variants : Assign(e, in.user) = e.variants[i]
    BY <2>1, AssignOneOf
  <2> QED
    BY <2>1, <2>2 DEF Servable
<1>3. ~routed => version = in.version /\ variant = None
  OBVIOUS
<1>4. routed => in.version = None
  OBVIOUS
<1>5. ~routed /\ in.version = None => version = None
  OBVIOUS
<1> HIDE DEF e, routed, version, variant
<1>6. /\ DOMAIN request = Requests
      /\ counted[q] \in {None} \cup [version : Versions, backend : Backends, success : BOOLEAN]
  BY DEF IInv, TypeOK
<1>7. request'[q] = [NewRequest EXCEPT !.pc = "upload", !.replica = r, !.input = in,
                                        !.version = version, !.variant = variant]
  BY <1>1, <1>6
<1>8. /\ request'[q].pc = "upload" /\ request'[q].replica = r /\ request'[q].input = in
      /\ request'[q].version = version /\ request'[q].variant = variant
      /\ request'[q].error = "none" /\ DOMAIN request'[q] = DOMAIN NewRequest
  BY <1>7 DEF NewRequest
<1>9. Typed(q)'
  BY <1>1, <1>6, <1>8 DEF Typed
<1>10. HeldTrue(q)' /\ Settled(q)' /\ NotFoundPinned(q)'
  BY <1>8 DEF HeldTrue, Settled, NotFoundPinned
<1>11. PinKept(q)'
  BY <1>3, <1>4, <1>8 DEF PinKept
<1>12. RoutedLoaded(q)'
  BY <1>1, <1>2, <1>5, <1>8 DEF RoutedLoaded, registryVars
<1> QED
  BY <1>9, <1>10, <1>11, <1>12 DEF RequestInv

\* A failure changes only how a request ended and what was counted.
LEMMA FailStep ==
    ASSUME IInv, NEW q \in Requests, NEW error, Fail(q, error), request[q].pc # "new",
           error = "not_found" =>
             request[q].input.version # None \/ request[q].input.backend # None
    PROVE  Typed(q)' /\ RequestInv(q)'
<1>1. /\ DOMAIN request = Requests /\ DOMAIN request[q] = DOMAIN NewRequest
      /\ request[q].input \in Inputs /\ request[q].replica \in Replicas
      /\ counted \in [Requests ->
            {None} \cup [version : Versions, backend : Backends, success : BOOLEAN]]
      /\ PinKept(q)
  BY DEF IInv, TypeOK, RequestInv
<1>2. /\ request'[q].pc = "failed" /\ request'[q].error = error
      /\ request'[q].input = request[q].input /\ request'[q].replica = request[q].replica
      /\ request'[q].version = request[q].version /\ request'[q].variant = request[q].variant
      /\ DOMAIN request'[q] = DOMAIN NewRequest
  BY <1>1 DEF Fail, NewRequest
<1>3. counted'[q] \in {None} \cup [version : Versions, backend : Backends, success : BOOLEAN]
  <2> DEFINE now == Get(request[q].replica, request[q].version)
  <2>1. now = None \/ now \in Models
    BY <1>1, GetModel
  <2>2. counted' = IF now = None THEN counted
                   ELSE [counted EXCEPT ![q] =
                     [version |-> now.version, backend |-> now.backend, success |-> FALSE]]
    BY DEF Fail
  <2> HIDE DEF now
  <2> QED
    BY <1>1, <2>1, <2>2 DEF Models
<1>4. Typed(q)'
  BY <1>1, <1>2, <1>3 DEF Typed
<1>5. HeldTrue(q)' /\ Settled(q)' /\ NotFoundPinned(q)' /\ RoutedLoaded(q)'
  BY <1>2 DEF HeldTrue, Settled, NotFoundPinned, RoutedLoaded
<1>6. PinKept(q)'
  BY <1>1, <1>2 DEF PinKept
<1> QED
  BY <1>4, <1>5, <1>6 DEF RequestInv

\* A response gives predictions of the request's own input and model.
LEMMA RespondStep ==
    ASSUME IInv, NEW q \in Requests, NEW predictions, NEW cached \in BOOLEAN,
           Respond(q, predictions, cached), request[q].pc \in {"lookup", "run", "store"},
           Matches(predictions, request[q].input, request[q].model)
    PROVE  Typed(q)' /\ RequestInv(q)'
<1>1. /\ DOMAIN request = Requests /\ DOMAIN request[q] = DOMAIN NewRequest
      /\ DOMAIN audit = Requests
      /\ request[q].input \in Inputs /\ request[q].replica \in Replicas
      /\ request[q].model \in Models
      /\ DOMAIN counted = Requests
      /\ PinKept(q) /\ NotFoundPinned(q)
  BY DEF IInv, TypeOK, RequestInv
<1>2. request' = [request EXCEPT ![q] = [request[q] EXCEPT !.pc = "answered",
                    !.predictions = predictions, !.cached = cached]]
  BY <1>1 DEF Respond, NewRequest
<1>3. /\ request'[q].pc = "answered" /\ request'[q].error = request[q].error
      /\ request'[q].predictions = predictions /\ request'[q].cached = cached
      /\ request'[q].input = request[q].input /\ request'[q].replica = request[q].replica
      /\ request'[q].version = request[q].version /\ request'[q].variant = request[q].variant
      /\ request'[q].model = request[q].model
      /\ DOMAIN request'[q] = DOMAIN NewRequest
  BY <1>1, <1>2 DEF NewRequest
<1>4. /\ audit'[q] = AuditRow(q, "success", cached)
      /\ counted'[q] = [version |-> request[q].model.version,
                        backend |-> request[q].model.backend, success |-> TRUE]
  BY <1>1 DEF Respond
<1>5. counted'[q] \in [version : Versions, backend : Backends, success : BOOLEAN]
  BY <1>1, <1>4 DEF Models
<1>6. Typed(q)'
  BY <1>1, <1>3, <1>5 DEF Typed
<1>7. Settled(q)'
  BY <1>3, <1>4 DEF Settled, AuditRow
<1>8. HeldTrue(q)' /\ NotFoundPinned(q)' /\ RoutedLoaded(q)'
  BY <1>1, <1>3 DEF HeldTrue, NotFoundPinned, RoutedLoaded, Matches
<1>9. PinKept(q)'
  BY <1>1, <1>3 DEF PinKept
<1> QED
  BY <1>6, <1>7, <1>8, <1>9 DEF RequestInv

\* A request goes on, and keeps its input, its route and its model.
LEMMA GoesOn ==
    ASSUME IInv, NEW q \in Requests, NEW pc \in {"drop", "run", "store"},
           request[q].pc \in {"lookup", "drop", "run"},
           request'[q].pc = pc, request'[q].error = request[q].error,
           request'[q].input = request[q].input, request'[q].replica = request[q].replica,
           request'[q].version = request[q].version, request'[q].variant = request[q].variant,
           request'[q].model = request[q].model, DOMAIN request'[q] = DOMAIN NewRequest,
           counted'[q] = counted[q],
           pc = "store" => Matches(request'[q].predictions, request[q].input, request[q].model)
    PROVE  Typed(q)' /\ RequestInv(q)'
<1>1. /\ request[q].input \in Inputs /\ request[q].replica \in Replicas
      /\ request[q].model \in Models
      /\ counted[q] \in {None} \cup [version : Versions, backend : Backends, success : BOOLEAN]
      /\ PinKept(q) /\ NotFoundPinned(q)
  BY DEF IInv, TypeOK, RequestInv
<1>2. Typed(q)'
  BY <1>1 DEF Typed
<1>3. HeldTrue(q)' /\ NotFoundPinned(q)' /\ RoutedLoaded(q)' /\ Settled(q)'
  BY <1>1 DEF HeldTrue, NotFoundPinned, RoutedLoaded, Settled, Matches
<1>4. PinKept(q)'
  BY <1>1 DEF PinKept
<1> QED
  BY <1>2, <1>3, <1>4 DEF RequestInv

LEMMA UploadTooLargeStep ==
    ASSUME IInv, NEW q \in Requests, UploadTooLarge(q)
    PROVE  Typed(q)' /\ RequestInv(q)'
<1>1. /\ DOMAIN request = Requests /\ DOMAIN request[q] = DOMAIN NewRequest
      /\ request[q].pc = "upload" /\ UNCHANGED counted
      /\ request[q].input \in Inputs /\ request[q].replica \in Replicas
      /\ counted[q] \in {None} \cup [version : Versions, backend : Backends, success : BOOLEAN]
      /\ PinKept(q)
  BY DEF IInv, TypeOK, RequestInv, UploadTooLarge
<1>2. /\ request'[q].pc = "failed" /\ request'[q].error = "too_large"
      /\ request'[q].input = request[q].input /\ request'[q].replica = request[q].replica
      /\ request'[q].version = request[q].version /\ request'[q].variant = request[q].variant
      /\ DOMAIN request'[q] = DOMAIN NewRequest
  BY <1>1 DEF UploadTooLarge, NewRequest
<1>3. Typed(q)'
  BY <1>1, <1>2 DEF Typed
<1>4. HeldTrue(q)' /\ Settled(q)' /\ NotFoundPinned(q)' /\ RoutedLoaded(q)'
  BY <1>2 DEF HeldTrue, Settled, NotFoundPinned, RoutedLoaded
<1>5. PinKept(q)'
  BY <1>1, <1>2 DEF PinKept
<1> QED
  BY <1>3, <1>4, <1>5 DEF RequestInv

LEMMA ValidateStep ==
    ASSUME IInv, NEW q \in Requests, Validate(q)
    PROVE  Typed(q)' /\ RequestInv(q)'
<1> DEFINE in == request[q].input
           m  == Get(request[q].replica, request[q].version)
           mismatch == m # None /\ in.backend # None /\ in.backend # m.backend
<1>1. /\ DOMAIN request = Requests /\ DOMAIN request[q] = DOMAIN NewRequest
      /\ request[q].pc = "upload" /\ in \in Inputs /\ request[q].replica \in Replicas
      /\ counted[q] \in {None} \cup [version : Versions, backend : Backends, success : BOOLEAN]
      /\ PinKept(q) /\ RoutedLoaded(q) /\ NotFoundPinned(q)
  BY DEF IInv, TypeOK, RequestInv, Validate
<1>2. CASE Fail(q, "invalid")
  BY <1>1, <1>2, FailStep
<1>3. CASE (m = None \/ mismatch) /\ Fail(q, "not_found")
  <2>1. ASSUME m = None PROVE in.version # None
    <3> SUFFICES ASSUME in.version = None PROVE m # None
      BY <2>1
    <3>1. replica[request[q].replica].up
          /\ (request[q].version = None
              \/ request[q].version \in DOMAIN replica[request[q].replica].loaded)
      BY <1>1 DEF RoutedLoaded
    <3> QED
      BY <1>1, <3>1, GetModel
  <2>2. in.version # None \/ in.backend # None
    BY <1>3, <2>1
  <2> HIDE DEF m
  <2> QED
    BY <1>1, <1>3, <2>2, FailStep
<1>4. CASE /\ m # None
           /\ request' = [request EXCEPT ![q].model = m,
                            ![q].pc = IF in.use_cache THEN "lookup" ELSE "run"]
           /\ UNCHANGED counted
  <2>1. m \in Models /\ (request[q].version # None => m.version = request[q].version)
    BY <1>1, <1>4, GetModel
  <2> HIDE DEF m
  <2>2. /\ request'[q].pc \in {"lookup", "run"} /\ request'[q].error = request[q].error
        /\ request'[q].model = m
        /\ request'[q].input = in /\ request'[q].replica = request[q].replica
        /\ request'[q].version = request[q].version /\ request'[q].variant = request[q].variant
        /\ DOMAIN request'[q] = DOMAIN NewRequest
    BY <1>1, <1>4 DEF NewRequest
  <2>3. Typed(q)'
    BY <1>1, <1>4, <2>1, <2>2 DEF Typed
  <2>4. HeldTrue(q)' /\ Settled(q)' /\ NotFoundPinned(q)' /\ RoutedLoaded(q)'
    BY <1>1, <2>2 DEF HeldTrue, Settled, NotFoundPinned, RoutedLoaded
  <2>5. PinKept(q)'
    BY <1>1, <2>1, <2>2 DEF PinKept
  <2> QED
    BY <2>3, <2>4, <2>5 DEF RequestInv
<1> QED
  BY <1>2, <1>3, <1>4 DEF Validate

\* The steps that end in a failure once the model is known.
LEMMA LaterFailures ==
    ASSUME IInv, NEW q \in Requests, FindsMisshapen(q) \/ RunFails(q) \/ DecodeFails(q)
    PROVE  Typed(q)' /\ RequestInv(q)'
<1>1. PICK error \in {"cached_payload", "runtime", "decode"} : Fail(q, error)
  BY DEF FindsMisshapen, RunFails, DecodeFails
<1>2. request[q].pc # "new"
  BY DEF FindsMisshapen, RunFails, DecodeFails
<1> QED
  BY <1>1, <1>2, FailStep

LEMMA HitStep ==
    ASSUME IInv, NEW q \in Requests, Hit(q)
    PROVE  Typed(q)' /\ RequestInv(q)'
<1>1. /\ request[q].pc = "lookup" /\ Key(q) \in DOMAIN cache
      /\ cache[Key(q)].payload = "predictions" /\ Respond(q, cache[Key(q)], TRUE)
  BY DEF Hit
<1>2. Matches(cache[Key(q)], request[q].input, request[q].model)
  BY <1>1 DEF IInv, CacheTrue, Key, build_key, Matches
<1> QED
  BY <1>1, <1>2, RespondStep

LEMMA GoOnSteps ==
    ASSUME IInv, NEW q \in Requests, Miss(q) \/ FindsUnparsable(q) \/ Drop(q)
    PROVE  Typed(q)' /\ RequestInv(q)'
<1>1. PICK pc \in {"run", "drop"} : request' = [request EXCEPT ![q].pc = pc]
  BY DEF Miss, FindsUnparsable, Drop
<1>2. request[q].pc \in {"lookup", "drop"} /\ UNCHANGED counted
  BY DEF Miss, FindsUnparsable, Drop
<1>3. DOMAIN request = Requests /\ DOMAIN request[q] = DOMAIN NewRequest
  BY DEF IInv, TypeOK
<1>4. /\ request'[q].pc = pc /\ request'[q].error = request[q].error
      /\ request'[q].input = request[q].input /\ request'[q].replica = request[q].replica
      /\ request'[q].version = request[q].version /\ request'[q].variant = request[q].variant
      /\ request'[q].model = request[q].model /\ DOMAIN request'[q] = DOMAIN NewRequest
  BY <1>1, <1>3 DEF NewRequest
<1> QED
  BY <1>2, <1>4, GoesOn

LEMMA RunStep ==
    ASSUME IInv, NEW q \in Requests, Run(q)
    PROVE  Typed(q)' /\ RequestInv(q)'
<1> DEFINE predictions == Compute(request[q].input, request[q].model)
<1>1. Matches(predictions, request[q].input, request[q].model) /\ request[q].pc = "run"
  BY DEF Compute, Matches, Run
<1>2. \/ Respond(q, predictions, FALSE)
      \/ /\ request' = [request EXCEPT ![q].pc = "store", ![q].predictions = predictions]
         /\ UNCHANGED counted
  BY DEF Run
<1> HIDE DEF predictions
<1>3. CASE Respond(q, predictions, FALSE)
  BY <1>1, <1>3, RespondStep
<1>4. CASE /\ request' = [request EXCEPT ![q].pc = "store", ![q].predictions = predictions]
           /\ UNCHANGED counted
  <2>1. DOMAIN request = Requests /\ DOMAIN request[q] = DOMAIN NewRequest
    BY DEF IInv, TypeOK
  <2>2. /\ request'[q].pc = "store" /\ request'[q].error = request[q].error
        /\ request'[q].predictions = predictions
        /\ request'[q].input = request[q].input /\ request'[q].replica = request[q].replica
        /\ request'[q].version = request[q].version /\ request'[q].variant = request[q].variant
        /\ request'[q].model = request[q].model /\ DOMAIN request'[q] = DOMAIN NewRequest
    BY <1>4, <2>1 DEF NewRequest
  <2> QED
    BY <1>1, <1>4, <2>2, GoesOn
<1> QED
  BY <1>2, <1>3, <1>4

LEMMA StoreStep ==
    ASSUME IInv, NEW q \in Requests, Store(q)
    PROVE  Typed(q)' /\ RequestInv(q)'
<1>1. /\ request[q].pc = "store" /\ Respond(q, request[q].predictions, FALSE)
      /\ Matches(request[q].predictions, request[q].input, request[q].model)
  BY DEF IInv, RequestInv, HeldTrue, Store
<1> QED
  BY <1>1, RespondStep

LEMMA RequestStepInv ==
    ASSUME IInv, NEW q \in Requests, RequestStep(q)
    PROVE  \A x \in Requests : Typed(x)' /\ RequestInv(x)'
<1>1. Typed(q)' /\ RequestInv(q)'
  BY ReceiveStep, UploadTooLargeStep, ValidateStep, LaterFailures, HitStep, GoOnSteps,
     RunStep, StoreStep DEF RequestStep
<1>2. ASSUME NEW x \in Requests \ {q} PROVE Typed(x)' /\ RequestInv(x)'
  <2>1. /\ request'[x] = request[x] /\ audit'[x] = audit[x] /\ counted'[x] = counted[x]
        /\ replica' = replica
    BY OtherRequests DEF registryVars
  <2>2. Typed(x) /\ RequestInv(x)
    BY DEF IInv, TypeOK, Typed
  <2>3. Typed(x)'
    BY <2>1, <2>2 DEF Typed
  <2> QED
    BY <2>1, <2>2, <2>3, OthersKept
<1> QED
  BY <1>1, <1>2

\* Entries come from a store of what their key says, or are of no use.
LEMMA CacheStep ==
    ASSUME IInv, [Next]_vars
    PROVE  /\ CacheTrue'
           /\ \A k \in DOMAIN cache' :
                cache'[k].payload \in {"predictions", "unparsable", "misshapen"}
<1>0. /\ CacheTrue
      /\ \A k \in DOMAIN cache : cache[k].payload \in {"predictions", "unparsable", "misshapen"}
  BY DEF IInv, TypeOK
<1>1. CASE cache' = cache
  BY <1>0, <1>1 DEF CacheTrue
<1>2. ASSUME NEW k, cache' = Without(k)
      PROVE  /\ DOMAIN cache' \subseteq DOMAIN cache
             /\ \A x \in DOMAIN cache' : cache'[x] = cache[x]
  BY <1>2 DEF Without
<1>3. ASSUME NEW k, NEW value, cache' = With(k, value)
      PROVE  \A x \in DOMAIN cache' : (x = k /\ cache'[x] = value)
                                      \/ (x \in DOMAIN cache /\ cache'[x] = cache[x])
  BY <1>3 DEF With
<1>4. ASSUME NEW q \in Requests, Store(q), cache' = With(Key(q), request[q].predictions)
      PROVE  /\ CacheTrue'
             /\ \A k \in DOMAIN cache' :
                  cache'[k].payload \in {"predictions", "unparsable", "misshapen"}
  <2>1. Matches(request[q].predictions, request[q].input, request[q].model)
    BY <1>4 DEF IInv, RequestInv, HeldTrue, Store
  <2>2. /\ Key(q).image = request[q].input.image /\ Key(q).options = request[q].input.options
        /\ Key(q).version = request[q].model.version /\ Key(q).backend = request[q].model.backend
    BY DEF Key, build_key
  <2>3. \A x \in DOMAIN cache' : (x = Key(q) /\ cache'[x] = request[q].predictions)
                                 \/ (x \in DOMAIN cache /\ cache'[x] = cache[x])
    BY <1>3, <1>4
  <2> QED
    BY <1>0, <2>1, <2>2, <2>3 DEF CacheTrue, Matches
<1>5. ASSUME NEW k, NEW payload \in {Unparsable, Misshapen}, cache' = With(k, payload)
      PROVE  /\ CacheTrue'
             /\ \A x \in DOMAIN cache' :
                  cache'[x].payload \in {"predictions", "unparsable", "misshapen"}
  <2>1. payload.payload \in {"unparsable", "misshapen"}
    BY DEF Unparsable, Misshapen
  <2>2. \A x \in DOMAIN cache' : (x = k /\ cache'[x] = payload)
                                 \/ (x \in DOMAIN cache /\ cache'[x] = cache[x])
    BY <1>3, <1>5
  <2> QED
    BY <1>0, <2>1, <2>2 DEF CacheTrue
<1>6. ASSUME NEW k, cache' = Without(k)
      PROVE  /\ CacheTrue'
             /\ \A x \in DOMAIN cache' :
                  cache'[x].payload \in {"predictions", "unparsable", "misshapen"}
  BY <1>0, <1>2, <1>6 DEF CacheTrue
<1>7. \/ cache' = cache
      \/ \E k : cache' = Without(k)
      \/ \E payload \in {Unparsable, Misshapen} : \E k : cache' = With(k, payload)
      \/ \E q \in Requests : Store(q) /\ cache' = With(Key(q), request[q].predictions)
  <2>1. ASSUME NEW q \in Requests, RequestStep(q)
        PROVE  \/ cache' \in {cache, Without(Key(q))}
               \/ Store(q) /\ cache' = With(Key(q), request[q].predictions)
    BY <2>1 DEF RequestStep, Receive, UploadTooLarge, Validate, Hit, Miss, FindsUnparsable,
                FindsMisshapen, Drop, Run, RunFails, DecodeFails, Store
  <2>2. ASSUME NEW k \in DOMAIN cache, Evict(k) PROVE cache' = Without(k)
    BY <2>2 DEF Evict
  <2>3. ASSUME NEW k \in DOMAIN cache, NEW payload \in {Unparsable, Misshapen}, Damage(k, payload)
        PROVE  cache' = With(k, payload)
    BY <2>3 DEF Damage
  <2>4. ASSUME (\E r \in Replicas : StopReplica(r)) \/ Registry \/ UNCHANGED vars
        PROVE  cache' = cache
    BY <2>4 DEF StopReplica, Registry, vars
  <2>5. CASE \E q \in Requests : RequestStep(q)
    BY <2>1, <2>5
  <2>6. CASE \E k \in DOMAIN cache :
               Evict(k) \/ \E payload \in {Unparsable, Misshapen} : Damage(k, payload)
    BY <2>2, <2>3, <2>6
  <2> QED
    BY <2>4, <2>5, <2>6 DEF Next
<1> QED
  BY <1>1, <1>4, <1>5, <1>6, <1>7

\* The experiment of a replica, and what it was checked against, change only
\* when it starts or stops.
LEMMA ExperimentStep ==
    ASSUME IInv, [Next]_vars
    PROVE  ExperimentLoaded'
<1>0. /\ ExperimentLoaded /\ RegistryTypeOK' /\ replica \in [Replicas -> ReplicaStates]
  BY RegistryInvStep DEF IInv, RegistryInv, RegistryTypeOK
<1>a. \A x \in Replicas : replica'[x].up => replica'[x].active \in DOMAIN replica'[x].loaded
  BY <1>0 DEF RegistryTypeOK
<1>1. CASE replica' = replica
  BY <1>0, <1>1 DEF ExperimentLoaded
<1>2. ASSUME NEW r \in Replicas, Stop(r) PROVE ExperimentLoaded'
  <2>1. replica' = [replica EXCEPT ![r] = Down("stopped")]
    BY <1>2 DEF Stop
  <2>2. \A x \in Replicas : replica'[x] = IF x = r THEN Down("stopped") ELSE replica[x]
    BY <1>0, <2>1
  <2> QED
    BY <1>0, <2>2, DownType DEF ExperimentLoaded
<1>3. ASSUME NEW r \in Replicas, NEW v \in Versions, SetActive(r, v) PROVE ExperimentLoaded'
  <2>1. replica[r] \in ReplicaStates /\ replica' = [replica EXCEPT ![r].active = v]
    BY <1>0, <1>3 DEF SetActive
  <2>2. /\ replica'[r].up = replica[r].up /\ replica'[r].loaded = replica[r].loaded
        /\ replica'[r].experiment = replica[r].experiment
    BY <1>0, <2>1 DEF ReplicaStates
  <2>3. \A x \in Replicas \ {r} : replica'[x] = replica[x]
    BY <1>0, <2>1
  <2> QED
    BY <1>0, <1>a, <2>2, <2>3 DEF ExperimentLoaded
<1>4. ASSUME NEW r \in Replicas, Startup(r) PROVE ExperimentLoaded'
  <2> DEFINE After(versions, loaded) ==
               IF DefaultVersion \notin versions THEN Down("no_model")
               ELSE IF \E i \in DOMAIN Entries : Entries[i] = None
               THEN Down("experiment_error")
               ELSE [up |-> TRUE, why |-> "serving", loaded |-> loaded,
                     active |-> DefaultVersion, experiment |-> LoadExperiment(versions)]
  <2>0. PICK versions \in SUBSET Versions :
          \E loaded \in [versions -> UNION {Loads(v) : v \in versions}] :
             replica' = [replica EXCEPT ![r] = After(versions, loaded)]
    BY <1>4 DEF Startup
  <2>1. PICK loaded \in [versions -> UNION {Loads(v) : v \in versions}] :
          replica' = [replica EXCEPT ![r] = After(versions, loaded)]
    BY <2>0
  <2> DEFINE X == After(versions, loaded)
  <2>2. ASSUME X.up, X.experiment # None
        PROVE  /\ IsSequence(X.experiment.variants) /\ Len(X.experiment.variants) > 0
               /\ Servable(X.experiment, DOMAIN X.loaded)
    <3>1. /\ \A i \in DOMAIN Entries : Entries[i] # None
          /\ X.experiment = LoadExperiment(versions) /\ DOMAIN X.loaded = versions
      BY <2>2, DownType
    <3> HIDE DEF X
    <3>2. PICK i \in DOMAIN Entries : /\ X.experiment = Entries[i] /\ WellFormed(Entries[i])
                                      /\ Servable(Entries[i], versions)
      BY <2>2, <3>1, LoadExperimentServable
    <3> QED
      BY <3>1, <3>2, EntriesAssumption DEF WellFormed
  <2> HIDE DEF X
  <2>3. \A x \in Replicas : replica'[x] = IF x = r THEN X ELSE replica[x]
    BY <1>0, <2>1 DEF X
  <2> QED
    BY <1>0, <1>a, <2>2, <2>3 DEF ExperimentLoaded
<1>5. Publish \/ UNCHANGED registryVars => replica' = replica
  BY DEF Publish, WriteLabels, ExportFp32, ExportInt8, EndPublish, registryVars
<1> QED
  BY <1>1, <1>2, <1>3, <1>4, <1>5, RegistrySteps

\* The steps of the environment: what an upload in progress was routed to stays
\* loaded as long as its replica serves.
LEMMA EnvironmentStep ==
    ASSUME IInv, [Next]_vars, ~ \E q \in Requests : RequestStep(q), NEW q \in Requests
    PROVE  Typed(q)' /\ RequestInv(q)'
<1>0. /\ Typed(q) /\ RequestInv(q) /\ DOMAIN request = Requests
      /\ replica \in [Replicas -> ReplicaStates]
  BY DEF IInv, TypeOK, Typed, RegistryInv, RegistryTypeOK
<1>1. UNCHANGED <<audit, counted>>
  BY DEF Next, vars, requestVars, Evict, Damage, StopReplica, Registry
<1>2. CASE UNCHANGED <<request, replica>>
  <2>1. Typed(q)'
    BY <1>0, <1>1, <1>2 DEF Typed
  <2> QED
    BY <1>0, <1>1, <1>2, <2>1, OthersKept
<1>3. ASSUME NEW r \in Replicas, StopReplica(r) PROVE Typed(q)' /\ RequestInv(q)'
  <2>1. \/ /\ request'[q] = request[q]
           /\ request[q].pc = "upload" => request[q].replica # r
        \/ /\ request'[q] = [request[q] EXCEPT !.pc = "lost"]
           /\ request[q].pc # "new"
    BY <1>3 DEF StopReplica, InFlight
  <2>2. \A x \in Replicas \ {r} : replica'[x] = replica[x]
    BY <1>0, <1>3 DEF StopReplica, Stop
  <2>3. CASE request'[q] = request[q] /\ (request[q].pc = "upload" => request[q].replica # r)
    <3>1. Typed(q)'
      BY <1>0, <1>1, <2>3 DEF Typed
    <3>2. HeldTrue(q)' /\ PinKept(q)' /\ Settled(q)' /\ NotFoundPinned(q)'
      BY <1>0, <1>1, <2>3 DEF RequestInv, HeldTrue, PinKept, Settled, NotFoundPinned
    <3>3. RoutedLoaded(q)'
      BY <1>0, <2>2, <2>3 DEF RequestInv, RoutedLoaded, Typed
    <3> QED
      BY <3>1, <3>2, <3>3 DEF RequestInv
  <2>4. CASE request'[q] = [request[q] EXCEPT !.pc = "lost"] /\ request[q].pc # "new"
    <3>1. /\ request'[q].pc = "lost" /\ request'[q].error = request[q].error
          /\ request'[q].input = request[q].input /\ request'[q].replica = request[q].replica
          /\ request'[q].version = request[q].version /\ request'[q].variant = request[q].variant
          /\ DOMAIN request'[q] = DOMAIN NewRequest
      BY <1>0, <2>4 DEF Typed, NewRequest
    <3>2. Typed(q)'
      BY <1>0, <1>1, <2>4, <3>1 DEF Typed
    <3>3. HeldTrue(q)' /\ PinKept(q)' /\ Settled(q)' /\ NotFoundPinned(q)' /\ RoutedLoaded(q)'
      BY <1>0, <2>4, <3>1
         DEF RequestInv, HeldTrue, PinKept, Settled, NotFoundPinned, RoutedLoaded
    <3> QED
      BY <3>2, <3>3 DEF RequestInv
  <2> QED
    BY <2>1, <2>3, <2>4
<1>4. ASSUME UNCHANGED request,
             \A x \in Replicas : replica[x].up =>
               replica'[x].up /\ replica'[x].loaded = replica[x].loaded
      PROVE  Typed(q)' /\ RequestInv(q)'
  <2>1. Typed(q)'
    BY <1>0, <1>1, <1>4 DEF Typed
  <2>2. HeldTrue(q)' /\ PinKept(q)' /\ Settled(q)' /\ NotFoundPinned(q)'
    BY <1>0, <1>1, <1>4 DEF RequestInv, HeldTrue, PinKept, Settled, NotFoundPinned
  <2>3. RoutedLoaded(q)'
    BY <1>0, <1>4 DEF RequestInv, RoutedLoaded, Typed
  <2> QED
    BY <2>1, <2>2, <2>3 DEF RequestInv
<1>5. CASE Registry
  <2>1. UNCHANGED request
    BY <1>5 DEF Registry, requestVars
  <2>2. CASE Publish
    BY <1>2, <2>1, <2>2 DEF Publish, WriteLabels, ExportFp32, ExportInt8, EndPublish
  <2>3. ASSUME NEW r \in Replicas, Startup(r) PROVE Typed(q)' /\ RequestInv(q)'
    <3>1. \A x \in Replicas : replica[x].up => replica'[x] = replica[x]
      BY <1>0, <2>3 DEF Startup
    <3> QED
      BY <1>4, <2>1, <3>1
  <2>4. ASSUME NEW r \in Replicas, NEW v \in Versions, SetActive(r, v)
        PROVE  Typed(q)' /\ RequestInv(q)'
    <3>1. replica[r] \in ReplicaStates /\ replica' = [replica EXCEPT ![r].active = v]
      BY <1>0, <2>4 DEF SetActive
    <3>2. replica'[r].up = replica[r].up /\ replica'[r].loaded = replica[r].loaded
      BY <1>0, <3>1 DEF ReplicaStates
    <3>3. \A x \in Replicas \ {r} : replica'[x] = replica[x]
      BY <1>0, <3>1
    <3> QED
      BY <1>4, <2>1, <3>2, <3>3
  <2> QED
    BY <1>5, <2>2, <2>3, <2>4 DEF Registry
<1>6. ASSUME NEW k, Evict(k) \/ \E payload \in {Unparsable, Misshapen} : Damage(k, payload)
      PROVE  UNCHANGED <<request, replica>>
  BY <1>6 DEF Evict, Damage, requestVars, registryVars
<1>7. CASE UNCHANGED vars
  BY <1>2, <1>7 DEF vars, requestVars, registryVars
<1> QED
  BY <1>2, <1>3, <1>5, <1>6, <1>7 DEF Next

\* No step adds or removes a request.
LEMMA RequestsKept ==
    ASSUME IInv, [Next]_vars
    PROVE  /\ DOMAIN request' = Requests /\ DOMAIN audit' = Requests
           /\ counted' = [q \in Requests |-> counted'[q]]
<1>0. /\ DOMAIN request = Requests /\ DOMAIN audit = Requests
      /\ counted = [q \in Requests |-> counted[q]]
  BY DEF IInv, TypeOK
<1>1. ASSUME NEW q \in Requests, RequestStep(q)
      PROVE  /\ DOMAIN request' = Requests /\ DOMAIN audit' = Requests
             /\ counted' = [x \in Requests |-> counted'[x]]
  <2>1. CASE \E r \in Replicas, in \in Inputs : Receive(q, r, in)
    BY <1>0, <2>1 DEF Receive
  <2>2. CASE UploadTooLarge(q) \/ Miss(q) \/ FindsUnparsable(q) \/ Drop(q)
    BY <1>0, <2>2 DEF UploadTooLarge, Miss, FindsUnparsable, Drop
  <2>3. CASE Validate(q) \/ FindsMisshapen(q) \/ RunFails(q) \/ DecodeFails(q)
    <3>1. /\ \/ \E error : Fail(q, error)
             \/ /\ DOMAIN request' = DOMAIN request
                /\ UNCHANGED counted
          /\ DOMAIN audit' = DOMAIN audit
      BY <2>3 DEF Validate, FindsMisshapen, RunFails, DecodeFails
    <3> QED
      BY <1>0, <3>1 DEF Fail
  <2>4. CASE Hit(q) \/ Run(q) \/ Store(q)
    <3>1. \/ \E p, c : Respond(q, p, c)
          \/ /\ DOMAIN request' = DOMAIN request
             /\ UNCHANGED <<audit, counted>>
      BY <2>4 DEF Hit, Run, Store
    <3> QED
      BY <1>0, <3>1 DEF Respond
  <2> QED
    BY <1>1, <2>1, <2>2, <2>3, <2>4 DEF RequestStep
<1>2. ASSUME ~ \E q \in Requests : RequestStep(q)
      PROVE  /\ DOMAIN request' = Requests /\ DOMAIN audit' = Requests
             /\ counted' = [x \in Requests |-> counted'[x]]
  BY <1>0, <1>2 DEF Next, Evict, Damage, StopReplica, Registry, vars, requestVars
<1> QED
  BY <1>1, <1>2

LEMMA InvStep == IInv /\ [Next]_vars => IInv'
<1> SUFFICES ASSUME IInv, [Next]_vars PROVE IInv'
  OBVIOUS
<1>1. ASSUME NEW q \in Requests PROVE Typed(q)' /\ RequestInv(q)'
  BY RequestStepInv, EnvironmentStep
<1>2. RegistryInv' /\ ExperimentLoaded' /\ CacheTrue'
  BY RegistryInvStep, ExperimentStep, CacheStep DEF IInv
<1>3. /\ DOMAIN request' = Requests /\ DOMAIN audit' = Requests
      /\ counted' = [q \in Requests |-> counted'[q]]
  BY RequestsKept
<1>4. TypeOK'
  BY <1>1, <1>2, <1>3, CacheStep DEF TypeOK, Typed, RegistryInv
<1> QED
  BY <1>1, <1>2, <1>4 DEF IInv

\* Every variable has its type.
THEOREM TypeCorrect == Spec => []TypeOK
<1>1. IInv => TypeOK
  BY DEF IInv
<1> QED
  BY <1>1, InitInv, InvStep, PTL DEF Spec

\* Whatever several replicas on different backends put into the cache, and
\* whatever is evicted or damaged, the predictions of a response were computed
\* from the image and options of its request by the version and backend it names.
THEOREM Provenance == Spec => []ProvenanceTrue
<1>1. IInv => ProvenanceTrue
  BY DEF IInv, RequestInv, HeldTrue, Matches, ProvenanceTrue, Answered
<1> QED
  BY <1>1, InitInv, InvStep, PTL DEF Spec

\* An answered request, cached or not, is audited with the version, backend and
\* variant that served it, and a pinned one with its pin.
THEOREM AuditTrue == Spec => []AuditAgrees
<1>1. IInv => AuditAgrees
  <2> SUFFICES ASSUME IInv, NEW q \in Answered PROVE
        /\ audit[q] = [status |-> "success", cached |-> request[q].cached,
                       version |-> request[q].model.version,
                       backend |-> request[q].model.backend,
                       variant |-> request[q].variant]
        /\ counted[q].success /\ counted[q].version = audit[q].version
        /\ request[q].input.version # None =>
              audit[q].variant = None /\ audit[q].version = request[q].input.version
    BY DEF AuditAgrees
  <2>1. q \in Requests /\ request[q].pc = "answered"
    BY DEF Answered
  <2>2. Settled(q) /\ PinKept(q)
    BY <2>1 DEF IInv, RequestInv
  <2> QED
    BY <2>1, <2>2 DEF Settled, PinKept
<1> QED
  BY <1>1, InitInv, InvStep, PTL DEF Spec

\* No traffic of an experiment, and none of the active version, is answered that
\* its version is not loaded.
THEOREM ArmsServable == Spec => []OnlyPinsNotFound
<1>1. IInv => OnlyPinsNotFound
  BY DEF IInv, RequestInv, NotFoundPinned, OnlyPinsNotFound
<1> QED
  BY <1>1, InitInv, InvStep, PTL DEF Spec

-----------------------------------------------------------------------------
(* A user stays on an arm                                                   *)

\* The file describes one experiment, however often: entries that are not well
\* formed are dropped when it is read.
OneExperiment ==
    \A i, k \in DOMAIN Entries :
        WellFormed(Entries[i]) /\ WellFormed(Entries[k]) => Entries[i] = Entries[k]

\* What a replica routes with is a well-formed entry of the file.
ExperimentFromFile ==
    \A r \in Replicas :
        \/ replica[r].experiment = None
        \/ \E i \in DOMAIN Entries : /\ replica[r].experiment = Entries[i]
                                     /\ WellFormed(Entries[i])

\* A request that an experiment served has the arm an entry gives its user.
ArmFromFile(q) ==
    request[q].variant # None =>
        /\ request[q].input \in Inputs
        /\ \E i \in DOMAIN Entries :
              /\ Entries[i] # None
              /\ WellFormed(Entries[i])
              /\ request[q].variant = Assign(Entries[i], request[q].input.user).name

ArmInv == IInv /\ ExperimentFromFile /\ \A q \in Requests : ArmFromFile(q)

LEMMA ExperimentKeeps ==
    ASSUME IInv, ExperimentFromFile, [Next]_vars
    PROVE  ExperimentFromFile'
<1>0. replica \in [Replicas -> ReplicaStates]
  BY DEF IInv, RegistryInv, RegistryTypeOK
<1>1. CASE replica' = replica
  BY <1>1 DEF ExperimentFromFile
<1>2. ASSUME NEW r \in Replicas, Stop(r) PROVE ExperimentFromFile'
  <2>1. replica' = [replica EXCEPT ![r] = Down("stopped")]
    BY <1>2 DEF Stop
  <2> QED
    BY <1>0, <2>1 DEF ExperimentFromFile, Down
<1>3. ASSUME NEW r \in Replicas, NEW v \in Versions, SetActive(r, v) PROVE ExperimentFromFile'
  <2>1. replica[r] \in ReplicaStates /\ replica' = [replica EXCEPT ![r].active = v]
    BY <1>0, <1>3 DEF SetActive
  <2>2. \A x \in Replicas : replica'[x].experiment = replica[x].experiment
    BY <1>0, <2>1 DEF ReplicaStates
  <2> QED
    BY <2>2 DEF ExperimentFromFile
<1>4. ASSUME NEW r \in Replicas, Startup(r) PROVE ExperimentFromFile'
  <2> DEFINE After(versions, loaded) ==
               IF DefaultVersion \notin versions THEN Down("no_model")
               ELSE IF \E i \in DOMAIN Entries : Entries[i] = None
               THEN Down("experiment_error")
               ELSE [up |-> TRUE, why |-> "serving", loaded |-> loaded,
                     active |-> DefaultVersion, experiment |-> LoadExperiment(versions)]
  <2>0. PICK versions \in SUBSET Versions :
          \E loaded \in [versions -> UNION {Loads(v) : v \in versions}] :
             replica' = [replica EXCEPT ![r] = After(versions, loaded)]
    BY <1>4 DEF Startup
  <2>1. PICK loaded \in [versions -> UNION {Loads(v) : v \in versions}] :
          replica' = [replica EXCEPT ![r] = After(versions, loaded)]
    BY <2>0
  <2> DEFINE X == After(versions, loaded)
  <2>2. \/ X.experiment = None
        \/ \E i \in DOMAIN Entries : X.experiment = Entries[i] /\ WellFormed(Entries[i])
    <3>1. X.experiment \in {None, LoadExperiment(versions)}
      BY DEF Down
    <3> HIDE DEF X
    <3> QED
      BY <3>1, LoadExperimentServable
  <2> HIDE DEF X
  <2>3. \A x \in Replicas : replica'[x] = IF x = r THEN X ELSE replica[x]
    BY <1>0, <2>1 DEF X
  <2> QED
    BY <2>2, <2>3 DEF ExperimentFromFile
<1>5. Publish \/ UNCHANGED registryVars => replica' = replica
  BY DEF Publish, WriteLabels, ExportFp32, ExportInt8, EndPublish, registryVars
<1> QED
  BY <1>1, <1>2, <1>3, <1>4, <1>5, RegistrySteps

\* Once received, a request keeps its input and its arm.
LEMMA ArmKept ==
    ASSUME IInv, NEW q \in Requests, [Next]_vars,
           ~ \E r \in Replicas, in \in Inputs : Receive(q, r, in)
    PROVE  /\ request'[q].variant = request[q].variant
           /\ request'[q].input = request[q].input
<1>1. DOMAIN request = Requests /\ DOMAIN request[q] = DOMAIN NewRequest
  BY DEF IInv, TypeOK
<1>2. CASE RequestStep(q)
  <2>1. ASSUME NEW error, Fail(q, error)
        PROVE  request'[q].variant = request[q].variant /\ request'[q].input = request[q].input
    BY <1>1, <2>1 DEF Fail, NewRequest
  <2>2. ASSUME NEW p, NEW cached, Respond(q, p, cached)
        PROVE  request'[q].variant = request[q].variant /\ request'[q].input = request[q].input
    <3>1. request' = [request EXCEPT ![q] = [request[q] EXCEPT !.pc = "answered",
                        !.predictions = p, !.cached = cached]]
      BY <1>1, <2>2 DEF Respond, NewRequest
    <3> QED
      BY <1>1, <3>1 DEF NewRequest
  <2>3. CASE UploadTooLarge(q) \/ Miss(q) \/ FindsUnparsable(q) \/ Drop(q)
    BY <1>1, <2>3 DEF UploadTooLarge, Miss, FindsUnparsable, Drop, NewRequest
  <2>4. CASE FindsMisshapen(q) \/ RunFails(q) \/ DecodeFails(q)
    BY <2>1, <2>4 DEF FindsMisshapen, RunFails, DecodeFails
  <2>5. CASE Validate(q)
    <3>1. \/ \E error : Fail(q, error)
          \/ \E m, pc : request' = [request EXCEPT ![q].model = m, ![q].pc = pc]
      BY <2>5 DEF Validate
    <3> QED
      BY <1>1, <2>1, <3>1 DEF NewRequest
  <2>6. CASE Hit(q) \/ Store(q)
    BY <2>2, <2>6 DEF Hit, Store
  <2>7. CASE Run(q)
    <3>1. \/ \E p, cached : Respond(q, p, cached)
          \/ \E p : request' = [request EXCEPT ![q].pc = "store", ![q].predictions = p]
      BY <2>7 DEF Run
    <3> QED
      BY <1>1, <2>2, <3>1 DEF NewRequest
  <2> QED
    BY <1>2, <2>3, <2>4, <2>5, <2>6, <2>7 DEF RequestStep
<1>3. CASE \E x \in Requests \ {q} : RequestStep(x)
  BY <1>3, OtherRequests
<1>4. CASE ~ \E x \in Requests : RequestStep(x)
  <2>1. request'[q] = request[q] \/ request'[q] = [request[q] EXCEPT !.pc = "lost"]
    BY <1>4 DEF Next, vars, requestVars, Evict, Damage, StopReplica, Registry
  <2> QED
    BY <1>1, <2>1 DEF NewRequest
<1> QED
  BY <1>2, <1>3, <1>4

LEMMA ArmStep == ArmInv /\ [Next]_vars => ArmInv'
<1> SUFFICES ASSUME ArmInv, [Next]_vars PROVE ArmInv'
  OBVIOUS
<1>1. IInv' /\ ExperimentFromFile'
  BY InvStep, ExperimentKeeps DEF ArmInv
<1>2. ASSUME NEW q \in Requests PROVE ArmFromFile(q)'
  <2>1. ASSUME NEW r \in Replicas, NEW in \in Inputs, Receive(q, r, in)
        PROVE  ArmFromFile(q)'
    <3> DEFINE e == replica[r].experiment
               routed == in.version = None /\ e # None
               version == IF routed THEN Assign(e, in.user).version ELSE in.version
               variant == IF routed THEN Assign(e, in.user).name ELSE None
    <3>1. request' = [request EXCEPT ![q] =
            [NewRequest EXCEPT !.pc = "upload", !.replica = r, !.input = in,
               !.version = version, !.variant = variant]]
      BY <2>1 DEF Receive
    <3>2. variant # None => e # None /\ variant = Assign(e, in.user).name
      OBVIOUS
    <3>3. e # None => \E i \in DOMAIN Entries : e = Entries[i] /\ WellFormed(Entries[i])
      BY DEF ArmInv, ExperimentFromFile
    <3> HIDE DEF e, version, variant
    <3>4. DOMAIN request = Requests
      BY DEF ArmInv, IInv, TypeOK
    <3>5. request'[q].variant = variant /\ request'[q].input = in
      BY <3>1, <3>4 DEF NewRequest
    <3> QED
      BY <3>2, <3>3, <3>5 DEF ArmFromFile
  <2>2. CASE ~ \E r \in Replicas, in \in Inputs : Receive(q, r, in)
    BY <2>2, ArmKept DEF ArmInv, ArmFromFile
  <2> QED
    BY <2>1, <2>2
<1> QED
  BY <1>1, <1>2 DEF ArmInv

LEMMA ArmInit == Init => ArmInv
<1> SUFFICES ASSUME Init PROVE ArmInv
  OBVIOUS
<1>1. replica = [r \in Replicas |-> Down("stopped")] /\ request = [q \in Requests |-> NewRequest]
  BY DEF Init, RegistryInit
<1> QED
  BY <1>1, InitInv DEF ArmInv, ExperimentFromFile, ArmFromFile, Down, NewRequest

\* Whatever the replicas have loaded, and however often they restart, a user
\* that an experiment serves is served by one arm, if the file describes one
\* experiment: an arm is a function of the file and the user alone.
THEOREM UserKeepsArm == OneExperiment => (Spec => []UserStaysOnArm)
<1> SUFFICES ASSUME OneExperiment PROVE Spec => []UserStaysOnArm
  OBVIOUS
<1>1. ArmInv => UserStaysOnArm
  <2> SUFFICES ASSUME ArmInv, NEW q1 \in Requests, NEW q2 \in Requests,
                      request[q1].variant # None, request[q2].variant # None,
                      request[q1].input.user = request[q2].input.user
               PROVE  request[q1].variant = request[q2].variant
    BY DEF UserStaysOnArm
  <2>1. PICK i \in DOMAIN Entries :
          /\ WellFormed(Entries[i])
          /\ request[q1].variant = Assign(Entries[i], request[q1].input.user).name
    BY DEF ArmInv, ArmFromFile
  <2>2. PICK k \in DOMAIN Entries :
          /\ WellFormed(Entries[k])
          /\ request[q2].variant = Assign(Entries[k], request[q2].input.user).name
    BY DEF ArmInv, ArmFromFile
  <2> QED
    BY <2>1, <2>2 DEF OneExperiment
<1> QED
  BY <1>1, ArmInit, ArmStep, PTL DEF Spec
-----------------------------------------------------------------------------
(* Traffic by weight                                                        *)

\* A variant's weight is a number: what Variant checks at construction.
Weighted(e) ==
    /\ IsSequence(e.variants)
    /\ \A i \in DOMAIN e.variants : e.variants[i].weight \in Nat

\* sum holds the running sums of the weights of e up to m.
RunningSum(e, m, sum) ==
    sum = [i \in 0..m |-> IF i = 0 THEN 0 ELSE sum[i - 1] + e.variants[i].weight]

\* Running sums exist up to any m: with a least m for which there are none, the
\* sums up to m - 1 extend to m.
LEMMA RunningSumExists ==
    ASSUME NEW e, NEW n \in Nat
    PROVE  \E sum : RunningSum(e, n, sum)
<1> DEFINE without == {m \in Nat : ~ \E sum : RunningSum(e, m, sum)}
<1>1. SUFFICES ASSUME without # {} PROVE FALSE
  OBVIOUS
<1>2. PICK m \in without : \A k \in without : m <= k
  <2>1. without \in SUBSET Nat
    OBVIOUS
  <2> HIDE DEF without
  <2> QED
    BY <1>1, <2>1, MinExists
<1>3. m # 0
  <2> DEFINE zero == [i \in 0..0 |-> 0]
  <2>1. zero = [i \in 0..0 |-> IF i = 0 THEN 0 ELSE zero[i - 1] + e.variants[i].weight]
    OBVIOUS
  <2>2. RunningSum(e, 0, zero)
    BY <2>1 DEF RunningSum
  <2> QED
    BY <2>2
<1>4. m \in Nat /\ m - 1 \in Nat /\ m - 1 \notin without
  <2>1. m \in Nat /\ m - 1 \in Nat /\ ~(m <= m - 1)
    BY <1>3
  <2> HIDE DEF without
  <2> QED
    BY <1>2, <2>1
<1>5. PICK shorter : RunningSum(e, m - 1, shorter)
  BY <1>4
<1> DEFINE sum == [i \in 0..m |-> IF i = m THEN shorter[m - 1] + e.variants[m].weight
                                  ELSE shorter[i]]
<1>6. \A i \in 0..(m - 1) : shorter[i] = IF i = 0 THEN 0 ELSE shorter[i - 1] + e.variants[i].weight
  BY <1>5, Zenon DEF RunningSum
<1>7. \A i \in 0..m : sum[i] = IF i = 0 THEN 0 ELSE sum[i - 1] + e.variants[i].weight
  <2> SUFFICES ASSUME NEW i \in 0..m
               PROVE  sum[i] = IF i = 0 THEN 0 ELSE sum[i - 1] + e.variants[i].weight
    OBVIOUS
  <2>1. CASE i = m
    BY <2>1, <1>3, <1>4
  <2>2. CASE i # m
    BY <2>2, <1>4, <1>6
  <2> QED
    BY <2>1, <2>2
<1>8. RunningSum(e, m, sum)
  BY <1>7 DEF RunningSum
<1> QED
  BY <1>2, <1>8

LEMMA CumulativeWeightIs ==
    ASSUME NEW e, Weighted(e)
    PROVE  LET sum == CumulativeWeight(e)
               n == Len(e.variants)
           IN /\ sum[0] = 0
              /\ \A i \in 1..n : sum[i] = sum[i - 1] + e.variants[i].weight
<1> DEFINE n == Len(e.variants)
           sum == CumulativeWeight(e)
<1>1. n \in Nat
  BY DEF Weighted, IsSequence
<1>2. \E f : f = [i \in 0..n |-> IF i = 0 THEN 0 ELSE f[i - 1] + e.variants[i].weight]
  BY <1>1, RunningSumExists DEF RunningSum
<1>3. sum = [i \in 0..n |-> IF i = 0 THEN 0 ELSE sum[i - 1] + e.variants[i].weight]
  BY <1>2, Zenon DEF CumulativeWeight
<1>4. \A i \in 0..n : sum[i] = IF i = 0 THEN 0 ELSE sum[i - 1] + e.variants[i].weight
  <2> HIDE DEF sum
  <2> QED
    BY <1>3, Zenon
<1> HIDE DEF sum
<1>5. sum[0] = 0
  BY <1>1, <1>4
<1>6. \A i \in 1..n : sum[i] = sum[i - 1] + e.variants[i].weight
  BY <1>1, <1>4
<1> QED
  BY <1>5, <1>6 DEF sum, n

\* The running sums are numbers that never fall.
LEMMA CumulativeWeightGrows ==
    ASSUME NEW e, Weighted(e)
    PROVE  /\ \A i \in 0..Len(e.variants) : CumulativeWeight(e)[i] \in Nat
           /\ \A i, k \in 0..Len(e.variants) :
                 i <= k => CumulativeWeight(e)[i] <= CumulativeWeight(e)[k]
<1> DEFINE n == Len(e.variants)
           sum == CumulativeWeight(e)
<1>1. n \in Nat /\ \A i \in 1..n : e.variants[i].weight \in Nat
  BY DEF Weighted, IsSequence
<1>2. sum[0] = 0 /\ \A i \in 1..n : sum[i] = sum[i - 1] + e.variants[i].weight
  BY CumulativeWeightIs
<1> HIDE DEF n, sum
<1>3. \A i \in 0..n : sum[i] \in Nat
  <2> DEFINE bad == {i \in 0..n : sum[i] \notin Nat}
  <2>1. SUFFICES ASSUME bad # {} PROVE FALSE
    OBVIOUS
  <2>2. PICK i \in bad : \A k \in bad : i <= k
    <3>1. bad \in SUBSET Nat
      BY <1>1
    <3> HIDE DEF bad
    <3> QED
      BY <2>1, <3>1, MinExists
  <2>3. i \in 1..n
    BY <1>1, <1>2
  <2>4. i - 1 \in 0..n /\ i - 1 \notin bad
    BY <1>1, <2>2, <2>3
  <2>5. sum[i] = sum[i - 1] + e.variants[i].weight /\ e.variants[i].weight \in Nat
    BY <1>1, <1>2, <2>3
  <2> QED
    BY <2>4, <2>5
<1>4. \A i, k \in 0..n : i <= k => sum[i] <= sum[k]
  <2> SUFFICES ASSUME NEW i \in 0..n PROVE \A k \in 0..n : i <= k => sum[i] <= sum[k]
    OBVIOUS
  <2> DEFINE bad == {k \in 0..n : i <= k /\ ~(sum[i] <= sum[k])}
  <2>1. SUFFICES ASSUME bad # {} PROVE FALSE
    OBVIOUS
  <2>2. PICK k \in bad : \A j \in bad : k <= j
    <3>1. bad \in SUBSET Nat
      BY <1>1
    <3> HIDE DEF bad
    <3> QED
      BY <2>1, <3>1, MinExists
  <2>3. k # i /\ i < k
    BY <1>1, <1>3
  <2>4. k \in 1..n /\ k - 1 \in 0..n /\ i <= k - 1
    BY <1>1, <2>3
  <2>5. k - 1 \notin bad
    <3>1. ~(k <= k - 1)
      BY <1>1, <2>4
    <3> HIDE DEF bad
    <3> QED BY <2>2, <3>1
  <2>6. sum[i] <= sum[k - 1]
    BY <2>4, <2>5
  <2>7. sum[k] = sum[k - 1] + e.variants[k].weight /\ e.variants[k].weight \in Nat
    BY <1>1, <1>2, <2>4
  <2> QED
    BY <1>3, <2>4, <2>6, <2>7
<1> QED
  BY <1>3, <1>4 DEF n, sum

\* The positions at which users are given arm i: from the running sum before it
\* to its own.
Share(e, i) == CumulativeWeight(e)[i - 1] .. (CumulativeWeight(e)[i] - 1)

LEMMA WellFormedWeighted ==
    ASSUME NEW e, IsSequence(e.variants), WellFormed(e), Total \in Nat
    PROVE  Weighted(e)
BY DEF WellFormed, Weighted

\* The shares of the arms split the positions below Total among them, and each
\* is as large as the weight of its arm.
THEOREM SharesAreWeights ==
    ASSUME NEW e, IsSequence(e.variants), WellFormed(e), Total \in Nat
    PROVE  /\ \A i \in DOMAIN e.variants :
                 /\ IsFiniteSet(Share(e, i))
                 /\ Cardinality(Share(e, i)) = e.variants[i].weight
                 /\ Share(e, i) \subseteq 0..(Total - 1)
           /\ \A i, k \in DOMAIN e.variants : i # k => Share(e, i) \cap Share(e, k) = {}
           /\ \A p \in 0..(Total - 1) : \E i \in DOMAIN e.variants : p \in Share(e, i)
<1> DEFINE n == Len(e.variants)
           sum == CumulativeWeight(e)
<1>1. n \in Nat /\ DOMAIN e.variants = 1..n /\ \A i \in 1..n : e.variants[i].weight \in Nat
  BY WellFormedWeighted DEF Weighted, IsSequence
<1>2. sum[0] = 0 /\ \A i \in 1..n : sum[i] = sum[i - 1] + e.variants[i].weight
  BY WellFormedWeighted, CumulativeWeightIs
<1>3. /\ \A i \in 0..n : sum[i] \in Nat
      /\ \A i, k \in 0..n : i <= k => sum[i] <= sum[k]
  BY WellFormedWeighted, CumulativeWeightGrows
<1>4. sum[n] = Total
  BY DEF WellFormed
<1>5. \A i \in 1..n : Share(e, i) = sum[i - 1] .. (sum[i] - 1)
  BY DEF Share
<1> HIDE DEF n, sum
<1>6. ASSUME NEW i \in 1..n
      PROVE  /\ IsFiniteSet(Share(e, i))
             /\ Cardinality(Share(e, i)) = e.variants[i].weight
             /\ Share(e, i) \subseteq 0..(Total - 1)
  <2>1. i - 1 \in 0..n /\ i \in 0..n /\ n \in 0..n
    BY <1>1
  <2>2. /\ sum[i - 1] \in Nat /\ sum[i] \in Nat /\ e.variants[i].weight \in Nat
        /\ sum[i] = sum[i - 1] + e.variants[i].weight
        /\ sum[i] <= Total
    BY <1>1, <1>2, <1>3, <1>4, <2>1
  <2> DEFINE a == sum[i - 1]
             b == sum[i] - 1
  <2>3. a \in Int /\ b \in Int /\ (IF a > b THEN 0 ELSE b - a + 1) = e.variants[i].weight
    BY <2>2
  <2>4. Share(e, i) = a..b
    BY <1>5
  <2>5. a..b \subseteq 0..(Total - 1)
    BY <2>2
  <2> HIDE DEF a, b
  <2>6. IsFiniteSet(a..b) /\ Cardinality(a..b) = IF a > b THEN 0 ELSE b - a + 1
    BY <2>3, FS_Interval
  <2> QED
    BY <2>3, <2>4, <2>5, <2>6
<1>7. ASSUME NEW i \in 1..n, NEW k \in 1..n, i # k
      PROVE  Share(e, i) \cap Share(e, k) = {}
  <2>1. i <= k - 1 \/ k <= i - 1
    BY <1>7
  <2>2. /\ i - 1 \in 0..n /\ i \in 0..n /\ k - 1 \in 0..n /\ k \in 0..n
    BY <1>1
  <2>3. sum[i] <= sum[k - 1] \/ sum[k] <= sum[i - 1]
    BY <1>3, <2>1, <2>2
  <2>4. /\ sum[i - 1] \in Nat /\ sum[i] \in Nat
        /\ sum[k - 1] \in Nat /\ sum[k] \in Nat
    BY <1>3, <2>2
  <2>5. Share(e, i) = sum[i - 1] .. (sum[i] - 1) /\ Share(e, k) = sum[k - 1] .. (sum[k] - 1)
    BY <1>5
  <2> QED
    BY <2>3, <2>4, <2>5
<1>8. ASSUME NEW p \in 0..(Total - 1)
      PROVE  \E i \in 1..n : p \in Share(e, i)
  <2> DEFINE above == {i \in 1..n : p < sum[i]}
  <2>1. n \in above
    <3>1. n # 0
      BY <1>2, <1>4
    <3> QED
      BY <1>1, <1>4, <3>1
  <2>2. PICK i \in above : \A k \in above : i <= k
    <3>1. above \in SUBSET Nat /\ above # {}
      BY <2>1
    <3> HIDE DEF above
    <3> QED
      BY <3>1, MinExists
  <2>3. i - 1 \in 0..n /\ i \in 1..n /\ p < sum[i]
    BY <1>1
  <2>4. sum[i - 1] <= p
    <3>1. CASE i = 1
      BY <1>2, <3>1
    <3>2. CASE i # 1
      <4>1. i - 1 \in 1..n /\ ~(i <= i - 1)
        BY <1>1, <2>3, <3>2
      <4>2. i - 1 \notin above
        <5> HIDE DEF above
        <5> QED BY <2>2, <4>1
      <4> QED
        BY <1>3, <2>3, <4>1, <4>2
    <3> QED
      BY <3>1, <3>2
  <2> QED
    BY <1>3, <1>5, <2>3, <2>4
<1> QED
  BY <1>1, <1>6, <1>7, <1>8


\* An enabled experiment gives a user the arm in whose share the position of
\* the user is, and no other arm.
THEOREM AssignByShare ==
    ASSUME NEW e, IsSequence(e.variants), WellFormed(e), e.enabled, Total \in Nat,
           NEW user, Position[<<e.name, user>>] \in 0..(Total - 1),
           NEW i \in DOMAIN e.variants
    PROVE  Assign(e, user) = e.variants[i] <=> Position[<<e.name, user>>] \in Share(e, i)
<1> DEFINE n == Len(e.variants)
           sum == CumulativeWeight(e)
           p == Position[<<e.name, user>>]
           below == {k \in DOMAIN e.variants : p < sum[k]}
           first == CHOOSE k \in below : \A j \in below : k <= j
<1>1. n \in Nat /\ DOMAIN e.variants = 1..n
  BY DEF IsSequence
<1>2. Assign(e, user) = IF below = {} THEN e.variants[n] ELSE e.variants[first]
  BY DEF Assign
<1>3. PICK k \in 1..n : p \in Share(e, k)
  BY <1>1, SharesAreWeights
<1>4. \A j \in 1..n : j # k => p \notin Share(e, j)
  BY <1>1, <1>3, SharesAreWeights
<1>5. \A j \in 0..n : sum[j] \in Nat
  BY WellFormedWeighted, CumulativeWeightGrows
<1>6. \A j, m \in 0..n : j <= m => sum[j] <= sum[m]
  BY WellFormedWeighted, CumulativeWeightGrows
<1>7. k \in below /\ \A j \in below : k <= j
  <2>1. sum[k - 1] <= p /\ p < sum[k]
    <3> HIDE DEF sum
    <3>1. p \in sum[k - 1] .. (sum[k] - 1) /\ k - 1 \in 0..n /\ k \in 0..n
      BY <1>1, <1>3 DEF Share, sum
    <3>2. sum[k] \in Nat /\ sum[k - 1] \in Nat
      BY <1>5, <3>1
    <3> HIDE DEF p
    <3> QED
      BY <3>1, <3>2
  <2>2. ASSUME NEW j \in 1..n, p < sum[j] PROVE k <= j
    <3>1. SUFFICES ASSUME j <= k - 1 PROVE FALSE
      BY <1>1
    <3> HIDE DEF sum, p
    <3>2. j \in 0..n /\ k - 1 \in 0..n
      BY <1>1
    <3>3. sum[j] <= sum[k - 1] /\ sum[j] \in Nat /\ sum[k - 1] \in Nat
      BY <1>5, <1>6, <3>1, <3>2
    <3>4. p \in Nat
      BY DEF p
    <3> QED
      BY <2>1, <2>2, <3>3, <3>4
  <2> HIDE DEF sum, p
  <2> QED
    BY <1>1, <2>1, <2>2
<1>8. first = k
  <2>1. \A j \in below : j \in Nat
    BY <1>1
  <2> HIDE DEF below
  <2>2. first \in below /\ \A j \in below : first <= j
    BY <1>7
  <2> HIDE DEF first
  <2>3. first <= k /\ k <= first
    BY <1>7, <2>2
  <2> QED
    BY <1>7, <2>1, <2>2, <2>3
<1> HIDE DEF p, first, below, sum
<1>9. Assign(e, user) = e.variants[k]
  BY <1>2, <1>7, <1>8
<1>10. e.variants[i] = e.variants[k] => i = k
  BY <1>1 DEF WellFormed
<1> QED
  BY <1>1, <1>3, <1>4, <1>9, <1>10 DEF p

\* A request that an experiment served was given the arm in whose share the
\* position of its user is, or the control if the experiment is not enabled.
RoutedByShare ==
    \A q \in Requests : request[q].variant # None =>
        \E i \in DOMAIN Entries : \E k \in DOMAIN Entries[i].variants :
            /\ WellFormed(Entries[i])
            /\ request[q].variant = Entries[i].variants[k].name
            /\ IF Entries[i].enabled
               THEN Position[<<Entries[i].name, request[q].input.user>>] \in Share(Entries[i], k)
               ELSE k = 1

\* Traffic follows the weights of the experiments file, on every replica and
\* across restarts: with SharesAreWeights, an arm of an enabled experiment gets
\* as many of the positions as its weight says, and one of weight 0 nobody.
THEOREM TrafficByWeight == Spec => []RoutedByShare
<1>1. ArmInv => RoutedByShare
  <2> SUFFICES ASSUME ArmInv, NEW q \in Requests, request[q].variant # None
               PROVE  \E i \in DOMAIN Entries : \E k \in DOMAIN Entries[i].variants :
                        /\ WellFormed(Entries[i])
                        /\ request[q].variant = Entries[i].variants[k].name
                        /\ IF Entries[i].enabled
                           THEN Position[<<Entries[i].name, request[q].input.user>>]
                                  \in Share(Entries[i], k)
                           ELSE k = 1
    BY DEF RoutedByShare
  <2>1. PICK i \in DOMAIN Entries :
          /\ Entries[i] # None
          /\ WellFormed(Entries[i])
          /\ request[q].variant = Assign(Entries[i], request[q].input.user).name
    BY DEF ArmInv, ArmFromFile
  <2> DEFINE e == Entries[i]
             user == request[q].input.user
  <2>2. IsSequence(e.variants) /\ Len(e.variants) > 0
    BY <2>1, EntriesAssumption DEF WellFormed
  <2>3. Total \in Nat /\ Position[<<e.name, user>>] \in 0..(Total - 1)
    BY <2>1, HashAssumption DEF ArmInv, ArmFromFile
  <2> HIDE DEF e, user
  <2>4. CASE e.enabled
    <3>1. PICK k \in DOMAIN e.variants : Position[<<e.name, user>>] \in Share(e, k)
      BY <2>1, <2>2, <2>3, SharesAreWeights DEF e
    <3>2. Assign(e, user) = e.variants[k]
      BY <2>1, <2>2, <2>3, <2>4, <3>1, AssignByShare DEF e
    <3> QED
      BY <2>1, <2>4, <3>1, <3>2 DEF e, user
  <2>5. CASE ~e.enabled
    <3>1. Assign(e, user) = e.variants[1] /\ 1 \in DOMAIN e.variants
      BY <2>2, <2>5 DEF Assign, IsSequence
    <3> QED
      BY <2>1, <2>5, <3>1 DEF e, user
  <2> QED
    BY <2>4, <2>5
<1> QED
  BY <1>1, ArmInit, ArmStep, PTL DEF Spec
=============================================================================
