------------------------ MODULE ReplicaStartupProofs ------------------------
(***************************************************************************)
(* For any host, disk, setting and list of extra versions: a replica never *)
(* claims a backend it is not running, except that detector and embedder   *)
(* are labelled torch when torch is configured (BackendHonest), and what   *)
(* its health endpoint answers was true during the probe (HealthTruthful). *)
(* The last section is about the image index such a replica loads, for any *)
(* corpus and additions: an answer describes the row it names              *)
(* (AnswersDescribeRow) and a script that ends leaves files that agree     *)
(* (FinishedJobsAgree).                                                    *)
(***************************************************************************)
EXTENDS ReplicaStartup, SimilarityIndex, SequenceTheorems, TLAPS

Probes == [at : {"cache", "database"}, cache : BOOLEAN,
           seen : SUBSET Services, missed : SUBSET Services]

Shape ==
    /\ settings \in [backend : Backends, degradation : BOOLEAN]
    /\ up \in SUBSET Services
    /\ preloaded \in {None, Trt, Cuda}
    /\ todo \in Seq(Models)
    /\ chain # None => chain \in Seq(Backends)
    /\ probe # None => probe \in Probes

(* The default classifier is the first to be loaded; a replica that goes   *)
(* past the models has it.                                                 *)
Starting == {"redis", "database", "models"}
ClassifierFirst ==
    /\ pc \in Starting =>
          /\ todo # <<>>
          /\ Classifier \in DOMAIN models \/ Current = Classifier
    /\ pc \in {"experiments", "serving"} => Classifier \in DOMAIN models

(* INT8 is a candidate for the classifier, or when it is preferred; torch  *)
(* only when it is.                                                        *)
ChainServed ==
    chain # None =>
        /\ pc \in {"models", "failed"} /\ todo # <<>>
        /\ \A i \in 1 .. Len(chain) :
              /\ chain[i] = Int8 => Current[1] = "classifier" \/ settings.backend = Int8
              /\ chain[i] = "torch" => settings.backend = "torch"

(* What a probe carries is what it has seen.                               *)
ProbeTrue ==
    /\ probe # None \/ told # None => pc = "serving"
    /\ probe # None => up \subseteq probe.seen /\ Services \ up \subseteq probe.missed
    /\ probe # None /\ probe.at = "database" =>
          /\ probe.cache => redis /\ "redis" \in probe.seen
          /\ ~probe.cache => ~redis \/ probe.missed # {}

Inv == Shape /\ ClassifierFirst /\ ChainServed /\ BackendHonest /\ ProbeTrue /\ HealthTruthful

-----------------------------------------------------------------------------
(* Lemmas about the tables and about ONNX Runtime's choice.                *)

\* The first provider of a short list that is in S is in S.
LEMMA FirstInSet ==
    ASSUME NEW list \in {<<Trt, Cpu>>, <<Cuda, Cpu>>, <<Cpu>>}, NEW S, Cpu \in S
    PROVE  FirstOf(list, S) \in S
<1> DEFINE First(i) == list[i] \in S /\ \A k \in 1 .. i-1 : list[k] \notin S
<1>1. \E i \in DOMAIN list : First(i)
  <2>1. CASE list = <<Cpu>>
    <3>1. 1 \in DOMAIN list /\ First(1) BY <2>1
    <3> QED BY <3>1
  <2>2. CASE list # <<Cpu>>
    <3>1. DOMAIN list = 1 .. 2 /\ list[2] = Cpu BY <2>2
    <3>2. CASE list[1] \in S
      <4>1. First(1) BY <3>2
      <4> QED BY <3>1, <4>1
    <3>3. CASE list[1] \notin S
      <4>1. First(2) BY <3>1, <3>3
      <4> QED BY <3>1, <4>1
    <3> QED BY <3>2, <3>3
  <2> QED BY <2>1, <2>2
<1>2. First(CHOOSE i \in DOMAIN list : First(i))
  <2> HIDE DEF First
  <2> QED BY <1>1
<1> QED BY <1>2 DEF FirstOf

\* The chosen provider is one that initialises.
LEMMA SelectedInitialises ==
    ASSUME NEW wanted, NEW libraries
    PROVE  Initialises(Selected(ProvidersFor(wanted), libraries), libraries)
<1> DEFINE requested == ProvidersFor(wanted)
           working == {p \in Usable(requested) : Initialises(p, libraries)}
<1>1. requested \in {<<Trt, Cpu>>, <<Cuda, Cpu>>, <<Cpu>>}
  BY DEF ProvidersFor
<1>2. Cpu \in working
  <2>1. \E i \in DOMAIN requested : requested[i] = Cpu
    <3>1. CASE requested = <<Cpu>>
      <4>1. 1 \in DOMAIN requested /\ requested[1] = Cpu BY <3>1
      <4> QED BY <4>1
    <3>2. CASE requested # <<Cpu>>
      <4>1. 2 \in DOMAIN requested /\ requested[2] = Cpu BY <1>1, <3>2
      <4> QED BY <4>1
    <3> QED BY <3>1, <3>2
  <2> HIDE DEF requested
  <2> QED BY <2>1 DEF Usable, Initialises
<1> HIDE DEF requested
<1>3. FirstOf(requested, working) \in working
  BY <1>1, <1>2, FirstInSet
<1> QED BY <1>3 DEF Selected, requested

LEMMA ShortSequences ==
    ASSUME NEW S, NEW a \in S, NEW b \in S, NEW c \in S
    PROVE  <<a>> \in Seq(S) /\ <<a, b>> \in Seq(S) /\ <<a, b, c>> \in Seq(S)
  OBVIOUS

\* A chain is a sequence of backends, and holds INT8 only where it is served
\* and torch only where it is preferred.
LEMMA ChainSound ==
    ASSUME Shape, NEW m
    PROVE  /\ ChainOf(m) \in Seq(Backends)
           /\ \A i \in 1 .. Len(ChainOf(m)) :
                 /\ ChainOf(m)[i] = Int8 => m[1] = "classifier" \/ settings.backend = Int8
                 /\ ChainOf(m)[i] = "torch" => settings.backend = "torch"
<1> DEFINE preferred == settings.backend
           full == IF settings.degradation THEN FallbackChain(preferred) ELSE <<preferred>>
           rest == [i \in {k \in DOMAIN full : full[k] # Int8} |-> full[i]]
<1>1. preferred \in Backends BY DEF Shape
<1>2. full \in Seq(Backends) /\ \A i \in DOMAIN full : full[i] = "torch" => preferred = "torch"
  <2>1. {"tensorrt", "onnx", Int8, "torch"} \subseteq Backends /\ "onnx" # Int8 /\ "torch" # Int8
    BY DEF Backends, Int8
  <2>2. preferred \in {"tensorrt", "onnx", Int8, "torch"}
    BY <1>1 DEF Backends, Int8
  <2>3. full \in {<<preferred>>, <<"tensorrt", "onnx", Int8>>, <<"onnx", Int8>>,
                 <<Int8, "onnx">>, <<"torch", "onnx">>}
    BY <2>2 DEF FallbackChain, Int8
  <2> HIDE DEF full, preferred
  <2>4. <<preferred>> \in Seq(Backends) BY <1>1, ShortSequences
  <2>5. <<"tensorrt", "onnx", Int8>> \in Seq(Backends) BY <2>1, ShortSequences
  <2>6. /\ <<"onnx", Int8>> \in Seq(Backends) /\ <<Int8, "onnx">> \in Seq(Backends)
        /\ <<"torch", "onnx">> \in Seq(Backends)
    BY <2>1, ShortSequences
  <2>7. \A i \in DOMAIN full : full[i] = "torch" => preferred = "torch"
    <3>1. full = <<"torch", "onnx">> => preferred = "torch"
      <4>1. CASE preferred = "torch" BY <4>1
      <4>2. CASE preferred # "torch"
        <5>1. full \in {<<preferred>>, <<"tensorrt", "onnx", Int8>>, <<"onnx", Int8>>,
                       <<Int8, "onnx">>}
          BY <2>2, <4>2 DEF full, FallbackChain, Int8
        <5> QED BY <2>1, <5>1
      <4> QED BY <4>1, <4>2
    <3>2. CASE full = <<"torch", "onnx">> BY <3>1, <3>2
    <3>3. CASE full = <<preferred>> BY <3>3
    <3>4. CASE full = <<"tensorrt", "onnx", Int8>> BY <2>1, <3>4
    <3>5. CASE full = <<"onnx", Int8>> \/ full = <<Int8, "onnx">> BY <2>1, <3>5
    <3> QED BY <2>3, <3>2, <3>3, <3>4, <3>5
  <2> QED BY <2>3, <2>4, <2>5, <2>6, <2>7
<1>3. ASSUME preferred # Int8
      PROVE  /\ rest \in Seq(Backends)
             /\ \A i \in 1 .. Len(rest) :
                   rest[i] # Int8 /\ (rest[i] = "torch" => preferred = "torch")
  <2>1. \E n \in Nat : /\ {k \in DOMAIN full : full[k] # Int8} = 1 .. n
                       /\ \A k \in 1 .. n : full[k] \in Backends /\ full[k] # Int8
    <3>1. CASE full = <<"tensorrt", "onnx", Int8>>
      <4>1. /\ {k \in DOMAIN full : full[k] # Int8} = 1 .. 2
            /\ \A k \in 1 .. 2 : full[k] \in Backends /\ full[k] # Int8
        BY <3>1 DEF Int8, Backends
      <4> QED BY <4>1
    <3>2. CASE full = <<"onnx", Int8>> \/ full = <<preferred>>
      <4>1. /\ {k \in DOMAIN full : full[k] # Int8} = 1 .. 1
            /\ \A k \in 1 .. 1 : full[k] \in Backends /\ full[k] # Int8
        BY <1>1, <1>3, <3>2 DEF Int8, Backends
      <4> QED BY <4>1
    <3>3. CASE full = <<"torch", "onnx">>
      <4>1. /\ {k \in DOMAIN full : full[k] # Int8} = 1 .. 2
            /\ \A k \in 1 .. 2 : full[k] \in Backends /\ full[k] # Int8
        BY <3>3 DEF Int8, Backends
      <4> QED BY <4>1
    <3> QED BY <1>1, <1>3, <3>1, <3>2, <3>3 DEF FallbackChain, Backends, Int8
  <2>2. PICK n \in Nat : /\ {k \in DOMAIN full : full[k] # Int8} = 1 .. n
                         /\ \A k \in 1 .. n : full[k] \in Backends /\ full[k] # Int8
    BY <2>1
  <2>3. rest = [i \in 1 .. n |-> full[i]] /\ 1 .. n \subseteq DOMAIN full BY <2>2
  <2> HIDE DEF full, rest
  <2>4. rest \in [1 .. n -> Backends] BY <2>2, <2>3
  <2>5. rest \in Seq(Backends) /\ Len(rest) = n BY <2>4
  <2> QED BY <1>2, <2>2, <2>3, <2>5
<1>4. ChainOf(m) = IF m[1] = "classifier" \/ preferred = Int8 THEN full ELSE rest
  BY DEF ChainOf
<1> HIDE DEF preferred, full, rest
<1> QED BY <1>2, <1>3, <1>4 DEF preferred

\* Preloading happens once, and takes no library away.
LEMMA PreloadKeeps ==
    ASSUME Shape, NEW wanted
    PROVE  LET libraries == Preloaded(ProvidersFor(wanted))
           IN  /\ libraries \in {None, Trt, Cuda}
               /\ \A p : Initialises(p, preloaded) => Initialises(p, libraries)
               /\ \A p : Executes(p, preloaded) => Executes(p, libraries)
<1> DEFINE libraries == Preloaded(ProvidersFor(wanted))
<1>1. libraries = preloaded \/ preloaded = None
  BY DEF Preloaded
<1>2. Preloads(None) = {}
  BY StartupAssumption DEF Preloads
<1>3. libraries \in {None, Trt, Cuda}
  <2>1. ProvidersFor(wanted) # <<Cpu>> => ProvidersFor(wanted)[1] \in {Trt, Cuda}
    BY DEF ProvidersFor
  <2> QED BY <2>1 DEF Preloaded, Shape
<1> HIDE DEF libraries
<1> QED BY <1>1, <1>2, <1>3 DEF Initialises, Executes, Resolvable, libraries

-----------------------------------------------------------------------------
(* Start-up. What an unfinished start-up cannot touch: nobody probes it.   *)

\* Before the server listens there is neither probe nor answer, so only the
\* parts about loading have to be shown.
LEMMA NotServing ==
    ASSUME Inv, UNCHANGED health, pc # "serving",
           (Shape /\ ClassifierFirst /\ ChainServed /\ BackendHonest)'
    PROVE  Inv'
<1>1. probe' = None /\ told' = None
  BY DEF Inv, ProbeTrue, health
<1> QED BY <1>1 DEF Inv, ProbeTrue, HealthTruthful

\* Connecting touches no model.
LEMMA ConnectKeeps == Inv /\ (CreateRedis \/ CreateDatabase) => Inv'
<1> SUFFICES ASSUME Inv, CreateRedis \/ CreateDatabase PROVE Inv'
  OBVIOUS
<1>1. /\ pc \in {"redis", "database"} /\ pc' \in {"database", "models"}
      /\ UNCHANGED <<chosen, up, loading, health>>
  BY DEF CreateRedis, CreateDatabase
<1>2. Shape'
  BY <1>1 DEF Inv, Shape, chosen, loading, health, Probes
<1>3. ClassifierFirst'
  BY <1>1 DEF Inv, ClassifierFirst, Starting, Current, loading
<1>4. ChainServed'
  BY <1>1 DEF Inv, ChainServed, loading
<1>5. BackendHonest'
  BY <1>1 DEF Inv, BackendHonest, loading, chosen, Deployed, TorchInName, Delivers,
              Initialises, Executes, Resolvable, Preloads
<1> QED BY <1>1, <1>2, <1>3, <1>4, <1>5, NotServing

\* What the model that is done with leaves to the next one.
LEMMA NextModelKeeps ==
    ASSUME Inv, pc = "models", NextModel,
           DOMAIN models \subseteq DOMAIN models', Classifier \in DOMAIN models'
    PROVE  /\ todo' \in Seq(Models) /\ chain' = None
           /\ pc' \in {"models", "experiments"} /\ ClassifierFirst'
<1>1. todo \in Seq(Models) /\ todo # <<>>
  BY DEF Inv, Shape, ClassifierFirst, Starting
<1>2. todo' \in Seq(Models)
  BY <1>1 DEF NextModel
<1>3. pc' = IF todo' = <<>> THEN "experiments" ELSE "models"
  BY DEF NextModel
<1> QED BY <1>2, <1>3 DEF NextModel, ClassifierFirst, Starting

\* A model that cannot be loaded leaves the registry as it was.
LEMMA UnavailableKeeps ==
    ASSUME Inv, pc = "models", Unavailable,
           UNCHANGED <<chosen, up, redis, engine, preloaded, models, endpoints, health>>
    PROVE  Inv'
<1>1. /\ todo' \in Seq(Models) /\ (chain' = None \/ chain' = chain)
      /\ ClassifierFirst' /\ ChainServed'
  <2>1. CASE Current = Classifier
    <3>1. pc' = "failed" /\ UNCHANGED <<todo, chain>> BY <2>1 DEF Unavailable
    <3> QED BY <3>1 DEF Inv, Shape, ClassifierFirst, ChainServed, Starting, Current, chosen
  <2>2. CASE Current # Classifier
    <3>1. NextModel /\ Classifier \in DOMAIN models'
      BY <2>2 DEF Unavailable, Inv, ClassifierFirst, Starting
    <3> QED BY <3>1, NextModelKeeps DEF ChainServed
  <2> QED BY <2>1, <2>2
<1>2. Shape'
  BY <1>1 DEF Inv, Shape, chosen, health, Probes
<1>3. BackendHonest'
  BY DEF Inv, BackendHonest, chosen, Deployed, TorchInName, Delivers,
         Initialises, Executes, Resolvable, Preloads
<1> QED BY <1>1, <1>2, <1>3, NotServing

LEMMA ReadMetadataKeeps == Inv /\ ReadMetadata => Inv'
<1> SUFFICES ASSUME Inv, ReadMetadata PROVE Inv'
  OBVIOUS
<1>1. pc = "models" /\ UNCHANGED <<chosen, up, redis, engine, preloaded, models, endpoints, health>>
  BY DEF ReadMetadata
<1>2. CASE Unavailable
  BY <1>1, <1>2, UnavailableKeeps
<1>3. CASE chain' = ChainOf(Current) /\ UNCHANGED <<pc, todo>>
  <2>1. Shape'
    BY <1>1, <1>3, ChainSound DEF Inv, Shape, chosen, health, Probes
  <2>2. ClassifierFirst'
    BY <1>1, <1>3 DEF Inv, ClassifierFirst, Starting, Current
  <2>3. ChainServed'
    <3>1. todo # <<>> BY <1>1 DEF Inv, ClassifierFirst, Starting
    <3>2. settings' = settings /\ Current' = Current BY <1>1, <1>3 DEF chosen, Current
    <3> QED BY <1>1, <1>3, <3>1, <3>2, ChainSound DEF Inv, ChainServed
  <2>4. BackendHonest'
    BY <1>1 DEF Inv, BackendHonest, chosen, Deployed, TorchInName, Delivers,
                Initialises, Executes, Resolvable, Preloads
  <2> QED BY <1>1, <2>1, <2>2, <2>3, <2>4, NotServing
<1> QED BY <1>2, <1>3 DEF ReadMetadata

LEMMA NoBackendKeeps == Inv /\ NoBackend => Inv'
  BY UnavailableKeeps DEF NoBackend

\* A candidate that works is labelled with what it runs on, and degraded
\* unless it is the preferred one.
LEMMA TryCandidateKeeps == Inv /\ TryCandidate => Inv'
<1> SUFFICES ASSUME Inv, TryCandidate PROVE Inv'
  OBVIOUS
<1> DEFINE wanted == Head(chain)
           requested == ProvidersFor(wanted)
           libraries == Preloaded(requested)
           provider == Selected(requested, libraries)
           accepted == GraphExists(Current, wanted) /\ Works(Current, wanted, libraries)
<1>1. /\ pc = "models" /\ chain # None /\ chain # <<>>
      /\ UNCHANGED <<chosen, up, redis, engine, health>>
      /\ preloaded' = IF GraphExists(Current, wanted) THEN libraries ELSE preloaded
  BY DEF TryCandidate
<1>2. /\ chain \in Seq(Backends) /\ todo \in Seq(Models) /\ todo # <<>>
      /\ wanted = chain[1] /\ 1 \in 1 .. Len(chain)
  BY <1>1 DEF Inv, Shape, ClassifierFirst, Starting
<1>3. /\ preloaded' \in {None, Trt, Cuda}
      /\ \A p : Initialises(p, preloaded) => Initialises(p, preloaded')
      /\ \A p : Executes(p, preloaded) => Executes(p, preloaded')
  <2>1. /\ libraries \in {None, Trt, Cuda} /\ preloaded \in {None, Trt, Cuda}
        /\ \A p : Initialises(p, preloaded) => Initialises(p, libraries)
        /\ \A p : Executes(p, preloaded) => Executes(p, libraries)
    BY PreloadKeeps DEF Inv, Shape
  <2> HIDE DEF libraries, wanted
  <2> QED BY <1>1, <2>1
<1>4. /\ \A p : Initialises(p, preloaded)' <=> Initialises(p, preloaded')
      /\ \A p : Executes(p, preloaded)' <=> Executes(p, preloaded')
      /\ \A b : Delivers(b)' = Delivers(b)
  BY <1>1 DEF Initialises, Executes, Resolvable, Preloads, Delivers, chosen
<1>5. settings' = settings
  BY <1>1 DEF chosen
<1>6. CASE ~accepted
  <2>1. chain' = Tail(chain) /\ UNCHANGED <<pc, todo, models, endpoints>>
    BY <1>6 DEF TryCandidate
  <2>2. chain' \in Seq(Backends) /\ \A i \in 1 .. Len(chain') : i + 1 \in 1 .. Len(chain) /\ chain'[i] = chain[i + 1]
    BY <1>1, <1>2, <2>1
  <2> HIDE DEF wanted, requested, libraries, provider, accepted
  <2>3. Shape'
    BY <1>1, <1>3, <2>1, <2>2 DEF Inv, Shape, chosen, health, Probes
  <2>4. ClassifierFirst'
    BY <2>1 DEF Inv, ClassifierFirst, Starting, Current
  <2>5. ChainServed'
    <3>1. Current' = Current BY <2>1 DEF Current
    <3> QED BY <1>1, <1>5, <2>1, <2>2, <3>1 DEF Inv, ChainServed
  <2>6. BackendHonest'
    BY <1>3, <1>4, <1>5, <2>1 DEF Inv, BackendHonest, TorchInName, Deployed
  <2> QED BY <1>1, <2>3, <2>4, <2>5, <2>6, NotServing
<1>7. CASE accepted
  <2>1. /\ models' = [m \in DOMAIN models \cup {Current} |->
                          IF m # Current THEN models[m]
                          ELSE [backend |-> wanted, provider |-> provider,
                                degraded |-> wanted # settings.backend]]
        /\ endpoints' \subseteq endpoints \cup {Current}
        /\ NextModel
    BY <1>7 DEF TryCandidate
  <2>2. /\ provider \in SatisfyingProviders(wanted)
        /\ Initialises(provider, libraries) /\ Executes(provider, libraries)
        /\ preloaded' = libraries
    BY <1>1, <1>7, SelectedInitialises DEF Works, Verified
  <2>3. /\ wanted = Int8 => Current[1] = "classifier" \/ settings.backend = Int8
        /\ wanted = "torch" => settings.backend = "torch"
    BY <1>1, <1>2 DEF Inv, ChainServed
  <2>9. \/ provider \in Delivers(wanted)
        \/ wanted = "torch" /\ provider = Cpu /\ Current \in {Detector, Embedder}
    <3>1. CASE wanted = "torch"
      <4>1. Current \in Models BY <1>2 DEF Current
      <4>2. Current[1] # "classifier" BY <1>7, <3>1 DEF GraphExists
      <4>3. Current \in {Detector, Embedder} BY <4>1, <4>2 DEF Models, Classifier
      <4> HIDE DEF wanted
      <4>4. provider = Cpu BY <2>2, <3>1 DEF SatisfyingProviders
      <4> QED BY <3>1, <4>3, <4>4
    <3>2. CASE wanted # "torch"
      <4>1. wanted \in Backends BY <1>2
      <4> HIDE DEF wanted
      <4> QED BY <2>2, <3>2, <4>1 DEF SatisfyingProviders, Delivers, Backends, Int8
    <3> QED BY <3>1, <3>2
  <2> HIDE DEF wanted, requested, libraries, provider, accepted
  <2>4. DOMAIN models' = DOMAIN models \cup {Current}
    BY <2>1
  <2>5. Classifier \in DOMAIN models'
    BY <1>1, <2>4 DEF Inv, ClassifierFirst, Starting
  <2>6. todo' \in Seq(Models) /\ chain' = None /\ pc' \in {"models", "experiments"} /\ ClassifierFirst'
    BY <1>1, <2>1, <2>4, <2>5, NextModelKeeps
  <2>7. Shape'
    BY <1>1, <1>3, <2>6 DEF Inv, Shape, chosen, health, Probes
  <2>8. BackendHonest'
    <3>1. \A m \in {Detector, Embedder} : m \in endpoints' => m \in DOMAIN models'
      BY <2>1, <2>4 DEF Inv, BackendHonest, Deployed
    <3>2. ASSUME NEW m \in DOMAIN models'
          PROVE  /\ \/ models'[m].provider \in Delivers(models'[m].backend)
                    \/ /\ settings.backend = "torch" /\ m \in {Detector, Embedder}
                       /\ models'[m].backend = "torch" /\ models'[m].provider = Cpu
                 /\ Initialises(models'[m].provider, preloaded')
                 /\ Executes(models'[m].provider, preloaded')
                 /\ models'[m].degraded <=> models'[m].backend # settings.backend
                 /\ models'[m].degraded /\ models'[m].backend = Int8 => m[1] = "classifier"
      <4>1. CASE m = Current
        <5>1. /\ models'[m].backend = wanted /\ models'[m].provider = provider
              /\ models'[m].degraded = (wanted # settings.backend)
          BY <2>1, <4>1
        <5> QED BY <2>2, <2>3, <2>9, <4>1, <5>1
      <4>2. CASE m # Current
        <5>1. m \in DOMAIN models /\ models'[m] = models[m] BY <2>1, <2>4, <4>2
        <5> QED BY <1>3, <5>1 DEF Inv, BackendHonest, TorchInName
      <4> QED BY <4>1, <4>2
    <3> QED BY <1>4, <1>5, <3>1, <3>2 DEF BackendHonest, TorchInName, Deployed
  <2> QED BY <1>1, <2>6, <2>7, <2>8, NotServing DEF ChainServed
<1> QED BY <1>6, <1>7

-----------------------------------------------------------------------------
(* The replica listens, and is probed while services come and go.          *)

\* From here on the models, their endpoints and the connections stay.
LEMMA LoadedStays ==
    ASSUME Inv, UNCHANGED <<chosen, loading>>
    PROVE  BackendHonest'
  BY DEF Inv, BackendHonest, chosen, loading, Deployed, TorchInName, Delivers,
         Initialises, Executes, Resolvable, Preloads

LEMMA LoadExperimentsKeeps == Inv /\ LoadExperiments => Inv'
<1> SUFFICES ASSUME Inv, LoadExperiments PROVE Inv'
  OBVIOUS
<1>1. /\ pc = "experiments" /\ pc' \in {"serving", "failed"}
      /\ UNCHANGED <<chosen, up, redis, engine, loading, health>>
  BY DEF LoadExperiments
<1>2. Shape'
  BY <1>1 DEF Inv, Shape, chosen, loading, health, Probes
<1>3. ClassifierFirst' /\ ChainServed'
  BY <1>1 DEF Inv, ClassifierFirst, ChainServed, Starting, loading
<1> QED BY <1>1, <1>2, <1>3, LoadedStays, NotServing

\* A probe or a service that comes or goes changes no more than the probe, the
\* answer and what is up.
LEMMA ServingKeeps ==
    ASSUME Inv, UNCHANGED <<chosen, pc, redis, engine, loading>>, up' \in SUBSET Services,
           probe' # None => probe' \in Probes,
           ProbeTrue', HealthTruthful'
    PROVE  Inv'
<1>1. Shape'
  BY DEF Inv, Shape, chosen, loading, Probes
<1>2. ClassifierFirst' /\ ChainServed'
  BY DEF Inv, ClassifierFirst, ChainServed, Starting, loading, Current, chosen
<1> QED BY <1>1, <1>2, LoadedStays DEF Inv

LEMMA ToggleKeeps == ASSUME NEW service \in Services, Inv, Toggle(service) PROVE Inv'
<1> DEFINE now == IF service \in up THEN up \ {service} ELSE up \cup {service}
<1>1. /\ up' = now /\ now \in SUBSET Services
      /\ UNCHANGED <<chosen, pc, redis, engine, loading, told>>
  BY DEF Toggle, Inv, Shape
<1>2. probe' = IF probe = None THEN None
               ELSE [probe EXCEPT !.seen = @ \cup now, !.missed = @ \cup (Services \ now)]
  BY DEF Toggle
<1> HIDE DEF now
<1>3. ASSUME probe # None
      PROVE  /\ probe \in Probes /\ probe' \in Probes
             /\ probe'.at = probe.at /\ probe'.cache = probe.cache
             /\ probe'.seen = probe.seen \cup now
             /\ probe'.missed = probe.missed \cup (Services \ now)
  <2>1. probe \in Probes BY <1>3 DEF Inv, Shape
  <2> QED BY <1>1, <1>2, <1>3, <2>1 DEF Probes
<1>4. probe' # None => probe # None
  BY <1>2
<1>5. ProbeTrue'
  BY <1>1, <1>3, <1>4 DEF Inv, ProbeTrue
<1>6. HealthTruthful'
  BY <1>1 DEF Inv, HealthTruthful, Ready, loading, chosen
<1> QED BY <1>1, <1>3, <1>4, <1>5, <1>6, ServingKeeps

LEMMA HealthBeginsKeeps == Inv /\ HealthBegins => Inv'
<1> SUFFICES ASSUME Inv, HealthBegins PROVE Inv'
  OBVIOUS
<1>1. /\ pc = "serving" /\ told' = None
      /\ probe' = [at |-> "cache", cache |-> FALSE, seen |-> up, missed |-> Services \ up]
      /\ UNCHANGED <<chosen, up, pc, redis, engine, loading>>
  BY DEF HealthBegins
<1>2. up' \in SUBSET Services /\ probe' \in Probes
  BY <1>1 DEF Inv, Shape, Probes
<1>3. ProbeTrue'
  BY <1>1 DEF ProbeTrue
<1>4. HealthTruthful'
  BY <1>1 DEF HealthTruthful
<1> QED BY <1>1, <1>2, <1>3, <1>4, ServingKeeps

LEMMA PingCacheKeeps == Inv /\ PingCache => Inv'
<1> SUFFICES ASSUME Inv, PingCache PROVE Inv'
  OBVIOUS
<1> DEFINE cache == redis /\ Answers("redis")
<1>1. /\ probe # None /\ probe \in Probes
      /\ probe' = [probe EXCEPT !.at = "database", !.cache = cache]
      /\ UNCHANGED <<chosen, up, pc, redis, engine, loading, told>>
  BY DEF PingCache, Inv, Shape
<1>2. /\ probe'.at = "database" /\ (probe'.cache <=> cache)
      /\ probe'.seen = probe.seen /\ probe'.missed = probe.missed
  BY <1>1 DEF Probes
<1>3. cache \in BOOLEAN
  OBVIOUS
<1>4. up' \in SUBSET Services /\ probe' \in Probes
  <2> HIDE DEF cache
  <2> QED BY <1>1, <1>3 DEF Inv, Shape, Probes
<1>5. /\ cache => redis /\ "redis" \in probe.seen
      /\ ~cache => ~redis \/ probe.missed # {}
  BY <1>1 DEF Inv, ProbeTrue, Answers, Services
<1>6. ProbeTrue'
  <2> HIDE DEF cache
  <2> QED BY <1>1, <1>2, <1>5 DEF Inv, ProbeTrue
<1>7. HealthTruthful'
  BY <1>1 DEF Inv, HealthTruthful, Ready, loading, chosen
<1> QED BY <1>1, <1>4, <1>6, <1>7, ServingKeeps

LEMMA HealthAnswersKeeps == Inv /\ HealthAnswers => Inv'
<1> SUFFICES ASSUME Inv, HealthAnswers PROVE Inv'
  OBVIOUS
<1> DEFINE database == engine => Answers("database")
           fellBack == \E m \in DOMAIN models : models[m].backend # settings.backend
<1>1. /\ probe # None /\ probe.at = "database" /\ probe' = None
      /\ told' = [status |-> Status(probe.cache, database),
                  seen |-> probe.seen, missed |-> probe.missed]
      /\ UNCHANGED <<chosen, up, pc, redis, engine, loading>>
  BY DEF HealthAnswers
<1>2. /\ told'.status = Status(probe.cache, database)
      /\ told'.seen = probe.seen /\ told'.missed = probe.missed
  BY <1>1
<1>3. pc = "serving" /\ Classifier \in DOMAIN models /\ models # <<>>
  BY <1>1 DEF Inv, ProbeTrue, ClassifierFirst
<1>4. (\E m \in DOMAIN models : models[m].degraded) <=> fellBack
  BY DEF Inv, BackendHonest
<1>5. Status(probe.cache, database) =
          IF ~probe.cache \/ ~database \/ fellBack THEN "degraded" ELSE "healthy"
  BY <1>3, <1>4 DEF Status
<1>6. /\ probe.cache => redis /\ "redis" \in probe.seen
      /\ ~probe.cache => ~redis \/ probe.missed # {}
  BY <1>1 DEF Inv, ProbeTrue
<1>7. /\ database => {s \in {"database"} : engine} \subseteq probe.seen
      /\ ~database => probe.missed # {}
  BY <1>1 DEF Inv, ProbeTrue, Answers, Services
<1>8. HealthTruthful'
  <2>1. /\ told'.status # "unhealthy"
        /\ told'.status = "healthy" =>
              ~fellBack /\ redis /\ {"redis"} \cup {s \in {"database"} : engine} \subseteq told'.seen
        /\ told'.status = "degraded" => fellBack \/ ~redis \/ told'.missed # {}
    <3> HIDE DEF database, fellBack
    <3> QED BY <1>2, <1>5, <1>6, <1>7
  <2> QED BY <1>1, <1>3, <2>1 DEF HealthTruthful, Ready, chosen, loading
<1>9. ProbeTrue'
  BY <1>1, <1>3 DEF ProbeTrue
<1> QED BY <1>1, <1>8, <1>9, ServingKeeps DEF Inv, Shape

-----------------------------------------------------------------------------
LEMMA InitEstablishes == Init => Inv
<1> SUFFICES ASSUME Init PROVE Inv
  OBVIOUS
<1> DEFINE extras == [i \in DOMAIN Extras |-> <<"classifier", Extras[i]>>]
<1>1. extras \in Seq(Models)
  <2>1. Len(Extras) \in Nat /\ DOMAIN Extras = 1 .. Len(Extras)
    BY StartupAssumption
  <2>2. \A i \in DOMAIN Extras : <<"classifier", Extras[i]>> \in Models
    BY DEF Models
  <2> QED BY <2>1, <2>2
<1>2. /\ <<Classifier>> \in Seq(Models) /\ <<Detector, Embedder>> \in Seq(Models)
      /\ Classifier \in Models
  BY DEF Models
<1>3. /\ todo \in Seq(Models) /\ todo # <<>> /\ Head(todo) = Classifier
  <2>1. todo = <<Classifier>> \o extras \o <<Detector, Embedder>>
    BY DEF Init
  <2> HIDE DEF extras
  <2> QED BY <1>1, <1>2, <2>1
<1>4. Shape
  BY <1>3, StartupAssumption DEF Init, Shape
<1>5. ClassifierFirst /\ ChainServed
  BY <1>3 DEF Init, ClassifierFirst, ChainServed, Starting, Current
<1>6. BackendHonest
  BY DEF Init, BackendHonest, Deployed
<1> QED BY <1>4, <1>5, <1>6 DEF Init, Inv, ProbeTrue, HealthTruthful

LEMMA StepKeeps == Inv /\ [Next]_vars => Inv'
<1> SUFFICES ASSUME Inv, [Next]_vars PROVE Inv'
  OBVIOUS
<1>1. CASE Startup
  BY <1>1, ConnectKeeps, ReadMetadataKeeps, TryCandidateKeeps, NoBackendKeeps,
     LoadExperimentsKeeps DEF Startup
<1>2. CASE Health
  BY <1>2, HealthBeginsKeeps, PingCacheKeeps, HealthAnswersKeeps DEF Health
<1>3. CASE \E service \in Services : Toggle(service)
  BY <1>3, ToggleKeeps
<1>4. CASE UNCHANGED vars
  <2>1. ProbeTrue'
    BY <1>4 DEF Inv, ProbeTrue, vars, health
  <2>2. HealthTruthful'
    BY <1>4 DEF Inv, HealthTruthful, Ready, vars, chosen, loading, health
  <2> QED BY <1>4, <2>1, <2>2, ServingKeeps DEF Inv, Shape, vars, health
<1> QED BY <1>1, <1>2, <1>3, <1>4 DEF Next

\* At every point of a start-up, and while the replica serves, the models of
\* lifespan are loaded in order and a probe carries only what it has seen.
THEOREM Invariant == Spec => []Inv
  BY InitEstablishes, StepKeeps, PTL DEF Spec

\* Every loaded model runs on a provider that delivers the backend in its label
\* and executes there, is degraded unless that backend is the configured one,
\* and no optional endpoint is offered without its model.
THEOREM Honest == Spec => []BackendHonest
<1>1. Inv => BackendHonest BY DEF Inv
<1> QED BY <1>1, Invariant, PTL

\* GET /health is never wrong about what it has seen, however services come and
\* go under its awaits.
THEOREM Truthful == Spec => []HealthTruthful
<1>1. Inv => HealthTruthful BY DEF Inv
<1> QED BY <1>1, Invariant, PTL

-----------------------------------------------------------------------------
(* What the replica serves at POST /similar: the files of SimilarityIndex, *)
(* rewritten by scripts while it starts.                                   *)

(* Every index and manifest ever written begins with the same sample; two  *)
(* of the same length name the same images; a manifest says of each of its *)
(* images a class that was given to it.                                    *)
FromSample(images) ==
    /\ images \in IndexFiles
    /\ Len(images) >= NumImages /\ \A i \in 1 .. NumImages : images[i] = Corpus[i]
Describes(m) ==
    /\ m \in ManifestFiles
    /\ FromSample(m.paths) /\ Len(m.labels) = Len(m.paths)
    /\ \A i \in 1 .. Len(m.labels) : ClassGiven(m.paths[i], m.labels[i])
Paired(r, m) == r \notin {Absent, Torn} /\ m \notin {Absent, Torn} /\ Len(r) = Len(m.paths) => r = m.paths

(* A script writes what it has computed, r and m, file by file.            *)
Manifest(m) == <<"manifest", m>>
Metadata(r) == <<"metadata", Len(r)>>
Progress(r, m) ==
    IF job.kind = "relabel"
    THEN \/ job.writes = <<Manifest(m)>>
         \/ job.writes = <<>>
    ELSE \/ job.writes = << <<"index", r>>, Manifest(m), Metadata(r) >>
         \/ job.writes = <<Manifest(m), Metadata(r)>> /\ stored["index"] = r
         \/ job.writes = <<Metadata(r)>> /\ stored["index"] = r /\ stored["manifest"] = m
         \/ job.writes = <<>> /\ stored["index"] = r /\ stored["manifest"] = m /\ stored["metadata"] = Len(r)

(* ... and a replica that has read the index meets either manifest.        *)
Reading == place = "manifest" /\ jobs <= began + 1
Writing(r, m) ==
    /\ FromSample(r) /\ Describes(m) /\ r = m.paths
    /\ Progress(r, m)
    /\ Paired(stored["index"], m) /\ Paired(r, stored["manifest"])
    /\ Reading => Paired(index, m)

FilesInv ==
    /\ DOMAIN stored = FileNames
    /\ stored["index"] \notin {Absent, Torn} => FromSample(stored["index"])
    /\ stored["manifest"] \notin {Absent, Torn} => Describes(stored["manifest"])
    /\ Paired(stored["index"], stored["manifest"])

JobInv ==
    /\ jobs \in Nat
    /\ job # Absent => /\ job = [kind |-> job.kind, writes |-> job.writes, open |-> job.open]
                     /\ \E r, m : Writing(r, m)

(* Only one script is at work from the replica's first read to its last.   *)
ReplicaInv ==
    /\ began \in Int
    /\ place \in {"index", "manifest"} => began <= jobs /\ (began = jobs => job = Absent)
    /\ Reading => /\ FromSample(index) /\ Paired(index, stored["manifest"])
                  /\ began = jobs => index = stored["index"]
    /\ InService => FromSample(index) /\ Describes(manifest) /\ index = manifest.paths

SimInv == FilesInv /\ JobInv /\ ReplicaInv

(* The sample, and what appending to a sampled index makes of it.          *)
LEMMA Samples ==
    /\ FromSample(Sampled) /\ Len(Sampled) = NumImages
           /\ \A r : FromSample(r) /\ Len(r) = NumImages => r = Sampled
<1>1. Corpus \in Seq(Images) /\ NumImages \in 0 .. Len(Corpus)
  BY SimilarityAssumption DEF IndexFiles
<1>2. /\ Sampled \in Seq(Images) /\ Len(Sampled) = NumImages
      /\ \A i \in 1 .. NumImages : Sampled[i] = Corpus[i]
  BY <1>1 DEF Sampled
<1>3. ASSUME NEW r, FromSample(r), Len(r) = NumImages PROVE r = Sampled
  BY <1>2, <1>3, SeqEqual DEF FromSample, IndexFiles
<1> QED
  BY <1>2, <1>3, <1>1 DEF FromSample, IndexFiles

LEMMA Extends ==
    ASSUME NEW images \in Additions, NEW r, FromSample(r)
    PROVE  FromSample(r \o images) /\ Len(r \o images) = Len(r) + Len(images)
<1>1. r \in Seq(Images) /\ images \in Seq(Images)
  BY SimilarityAssumption DEF FromSample, IndexFiles
<1>2. /\ r \o images \in Seq(Images) /\ Len(r \o images) = Len(r) + Len(images)
      /\ \A i \in 1 .. Len(r) : (r \o images)[i] = r[i]
  BY <1>1
<1>3. Len(r) \in Nat /\ Len(images) \in Nat /\ NumImages \in Nat
  BY SimilarityAssumption, <1>1
<1> QED
  BY <1>2, <1>3 DEF FromSample, IndexFiles

LEMMA ReadableFiles ==
    /\ \A r : FromSample(r) => r \notin {Absent, Torn} /\ Len(r) \in Nat /\ Len(r) \notin {Absent, Torn}
           /\ \A m : Describes(m) => m \notin {Absent, Torn}
<1>1. ASSUME NEW r, FromSample(r) PROVE r \notin {Absent, Torn} /\ Len(r) \in Nat /\ Len(r) \notin {Absent, Torn}
  <2>1. r \in Seq(Images)
    BY <1>1 DEF FromSample, IndexFiles
  <2>2. Len(r) \in Nat
    BY <2>1
  <2> QED
    BY SimilarityAssumption, <1>1, <2>2 DEF FromSample
<1>2. ASSUME NEW m, Describes(m) PROVE m \notin {Absent, Torn}
  BY SimilarityAssumption, <1>2 DEF Describes
<1> QED
  BY <1>1, <1>2

(* A script that has computed a pair which agrees with the files on disk.  *)
LEMMA JobStarts ==
    ASSUME SimInv, NEW kind, NEW writes, NEW r, NEW m,
           FromSample(r), Describes(m), r = m.paths,
           writes = IF kind = "relabel" THEN <<Manifest(m)>>
                    ELSE << <<"index", r>>, Manifest(m), Metadata(r) >>,
           Paired(stored["index"], m), Paired(r, stored["manifest"]),
           job = Absent, jobs' = jobs + 1,
           job' = [kind |-> kind, writes |-> writes, open |-> FALSE],
           UNCHANGED <<stored, place, index, manifest, began>>
    PROVE  SimInv'
<1>1. FilesInv'
  BY DEF SimInv, FilesInv
<1>2. ReplicaInv'
  <2>1. jobs \in Nat /\ began \in Int
    BY DEF SimInv, JobInv, ReplicaInv
  <2>2. (Reading' => Reading) /\ (InService' => InService)
    BY <2>1 DEF Reading, InService
  <2>3. place \in {"index", "manifest"} => began < jobs'
    BY <2>1 DEF SimInv, ReplicaInv
  <2> QED
    BY <2>1, <2>2, <2>3 DEF SimInv, ReplicaInv, Reading
<1>3. JobInv'
  <2>1. Reading' => Paired(index, m)
    BY DEF SimInv, JobInv, ReplicaInv, Reading
  <2>2. job'.kind = kind /\ job'.writes = writes
    OBVIOUS
  <2>3. job' = [kind |-> job'.kind, writes |-> job'.writes, open |-> job'.open]
    OBVIOUS
  <2>4. Progress(r, m)'
    BY <2>2 DEF Progress
  <2>5. Writing(r, m)'
    BY <2>1, <2>4 DEF Writing, Reading
  <2>6. jobs' \in Nat
    BY DEF SimInv, JobInv
  <2> QED
    BY <2>3, <2>5, <2>6 DEF JobInv
<1> QED
  BY <1>1, <1>2, <1>3 DEF SimInv

LEMMA Builds == ASSUME SimInv, Build PROVE SimInv'
<1> DEFINE r == Sampled
           m == [labels |-> [i \in DOMAIN r |-> LabelOf[r[i]]], paths |-> r]
           w == << <<"index", r>>, Manifest(m), Metadata(r) >>
<1>1. /\ job = Absent /\ jobs' = jobs + 1 /\ UNCHANGED <<stored, place, index, manifest, began>>
      /\ job' = [kind |-> "build", writes |-> w, open |-> FALSE]
  BY DEF Build, StartJob, replica, Manifest, Metadata
<1>2. FromSample(r) /\ Len(r) = NumImages
  BY Samples
<1>3. Describes(m)
  <2>1. r \in Seq(Images) /\ DOMAIN r = 1 .. NumImages /\ NumImages \in Nat
    BY SimilarityAssumption, <1>2 DEF FromSample, IndexFiles
  <2>2. Corpus \in Seq(Images) /\ NumImages <= Len(Corpus)
    BY SimilarityAssumption DEF IndexFiles
  <2>3. ASSUME NEW i \in DOMAIN r PROVE LabelOf[r[i]] \in Int /\ r[i] \in Range(Corpus)
    <3>1. r[i] = Corpus[i] /\ i \in DOMAIN Corpus
      BY <1>2, <2>1, <2>2 DEF FromSample
    <3>2. r[i] \in Range(Corpus)
      BY <3>1 DEF Range
    <3> QED
      BY SimilarityAssumption, <3>2
  <2>4. m.labels \in Seq(Int) /\ Len(m.labels) = NumImages
    <3> HIDE DEF r
    <3> QED
      BY <2>1, <2>3
  <2>5. m \in ManifestFiles /\ m.paths = r
    <3> HIDE DEF r
    <3> QED
      BY <2>1, <2>4 DEF ManifestFiles
  <2>6. ASSUME NEW i \in 1 .. Len(m.labels) PROVE ClassGiven(m.paths[i], m.labels[i])
    <3>1. i \in DOMAIN r /\ m.paths[i] = r[i] /\ m.labels[i] = LabelOf[r[i]]
      BY <2>1, <2>4
    <3> QED
      BY <2>3, <3>1 DEF ClassGiven
  <2> QED
    BY <1>2, <2>4, <2>5, <2>6 DEF Describes
<1>4. Paired(stored["index"], m) /\ Paired(r, stored["manifest"])
  BY <1>2, Samples DEF SimInv, FilesInv, Paired, Describes
<1>5. m.paths = r
  OBVIOUS
<1> HIDE DEF r, m
<1> QED
  BY <1>1, <1>2, <1>3, <1>4, <1>5, JobStarts

\* Past the end of the first sequence a concatenation is the second one.
LEMMA SecondPart ==
    ASSUME NEW S, NEW a \in Seq(S), NEW b \in Seq(S), NEW k \in 1 .. Len(a) + Len(b),
           ~(k <= Len(a))
    PROVE  (a \o b)[k] = b[k - Len(a)]
  BY ConcatProperties

LEMMA Appends ==
    ASSUME SimInv, NEW images \in Additions, NEW label \in {-1, 0},
           Append_(images, label)
    PROVE  SimInv'
<1> DEFINE old == stored["manifest"]
           r == stored["index"] \o images
           m == [labels |-> old.labels \o [i \in DOMAIN images |-> label], paths |-> old.paths \o images]
           w == << <<"index", r>>, Manifest(m), Metadata(r) >>
<1>1. /\ job = Absent /\ jobs' = jobs + 1 /\ UNCHANGED <<stored, place, index, manifest, began>>
      /\ job' = [kind |-> "append", writes |-> w, open |-> FALSE]
      /\ stored["index"] \notin {Absent, Torn} /\ old \notin {Absent, Torn}
      /\ Len(r) = Len(m.labels)
  BY DEF Append_, Extended, Readable, StartJob, replica, Manifest, Metadata
<1>2. FromSample(stored["index"]) /\ Describes(old) /\ Paired(stored["index"], old)
  BY <1>1 DEF SimInv, FilesInv
<1>3. /\ stored["index"] \in Seq(Images) /\ images \in Seq(Images)
      /\ old.labels \in Seq(Int) /\ old.paths \in Seq(Images) /\ Len(old.labels) = Len(old.paths)
  BY SimilarityAssumption, <1>2 DEF FromSample, Describes, IndexFiles, ManifestFiles
<1>4. /\ Len(r) = Len(stored["index"]) + Len(images)
      /\ m.labels \in Seq(Int) /\ Len(m.labels) = Len(old.labels) + Len(images)
      /\ m.paths \in Seq(Images) /\ Len(m.paths) = Len(old.paths) + Len(images)
  <2>1. [i \in DOMAIN images |-> label] \in Seq(Int) /\ Len([i \in DOMAIN images |-> label]) = Len(images)
    BY <1>3
  <2>2. m.labels = old.labels \o [i \in DOMAIN images |-> label] /\ m.paths = old.paths \o images
    OBVIOUS
  <2> DEFINE new == [i \in DOMAIN images |-> label]
  <2>0. new \in Seq(Int) /\ old.labels \in Seq(Int)
    BY <1>3, <2>1
  <2> HIDE DEF new, old, m
  <2>3. old.labels \o new \in Seq(Int) /\ Len(old.labels \o new) = Len(old.labels) + Len(new)
    BY <2>0, ConcatProperties
  <2>4. old.paths \o images \in Seq(Images) /\ Len(old.paths \o images) = Len(old.paths) + Len(images)
    BY <1>3, ConcatProperties
  <2>5. Len(r) = Len(stored["index"]) + Len(images)
    BY <1>3, ConcatProperties
  <2> QED
    BY <2>1, <2>2, <2>3, <2>4, <2>5 DEF new
<1>5. Len(stored["index"]) = Len(old.paths)
  <2>1. Len(stored["index"]) \in Nat /\ Len(images) \in Nat /\ Len(old.paths) \in Nat
    BY <1>3
  <2>2. Len(old.labels) = Len(old.paths)
    BY <1>3
  <2>3. Len(stored["index"]) + Len(images) = Len(old.paths) + Len(images)
    <3> HIDE DEF r, m, old
    <3> QED
      BY <1>1, <1>4, <2>2
  <2>4. ASSUME NEW a \in Nat, NEW b \in Nat, NEW c \in Nat, a + b = c + b PROVE a = c
    BY <2>4
  <2> HIDE DEF r, m, old
  <2> QED
    BY <2>1, <2>3, <2>4
<1>6. stored["index"] = old.paths
  BY <1>1, <1>2, <1>5 DEF Paired
<1>7. FromSample(r) /\ r = m.paths
  BY <1>2, <1>6, Extends
<1>8. Describes(m)
  <2>1. m \in [labels : Seq(Int), paths : Seq(Images)]
    BY <1>4
  <2> DEFINE new == [i \in DOMAIN images |-> label]
             n == Len(old.labels)
  <2>2. /\ m.labels = old.labels \o new /\ m.paths = old.paths \o images
        /\ n \in Nat /\ Len(images) \in Nat /\ Len(old.paths) = n /\ DOMAIN images = 1 .. Len(images)
    BY <1>3
  <2>3. new \in Seq(Int) /\ Len(new) = Len(images) /\ \A i \in 1 .. Len(images) : new[i] = label
    BY <1>3
  <2>4. ASSUME NEW i \in 1 .. n + Len(images) PROVE ClassGiven(m.paths[i], m.labels[i])
    <3>1. CASE i <= n
      <4>0. i \in 1 .. n
        BY <2>2, <3>1
      <4>1. m.labels[i] = old.labels[i] /\ m.paths[i] = old.paths[i]
        <5> HIDE DEF new, old, m, n
        <5> QED
          BY <1>3, <2>2, <2>3, <4>0, ConcatProperties DEF n
      <4> QED
        BY <1>2, <4>0, <4>1 DEF Describes
    <3>2. CASE i > n
      <4>0. i - n \in 1 .. Len(images) /\ i \in n + 1 .. n + Len(images)
        BY <2>2, <3>2
      <4>1. m.labels[i] = new[i - n] /\ m.paths[i] = images[i - n]
        <5> HIDE DEF new, old, m, n
        <5>1. i \in 1 .. n + Len(images) /\ ~(i <= n)
          BY <2>2, <3>2
        <5>2. m.labels[i] = new[i - n]
          <6>1. i \in 1 .. Len(old.labels) + Len(new) /\ ~(i <= Len(old.labels))
            BY <2>2, <2>3, <5>1 DEF n
          <6>2. (old.labels \o new)[i] = new[i - Len(old.labels)]
            BY <1>3, <2>3, <6>1, SecondPart
          <6> QED
            BY <2>2, <6>2 DEF n
        <5>3. m.paths[i] = images[i - n]
          <6>1. i \in 1 .. Len(old.paths) + Len(images) /\ ~(i <= Len(old.paths))
            BY <2>2, <5>1
          <6>2. (old.paths \o images)[i] = images[i - Len(old.paths)]
            BY <1>3, <6>1, SecondPart
          <6> QED
            BY <2>2, <6>2
        <5> QED
          BY <5>2, <5>3
      <4>2. images[i - n] \in Range(images)
        BY <2>2, <4>0 DEF Range
      <4> QED
        BY <2>3, <4>0, <4>1, <4>2 DEF ClassGiven, Unlabelled
    <3> QED
      BY <2>2, <3>1, <3>2
  <2> QED
    BY <1>3, <1>4, <1>7, <2>1, <2>4 DEF Describes, ManifestFiles
<1>9. Paired(stored["index"], m) /\ Paired(r, old)
  <2>1. CASE Len(images) = 0
    <3>1. images = <<>> /\ r = stored["index"]
      BY <1>3, <2>1
    <3> QED
      BY <1>2, <1>6, <1>7, <3>1 DEF Paired
  <2>2. CASE Len(images) # 0
    <3>1. Len(stored["index"]) \in Nat /\ Len(images) \in Nat /\ Len(old.paths) \in Nat
      BY <1>3
    <3>2. Len(stored["index"]) # Len(m.paths) /\ Len(r) # Len(old.paths)
      BY <1>4, <1>5, <2>2, <3>1
    <3> QED
      BY <3>2 DEF Paired
  <2> QED
    BY <2>1, <2>2
<1> HIDE DEF r, m
<1> QED
  BY <1>1, <1>7, <1>8, <1>9, JobStarts

LEMMA Relabels ==
    ASSUME SimInv, NEW row, NEW label \in Nat, Relabel(row, label)
    PROVE  SimInv'
<1> DEFINE old == stored["manifest"]
           r == stored["index"]
           m == [old EXCEPT !.labels[row] = label]
<1>1. /\ job = Absent /\ jobs' = jobs + 1 /\ UNCHANGED <<stored, place, index, manifest, began>>
      /\ job' = [kind |-> "relabel", writes |-> <<Manifest(m)>>, open |-> FALSE]
      /\ r \notin {Absent, Torn} /\ old \notin {Absent, Torn}
      /\ Len(old.paths) = Len(r) /\ <<old.paths[row], label>> \in Corrections
  BY DEF Relabel, Readable, StartJob, replica, Manifest
<1>2. FromSample(r) /\ Describes(old) /\ r = old.paths
  BY <1>1 DEF SimInv, FilesInv, Paired
<1>3. /\ m.paths = old.paths /\ m \in ManifestFiles /\ Len(m.labels) = Len(old.labels)
      /\ \A i \in 1 .. Len(old.labels) :
            m.labels[i] = old.labels[i] \/ (i = row /\ m.labels[i] = label)
  <2>1. old \in [labels : Seq(Int), paths : Seq(Images)]
    BY <1>2 DEF Describes, ManifestFiles
  <2>2. ASSUME NEW s \in Seq(Int) PROVE [s EXCEPT ![row] = label] \in Seq(Int)
                                        /\ Len([s EXCEPT ![row] = label]) = Len(s)
                                        /\ \A i \in 1 .. Len(s) :
                                              \/ [s EXCEPT ![row] = label][i] = s[i]
                                              \/ (i = row /\ [s EXCEPT ![row] = label][i] = label)
    <3> DEFINE t == [s EXCEPT ![row] = label]
    <3>1. s \in [1 .. Len(s) -> Int] /\ Len(s) \in Nat
      OBVIOUS
    <3>2. PICK n \in Nat : n = Len(s)
      BY <3>1
    <3>3. t \in [1 .. n -> Int]
      <4>1. label \in Int /\ DOMAIN t = 1 .. n
        BY <3>1, <3>2
      <4>2. ASSUME NEW i \in 1 .. n PROVE t[i] \in Int
        <5>1. t[i] = label \/ t[i] = s[i]
          BY <3>1, <3>2
        <5> QED
          BY <3>1, <3>2, <4>1, <5>1
      <4> QED
        BY <4>1, <4>2
    <3>5. ASSUME NEW i \in 1 .. n PROVE t[i] = s[i] \/ (i = row /\ t[i] = label)
      <4>1. CASE i = row
        BY <3>1, <3>2, <4>1
      <4>2. CASE i # row
        BY <3>1, <3>2, <4>2
      <4> QED
        BY <4>1, <4>2
    <3> HIDE DEF t
    <3>4. t \in Seq(Int) /\ Len(t) = n
      BY <3>3
    <3> QED
      BY <3>2, <3>4, <3>5 DEF t
  <2>3. m = [old EXCEPT !.labels = [old.labels EXCEPT ![row] = label]]
    BY <2>1
  <2>4. old.labels \in Seq(Int)
    BY <2>1
  <2> HIDE DEF m, old
  <2>5. m.labels = [old.labels EXCEPT ![row] = label] /\ m.paths = old.paths
        /\ m = [labels |-> m.labels, paths |-> m.paths]
    BY <2>1, <2>3
  <2>6. /\ m.labels \in Seq(Int) /\ Len(m.labels) = Len(old.labels)
        /\ \A i \in 1 .. Len(old.labels) :
              m.labels[i] = old.labels[i] \/ (i = row /\ m.labels[i] = label)
    BY <2>2, <2>4, <2>5
  <2> QED
    BY <2>1, <2>5, <2>6 DEF ManifestFiles
<1>4. Describes(m)
  BY <1>1, <1>2, <1>3 DEF Describes, ClassGiven
<1>5. Paired(r, m) /\ Paired(r, old) /\ r = m.paths
  BY <1>2, <1>3 DEF Paired
<1> HIDE DEF m
<1> QED
  BY <1>1, <1>2, <1>4, <1>5, JobStarts

(* A file is cut off when its write begins and whole when it ends.         *)
LEMMA Writes == ASSUME SimInv, Write PROVE SimInv'
<1> DEFINE file == Head(job.writes)[1]
           content == Head(job.writes)[2]
<1>1. job # Absent /\ job.writes # <<>> /\ UNCHANGED <<jobs, place, index, manifest, began>>
  BY DEF Write, replica
<1>2. PICK r, m : Writing(r, m)
  BY <1>1 DEF SimInv, JobInv
<1>3. /\ job = [kind |-> job.kind, writes |-> job.writes, open |-> job.open]
      /\ DOMAIN stored = {"index", "manifest", "metadata"}
  BY <1>1 DEF SimInv, JobInv, FilesInv, FileNames
<1>4. r \notin {Absent, Torn} /\ m \notin {Absent, Torn} /\ Len(r) \notin {Absent, Torn}
  BY <1>2, ReadableFiles DEF Writing
<1>5. \/ file = "index" /\ content = r
      \/ file = "manifest" /\ content = m
      \/ file = "metadata" /\ content = Len(r)
  BY <1>1, <1>2 DEF Writing, Progress, Manifest, Metadata
<1>6. job'.kind = job.kind
      /\ job' = [kind |-> job'.kind, writes |-> job'.writes, open |-> job'.open]
  BY <1>1, <1>3 DEF Write
<1>7. SUFFICES ASSUME TRUE PROVE FilesInv' /\ Writing(r, m)' /\ ReplicaInv'
  BY <1>1, <1>6 DEF SimInv, JobInv
<1>8. CASE stored' = [stored EXCEPT ![file] = Torn] /\ job'.writes = job.writes
  <2>1. FilesInv'
    BY <1>3, <1>5, <1>8 DEF SimInv, FilesInv, Paired, FileNames
  <2>2. Writing(r, m)'
    BY <1>1, <1>2, <1>3, <1>5, <1>6, <1>8 DEF Writing, Progress, Manifest, Metadata, Paired, Reading
  <2>3. stored'["manifest"] \in {stored["manifest"], Torn}
    BY <1>3, <1>5, <1>8
  <2>4. ReplicaInv'
    BY <1>1, <1>6, <2>3 DEF SimInv, ReplicaInv, Reading, InService, Paired
  <2> QED
    BY <2>1, <2>2, <2>4
<1>9. CASE stored' = [stored EXCEPT ![file] = content] /\ job'.writes = Tail(job.writes)
  <2>1. stored'["index"] \in {stored["index"], r} /\ stored'["manifest"] \in {stored["manifest"], m}
    BY <1>3, <1>5, <1>9
  <2>2. FilesInv'
    <3>1. Paired(stored["index"], stored["manifest"]) /\ Paired(stored["index"], m)
          /\ Paired(r, stored["manifest"]) /\ Paired(r, m)
      BY <1>2 DEF SimInv, FilesInv, Writing, Paired
    <3>2. DOMAIN stored' = FileNames
      BY <1>3, <1>9 DEF FileNames
    <3> QED
      BY <1>2, <2>1, <3>1, <3>2 DEF SimInv, FilesInv, Writing
  <2>3. Progress(r, m)'
    <3>1. CASE job.kind = "relabel"
      <4>1. job.writes = <<Manifest(m)>>
        BY <1>1, <1>2, <3>1 DEF Writing, Progress
      <4>2. job'.writes = <<>>
        BY <1>9, <4>1
      <4> QED
        BY <1>6, <3>1, <4>2 DEF Progress
    <3>2. CASE job.writes = << <<"index", r>>, Manifest(m), Metadata(r) >> /\ job.kind # "relabel"
      <4>1. job'.writes = <<Manifest(m), Metadata(r)>> /\ file = "index" /\ content = r
        BY <1>9, <3>2
      <4> QED
        BY <1>3, <1>6, <1>9, <3>2, <4>1 DEF Progress
    <3>3. CASE /\ job.writes = <<Manifest(m), Metadata(r)>> /\ stored["index"] = r
               /\ job.kind # "relabel"
      <4>1. job'.writes = <<Metadata(r)>> /\ file = "manifest" /\ content = m
        BY <1>9, <3>3 DEF Manifest
      <4> QED
        BY <1>3, <1>6, <1>9, <3>3, <4>1 DEF Progress
    <3>4. CASE /\ job.writes = <<Metadata(r)>> /\ stored["index"] = r /\ stored["manifest"] = m
               /\ job.kind # "relabel"
      <4>1. job'.writes = <<>> /\ file = "metadata" /\ content = Len(r)
        BY <1>9, <3>4 DEF Metadata
      <4> QED
        BY <1>3, <1>6, <1>9, <3>4, <4>1 DEF Progress
    <3> QED
      BY <1>1, <1>2, <3>1, <3>2, <3>3, <3>4 DEF Writing, Progress
  <2>4. Writing(r, m)'
    BY <1>1, <1>2, <2>1, <2>3 DEF Writing, Paired, Reading
  <2>5. ReplicaInv'
    BY <1>1, <1>2, <1>6, <2>1 DEF SimInv, ReplicaInv, Writing, Reading, InService
  <2> QED
    BY <2>2, <2>4, <2>5
<1>10. \/ stored' = [stored EXCEPT ![file] = Torn] /\ job'.writes = job.writes
       \/ stored' = [stored EXCEPT ![file] = content] /\ job'.writes = Tail(job.writes)
  BY <1>3 DEF Write
<1> QED
  BY <1>8, <1>9, <1>10

LEMMA Ends == ASSUME SimInv, Finish \/ Kill PROVE SimInv'
<1>1. job' = Absent /\ UNCHANGED <<stored, jobs, place, index, manifest, began>>
  BY DEF Finish, Kill, replica
<1> QED
  BY <1>1 DEF SimInv, FilesInv, JobInv, ReplicaInv, Reading, InService

LEMMA ReplicaSteps ==
    ASSUME SimInv,
           LoadEmbedder \/ ReadIndex \/ ReadManifest \/ StopReplica
    PROVE  SimInv'
<1>1. UNCHANGED <<stored, job, jobs>>
  BY DEF LoadEmbedder, ReadIndex, ReadManifest, StopReplica
<1>2. FilesInv'
  BY <1>1 DEF SimInv, FilesInv
<1>3. jobs \in Nat /\ began \in Int
  BY DEF SimInv, JobInv, ReplicaInv
<1>4. CASE LoadEmbedder
  <2>1. place' \in {"unavailable", "index"} /\ began' = (IF job = Absent THEN jobs ELSE jobs - 1)
    BY <1>4 DEF LoadEmbedder
  <2> QED
    BY <1>1, <1>2, <1>3, <2>1 DEF SimInv, JobInv, ReplicaInv, Writing, Progress, Reading, InService
<1>5. CASE ReadIndex
  <2>1. place = "index" /\ UNCHANGED began
    BY <1>5 DEF ReadIndex
  <2>2. \/ place' = "unavailable"
        \/ place' = "manifest" /\ index' = stored["index"] /\ stored["index"] \notin {Absent, Torn}
    BY <1>5 DEF ReadIndex, Readable
  <2>3. ReplicaInv'
    <3>1. CASE place' = "unavailable"
      BY <1>1, <1>3, <2>1, <3>1 DEF SimInv, ReplicaInv, Reading, InService
    <3>2. CASE place' = "manifest" /\ index' = stored["index"] /\ stored["index"] \notin {Absent, Torn}
      <4>1. FromSample(index') /\ Paired(index', stored'["manifest"])
        BY <1>1, <3>2 DEF SimInv, FilesInv
      <4> QED
        BY <1>1, <1>3, <2>1, <3>2, <4>1 DEF SimInv, ReplicaInv, Reading, InService
    <3> QED
      BY <2>2, <3>1, <3>2
  <2>4. JobInv'
    BY <1>1, <2>1, <2>2 DEF SimInv, JobInv, Writing, Progress, Reading
  <2> QED
    BY <1>2, <2>3, <2>4 DEF SimInv
<1>6. CASE ReadManifest
  <2>1. place = "manifest" /\ UNCHANGED <<index, began>> /\ manifest' = stored["manifest"]
    BY <1>6 DEF ReadManifest
  <2>2. \/ place' = "unavailable"
        \/ place' = "ready" /\ stored["manifest"] \notin {Absent, Torn} /\ Len(index) = Len(manifest'.labels)
    BY <1>6, <2>1 DEF ReadManifest, Readable
  <2>3. ReplicaInv'
    <3>1. CASE place' = "unavailable"
      BY <1>1, <1>3, <2>1, <3>1 DEF SimInv, ReplicaInv, Reading, InService
    <3>2. CASE /\ place' = "ready" /\ stored["manifest"] \notin {Absent, Torn}
               /\ Len(index) = Len(manifest'.labels) /\ jobs <= began + 1
      <4>1. FromSample(index) /\ Paired(index, stored["manifest"]) /\ Describes(stored["manifest"])
        BY <2>1, <3>2 DEF SimInv, FilesInv, ReplicaInv, Reading
      <4>2. index = stored["manifest"].paths
        BY <2>1, <3>2, <4>1, ReadableFiles DEF Paired, Describes
      <4> QED
        BY <1>1, <1>3, <2>1, <3>2, <4>1, <4>2 DEF SimInv, ReplicaInv, Reading, InService
    <3>3. CASE place' = "ready" /\ ~(jobs <= began + 1)
      BY <1>1, <1>3, <2>1, <3>3 DEF SimInv, ReplicaInv, Reading, InService
    <3> QED
      BY <2>2, <3>1, <3>2, <3>3
  <2>4. JobInv'
    BY <1>1, <2>1, <2>2 DEF SimInv, JobInv, Writing, Progress, Reading
  <2> QED
    BY <1>2, <2>3, <2>4 DEF SimInv
<1>7. CASE StopReplica
  <2>1. place' = "down" /\ began' = 0
    BY <1>7 DEF StopReplica
  <2> QED
    BY <1>1, <1>2, <1>3, <2>1 DEF SimInv, JobInv, ReplicaInv, Writing, Progress, Reading, InService
<1> QED
  BY <1>4, <1>5, <1>6, <1>7

LEMMA SimStep == ASSUME SimInv, [IndexNext]_indexVars PROVE SimInv'
<1>1. CASE Build
  BY <1>1, Builds
<1>2. CASE \E images \in Additions, label \in {Unlabelled, 0} : Append_(images, label)
  BY <1>2, Appends DEF Unlabelled
<1>3. CASE \E row \in 1 .. Len(Corpus), label \in 0 .. Len(ClassNames) : Relabel(row, label)
  BY <1>3, Relabels
<1>4. CASE Write
  BY <1>4, Writes
<1>5. CASE Finish \/ Kill
  BY <1>5, Ends
<1>6. CASE LoadEmbedder \/ ReadIndex \/ ReadManifest \/ StopReplica
  BY <1>6, ReplicaSteps
<1>7. CASE ExportEmbedder \/ UNCHANGED indexVars
  <2>1. UNCHANGED <<stored, job, jobs, place, index, manifest, began>>
    BY <1>7 DEF ExportEmbedder, indexVars, replica
  <2> QED
    BY <2>1 DEF SimInv, FilesInv, JobInv, ReplicaInv, Writing, Progress, Reading, InService
<1> QED
  BY <1>1, <1>2, <1>3, <1>4, <1>5, <1>6, <1>7 DEF IndexNext

LEMMA SimInductive == IndexSpec => []SimInv
<1>1. IndexInit => SimInv
  BY DEF IndexInit, SimInv, FilesInv, JobInv, ReplicaInv, Reading, InService, Paired, FileNames
<1>2. SimInv /\ [IndexNext]_indexVars => SimInv'
  BY SimStep
<1> QED
  BY <1>1, <1>2, PTL DEF IndexSpec

(* What find_similar (similarity_service.py) answers from an index that    *)
(* was loaded while at most one script was at work describes the row it    *)
(* names - its image, and a class that was given to it - for any corpus,   *)
(* additions, corrections and number of scripts that died.                 *)
THEOREM AnswersTrue == IndexSpec => []AnswersDescribeRow
<1>1. SimInv => AnswersDescribeRow
  <2> SUFFICES ASSUME SimInv, InService, NEW found \in Searches, NEW similar \in 0 .. TopK
               PROVE  LET answer == FindSimilar(found, similar)
                      IN  /\ \A i \in DOMAIN answer :
                               /\ answer[i].reference = index[answer[i].row]
                               /\ ClassGiven(index[answer[i].row], answer[i].class_id)
                               /\ answer[i].class_id \in 0 .. Len(ClassNames) - 1
                                    => answer[i].label = ClassNames[answer[i].class_id + 1]
                          /\ \A i, j \in DOMAIN answer : i # j => answer[i].row # answer[j].row
    BY DEF AnswersDescribeRow
  <2> DEFINE kept == Kept(found, similar)
             answer == FindSimilar(found, similar)
  <2>1. /\ index = manifest.paths /\ Len(index) \in Nat
        /\ \A k \in 1 .. Len(index) : ClassGiven(index[k], manifest.labels[k])
    BY ReadableFiles DEF SimInv, ReplicaInv, Describes
  <2>2. /\ \A i, j \in DOMAIN found : found[i] = found[j] => i = j
        /\ TopK \in Nat /\ Len(ClassNames) \in Nat
    <3>1. IsInjective(found)
      BY DEF Searches
    <3>2. TopK \in Nat /\ ClassNames \in Seq(Range(ClassNames))
      BY SimilarityAssumption
    <3>3. Len(ClassNames) \in Nat
      BY <3>2
    <3> QED
      BY <3>1, <3>2, <3>3 DEF IsInjective
  <2>3. \A i \in kept : i \in DOMAIN found /\ Padded(found)[i] = found[i]
    BY <2>2 DEF Kept, Padded
  <2>4. DOMAIN answer = kept
    BY DEF FindSimilar
  <2>5. ASSUME NEW i \in kept
        PROVE  /\ answer[i].row = found[i] /\ answer[i].reference = manifest.paths[found[i]]
               /\ answer[i].class_id = manifest.labels[found[i]]
               /\ answer[i].label = NameOf(manifest.labels[found[i]])
    BY <2>3 DEF FindSimilar, Described
  <2> HIDE DEF answer, kept
  <2>6. ASSUME NEW n \in 0 .. Len(ClassNames) - 1 PROVE NameOf(n) = ClassNames[n + 1]
    BY <2>2 DEF NameOf
  <2>7. ASSUME NEW i \in kept, answer[i].class_id \in 0 .. Len(ClassNames) - 1
        PROVE  answer[i].label = ClassNames[answer[i].class_id + 1]
    <3>1. PICK n : n = manifest.labels[found[i]]
      OBVIOUS
    <3>2. answer[i].label = NameOf(n) /\ answer[i].class_id = n
      BY <2>5, <3>1
    <3> QED
      BY <2>6, <2>7, <3>2
  <2>8. \A i \in kept : answer[i].reference = index[answer[i].row]
    BY <2>1, <2>5
  <2>9. \A i, j \in kept : i # j => answer[i].row # answer[j].row
    BY <2>2, <2>3, <2>5
  <2>10. ASSUME NEW i \in kept PROVE ClassGiven(index[answer[i].row], answer[i].class_id)
    <3>1. index \in Seq(Images)
      BY DEF SimInv, ReplicaInv, FromSample, IndexFiles
    <3>2. DOMAIN index = 1 .. Len(index)
      BY <3>1
    <3>3. found[i] \in DOMAIN index
      BY <2>3 DEF Searches
    <3> QED
      BY <2>1, <2>5, <3>2, <3>3
  <2> QED
    BY <2>4, <2>7, <2>8, <2>9, <2>10 DEF answer
<1> QED
  BY <1>1, SimInductive, PTL

(* append_to_index and build_index (export_embedding.py): whatever earlier *)
(* scripts left, one that writes its last file leaves the three agreeing.  *)
THEOREM FinishedAgree == IndexSpec => FinishedJobsAgree
<1>1. SimInv /\ job # Absent /\ job.writes = <<>> /\ job.kind # "relabel" => Agree
  <2> SUFFICES ASSUME SimInv, job # Absent, job.writes = <<>>, job.kind # "relabel" PROVE Agree
    OBVIOUS
  <2>1. PICK r, m : Writing(r, m)
    BY DEF SimInv, JobInv
  <2>2. stored["index"] = r /\ stored["manifest"] = m /\ stored["metadata"] = Len(r)
    BY <2>1 DEF Writing, Progress
  <2>3. /\ r \notin {Absent, Torn} /\ m \notin {Absent, Torn} /\ Len(r) \notin {Absent, Torn}
        /\ r = m.paths /\ Len(m.labels) = Len(m.paths)
    BY <2>1, ReadableFiles DEF Writing, Describes
  <2> QED
    BY <2>2, <2>3 DEF Agree, Readable, FileNames
<1>2. SimInv /\ [IndexNext]_indexVars =>
        [job # Absent /\ job' = Absent /\ job.writes = <<>> /\ job.kind # "relabel" => Agree]_indexVars
  BY <1>1
<1> QED
  BY <1>2, SimInductive, PTL DEF IndexSpec, FinishedJobsAgree
=============================================================================
