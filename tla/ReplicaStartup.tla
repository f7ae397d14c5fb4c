--------------------------- MODULE ReplicaStartup ---------------------------
(***************************************************************************)
(* One replica from the start of its process to the answers of its health  *)
(* endpoint: what it connects to (api/main.py), which model it loads on    *)
(* which backend (api/services/model_service.py), what ONNX Runtime makes  *)
(* of that (api/services/runtime.py) and what GET /health then says of it  *)
(* (api/routers/health.py). A model is a pair <<name, version>>; a graph   *)
(* is whole, corrupt or not there; a host says which execution providers   *)
(* its ONNX Runtime has, whether it has a GPU, and whose libraries the     *)
(* linker finds by itself or only after a preload. Redis and Postgres come *)
(* and go at any time.                                                     *)
(***************************************************************************)
EXTENDS Naturals, Sequences, FiniteSets

CONSTANTS
    Settings,       \* [backend, degradation]: inference_backend, enable_graceful_degradation
    Hosts,          \* [gpu, registered, linked, wheels]
    Disks,          \* [fp32, int8, corrupt, labels, index, experiments]
    Extras,         \* the versions of the classifier besides v1, in order
    None            \* no value

Backends == {"torch", "onnx", "onnx-int8", "tensorrt"}

Trt  == "TensorrtExecutionProvider"
Cuda == "CUDAExecutionProvider"
Cpu  == "CPUExecutionProvider"
Int8 == "onnx-int8"

Classifier == <<"classifier", "v1">>
Detector   == <<"detector", "v1">>
Embedder   == <<"embedder", "v1">>

Services == {"redis", "database"}

ASSUME StartupAssumption ==
    /\ Settings \subseteq [backend : Backends, degradation : BOOLEAN]
    /\ Extras \in Seq(STRING)
    /\ None \notin {Trt, Cuda}

VARIABLES
    settings, host, disk,   \* chosen at the start and never changed
    up,         \* the services that answer
    pc,         \* the statement of lifespan that is next
    redis,      \* there is a client for Redis
    engine,     \* there is an engine for Postgres
    preloaded,  \* whose libraries _PRELOADED stands for, or None
    todo,       \* the models still to be loaded, the current one first
    chain,      \* its candidates still to be tried; None before its metadata is read
    models,     \* the registry: model -> [backend, provider, degraded]
    endpoints,  \* the optional endpoints that have their service
    probe,      \* a GET /health in progress, or None
    told        \* its latest answer, or None

chosen == <<settings, host, disk>>
loading == <<preloaded, todo, chain, models, endpoints>>
health == <<probe, told>>
vars == <<chosen, up, pc, redis, engine, loading, health>>

Models == {Classifier, Detector, Embedder} \cup {<<"classifier", Extras[i]>> : i \in DOMAIN Extras}

Init ==
    /\ settings \in Settings /\ host \in Hosts /\ disk \in Disks
    /\ up \in SUBSET Services
    /\ pc = "redis"
    /\ redis = FALSE /\ engine = FALSE
    /\ preloaded = None
    /\ todo = <<Classifier>> \o [i \in DOMAIN Extras |-> <<"classifier", Extras[i]>>]
                \o <<Detector, Embedder>>
    /\ chain = None
    /\ models = <<>> /\ endpoints = {}
    /\ probe = None /\ told = None

-----------------------------------------------------------------------------
(* The tables of model_service.py.                                         *)

FallbackChain(backend) ==
    CASE backend = "tensorrt" -> <<"tensorrt", "onnx", Int8>>
      [] backend = "onnx"     -> <<"onnx", Int8>>
      [] backend = Int8       -> <<Int8, "onnx">>
      [] backend = "torch"    -> <<"torch", "onnx">>

ProvidersFor(backend) ==
    CASE backend = "tensorrt" -> <<Trt, Cpu>>
      [] backend = "onnx"     -> <<Cuda, Cpu>>
      [] OTHER                -> <<Cpu>>

SatisfyingProviders(backend) ==
    CASE backend = "tensorrt" -> {Trt}
      [] backend = "onnx"     -> {Cuda, Cpu}
      [] OTHER                -> {Cpu}

(* INT8 graphs of detector and embedder are served only when preferred;    *)
(* in the other chains INT8 is last, so the rest is still a sequence.      *)
ChainOf(m) ==
    LET preferred == settings.backend
        full == IF settings.degradation THEN FallbackChain(preferred) ELSE <<preferred>>
    IN  IF m[1] = "classifier" \/ preferred = Int8 THEN full
        ELSE [i \in {k \in DOMAIN full : full[k] # Int8} |-> full[i]]

-----------------------------------------------------------------------------
(* ONNX Runtime on this host, after the preload of libraries given.        *)

(* What the preload of TensorRT's or CUDA's libraries makes resolvable.    *)
Preloads(libraries) == CASE libraries = Trt -> {Trt, Cuda} [] libraries = Cuda -> {Cuda}
                         [] OTHER -> {}
Resolvable(p, libraries) == p \in host.linked \/ (p \in host.wheels /\ p \in Preloads(libraries))

(* TensorRT fails when the session is made, CUDA when a kernel first runs. *)
Initialises(p, libraries) ==
    \/ p = Cpu
    \/ host.gpu /\ p \in host.registered /\ (p = Trt => Resolvable(Trt, libraries))
Executes(p, libraries) == p = Cpu \/ Resolvable(Cuda, libraries)

-----------------------------------------------------------------------------
(* create_session.                                                         *)

(* The first session that asks for a GPU preloads, once for the process.   *)
Preloaded(requested) ==
    IF preloaded = None /\ requested # <<Cpu>> THEN requested[1] ELSE preloaded

(* The providers passed on, in the order requested; ONNX Runtime insists   *)
(* on CPU.                                                                 *)
Usable(requested) ==
    {requested[i] : i \in DOMAIN requested} \cap (host.registered \cup {Cpu})
FirstOf(list, S) ==
    list[CHOOSE i \in DOMAIN list : list[i] \in S /\ \A k \in 1 .. i-1 : list[k] \notin S]

(* session.get_providers()[0]: ONNX Runtime passes over, without a word,   *)
(* the providers that do not initialise.                                   *)
Selected(requested, libraries) ==
    FirstOf(requested, {p \in Usable(requested) : Initialises(p, libraries)})

D_Verified(requested, acceptable, libraries) ==     \* against the filtered list
    \/ FirstOf(requested, Usable(requested)) = Cpu
    \/ Selected(requested, libraries) \in acceptable

(* The provider in use is one that satisfies the caller.                   *)
Verified(requested, acceptable, libraries) ==
    Selected(requested, libraries) \in acceptable

-----------------------------------------------------------------------------
(* Start-up: connections. What cannot be reached is done without.          *)

(* Redis.from_url and a ping, which may also time out.                     *)
CreateRedis ==
    /\ pc = "redis"
    /\ redis' \in {FALSE, "redis" \in up}
    /\ pc' = "database"
    /\ UNCHANGED <<chosen, up, engine, loading, health>>

(* Engine, check_connection, tables outside production; then the audit     *)
(* service, which is inert without an engine.                              *)
CreateDatabase ==
    /\ pc = "database"
    /\ engine' \in {FALSE, "database" \in up}
    /\ pc' = "models"
    /\ UNCHANGED <<chosen, up, redis, loading, health>>

-----------------------------------------------------------------------------
(* Start-up: models. load_classifier, load_detector and load_embedder      *)
(* differ in their labels, their chain and what their failure means.       *)

Current == Head(todo)

(* discover_versions: an extra version is tried if it has a directory.     *)
Present(m) ==
    m \in {Classifier, Detector, Embedder} \/ m \in disk.fp32 \cup disk.int8 \cup disk.labels
LabelsOf(m) == IF m = Embedder THEN Classifier ELSE m

NextModel ==
    /\ todo' = Tail(todo)
    /\ chain' = None
    /\ pc' = IF todo' = <<>> THEN "experiments" ELSE pc

(* The model cannot be loaded: fatal for the default classifier, while any *)
(* other costs its version or its endpoint.                                *)
Unavailable ==
    IF Current = Classifier
    THEN pc' = "failed" /\ UNCHANGED <<todo, chain>>
    ELSE NextModel

ReadMetadata ==
    /\ pc = "models" /\ chain = None
    /\ IF Present(Current) /\ LabelsOf(Current) \in disk.labels
       THEN chain' = ChainOf(Current) /\ UNCHANGED <<pc, todo>>
       ELSE Unavailable
    /\ UNCHANGED <<chosen, up, redis, engine, preloaded, models, endpoints, health>>

GraphExists(m, backend) ==
    /\ ~(m[1] = "classifier" /\ backend = "torch")
    /\ m \in IF backend = Int8 THEN disk.int8 ELSE disk.fp32
Corrupt(m, backend) == <<m, IF backend = Int8 THEN "int8" ELSE "fp32">> \in disk.corrupt

(* _create_session and _warmup of the next candidate. The index is read    *)
(* after the embedder was registered: without it, model and no endpoint.   *)
Works(m, backend, libraries) ==
    LET requested == ProvidersFor(backend)
    IN  /\ ~Corrupt(m, backend)
        /\ Verified(requested, SatisfyingProviders(backend), libraries)
        /\ Executes(Selected(requested, libraries), libraries)

TryCandidate ==
    /\ pc = "models" /\ chain # None /\ chain # <<>>
    /\ LET backend == Head(chain)
           requested == ProvidersFor(backend)
           libraries == Preloaded(requested)
       IN  /\ preloaded' = IF GraphExists(Current, backend) THEN libraries ELSE preloaded
           /\ IF GraphExists(Current, backend) /\ Works(Current, backend, libraries)
              THEN /\ models' = [m \in DOMAIN models \cup {Current} |->
                          IF m # Current THEN models[m]
                          ELSE [backend |-> backend,
                                provider |-> Selected(requested, libraries),
                                degraded |-> backend # settings.backend]]
                   /\ endpoints' = endpoints \cup
                          (IF Current = Detector \/ (Current = Embedder /\ disk.index)
                           THEN {Current} ELSE {})
                   /\ NextModel
              ELSE /\ chain' = Tail(chain)
                   /\ UNCHANGED <<pc, todo, models, endpoints>>
    /\ UNCHANGED <<chosen, up, redis, engine, health>>

NoBackend ==
    /\ pc = "models" /\ chain = <<>>
    /\ Unavailable
    /\ UNCHANGED <<chosen, up, redis, engine, preloaded, models, endpoints, health>>

(* ExperimentRegistry.load raises for an entry that is not an object. Only *)
(* then does the server listen.                                            *)
LoadExperiments ==
    /\ pc = "experiments"
    /\ pc' = IF disk.experiments THEN "serving" ELSE "failed"
    /\ UNCHANGED <<chosen, up, redis, engine, loading, health>>

-----------------------------------------------------------------------------
(* GET /health: the registry, then Redis, then Postgres; a probe carries   *)
(* what it has found, and which services it has seen up and down.          *)

Answers(service) == service \in up

HealthBegins ==
    /\ pc = "serving" /\ probe = None
    /\ probe' = [at |-> "cache", cache |-> FALSE, seen |-> up, missed |-> Services \ up]
    /\ told' = None
    /\ UNCHANGED <<chosen, up, pc, redis, engine, loading>>

PingCache ==
    /\ probe # None /\ probe.at = "cache"
    /\ probe' = [probe EXCEPT !.at = "database", !.cache = redis /\ Answers("redis")]
    /\ UNCHANGED <<chosen, up, pc, redis, engine, loading, told>>

D_Status(cache, database) ==        \* the database reported, and not counted
    CASE models = <<>> -> "unhealthy"
      [] models # <<>> /\ (~cache \/ \E m \in DOMAIN models : models[m].degraded) -> "degraded"
      [] OTHER -> "healthy"

Status(cache, database) ==
    CASE models = <<>> -> "unhealthy"
      [] models # <<>> /\ (\/ ~cache \/ ~database
                           \/ \E m \in DOMAIN models : models[m].degraded) -> "degraded"
      [] OTHER -> "healthy"

(* Without an engine the database is neither asked nor reported.           *)
HealthAnswers ==
    /\ probe # None /\ probe.at = "database"
    /\ told' = [status |-> Status(probe.cache, engine => Answers("database")),
                seen |-> probe.seen, missed |-> probe.missed]
    /\ probe' = None
    /\ UNCHANGED <<chosen, up, pc, redis, engine, loading>>

(* GET /health/ready and get_detection_service, get_similarity_service.    *)
Ready == pc = "serving" /\ models # <<>>
Deployed(m) == m \in endpoints

-----------------------------------------------------------------------------
(* A service comes up or goes down.                                        *)
Toggle(service) ==
    LET now == IF service \in up THEN up \ {service} ELSE up \cup {service}
    IN  /\ up' = now
        /\ probe' = IF probe = None THEN None
                    ELSE [probe EXCEPT !.seen = @ \cup now, !.missed = @ \cup (Services \ now)]
        /\ UNCHANGED <<chosen, pc, redis, engine, loading, told>>

Startup ==
    \/ CreateRedis \/ CreateDatabase
    \/ ReadMetadata \/ TryCandidate \/ NoBackend
    \/ LoadExperiments
Health == HealthBegins \/ PingCache \/ HealthAnswers

Next == Startup \/ Health \/ \E service \in Services : Toggle(service)

Spec == Init /\ [][Next]_vars

-----------------------------------------------------------------------------
(* What a label promises the reader of a response or of /health. No ONNX   *)
(* Runtime session runs a PyTorch model, whatever its provider.            *)
Delivers(backend) ==
    CASE backend = "tensorrt" -> {Trt}
      [] backend = "onnx"     -> {Cuda, Cpu}
      [] backend = Int8       -> {Cpu}
      [] backend = "torch"    -> {}

(* The label that is wrong: with inference_backend torch, the candidate    *)
(* "torch" of detector and embedder is their fp32 graph on ONNX Runtime's  *)
(* CPU provider, registered as "torch" and not degraded.                   *)
TorchInName(m) ==
    /\ settings.backend = "torch" /\ m \in {Detector, Embedder}
    /\ models[m].backend = "torch" /\ models[m].provider = Cpu

(* "Refusing to report a backend that is not in use" (runtime.py:275), as  *)
(* far as the code keeps to it: whatever the host offers and whichever     *)
(* session preloaded the libraries, every loaded model runs on a provider  *)
(* that delivers the backend it is labelled with, except detector and      *)
(* embedder when torch is configured (TorchInName). The kernels of each    *)
(* execute there, it is marked degraded unless its label is the configured *)
(* backend, only the classifier is ever degraded to INT8, and an optional  *)
(* endpoint is offered only with a model.                                  *)
BackendHonest ==
    /\ \A m \in {Detector, Embedder} : Deployed(m) => m \in DOMAIN models
    /\ \A m \in DOMAIN models :
        LET loaded == models[m]
        IN  /\ loaded.provider \in Delivers(loaded.backend) \/ TorchInName(m)
            /\ Initialises(loaded.provider, preloaded) /\ Executes(loaded.provider, preloaded)
            /\ loaded.degraded <=> loaded.backend # settings.backend
            /\ loaded.degraded /\ loaded.backend = Int8 => m[1] = "classifier"

(* The health endpoint while services come and go under its awaits, on a   *)
(* replica that may have started without them (health.py:36): it is never  *)
(* unhealthy, for the replica serves; "healthy" means that no model fell   *)
(* back, and that Redis, and Postgres if it was there at the start, were   *)
(* up during the probe; "degraded" always has a reason.                    *)
HealthTruthful ==
    told # None =>
        LET fellBack == \E m \in DOMAIN models : models[m].backend # settings.backend
        IN  /\ Ready /\ Classifier \in DOMAIN models /\ told.status # "unhealthy"
            /\ told.status = "healthy" =>
                  ~fellBack /\ redis /\ {"redis"} \cup {s \in {"database"} : engine} \subseteq told.seen
            /\ told.status = "degraded" => fellBack \/ ~redis \/ told.missed # {}
=============================================================================
