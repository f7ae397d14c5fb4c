------------------------------ MODULE Inference ------------------------------
(***************************************************************************)
(* One classification request from POST /api/v1/classify to its response   *)
(* (api/routers/classification.py, api/services/inference_service.py), with*)
(* the result cache all replicas share (api/services/cache_service.py) and *)
(* the models of ModelRegistry.                                            *)
(*                                                                         *)
(* A step is the code of a request between two awaits: the upload, the     *)
(* cache read, the deletion of a corrupt entry, the forward pass, and the  *)
(* cache write.  Predictions are the record of what they were computed     *)
(* from.  A replica that started without Redis behaves as one whose every  *)
(* Redis call fails.  D_Something is a faulty version of Something, as in  *)
(* ModelRegistry.                                                          *)
(***************************************************************************)
EXTENDS ModelRegistry

CONSTANTS
    Requests,
    Inputs,       \* the requests a client may send: [user, image, options,
                  \* version, backend, use_cache]; version and backend pin or None
    BadImages     \* images that validate_image_upload refuses

ASSUME InputsAssumption ==
    \A in \in Inputs : in.version \in Versions \cup {None} /\ in.use_cache \in BOOLEAN

\* A digest over 2^64 is below 1.0.
ASSUME HashAssumption ==
    /\ Total \in Nat
    /\ \A i \in DOMAIN Entries, in \in Inputs :
         Entries[i] # None => Position[<<Entries[i].name, in.user>>] \in 0..(Total - 1)

VARIABLES
    cache,    \* the entries of Redis: key -> predictions, or a payload of no use
    request,  \* what classify holds between two awaits, and how it ended
    audit,    \* request -> the record given to AuditService, or None
    counted   \* request -> the labels given to inference_requests_total, or None

requestVars == <<request, audit, counted>>
vars == <<registryVars, cache, requestVars>>

NewRequest == [pc |-> "new", replica |-> None, input |-> None, version |-> None,
               variant |-> None, model |-> None, predictions |-> None,
               cached |-> FALSE, error |-> "none"]

InFlight == {q \in Requests : request[q].pc \in {"upload", "lookup", "drop", "run", "store"}}

\* Payloads that no classify wrote: not JSON at all, or JSON of another shape.
Unparsable == [payload |-> "unparsable"]
Misshapen  == [payload |-> "misshapen"]

D_build_key(in, m) ==
    [image |-> in.image, options |-> in.options, version |-> m.version, backend |-> None]

build_key(in, m) ==
    [image |-> in.image, options |-> in.options, version |-> m.version, backend |-> m.backend]

\* preprocess, run and decode
Compute(in, m) ==
    [payload |-> "predictions", image |-> in.image, options |-> in.options,
     version |-> m.version, backend |-> m.backend, weights |-> m.weights, labels |-> m.labels]

Key(q) == build_key(request[q].input, request[q].model)

-----------------------------------------------------------------------------
(* The steps of a request                                                   *)

\* classify_image up to the upload: a pin wins over the experiment.
Receive(q, r, in) ==
    LET e == replica[r].experiment
        routed == in.version = None /\ e # None
    IN /\ request[q].pc = "new"
       /\ replica[r].up
       /\ request' = [request EXCEPT ![q] =
            [NewRequest EXCEPT !.pc = "upload", !.replica = r, !.input = in,
               !.version = IF routed THEN Assign(e, in.user).version ELSE in.version,
               !.variant = IF routed THEN Assign(e, in.user).name ELSE None]]
       /\ UNCHANGED <<registryVars, cache, audit, counted>>

D_AuditRow(q, status, cached) ==
    [status |-> status, cached |-> cached, version |-> request[q].model.version,
     backend |-> request[q].model.backend,
     variant |-> IF cached THEN None ELSE request[q].variant]

AuditRow(q, status, cached) ==
    [status |-> status, cached |-> cached, version |-> request[q].model.version,
     backend |-> request[q].model.backend, variant |-> request[q].variant]

\* classify returns: the record is queued, and the router counts a success.
Respond(q, predictions, cached) ==
    /\ request' = [request EXCEPT ![q].pc = "answered", ![q].predictions = predictions,
                                  ![q].cached = cached]
    /\ audit' = [audit EXCEPT ![q] = AuditRow(q, "success", cached)]
    /\ counted' = [counted EXCEPT ![q] =
         [version |-> request[q].model.version, backend |-> request[q].model.backend,
          success |-> TRUE]]

\* classify raises: the router resolves the version again to count a failure,
\* and raises ModelNotFoundError before it counts if it cannot.
Fail(q, error) ==
    LET now == Get(request[q].replica, request[q].version)
    IN /\ request' = [request EXCEPT ![q].pc = "failed", ![q].error = error]
       /\ counted' = IF now = None THEN counted
                     ELSE [counted EXCEPT ![q] =
                       [version |-> now.version, backend |-> now.backend, success |-> FALSE]]

\* _read_upload stops at max_upload_bytes, before anything counts or audits.
UploadTooLarge(q) ==
    /\ request[q].pc = "upload"
    /\ request' = [request EXCEPT ![q].pc = "failed", ![q].error = "too_large"]
    /\ UNCHANGED <<registryVars, cache, audit, counted>>

\* The body has been read: validation, then the model.
Validate(q) ==
    LET in == request[q].input
        m  == Get(request[q].replica, request[q].version)
        mismatch == m # None /\ in.backend # None /\ in.backend # m.backend
    IN /\ request[q].pc = "upload"
       /\ \/ /\ in.image \in BadImages
             /\ Fail(q, "invalid")
          \/ /\ in.image \notin BadImages
             /\ m = None \/ mismatch
             /\ Fail(q, "not_found")
          \/ /\ in.image \notin BadImages
             /\ m # None /\ ~mismatch
             /\ request' = [request EXCEPT ![q].model = m,
                              ![q].pc = IF in.use_cache THEN "lookup" ELSE "run"]
             /\ UNCHANGED counted
       /\ UNCHANGED <<registryVars, cache, audit>>

Hit(q) ==
    /\ request[q].pc = "lookup"
    /\ Key(q) \in DOMAIN cache
    /\ cache[Key(q)].payload = "predictions"
    /\ Respond(q, cache[Key(q)], TRUE)
    /\ UNCHANGED <<registryVars, cache>>

\* No entry, or RedisError.
Miss(q) ==
    /\ request[q].pc = "lookup"
    /\ request' = [request EXCEPT ![q].pc = "run"]
    /\ UNCHANGED <<registryVars, cache, audit, counted>>

FindsUnparsable(q) ==
    /\ request[q].pc = "lookup"
    /\ Key(q) \in DOMAIN cache
    /\ cache[Key(q)].payload = "unparsable"
    /\ request' = [request EXCEPT ![q].pc = "drop"]
    /\ UNCHANGED <<registryVars, cache, audit, counted>>

\* cached["predictions"] or Prediction(**p) raises, outside any handler.
FindsMisshapen(q) ==
    /\ request[q].pc = "lookup"
    /\ Key(q) \in DOMAIN cache
    /\ cache[Key(q)].payload = "misshapen"
    /\ Fail(q, "cached_payload")
    /\ UNCHANGED <<registryVars, cache, audit>>

Without(k) == [x \in DOMAIN cache \ {k} |-> cache[x]]

With(k, value) == [x \in DOMAIN cache \cup {k} |-> IF x = k THEN value ELSE cache[x]]

\* Whatever another request has put there meanwhile; a RedisError is logged,
\* and may come after the deletion.
Drop(q) ==
    /\ request[q].pc = "drop"
    /\ cache' \in {cache, Without(Key(q))}
    /\ request' = [request EXCEPT ![q].pc = "run"]
    /\ UNCHANGED <<registryVars, audit, counted>>

Run(q) ==
    LET predictions == Compute(request[q].input, request[q].model)
    IN /\ request[q].pc = "run"
       /\ IF request[q].input.use_cache
          THEN /\ request' = [request EXCEPT ![q].pc = "store", ![q].predictions = predictions]
               /\ UNCHANGED <<audit, counted>>
          ELSE Respond(q, predictions, FALSE)
       /\ UNCHANGED <<registryVars, cache>>

\* Preprocessing or the session raises.
RunFails(q) ==
    /\ request[q].pc = "run"
    /\ Fail(q, "runtime")
    /\ audit' = [audit EXCEPT ![q] = AuditRow(q, "failure", FALSE)]
    /\ UNCHANGED <<registryVars, cache>>

\* The labels are those of another run with fewer classes: IndexError.
DecodeFails(q) ==
    /\ request[q].pc = "run"
    /\ request[q].model.labels # request[q].model.weights
    /\ Fail(q, "decode")
    /\ UNCHANGED <<registryVars, cache, audit>>

\* set: written, or an error is logged; it may come after the write.
Store(q) ==
    /\ request[q].pc = "store"
    /\ cache' \in {cache, With(Key(q), request[q].predictions)}
    /\ Respond(q, request[q].predictions, FALSE)
    /\ UNCHANGED registryVars

-----------------------------------------------------------------------------
(* The environment                                                          *)

\* The time to live, eviction, or the loss of Redis's memory.
Evict(k) ==
    /\ k \in DOMAIN cache
    /\ cache' = Without(k)
    /\ UNCHANGED <<registryVars, requestVars>>

\* An entry is damaged, or another release of the service wrote it.
Damage(k, payload) ==
    /\ k \in DOMAIN cache
    /\ cache[k].payload = "predictions"
    /\ cache' = With(k, payload)
    /\ UNCHANGED <<registryVars, requestVars>>

\* A replica stops with its requests in flight: their clients get no answer.
StopReplica(r) ==
    /\ Stop(r)
    /\ request' = [q \in Requests |->
         IF q \in InFlight /\ request[q].replica = r
         THEN [request[q] EXCEPT !.pc = "lost"] ELSE request[q]]
    /\ UNCHANGED <<cache, audit, counted>>

Registry ==
    /\ Publish \/ \E r \in Replicas : Startup(r) \/ \E v \in Versions : SetActive(r, v)
    /\ UNCHANGED <<cache, requestVars>>

RequestStep(q) ==
    \/ \E r \in Replicas, in \in Inputs : Receive(q, r, in)
    \/ UploadTooLarge(q) \/ Validate(q)
    \/ Hit(q) \/ Miss(q) \/ FindsUnparsable(q) \/ FindsMisshapen(q)
    \/ Drop(q)
    \/ Run(q) \/ RunFails(q) \/ DecodeFails(q)
    \/ Store(q)

Init ==
    /\ RegistryInit
    /\ cache = <<>>
    /\ request = [q \in Requests |-> NewRequest]
    /\ audit = [q \in Requests |-> None]
    /\ counted = [q \in Requests |-> None]

Next ==
    \/ \E q \in Requests : RequestStep(q)
    \/ \E k \in DOMAIN cache :
         Evict(k) \/ \E payload \in {Unparsable, Misshapen} : Damage(k, payload)
    \/ \E r \in Replicas : StopReplica(r)
    \/ Registry

Spec == Init /\ [][Next]_vars

-----------------------------------------------------------------------------
(* Properties                                                               *)

Answered == {q \in Requests : request[q].pc = "answered"}

TypeOK ==
    /\ RegistryTypeOK
    /\ \A k \in DOMAIN cache : cache[k].payload \in {"predictions", "unparsable", "misshapen"}
    /\ DOMAIN request = Requests
    /\ \A q \in Requests :
         /\ DOMAIN request[q] = DOMAIN NewRequest
         /\ request[q].pc \in {"new", "upload", "lookup", "drop", "run", "store",
                               "answered", "failed", "lost"}
         /\ request[q].pc # "new" =>
              request[q].input \in Inputs /\ request[q].replica \in Replicas
         /\ request[q].pc \in {"lookup", "drop", "run", "store", "answered"} =>
              request[q].model \in Models
    /\ DOMAIN audit = Requests
    /\ counted \in [Requests -> {None} \cup [version : Versions, backend : Backends, success : BOOLEAN]]

\* "The cache key is a hash of the image bytes combined with everything that
\* affects the result": the predictions of a response were computed from the
\* image and options of its request by the version and backend that its
\* provenance names, whichever replica put them in the cache.
ProvenanceTrue ==
    \A q \in Answered :
        LET p == request[q].predictions
            m == request[q].model
        IN /\ p.image = request[q].input.image /\ p.options = request[q].input.options
           /\ p.version = m.version /\ p.backend = m.backend

\* "every row carries the variant that served it": an answered request has a
\* row with the version, backend and variant that served it, cached or not; a
\* pinned one has its version and no variant.
AuditAgrees ==
    \A q \in Answered :
        /\ audit[q] = [status |-> "success", cached |-> request[q].cached,
                       version |-> request[q].model.version,
                       backend |-> request[q].model.backend,
                       variant |-> request[q].variant]
        /\ counted[q].success /\ counted[q].version = audit[q].version
        /\ request[q].input.version # None =>
              audit[q].variant = None /\ audit[q].version = request[q].input.version

\* "Assignment is validated against loaded models. A variant pointing at a
\* version that was never loaded would 404 for that share of traffic": only a
\* pin, of a version or of a backend, is ever not found.
OnlyPinsNotFound ==
    \A q \in Requests :
        request[q].error = "not_found" =>
            request[q].input.version # None \/ request[q].input.backend # None

\* "a user stays on their arm", "stable across restarts and replicas": two
\* requests of a user that an experiment served were served by the same arm,
\* although replicas may have loaded different versions.
UserStaysOnArm ==
    \A q1, q2 \in Requests :
        /\ request[q1].variant # None /\ request[q2].variant # None
        /\ request[q1].input.user = request[q2].input.user
        => request[q1].variant = request[q2].variant

=============================================================================
