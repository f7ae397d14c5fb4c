----------------------------- MODULE BatchJobs ------------------------------
(***************************************************************************)
(* Batch jobs: the endpoints that submit them and report on them            *)
(* (api/routers/batch.py), the Celery configuration they rely on           *)
(* (worker/celery_app.py) and the task that runs them (worker/tasks.py).   *)
(*                                                                         *)
(* What Celery and Redis do is external, modelled from that configuration: *)
(* late acknowledgement, rejection when a worker is lost, a soft and a hard *)
(* time limit, a result that expires.                                      *)
(*                                                                         *)
(* A definition named D_Something is a faulty version of D that no          *)
(* specification uses.                                                     *)
(***************************************************************************)
EXTENDS Integers, FiniteSets

CONSTANTS
    Jobs,      \* job ids; one not submitted is an id nobody was given
    Workers,   \* worker processes
    Items,     \* the items of a job
    MaxLosses, \* bound: workers and connections lost in a behaviour
    NoJob, NoQuery

ASSUME ConstantsAssumption ==
    /\ Items \in Nat \ {0}
    /\ MaxLosses \in Nat
    /\ NoJob \notin Jobs

VARIABLES
    submitted, \* jobs that submit_batch has published
    ready,     \* jobs whose message is in the queue
    job,       \* per worker: the job of its attempt, or NoJob
    stage,     \* per worker: "idle", "running", or "ended" with a result stored
    count,     \* per worker: completed and failed of process_batch
    soft,      \* per worker: the soft time limit has struck
    owns,      \* per worker: the message is still its to acknowledge
    update,    \* per worker: an update on its way to the backend, or Nothing
    meta,      \* per job: what the result backend holds; PENDING when nothing
    query,     \* per job: job_status of a status request, or NoQuery
    checked,   \* jobs whose status request has found that the info is a dict
    told,      \* per job: the latest response of get_batch_status
    losses,    \* counter for MaxLosses
    finished,  \* history: jobs with a result stored
    overtaken  \* history: jobs that succeeded with an update of another attempt
               \* on its way

attempt == <<job, stage, count, soft, owns, update>>

request == <<query, checked, told>>

history == <<finished, overtaken>>

vars == <<submitted, ready, attempt, meta, request, losses, history>>

Zero == [completed |-> 0, failed |-> 0]

Stored(state, c) == [state |-> state, completed |-> c.completed, failed |-> c.failed]

Nothing == Stored("PENDING", Zero)

Init ==
    /\ submitted = {} /\ ready = {}
    /\ job = [w \in Workers |-> NoJob]
    /\ stage = [w \in Workers |-> "idle"]
    /\ count = [w \in Workers |-> Zero]
    /\ soft = [w \in Workers |-> FALSE]
    /\ owns = [w \in Workers |-> FALSE]
    /\ update = [w \in Workers |-> Nothing]
    /\ meta = [j \in Jobs |-> Nothing]
    /\ query = [j \in Jobs |-> NoQuery] /\ checked = {}
    /\ told = [j \in Jobs |-> [status |-> "none", items |-> Zero]]
    /\ losses = 0 /\ finished = {} /\ overtaken = {}

-----------------------------------------------------------------------------
(* submit_batch: a request that is over quota, too large, or cannot reach the *)
(* broker changes nothing                                                   *)

Submit(j) ==
    /\ j \notin submitted
    /\ submitted' = submitted \cup {j}
    /\ ready' = ready \cup {j}
    /\ UNCHANGED <<attempt, meta, request, losses, history>>

-----------------------------------------------------------------------------
(* The result backend                                                       *)

\* Celery ignores an update of a task that has succeeded, and looks first:
\* reading what is stored and setting what replaces it are two calls to Redis.
Looks(w, j, m) ==
    update' = [update EXCEPT ![w] = IF meta[j].state = "SUCCESS" THEN Nothing ELSE m]

\* Attempts at the same job that have an update on its way.
OthersUpdate(w) == \E v \in Workers \ {w} : job[v] = job[w] /\ update[v] # Nothing

\* The second call.  The update of an attempt that ended is its result, and the
\* time limits are off.
Sets(w) ==
    /\ update[w] # Nothing
    /\ meta' = [meta EXCEPT ![job[w]] = update[w]]
    /\ update' = [update EXCEPT ![w] = Nothing]
    /\ IF stage[w] = "ended"
       THEN finished' = finished \cup {job[w]} /\ soft' = [soft EXCEPT ![w] = FALSE]
       ELSE UNCHANGED <<finished, soft>>
    /\ overtaken' = IF update[w].state = "SUCCESS" /\ OthersUpdate(w)
                    THEN overtaken \cup {job[w]} ELSE overtaken
    /\ UNCHANGED <<submitted, ready, job, stage, count, owns, request, losses>>

\* result_expires, counted from the latest update of a job nobody works on.
Expire(j) ==
    /\ meta[j].state # "PENDING"
    /\ j \notin ready /\ \A w \in Workers : job[w] # j
    /\ meta' = [meta EXCEPT ![j] = Nothing]
    /\ UNCHANGED <<submitted, ready, attempt, request, losses, history>>

-----------------------------------------------------------------------------
(* The worker                                                               *)

Start_AcknowledgesEarly(w, j) ==
    /\ stage[w] = "idle" /\ j \in ready
    /\ ready' = ready \ {j}
    /\ job' = [job EXCEPT ![w] = j]
    /\ stage' = [stage EXCEPT ![w] = "running"]
    /\ count' = [count EXCEPT ![w] = Zero]
    /\ soft' = [soft EXCEPT ![w] = FALSE]
    /\ Looks(w, j, Stored("STARTED", Zero))
    /\ UNCHANGED <<owns, submitted, meta, request, losses, history>>

\* A worker takes a message, which stays unacknowledged (task_acks_late), and
\* reports that it started (task_track_started).
Start(w, j) ==
    /\ stage[w] = "idle" /\ j \in ready
    /\ ready' = ready \ {j}
    /\ job' = [job EXCEPT ![w] = j]
    /\ stage' = [stage EXCEPT ![w] = "running"]
    /\ count' = [count EXCEPT ![w] = Zero]
    /\ soft' = [soft EXCEPT ![w] = FALSE]
    /\ owns' = [owns EXCEPT ![w] = TRUE]
    /\ Looks(w, j, Stored("STARTED", Zero))
    /\ UNCHANGED <<submitted, meta, request, losses, history>>

ItemsDone(w) == count[w].completed + count[w].failed

\* The task is at work, and its latest update is stored or ignored.
Works(w) == stage[w] = "running" /\ update[w] = Nothing

\* The loop of process_batch has an item left.
Processes(w) == Works(w) /\ ItemsDone(w) < Items

\* The counter is incremented, and progress published.
Counts(w, c) ==
    /\ count' = [count EXCEPT ![w] = c]
    /\ Looks(w, job[w], Stored("PROGRESS", c))
    /\ UNCHANGED <<submitted, ready, job, stage, owns, meta, request, losses, history>>

ItemSucceeds(w) ==
    /\ Processes(w)
    /\ Counts(w, [count[w] EXCEPT !.completed = @ + 1])
    /\ UNCHANGED soft

ItemFails(w) ==
    /\ Processes(w)
    /\ Counts(w, [count[w] EXCEPT !.failed = @ + 1])
    /\ UNCHANGED soft

\* SoftTimeLimitExceeded is an Exception: inside the try it is the error of the
\* item in hand, and the loop goes on.
SoftLimitSwallowed(w) ==
    /\ Processes(w) /\ ~soft[w]
    /\ soft' = [soft EXCEPT ![w] = TRUE]
    /\ Counts(w, [count[w] EXCEPT !.failed = @ + 1])

\* The attempt is over, and its result on its way to the backend.
Ends(w, state, c) ==
    /\ Looks(w, job[w], Stored(state, c))
    /\ stage' = [stage EXCEPT ![w] = "ended"]
    /\ count' = [count EXCEPT ![w] = Zero]
    /\ UNCHANGED <<submitted, ready, job, soft, owns, meta, request, losses, history>>

Returns(w) ==
    /\ Works(w) /\ ItemsDone(w) = Items
    /\ Ends(w, "SUCCESS", count[w])

\* Outside the try: the model does not load, update_state fails, or the soft
\* limit strikes there, which may be before the update is set.
TaskRaises(w) ==
    /\ stage[w] = "running"
    /\ Ends(w, "FAILURE", Zero)

\* The process is killed, and its results with it, an update on its way too.
HardLimit(w) ==
    /\ soft[w]
    /\ stage[w] = "running" \/ update[w] # Nothing
    /\ Ends(w, "FAILURE", Zero)

Leaves(w) ==
    /\ job' = [job EXCEPT ![w] = NoJob]
    /\ stage' = [stage EXCEPT ![w] = "idle"]
    /\ count' = [count EXCEPT ![w] = Zero]
    /\ soft' = [soft EXCEPT ![w] = FALSE]
    /\ owns' = [owns EXCEPT ![w] = FALSE]
    /\ update' = [update EXCEPT ![w] = Nothing]
    /\ UNCHANGED <<submitted, meta, request, history>>

\* The message is acknowledged after the result is stored, of a failure too.
Acknowledge(w) ==
    /\ stage[w] = "ended" /\ update[w] = Nothing
    /\ Leaves(w)
    /\ UNCHANGED <<ready, losses>>

Returned(w) == IF owns[w] THEN {job[w]} ELSE {}

WorkerLost_NotRejected(w) ==
    /\ losses < MaxLosses /\ stage[w] # "idle"
    /\ losses' = losses + 1
    /\ Leaves(w)
    /\ UNCHANGED ready

\* task_reject_on_worker_lost: the message returns to the queue.
WorkerLost(w) ==
    /\ losses < MaxLosses /\ stage[w] # "idle"
    /\ losses' = losses + 1
    /\ ready' = ready \cup Returned(w)
    /\ Leaves(w)

\* The broker takes back what is unacknowledged, and the worker goes on.
ConnectionLost(w) ==
    /\ losses < MaxLosses /\ owns[w]
    /\ losses' = losses + 1
    /\ ready' = ready \cup {job[w]}
    /\ owns' = [owns EXCEPT ![w] = FALSE]
    /\ UNCHANGED <<submitted, job, stage, count, soft, update, meta, request, history>>

-----------------------------------------------------------------------------
(* get_batch_status                                                         *)

JobStatus_FailedIsDone(state) ==
    CASE state = "PENDING"                  -> "pending"
      [] state \in {"STARTED", "PROGRESS"}  -> "running"
      [] state \in {"SUCCESS", "FAILURE"}   -> "completed"

JobStatus(state) ==
    CASE state = "PENDING"                  -> "pending"
      [] state \in {"STARTED", "PROGRESS"}  -> "running"
      [] state = "SUCCESS"                  -> "completed"
      [] state = "FAILURE"                  -> "failed"

\* The counts of result.info, 0 where it has none: only a progress update and
\* the summary of a finished job do.
InfoOf(m) ==
    IF m.state \in {"PROGRESS", "SUCCESS"}
    THEN [completed |-> m.completed, failed |-> m.failed] ELSE Zero

Respond(j, status, items) ==
    told' = [told EXCEPT ![j] = [status |-> status, items |-> items]]

\* The "status" of get_task_meta: Celery says PENDING of an id it has no record
\* of, so it is never empty.
StatusOf(j) == meta[j].state

\* So this never holds.
NotFound(j) == meta[j].state = "PENDING" /\ StatusOf(j) = ""

AskState_NothingCached(j) ==
    /\ query[j] = NoQuery
    /\ query' = [query EXCEPT ![j] = JobStatus(meta[j].state)]
    /\ UNCHANGED <<told, checked, submitted, ready, attempt, meta, losses, history>>

\* result.state is read.  A result that is ready is cached with it, so it is
\* what the rest of the response is made of.
AskState(j) ==
    /\ query[j] = NoQuery
    /\ \/ /\ meta[j].state \in {"SUCCESS", "FAILURE"} \/ NotFound(j)
          /\ Respond(j, IF NotFound(j) THEN "not_found" ELSE JobStatus(meta[j].state),
                     InfoOf(meta[j]))
          /\ UNCHANGED query
       \/ /\ meta[j].state \notin {"SUCCESS", "FAILURE"} /\ ~NotFound(j)
          /\ query' = [query EXCEPT ![j] = JobStatus(meta[j].state)]
          /\ UNCHANGED told
    /\ UNCHANGED <<checked, submitted, ready, attempt, meta, losses, history>>

\* The info of an update is a dict; of a failure an exception, of nothing None.
InfoIsDict(j) == meta[j].state \in {"STARTED", "PROGRESS", "SUCCESS"}

\* result.info asks the backend again, and may find a later state.  It is read
\* twice: here for its type, cached if it is ready, ...
AskInfoType(j) ==
    /\ query[j] # NoQuery /\ j \notin checked
    /\ \/ /\ InfoIsDict(j) /\ meta[j].state # "SUCCESS"
          /\ checked' = checked \cup {j}
          /\ UNCHANGED <<query, told>>
       \/ /\ meta[j].state = "SUCCESS" \/ ~InfoIsDict(j)
          /\ Respond(j, query[j], InfoOf(meta[j]))
          /\ query' = [query EXCEPT ![j] = NoQuery]
          /\ UNCHANGED checked
    /\ UNCHANGED <<submitted, ready, attempt, meta, losses, history>>

\* ... and here for its counts.  What was a dict may have become an exception,
\* which has no get: the request fails with a 500.
AskInfo(j) ==
    /\ query[j] # NoQuery /\ j \in checked
    /\ Respond(j, IF InfoIsDict(j) THEN query[j] ELSE "error", InfoOf(meta[j]))
    /\ query' = [query EXCEPT ![j] = NoQuery]
    /\ checked' = checked \ {j}
    /\ UNCHANGED <<submitted, ready, attempt, meta, losses, history>>

-----------------------------------------------------------------------------

WorkerStep(w) ==
    \/ ItemSucceeds(w) \/ ItemFails(w) \/ SoftLimitSwallowed(w)
    \/ Returns(w) \/ TaskRaises(w) \/ HardLimit(w) \/ Acknowledge(w) \/ Sets(w)

Next ==
    \/ \E j \in Jobs :
         Submit(j) \/ Expire(j) \/ AskState(j) \/ AskInfoType(j) \/ AskInfo(j)
    \/ \E w \in Workers :
         \/ \E j \in Jobs : Start(w, j)
         \/ WorkerStep(w) \/ WorkerLost(w) \/ ConnectionLost(w)

Spec == Init /\ [][Next]_vars

\* Idle workers take messages, and the time limits see to it that an attempt
\* that is not lost goes on to its end.
FairSpec ==
    /\ Spec
    /\ \A j \in Jobs : WF_vars(\E w \in Workers : Start(w, j))
    /\ \A w \in Workers : WF_vars(WorkerStep(w))

-----------------------------------------------------------------------------
(* Properties                                                               *)

Counters == [completed : 0..Items, failed : 0..Items]
States   == {"PENDING", "STARTED", "PROGRESS", "SUCCESS", "FAILURE"}
Results  == [state : States, completed : 0..Items, failed : 0..Items]
Statuses == {"none", "not_found", "pending", "running", "completed", "failed", "error"}

\* Every variable has its type; only attempts have jobs and messages.
TypeOK ==
    /\ submitted \subseteq Jobs /\ ready \subseteq submitted
    /\ finished \subseteq submitted /\ overtaken \subseteq submitted
    /\ job \in [Workers -> submitted \cup {NoJob}]
    /\ stage \in [Workers -> {"idle", "running", "ended"}]
    /\ \A w \in Workers : stage[w] = "idle" <=> job[w] = NoJob
    /\ count \in [Workers -> Counters]
    /\ soft \in [Workers -> BOOLEAN] /\ owns \in [Workers -> BOOLEAN]
    /\ \A w \in Workers : owns[w] => job[w] # NoJob
    /\ update \in [Workers -> Results]
    /\ \A w \in Workers : update[w] # Nothing => job[w] # NoJob
    /\ meta \in [Jobs -> Results]
    /\ query \in [Jobs -> Statuses \cup {NoQuery}]
    /\ checked \subseteq {j \in Jobs : query[j] # NoQuery}
    /\ told \in [Jobs -> [status : Statuses, items : Counters]]
    /\ losses \in 0..MaxLosses

\* "a worker killed mid-job returns the task to the queue instead of losing it
\* silently": a submitted job is queued, or held by a worker that owes an
\* acknowledgement, or has a result, whatever is lost and when.
NoJobLost ==
    \A j \in submitted :
        j \in ready \/ j \in finished \/ \E w \in Workers : job[w] = j /\ owns[w]

\* A job reported completed comes with the counts of a whole attempt, although
\* the backend is asked more than once for a response and forgets results.
CompletedIsWhole ==
    \A j \in Jobs :
        told[j].status = "completed" =>
            told[j].items.completed + told[j].items.failed = Items

\* Once a client was told that its job is completed it is not told otherwise
\* until the result expires, although the message may be delivered again and run
\* on two workers at once.  The exception is a job whose success was set while
\* another attempt had looked and not yet set: that update overwrites it.
CompletedStays ==
    [][\A j \in Jobs \ overtaken :
         told[j].status = "completed" /\ told'[j].status # "completed" =>
             /\ told'[j].status = "pending"
             /\ meta[j].state = "PENDING"]_vars

\* Every submitted job gets a result, after any finite number of losses.
JobFinishes == \A j \in Jobs : j \in submitted ~> j \in finished

=============================================================================
