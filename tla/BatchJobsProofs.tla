-------------------------- MODULE BatchJobsProofs ---------------------------
(***************************************************************************)
(* Proofs about BatchJobs, for every set of jobs and workers, every number *)
(* of items and of losses.                                                 *)
(***************************************************************************)
EXTENDS BatchJobs, TLAPS

\* An attempt that ended has stored a result for its job, or is about to.
EndedHasResult ==
    \A w \in Workers : stage[w] = "ended" /\ update[w] = Nothing => job[w] \in finished

\* A success is the update of an attempt that ended, and a success that is stored
\* is a result, which is why an update may be ignored for it.
SuccessIsResult ==
    /\ \A j \in Jobs : meta[j].state = "SUCCESS" => j \in finished
    /\ \A w \in Workers : update[w].state = "SUCCESS" => stage[w] = "ended"

IInv == TypeOK /\ EndedHasResult /\ SuccessIsResult /\ NoJobLost

-----------------------------------------------------------------------------
(* The operators                                                            *)

LEMMA ZeroType == Zero \in Counters /\ Nothing \in Results /\ Nothing.state = "PENDING"
  BY ConstantsAssumption DEF Zero, Counters, Nothing, Stored, Results, States

LEMMA StoredType ==
    ASSUME NEW s \in States, NEW c \in Counters
    PROVE  /\ Stored(s, c) \in Results /\ Stored(s, c).state = s
           /\ s # "PENDING" => Stored(s, c) # Nothing
<1>1. Stored(s, c) \in Results /\ Stored(s, c).state = s
  BY DEF Stored, Counters, Results, States
<1> QED
  BY <1>1, ZeroType

\* An update is on its way unless the job has succeeded.
LEMMA LooksType ==
    ASSUME update \in [Workers -> Results], NEW w \in Workers, NEW j, NEW m \in Results,
           Looks(w, j, m)
    PROVE  /\ update' \in [Workers -> Results]
           /\ update'[w] = IF meta[j].state = "SUCCESS" THEN Nothing ELSE m
           /\ \A v \in Workers : v # w => update'[v] = update[v]
<1>1. (IF meta[j].state = "SUCCESS" THEN Nothing ELSE m) \in Results
  BY ZeroType
<1> QED
  BY <1>1 DEF Looks

LEMMA InfoType == ASSUME NEW m \in Results PROVE InfoOf(m) \in Counters
  BY ZeroType DEF InfoOf, Results, Counters

LEMMA StatusType ==
    ASSUME NEW s \in States
    PROVE  /\ JobStatus(s) \in Statuses
           /\ s \notin {"SUCCESS", "FAILURE"} => JobStatus(s) \in {"pending", "running"}
           /\ s = "PENDING" <=> JobStatus(s) = "pending"
           /\ s = "SUCCESS" <=> JobStatus(s) = "completed"
  BY DEF JobStatus, States, Statuses

LEMMA RespondType ==
    ASSUME told \in [Jobs -> [status : Statuses, items : Counters]],
           NEW j \in Jobs, NEW s \in Statuses, NEW c \in Counters, Respond(j, s, c)
    PROVE  told' \in [Jobs -> [status : Statuses, items : Counters]]
<1>1. [status |-> s, items |-> c] \in [status : Statuses, items : Counters]
  OBVIOUS
<1> QED
  BY <1>1 DEF Respond

-----------------------------------------------------------------------------
(* The initial state                                                        *)

LEMMA InvInit == Init => IInv
<1> SUFFICES ASSUME Init PROVE IInv
  OBVIOUS
<1>1. meta \in [Jobs -> Results] /\ update \in [Workers -> Results]
  BY ZeroType DEF Init
<1>2. told \in [Jobs -> [status : Statuses, items : Counters]]
  BY ZeroType DEF Init, Statuses
<1>3. count \in [Workers -> Counters]
  BY ZeroType DEF Init
<1>4. losses \in 0..MaxLosses
  BY ConstantsAssumption DEF Init
<1>5. TypeOK
  BY <1>1, <1>2, <1>3, <1>4 DEF Init, TypeOK
<1>6. SuccessIsResult
  BY ZeroType DEF Init, SuccessIsResult
<1> QED
  BY <1>5, <1>6 DEF Init, IInv, EndedHasResult, NoJobLost

-----------------------------------------------------------------------------
(* What the worker's steps have in common                                   *)

\* Counting an item keeps the types, and moves no message and no result.
LEMMA CountsKeeps ==
    ASSUME IInv, NEW w \in Workers, NEW c \in Counters, stage[w] = "running",
           Counts(w, c), soft' \in [Workers -> BOOLEAN]
    PROVE  IInv'
<1> USE DEF IInv
<1>1. job[w] \in Jobs /\ job[w] # NoJob
  BY DEF TypeOK
<1>2. Stored("PROGRESS", c) \in Results /\ Stored("PROGRESS", c).state = "PROGRESS"
  BY StoredType DEF States
<1>3. /\ update' \in [Workers -> Results] /\ update'[w].state # "SUCCESS"
      /\ \A v \in Workers : v # w => update'[v] = update[v]
  <2> DEFINE m == Stored("PROGRESS", c)
  <2>1. update \in [Workers -> Results] /\ Looks(w, job[w], m)
    BY DEF Counts, TypeOK
  <2>2. m \in Results /\ m.state = "PROGRESS" /\ Nothing.state # "SUCCESS"
    BY <1>2, ZeroType
  <2> HIDE DEF m
  <2>3. /\ update' \in [Workers -> Results]
        /\ update'[w] = IF meta[job[w]].state = "SUCCESS" THEN Nothing ELSE m
        /\ \A v \in Workers : v # w => update'[v] = update[v]
    BY <2>1, <2>2, LooksType
  <2> QED
    BY <2>2, <2>3
<1>4. count' \in [Workers -> Counters]
  BY DEF Counts, TypeOK
<1>5. TypeOK'
  BY <1>1, <1>3, <1>4 DEF Counts, TypeOK, request, history
<1>6. EndedHasResult' /\ SuccessIsResult' /\ NoJobLost'
  BY <1>3 DEF Counts, EndedHasResult, SuccessIsResult, NoJobLost, history
<1> QED
  BY <1>5, <1>6

\* The end of an attempt is an update, before anything else happens to its
\* message; ignored only when the job has a result.
LEMMA EndsKeeps ==
    ASSUME IInv, NEW w \in Workers, NEW s \in States, s # "PENDING", NEW c \in Counters,
           stage[w] # "idle", Ends(w, s, c)
    PROVE  IInv'
<1> USE DEF IInv
<1>1. job[w] \in Jobs /\ job[w] \in submitted /\ job[w] # NoJob
  BY ConstantsAssumption DEF TypeOK
<1>2. Stored(s, c) \in Results /\ Stored(s, c) # Nothing
  BY StoredType
<1>3. /\ update' \in [Workers -> Results]
      /\ update'[w] = Nothing => meta[job[w]].state = "SUCCESS"
      /\ \A v \in Workers : v # w => update'[v] = update[v]
  <2> DEFINE m == Stored(s, c)
  <2>1. update \in [Workers -> Results] /\ Looks(w, job[w], m)
    BY DEF Ends, TypeOK
  <2>2. m \in Results /\ m # Nothing
    BY <1>2
  <2> HIDE DEF m
  <2>3. /\ update' \in [Workers -> Results]
        /\ update'[w] = IF meta[job[w]].state = "SUCCESS" THEN Nothing ELSE m
        /\ \A v \in Workers : v # w => update'[v] = update[v]
    BY <2>1, <2>2, LooksType
  <2> QED
    BY <2>2, <2>3
<1>4. /\ stage' = [stage EXCEPT ![w] = "ended"]
      /\ count' = [count EXCEPT ![w] = Zero]
      /\ UNCHANGED <<submitted, ready, job, soft, owns, meta, query, checked, told, losses,
                     finished, overtaken>>
  BY DEF Ends, request, history
<1>5. count' \in [Workers -> Counters]
  BY <1>4, ZeroType DEF TypeOK
<1>6. TypeOK'
  BY <1>1, <1>3, <1>4, <1>5 DEF TypeOK
<1>7. stage'[w] = "ended" /\ \A v \in Workers : v # w => stage'[v] = stage[v]
  BY <1>4 DEF TypeOK
<1>8. EndedHasResult'
  BY <1>1, <1>3, <1>4, <1>7 DEF EndedHasResult, SuccessIsResult
<1>9. SuccessIsResult' /\ NoJobLost'
  BY <1>3, <1>4, <1>7 DEF SuccessIsResult, NoJobLost
<1> QED
  BY <1>6, <1>8, <1>9

\* Setting an update stores a result if the attempt has ended.
LEMMA SetsKeeps == ASSUME IInv, NEW w \in Workers, Sets(w) PROVE IInv'
<1> USE DEF IInv
<1>1. job[w] \in Jobs /\ job[w] \in submitted /\ update[w] \in Results
  BY ConstantsAssumption DEF Sets, TypeOK
<1>2. /\ meta' = [meta EXCEPT ![job[w]] = update[w]]
      /\ update' = [update EXCEPT ![w] = Nothing]
      /\ finished' = IF stage[w] = "ended" THEN finished \cup {job[w]} ELSE finished
      /\ soft' \in {soft, [soft EXCEPT ![w] = FALSE]}
      /\ overtaken' \in {overtaken, overtaken \cup {job[w]}}
      /\ UNCHANGED <<submitted, ready, job, stage, count, owns, query, checked, told, losses>>
  BY DEF Sets, request
<1>3. meta' \in [Jobs -> Results] /\ update' \in [Workers -> Results]
  BY <1>1, <1>2, ZeroType DEF TypeOK
<1>4. soft' \in [Workers -> BOOLEAN]
  BY <1>2 DEF TypeOK
<1>5. update'[w] = Nothing /\ \A v \in Workers : v # w => update'[v] = update[v]
  BY <1>2 DEF TypeOK
<1>6. TypeOK'
  BY <1>1, <1>2, <1>3, <1>4, <1>5 DEF TypeOK
<1>7. EndedHasResult'
  BY <1>2, <1>5 DEF EndedHasResult
<1>8. SuccessIsResult'
  <2>1. \A j \in Jobs : meta'[j] = IF j = job[w] THEN update[w] ELSE meta[j]
    BY <1>1, <1>2 DEF TypeOK
  <2> QED
    BY <2>1, <1>2, <1>5, ZeroType DEF SuccessIsResult
<1>9. NoJobLost'
  BY <1>2 DEF NoJobLost
<1> QED
  BY <1>6, <1>7, <1>8, <1>9

\* A worker that leaves its attempt forgets no job, if the message went back
\* to the queue or the job has a result.
LEMMA LeavesKeeps ==
    ASSUME IInv, NEW w \in Workers, stage[w] # "idle", Leaves(w),
           losses' \in 0..MaxLosses,
           \/ ready' = ready \cup Returned(w)
           \/ ready' = ready /\ job[w] \in finished
    PROVE  IInv'
<1> USE DEF IInv
<1>1. job[w] \in submitted
  BY DEF TypeOK
<1>2. Returned(w) \subseteq submitted
  BY <1>1 DEF Returned
<1>3. /\ job' = [job EXCEPT ![w] = NoJob] /\ stage' = [stage EXCEPT ![w] = "idle"]
      /\ count' = [count EXCEPT ![w] = Zero] /\ soft' = [soft EXCEPT ![w] = FALSE]
      /\ owns' = [owns EXCEPT ![w] = FALSE] /\ update' = [update EXCEPT ![w] = Nothing]
      /\ UNCHANGED <<submitted, meta, query, checked, told, finished, overtaken>>
  BY DEF Leaves, request, history
<1>4. TypeOK'
  <2>1. ready' \subseteq submitted
    BY <1>2 DEF TypeOK
  <2>2. count' \in [Workers -> Counters] /\ update' \in [Workers -> Results]
    BY <1>3, ZeroType DEF TypeOK
  <2>3. \A v \in Workers : update'[v] # Nothing => job'[v] # NoJob
    BY <1>3 DEF TypeOK
  <2> QED
    BY <1>3, <2>1, <2>2, <2>3 DEF TypeOK
<1>5. EndedHasResult' /\ SuccessIsResult'
  <2>1. \A v \in Workers : stage'[v] = "ended" => stage[v] = "ended" /\ v # w
    BY <1>3 DEF TypeOK
  <2>2. \A v \in Workers : update'[v] = IF v = w THEN Nothing ELSE update[v]
    BY <1>3 DEF TypeOK
  <2>3. \A v \in Workers : v # w => job'[v] = job[v] /\ stage'[v] = stage[v]
    BY <1>3 DEF TypeOK
  <2> QED
    BY <1>3, <2>1, <2>2, <2>3, ZeroType DEF EndedHasResult, SuccessIsResult
<1>6. ASSUME NEW j \in submitted
      PROVE  j \in ready' \/ j \in finished \/ \E v \in Workers : job'[v] = j /\ owns'[v]
  <2>1. CASE j \in ready \/ j \in finished
    BY <2>1
  <2>2. ASSUME NEW v \in Workers, job[v] = j, owns[v]
        PROVE  j \in ready' \/ j \in finished \/ (job'[v] = j /\ owns'[v])
    <3>1. CASE v = w
      BY <2>2, <3>1 DEF Returned
    <3>2. CASE v # w
      BY <2>2, <3>2, <1>3 DEF TypeOK
    <3> QED
      BY <3>1, <3>2
  <2> QED
    BY <2>1, <2>2 DEF NoJobLost
<1> QED
  BY <1>3, <1>4, <1>5, <1>6 DEF NoJobLost

-----------------------------------------------------------------------------
(* The step                                                                 *)

LEMMA WorkerStepKeeps ==
    ASSUME IInv, NEW w \in Workers, WorkerStep(w) PROVE IInv'
<1>0. count[w] \in Counters /\ soft \in [Workers -> BOOLEAN]
  BY DEF IInv, TypeOK
<1>1. ASSUME Processes(w)
      PROVE  /\ stage[w] = "running"
             /\ [count[w] EXCEPT !.completed = @ + 1] \in Counters
             /\ [count[w] EXCEPT !.failed = @ + 1] \in Counters
  BY <1>0, <1>1, ConstantsAssumption DEF Processes, Works, ItemsDone, Counters
<1>2. CASE ItemSucceeds(w)
  BY <1>0, <1>1, <1>2, CountsKeeps DEF ItemSucceeds
<1>3. CASE ItemFails(w)
  BY <1>0, <1>1, <1>3, CountsKeeps DEF ItemFails
<1>4. CASE SoftLimitSwallowed(w)
  <2>1. soft' \in [Workers -> BOOLEAN]
    BY <1>0, <1>4 DEF SoftLimitSwallowed
  <2> QED
    BY <2>1, <1>1, <1>4, CountsKeeps DEF SoftLimitSwallowed
<1>5. CASE Returns(w)
  BY <1>0, <1>5, EndsKeeps DEF Returns, Works, States
<1>6. CASE TaskRaises(w)
  BY <1>0, <1>6, EndsKeeps, ZeroType DEF TaskRaises, States
<1>7. CASE HardLimit(w)
  <2>1. stage[w] # "idle"
    BY <1>7 DEF HardLimit, IInv, TypeOK
  <2> QED
    BY <1>7, <2>1, EndsKeeps, ZeroType DEF HardLimit, States
<1>8. CASE Acknowledge(w)
  BY <1>8, LeavesKeeps DEF Acknowledge, IInv, EndedHasResult, TypeOK
<1> QED
  BY <1>2, <1>3, <1>4, <1>5, <1>6, <1>7, <1>8, SetsKeeps DEF WorkerStep

LEMMA StartKeeps ==
    ASSUME IInv, NEW w \in Workers, NEW j \in Jobs, Start(w, j) PROVE IInv'
<1> USE DEF IInv
<1>1. /\ stage[w] = "idle" /\ j \in ready /\ j \in submitted /\ ~owns[w]
      /\ ready' = ready \ {j} /\ job' = [job EXCEPT ![w] = j]
      /\ stage' = [stage EXCEPT ![w] = "running"] /\ count' = [count EXCEPT ![w] = Zero]
      /\ soft' = [soft EXCEPT ![w] = FALSE] /\ owns' = [owns EXCEPT ![w] = TRUE]
      /\ UNCHANGED <<submitted, meta, query, checked, told, losses, finished, overtaken>>
  BY DEF Start, TypeOK, request, history
<1>2. /\ update' \in [Workers -> Results] /\ update'[w].state # "SUCCESS"
      /\ \A v \in Workers : v # w => update'[v] = update[v]
  BY ZeroType, StoredType, LooksType DEF Start, TypeOK, States
<1>3. count' \in [Workers -> Counters]
  BY <1>1, ZeroType DEF TypeOK
<1>4. j # NoJob
  BY ConstantsAssumption
<1>5. TypeOK'
  BY <1>1, <1>2, <1>3, <1>4 DEF TypeOK
<1>6. EndedHasResult' /\ SuccessIsResult'
  <2>1. stage'[w] = "running" /\ \A v \in Workers : v # w => stage'[v] = stage[v] /\ job'[v] = job[v]
    BY <1>1 DEF TypeOK
  <2> QED
    BY <1>1, <1>2, <2>1 DEF EndedHasResult, SuccessIsResult
<1>7. NoJobLost'
  <2> SUFFICES ASSUME NEW k \in submitted
               PROVE  k \in ready' \/ k \in finished \/ \E v \in Workers : job'[v] = k /\ owns'[v]
    BY <1>1 DEF NoJobLost
  <2>1. CASE k = j
    BY <2>1, <1>1 DEF TypeOK
  <2>2. CASE k # j
    <3>1. CASE k \in ready \/ k \in finished
      BY <3>1, <2>2, <1>1
    <3>2. ASSUME NEW v \in Workers, job[v] = k, owns[v] PROVE job'[v] = k /\ owns'[v]
      BY <3>2, <1>1 DEF TypeOK
    <3> QED
      BY <3>1, <3>2 DEF NoJobLost
  <2> QED
    BY <2>1, <2>2
<1> QED
  BY <1>5, <1>6, <1>7

\* A status request changes nothing but itself.
Asks(j) == AskState(j) \/ AskInfoType(j) \/ AskInfo(j)

LEMMA AsksKeeps == ASSUME IInv, NEW j \in Jobs, Asks(j) PROVE IInv'
<1>0. TypeOK /\ EndedHasResult /\ SuccessIsResult /\ NoJobLost
  BY DEF IInv
<1>1. UNCHANGED <<submitted, ready, attempt, meta, losses, history>>
  BY DEF Asks, AskState, AskInfoType, AskInfo
<1>2. meta[j] \in Results /\ meta[j].state \in States /\ InfoOf(meta[j]) \in Counters
  BY <1>0, InfoType DEF TypeOK, Results
<1>3. JobStatus(meta[j].state) \in Statuses
  BY <1>2, StatusType
<1>4. query' \in [Jobs -> Statuses \cup {NoQuery}] /\ checked' \subseteq {k \in Jobs : query'[k] # NoQuery}
  <2>1. /\ query \in [Jobs -> Statuses \cup {NoQuery}]
        /\ checked \subseteq {k \in Jobs : query[k] # NoQuery}
    BY <1>0 DEF TypeOK
  <2>2. CASE AskState(j)
    <3>1. /\ query' \in {query, [query EXCEPT ![j] = JobStatus(meta[j].state)]}
          /\ query[j] = NoQuery /\ checked' = checked
      BY <2>2 DEF AskState
    <3> QED
      BY <2>1, <3>1, <1>3
  <2>3. CASE AskInfoType(j)
    <3>1. \/ query' = query /\ checked' = checked \cup {j} /\ query[j] # NoQuery
          \/ query' = [query EXCEPT ![j] = NoQuery] /\ checked' = checked /\ j \notin checked
      BY <2>3 DEF AskInfoType
    <3> QED
      BY <2>1, <3>1
  <2>4. CASE AskInfo(j)
    <3>1. query' = [query EXCEPT ![j] = NoQuery] /\ checked' = checked \ {j}
      BY <2>4 DEF AskInfo
    <3> QED
      BY <2>1, <3>1
  <2> QED
    BY <2>2, <2>3, <2>4 DEF Asks
<1>5. told' \in [Jobs -> [status : Statuses, items : Counters]]
  <2>1. told \in [Jobs -> [status : Statuses, items : Counters]] /\ "error" \in Statuses
        /\ "not_found" \in Statuses
    BY <1>0 DEF TypeOK, Statuses
  <2>2. CASE AskInfoType(j) \/ AskInfo(j)
    <3>1. query[j] \in Statuses
      BY <1>0, <2>2 DEF AskInfoType, AskInfo, TypeOK
    <3> QED
      BY <2>1, <2>2, <3>1, <1>2, RespondType DEF AskInfoType, AskInfo
  <2>3. CASE AskState(j)
    <3>1. (IF NotFound(j) THEN "not_found" ELSE JobStatus(meta[j].state)) \in Statuses
      BY <2>1, <1>3
    <3> QED
      BY <2>1, <2>3, <3>1, <1>2, RespondType DEF AskState
  <2> QED
    BY <2>2, <2>3 DEF Asks
<1>6. TypeOK'
  BY <1>0, <1>1, <1>4, <1>5 DEF attempt, history, TypeOK
<1> QED
  BY <1>0, <1>1, <1>6
     DEF attempt, history, IInv, EndedHasResult, SuccessIsResult, NoJobLost

LEMMA InvStep == IInv /\ [Next]_vars => IInv'
<1> SUFFICES ASSUME IInv, [Next]_vars PROVE IInv'
  OBVIOUS
<1>0. TypeOK /\ EndedHasResult /\ SuccessIsResult /\ NoJobLost
  BY DEF IInv
<1>1. ASSUME NEW j \in Jobs, Submit(j) PROVE IInv'
  <2>1. TypeOK'
    BY <1>0, <1>1 DEF Submit, attempt, request, history, TypeOK
  <2> QED
    BY <1>0, <1>1, <2>1
       DEF Submit, attempt, history, IInv, EndedHasResult, SuccessIsResult, NoJobLost
<1>2. ASSUME NEW j \in Jobs, Expire(j) PROVE IInv'
  <2>1. /\ meta' \in [Jobs -> Results] /\ meta'[j].state # "SUCCESS"
        /\ \A k \in Jobs : k # j => meta'[k] = meta[k]
    BY <1>0, <1>2, ZeroType DEF Expire, TypeOK
  <2>2. TypeOK'
    BY <1>0, <1>2, <2>1 DEF Expire, attempt, request, history, TypeOK
  <2>3. SuccessIsResult'
    BY <1>0, <1>2, <2>1 DEF Expire, attempt, history, SuccessIsResult
  <2> QED
    BY <1>0, <1>2, <2>2, <2>3 DEF Expire, attempt, history, IInv, EndedHasResult, NoJobLost
<1>4. ASSUME NEW w \in Workers, WorkerLost(w) PROVE IInv'
  <2>1. losses' \in 0..MaxLosses
    BY <1>0, <1>4, ConstantsAssumption DEF WorkerLost, TypeOK
  <2> QED
    BY <1>4, <2>1, LeavesKeeps DEF WorkerLost
<1>5. ASSUME NEW w \in Workers, ConnectionLost(w) PROVE IInv'
  <2>1. job[w] \in submitted /\ losses' \in 0..MaxLosses
    BY <1>0, <1>5, ConstantsAssumption DEF ConnectionLost, TypeOK
  <2>2. TypeOK'
    BY <1>0, <1>5, <2>1 DEF ConnectionLost, request, history, TypeOK
  <2>3. NoJobLost'
    BY <1>0, <1>5 DEF ConnectionLost, history, TypeOK, NoJobLost
  <2> QED
    BY <1>0, <1>5, <2>2, <2>3
       DEF ConnectionLost, history, IInv, EndedHasResult, SuccessIsResult
<1>6. CASE UNCHANGED vars
  <2>1. TypeOK'
    BY <1>0, <1>6 DEF vars, attempt, request, history, TypeOK
  <2> QED
    BY <1>0, <1>6, <2>1
       DEF vars, attempt, history, IInv, EndedHasResult, SuccessIsResult, NoJobLost
<1> QED
  BY <1>1, <1>2, <1>4, <1>5, <1>6, AsksKeeps, StartKeeps, WorkerStepKeeps DEF Next, Asks

-----------------------------------------------------------------------------
(* What clients are told                                                    *)

\* A success has whole counts, stored or on its way, and only submitted jobs have
\* results.
MetaWhole ==
    /\ \A j \in Jobs :
        /\ meta[j].state = "SUCCESS" => meta[j].completed + meta[j].failed = Items
        /\ meta[j].state # "PENDING" => j \in submitted
    /\ \A w \in Workers :
        update[w].state = "SUCCESS" => update[w].completed + update[w].failed = Items

\* A request goes on to ask for the info of unfinished jobs only.
QueryUnfinished == \A j \in Jobs : query[j] # NoQuery => query[j] \in {"pending", "running"}

\* Nobody works on the job and nobody will; then its result can expire.
Idle(j) == j \in submitted /\ j \notin ready /\ \A w \in Workers : job[w] # j

\* What a client was told is completed is a success, or has expired for good.
Settled(j) ==
    told[j].status = "completed" =>
        \/ meta[j].state = "SUCCESS" /\ query[j] = NoQuery
        \/ /\ meta[j].state = "PENDING" /\ Idle(j)
           /\ query[j] \in {NoQuery, "pending"} /\ j \notin checked

\* No update is on its way to a stored success.
Safe(j) ==
    meta[j].state = "SUCCESS" => \A w \in Workers : job[w] = j => update[w] = Nothing

ToldSettled == \A j \in Jobs \ overtaken : Settled(j) /\ Safe(j)

ToldInv == MetaWhole /\ QueryUnfinished /\ ToldSettled /\ CompletedIsWhole

\* A job at rest stays at rest: it is submitted once only.
LEMMA IdleStays ==
    ASSUME TypeOK, [Next]_vars, NEW j \in Jobs, Idle(j) PROVE Idle(j)'
<1>0. j \in submitted /\ j \notin ready /\ (\A w \in Workers : job[w] # j)
  BY DEF Idle
<1>1. ASSUME NEW k \in Jobs, Submit(k) \/ Expire(k) \/ Asks(k)
      PROVE  Idle(j)'
  BY <1>0, <1>1 DEF Submit, Expire, Asks, AskState, AskInfoType, AskInfo, attempt, Idle
<1>2. ASSUME NEW w \in Workers, NEW k \in Jobs, Start(w, k) PROVE Idle(j)'
  BY <1>0, <1>2 DEF Start, Idle, TypeOK
<1>3. ASSUME NEW w \in Workers, ItemSucceeds(w) \/ ItemFails(w) \/ SoftLimitSwallowed(w)
      PROVE  Idle(j)'
  BY <1>0, <1>3 DEF ItemSucceeds, ItemFails, SoftLimitSwallowed, Counts, Idle
<1>4. ASSUME NEW w \in Workers, Returns(w) \/ TaskRaises(w) \/ HardLimit(w) \/ Sets(w)
      PROVE  Idle(j)'
  BY <1>0, <1>4 DEF Returns, TaskRaises, HardLimit, Ends, Sets, Idle
<1>5. ASSUME NEW w \in Workers, Acknowledge(w) \/ WorkerLost(w) \/ ConnectionLost(w)
      PROVE  Idle(j)'
  <2>1. j # NoJob
    BY ConstantsAssumption
  <2> QED
    BY <1>0, <1>5, <2>1
       DEF Acknowledge, WorkerLost, ConnectionLost, Leaves, Returned, Idle, TypeOK
<1>6. CASE UNCHANGED vars
  BY <1>0, <1>6 DEF vars, attempt, Idle
<1> QED
  BY <1>1, <1>2, <1>3, <1>4, <1>5, <1>6 DEF Next, WorkerStep, Asks

\* An attempt sends an update of its job on its way: a success only with whole
\* counts, and none to a success.
LEMMA LooksTold ==
    ASSUME TypeOK, ToldInv, \A k \in Jobs : Idle(k) => Idle(k)',
           NEW w \in Workers, NEW j \in Jobs, NEW m \in Results, Looks(w, j, m),
           m.state = "SUCCESS" => m.completed + m.failed = Items,
           job'[w] = j, \A v \in Workers : v # w => job'[v] = job[v],
           UNCHANGED <<submitted, meta, request, history>>
    PROVE  ToldInv'
<1>1. /\ update'[w] = IF meta[j].state = "SUCCESS" THEN Nothing ELSE m
      /\ \A v \in Workers : v # w => update'[v] = update[v]
  BY LooksType DEF TypeOK
<1>2. MetaWhole'
  BY <1>1, ZeroType DEF MetaWhole, ToldInv
<1>3. QueryUnfinished' /\ CompletedIsWhole'
  BY DEF QueryUnfinished, CompletedIsWhole, ToldInv, request
<1>4. ToldSettled'
  <2> SUFFICES ASSUME NEW k \in Jobs \ overtaken PROVE Settled(k)' /\ Safe(k)'
    BY DEF ToldSettled, history
  <2>1. Settled(k) /\ Safe(k)
    BY DEF ToldInv, ToldSettled
  <2>2. Settled(k)'
    BY <2>1 DEF Settled, request
  <2>3. Safe(k)'
    BY <1>1, <2>1 DEF Safe
  <2> QED
    BY <2>2, <2>3
<1> QED
  BY <1>2, <1>3, <1>4 DEF ToldInv

\* The update that is set replaces no success but of a job that was overtaken, and
\* leaves nothing on its way to a success.
LEMMA SetsTold ==
    ASSUME TypeOK, ToldInv, \A k \in Jobs : Idle(k) => Idle(k)', NEW w \in Workers, Sets(w)
    PROVE  ToldInv'
<1>1. /\ update[w] # Nothing /\ job[w] \in Jobs /\ job[w] \in submitted /\ update[w] \in Results
      /\ overtaken' = IF update[w].state = "SUCCESS" /\ OthersUpdate(w)
                      THEN overtaken \cup {job[w]} ELSE overtaken
      /\ UNCHANGED <<submitted, ready, job, query, checked, told>>
  BY ConstantsAssumption DEF Sets, TypeOK, request
<1>2. \A k \in Jobs : meta'[k] = IF k = job[w] THEN update[w] ELSE meta[k]
  BY <1>1 DEF Sets, TypeOK
<1>3. \A v \in Workers : update'[v] = IF v = w THEN Nothing ELSE update[v]
  BY DEF Sets, TypeOK
<1>4. MetaWhole'
  BY <1>1, <1>2, <1>3, ZeroType DEF MetaWhole, ToldInv
<1>5. QueryUnfinished' /\ CompletedIsWhole'
  BY <1>1 DEF QueryUnfinished, CompletedIsWhole, ToldInv
<1>6. ToldSettled'
  <2> SUFFICES ASSUME NEW k \in Jobs \ overtaken' PROVE Settled(k)' /\ Safe(k)'
    BY DEF ToldSettled
  <2>1. k \notin overtaken /\ Settled(k) /\ Safe(k)
    BY <1>1 DEF ToldInv, ToldSettled
  <2>2. CASE k # job[w]
    <3>1. Settled(k)'
      BY <1>1, <1>2, <2>1, <2>2 DEF Settled
    <3>2. Safe(k)'
      BY <1>1, <1>2, <1>3, <2>1, <2>2 DEF Safe
    <3> QED
      BY <3>1, <3>2
  <2>3. CASE k = job[w]
    <3>1. meta[k].state # "SUCCESS" /\ ~Idle(k)
      BY <1>1, <2>1, <2>3 DEF Safe, Idle
    <3>2. Settled(k)'
      BY <1>1, <2>1, <3>1 DEF Settled
    <3>3. Safe(k)'
      BY <1>1, <1>2, <1>3, <2>3 DEF Safe, OthersUpdate
    <3> QED
      BY <3>2, <3>3
  <2> QED
    BY <2>2, <2>3
<1> QED
  BY <1>4, <1>5, <1>6 DEF ToldInv

\* Neither the backend nor a request is concerned, and at most an update is
\* forgotten.
LEMMA ElsewhereTold ==
    ASSUME ToldInv, \A k \in Jobs : Idle(k) => Idle(k)',
           \A v \in Workers : \/ update'[v] = update[v] /\ job'[v] = job[v]
                              \/ update'[v] = Nothing,
           UNCHANGED <<meta, request, history>>, submitted \subseteq submitted'
    PROVE  ToldInv'
<1>1. MetaWhole'
  BY ZeroType DEF MetaWhole, ToldInv
<1>2. QueryUnfinished' /\ CompletedIsWhole'
  BY DEF QueryUnfinished, CompletedIsWhole, ToldInv, request
<1>3. ToldSettled'
  <2> SUFFICES ASSUME NEW k \in Jobs \ overtaken PROVE Settled(k)' /\ Safe(k)'
    BY DEF ToldSettled, history
  <2>1. Settled(k) /\ Safe(k)
    BY DEF ToldInv, ToldSettled
  <2>2. Settled(k)'
    BY <2>1 DEF Settled, request
  <2>3. Safe(k)'
    BY <2>1 DEF Safe
  <2> QED
    BY <2>2, <2>3
<1> QED
  BY <1>1, <1>2, <1>3 DEF ToldInv

LEMMA ExpireTold ==
    ASSUME TypeOK, ToldInv, \A k \in Jobs : Idle(k) => Idle(k)', NEW j \in Jobs, Expire(j)
    PROVE  ToldInv'
<1>1. /\ meta[j].state # "PENDING" /\ j \notin ready /\ \A w \in Workers : job[w] # j
      /\ meta' = [meta EXCEPT ![j] = Nothing]
      /\ UNCHANGED <<submitted, query, checked, told, update, job, overtaken>>
  BY DEF Expire, attempt, request, history
<1>2. meta'[j].state = "PENDING" /\ \A k \in Jobs : k # j => meta'[k] = meta[k]
  BY <1>1, ZeroType DEF TypeOK
<1>3. Idle(j)
  BY <1>1 DEF Idle, ToldInv, MetaWhole
<1>4. MetaWhole'
  BY <1>1, <1>2 DEF MetaWhole, ToldInv
<1>5. QueryUnfinished' /\ CompletedIsWhole'
  BY <1>1 DEF QueryUnfinished, CompletedIsWhole, ToldInv
<1>6. ToldSettled'
  <2> SUFFICES ASSUME NEW k \in Jobs \ overtaken PROVE Settled(k)' /\ Safe(k)'
    BY <1>1 DEF ToldSettled
  <2>1. Settled(k) /\ Safe(k)
    BY DEF ToldInv, ToldSettled
  <2>2. checked \subseteq {i \in Jobs : query[i] # NoQuery}
    BY DEF TypeOK
  <2>3. Settled(k)'
    BY <1>1, <1>2, <1>3, <2>1, <2>2 DEF Settled
  <2>4. Safe(k)'
    BY <1>1, <1>2, <2>1 DEF Safe
  <2> QED
    BY <2>3, <2>4
<1> QED
  BY <1>4, <1>5, <1>6 DEF ToldInv

\* A response says completed only when it is made of one read of the backend.
LEMMA RespondTold ==
    ASSUME TypeOK, ToldInv, \A k \in Jobs : Idle(k) => Idle(k)', NEW j \in Jobs, Asks(j)
    PROVE  ToldInv'
<1>1. /\ UNCHANGED <<submitted, ready, job, update, meta, overtaken>>
      /\ meta[j] \in Results /\ ~NotFound(j)
  BY DEF Asks, AskState, AskInfoType, AskInfo, TypeOK, Results, NotFound, StatusOf,
         attempt, history
<1>2. /\ told \in [Jobs -> [status : Statuses, items : Counters]]
      /\ query \in [Jobs -> Statuses \cup {NoQuery}]
      /\ checked \subseteq {i \in Jobs : query[i] # NoQuery}
  BY DEF TypeOK
<1>3. MetaWhole' /\ (\A k \in Jobs : Safe(k)' <=> Safe(k))
  BY <1>1 DEF MetaWhole, ToldInv, Safe
<1>4. \A k \in Jobs : k # j =>
        told'[k] = told[k] /\ query'[k] = query[k] /\ (k \in checked' <=> k \in checked)
  <2>1. told' = told \/ \E s, c : Respond(j, s, c)
    BY DEF Asks, AskState, AskInfoType, AskInfo
  <2>2. query' = query \/ \E s : query' = [query EXCEPT ![j] = s]
    BY DEF Asks, AskState, AskInfoType, AskInfo
  <2>3. checked' = checked \/ checked' = checked \cup {j} \/ checked' = checked \ {j}
    BY DEF Asks, AskState, AskInfoType, AskInfo
  <2>4. \A k \in Jobs : k # j => told'[k] = told[k]
    BY <1>2, <2>1 DEF Respond
  <2> QED
    BY <1>2, <2>2, <2>3, <2>4
<1>5. ASSUME query'[j] # NoQuery => query'[j] \in {"pending", "running"},
             told'[j].status = "completed" =>
                 told'[j].items.completed + told'[j].items.failed = Items,
             j \notin overtaken => Settled(j)'
      PROVE  ToldInv'
  <2>1. QueryUnfinished' /\ CompletedIsWhole'
    BY <1>4, <1>5 DEF QueryUnfinished, CompletedIsWhole, ToldInv
  <2>2. \A k \in Jobs \ overtaken : k # j => Settled(k)'
    BY <1>1, <1>4 DEF ToldInv, ToldSettled, Settled
  <2>3. ToldSettled'
    BY <1>1, <1>3, <1>5, <2>2 DEF ToldInv, ToldSettled
  <2> QED
    BY <1>3, <2>1, <2>3 DEF ToldInv
<1>6. CASE AskState(j) /\ meta[j].state \in {"SUCCESS", "FAILURE"}
  <2>1. query[j] = NoQuery /\ query' = query /\ Respond(j, JobStatus(meta[j].state), InfoOf(meta[j]))
    BY <1>1, <1>6 DEF AskState
  <2>2. told'[j] = [status |-> JobStatus(meta[j].state), items |-> InfoOf(meta[j])]
    BY <1>2, <2>1 DEF Respond
  <2>3. told'[j].status = "completed" =>
            /\ meta[j].state = "SUCCESS"
            /\ told'[j].items = [completed |-> meta[j].completed, failed |-> meta[j].failed]
    BY <1>6, <2>2 DEF JobStatus, InfoOf
  <2>4. told'[j].status = "completed" =>
            told'[j].items.completed + told'[j].items.failed = Items
    BY <2>3 DEF ToldInv, MetaWhole
  <2>5. Settled(j)'
    BY <1>1, <2>1, <2>3 DEF Settled
  <2> QED
    BY <1>5, <2>1, <2>4, <2>5
<1>7. CASE AskState(j) /\ meta[j].state \notin {"SUCCESS", "FAILURE"}
  <2>1. /\ query[j] = NoQuery /\ told' = told /\ checked' = checked
        /\ query' = [query EXCEPT ![j] = JobStatus(meta[j].state)]
    BY <1>1, <1>7 DEF AskState
  <2>2. query'[j] \in {"pending", "running"} /\ (meta[j].state = "PENDING" <=> query'[j] = "pending")
    BY <1>1, <1>2, <1>7, <2>1, StatusType DEF Results
  <2>3. j \notin overtaken => Settled(j)'
    BY <1>1, <1>2, <1>7, <2>1, <2>2 DEF ToldInv, ToldSettled, Settled
  <2> QED
    BY <1>5, <2>1, <2>2, <2>3 DEF ToldInv, CompletedIsWhole
<1>8. CASE AskInfoType(j) \/ AskInfo(j)
  <2>1. query[j] # NoQuery /\ query[j] \in {"pending", "running"}
    BY <1>8 DEF AskInfoType, AskInfo, ToldInv, QueryUnfinished
  <2>2. CASE \E s \in {"pending", "running", "error"} :
                 Respond(j, s, InfoOf(meta[j])) /\ query' = [query EXCEPT ![j] = NoQuery]
    <3>1. told'[j].status # "completed" /\ query'[j] = NoQuery
      BY <1>2, <2>2 DEF Respond
    <3> QED
      BY <1>5, <3>1 DEF Settled
  <2>3. CASE AskInfoType(j) /\ UNCHANGED <<query, told>> /\ InfoIsDict(j)
    <3>1. j \notin overtaken => Settled(j)'
      BY <1>1, <2>1, <2>3 DEF ToldInv, ToldSettled, Settled, InfoIsDict
    <3> QED
      BY <1>5, <2>1, <2>3, <3>1 DEF ToldInv, CompletedIsWhole
  <2> QED
    BY <1>8, <2>1, <2>2, <2>3 DEF AskInfoType, AskInfo
<1> QED
  BY <1>6, <1>7, <1>8 DEF Asks

LEMMA WorkerTold ==
    ASSUME TypeOK, ToldInv, \A k \in Jobs : Idle(k) => Idle(k)', NEW w \in Workers,
           WorkerStep(w) \/ WorkerLost(w) \/ ConnectionLost(w)
    PROVE  ToldInv'
<1>1. ASSUME stage[w] # "idle" \/ update[w] # Nothing PROVE job[w] \in Jobs
  BY <1>1 DEF TypeOK
<1>2. count[w] \in Counters
  BY DEF TypeOK
<1>3. ASSUME NEW c \in Counters, Processes(w), Counts(w, c) PROVE ToldInv'
  <2>1. Stored("PROGRESS", c) \in Results /\ Stored("PROGRESS", c).state = "PROGRESS"
    BY <1>3, StoredType DEF States
  <2> QED
    BY <1>1, <1>3, <2>1, LooksTold DEF Processes, Works, Counts
<1>4. CASE ItemSucceeds(w) \/ ItemFails(w) \/ SoftLimitSwallowed(w)
  <2>1. Processes(w) /\ [count[w] EXCEPT !.completed = @ + 1] \in Counters
        /\ [count[w] EXCEPT !.failed = @ + 1] \in Counters
    BY <1>2, <1>4, ConstantsAssumption
       DEF ItemSucceeds, ItemFails, SoftLimitSwallowed, Processes, ItemsDone, Counters
  <2> QED
    BY <1>3, <1>4, <2>1 DEF ItemSucceeds, ItemFails, SoftLimitSwallowed
<1>5. CASE Returns(w)
  <2>1. /\ Stored("SUCCESS", count[w]) \in Results
        /\ Stored("SUCCESS", count[w]).completed + Stored("SUCCESS", count[w]).failed = Items
    BY <1>2, <1>5, StoredType DEF Returns, ItemsDone, Stored, States
  <2> QED
    BY <1>1, <1>5, <2>1, LooksTold DEF Returns, Works, Ends
<1>6. CASE TaskRaises(w) \/ HardLimit(w)
  <2>1. Stored("FAILURE", Zero) \in Results /\ Stored("FAILURE", Zero).state = "FAILURE"
    BY StoredType, ZeroType DEF States
  <2> QED
    BY <1>1, <1>6, <2>1, LooksTold DEF TaskRaises, HardLimit, Ends
<1>7. CASE Acknowledge(w) \/ WorkerLost(w)
  <2>1. /\ update' = [update EXCEPT ![w] = Nothing] /\ job' = [job EXCEPT ![w] = NoJob]
        /\ UNCHANGED <<submitted, meta, request, history>>
    BY <1>7 DEF Acknowledge, WorkerLost, Leaves
  <2>2. \A v \in Workers : \/ update'[v] = update[v] /\ job'[v] = job[v]
                           \/ update'[v] = Nothing
    BY <2>1 DEF TypeOK
  <2> QED
    BY <2>1, <2>2, ElsewhereTold
<1>8. CASE ConnectionLost(w)
  BY <1>8, ElsewhereTold DEF ConnectionLost
<1> QED
  BY <1>4, <1>5, <1>6, <1>7, <1>8, SetsTold DEF WorkerStep

LEMMA ToldStep == TypeOK /\ ToldInv /\ [Next]_vars => ToldInv'
<1> SUFFICES ASSUME TypeOK, ToldInv, [Next]_vars PROVE ToldInv'
  OBVIOUS
<1>0. \A k \in Jobs : Idle(k) => Idle(k)'
  BY IdleStays
<1>1. ASSUME NEW j \in Jobs, Submit(j) PROVE ToldInv'
  BY <1>0, <1>1, ElsewhereTold DEF Submit, attempt
<1>2. ASSUME NEW w \in Workers, NEW j \in Jobs, Start(w, j) PROVE ToldInv'
  <2>1. Stored("STARTED", Zero) \in Results /\ Stored("STARTED", Zero).state = "STARTED"
    BY StoredType, ZeroType DEF States
  <2>2. job'[w] = j /\ \A v \in Workers : v # w => job'[v] = job[v]
    BY <1>2 DEF Start, TypeOK
  <2> QED
    BY <1>0, <1>2, <2>1, <2>2, LooksTold DEF Start
<1>3. CASE UNCHANGED vars
  BY <1>0, <1>3, ElsewhereTold DEF vars, attempt
<1> QED
  BY <1>0, <1>1, <1>2, <1>3, ExpireTold, RespondTold, WorkerTold DEF Next, Asks

\* Only an expired result, and an update that was on its way, take "completed" back.
LEMMA StaysStep ==
    ASSUME TypeOK, ToldInv, [Next]_vars, NEW j \in Jobs \ overtaken,
           told[j].status = "completed", told'[j].status # "completed"
    PROVE  told'[j].status = "pending" /\ meta[j].state = "PENDING"
<1>1. told \in [Jobs -> [status : Statuses, items : Counters]] /\ Settled(j)
  BY DEF TypeOK, ToldInv, ToldSettled
<1>2. told' # told
  OBVIOUS
<1>3. PICK k \in Jobs : Asks(k)
  BY <1>2 DEF Next, vars, Submit, Expire, Start, WorkerStep, ItemSucceeds, ItemFails,
       SoftLimitSwallowed, Counts, Returns, TaskRaises, HardLimit, Ends, Acknowledge,
       WorkerLost, ConnectionLost, Leaves, Sets, Asks, request
<1>4. k = j
  BY <1>1, <1>3 DEF Asks, AskState, AskInfoType, AskInfo, Respond
<1>5. CASE meta[j].state = "SUCCESS" /\ query[j] = NoQuery
  <2>1. told'[j].status = "completed"
    BY <1>1, <1>3, <1>4, <1>5
       DEF Asks, AskState, AskInfoType, AskInfo, Respond, NotFound, JobStatus
  <2> QED
    BY <2>1
<1>6. CASE meta[j].state = "PENDING" /\ query[j] \in {NoQuery, "pending"} /\ j \notin checked
  <2>1. AskInfoType(j) /\ query[j] = "pending"
    BY <1>2, <1>3, <1>4, <1>6 DEF Asks, AskState, AskInfoType, AskInfo, NotFound, StatusOf
  <2> QED
    BY <1>1, <1>2, <1>6, <2>1 DEF AskInfoType, Respond
<1> QED
  BY <1>1, <1>5, <1>6 DEF Settled

-----------------------------------------------------------------------------
(* Theorems                                                                 *)

LEMMA Invariant == Spec => []IInv
  BY InvInit, InvStep, PTL DEF Spec

LEMMA ToldInit == Init => ToldInv
  BY ZeroType DEF Init, ToldInv, MetaWhole, QueryUnfinished, ToldSettled, Settled, Safe,
     CompletedIsWhole

LEMMA ToldInvariant == Spec => []ToldInv
<1>1. IInv /\ ToldInv /\ [Next]_vars => ToldInv'
  BY ToldStep DEF IInv
<1> QED
  BY <1>1, ToldInit, Invariant, PTL DEF Spec

\* Types, and that only attempts hold jobs and messages.
THEOREM TypeCorrect == Spec => []TypeOK
  BY Invariant, PTL DEF IInv

\* Late acknowledgement and rejection on loss, together, lose no job: for any
\* number of workers, losses and time limits, although a result is set in a step
\* of its own and may be ignored.
THEOREM JobsKept == Spec => []NoJobLost
  BY Invariant, PTL DEF IInv

\* What a client is told is completed has whole counts, although a response is
\* several reads of a backend that two attempts may be writing to.
THEOREM CompletedWhole == Spec => []CompletedIsWhole
  BY ToldInvariant, PTL DEF ToldInv

\* And it stays completed for as long as its result exists, whichever attempt
\* reports afterwards, unless that attempt had looked before the success was set.
THEOREM CompletedKept == Spec => CompletedStays
<1>1. IInv /\ ToldInv /\ [Next]_vars =>
        [\A j \in Jobs \ overtaken :
           told[j].status = "completed" /\ told'[j].status # "completed" =>
               /\ told'[j].status = "pending"
               /\ meta[j].state = "PENDING"]_vars
  BY StaysStep DEF IInv
<1> QED
  BY <1>1, ToldInvariant, Invariant, PTL DEF Spec, CompletedStays

=============================================================================
