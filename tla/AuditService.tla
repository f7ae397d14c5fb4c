---------------------------- MODULE AuditService ----------------------------
(***************************************************************************)
(* The inference audit log of the API (api/services/audit_service.py): a   *)
(* bounded in-memory queue, a background writer task that collects batches *)
(* and commits them, and the start, stop, record and flush operations.     *)
(*                                                                         *)
(* Everything runs on one asyncio event loop, so a step is the code from   *)
(* one suspension point to the next.  The suspension points are the wait   *)
(* inside _collect, the wait for _write_lock, the commit inside _write, and*)
(* the join of the writer inside stop.  The service is the enabled one:    *)
(* without a session factory every operation returns at once.              *)
(*                                                                         *)
(* A record is named by its rank in acceptance order: record i is the i-th *)
(* that record() accepted.                                                 *)
(*                                                                         *)
(* A definition named D_Something stands before D and is a faulty version  *)
(* of it, kept to show that a property fails when the code has that fault; *)
(* the specification uses none of them.                                    *)
(***************************************************************************)
EXTENDS Integers, Sequences, FiniteSets, Functions

CONSTANTS
    QueueSize,   \* maxsize of the queue (DEFAULT_QUEUE_SIZE)
    BatchSize,   \* rows per INSERT (DEFAULT_BATCH_SIZE)
    MaxRecords,  \* bound: records accepted in a behaviour
    Writer,      \* the background task running _run
    Stopper,     \* the lifespan coroutine, the one caller of start and stop
    Flushers     \* coroutines that call flush

ASSUME SizesAssumption ==
    /\ QueueSize \in Nat \ {0}    \* 0 would make an asyncio.Queue unbounded
    /\ BatchSize \in Nat \ {0}
    /\ MaxRecords \in Nat

ASSUME WorkersAssumption ==
    /\ Writer # Stopper
    /\ Writer \notin Flushers
    /\ Stopper \notin Flushers

Drainers == Flushers \cup {Stopper}   \* the coroutines that call _drain
Workers  == Drainers \cup {Writer}    \* the coroutines that call _write
Records  == 1..MaxRecords

VARIABLES
    queue,     \* the asyncio.Queue, oldest record first
    getter,    \* the result of the getter task of _collect, at most one record
    hand,      \* per worker: the local list `batch` being collected or written
    pc,        \* per worker: where it is suspended
    task,      \* _task is not None
    stopping,  \* the _stopping event
    locked,    \* _write_lock is held (only the writer keeps it over an await)
    waiters,   \* coroutines waiting for _write_lock, in order of arrival
    rows,      \* the inference_logs table, in insertion order
    stats,     \* the counters of AuditStats
    lost,      \* history: records of a batch abandoned by a cancelled writer
    before     \* history: per drainer, the records without an outcome when it
               \* was called, all of them and those in the writer's batch

vars == <<queue, getter, hand, pc, task, stopping, locked, waiters, rows,
          stats, lost, before>>

-----------------------------------------------------------------------------

Held(w) == Range(hand[w])

\* The accepted records that have no outcome yet, wherever they are kept.
InFlight == Range(queue) \cup Range(getter) \cup UNION {Held(w) : w \in Workers}

Snapshot == [all |-> InFlight, batch |-> Held(Writer)]

Smaller(m, n) == IF m < n THEN m ELSE n

Init ==
    /\ queue = <<>> /\ getter = <<>>
    /\ hand = [w \in Workers |-> <<>>]
    /\ pc = [w \in Workers |-> IF w = Writer THEN "done" ELSE "returned"]
    /\ task = FALSE /\ stopping = FALSE
    /\ locked = FALSE /\ waiters = <<>>
    /\ rows = <<>>
    /\ stats = [queued |-> 0, written |-> 0, dropped |-> 0, failed |-> 0]
    /\ lost = 0
    /\ before = [d \in Drainers |-> [all |-> {}, batch |-> {}]]

-----------------------------------------------------------------------------
(* record: called by request handlers, never suspends                       *)

RoomMade_DropsNewest == SubSeq(queue, 1, Len(queue) - 1)

\* A full queue makes room by discarding its oldest record.
RoomMade == Tail(queue)

Record ==
    /\ stats.queued < MaxRecords
    /\ LET r == stats.queued + 1 IN
       \/ /\ Len(queue) < QueueSize
          /\ queue' = Append(queue, r)
          /\ stats' = [stats EXCEPT !.queued = @ + 1]
       \/ /\ Len(queue) >= QueueSize
          /\ queue' = Append(RoomMade, r)
          /\ stats' = [stats EXCEPT !.queued = @ + 1, !.dropped = @ + 1]
    /\ UNCHANGED <<getter, hand, pc, task, stopping, locked, waiters, rows,
                   lost, before>>

-----------------------------------------------------------------------------
(* The writer task: _run and _collect                                       *)

\* The getter task of _collect runs before the coroutine that waits for it:
\* its record is then in neither the queue nor a batch.
GetterTakes ==
    /\ pc[Writer] = "collect"
    /\ getter = <<>> /\ queue # <<>>
    /\ getter' = <<Head(queue)>>
    /\ queue' = Tail(queue)
    /\ UNCHANGED <<hand, pc, task, stopping, locked, waiters, rows, stats,
                   lost, before>>

\* What _collect takes without waiting once its wait is over.
Rest == Smaller(BatchSize - Len(getter), Len(queue))

Collected_GetterLast == SubSeq(queue, 1, Rest) \o getter

Collected_GetterDiscarded == SubSeq(queue, 1, Rest)

Collected == getter \o SubSeq(queue, 1, Rest)

\* asyncio.wait in _collect is over: the getter is done, or stop was asked
\* for, or the flush interval elapsed, which may be at any time.  A getter
\* still pending is cancelled, which leaves the queue as it is.
CollectReturns ==
    /\ pc[Writer] = "collect"
    /\ Collected # <<>>
    /\ queue' = SubSeq(queue, Rest + 1, Len(queue))
    /\ getter' = <<>>
    /\ hand' = [hand EXCEPT ![Writer] = Collected]
    /\ \/ /\ ~locked /\ waiters = <<>>
          /\ locked' = TRUE
          /\ pc' = [pc EXCEPT ![Writer] = "write"]
          /\ UNCHANGED waiters
       \/ /\ locked \/ waiters # <<>>
          /\ waiters' = Append(waiters, Writer)
          /\ pc' = [pc EXCEPT ![Writer] = "lock"]
          /\ UNCHANGED locked
    /\ UNCHANGED <<task, stopping, rows, stats, lost, before>>

\* The wait is over with nothing to write.
CollectReturnsEmpty ==
    /\ pc[Writer] = "collect"
    /\ Collected = <<>>
    /\ pc' = [pc EXCEPT ![Writer] = IF stopping THEN "done" ELSE "collect"]
    /\ UNCHANGED <<queue, getter, hand, task, stopping, locked, waiters, rows,
                   stats, lost, before>>

WriterAcquires ==
    /\ pc[Writer] = "lock"
    /\ ~locked /\ waiters # <<>> /\ Head(waiters) = Writer
    /\ waiters' = Tail(waiters)
    /\ locked' = TRUE
    /\ pc' = [pc EXCEPT ![Writer] = "write"]
    /\ UNCHANGED <<queue, getter, hand, task, stopping, rows, stats, lost,
                   before>>

-----------------------------------------------------------------------------
(* _write: what the database answers.  The rows of a commit that raises may *)
(* or may not have landed.                                                  *)

WriteSucceeds(w) ==
    /\ pc[w] = "write"
    /\ rows' = rows \o hand[w]
    /\ stats' = [stats EXCEPT !.written = @ + Len(hand[w])]

WriteFails_CountsOne(w) ==
    /\ pc[w] = "write"
    /\ rows' \in {rows, rows \o hand[w]}
    /\ stats' = [stats EXCEPT !.failed = @ + 1]

WriteFails(w) ==
    /\ pc[w] = "write"
    /\ rows' \in {rows, rows \o hand[w]}
    /\ stats' = [stats EXCEPT !.failed = @ + Len(hand[w])]

WriteReturns(w) == WriteSucceeds(w) \/ WriteFails(w)

\* The writer releases the lock, and only then looks at the stop event.
WriterFinishes ==
    /\ WriteReturns(Writer)
    /\ hand' = [hand EXCEPT ![Writer] = <<>>]
    /\ locked' = FALSE
    /\ pc' = [pc EXCEPT ![Writer] = IF stopping THEN "done" ELSE "collect"]
    /\ UNCHANGED <<queue, getter, task, stopping, waiters, lost, before>>

-----------------------------------------------------------------------------
(* _drain: run by stop and by flush                                         *)

DrainTakes_WritersBatchToo(d) ==
    LET n == Smaller(BatchSize, Len(queue)) IN
    /\ queue' = SubSeq(queue, n + 1, Len(queue))
    /\ hand' = [hand EXCEPT ![d] = hand[Writer] \o SubSeq(queue, 1, n)]
    /\ pc' = [pc EXCEPT ![d] = IF n = 0 THEN "returned" ELSE "write"]

\* One turn of the loop of _drain: take a batch and write it, or return when
\* the queue is empty.
DrainTakes(d) ==
    LET n == Smaller(BatchSize, Len(queue)) IN
    /\ queue' = SubSeq(queue, n + 1, Len(queue))
    /\ hand' = [hand EXCEPT ![d] = SubSeq(queue, 1, n)]
    /\ pc' = [pc EXCEPT ![d] = IF n = 0 THEN "returned" ELSE "write"]

DrainFinishes_NeverLeaves(d) ==
    /\ WriteReturns(d)
    /\ hand' = [hand EXCEPT ![d] = <<>>]
    /\ UNCHANGED <<queue, pc, getter, task, stopping, locked, waiters, lost, before>>

\* A full batch sends _drain round its loop again; a partial one was the last.
DrainFinishes(d) ==
    /\ WriteReturns(d)
    /\ \/ /\ Len(hand[d]) = BatchSize
          /\ DrainTakes(d)
       \/ /\ Len(hand[d]) < BatchSize
          /\ hand' = [hand EXCEPT ![d] = <<>>]
          /\ pc' = [pc EXCEPT ![d] = "returned"]
          /\ UNCHANGED queue
    /\ UNCHANGED <<getter, task, stopping, locked, waiters, lost, before>>

-----------------------------------------------------------------------------
(* start and stop: called by one coroutine, never at the same time          *)

Start ==
    /\ pc[Stopper] = "returned"
    /\ ~task
    /\ task' = TRUE
    /\ pc' = [pc EXCEPT ![Writer] = "collect"]
    /\ UNCHANGED <<queue, getter, hand, stopping, locked, waiters, rows, stats,
                   lost, before>>

\* stop() with a writer: ask it to stop, and wait for it.
StopAsks ==
    /\ pc[Stopper] = "returned"
    /\ task
    /\ stopping' = TRUE
    /\ pc' = [pc EXCEPT ![Stopper] = "join"]
    /\ before' = [before EXCEPT ![Stopper] = Snapshot]
    /\ UNCHANGED <<queue, getter, hand, task, locked, waiters, rows, stats, lost>>

\* stop() without a writer goes straight to the drain.
StopDrains ==
    /\ pc[Stopper] = "returned"
    /\ ~task
    /\ before' = [before EXCEPT ![Stopper] = Snapshot]
    /\ DrainTakes(Stopper)
    /\ UNCHANGED <<getter, task, stopping, locked, waiters, rows, stats, lost>>

\* SHUTDOWN_TIMEOUT elapses while the writer is suspended in a commit.  Its
\* other suspensions last a few turns of the event loop once _stopping is set.
StopTimesOut ==
    /\ pc[Stopper] = "join"
    /\ pc[Writer] = "write"
    /\ pc' = [pc EXCEPT ![Writer] = "cancelled"]
    /\ UNCHANGED <<queue, getter, hand, task, stopping, locked, waiters, rows,
                   stats, lost, before>>

\* The cancelled writer unwinds: CancelledError passes `except Exception`, so
\* the batch is counted neither written nor failed.
WriterUnwinds ==
    /\ pc[Writer] = "cancelled"
    /\ rows' \in {rows, rows \o hand[Writer]}
    /\ lost' = lost + Len(hand[Writer])
    /\ hand' = [hand EXCEPT ![Writer] = <<>>]
    /\ locked' = FALSE
    /\ pc' = [pc EXCEPT ![Writer] = "done"]
    /\ UNCHANGED <<queue, getter, task, stopping, waiters, stats, before>>

StopJoins_EventLeftSet ==
    /\ pc[Stopper] = "join"
    /\ pc[Writer] = "done"
    /\ task' = FALSE
    /\ DrainTakes(Stopper)
    /\ UNCHANGED <<getter, stopping, locked, waiters, rows, stats, lost, before>>

\* The writer has finished: forget it, clear the event, and drain.
StopJoins ==
    /\ pc[Stopper] = "join"
    /\ pc[Writer] = "done"
    /\ task' = FALSE
    /\ stopping' = FALSE
    /\ DrainTakes(Stopper)
    /\ UNCHANGED <<getter, locked, waiters, rows, stats, lost, before>>

-----------------------------------------------------------------------------
(* flush: wait until the lock can be had, then drain                        *)

FlushCalled_WithoutLock(f) ==
    /\ pc[f] = "returned"
    /\ before' = [before EXCEPT ![f] = Snapshot]
    /\ DrainTakes(f)
    /\ UNCHANGED <<getter, task, stopping, locked, waiters, rows, stats, lost>>

FlushCalled(f) ==
    /\ pc[f] = "returned"
    /\ before' = [before EXCEPT ![f] = Snapshot]
    /\ \/ /\ ~locked /\ waiters = <<>>
          /\ DrainTakes(f)
          /\ UNCHANGED waiters
       \/ /\ locked \/ waiters # <<>>
          /\ waiters' = Append(waiters, f)
          /\ pc' = [pc EXCEPT ![f] = "lock"]
          /\ UNCHANGED <<queue, hand>>
    /\ UNCHANGED <<getter, task, stopping, locked, rows, stats, lost>>

\* The lock is acquired and released without a suspension in between.
FlushAcquires(f) ==
    /\ pc[f] = "lock"
    /\ ~locked /\ waiters # <<>> /\ Head(waiters) = f
    /\ waiters' = Tail(waiters)
    /\ DrainTakes(f)
    /\ UNCHANGED <<getter, task, stopping, locked, rows, stats, lost, before>>

-----------------------------------------------------------------------------

\* Steps the event loop owes to a coroutine that is ready to run, or to a timer.
LoopStep ==
    \/ GetterTakes \/ CollectReturns \/ CollectReturnsEmpty \/ WriterAcquires
    \/ StopTimesOut \/ WriterUnwinds \/ StopJoins
    \/ \E f \in Flushers : FlushAcquires(f)

\* Steps that need an answer of the database.
DatabaseStep ==
    \/ WriterFinishes
    \/ \E d \in Drainers : DrainFinishes(d)

\* Calls that the rest of the program may or may not make.
Call ==
    \/ Record \/ Start \/ StopAsks \/ StopDrains
    \/ \E f \in Flushers : FlushCalled(f)

Next == LoopStep \/ DatabaseStep \/ Call

Spec == Init /\ [][Next]_vars

\* The event loop runs what is ready, the shutdown timer expires, and a
\* cancelled transaction is given up.
LoopFairness ==
    /\ WF_vars(GetterTakes) /\ WF_vars(CollectReturns)
    /\ WF_vars(CollectReturnsEmpty) /\ WF_vars(WriterAcquires)
    /\ WF_vars(StopJoins) /\ WF_vars(StopTimesOut) /\ WF_vars(WriterUnwinds)
    /\ \A f \in Flushers : WF_vars(FlushAcquires(f))

\* Every transaction ends, one way or the other.
DatabaseFairness ==
    /\ WF_vars(WriterFinishes)
    /\ \A d \in Drainers : WF_vars(DrainFinishes(d))

FairSpec == Spec /\ LoopFairness /\ DatabaseFairness

-----------------------------------------------------------------------------
(* Invariants                                                               *)

\* Every variable has its type, and the queue never exceeds its maxsize.
TypeOK ==
    /\ queue \in Seq(Records) /\ Len(queue) <= QueueSize
    /\ getter \in Seq(Records) /\ Len(getter) <= 1
    /\ hand \in [Workers -> Seq(Records)]
    /\ \A w \in Workers : Len(hand[w]) <= BatchSize
    /\ pc \in [Workers -> {"collect", "lock", "write", "cancelled", "done",
                           "join", "returned"}]
    /\ task \in BOOLEAN /\ stopping \in BOOLEAN /\ locked \in BOOLEAN
    /\ waiters \in Seq(Flushers \cup {Writer})
    /\ rows \in Seq(Records)
    /\ stats \in [queued : 0..MaxRecords, written : Nat, dropped : Nat,
                  failed : Nat]
    /\ lost \in Nat
    /\ before \in [Drainers -> [all : SUBSET Records, batch : SUBSET Records]]

Increasing(s) == \A i, j \in DOMAIN s : i < j => s[i] < s[j]

\* However stop, flush and the writer interleave, a record is in one place at
\* a time, is never inserted twice and is never dequeued into two batches:
\* the race that the comment of _drain describes does not happen.
NoRecordTwice ==
    /\ IsInjective(rows) /\ IsInjective(queue)
    /\ \A w \in Workers : IsInjective(hand[w])
    /\ Range(rows) \cap InFlight = {}
    /\ Range(queue) \cap Range(getter) = {}
    /\ \A w \in Workers :
         /\ Held(w) \cap (Range(queue) \cup Range(getter)) = {}
         /\ \A v \in Workers \ {w} : Held(v) \cap Held(w) = {}

\* Nothing disappears from the audit trail uncounted: every record accepted
\* is written, failed, dropped, abandoned at the shutdown timeout, or in flight.
EveryRecordCounted ==
    stats.queued = stats.written + stats.failed + stats.dropped + lost
                     + Cardinality(InFlight)

\* Without concurrent flushes (the API makes none) rows are inserted in the
\* order in which the requests recorded them, across batches, drains,
\* shutdown timeouts and restarts.
RowsInOrder == Flushers = {} => Increasing(rows)

\* What the callers of stop and flush rely on: stop leaves nothing behind (each
\* record that was in flight when it was called has its outcome once it has
\* returned, or is in the hands of a flush), and flush does not return before
\* the batch that was mid-commit has landed.
SettledOnReturn ==
    /\ pc[Stopper] = "returned" =>
          before[Stopper].all \cap InFlight \subseteq UNION {Held(f) : f \in Flushers}
    /\ \A f \in Flushers : pc[f] = "returned" => before[f].batch \cap InFlight = {}

-----------------------------------------------------------------------------
(* Action properties                                                        *)

\* "Recent records are more useful than old ones during an incident": a record
\* that is dropped is never one of the QueueSize most recent.
NeverDropsRecent ==
    [][stats'.dropped # stats.dropped =>
         \A r \in InFlight \ InFlight' : r + QueueSize <= stats'.queued]_vars

-----------------------------------------------------------------------------
(* Liveness, under FairSpec                                                 *)

\* A record is written promptly while the service runs, also after a restart.
RecordSettles ==
    \A r \in Records : (task /\ r \in InFlight) ~> (~task \/ r \notin InFlight)

\* A call of stop or flush returns, behind the writer and other flushes.
CallsReturn == \A d \in Drainers : pc[d] # "returned" ~> pc[d] = "returned"

-----------------------------------------------------------------------------
(* What the service implements                                              *)

Trail == INSTANCE AuditTrail WITH
    accepted <- stats.queued,
    pending  <- InFlight,
    rows     <- Range(rows),
    written  <- stats.written,
    failed   <- stats.failed,
    dropped  <- stats.dropped

\* Every step of the queue, the writer and the drains is a step of the
\* abstract trail: one record accepted, one batch given its one outcome.
ImplementsTrail == Trail!Spec

=============================================================================
