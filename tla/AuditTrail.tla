----------------------------- MODULE AuditTrail -----------------------------
(***************************************************************************)
(* What the audit trail promises to the rest of the API, whatever its      *)
(* internal queue, writer task, lock and drains are doing: a record that   *)
(* was accepted is owed a single outcome.  It becomes one row, or is        *)
(* counted as failed, or is dropped because the buffer was full, or is     *)
(* given up on when shutdown times out.  Nothing is written twice, nothing *)
(* disappears uncounted.  AuditService implements this specification.      *)
(***************************************************************************)
EXTENDS Integers, FiniteSets

CONSTANTS
    MaxRecords, \* bound: how many records are accepted in a behaviour
    BatchSize   \* rows per INSERT (DEFAULT_BATCH_SIZE)

VARIABLES
    accepted,   \* how many records have been accepted; record i is the i-th
    pending,    \* the accepted records that have no outcome yet
    rows,       \* the records that have a row in inference_logs
    written, failed, dropped, lost  \* how many had each outcome

vars == <<accepted, pending, rows, written, failed, dropped, lost>>

Init ==
    /\ accepted = 0 /\ pending = {} /\ rows = {}
    /\ written = 0 /\ failed = 0 /\ dropped = 0 /\ lost = 0

\* A record is accepted; a full buffer makes room by dropping the oldest
\* record that no writer has taken.
Accept ==
    /\ accepted < MaxRecords
    /\ accepted' = accepted + 1
    /\ \/ /\ pending' = pending \cup {accepted + 1}
          /\ UNCHANGED dropped
       \/ \E old \in pending :
            /\ pending' = (pending \ {old}) \cup {accepted + 1}
            /\ dropped' = dropped + 1
    /\ UNCHANGED <<rows, written, failed, lost>>

\* A batch of pending records gets its outcome, in one of three ways.  Only a
\* written batch is certain to be in the table; the commit of a failed or
\* abandoned one may have landed before the error was seen.
Settle(batch) ==
    /\ pending' = pending \ batch
    /\ \/ /\ written' = written + Cardinality(batch)
          /\ rows' = rows \cup batch
          /\ UNCHANGED <<failed, lost>>
       \/ /\ failed' = failed + Cardinality(batch)
          /\ rows' \in {rows, rows \cup batch}
          /\ UNCHANGED <<written, lost>>
       \/ /\ lost' = lost + Cardinality(batch)
          /\ rows' \in {rows, rows \cup batch}
          /\ UNCHANGED <<written, failed>>
    /\ UNCHANGED <<accepted, dropped>>

Next ==
    \/ Accept
    \/ \E batch \in SUBSET pending :
         Cardinality(batch) \in 1..BatchSize /\ Settle(batch)

Spec == Init /\ [][Next]_vars
=============================================================================
