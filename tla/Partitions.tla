----------------------------- MODULE Partitions -----------------------------
(***************************************************************************)
(* The monthly partitions of inference_logs: the migration that introduces *)
(* them (migrations/versions/20260914_1800_partition_inference_logs.py),   *)
(* its two SQL functions, and the job that calls them                      *)
(* (scripts/maintain_partitions.py), while the API keeps inserting rows.   *)
(*                                                                         *)
(* A month is an integer.  A partition is named by its month, as its table *)
(* is, so the set of partitions is a set of months.  A maintenance run is  *)
(* one transaction: it reads CURRENT_DATE when it begins, looks for missing *)
(* partitions while others may commit theirs, and commits or rolls back.   *)
(*                                                                         *)
(* A definition named D_Something is a faulty version of D that no          *)
(* specification uses.                                                     *)
(***************************************************************************)
EXTENDS Integers, FiniteSets

CONSTANTS
    Ahead,     \* --months-ahead, and the 3 of the migration
    Retain,    \* --retain-months, and RETENTION_MONTHS of the migration
    Runs,      \* maintenance runs that may overlap: the job's and manual ones
    Ids,       \* bound: the rows inserted in a behaviour
    LastMonth  \* bound: when the calendar stops

ASSUME ConstantsAssumption ==
    /\ Ahead \in Nat
    /\ Retain \in Nat \ {0}
    /\ LastMonth \in Nat

VARIABLES
    month,     \* the current month
    parts,     \* the partitions that exist besides DEFAULT
    rows,      \* the rows: [id, at, home], `at` the month of created_at, `home`
               \* "plain" before the migration, then "month" or "default"
    layout,    \* "plain" or "partitioned"
    begun,     \* per run in progress: its CURRENT_DATE; NotRunning otherwise
    gauge,     \* the pushed inference_logs_default_partition_rows is not 0
    inserted,  \* history: [id, at] of every row inserted
    ensured    \* history: the month for which partitions were last ensured

vars == <<month, parts, rows, layout, begun, gauge, inserted, ensured>>

NotRunning == -1
Never      == -1

InDefault == {r \in rows : r.home = "default"}

Init ==
    /\ month = 0 /\ layout = "plain"
    /\ parts = {} /\ rows = {}
    /\ begun = [j \in Runs |-> NotRunning]
    /\ gauge = FALSE
    /\ inserted = {} /\ ensured = Never

-----------------------------------------------------------------------------
(* The API and the calendar                                                 *)

\* Postgres routes a row by created_at.
HomeOf(at, partitions) == IF at \in partitions THEN "month" ELSE "default"

\* The audit writer inserts a row, created_at set as the statement runs.
Insert(i) ==
    /\ \A r \in inserted : r.id # i
    /\ inserted' = inserted \cup {[id |-> i, at |-> month]}
    /\ rows' = rows \cup
         {[id |-> i, at |-> month,
           home |-> IF layout = "plain" THEN "plain" ELSE HomeOf(month, parts)]}
    /\ UNCHANGED <<month, parts, layout, begun, gauge, ensured>>

\* A run does not outlast the month it began in by a month.
MonthEnds ==
    /\ month < LastMonth
    /\ \A j \in Runs : begun[j] \in {NotRunning, month}
    /\ month' = month + 1
    /\ UNCHANGED <<parts, rows, layout, begun, gauge, inserted, ensured>>

-----------------------------------------------------------------------------
(* The migration: each direction is one transaction                         *)

Upgrade ==
    /\ layout = "plain"
    /\ layout' = "partitioned"
    /\ parts' = (month - Retain)..(month + Ahead)
    /\ rows' = {[r EXCEPT !.home = HomeOf(r.at, parts')] : r \in rows}
    /\ ensured' = month
    /\ UNCHANGED <<month, begun, gauge, inserted>>

\* What docs/operations.md:341-343 says of it: partitions are dropped, their rows
\* with them.
Downgrade_DropsRows ==
    /\ layout = "partitioned"
    /\ layout' = "plain"
    /\ parts' = {}
    /\ rows' = {[r EXCEPT !.home = "plain"] : r \in InDefault}
    /\ ensured' = Never
    /\ begun' = [j \in Runs |-> NotRunning]
    /\ UNCHANGED <<month, gauge, inserted>>

\* Every row is copied into a plain table before the partitions are dropped.  A
\* run in progress commits before it, or finds the functions gone.
Downgrade ==
    /\ layout = "partitioned"
    /\ layout' = "plain"
    /\ parts' = {}
    /\ rows' = {[r EXCEPT !.home = "plain"] : r \in rows}
    /\ ensured' = Never
    /\ begun' = [j \in Runs |-> NotRunning]
    /\ UNCHANGED <<month, gauge, inserted>>

-----------------------------------------------------------------------------
(* maintain                                                                 *)

RunBegins(j) ==
    /\ layout = "partitioned"
    /\ begun[j] = NotRunning
    /\ begun' = [begun EXCEPT ![j] = month]
    /\ UNCHANGED <<month, parts, rows, layout, gauge, inserted, ensured>>

MonthsOf_StopsShort(j) == begun[j]..(begun[j] + Ahead - 1)

\* The months whose partitions create_inference_log_partitions ensures.
MonthsOf(j) == begun[j]..(begun[j] + Ahead)

\* CREATE TABLE ... PARTITION OF fails when DEFAULT holds rows of the range.
Blocked(j) == \E r \in InDefault : r.at \in MonthsOf(j) \ parts

Expired_CutoffMonthToo(j) == {m \in parts : m <= begun[j] - Retain}

Expired_NameNotParsed(j) == {}

\* What drop_expired_inference_logs drops, never the DEFAULT partition.
Expired(j) == {m \in parts : m < begun[j] - Retain}

\* Partitions are created and dropped, the transaction commits, and the count
\* of DEFAULT is pushed; a push that fails is only logged.
RunCommits(j) ==
    /\ begun[j] # NotRunning
    /\ ~Blocked(j)
    /\ parts' = (parts \cup MonthsOf(j)) \ Expired(j)
    /\ rows' = {r \in rows : ~(r.home = "month" /\ r.at \in Expired(j))}
    /\ ensured' = IF begun[j] > ensured THEN begun[j] ELSE ensured
    /\ \/ gauge' = (InDefault # {})
       \/ UNCHANGED gauge
    /\ begun' = [begun EXCEPT ![j] = NotRunning]
    /\ UNCHANGED <<month, layout, inserted>>

\* The CREATE raises: everything is rolled back, and main ends before its push.
RunIsRefused(j) ==
    /\ begun[j] # NotRunning
    /\ Blocked(j)
    /\ begun' = [begun EXCEPT ![j] = NotRunning]
    /\ UNCHANGED <<month, parts, rows, layout, gauge, inserted, ensured>>

\* The run loses its connection, or a partition that it found missing has been
\* created (or one that it found expired, dropped) by another run by then.
RunBreaks(j) ==
    /\ begun[j] # NotRunning
    /\ begun' = [begun EXCEPT ![j] = NotRunning]
    /\ UNCHANGED <<month, parts, rows, layout, gauge, inserted, ensured>>

Next ==
    \/ \E i \in Ids : Insert(i)
    \/ MonthEnds \/ Upgrade \/ Downgrade
    \/ \E j \in Runs :
         RunBegins(j) \/ RunCommits(j) \/ RunIsRefused(j) \/ RunBreaks(j)

Spec == Init /\ [][Next]_vars

-----------------------------------------------------------------------------
(* Properties                                                               *)

Homes == IF layout = "plain" THEN {"plain"} ELSE {"month", "default"}

\* Every variable has its type; a plain table has no partitions.
TypeOK ==
    /\ month \in Nat /\ ensured \in Nat \cup {Never}
    /\ layout \in {"plain", "partitioned"}
    /\ parts \subseteq Int /\ (layout = "plain" => parts = {})
    /\ rows \subseteq [id : Ids, at : Nat, home : Homes]
    /\ inserted \subseteq [id : Ids, at : Nat]
    /\ begun \in [Runs -> Nat \cup {NotRunning}]
    /\ gauge \in BOOLEAN

\* However runs overlap each other, the turn of a month, the migration and its
\* downgrade, a row is there as long as it is within retention.  Of the downgrade
\* docs/operations.md:341-343 says the opposite; the code copies the rows first.
NothingDroppedEarly ==
    \A i \in inserted :
        i.at >= month - Retain => \E r \in rows : r.id = i.id /\ r.at = i.at

\* Retention runs: partitions outside it do not survive the last maintenance,
\* nor does a run that began earlier and commits later bring one back.
RetentionApplied == \A m \in parts : m >= ensured - Retain

\* The job may stop for as many months as it works ahead: no row lands in
\* DEFAULT before that.
DefaultUntouched ==
    [][\A r \in rows' \ rows :
         layout = "partitioned" /\ r.home = "default" => r.at > ensured + Ahead]_vars

=============================================================================
