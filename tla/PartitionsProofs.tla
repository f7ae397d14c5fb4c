-------------------------- MODULE PartitionsProofs --------------------------
(***************************************************************************)
(* Proofs about Partitions, for every number of months ahead and retained, *)
(* every set of overlapping runs and every set of rows.                    *)
(***************************************************************************)
EXTENDS Partitions, TLAPS

\* Runs in progress have a partitioned table and began in this month or the one
\* before, and no run ensured the partitions of a month to come.
RunsRecent ==
    /\ ensured <= month
    /\ \A j \in Runs : begun[j] # NotRunning =>
         layout = "partitioned" /\ begun[j] >= month - 1 /\ begun[j] <= month

\* The months from the last one ensured on have their partitions.
Covered ==
    layout = "partitioned" =>
        /\ ensured # Never
        /\ ensured..(ensured + Ahead) \subseteq parts

IInv == TypeOK /\ RunsRecent /\ Covered /\ RetentionApplied /\ NothingDroppedEarly

LEMMA InvInit == Init => IInv
<1> SUFFICES ASSUME Init PROVE IInv
  OBVIOUS
<1> USE ConstantsAssumption DEF Init, NotRunning, Never
<1>1. TypeOK
  BY DEF TypeOK, Homes
<1>2. RunsRecent
  BY DEF RunsRecent
<1>3. Covered /\ RetentionApplied /\ NothingDroppedEarly
  BY DEF Covered, RetentionApplied, NothingDroppedEarly
<1> QED
  BY <1>1, <1>2, <1>3 DEF IInv

-----------------------------------------------------------------------------
(* The step, part by part of the invariant                                  *)

LEMMA TypeStep == TypeOK /\ RunsRecent /\ [Next]_vars => TypeOK'
<1> SUFFICES ASSUME TypeOK, RunsRecent, [Next]_vars PROVE TypeOK'
  OBVIOUS
<1> USE ConstantsAssumption DEF TypeOK, Homes, NotRunning, Never
<1>1. ASSUME NEW i \in Ids, Insert(i) PROVE TypeOK'
  <2>1. [id |-> i, at |-> month] \in [id : Ids, at : Nat]
    OBVIOUS
  <2>2. [id |-> i, at |-> month,
         home |-> IF layout = "plain" THEN "plain" ELSE HomeOf(month, parts)]
           \in [id : Ids, at : Nat, home : Homes]
    BY DEF HomeOf
  <2> QED
    BY <1>1, <2>1, <2>2 DEF Insert
<1>2. CASE MonthEnds
  BY <1>2 DEF MonthEnds
<1>3. CASE Upgrade
  <2>1. \A r \in rows : [r EXCEPT !.home = HomeOf(r.at, parts')]
                          \in [id : Ids, at : Nat, home : {"month", "default"}]
    BY DEF HomeOf
  <2> QED
    BY <1>3, <2>1 DEF Upgrade
<1>4. CASE Downgrade
  <2>1. \A r \in rows : [r EXCEPT !.home = "plain"] \in [id : Ids, at : Nat, home : {"plain"}]
    OBVIOUS
  <2> QED
    BY <1>4, <2>1 DEF Downgrade
<1>5. ASSUME NEW j \in Runs, RunBegins(j) PROVE TypeOK'
  BY <1>5 DEF RunBegins
<1>6. ASSUME NEW j \in Runs, RunCommits(j) PROVE TypeOK'
  <2>1. begun[j] \in Nat
    BY <1>6 DEF RunCommits
  <2>2. MonthsOf(j) \subseteq Int
    BY <2>1 DEF MonthsOf
  <2>3. parts' \subseteq Int /\ rows' \subseteq rows
    BY <1>6, <2>2 DEF RunCommits
  <2>4. layout = "partitioned" /\ layout' = layout
    BY <1>6 DEF RunCommits, RunsRecent
  <2>5. begun' \in [Runs -> Nat \cup {NotRunning}] /\ ensured' \in Nat \cup {Never}
    BY <1>6, <2>1 DEF RunCommits
  <2>6. gauge' \in BOOLEAN
    <3>1. CASE UNCHANGED gauge
      BY <3>1
    <3>2. CASE gauge' = (InDefault # {})
      BY <3>2, Zenon
    <3> QED
      BY <3>1, <3>2, <1>6 DEF RunCommits
  <2>7. UNCHANGED <<month, inserted>>
    BY <1>6 DEF RunCommits
  <2> QED
    BY <2>3, <2>4, <2>5, <2>6, <2>7
<1>7. ASSUME NEW j \in Runs, RunIsRefused(j) PROVE TypeOK'
  BY <1>7 DEF RunIsRefused
<1>8. ASSUME NEW j \in Runs, RunBreaks(j) PROVE TypeOK'
  BY <1>8 DEF RunBreaks
<1>9. CASE UNCHANGED vars
  BY <1>9 DEF vars
<1> QED
  BY <1>1, <1>2, <1>3, <1>4, <1>5, <1>6, <1>7, <1>8, <1>9 DEF Next

LEMMA RunsStep == IInv /\ [Next]_vars => RunsRecent'
<1> SUFFICES ASSUME TypeOK, RunsRecent, [Next]_vars PROVE RunsRecent'
  BY DEF IInv
<1> USE ConstantsAssumption DEF TypeOK, RunsRecent, NotRunning, Never
<1>1. ASSUME NEW i \in Ids, Insert(i) PROVE RunsRecent'
  BY <1>1 DEF Insert
<1>2. CASE MonthEnds
  BY <1>2 DEF MonthEnds
<1>3. CASE Upgrade
  BY <1>3 DEF Upgrade
<1>4. CASE Downgrade
  BY <1>4 DEF Downgrade
<1>5. ASSUME NEW j \in Runs, RunBegins(j) PROVE RunsRecent'
  BY <1>5 DEF RunBegins
<1>6. ASSUME NEW j \in Runs, RunCommits(j) PROVE RunsRecent'
  BY <1>6 DEF RunCommits
<1>7. ASSUME NEW j \in Runs, RunIsRefused(j) PROVE RunsRecent'
  BY <1>7 DEF RunIsRefused
<1>8. ASSUME NEW j \in Runs, RunBreaks(j) PROVE RunsRecent'
  BY <1>8 DEF RunBreaks
<1>9. CASE UNCHANGED vars
  BY <1>9 DEF vars
<1> QED
  BY <1>1, <1>2, <1>3, <1>4, <1>5, <1>6, <1>7, <1>8, <1>9 DEF Next

\* A run that commits late neither uncovers the months of a later one nor
\* brings back a partition that the later one dropped.
LEMMA PartsStep == IInv /\ [Next]_vars => Covered' /\ RetentionApplied'
<1> SUFFICES ASSUME TypeOK, RunsRecent, Covered, RetentionApplied, [Next]_vars
             PROVE  Covered' /\ RetentionApplied'
  BY DEF IInv
<1> USE ConstantsAssumption DEF Never, NotRunning
<1>1. CASE UNCHANGED <<layout, parts, ensured>>
  BY <1>1 DEF Covered, RetentionApplied
<1>2. CASE Upgrade
  <2>1. parts' = (month - Retain)..(month + Ahead) /\ ensured' = month /\ month \in Nat
    BY <1>2 DEF Upgrade, TypeOK
  <2> QED
    BY <2>1 DEF Covered, RetentionApplied
<1>3. CASE Downgrade
  BY <1>3 DEF Downgrade, Covered, RetentionApplied
<1>4. ASSUME NEW j \in Runs, RunCommits(j) PROVE Covered' /\ RetentionApplied'
  <2> DEFINE b == begun[j]
  <2>1. b \in Nat /\ layout = "partitioned" /\ b >= month - 1 /\ b <= month
    BY <1>4 DEF RunCommits, RunsRecent, TypeOK
  <2>2. ensured \in Nat /\ ensured <= month /\ month \in Nat /\ parts \subseteq Int
    BY <2>1 DEF Covered, RunsRecent, TypeOK
  <2>3. /\ parts' = (parts \cup (b..(b + Ahead))) \ {m \in parts : m < b - Retain}
        /\ ensured' = (IF b > ensured THEN b ELSE ensured)
        /\ layout' = layout
    BY <1>4 DEF RunCommits, MonthsOf, Expired
  <2>4. ensured..(ensured + Ahead) \subseteq parts
    BY <2>1 DEF Covered
  <2>5. \A m \in parts : m >= ensured - Retain
    BY DEF RetentionApplied
  <2> HIDE DEF b
  <2>6. ensured' \in Nat /\ ensured' >= ensured /\ ensured' >= b
    BY <2>1, <2>2, <2>3
  <2>7. ASSUME NEW m \in ensured'..(ensured' + Ahead) PROVE m \in parts'
    <3>1. m \in parts \cup (b..(b + Ahead)) /\ m \in Int /\ m >= b
      BY <2>1, <2>2, <2>3, <2>4, <2>6
    <3>2. ~(m < b - Retain)
      BY <3>1, <2>1
    <3> QED
      BY <3>1, <3>2, <2>3
  <2>8. ASSUME NEW m \in parts' PROVE m >= ensured' - Retain
    <3>1. CASE b > ensured
      BY <3>1, <2>1, <2>2, <2>3
    <3>2. CASE b <= ensured
      BY <3>2, <2>1, <2>2, <2>3, <2>5
    <3> QED
      BY <3>1, <3>2, <2>1, <2>2
  <2>9. ensured' # Never
    BY <2>6
  <2> QED
    BY <2>7, <2>8, <2>9 DEF Covered, RetentionApplied
<1>5. ASSUME NEW i \in Ids, Insert(i) PROVE UNCHANGED <<layout, parts, ensured>>
  BY <1>5 DEF Insert
<1>6. ASSUME MonthEnds PROVE UNCHANGED <<layout, parts, ensured>>
  BY <1>6 DEF MonthEnds
<1>7. ASSUME NEW j \in Runs, RunBegins(j) \/ RunIsRefused(j) \/ RunBreaks(j)
      PROVE  UNCHANGED <<layout, parts, ensured>>
  BY <1>7 DEF RunBegins, RunIsRefused, RunBreaks
<1> QED
  BY <1>1, <1>2, <1>3, <1>4, <1>5, <1>6, <1>7 DEF Next, vars

\* A migration that keeps the id and the month of each row loses none.
LEMMA MovedRowsRemain ==
    ASSUME NothingDroppedEarly, UNCHANGED <<month, inserted>>,
           \A r \in rows : \E s \in rows' : s.id = r.id /\ s.at = r.at
    PROVE  NothingDroppedEarly'
<1> SUFFICES ASSUME NEW k \in inserted, k.at >= month - Retain
             PROVE  \E s \in rows' : s.id = k.id /\ s.at = k.at
  BY DEF NothingDroppedEarly
<1>1. PICK r \in rows : r.id = k.id /\ r.at = k.at
  BY DEF NothingDroppedEarly
<1>2. PICK s \in rows' : s.id = r.id /\ s.at = r.at
  OBVIOUS
<1> QED
  BY <1>1, <1>2

\* A row stored keeps its id and its month when it moves, and is dropped only
\* with an expired partition.
LEMMA RowsStep == IInv /\ [Next]_vars => NothingDroppedEarly'
<1> SUFFICES ASSUME TypeOK, RunsRecent, NothingDroppedEarly, [Next]_vars
             PROVE  NothingDroppedEarly'
  BY DEF IInv
<1> USE ConstantsAssumption DEF NotRunning, Never
<1>1. ASSUME NEW i \in Ids, Insert(i) PROVE NothingDroppedEarly'
  <2> DEFINE new == [id |-> i, at |-> month,
                     home |-> IF layout = "plain" THEN "plain" ELSE HomeOf(month, parts)]
  <2>1. /\ inserted' = inserted \cup {[id |-> i, at |-> month]}
        /\ rows' = rows \cup {new} /\ month' = month
    BY <1>1 DEF Insert
  <2>2. new.id = i /\ new.at = month
    OBVIOUS
  <2> HIDE DEF new
  <2>3. ASSUME NEW k \in inserted', k.at >= month' - Retain
        PROVE  \E r \in rows' : r.id = k.id /\ r.at = k.at
    <3>1. CASE k = [id |-> i, at |-> month]
      BY <3>1, <2>1, <2>2
    <3>2. CASE k \in inserted
      <4>1. PICK r \in rows : r.id = k.id /\ r.at = k.at
        BY <3>2, <2>1, <2>3 DEF NothingDroppedEarly
      <4> QED
        BY <4>1, <2>1
    <3> QED
      BY <3>1, <3>2, <2>1
  <2> QED
    BY <2>3 DEF NothingDroppedEarly
<1>2. CASE MonthEnds
  BY <1>2 DEF MonthEnds, NothingDroppedEarly, TypeOK
<1>3. CASE Upgrade
  <2>1. /\ rows' = {[r EXCEPT !.home = HomeOf(r.at, parts')] : r \in rows}
        /\ UNCHANGED <<month, inserted>>
    BY <1>3 DEF Upgrade
  <2>2. ASSUME NEW r \in rows
        PROVE  \E s \in rows' : s.id = r.id /\ s.at = r.at
    <3>1. [r EXCEPT !.home = HomeOf(r.at, parts')] \in rows'
      BY <2>1
    <3>2. r \in [id : Ids, at : Nat, home : Homes]
      BY DEF TypeOK
    <3> QED
      BY <3>1, <3>2
  <2> QED
    BY <2>1, <2>2, MovedRowsRemain
<1>4. CASE Downgrade
  <2>1. /\ rows' = {[r EXCEPT !.home = "plain"] : r \in rows}
        /\ UNCHANGED <<month, inserted>>
    BY <1>4 DEF Downgrade
  <2>2. ASSUME NEW r \in rows
        PROVE  \E s \in rows' : s.id = r.id /\ s.at = r.at
    <3>1. [r EXCEPT !.home = "plain"] \in rows'
      BY <2>1
    <3>2. r \in [id : Ids, at : Nat, home : Homes]
      BY DEF TypeOK
    <3> QED
      BY <3>1, <3>2
  <2> QED
    BY <2>1, <2>2, MovedRowsRemain
<1>5. ASSUME NEW j \in Runs, RunCommits(j) PROVE NothingDroppedEarly'
  <2>1. /\ rows' = {r \in rows : ~(r.home = "month" /\ r.at \in Expired(j))}
        /\ UNCHANGED <<month, inserted>>
        /\ begun[j] \in Nat /\ begun[j] <= month /\ month \in Nat
    BY <1>5 DEF RunCommits, RunsRecent, TypeOK
  <2>2. ASSUME NEW r \in rows, r.at >= month - Retain PROVE r \in rows'
    <3>1. r.at \in Nat
      BY DEF TypeOK
    <3>2. ~(r.at < begun[j] - Retain)
      BY <3>1, <2>1, <2>2
    <3> QED
      BY <3>2, <2>1 DEF Expired
  <2> QED
    BY <2>1, <2>2 DEF NothingDroppedEarly
<1>6. ASSUME NEW j \in Runs, RunBegins(j) \/ RunIsRefused(j) \/ RunBreaks(j)
      PROVE  NothingDroppedEarly'
  BY <1>6 DEF RunBegins, RunIsRefused, RunBreaks, NothingDroppedEarly
<1>7. CASE UNCHANGED vars
  BY <1>7 DEF vars, NothingDroppedEarly
<1> QED
  BY <1>1, <1>2, <1>3, <1>4, <1>5, <1>6, <1>7 DEF Next

-----------------------------------------------------------------------------
(* Theorems                                                                 *)

LEMMA Invariant == Spec => []IInv
<1>1. IInv /\ [Next]_vars => IInv'
  BY TypeStep, RunsStep, PartsStep, RowsStep DEF IInv
<1> QED
  BY <1>1, InvInit, PTL DEF Spec

\* The table, its partitions and the runs of the job stay of their types.
THEOREM TypeCorrect == Spec => []TypeOK
  BY Invariant, PTL DEF IInv

\* Whatever overlaps, a row is stored as long as it is within retention.
THEOREM RowsRetained == Spec => []NothingDroppedEarly
  BY Invariant, PTL DEF IInv

\* No partition outside the retention of the last maintenance remains.
THEOREM Retention == Spec => []RetentionApplied
  BY Invariant, PTL DEF IInv

\* While the job is at most Ahead months behind, no row lands in DEFAULT.
THEOREM NoDefaultRows == Spec => DefaultUntouched
<1>1. ASSUME IInv, [Next]_vars, NEW r \in rows' \ rows,
             layout = "partitioned", r.home = "default"
      PROVE  r.at > ensured + Ahead
  <2> USE ConstantsAssumption DEF Never, NotRunning
  <2>1. PICK i \in Ids : Insert(i)
    <3>1. CASE Downgrade
      <4>1. \A q \in rows : [q EXCEPT !.home = "plain"].home = "plain"
        BY <1>1 DEF IInv, TypeOK
      <4> QED
        BY <3>1, <4>1, <1>1 DEF Downgrade
    <3>2. CASE Upgrade \/ MonthEnds \/ UNCHANGED vars
      BY <3>2, <1>1 DEF Upgrade, MonthEnds, vars
    <3>3. ASSUME NEW j \in Runs,
                 RunBegins(j) \/ RunCommits(j) \/ RunIsRefused(j) \/ RunBreaks(j)
          PROVE  FALSE
      BY <3>3, <1>1 DEF RunBegins, RunCommits, RunIsRefused, RunBreaks
    <3> QED
      BY <3>1, <3>2, <3>3, <1>1 DEF Next
  <2>2. r = [id |-> i, at |-> month,
             home |-> IF layout = "plain" THEN "plain" ELSE HomeOf(month, parts)]
    BY <2>1, <1>1 DEF Insert
  <2>3. r.at = month /\ month \notin parts
    BY <2>2, <1>1 DEF HomeOf
  <2>4. /\ ensured..(ensured + Ahead) \subseteq parts
        /\ ensured \in Int /\ month \in Int /\ ensured <= month
    BY <1>1 DEF IInv, Covered, TypeOK, RunsRecent
  <2> QED
    BY <2>3, <2>4
<1>2. IInv /\ [Next]_vars => [\A r \in rows' \ rows :
        layout = "partitioned" /\ r.home = "default" => r.at > ensured + Ahead]_vars
  BY <1>1
<1> QED
  BY <1>2, Invariant, PTL DEF Spec, DefaultUntouched

=============================================================================
