------------------------- MODULE AuditServiceProofs -------------------------
(***************************************************************************)
(* Proofs about AuditService, for every queue size, batch size, number of  *)
(* records and set of flushers.                                            *)
(***************************************************************************)
EXTENDS AuditService, FiniteSetTheorems, TLAPS

-----------------------------------------------------------------------------
(* Sequences                                                                *)

\* A prefix and the rest of a sequence without repetitions are sequences
\* without repetitions and have no element in common: what _drain and _collect
\* rely on when they dequeue a batch.
LEMMA SplitSequence ==
    ASSUME NEW S, NEW s \in Seq(S), IsInjective(s), NEW n \in 0..Len(s)
    PROVE  LET a == SubSeq(s, 1, n)
               b == SubSeq(s, n + 1, Len(s))
           IN  /\ a \in Seq(S) /\ Len(a) = n
               /\ b \in Seq(S) /\ Len(b) = Len(s) - n
               /\ IsInjective(a) /\ IsInjective(b)
               /\ Range(a) \subseteq Range(s) /\ Range(b) \subseteq Range(s)
               /\ Range(a) \cap Range(b) = {}
<1> DEFINE p == SubSeq(s, 1, n)
           q == SubSeq(s, n + 1, Len(s))
           m == Len(s) - n
<1>1. Len(s) \in Nat /\ n \in Nat /\ m \in Nat /\ n + m = Len(s)
  OBVIOUS
<1>2. p \in Seq(S) /\ Len(p) = n /\ \A i \in 1..n : p[i] = s[i]
  OBVIOUS
<1>3. q \in Seq(S) /\ Len(q) = m /\ \A i \in 1..m : q[i] = s[n + i]
  OBVIOUS
<1> HIDE DEF p, q, m
<1>4. DOMAIN s = 1..(n + m) /\ DOMAIN p = 1..n /\ DOMAIN q = 1..m
  <2>1. DOMAIN s = 1..Len(s) /\ DOMAIN p = 1..Len(p) /\ DOMAIN q = 1..Len(q)
    BY <1>2, <1>3
  <2> QED
    BY <1>1, <1>2, <1>3, <2>1
<1>5. \A i, j \in 1..(n + m) : s[i] = s[j] => i = j
  BY <1>4 DEF IsInjective
<1>6. IsInjective(p)
  BY <1>1, <1>2, <1>4, <1>5 DEF IsInjective
<1>7. IsInjective(q)
  <2>1. ASSUME NEW i \in 1..m, NEW j \in 1..m, q[i] = q[j] PROVE i = j
    <3>1. n + i \in 1..(n + m) /\ n + j \in 1..(n + m)
      BY <1>1
    <3>2. s[n + i] = s[n + j]
      BY <1>3, <2>1
    <3>3. n + i = n + j
      BY <1>5, <3>1, <3>2
    <3> QED
      BY <1>1, <3>3
  <2> QED
    BY <1>4, <2>1 DEF IsInjective
<1>8. \A i \in 1..n : p[i] \in Range(s)
  BY <1>1, <1>2, <1>4 DEF Range
<1>9. ASSUME NEW i \in 1..m PROVE q[i] \in Range(s)
  <2>1. n + i \in DOMAIN s /\ q[i] = s[n + i]
    BY <1>1, <1>3, <1>4
  <2> QED
    BY <2>1 DEF Range
<1>10. ASSUME NEW i \in 1..n, NEW j \in 1..m PROVE p[i] # q[j]
  <2>1. i \in 1..(n + m) /\ n + j \in 1..(n + m) /\ i # n + j
    BY <1>1
  <2>2. p[i] = s[i] /\ q[j] = s[n + j]
    BY <1>2, <1>3
  <2> QED
    BY <1>5, <2>1, <2>2
<1>11. Range(p) = {p[i] : i \in 1..n} /\ Range(q) = {q[i] : i \in 1..m}
  BY <1>4 DEF Range
<1>12. /\ Range(p) \subseteq Range(s) /\ Range(q) \subseteq Range(s)
       /\ Range(p) \cap Range(q) = {}
  BY <1>8, <1>9, <1>10, <1>11
<1> QED
  BY <1>2, <1>3, <1>6, <1>7, <1>12 DEF p, q, m

\* Rows appended to a table have the elements of both, without repetitions if
\* neither has any and they have none in common.
LEMMA JoinSequences ==
    ASSUME NEW S, NEW s \in Seq(S), NEW t \in Seq(S)
    PROVE  /\ s \o t \in Seq(S) /\ Len(s \o t) = Len(s) + Len(t)
           /\ Range(s \o t) = Range(s) \cup Range(t)
           /\ IsInjective(s) /\ IsInjective(t) /\ Range(s) \cap Range(t) = {}
                => IsInjective(s \o t)
<1> DEFINE u == s \o t
           m == Len(s)
           n == Len(t)
<1>1. /\ m \in Nat /\ n \in Nat
      /\ u \in Seq(S) /\ Len(u) = m + n
      /\ \A i \in 1..(m + n) : u[i] = IF i <= m THEN s[i] ELSE t[i - m]
  OBVIOUS
<1>2. DOMAIN s = 1..m /\ DOMAIN t = 1..n /\ DOMAIN u = 1..(m + n)
  BY <1>1
<1> HIDE DEF u, m, n
<1>3. \A i \in 1..m : i \in 1..(m + n) /\ u[i] = s[i]
  BY <1>1
<1>4. ASSUME NEW i \in 1..n PROVE m + i \in 1..(m + n) /\ u[m + i] = t[i]
  <2>1. m + i \in 1..(m + n) /\ ~(m + i <= m) /\ (m + i) - m = i
    BY <1>1
  <2> QED
    BY <1>1, <2>1
<1>5. \A i \in 1..(m + n) : i \in 1..m \/ \E j \in 1..n : i = m + j
  <2>1. ASSUME NEW i \in 1..(m + n), i \notin 1..m PROVE i - m \in 1..n /\ i = m + (i - m)
    BY <1>1, <2>1
  <2> QED
    BY <2>1
<1>6. /\ Range(s) = {s[i] : i \in 1..m} /\ Range(t) = {t[i] : i \in 1..n}
      /\ Range(u) = {u[i] : i \in 1..(m + n)}
  BY <1>2 DEF Range
<1>7. Range(u) = Range(s) \cup Range(t)
  BY <1>3, <1>4, <1>5, <1>6
<1>8. ASSUME IsInjective(s), IsInjective(t), Range(s) \cap Range(t) = {},
             NEW i \in 1..(m + n), NEW j \in 1..(m + n), u[i] = u[j]
      PROVE  i = j
  <2>0. /\ \A k, l \in 1..m : s[k] = s[l] => k = l
        /\ \A k, l \in 1..n : t[k] = t[l] => k = l
    BY <1>2, <1>8 DEF IsInjective
  <2>1. \A k \in 1..m, l \in 1..n : s[k] # t[l]
    BY <1>6, <1>8
  <2>2. CASE i \in 1..m /\ j \in 1..m
    BY <1>3, <1>8, <2>0, <2>2
  <2>3. CASE i \notin 1..m /\ j \notin 1..m
    <3>1. PICK k \in 1..n, l \in 1..n : i = m + k /\ j = m + l
      BY <1>5, <2>3
    <3>2. t[k] = t[l]
      BY <1>4, <1>8, <3>1
    <3> QED
      BY <2>0, <3>1, <3>2
  <2>4. CASE i \in 1..m /\ j \notin 1..m
    <3>1. PICK l \in 1..n : j = m + l
      BY <1>5, <2>4
    <3> QED
      BY <1>3, <1>4, <1>8, <2>1, <2>4, <3>1
  <2>5. CASE i \notin 1..m /\ j \in 1..m
    <3>1. PICK k \in 1..n : i = m + k
      BY <1>5, <2>5
    <3> QED
      BY <1>3, <1>4, <1>8, <2>1, <2>5, <3>1
  <2> QED
    BY <2>2, <2>3, <2>4, <2>5
<1>9. IsInjective(s) /\ IsInjective(t) /\ Range(s) \cap Range(t) = {} => IsInjective(u)
  BY <1>2, <1>8 DEF IsInjective
<1> QED
  BY <1>1, <1>7, <1>9 DEF u, m, n

\* The head of a queue without repetitions is not in its tail.
LEMMA HeadAndTail ==
    ASSUME NEW S, NEW s \in Seq(S), s # <<>>, IsInjective(s)
    PROVE  /\ Head(s) \in Range(s) /\ Head(s) \in S
           /\ Tail(s) \in Seq(S) /\ Len(Tail(s)) = Len(s) - 1
           /\ IsInjective(Tail(s))
           /\ Range(Tail(s)) \subseteq Range(s) \ {Head(s)}
<1>1. Len(s) \in Nat \ {0} /\ DOMAIN s = 1..Len(s) /\ Head(s) = s[1]
  OBVIOUS
<1>2. /\ Tail(s) \in Seq(S) /\ Len(Tail(s)) = Len(s) - 1
      /\ \A i \in 1..(Len(s) - 1) : Tail(s)[i] = s[i + 1]
  BY <1>1
<1>3. DOMAIN Tail(s) = 1..(Len(s) - 1)
  BY <1>2
<1> QED
  BY <1>1, <1>2, <1>3 DEF Range, IsInjective

\* The head and the tail are all of a queue.
LEMMA TailCovers ==
    ASSUME NEW S, NEW s \in Seq(S), s # <<>>
    PROVE  Range(s) \subseteq Range(Tail(s)) \cup {Head(s)}
<1>1. Len(s) \in Nat \ {0} /\ DOMAIN s = 1..Len(s) /\ Head(s) = s[1]
  OBVIOUS
<1>2. /\ DOMAIN Tail(s) = 1..(Len(s) - 1)
      /\ \A i \in 1..(Len(s) - 1) : Tail(s)[i] = s[i + 1]
  BY <1>1
<1>3. ASSUME NEW i \in 1..Len(s), i # 1 PROVE s[i] \in Range(Tail(s))
  <2>1. i - 1 \in DOMAIN Tail(s) /\ Tail(s)[i - 1] = s[i]
    BY <1>1, <1>2, <1>3
  <2> QED
    BY <2>1 DEF Range
<1> QED
  BY <1>1, <1>3 DEF Range

\* A new record at the end of the queue.
LEMMA AppendNew ==
    ASSUME NEW S, NEW s \in Seq(S), NEW r \in S
    PROVE  /\ Append(s, r) \in Seq(S) /\ Len(Append(s, r)) = Len(s) + 1
           /\ Range(Append(s, r)) = Range(s) \cup {r}
           /\ IsInjective(s) /\ r \notin Range(s) => IsInjective(Append(s, r))
<1> DEFINE t == Append(s, r)
<1>1. /\ t \in Seq(S) /\ Len(t) = Len(s) + 1
      /\ \A i \in 1..Len(s) : t[i] = s[i]
      /\ t[Len(s) + 1] = r
  OBVIOUS
<1>2. DOMAIN s = 1..Len(s) /\ DOMAIN t = 1..(Len(s) + 1)
  BY <1>1
<1> HIDE DEF t
<1>3. Range(t) = Range(s) \cup {r}
  BY <1>1, <1>2 DEF Range
<1>4. IsInjective(s) /\ r \notin Range(s) => IsInjective(t)
  BY <1>1, <1>2 DEF Range, IsInjective
<1> QED
  BY <1>1, <1>3, <1>4 DEF t

-----------------------------------------------------------------------------
(* Type correctness                                                         *)

\* What _drain dequeues is a batch, and what it leaves is a queue.
LEMMA DrainTypes ==
    ASSUME TypeOK, NEW d \in Workers, DrainTakes(d)
    PROVE  /\ queue' \in Seq(Records) /\ Len(queue') <= QueueSize
           /\ hand' \in [Workers -> Seq(Records)]
           /\ \A w \in Workers : Len(hand'[w]) <= BatchSize
           /\ pc' = [pc EXCEPT ![d] = "returned"] \/ pc' = [pc EXCEPT ![d] = "write"]
<1> DEFINE n == Smaller(BatchSize, Len(queue))
<1>1. n \in 0..Len(queue) /\ n <= BatchSize
  BY SizesAssumption DEF TypeOK, Smaller
<1>2. /\ queue' = SubSeq(queue, n + 1, Len(queue))
      /\ hand' = [hand EXCEPT ![d] = SubSeq(queue, 1, n)]
      /\ pc' = [pc EXCEPT ![d] = IF n = 0 THEN "returned" ELSE "write"]
  BY DEF DrainTakes
<1> HIDE DEF n
<1>3. /\ SubSeq(queue, n + 1, Len(queue)) \in Seq(Records)
      /\ Len(SubSeq(queue, n + 1, Len(queue))) = Len(queue) - n
      /\ SubSeq(queue, 1, n) \in Seq(Records) /\ Len(SubSeq(queue, 1, n)) = n
  BY <1>1 DEF TypeOK
<1>4. Len(queue') <= QueueSize /\ queue' \in Seq(Records)
  BY <1>1, <1>2, <1>3, SizesAssumption DEF TypeOK
<1>5. hand' \in [Workers -> Seq(Records)] /\ \A w \in Workers : Len(hand'[w]) <= BatchSize
  BY <1>1, <1>2, <1>3 DEF TypeOK
<1> QED
  BY <1>2, <1>4, <1>5

\* What _collect returns is a batch, and what it leaves is a queue.
LEMMA CollectTypes ==
    ASSUME TypeOK
    PROVE  /\ Rest \in 0..Len(queue)
           /\ SubSeq(queue, Rest + 1, Len(queue)) \in Seq(Records)
           /\ Len(SubSeq(queue, Rest + 1, Len(queue))) <= QueueSize
           /\ Collected \in Seq(Records) /\ Len(Collected) <= BatchSize
<1>1. /\ Len(getter) \in Nat /\ Len(getter) <= 1 /\ Len(queue) \in Nat
      /\ BatchSize \in Nat /\ BatchSize >= 1 /\ QueueSize \in Nat
  BY SizesAssumption DEF TypeOK
<1>2. Rest \in 0..Len(queue) /\ Rest + Len(getter) <= BatchSize
  <2>1. CASE BatchSize - Len(getter) < Len(queue)
    BY <1>1, <2>1 DEF Rest, Smaller
  <2>2. CASE ~(BatchSize - Len(getter) < Len(queue))
    BY <1>1, <2>2 DEF Rest, Smaller
  <2> QED
    BY <2>1, <2>2
<1>3. /\ SubSeq(queue, Rest + 1, Len(queue)) \in Seq(Records)
      /\ Len(SubSeq(queue, Rest + 1, Len(queue))) = Len(queue) - Rest
      /\ SubSeq(queue, 1, Rest) \in Seq(Records) /\ Len(SubSeq(queue, 1, Rest)) = Rest
  BY <1>2 DEF TypeOK
<1>4. Len(SubSeq(queue, Rest + 1, Len(queue))) <= QueueSize
  BY <1>1, <1>2, <1>3 DEF TypeOK
<1>5. Collected \in Seq(Records) /\ Len(Collected) = Len(getter) + Rest
  BY <1>3 DEF Collected, TypeOK
<1> QED
  BY <1>1, <1>2, <1>3, <1>4, <1>5

\* Whatever the database answers, the table and the counters keep their types.
LEMMA WriteTypes ==
    ASSUME TypeOK, NEW w \in Workers, WriteReturns(w)
    PROVE  /\ rows' \in Seq(Records)
           /\ stats' \in [queued : 0..MaxRecords, written : Nat, dropped : Nat, failed : Nat]
           /\ stats'.queued = stats.queued
<1>1. /\ hand[w] \in Seq(Records) /\ rows \in Seq(Records)
      /\ stats \in [queued : 0..MaxRecords, written : Nat, dropped : Nat, failed : Nat]
  BY DEF TypeOK
<1>2. rows \o hand[w] \in Seq(Records) /\ Len(hand[w]) \in Nat
  BY <1>1
<1>3. rows' \in {rows, rows \o hand[w]}
  BY DEF WriteReturns, WriteSucceeds, WriteFails
<1>4. \/ stats' = [stats EXCEPT !.written = @ + Len(hand[w])]
      \/ stats' = [stats EXCEPT !.failed = @ + Len(hand[w])]
  BY DEF WriteReturns, WriteSucceeds, WriteFails
<1> HIDE DEF TypeOK
<1>5. /\ stats' \in [queued : 0..MaxRecords, written : Nat, dropped : Nat, failed : Nat]
      /\ stats'.queued = stats.queued
  BY <1>1, <1>2, <1>4
<1> QED
  BY <1>1, <1>2, <1>3, <1>5

\* The history of a call names records that have been accepted.
LEMMA SnapshotType ==
    ASSUME TypeOK
    PROVE  Snapshot \in [all : SUBSET Records, batch : SUBSET Records]
<1>1. Range(queue) \subseteq Records /\ Range(getter) \subseteq Records
  BY DEF TypeOK, Range
<1>2. \A w \in Workers : Held(w) \subseteq Records
  BY DEF TypeOK, Held, Range
<1>3. InFlight \subseteq Records
  BY <1>1, <1>2 DEF InFlight
<1> QED
  BY <1>2, <1>3 DEF Snapshot, Workers

LEMMA TypeStep == TypeOK /\ [Next]_vars => TypeOK'
<1> SUFFICES ASSUME TypeOK, [Next]_vars PROVE TypeOK'
  OBVIOUS
<1> USE DEF Drainers, Workers
<1>1. CASE Record
  <2>1. stats.queued + 1 \in Records
    BY <1>1, SizesAssumption DEF Record, TypeOK, Records
  <2>2. queue' \in Seq(Records) /\ Len(queue') <= QueueSize
    <3>1. CASE Len(queue) < QueueSize /\ queue' = Append(queue, stats.queued + 1)
      BY <2>1, <3>1, SizesAssumption DEF TypeOK
    <3>2. CASE Len(queue) >= QueueSize /\ queue' = Append(Tail(queue), stats.queued + 1)
      <4>1. queue # <<>> /\ queue \in Seq(Records) /\ Len(queue) = QueueSize
        BY <3>2, SizesAssumption DEF TypeOK
      <4> QED
        BY <2>1, <3>2, <4>1, SizesAssumption
    <3> QED
      BY <1>1, <3>1, <3>2 DEF Record, RoomMade
  <2>3. stats' \in [queued : 0..MaxRecords, written : Nat, dropped : Nat, failed : Nat]
    <3>1. /\ stats \in [queued : 0..MaxRecords, written : Nat, dropped : Nat, failed : Nat]
      BY DEF TypeOK
    <3>2. stats.queued + 1 \in 0..MaxRecords /\ stats.dropped + 1 \in Nat
      BY <1>1, <3>1, SizesAssumption DEF Record
    <3>3. \/ stats' = [stats EXCEPT !.queued = @ + 1]
          \/ stats' = [stats EXCEPT !.queued = @ + 1, !.dropped = @ + 1]
      BY <1>1 DEF Record
    <3> QED
      BY <3>1, <3>2, <3>3
  <2> QED
    BY <1>1, <2>2, <2>3 DEF Record, TypeOK
<1>2. CASE GetterTakes
  <2>1. queue # <<>> /\ queue \in Seq(Records) /\ QueueSize \in Nat /\ Len(queue) <= QueueSize
    BY <1>2, SizesAssumption DEF GetterTakes, TypeOK
  <2>2. /\ Tail(queue) \in Seq(Records) /\ Len(Tail(queue)) <= QueueSize
        /\ <<Head(queue)>> \in Seq(Records) /\ Len(<<Head(queue)>>) = 1
    BY <2>1
  <2> QED
    BY <1>2, <2>2 DEF GetterTakes, TypeOK
<1>3. CASE CollectReturns
  <2>1. /\ queue' \in Seq(Records) /\ Len(queue') <= QueueSize
        /\ getter' \in Seq(Records) /\ Len(getter') <= 1
    BY <1>3, CollectTypes DEF CollectReturns
  <2>2. hand' \in [Workers -> Seq(Records)] /\ \A w \in Workers : Len(hand'[w]) <= BatchSize
    BY <1>3, CollectTypes DEF CollectReturns, TypeOK
  <2>3. /\ pc' = [pc EXCEPT ![Writer] = "write"] \/ pc' = [pc EXCEPT ![Writer] = "lock"]
        /\ waiters' = waiters \/ waiters' = Append(waiters, Writer)
        /\ locked' = TRUE \/ locked' = locked
    BY <1>3 DEF CollectReturns
  <2>4. waiters' \in Seq(Flushers \cup {Writer})
    <3> DEFINE W == Flushers \cup {Writer}
    <3>1. waiters \in Seq(W) /\ Writer \in W
      BY DEF TypeOK
    <3> HIDE DEF W
    <3>2. waiters' \in Seq(W)
      BY <2>3, <3>1, AppendNew
    <3> QED
      BY <3>2 DEF W
  <2> QED
    BY <1>3, <2>1, <2>2, <2>3, <2>4 DEF CollectReturns, TypeOK
<1>4. CASE CollectReturnsEmpty
  BY <1>4 DEF CollectReturnsEmpty, TypeOK
<1>5. CASE WriterAcquires
  BY <1>5 DEF WriterAcquires, TypeOK
<1>6. CASE WriterFinishes
  <2>1. WriteReturns(Writer)
    BY <1>6 DEF WriterFinishes
  <2>2. hand' \in [Workers -> Seq(Records)] /\ \A w \in Workers : Len(hand'[w]) <= BatchSize
    BY <1>6, SizesAssumption DEF WriterFinishes, TypeOK
  <2> QED
    BY <1>6, <2>1, <2>2, WriteTypes DEF WriterFinishes, TypeOK
<1>7. ASSUME NEW d \in Drainers, DrainFinishes(d) PROVE TypeOK'
  <2>1. WriteReturns(d)
    BY <1>7 DEF DrainFinishes
  <2>2. /\ queue' \in Seq(Records) /\ Len(queue') <= QueueSize
        /\ hand' \in [Workers -> Seq(Records)]
        /\ \A w \in Workers : Len(hand'[w]) <= BatchSize
        /\ pc' = [pc EXCEPT ![d] = "returned"] \/ pc' = [pc EXCEPT ![d] = "write"]
    <3>1. CASE DrainTakes(d)
      BY <3>1, DrainTypes
    <3>2. CASE /\ hand' = [hand EXCEPT ![d] = <<>>]
               /\ pc' = [pc EXCEPT ![d] = "returned"]
               /\ UNCHANGED queue
      BY <3>2, SizesAssumption DEF TypeOK
    <3> QED
      BY <1>7, <3>1, <3>2 DEF DrainFinishes
  <2> QED
    BY <1>7, <2>1, <2>2, WriteTypes DEF DrainFinishes, TypeOK
<1>8. CASE Start
  BY <1>8 DEF Start, TypeOK
<1>9. CASE StopAsks
  BY <1>9, SnapshotType DEF StopAsks, TypeOK
<1>10. CASE StopDrains
  BY <1>10, SnapshotType, DrainTypes DEF StopDrains, TypeOK
<1>11. CASE StopTimesOut
  BY <1>11 DEF StopTimesOut, TypeOK
<1>12. CASE WriterUnwinds
  <2>1. /\ hand[Writer] \in Seq(Records) /\ Len(hand[Writer]) \in Nat
        /\ rows \in Seq(Records) /\ lost \in Nat
    BY DEF TypeOK
  <2>2. rows \o hand[Writer] \in Seq(Records)
    BY <2>1
  <2>3. /\ rows' \in {rows, rows \o hand[Writer]}
        /\ lost' = lost + Len(hand[Writer])
    BY <1>12 DEF WriterUnwinds
  <2>4. rows' \in Seq(Records)
    BY <2>1, <2>2, <2>3
  <2>5. lost' \in Nat
    BY <2>1, <2>3
  <2>6. hand' \in [Workers -> Seq(Records)] /\ \A w \in Workers : Len(hand'[w]) <= BatchSize
    BY <1>12, SizesAssumption DEF WriterUnwinds, TypeOK
  <2> QED
    BY <1>12, <2>4, <2>5, <2>6 DEF WriterUnwinds, TypeOK
<1>13. CASE StopJoins
  BY <1>13, DrainTypes DEF StopJoins, TypeOK
<1>14. ASSUME NEW f \in Flushers, FlushCalled(f) PROVE TypeOK'
  <2>1. before' \in [Drainers -> [all : SUBSET Records, batch : SUBSET Records]]
    BY <1>14, SnapshotType DEF FlushCalled, TypeOK
  <2>2. CASE DrainTakes(f) /\ UNCHANGED waiters
    BY <1>14, <2>1, <2>2, DrainTypes DEF FlushCalled, TypeOK
  <2>3. CASE /\ waiters' = Append(waiters, f)
             /\ pc' = [pc EXCEPT ![f] = "lock"]
             /\ UNCHANGED <<queue, hand>>
    BY <1>14, <2>1, <2>3 DEF FlushCalled, TypeOK
  <2> QED
    BY <1>14, <2>2, <2>3 DEF FlushCalled
<1>15. ASSUME NEW f \in Flushers, FlushAcquires(f) PROVE TypeOK'
  <2>1. waiters' \in Seq(Flushers \cup {Writer})
    BY <1>15 DEF FlushAcquires, TypeOK
  <2> QED
    BY <1>15, <2>1, DrainTypes DEF FlushAcquires, TypeOK
<1>16. CASE UNCHANGED vars
  BY <1>16 DEF vars, TypeOK
<1> QED
  BY <1>1, <1>2, <1>3, <1>4, <1>5, <1>6, <1>7, <1>8, <1>9, <1>10, <1>11, <1>12,
     <1>13, <1>14, <1>15, <1>16
     DEF Next, LoopStep, DatabaseStep, Call

LEMMA TypeInit == Init => TypeOK
<1> SUFFICES ASSUME Init PROVE TypeOK
  OBVIOUS
<1>1. /\ queue \in Seq(Records) /\ Len(queue) <= QueueSize
      /\ getter \in Seq(Records) /\ Len(getter) <= 1
  BY SizesAssumption DEF Init
<1>2. /\ hand \in [Workers -> Seq(Records)]
      /\ \A w \in Workers : Len(hand[w]) <= BatchSize
  BY SizesAssumption DEF Init
<1>3. stats \in [queued : 0..MaxRecords, written : Nat, dropped : Nat, failed : Nat]
  BY SizesAssumption DEF Init
<1>4. pc \in [Workers -> {"collect", "lock", "write", "cancelled", "done", "join", "returned"}]
  BY DEF Init
<1>5. before \in [Drainers -> [all : SUBSET Records, batch : SUBSET Records]]
  BY DEF Init
<1>6. rows \in Seq(Records) /\ waiters \in Seq(Flushers \cup {Writer}) /\ lost \in Nat
  BY DEF Init
<1> QED
  BY <1>1, <1>2, <1>3, <1>4, <1>5, <1>6 DEF Init, TypeOK

\* Every reachable state is well typed: in particular the queue of the audit
\* service never holds more than its maxsize, and no batch exceeds BatchSize.
THEOREM TypeCorrect == Spec => []TypeOK
  BY TypeInit, TypeStep, PTL DEF Spec

-----------------------------------------------------------------------------
(* A record is in one place at a time                                       *)

\* The records accepted so far.
Accepted == 1..stats.queued

\* The strengthening of NoRecordTwice that is inductive: every place holds
\* accepted records only, so the next one accepted is in none of them.
Places ==
    /\ IsInjective(rows) /\ IsInjective(queue)
    /\ \A w \in Workers : IsInjective(hand[w])
    /\ Range(rows) \cap Range(queue) = {}
    /\ Range(rows) \cap Range(getter) = {}
    /\ Range(queue) \cap Range(getter) = {}
    /\ \A w \in Workers : /\ Held(w) \cap Range(rows) = {}
                          /\ Held(w) \cap Range(queue) = {}
                          /\ Held(w) \cap Range(getter) = {}
    /\ \A v, w \in Workers : v # w => Held(v) \cap Held(w) = {}
    /\ Range(rows) \subseteq Accepted /\ Range(queue) \subseteq Accepted
    /\ Range(getter) \subseteq Accepted
    /\ \A w \in Workers : Held(w) \subseteq Accepted

IInv == TypeOK /\ Places

\* A worker gives its batch up, perhaps to the table, and takes another from
\* the queue and the getter, perhaps an empty one.
LEMMA BatchMoves ==
    ASSUME IInv, NEW d \in Workers, NEW batch,
           hand' = [hand EXCEPT ![d] = batch], IsInjective(batch),
           IsInjective(queue'), Range(queue') \subseteq Range(queue),
           Range(getter') \subseteq Range(getter),
           Range(batch) \subseteq Range(queue) \cup Range(getter),
           Range(batch) \cap Range(queue') = {},
           Range(batch) \cap Range(getter') = {},
           IsInjective(rows'), Range(rows') \subseteq Range(rows) \cup Held(d),
           stats'.queued = stats.queued
    PROVE  Places'
<1>1. \A w \in Workers : hand'[w] = IF w = d THEN batch ELSE hand[w]
  BY DEF IInv, TypeOK
<1>2. \A w \in Workers : Held(w)' = IF w = d THEN Range(batch) ELSE Held(w)
  BY <1>1 DEF Held
<1>3. Accepted' = Accepted
  BY DEF Accepted
<1>4. \A w \in Workers : IsInjective(hand'[w])
  BY <1>1 DEF IInv, Places
<1>5. /\ Range(rows') \cap Range(queue') = {}
      /\ Range(rows') \cap Range(getter') = {}
      /\ Range(queue') \cap Range(getter') = {}
  BY DEF IInv, Places
<1>6. ASSUME NEW w \in Workers
      PROVE  /\ Held(w)' \cap Range(rows') = {}
             /\ Held(w)' \cap Range(queue') = {}
             /\ Held(w)' \cap Range(getter') = {}
             /\ Held(w)' \subseteq Accepted
  <2>1. CASE w = d
    BY <1>2, <2>1 DEF IInv, Places
  <2>2. CASE w # d
    BY <1>2, <2>2 DEF IInv, Places
  <2> QED
    BY <2>1, <2>2
<1>7. ASSUME NEW v \in Workers, NEW w \in Workers, v # w
      PROVE  Held(v)' \cap Held(w)' = {}
  <2>1. CASE v = d
    BY <1>2, <1>7, <2>1 DEF IInv, Places
  <2>2. CASE w = d
    BY <1>2, <1>7, <2>2 DEF IInv, Places
  <2>3. CASE v # d /\ w # d
    BY <1>2, <1>7, <2>3 DEF IInv, Places
  <2> QED
    BY <2>1, <2>2, <2>3
<1>8. /\ Range(rows') \subseteq Accepted /\ Range(queue') \subseteq Accepted
      /\ Range(getter') \subseteq Accepted
  BY DEF IInv, Places
<1> QED
  BY <1>3, <1>4, <1>5, <1>6, <1>7, <1>8 DEF Places

\* The rows a write leaves: those that were there, perhaps with the batch.
LEMMA RowsLand ==
    ASSUME IInv, NEW w \in Workers, rows' \in {rows, rows \o hand[w]}
    PROVE  IsInjective(rows') /\ Range(rows') \subseteq Range(rows) \cup Held(w)
<1>1. /\ rows \in Seq(Records) /\ hand[w] \in Seq(Records)
      /\ IsInjective(rows) /\ IsInjective(hand[w])
      /\ Range(rows) \cap Range(hand[w]) = {}
  BY DEF IInv, TypeOK, Places, Held
<1>2. CASE rows' = rows
  BY <1>1, <1>2
<1>3. CASE rows' = rows \o hand[w]
  BY <1>1, <1>3, JoinSequences DEF Held
<1> QED
  BY <1>2, <1>3

\* What _drain dequeues and what it leaves.
LEMMA DrainMoves ==
    ASSUME IInv, NEW d \in Workers, DrainTakes(d), getter' = getter,
           IsInjective(rows'), Range(rows') \subseteq Range(rows) \cup Held(d),
           stats'.queued = stats.queued
    PROVE  Places'
<1> DEFINE n == Smaller(BatchSize, Len(queue))
           batch == SubSeq(queue, 1, n)
           left  == SubSeq(queue, n + 1, Len(queue))
<1>1. n \in 0..Len(queue)
  BY SizesAssumption DEF IInv, TypeOK, Smaller
<1>2. queue' = left /\ hand' = [hand EXCEPT ![d] = batch]
  BY DEF DrainTakes
<1>3. queue \in Seq(Records) /\ IsInjective(queue) /\ Range(queue) \cap Range(getter) = {}
  BY DEF IInv, TypeOK, Places
<1> HIDE DEF n
<1>4. /\ IsInjective(batch) /\ IsInjective(left)
      /\ Range(batch) \subseteq Range(queue) /\ Range(left) \subseteq Range(queue)
      /\ Range(batch) \cap Range(left) = {}
  BY <1>1, <1>3, SplitSequence
<1> HIDE DEF batch, left
<1> QED
  BY <1>2, <1>3, <1>4, BatchMoves

\* No element, no repetition.
LEMMA EmptySequence == IsInjective(<<>>) /\ Range(<<>>) = {}
  BY DEF IsInjective, Range

\* A worker lets go of its batch.
LEMMA BatchReleased ==
    ASSUME IInv, NEW w \in Workers, hand' = [hand EXCEPT ![w] = <<>>],
           queue' = queue, getter' = getter,
           IsInjective(rows'), Range(rows') \subseteq Range(rows) \cup Held(w),
           stats'.queued = stats.queued
    PROVE  Places'
<1>1. IsInjective(queue')
  BY DEF IInv, Places
<1> QED
  BY <1>1, EmptySequence, BatchMoves

\* The new record is in no place yet.
LEMMA RecordKeepsPlaces == IInv /\ Record => Places'
<1> SUFFICES ASSUME IInv, Record PROVE Places'
  OBVIOUS
<1> DEFINE r == stats.queued + 1
<1>1. /\ queue \in Seq(Records) /\ stats.queued \in Nat /\ r \in Records
      /\ stats'.queued = r
      /\ UNCHANGED <<getter, hand, rows>>
  <2>1. /\ queue \in Seq(Records)
        /\ stats \in [queued : 0..MaxRecords, written : Nat, dropped : Nat, failed : Nat]
    BY DEF IInv, TypeOK
  <2>2. stats.queued \in Nat /\ r \in Records
    BY <2>1, SizesAssumption DEF Record, Records
  <2>3. stats'.queued = r
    BY <2>1 DEF Record
  <2> QED
    BY <2>1, <2>2, <2>3 DEF Record
<1>2. Accepted \subseteq Accepted' /\ r \in Accepted' /\ r \notin Accepted
  BY <1>1 DEF Accepted
<1>3. /\ r \notin Range(queue) /\ r \notin Range(getter) /\ r \notin Range(rows)
      /\ \A w \in Workers : r \notin Held(w)
  BY <1>2 DEF IInv, Places
<1>4. IsInjective(queue') /\ Range(queue') \subseteq Range(queue) \cup {r}
  <2>1. CASE queue' = Append(queue, r)
    BY <1>1, <1>3, <2>1, AppendNew DEF IInv, Places
  <2>2. CASE Len(queue) >= QueueSize /\ queue' = Append(Tail(queue), r)
    <3>1. queue # <<>> /\ IsInjective(queue)
      BY <2>2, SizesAssumption DEF IInv, Places
    <3>2. /\ Tail(queue) \in Seq(Records) /\ IsInjective(Tail(queue))
          /\ Range(Tail(queue)) \subseteq Range(queue)
      BY <1>1, <3>1, HeadAndTail
    <3>3. r \notin Range(Tail(queue))
      BY <1>3, <3>2
    <3> DEFINE t == Tail(queue)
    <3>4. t \in Seq(Records) /\ IsInjective(t) /\ r \notin Range(t) /\ r \in Records
      BY <1>1, <3>2, <3>3
    <3>5. queue' = Append(t, r) /\ Range(t) \subseteq Range(queue)
      BY <2>2, <3>2
    <3> HIDE DEF r, t
    <3>6. IsInjective(Append(t, r)) /\ Range(Append(t, r)) = Range(t) \cup {r}
      BY <3>4, AppendNew
    <3> QED
      BY <3>5, <3>6
  <2> QED
    BY <2>1, <2>2 DEF Record, RoomMade
<1>5. \A w \in Workers : Held(w)' = Held(w)
  BY <1>1 DEF Held
<1> HIDE DEF r
<1> QED
  BY <1>1, <1>2, <1>3, <1>4, <1>5 DEF IInv, Places

\* The record moves from the queue to the getter.
LEMMA GetterKeepsPlaces == IInv /\ GetterTakes => Places'
<1> SUFFICES ASSUME IInv, GetterTakes PROVE Places'
  OBVIOUS
<1>1. /\ queue \in Seq(Records) /\ queue # <<>> /\ IsInjective(queue)
      /\ getter' = <<Head(queue)>> /\ queue' = Tail(queue)
      /\ UNCHANGED <<hand, rows, stats>>
  BY DEF IInv, TypeOK, Places, GetterTakes
<1>2. /\ Head(queue) \in Range(queue) /\ IsInjective(Tail(queue))
      /\ Range(Tail(queue)) \subseteq Range(queue) \ {Head(queue)}
  BY <1>1, HeadAndTail
<1>3. Range(getter') = {Head(queue)}
  BY <1>1 DEF Range
<1>4. Accepted' = Accepted /\ \A w \in Workers : Held(w)' = Held(w)
  BY <1>1 DEF Accepted, Held
<1> QED
  BY <1>1, <1>2, <1>3, <1>4 DEF IInv, Places

\* _collect makes a batch of the getter's record and the front of the queue.
LEMMA CollectKeepsPlaces == IInv /\ CollectReturns => Places'
<1> SUFFICES ASSUME IInv, CollectReturns PROVE Places'
  OBVIOUS
<1> DEFINE front == SubSeq(queue, 1, Rest)
           left  == SubSeq(queue, Rest + 1, Len(queue))
<1>1. /\ queue' = left /\ hand' = [hand EXCEPT ![Writer] = Collected]
      /\ getter' = <<>> /\ UNCHANGED <<rows, stats>>
  BY DEF CollectReturns
<1>2. /\ queue \in Seq(Records) /\ IsInjective(queue)
      /\ getter \in Seq(Records) /\ Len(getter) <= 1
      /\ Range(queue) \cap Range(getter) = {}
      /\ IsInjective(rows)
  BY DEF IInv, TypeOK, Places
<1>3. Rest \in 0..Len(queue)
  BY CollectTypes DEF IInv
<1>4. /\ front \in Seq(Records) /\ IsInjective(front) /\ IsInjective(left)
      /\ Range(front) \subseteq Range(queue) /\ Range(left) \subseteq Range(queue)
      /\ Range(front) \cap Range(left) = {}
  BY <1>2, <1>3, SplitSequence
<1>5. Collected = getter \o front
  BY DEF Collected
<1> HIDE DEF front, left
<1>6. IsInjective(getter)
  BY <1>2 DEF IsInjective
<1>7. IsInjective(Collected) /\ Range(Collected) = Range(getter) \cup Range(front)
  BY <1>2, <1>4, <1>5, <1>6, JoinSequences
<1> QED
  BY <1>1, <1>2, <1>4, <1>7, EmptySequence, BatchMoves DEF Workers

LEMMA PlacesStep == IInv /\ [Next]_vars => Places'
<1> SUFFICES ASSUME IInv, [Next]_vars PROVE Places'
  OBVIOUS
<1> USE DEF Drainers, Workers
<1>0. IsInjective(rows)
  BY DEF IInv, Places
<1>1. CASE Record
  BY <1>1, RecordKeepsPlaces
<1>2. CASE GetterTakes
  BY <1>2, GetterKeepsPlaces
<1>3. CASE CollectReturns
  BY <1>3, CollectKeepsPlaces
<1>4. CASE UNCHANGED <<queue, getter, hand, rows, stats>>
  BY <1>4 DEF IInv, Places, Accepted, Held
<1>5. CASE WriterFinishes
  <2>1. rows' \in {rows, rows \o hand[Writer]} /\ stats'.queued = stats.queued
    BY <1>5, WriteTypes DEF WriterFinishes, WriteReturns, WriteSucceeds, WriteFails, IInv
  <2> QED
    BY <1>5, <2>1, RowsLand, BatchReleased DEF WriterFinishes
<1>6. ASSUME NEW d \in Drainers, DrainFinishes(d) PROVE Places'
  <2>1. rows' \in {rows, rows \o hand[d]} /\ stats'.queued = stats.queued /\ getter' = getter
    BY <1>6, WriteTypes DEF DrainFinishes, WriteReturns, WriteSucceeds, WriteFails, IInv
  <2>2. IsInjective(rows') /\ Range(rows') \subseteq Range(rows) \cup Held(d)
    BY <2>1, RowsLand
  <2>3. CASE DrainTakes(d)
    BY <2>1, <2>2, <2>3, DrainMoves
  <2>4. CASE hand' = [hand EXCEPT ![d] = <<>>] /\ UNCHANGED queue
    BY <2>1, <2>2, <2>4, BatchReleased
  <2> QED
    BY <1>6, <2>3, <2>4 DEF DrainFinishes
<1>7. CASE WriterUnwinds
  <2>1. rows' \in {rows, rows \o hand[Writer]} /\ stats'.queued = stats.queued
    BY <1>7 DEF WriterUnwinds
  <2> QED
    BY <1>7, <2>1, RowsLand, BatchReleased DEF WriterUnwinds
<1>8. ASSUME NEW d \in Drainers, DrainTakes(d), UNCHANGED <<getter, rows, stats>> PROVE Places'
  BY <1>0, <1>8, DrainMoves
<1>9. ASSUME NEW f \in Flushers, FlushCalled(f) PROVE Places'
  BY <1>4, <1>8, <1>9 DEF FlushCalled
<1>10. \/ CollectReturnsEmpty \/ WriterAcquires \/ Start \/ StopAsks \/ StopTimesOut
       \/ UNCHANGED vars
       => UNCHANGED <<queue, getter, hand, rows, stats>>
  BY DEF CollectReturnsEmpty, WriterAcquires, Start, StopAsks, StopTimesOut, vars
<1>11. ASSUME StopDrains \/ StopJoins \/ \E f \in Flushers : FlushAcquires(f)
       PROVE  Places'
  BY <1>8, <1>11 DEF StopDrains, StopJoins, FlushAcquires
<1> QED
  BY <1>1, <1>2, <1>3, <1>4, <1>5, <1>6, <1>7, <1>9, <1>10, <1>11
     DEF Next, LoopStep, DatabaseStep, Call

LEMMA InvInit == Init => IInv
<1> SUFFICES ASSUME Init PROVE Places
  BY TypeInit DEF IInv
<1>1. rows = <<>> /\ queue = <<>> /\ getter = <<>> /\ \A w \in Workers : hand[w] = <<>>
  BY DEF Init
<1> QED
  BY <1>1, EmptySequence DEF Places, Held

\* A place holds what no other place holds.
LEMMA PlacesImply == Places => NoRecordTwice
<1> SUFFICES ASSUME Places PROVE NoRecordTwice
  OBVIOUS
<1>1. Range(rows) \cap InFlight = {}
  BY DEF Places, InFlight
<1> QED
  BY <1>1 DEF Places, NoRecordTwice

\* In every reachable state, whatever the sizes and however many coroutines
\* flush while stop and the writer run, each record is in at most one place
\* and has at most one row.
THEOREM RecordOnce == Spec => []NoRecordTwice
<1>1. IInv /\ [Next]_vars => IInv'
  BY TypeStep, PlacesStep DEF IInv
<1>2. Spec => []IInv
  BY <1>1, InvInit, PTL DEF Spec
<1>3. IInv => NoRecordTwice
  BY PlacesImply DEF IInv
<1> QED
  BY <1>2, <1>3, PTL

-----------------------------------------------------------------------------
(* Nothing is lost uncounted                                                *)

\* A sequence without repetitions has as many elements as positions.
LEMMA SequenceSize ==
    ASSUME NEW S, NEW s \in Seq(S), IsInjective(s)
    PROVE  IsFiniteSet(Range(s)) /\ Cardinality(Range(s)) = Len(s)
<1>1. Len(s) \in Nat /\ DOMAIN s = 1..Len(s) /\ s \in [1..Len(s) -> Range(s)]
  BY DEF Range
<1>2. s \in Bijection(1..Len(s), Range(s))
  <2>1. \A i, j \in 1..Len(s) : s[i] = s[j] => i = j
    BY <1>1 DEF IsInjective
  <2>2. \A r \in Range(s) : \E i \in 1..Len(s) : s[i] = r
    BY <1>1 DEF Range
  <2> QED
    BY <1>1, <2>1, <2>2 DEF Bijection, Injection, Surjection, IsInjective
<1>3. IsFiniteSet(1..Len(s)) /\ Cardinality(1..Len(s)) = Len(s)
  BY <1>1, FS_Interval
<1> QED
  BY <1>2, <1>3, FS_Bijection DEF ExistsBijection

\* A queue is what is dequeued and what is left.
LEMMA SplitCovers ==
    ASSUME NEW S, NEW s \in Seq(S), NEW n \in 0..Len(s)
    PROVE  Range(s) = Range(SubSeq(s, 1, n)) \cup Range(SubSeq(s, n + 1, Len(s)))
<1> DEFINE p == SubSeq(s, 1, n)
           q == SubSeq(s, n + 1, Len(s))
           m == Len(s) - n
<1>1. Len(s) \in Nat /\ n \in Nat /\ m \in Nat /\ n + m = Len(s)
  OBVIOUS
<1>2. p \in Seq(S) /\ Len(p) = n /\ \A i \in 1..n : p[i] = s[i]
  OBVIOUS
<1>3. q \in Seq(S) /\ Len(q) = m /\ \A i \in 1..m : q[i] = s[n + i]
  OBVIOUS
<1> HIDE DEF p, q, m
<1>4. DOMAIN s = 1..(n + m) /\ DOMAIN p = 1..n /\ DOMAIN q = 1..m
  <2>1. DOMAIN s = 1..Len(s) /\ DOMAIN p = 1..Len(p) /\ DOMAIN q = 1..Len(q)
    BY <1>2, <1>3
  <2> QED
    BY <1>1, <1>2, <1>3, <2>1
<1>5. ASSUME NEW i \in 1..(n + m)
      PROVE  (\E k \in 1..n : p[k] = s[i]) \/ (\E k \in 1..m : q[k] = s[i])
  <2>1. CASE i <= n
    <3>1. i \in 1..n BY <1>1, <2>1
    <3> QED BY <1>2, <3>1
  <2>2. CASE ~(i <= n)
    <3>1. i - n \in 1..m /\ n + (i - n) = i BY <1>1, <2>2
    <3> QED BY <1>3, <3>1
  <2> QED BY <2>1, <2>2
<1>6. \A k \in 1..n : k \in 1..(n + m)
  BY <1>1
<1>7. \A k \in 1..m : n + k \in 1..(n + m)
  BY <1>1
<1>8. Range(s) = Range(p) \cup Range(q)
  <2>1. Range(s) \subseteq Range(p) \cup Range(q)
    BY <1>4, <1>5 DEF Range
  <2>2. Range(p) \subseteq Range(s)
    BY <1>2, <1>4, <1>6 DEF Range
  <2>3. Range(q) \subseteq Range(s)
    BY <1>3, <1>4, <1>7 DEF Range
  <2> QED BY <2>1, <2>2, <2>3
<1> QED
  BY <1>8 DEF p, q

\* A worker that is not writing has no batch, a getter runs only while the
\* writer collects, there is no writer without a task, and stop drains only
\* after the writer is done.
Hands ==
    /\ \A d \in Drainers : pc[d] # "write" => hand[d] = <<>>
    /\ pc[Writer] \in {"collect", "done"} => hand[Writer] = <<>>
    /\ getter # <<>> => pc[Writer] = "collect"
    /\ ~task => pc[Writer] = "done"
    /\ pc[Stopper] = "write" => ~task

\* _drain leaves a batch in the hands of its caller only to write it.
LEMMA DrainHands ==
    ASSUME TypeOK, Hands, NEW d \in Drainers, DrainTakes(d), getter' = getter,
           d = Stopper => ~task', task' => task, ~task' => pc[Writer] = "done"
    PROVE  Hands'
<1> DEFINE n == Smaller(BatchSize, Len(queue))
           batch == SubSeq(queue, 1, n)
<1>1. /\ hand' = [hand EXCEPT ![d] = batch]
      /\ pc' = [pc EXCEPT ![d] = IF n = 0 THEN "returned" ELSE "write"]
  BY DEF DrainTakes
<1>2. n = 0 => batch = <<>>
  <2>1. n = 0 => batch \in Seq(Records) /\ Len(batch) = 0
    BY DEF TypeOK
  <2> QED
    BY <2>1
<1> HIDE DEF n, batch
<1>3. d # Writer /\ Writer \in Workers /\ Stopper \in Drainers /\ Drainers \subseteq Workers
  BY WorkersAssumption DEF Workers, Drainers
<1>4. /\ hand'[d] = batch /\ pc'[d] = IF n = 0 THEN "returned" ELSE "write"
      /\ \A w \in Workers \ {d} : hand'[w] = hand[w] /\ pc'[w] = pc[w]
  BY <1>1, <1>3 DEF TypeOK
<1>5. ASSUME NEW e \in Drainers, pc'[e] # "write" PROVE hand'[e] = <<>>
  <2>1. CASE e = d
    BY <1>2, <1>4, <1>5, <2>1
  <2>2. CASE e # d
    BY <1>3, <1>4, <1>5, <2>2 DEF Hands
  <2> QED
    BY <2>1, <2>2
<1>6. pc'[Writer] = pc[Writer] /\ hand'[Writer] = hand[Writer]
  BY <1>3, <1>4
<1>7. pc'[Stopper] = "write" => ~task'
  <2>1. CASE d = Stopper
    BY <2>1
  <2>2. CASE d # Stopper
    BY <1>3, <1>4, <2>2 DEF Hands
  <2> QED
    BY <2>1, <2>2
<1> QED
  BY <1>5, <1>6, <1>7 DEF Hands

LEMMA HandsStep == TypeOK /\ Hands /\ [Next]_vars => Hands'
<1> SUFFICES ASSUME TypeOK, Hands, [Next]_vars PROVE Hands'
  OBVIOUS
<1>0. /\ Writer \in Workers /\ Stopper \in Workers /\ Drainers \subseteq Workers
      /\ Writer \notin Drainers /\ Stopper \in Drainers /\ Writer # Stopper
  BY WorkersAssumption DEF Workers, Drainers
<1>1. CASE UNCHANGED <<getter, hand, pc, task>>
  BY <1>1 DEF Hands
<1>2. CASE GetterTakes
  BY <1>2 DEF GetterTakes, Hands
<1>3. CASE CollectReturns
  <2>1. /\ pc[Writer] = "collect" /\ pc'[Writer] \in {"write", "lock"} /\ getter' = <<>>
        /\ task' = task
        /\ \A d \in Drainers : hand'[d] = hand[d] /\ pc'[d] = pc[d]
    BY <1>0, <1>3 DEF CollectReturns, TypeOK
  <2> QED
    BY <1>0, <2>1 DEF Hands
<1>4. CASE CollectReturnsEmpty
  <2>1. /\ pc[Writer] = "collect" /\ pc'[Writer] \in {"collect", "done"}
        /\ UNCHANGED <<task, getter, hand>> /\ getter = <<>>
        /\ \A d \in Drainers : pc'[d] = pc[d]
    <3>1. getter \in Seq(Records) /\ SubSeq(queue, 1, Rest) \in Seq(Records)
      BY CollectTypes DEF TypeOK
    <3>2. getter = <<>>
      BY <1>4, <3>1 DEF CollectReturnsEmpty, Collected
    <3> QED
      BY <1>0, <1>4, <3>2 DEF CollectReturnsEmpty, TypeOK
  <2> QED
    BY <1>0, <2>1 DEF Hands
<1>5. ASSUME WriterAcquires \/ StopTimesOut PROVE Hands'
  <2>1. /\ pc[Writer] \in {"lock", "write"} /\ pc'[Writer] \in {"write", "cancelled"}
        /\ UNCHANGED <<task, getter, hand>>
        /\ \A d \in Drainers : pc'[d] = pc[d]
    BY <1>0, <1>5 DEF WriterAcquires, StopTimesOut, TypeOK
  <2> QED
    BY <1>0, <2>1 DEF Hands
<1>6. ASSUME WriterFinishes \/ WriterUnwinds PROVE Hands'
  <2>1. /\ pc[Writer] \in {"write", "cancelled"} /\ hand'[Writer] = <<>>
        /\ UNCHANGED <<task, getter>>
        /\ \A d \in Drainers : hand'[d] = hand[d] /\ pc'[d] = pc[d]
    BY <1>0, <1>6 DEF WriterFinishes, WriterUnwinds, WriteReturns, WriteSucceeds, WriteFails, TypeOK
  <2> QED
    BY <1>0, <2>1 DEF Hands
<1>7. ASSUME NEW d \in Drainers, DrainFinishes(d) PROVE Hands'
  <2>1. pc[d] = "write" /\ UNCHANGED <<getter, task>>
    BY <1>7 DEF DrainFinishes, WriteReturns, WriteSucceeds, WriteFails
  <2>2. CASE DrainTakes(d)
    BY <2>1, <2>2, DrainHands DEF Hands
  <2>3. CASE hand' = [hand EXCEPT ![d] = <<>>] /\ pc' = [pc EXCEPT ![d] = "returned"]
    <3>1. /\ hand'[d] = <<>> /\ pc'[d] = "returned"
          /\ \A w \in Workers \ {d} : hand'[w] = hand[w] /\ pc'[w] = pc[w]
      BY <1>0, <2>3 DEF TypeOK
    <3> QED
      BY <1>0, <2>1, <3>1 DEF Hands
  <2> QED
    BY <1>7, <2>2, <2>3 DEF DrainFinishes
<1>8. CASE Start
  <2>1. /\ pc[Stopper] = "returned" /\ pc'[Writer] = "collect" /\ pc[Writer] = "done"
        /\ UNCHANGED <<getter, hand>> /\ task'
        /\ \A d \in Drainers : pc'[d] = pc[d]
    BY <1>0, <1>8 DEF Start, TypeOK, Hands
  <2> QED
    BY <1>0, <2>1 DEF Hands
<1>9. CASE StopAsks
  <2>1. /\ pc[Stopper] = "returned" /\ pc'[Stopper] = "join"
        /\ UNCHANGED <<getter, hand, task>>
        /\ \A w \in Workers \ {Stopper} : pc'[w] = pc[w]
    BY <1>0, <1>9 DEF StopAsks, TypeOK
  <2> QED
    BY <1>0, <2>1 DEF Hands
<1>10. CASE StopDrains \/ StopJoins
  <2>1. /\ DrainTakes(Stopper) /\ getter' = getter /\ ~task' /\ pc[Writer] = "done"
    BY <1>10 DEF StopDrains, StopJoins, Hands
  <2> QED
    BY <1>0, <2>1, DrainHands
<1>11. ASSUME NEW f \in Flushers, FlushCalled(f) \/ FlushAcquires(f) PROVE Hands'
  <2>1. f \in Drainers /\ f # Stopper /\ UNCHANGED <<getter, task>>
    BY <1>11, WorkersAssumption DEF Drainers, FlushCalled, FlushAcquires
  <2>2. CASE DrainTakes(f)
    BY <2>1, <2>2, DrainHands DEF Hands
  <2>3. CASE FlushCalled(f) /\ pc' = [pc EXCEPT ![f] = "lock"] /\ UNCHANGED <<queue, hand>>
    <3>1. pc[f] = "returned" /\ pc'[f] = "lock" /\ \A w \in Workers \ {f} : pc'[w] = pc[w]
      BY <1>0, <2>1, <2>3 DEF FlushCalled, TypeOK
    <3> QED
      BY <1>0, <2>1, <2>3, <3>1 DEF Hands
  <2> QED
    BY <1>11, <2>2, <2>3 DEF FlushCalled, FlushAcquires
<1>12. Record \/ UNCHANGED vars => UNCHANGED <<getter, hand, pc, task>>
  BY DEF Record, vars
<1> QED
  BY <1>1, <1>2, <1>3, <1>4, <1>5, <1>6, <1>7, <1>8, <1>9, <1>10, <1>11, <1>12
     DEF Next, LoopStep, DatabaseStep, Call

LEMMA HandsInit == Init => Hands
  BY WorkersAssumption DEF Init, Hands, Workers, Drainers

LEMMA InFlightFinite ==
    ASSUME TypeOK
    PROVE  /\ InFlight \subseteq Records /\ IsFiniteSet(InFlight)
           /\ Cardinality(InFlight) \in Nat
<1>1. InFlight \subseteq Records
  BY SnapshotType DEF Snapshot
<1>2. IsFiniteSet(Records)
  BY SizesAssumption, FS_Interval DEF Records
<1> QED
  BY <1>1, <1>2, FS_Subset, FS_CardinalityType

\* When a worker gives up its batch for one from the queue and the getter, the
\* records of the first are the ones no longer in flight.
LEMMA BatchSettles ==
    ASSUME IInv, NEW d \in Workers, NEW batch, hand' = [hand EXCEPT ![d] = batch],
           Range(batch) \cup Range(queue') \cup Range(getter') = Range(queue) \cup Range(getter)
    PROVE  /\ InFlight' = InFlight \ Held(d)
           /\ Cardinality(InFlight') = Cardinality(InFlight) - Len(hand[d])
<1>1. \A w \in Workers : Held(w)' = IF w = d THEN Range(batch) ELSE Held(w)
  BY DEF IInv, TypeOK, Held
<1>2. /\ Held(d) \cap (Range(queue) \cup Range(getter)) = {}
      /\ \A w \in Workers \ {d} : Held(d) \cap Held(w) = {}
  BY DEF IInv, Places
<1> DEFINE Others == UNION {Held(w) : w \in Workers \ {d}}
<1>3. InFlight = Range(queue) \cup Range(getter) \cup Others \cup Held(d)
  BY DEF InFlight
<1>4. InFlight' = Range(queue) \cup Range(getter) \cup Others
  <2>1. UNION {Held(w)' : w \in Workers} = Range(batch) \cup Others
    BY <1>1
  <2>2. InFlight' = Range(queue') \cup Range(getter') \cup UNION {Held(w)' : w \in Workers}
    BY DEF InFlight
  <2> QED
    BY <2>1, <2>2
<1>5. Held(d) \cap Others = {}
  BY <1>2
<1> HIDE DEF Others
<1>6. InFlight' \cap Held(d) = {} /\ InFlight' \cup Held(d) = InFlight
  BY <1>2, <1>3, <1>4, <1>5
<1>7. IsFiniteSet(InFlight) /\ IsFiniteSet(InFlight') /\ IsFiniteSet(Held(d))
  BY <1>6, InFlightFinite, FS_Subset DEF IInv
<1>8. Cardinality(InFlight) = Cardinality(InFlight') + Cardinality(Held(d))
  <2>1. Cardinality(InFlight' \cup Held(d)) =
            Cardinality(InFlight') + Cardinality(Held(d)) - Cardinality(InFlight' \cap Held(d))
    BY <1>7, FS_Union
  <2>2. Cardinality(InFlight') \in Nat /\ Cardinality(Held(d)) \in Nat
    BY <1>7, FS_CardinalityType
  <2>3. Cardinality(InFlight' \cap Held(d)) = 0
    BY <1>6, FS_EmptySet
  <2>4. Cardinality(InFlight' \cup Held(d)) = Cardinality(InFlight)
    BY <1>6
  <2> QED
    BY <2>1, <2>2, <2>3, <2>4
<1>9. Cardinality(Held(d)) = Len(hand[d])
  BY SequenceSize DEF IInv, TypeOK, Places, Held
<1>10. Cardinality(InFlight') \in Nat /\ Cardinality(Held(d)) \in Nat
  BY <1>7, FS_CardinalityType
<1>11. InFlight' = InFlight \ Held(d)
  BY <1>6
<1> QED
  BY <1>8, <1>9, <1>10, <1>11

\* _drain settles the batch its caller had.
LEMMA DrainSettles ==
    ASSUME IInv, NEW d \in Workers, DrainTakes(d), getter' = getter
    PROVE  /\ InFlight' = InFlight \ Held(d)
           /\ Cardinality(InFlight') = Cardinality(InFlight) - Len(hand[d])
<1> DEFINE n == Smaller(BatchSize, Len(queue))
           batch == SubSeq(queue, 1, n)
           left  == SubSeq(queue, n + 1, Len(queue))
<1>1. n \in 0..Len(queue)
  BY SizesAssumption DEF IInv, TypeOK, Smaller
<1>2. queue' = left /\ hand' = [hand EXCEPT ![d] = batch]
  BY DEF DrainTakes
<1> HIDE DEF n
<1>3. Range(batch) \cup Range(left) = Range(queue)
  BY <1>1, SplitCovers DEF IInv, TypeOK
<1> HIDE DEF batch, left
<1> QED
  BY <1>2, <1>3, BatchSettles

\* The counters after a write, whichever way it went.
LEMMA WriteCounts ==
    ASSUME TypeOK, NEW w \in Workers, WriteReturns(w)
    PROVE  /\ stats'.written + stats'.failed = stats.written + stats.failed + Len(hand[w])
           /\ stats'.queued = stats.queued /\ stats'.dropped = stats.dropped
<1>1. /\ stats \in [queued : 0..MaxRecords, written : Nat, dropped : Nat, failed : Nat]
      /\ Len(hand[w]) \in Nat
  BY DEF TypeOK
<1>2. \/ stats' = [stats EXCEPT !.written = @ + Len(hand[w])]
      \/ stats' = [stats EXCEPT !.failed = @ + Len(hand[w])]
  BY DEF WriteReturns, WriteSucceeds, WriteFails
<1> HIDE DEF TypeOK
<1> QED
  BY <1>1, <1>2

\* A new record is in flight, and the oldest one no longer if it was dropped.
LEMMA RecordMoves ==
    ASSUME IInv, Record
    PROVE  /\ stats.queued + 1 \notin InFlight
           /\ \/ /\ InFlight' = InFlight \cup {stats.queued + 1}
                 /\ stats' = [stats EXCEPT !.queued = @ + 1]
              \/ /\ \E h \in InFlight : InFlight' = (InFlight \ {h}) \cup {stats.queued + 1}
                 /\ stats' = [stats EXCEPT !.queued = @ + 1, !.dropped = @ + 1]
<1> DEFINE r == stats.queued + 1
           Rests == Range(getter) \cup UNION {Held(w) : w \in Workers}
<1>1. /\ stats \in [queued : 0..MaxRecords, written : Nat, dropped : Nat, failed : Nat]
      /\ queue \in Seq(Records) /\ IsInjective(queue)
  BY DEF IInv, TypeOK, Places
<1>2. stats.queued < MaxRecords /\ UNCHANGED <<getter, hand>> /\ r \in Records
  BY <1>1, SizesAssumption DEF Record, Records
<1>3. InFlight = Range(queue) \cup Rests /\ InFlight' = Range(queue') \cup Rests
  BY <1>2 DEF InFlight, Held
<1>4. r \notin InFlight
  <2>1. InFlight \subseteq Accepted
    BY DEF IInv, Places, InFlight
  <2> QED
    BY <1>1, <2>1 DEF Accepted
<1>5. CASE queue' = Append(queue, r) /\ stats' = [stats EXCEPT !.queued = @ + 1]
  <2>1. InFlight' = InFlight \cup {r}
    BY <1>1, <1>2, <1>3, <1>5, AppendNew
  <2> QED
    BY <1>4, <1>5, <2>1
<1>6. CASE /\ Len(queue) >= QueueSize /\ queue' = Append(RoomMade, r)
           /\ stats' = [stats EXCEPT !.queued = @ + 1, !.dropped = @ + 1]
  <2> DEFINE h == Head(queue)
             t == Tail(queue)
  <2>1. queue # <<>>
    BY <1>6, SizesAssumption
  <2>2. /\ h \in Range(queue) /\ t \in Seq(Records)
        /\ Range(t) \subseteq Range(queue) \ {h}
    BY <1>1, <2>1, HeadAndTail
  <2>3. Range(queue) \subseteq Range(t) \cup {h}
    BY <1>1, <2>1, TailCovers
  <2>4. h \notin Rests
    <3>1. Range(queue) \cap Range(getter) = {} /\ \A w \in Workers : Held(w) \cap Range(queue) = {}
      BY DEF IInv, Places
    <3> QED
      BY <2>2, <3>1
  <2>5. Range(queue') = Range(t) \cup {r}
    BY <1>2, <1>6, <2>2, AppendNew DEF RoomMade
  <2> HIDE DEF h, t, Rests
  <2>6. InFlight' = (InFlight \ {h}) \cup {r} /\ h \in InFlight
    BY <1>3, <2>2, <2>3, <2>4, <2>5
  <2> QED
    BY <1>4, <1>6, <2>6
<1> QED
  BY <1>2, <1>5, <1>6 DEF Record

LEMMA RecordCounts == IInv /\ EveryRecordCounted /\ Record => EveryRecordCounted'
<1> SUFFICES ASSUME IInv, EveryRecordCounted, Record PROVE EveryRecordCounted'
  OBVIOUS
<1> DEFINE r == stats.queued + 1
<1>1. /\ stats \in [queued : 0..MaxRecords, written : Nat, dropped : Nat, failed : Nat]
      /\ lost \in Nat /\ lost' = lost
  BY DEF IInv, TypeOK, Record
<1>2. r \notin InFlight
  BY RecordMoves
<1>3. IsFiniteSet(InFlight) /\ Cardinality(InFlight) \in Nat
  BY InFlightFinite DEF IInv
<1>4. CASE InFlight' = InFlight \cup {r} /\ stats' = [stats EXCEPT !.queued = @ + 1]
  <2>1. Cardinality(InFlight') = Cardinality(InFlight) + 1
    BY <1>2, <1>3, <1>4, FS_AddElement
  <2> QED
    BY <1>1, <1>3, <1>4, <2>1 DEF EveryRecordCounted
<1>5. ASSUME NEW h \in InFlight, InFlight' = (InFlight \ {h}) \cup {r},
             stats' = [stats EXCEPT !.queued = @ + 1, !.dropped = @ + 1]
      PROVE  EveryRecordCounted'
  <2>1. IsFiniteSet(InFlight \ {h}) /\ Cardinality(InFlight \ {h}) = Cardinality(InFlight) - 1
    BY <1>3, FS_RemoveElement
  <2>2. Cardinality((InFlight \ {h}) \cup {r}) = Cardinality(InFlight \ {h}) + 1
    BY <1>2, <2>1, FS_AddElement
  <2>3. Cardinality(InFlight') = Cardinality(InFlight)
    BY <1>3, <1>5, <2>1, <2>2
  <2> QED
    BY <1>1, <1>3, <1>5, <2>3 DEF EveryRecordCounted
<1> QED
  BY <1>4, <1>5, RecordMoves

\* What is known when the number of records in flight changes with the counters.
LEMMA CountsMatch ==
    ASSUME IInv, EveryRecordCounted, NEW k \in Nat,
           Cardinality(InFlight') = Cardinality(InFlight) - k,
           stats'.queued = stats.queued, stats'.dropped = stats.dropped,
           stats'.written + stats'.failed + lost' = stats.written + stats.failed + lost + k,
           TypeOK'
    PROVE  EveryRecordCounted'
<1>1. /\ stats.queued \in Nat /\ stats.written \in Nat /\ stats.failed \in Nat
      /\ stats.dropped \in Nat /\ lost \in Nat
  BY SizesAssumption DEF IInv, TypeOK
<1>2. /\ stats'.written \in Nat /\ stats'.failed \in Nat /\ lost' \in Nat
  BY DEF TypeOK
<1>3. Cardinality(InFlight) \in Nat
  BY InFlightFinite DEF IInv
<1> QED
  BY <1>1, <1>2, <1>3 DEF EveryRecordCounted

\* Records that go from the queue to the getter and to a batch stay in flight.
LEMMA MovesStutter ==
    IInv /\ Hands /\ (GetterTakes \/ CollectReturns) =>
        UNCHANGED <<InFlight, stats, rows, lost>>
<1> SUFFICES ASSUME IInv, Hands, GetterTakes \/ CollectReturns
             PROVE  UNCHANGED <<InFlight, stats, rows, lost>>
  OBVIOUS
<1>0. queue \in Seq(Records) /\ Writer \in Workers
  BY DEF IInv, TypeOK, Workers
<1>1. CASE GetterTakes
  <2>1. /\ queue # <<>> /\ getter = <<>> /\ IsInjective(queue)
        /\ getter' = <<Head(queue)>> /\ queue' = Tail(queue)
        /\ UNCHANGED <<hand, stats, rows, lost>>
    BY <1>1 DEF GetterTakes, IInv, Places
  <2>2. /\ Range(Tail(queue)) \subseteq Range(queue) /\ Head(queue) \in Range(queue)
        /\ Range(queue) \subseteq Range(Tail(queue)) \cup {Head(queue)}
    BY <1>0, <2>1, HeadAndTail, TailCovers
  <2>3. Range(getter') = {Head(queue)} /\ Range(getter) = {}
    BY <2>1 DEF Range
  <2> QED
    BY <2>1, <2>2, <2>3 DEF InFlight, Held
<1>2. CASE CollectReturns
  <2> DEFINE front == SubSeq(queue, 1, Rest)
             left  == SubSeq(queue, Rest + 1, Len(queue))
  <2>1. /\ queue' = left /\ hand' = [hand EXCEPT ![Writer] = Collected]
        /\ getter' = <<>> /\ UNCHANGED <<stats, rows, lost>> /\ hand[Writer] = <<>>
        /\ Collected = getter \o front
    BY <1>2 DEF CollectReturns, Collected, Hands
  <2>2. getter \in Seq(Records) /\ Rest \in 0..Len(queue)
    BY CollectTypes DEF IInv, TypeOK
  <2>3. front \in Seq(Records) /\ Range(queue) = Range(front) \cup Range(left)
    BY <1>0, <2>2, SplitCovers
  <2> HIDE DEF front, left
  <2>4. Range(Collected) = Range(getter) \cup Range(front)
    BY <2>1, <2>2, <2>3, JoinSequences
  <2>5. Range(Collected) \cup Range(queue') \cup Range(getter') = Range(queue) \cup Range(getter)
    BY <2>1, <2>3, <2>4, EmptySequence
  <2>6. InFlight' = InFlight \ Held(Writer)
    BY <1>0, <2>1, <2>5, BatchSettles
  <2> QED
    BY <2>1, <2>6, EmptySequence DEF Held
<1> QED
  BY <1>1, <1>2

LEMMA CountedStep == IInv /\ Hands /\ EveryRecordCounted /\ [Next]_vars => EveryRecordCounted'
<1> SUFFICES ASSUME IInv, Hands, EveryRecordCounted, [Next]_vars PROVE EveryRecordCounted'
  OBVIOUS
<1>0. /\ TypeOK /\ TypeOK' /\ Writer \in Workers /\ Drainers \subseteq Workers
      /\ \A w \in Workers : Len(hand[w]) \in Nat
      /\ stats.written \in Nat /\ stats.failed \in Nat /\ lost \in Nat
      /\ stats'.written \in Nat /\ stats'.failed \in Nat
  <2>1. TypeOK /\ TypeOK' /\ Writer \in Workers /\ Drainers \subseteq Workers
    BY TypeStep DEF IInv, Workers
  <2>2. \A w \in Workers : Len(hand[w]) \in Nat
    BY <2>1 DEF TypeOK
  <2>3. stats.written \in Nat /\ stats.failed \in Nat /\ lost \in Nat
    BY <2>1 DEF TypeOK
  <2>4. stats'.written \in Nat /\ stats'.failed \in Nat
    BY <2>1 DEF TypeOK
  <2> QED
    BY <2>1, <2>2, <2>3, <2>4
<1>1. CASE Record
  BY <1>1, RecordCounts
<1>2. CASE UNCHANGED <<queue, getter, hand, stats, lost>>
  BY <1>2 DEF EveryRecordCounted, InFlight, Held
<1>3. CASE GetterTakes \/ CollectReturns
  BY <1>3, MovesStutter DEF EveryRecordCounted
<1>4. ASSUME NEW w \in Workers, hand' = [hand EXCEPT ![w] = <<>>], UNCHANGED <<queue, getter>>
      PROVE  Cardinality(InFlight') = Cardinality(InFlight) - Len(hand[w])
  BY <1>4, EmptySequence, BatchSettles
<1>5. CASE WriterFinishes
  <2>1. /\ stats'.written + stats'.failed = stats.written + stats.failed + Len(hand[Writer])
        /\ stats'.queued = stats.queued /\ stats'.dropped = stats.dropped /\ lost' = lost
    BY <1>0, <1>5, WriteCounts DEF WriterFinishes
  <2>2. stats'.written + stats'.failed + lost' = stats.written + stats.failed + lost + Len(hand[Writer])
    BY <1>0, <2>1
  <2> QED
    BY <1>0, <1>4, <1>5, <2>1, <2>2, CountsMatch DEF WriterFinishes
<1>6. CASE WriterUnwinds
  <2>1. stats'.written + stats'.failed + lost' = stats.written + stats.failed + lost + Len(hand[Writer])
    BY <1>0, <1>6 DEF WriterUnwinds, TypeOK
  <2> QED
    BY <1>0, <1>4, <1>6, <2>1, CountsMatch DEF WriterUnwinds
<1>7. ASSUME NEW d \in Drainers, DrainFinishes(d) PROVE EveryRecordCounted'
  <2>1. /\ stats'.written + stats'.failed = stats.written + stats.failed + Len(hand[d])
        /\ stats'.queued = stats.queued /\ stats'.dropped = stats.dropped
        /\ UNCHANGED <<lost, getter>>
    BY <1>0, <1>7, WriteCounts DEF DrainFinishes
  <2>2. stats'.written + stats'.failed + lost' = stats.written + stats.failed + lost + Len(hand[d])
    BY <1>0, <2>1
  <2>3. Cardinality(InFlight') = Cardinality(InFlight) - Len(hand[d])
    BY <1>0, <1>4, <1>7, <2>1, DrainSettles DEF DrainFinishes
  <2> QED
    BY <1>0, <2>1, <2>2, <2>3, CountsMatch
<1>8. ASSUME NEW d \in Drainers, DrainTakes(d), pc[d] # "write", UNCHANGED <<getter, stats, lost>>
      PROVE  EveryRecordCounted'
  <2>1. Cardinality(InFlight') = Cardinality(InFlight) - Len(hand[d])
    BY <1>0, <1>8, DrainSettles
  <2>2. Len(hand[d]) = 0
    BY <1>8 DEF Hands
  <2> QED
    BY <1>8, <2>1, <2>2, InFlightFinite DEF EveryRecordCounted, IInv
<1>9. CASE StopDrains \/ StopJoins
  BY <1>8, <1>9 DEF StopDrains, StopJoins, Drainers
<1>10. ASSUME NEW f \in Flushers, FlushCalled(f) \/ FlushAcquires(f) PROVE EveryRecordCounted'
  BY <1>2, <1>8, <1>10 DEF FlushCalled, FlushAcquires, Drainers
<1>11. \/ CollectReturnsEmpty \/ WriterAcquires \/ Start \/ StopAsks \/ StopTimesOut
       \/ UNCHANGED vars
       => UNCHANGED <<queue, getter, hand, stats, lost>>
  BY DEF CollectReturnsEmpty, WriterAcquires, Start, StopAsks, StopTimesOut, vars
<1> QED
  BY <1>1, <1>2, <1>3, <1>4, <1>5, <1>6, <1>7, <1>9, <1>10, <1>11
     DEF Next, LoopStep, DatabaseStep, Call

LEMMA CountedInit == Init => EveryRecordCounted
<1> SUFFICES ASSUME Init PROVE EveryRecordCounted
  OBVIOUS
<1>1. InFlight = {}
  BY EmptySequence DEF Init, InFlight, Held
<1> QED
  BY <1>1, FS_EmptySet DEF Init, EveryRecordCounted

LEMMA PlacesAlways == Spec => [](IInv /\ Hands)
<1>1. IInv /\ [Next]_vars => IInv'
  BY TypeStep, PlacesStep DEF IInv
<1>2. IInv /\ Hands /\ [Next]_vars => Hands'
  BY HandsStep DEF IInv
<1> QED
  BY <1>1, <1>2, InvInit, HandsInit, PTL DEF Spec

\* Nothing disappears from the audit trail uncounted, whatever the sizes and
\* however many flushes, shutdowns, timeouts and failed commits there are.
THEOREM AllCounted == Spec => []EveryRecordCounted
  BY PlacesAlways, CountedStep, CountedInit, PTL DEF Spec

-----------------------------------------------------------------------------
(* Rows are in the order of their requests                                  *)

\* Every record of the one place is older than every record of the other.
Below(A, B) == \A a \in A, b \in B : a < b

\* A prefix of an ordered queue is older than the rest.
LEMMA SplitIncreasing ==
    ASSUME NEW s \in Seq(Records), Increasing(s), NEW n \in 0..Len(s)
    PROVE  LET a == SubSeq(s, 1, n)
               b == SubSeq(s, n + 1, Len(s))
           IN  Increasing(a) /\ Increasing(b) /\ Below(Range(a), Range(b))
<1> DEFINE p == SubSeq(s, 1, n)
           q == SubSeq(s, n + 1, Len(s))
           m == Len(s) - n
<1>1. Len(s) \in Nat /\ n \in Nat /\ m \in Nat /\ n + m = Len(s)
  OBVIOUS
<1>2. p \in Seq(Records) /\ Len(p) = n /\ \A i \in 1..n : p[i] = s[i]
  OBVIOUS
<1>3. q \in Seq(Records) /\ Len(q) = m /\ \A i \in 1..m : q[i] = s[n + i]
  OBVIOUS
<1> HIDE DEF p, q, m
<1>4. DOMAIN s = 1..(n + m) /\ DOMAIN p = 1..n /\ DOMAIN q = 1..m
  <2>1. DOMAIN s = 1..Len(s) /\ DOMAIN p = 1..Len(p) /\ DOMAIN q = 1..Len(q)
    BY <1>2, <1>3
  <2> QED
    BY <1>1, <1>2, <1>3, <2>1
<1>5. \A i, j \in 1..(n + m) : i < j => s[i] < s[j]
  BY <1>4 DEF Increasing
<1>6. Increasing(p)
  BY <1>1, <1>2, <1>4, <1>5 DEF Increasing
<1>7. Increasing(q)
  <2>1. ASSUME NEW i \in 1..m, NEW j \in 1..m, i < j PROVE q[i] < q[j]
    <3>1. n + i \in 1..(n + m) /\ n + j \in 1..(n + m) /\ n + i < n + j
      BY <1>1, <2>1
    <3> QED
      BY <1>3, <1>5, <3>1
  <2> QED
    BY <1>4, <2>1 DEF Increasing
<1>8. ASSUME NEW i \in 1..n, NEW j \in 1..m PROVE p[i] < q[j]
  <2>1. i \in 1..(n + m) /\ n + j \in 1..(n + m) /\ i < n + j
    BY <1>1
  <2> QED
    BY <1>2, <1>3, <1>5, <2>1
<1>9. Below(Range(p), Range(q))
  BY <1>4, <1>8 DEF Below, Range
<1> QED
  BY <1>6, <1>7, <1>9 DEF p, q

\* A younger ordered sequence may be appended.
LEMMA JoinIncreasing ==
    ASSUME NEW s \in Seq(Records), NEW t \in Seq(Records),
           Increasing(s), Increasing(t), Below(Range(s), Range(t))
    PROVE  Increasing(s \o t)
<1> DEFINE u == s \o t
           m == Len(s)
           n == Len(t)
<1>1. /\ m \in Nat /\ n \in Nat /\ u \in Seq(Records) /\ Len(u) = m + n
      /\ \A i \in 1..(m + n) : u[i] = IF i <= m THEN s[i] ELSE t[i - m]
  OBVIOUS
<1>2. DOMAIN s = 1..m /\ DOMAIN t = 1..n /\ DOMAIN u = 1..(m + n)
  BY <1>1
<1> HIDE DEF u, m, n
<1>3. /\ \A i, j \in 1..m : i < j => s[i] < s[j]
      /\ \A i, j \in 1..n : i < j => t[i] < t[j]
      /\ \A i \in 1..m, j \in 1..n : s[i] < t[j]
  BY <1>2 DEF Increasing, Below, Range
<1>4. ASSUME NEW i \in 1..(m + n), NEW j \in 1..(m + n), i < j PROVE u[i] < u[j]
  <2>1. CASE i <= m /\ j <= m
    <3>1. i \in 1..m /\ j \in 1..m /\ u[i] = s[i] /\ u[j] = s[j] BY <1>1, <2>1
    <3> QED BY <1>3, <1>4, <3>1
  <2>2. CASE i <= m /\ ~(j <= m)
    <3>1. i \in 1..m /\ j - m \in 1..n /\ u[i] = s[i] /\ u[j] = t[j - m] BY <1>1, <2>2
    <3> QED BY <1>3, <3>1
  <2>3. CASE ~(i <= m)
    <3>1. /\ i - m \in 1..n /\ j - m \in 1..n /\ i - m < j - m
          /\ u[i] = t[i - m] /\ u[j] = t[j - m]
      BY <1>1, <1>4, <2>3
    <3> QED BY <1>3, <3>1
  <2> QED BY <2>1, <2>2, <2>3
<1> QED
  BY <1>2, <1>4 DEF Increasing, u

\* The head of an ordered queue is older than its tail.
LEMMA TailIncreasing ==
    ASSUME NEW s \in Seq(Records), s # <<>>, Increasing(s)
    PROVE  Increasing(Tail(s)) /\ Below({Head(s)}, Range(Tail(s)))
<1>1. Len(s) \in Nat \ {0} /\ DOMAIN s = 1..Len(s) /\ Head(s) = s[1]
  OBVIOUS
<1>2. /\ DOMAIN Tail(s) = 1..(Len(s) - 1)
      /\ \A i \in 1..(Len(s) - 1) : Tail(s)[i] = s[i + 1]
  BY <1>1
<1>3. \A i, j \in 1..Len(s) : i < j => s[i] < s[j]
  BY <1>1 DEF Increasing
<1>4. ASSUME NEW i \in 1..(Len(s) - 1), NEW j \in 1..(Len(s) - 1), i < j
      PROVE  Tail(s)[i] < Tail(s)[j]
  <2>1. i + 1 \in 1..Len(s) /\ j + 1 \in 1..Len(s) /\ i + 1 < j + 1
    BY <1>1, <1>4
  <2> QED
    BY <1>2, <1>3, <2>1
<1>5. ASSUME NEW j \in 1..(Len(s) - 1) PROVE Head(s) < Tail(s)[j]
  <2>1. 1 \in 1..Len(s) /\ j + 1 \in 1..Len(s) /\ 1 < j + 1
    BY <1>1
  <2> QED
    BY <1>1, <1>2, <1>3, <2>1
<1> QED
  BY <1>2, <1>4, <1>5 DEF Increasing, Below, Range

\* A newer record at the end keeps a queue ordered.
LEMMA AppendIncreasing ==
    ASSUME NEW s \in Seq(Records), Increasing(s), NEW r \in Records, Below(Range(s), {r})
    PROVE  Increasing(Append(s, r))
<1> DEFINE t == Append(s, r)
<1>1. /\ Len(s) \in Nat /\ t \in Seq(Records) /\ Len(t) = Len(s) + 1
      /\ \A i \in 1..Len(s) : t[i] = s[i]
      /\ t[Len(s) + 1] = r
  OBVIOUS
<1>2. DOMAIN s = 1..Len(s) /\ DOMAIN t = 1..(Len(s) + 1)
  BY <1>1
<1> HIDE DEF t
<1>3. \A i, j \in 1..Len(s) : i < j => s[i] < s[j]
  BY <1>2 DEF Increasing
<1>4. \A i \in 1..Len(s) : s[i] < r
  BY <1>2 DEF Below, Range
<1> QED
  BY <1>1, <1>2, <1>3, <1>4 DEF Increasing, t

\* The table is older than what is in flight, a batch than what is still
\* collected from, and the getter's record than the queue.
Ordered ==
    /\ Increasing(rows) /\ Increasing(queue) /\ \A w \in Workers : Increasing(hand[w])
    /\ Below(Range(rows), InFlight)
    /\ Below(Range(getter), Range(queue))
    /\ \A w \in Workers : Below(Held(w), Range(getter) \cup Range(queue))

\* The one worker with a batch gives it up and takes the oldest records.
LEMMA OrderMoves ==
    ASSUME IInv, Ordered, NEW d \in Workers, NEW batch, hand' = [hand EXCEPT ![d] = batch],
           \A w \in Workers \ {d} : hand[w] = <<>>,
           Increasing(batch), Increasing(queue'), rows' \in {rows, rows \o hand[d]},
           Below(Range(batch), Range(getter') \cup Range(queue')),
           Range(batch) \subseteq Range(getter) \cup Range(queue),
           Range(queue') \subseteq Range(queue), Range(getter') \subseteq Range(getter)
    PROVE  Ordered'
<1>1. \A w \in Workers : hand'[w] = IF w = d THEN batch ELSE <<>>
  BY DEF IInv, TypeOK
<1>2. Increasing(<<>>)
  BY DEF Increasing
<1>3. ASSUME NEW w \in Workers PROVE Held(w)' = IF w = d THEN Range(batch) ELSE {}
  <2>1. CASE w = d
    BY <1>1, <2>1 DEF Held
  <2>2. CASE w # d
    <3>1. Held(w)' = Range(<<>>)
      BY <1>1, <2>2 DEF Held
    <3> QED
      BY <2>2, <3>1, EmptySequence
  <2> QED
    BY <2>1, <2>2
<1>4. InFlight' \subseteq Range(getter) \cup Range(queue)
  <2>1. UNION {Held(w)' : w \in Workers} \subseteq Range(batch)
    BY <1>3
  <2>2. InFlight' = Range(queue') \cup Range(getter') \cup UNION {Held(w)' : w \in Workers}
    BY DEF InFlight
  <2> QED
    BY <2>1, <2>2
<1>5. Below(Range(rows), Held(d)) /\ Below(Range(rows), Range(getter) \cup Range(queue))
  <2>1. Held(d) \subseteq InFlight /\ Range(getter) \cup Range(queue) \subseteq InFlight
    BY DEF InFlight
  <2> QED
    BY <2>1 DEF Ordered, Below
<1>6. Increasing(rows') /\ Range(rows') \subseteq Range(rows) \cup Held(d)
  <2>1. rows \in Seq(Records) /\ hand[d] \in Seq(Records)
    BY DEF IInv, TypeOK
  <2>2. Increasing(rows \o hand[d])
    BY <1>5, <2>1, JoinIncreasing DEF Ordered, Held
  <2> QED
    BY <2>2, RowsLand DEF Ordered
<1>7. Below(Range(rows'), InFlight')
  BY <1>4, <1>5, <1>6 DEF Below, Ordered
<1>8. Below(Range(getter'), Range(queue'))
  BY DEF Below, Ordered
<1>9. \A w \in Workers : Below(Held(w)', Range(getter') \cup Range(queue'))
  BY <1>3 DEF Below
<1> QED
  BY <1>1, <1>2, <1>6, <1>7, <1>8, <1>9 DEF Ordered

LEMMA DrainOrders ==
    ASSUME IInv, Ordered, NEW d \in Workers, DrainTakes(d), getter = <<>>, getter' = getter,
           \A w \in Workers \ {d} : hand[w] = <<>>, rows' \in {rows, rows \o hand[d]}
    PROVE  Ordered'
<1> DEFINE n == Smaller(BatchSize, Len(queue))
           batch == SubSeq(queue, 1, n)
           left  == SubSeq(queue, n + 1, Len(queue))
<1>1. n \in 0..Len(queue)
  BY SizesAssumption DEF IInv, TypeOK, Smaller
<1>2. queue' = left /\ hand' = [hand EXCEPT ![d] = batch]
  BY DEF DrainTakes
<1>3. queue \in Seq(Records) /\ IsInjective(queue) /\ Increasing(queue)
  BY DEF IInv, TypeOK, Places, Ordered
<1> HIDE DEF n
<1>4. /\ Increasing(batch) /\ Increasing(left) /\ Below(Range(batch), Range(left))
      /\ Range(batch) \subseteq Range(queue) /\ Range(left) \subseteq Range(queue)
  BY <1>1, <1>3, SplitIncreasing, SplitSequence
<1> HIDE DEF batch, left
<1>5. Below(Range(batch), Range(getter') \cup Range(queue'))
  BY <1>2, <1>4, EmptySequence
<1> QED
  BY <1>2, <1>4, <1>5, OrderMoves

LEMMA RecordOrders == IInv /\ Ordered /\ Record => Ordered'
<1> SUFFICES ASSUME IInv, Ordered, Record PROVE Ordered'
  OBVIOUS
<1> DEFINE r == stats.queued + 1
<1>1. /\ queue \in Seq(Records) /\ stats.queued \in Nat /\ r \in Records
      /\ UNCHANGED <<getter, hand, rows>> /\ Increasing(queue)
  <2>1. stats \in [queued : 0..MaxRecords, written : Nat, dropped : Nat, failed : Nat]
    BY DEF IInv, TypeOK
  <2>2. r \in Records
    BY <2>1, SizesAssumption DEF Record, Records
  <2> QED
    BY <2>1, <2>2, SizesAssumption DEF Record, IInv, TypeOK, Ordered
<1>2. \A a \in Accepted : a < r
  BY <1>1 DEF Accepted
<1>3. /\ Range(rows) \subseteq Accepted /\ Range(queue) \subseteq Accepted
      /\ Range(getter) \subseteq Accepted /\ \A w \in Workers : Held(w) \subseteq Accepted
  BY DEF IInv, Places
<1>4. PICK s \in {queue, Tail(queue)} :
        /\ queue' = Append(s, r) /\ s \in Seq(Records) /\ Increasing(s)
        /\ Range(s) \subseteq Range(queue)
  <2>1. CASE queue' = Append(queue, r)
    BY <1>1, <2>1
  <2>2. CASE Len(queue) >= QueueSize /\ queue' = Append(Tail(queue), r)
    <3>1. queue # <<>> /\ IsInjective(queue)
      BY <2>2, SizesAssumption DEF IInv, Places
    <3> QED
      BY <1>1, <2>2, <3>1, TailIncreasing, HeadAndTail
  <2> QED
    BY <2>1, <2>2 DEF Record, RoomMade
<1> HIDE DEF r
<1>5. Increasing(queue') /\ Range(queue') \subseteq Range(queue) \cup {r}
  <2>1. Below(Range(s), {r})
    BY <1>2, <1>3, <1>4 DEF Below
  <2> QED
    BY <1>1, <1>4, <2>1, AppendIncreasing, AppendNew
<1>6. InFlight' \subseteq InFlight \cup {r} /\ \A w \in Workers : Held(w)' = Held(w)
  BY <1>1, <1>5 DEF InFlight, Held
<1>7. Below(Range(rows'), InFlight')
  BY <1>1, <1>2, <1>3, <1>6 DEF Below, Ordered
<1>8. Below(Range(getter'), Range(queue'))
  BY <1>1, <1>2, <1>3, <1>5 DEF Below, Ordered
<1>9. ASSUME NEW w \in Workers PROVE Below(Held(w)', Range(getter') \cup Range(queue'))
  BY <1>1, <1>2, <1>3, <1>5, <1>6 DEF Below, Ordered
<1> QED
  BY <1>1, <1>5, <1>7, <1>8, <1>9 DEF Ordered

LEMMA GetterOrders == IInv /\ Ordered /\ GetterTakes => Ordered'
<1> SUFFICES ASSUME IInv, Ordered, GetterTakes PROVE Ordered'
  OBVIOUS
<1>1. /\ queue \in Seq(Records) /\ queue # <<>> /\ IsInjective(queue) /\ Increasing(queue)
      /\ getter' = <<Head(queue)>> /\ queue' = Tail(queue)
      /\ UNCHANGED <<hand, rows, stats>>
  BY DEF IInv, TypeOK, Places, GetterTakes, Ordered
<1>2. /\ Increasing(Tail(queue)) /\ Below({Head(queue)}, Range(Tail(queue)))
      /\ Head(queue) \in Range(queue) /\ Range(Tail(queue)) \subseteq Range(queue)
  BY <1>1, TailIncreasing, HeadAndTail
<1>3. Range(getter') = {Head(queue)}
  BY <1>1 DEF Range
<1>4. \A w \in Workers : Held(w)' = Held(w)
  BY <1>1 DEF Held
<1>5. InFlight' \subseteq InFlight
  BY <1>1, <1>2, <1>3, <1>4 DEF InFlight
<1>6. Below(Range(rows'), InFlight')
  BY <1>1, <1>5 DEF Below, Ordered
<1>7. ASSUME NEW w \in Workers PROVE Below(Held(w)', Range(getter') \cup Range(queue'))
  BY <1>1, <1>2, <1>3, <1>4 DEF Below, Ordered
<1> QED
  BY <1>1, <1>2, <1>3, <1>6, <1>7 DEF Ordered

LEMMA CollectOrders ==
    ASSUME IInv, Ordered, CollectReturns, \A w \in Workers \ {Writer} : hand[w] = <<>>
    PROVE  Ordered'
<1> DEFINE front == SubSeq(queue, 1, Rest)
           left  == SubSeq(queue, Rest + 1, Len(queue))
<1>1. /\ queue' = left /\ hand' = [hand EXCEPT ![Writer] = Collected]
      /\ getter' = <<>> /\ UNCHANGED <<rows, stats>> /\ Collected = getter \o front
  BY DEF CollectReturns, Collected
<1>2. /\ queue \in Seq(Records) /\ IsInjective(queue) /\ Increasing(queue)
      /\ getter \in Seq(Records) /\ Len(getter) <= 1
      /\ Below(Range(getter), Range(queue))
  BY DEF IInv, TypeOK, Places, Ordered
<1>3. Rest \in 0..Len(queue)
  BY CollectTypes DEF IInv
<1>4. /\ front \in Seq(Records) /\ Increasing(front) /\ Increasing(left)
      /\ Below(Range(front), Range(left))
      /\ Range(front) \subseteq Range(queue) /\ Range(left) \subseteq Range(queue)
  BY <1>2, <1>3, SplitIncreasing, SplitSequence
<1> HIDE DEF front, left
<1>5. Increasing(getter)
  BY <1>2 DEF Increasing
<1>6. Increasing(Collected) /\ Range(Collected) = Range(getter) \cup Range(front)
  <2>1. Below(Range(getter), Range(front))
    BY <1>2, <1>4 DEF Below
  <2> QED
    BY <1>1, <1>2, <1>4, <1>5, <2>1, JoinIncreasing, JoinSequences
<1>7. Below(Range(Collected), Range(getter') \cup Range(queue'))
  BY <1>1, <1>2, <1>4, <1>6, EmptySequence DEF Below
<1> QED
  BY <1>1, <1>4, <1>6, <1>7, EmptySequence, OrderMoves DEF Workers

LEMMA OrderedStep ==
    IInv /\ Hands /\ (Flushers = {} => Ordered) /\ [Next]_vars => (Flushers = {} => Ordered')
<1> SUFFICES ASSUME IInv, Hands, Flushers = {}, Ordered, [Next]_vars PROVE Ordered'
  OBVIOUS
<1>0. /\ Drainers = {Stopper} /\ Workers = {Writer, Stopper} /\ Writer # Stopper
      /\ pc[Stopper] = "write" => pc[Writer] = "done"
      /\ pc[Stopper] # "write" => hand[Stopper] = <<>>
      /\ pc[Writer] \in {"collect", "done"} => hand[Writer] = <<>>
      /\ getter # <<>> => pc[Writer] = "collect"
  BY WorkersAssumption DEF Workers, Drainers, Hands
<1>1. CASE Record
  BY <1>1, RecordOrders
<1>2. CASE GetterTakes
  BY <1>2, GetterOrders
<1>3. CASE CollectReturns
  BY <1>0, <1>3, CollectOrders DEF CollectReturns
<1>4. CASE UNCHANGED <<queue, getter, hand, rows>>
  BY <1>4 DEF Ordered, InFlight, Held
<1>5. ASSUME WriterFinishes \/ WriterUnwinds PROVE Ordered'
  <2>1. /\ pc[Writer] \in {"write", "cancelled"} /\ rows' \in {rows, rows \o hand[Writer]}
        /\ hand' = [hand EXCEPT ![Writer] = <<>>] /\ UNCHANGED <<queue, getter>>
    BY <1>5 DEF WriterFinishes, WriterUnwinds, WriteReturns, WriteSucceeds, WriteFails
  <2>2. \A w \in Workers \ {Writer} : hand[w] = <<>>
    BY <1>0, <2>1
  <2>3. Increasing(<<>>) /\ Below(Range(<<>>), Range(getter') \cup Range(queue'))
    BY EmptySequence DEF Increasing, Below
  <2> QED
    BY <1>0, <2>1, <2>2, <2>3, EmptySequence, OrderMoves DEF Ordered
<1>6. CASE DrainFinishes(Stopper)
  <2>1. /\ pc[Stopper] = "write" /\ rows' \in {rows, rows \o hand[Stopper]} /\ getter' = getter
        /\ getter = <<>> /\ \A w \in Workers \ {Stopper} : hand[w] = <<>>
    BY <1>0, <1>6 DEF DrainFinishes, WriteReturns, WriteSucceeds, WriteFails
  <2>2. CASE DrainTakes(Stopper)
    BY <1>0, <2>1, <2>2, DrainOrders
  <2>3. CASE hand' = [hand EXCEPT ![Stopper] = <<>>] /\ UNCHANGED queue
    <3>1. Increasing(<<>>) /\ Below(Range(<<>>), Range(getter') \cup Range(queue'))
      BY EmptySequence DEF Increasing, Below
    <3> QED
      BY <1>0, <2>1, <2>3, <3>1, EmptySequence, OrderMoves DEF Ordered
  <2> QED
    BY <1>6, <2>2, <2>3 DEF DrainFinishes
<1>7. CASE StopDrains \/ StopJoins
  <2>1. /\ DrainTakes(Stopper) /\ UNCHANGED <<getter, rows>> /\ pc[Writer] = "done"
        /\ pc[Stopper] # "write"
    BY <1>7 DEF StopDrains, StopJoins, Hands
  <2> QED
    BY <1>0, <2>1, DrainOrders
<1>8. \/ CollectReturnsEmpty \/ WriterAcquires \/ Start \/ StopAsks \/ StopTimesOut
      \/ UNCHANGED vars
      => UNCHANGED <<queue, getter, hand, rows>>
  BY DEF CollectReturnsEmpty, WriterAcquires, Start, StopAsks, StopTimesOut, vars
<1> QED
  BY <1>0, <1>1, <1>2, <1>3, <1>4, <1>5, <1>6, <1>7, <1>8
     DEF Next, LoopStep, DatabaseStep, Call

LEMMA OrderedInit == Init => Ordered
<1> SUFFICES ASSUME Init PROVE Ordered
  OBVIOUS
<1>1. rows = <<>> /\ queue = <<>> /\ getter = <<>> /\ \A w \in Workers : hand[w] = <<>>
  BY DEF Init
<1>2. Increasing(<<>>)
  BY DEF Increasing
<1>3. \A w \in Workers : Held(w) = {}
  BY <1>1, EmptySequence DEF Held
<1> QED
  BY <1>1, <1>2, <1>3, EmptySequence DEF Ordered, Below

\* Without concurrent flushes the rows of inference_logs are in the order of
\* their requests, across batches, drains, timed-out shutdowns and restarts,
\* for any queue and batch size.
THEOREM RowsOrdered == Spec => []RowsInOrder
<1> DEFINE OInv == Flushers = {} => Ordered
<1>1. Init => OInv
  BY OrderedInit
<1>2. IInv /\ Hands /\ OInv /\ [Next]_vars => OInv'
  BY OrderedStep
<1>3. OInv => RowsInOrder
  BY DEF RowsInOrder, Ordered
<1> HIDE DEF OInv
<1> QED
  BY <1>1, <1>2, <1>3, PlacesAlways, PTL DEF Spec

-----------------------------------------------------------------------------
(* A full queue drops the oldest                                            *)

\* Whoever dequeues takes from the front: the queue stays ordered.
LEMMA QueueIncreasing ==
    IInv /\ Increasing(queue) /\ [Next]_vars => Increasing(queue')
<1> SUFFICES ASSUME IInv, Increasing(queue), [Next]_vars PROVE Increasing(queue')
  OBVIOUS
<1>0. queue \in Seq(Records)
  BY DEF IInv, TypeOK
<1>1. CASE Record
  <2> DEFINE r == stats.queued + 1
  <2>1. r \in Records /\ \A a \in Accepted : a < r
    <3>1. stats \in [queued : 0..MaxRecords, written : Nat, dropped : Nat, failed : Nat]
      BY DEF IInv, TypeOK
    <3> QED
      BY <1>1, <3>1, SizesAssumption DEF Record, Records, Accepted
  <2>2. Below(Range(queue), {r})
    BY <2>1 DEF Below, IInv, Places
  <2> HIDE DEF r
  <2>3. Increasing(Append(queue, r))
    BY <1>0, <2>1, <2>2, AppendIncreasing
  <2>4. ASSUME Len(queue) >= QueueSize PROVE Increasing(Append(Tail(queue), r))
    <3>1. queue # <<>> /\ IsInjective(queue)
      BY <2>4, SizesAssumption DEF IInv, Places
    <3>2. /\ Increasing(Tail(queue)) /\ Tail(queue) \in Seq(Records)
          /\ Range(Tail(queue)) \subseteq Range(queue)
      BY <1>0, <3>1, TailIncreasing, HeadAndTail
    <3> QED
      BY <2>1, <2>2, <3>2, AppendIncreasing DEF Below
  <2> QED
    BY <1>1, <2>3, <2>4 DEF Record, RoomMade, r
<1>2. CASE GetterTakes
  BY <1>0, <1>2, TailIncreasing DEF GetterTakes
<1>3. CASE CollectReturns
  BY <1>0, <1>3, CollectTypes, SplitIncreasing DEF CollectReturns, IInv
<1>4. ASSUME NEW d \in Drainers, DrainTakes(d) PROVE Increasing(queue')
  <2>1. Smaller(BatchSize, Len(queue)) \in 0..Len(queue)
    BY <1>0, SizesAssumption DEF Smaller
  <2> QED
    BY <1>0, <1>4, <2>1, SplitIncreasing DEF DrainTakes
<1>5. CASE queue' = queue
  BY <1>5
<1>6. \/ CollectReturnsEmpty \/ WriterAcquires \/ StopTimesOut \/ WriterUnwinds \/ WriterFinishes
      \/ Start \/ StopAsks \/ UNCHANGED vars
      => queue' = queue
  BY DEF CollectReturnsEmpty, WriterAcquires, StopTimesOut, WriterUnwinds, WriterFinishes,
         Start, StopAsks, vars
<1>7. StopJoins \/ StopDrains => DrainTakes(Stopper)
  BY DEF StopJoins, StopDrains
<1>8. \A f \in Flushers : FlushCalled(f) \/ FlushAcquires(f) => DrainTakes(f) \/ queue' = queue
  BY DEF FlushCalled, FlushAcquires
<1>9. \A d \in Drainers : DrainFinishes(d) => DrainTakes(d) \/ queue' = queue
  BY DEF DrainFinishes
<1> QED
  BY <1>1, <1>2, <1>3, <1>4, <1>5, <1>6, <1>7, <1>8, <1>9
     DEF Next, LoopStep, DatabaseStep, Call, Drainers

\* The queue holds Len(queue) different records from its head to the newest.
LEMMA HeadIsOld ==
    ASSUME IInv, Increasing(queue), queue # <<>>
    PROVE  Head(queue) + Len(queue) <= stats.queued + 1
<1> DEFINE h == Head(queue)
           q == stats.queued
<1>1. queue \in Seq(Records) /\ IsInjective(queue) /\ Range(queue) \subseteq 1..q
  BY DEF IInv, TypeOK, Places, Accepted
<1>2. q \in Nat
  BY SizesAssumption DEF IInv, TypeOK
<1>3. h \in 1..q
  BY <1>1, HeadAndTail
<1>4. Range(queue) \subseteq h..q
  <2>1. Below({h}, Range(Tail(queue))) /\ Range(queue) \subseteq Range(Tail(queue)) \cup {h}
    BY <1>1, TailIncreasing, TailCovers
  <2> HIDE DEF h, q
  <2> QED
    BY <1>1, <1>2, <1>3, <2>1 DEF Below
<1> HIDE DEF h, q
<1>5. IsFiniteSet(h..q) /\ Cardinality(h..q) = q - h + 1
  BY <1>2, <1>3, FS_Interval
<1>6. Len(queue) <= Cardinality(h..q)
  <2>1. Cardinality(Range(queue)) = Len(queue)
    BY <1>1, SequenceSize
  <2>2. Cardinality(Range(queue)) <= Cardinality(h..q)
    BY <1>4, <1>5, FS_Subset
  <2> QED
    BY <2>1, <2>2
<1> QED
  BY <1>1, <1>2, <1>3, <1>5, <1>6 DEF h, q

LEMMA DropIsOld ==
    ASSUME IInv, Increasing(queue), [Next]_vars, stats'.dropped # stats.dropped,
           NEW r \in InFlight, r \notin InFlight'
    PROVE  r + QueueSize <= stats'.queued
<1>1. TypeOK /\ Drainers \subseteq Workers /\ Writer \in Workers
  BY DEF IInv, Workers
<1>2. Record
  <2>1. \A w \in Workers : WriteReturns(w) => stats'.dropped = stats.dropped
    BY <1>1, WriteCounts
  <2> QED
    BY <1>1, <2>1 DEF Next, LoopStep, DatabaseStep, Call, vars, GetterTakes, CollectReturns,
       CollectReturnsEmpty, WriterAcquires, StopTimesOut, WriterUnwinds, StopJoins, FlushAcquires,
       WriterFinishes, DrainFinishes, Start, StopAsks, StopDrains, FlushCalled
<1>3. stats \in [queued : 0..MaxRecords, written : Nat, dropped : Nat, failed : Nat]
  BY <1>1 DEF TypeOK
<1>4. /\ Len(queue) >= QueueSize /\ queue' = Append(Tail(queue), stats.queued + 1)
      /\ stats'.queued = stats.queued + 1 /\ UNCHANGED <<getter, hand>>
  BY <1>2, <1>3 DEF Record, RoomMade
<1>5. queue \in Seq(Records) /\ IsInjective(queue) /\ queue # <<>>
  BY <1>1, <1>4, SizesAssumption DEF TypeOK, IInv, Places
<1>6. r = Head(queue)
  <2>1. r \in Range(queue) /\ r \notin Range(queue')
    BY <1>4 DEF InFlight, Held
  <2>2. stats.queued + 1 \in Records
    BY <1>2, <1>3, SizesAssumption DEF Record, Records
  <2>3. Range(Tail(queue)) \subseteq Range(queue') /\ Range(queue) \subseteq Range(Tail(queue)) \cup {Head(queue)}
    <3>1. Tail(queue) \in Seq(Records) /\ Range(queue) \subseteq Range(Tail(queue)) \cup {Head(queue)}
      BY <1>5, HeadAndTail, TailCovers
    <3>2. Range(queue') = Range(Tail(queue)) \cup {stats.queued + 1}
      BY <1>4, <2>2, <3>1, AppendNew
    <3> QED
      BY <3>1, <3>2
  <2> QED
    BY <2>1, <2>3
<1>7. Head(queue) + Len(queue) <= stats.queued + 1
  BY <1>5, HeadIsOld
<1>8. Head(queue) \in Nat /\ Len(queue) \in Nat /\ QueueSize \in Nat /\ stats.queued \in Nat
  BY <1>3, <1>5, SizesAssumption DEF Records
<1> QED
  BY <1>4, <1>6, <1>7, <1>8

\* A full queue gives up a record only when at least QueueSize newer ones have
\* been accepted, whoever else dequeues meanwhile.
THEOREM RecentKept == Spec => NeverDropsRecent
<1>1. Init => Increasing(queue)
  BY DEF Init, Increasing
<1>2. IInv /\ Increasing(queue) /\ [Next]_vars =>
        [stats'.dropped # stats.dropped =>
           \A r \in InFlight \ InFlight' : r + QueueSize <= stats'.queued]_vars
  BY DropIsOld
<1>3. IInv /\ Increasing(queue) /\ [Next]_vars => Increasing(queue)'
  BY QueueIncreasing
<1> QED
  BY <1>1, <1>2, <1>3, PlacesAlways, PTL DEF Spec, NeverDropsRecent

-----------------------------------------------------------------------------
(* What stop and flush promise when they return                             *)

Pending == Range(queue) \cup Range(getter)

\* Records flow one way: an accepted record does not come back once it has an
\* outcome or was dequeued, and leaves a worker only by being settled.
Flows ==
    /\ InFlight' \cap Accepted \subseteq InFlight
    /\ Pending' \cap Accepted \subseteq Pending
    /\ \A w \in Workers : Held(w) \cap InFlight' \subseteq Held(w)'

LEMMA BatchFlows ==
    ASSUME IInv, NEW d \in Workers, NEW batch, hand' = [hand EXCEPT ![d] = batch],
           Range(batch) \subseteq Pending, Pending' \subseteq Pending
    PROVE  Flows
<1>1. ASSUME NEW w \in Workers PROVE Held(w)' = IF w = d THEN Range(batch) ELSE Held(w)
  <2>1. hand'[w] = IF w = d THEN batch ELSE hand[w]
    BY DEF IInv, TypeOK
  <2> QED
    BY <2>1 DEF Held
<1>2. InFlight = Pending \cup UNION {Held(w) : w \in Workers}
  BY DEF InFlight, Pending
<1>3. InFlight' = Pending' \cup UNION {Held(w)' : w \in Workers}
  BY DEF InFlight, Pending
<1>4. InFlight' \subseteq InFlight
  BY <1>1, <1>2, <1>3
<1>5. Held(d) \cap Pending = {} /\ \A w \in Workers \ {d} : Held(d) \cap Held(w) = {}
  BY DEF IInv, Places, Pending
<1>6. Held(d) \cap InFlight' = {}
  BY <1>1, <1>3, <1>5
<1> QED
  BY <1>1, <1>4, <1>6 DEF Flows

LEMMA DrainFlows ==
    ASSUME IInv, NEW d \in Workers, DrainTakes(d), getter' = getter
    PROVE  Flows
<1> DEFINE n == Smaller(BatchSize, Len(queue))
           batch == SubSeq(queue, 1, n)
           left  == SubSeq(queue, n + 1, Len(queue))
<1>1. n \in 0..Len(queue)
  BY SizesAssumption DEF IInv, TypeOK, Smaller
<1>2. queue' = left /\ hand' = [hand EXCEPT ![d] = batch]
  BY DEF DrainTakes
<1> HIDE DEF n
<1>3. Range(batch) \cup Range(left) = Range(queue)
  BY <1>1, SplitCovers DEF IInv, TypeOK
<1> HIDE DEF batch, left
<1>4. Range(batch) \subseteq Pending /\ Pending' \subseteq Pending
  BY <1>2, <1>3 DEF Pending
<1> QED
  BY <1>2, <1>4, BatchFlows

LEMMA FlowsStep == IInv /\ [Next]_vars => Flows
<1> SUFFICES ASSUME IInv, [Next]_vars PROVE Flows
  OBVIOUS
<1>0. Writer \in Workers /\ Drainers \subseteq Workers /\ queue \in Seq(Records)
  BY DEF Workers, IInv, TypeOK
<1>1. ASSUME hand' = hand, Pending' \cap Accepted \subseteq Pending PROVE Flows
  BY <1>1 DEF Flows, InFlight, Pending, Held
<1>2. CASE Record
  <2> DEFINE r == stats.queued + 1
  <2>1. r \in Records /\ r \notin Accepted /\ hand' = hand /\ getter' = getter
    <3>1. stats \in [queued : 0..MaxRecords, written : Nat, dropped : Nat, failed : Nat]
      BY DEF IInv, TypeOK
    <3> QED
      BY <1>2, <3>1, SizesAssumption DEF Record, Records, Accepted
  <2> HIDE DEF r
  <2>2. Range(Append(queue, r)) \subseteq Range(queue) \cup {r}
    BY <1>0, <2>1, AppendNew
  <2>3. ASSUME Len(queue) >= QueueSize
        PROVE  Range(Append(Tail(queue), r)) \subseteq Range(queue) \cup {r}
    <3>1. queue # <<>> /\ IsInjective(queue)
      BY <2>3, SizesAssumption DEF IInv, Places
    <3>2. Tail(queue) \in Seq(Records) /\ Range(Tail(queue)) \subseteq Range(queue)
      BY <1>0, <3>1, HeadAndTail
    <3>3. ASSUME NEW t \in Seq(Records) PROVE Range(Append(t, r)) = Range(t) \cup {r}
      BY <2>1, AppendNew
    <3> QED
      BY <3>2, <3>3
  <2>4. Range(queue') \subseteq Range(queue) \cup {r}
    BY <1>2, <2>2, <2>3 DEF Record, RoomMade, r
  <2> QED
    BY <1>1, <2>1, <2>4 DEF Pending
<1>3. CASE GetterTakes
  <2>1. /\ Head(queue) \in Range(queue) /\ Range(Tail(queue)) \subseteq Range(queue)
    BY <1>0, <1>3, HeadAndTail DEF GetterTakes, IInv, Places
  <2>2. Range(<<Head(queue)>>) = {Head(queue)}
    BY DEF Range
  <2> QED
    BY <1>1, <1>3, <2>1, <2>2 DEF GetterTakes, Pending
<1>4. CASE CollectReturns
  <2> DEFINE front == SubSeq(queue, 1, Rest)
             left  == SubSeq(queue, Rest + 1, Len(queue))
  <2>1. /\ queue' = left /\ hand' = [hand EXCEPT ![Writer] = Collected]
        /\ getter' = <<>> /\ Collected = getter \o front
    BY <1>4 DEF CollectReturns, Collected
  <2>2. getter \in Seq(Records) /\ Rest \in 0..Len(queue)
    BY CollectTypes DEF IInv, TypeOK
  <2>3. front \in Seq(Records) /\ Range(queue) = Range(front) \cup Range(left)
    BY <1>0, <2>2, SplitCovers
  <2> HIDE DEF front, left
  <2>4. Range(Collected) = Range(getter) \cup Range(front)
    BY <2>1, <2>2, <2>3, JoinSequences
  <2>5. Range(Collected) \subseteq Pending /\ Pending' \subseteq Pending
    BY <2>1, <2>3, <2>4, EmptySequence DEF Pending
  <2> QED
    BY <1>0, <2>1, <2>5, BatchFlows
<1>5. ASSUME NEW d \in Workers, hand' = [hand EXCEPT ![d] = <<>>], UNCHANGED <<queue, getter>>
      PROVE  Flows
  BY <1>5, EmptySequence, BatchFlows DEF Pending
<1>6. WriterFinishes \/ WriterUnwinds => Flows
  BY <1>0, <1>5 DEF WriterFinishes, WriterUnwinds
<1>7. ASSUME NEW d \in Drainers, DrainFinishes(d) PROVE Flows
  BY <1>0, <1>5, <1>7, DrainFlows DEF DrainFinishes
<1>8. UNCHANGED <<queue, getter, hand>> => Flows
  BY <1>1 DEF Pending
<1>9. StopDrains \/ StopJoins => Flows
  BY <1>0, DrainFlows DEF StopDrains, StopJoins, Drainers
<1>10. ASSUME NEW f \in Flushers, FlushCalled(f) \/ FlushAcquires(f) PROVE Flows
  BY <1>0, <1>8, <1>10, DrainFlows DEF FlushCalled, FlushAcquires, Drainers
<1>11. \/ CollectReturnsEmpty \/ WriterAcquires \/ Start \/ StopAsks \/ StopTimesOut
       \/ UNCHANGED vars
       => UNCHANGED <<queue, getter, hand>>
  BY DEF CollectReturnsEmpty, WriterAcquires, Start, StopAsks, StopTimesOut, vars
<1> QED
  BY <1>2, <1>3, <1>4, <1>6, <1>7, <1>8, <1>9, <1>10, <1>11
     DEF Next, LoopStep, DatabaseStep, Call
-----------------------------------------------------------------------------
(* stop                                                                     *)

FlushersHold == UNION {Held(f) : f \in Flushers}

\* Stop has settled what was in flight when it was called, except what flushes
\* hold; while it drains, a batch that is not full is its last.
StopSettles ==
    /\ before[Stopper].all \subseteq Accepted
    /\ pc[Stopper] \in {"join", "write", "returned"}
    /\ pc[Stopper] = "returned" => before[Stopper].all \cap InFlight \subseteq FlushersHold
    /\ pc[Stopper] = "write" /\ Len(hand[Stopper]) < BatchSize =>
          before[Stopper].all \cap Range(queue) = {}

\* Once the writer is done, the records in flight are queued, in stop's own
\* batch or with flushes.
LEMMA WriterAsideNext ==
    ASSUME Hands', pc'[Writer] = "done"
    PROVE  InFlight' \subseteq Range(queue') \cup Held(Stopper)' \cup FlushersHold'
<1>1. getter' = <<>> /\ hand'[Writer] = <<>>
  BY DEF Hands
<1>2. Range(getter') = {} /\ Held(Writer)' = {}
  BY <1>1, EmptySequence DEF Held
<1> QED
  BY <1>2 DEF InFlight, Workers, Drainers, FlushersHold

\* A turn of stop's drain takes a full batch, or all there is.
LEMMA StopDrainSettles ==
    ASSUME IInv, Hands', DrainTakes(Stopper), pc[Writer] = "done",
           before'[Stopper].all \subseteq Accepted, Accepted \subseteq Accepted'
    PROVE  StopSettles'
<1> DEFINE n == Smaller(BatchSize, Len(queue))
           batch == SubSeq(queue, 1, n)
           left  == SubSeq(queue, n + 1, Len(queue))
<1>0. Stopper \in Workers /\ Writer \in Workers /\ Writer # Stopper
  BY WorkersAssumption DEF Workers, Drainers
<1>1. queue \in Seq(Records) /\ n \in 0..Len(queue) /\ (n < BatchSize => n = Len(queue))
  BY SizesAssumption DEF IInv, TypeOK, Smaller
<1>2. /\ queue' = left /\ hand'[Stopper] = batch
      /\ pc'[Stopper] = IF n = 0 THEN "returned" ELSE "write"
      /\ pc'[Writer] = "done"
  BY <1>0 DEF DrainTakes, IInv, TypeOK
<1>3. Len(batch) = n /\ (n = Len(queue) => left = <<>>) /\ (n = 0 => batch = <<>>)
  <2>1. Len(batch) = n /\ Len(left) = Len(queue) - n /\ left \in Seq(Records) /\ batch \in Seq(Records)
    BY <1>1
  <2> HIDE DEF n, batch, left
  <2> QED
    BY <1>1, <2>1
<1>4. n < BatchSize => Range(queue') = {}
  BY <1>1, <1>2, <1>3, EmptySequence
<1>5. InFlight' \subseteq Range(queue') \cup Held(Stopper)' \cup FlushersHold'
  BY <1>2, WriterAsideNext
<1>6. n = 0 => Held(Stopper)' = {}
  BY <1>2, <1>3, EmptySequence DEF Held
<1>7. before'[Stopper].all \subseteq Accepted'
  OBVIOUS
<1>8. BatchSize \in Nat \ {0}
  BY SizesAssumption
<1> HIDE DEF n, batch, left
<1> QED
  BY <1>1, <1>2, <1>3, <1>4, <1>5, <1>6, <1>7, <1>8 DEF StopSettles

\* What other coroutines do takes records away from the queue, and adds newer
\* ones.
LEMMA OthersKeepSettled ==
    ASSUME IInv, Hands, Hands', StopSettles, Flows, Accepted \subseteq Accepted',
           pc'[Stopper] = pc[Stopper], hand'[Stopper] = hand[Stopper],
           before'[Stopper] = before[Stopper]
    PROVE  StopSettles'
<1>1. before[Stopper].all \subseteq Accepted
  BY DEF StopSettles
<1>2. ASSUME pc[Stopper] = "returned"
      PROVE  before'[Stopper].all \cap InFlight' \subseteq FlushersHold'
  <2>1. before[Stopper].all \cap InFlight' \subseteq FlushersHold
    BY <1>1, <1>2 DEF StopSettles, Flows
  <2>2. \A f \in Flushers : Held(f) \cap InFlight' \subseteq Held(f)'
    BY DEF Flows, Workers, Drainers
  <2> QED
    BY <2>1, <2>2 DEF FlushersHold
<1>3. ASSUME pc[Stopper] = "write", Len(hand[Stopper]) < BatchSize
      PROVE  before'[Stopper].all \cap Range(queue') = {}
  <2>1. before[Stopper].all \cap Range(queue) = {} /\ getter = <<>>
    BY <1>3 DEF StopSettles, Hands
  <2>2. Range(queue') \cap Accepted \subseteq Range(queue)
    BY <2>1, EmptySequence DEF Flows, Pending
  <2> QED
    BY <1>1, <2>1, <2>2
<1> QED
  BY <1>1, <1>2, <1>3 DEF StopSettles

LEMMA AcceptedGrows == IInv /\ [Next]_vars => Accepted \subseteq Accepted'
<1> SUFFICES ASSUME IInv, [Next]_vars PROVE Accepted \subseteq Accepted'
  OBVIOUS
<1>1. /\ stats \in [queued : 0..MaxRecords, written : Nat, dropped : Nat, failed : Nat]
      /\ TypeOK /\ Writer \in Workers /\ Drainers \subseteq Workers
  BY DEF IInv, TypeOK, Workers
<1>2. \A w \in Workers : WriteReturns(w) => stats'.queued = stats.queued
  BY <1>1, WriteTypes
<1>3. stats'.queued \in {stats.queued, stats.queued + 1}
  <2>1. CASE Record
    BY <1>1, <2>1 DEF Record
  <2>2. CASE ~Record
    BY <1>1, <1>2, <2>2 DEF Next, LoopStep, DatabaseStep, Call, vars, GetterTakes, CollectReturns,
       CollectReturnsEmpty, WriterAcquires, StopTimesOut, WriterUnwinds, StopJoins, FlushAcquires,
       WriterFinishes, DrainFinishes, Start, StopAsks, StopDrains, FlushCalled
  <2> QED
    BY <2>1, <2>2
<1> QED
  BY <1>1, <1>3 DEF Accepted

LEMMA StopSettlesStep ==
    ASSUME IInv, Hands, Hands', StopSettles, Flows, Accepted \subseteq Accepted', [Next]_vars
    PROVE  StopSettles'
<1>0. /\ Writer \in Workers /\ Stopper \in Workers /\ Drainers \subseteq Workers
      /\ Writer # Stopper /\ Stopper \in Drainers /\ Writer \notin Drainers /\ Stopper \notin Flushers
  BY WorkersAssumption DEF Workers, Drainers
<1>1. /\ before \in [Drainers -> [all : SUBSET Records, batch : SUBSET Records]]
      /\ hand \in [Workers -> Seq(Records)]
      /\ pc \in [Workers -> {"collect", "lock", "write", "cancelled", "done", "join", "returned"}]
  BY DEF IInv, TypeOK
<1>2. InFlight \subseteq Accepted /\ before[Stopper].all \subseteq Accepted
  BY DEF IInv, Places, InFlight, StopSettles
<1>3. CASE StopAsks
  <2>1. pc'[Stopper] = "join" /\ before'[Stopper].all = InFlight
    BY <1>0, <1>1, <1>3 DEF StopAsks, Snapshot
  <2> QED
    BY <1>2, <2>1 DEF StopSettles
<1>4. CASE StopDrains
  <2>1. /\ DrainTakes(Stopper) /\ pc[Writer] = "done" /\ before'[Stopper].all = InFlight
    BY <1>0, <1>1, <1>4 DEF StopDrains, Snapshot, Hands
  <2> QED
    BY <1>2, <2>1, StopDrainSettles
<1>5. CASE StopJoins
  BY <1>2, <1>5, StopDrainSettles DEF StopJoins
<1>6. CASE DrainFinishes(Stopper)
  <2>1. pc[Stopper] = "write" /\ before' = before /\ pc[Writer] = "done"
    BY <1>6 DEF DrainFinishes, WriteReturns, WriteSucceeds, WriteFails, Hands
  <2>2. CASE DrainTakes(Stopper)
    BY <1>2, <2>1, <2>2, StopDrainSettles
  <2>3. CASE /\ Len(hand[Stopper]) < BatchSize /\ hand' = [hand EXCEPT ![Stopper] = <<>>]
             /\ pc' = [pc EXCEPT ![Stopper] = "returned"] /\ queue' = queue
    <3>1. pc'[Writer] = "done" /\ pc'[Stopper] = "returned" /\ hand'[Stopper] = <<>>
      BY <1>0, <1>1, <2>1, <2>3
    <3>2. Held(Stopper)' = {}
      BY <3>1, EmptySequence DEF Held
    <3>3. before[Stopper].all \cap Range(queue) = {}
      BY <2>1, <2>3 DEF StopSettles
    <3>4. InFlight' \subseteq Range(queue) \cup FlushersHold'
      BY <2>3, <3>1, <3>2, WriterAsideNext
    <3> QED
      BY <1>2, <2>1, <3>1, <3>3, <3>4 DEF StopSettles
  <2> QED
    BY <1>6, <2>2, <2>3 DEF DrainFinishes
<1>7. ASSUME UNCHANGED <<pc, hand, before>> PROVE StopSettles'
  BY <1>7, OthersKeepSettled
<1>8. ASSUME NEW w \in Workers, w # Stopper, before' = before,
             \A v \in Workers \ {w} : pc'[v] = pc[v] /\ hand'[v] = hand[v]
      PROVE  StopSettles'
  BY <1>0, <1>8, OthersKeepSettled
<1>9. ASSUME \/ CollectReturns \/ CollectReturnsEmpty \/ WriterAcquires \/ WriterUnwinds
             \/ StopTimesOut \/ WriterFinishes \/ Start
      PROVE  StopSettles'
  <2>1. /\ before' = before
        /\ \A v \in Workers \ {Writer} : pc'[v] = pc[v] /\ hand'[v] = hand[v]
    BY <1>1, <1>9 DEF CollectReturns, CollectReturnsEmpty, WriterAcquires, WriterUnwinds,
       StopTimesOut, WriterFinishes, Start
  <2> QED
    BY <1>0, <1>8, <2>1
<1>10. ASSUME NEW f \in Flushers, DrainFinishes(f) \/ FlushCalled(f) \/ FlushAcquires(f)
       PROVE  StopSettles'
  <2>1. \A v \in Workers \ {f} : pc'[v] = pc[v] /\ hand'[v] = hand[v]
    BY <1>1, <1>10 DEF DrainFinishes, FlushCalled, FlushAcquires, DrainTakes
  <2>2. before'[Stopper] = before[Stopper]
    BY <1>0, <1>1, <1>10 DEF DrainFinishes, FlushCalled, FlushAcquires
  <2> QED
    BY <1>0, <2>1, <2>2, OthersKeepSettled
<1>11. Record \/ GetterTakes \/ UNCHANGED vars => UNCHANGED <<pc, hand, before>>
  BY DEF Record, GetterTakes, vars
<1>12. Drainers = Flushers \cup {Stopper}
  BY DEF Drainers
<1> QED
  BY <1>3, <1>4, <1>5, <1>6, <1>7, <1>9, <1>10, <1>11, <1>12
     DEF Next, LoopStep, DatabaseStep, Call

LEMMA StopSettlesInit == Init => StopSettles
<1> SUFFICES ASSUME Init PROVE StopSettles
  OBVIOUS
<1>1. /\ Stopper \in Drainers /\ Stopper \in Workers /\ Stopper # Writer
  BY WorkersAssumption DEF Workers, Drainers
<1>2. before[Stopper].all = {} /\ pc[Stopper] = "returned"
  BY <1>1 DEF Init
<1> QED
  BY <1>2 DEF StopSettles

-----------------------------------------------------------------------------
(* flush                                                                    *)

\* The waiters of the lock are the coroutines suspended on it, each once, and
\* the writer holds the lock while it writes.
LockInv ==
    /\ IsInjective(waiters)
    /\ \A w \in Range(waiters) : pc[w] = "lock"
    /\ pc[Writer] \in {"collect", "lock", "write", "cancelled", "done"}
    /\ pc[Writer] = "lock" => Writer \in Range(waiters)
    /\ pc[Writer] \in {"write", "cancelled"} => locked

\* A coroutine that was not waiting joins the end of the line.
LEMMA LockJoins ==
    ASSUME IInv, LockInv, NEW w \in Flushers \cup {Writer}, pc[w] # "lock",
           pc' = [pc EXCEPT ![w] = "lock"], waiters' = Append(waiters, w), locked' = locked
    PROVE  LockInv'
<1>1. /\ waiters \in Seq(Flushers \cup {Writer})
      /\ pc \in [Workers -> {"collect", "lock", "write", "cancelled", "done", "join", "returned"}]
      /\ Writer \in Workers /\ w \in Workers
  BY DEF IInv, TypeOK, Workers, Drainers
<1>2. w \notin Range(waiters)
  BY DEF LockInv
<1>3. IsInjective(waiters') /\ Range(waiters') = Range(waiters) \cup {w}
  BY <1>1, <1>2, AppendNew DEF LockInv
<1>4. pc'[w] = "lock" /\ \A v \in Workers \ {w} : pc'[v] = pc[v]
  BY <1>1
<1>5. \A v \in Range(waiters') : pc'[v] = "lock"
  <2>1. Range(waiters) \subseteq Workers
    BY <1>1 DEF Range, Workers, Drainers
  <2> QED
    BY <1>2, <1>3, <1>4, <2>1 DEF LockInv
<1> QED
  BY <1>1, <1>3, <1>4, <1>5 DEF LockInv

\* The first in the line takes the lock.
LEMMA LockLeaves ==
    ASSUME IInv, LockInv, NEW w \in Flushers \cup {Writer}, waiters # <<>>, Head(waiters) = w,
           waiters' = Tail(waiters), \A v \in Workers \ {w} : pc'[v] = pc[v], pc'[w] # "lock",
           w = Writer => pc'[w] = "write" /\ locked', w # Writer => locked' = locked
    PROVE  LockInv'
<1>1. waiters \in Seq(Flushers \cup {Writer}) /\ Writer \in Workers
  BY DEF IInv, TypeOK, Workers
<1>2. /\ IsInjective(waiters') /\ Range(waiters') \subseteq Range(waiters) \ {w}
      /\ Range(waiters) \subseteq Range(waiters') \cup {w}
  BY <1>1, HeadAndTail, TailCovers DEF LockInv
<1>3. Range(waiters) \subseteq Workers
  BY <1>1 DEF Range, Workers, Drainers
<1>4. \A v \in Range(waiters') : pc'[v] = "lock"
  BY <1>2, <1>3 DEF LockInv
<1>5. CASE w = Writer
  BY <1>2, <1>4, <1>5 DEF LockInv
<1>6. CASE w # Writer
  BY <1>1, <1>2, <1>4, <1>6 DEF LockInv
<1> QED
  BY <1>5, <1>6

\* The line stays as it is while coroutines that are not in it move on.
LEMMA LockKept ==
    ASSUME IInv, LockInv, NEW w \in Workers, waiters' = waiters, pc[w] # "lock",
           \A v \in Workers \ {w} : pc'[v] = pc[v],
           w = Writer => /\ pc'[w] \in {"collect", "write", "cancelled", "done"}
                         /\ pc'[w] \in {"write", "cancelled"} => locked',
           w # Writer => locked' = locked
    PROVE  LockInv'
<1>1. waiters \in Seq(Flushers \cup {Writer}) /\ Writer \in Workers
  BY DEF IInv, TypeOK, Workers
<1>2. Range(waiters) \subseteq Workers
  BY <1>1 DEF Range, Workers, Drainers
<1>3. \A v \in Range(waiters) : pc'[v] = "lock"
  BY <1>2 DEF LockInv
<1>4. CASE w = Writer
  BY <1>3, <1>4 DEF LockInv
<1>5. CASE w # Writer
  BY <1>1, <1>3, <1>5 DEF LockInv
<1> QED
  BY <1>4, <1>5

LEMMA LockStep == IInv /\ Hands /\ LockInv /\ [Next]_vars => LockInv'
<1> SUFFICES ASSUME IInv, Hands, LockInv, [Next]_vars PROVE LockInv'
  OBVIOUS
<1>0. /\ Writer \in Workers /\ Stopper \in Workers /\ Drainers \subseteq Workers
      /\ Writer # Stopper /\ Stopper \in Drainers /\ Writer \notin Drainers
      /\ Flushers \subseteq Drainers
  BY WorkersAssumption DEF Workers, Drainers
<1>1. pc \in [Workers -> {"collect", "lock", "write", "cancelled", "done", "join", "returned"}]
  BY DEF IInv, TypeOK
<1>2. CASE CollectReturns
  <2>1. CASE /\ waiters' = waiters /\ locked' = TRUE
             /\ pc' = [pc EXCEPT ![Writer] = "write"]
    BY <1>0, <1>1, <1>2, <2>1, LockKept DEF CollectReturns
  <2>2. CASE /\ waiters' = Append(waiters, Writer) /\ locked' = locked
             /\ pc' = [pc EXCEPT ![Writer] = "lock"]
    BY <1>2, <2>2, LockJoins DEF CollectReturns
  <2> QED
    BY <1>2, <2>1, <2>2 DEF CollectReturns
<1>3. CASE WriterAcquires
  BY <1>0, <1>1, <1>3, LockLeaves DEF WriterAcquires
<1>4. CASE CollectReturnsEmpty \/ WriterFinishes \/ StopTimesOut \/ WriterUnwinds \/ Start
  <2>1. /\ waiters' = waiters /\ pc[Writer] # "lock"
        /\ \A v \in Workers \ {Writer} : pc'[v] = pc[v]
        /\ pc'[Writer] \in {"collect", "cancelled", "done"}
    BY <1>0, <1>1, <1>4 DEF CollectReturnsEmpty, WriterFinishes, WriteReturns, WriteSucceeds,
       WriteFails, StopTimesOut, WriterUnwinds, Start, Hands
  <2>2. pc'[Writer] = "cancelled" => locked'
    BY <1>0, <1>1, <1>4 DEF CollectReturnsEmpty, WriterFinishes, StopTimesOut, WriterUnwinds,
       Start, LockInv
  <2> QED
    BY <1>0, <2>1, <2>2, LockKept
<1>5. CASE StopAsks \/ StopDrains \/ StopJoins
  <2>1. /\ waiters' = waiters /\ locked' = locked /\ pc[Stopper] # "lock"
        /\ \A v \in Workers \ {Stopper} : pc'[v] = pc[v]
    BY <1>0, <1>1, <1>5 DEF StopAsks, StopDrains, StopJoins, DrainTakes
  <2> QED
    BY <1>0, <2>1, LockKept
<1>6. ASSUME NEW d \in Drainers, DrainFinishes(d) PROVE LockInv'
  <2>1. /\ waiters' = waiters /\ locked' = locked /\ pc[d] # "lock"
        /\ \A v \in Workers \ {d} : pc'[v] = pc[v]
    BY <1>0, <1>1, <1>6 DEF DrainFinishes, DrainTakes, WriteReturns, WriteSucceeds, WriteFails
  <2> QED
    BY <1>0, <1>6, <2>1, LockKept
<1>7. ASSUME NEW f \in Flushers, FlushCalled(f) PROVE LockInv'
  <2>1. CASE DrainTakes(f) /\ UNCHANGED <<waiters, locked>>
    <3>1. pc[f] # "lock" /\ \A v \in Workers \ {f} : pc'[v] = pc[v]
      BY <1>0, <1>1, <1>7, <2>1 DEF FlushCalled, DrainTakes
    <3> QED
      BY <1>0, <2>1, <3>1, LockKept
  <2>2. CASE /\ waiters' = Append(waiters, f) /\ pc' = [pc EXCEPT ![f] = "lock"]
             /\ locked' = locked
    BY <1>7, <2>2, LockJoins DEF FlushCalled
  <2> QED
    BY <1>7, <2>1, <2>2 DEF FlushCalled
<1>8. ASSUME NEW f \in Flushers, FlushAcquires(f) PROVE LockInv'
  <2>1. /\ waiters # <<>> /\ Head(waiters) = f /\ waiters' = Tail(waiters) /\ locked' = locked
        /\ pc'[f] # "lock" /\ \A v \in Workers \ {f} : pc'[v] = pc[v]
    BY <1>0, <1>1, <1>8 DEF FlushAcquires, DrainTakes
  <2> QED
    BY <1>0, <2>1, LockLeaves
<1>9. Record \/ GetterTakes \/ UNCHANGED vars => UNCHANGED <<pc, waiters, locked>>
  BY DEF Record, GetterTakes, vars
<1>10. UNCHANGED <<pc, waiters, locked>> => LockInv'
  BY DEF LockInv
<1> QED
  BY <1>2, <1>3, <1>4, <1>5, <1>6, <1>7, <1>8, <1>9, <1>10
     DEF Next, LoopStep, DatabaseStep, Call

LEMMA LockInit == Init => LockInv
  BY EmptySequence DEF Init, LockInv, Workers

\* A flush that waits is behind the writer in the line.
Behind(f) == \A i, j \in DOMAIN waiters : waiters[i] = f /\ waiters[j] = Writer => j < i

\* Of the batch a flush was called after, what is in flight is still in the
\* writer's hands, with the flush behind it in the line; once the flush has
\* passed the lock, nothing is.
FlushSettles(f) ==
    /\ before[f].batch \subseteq Accepted
    /\ before[f].batch \cap InFlight \subseteq Held(Writer)
    /\ pc[f] # "lock" => before[f].batch \cap InFlight = {}
    /\ pc[Writer] = "lock" /\ before[f].batch \cap InFlight # {} => Behind(f)

\* Whoever joins the line joins it behind the others.
LEMMA JoinsBehind ==
    ASSUME NEW g \in Flushers, waiters \in Seq(Flushers \cup {Writer}),
           waiters' = Append(waiters, g), NEW f \in Flushers,
           Behind(f) \/ f \notin Range(waiters)
    PROVE  Behind(f)'
<1>1. /\ DOMAIN waiters = 1..Len(waiters) /\ DOMAIN waiters' = 1..(Len(waiters) + 1)
      /\ Len(waiters) \in Nat
      /\ \A i \in 1..Len(waiters) : waiters'[i] = waiters[i]
      /\ waiters'[Len(waiters) + 1] = g
  OBVIOUS
<1>2. ASSUME NEW i \in 1..(Len(waiters) + 1), NEW j \in 1..(Len(waiters) + 1),
             waiters'[i] = f, waiters'[j] = Writer
      PROVE  j < i
  <2>1. j \in 1..Len(waiters) /\ waiters[j] = Writer
    BY <1>1, <1>2, WorkersAssumption
  <2>2. CASE i \in 1..Len(waiters)
    <3>1. waiters[i] = f
      BY <1>1, <1>2, <2>2
    <3>2. f \in Range(waiters)
      BY <1>1, <2>2, <3>1 DEF Range
    <3> QED
      BY <1>1, <2>1, <2>2, <3>1, <3>2 DEF Behind
  <2>3. CASE i \notin 1..Len(waiters)
    <3>1. i = Len(waiters) + 1
      BY <1>1, <2>3
    <3> QED
      BY <1>1, <2>1, <3>1
  <2> QED
    BY <2>2, <2>3
<1> QED
  BY <1>1, <1>2 DEF Behind

\* The line moves up.
LEMMA MovesUp ==
    ASSUME waiters \in Seq(Flushers \cup {Writer}), waiters # <<>>, waiters' = Tail(waiters),
           NEW f \in Flushers, Behind(f)
    PROVE  Behind(f)'
<1>1. /\ DOMAIN waiters = 1..Len(waiters) /\ DOMAIN waiters' = 1..(Len(waiters) - 1)
      /\ Len(waiters) \in Nat
      /\ \A i \in 1..(Len(waiters) - 1) : waiters'[i] = waiters[i + 1]
  OBVIOUS
<1>2. ASSUME NEW i \in 1..(Len(waiters) - 1), NEW j \in 1..(Len(waiters) - 1),
             waiters'[i] = f, waiters'[j] = Writer
      PROVE  j < i
  <2>1. /\ i + 1 \in DOMAIN waiters /\ j + 1 \in DOMAIN waiters
        /\ waiters[i + 1] = f /\ waiters[j + 1] = Writer
    BY <1>1, <1>2
  <2>2. j + 1 < i + 1
    BY <2>1 DEF Behind
  <2> QED
    BY <1>1, <2>2
<1> QED
  BY <1>1, <1>2 DEF Behind

\* A writer with nothing in its hands is neither waiting for the lock nor
\* writing; otherwise it holds the lock or is in the line.
LEMMA WriterIdle ==
    ASSUME Hands, LockInv, ~locked, Writer \notin Range(waiters)
    PROVE  Held(Writer) = {}
<1>1. hand[Writer] = <<>>
  BY DEF Hands, LockInv
<1> QED
  BY <1>1, EmptySequence DEF Held

\* A flush at the head of the line finds the batch it was called after settled.
LEMMA HeadIsSettled ==
    ASSUME IInv, Hands, LockInv, NEW f \in Flushers, FlushSettles(f),
           ~locked, waiters # <<>>, Head(waiters) = f
    PROVE  before[f].batch \cap InFlight = {}
<1>1. waiters \in Seq(Flushers \cup {Writer})
  BY DEF IInv, TypeOK
<1>2. /\ DOMAIN waiters = 1..Len(waiters) /\ Len(waiters) \in Nat \ {0} /\ waiters[1] = f
  BY <1>1
<1>3. CASE Writer \notin Range(waiters)
  BY <1>3, WriterIdle DEF FlushSettles
<1>4. CASE Writer \in Range(waiters)
  <2>1. PICK j \in DOMAIN waiters : waiters[j] = Writer
    BY <1>4 DEF Range
  <2>2. pc[Writer] = "lock"
    BY <1>4 DEF LockInv
  <2>3. ~Behind(f)
    BY <1>2, <2>1 DEF Behind
  <2> QED
    BY <2>2, <2>3 DEF FlushSettles
<1> QED
  BY <1>3, <1>4

\* What is settled stays settled.
LEMMA SettledStays ==
    ASSUME Flows, Accepted \subseteq Accepted', NEW f \in Flushers, FlushSettles(f),
           before'[f] = before[f], before[f].batch \cap InFlight = {}
    PROVE  FlushSettles(f)'
<1>1. before'[f].batch \subseteq Accepted /\ before'[f].batch \cap InFlight' = {}
  BY DEF Flows, FlushSettles
<1> QED
  BY <1>1 DEF FlushSettles

\* A flush is called with the writer's batch as what it waits for.
LEMMA CalledSettles ==
    ASSUME IInv, Hands, LockInv, Accepted \subseteq Accepted', NEW f \in Flushers, FlushCalled(f)
    PROVE  FlushSettles(f)'
<1>0. /\ f \in Workers /\ f \in Drainers /\ Writer \in Workers
      /\ waiters \in Seq(Flushers \cup {Writer})
      /\ before \in [Drainers -> [all : SUBSET Records, batch : SUBSET Records]]
  BY DEF IInv, TypeOK, Workers, Drainers
<1>1. before'[f].batch = Held(Writer) /\ pc[f] = "returned" /\ Held(Writer) \subseteq Accepted
  BY <1>0 DEF FlushCalled, Snapshot, IInv, Places
<1>2. f \notin Range(waiters)
  BY <1>1 DEF LockInv
<1>3. CASE ~locked /\ waiters = <<>>
  <2>1. Held(Writer) = {}
    BY <1>3, WriterIdle, EmptySequence
  <2> QED
    BY <1>1, <2>1 DEF FlushSettles
<1>4. CASE waiters' = Append(waiters, f) /\ hand' = hand /\ pc' = [pc EXCEPT ![f] = "lock"]
  <2>1. Behind(f)' /\ pc'[f] = "lock" /\ Held(Writer)' = Held(Writer)
    BY <1>0, <1>2, <1>4, JoinsBehind DEF IInv, TypeOK, Held
  <2> QED
    BY <1>1, <2>1 DEF FlushSettles
<1> QED
  BY <1>3, <1>4 DEF FlushCalled

\* What the others do leaves a flush that waits behind the writer.
LEMMA OthersKeepBehind ==
    ASSUME IInv, Hands, NEW f \in Flushers, Behind(f), pc'[Writer] = "lock", [Next]_vars,
           ~FlushCalled(f), pc[Writer] # "collect"
    PROVE  Behind(f)'
<1>0. /\ waiters \in Seq(Flushers \cup {Writer})
      /\ pc \in [Workers -> {"collect", "lock", "write", "cancelled", "done", "join", "returned"}]
      /\ Writer \in Workers
  BY DEF IInv, TypeOK, Workers
<1>1. CASE waiters' = waiters
  BY <1>1 DEF Behind
<1>2. CASE waiters # <<>> /\ waiters' = Tail(waiters)
  BY <1>0, <1>2, MovesUp
<1>3. CASE \E g \in Flushers : waiters' = Append(waiters, g)
  BY <1>0, <1>3, JoinsBehind
<1>4. ~CollectReturns
  BY DEF CollectReturns
<1> QED
  BY <1>1, <1>2, <1>3, <1>4
     DEF Next, LoopStep, DatabaseStep, Call, vars, GetterTakes, CollectReturnsEmpty, WriterAcquires,
         StopTimesOut, WriterUnwinds, StopJoins, FlushAcquires, WriterFinishes, DrainFinishes,
         Record, Start, StopAsks, StopDrains, FlushCalled

LEMMA FlushSettlesStep ==
    ASSUME IInv, Hands, LockInv, Flows, Accepted \subseteq Accepted', [Next]_vars,
           NEW f \in Flushers, FlushSettles(f)
    PROVE  FlushSettles(f)'
<1>0. /\ f \in Workers /\ f \in Drainers /\ Writer \in Workers /\ f # Writer /\ f # Stopper
      /\ Writer \notin Drainers
      /\ Stopper \in Workers /\ Drainers \subseteq Workers /\ Flushers \subseteq Drainers
      /\ pc \in [Workers -> {"collect", "lock", "write", "cancelled", "done", "join", "returned"}]
      /\ before \in [Drainers -> [all : SUBSET Records, batch : SUBSET Records]]
  BY WorkersAssumption DEF Workers, Drainers, IInv, TypeOK
<1>1. CASE FlushCalled(f)
  BY <1>1, CalledSettles
<1>2. CASE ~FlushCalled(f)
  <2>1. before'[f] = before[f]
    BY <1>0, <1>2 DEF Next, LoopStep, DatabaseStep, Call, vars, GetterTakes, CollectReturns,
       CollectReturnsEmpty, WriterAcquires, StopTimesOut, WriterUnwinds, StopJoins, FlushAcquires,
       WriterFinishes, DrainFinishes, Record, Start, StopAsks, StopDrains, FlushCalled
  <2>2. CASE before[f].batch \cap InFlight = {}
    BY <2>1, <2>2, SettledStays
  <2>3. CASE before[f].batch \cap InFlight # {}
    <3>1. pc[f] = "lock" /\ Held(Writer) # {}
      BY <2>3 DEF FlushSettles
    <3>2. pc[Writer] \notin {"collect", "done"}
      BY <3>1, EmptySequence DEF Hands, Held
    <3>3. ~FlushAcquires(f)
      BY <2>3, HeadIsSettled DEF FlushAcquires
    <3>4. pc'[f] = "lock"
      BY <1>0, <1>2, <3>1, <3>3 DEF Next, LoopStep, DatabaseStep, Call, vars, GetterTakes,
         CollectReturns, CollectReturnsEmpty, WriterAcquires, StopTimesOut, WriterUnwinds,
         StopJoins, FlushAcquires, WriterFinishes, DrainFinishes, Record, Start, StopAsks,
         StopDrains, FlushCalled, DrainTakes, WriteReturns, WriteSucceeds, WriteFails
    <3>5. /\ before'[f].batch \subseteq Accepted'
          /\ before'[f].batch \cap InFlight' \subseteq Held(Writer)'
      BY <1>0, <2>1 DEF FlushSettles, Flows
    <3>6. pc'[Writer] = "lock" => pc[Writer] = "lock"
      BY <1>0, <3>2 DEF Next, LoopStep, DatabaseStep, Call, vars, GetterTakes,
         CollectReturns, CollectReturnsEmpty, WriterAcquires, StopTimesOut, WriterUnwinds,
         StopJoins, FlushAcquires, WriterFinishes, DrainFinishes, Record, Start, StopAsks,
         StopDrains, FlushCalled, DrainTakes, Drainers
    <3>7. pc'[Writer] = "lock" => Behind(f)'
      BY <1>2, <2>3, <3>2, <3>6, OthersKeepBehind DEF FlushSettles
    <3> QED
      BY <3>4, <3>5, <3>7 DEF FlushSettles
  <2> QED
    BY <2>2, <2>3
<1> QED
  BY <1>1, <1>2

LEMMA FlushSettlesInit == Init => \A f \in Flushers : FlushSettles(f)
<1> SUFFICES ASSUME Init, NEW f \in Flushers PROVE FlushSettles(f)
  OBVIOUS
<1>1. before[f].batch = {}
  BY DEF Init, Drainers
<1> QED
  BY <1>1 DEF FlushSettles

\* After stop, what was in flight when it was called has its outcome or is in
\* the hands of a flush; after flush, the batch the writer held has its outcome.
THEOREM Settled == Spec => []SettledOnReturn
<1> DEFINE SInv == LockInv /\ StopSettles /\ \A f \in Flushers : FlushSettles(f)
<1>1. Init => SInv
  BY LockInit, StopSettlesInit, FlushSettlesInit
<1>2. IInv /\ Hands /\ (IInv /\ Hands)' /\ SInv /\ [Next]_vars => SInv'
  <2> SUFFICES ASSUME IInv, Hands, Hands', SInv, [Next]_vars PROVE SInv'
    OBVIOUS
  <2>1. Flows /\ Accepted \subseteq Accepted'
    BY FlowsStep, AcceptedGrows
  <2>2. LockInv'
    BY LockStep
  <2>3. StopSettles'
    BY <2>1, StopSettlesStep
  <2>4. \A f \in Flushers : FlushSettles(f)'
    BY <2>1, FlushSettlesStep
  <2> QED
    BY <2>2, <2>3, <2>4
<1>3. SInv => SettledOnReturn
  BY DEF StopSettles, FlushSettles, SettledOnReturn, FlushersHold
<1> HIDE DEF SInv
<1> QED
  BY <1>1, <1>2, <1>3, PlacesAlways, PTL DEF Spec

-----------------------------------------------------------------------------
(* The service implements the trail                                         *)

TrailStep == [Trail!Next]_(Trail!vars)

\* A worker that gives up its batch settles it; an empty batch is a stutter.
LEMMA SettleImplements ==
    ASSUME IInv, NEW w \in Workers, InFlight' = InFlight \ Held(w),
           rows' \in {rows, rows \o hand[w]},
           \/ /\ stats' = [stats EXCEPT !.written = @ + Len(hand[w])]
              /\ rows' = rows \o hand[w] /\ lost' = lost
           \/ /\ stats' = [stats EXCEPT !.failed = @ + Len(hand[w])]
              /\ lost' = lost
           \/ /\ stats' = stats /\ lost' = lost + Len(hand[w])
    PROVE  TrailStep
<1>0. PICK batch : batch = Held(w)
  OBVIOUS
<1>1. /\ stats \in [queued : 0..MaxRecords, written : Nat, dropped : Nat, failed : Nat]
      /\ lost \in Nat /\ rows \in Seq(Records) /\ hand[w] \in Seq(Records)
      /\ Len(hand[w]) <= BatchSize /\ IsInjective(hand[w])
  BY DEF IInv, TypeOK, Places
<1>2. Cardinality(batch) = Len(hand[w]) /\ Len(hand[w]) \in Nat
  BY <1>0, <1>1, SequenceSize DEF Held
<1>3. Range(rows \o hand[w]) = Range(rows) \cup batch
  BY <1>0, <1>1, JoinSequences DEF Held
<1>4. Range(rows') \in {Range(rows), Range(rows) \cup batch}
  BY <1>3
<1>5. batch \in SUBSET InFlight /\ InFlight' = InFlight \ batch
  BY <1>0 DEF InFlight
<1>6. stats'.queued = stats.queued /\ stats'.dropped = stats.dropped
  BY <1>1
<1>7. \/ /\ stats'.written = stats.written + Cardinality(batch)
         /\ Range(rows') = Range(rows) \cup batch
         /\ stats'.failed = stats.failed /\ lost' = lost
      \/ /\ stats'.failed = stats.failed + Cardinality(batch)
         /\ stats'.written = stats.written /\ lost' = lost
      \/ /\ lost' = lost + Cardinality(batch)
         /\ stats'.written = stats.written /\ stats'.failed = stats.failed
  BY <1>1, <1>2, <1>3
<1>8. CASE hand[w] = <<>>
  <2>1. batch = {} /\ Len(hand[w]) = 0
    BY <1>0, <1>8, EmptySequence DEF Held
  <2>2. Cardinality(batch) = 0
    BY <1>2, <2>1
  <2>3. InFlight' = InFlight /\ Range(rows') = Range(rows)
    BY <1>4, <1>5, <2>1
  <2>4. stats'.written = stats.written /\ stats'.failed = stats.failed /\ lost' = lost
    BY <1>1, <1>7, <2>2
  <2> QED
    BY <1>6, <2>3, <2>4 DEF TrailStep, Trail!vars
<1>9. CASE hand[w] # <<>>
  <2>1. Cardinality(batch) \in 1..BatchSize
    BY <1>1, <1>2, <1>9, SizesAssumption
  <2>2. Trail!Cardinality(batch) = Cardinality(batch)
    BY DEF Trail!Cardinality, Cardinality
  <2>3. Trail!Settle(batch)
    BY <1>4, <1>5, <1>6, <1>7, <2>2 DEF Trail!Settle
  <2> QED
    BY <1>5, <2>1, <2>2, <2>3 DEF TrailStep, Trail!Next
<1> QED
  BY <1>8, <1>9

LEMMA RecordImplements == IInv /\ Record => TrailStep
<1> SUFFICES ASSUME IInv, Record PROVE TrailStep
  OBVIOUS
<1>1. /\ stats \in [queued : 0..MaxRecords, written : Nat, dropped : Nat, failed : Nat]
      /\ stats.queued < MaxRecords /\ lost' = lost /\ rows' = rows
  BY DEF IInv, TypeOK, Record
<1>2. CASE /\ InFlight' = InFlight \cup {stats.queued + 1}
           /\ stats' = [stats EXCEPT !.queued = @ + 1]
  <2>1. Trail!Accept
    BY <1>1, <1>2 DEF Trail!Accept
  <2> QED
    BY <2>1 DEF TrailStep, Trail!Next
<1>3. CASE /\ \E h \in InFlight : InFlight' = (InFlight \ {h}) \cup {stats.queued + 1}
           /\ stats' = [stats EXCEPT !.queued = @ + 1, !.dropped = @ + 1]
  <2>1. Trail!Accept
    BY <1>1, <1>3 DEF Trail!Accept
  <2> QED
    BY <2>1 DEF TrailStep, Trail!Next
<1> QED
  BY <1>2, <1>3, RecordMoves

LEMMA TrailNext == IInv /\ Hands /\ [Next]_vars => TrailStep
<1> SUFFICES ASSUME IInv, Hands, [Next]_vars PROVE TrailStep
  OBVIOUS
<1>0. Writer \in Workers /\ Drainers \subseteq Workers /\ Stopper \in Drainers
  BY DEF Workers, Drainers
<1>1. UNCHANGED <<InFlight, stats, rows, lost>> => TrailStep
  BY DEF TrailStep, Trail!vars
<1>2. UNCHANGED <<queue, getter, hand, stats, rows, lost>> => TrailStep
  BY <1>1 DEF InFlight, Held
<1>3. ASSUME NEW w \in Workers, hand' = [hand EXCEPT ![w] = <<>>], UNCHANGED <<queue, getter>>
      PROVE  InFlight' = InFlight \ Held(w)
  BY <1>3, EmptySequence, BatchSettles
<1>4. ASSUME NEW w \in Workers, WriteReturns(w), lost' = lost, InFlight' = InFlight \ Held(w)
      PROVE  TrailStep
  BY <1>4, SettleImplements DEF WriteReturns, WriteSucceeds, WriteFails
<1>5. CASE WriterFinishes
  BY <1>0, <1>3, <1>4, <1>5 DEF WriterFinishes
<1>6. CASE WriterUnwinds
  BY <1>0, <1>3, <1>6, SettleImplements DEF WriterUnwinds
<1>7. ASSUME NEW d \in Drainers, DrainFinishes(d) PROVE TrailStep
  <2>1. InFlight' = InFlight \ Held(d)
    BY <1>0, <1>3, <1>7, DrainSettles DEF DrainFinishes
  <2> QED
    BY <1>0, <1>4, <1>7, <2>1 DEF DrainFinishes
<1>8. ASSUME NEW d \in Drainers, DrainTakes(d), pc[d] # "write",
             UNCHANGED <<getter, stats, rows, lost>>
      PROVE  TrailStep
  <2>1. InFlight' = InFlight \ Held(d)
    BY <1>0, <1>8, DrainSettles
  <2>2. Held(d) = {}
    BY <1>8, EmptySequence DEF Hands, Held
  <2> QED
    BY <1>1, <1>8, <2>1, <2>2
<1>9. CASE StopDrains \/ StopJoins
  BY <1>0, <1>8, <1>9 DEF StopDrains, StopJoins
<1>10. ASSUME NEW f \in Flushers, FlushCalled(f) \/ FlushAcquires(f) PROVE TrailStep
  BY <1>2, <1>8, <1>10 DEF FlushCalled, FlushAcquires, Drainers
<1>11. \/ CollectReturnsEmpty \/ WriterAcquires \/ Start \/ StopAsks \/ StopTimesOut
       \/ UNCHANGED vars
       => UNCHANGED <<queue, getter, hand, stats, rows, lost>>
  BY DEF CollectReturnsEmpty, WriterAcquires, Start, StopAsks, StopTimesOut, vars
<1> QED
  BY <1>1, <1>2, <1>5, <1>6, <1>7, <1>9, <1>10, <1>11, RecordImplements, MovesStutter
     DEF Next, LoopStep, DatabaseStep, Call

LEMMA TrailInit == Init => Trail!Init
<1> SUFFICES ASSUME Init PROVE Trail!Init
  OBVIOUS
<1>1. InFlight = {} /\ Range(rows) = {}
  BY EmptySequence DEF Init, InFlight, Held
<1> QED
  BY <1>1 DEF Init, Trail!Init

\* Whatever the queue, the writer, the flushes and the shutdown do, the service
\* gives each accepted record one outcome, as the audit trail promises.
THEOREM Implements == Spec => ImplementsTrail
<1>1. IInv /\ Hands /\ [Next]_vars => [Trail!Next]_(Trail!vars)
  BY TrailNext DEF TrailStep
<1> QED
  BY <1>1, TrailInit, PlacesAlways, PTL DEF Spec, ImplementsTrail, Trail!Spec
=============================================================================
