-------------------------- MODULE RateLimiterProofs --------------------------
(***************************************************************************)
(* Proofs about RateLimiter, for every limit, window, lag and number of    *)
(* requests in flight.                                                     *)
(***************************************************************************)
EXTENDS RateLimiter, FiniteSetTheorems, TLAPS

-----------------------------------------------------------------------------
(* The inductive invariant                                                  *)

\* A script runs at most MaxLag after the clock reading it is given.
LagBounded == \A r \in Requests : pc[r] = "sent" => now[r] <= clock /\ clock <= now[r] + MaxLag

\* Nobody is admitted in the future, and the key outlives its members.
AdmittedInTime == \A a \in admitted : a.at <= clock /\ a.at + Window <= expires

\* A member stays in the set for as long as any script can still count it.
RecentKept == \A a \in admitted : a.at + Window > clock => a \in window

IInv ==
    /\ TypeOK
    /\ LagBounded
    /\ AdmittedInTime
    /\ window \subseteq admitted
    /\ RecentKept
    /\ QuotaHolds

-----------------------------------------------------------------------------
(* Type correctness                                                         *)

\* What the trim leaves is a finite part of the set.
LEMMA KeptFinite ==
    ASSUME TypeOK, NEW r \in Requests
    PROVE  /\ Kept(r) \subseteq window /\ IsFiniteSet(Kept(r))
           /\ Cardinality(Kept(r)) \in Nat /\ Cardinality(Kept(r)) <= Limit
<1>1. Kept(r) \subseteq window
  BY DEF Kept
<1>2. IsFiniteSet(window) /\ Cardinality(window) <= Limit /\ Cardinality(window) \in Nat
  BY FS_CardinalityType DEF TypeOK
<1>3. IsFiniteSet(Kept(r)) /\ Cardinality(Kept(r)) <= Cardinality(window)
  BY <1>1, <1>2, FS_Subset
<1>4. Cardinality(Kept(r)) \in Nat
  BY <1>3, FS_CardinalityType
<1> QED
  BY <1>1, <1>2, <1>3, <1>4, ConstantsAssumption

LEMMA MemberType ==
    ASSUME TypeOK, NEW r \in Requests
    PROVE  Member(r) \in Members /\ Member(r).at = now[r]
<1>1. Cardinality(admitted) \in Nat /\ now[r] \in Nat
  BY FS_CardinalityType DEF TypeOK
<1> QED
  BY <1>1 DEF Member, Members

\* The set gains a member only when it has fewer than Limit.
LEMMA AdmitBounded ==
    ASSUME TypeOK, NEW r \in Requests, HasRoom(r)
    PROVE  /\ IsFiniteSet(Kept(r) \cup {Member(r)})
           /\ Cardinality(Kept(r) \cup {Member(r)}) <= Limit
<1>1. IsFiniteSet(Kept(r)) /\ Cardinality(Kept(r)) \in Nat /\ Cardinality(Kept(r)) < Limit
  BY KeptFinite DEF HasRoom
<1>2. /\ IsFiniteSet(Kept(r) \cup {Member(r)})
      /\ \/ Cardinality(Kept(r) \cup {Member(r)}) = Cardinality(Kept(r))
         \/ Cardinality(Kept(r) \cup {Member(r)}) = Cardinality(Kept(r)) + 1
  BY <1>1, FS_AddElement
<1> QED
  BY <1>1, <1>2, ConstantsAssumption

\* The oldest member is one of them.
LEMMA OldestExists ==
    ASSUME NEW members \in SUBSET Members, members # {}
    PROVE  /\ OldestOf(members) \in Nat
           /\ \E e \in members : e.at = OldestOf(members)
           /\ \A e \in members : OldestOf(members) <= e.at
<1> DEFINE T == {e.at : e \in members}
<1>1. T \in SUBSET Nat /\ T # {}
  BY DEF Members
<1>2. \E t \in T : \A u \in T : t <= u
  <2> HIDE DEF T
  <2>1. PICK t \in T : \A u \in T : ~ (<<u, t>> \in OpToRel(<, Nat))
    BY <1>1, NatLessThanWellFounded, WFMin
  <2>2. \A u \in T : ~ (u < t)
    BY <1>1, <2>1 DEF OpToRel
  <2>3. \A u \in T : u \in Nat /\ t \in Nat
    BY <1>1
  <2> QED
    BY <2>2, <2>3
<1>3. \E t \in T : \A e \in members : t <= e.at
  BY <1>2
<1>4. OldestOf(members) \in T /\ \A e \in members : OldestOf(members) <= e.at
  BY <1>3 DEF OldestOf
<1> QED
  BY <1>1, <1>4

\* Retry-After, in ticks, reaches past the moment the oldest member leaves.
LEMMA RetryReaches ==
    ASSUME NEW oldest \in Nat, NEW at \in Nat, oldest > at - Window
    PROVE  /\ at + Second * RetryAfter(oldest, at) \in Nat
           /\ at + Second * RetryAfter(oldest, at) >= oldest + Window
<1> DEFINE x == oldest + Window - at
           q == x \div Second
<1>1. x \in Nat /\ Second \in Nat /\ Second > 0
  BY ConstantsAssumption
<1>2. q \in Nat /\ x < Second * (q + 1)
  BY <1>1
<1> HIDE DEF q
<1>3. RetryAfter(oldest, at) = q + 1
  BY <1>1, <1>2 DEF RetryAfter, q
<1> DEFINE y == Second * (q + 1)
<1>4. y \in Nat /\ oldest + Window - at < y
  BY <1>1, <1>2
<1>5. at + Second * RetryAfter(oldest, at) = at + y
  BY <1>3
<1> HIDE DEF y
<1> QED
  BY <1>4, <1>5, ConstantsAssumption

LEMMA TypeStep == TypeOK /\ [Next]_vars => TypeOK'
<1> SUFFICES ASSUME TypeOK, [Next]_vars PROVE TypeOK'
  OBVIOUS
<1>1. CASE Tick
  BY <1>1, FS_EmptySet, ConstantsAssumption DEF Tick, TypeOK
<1>2. CASE Reset
  BY <1>2, FS_EmptySet, ConstantsAssumption DEF Reset, TypeOK
<1>3. ASSUME NEW r \in Requests, Send(r) PROVE TypeOK'
  <2>1. now' \in [Requests -> Nat]
    BY <1>3, ConstantsAssumption DEF Send, TypeOK
  <2> QED
    BY <1>3, <2>1 DEF Send, TypeOK
<1>4. ASSUME NEW r \in Requests, Admit(r) PROVE TypeOK'
  <2>1. window' \subseteq Members /\ admitted' \subseteq Members
    BY <1>4, KeptFinite, MemberType DEF Admit, TypeOK
  <2>2. IsFiniteSet(window') /\ Cardinality(window') <= Limit
    BY <1>4, AdmitBounded DEF Admit
  <2>3. IsFiniteSet(admitted')
    BY <1>4, FS_AddElement DEF Admit, TypeOK
  <2>4. expires' \in Nat
    BY <1>4, ConstantsAssumption DEF Admit, TypeOK
  <2> QED
    BY <1>4, <2>1, <2>2, <2>3, <2>4 DEF Admit, TypeOK
<1>5. ASSUME NEW r \in Requests, Reject(r) PROVE TypeOK'
  <2>1. window' \subseteq Members /\ IsFiniteSet(window') /\ Cardinality(window') <= Limit
    BY <1>5, KeptFinite DEF Reject, TypeOK
  <2>2. Kept(r) # {}
    BY <1>5, KeptFinite, FS_EmptySet, ConstantsAssumption DEF Reject, HasRoom
  <2>3. PICK e \in Kept(r) : e.at = OldestOf(Kept(r)) /\ OldestOf(Kept(r)) \in Nat
    BY <2>1, <2>2, <1>5, OldestExists DEF Reject
  <2>4. OldestOf(Kept(r)) > now[r] - Window
    BY <2>3 DEF Kept
  <2>5. now[r] + Second * RetryAfter(OldestOf(Kept(r)), now[r]) \in Nat
    BY <2>3, <2>4, RetryReaches DEF TypeOK
  <2>6. promised' \subseteq Nat
    BY <1>5, <2>5 DEF Reject, TypeOK
  <2> QED
    BY <1>5, <2>1, <2>6 DEF Reject, TypeOK
<1>6. ASSUME NEW r \in Requests, FailOpen(r) PROVE TypeOK'
  BY <1>6 DEF FailOpen, TypeOK
<1>7. CASE UNCHANGED vars
  BY <1>7 DEF vars, TypeOK
<1> QED
  BY <1>1, <1>2, <1>3, <1>4, <1>5, <1>6, <1>7 DEF Next

-----------------------------------------------------------------------------
(* The quota                                                                *)

\* The admissions of the interval of that length that ends at t.
AdmittedIn(t, length) == {a \in admitted : t - length < a.at /\ a.at <= t}

\* Trimming by a `now` that is not in the future removes nothing that is less
\* than Window old.
LEMMA TrimKeepsRecent ==
    ASSUME IInv, NEW r \in Requests, pc[r] = "sent"
    PROVE  /\ Kept(r) \subseteq admitted
           /\ \A a \in admitted : a.at + Window > clock => a \in Kept(r)
<1>1. now[r] \in Nat /\ clock \in Nat /\ now[r] <= clock
  BY DEF IInv, TypeOK, LagBounded
<1>2. ASSUME NEW a \in admitted, a.at + Window > clock PROVE a \in Kept(r)
  <2>1. a \in window /\ a.at \in Nat
    BY <1>2 DEF IInv, RecentKept, TypeOK, Members
  <2>2. a.at > now[r] - Window
    BY <1>1, <1>2, <2>1, ConstantsAssumption
  <2> QED
    BY <2>1, <2>2 DEF Kept
<1> QED
  BY <1>2 DEF Kept, IInv

\* The step that matters: every admission of the interval is still in the set
\* when the script of the last one counts it.
LEMMA AdmitKeepsQuota ==
    ASSUME IInv, NEW r \in Requests, Admit(r)
    PROVE  QuotaHolds'
<1> SUFFICES ASSUME NEW t \in 0..MaxTime
             PROVE  Cardinality(AdmittedIn(t, Window - MaxLag)') <= Limit
  BY DEF QuotaHolds, AtMostLimitPer, AdmittedIn
<1>1. /\ pc[r] = "sent" /\ HasRoom(r)
      /\ admitted' = admitted \cup {Member(r)}
      /\ window' = Kept(r) \cup {Member(r)}
  BY DEF Admit
<1>2. /\ now[r] \in Nat /\ clock \in Nat /\ clock <= now[r] + MaxLag
      /\ Member(r).at = now[r] /\ t \in Nat
  BY <1>1, MemberType DEF IInv, TypeOK, LagBounded
<1>3. CASE now[r] <= t /\ t - (Window - MaxLag) < now[r]
  <2>1. ASSUME NEW a \in AdmittedIn(t, Window - MaxLag) PROVE a \in Kept(r)
    <3>1. a \in admitted /\ a.at \in Nat /\ t - (Window - MaxLag) < a.at
      BY <2>1 DEF AdmittedIn, IInv, TypeOK, Members
    <3>2. a.at + Window > clock
      BY <1>2, <1>3, <3>1, ConstantsAssumption
    <3> QED
      BY <1>1, <3>1, <3>2, TrimKeepsRecent
  <2>2. AdmittedIn(t, Window - MaxLag)' \subseteq window'
    BY <1>1, <2>1 DEF AdmittedIn
  <2>3. IsFiniteSet(window') /\ Cardinality(window') <= Limit /\ Cardinality(window') \in Nat
    BY <1>1, AdmitBounded, FS_CardinalityType DEF IInv
  <2>4. /\ IsFiniteSet(AdmittedIn(t, Window - MaxLag)')
        /\ Cardinality(AdmittedIn(t, Window - MaxLag)') <= Cardinality(window')
    BY <2>2, <2>3, FS_Subset
  <2>5. Cardinality(AdmittedIn(t, Window - MaxLag)') \in Nat
    BY <2>4, FS_CardinalityType
  <2> QED
    BY <2>3, <2>4, <2>5, ConstantsAssumption
<1>4. CASE ~ (now[r] <= t /\ t - (Window - MaxLag) < now[r])
  <2>1. AdmittedIn(t, Window - MaxLag)' = AdmittedIn(t, Window - MaxLag)
    BY <1>1, <1>2, <1>4 DEF AdmittedIn
  <2> QED
    BY <2>1 DEF IInv, QuotaHolds, AtMostLimitPer, AdmittedIn
<1> QED
  BY <1>3, <1>4

LEMMA NobodyAdmitted ==
    ASSUME admitted' = {}
    PROVE  QuotaHolds'
<1>1. \A t \in 0..MaxTime : AdmittedIn(t, Window - MaxLag)' = {}
  BY DEF AdmittedIn
<1> QED
  BY <1>1, FS_EmptySet, ConstantsAssumption DEF QuotaHolds, AtMostLimitPer, AdmittedIn

LEMMA SameQuota ==
    ASSUME IInv, UNCHANGED admitted
    PROVE  QuotaHolds'
  BY DEF IInv, QuotaHolds, AtMostLimitPer

LEMMA InvStep == IInv /\ [Next]_vars => IInv'
<1> SUFFICES ASSUME IInv, [Next]_vars PROVE IInv'
  OBVIOUS
<1>0. TypeOK'
  BY TypeStep DEF IInv
<1>a. /\ clock \in Nat /\ expires \in Nat /\ now \in [Requests -> Nat]
      /\ \A a \in admitted : a.at \in Nat
  BY DEF IInv, TypeOK, Members
<1>1. CASE Tick
  <2>1. /\ clock' = clock + 1 /\ UNCHANGED <<pc, now, expires, admitted>>
        /\ \A r \in Requests : pc[r] = "sent" => clock < now[r] + MaxLag
        /\ \/ clock + 1 > expires /\ window' = {}
           \/ ~ (clock + 1 > expires) /\ window' = window
    BY <1>1 DEF Tick
  <2>2. LagBounded' /\ AdmittedInTime'
    BY <1>a, <2>1, ConstantsAssumption DEF IInv, LagBounded, AdmittedInTime
  <2>3. RecentKept'
    <3>1. CASE window' = {} /\ clock + 1 > expires
      <4>1. \A a \in admitted : ~ (a.at + Window > clock + 1)
        BY <1>a, <3>1, ConstantsAssumption DEF IInv, AdmittedInTime
      <4> QED
        BY <2>1, <4>1 DEF RecentKept
    <3>2. CASE window' = window
      BY <1>a, <2>1, <3>2, ConstantsAssumption DEF IInv, RecentKept
    <3> QED
      BY <2>1, <3>1, <3>2
  <2>4. (window \subseteq admitted)'
    BY <2>1 DEF IInv
  <2> QED
    BY <1>0, <2>1, <2>2, <2>3, <2>4, SameQuota DEF IInv
<1>2. CASE Reset
  <2>1. admitted' = {} /\ window' = {} /\ UNCHANGED <<clock, pc, now, expires>>
    BY <1>2 DEF Reset
  <2> QED
    BY <1>0, <2>1, NobodyAdmitted DEF IInv, LagBounded, AdmittedInTime, RecentKept
<1>3. ASSUME NEW r \in Requests, Send(r) PROVE IInv'
  <2>1. PICK skew \in 0..MaxSkew : skew <= clock /\ now' = [now EXCEPT ![r] = clock - skew]
    BY <1>3 DEF Send
  <2>2. pc' = [pc EXCEPT ![r] = "sent"] /\ UNCHANGED <<clock, window, expires, admitted>>
    BY <1>3 DEF Send
  <2>3. now'[r] <= clock /\ clock <= now'[r] + MaxLag
    BY <1>a, <2>1, ConstantsAssumption
  <2>4. LagBounded'
    BY <1>a, <2>1, <2>2, <2>3 DEF IInv, TypeOK, LagBounded
  <2> QED
    BY <1>0, <2>2, <2>4, SameQuota DEF IInv, AdmittedInTime, RecentKept
<1>4. ASSUME NEW r \in Requests, Admit(r) PROVE IInv'
  <2>1. /\ pc[r] = "sent" /\ pc' = [pc EXCEPT ![r] = "idle"]
        /\ window' = Kept(r) \cup {Member(r)} /\ admitted' = admitted \cup {Member(r)}
        /\ expires' = clock + Window + Grace /\ UNCHANGED <<clock, now>>
    BY <1>4 DEF Admit
  <2>2. Member(r).at = now[r] /\ now[r] <= clock
    BY <2>1, MemberType DEF IInv, LagBounded
  <2>3. LagBounded'
    BY <2>1 DEF IInv, TypeOK, LagBounded
  <2>4. AdmittedInTime'
    BY <1>a, <2>1, <2>2, ConstantsAssumption DEF IInv, AdmittedInTime
  <2>5. RecentKept' /\ (window \subseteq admitted)'
    BY <2>1, TrimKeepsRecent DEF RecentKept
  <2> QED
    BY <1>0, <1>4, <2>3, <2>4, <2>5, AdmitKeepsQuota DEF IInv
<1>5. ASSUME NEW r \in Requests, Reject(r) PROVE IInv'
  <2>1. /\ pc[r] = "sent" /\ pc' = [pc EXCEPT ![r] = "idle"]
        /\ window' = Kept(r) /\ UNCHANGED <<clock, now, expires, admitted>>
    BY <1>5 DEF Reject
  <2>2. LagBounded'
    BY <2>1 DEF IInv, TypeOK, LagBounded
  <2>3. RecentKept' /\ (window \subseteq admitted)'
    BY <2>1, TrimKeepsRecent DEF RecentKept
  <2> QED
    BY <1>0, <2>1, <2>2, <2>3, SameQuota DEF IInv, AdmittedInTime
<1>6. ASSUME NEW r \in Requests, FailOpen(r) PROVE IInv'
  <2>1. /\ pc' = [pc EXCEPT ![r] = "idle"]
        /\ UNCHANGED <<clock, now, window, expires, admitted>>
    BY <1>6 DEF FailOpen
  <2>2. LagBounded'
    BY <2>1 DEF IInv, TypeOK, LagBounded
  <2> QED
    BY <1>0, <2>1, <2>2, SameQuota DEF IInv, AdmittedInTime, RecentKept
<1>7. CASE UNCHANGED vars
  BY <1>0, <1>7, SameQuota DEF vars, IInv, LagBounded, AdmittedInTime, RecentKept
<1> QED
  BY <1>1, <1>2, <1>3, <1>4, <1>5, <1>6, <1>7 DEF Next

LEMMA InvInit == Init => IInv
<1> SUFFICES ASSUME Init PROVE IInv
  OBVIOUS
<1>1. TypeOK
  BY FS_EmptySet, ConstantsAssumption DEF Init, TypeOK
<1>2. \A t \in 0..MaxTime : AdmittedIn(t, Window - MaxLag) = {}
  BY DEF Init, AdmittedIn
<1>3. QuotaHolds
  BY <1>2, FS_EmptySet, ConstantsAssumption DEF QuotaHolds, AtMostLimitPer, AdmittedIn
<1> QED
  BY <1>1, <1>3 DEF Init, IInv, LagBounded, AdmittedInTime, RecentKept

-----------------------------------------------------------------------------
(* What a rejection promises, and what it rests on                          *)

\* Those of the set that a promise still counts; a promise is kept when they
\* are fewer than Limit.
CountedAt(p, members) == {e \in members : e.at > p - Window}

\* A set that only loses members keeps the promises made.
LEMMA PromiseKept ==
    ASSUME TypeOK, NEW p, Cardinality(CountedAt(p, window)) < Limit,
           NEW rest \in SUBSET window
    PROVE  Cardinality(CountedAt(p, rest)) < Limit
<1> DEFINE before == CountedAt(p, window)
           after == CountedAt(p, rest)
<1>1. after \subseteq before /\ before \subseteq window
  BY DEF CountedAt
<1> HIDE DEF before, after
<1>2. IsFiniteSet(before) /\ IsFiniteSet(after) /\ Cardinality(after) <= Cardinality(before)
  BY <1>1, FS_Subset DEF TypeOK
<1>3. Cardinality(before) \in Nat /\ Cardinality(after) \in Nat
  BY <1>2, FS_CardinalityType
<1>4. Cardinality(before) < Limit
  BY DEF before
<1> QED
  BY <1>2, <1>3, <1>4, ConstantsAssumption DEF after

\* When a caller that was rejected comes back, the oldest of the members that
\* rejected it counts no more.
LEMMA PromiseMade ==
    ASSUME TypeOK, NEW r \in Requests, ~HasRoom(r)
    PROVE  Cardinality(CountedAt(now[r] + Second * RetryAfter(OldestOf(Kept(r)), now[r]), Kept(r))) < Limit
<1> DEFINE oldest == OldestOf(Kept(r))
           p == now[r] + Second * RetryAfter(oldest, now[r])
<1>1. /\ Kept(r) \subseteq window /\ IsFiniteSet(Kept(r))
      /\ Cardinality(Kept(r)) \in Nat /\ Cardinality(Kept(r)) <= Limit
  BY KeptFinite
<1>2. Kept(r) # {} /\ Kept(r) \in SUBSET Members
  BY <1>1, FS_EmptySet, ConstantsAssumption DEF HasRoom, TypeOK
<1>3. PICK e \in Kept(r) : e.at = oldest
  BY <1>2, OldestExists
<1>4. oldest \in Nat /\ oldest > now[r] - Window /\ now[r] \in Nat
  BY <1>2, <1>3, OldestExists DEF Kept, TypeOK
<1>5. p \in Nat /\ p >= oldest + Window
  BY <1>4, RetryReaches
<1> HIDE DEF oldest, p
<1>6. e \notin CountedAt(p, Kept(r))
  BY <1>3, <1>4, <1>5, ConstantsAssumption DEF CountedAt
<1>7. CountedAt(p, Kept(r)) \subseteq Kept(r) \ {e}
  BY <1>6 DEF CountedAt
<1>8. IsFiniteSet(Kept(r) \ {e}) /\ Cardinality(Kept(r) \ {e}) = Cardinality(Kept(r)) - 1
  BY <1>1, <1>3, FS_RemoveElement
<1>9. /\ Cardinality(CountedAt(p, Kept(r))) \in Nat
      /\ Cardinality(CountedAt(p, Kept(r))) <= Cardinality(Kept(r) \ {e})
  BY <1>7, <1>8, FS_Subset, FS_CardinalityType
<1>10. Cardinality(CountedAt(p, Kept(r))) < Limit
  BY <1>1, <1>8, <1>9, ConstantsAssumption
<1> QED
  BY <1>10 DEF p, oldest

LEMMA PromisesStep == TypeOK /\ RetryAfterHonest /\ [Next]_vars => RetryAfterHonest'
<1> SUFFICES ASSUME TypeOK, RetryAfterHonest, [Next]_vars,
                    NEW p \in promised'
             PROVE  Cardinality(CountedAt(p, window')) < Limit
  BY DEF RetryAfterHonest, CountedAt
<1>1. ASSUME p \in promised PROVE Cardinality(CountedAt(p, window)) < Limit
  BY <1>1 DEF RetryAfterHonest, CountedAt
<1>2. CASE p \in promised /\ window' \subseteq window
  BY <1>1, <1>2, PromiseKept
<1>3. CASE Tick \/ Reset \/ UNCHANGED vars
  BY <1>2, <1>3 DEF Tick, Reset, vars
<1>4. ASSUME NEW r \in Requests, Send(r) \/ FailOpen(r)
      PROVE  Cardinality(CountedAt(p, window')) < Limit
  BY <1>2, <1>4 DEF Send, FailOpen
<1>5. ASSUME NEW r \in Requests, Admit(r) PROVE Cardinality(CountedAt(p, window')) < Limit
  BY <1>5 DEF Admit
<1>6. ASSUME NEW r \in Requests, Reject(r) PROVE Cardinality(CountedAt(p, window')) < Limit
  <2>1. window' = Kept(r) /\ window' \subseteq window /\ ~HasRoom(r)
    BY <1>6 DEF Reject, Kept
  <2>2. p \in promised \/ p = now[r] + Second * RetryAfter(OldestOf(Kept(r)), now[r])
    BY <1>6 DEF Reject
  <2> QED
    BY <1>2, <2>1, <2>2, PromiseMade
<1> QED
  BY <1>3, <1>4, <1>5, <1>6 DEF Next

\* A request is rejected for members that are all admissions of its window.
LEMMA RejectionsEarned ==
    ASSUME IInv, NEW r \in Requests, ~HasRoom(r)
    PROVE  Cardinality({a \in admitted : a.at > now[r] - Window}) >= Limit
<1> DEFINE earned == {a \in admitted : a.at > now[r] - Window}
<1>1. Kept(r) \subseteq earned /\ earned \subseteq admitted
  BY DEF Kept, IInv
<1> HIDE DEF earned
<1>2. IsFiniteSet(earned) /\ Cardinality(Kept(r)) <= Cardinality(earned)
  BY <1>1, FS_Subset DEF IInv, TypeOK
<1>3. Cardinality(earned) \in Nat /\ Cardinality(Kept(r)) \in Nat /\ ~ (Cardinality(Kept(r)) < Limit)
  BY <1>2, FS_CardinalityType, KeptFinite DEF IInv, HasRoom
<1>4. Cardinality(earned) >= Limit
  BY <1>2, <1>3, ConstantsAssumption
<1> QED
  BY <1>4 DEF earned

-----------------------------------------------------------------------------
(* Theorems                                                                 *)

LEMMA Invariant == Spec => []IInv
  BY InvInit, InvStep, PTL DEF Spec

\* The sorted set, its expiry and what each request holds stay of their types.
THEOREM TypeCorrect == Spec => []TypeOK
  BY Invariant, PTL DEF IInv

\* For every limit, window, lag, skew and number of concurrent requests: over
\* the window less the lag, no more than Limit requests are admitted.
THEOREM Quota == Spec => []QuotaHolds
  BY Invariant, PTL DEF IInv

\* Retry-After is honest: a caller that waits as long as it was told finds room
\* in the set, unless another of its requests was admitted meanwhile.
THEOREM RetryHonest == Spec => []RetryAfterHonest
<1>1. Init => RetryAfterHonest
  BY DEF Init, RetryAfterHonest
<1>2. IInv => TypeOK
  BY DEF IInv
<1> QED
  BY <1>1, <1>2, Invariant, PromisesStep, PTL DEF Spec

\* Rejected requests use up no quota: whoever is rejected had Limit requests
\* admitted in its window.
THEOREM RejectionsFair == Spec => NoFalseRejection
<1>1. IInv /\ [Next]_vars =>
        [\A r \in Requests :
           pc[r] = "sent" /\ ~HasRoom(r) =>
               Cardinality({a \in admitted : a.at > now[r] - Window}) >= Limit]_vars
  BY RejectionsEarned
<1> QED
  BY <1>1, Invariant, PTL DEF Spec, NoFalseRejection

=============================================================================
