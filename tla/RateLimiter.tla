----------------------------- MODULE RateLimiter -----------------------------
(***************************************************************************)
(* The sliding-window rate limiter (api/middleware/rate_limit.py), for one  *)
(* caller: the requests of that caller at any number of API replicas, and  *)
(* the sorted set that the Lua script keeps for it in Redis.               *)
(*                                                                         *)
(* A request reads its replica's clock first and runs the script later, so *)
(* scripts run in another order than the clocks were read: by up to the    *)
(* network delay of one request, and the clock skew of one replica.         *)
(*                                                                         *)
(* A definition named D_Something is a faulty version of D that no          *)
(* specification uses.                                                     *)
(***************************************************************************)
EXTENDS Integers, FiniteSets

CONSTANTS
    Requests,  \* the requests of the caller that can be in flight together
    Limit,     \* rate_limit_for(tier)
    Window,    \* the window length, in clock ticks
    Second,    \* clock ticks per second, the unit of Retry-After
    Grace,     \* what PEXPIRE adds to the window
    MaxLag,    \* bound: how far the clock of Redis can be past a request's
               \* `now` when its script runs
    MaxSkew,   \* bound: how far a replica's clock can be behind
    MaxTime    \* bound: when the clock stops

ASSUME ConstantsAssumption ==
    /\ Limit \in Nat \ {0} /\ Window \in Nat \ {0} /\ Second \in Nat \ {0}
    /\ Grace \in Nat /\ MaxTime \in Nat
    /\ MaxLag \in Nat /\ MaxSkew \in 0..MaxLag

VARIABLES
    clock,     \* the time
    pc,        \* per request: "idle", or "sent" while its script is awaited
    now,       \* per request: its now_ms
    window,    \* the sorted set: members [at, id], scored by `at`
    expires,   \* when the key of the sorted set expires
    admitted,  \* history: every member ever added
    promised   \* history: the retry times of the rejections answered since the
               \* last admission

vars == <<clock, pc, now, window, expires, admitted, promised>>

Init ==
    /\ clock = 0
    /\ pc = [r \in Requests |-> "idle"]
    /\ now = [r \in Requests |-> 0]
    /\ window = {} /\ expires = 0
    /\ admitted = {} /\ promised = {}

-----------------------------------------------------------------------------
(* check, up to the call of the script                                      *)

Send(r) ==
    /\ pc[r] = "idle"
    /\ \E skew \in 0..MaxSkew :
         /\ skew <= clock
         /\ now' = [now EXCEPT ![r] = clock - skew]
    /\ pc' = [pc EXCEPT ![r] = "sent"]
    /\ UNCHANGED <<clock, window, expires, admitted, promised>>

-----------------------------------------------------------------------------
(* The Lua script, atomic in Redis, and its reply                           *)

Kept_NeverTrimmed(r) == window

Kept_BoundaryTooShort(r) == {e \in window : e.at > now[r] - Window + 1}

\* What ZREMRANGEBYSCORE leaves in the set.
Kept(r) == {e \in window : e.at > now[r] - Window}

HasRoom(r) == Cardinality(Kept(r)) < Limit

Member(r) == [at |-> now[r], id |-> Cardinality(admitted) + 1]

\* The request is allowed.  So it is when the reply is lost: then the
\* RedisError makes check fail open, after the script has run.
Admit(r) ==
    /\ pc[r] = "sent"
    /\ HasRoom(r)
    /\ window' = Kept(r) \cup {Member(r)}
    /\ expires' = clock + Window + Grace
    /\ admitted' = admitted \cup {Member(r)}
    /\ promised' = {}
    /\ pc' = [pc EXCEPT ![r] = "idle"]
    /\ UNCHANGED <<clock, now>>

OldestOf(members) == CHOOSE t \in {e.at : e \in members} : \A e \in members : t <= e.at

RetryAfter_RoundedDown(oldest, at) == (oldest + Window - at) \div Second

\* Retry-After in whole seconds, computed from the reply.
RetryAfter(oldest, at) ==
    LET seconds == (oldest + Window - at) \div Second + 1
    IN  IF seconds > 1 THEN seconds ELSE 1

\* The request is rejected, or allowed because the reply is lost.
Reject(r) ==
    /\ pc[r] = "sent"
    /\ ~HasRoom(r)
    /\ window' = Kept(r)
    /\ promised' \in {promised,
                      promised \cup {now[r] + Second * RetryAfter(OldestOf(Kept(r)), now[r])}}
    /\ pc' = [pc EXCEPT ![r] = "idle"]
    /\ UNCHANGED <<clock, now, expires, admitted>>

\* The script never runs: no Redis, or a RedisError before it.
FailOpen(r) ==
    /\ pc[r] = "sent"
    /\ pc' = [pc EXCEPT ![r] = "idle"]
    /\ UNCHANGED <<clock, now, window, expires, admitted, promised>>

\* reset deletes the key, and the history of the caller starts again.
Reset ==
    /\ window' = {} /\ admitted' = {} /\ promised' = {}
    /\ UNCHANGED <<clock, pc, now, expires>>

-----------------------------------------------------------------------------
(* Time                                                                     *)

\* No script runs later than MaxLag after the `now` it is given, and Redis
\* drops the key when it expires.
Tick ==
    /\ clock < MaxTime
    /\ \A r \in Requests : pc[r] = "sent" => clock < now[r] + MaxLag
    /\ clock' = clock + 1
    /\ window' = IF clock' > expires THEN {} ELSE window
    /\ UNCHANGED <<pc, now, expires, admitted, promised>>

Next ==
    \/ Tick
    \/ Reset
    \/ \E r \in Requests : Send(r) \/ Admit(r) \/ Reject(r) \/ FailOpen(r)

Spec == Init /\ [][Next]_vars

-----------------------------------------------------------------------------
(* Properties                                                               *)

Members == [at : Nat, id : Nat]

\* Every variable has its type; the set never holds more than Limit members.
TypeOK ==
    /\ clock \in Nat /\ expires \in Nat
    /\ pc \in [Requests -> {"idle", "sent"}]
    /\ now \in [Requests -> Nat]
    /\ window \subseteq Members /\ admitted \subseteq Members
    /\ IsFiniteSet(window) /\ Cardinality(window) <= Limit
    /\ IsFiniteSet(admitted)
    /\ promised \subseteq Nat

\* In any interval of that length, counted by the requests' own clocks, no
\* more than Limit requests were admitted.
AtMostLimitPer(length) ==
    \A t \in 0..MaxTime :
        Cardinality({a \in admitted : t - length < a.at /\ a.at <= t}) <= Limit

\* Under any interleaving of clock reads and scripts, lost replies and key
\* expiry, the quota holds over the window less the lag of a request.
QuotaHolds == AtMostLimitPer(Window - MaxLag)

\* A caller that waits as long as Retry-After says is admitted, unless another
\* of its requests was admitted meanwhile.
RetryAfterHonest ==
    \A p \in promised : Cardinality({e \in window : e.at > p - Window}) < Limit

\* A request is rejected only if Limit requests were admitted in its window:
\* rejected requests do not use up quota.
NoFalseRejection ==
    [][\A r \in Requests :
         pc[r] = "sent" /\ ~HasRoom(r) =>
             Cardinality({a \in admitted : a.at > now[r] - Window}) >= Limit]_vars
=============================================================================
