------------------------- MODULE ControllerPoolProofs -------------------------
(***************************************************************************)
(* Proofs about the status of a controller pool, for every set of sessions *)
(* and every number of replicas.                                           *)
(***************************************************************************)
EXTENDS ControllerPool, FiniteSetTheorems, TLAPS

\* The counts there may be, of a set of sessions of any size.
Counts == {countActiveSessions(c) : c \in [Sessions -> Phases]} \cup {0}
PoolT == [min : Nat \ {0}, active : Counts, ready : Nat, cond : {"", "True", "False"}, since : {0, 1}]
CopyT == [pool : PoolT, fresh : BOOLEAN]

Typed ==
    /\ phase \in [Sessions -> Phases] /\ cache \in [Sessions -> Phases]
    /\ sts \in Nat /\ stsCache \in Nat
    /\ pool \in PoolT /\ poolCache \in CopyT /\ queued \in BOOLEAN
    /\ w \in [busy : BOOLEAN, copy : CopyT]

\* The condition that belongs to a status.
Agrees(p) == p.cond = ReadyStatus(p.min, p.ready)

\* What the worker is about to write follows from the cache, unless the change
\* of the cache has put the pool into the queue again.
Update ==
    w.busy => /\ Agrees(w.copy.pool)
              /\ ~queued => w.copy.pool.active = countActiveSessions(cache)

\* What has been written does, unless there is another reconcile to come.
Rest ==
    ~w.busy /\ ~queued /\ poolCache.fresh =>
        Agrees(pool) /\ pool.active = countActiveSessions(cache)

PoolInv == Typed /\ Update /\ Rest

-----------------------------------------------------------------------------
\* A status that is worked out from the cache.
LEMMA StatusTyped ==
    ASSUME NEW p \in PoolT, NEW c \in [Sessions -> Phases], NEW r \in Nat
    PROVE  LET q == setReadyCondition([p EXCEPT !.active = countActiveSessions(c), !.ready = r], r)
           IN  q \in PoolT /\ Agrees(q) /\ q.active = countActiveSessions(c)
<1> DEFINE n == countActiveSessions(c)
           p1 == [p EXCEPT !.active = n, !.ready = r]
           q == setReadyCondition(p1, r)
<1>1. n \in Counts
  BY DEF Counts
<1> HIDE DEF n
<1>2. p1 \in PoolT /\ p1.active = n /\ p1.ready = r /\ p1.min = p.min
  BY <1>1 DEF PoolT
<1> HIDE DEF p1
<1>3. ReadyStatus(p1.min, r) \in {"True", "False"}
  BY DEF ReadyStatus
<1>4. /\ q.cond = ReadyStatus(p1.min, r) /\ q.min = p1.min /\ q.ready = r /\ q.active = n
      /\ q \in PoolT
  <2> DEFINE st == ReadyStatus(p1.min, r)
             since == IF p1.cond = st THEN p1.since ELSE 1 - p1.since
  <2>1. q = [p1 EXCEPT !.cond = st, !.since = since]
    BY DEF setReadyCondition
  <2>2. p1.since \in {0, 1}
    BY <1>2 DEF PoolT
  <2>3. since \in {0, 1}
    BY <2>2
  <2>4. st \in {"", "True", "False"}
    BY <1>3
  <2> HIDE DEF st, since, q
  <2>5. q \in PoolT /\ q.cond = st /\ q.min = p1.min /\ q.ready = p1.ready /\ q.active = p1.active
    BY <1>2, <2>1, <2>3, <2>4 DEF PoolT
  <2> QED BY <1>2, <2>5 DEF st
<1>5. Agrees(q)
  BY <1>4 DEF Agrees
<1> QED BY <1>4, <1>5 DEF n, p1

\* The worker before its first reconcile, and after every other.
LEMMA RestingTyped == Resting \in [busy : BOOLEAN, copy : CopyT] /\ ~Resting.busy
BY DEF Resting, NoStatus, CopyT, PoolT, Counts

LEMMA PoolInit == Init => PoolInv
<1> SUFFICES ASSUME Init PROVE PoolInv
  OBVIOUS
<1>1. PICK m \in MinReplicas : pool = [NoStatus EXCEPT !.min = m]
  BY DEF Init
<1>2. pool \in PoolT
  <2>1. m \in Nat \ {0} /\ 0 \in Counts
    BY ReplicasAssumption DEF Counts
  <2>2. NoStatus \in PoolT
    BY <2>1 DEF NoStatus, PoolT
  <2> QED BY <1>1, <2>1, <2>2 DEF PoolT
<1>3. poolCache \in CopyT
  BY <1>2 DEF Init, CopyT
<1>4. Typed
  BY <1>2, <1>3, RestingTyped, ReplicasAssumption DEF Init, Typed, Phases
<1>5. Update /\ Rest
  BY RestingTyped DEF Init, Update, Rest
<1> QED BY <1>4, <1>5 DEF PoolInv

LEMMA PoolStep == PoolInv /\ [Next]_vars => PoolInv'
<1> SUFFICES ASSUME PoolInv, [Next]_vars PROVE PoolInv'
  OBVIOUS
<1>0. Typed /\ Update /\ Rest
  BY DEF PoolInv
<1>1. CASE Reconcile
  <2> DEFINE q == WithStatus(poolCache.pool)
  <2>1. q \in PoolT /\ Agrees(q) /\ q.active = countActiveSessions(cache)
    BY <1>0, StatusTyped DEF Typed, CopyT, WithStatus
  <2>2. /\ w' = [busy |-> TRUE, copy |-> [poolCache EXCEPT !.pool = q]] /\ queued' = FALSE
        /\ UNCHANGED <<phase, sts, cache, stsCache, pool, poolCache>>
    BY <1>1 DEF Reconcile, cluster
  <2> HIDE DEF q
  <2>3. w' \in [busy : BOOLEAN, copy : CopyT] /\ w'.busy /\ w'.copy.pool = q
    BY <1>0, <2>1, <2>2 DEF Typed, CopyT
  <2>4. Typed'
    BY <1>0, <2>2, <2>3 DEF Typed
  <2>5. Update' /\ Rest'
    BY <2>1, <2>2, <2>3 DEF Update, Rest, Agrees
  <2> QED BY <2>4, <2>5 DEF PoolInv
<1>2. CASE StatusUpdate
  <2>1. /\ w.busy /\ ~w'.busy /\ w' \in [busy : BOOLEAN, copy : CopyT]
        /\ UNCHANGED <<phase, sts, cache, stsCache>>
    BY <1>2, RestingTyped DEF StatusUpdate, Idle, cluster
  <2>2. CASE w.copy.fresh
    <3>1. pool' = w.copy.pool /\ UNCHANGED queued
          /\ poolCache' = [poolCache EXCEPT !.fresh = @ /\ w.copy.pool = pool]
      BY <1>2, <2>2 DEF StatusUpdate, Written
    <3>2. pool' \in PoolT /\ poolCache' \in CopyT
      BY <1>0, <3>1 DEF Typed, CopyT
    <3>3. Typed'
      BY <1>0, <2>1, <3>1, <3>2 DEF Typed
    <3>4. Update' /\ Rest'
      BY <1>0, <2>1, <3>1 DEF Update, Rest, Agrees
    <3> QED BY <3>3, <3>4 DEF PoolInv
  <2>3. CASE ~w.copy.fresh
    <3>1. queued' = TRUE /\ UNCHANGED <<pool, poolCache>>
      BY <1>2, <2>3 DEF StatusUpdate
    <3> QED BY <1>0, <2>1, <3>1 DEF PoolInv, Typed, Update, Rest
  <2> QED BY <2>2, <2>3
<1>3. CASE UpdateFails
  <2>1. /\ ~w'.busy /\ w' \in [busy : BOOLEAN, copy : CopyT] /\ queued' = TRUE
        /\ UNCHANGED <<phase, sts, cache, stsCache, pool, poolCache>>
    BY <1>3, RestingTyped DEF UpdateFails, Idle, cluster
  <2> QED BY <1>0, <2>1 DEF PoolInv, Typed, Update, Rest
<1>4. CASE PoolSync
  <2>1. /\ poolCache' = [pool |-> pool, fresh |-> TRUE] /\ queued' = TRUE
        /\ UNCHANGED <<phase, sts, cache, stsCache, pool, w>>
    BY <1>4 DEF PoolSync, cluster
  <2>2. Typed'
    BY <1>0, <2>1 DEF Typed, CopyT
  <2>3. Update' /\ Rest'
    BY <1>0, <2>1 DEF Update, Rest, Agrees
  <2> QED BY <2>2, <2>3 DEF PoolInv
<1>5. ASSUME NEW s \in Sessions, sessionToPool(s) PROVE PoolInv'
  <2>1. /\ cache' = [cache EXCEPT ![s] = phase[s]] /\ queued' = TRUE
        /\ UNCHANGED <<phase, sts, stsCache, pool, poolCache, w>>
    BY <1>5 DEF sessionToPool, cluster
  <2>2. Typed'
    BY <1>0, <2>1 DEF Typed
  <2>3. Update' /\ Rest'
    BY <1>0, <2>1 DEF Update, Rest, Agrees
  <2> QED BY <2>2, <2>3 DEF PoolInv
<1>6. ASSUME UNCHANGED <<cache, pool, poolCache, queued, w>>, Typed' PROVE PoolInv'
  BY <1>0, <1>6 DEF PoolInv, Update, Rest, Agrees
<1>7. CASE StsSync \/ ReplicasChange \/ UNCHANGED vars
  <2>1. /\ UNCHANGED <<phase, cache, pool, poolCache, queued, w>>
        /\ sts' \in Nat /\ stsCache' \in Nat
    BY <1>0, <1>7, ReplicasAssumption
       DEF StsSync, ReplicasChange, vars, cluster, Typed
  <2> QED BY <1>0, <1>6, <2>1 DEF Typed
<1>8. ASSUME NEW s \in Sessions, SessionChanges(s) PROVE PoolInv'
  <2>1. phase' \in [Sessions -> Phases] /\ UNCHANGED <<sts, cache, stsCache, pool, poolCache, queued, w>>
    BY <1>0, <1>8 DEF SessionChanges, Typed
  <2> QED BY <1>0, <1>6, <2>1 DEF Typed
<1>9. CASE SpecChanges
  <2>1. PICK m \in MinReplicas : Written([pool EXCEPT !.min = m])
    BY <1>9 DEF SpecChanges
  <2>2. /\ pool' = [pool EXCEPT !.min = m]
        /\ poolCache' = [poolCache EXCEPT !.fresh = @ /\ pool' = pool]
        /\ w' = [w EXCEPT !.copy.fresh = @ /\ (w.busy => pool' = pool)]
        /\ UNCHANGED <<phase, sts, cache, stsCache, queued>>
    BY <1>9, <2>1 DEF SpecChanges, Written, cluster
  <2>3. pool' \in PoolT
    <3>1. m \in Nat \ {0} /\ pool \in PoolT
      BY <1>0, ReplicasAssumption DEF Typed
    <3> QED BY <2>2, <3>1 DEF PoolT
  <2>4. poolCache' \in CopyT /\ (poolCache'.fresh => poolCache.fresh /\ pool' = pool)
    BY <1>0, <2>2 DEF Typed, CopyT
  <2>5. w' \in [busy : BOOLEAN, copy : CopyT] /\ w'.busy = w.busy /\ w'.copy.pool = w.copy.pool
    BY <1>0, <2>2 DEF Typed, CopyT
  <2>6. Typed'
    BY <1>0, <2>2, <2>3, <2>4, <2>5 DEF Typed
  <2>7. Update' /\ Rest'
    BY <1>0, <2>2, <2>4, <2>5 DEF Update, Rest, Agrees
  <2> QED BY <2>6, <2>7 DEF PoolInv
<1> QED
  BY <1>1, <1>2, <1>3, <1>4, <1>5, <1>7, <1>8, <1>9 DEF Next, Operator, Environment

\* The inductive invariant of the pool's status.
THEOREM PoolInvariant == Spec => []PoolInv
BY PoolInit, PoolStep, PTL DEF Spec

\* Whenever Reconcile has nothing left to do, the pool shows the number of active
\* sessions, for any number of sessions, conflicts and failed updates.
THEOREM SessionCountInSync == Spec => []SessionsInSync
<1>1. PoolInv => SessionsInSync
  BY DEF PoolInv, Rest, SessionsInSync, Quiet
<1> QED BY <1>1, PoolInvariant, PTL

\* Whenever Reconcile has nothing left to do, the Ready condition is the one of
\* the replicas shown and of the spec as it now is.
THEOREM ReadyConditionInSync == Spec => []ConditionInSync
<1>1. ASSUME PoolInv, Quiet PROVE pool.cond = "True" <=> pool.ready >= pool.min
  <2>1. pool.cond = ReadyStatus(pool.min, pool.ready) /\ pool.min \in Nat \ {0} /\ pool.ready \in Nat
    BY <1>1 DEF PoolInv, Rest, Quiet, Agrees, Typed, PoolT
  <2> QED BY <2>1 DEF ReadyStatus
<1>2. PoolInv => ConditionInSync
  BY <1>1 DEF ConditionInSync
<1> QED BY <1>2, PoolInvariant, PTL

-----------------------------------------------------------------------------
(* The distance from rest.                                                 *)

\* What the copies of the pool are worth: an outdated one of the worker is
\* noticed, or its successor is queued.
Known ==
    /\ poolCache.fresh => poolCache.pool = pool
    /\ w.busy /\ w.copy.fresh => poolCache.fresh
    /\ w.busy /\ ~w.copy.fresh /\ poolCache.fresh => queued

LEMMA KnownStep == PoolInv /\ Known /\ [Next]_vars => Known'
<1> SUFFICES ASSUME PoolInv, Known, [Next]_vars PROVE Known'
  OBVIOUS
<1>0. Typed /\ poolCache \in CopyT /\ w \in [busy : BOOLEAN, copy : CopyT]
  BY DEF PoolInv, Typed
<1>1. CASE Reconcile
  <2>1. /\ w' = [busy |-> TRUE, copy |-> [poolCache EXCEPT !.pool = WithStatus(@)]]
        /\ UNCHANGED <<pool, poolCache>>
    BY <1>1 DEF Reconcile
  <2>2. w'.copy.fresh = poolCache.fresh
    BY <1>0, <2>1 DEF CopyT
  <2> QED BY <2>1, <2>2 DEF Known
<1>2. CASE StatusUpdate
  <2>1. w.busy /\ ~w'.busy
    BY <1>2, RestingTyped DEF StatusUpdate, Idle
  <2>2. CASE w.copy.fresh
    <3>1. pool' = w.copy.pool /\ poolCache' = [poolCache EXCEPT !.fresh = @ /\ w.copy.pool = pool]
      BY <1>2, <2>2 DEF StatusUpdate, Written
    <3>2. poolCache'.pool = poolCache.pool /\ (poolCache'.fresh => poolCache.fresh /\ pool' = pool)
      BY <1>0, <3>1 DEF CopyT
    <3> QED BY <2>1, <3>2 DEF Known
  <2>3. CASE ~w.copy.fresh
    BY <1>2, <2>1, <2>3 DEF StatusUpdate, Known
  <2> QED BY <2>2, <2>3
<1>3. CASE UpdateFails
  BY <1>3, RestingTyped DEF UpdateFails, Idle, Known
<1>4. CASE PoolSync
  BY <1>4 DEF PoolSync, Known
<1>5. ASSUME NEW s \in Sessions, sessionToPool(s) PROVE Known'
  BY <1>5 DEF sessionToPool, Known
<1>6. CASE StsSync \/ ReplicasChange \/ (UNCHANGED vars) \/ \E s \in Sessions : SessionChanges(s)
  BY <1>6 DEF StsSync, ReplicasChange, SessionChanges, vars, Known
<1>7. CASE SpecChanges
  <2>1. PICK m \in MinReplicas : Written([pool EXCEPT !.min = m])
    BY <1>7 DEF SpecChanges
  <2>2. /\ poolCache' = [poolCache EXCEPT !.fresh = @ /\ pool' = pool]
        /\ w' = [w EXCEPT !.copy.fresh = @ /\ (w.busy => pool' = pool)]
        /\ UNCHANGED queued
    BY <1>7, <2>1 DEF SpecChanges, Written
  <2>3. poolCache'.pool = poolCache.pool /\ (poolCache'.fresh <=> poolCache.fresh /\ pool' = pool)
    BY <1>0, <2>2 DEF CopyT
  <2>4. w'.busy = w.busy /\ (w'.copy.fresh <=> w.copy.fresh /\ (w.busy => pool' = pool))
    BY <1>0, <2>2 DEF CopyT
  <2> QED BY <2>2, <2>3, <2>4 DEF Known
<1> QED
  BY <1>1, <1>2, <1>3, <1>4, <1>5, <1>6, <1>7 DEF Next, Operator, Environment

LEMMA KnownInvariant == Spec => []Known
<1>1. Init => Known
  BY RestingTyped DEF Init, Known
<1> QED BY <1>1, KnownStep, PoolInvariant, PTL DEF Spec

\* To work the status out again changes nothing: the transition time of the
\* condition is kept when the condition is.
LEMMA StatusIdempotent ==
    ASSUME Typed, NEW p \in PoolT
    PROVE  WithStatus(p) \in PoolT /\ WithStatus(WithStatus(p)) = WithStatus(p)
<1> DEFINE q == WithStatus(p)
           st == ReadyStatus(q.min, stsCache)
<1>1. q \in PoolT /\ Agrees(q) /\ q.active = countActiveSessions(cache)
  BY StatusTyped DEF WithStatus, Typed
<1>2. q.ready = stsCache
  <2> DEFINE p1 == [p EXCEPT !.active = countActiveSessions(cache), !.ready = stsCache]
  <2>1. p1.ready = stsCache /\ DOMAIN p1 = {"min", "active", "ready", "cond", "since"}
    BY DEF PoolT
  <2> QED BY <2>1 DEF WithStatus, setReadyCondition
<1>3. q.cond = st
  BY <1>1, <1>2 DEF Agrees
<1>4. WithStatus(q) = setReadyCondition([q EXCEPT !.active = countActiveSessions(cache), !.ready = stsCache],
                                         stsCache)
  BY DEF WithStatus
<1> HIDE DEF q
<1>5. [q EXCEPT !.active = countActiveSessions(cache), !.ready = stsCache] = q
  BY <1>1, <1>2 DEF PoolT
<1>6. setReadyCondition(q, stsCache) = [q EXCEPT !.cond = st, !.since = q.since]
  BY <1>3 DEF setReadyCondition
<1>7. [q EXCEPT !.cond = st, !.since = q.since] = q
  BY <1>1, <1>3 DEF PoolT
<1>8. WithStatus(q) = q
  BY <1>4, <1>5, <1>6, <1>7
<1> QED BY <1>1, <1>8 DEF q

LEMMA StepsLeftBound == StepsLeft \in 0..9
BY DEF StepsLeft

LEMMA StepsLeftBoundNext == StepsLeft' \in 0..9
BY DEF StepsLeft

Outdated == {s \in Sessions : cache[s] # phase[s]}

LEMMA OutdatedFinite == IsFiniteSet(Outdated) /\ Cardinality(Outdated) \in Nat
BY SessionsAssumption, FS_Subset, FS_CardinalityType DEF Outdated

LEMMA BehindNat == Behind \in Nat
BY OutdatedFinite DEF Behind, Outdated

LEMMA BehindNatNext == Behind' \in Nat
<1>1. Outdated' \subseteq Sessions
  BY DEF Outdated
<1>2. Cardinality(Outdated') \in Nat
  BY <1>1, SessionsAssumption, FS_Subset, FS_CardinalityType
<1> QED BY <1>2 DEF Behind, Outdated

\* What lowers the first digit of the distance, or else the second, lowers it.
LEMMA Digits ==
    ASSUME NEW b \in Nat, NEW c \in Nat, NEW m \in 0..9, NEW n \in 0..9
    PROVE  /\ c = b - 1 => 10 * c + n < 10 * b + m
           /\ c = b /\ n < m => 10 * c + n < 10 * b + m
OBVIOUS

\* An event of the cache is one thing less to catch up with.
LEMMA EventsCatchUp ==
    ASSUME Typed, StsSync \/ \E s \in Sessions : sessionToPool(s)
    PROVE  Behind' = Behind - 1
<1>0. Cardinality(Outdated) \in Nat
  BY OutdatedFinite
<1>1. CASE StsSync
  <2>1. Outdated' = Outdated /\ stsCache # sts /\ stsCache' = sts'
    BY <1>1 DEF StsSync, Outdated, cluster
  <2> QED BY <1>0, <2>1 DEF Behind, Outdated
<1>2. ASSUME NEW s \in Sessions, sessionToPool(s) PROVE Behind' = Behind - 1
  <2>1. /\ cache[s] # phase[s] /\ cache' = [cache EXCEPT ![s] = phase[s]]
        /\ UNCHANGED <<phase, sts, stsCache>>
    BY <1>2 DEF sessionToPool, cluster
  <2>2. s \in Outdated /\ Outdated' = Outdated \ {s}
    BY <2>1 DEF Outdated, Typed
  <2>3. Cardinality(Outdated') = Cardinality(Outdated) - 1
    BY <2>2, OutdatedFinite, FS_RemoveElement
  <2> QED BY <1>0, <2>1, <2>3 DEF Behind, Outdated
<1> QED BY <1>1, <1>2

\* The other steps leave the cache of sessions and replicas alone.
LEMMA WorkKeepsBehind ==
    ASSUME Reconcile \/ StatusUpdate \/ PoolSync
    PROVE  Behind' = Behind /\ \A p : WithStatus(p)' = WithStatus(p)
<1>1. UNCHANGED <<phase, sts, cache, stsCache>>
  BY DEF Reconcile, StatusUpdate, PoolSync, cluster
<1>2. Behind' = Behind
  BY <1>1 DEF Behind
<1>3. ASSUME NEW p PROVE WithStatus(p)' = WithStatus(p)
  BY <1>1 DEF WithStatus, setReadyCondition, countActiveSessions
<1> QED BY <1>2, <1>3

\* A step of the worker, or the event of its own write.
LEMMA WorkNears ==
    ASSUME PoolInv, Known, Reconcile \/ StatusUpdate \/ PoolSync
    PROVE  StepsLeft' < StepsLeft \/ (StepsLeft' = StepsLeft /\ ~poolCache.fresh)
<1> DEFINE settled == pool = WithStatus(pool)
           good == w.copy.pool = WithStatus(w.copy.pool)
<1>0. Typed /\ pool \in PoolT /\ poolCache \in CopyT /\ w \in [busy : BOOLEAN, copy : CopyT]
      /\ w.busy \in BOOLEAN /\ poolCache.fresh \in BOOLEAN /\ queued \in BOOLEAN
      /\ w.copy \in CopyT
  BY DEF PoolInv, Typed, CopyT
<1>1. CASE Reconcile
  <2>1. /\ queued /\ ~w.busy /\ ~queued' /\ UNCHANGED <<pool, poolCache, cache, stsCache>>
        /\ w' = [busy |-> TRUE, copy |-> [poolCache EXCEPT !.pool = WithStatus(@)]]
    BY <1>1 DEF Reconcile
  <2>2. /\ w'.busy /\ w'.copy.fresh = poolCache.fresh
        /\ w'.copy.pool = WithStatus(poolCache.pool)
    BY <1>0, <2>1 DEF CopyT
  <2>3. settled' <=> settled
    BY <2>1 DEF WithStatus, setReadyCondition, countActiveSessions
  <2>4. CASE ~poolCache.fresh
    <3>1. StepsLeft = IF settled THEN 4 ELSE 8
      BY <2>4 DEF StepsLeft
    <3>2. StepsLeft' = IF settled' THEN 4 ELSE 8
      BY <2>1, <2>4 DEF StepsLeft
    <3> QED BY <2>3, <2>4, <3>1, <3>2
  <2>5. CASE poolCache.fresh
    <3>1. w'.copy.fresh /\ w'.copy.pool = WithStatus(pool)
      BY <2>2, <2>5 DEF Known
    <3>2. good'
      <4>1. WithStatus(w'.copy.pool) = w'.copy.pool
        BY <1>0, <3>1, StatusIdempotent
      <4>2. WithStatus(w.copy.pool)' = WithStatus(w'.copy.pool)
        BY <2>1 DEF WithStatus, setReadyCondition, countActiveSessions
      <4> QED BY <4>1, <4>2
    <3>3. StepsLeft = IF settled THEN 2 ELSE 6
      BY <2>1, <2>5 DEF StepsLeft
    <3>4. StepsLeft' = IF w'.copy.pool # pool' THEN (IF good' THEN 5 ELSE 9) ELSE 1
      BY <2>1, <2>2, <2>5, <3>1 DEF StepsLeft
    <3>5. w'.copy.pool # pool' <=> ~settled
      BY <2>1, <3>1
    <3> HIDE DEF settled, good
    <3> QED BY <3>2, <3>3, <3>4, <3>5
  <2> QED BY <2>4, <2>5
<1>2. CASE StatusUpdate
  <2>1. w.busy /\ ~w'.busy /\ UNCHANGED <<cache, stsCache>>
    BY <1>2, RestingTyped DEF StatusUpdate, Idle
  <2>2. CASE w.copy.fresh
    <3>1. /\ pool' = w.copy.pool /\ poolCache' = [poolCache EXCEPT !.fresh = @ /\ w.copy.pool = pool]
          /\ UNCHANGED queued
      BY <1>2, <2>2 DEF StatusUpdate, Written
    <3>2. poolCache.fresh /\ (poolCache'.fresh <=> w.copy.pool = pool)
      BY <1>0, <2>1, <2>2, <3>1 DEF CopyT, Known
    <3>3. settled' <=> good
      BY <2>1, <3>1 DEF WithStatus, setReadyCondition, countActiveSessions
    <3>4. CASE w.copy.pool # pool
      <4>1. StepsLeft = IF good THEN 5 ELSE 9
        BY <2>1, <2>2, <3>2, <3>4 DEF StepsLeft
      <4>2. StepsLeft' = IF settled' THEN 4 ELSE 8
        BY <3>2, <3>4 DEF StepsLeft
      <4> HIDE DEF settled, good
      <4> QED BY <3>3, <4>1, <4>2
    <3>5. CASE w.copy.pool = pool
      <4>1. StepsLeft = (IF ~queued THEN 0 ELSE IF settled THEN 2 ELSE 6) + 1
        BY <2>1, <2>2, <3>2, <3>5 DEF StepsLeft
      <4>2. StepsLeft' = (IF ~queued THEN 0 ELSE IF settled' THEN 2 ELSE 6) + 0
        BY <2>1, <3>1, <3>2, <3>5 DEF StepsLeft
      <4>3. settled' <=> settled
        BY <3>3, <3>5
      <4> HIDE DEF settled, good
      <4> QED BY <4>1, <4>2, <4>3
    <3> QED BY <3>4, <3>5
  <2>3. CASE ~w.copy.fresh
    <3>1. queued' /\ UNCHANGED <<pool, poolCache>>
      BY <1>2, <2>3 DEF StatusUpdate
    <3>2. settled' <=> settled
      BY <2>1, <3>1 DEF WithStatus, setReadyCondition, countActiveSessions
    <3>3. CASE ~poolCache.fresh
      <4>1. StepsLeft = (IF settled THEN 4 ELSE 8) /\ StepsLeft' = IF settled' THEN 4 ELSE 8
        BY <3>1, <3>3 DEF StepsLeft
      <4> HIDE DEF settled
      <4> QED BY <3>2, <3>3, <4>1
    <3>4. CASE poolCache.fresh
      <4>1. queued
        BY <2>1, <2>3, <3>4 DEF Known
      <4>2. StepsLeft = (IF settled THEN 2 ELSE 6) + 1
        BY <2>1, <2>3, <3>4, <4>1 DEF StepsLeft
      <4>3. StepsLeft' = (IF settled' THEN 2 ELSE 6) + 0
        BY <2>1, <3>1, <3>4 DEF StepsLeft
      <4> HIDE DEF settled
      <4> QED BY <3>2, <4>2, <4>3
    <3> QED BY <3>3, <3>4
  <2> QED BY <2>2, <2>3
<1>3. CASE PoolSync
  <2>1. /\ ~poolCache.fresh /\ poolCache'.fresh /\ queued' /\ UNCHANGED <<pool, w, cache, stsCache>>
    BY <1>3 DEF PoolSync
  <2>2. ~(w'.busy /\ w'.copy.fresh)
    BY <2>1 DEF Known
  <2>3. settled' <=> settled
    BY <2>1 DEF WithStatus, setReadyCondition, countActiveSessions
  <2>4. StepsLeft = IF settled THEN 4 ELSE 8
    BY <2>1 DEF StepsLeft
  <2>5. StepsLeft' = (IF settled' THEN 2 ELSE 6) + (IF w'.busy THEN 1 ELSE 0)
    BY <2>1, <2>2 DEF StepsLeft
  <2> HIDE DEF settled
  <2> QED BY <2>3, <2>4, <2>5
<1> QED BY <1>1, <1>2, <1>3

\* Although the reconciler is triggered by its own status updates, none of its
\* steps and no event of its cache takes it further from rest, for any number
\* of sessions: setReadyCondition keeps the transition time, so the update that
\* follows from an update writes nothing.  A conflict leaves the distance as it
\* is, and the event that ends it lowers it.
THEOREM EveryStepNearsRest == Spec => NearsRest
<1> DEFINE Nearer == Distance' < Distance \/ (Distance' = Distance /\ ~poolCache.fresh)
<1>1. ASSUME PoolInv, Known, Operator PROVE Nearer
  <2>0. /\ Behind \in Nat /\ Behind' \in Nat /\ StepsLeft \in 0..9 /\ StepsLeft' \in 0..9
        /\ Distance = 10 * Behind + StepsLeft /\ Distance' = 10 * Behind' + StepsLeft'
    BY BehindNat, BehindNatNext, StepsLeftBound, StepsLeftBoundNext DEF Distance
  <2>1. CASE StsSync \/ \E s \in Sessions : sessionToPool(s)
    <3>1. Behind' = Behind - 1
      BY <1>1, <2>1, EventsCatchUp DEF PoolInv
    <3>2. Distance' < Distance
      BY <2>0, <3>1, Digits
    <3> QED BY <3>2
  <2>2. CASE Reconcile \/ StatusUpdate \/ PoolSync
    <3>1. Behind' = Behind
      BY <2>2, WorkKeepsBehind
    <3>2. StepsLeft' < StepsLeft \/ (StepsLeft' = StepsLeft /\ ~poolCache.fresh)
      BY <1>1, <2>2, WorkNears
    <3>3. StepsLeft' < StepsLeft => Distance' < Distance
      BY <2>0, <3>1, Digits
    <3>4. StepsLeft' = StepsLeft => Distance' = Distance
      BY <2>0, <3>1
    <3> QED BY <3>2, <3>3, <3>4
  <2> QED BY <1>1, <2>1, <2>2 DEF Operator
<1>2. PoolInv /\ Known /\ [Next]_vars => [Operator => Nearer]_vars
  BY <1>1
<1>3. Spec => [][Operator => Nearer]_vars
  BY <1>2, PoolInvariant, KnownInvariant, PTL DEF Spec
<1> QED BY <1>3 DEF NearsRest

\* The distance from rest is a natural number, so it cannot be lowered for ever,
\* and it is zero exactly when Reconcile has nothing left to do.
THEOREM RestIsDistanceZero == Spec => [](Distance \in Nat /\ (Distance = 0 <=> Quiet))
<1>1. ASSUME PoolInv, Known PROVE Distance \in Nat /\ (Distance = 0 <=> Quiet)
  <2>0. Behind \in Nat /\ StepsLeft \in 0..9 /\ Distance = 10 * Behind + StepsLeft
    BY BehindNat, StepsLeftBound DEF Distance
  <2>1. Distance \in Nat /\ (Distance = 0 <=> Behind = 0 /\ StepsLeft = 0)
    BY <2>0
  <2>2. Behind = 0 <=> cache = phase /\ stsCache = sts
    <3>1. Cardinality(Outdated) \in Nat /\ (Cardinality(Outdated) = 0 <=> Outdated = {})
      BY OutdatedFinite, FS_EmptySet
    <3>2. Outdated = {} <=> cache = phase
      BY <1>1 DEF Outdated, PoolInv, Typed
    <3> QED BY <3>1, <3>2 DEF Behind, Outdated
  <2>3. StepsLeft = 0 <=> ~queued /\ ~w.busy /\ poolCache.fresh
    <3>1. w.busy \in BOOLEAN /\ queued \in BOOLEAN /\ poolCache.fresh \in BOOLEAN
      BY <1>1 DEF PoolInv, Typed, CopyT
    <3> QED BY <3>1 DEF StepsLeft
  <2> QED BY <2>1, <2>2, <2>3 DEF Quiet
<1>2. PoolInv /\ Known => Distance \in Nat /\ (Distance = 0 <=> Quiet)
  BY <1>1
<1> QED BY <1>2, PoolInvariant, KnownInvariant, PTL
=============================================================================
