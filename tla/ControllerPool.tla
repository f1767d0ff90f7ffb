--------------------------- MODULE ControllerPool ---------------------------
(***************************************************************************)
(* The ControllerPool reconciler (internal/operator/pool_reconciler.go): it *)
(* copies the number of active sessions and of ready replicas into the     *)
(* status of the pool.  It is triggered by changes of the pool, its own    *)
(* included, and of sessions; it reads everything from a cache that lags.  *)
(***************************************************************************)
EXTENDS Integers, FiniteSets

CONSTANTS Sessions,
          MinReplicas,   \* values of spec.minReplicas; the CRD refuses one below 1
          ReadyReplicas  \* numbers of ready replicas of the StatefulSet

ASSUME SessionsAssumption == IsFiniteSet(Sessions)
ASSUME ReplicasAssumption == MinReplicas \subseteq Nat \ {0} /\ ReadyReplicas \subseteq Nat

VARIABLES phase,      \* the phase of every session; "none" if it does not exist
          cache,      \* the same in the operator's cache
          sts,        \* ready replicas of the StatefulSet
          stsCache,   \* the same in the cache
          pool,       \* the ControllerPool
          poolCache,  \* its cached copy, with fresh: no write since
          queued,     \* the pool is in the work queue
          w           \* the update the worker is about to send, if any

cluster == <<phase, sts>>
vars == <<cluster, cache, stsCache, pool, poolCache, queued, w>>

Phases == {"none", "", "Pending", "Creating", "Running", "Deleting", "Terminated"}

\* min is the spec; since stands for LastTransitionTime, which only ever
\* differs from the one before.
Pool == [min : Nat \ {0}, active : 0..Cardinality(Sessions), ready : Nat,
         cond : {"", "True", "False"}, since : {0, 1}]
Copy == [pool : Pool, fresh : BOOLEAN]
Work == [busy : BOOLEAN, copy : Copy]

NoStatus == [min |-> 1, active |-> 0, ready |-> 0, cond |-> "", since |-> 0]
Resting == [busy |-> FALSE, copy |-> [pool |-> NoStatus, fresh |-> TRUE]]

countActiveSessions(c) ==
    Cardinality({s \in Sessions : c[s] \in {"Pending", "Creating", "Running"}})

\* The status of the Ready condition; a minimum of zero counts as one.
ReadyStatus(min, ready) ==
    IF ready < (IF min = 0 THEN 1 ELSE min) THEN "False" ELSE "True"

\* Mutant of setReadyCondition: the transition time is always now.
setReadyConditionNow(p, ready) ==
    [p EXCEPT !.cond = ReadyStatus(p.min, ready), !.since = 1 - p.since]

setReadyCondition(p, ready) ==
    [p EXCEPT !.cond = ReadyStatus(p.min, ready),
              !.since = IF p.cond = ReadyStatus(p.min, ready) THEN p.since ELSE 1 - p.since]

-----------------------------------------------------------------------------
\* Mutant of WithStatus: the condition is left alone while the number of ready
\* replicas is the same.
WithStatusKept(p) ==
    LET counted == [p EXCEPT !.active = countActiveSessions(cache), !.ready = stsCache]
    IN IF p.cond # "" /\ p.ready = stsCache THEN counted
       ELSE setReadyCondition(counted, stsCache)

\* The pool with the status that belongs to the cached sessions and StatefulSet.
WithStatus(p) ==
    setReadyCondition([p EXCEPT !.active = countActiveSessions(cache), !.ready = stsCache],
                      stsCache)

\* Reconcile up to its update, of the pool as the cache has it.
Reconcile ==
    /\ queued /\ ~w.busy
    /\ queued' = FALSE
    /\ w' = [busy |-> TRUE, copy |-> [poolCache EXCEPT !.pool = WithStatus(@)]]
    /\ UNCHANGED <<cluster, cache, stsCache, pool, poolCache>>

\* A write of the pool makes the copies stale, unless it changes nothing.
Written(p) ==
    /\ pool' = p
    /\ poolCache' = [poolCache EXCEPT !.fresh = @ /\ p = pool]

Idle == w' = Resting

\* Mutant of StatusUpdate: after a conflict the same copy is sent again.
StatusUpdateAgain ==
    /\ w.busy /\ w.copy.fresh /\ Idle
    /\ Written(w.copy.pool)
    /\ UNCHANGED <<cluster, cache, stsCache, queued>>

\* Status().Update.  A conflict is returned as an error and the request tried
\* again.
StatusUpdate ==
    /\ w.busy /\ Idle
    /\ IF w.copy.fresh THEN Written(w.copy.pool) /\ UNCHANGED queued
       ELSE queued' = TRUE /\ UNCHANGED <<pool, poolCache>>
    /\ UNCHANGED <<cluster, cache, stsCache>>

\* Mutant of UpdateFails: the error is not returned.
UpdateFailsQuietly ==
    /\ w.busy /\ Idle
    /\ UNCHANGED <<cluster, cache, stsCache, pool, poolCache, queued>>

\* The call fails, and the request is tried again.
UpdateFails ==
    /\ w.busy /\ Idle
    /\ queued' = TRUE
    /\ UNCHANGED <<cluster, cache, stsCache, pool, poolCache>>

-----------------------------------------------------------------------------
\* The cache catches up.  A change of the pool, or of a session through
\* sessionToPool, puts the pool into the queue; the StatefulSet is not watched.
PoolSync ==
    /\ ~poolCache.fresh
    /\ poolCache' = [pool |-> pool, fresh |-> TRUE]
    /\ queued' = TRUE
    /\ UNCHANGED <<cluster, cache, stsCache, pool, w>>

sessionToPool(s) ==
    /\ cache[s] # phase[s]
    /\ cache' = [cache EXCEPT ![s] = phase[s]]
    /\ queued' = TRUE
    /\ UNCHANGED <<cluster, stsCache, pool, poolCache, w>>

StsSync ==
    /\ stsCache # sts
    /\ stsCache' = sts
    /\ UNCHANGED <<cluster, cache, pool, poolCache, queued, w>>

\* The rest of the system.
SessionChanges(s) ==
    /\ \E p \in Phases : phase' = [phase EXCEPT ![s] = p]
    /\ UNCHANGED <<sts, cache, stsCache, pool, poolCache, queued, w>>

ReplicasChange ==
    /\ sts' \in ReadyReplicas
    /\ UNCHANGED <<phase, cache, stsCache, pool, poolCache, queued, w>>

SpecChanges ==
    /\ \E m \in MinReplicas : Written([pool EXCEPT !.min = m])
    /\ w' = [w EXCEPT !.copy.fresh = @ /\ (w.busy => pool' = pool)]
    /\ UNCHANGED <<cluster, cache, stsCache, queued>>

-----------------------------------------------------------------------------
Init ==
    /\ phase = [s \in Sessions |-> "none"] /\ cache = phase
    /\ sts \in ReadyReplicas /\ stsCache = sts
    /\ pool \in {[NoStatus EXCEPT !.min = m] : m \in MinReplicas}
    /\ poolCache = [pool |-> pool, fresh |-> TRUE]
    /\ queued = TRUE
    /\ w = Resting

Operator ==
    \/ Reconcile \/ StatusUpdate \/ PoolSync \/ StsSync
    \/ \E s \in Sessions : sessionToPool(s)

Environment ==
    \/ \E s \in Sessions : SessionChanges(s)
    \/ ReplicasChange \/ SpecChanges \/ UpdateFails

Next == Operator \/ Environment

Spec == Init /\ [][Next]_vars

\* The cache catches up and the worker runs.
FairSpec ==
    /\ Spec
    /\ WF_vars(Reconcile) /\ WF_vars(StatusUpdate) /\ WF_vars(PoolSync) /\ WF_vars(StsSync)
    /\ \A s \in Sessions : WF_vars(sessionToPool(s))

-----------------------------------------------------------------------------
\* Types.
TypeOK ==
    /\ phase \in [Sessions -> Phases] /\ cache \in [Sessions -> Phases]
    /\ sts \in ReadyReplicas /\ stsCache \in ReadyReplicas
    /\ pool \in Pool /\ poolCache \in Copy /\ queued \in BOOLEAN /\ w \in Work

\* Nothing is left to do: no request is queued or running and the cache is
\* current.
Quiet == ~queued /\ ~w.busy /\ cache = phase /\ stsCache = sts /\ poolCache.fresh

\* When the reconciler has come to rest the pool shows the number of active
\* sessions, whatever conflicts, failed updates and overtaken copies there were.
SessionsInSync == Quiet => pool.active = countActiveSessions(phase)

\* When the reconciler has come to rest the Ready condition agrees with the
\* replicas the status shows and with the current spec, which may have changed
\* under the update (docs/architecture.md:342).
ConditionInSync == Quiet => (pool.cond = "True" <=> pool.ready >= pool.min)

\* How far the reconciler is from rest: first what the cache has to catch up
\* with, then the steps that the queue, the update under way and the event of
\* its own write still lead to.
Behind == Cardinality({s \in Sessions : cache[s] # phase[s]}) + (IF stsCache = sts THEN 0 ELSE 1)
StepsLeft ==
    IF ~poolCache.fresh THEN IF pool = WithStatus(pool) THEN 4 ELSE 8
    ELSE IF w.busy /\ w.copy.fresh /\ w.copy.pool # pool
    THEN IF w.copy.pool = WithStatus(w.copy.pool) THEN 5 ELSE 9
    ELSE (IF ~queued THEN 0 ELSE IF pool = WithStatus(pool) THEN 2 ELSE 6)
           + (IF w.busy THEN 1 ELSE 0)
Distance == 10 * Behind + StepsLeft

\* Although the reconciler is triggered by its own updates, each of its steps and
\* each event takes it nearer to rest; only a reconcile on an outdated pool may
\* be repeated, until the event that brings the current one.
NearsRest ==
    [][Operator => Distance' < Distance \/ (Distance' = Distance /\ ~poolCache.fresh)]_vars

\* The reconciler, which is triggered by its own updates, comes to rest once
\* nothing else changes.
Settles == <>[][~Environment]_vars => <>[]Quiet

\* docs/architecture.md: the status is kept in sync with the StatefulSet.
ReplicasInSync == Quiet => pool.ready = sts

=============================================================================
