------------------------------- MODULE Scaler -------------------------------
(***************************************************************************)
(* Where sessions are placed, and how many controller pods there are: the  *)
(* bin packing of reconcilePending, the scale-up it asks for, the          *)
(* scale-down loop that every operator process runs (as a goroutine of its *)
(* own, leader or not), and the StatefulSet that follows.                  *)
(*                                                                         *)
(* The operators read sessions, pods and the StatefulSet from a cache      *)
(* each; an Update of the StatefulSet is refused unless it is made from    *)
(* the stored version ("fresh", as in SessionLifecycle).                   *)
(***************************************************************************)
EXTENDS Integers, FiniteSets

CONSTANTS Sessions,               \* names of sessions
          Operators,              \* operator processes
          Leader,                 \* the one that reconciles
          MinControllerReplicas,
          MaxControllerReplicas,
          MaxSandboxesPerCtrl,
          ScaleDownCooldown,      \* in ticks of the clock
          Standing                \* ordinals of pods that run, and have for long,
                                  \* when the operators start

ASSUME SessionsAssumption == IsFiniteSet(Sessions) /\ Sessions # {}

ASSUME ConfigAssumption ==
    /\ Leader \in Operators
    /\ MinControllerReplicas \in Nat \ {0}
    /\ MaxControllerReplicas \in Nat
    /\ MinControllerReplicas <= MaxControllerReplicas
    /\ MaxSandboxesPerCtrl \in Nat \ {0}
    /\ ScaleDownCooldown \in Nat \ {0}
    /\ Standing \subseteq 0..(MinControllerReplicas - 1)

VARIABLES replicas,  \* spec.replicas of the StatefulSet
          stsSeen,   \* each operator's cached copy of the StatefulSet
          pods,      \* the controller pods by ordinal
          podsSeen,  \* each operator's cached copy of the list of pods
          place,     \* where every session is
          seen,      \* each operator's cached copies of the sessions
          rec,       \* the session worker of the leader
          loop       \* each operator's scale-down loop

stsVars == <<replicas, stsSeen>>
podVars == <<pods, podsSeen>>
vars == <<stsVars, podVars, place, seen, rec, loop>>

Ordinals == 0..(MaxControllerReplicas - 1)

\* A session is on a pod (Creating or Running), waits for one, or does not
\* count: it is absent, Deleting or Terminated.
Waiting == -1
Gone == -2
Places == Ordinals \cup {Waiting, Gone}

\* "up": Running but not Ready; "stopping": DeletionTimestamp is set.
PodStates == {"absent", "up", "ready", "stopping"}
Pod == [state : PodStates, age : 0..ScaleDownCooldown]
NoPod == [state |-> "absent", age |-> 0]
OldPod == [state |-> "ready", age |-> ScaleDownCooldown]

\* A copy of the StatefulSet: its replicas, and whether it is still current.
Copy == [n : Int, fresh : BOOLEAN]

\* pc, the session, the pod chosen for it, the copy of the StatefulSet, and
\* whether the list of sessions it chose from was up to date (history).
Rec == [pc : {"idle", "status", "scale"}, s : Sessions, pod : Ordinals,
        sts : Copy, current : BOOLEAN]

\* left: the pods listed as removable it has not yet scaled down for.
Loop == [left : Nat, sts : Copy]

IdleLoop == [left |-> 0, sts |-> [n |-> 0, fresh |-> FALSE]]

-----------------------------------------------------------------------------
\* The StatefulSet object.

Stale(c) == [c EXCEPT !.fresh = FALSE]

\* Update with n replicas: every copy but the writer's own is out of date.
WriteReplicas(n) ==
    /\ replicas' = n
    /\ stsSeen' = [o \in Operators |-> Stale(stsSeen[o])]

StsSync(o) ==
    /\ ~stsSeen[o].fresh
    /\ stsSeen' = [stsSeen EXCEPT ![o] = [n |-> replicas, fresh |-> TRUE]]
    /\ UNCHANGED <<replicas, podVars, place, seen, rec, loop>>

-----------------------------------------------------------------------------
\* Sessions, as far as their placement goes.

SessionSync(o) ==
    /\ seen[o] # place
    /\ seen' = [seen EXCEPT ![o] = place]
    /\ UNCHANGED <<stsVars, podVars, place, rec, loop>>

Move(s, from, to) ==
    /\ place[s] \in from
    /\ place' = [place EXCEPT ![s] = to]
    /\ UNCHANGED <<stsVars, podVars, seen, rec, loop>>

CreateSession(s) == Move(s, {Gone}, Waiting)

\* It expires, is evicted or deleted.
EndSession(s) == Move(s, Places \ {Gone}, Gone)

\* reconcileCreating finds the controller unreachable and resets the session.
ResetSession(s) ==
    Move(s, {i \in Ordinals : pods[i].state # "ready"}, Waiting)

-----------------------------------------------------------------------------
\* The controller pods (Kubernetes, podManagementPolicy Parallel).

SetPod(i, from, to) ==
    /\ pods[i].state \in from
    /\ pods' = [pods EXCEPT ![i] = to]
    /\ UNCHANGED <<stsVars, podsSeen, place, seen, rec, loop>>

StartPod(i) == i < replicas /\ SetPod(i, {"absent"}, [state |-> "up", age |-> 0])
PodReady(i) == SetPod(i, {"up"}, [pods[i] EXCEPT !.state = "ready"])
PodUnready(i) == SetPod(i, {"ready"}, [pods[i] EXCEPT !.state = "up"])
StopPod(i) ==
    i >= replicas /\ SetPod(i, {"up", "ready"}, [pods[i] EXCEPT !.state = "stopping"])
PodGone(i) == SetPod(i, {"stopping"}, NoPod)

Older(t) == IF t < ScaleDownCooldown THEN t + 1 ELSE t

Aged(list) ==
    [i \in Ordinals |-> IF list[i].state = "absent" THEN list[i]
                        ELSE [list[i] EXCEPT !.age = Older(@)]]

\* A copy carries the time of creation: it ages like the pod.
Tick ==
    /\ pods' = Aged(pods)
    /\ podsSeen' = [o \in Operators |-> Aged(podsSeen[o])]
    /\ UNCHANGED <<stsVars, place, seen, rec, loop>>

\* What a reader of the list can tell: a pod that is stopping is listed, and is
\* as little use as one that is not Ready.
Listed ==
    [i \in Ordinals |-> IF pods[i].state = "stopping"
                        THEN [pods[i] EXCEPT !.state = "up"] ELSE pods[i]]

PodSync(o) ==
    /\ podsSeen[o] # Listed
    /\ podsSeen' = [podsSeen EXCEPT ![o] = Listed]
    /\ UNCHANGED <<stsVars, pods, place, seen, rec, loop>>

-----------------------------------------------------------------------------
\* Placement and scale-up, by the leader's session worker.

\* podCounts of operator o for pod i.
podCounts(o, i) == Cardinality({s \in Sessions : seen[o][s] = i})

Remaining(i) == MaxSandboxesPerCtrl - podCounts(Leader, i)

podRunningReady(i) == podsSeen[Leader][i].state = "ready"

\* Mutant of Candidates: a full pod counts as one with room.
CandidatesFull == {i \in Ordinals : podRunningReady(i) /\ Remaining(i) >= 0}

Candidates == {i \in Ordinals : podRunningReady(i) /\ Remaining(i) > 0}

\* The fullest pod that has room; the list has no order to settle a tie.
BestPods == {i \in Candidates : \A j \in Candidates : Remaining(i) <= Remaining(j)}

IdleRec == [pc |-> "idle", s |-> CHOOSE s \in Sessions : TRUE, pod |-> 0,
            sts |-> IdleLoop.sts, current |-> FALSE]

\* assignController, up to the write that follows from it: the status of the
\* session, or the StatefulSet when no pod has room and there may be one more.
assignController(s) ==
    /\ rec.pc = "idle"
    /\ seen[Leader][s] = Waiting
    /\ \/ \E i \in BestPods :
            rec' = [pc |-> "status", s |-> s, pod |-> i, sts |-> IdleLoop.sts,
                    current |-> seen[Leader] = place]
       \/ /\ BestPods = {}
          /\ stsSeen[Leader].n < MaxControllerReplicas
          /\ rec' = [IdleRec EXCEPT !.pc = "scale", !.sts = stsSeen[Leader]]
    /\ UNCHANGED <<stsVars, podVars, place, seen, loop>>

\* The end of reconcilePending; refused when the session has changed.
StatusUpdate ==
    /\ rec.pc = "status"
    /\ place' = IF place[rec.s] = Waiting
                THEN [place EXCEPT ![rec.s] = rec.pod] ELSE place
    /\ rec' = IdleRec
    /\ UNCHANGED <<stsVars, podVars, seen, loop>>

scaleUp ==
    /\ rec.pc = "scale"
    /\ IF rec.sts.fresh
       THEN /\ WriteReplicas(rec.sts.n + 1)
            /\ loop' = [o \in Operators |-> [loop[o] EXCEPT !.sts = Stale(@)]]
       ELSE UNCHANGED <<replicas, stsSeen, loop>>
    /\ rec' = IdleRec
    /\ UNCHANGED <<podVars, place, seen>>

-----------------------------------------------------------------------------
\* The scale-down loop.

\* Pods without sessions and older than the cooldown.  A pod that is already
\* stopping is listed like any other.
IdlePods(o) ==
    {i \in Ordinals : /\ podsSeen[o][i].state # "absent"
                      /\ podCounts(o, i) = 0
                      /\ podsSeen[o][i].age >= ScaleDownCooldown}

Smaller(a, b) == IF a < b THEN a ELSE b

\* Mutant of tryScaleDown: the floor is checked once and not for every pod.
tryScaleDownUnchecked(o) ==
    /\ loop[o].left = 0
    /\ stsSeen[o].n > MinControllerReplicas
    /\ IdlePods(o) # {}
    /\ loop' = [loop EXCEPT ![o] = [left |-> Cardinality(IdlePods(o)),
                                   sts |-> stsSeen[o]]]
    /\ UNCHANGED <<stsVars, podVars, place, seen, rec>>

\* Mutant of tryScaleDown: it stops one replica above the floor.
tryScaleDownEarly(o) ==
    /\ loop[o].left = 0
    /\ stsSeen[o].n > MinControllerReplicas + 1
    /\ IdlePods(o) # {}
    /\ loop' = [loop EXCEPT ![o] = [left |-> 1, sts |-> stsSeen[o]]]
    /\ UNCHANGED <<stsVars, podVars, place, seen, rec>>

\* tryScaleDown, up to its first Update: one for every idle pod, as long as
\* there are more replicas than the minimum.
tryScaleDown(o) ==
    /\ loop[o].left = 0
    /\ stsSeen[o].n > MinControllerReplicas
    /\ IdlePods(o) # {}
    /\ loop' = [loop EXCEPT ![o] =
                  [left |-> Smaller(Cardinality(IdlePods(o)),
                                    stsSeen[o].n - MinControllerReplicas),
                   sts |-> stsSeen[o]]]
    /\ UNCHANGED <<stsVars, podVars, place, seen, rec>>

\* One Update of the loop: the copy is the stored version after it; a refused
\* one ends the pass.  The StatefulSet gives up its highest ordinal.
ScaleDown(o) ==
    /\ loop[o].left > 0
    /\ LET n == loop[o].sts.n - 1
           rest == [left |-> loop[o].left - 1, sts |-> [n |-> n, fresh |-> TRUE]]
       IN IF loop[o].sts.fresh
          THEN /\ WriteReplicas(n)
               /\ loop' = [p \in Operators |->
                             IF p = o THEN (IF rest.left = 0 THEN IdleLoop ELSE rest)
                             ELSE [loop[p] EXCEPT !.sts = Stale(@)]]
               /\ rec' = [rec EXCEPT !.sts = Stale(@)]
          ELSE /\ loop' = [loop EXCEPT ![o] = IdleLoop]
               /\ UNCHANGED <<stsVars, rec>>
    /\ UNCHANGED <<podVars, place, seen>>

\* Errors of the API server, and a crash.
Abort ==
    /\ rec.pc # "idle"
    /\ rec' = IdleRec
    /\ UNCHANGED <<stsVars, podVars, place, seen, loop>>

AbortLoop(o) ==
    /\ loop[o].left > 0
    /\ loop' = [loop EXCEPT ![o] = IdleLoop]
    /\ UNCHANGED <<stsVars, podVars, place, seen, rec>>

-----------------------------------------------------------------------------
Init ==
    /\ replicas \in MinControllerReplicas..MaxControllerReplicas
    /\ stsSeen = [o \in Operators |-> [n |-> replicas, fresh |-> TRUE]]
    /\ pods = [i \in Ordinals |-> IF i \in Standing THEN OldPod ELSE NoPod]
    /\ podsSeen = [o \in Operators |-> Listed]
    /\ place = [s \in Sessions |-> Gone]
    /\ seen = [o \in Operators |-> place]
    /\ rec = IdleRec
    /\ loop = [o \in Operators |-> IdleLoop]

SessionStep(s) == CreateSession(s) \/ EndSession(s) \/ ResetSession(s)

PodStep(i) ==
    StartPod(i) \/ PodReady(i) \/ PodUnready(i) \/ StopPod(i) \/ PodGone(i)

Next ==
    \/ \E s \in Sessions : SessionStep(s) \/ assignController(s)
    \/ \E i \in Ordinals : PodStep(i)
    \/ StatusUpdate \/ scaleUp \/ Abort \/ Tick
    \/ \E o \in Operators :
          \/ tryScaleDown(o) \/ ScaleDown(o) \/ AbortLoop(o)
          \/ StsSync(o) \/ PodSync(o) \/ SessionSync(o)

Spec == Init /\ [][Next]_vars

-----------------------------------------------------------------------------
\* Every variable stays in its type.
TypeOK ==
    /\ replicas \in Int
    /\ stsSeen \in [Operators -> Copy]
    /\ pods \in [Ordinals -> Pod] /\ podsSeen \in [Operators -> [Ordinals -> Pod]]
    /\ place \in [Sessions -> Places]
    /\ seen \in [Operators -> [Sessions -> Places]]
    /\ rec \in Rec
    /\ loop \in [Operators -> Loop]

\* However the scale-up of the leader and the loops of all operators
\* interleave, on whatever cached copies, the StatefulSet stays between the
\* floor and the ceiling of the configuration.
ReplicasInBounds ==
    replicas \in MinControllerReplicas..MaxControllerReplicas

\* An Update adds exactly one replica (scaleUp) or takes exactly one
\* (tryScaleDown): none undoes or doubles the step of another writer.
ScalesByOne ==
    [][/\ scaleUp => replicas' \in {replicas, replicas + 1}
       /\ \A o \in Operators : ScaleDown(o) => replicas' \in {replicas, replicas - 1}]_vars

\* The sessions that the placement f puts on pod i.
On(f, i) == {s \in Sessions : f[s] = i}

\* A pod is filled beyond its capacity only by a choice made from a list of
\* sessions that lagged: what changes between the choice (assignController)
\* and the status update cannot overbook it.
OverbookedOnlyByLag ==
    [][StatusUpdate /\ rec.current =>
          \/ place' = place
          \/ Cardinality(On(place', rec.pod)) <= MaxSandboxesPerCtrl]_vars
=============================================================================
