---------------------------- MODULE ScalerProofs ----------------------------
(***************************************************************************)
(* Proofs about Scaler, for any number of sessions and operators and any   *)
(* limits of the configuration.                                            *)
(***************************************************************************)
EXTENDS Scaler, FiniteSetTheorems, TLAPS

InBounds(n) == n \in MinControllerReplicas..MaxControllerReplicas

\* A copy that is still current shows the stored replicas.
Current(c) == c.fresh => c.n = replicas

\* What the holders of a copy of the StatefulSet know of it: a pass of the
\* loop never has more Updates left than there are replicas above the floor.
CopiesInv ==
    /\ \A o \in Operators : InBounds(stsSeen[o].n) /\ Current(stsSeen[o])
    /\ \A o \in Operators :
          /\ Current(loop[o].sts)
          /\ loop[o].left > 0 =>
                /\ loop[o].sts.n <= MaxControllerReplicas
                /\ loop[o].left <= loop[o].sts.n - MinControllerReplicas
    /\ Current(rec.sts)
    /\ rec.pc = "scale" => InBounds(rec.sts.n) /\ rec.sts.n < MaxControllerReplicas

\* A pod chosen from a current list still has room when the choice is stored.
RoomInv ==
    rec.pc = "status" /\ rec.current =>
        Cardinality(On(place, rec.pod)) < MaxSandboxesPerCtrl

IInv == TypeOK /\ ReplicasInBounds /\ CopiesInv /\ RoomInv

-----------------------------------------------------------------------------
LEMMA IdleTypes == IdleRec \in Rec /\ IdleLoop \in Loop
<1>1. (CHOOSE s \in Sessions : TRUE) \in Sessions
  BY SessionsAssumption
<1>2. 0 \in Ordinals
  BY ConfigAssumption DEF Ordinals
<1> QED BY <1>1, <1>2 DEF IdleRec, IdleLoop, Rec, Loop, Copy

\* Sets of sessions and of ordinals can be counted.
LEMMA Counting ==
    /\ \A i : IsFiniteSet(On(place, i)) /\ Cardinality(On(place, i)) \in Nat
    /\ \A o \in Operators : /\ Cardinality(IdlePods(o)) \in Nat
                            /\ IdlePods(o) # {} => Cardinality(IdlePods(o)) > 0
<1>1. ASSUME NEW i PROVE IsFiniteSet(On(place, i)) /\ Cardinality(On(place, i)) \in Nat
  <2>1. On(place, i) \subseteq Sessions
    BY DEF On
  <2> QED BY <2>1, SessionsAssumption, FS_Subset, FS_CardinalityType
<1>2. ASSUME NEW o \in Operators
      PROVE  /\ Cardinality(IdlePods(o)) \in Nat
             /\ IdlePods(o) # {} => Cardinality(IdlePods(o)) > 0
  <2>1. IsFiniteSet(Ordinals)
    BY ConfigAssumption, FS_Interval DEF Ordinals
  <2>2. IdlePods(o) \subseteq Ordinals
    BY DEF IdlePods
  <2>3. IsFiniteSet(IdlePods(o))
    BY <2>1, <2>2, FS_Subset
  <2> QED BY <2>3, FS_CardinalityType, FS_EmptySet
<1> QED BY <1>1, <1>2

\* What is listed of pods are pods.
LEMMA ListedPods == ASSUME pods \in [Ordinals -> Pod] PROVE Listed \in [Ordinals -> Pod]
BY DEF Listed, Pod, PodStates

LEMMA AgedPods ==
  ASSUME NEW list \in [Ordinals -> Pod]
  PROVE  Aged(list) \in [Ordinals -> Pod]
<1>1. \A t \in 0..ScaleDownCooldown : Older(t) \in 0..ScaleDownCooldown
  BY ConfigAssumption DEF Older
<1>2. ASSUME NEW i \in Ordinals
      PROVE  (IF list[i].state = "absent" THEN list[i]
              ELSE [list[i] EXCEPT !.age = Older(@)]) \in Pod
  BY <1>1 DEF Pod
<1> QED BY <1>2 DEF Aged

\* The initial states satisfy the invariant.
LEMMA InitIInv == Init => IInv
<1> SUFFICES ASSUME Init PROVE IInv
  OBVIOUS
<1>1. TypeOK
  <2>1. Gone \in Places /\ NoPod \in Pod /\ OldPod \in Pod
    BY ConfigAssumption DEF Places, Gone, NoPod, OldPod, Pod, PodStates
  <2>2. replicas \in Int
    BY ConfigAssumption DEF Init
  <2>3. stsSeen \in [Operators -> Copy]
    BY <2>2 DEF Init, Copy
  <2>4. /\ place \in [Sessions -> Places] /\ pods \in [Ordinals -> Pod]
    BY <2>1 DEF Init
  <2>5. seen \in [Operators -> [Sessions -> Places]]
    BY <2>4 DEF Init
  <2>6. rec \in Rec /\ loop \in [Operators -> Loop]
    BY IdleTypes DEF Init
  <2>7. podsSeen \in [Operators -> [Ordinals -> Pod]]
    BY <2>4, ListedPods DEF Init
  <2> QED BY <2>2, <2>3, <2>4, <2>5, <2>6, <2>7 DEF TypeOK
<1>2. ReplicasInBounds
  BY DEF Init, ReplicasInBounds
<1>3. CopiesInv
  BY <1>2 DEF Init, CopiesInv, InBounds, Current, ReplicasInBounds, IdleLoop, IdleRec
<1>4. RoomInv
  BY DEF Init, RoomInv, IdleRec
<1> QED BY <1>1, <1>2, <1>3, <1>4 DEF IInv

-----------------------------------------------------------------------------
\* A step that leaves the StatefulSet and its copies alone.
LEMMA CopiesKept ==
  ASSUME CopiesInv, ReplicasInBounds, UNCHANGED <<replicas, stsSeen, loop, rec>>
  PROVE  CopiesInv' /\ ReplicasInBounds'
BY DEF CopiesInv, ReplicasInBounds, InBounds, Current

\* Sessions that leave pods make no room smaller.
LEMMA RoomKept ==
  ASSUME RoomInv, rec' = rec, \A i \in Ordinals : On(place', i) \subseteq On(place, i), rec \in Rec
  PROVE  RoomInv'
<1>1. rec.pod \in Ordinals
  BY DEF Rec
<1>2. On(place', rec.pod) \subseteq On(place, rec.pod)
  BY <1>1
<1>3. /\ IsFiniteSet(On(place, rec.pod)) /\ Cardinality(On(place, rec.pod)) \in Nat
      /\ IsFiniteSet(On(place', rec.pod)) /\ Cardinality(On(place', rec.pod)) \in Nat
  BY <1>2, Counting, FS_Subset, FS_CardinalityType
<1>4. Cardinality(On(place', rec.pod)) <= Cardinality(On(place, rec.pod))
  BY <1>2, <1>3, FS_Subset
<1> QED BY <1>3, <1>4, ConfigAssumption DEF RoomInv

\* Sessions move without the worker: they are created, end or are reset.
LEMMA MoveInv ==
  ASSUME IInv, NEW s \in Sessions, NEW from, NEW to \in {Waiting, Gone},
         Move(s, from, to)
  PROVE  IInv'
<1> USE DEF Move
<1>1. TypeOK'
  BY DEF IInv, TypeOK, Places, stsVars, podVars
<1>2. CopiesInv' /\ ReplicasInBounds'
  BY CopiesKept DEF IInv, stsVars
<1>3. \A i \in Ordinals : On(place', i) \subseteq On(place, i)
  BY ConfigAssumption DEF On, IInv, TypeOK, Waiting, Gone, Ordinals
<1>4. RoomInv'
  BY <1>3, RoomKept DEF IInv, TypeOK
<1> QED BY <1>1, <1>2, <1>4 DEF IInv

\* Pods come and go, and so do their copies.
LEMMA PodInv ==
  ASSUME IInv, pods' \in [Ordinals -> Pod], podsSeen' \in [Operators -> [Ordinals -> Pod]],
         UNCHANGED <<replicas, stsSeen, place, seen, rec, loop>>
  PROVE  IInv'
<1>1. TypeOK'
  BY DEF IInv, TypeOK
<1>2. CopiesInv' /\ ReplicasInBounds'
  BY CopiesKept DEF IInv
<1>3. RoomInv'
  BY RoomKept DEF IInv, TypeOK, On
<1> QED BY <1>1, <1>2, <1>3 DEF IInv

\* The caches catch up.
LEMMA SyncInv ==
  ASSUME IInv, NEW o \in Operators
  PROVE  /\ StsSync(o) => IInv'
         /\ SessionSync(o) => IInv'
         /\ PodSync(o) => IInv'
<1>1. ASSUME StsSync(o) PROVE IInv'
  <2> USE <1>1 DEF StsSync, podVars
  <2>1. TypeOK'
    BY DEF IInv, TypeOK, Copy
  <2>2. CopiesInv' /\ ReplicasInBounds'
    BY DEF IInv, CopiesInv, ReplicasInBounds, InBounds, Current, TypeOK
  <2>3. RoomInv'
    BY RoomKept DEF IInv, TypeOK, On
  <2> QED BY <2>1, <2>2, <2>3 DEF IInv
<1>2. ASSUME SessionSync(o) PROVE IInv'
  <2> USE <1>2 DEF SessionSync, stsVars, podVars
  <2>1. TypeOK'
    BY DEF IInv, TypeOK
  <2>2. CopiesInv' /\ ReplicasInBounds'
    BY CopiesKept DEF IInv
  <2>3. RoomInv'
    BY RoomKept DEF IInv, TypeOK, On
  <2> QED BY <2>1, <2>2, <2>3 DEF IInv
<1>3. ASSUME PodSync(o) PROVE IInv'
  <2>1. podsSeen' \in [Operators -> [Ordinals -> Pod]] /\ pods' \in [Ordinals -> Pod]
    BY <1>3, ListedPods DEF PodSync, IInv, TypeOK
  <2> QED BY <1>3, <2>1, PodInv DEF PodSync, stsVars
<1> QED BY <1>1, <1>2, <1>3

\* The choice of a pod, or of a scale-up.
LEMMA AssignInv ==
  ASSUME IInv, NEW s \in Sessions, assignController(s)
  PROVE  IInv'
<1> USE DEF assignController, stsVars, podVars
<1>1. CASE \E i \in BestPods :
             rec' = [pc |-> "status", s |-> s, pod |-> i, sts |-> IdleLoop.sts,
                     current |-> seen[Leader] = place]
  <2>1. PICK i \in BestPods :
             rec' = [pc |-> "status", s |-> s, pod |-> i, sts |-> IdleLoop.sts,
                     current |-> seen[Leader] = place]
    BY <1>1
  <2>2. i \in Ordinals /\ Remaining(i) > 0
    BY DEF BestPods, Candidates
  <2>3. (seen[Leader] = place) \in BOOLEAN /\ IdleLoop.sts \in Copy /\ ~IdleLoop.sts.fresh
    BY DEF IdleLoop, Copy
  <2>4. TypeOK'
    BY <2>1, <2>2, <2>3 DEF IInv, TypeOK, Rec
  <2>5. CopiesInv' /\ ReplicasInBounds'
    BY <2>1, <2>3 DEF IInv, CopiesInv, ReplicasInBounds, InBounds, Current
  <2>6. ASSUME seen[Leader] = place PROVE Cardinality(On(place, i)) < MaxSandboxesPerCtrl
    <3>1. podCounts(Leader, i) = Cardinality(On(place, i))
      BY <2>6 DEF podCounts, On
    <3> QED BY <3>1, <2>2, Counting, ConfigAssumption DEF Remaining
  <2>7. RoomInv'
    BY <2>1, <2>6 DEF RoomInv, On
  <2> QED BY <2>4, <2>5, <2>7 DEF IInv
<1>2. CASE /\ stsSeen[Leader].n < MaxControllerReplicas
           /\ rec' = [IdleRec EXCEPT !.pc = "scale", !.sts = stsSeen[Leader]]
  <2>1. TypeOK'
    BY <1>2, IdleTypes, ConfigAssumption DEF IInv, TypeOK, Rec
  <2>2. rec'.pc = "scale" /\ rec'.sts = stsSeen[Leader]
    BY <1>2, IdleTypes DEF Rec
  <2>3. CopiesInv' /\ ReplicasInBounds'
    BY <1>2, <2>2, ConfigAssumption DEF IInv, CopiesInv, ReplicasInBounds, InBounds, Current
  <2>4. RoomInv'
    BY <2>2 DEF RoomInv
  <2> QED BY <2>1, <2>3, <2>4 DEF IInv
<1> QED BY <1>1, <1>2

\* The ends of a reconcile that do not scale.
LEMMA StatusInv ==
  ASSUME IInv, StatusUpdate \/ Abort
  PROVE  IInv'
<1>1. rec' = IdleRec /\ UNCHANGED <<replicas, stsSeen, pods, podsSeen, seen, loop>>
  BY DEF StatusUpdate, Abort, stsVars, podVars
<1>2. place' \in [Sessions -> Places]
  BY DEF StatusUpdate, Abort, IInv, TypeOK, Rec, Places
<1>3. TypeOK'
  BY <1>1, <1>2, IdleTypes DEF IInv, TypeOK
<1>4. CopiesInv' /\ ReplicasInBounds'
  BY <1>1 DEF IInv, CopiesInv, ReplicasInBounds, InBounds, Current, IdleRec, IdleLoop
<1>5. RoomInv'
  BY <1>1 DEF RoomInv, IdleRec
<1> QED BY <1>3, <1>4, <1>5 DEF IInv

\* A write of the StatefulSet leaves every other copy out of date.
LEMMA StaleCopy ==
  ASSUME NEW c \in Copy
  PROVE  Stale(c) \in Copy /\ ~Stale(c).fresh /\ Stale(c).n = c.n
BY DEF Stale, Copy

LEMMA ScaleUpInv ==
  ASSUME IInv, scaleUp
  PROVE  IInv' /\ replicas' \in {replicas, replicas + 1}
<1> USE DEF scaleUp
<1>0. rec' = IdleRec /\ UNCHANGED <<pods, podsSeen, place, seen>>
  BY DEF podVars
<1>1. RoomInv'
  BY <1>0 DEF RoomInv, IdleRec
<1>2. CASE ~rec.sts.fresh
  <2>0. UNCHANGED <<replicas, stsSeen, loop>>
    BY <1>2
  <2>1. TypeOK'
    BY <1>0, <2>0, IdleTypes DEF IInv, TypeOK
  <2>2. CopiesInv' /\ ReplicasInBounds'
    BY <1>0, <2>0 DEF IInv, CopiesInv, ReplicasInBounds, InBounds, Current, IdleRec, IdleLoop
  <2> QED BY <1>1, <2>0, <2>1, <2>2 DEF IInv
<1>3. CASE rec.sts.fresh
  <2>1. /\ replicas' = rec.sts.n + 1
        /\ stsSeen' = [o \in Operators |-> Stale(stsSeen[o])]
        /\ loop' = [o \in Operators |-> [loop[o] EXCEPT !.sts = Stale(@)]]
    BY <1>3 DEF WriteReplicas
  <2>2. rec.sts.n = replicas /\ replicas \in Int /\ replicas < MaxControllerReplicas
        /\ InBounds(replicas)
    BY <1>3 DEF IInv, CopiesInv, Current, TypeOK
  <2>3. ASSUME NEW o \in Operators
        PROVE  /\ stsSeen'[o] \in Copy /\ ~stsSeen'[o].fresh /\ stsSeen'[o].n = stsSeen[o].n
               /\ loop'[o] \in Loop /\ ~loop'[o].sts.fresh
               /\ loop'[o].left = loop[o].left /\ loop'[o].sts.n = loop[o].sts.n
    <3>1. stsSeen[o] \in Copy /\ loop[o] \in Loop /\ loop[o].sts \in Copy
      BY DEF IInv, TypeOK, Loop
    <3>2. stsSeen'[o] = Stale(stsSeen[o])
      BY <2>1
    <3>3. loop'[o] = [loop[o] EXCEPT !.sts = Stale(loop[o].sts)]
      BY <2>1
    <3>4. /\ Stale(loop[o].sts) \in Copy /\ ~Stale(loop[o].sts).fresh
          /\ Stale(loop[o].sts).n = loop[o].sts.n
      BY <3>1, StaleCopy
    <3>5. loop'[o] \in Loop /\ loop'[o].left = loop[o].left /\ loop'[o].sts = Stale(loop[o].sts)
      BY <3>1, <3>3, <3>4 DEF Loop
    <3> QED BY <3>1, <3>2, <3>4, <3>5, StaleCopy
  <2>4. TypeOK'
    <3>1. stsSeen' \in [Operators -> Copy] /\ loop' \in [Operators -> Loop]
      BY <2>1, <2>3
    <3> QED BY <1>0, <2>1, <2>2, <3>1, IdleTypes DEF IInv, TypeOK
  <2>5. ReplicasInBounds'
    BY <2>1, <2>2, ConfigAssumption DEF ReplicasInBounds, InBounds
  <2>6. CopiesInv'
    BY <1>0, <2>3 DEF IInv, CopiesInv, InBounds, Current, IdleRec, IdleLoop
  <2> QED BY <1>1, <2>1, <2>2, <2>4, <2>5, <2>6 DEF IInv
<1> QED BY <1>2, <1>3

\* The start of a pass of the loop, and its end by an error.
LEMMA LoopInv ==
  ASSUME IInv, NEW o \in Operators, tryScaleDown(o) \/ AbortLoop(o)
  PROVE  IInv'
<1>0. UNCHANGED <<replicas, stsSeen, pods, podsSeen, place, seen, rec>>
  BY DEF tryScaleDown, AbortLoop, stsVars, podVars
<1>1. PICK l \in Loop : /\ loop' = [loop EXCEPT ![o] = l]
                        /\ l = IdleLoop \/
                           /\ l.sts = stsSeen[o]
                           /\ l.left <= stsSeen[o].n - MinControllerReplicas
  <2>1. CASE tryScaleDown(o)
    <3> DEFINE k == Cardinality(IdlePods(o))
               d == stsSeen[o].n - MinControllerReplicas
               l == [left |-> Smaller(k, d), sts |-> stsSeen[o]]
    <3>1. k \in Nat /\ k > 0
      BY <2>1, Counting DEF tryScaleDown
    <3>2. stsSeen[o] \in Copy /\ d \in Int /\ d > 0
      BY <2>1, ConfigAssumption DEF tryScaleDown, IInv, TypeOK, Copy
    <3>3. Smaller(k, d) \in Nat /\ Smaller(k, d) <= d
      BY <3>1, <3>2 DEF Smaller
    <3>4. l \in Loop /\ l.sts = stsSeen[o] /\ l.left <= d
      BY <3>2, <3>3 DEF Loop
    <3>5. loop' = [loop EXCEPT ![o] = l]
      BY <2>1 DEF tryScaleDown
    <3> QED BY <3>4, <3>5
  <2>2. CASE AbortLoop(o)
    BY <2>2, IdleTypes DEF AbortLoop
  <2> QED BY <2>1, <2>2
<1>2. TypeOK'
  BY <1>0, <1>1 DEF IInv, TypeOK
<1>3. CopiesInv' /\ ReplicasInBounds'
  BY <1>0, <1>1 DEF IInv, CopiesInv, ReplicasInBounds, InBounds, Current, IdleLoop, TypeOK
<1>4. RoomInv'
  BY <1>0, RoomKept DEF IInv, TypeOK, On
<1> QED BY <1>2, <1>3, <1>4 DEF IInv

\* One Update of the loop.
LEMMA ScaleDownInv ==
  ASSUME IInv, NEW o \in Operators, ScaleDown(o)
  PROVE  IInv' /\ replicas' \in {replicas, replicas - 1}
<1> DEFINE n == loop[o].sts.n - 1
           rest == [left |-> loop[o].left - 1, sts |-> [n |-> n, fresh |-> TRUE]]
           mine == IF rest.left = 0 THEN IdleLoop ELSE rest
<1>0. loop[o] \in Loop /\ loop[o].sts \in Copy /\ loop[o].left > 0 /\ rec \in Rec
      /\ rec.sts \in Copy /\ UNCHANGED <<pods, podsSeen, place, seen>>
  BY DEF ScaleDown, IInv, TypeOK, Loop, Rec, podVars
<1>1. CASE ~loop[o].sts.fresh
  <2>0. loop' = [loop EXCEPT ![o] = IdleLoop] /\ UNCHANGED <<replicas, stsSeen, rec>>
    BY <1>1 DEF ScaleDown, stsVars
  <2>1. TypeOK'
    BY <1>0, <2>0, IdleTypes DEF IInv, TypeOK
  <2>2. CopiesInv' /\ ReplicasInBounds'
    BY <2>0 DEF IInv, CopiesInv, ReplicasInBounds, InBounds, Current, IdleLoop, TypeOK
  <2>3. RoomInv'
    BY <1>0, <2>0, RoomKept DEF IInv, On
  <2> QED BY <2>0, <2>1, <2>2, <2>3 DEF IInv
<1>2. CASE loop[o].sts.fresh
  <2>1. /\ replicas' = n
        /\ stsSeen' = [p \in Operators |-> Stale(stsSeen[p])]
        /\ loop' = [p \in Operators |-> IF p = o THEN mine
                                        ELSE [loop[p] EXCEPT !.sts = Stale(@)]]
        /\ rec' = [rec EXCEPT !.sts = Stale(@)]
    BY <1>2 DEF ScaleDown, WriteReplicas
  <2>2. /\ loop[o].sts.n = replicas /\ replicas \in Int
        /\ loop[o].left <= replicas - MinControllerReplicas
        /\ replicas <= MaxControllerReplicas /\ loop[o].left \in Nat /\ loop[o].left > 0
    BY <1>0, <1>2 DEF IInv, CopiesInv, Current, TypeOK, Loop
  <2>3. /\ mine \in Loop
        /\ mine.sts.fresh => mine.sts.n = n
        /\ mine.left > 0 => mine.sts.n = n /\ mine.left <= n - MinControllerReplicas
    <3>1. CASE rest.left = 0
      BY <3>1, IdleTypes DEF IdleLoop
    <3>2. CASE rest.left # 0
      BY <2>2, <3>2, ConfigAssumption DEF Loop, Copy
    <3> QED BY <3>1, <3>2
  <2>4. rec' \in Rec /\ ~rec'.sts.fresh /\ rec'.sts.n = rec.sts.n /\ rec'.pc = rec.pc
        /\ rec'.pod = rec.pod /\ rec'.current = rec.current
    <3>1. Stale(rec.sts) \in Copy /\ ~Stale(rec.sts).fresh /\ Stale(rec.sts).n = rec.sts.n
      BY <1>0, StaleCopy
    <3> QED BY <1>0, <2>1, <3>1 DEF Rec
  <2>5. ASSUME NEW p \in Operators
        PROVE  stsSeen'[p] \in Copy /\ ~stsSeen'[p].fresh /\ stsSeen'[p].n = stsSeen[p].n
    <3>1. stsSeen[p] \in Copy
      BY DEF IInv, TypeOK
    <3> QED BY <2>1, <3>1, StaleCopy
  <2>6. ASSUME NEW p \in Operators, p # o
        PROVE  /\ loop'[p] \in Loop /\ ~loop'[p].sts.fresh
               /\ loop'[p].left = loop[p].left /\ loop'[p].sts.n = loop[p].sts.n
    <3>1. loop[p] \in Loop /\ loop[p].sts \in Copy
      BY DEF IInv, TypeOK, Loop
    <3>2. loop'[p] = [loop[p] EXCEPT !.sts = Stale(loop[p].sts)]
      BY <2>1, <2>6
    <3>3. /\ Stale(loop[p].sts) \in Copy /\ ~Stale(loop[p].sts).fresh
          /\ Stale(loop[p].sts).n = loop[p].sts.n
      BY <3>1, StaleCopy
    <3> QED BY <3>1, <3>2, <3>3 DEF Loop
  <2>7. loop'[o] = mine
    BY <2>1
  <2>8. TypeOK'
    <3>1. stsSeen' \in [Operators -> Copy]
      BY <2>1, <2>5
    <3>2. loop' \in [Operators -> Loop]
      BY <2>1, <2>3, <2>6
    <3>3. replicas' \in Int
      BY <2>1, <2>2, ConfigAssumption
    <3> QED BY <1>0, <2>4, <3>1, <3>2, <3>3 DEF IInv, TypeOK
  <2>9. ReplicasInBounds'
    BY <2>1, <2>2, ConfigAssumption DEF ReplicasInBounds
  <2>10. CopiesInv'
    <3>1. ASSUME NEW p \in Operators
          PROVE  InBounds(stsSeen'[p].n) /\ ~stsSeen'[p].fresh
      BY <2>5 DEF IInv, CopiesInv
    <3>2. /\ mine.sts.fresh => mine.sts.n = replicas'
          /\ mine.left > 0 => /\ mine.sts.n <= MaxControllerReplicas
                              /\ mine.left <= mine.sts.n - MinControllerReplicas
      <4> HIDE DEF mine
      <4> QED BY <2>1, <2>2, <2>3, ConfigAssumption
    <3>3. ASSUME NEW p \in Operators, p # o
          PROVE  /\ ~loop'[p].sts.fresh
                 /\ loop'[p].left > 0 =>
                      /\ loop'[p].sts.n <= MaxControllerReplicas
                      /\ loop'[p].left <= loop'[p].sts.n - MinControllerReplicas
      BY <2>6, <3>3 DEF IInv, CopiesInv
    <3>4. /\ ~rec'.sts.fresh
          /\ rec'.pc = "scale" => InBounds(rec'.sts.n) /\ rec'.sts.n < MaxControllerReplicas
      BY <2>4 DEF IInv, CopiesInv
    <3> HIDE DEF mine
    <3> QED BY <2>7, <3>1, <3>2, <3>3, <3>4 DEF CopiesInv, InBounds, Current
  <2>11. RoomInv'
    BY <1>0, <2>4 DEF IInv, RoomInv, On
  <2> QED BY <2>1, <2>2, <2>8, <2>9, <2>10, <2>11 DEF IInv
<1> QED BY <1>1, <1>2

-----------------------------------------------------------------------------
\* Every step preserves the invariant.
LEMMA NextIInv == IInv /\ [Next]_vars => IInv'
<1> SUFFICES ASSUME IInv, [Next]_vars PROVE IInv'
  OBVIOUS
<1>1. ASSUME NEW s \in Sessions, SessionStep(s) PROVE IInv'
  BY <1>1, MoveInv DEF SessionStep, CreateSession, EndSession, ResetSession
<1>2. ASSUME NEW s \in Sessions, assignController(s) PROVE IInv'
  BY <1>2, AssignInv
<1>3. ASSUME NEW i \in Ordinals, PodStep(i) PROVE IInv'
  <2>1. PICK p \in Pod : /\ pods' = [pods EXCEPT ![i] = p]
                         /\ UNCHANGED <<stsVars, podsSeen, place, seen, rec, loop>>
    <3>1. pods[i] \in Pod /\ 0 \in 0..ScaleDownCooldown
      BY ConfigAssumption DEF IInv, TypeOK
    <3>2. /\ [state |-> "up", age |-> 0] \in Pod /\ NoPod \in Pod
          /\ [pods[i] EXCEPT !.state = "ready"] \in Pod
          /\ [pods[i] EXCEPT !.state = "up"] \in Pod
          /\ [pods[i] EXCEPT !.state = "stopping"] \in Pod
      BY <3>1 DEF Pod, PodStates, NoPod
    <3> QED BY <1>3, <3>2 DEF PodStep, StartPod, PodReady, PodUnready, StopPod, PodGone, SetPod
  <2>2. pods' \in [Ordinals -> Pod]
    BY <2>1 DEF IInv, TypeOK
  <2> QED BY <2>1, <2>2, PodInv DEF stsVars, IInv, TypeOK
<1>4. CASE Tick
  <2>1. pods' \in [Ordinals -> Pod] /\ podsSeen' \in [Operators -> [Ordinals -> Pod]]
    BY <1>4, AgedPods DEF Tick, IInv, TypeOK
  <2> QED BY <1>4, <2>1, PodInv DEF Tick, stsVars
<1>5. CASE StatusUpdate \/ Abort
  BY <1>5, StatusInv
<1>6. CASE scaleUp
  BY <1>6, ScaleUpInv
<1>7. ASSUME NEW o \in Operators, tryScaleDown(o) \/ AbortLoop(o) PROVE IInv'
  BY <1>7, LoopInv
<1>8. ASSUME NEW o \in Operators, ScaleDown(o) PROVE IInv'
  BY <1>8, ScaleDownInv
<1>9. ASSUME NEW o \in Operators, StsSync(o) \/ PodSync(o) \/ SessionSync(o) PROVE IInv'
  BY <1>9, SyncInv
<1>10. CASE UNCHANGED vars
  BY <1>10 DEF vars, stsVars, podVars, IInv, TypeOK, ReplicasInBounds, CopiesInv, InBounds,
               Current, RoomInv, On
<1> QED
  BY <1>1, <1>2, <1>3, <1>4, <1>5, <1>6, <1>7, <1>8, <1>9, <1>10 DEF Next

LEMMA Invariance == Spec => []IInv
  BY InitIInv, NextIInv, PTL DEF Spec

\* All variables keep their types.
THEOREM TypeCorrect == Spec => []TypeOK
<1>1. IInv => TypeOK
  BY DEF IInv
<1> QED BY <1>1, Invariance, PTL

\* The replicas stay between floor and ceiling, whatever the operators read
\* from their caches and however their updates interleave.
THEOREM BoundedReplicas == Spec => []ReplicasInBounds
<1>1. IInv => ReplicasInBounds
  BY DEF IInv
<1> QED BY <1>1, Invariance, PTL

\* scaleUp adds one replica and an Update of tryScaleDown takes one, or the
\* write is refused.
THEOREM StepwiseScaling == Spec => ScalesByOne
<1>1. IInv /\ [Next]_vars =>
        [/\ scaleUp => replicas' \in {replicas, replicas + 1}
         /\ \A o \in Operators : ScaleDown(o) => replicas' \in {replicas, replicas - 1}]_vars
  BY ScaleUpInv, ScaleDownInv
<1> QED BY <1>1, Invariance, PTL DEF Spec, ScalesByOne

\* A choice of assignController made from a current list never overbooks the
\* pod, although it is stored later.
THEOREM NoOverbooking == Spec => OverbookedOnlyByLag
<1>1. ASSUME IInv, StatusUpdate, rec.current
      PROVE  place' = place \/ Cardinality(On(place', rec.pod)) <= MaxSandboxesPerCtrl
  <2>1. CASE place[rec.s] # Waiting
    BY <1>1, <2>1 DEF StatusUpdate
  <2>2. CASE place[rec.s] = Waiting
    <3>1. place' = [place EXCEPT ![rec.s] = rec.pod] /\ rec.pc = "status"
      BY <1>1, <2>2 DEF StatusUpdate
    <3>2. On(place', rec.pod) \subseteq On(place, rec.pod) \cup {rec.s}
      <4>1. \A s \in Sessions : place'[s] = rec.pod => place[s] = rec.pod \/ s = rec.s
        BY <1>1, <3>1 DEF IInv, TypeOK
      <4>2. On(place', rec.pod) \subseteq {s \in Sessions : place'[s] = rec.pod}
        BY <1>1 DEF On, StatusUpdate
      <4> QED BY <4>1, <4>2 DEF On
    <3>3. /\ IsFiniteSet(On(place, rec.pod)) /\ Cardinality(On(place, rec.pod)) \in Nat
          /\ Cardinality(On(place, rec.pod)) < MaxSandboxesPerCtrl
      BY <1>1, <3>1, Counting DEF IInv, RoomInv
    <3>4. /\ IsFiniteSet(On(place, rec.pod) \cup {rec.s})
          /\ Cardinality(On(place, rec.pod) \cup {rec.s}) \in Nat
          /\ Cardinality(On(place, rec.pod) \cup {rec.s}) <= Cardinality(On(place, rec.pod)) + 1
      <4> DEFINE S == On(place, rec.pod)
      <4>1. IsFiniteSet(S) /\ Cardinality(S) \in Nat
        BY <3>3
      <4> HIDE DEF S
      <4>2. /\ IsFiniteSet(S \cup {rec.s})
            /\ Cardinality(S \cup {rec.s}) =
                 IF rec.s \in S THEN Cardinality(S) ELSE Cardinality(S) + 1
        BY <4>1, FS_AddElement
      <4>3. Cardinality(S \cup {rec.s}) \in Nat /\ Cardinality(S \cup {rec.s}) <= Cardinality(S) + 1
        BY <4>1, <4>2
      <4> QED BY <4>2, <4>3 DEF S
    <3>5. /\ Cardinality(On(place', rec.pod)) <= Cardinality(On(place, rec.pod) \cup {rec.s})
          /\ Cardinality(On(place', rec.pod)) \in Nat
      BY <3>2, <3>4, FS_Subset, FS_CardinalityType
    <3> QED BY <3>3, <3>4, <3>5, ConfigAssumption
  <2> QED BY <2>1, <2>2
<1>2. IInv /\ [Next]_vars =>
        [StatusUpdate /\ rec.current =>
           \/ place' = place
           \/ Cardinality(On(place', rec.pod)) <= MaxSandboxesPerCtrl]_vars
  BY <1>1
<1> QED BY <1>2, Invariance, PTL DEF Spec, OverbookedOnlyByLag
=============================================================================
