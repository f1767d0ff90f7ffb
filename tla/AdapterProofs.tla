---------------------------- MODULE AdapterProofs ----------------------------
(***************************************************************************)
(* Proofs about Adapter, for any sandboxes, requests and limits, and about *)
(* ExecOutput, the output of one of its execs, for any limit, output and   *)
(* chunks.                                                                 *)
(***************************************************************************)
EXTENDS Adapter, ExecOutput, FiniteSetTheorems, TLAPS

\* Each create in flight has its place in the bound already.
RoomInv ==
    Cardinality(sandboxes) + Cardinality(At({"create", "setup"}))
        <= maxSandboxes + Cardinality(Reqs) - 1

\* Where requests do not overlap, one that changes a sandbox is alone with it:
\* what it made or took away stays so until it is done.
AloneInv ==
    /\ \A id \in Ids \ Overlap : \A q, r \in Changing(id) : q = r
    /\ \A r \in At({"setup", "teardown"}) : req[r].id \in Overlap \/ req[r].id \notin sandboxes
    /\ \A r \in At({"setup"}) : req[r].id \in Overlap \/ req[r].id \in dirs
    /\ WorkspaceThere

IInv == TypeOK /\ SlotsMatch /\ DirsAreOwned /\ RoomInv /\ AloneInv

-----------------------------------------------------------------------------
\* The step of one request: all others keep their place in the program.
OnlyMoves(r) == \A q \in Reqs \ {r} : req'[q].pc = req[q].pc

LEMMA IdleType == Idle \in Request /\ Idle.pc = "idle" /\ Idle.held = "none"
  <1>1. (CHOOSE i \in Ids : TRUE) \in Ids
    BY ReqsAssumption
  <1> QED  BY <1>1 DEF Idle, Request, PCs, Ops

\* Next keeps the types (TypeOK of Adapter).
LEMMA TypeStep == TypeOK /\ SlotsMatch /\ [Next]_vars => TypeOK'
  <1> SUFFICES ASSUME TypeOK, SlotsMatch, [Next]_vars PROVE TypeOK'
    OBVIOUS
  <1> USE DEF TypeOK, disk
  <1>0. IsFiniteSet(At({"exec", "run"}))
    <2>1. At({"exec", "run"}) \subseteq Reqs
      BY DEF At
    <2> QED  BY <2>1, FS_Subset, ReqsAssumption
  <1>a. ASSUME NEW r \in Reqs, req[r].pc \in {"exec", "run"}
        PROVE  execSem - 1 \in 0..maxExecConcurrency
    <2>1. At({"exec", "run"}) # {}
      BY <1>a DEF At
    <2>2. Cardinality(At({"exec", "run"})) # 0
      BY <2>1, <1>0, FS_EmptySet
    <2> QED  BY <2>2, LimitsAssumption DEF SlotsMatch
  <1>1. ASSUME NEW r \in Reqs, NEW id \in Ids, handleCreate(r, id) PROVE TypeOK'
    <2>1. [req[r] EXCEPT !.pc = "create", !.id = id] \in Request
      BY ZenonT(60) DEF Request, PCs
    <2>2. req' = [req EXCEPT ![r] = [req[r] EXCEPT !.pc = "create", !.id = id]]
      BY <1>1 DEF handleCreate
    <2>3. req' \in [Reqs -> Request]
      BY <2>1, <2>2
    <2> QED  BY <1>1, <2>3 DEF handleCreate
  <1>2. ASSUME NEW r \in Reqs, NEW id \in Ids, handleDelete(r, id) PROVE TypeOK'
    <2>1. ASSUME NEW q \in Reqs
          PROVE  /\ [req[q] EXCEPT !.pc = "teardown", !.id = id] \in Request
                 /\ [req[q] EXCEPT !.held = "foreign"] \in Request
                 /\ req[q] \in Request
      BY DEF Request, PCs
    <2>2. req' \in [Reqs -> Request]
      BY <1>2, <2>1 DEF handleDelete
    <2> QED  BY <1>2, <2>2 DEF handleDelete
  <1>3. ASSUME NEW r \in Reqs, NEW id \in Ids, NEW op \in Ops \ {"rewrite"},
               acquire(r, id, op)
        PROVE  TypeOK'
    <2>1. execSem' \in 0..maxExecConcurrency
      BY <1>3, LimitsAssumption DEF acquire
    <2>2. op \in Ops /\ "exec" \in PCs
      BY <1>3 DEF PCs
    <2>3. req' \in [Reqs -> Request]
      BY <1>3, <2>2 DEF acquire, Request
    <2> QED  BY <1>3, <2>1, <2>3 DEF acquire
  <1>4. ASSUME NEW r \in Reqs, Create(r) PROVE TypeOK'
    BY <1>4, IdleType DEF Create, Done, Own, RemoveAll, Request, PCs
  <1>5. ASSUME NEW r \in Reqs, SetupDone(r) PROVE TypeOK'
    BY <1>5, IdleType DEF SetupDone, Done, RemoveAll, Request
  <1>6. ASSUME NEW r \in Reqs, Teardown(r) PROVE TypeOK'
    BY <1>6, IdleType DEF Teardown, Done, RemoveAll, Request
  <1>7. ASSUME NEW r \in Reqs, Lookup(r) PROVE TypeOK'
    BY <1>7, <1>a, IdleType DEF Lookup, release, Done, Request, PCs
  <1>8. ASSUME NEW r \in Reqs, Run(r) PROVE TypeOK'
    BY <1>8, <1>a, IdleType DEF Run, release, Done, Request, PCs, Ops
  <1>9. CASE Restart
    BY <1>9, IdleType, LimitsAssumption DEF Restart
  <1>10. CASE UNCHANGED vars
    BY <1>10 DEF vars
  <1> QED  BY <1>1, <1>2, <1>3, <1>4, <1>5, <1>6, <1>7, <1>8, <1>9, <1>10 DEF Next

-----------------------------------------------------------------------------
\* How many requests are at certain places after one of them moved.
LEMMA AtStep ==
    ASSUME TypeOK, TypeOK', NEW r \in Reqs, OnlyMoves(r), NEW P
    PROVE  /\ Cardinality(At(P)) \in Nat
           /\ Cardinality(At(P)) <= Cardinality(Reqs)
           /\ Cardinality(At(P)') \in Nat
           /\ Cardinality(At(P)') <= Cardinality(Reqs)
           /\ (req[r].pc \in P <=> req'[r].pc \in P) => At(P)' = At(P)
           /\ req[r].pc \in P /\ req'[r].pc \notin P =>
                  Cardinality(At(P)') = Cardinality(At(P)) - 1
           /\ req[r].pc \notin P /\ req'[r].pc \in P =>
                  Cardinality(At(P)') = Cardinality(At(P)) + 1
  <1>1. /\ IsFiniteSet(At(P)) /\ Cardinality(At(P)) \in Nat
        /\ Cardinality(At(P)) <= Cardinality(Reqs)
    <2>1. At(P) \subseteq Reqs
      BY DEF At
    <2> QED  BY <2>1, FS_Subset, FS_CardinalityType, ReqsAssumption
  <1>2. /\ Cardinality(At(P)') \in Nat
        /\ Cardinality(At(P)') <= Cardinality(Reqs)
    <2>1. At(P)' \subseteq Reqs
      BY DEF At
    <2> QED  BY <2>1, FS_Subset, FS_CardinalityType, ReqsAssumption
  <1>3. ASSUME req[r].pc \in P <=> req'[r].pc \in P PROVE At(P)' = At(P)
    BY <1>3 DEF At, OnlyMoves
  <1>4. ASSUME req[r].pc \in P, req'[r].pc \notin P
        PROVE  Cardinality(At(P)') = Cardinality(At(P)) - 1
    <2>1. At(P)' = At(P) \ {r} /\ r \in At(P)
      BY <1>4 DEF At, OnlyMoves
    <2> QED  BY <2>1, <1>1, FS_RemoveElement
  <1>5. ASSUME req[r].pc \notin P, req'[r].pc \in P
        PROVE  Cardinality(At(P)') = Cardinality(At(P)) + 1
    <2>1. At(P)' = At(P) \cup {r} /\ r \notin At(P)
      BY <1>5 DEF At, OnlyMoves
    <2> QED  BY <2>1, <1>1, FS_AddElement
  <1> QED  BY <1>1, <1>2, <1>3, <1>4, <1>5

\* What a step does to the requests, action by action: who moves, and where.
LEMMA Moves ==
    ASSUME TypeOK, NEW r \in Reqs
    PROVE  /\ \A id \in Ids : handleCreate(r, id) =>
                  OnlyMoves(r) /\ req[r].pc = "idle" /\ req'[r].pc = "create"
           /\ \A id \in Ids : handleDelete(r, id) =>
                  OnlyMoves(r) /\ req[r].pc = "idle" /\ req'[r].pc = "teardown"
           /\ \A id \in Ids, op \in Ops : acquire(r, id, op) =>
                  OnlyMoves(r) /\ req[r].pc = "idle" /\ req'[r].pc = "exec"
           /\ Create(r) =>
                  OnlyMoves(r) /\ req[r].pc = "create" /\ req'[r].pc \in {"idle", "setup"}
           /\ SetupDone(r) =>
                  OnlyMoves(r) /\ req[r].pc = "setup" /\ req'[r].pc = "idle"
           /\ Teardown(r) =>
                  OnlyMoves(r) /\ req[r].pc = "teardown" /\ req'[r].pc = "idle"
           /\ Lookup(r) =>
                  OnlyMoves(r) /\ req[r].pc = "exec" /\ req'[r].pc \in {"idle", "run"}
           /\ Run(r) =>
                  OnlyMoves(r) /\ req[r].pc = "run" /\ req'[r].pc \in {"idle", "exec"}
  <1> USE IdleType DEF OnlyMoves, TypeOK, Request
  <1>1. ASSUME NEW id \in Ids, handleCreate(r, id)
        PROVE  OnlyMoves(r) /\ req[r].pc = "idle" /\ req'[r].pc = "create"
    BY <1>1, SMTT(30) DEF handleCreate
  <1>2. ASSUME NEW id \in Ids, handleDelete(r, id)
        PROVE  OnlyMoves(r) /\ req[r].pc = "idle" /\ req'[r].pc = "teardown"
    BY <1>2, ZenonT(60) DEF handleDelete
  <1>3. ASSUME NEW id \in Ids, NEW op \in Ops, acquire(r, id, op)
        PROVE  OnlyMoves(r) /\ req[r].pc = "idle" /\ req'[r].pc = "exec"
    BY <1>3 DEF acquire
  <1>4. Create(r) =>
          OnlyMoves(r) /\ req[r].pc = "create" /\ req'[r].pc \in {"idle", "setup"}
    BY DEF Create, Done
  <1>5. SetupDone(r) => OnlyMoves(r) /\ req[r].pc = "setup" /\ req'[r].pc = "idle"
    BY DEF SetupDone, Done
  <1>6. Teardown(r) => OnlyMoves(r) /\ req[r].pc = "teardown" /\ req'[r].pc = "idle"
    BY DEF Teardown, Done
  <1>7. Lookup(r) =>
          OnlyMoves(r) /\ req[r].pc = "exec" /\ req'[r].pc \in {"idle", "run"}
    BY DEF Lookup, release, Done
  <1>8. Run(r) => OnlyMoves(r) /\ req[r].pc = "run" /\ req'[r].pc \in {"idle", "exec"}
    BY DEF Run, release, Done
  <1> QED  BY <1>1, <1>2, <1>3, <1>4, <1>5, <1>6, <1>7, <1>8

\* The next-state relation, one request's actions together.
ReqNext(r) ==
    \/ \E id \in Ids :
          \/ handleCreate(r, id) \/ handleDelete(r, id)
          \/ \E op \in Ops \ {"rewrite"} : acquire(r, id, op)
    \/ Create(r) \/ SetupDone(r) \/ Teardown(r) \/ Lookup(r) \/ Run(r)

\* Every action keeps the count of the slots (SlotsMatch of Adapter).
LEMMA SlotsStep == TypeOK /\ SlotsMatch /\ [Next]_vars => SlotsMatch'
  <1> SUFFICES ASSUME TypeOK, SlotsMatch, [Next]_vars PROVE SlotsMatch'
    OBVIOUS
  <1>0. TypeOK'
    BY TypeStep
  <1>1. ASSUME NEW r \in Reqs, ReqNext(r) PROVE SlotsMatch'
    <2> DEFINE P == {"exec", "run"}
    <2> USE DEF SlotsMatch
    <2>m. OnlyMoves(r)
      BY <1>1, Moves DEF ReqNext
    <2>a. /\ Cardinality(At(P)) \in Nat
          /\ (req[r].pc \in P <=> req'[r].pc \in P) => At(P)' = At(P)
          /\ req[r].pc \in P /\ req'[r].pc \notin P =>
                 Cardinality(At(P)') = Cardinality(At(P)) - 1
          /\ req[r].pc \notin P /\ req'[r].pc \in P =>
                 Cardinality(At(P)') = Cardinality(At(P)) + 1
      BY <1>0, <2>m, AtStep
    <2>1. ASSUME NEW id \in Ids, handleCreate(r, id) PROVE SlotsMatch'
      BY <2>1, <2>a, Moves DEF handleCreate
    <2>2. ASSUME NEW id \in Ids, handleDelete(r, id) PROVE SlotsMatch'
      BY <2>2, <2>a, Moves DEF handleDelete
    <2>3. ASSUME NEW id \in Ids, NEW op \in Ops, acquire(r, id, op) PROVE SlotsMatch'
      BY <2>3, <2>a, Moves DEF acquire
    <2>4. CASE Create(r)
      BY <2>4, <2>a, Moves DEF Create
    <2>5. CASE SetupDone(r)
      BY <2>5, <2>a, Moves DEF SetupDone
    <2>6. CASE Teardown(r)
      BY <2>6, <2>a, Moves DEF Teardown
    <2>7. CASE Lookup(r)
      <3>1. CASE req[r].id \in sandboxes
        BY <2>7, <3>1, <2>a DEF Lookup, TypeOK, Request
      <3>2. CASE req[r].id \notin sandboxes
        BY <2>7, <3>2, <2>a, IdleType DEF Lookup, release, Done, TypeOK
      <3> QED  BY <3>1, <3>2
    <2>8. CASE Run(r)
      <3>1. CASE release(r)
        BY <2>8, <3>1, <2>a, IdleType DEF Run, release, Done, TypeOK
      <3>2. CASE UNCHANGED execSem
             /\ req' = [req EXCEPT ![r].pc = "exec", ![r].op = "rewrite", ![r].held = "own"]
        BY <2>8, <3>2, <2>a DEF Run, TypeOK, Request
      <3> QED  BY <2>8, <3>1, <3>2 DEF Run
    <2> QED  BY <1>1, <2>1, <2>2, <2>3, <2>4, <2>5, <2>6, <2>7, <2>8 DEF ReqNext
  <1>2. CASE Restart
    <2>1. At({"exec", "run"})' = {}
      BY <1>2, IdleType DEF Restart, At
    <2> QED  BY <1>2, <2>1, FS_EmptySet DEF Restart, SlotsMatch
  <1>3. CASE UNCHANGED vars
    BY <1>3 DEF vars, SlotsMatch, At
  <1> QED  BY <1>1, <1>2, <1>3 DEF Next, ReqNext

\* Every action keeps the room for the creates in flight.
LEMMA RoomStep == TypeOK /\ TypeOK' /\ RoomInv /\ [Next]_vars => RoomInv'
  <1> SUFFICES ASSUME TypeOK, TypeOK', RoomInv, [Next]_vars PROVE RoomInv'
    OBVIOUS
  <1> DEFINE P == {"create", "setup"}
  <1> USE DEF RoomInv
  <1>n. Cardinality(Reqs) \in Nat /\ Cardinality(Reqs) > 0
    BY ReqsAssumption, FS_CardinalityType, FS_EmptySet
  <1>f. IsFiniteSet(sandboxes) /\ Cardinality(sandboxes) \in Nat
    BY ReqsAssumption, FS_Subset, FS_CardinalityType DEF TypeOK
  <1>a. ASSUME NEW id PROVE Cardinality(sandboxes \cup {id}) \in {Cardinality(sandboxes), Cardinality(sandboxes) + 1}
    BY <1>f, FS_AddElement
  <1>r. ASSUME NEW id PROVE Cardinality(sandboxes \ {id}) \in {Cardinality(sandboxes), Cardinality(sandboxes) - 1}
    BY <1>f, FS_RemoveElement
  <1>1. ASSUME NEW r \in Reqs, ReqNext(r) PROVE RoomInv'
    <2>m. OnlyMoves(r)
      BY <1>1, Moves DEF ReqNext
    <2>a. /\ Cardinality(At(P)) \in Nat
          /\ Cardinality(At(P)') \in Nat
          /\ Cardinality(At(P)') <= Cardinality(Reqs)
          /\ (req[r].pc \in P <=> req'[r].pc \in P) => At(P)' = At(P)
          /\ req[r].pc \in P /\ req'[r].pc \notin P =>
                 Cardinality(At(P)') = Cardinality(At(P)) - 1
      BY <2>m, AtStep
    <2>1. ASSUME NEW id \in Ids, handleCreate(r, id) PROVE RoomInv'
      <3>1. Cardinality(sandboxes) <= maxSandboxes - 1 /\ sandboxes' = sandboxes
        BY <2>1, <1>f, LimitsAssumption DEF handleCreate
      <3> HIDE DEF P
      <3>2. Cardinality(sandboxes) + Cardinality(At(P)') <= maxSandboxes + Cardinality(Reqs) - 1
        BY <3>1, <2>a, <1>n, <1>f, LimitsAssumption
      <3> QED  BY <3>1, <3>2 DEF P
    <2>2. ASSUME NEW id \in Ids, handleDelete(r, id) PROVE RoomInv'
      <3>1. sandboxes' = sandboxes \ {id}
        BY <2>2 DEF handleDelete
      <3>2. At(P)' = At(P)
        BY <2>2, <2>a, Moves
      <3>3. Cardinality(sandboxes') <= Cardinality(sandboxes) /\ Cardinality(sandboxes') \in Int
        <4>1. Cardinality(sandboxes \ {id}) \in {Cardinality(sandboxes), Cardinality(sandboxes) - 1}
          BY <1>r
        <4>2. Cardinality(sandboxes') = Cardinality(sandboxes \ {id})
          BY <3>1
        <4> QED  BY ONLY <4>1, <4>2, <1>f
      <3> QED  BY <3>2, <3>3, <2>a, <1>n, <1>f, LimitsAssumption
    <2>3. ASSUME NEW id \in Ids, NEW op \in Ops, acquire(r, id, op) PROVE RoomInv'
      BY <2>3, <2>a, Moves DEF acquire
    <2>4. CASE Create(r)
      <3>1. CASE req'[r].pc = "idle"
        <4>1. sandboxes' \in {sandboxes, sandboxes \cup {req[r].id}}
          BY <2>4 DEF Create
        <4>2. Cardinality(At(P)') = Cardinality(At(P)) - 1
          BY <2>4, <3>1, <2>a, Moves
        <4>3. Cardinality(sandboxes') <= Cardinality(sandboxes) + 1 /\ Cardinality(sandboxes') \in Nat
          <5>1. Cardinality(sandboxes \cup {req[r].id}) \in {Cardinality(sandboxes), Cardinality(sandboxes) + 1}
            BY <1>a
          <5>2. CASE sandboxes' = sandboxes
            BY <5>2, <1>f
          <5>3. CASE sandboxes' = sandboxes \cup {req[r].id}
            BY <5>1, <5>3, <1>f
          <5> QED  BY <4>1, <5>2, <5>3
        <4> HIDE DEF P
        <4>4. Cardinality(sandboxes') + Cardinality(At(P)') <= Cardinality(sandboxes) + Cardinality(At(P))
          BY <4>2, <4>3, <2>a, <1>f
        <4> QED  BY <4>4, <4>3, <2>a, <1>n, <1>f, LimitsAssumption DEF P
      <3>2. CASE req'[r].pc = "setup"
        <4>1. sandboxes' = sandboxes
          BY <2>4, <3>2, IdleType DEF Create, Done, TypeOK
        <4> QED  BY <2>4, <3>2, <4>1, <2>a, Moves
      <3> QED  BY <2>4, <3>1, <3>2, Moves
    <2>5. CASE SetupDone(r)
      <3>1. sandboxes' \in {sandboxes, sandboxes \cup {req[r].id}}
        BY <2>5 DEF SetupDone
      <3>2. Cardinality(At(P)') = Cardinality(At(P)) - 1
        BY <2>5, <2>a, Moves
      <3>3. Cardinality(sandboxes') <= Cardinality(sandboxes) + 1 /\ Cardinality(sandboxes') \in Nat
        <4>1. Cardinality(sandboxes \cup {req[r].id}) \in {Cardinality(sandboxes), Cardinality(sandboxes) + 1}
          BY <1>a
        <4>2. CASE sandboxes' = sandboxes
          BY <4>2, <1>f
        <4>3. CASE sandboxes' = sandboxes \cup {req[r].id}
          BY <4>1, <4>3, <1>f
        <4> QED  BY <3>1, <4>2, <4>3
      <3> HIDE DEF P
      <3>4. Cardinality(sandboxes') + Cardinality(At(P)') <= Cardinality(sandboxes) + Cardinality(At(P))
        BY <3>2, <3>3, <2>a, <1>f
      <3> QED  BY <3>4, <3>3, <2>a, <1>n, <1>f, LimitsAssumption DEF P
    <2>6. CASE Teardown(r)
      BY <2>6, <2>a, Moves DEF Teardown
    <2>7. CASE Lookup(r)
      BY <2>7, <2>a, Moves DEF Lookup
    <2>8. CASE Run(r)
      BY <2>8, <2>a, Moves DEF Run
    <2> QED  BY <1>1, <2>1, <2>2, <2>3, <2>4, <2>5, <2>6, <2>7, <2>8 DEF ReqNext
  <1>2. CASE Restart
    <2>1. At(P)' = {} /\ sandboxes' = {}
      BY <1>2, IdleType DEF Restart, At
    <2>2. Cardinality(At(P)') = 0 /\ Cardinality(sandboxes') = 0
      BY <2>1, FS_EmptySet
    <2> HIDE DEF P
    <2> QED  BY <2>2, <1>n, LimitsAssumption DEF P
  <1>3. CASE UNCHANGED vars
    BY <1>3 DEF vars, At
  <1> QED  BY <1>1, <1>2, <1>3 DEF Next, ReqNext

\* Every action keeps the directories owned (DirsAreOwned of Adapter).
LEMMA DirsStep == TypeOK /\ DirsAreOwned /\ [Next]_vars => DirsAreOwned'
  <1> SUFFICES ASSUME TypeOK, DirsAreOwned, [Next]_vars PROVE DirsAreOwned'
    OBVIOUS
  <1> USE IdleType DEF DirsAreOwned, TypeOK, At, disk
  <1>1. ASSUME NEW r \in Reqs, NEW id \in Ids, handleCreate(r, id) PROVE DirsAreOwned'
    BY <1>1 DEF handleCreate, Request
  <1>2. ASSUME NEW r \in Reqs, NEW id \in Ids, handleDelete(r, id) PROVE DirsAreOwned'
    <2>1. /\ \A q \in Reqs \ {r} : req'[q].pc = req[q].pc /\ req'[q].id = req[q].id
          /\ req[r].pc = "idle" /\ req'[r].pc = "teardown" /\ req'[r].id = id
          /\ sandboxes' = sandboxes \ {id} /\ dirs' = dirs /\ leftover' = leftover
      BY <1>2 DEF handleDelete, Request
    <2>2. SUFFICES ASSUME NEW i \in dirs \ (sandboxes' \cup leftover)
                   PROVE  \E q \in Reqs : req'[q].pc \in {"setup", "teardown"} /\ req'[q].id = i
      BY <2>1
    <2>3. CASE i = id
      BY <2>1, <2>3
    <2>4. CASE i # id
      <3>1. PICK q \in Reqs : req[q].pc \in {"setup", "teardown"} /\ req[q].id = i
        BY <2>1, <2>4
      <3> QED  BY <2>1, <3>1
    <2> QED  BY <2>3, <2>4
  <1>3. ASSUME NEW r \in Reqs, NEW id \in Ids, NEW op \in Ops, acquire(r, id, op)
        PROVE  DirsAreOwned'
    BY <1>3 DEF acquire, Request
  <1>4. ASSUME NEW r \in Reqs, Create(r) PROVE DirsAreOwned'
    BY <1>4 DEF Create, Done, Own, RemoveAll, Request
  <1>5. ASSUME NEW r \in Reqs, SetupDone(r) PROVE DirsAreOwned'
    BY <1>5 DEF SetupDone, Done, RemoveAll, Request
  <1>6. ASSUME NEW r \in Reqs, Teardown(r) PROVE DirsAreOwned'
    BY <1>6 DEF Teardown, Done, RemoveAll, Request
  <1>7. ASSUME NEW r \in Reqs, Lookup(r) PROVE DirsAreOwned'
    BY <1>7 DEF Lookup, release, Done, Request
  <1>8. ASSUME NEW r \in Reqs, Run(r) PROVE DirsAreOwned'
    BY <1>8 DEF Run, release, Done, Request
  <1>9. CASE Restart
    BY <1>9 DEF Restart
  <1>10. CASE UNCHANGED vars
    BY <1>10 DEF vars
  <1> QED  BY <1>1, <1>2, <1>3, <1>4, <1>5, <1>6, <1>7, <1>8, <1>9, <1>10 DEF Next

\* Every action keeps AloneInv: the others that change a sandbox change another.
LEMMA AloneStep == TypeOK /\ AloneInv /\ [Next]_vars => AloneInv'
  <1> SUFFICES ASSUME TypeOK, AloneInv, [Next]_vars PROVE AloneInv'
    OBVIOUS
  <1> USE IdleType DEF AloneInv, WorkspaceThere, Changing, TypeOK, At, disk
  <1>1. ASSUME NEW r \in Reqs, NEW id \in Ids, handleCreate(r, id) PROVE AloneInv'
    BY <1>1 DEF handleCreate, MayStart, Request
  <1>2. ASSUME NEW r \in Reqs, NEW id \in Ids, handleDelete(r, id) PROVE AloneInv'
    BY <1>2 DEF handleDelete, MayStart, Request
  <1>3. ASSUME NEW r \in Reqs, NEW id \in Ids, NEW op \in Ops, acquire(r, id, op)
        PROVE  AloneInv'
    BY <1>3 DEF acquire, Request
  <1>4. ASSUME NEW r \in Reqs, Create(r) PROVE AloneInv'
    BY <1>4 DEF Create, Done, Own, RemoveAll, Request
  <1>5. ASSUME NEW r \in Reqs, SetupDone(r) PROVE AloneInv'
    BY <1>5 DEF SetupDone, Done, RemoveAll, Request
  <1>6. ASSUME NEW r \in Reqs, Teardown(r) PROVE AloneInv'
    BY <1>6 DEF Teardown, Done, RemoveAll, Request
  <1>7. ASSUME NEW r \in Reqs, Lookup(r) PROVE AloneInv'
    BY <1>7 DEF Lookup, release, Done, Request
  <1>8. ASSUME NEW r \in Reqs, Run(r) PROVE AloneInv'
    BY <1>8 DEF Run, release, Done, Request
  <1>9. CASE Restart
    BY <1>9 DEF Restart
  <1>10. CASE UNCHANGED vars
    BY <1>10 DEF vars
  <1> QED  BY <1>1, <1>2, <1>3, <1>4, <1>5, <1>6, <1>7, <1>8, <1>9, <1>10 DEF Next

-----------------------------------------------------------------------------
\* The inductive invariant holds at the start, with nothing in flight.
LEMMA InitInv == Init => IInv
  <1> SUFFICES ASSUME Init PROVE IInv
    OBVIOUS
  <1> USE IdleType DEF Init
  <1>1. TypeOK
    BY LimitsAssumption DEF TypeOK
  <1>2. \A P : "idle" \notin P => At(P) = {}
    BY DEF At
  <1>3. At({"exec", "run"}) = {} /\ At({"create", "setup"}) = {}
    BY <1>2
  <1>4. Cardinality(Reqs) \in Nat /\ Cardinality(Reqs) > 0
    BY ReqsAssumption, FS_CardinalityType, FS_EmptySet
  <1>5. SlotsMatch
    BY <1>3, FS_EmptySet DEF SlotsMatch
  <1>6. RoomInv
    <2>1. Cardinality(sandboxes) = 0 /\ Cardinality(At({"create", "setup"})) = 0
      BY <1>3, FS_EmptySet
    <2> QED  BY <2>1, <1>4, LimitsAssumption DEF RoomInv
  <1>7. DirsAreOwned /\ AloneInv
    BY DEF DirsAreOwned, AloneInv, WorkspaceThere, Changing, At
  <1> QED  BY <1>1, <1>5, <1>6, <1>7 DEF IInv

\* IInv is an invariant of the controller.
THEOREM Invariance == Spec => []IInv
  <1>1. IInv /\ [Next]_vars => IInv'
    BY TypeStep, SlotsStep, RoomStep, DirsStep, AloneStep DEF IInv
  <1> QED  BY InitInv, <1>1, PTL DEF Spec

\* Types of all variables; in particular the semaphore stays within its limit.
THEOREM TypeCorrect == Spec => []TypeOK
  BY Invariance, PTL DEF IInv

\* The slots of the exec semaphore are those of the execs in flight.
THEOREM SlotAccounting == Spec => []SlotsMatch
  BY Invariance, PTL DEF IInv

\* No directory is without an owner, even when Create and Delete overlap, but for
\* those that a restart, a failed MkdirAll or a failed RemoveAll has left.
THEOREM NoLeakedDirs == Spec => []DirsAreOwned
  BY Invariance, PTL DEF IInv

\* N requests in flight exceed the limit on sandboxes by at most N - 1.
THEOREM LimitOvershoot == Spec => []OvershootBounded
  <1>1. IInv => OvershootBounded
    <2> SUFFICES ASSUME IInv PROVE OvershootBounded
      OBVIOUS
    <2>1. Cardinality(sandboxes) \in Nat /\ Cardinality(Reqs) \in Nat
      BY ReqsAssumption, FS_Subset, FS_CardinalityType DEF IInv, TypeOK
    <2>2. At({"create", "setup"}) \subseteq Reqs
      BY DEF At
    <2>3. Cardinality(At({"create", "setup"})) \in Nat
      BY <2>2, ReqsAssumption, FS_Subset, FS_CardinalityType
    <2> QED  BY <2>1, <2>3, LimitsAssumption DEF IInv, RoomInv, OvershootBounded
  <1> QED  BY Invariance, <1>1, PTL

\* A registered sandbox keeps its workspace as long as the operator waits for
\* each answer before it sends the next request for the same name.
THEOREM WorkspacesStay == Spec => []WorkspaceThere
  <1>1. IInv => WorkspaceThere
    BY DEF IInv, AloneInv
  <1> QED  BY Invariance, <1>1, PTL

-----------------------------------------------------------------------------
\* The output of one exec.

\* The limitWriter holds what was copied, up to the limit; only output over the
\* limit ends the copy with an error.
Kept ==
    /\ copied \in 0..out.len
    /\ buf = IF MaxOutputBytes = 0 THEN copied ELSE Smaller(copied, MaxOutputBytes)
    /\ copyErr => MaxOutputBytes > 0 /\ copied > MaxOutputBytes

\* What an answer was made of is settled.
Settled ==
    resp # NoAnswer => proc # "running" /\ (copied = out.len \/ copyErr)

OutputInv ==
    OutputTypeOK /\ 0 \in out.cuts /\ Kept /\ Settled /\ CutsAreNoticed /\ TextStaysText

Answers == [code : {0, 200, 400, 500}, len : 0..MaxLen, notice : BOOLEAN]

LEMMA AnswersTyped ==
    /\ NoAnswer \in Answers
    /\ \A l \in 0..MaxLen, b \in BOOLEAN : Answer(200, l, b) \in Answers
BY LimitAssumption DEF NoAnswer, Answer, Answers

\* One write: what limitWriter stores keeps buf the smaller of copied and limit.
LEMMA CopyStep == ASSUME OutputInv, NEW n \in 1..MaxChunk, Copy(n) PROVE OutputInv'
  <1> USE LimitAssumption
  <1>1. /\ resp = NoAnswer /\ ~copyErr /\ n \in 1..Smaller(MaxChunk, out.len - copied)
        /\ copied' = copied + n /\ buf' = buf + Stored(n)
        /\ copyErr' = (Returned(n) < n)
        /\ UNCHANGED <<handler, out, proc, resp>>
    BY DEF Copy
  <1>2. /\ copied \in Nat /\ out.len \in 0..MaxLen /\ buf \in Nat /\ n \in Nat
        /\ copied + n <= out.len
    <2>1. out.len \in 0..MaxLen /\ copied \in 0..out.len
      BY DEF OutputInv, OutputTypeOK, Kept
    <2>2. buf \in Nat
      BY <2>1 DEF OutputInv, Kept, Smaller
    <2> QED BY <1>1, <2>1, <2>2 DEF Smaller
  <1>3. buf = IF MaxOutputBytes = 0 THEN copied ELSE Smaller(copied, MaxOutputBytes)
    BY DEF OutputInv, Kept
  <1>4. buf' = IF MaxOutputBytes = 0 THEN copied' ELSE Smaller(copied', MaxOutputBytes)
    BY <1>1, <1>2, <1>3 DEF Stored, Remaining, Smaller
  <1>5. copyErr' => MaxOutputBytes > 0 /\ copied' > MaxOutputBytes
    <2>1. copyErr' <=> Returned(n) < n
      BY <1>1, Zenon
    <2>2. Returned(n) < n => MaxOutputBytes > 0 /\ copied + n > MaxOutputBytes
      BY <1>2, <1>3 DEF Returned, Stored, Remaining, Smaller
    <2> QED BY <1>1, <2>1, <2>2
  <1>6. Kept'
    BY <1>1, <1>2, <1>4, <1>5 DEF Kept
  <1>7. OutputTypeOK'
    <2>1. copied' \in 0..MaxLen
      BY <1>1, <1>2
    <2>2. buf' \in 0..(IF MaxOutputBytes = 0 THEN MaxLen ELSE Smaller(MaxOutputBytes, MaxLen))
      BY <1>4, <2>1 DEF Smaller
    <2>3. copyErr' \in BOOLEAN
      BY <1>1
    <2> QED BY <1>1, <2>1, <2>2, <2>3 DEF OutputInv, OutputTypeOK
  <1>8. Settled' /\ TextStaysText'
    BY <1>1 DEF Settled, TextStaysText, NoAnswer, Answer
  <1>9. CutsAreNoticed'
    BY <1>1 DEF CutsAreNoticed, NoAnswer, Answer
  <1> QED BY <1>1, <1>6, <1>7, <1>8, <1>9 DEF OutputInv

\* The cut of trimPartialRune: at most three bytes go, and of text so many that
\* whole runes are left.
LEMMA TrimmedToText ==
    ASSUME OutputInv, IsText(out), NEW n \in 1..out.len
    PROVE  trimPartialRune(n) \in out.cuts
  <1> DEFINE tries == {k \in 0..3 : k <= n /\ (k = 3 \/ k = n \/ n - k \in out.cuts)}
             least == CHOOSE k \in tries : \A j \in tries : k <= j
  <1>0. out.len \in Nat /\ n \in Nat /\ out.cuts \subseteq Int /\ 0 \in out.cuts
    BY LimitAssumption DEF OutputInv, OutputTypeOK
  <1>1. PICK c \in out.cuts : n \in c..(c + 3)
    BY DEF IsText, UTFMax
  <1>2. c \in Nat /\ n - c \in 0..3
    BY <1>0, <1>1 DEF OutputInv, OutputTypeOK
  <1>3. n - c \in tries
    BY <1>0, <1>1, <1>2
  <1>4. \E k \in tries : \A j \in tries : k <= j
    <2>1. tries \subseteq 0..3 /\ tries # {}
      BY <1>3
    <2> HIDE DEF tries
    <2>2. CASE 0 \in tries
      BY <2>1, <2>2
    <2>3. CASE 0 \notin tries /\ 1 \in tries
      BY <2>1, <2>3
    <2>4. CASE 0 \notin tries /\ 1 \notin tries /\ 2 \in tries
      BY <2>1, <2>4
    <2>5. CASE 0 \notin tries /\ 1 \notin tries /\ 2 \notin tries
      <3>1. \A j \in tries : j = 3
        <4> TAKE j \in tries
        <4>1. j \in 0..3 /\ j # 0 /\ j # 1 /\ j # 2
          BY <2>1, <2>5
        <4> QED BY <4>1
      <3>2. 3 \in tries
        BY <2>1, <3>1
      <3> QED BY <3>1, <3>2
    <2> QED BY <2>2, <2>3, <2>4, <2>5
  <1>5. least \in tries /\ \A j \in tries : least <= j
    <2> HIDE DEF tries
    <2> QED BY <1>4
  <1>6. least <= n - c
    BY <1>3, <1>5
  <1>7. n - least \in out.cuts
    <2> HIDE DEF least
    <2>1. least \in 0..3 /\ (least = 3 \/ least = n \/ n - least \in out.cuts)
      BY <1>5
    <2>2. CASE least = 3
      <3>1. n - c = 3 /\ n - least = c
        BY <1>0, <1>2, <1>6, <2>2
      <3> QED BY <1>1, <3>1
    <2>3. CASE least = n
      BY <1>0, <2>3
    <2> QED BY <2>1, <2>2, <2>3
  <1>8. trimPartialRune(n) = n - least
    BY DEF trimPartialRune, UTFMax
  <1> QED BY <1>7, <1>8

\* The answer: nothing but a whole file passes for one, and text for text.
LEMMA RespondStep == ASSUME OutputInv, Respond PROVE OutputInv'
  <1> USE LimitAssumption
  <1>1. PICK late \in BOOLEAN :
          /\ resp = NoAnswer /\ proc # "running" /\ (copied = out.len \/ copyErr)
          /\ UNCHANGED <<handler, out, copied, buf, copyErr, proc>>
          /\ resp' = CASE handler = "exec" -> ExecAnswer(late)
                       [] handler = "read" -> ReadAnswer(late)
                       [] handler = "edit" -> EditAnswer(late)
    BY DEF Respond
  <1>2. /\ out.len \in 0..MaxLen /\ copied \in 0..out.len /\ copyErr \in BOOLEAN
        /\ out.cuts \subseteq 0..MaxLen /\ handler \in {"exec", "read", "edit"}
        /\ proc \in {"running", "ok", "failed"}
    BY DEF OutputInv, OutputTypeOK, Kept
  <1>3. buf \in 0..copied /\ Output \in 0..buf
    BY <1>2 DEF OutputInv, Kept, Smaller, Output
  <1>4. ExitZero => ~copyErr /\ copied = out.len /\ Output = buf /\ \A l : ~NsjailError(l)
    BY <1>1 DEF ExitZero, RunErr, Output, NsjailError
  <1>5. ExitZero /\ ~Truncated(Output) => Output = out.len
    BY <1>2, <1>4 DEF OutputInv, Kept, Smaller, Truncated
  <1>6. Truncated(Output) => Output \in 1..out.len
    BY <1>2, <1>3 DEF Truncated
  <1> DEFINE n == IF Truncated(Output) THEN trimPartialRune(Output) ELSE Output
  <1>a. NsjailError(late) => ~ExitZero
    BY DEF NsjailError, ExitZero
  <1>7. ReadAnswer(late) \in {Answer(500, 0, FALSE), Answer(400, 0, FALSE)}
          \/ (ExitZero /\ n \in out.cuts /\ ReadAnswer(late) = Answer(200, n, Truncated(Output)))
    <2>0. ReadAnswer(late) = CASE NsjailError(late) -> Answer(500, 0, FALSE)
                               [] ExitZero /\ n \in out.cuts -> Answer(200, n, Truncated(Output))
                               [] OTHER -> Answer(400, 0, FALSE)
      BY DEF ReadAnswer
    <2> HIDE DEF n
    <2>1. CASE NsjailError(late)
      BY <1>a, <2>0, <2>1
    <2>2. CASE ~NsjailError(late) /\ ExitZero /\ n \in out.cuts
      BY <2>0, <2>2
    <2>3. CASE ~NsjailError(late) /\ ~(ExitZero /\ n \in out.cuts)
      BY <2>0, <2>3
    <2> QED BY <2>1, <2>2, <2>3
  <1>8. EditAnswer(late) \in {Answer(500, 0, FALSE), Answer(400, 0, FALSE)}
          \/ (ExitZero /\ ~Truncated(Output) /\ EditAnswer(late) = Answer(200, Output, FALSE))
    <2>0. EditAnswer(late) = CASE NsjailError(late) -> Answer(500, 0, FALSE)
                               [] ExitZero /\ ~Truncated(Output) -> Answer(200, Output, FALSE)
                               [] OTHER -> Answer(400, 0, FALSE)
      BY DEF EditAnswer
    <2>1. CASE NsjailError(late)
      BY <1>a, <2>0, <2>1
    <2>2. CASE ~NsjailError(late) /\ ExitZero /\ ~Truncated(Output)
      BY <2>0, <2>2
    <2>3. CASE ~NsjailError(late) /\ ~(ExitZero /\ ~Truncated(Output))
      BY <2>0, <2>3
    <2> QED BY <2>1, <2>2, <2>3
  <1>9. ExecAnswer(late) = Answer(500, 0, FALSE)
          \/ \E l \in 0..MaxLen, b \in BOOLEAN : ExecAnswer(late) = Answer(200, l, b)
    <2>1. truncateOutput(Output).len \in 0..MaxLen /\ truncateOutput(Output).notice \in BOOLEAN
      BY <1>2, <1>3 DEF truncateOutput
    <2> QED BY <2>1 DEF ExecAnswer
  <1>10. Truncated(Output) \in BOOLEAN
    BY DEF Truncated
  <1>11. OutputTypeOK'
    <2>1. resp' \in Answers
      <3>1. 0 \in 0..MaxLen /\ Output \in 0..MaxLen
        BY <1>2, <1>3
      <3>2. ASSUME resp' \in {Answer(500, 0, FALSE), Answer(400, 0, FALSE)}
            PROVE  resp' \in Answers
        <4>1. resp' = Answer(500, 0, FALSE) \/ resp' = Answer(400, 0, FALSE)
          BY <3>2
        <4>2. CASE resp' = Answer(500, 0, FALSE)
          BY <3>1, <4>2 DEF Answer, Answers
        <4>3. CASE resp' = Answer(400, 0, FALSE)
          BY <3>1, <4>3 DEF Answer, Answers
        <4> QED BY <4>1, <4>2, <4>3, Zenon
      <3>3. CASE handler = "exec"
        <4>1. resp' = ExecAnswer(late)
          BY <1>1, <3>3
        <4>2. CASE ExecAnswer(late) = Answer(500, 0, FALSE)
          <5>1. resp' \in {Answer(500, 0, FALSE), Answer(400, 0, FALSE)}
            BY <4>1, <4>2
          <5> QED BY <3>2, <5>1, Zenon
        <4>3. ASSUME NEW l \in 0..MaxLen, NEW b \in BOOLEAN, ExecAnswer(late) = Answer(200, l, b)
              PROVE  resp' \in Answers
          BY <4>1, <4>3, AnswersTyped, Zenon
        <4> QED BY <1>9, <4>2, <4>3, Zenon
      <3>4. CASE handler = "read"
        <4> HIDE DEF n
        <4>1. resp' = ReadAnswer(late)
          BY <1>1, <3>4
        <4>2. CASE ReadAnswer(late) \in {Answer(500, 0, FALSE), Answer(400, 0, FALSE)}
          BY <3>2, <4>1, <4>2, Zenon
        <4>3. CASE n \in out.cuts /\ ReadAnswer(late) = Answer(200, n, Truncated(Output))
          <5>1. n \in 0..MaxLen
            BY <1>2, <4>3
          <5> QED BY <1>10, <4>1, <4>3, <5>1, AnswersTyped, Zenon
        <4> QED BY <1>7, <4>2, <4>3, Zenon
      <3>5. CASE handler = "edit"
        <4>1. resp' = EditAnswer(late)
          BY <1>1, <3>5
        <4>2. CASE EditAnswer(late) \in {Answer(500, 0, FALSE), Answer(400, 0, FALSE)}
          BY <3>2, <4>1, <4>2, Zenon
        <4>3. CASE EditAnswer(late) = Answer(200, Output, FALSE)
          <5>1. FALSE \in BOOLEAN
            OBVIOUS
          <5> QED BY <3>1, <4>1, <4>3, <5>1, AnswersTyped, Zenon
        <4> QED BY <1>8, <4>2, <4>3, Zenon
      <3> QED BY <1>2, <3>3, <3>4, <3>5
    <2> QED BY <1>1, <2>1 DEF OutputInv, OutputTypeOK, Answers
  <1>12. CutsAreNoticed'
    <2>1. CASE handler = "exec"
      BY <1>1, <2>1 DEF CutsAreNoticed
    <2>2. CASE handler = "read"
      <3>1. resp' = ReadAnswer(late)
        BY <1>1, <2>2
      <3>2. CASE resp' \in {Answer(500, 0, FALSE), Answer(400, 0, FALSE)}
        BY <3>2 DEF CutsAreNoticed, Answer
      <3>3. CASE ExitZero /\ resp' = Answer(200, n, Truncated(Output))
        <4>1. ~Truncated(Output) => n = out.len
          BY <1>5, <3>3
        <4>2. resp'.len = n /\ resp'.notice = Truncated(Output)
          BY <3>3 DEF Answer
        <4> HIDE DEF n
        <4> QED BY <1>1, <1>2, <2>2, <4>1, <4>2 DEF CutsAreNoticed
      <3> QED BY <1>7, <3>1, <3>2, <3>3
    <2>3. CASE handler = "edit"
      <3>1. resp' = EditAnswer(late)
        BY <1>1, <2>3
      <3> QED BY <1>1, <1>2, <1>5, <1>8, <3>1 DEF CutsAreNoticed, Answer
    <2> QED BY <1>2, <2>1, <2>2, <2>3
  <1>13. TextStaysText'
    <2> SUFFICES ASSUME handler = "read", IsText(out), ExitZero PROVE resp'.code = 200
      BY <1>1 DEF TextStaysText, ExitZero, RunErr, IsText
    <2>1. n \in out.cuts
      <3>1. CASE Truncated(Output)
        BY <1>6, <3>1, TrimmedToText
      <3>2. CASE ~Truncated(Output)
        BY <1>5, <3>2 DEF IsText
      <3> QED BY <3>1, <3>2
    <2>2. ReadAnswer(late) = Answer(200, n, Truncated(Output))
      BY <1>4, <2>1 DEF ReadAnswer
    <2> QED BY <1>1, <2>2 DEF Answer
  <1>14. Kept' /\ Settled' /\ (0 \in out.cuts)'
    BY <1>1 DEF OutputInv, Kept, Settled
  <1> QED BY <1>11, <1>12, <1>13, <1>14 DEF OutputInv

\* The process ends; its answer is still to come.
LEMMA ProcExitStep ==
    ASSUME OutputInv, NEW status \in {"ok", "failed"}, ProcExit(status) PROVE OutputInv'
  <1>1. /\ proc = "running" /\ proc' = status
        /\ UNCHANGED <<handler, out, copied, buf, copyErr, resp>>
    BY DEF ProcExit
  <1>2. resp = NoAnswer
    BY <1>1 DEF OutputInv, Settled
  <1>3. OutputTypeOK' /\ Kept'
    BY <1>1 DEF OutputInv, OutputTypeOK, Kept
  <1>4. Settled' /\ TextStaysText'
    BY <1>1, <1>2 DEF Settled, TextStaysText, NoAnswer, Answer
  <1>5. CutsAreNoticed'
    BY <1>1 DEF OutputInv, CutsAreNoticed
  <1> QED BY <1>1, <1>3, <1>4, <1>5 DEF OutputInv

LEMMA OutputInitInv == OutputInit => OutputInv
  <1> SUFFICES ASSUME OutputInit PROVE OutputInv
    OBVIOUS
  <1>1. PICK len \in 0..MaxLen : \E cuts \in Cuts(len) : out = [len |-> len, cuts |-> cuts]
    BY DEF OutputInit
  <1>2. PICK cuts \in Cuts(len) : out = [len |-> len, cuts |-> cuts]
    BY <1>1
  <1>3. out.len = len /\ out.cuts = cuts /\ 0 \in cuts /\ cuts \subseteq 0..MaxLen
    BY <1>2, LimitAssumption DEF Cuts
  <1>4. out \in [len : 0..MaxLen, cuts : SUBSET (0..MaxLen)]
    BY <1>2, <1>3
  <1>5. OutputTypeOK
    <2>2. 0 \in 0..(IF MaxOutputBytes = 0 THEN MaxLen ELSE Smaller(MaxOutputBytes, MaxLen))
      BY LimitAssumption DEF Smaller
    <2>3. /\ handler \in {"exec", "read", "edit"} /\ copied = 0 /\ buf = 0
          /\ copyErr = FALSE /\ proc = "running" /\ resp = NoAnswer
      BY DEF OutputInit
    <2>4. copied \in 0..MaxLen
      BY <2>3, LimitAssumption
    <2>5. resp \in Answers
      BY <2>3, AnswersTyped, Zenon
    <2>6. copyErr \in BOOLEAN
      BY <2>3, Zenon
    <2> QED BY <1>4, <2>2, <2>3, <2>4, <2>5, <2>6, Zenon DEF OutputTypeOK, Answers
  <1>6. Kept
    BY <1>3, LimitAssumption DEF OutputInit, Kept, Smaller
  <1>7. Settled /\ CutsAreNoticed /\ TextStaysText
    BY DEF OutputInit, Settled, CutsAreNoticed, TextStaysText, NoAnswer, Answer
  <1> QED BY <1>3, <1>5, <1>6, <1>7 DEF OutputInv

\* OutputInv is an invariant of an exec's output.
THEOREM OutputInvariance == OutputSpec => []OutputInv
  <1>1. OutputInv /\ [OutputNext]_outputVars => OutputInv'
    <2> SUFFICES ASSUME OutputInv, [OutputNext]_outputVars PROVE OutputInv'
      OBVIOUS
    <2>1. CASE UNCHANGED outputVars
      BY <2>1 DEF OutputInv, outputVars, OutputTypeOK, Kept, Settled, CutsAreNoticed,
                  TextStaysText, ExitZero, RunErr, IsText
    <2> QED BY <2>1, CopyStep, RespondStep, ProcExitStep DEF OutputNext
  <1> QED BY OutputInitInv, <1>1, PTL DEF OutputSpec

\* However the pipe splits the output into chunks and wherever the limit falls,
\* ReadFile reports every cut and EditFile never writes back part of a file.
THEOREM EveryCutIsNoticed == OutputSpec => []CutsAreNoticed
  BY OutputInvariance, PTL DEF OutputInv

\* handleFileRead returns every text file as text, wherever the limit cuts it:
\* the three bytes trimPartialRune may drop are always enough.
THEOREM TextIsReturnedAsText == OutputSpec => []TextStaysText
  BY OutputInvariance, PTL DEF OutputInv

\* limitWriter never holds more than the limit.
THEOREM OutputIsBounded == OutputSpec => []OutputTypeOK
  BY OutputInvariance, PTL DEF OutputInv
=============================================================================
