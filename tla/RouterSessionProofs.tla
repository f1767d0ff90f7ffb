------------------------ MODULE RouterSessionProofs ------------------------
(***************************************************************************)
(* Proofs about RouterSession for any requests, configs, controllers,      *)
(* limits and number of sessions.                                          *)
(***************************************************************************)
EXTENDS RouterSession, FiniteSetTheorems, TLAPS

USE ReqsAssumption, ConfigsAssumption, KindsAssumption, PodsAssumption, LimitsAssumption

\* The types of everything but the semaphore, whose bounds depend on SlotsMatch.
DataType ==
    /\ sess \in Session /\ cache \in Session /\ born \in 0..MaxGen
    /\ confs \in [Configs -> {"none", "live", "going"}]
    /\ confCache \in [Configs -> {"none", "live", "going"}]
    /\ assigned \in 0..MaxGen /\ box \in [Pods -> Box] /\ stuck \subseteq Pods \X (0..MaxGen)
    /\ req \in [Reqs -> Request]

Holders == {r \in Reqs : Holds(r)}
SlotInv == sem \in 0..MaxConcurrency /\ SlotsMatch

\* What any copy of a session, however old, says about the controllers, given
\* the number n of sessions created, the last one assigned, a, and the
\* sandboxes b: a copy that shows Running is never of a later session than the
\* sandbox of the controller it names, unless that one was created late.
Fits(b, n) == b = NoBox \/ b.gen >= n \/ b.late
Ok(s, n, a, b) ==
    /\ s.gen <= n
    /\ s.phase = "Running" => /\ s.pod \in Pods /\ s.gen <= a
                              /\ Fits(b[s.pod], s.gen)
StoreInv == /\ sess.gen \in {0, born} /\ (sess.gen = 0 => sess = NoSession)
            /\ assigned <= born
            /\ sess.phase = "Creating" => sess.pod \in Pods /\ assigned = sess.gen
            /\ Ok(sess, born, assigned, box) /\ Ok(cache, born, assigned, box)
CopyInv == \A r \in Reqs : Ok(req[r].copy, born, assigned, box)
ExecInv == \A r \in Reqs : /\ req[r].pc = "exec" => req[r].copy.phase = "Running"
                           /\ req[r].pc = "delete" => req[r].copy.phase = "Terminated"
IInv == DataType /\ SlotInv /\ StoreInv /\ CopyInv /\ ExecInv

-----------------------------------------------------------------------------
(* What a step of request r does to the slots.                             *)

Alone(r) == \A q \in Reqs \ {r} : req'[q] = req[q]
Ends(r) == ~Holds(r)' /\ sem' = IF Holds(r) THEN sem - 1 ELSE sem
Keeps(r) == (Holds(r)' <=> Holds(r)) /\ sem' = sem
Takes(r) == ~Holds(r) /\ Holds(r)' /\ sem # MaxConcurrency /\ sem' = sem + 1

LEMMA HoldersFinite == IsFiniteSet(Holders) /\ Cardinality(Holders) \in Nat
  BY FS_Subset, FS_CardinalityType DEF Holders

\* Whatever a step does to the slots, it does to the semaphore.
LEMMA SlotStep ==
    ASSUME NEW r \in Reqs, SlotInv, Alone(r), Ends(r) \/ Keeps(r) \/ Takes(r)
    PROVE  SlotInv'
<1>0. sem = Cardinality(Holders) /\ sem \in 0..MaxConcurrency
  BY DEF SlotInv, SlotsMatch, Holders
<1>1. \A q \in Reqs \ {r} : Holds(q)' <=> Holds(q)
  BY DEF Alone, Holds, InFlight
<1>2. CASE Keeps(r)
  <2>1. Holders' = Holders BY <1>1, <1>2 DEF Keeps, Holders
  <2> QED BY <1>0, <1>2, <2>1 DEF Keeps, SlotInv, SlotsMatch, Holders
<1>3. CASE Ends(r) /\ ~Holds(r)
  <2>1. Holders' = Holders BY <1>1, <1>3 DEF Ends, Holders
  <2> QED BY <1>0, <1>3, <2>1 DEF Ends, SlotInv, SlotsMatch, Holders
<1>4. CASE Ends(r) /\ Holds(r)
  <2>1. Holders' = Holders \ {r} BY <1>1, <1>4 DEF Ends, Holders
  <2>2. r \in Holders BY <1>4 DEF Holders
  <2>3. Cardinality(Holders \ {r}) = Cardinality(Holders) - 1
    BY <2>2, HoldersFinite, FS_RemoveElement
  <2>4. Cardinality(Holders \ {r}) \in Nat
    BY HoldersFinite, FS_RemoveElement, FS_CardinalityType
  <2>5. sem' = sem - 1 BY <1>4 DEF Ends
  <2>6. sem' = Cardinality(Holders') BY <1>0, <2>1, <2>3, <2>5
  <2>7. sem' \in 0..MaxConcurrency BY <1>0, <2>3, <2>4, <2>5
  <2> QED BY <2>6, <2>7 DEF SlotInv, SlotsMatch, Holders
<1>5. CASE Takes(r)
  <2>1. Holders' = Holders \cup {r} BY <1>1, <1>5 DEF Takes, Holders
  <2>2. r \notin Holders BY <1>5 DEF Takes, Holders
  <2>3. Cardinality(Holders \cup {r}) = Cardinality(Holders) + 1
    BY <2>2, HoldersFinite, FS_AddElement
  <2>4. sem' = sem + 1 /\ sem # MaxConcurrency BY <1>5 DEF Takes
  <2>5. sem' = Cardinality(Holders') BY <1>0, <2>1, <2>3, <2>4
  <2>6. sem' \in 0..MaxConcurrency BY <1>0, <2>4
  <2> QED BY <2>5, <2>6 DEF SlotInv, SlotsMatch, Holders
<1> QED BY <1>2, <1>3, <1>4, <1>5

\* A step that leaves requests and semaphore alone keeps the count.
LEMMA SlotIdle == ASSUME SlotInv, UNCHANGED <<sem, req>> PROVE SlotInv'
<1>1. Holders' = Holders BY DEF Holders, Holds, InFlight
<1> QED BY <1>1 DEF SlotInv, SlotsMatch, Holders

-----------------------------------------------------------------------------
(* The building blocks of the handlers.                                    *)

LEMMA NoSessionType == NoSession \in Session /\ NoSession.gen = 0 /\ NoSession.phase = "Pending"
  BY DEF NoSession, Session, Phases

LEMMA IdleType == Idle \in Request
<1>1. Default \in Configs /\ 0 \in 0..MaxGen OBVIOUS
<1> QED BY <1>1, NoSessionType DEF Idle, Request, PCs, AllKinds, Answers

LEMMA GoStep ==
    ASSUME NEW r \in Reqs, NEW pc \in PCs \ {"idle", "exec"}, DataType, InFlight(r),
           req[r].pc # "exec", Go(r, pc)
    PROVE  req' \in [Reqs -> Request] /\ Alone(r) /\ Keeps(r)
  BY DEF Go, DataType, Request, PCs, Alone, Keeps, Holds, InFlight

LEMMA GoWithStep ==
    ASSUME NEW r \in Reqs, NEW pc \in PCs \ {"idle", "exec"}, NEW s \in Session, DataType,
           InFlight(r), req[r].pc # "exec", GoWith(r, pc, s)
    PROVE  /\ req' \in [Reqs -> Request] /\ Alone(r) /\ Keeps(r)
           /\ req'[r].copy = s
<1> DEFINE q == [req[r] EXCEPT !.pc = pc, !.copy = s]
<1>1. req[r] \in Request BY DEF DataType
<1>2. q \in Request BY <1>1 DEF Request
<1>3. q.pc = pc /\ q.kind = req[r].kind /\ q.copy = s BY <1>1 DEF Request
<1>4. req' = [req EXCEPT ![r] = q] BY DEF GoWith, DataType
<1> HIDE DEF q
<1>5. req' \in [Reqs -> Request] /\ req'[r] = q BY <1>2, <1>4 DEF DataType
<1>6. Alone(r) BY <1>4 DEF Alone, DataType
<1>7. Keeps(r) BY <1>3, <1>5 DEF Keeps, Holds, InFlight, GoWith
<1> QED BY <1>3, <1>5, <1>6, <1>7

LEMMA AnswerStep ==
    ASSUME NEW r \in Reqs, NEW a \in Answers, DataType, Answer(r, a)
    PROVE  /\ req' \in [Reqs -> Request] /\ Alone(r) /\ Ends(r)
           /\ req'[r].pc = "idle" /\ req'[r].copy = NoSession
<1> DEFINE q == [Idle EXCEPT !.ans = a]
<1>1. q \in Request BY IdleType DEF Request
<1>2. q.pc = "idle" /\ q.copy = NoSession BY DEF Idle
<1>3. req' = [req EXCEPT ![r] = q] BY DEF Answer
<1> HIDE DEF q
<1>4. req' \in [Reqs -> Request] /\ req'[r] = q BY <1>1, <1>3 DEF DataType
<1>5. Alone(r) BY <1>3 DEF Alone, DataType
<1>6. Ends(r) BY <1>2, <1>4 DEF Ends, Answer, Holds, InFlight
<1> QED BY <1>2, <1>4, <1>5, <1>6


-----------------------------------------------------------------------------
(* A step of request r: what it does to the slots, where its copy comes from,  *)
(* and that it goes on to exec only with a copy that shows Running, and to     *)
(* delete with one that shows Terminated.                                      *)

Moves(r) ==
    /\ req' \in [Reqs -> Request]
    /\ Alone(r) /\ (Ends(r) \/ Keeps(r) \/ Takes(r))
    /\ req'[r].copy \in {req[r].copy, cache, NoSession}
    /\ req'[r].pc = "exec" => req'[r].copy.phase = "Running"
    /\ req'[r].pc = "delete" => req'[r].copy.phase = "Terminated"

\* What becomes of the sandbox of a controller: it stays or goes, or there is one
\* of session n, or one that comes late.
Comes(p, n) == box'[p] \in {NoBox, box[p]} \/ box'[p].gen = n \/ box'[p].late

BoxStep(n) ==
    /\ box' \in [Pods -> Box] /\ stuck' \subseteq Pods \X (0..MaxGen)
    /\ \A p \in Pods : Comes(p, n)

\* Sessions are counted up, the last one assigned is ever later, and a new
\* sandbox is of that one, or late.
Grows ==
    /\ born' \in 0..MaxGen /\ born' >= born
    /\ assigned' \in 0..MaxGen /\ assigned' >= assigned
    /\ BoxStep(assigned')

LEMMA OkKept ==
    ASSUME NEW s \in Session, DataType, Ok(s, born, assigned, box), Grows
    PROVE  Ok(s, born', assigned', box')
<1>1. /\ s.gen \in Nat /\ born \in Nat /\ born' \in Nat /\ s.gen <= born'
      /\ assigned \in Nat /\ assigned' \in Nat /\ assigned' >= assigned
  BY DEF Session, DataType, Grows, Ok
<1>2. ASSUME s.phase = "Running"
      PROVE  s.pod \in Pods /\ s.gen <= assigned' /\ Fits(box'[s.pod], s.gen)
  <2>1. s.pod \in Pods /\ s.gen <= assigned /\ Fits(box[s.pod], s.gen)
    BY <1>2 DEF Ok
  <2>2. Comes(s.pod, assigned') BY <2>1 DEF Grows, BoxStep
  <2>3. s.gen <= assigned' BY <1>1, <2>1
  <2> QED BY <2>1, <2>2, <2>3 DEF Comes, Fits
<1> QED BY <1>1, <1>2 DEF Ok

LEMMA BoxesStay == ASSUME DataType, UNCHANGED boxes, NEW n PROVE BoxStep(n)
  BY DEF DataType, boxes, BoxStep, Comes

LEMMA NoSessionOk == ASSUME DataType PROVE Ok(NoSession, born, assigned, box)
  BY NoSessionType DEF Ok, DataType

\* A step of a request preserves what concerns the requests.
LEMMA MovesKeep ==
    ASSUME NEW r \in Reqs, IInv, Moves(r), Grows, UNCHANGED cache
    PROVE  SlotInv' /\ CopyInv' /\ ExecInv'
<1>1. SlotInv' BY SlotStep DEF IInv, Moves
<1>2. \A q \in Reqs : req[q].copy \in Session /\ Ok(req[q].copy, born, assigned, box)
  BY DEF IInv, DataType, Request, CopyInv
<1>3. cache \in Session /\ Ok(cache, born, assigned, box) BY DEF IInv, DataType, StoreInv
<1>4. Ok(NoSession, born, assigned, box) /\ DataType BY NoSessionOk DEF IInv
<1>5. ASSUME NEW q \in Reqs PROVE Ok(req'[q].copy, born', assigned', box')
  <2>1. req'[q].copy \in {req[q].copy, cache, NoSession} BY DEF Moves, Alone
  <2>2. req'[q].copy \in Session /\ Ok(req'[q].copy, born, assigned, box)
    BY <1>2, <1>3, <1>4, <2>1, NoSessionType
  <2> QED BY <1>4, <2>2, OkKept
<1>6. CopyInv' BY <1>5 DEF CopyInv
<1>7. ExecInv' BY DEF IInv, ExecInv, Moves, Alone
<1> QED BY <1>1, <1>6, <1>7

\* A step of another actor preserves it too.
LEMMA OtherKeep ==
    ASSUME IInv, Grows, UNCHANGED <<sem, req>>
    PROVE  SlotInv' /\ CopyInv' /\ ExecInv' /\ Ok(cache, born', assigned', box')
<1>1. SlotInv' BY SlotIdle DEF IInv
<1>2. \A q \in Reqs : req[q].copy \in Session /\ Ok(req[q].copy, born, assigned, box)
  BY DEF IInv, DataType, Request, CopyInv
<1>3. cache \in Session /\ Ok(cache, born, assigned, box) /\ DataType BY DEF IInv, DataType, StoreInv
<1>4. CopyInv' BY <1>2, <1>3, OkKept DEF CopyInv
<1>5. ExecInv' BY DEF IInv, ExecInv
<1> QED BY <1>1, <1>3, <1>4, <1>5, OkKept

-----------------------------------------------------------------------------
(* The handlers, one lemma each: a request moves.                          *)

LEMMA StartMoves ==
    ASSUME NEW r \in Reqs, NEW kind \in Kinds, NEW c \in Configs, IInv, Start(r, kind, c)
    PROVE  Moves(r)
<1> DEFINE full == kind = "exec" /\ sem = MaxConcurrency
           takes == kind = "exec" /\ sem < MaxConcurrency
           pc == CASE kind = "exec" -> IF sem < MaxConcurrency THEN "find" ELSE "idle"
                   [] kind = "tool" -> "find"
                   [] kind = "default" -> "default"
                   [] OTHER -> "conf"
           ans == IF full THEN "busy" ELSE "none"
           q == [Idle EXCEPT !.kind = kind, !.conf = c, !.pc = pc, !.ans = ans]
<1>0. sem \in 0..MaxConcurrency /\ DataType /\ kind \in AllKinds BY DEF IInv, SlotInv
<1>1. pc \in PCs \ {"exec", "delete"} BY DEF PCs
<1>2. ans \in Answers BY DEF Answers
<1>3. pc = "idle" <=> full BY <1>0
<1>4. req' = [req EXCEPT ![r] = q] /\ sem' = IF takes THEN sem + 1 ELSE sem
  BY DEF Start
<1>5. full <=> kind = "exec" /\ ~takes BY <1>0
<1> HIDE DEF pc, ans
<1>6. q \in Request BY <1>0, <1>1, <1>2, IdleType DEF Request
<1>7. q.pc = pc /\ q.kind = kind /\ q.copy = NoSession BY DEF Idle
<1> HIDE DEF q
<1>8. req' \in [Reqs -> Request] /\ req'[r] = q /\ Alone(r)
  BY <1>0, <1>4, <1>6 DEF DataType, Alone
<1>9. ~Holds(r) BY DEF Start, Holds, InFlight
<1>10. Holds(r)' <=> takes BY <1>1, <1>3, <1>5, <1>7, <1>8 DEF Holds, InFlight
<1>11. CASE takes
  BY <1>0, <1>1, <1>4, <1>7, <1>8, <1>9, <1>10, <1>11 DEF Moves, Takes
<1>12. CASE ~takes
  BY <1>1, <1>4, <1>7, <1>8, <1>9, <1>10, <1>12 DEF Moves, Keeps
<1> QED BY <1>11, <1>12

\* The forms of a step that most handlers consist of.
LEMMA Forms ==
    ASSUME NEW r \in Reqs, IInv
    PROVE  /\ \A a \in Answers : Answer(r, a) => Moves(r)
           /\ \A pc \in PCs \ {"idle", "exec", "delete"} :
                 InFlight(r) /\ req[r].pc # "exec" /\ Go(r, pc) => Moves(r)
           /\ \A pc \in PCs \ {"idle", "exec"} :
                 /\ InFlight(r) /\ req[r].pc # "exec" /\ GoWith(r, pc, cache)
                 /\ pc = "delete" => cache.phase = "Terminated"
                 => Moves(r)
<1>0. DataType /\ cache \in Session BY DEF IInv, DataType
<1>1. ASSUME NEW a \in Answers, Answer(r, a) PROVE Moves(r)
  BY <1>0, <1>1, AnswerStep DEF Moves
<1>2. ASSUME NEW pc \in PCs \ {"idle", "exec", "delete"}, InFlight(r), req[r].pc # "exec",
             Go(r, pc)
      PROVE  Moves(r)
  <2>1. req'[r].copy = req[r].copy /\ req'[r].pc = pc
    BY <1>0, <1>2 DEF Go, DataType, Request
  <2> QED BY <1>0, <1>2, <2>1, GoStep DEF Moves
<1>3. ASSUME NEW pc \in PCs \ {"idle", "exec"}, InFlight(r), req[r].pc # "exec",
             GoWith(r, pc, cache), pc = "delete" => cache.phase = "Terminated"
      PROVE  Moves(r)
  <2>1. req'[r].pc = pc BY <1>0, <1>3 DEF GoWith, DataType, Request
  <2> QED BY <1>0, <1>3, <2>1, GoWithStep DEF Moves
<1> QED BY <1>1, <1>2, <1>3


\* Handlers that only read.
LEMMA ReadingMoves ==
    ASSUME NEW r \in Reqs, IInv,
           \/ lookupSession(r) \/ lookupSandbox(r) \/ ensureSession(r)
           \/ createAndWaitForSession(r) \/ Relookup(r) \/ Exec(r) \/ Refuse(r)
    PROVE  Moves(r)
<1> USE DEF PCs, Answers, InFlight
<1>1. CASE lookupSession(r) BY <1>1, Forms DEF lookupSession
<1>2. CASE lookupSandbox(r)
  <2>1. \E pc \in {"post", "again"} : Answer(r, "notfound") \/ Go(r, pc)
    BY <1>2 DEF lookupSandbox
  <2>2. req[r].pc = "conf" BY <1>2 DEF lookupSandbox
  <2> QED BY <2>1, <2>2, Forms
<1>3. CASE ensureSession(r) BY <1>3, Forms DEF ensureSession
<1>4. CASE createAndWaitForSession(r)
  <2>1. req[r].pc = "wait" BY <1>4 DEF createAndWaitForSession
  <2>2. \/ \E a \in {"ok", "terminated", "timeout"} : Answer(r, a)
        \/ \E pc \in {"ready", "reget"} : GoWith(r, pc, cache)
    BY <1>4 DEF createAndWaitForSession
  <2> QED BY <2>1, <2>2, Forms
<1>5. CASE Relookup(r) BY <1>5, Forms DEF Relookup
<1>6. CASE Exec(r)
  <2>1. \E a \in {"ok", "error"} : Answer(r, a) BY <1>6 DEF Exec
  <2> QED BY <2>1, Forms
<1>7. CASE Refuse(r) BY <1>7, Forms DEF Refuse
<1> QED BY <1>1, <1>2, <1>3, <1>4, <1>5, <1>6, <1>7

\* The check of the phase, with the tools' slot.
LEMMA CheckMoves == ASSUME NEW r \in Reqs, IInv, CheckRunning(r) PROVE Moves(r)
<1>0. req[r] \in Request /\ req \in [Reqs -> Request] /\ req[r].pc = "ready"
  BY DEF IInv, DataType, CheckRunning
<1>1. CASE Answer(r, "notready") \/ Answer(r, "busy") BY <1>1, Forms DEF Answers
<1>2. CASE ~(Answer(r, "notready") \/ Answer(r, "busy"))
  <2> DEFINE q == [req[r] EXCEPT !.pc = "exec"]
  <2>1. /\ req' = [req EXCEPT ![r] = q] /\ req[r].copy.phase = "Running"
        /\ \/ req[r].kind = "exec" /\ sem' = sem
           \/ req[r].kind # "exec" /\ sem # MaxConcurrency /\ sem' = sem + 1
    BY <1>0, <1>2 DEF CheckRunning, Go
  <2>2. q \in Request BY <1>0 DEF Request, PCs
  <2>3. q.pc = "exec" /\ q.copy = req[r].copy /\ q.kind = req[r].kind BY <1>0 DEF Request
  <2> HIDE DEF q
  <2>4. req' \in [Reqs -> Request] /\ req'[r] = q /\ Alone(r)
    BY <1>0, <2>1, <2>2 DEF Alone
  <2>5. Holds(r)' /\ (Holds(r) <=> req[r].kind = "exec")
    BY <1>0, <2>3, <2>4 DEF Holds, InFlight
  <2> QED BY <2>1, <2>3, <2>4, <2>5 DEF Moves, Keeps, Takes
<1> QED BY <1>1, <1>2

LEMMA DefaultMoves == ASSUME NEW r \in Reqs, IInv, resolveDefaultSession(r) PROVE Moves(r)
<1>0. req[r] \in Request /\ req \in [Reqs -> Request] /\ req[r].pc = "default"
  BY DEF IInv, DataType, resolveDefaultSession
<1>1. CASE Go(r, "conf") \/ Answer(r, "conflict")
  BY <1>0, <1>1, Forms DEF Answers, PCs, InFlight
<1>2. CASE ~(Go(r, "conf") \/ Answer(r, "conflict"))
  <2> DEFINE q == [req[r] EXCEPT !.pc = "conf", !.made = TRUE]
  <2>1. req' = [req EXCEPT ![r] = q] /\ sem' = sem
    BY <1>0, <1>2 DEF resolveDefaultSession
  <2>2. q \in Request BY <1>0 DEF Request, PCs
  <2>3. q.pc = "conf" /\ q.copy = req[r].copy /\ q.kind = req[r].kind BY <1>0 DEF Request
  <2> HIDE DEF q
  <2>4. req' \in [Reqs -> Request] /\ req'[r] = q /\ Alone(r)
    BY <1>0, <2>1, <2>2 DEF Alone
  <2>5. Keeps(r) BY <1>0, <2>1, <2>3, <2>4 DEF Holds, InFlight, Keeps
  <2> QED BY <2>3, <2>4, <2>5 DEF Moves
<1> QED BY <1>1, <1>2

LEMMA DeletedType ==
    ASSUME IInv
    PROVE  /\ Deleted \in Session /\ Deleted.gen \in {0, born}
           /\ Deleted.gen = 0 => Deleted = NoSession
           /\ Deleted.phase = "Creating" => Deleted.pod \in Pods /\ assigned = Deleted.gen
           /\ Ok(Deleted, born, assigned, box)
<1>1. CASE sess.fin
  <2>1. sess \in Session /\ Deleted = [sess EXCEPT !.del = TRUE]
    BY <1>1 DEF IInv, DataType, Deleted
  <2>2. /\ Deleted \in Session /\ Deleted.gen = sess.gen /\ Deleted.phase = sess.phase
        /\ Deleted.pod = sess.pod
    BY <2>1 DEF Session
  <2>3. sess.gen # 0 BY <1>1 DEF IInv, StoreInv, NoSession
  <2> QED BY <2>2, <2>3 DEF IInv, StoreInv, Ok
<1>2. CASE ~sess.fin
  <2>1. Deleted = NoSession BY <1>2 DEF Deleted
  <2> QED BY <2>1, NoSessionType, NoSessionOk DEF IInv
<1> QED BY <1>1, <1>2

LEMMA DeleteMoves ==
    ASSUME NEW r \in Reqs, IInv, DeleteTerminated(r)
    PROVE  Moves(r) /\ sess' \in {sess, Deleted}
<1>0. req[r] \in Request /\ req \in [Reqs -> Request] /\ req[r].pc = "delete"
  BY DEF IInv, DataType, DeleteTerminated
<1>1. CASE sess.gen = 0 BY <1>1, Forms DEF Answers, DeleteTerminated
<1>2. CASE sess.gen # 0
  <2> DEFINE pc == IF req[r].kind = "exec" THEN "conf" ELSE "post"
             q == [req[r] EXCEPT !.pc = pc, !.old = sess.gen, !.copy = NoSession]
  <2>1. req' = [req EXCEPT ![r] = q] /\ sem' = sem /\ sess' = Deleted
    BY <1>0, <1>2 DEF DeleteTerminated
  <2>2. pc \in PCs \ {"idle", "exec", "delete"} BY DEF PCs
  <2>3. sess.gen \in 0..MaxGen BY DEF IInv, DataType, Session
  <2> HIDE DEF pc
  <2>4. q \in Request BY <1>0, <2>2, <2>3, NoSessionType DEF Request
  <2>5. q.pc = pc /\ q.copy = NoSession /\ q.kind = req[r].kind BY <1>0 DEF Request
  <2> HIDE DEF q
  <2>6. req' \in [Reqs -> Request] /\ req'[r] = q /\ Alone(r)
    BY <1>0, <2>1, <2>4 DEF Alone
  <2>7. Keeps(r) BY <1>0, <2>1, <2>2, <2>5, <2>6 DEF Holds, InFlight, Keeps
  <2> QED BY <2>1, <2>2, <2>5, <2>6, <2>7 DEF Moves
<1> QED BY <1>1, <1>2

LEMMA CreateMoves ==
    ASSUME NEW r \in Reqs, IInv, CreateSession(r)
    PROVE  /\ Moves(r)
           /\ UNCHANGED assigned
           /\ \/ UNCHANGED <<sess, born>>
              \/ /\ born < MaxGen /\ born' = born + 1
                 /\ \E c \in Configs : sess' = NewSession(c)
<1>0. /\ req[r] \in Request /\ req \in [Reqs -> Request] /\ born \in 0..MaxGen
      /\ req[r].pc = "post"
  BY DEF IInv, DataType, CreateSession
<1>1. Moves(r)
  <2>1. CASE Go(r, "wait") \/ Answer(r, "error")
    BY <1>0, <2>1, Forms DEF Answers, PCs, InFlight
  <2>2. CASE ~(Go(r, "wait") \/ Answer(r, "error"))
    <3> DEFINE q == [req[r] EXCEPT !.pc = "wait", !.old = born]
    <3>1. req' = [req EXCEPT ![r] = q] /\ sem' = sem
      BY <1>0, <2>2 DEF CreateSession
    <3>2. q \in Request BY <1>0 DEF Request, PCs
    <3>3. q.pc = "wait" /\ q.copy = req[r].copy /\ q.kind = req[r].kind BY <1>0 DEF Request
    <3> HIDE DEF q
    <3>4. req' \in [Reqs -> Request] /\ req'[r] = q /\ Alone(r)
      BY <1>0, <3>1, <3>2 DEF Alone
    <3>5. Keeps(r) BY <1>0, <3>1, <3>3, <3>4 DEF Holds, InFlight, Keeps
    <3> QED BY <3>3, <3>4, <3>5 DEF Moves
  <2> QED BY <2>1, <2>2
<1>2. req[r].conf \in Configs BY DEF IInv, DataType, Request
<1> QED BY <1>1, <1>2 DEF CreateSession


-----------------------------------------------------------------------------
(* The inductive invariant.                                                *)

LEMMA InitInv == Init => IInv
<1> SUFFICES ASSUME Init PROVE IInv OBVIOUS
<1>0. NoBox \in Box BY DEF NoBox, Box
<1>1. DataType
  BY <1>0, NoSessionType, IdleType DEF Init, DataType
<1>2. Holders = {} BY DEF Init, Holders, Holds, InFlight, Idle
<1>3. SlotInv BY <1>2, FS_EmptySet DEF Init, SlotInv, SlotsMatch, Holders
<1>4. StoreInv BY NoSessionType, NoSessionOk, <1>1 DEF Init, StoreInv
<1>5. CopyInv BY NoSessionOk, <1>1 DEF Init, CopyInv, Idle
<1>6. ExecInv BY DEF Init, ExecInv, Idle
<1> QED BY <1>1, <1>3, <1>4, <1>5, <1>6 DEF IInv

\* A request's step that leaves sessions and configs alone.
LEMMA QuietStep ==
    ASSUME NEW r \in Reqs, IInv, Moves(r), UNCHANGED <<store, caches>>,
           confs' \in [Configs -> {"none", "live", "going"}]
    PROVE  IInv'
<1>1. Grows BY BoxesStay DEF IInv, DataType, Grows, store
<1>2. SlotInv' /\ CopyInv' /\ ExecInv' BY <1>1, MovesKeep DEF caches
<1>3. DataType' BY DEF IInv, DataType, Moves, store, boxes, caches
<1>4. StoreInv' BY DEF IInv, StoreInv, store, boxes, caches
<1> QED BY <1>2, <1>3, <1>4 DEF IInv

LEMMA StepInv == ASSUME NEW r \in Reqs, IInv, Step(r) \/ Refuse(r) PROVE IInv'
<1>0. DataType /\ StoreInv BY DEF IInv
<1>1. CASE \/ lookupSession(r) \/ lookupSandbox(r) \/ ensureSession(r)
           \/ createAndWaitForSession(r) \/ Relookup(r) \/ Exec(r) \/ Refuse(r)
  <2>1. UNCHANGED <<store, caches, confs>>
    BY <1>1 DEF lookupSession, lookupSandbox, ensureSession, createAndWaitForSession,
                Relookup, Exec, Refuse
  <2> QED BY <1>0, <1>1, <2>1, ReadingMoves, QuietStep DEF DataType
<1>2. CASE CheckRunning(r)
  BY <1>0, <1>2, CheckMoves, QuietStep DEF DataType, CheckRunning
<1>3. CASE resolveDefaultSession(r)
  <2>1. confs' \in [Configs -> {"none", "live", "going"}]
    BY <1>0, <1>3 DEF DataType, resolveDefaultSession
  <2> QED BY <1>3, <2>1, DefaultMoves, QuietStep DEF resolveDefaultSession
<1>4. CASE DeleteTerminated(r)
  <2>1. UNCHANGED <<born, assigned, boxes, caches, confs>> BY <1>4 DEF DeleteTerminated
  <2>2. Moves(r) /\ sess' \in {sess, Deleted} BY <1>4, DeleteMoves
  <2>3. Grows BY <1>0, <2>1, BoxesStay DEF DataType, Grows
  <2>4. SlotInv' /\ CopyInv' /\ ExecInv' BY <2>1, <2>2, <2>3, MovesKeep DEF caches
  <2>5. DataType' BY <1>0, <2>1, <2>2, DeletedType DEF DataType, Moves, caches, boxes
  <2>6. StoreInv' BY <1>0, <2>1, <2>2, DeletedType DEF StoreInv, caches, boxes
  <2> QED BY <2>4, <2>5, <2>6 DEF IInv
<1>5. CASE CreateSession(r)
  <2>1. UNCHANGED <<assigned, boxes, caches, confs>> BY <1>5 DEF CreateSession
  <2>2. Moves(r) BY <1>5, CreateMoves
  <2>3. CASE UNCHANGED <<sess, born>>
    BY <1>0, <2>1, <2>2, <2>3, QuietStep DEF store, DataType
  <2>4. CASE ~UNCHANGED <<sess, born>>
    <3>1. PICK c \in Configs : sess' = NewSession(c) BY <1>5, <2>4, CreateMoves
    <3>2. born < MaxGen /\ born' = born + 1 BY <1>5, <2>4, CreateMoves
    <3>3. Grows BY <1>0, <2>1, <3>2, BoxesStay DEF DataType, Grows
    <3>4. SlotInv' /\ CopyInv' /\ ExecInv' BY <2>1, <2>2, <3>3, MovesKeep DEF caches
    <3>5. born' \in 0..MaxGen BY <1>0, <3>2 DEF DataType
    <3>6. sess' \in Session /\ sess'.gen = born' /\ sess'.phase = "Pending"
      BY <3>1, <3>2, <3>5, NoSessionType DEF NewSession, NoSession, Session
    <3>7. DataType' BY <1>0, <2>1, <2>2, <3>5, <3>6 DEF DataType, Moves, caches, boxes
    <3>8. Ok(cache, born', assigned', box') BY <1>0, <3>3, OkKept DEF DataType, StoreInv
    <3>9. Ok(sess, born, assigned, box)' BY <3>5, <3>6 DEF Ok
    <3>10. assigned' <= born'
      BY <1>0, <2>1, <3>2 DEF StoreInv, DataType
    <3>11. born' # 0 BY <1>0, <3>2 DEF DataType
    <3>12. sess'.phase # "Creating" BY <3>6
    <3>13. StoreInv'
      BY <2>1, <3>6, <3>8, <3>9, <3>10, <3>11, <3>12 DEF StoreInv, caches
    <3> QED BY <3>4, <3>7, <3>13 DEF IInv
  <2> QED BY <2>3, <2>4
<1> QED BY <1>1, <1>2, <1>3, <1>4, <1>5 DEF Step

\* What happens to the sandboxes: n is the session of a new one.
LEMMA Boxes ==
    ASSUME DataType, NEW p \in Pods, NEW n \in 0..MaxGen
    PROVE  /\ box' \in {box, Filled(p, n)} /\ UNCHANGED stuck => BoxStep(n)
           /\ box[p] = NoBox /\ box' = Filled(p, n) => Fits(box'[p], n)
           /\ Unanswered(p, n) => BoxStep(n)
<1>1. [gen |-> n, late |-> FALSE] \in Box BY DEF Box
<1>2. /\ Filled(p, n) \in [Pods -> Box]
      /\ \A q \in Pods : Filled(p, n)[q] = box[q] \/ Filled(p, n)[q].gen = n
  BY <1>1 DEF Filled, DataType
<1>3. ASSUME box' \in {box, Filled(p, n)}, UNCHANGED stuck PROVE BoxStep(n)
  BY <1>2, <1>3 DEF BoxStep, Comes, DataType
<1>4. ASSUME box[p] = NoBox, box' = Filled(p, n) PROVE Fits(box'[p], n)
  <2>1. box'[p].gen = n BY <1>4 DEF Filled, DataType
  <2> QED BY <2>1 DEF Fits
<1>5. ASSUME Unanswered(p, n) PROVE BoxStep(n)
  <2>1. CASE box' = box /\ stuck' = stuck \cup {<<p, n>>}
    BY <2>1 DEF BoxStep, Comes, DataType
  <2> QED BY <1>3, <1>5, <2>1 DEF Unanswered
<1> QED BY <1>3, <1>4, <1>5

\* A sandbox is deleted, with its controller or without.
LEMMA BoxGoes ==
    ASSUME DataType, NEW p, NEW n, box' \in {box, Emptied(p)}, stuck' \subseteq stuck
    PROVE  BoxStep(n)
<1>1. NoBox \in Box BY DEF NoBox, Box
<1>2. Emptied(p) \in [Pods -> Box] /\ \A q \in Pods : Emptied(p)[q] \in {box[q], NoBox}
  BY <1>1 DEF Emptied, DataType
<1> QED BY <1>2 DEF BoxStep, Comes, DataType

LEMMA BoxLate == ASSUME DataType, CreateLate, NEW n PROVE BoxStep(n)
<1>1. PICK w \in stuck : /\ box' = [box EXCEPT ![w[1]] = [gen |-> w[2], late |-> TRUE]]
                        /\ stuck' = stuck \ {w}
  BY DEF CreateLate
<1>2. w[1] \in Pods /\ w[2] \in 0..MaxGen BY DEF DataType
<1>3. [gen |-> w[2], late |-> TRUE] \in Box BY <1>2 DEF Box
<1>4. box' \in [Pods -> Box] BY <1>1, <1>2, <1>3 DEF DataType
<1>5. ASSUME NEW p \in Pods PROVE Comes(p, n)
  BY <1>1, <1>2 DEF Comes, DataType
<1> QED BY <1>1, <1>4, <1>5 DEF BoxStep, DataType

\* The steps of the operator and the users on the session, in one form.
LEMMA StoreStep ==
    ASSUME IInv, UNCHANGED born, Others, sess' \in Session, sess'.gen \in {0, born},
           sess'.gen = 0 => sess' = NoSession,
           assigned' \in {assigned, born},
           BoxStep(assigned'),
           sess'.phase = "Creating" => sess'.pod \in Pods /\ assigned' = sess'.gen,
           sess'.phase = "Running" =>
              \/ sess.phase = "Running" /\ sess'.gen = sess.gen /\ sess'.pod = sess.pod
              \/ sess'.pod \in Pods /\ sess'.gen <= assigned' /\ Fits(box'[sess'.pod], sess'.gen)
    PROVE  IInv'
<1>0. DataType /\ StoreInv BY DEF IInv
<1>1. Grows BY <1>0 DEF DataType, StoreInv, Grows
<1>2. SlotInv' /\ CopyInv' /\ ExecInv' /\ Ok(cache, born', assigned', box')
  BY <1>1, OtherKeep DEF Others
<1>3. DataType' BY <1>0, <1>1 DEF DataType, Grows, BoxStep, Others, caches
<1>4. Ok(sess, born', assigned', box') BY <1>0, <1>1, OkKept DEF DataType, StoreInv
<1>5. sess'.gen \in Nat /\ born' \in Nat /\ sess'.gen <= born' BY <1>0 DEF DataType
<1>6. Ok(sess, born, assigned, box)' BY <1>4, <1>5 DEF Ok
<1>7. assigned' <= born' BY <1>0 DEF StoreInv, DataType
<1>9. StoreInv' BY <1>2, <1>6, <1>7 DEF StoreInv, Others, caches
<1> QED BY <1>2, <1>3, <1>9 DEF IInv

LEMMA PhaseStep ==
    ASSUME IInv, NEW phase \in Phases \ {"Creating"}, SetPhase(phase), sess.gen # 0, Others,
           BoxStep(assigned),
           phase = "Running" => sess.phase = "Creating" /\ Fits(box'[sess.pod], sess.gen)
    PROVE  IInv'
<1>1. sess \in Session BY DEF IInv, DataType
<1>2. /\ sess' \in Session /\ sess'.gen = sess.gen /\ sess'.phase = phase
      /\ sess'.pod = sess.pod
  BY <1>1 DEF SetPhase, Session
<1>3. /\ sess'.gen \in {0, born} /\ born' = born /\ assigned' = assigned
      /\ sess.phase = "Creating" => sess.pod \in Pods /\ assigned = sess.gen
  BY <1>2 DEF IInv, StoreInv, SetPhase
<1>4. sess.gen <= sess.gen BY <1>1 DEF Session
<1> QED BY <1>2, <1>3, <1>4, StoreStep


\* The operator, and whoever deletes sessions.
LEMMA OperatorInv ==
    ASSUME IInv,
           \/ AddFinalizer \/ reconcilePending \/ reconcileCreating \/ createFromStale
           \/ CreateLate \/ Evict \/ reconcileDeleting \/ DeleteSession \/ handleDeletion \/ PodRestart
    PROVE  IInv'
<1>0. /\ sess \in Session /\ sess.gen \in {0, born} /\ sess.gen \in 0..MaxGen
      /\ sess.gen = 0 => sess = NoSession
      /\ sess.phase = "Creating" => sess.pod \in Pods /\ assigned = sess.gen
      /\ assigned \in 0..MaxGen
      /\ DataType /\ StoreInv
  BY DEF IInv, DataType, StoreInv, Session
<1>1. CASE AddFinalizer
  <2>1. /\ sess' \in Session /\ sess'.gen = sess.gen /\ sess'.phase = sess.phase
        /\ sess'.pod = sess.pod
    BY <1>0, <1>1 DEF AddFinalizer, Session
  <2>2. UNCHANGED <<born, assigned, boxes>> /\ Others /\ sess.gen # 0 /\ sess.phase = "Pending"
    BY <1>1 DEF AddFinalizer
  <2> QED BY <1>0, <2>1, <2>2, BoxesStay, StoreStep
<1>2. CASE reconcilePending
  <2>0. sess.gen # 0
    <3>1. sess.fin /\ ~NoSession.fin BY <1>2 DEF reconcilePending, NoSession
    <3> QED BY <1>0, <3>1
  <2>2. CASE SetPhase("Deleting")
    BY <1>0, <1>2, <2>0, <2>2, BoxesStay, PhaseStep DEF Phases, reconcilePending
  <2>3. CASE ~SetPhase("Deleting")
    <3>1. PICK p \in Pods : sess' = [sess EXCEPT !.phase = "Creating", !.pod = p]
      BY <1>2, <2>3 DEF reconcilePending
    <3>2. assigned' = sess.gen /\ UNCHANGED <<born, boxes>> /\ Others
      BY <1>2, <2>3 DEF reconcilePending
    <3>3. /\ sess' \in Session /\ sess'.gen = sess.gen /\ sess'.phase = "Creating"
          /\ sess'.pod = p
      BY <1>0, <3>1 DEF Session, Phases
    <3> QED BY <1>0, <2>0, <3>2, <3>3, BoxesStay, StoreStep
  <2> QED BY <2>2, <2>3
<1>3. CASE reconcileCreating
  <2>1. sess.gen # 0 /\ sess.gen = born /\ assigned = sess.gen /\ sess.pod \in Pods
        /\ sess.phase = "Creating" /\ Others
    BY <1>0, <1>3, NoSessionType DEF reconcileCreating
  <2>2. BoxStep(assigned)
    BY <1>0, <1>3, <2>1, Boxes, BoxesStay DEF reconcileCreating
  <2>3. CASE SetPhase("Running") /\ box[sess.pod] = NoBox /\ box' = Filled(sess.pod, sess.gen)
    <3>1. Fits(box'[sess.pod], sess.gen) BY <1>0, <2>1, <2>3, Boxes
    <3> QED BY <2>1, <2>2, <2>3, <3>1, PhaseStep DEF Phases
  <2>4. CASE UNCHANGED <<sess, born, assigned>>
    BY <1>0, <2>1, <2>2, <2>4, StoreStep
  <2>5. CASE sess' = [sess EXCEPT !.phase = "Pending", !.pod = NoPod] /\ UNCHANGED <<born, assigned>>
    <3>1. sess' \in Session /\ sess'.gen = sess.gen /\ sess'.phase = "Pending"
      BY <1>0, <2>5 DEF Session, Phases
    <3> QED BY <1>0, <2>1, <2>2, <2>5, <3>1, StoreStep
  <2>6. CASE SetPhase("Deleting") BY <2>1, <2>2, <2>6, PhaseStep DEF Phases
  <2> QED BY <1>3, <2>3, <2>4, <2>5, <2>6 DEF reconcileCreating
<1>4. CASE Evict BY <1>0, <1>4, BoxesStay, PhaseStep DEF Evict, Phases
<1>5. CASE reconcileDeleting
  <2>1. sess.gen # 0 BY <1>0, <1>5, NoSessionType DEF reconcileDeleting
  <2>2. BoxStep(assigned) BY <1>0, <1>5, BoxGoes DEF reconcileDeleting
  <2> QED BY <1>5, <2>1, <2>2, PhaseStep DEF reconcileDeleting, Phases
<1>6. CASE DeleteSession
  <2>1. /\ Deleted.phase = "Running" => /\ sess.phase = "Running" /\ Deleted.gen = sess.gen
                                        /\ Deleted.pod = sess.pod
        /\ Deleted.phase = "Creating" => /\ sess.phase = "Creating" /\ Deleted.gen = sess.gen
                                         /\ Deleted.pod = sess.pod
    BY <1>0, NoSessionType DEF Deleted, Session
  <2>2. sess' = Deleted /\ UNCHANGED <<born, assigned, boxes>> /\ Others
    BY <1>6 DEF DeleteSession
  <2> QED BY <1>0, <2>1, <2>2, BoxesStay, DeletedType, StoreStep
<1>7. CASE handleDeletion
  <2>1. BoxStep(assigned) BY <1>0, <1>7, BoxGoes DEF handleDeletion
  <2>2. sess' = NoSession /\ UNCHANGED <<born, assigned>> /\ Others
    BY <1>7 DEF handleDeletion
  <2> QED BY <1>0, <2>1, <2>2, NoSessionType, StoreStep
<1>8. CASE createFromStale \/ CreateLate \/ PodRestart
  <2>1. BoxStep(assigned)
    BY <1>0, <1>8, Boxes, BoxLate, BoxGoes DEF createFromStale, PodRestart
  <2>2. UNCHANGED <<sess, born, assigned>> /\ Others
    BY <1>8 DEF createFromStale, CreateLate, PodRestart
  <2> QED BY <1>0, <2>1, <2>2, StoreStep
<1> QED BY <1>1, <1>2, <1>3, <1>4, <1>5, <1>6, <1>7, <1>8

LEMMA NextInv == IInv /\ [Next]_vars => IInv'
<1> SUFFICES ASSUME IInv, [Next]_vars PROVE IInv' OBVIOUS
<1>0. DataType /\ StoreInv BY DEF IInv
<1>1. ASSUME NEW r \in Reqs, NEW kind \in Kinds, NEW c \in Configs, Start(r, kind, c)
      PROVE  IInv'
  BY <1>0, <1>1, StartMoves, QuietStep DEF Start, DataType
<1>2. ASSUME NEW r \in Reqs, Step(r) \/ Refuse(r) PROVE IInv'
  BY <1>2, StepInv
<1>3. CASE \/ AddFinalizer \/ reconcilePending \/ reconcileCreating \/ createFromStale
           \/ CreateLate \/ Evict \/ reconcileDeleting \/ DeleteSession \/ handleDeletion \/ PodRestart
  BY <1>3, OperatorInv
<1>4. CASE \/ \E c \in Configs : CreateConfig(c) \/ DeleteConfig(c) \/ ConfigGone(c)
           \/ CacheSync \/ ConfCacheSync \/ UNCHANGED vars
  <2>1. UNCHANGED <<store, sem, req>> /\ cache' \in {cache, [sess EXCEPT !.fin = FALSE]}
    BY <1>4 DEF CreateConfig, DeleteConfig, ConfigGone, CacheSync, ConfCacheSync, vars, caches
  <2>2. confs' \in [Configs -> {"none", "live", "going"}]
    BY <1>0, <1>4 DEF DataType, CreateConfig, DeleteConfig, ConfigGone, CacheSync,
                      ConfCacheSync, vars
  <2>3. confCache' \in {confCache, confs}
    BY <1>4 DEF CreateConfig, DeleteConfig, ConfigGone, CacheSync, ConfCacheSync, vars, caches
  <2>4. Grows BY <1>0, <2>1, BoxesStay DEF DataType, Grows, store
  <2>5. SlotInv' /\ CopyInv' /\ ExecInv' BY <2>1, <2>4, OtherKeep
  <2>6. cache' \in Session /\ Ok(cache, born, assigned, box)'
    BY <1>0, <2>1 DEF DataType, StoreInv, Session, Ok, store, boxes
  <2>7. DataType' /\ StoreInv'
    BY <1>0, <2>1, <2>2, <2>3, <2>6 DEF DataType, StoreInv, store, boxes
  <2> QED BY <2>5, <2>7 DEF IInv
<1> QED BY <1>1, <1>2, <1>3, <1>4 DEF Next

LEMMA Inductive == Spec => []IInv
  BY InitInv, NextInv, PTL DEF Spec

-----------------------------------------------------------------------------
(* The results.                                                            *)

\* The types of all variables: in particular the router's semaphore never holds
\* more than its size, whichever way handlers and tools end.
THEOREM TypeCorrect == Spec => []TypeOK
<1>1. IInv => TypeOK BY DEF IInv, DataType, SlotInv, TypeOK
<1> QED BY <1>1, Inductive, PTL

\* The router's semaphore counts exactly the requests that hold a slot: no
\* early return of a handler or tool leaks one or gives one back twice.
THEOREM SlotAccounting == Spec => []SlotsMatch
<1>1. IInv => SlotsMatch BY DEF IInv, SlotInv
<1> QED BY <1>1, Inductive, PTL

\* An exec never runs in a sandbox that was left on the controller by a session
\* before the one its copy shows, unless a creation that the operator had given up
\* came to its end there.
THEOREM NoOlderSandbox == Spec => []NeverOlderThanCopy
<1>1. IInv => NeverOlderThanCopy
  BY DEF IInv, CopyInv, ExecInv, Ok, Fits, NeverOlderThanCopy
<1> QED BY <1>1, Inductive, PTL

-----------------------------------------------------------------------------
(* What the router deletes.                                                *)

\* The phases of a session that is over.
Finished == {"Deleting", "Terminated"}

\* A session that some copy shows as terminated is over, if it is still there.
Over(s) == s.phase = "Terminated" /\ s.gen # 0 /\ s.gen = sess.gen => sess.phase \in Finished
OverInv == Over(cache) /\ \A r \in Reqs : Over(req[r].copy)

\* A session that is over stays so until it is gone, and the next one is new.
Forward ==
    \/ sess'.gen = 0 \/ sess'.gen > born
    \/ sess'.gen = sess.gen /\ (sess.phase \in Finished => sess'.phase \in Finished)

LEMMA OverKept == ASSUME IInv, Forward, NEW s \in Session, s.gen <= born, Over(s)
                  PROVE  s.phase = "Terminated" /\ s.gen # 0 /\ s.gen = sess'.gen
                           => sess'.phase \in Finished
<1>1. s.gen \in Nat /\ born \in Nat BY DEF Session, IInv, DataType
<1> QED BY <1>1 DEF Forward, Over

\* What a step of a request does: it copies the cache or nothing.
LEMMA RequestSteps ==
    ASSUME NEW r \in Reqs, IInv, Step(r) \/ Refuse(r)
    PROVE  Moves(r) /\ Forward /\ UNCHANGED cache
<1>0. /\ sess \in Session /\ sess.gen \in {0, born} /\ born \in Nat
      /\ sess.gen = 0 => sess = NoSession
  BY DEF IInv, DataType, StoreInv
<1>1. CASE \/ lookupSession(r) \/ lookupSandbox(r) \/ ensureSession(r)
           \/ createAndWaitForSession(r) \/ Relookup(r) \/ Exec(r) \/ Refuse(r)
  <2>1. UNCHANGED <<store, caches>>
    BY <1>1 DEF lookupSession, lookupSandbox, ensureSession, createAndWaitForSession,
                Relookup, Exec, Refuse
  <2> QED BY <1>1, <2>1, ReadingMoves DEF store, caches, Forward
<1>2. CASE CheckRunning(r)
  BY <1>2, CheckMoves DEF CheckRunning, store, caches, Forward
<1>3. CASE resolveDefaultSession(r)
  BY <1>3, DefaultMoves DEF resolveDefaultSession, store, caches, Forward
<1>4. CASE DeleteTerminated(r)
  <2>1. Moves(r) /\ sess' \in {sess, Deleted} /\ UNCHANGED cache
    BY <1>4, DeleteMoves DEF DeleteTerminated, caches
  <2>2. Deleted.gen = 0 \/ (Deleted.gen = sess.gen /\ Deleted.phase = sess.phase)
    BY <1>0, NoSessionType DEF Deleted, Session
  <2> QED BY <2>1, <2>2 DEF Forward
<1>5. CASE CreateSession(r)
  <2>1. Moves(r) /\ UNCHANGED cache BY <1>5, CreateMoves DEF CreateSession, caches
  <2>2. CASE sess' = sess BY <2>1, <2>2 DEF Forward
  <2>3. ASSUME NEW c \in Configs, sess' = NewSession(c) PROVE Forward
    <3>1. sess'.gen = born + 1 BY <2>3 DEF NewSession, NoSession
    <3> QED BY <1>0, <3>1 DEF Forward
  <2> QED BY <1>5, <2>1, <2>2, <2>3, CreateMoves
<1> QED BY <1>1, <1>2, <1>3, <1>4, <1>5 DEF Step

LEMMA OperatorForward ==
    ASSUME IInv,
           \/ AddFinalizer \/ reconcilePending \/ reconcileCreating \/ createFromStale
           \/ CreateLate \/ Evict \/ reconcileDeleting \/ DeleteSession \/ handleDeletion
           \/ PodRestart
    PROVE  Forward /\ UNCHANGED <<cache, req>>
<1>0. sess \in Session BY DEF IInv, DataType
<1>1. UNCHANGED <<cache, req>>
  BY DEF AddFinalizer, reconcilePending, reconcileCreating, createFromStale, CreateLate,
         Evict, reconcileDeleting, DeleteSession, handleDeletion, PodRestart, Others, caches
<1> SUFFICES Forward BY <1>1
<1>2. CASE AddFinalizer BY <1>0, <1>2 DEF AddFinalizer, Forward, Session
<1>3. ASSUME NEW phase \in Phases, SetPhase(phase), sess.phase \in Finished => phase \in Finished
      PROVE  Forward
  BY <1>0, <1>3 DEF SetPhase, Forward, Session
<1>4. CASE reconcilePending
  <2>1. CASE SetPhase("Deleting") BY <1>3, <2>1 DEF Phases, Finished
  <2>2. CASE ~SetPhase("Deleting")
    BY <1>0, <1>4, <2>2 DEF reconcilePending, Forward, Session, Finished
  <2> QED BY <2>1, <2>2
<1>5. CASE reconcileCreating
  <2>0. sess.phase \notin Finished BY <1>5 DEF reconcileCreating, Finished
  <2>1. CASE SetPhase("Deleting") \/ SetPhase("Running") BY <1>3, <2>0, <2>1 DEF Phases
  <2>2. CASE sess' = sess BY <2>2 DEF Forward
  <2>3. CASE sess' = [sess EXCEPT !.phase = "Pending", !.pod = NoPod]
    BY <1>0, <2>0, <2>3 DEF Forward, Session
  <2> QED BY <1>5, <2>1, <2>2, <2>3 DEF reconcileCreating
<1>6. CASE Evict \/ reconcileDeleting BY <1>3, <1>6 DEF Evict, reconcileDeleting, Phases, Finished
<1>7. CASE DeleteSession
  <2>1. Deleted.gen = 0 \/ (Deleted.gen = sess.gen /\ Deleted.phase = sess.phase)
    BY <1>0, NoSessionType DEF Deleted, Session
  <2> QED BY <1>7, <2>1 DEF DeleteSession, Forward
<1>8. CASE handleDeletion BY <1>8, NoSessionType DEF handleDeletion, Forward
<1>9. CASE createFromStale \/ CreateLate \/ PodRestart
  BY <1>9 DEF createFromStale, CreateLate, PodRestart, Forward
<1> QED BY <1>2, <1>4, <1>5, <1>6, <1>7, <1>8, <1>9

LEMMA OverNext == ASSUME IInv, OverInv, [Next]_vars PROVE OverInv'
<1>0. /\ cache \in Session /\ cache.gen <= born
      /\ \A r \in Reqs : req[r].copy \in Session /\ req[r].copy.gen <= born
  BY DEF IInv, DataType, StoreInv, CopyInv, Ok, Request
<1>1. ASSUME Forward, UNCHANGED cache,
             \A r \in Reqs : req'[r].copy \in {req[r].copy, cache, NoSession}
      PROVE  OverInv'
  <2>1. Over(cache)' BY <1>0, <1>1, OverKept DEF Over, OverInv
  <2>2. ASSUME NEW r \in Reqs PROVE Over(req[r].copy)'
    <3>1. CASE req'[r].copy = NoSession BY <3>1, NoSessionType DEF Over
    <3>2. CASE req'[r].copy = cache BY <1>1, <2>1, <3>2 DEF Over
    <3>3. CASE req'[r].copy = req[r].copy
      BY <1>0, <1>1, <3>3, OverKept DEF Over, OverInv
    <3> QED BY <1>1, <3>1, <3>2, <3>3
  <2> QED BY <2>1, <2>2 DEF OverInv
<1>2. ASSUME NEW r \in Reqs, NEW kind \in Kinds, NEW c \in Configs, Start(r, kind, c)
      PROVE  OverInv'
  <2>1. Moves(r) BY <1>2, StartMoves
  <2>2. Forward /\ UNCHANGED cache BY <1>2 DEF Start, store, caches, Forward
  <2> QED BY <1>1, <2>1, <2>2 DEF Moves, Alone
<1>3. ASSUME NEW r \in Reqs, Step(r) \/ Refuse(r) PROVE OverInv'
  BY <1>1, <1>3, RequestSteps DEF Moves, Alone
<1>4. CASE \/ AddFinalizer \/ reconcilePending \/ reconcileCreating \/ createFromStale
           \/ CreateLate \/ Evict \/ reconcileDeleting \/ DeleteSession \/ handleDeletion
           \/ PodRestart
  BY <1>1, <1>4, OperatorForward
<1>5. CASE \/ \E c \in Configs : CreateConfig(c) \/ DeleteConfig(c) \/ ConfigGone(c)
           \/ ConfCacheSync \/ UNCHANGED vars
  <2>1. UNCHANGED <<sess, cache, req>>
    BY <1>5 DEF CreateConfig, DeleteConfig, ConfigGone, ConfCacheSync, vars, caches, store
  <2> QED BY <1>1, <2>1 DEF Forward
<1>6. CASE CacheSync
  <2>1. cache' = [sess EXCEPT !.fin = FALSE] /\ UNCHANGED <<sess, req>>
    BY <1>6 DEF CacheSync, store
  <2>2. cache'.phase = sess.phase BY <2>1 DEF IInv, DataType, Session
  <2> QED BY <2>1, <2>2 DEF Over, OverInv, Finished
<1> QED BY <1>2, <1>3, <1>4, <1>5, <1>6 DEF Next

\* A request that recreates a session deletes one that is over, or a later one
\* than it saw: a copy, however old, that shows a session as terminated is right
\* about that session for good.
THEOREM RecreationIsSafe == Spec => RecreatesOnlyEnded
<1> DEFINE Safe ==
      \A r \in Reqs : DeleteTerminated(r) /\ sess' # sess =>
          \/ sess.phase \in {"Deleting", "Terminated"}
          \/ sess.gen > req[r].copy.gen
<1>1. ASSUME IInv, OverInv PROVE Safe
  <2> SUFFICES ASSUME NEW r \in Reqs, DeleteTerminated(r), sess' # sess
               PROVE  sess.phase \in Finished \/ sess.gen > req[r].copy.gen
    BY DEF Finished
  <2>1. sess.gen = born /\ born # 0 /\ born \in Nat
    BY <1>1 DEF DeleteTerminated, IInv, StoreInv, DataType
  <2>2. req[r].copy.phase = "Terminated" /\ req[r].copy.gen \in Nat /\ req[r].copy.gen <= born
    BY <1>1 DEF DeleteTerminated, IInv, ExecInv, CopyInv, Ok, DataType, Request, Session
  <2>3. Over(req[r].copy) BY <1>1 DEF OverInv
  <2> QED BY <2>1, <2>2, <2>3 DEF Over
<1>2. Init => OverInv
  BY NoSessionType DEF Init, OverInv, Over, Idle
<1>3. IInv /\ OverInv /\ [Next]_vars => OverInv' BY OverNext
<1>4. IInv /\ OverInv /\ [Next]_vars => [Safe]_vars BY <1>1
<1>5. Spec => []OverInv BY <1>2, <1>3, Inductive, PTL DEF Spec
<1> QED BY <1>4, <1>5, Inductive, PTL DEF Spec, RecreatesOnlyEnded

=============================================================================
