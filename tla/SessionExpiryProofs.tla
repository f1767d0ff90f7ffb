------------------------- MODULE SessionExpiryProofs -------------------------
(***************************************************************************)
(* Proofs about the expiry of sessions, for every time to live, retention  *)
(* and number of execs.                                                    *)
(***************************************************************************)
EXTENDS SessionExpiry, TLAPS

\* Everything is typed.
Typed ==
    /\ now \in Nat
    /\ sess \in Session /\ cache \in Session /\ synced \in BOOLEAN
    /\ ttl \in Nat \cup {Nil} /\ ttlSeen \in Nat \cup {Nil}
    /\ rec \in Rec
    /\ queue \in [ready : BOOLEAN, due : Times]
    /\ missed \in BOOLEAN
    /\ exec \in [Execs -> [pc : {"idle", "running", "touch", "done"}, at : Times]]

\* What the copies are worth.
Copies ==
    /\ synced => cache = sess
    /\ rec.pc # "idle" /\ rec.fresh => rec.obj = sess
    /\ rec.pc # "idle" => rec.obj.phase = (IF rec.pc = "decide" THEN "Running" ELSE rec.pc)
    /\ rec.pc = "decide" => ~Slides
    /\ rec.pc # "Gone"

\* A worker whose copy is out of date will be called again.
Recalled == rec.pc # "idle" /\ synced /\ ~queue.ready => rec.fresh

ExpiryInv == Typed /\ Copies /\ Recalled /\ WakeUpPlanned

-----------------------------------------------------------------------------
\* Times stay times.
LEMMA StoredTime == \A t \in Nat : Stored(t) \in Nat
<1> SUFFICES ASSUME NEW t \in Nat PROVE Stored(t) \in Nat
  OBVIOUS
<1>1. Second \in Nat \ {0}
  BY TimesAssumption
<1>2. t \div Second \in Nat
  BY <1>1
<1> QED BY <1>1, <1>2 DEF Stored

\* The idle worker is one.
LEMMA IdleTyped == IdleRec \in Rec /\ NewSession \in Session /\ IdleRec.pc = "idle"
BY DEF IdleRec, Rec, Steps, NewSession, Session, Times, Nil, Phases

\* What adding the key does to the queue.
LEMMA AddedQueue ==
    ASSUME Typed, Added
    PROVE  queue' \in [ready : BOOLEAN, due : Times] /\ queue'.ready
<1>1. PICK d \in {Nil, queue.due} : queue' = [ready |-> TRUE, due |-> d]
  BY DEF Added
<1>2. d \in Times
  BY DEF Typed, Times
<1> QED BY <1>1, <1>2

\* What a timer does to the queue.
LEMMA ArmQueue ==
    ASSUME Typed, NEW t \in Nat, Arm(t)
    PROVE  /\ queue' \in [ready : BOOLEAN, due : Times]
           /\ queue'.ready = queue.ready
           /\ ~queue.ready => queue'.due # Nil /\ queue'.due <= t
BY DEF Typed, Arm, Times, Nil

\* A write either makes the cached copy old or changes nothing.
LEMMA StoreEffect ==
    ASSUME Typed, Copies, NEW o \in Session, Store(o)
    PROVE  /\ sess' = o /\ sess' \in Session /\ cache' = cache
           /\ synced' \in BOOLEAN
           /\ synced' => synced /\ o = sess
           /\ synced' => cache' = sess'
BY DEF Store, Typed, Copies

\* The worker finishes, and the key is in the queue.
LEMMA FinishedAdded ==
    ASSUME ExpiryInv, Finished, Added, Typed', synced' => cache' = sess'
    PROVE  ExpiryInv'
<1>1. rec' = IdleRec /\ rec'.pc = "idle"
  BY IdleTyped DEF Finished
<1>2. queue'.ready
  BY AddedQueue DEF ExpiryInv
<1>3. Copies'
  BY <1>1 DEF Copies
<1>4. Recalled' /\ WakeUpPlanned'
  BY <1>1, <1>2 DEF Recalled, WakeUpPlanned, Planned
<1> QED BY <1>3, <1>4 DEF ExpiryInv

\* Steps that leave the store, the worker and the queue alone.
LEMMA OtherStep ==
    ASSUME ExpiryInv, UNCHANGED <<store, rec, queue, missed>>, Typed'
    PROVE  ExpiryInv'
<1>1. UNCHANGED <<sess, cache, synced, rec, queue, missed>>
  BY DEF store
<1>2. Copies' /\ Recalled'
  BY <1>1 DEF ExpiryInv, Copies, Recalled, Slides
<1>3. WakeUpPlanned'
  BY <1>1 DEF ExpiryInv, WakeUpPlanned, Planned
<1> QED BY <1>2, <1>3 DEF ExpiryInv

\* A patch of the session.
LEMMA PatchStep ==
    ASSUME ExpiryInv, NEW o \in Session, Patch(o), UNCHANGED <<queue, missed>>, Typed'
    PROVE  ExpiryInv'
<1>1. /\ Typed /\ Copies /\ Recalled /\ WakeUpPlanned
      /\ sess' = o /\ cache' = cache
      /\ synced' => synced /\ o = sess /\ cache' = sess'
      /\ rec' = [rec EXCEPT !.fresh = @ /\ o = sess]
  BY StoreEffect DEF ExpiryInv, Patch
<1>2. /\ rec'.pc = rec.pc /\ rec'.obj = rec.obj /\ rec'.ttl = rec.ttl /\ rec'.at = rec.at
      /\ rec'.fresh <=> rec.fresh /\ o = sess
  BY <1>1 DEF Typed, Rec
<1>3. Copies'
  BY <1>1, <1>2 DEF Copies, Slides
<1>4. Recalled'
  BY <1>1, <1>2 DEF Recalled
<1>5. WakeUpPlanned'
  BY <1>1, <1>2 DEF WakeUpPlanned, Planned
<1> QED BY <1>3, <1>4, <1>5 DEF ExpiryInv

\* The events, the timer and a restart.
LEMMA WakeStep ==
    ASSUME ExpiryInv, CacheSync \/ TimerFires \/ Restart
    PROVE  ExpiryInv'
<1>1. CASE CacheSync
  <2>1. queue' \in [ready : BOOLEAN, due : Times] /\ queue'.ready
    BY <1>1, AddedQueue DEF CacheSync, ExpiryInv
  <2>2. UNCHANGED <<now, sess, ttl, ttlSeen, rec, missed, exec>> /\ cache' = sess' /\ synced'
    BY <1>1 DEF CacheSync, config
  <2>3. Typed' /\ Copies'
    BY <2>1, <2>2 DEF ExpiryInv, Typed, Copies, Slides
  <2> QED BY <2>1, <2>2, <2>3 DEF ExpiryInv, Recalled, WakeUpPlanned, Planned
<1>2. CASE TimerFires
  <2>1. queue' \in [ready : BOOLEAN, due : Times] /\ queue'.ready
    BY <1>2 DEF TimerFires, Times
  <2>2. UNCHANGED <<now, sess, cache, synced, ttl, ttlSeen, rec, missed, exec>>
    BY <1>2 DEF TimerFires, store, config
  <2>3. Typed' /\ Copies'
    BY <2>1, <2>2 DEF ExpiryInv, Typed, Copies, Slides
  <2> QED BY <2>1, <2>2, <2>3 DEF ExpiryInv, Recalled, WakeUpPlanned, Planned
<1>3. CASE Restart
  <2>1. queue' \in [ready : BOOLEAN, due : Times] /\ queue'.ready
    BY <1>3 DEF Restart, Times
  <2>2. /\ UNCHANGED <<now, sess, ttl, exec>> /\ cache' = sess' /\ synced'
        /\ rec' = IdleRec /\ ttlSeen' = ttl /\ missed' = FALSE
    BY <1>3 DEF Restart
  <2>3. Typed'
    BY <2>1, <2>2, IdleTyped DEF ExpiryInv, Typed
  <2>4. Copies'
    BY <2>2, IdleTyped DEF Copies
  <2> QED BY <2>1, <2>2, <2>3, <2>4, IdleTyped DEF ExpiryInv, Recalled, WakeUpPlanned, Planned
<1> QED BY <1>1, <1>2, <1>3

\* The worker starts.
LEMMA ReconcileStep == ASSUME ExpiryInv, Reconcile PROVE ExpiryInv'
<1>1. /\ Typed /\ Copies /\ Recalled /\ WakeUpPlanned
      /\ UNCHANGED <<now, sess, cache, synced, ttl, ttlSeen, exec>>
      /\ missed' = FALSE
  BY DEF ExpiryInv, Reconcile, store, config
<1>2. queue' \in [ready : BOOLEAN, due : Times] /\ ~queue'.ready
  BY <1>1 DEF Reconcile, Typed
<1>3. PICK t \in {ttlSeen, Failed, Nil} :
         rec' = IF cache.phase = "Gone" THEN IdleRec
                ELSE [pc |-> cache.phase, obj |-> cache, at |-> now, ttl |-> t,
                      fresh |-> synced]
  BY DEF Reconcile, fetchSandboxConfig
<1>4. CASE cache.phase = "Gone"
  <2>1. rec' = IdleRec
    BY <1>3, <1>4
  <2>2. Typed'
    BY <1>1, <1>2, <2>1, IdleTyped DEF Typed
  <2>3. Copies' /\ Recalled'
    BY <1>1, <2>1, IdleTyped DEF Copies, Recalled
  <2>4. synced => sess.phase = "Gone"
    BY <1>1, <1>4 DEF Copies
  <2>5. WakeUpPlanned'
    BY <1>1, <2>4 DEF WakeUpPlanned, Planned
  <2> QED BY <2>2, <2>3, <2>5 DEF ExpiryInv
<1>5. CASE cache.phase # "Gone"
  <2>1. rec' = [pc |-> cache.phase, obj |-> cache, at |-> now, ttl |-> t, fresh |-> synced]
    BY <1>3, <1>5
  <2>2. cache.phase \in Phases /\ t \in Int
    BY <1>1 DEF Typed, Session, Nil, Failed
  <2>3. rec' \in Rec
    BY <1>1, <2>1, <2>2 DEF Rec, Steps, Typed
  <2>4. Typed'
    BY <1>1, <1>2, <2>3 DEF Typed
  <2>5. rec'.pc # "idle" /\ rec'.pc # "decide" /\ rec'.pc = cache.phase /\ rec'.obj = cache
        /\ rec'.fresh = synced
    BY <2>1, <2>2 DEF Phases
  <2>6. Copies' /\ Recalled'
    BY <1>1, <1>5, <2>5 DEF Copies, Recalled
  <2>7. WakeUpPlanned'
    BY <2>5 DEF WakeUpPlanned, Planned
  <2> QED BY <2>4, <2>6, <2>7 DEF ExpiryInv
<1> QED BY <1>4, <1>5

-----------------------------------------------------------------------------
\* The ends of a reconcile that add the key again.
LEMMA RequeueStep ==
    ASSUME ExpiryInv, Fails \/ reconcilePending \/ expire
    PROVE  ExpiryInv'
<1>0. Typed /\ Copies
  BY DEF ExpiryInv
<1>1. UNCHANGED <<now, ttl, ttlSeen, missed, exec>> /\ Finished /\ Added
  BY DEF Fails, reconcilePending, expire, config
<1>2. queue' \in [ready : BOOLEAN, due : Times] /\ rec' \in Rec
  BY <1>0, <1>1, AddedQueue, IdleTyped DEF Finished
<1>3. (UNCHANGED store) \/ \E o \in Session : Store(o)
  <2>0. rec.obj \in Session
    BY <1>0 DEF Typed, Rec
  <2>1. CASE Fails
    BY <2>1 DEF Fails
  <2>2. CASE expire
    <3>1. [rec.obj EXCEPT !.phase = "Deleting"] \in Session
      BY <2>0 DEF Session, Phases
    <3> QED BY <2>2, <3>1 DEF expire
  <2>3. CASE reconcilePending /\ rec.ttl = Nil
    <3>1. [rec.obj EXCEPT !.phase = "Deleting"] \in Session
      BY <2>0 DEF Session, Phases
    <3> QED BY <2>3, <3>1 DEF reconcilePending
  <2>4. CASE reconcilePending /\ rec.ttl # Nil
    <3>1. PICK t \in Since :
             Store([rec.obj EXCEPT !.phase = "Creating",
                                   !.exp = IF rec.ttl > 0 THEN Stored(t + rec.ttl) ELSE @])
      BY <2>4 DEF reconcilePending
    <3>2. t \in Nat /\ rec.ttl \in Int
      BY <1>0 DEF Since, Typed, Rec
    <3>3. rec.ttl > 0 => Stored(t + rec.ttl) \in Times
      <4>1. rec.ttl > 0 => t + rec.ttl \in Nat
        BY <3>2
      <4> QED BY <4>1, StoredTime DEF Times
    <3>4. [rec.obj EXCEPT !.phase = "Creating",
                          !.exp = IF rec.ttl > 0 THEN Stored(t + rec.ttl) ELSE @] \in Session
      BY <2>0, <3>3 DEF Session, Phases
    <3> QED BY <3>1, <3>4
  <2> QED BY <2>1, <2>2, <2>3, <2>4
<1>4. sess' \in Session /\ cache' \in Session /\ synced' \in BOOLEAN /\ (synced' => cache' = sess')
  BY <1>0, <1>3, StoreEffect DEF store, Typed, Copies
<1>5. Typed'
  BY <1>0, <1>1, <1>2, <1>4 DEF Typed
<1> QED BY <1>1, <1>4, <1>5, FinishedAdded

\* The worker has written another phase: an event is to come.
LEMMA WrittenStep ==
    ASSUME ExpiryInv, NEW o \in Session, Store(o), o # sess, Finished,
           UNCHANGED <<now, config, missed, exec>>,
           queue' \in [ready : BOOLEAN, due : Times]
    PROVE  ExpiryInv'
<1>1. sess' \in Session /\ cache' = cache /\ synced' = FALSE /\ rec' = IdleRec
  BY StoreEffect DEF ExpiryInv, Finished, Store
<1>2. Typed'
  BY <1>1, IdleTyped DEF ExpiryInv, Typed, config
<1>3. Copies' /\ Recalled'
  BY <1>1, IdleTyped DEF Copies, Recalled
<1>4. WakeUpPlanned'
  BY <1>1 DEF WakeUpPlanned, Planned
<1> QED BY <1>2, <1>3, <1>4 DEF ExpiryInv

LEMMA CreatingStep == ASSUME ExpiryInv, reconcileCreating PROVE ExpiryInv'
<1>0. /\ Typed /\ Copies /\ rec.obj \in Session /\ rec.obj = sess /\ rec.obj.phase = "Creating"
      /\ Finished /\ UNCHANGED <<now, config, missed, exec>>
  BY DEF ExpiryInv, reconcileCreating, Typed, Rec, Copies
<1>1. ASSUME NEW ph \in Phases \ {"Creating"}, Store([rec.obj EXCEPT !.phase = ph]),
             queue' \in [ready : BOOLEAN, due : Times]
      PROVE  ExpiryInv'
  <2>1. [rec.obj EXCEPT !.phase = ph] \in Session
    BY <1>0 DEF Session
  <2>2. [rec.obj EXCEPT !.phase = ph] # sess
    BY <1>0 DEF Session
  <2> QED BY <1>0, <1>1, <2>1, <2>2, WrittenStep
<1>2. CASE (Store([rec.obj EXCEPT !.phase = "Deleting"])
              \/ Store([rec.obj EXCEPT !.phase = "Pending"])) /\ Added
  BY <1>0, <1>1, <1>2, AddedQueue DEF Phases
<1>3. CASE /\ Store([rec.obj EXCEPT !.phase = "Running"])
           /\ IF rec.obj.exp > now THEN Arm(rec.obj.exp) ELSE UNCHANGED queue
  <2>1. rec.obj.exp > now => rec.obj.exp \in Nat
    BY <1>0 DEF Typed, Session, Times, Nil
  <2>2. queue' \in [ready : BOOLEAN, due : Times]
    BY <1>0, <1>3, <2>1, ArmQueue DEF Typed
  <2> QED BY <1>1, <1>3, <2>2 DEF Phases
<1> QED BY <1>2, <1>3 DEF reconcileCreating

LEMMA SlideStep == ASSUME ExpiryInv, slide PROVE ExpiryInv'
<1> DEFINE o == [rec.obj EXCEPT !.exp = rec.obj.last + rec.ttl]
<1>0. /\ Typed /\ Copies /\ rec \in Rec /\ rec.obj \in Session /\ rec.obj = sess
      /\ rec.pc = "Running" /\ rec.obj.phase = "Running" /\ rec.fresh
      /\ rec.obj.last # Nil /\ rec.ttl > 0 /\ rec.obj.last + rec.ttl > rec.obj.exp
      /\ Store(o) /\ rec' = [rec EXCEPT !.pc = "decide", !.obj = o]
      /\ UNCHANGED <<now, ttl, ttlSeen, queue, missed, exec>>
  BY DEF ExpiryInv, slide, Slides, Typed, Rec, Copies, config
<1>1. rec.obj.last \in Nat /\ rec.ttl \in Int /\ rec.obj.exp \in Int
  BY <1>0 DEF Session, Rec, Times, Nil
<1>2. rec.obj.last + rec.ttl \in Nat
  BY <1>0, <1>1
<1>3. /\ o \in Session /\ o.exp = rec.obj.last + rec.ttl /\ o.last = rec.obj.last
      /\ o.phase = "Running"
  BY <1>0, <1>2 DEF Session, Times
<1> HIDE DEF o
<1>4. sess' = o /\ cache' = cache /\ synced' \in BOOLEAN /\ (synced' => synced /\ o = sess)
      /\ (synced' => cache' = sess')
  BY <1>0, <1>3, StoreEffect
<1>5. rec' \in Rec /\ rec'.pc = "decide" /\ rec'.obj = o /\ rec'.fresh /\ rec'.ttl = rec.ttl
  BY <1>0, <1>3 DEF Rec, Steps
<1>6. Typed'
  BY <1>0, <1>3, <1>4, <1>5 DEF Typed
<1>7. ~Slides'
  BY <1>1, <1>3, <1>5 DEF Slides
<1>8. Copies' /\ Recalled'
  BY <1>3, <1>4, <1>5, <1>7 DEF Copies, Recalled
<1>9. WakeUpPlanned'
  BY <1>5 DEF WakeUpPlanned, Planned
<1> QED BY <1>6, <1>8, <1>9 DEF ExpiryInv

\* The worker finishes without a write.
LEMMA WaitStep == ASSUME ExpiryInv, wait PROVE ExpiryInv'
<1>0. /\ Typed /\ Copies /\ Recalled /\ rec.obj \in Session
      /\ rec.pc # "idle" /\ rec.obj.phase = "Running"
      /\ rec' = IdleRec /\ rec'.pc = "idle"
      /\ UNCHANGED <<now, sess, cache, synced, ttl, ttlSeen, exec>>
  BY IdleTyped DEF ExpiryInv, wait, Deciding, Typed, Rec, Copies, Finished, store, config
<1>1. CASE rec.obj.exp = Nil
  BY <1>0, <1>1, FinishedAdded, AddedQueue, IdleTyped
     DEF wait, Typed, Copies, Finished
<1>2. CASE rec.obj.exp # Nil /\ rec.obj.exp > now
  <2>1. Arm(rec.obj.exp) /\ missed' = missed /\ rec.obj.exp \in Nat
    BY <1>0, <1>2 DEF wait, Session, Times
  <2>2. /\ queue' \in [ready : BOOLEAN, due : Times]
        /\ queue'.ready = queue.ready
        /\ ~queue.ready => queue'.due # Nil /\ queue'.due <= rec.obj.exp
    BY <1>0, <2>1, ArmQueue
  <2>3. Typed' /\ Copies' /\ Recalled'
    BY <1>0, <2>1, <2>2, IdleTyped DEF Typed, Copies, Recalled
  <2>4. synced /\ ~queue.ready => rec.obj = sess
    BY <1>0 DEF Copies, Recalled
  <2>5. WakeUpPlanned'
    BY <1>0, <2>1, <2>2, <2>4 DEF WakeUpPlanned, Planned
  <2> QED BY <2>3, <2>5 DEF ExpiryInv
<1>3. CASE rec.obj.exp # Nil /\ ~(rec.obj.exp > now)
  <2>1. UNCHANGED queue /\ missed' = TRUE
    BY <1>3 DEF wait
  <2>2. Typed' /\ Copies' /\ Recalled'
    BY <1>0, <2>1, IdleTyped DEF Typed, Copies, Recalled
  <2>3. synced /\ ~queue.ready => rec.obj = sess
    BY <1>0 DEF Copies, Recalled
  <2>4. WakeUpPlanned'
    BY <1>0, <2>1, <2>3 DEF WakeUpPlanned, Planned
  <2> QED BY <2>2, <2>4 DEF ExpiryInv
<1> QED BY <1>1, <1>2, <1>3

LEMMA DeletingStep == ASSUME ExpiryInv, reconcileDeleting PROVE ExpiryInv'
<1>0. /\ Typed /\ Copies /\ rec.obj \in Session /\ rec.obj = sess /\ rec.obj.phase = "Deleting"
      /\ Finished /\ UNCHANGED <<now, config, missed, exec>> /\ Arm(now + Retention)
  BY DEF ExpiryInv, reconcileDeleting, Typed, Rec, Copies
<1>1. PICK t \in Since : Store([rec.obj EXCEPT !.phase = "Terminated", !.term = Stored(t)])
  BY DEF reconcileDeleting
<1>2. Stored(t) \in Times
  <2>1. t \in Nat
    BY <1>0 DEF Since, Typed, Rec
  <2> QED BY <2>1, StoredTime DEF Times
<1>3. [rec.obj EXCEPT !.phase = "Terminated", !.term = Stored(t)] \in Session
  BY <1>0, <1>2 DEF Session, Phases
<1>4. [rec.obj EXCEPT !.phase = "Terminated", !.term = Stored(t)] # sess
  BY <1>0 DEF Session
<1>5. now + Retention \in Nat
  BY <1>0, TimesAssumption DEF Typed
<1>6. queue' \in [ready : BOOLEAN, due : Times]
  BY <1>0, <1>5, ArmQueue
<1> QED BY <1>0, <1>1, <1>3, <1>4, <1>6, WrittenStep

LEMMA TerminatedStep == ASSUME ExpiryInv, reconcileTerminated PROVE ExpiryInv'
<1>0. /\ Typed /\ Copies /\ Recalled /\ rec.obj \in Session
      /\ rec.pc # "idle" /\ rec.obj.phase = "Terminated"
      /\ rec' = IdleRec /\ rec'.pc = "idle" /\ rec' \in Rec
      /\ UNCHANGED <<now, ttl, ttlSeen, missed, exec>>
  BY IdleTyped DEF ExpiryInv, reconcileTerminated, Typed, Rec, Copies, Finished, config
<1>1. synced /\ ~queue.ready => sess.phase = "Terminated"
  BY <1>0 DEF Copies, Recalled
<1>2. CASE rec.obj.retain
  <2>1. UNCHANGED <<sess, cache, synced, queue>>
    BY <1>2 DEF reconcileTerminated, store
  <2>2. Typed' /\ Copies' /\ Recalled'
    BY <1>0, <2>1 DEF Typed, Copies, Recalled
  <2>3. synced /\ ~queue.ready => sess.retain
    BY <1>0, <1>2 DEF Copies, Recalled
  <2>4. WakeUpPlanned'
    BY <1>1, <2>1, <2>3 DEF WakeUpPlanned, Planned
  <2> QED BY <2>2, <2>4 DEF ExpiryInv
<1>3. CASE ~rec.obj.retain /\ now - rec.obj.term < Retention
  <2>1. Arm(rec.obj.term + Retention) /\ UNCHANGED <<sess, cache, synced>>
    BY <1>3 DEF reconcileTerminated, store
  <2>2. rec.obj.term + Retention \in Nat
    BY <1>0, TimesAssumption DEF Session, Times, Nil
  <2>3. /\ queue' \in [ready : BOOLEAN, due : Times] /\ queue'.ready = queue.ready
        /\ ~queue.ready => queue'.due # Nil
    BY <1>0, <2>1, <2>2, ArmQueue
  <2>4. Typed' /\ Copies' /\ Recalled'
    BY <1>0, <2>1, <2>3 DEF Typed, Copies, Recalled
  <2>5. WakeUpPlanned'
    BY <1>1, <2>1, <2>3 DEF WakeUpPlanned, Planned
  <2> QED BY <2>4, <2>5 DEF ExpiryInv
<1>4. CASE ~rec.obj.retain /\ ~(now - rec.obj.term < Retention)
  <2>1. Store([sess EXCEPT !.phase = "Gone"]) /\ UNCHANGED queue
    BY <1>4 DEF reconcileTerminated
  <2>2. [sess EXCEPT !.phase = "Gone"] \in Session /\ [sess EXCEPT !.phase = "Gone"].phase = "Gone"
    BY <1>0 DEF Typed, Session, Phases
  <2>3. /\ sess' \in Session /\ sess'.phase = "Gone" /\ cache' = cache
        /\ synced' \in BOOLEAN /\ (synced' => cache' = sess')
    BY <1>0, <2>1, <2>2, StoreEffect
  <2>4. Typed' /\ Copies' /\ Recalled'
    BY <1>0, <2>1, <2>3 DEF Typed, Copies, Recalled
  <2>5. WakeUpPlanned'
    BY <2>3 DEF WakeUpPlanned
  <2> QED BY <2>4, <2>5 DEF ExpiryInv
<1> QED BY <1>2, <1>3, <1>4

-----------------------------------------------------------------------------
\* The clock, the config and the router's steps.
LEMMA OutsideStep ==
    ASSUME ExpiryInv,
           \/ Tick \/ ConfSync \/ Annotate \/ handleSandboxEvict
           \/ \E t \in TTLs \cup {Nil} : handleSandboxUpdate(t)
           \/ \E e \in Execs : ExecStarts(e) \/ ExecEnds(e) \/ touchLastExecSession(e)
    PROVE  ExpiryInv'
<1>0. Typed /\ Copies
  BY DEF ExpiryInv
<1>1. CASE Tick
  <2>1. now' \in Nat /\ UNCHANGED <<sess, cache, synced, ttl, ttlSeen, rec, queue, missed, exec>>
    BY <1>0, <1>1 DEF Tick, Typed, store, config
  <2>2. Typed'
    BY <1>0, <2>1 DEF Typed
  <2> QED BY <2>1, <2>2, OtherStep DEF store
<1>2. CASE ConfSync \/ \E t \in TTLs \cup {Nil} : handleSandboxUpdate(t)
  <2>1. ttl' \in Nat \cup {Nil} /\ ttlSeen' \in Nat \cup {Nil}
    BY <1>0, <1>2, TimesAssumption DEF Typed, ConfSync, handleSandboxUpdate
  <2>2. UNCHANGED <<now, sess, cache, synced, rec, queue, missed, exec>>
    BY <1>2 DEF ConfSync, handleSandboxUpdate, store
  <2>3. Typed'
    BY <1>0, <2>1, <2>2 DEF Typed
  <2> QED BY <2>2, <2>3, OtherStep DEF store
<1>3. ASSUME NEW o \in Session, Patch(o), UNCHANGED <<now, config, queue, missed>>,
             exec' \in [Execs -> [pc : {"idle", "running", "touch", "done"}, at : Times]]
      PROVE  ExpiryInv'
  <2>1. sess' \in Session /\ cache' = cache /\ synced' \in BOOLEAN
    BY <1>0, <1>3, StoreEffect DEF Patch
  <2>2. rec' \in Rec
    BY <1>0, <1>3 DEF Patch, Typed, Rec
  <2>3. Typed'
    BY <1>0, <1>3, <2>1, <2>2 DEF Typed, config
  <2> QED BY <1>3, <2>3, PatchStep
<1>4. CASE handleSandboxEvict
  <2>1. [sess EXCEPT !.phase = "Deleting"] \in Session
    BY <1>0 DEF Typed, Session, Phases
  <2> QED BY <1>0, <1>3, <1>4, <2>1 DEF handleSandboxEvict, Typed
<1>7. CASE Annotate
  <2>1. [sess EXCEPT !.retain = TRUE] \in Session
    BY <1>0 DEF Typed, Session
  <2> QED BY <1>0, <1>3, <1>7, <2>1 DEF Annotate, Typed
<1>5. ASSUME NEW e \in Execs, ExecStarts(e) \/ ExecEnds(e) PROVE ExpiryInv'
  <2>1. Stored(now) \in Times
    BY <1>0, StoredTime DEF Typed, Times
  <2>2. exec' \in [Execs -> [pc : {"idle", "running", "touch", "done"}, at : Times]]
    BY <1>0, <1>5, <2>1 DEF Typed, ExecStarts, ExecEnds
  <2>3. UNCHANGED <<now, sess, cache, synced, ttl, ttlSeen, rec, queue, missed>>
    BY <1>5 DEF ExecStarts, ExecEnds, store, config
  <2>4. Typed'
    BY <1>0, <2>2, <2>3 DEF Typed
  <2> QED BY <2>3, <2>4, OtherStep DEF store
<1>6. ASSUME NEW e \in Execs, touchLastExecSession(e) PROVE ExpiryInv'
  <2>1. exec' \in [Execs -> [pc : {"idle", "running", "touch", "done"}, at : Times]]
    BY <1>0, <1>6 DEF Typed, touchLastExecSession, Times
  <2>2. CASE Patch([sess EXCEPT !.last = exec[e].at])
    <3>1. [sess EXCEPT !.last = exec[e].at] \in Session
      BY <1>0 DEF Typed, Session
    <3> QED BY <1>3, <1>6, <2>1, <2>2, <3>1 DEF touchLastExecSession
  <2>3. CASE UNCHANGED <<store, rec>>
    <3>1. UNCHANGED <<now, sess, cache, synced, ttl, ttlSeen, rec, queue, missed>>
      BY <1>6, <2>3 DEF touchLastExecSession, store, config
    <3>2. Typed'
      BY <1>0, <2>1, <3>1 DEF Typed
    <3> QED BY <3>1, <3>2, OtherStep DEF store
  <2> QED BY <1>6, <2>2, <2>3 DEF touchLastExecSession
<1> QED BY <1>1, <1>2, <1>4, <1>5, <1>6, <1>7

-----------------------------------------------------------------------------
LEMMA ExpiryInit == Init => ExpiryInv
<1> SUFFICES ASSUME Init PROVE ExpiryInv
  OBVIOUS
<1>1. queue \in [ready : BOOLEAN, due : Times] /\ queue.ready
  BY DEF Init, Times
<1>2. exec \in [Execs -> [pc : {"idle", "running", "touch", "done"}, at : Times]]
  BY DEF Init, Times
<1>3. Typed
  BY <1>1, <1>2, IdleTyped, TimesAssumption DEF Init, Typed
<1>4. Copies /\ Recalled
  BY IdleTyped DEF Init, Copies, Recalled
<1>5. WakeUpPlanned
  BY <1>1 DEF WakeUpPlanned, Planned
<1> QED BY <1>3, <1>4, <1>5 DEF ExpiryInv

LEMMA ExpiryStep == ExpiryInv /\ [Next]_vars => ExpiryInv'
<1> SUFFICES ASSUME ExpiryInv, [Next]_vars PROVE ExpiryInv'
  OBVIOUS
<1>1. CASE UNCHANGED vars
  <2>1. UNCHANGED <<now, sess, cache, synced, ttl, ttlSeen, rec, queue, missed, exec>>
    BY <1>1 DEF vars, store, config
  <2>2. Typed'
    BY <2>1 DEF ExpiryInv, Typed
  <2> QED BY <2>1, <2>2, OtherStep DEF store
<1>2. CASE Tick \/ ConfSync \/ Annotate \/ handleSandboxEvict
  BY <1>2, OutsideStep
<1>3. CASE \E t \in TTLs \cup {Nil} : handleSandboxUpdate(t)
  BY <1>3, OutsideStep
<1>4. CASE \E e \in Execs : ExecStarts(e) \/ ExecEnds(e) \/ touchLastExecSession(e)
  BY <1>4, OutsideStep
<1>5. CASE CacheSync \/ TimerFires \/ Restart
  BY <1>5, WakeStep
<1>6. CASE Reconcile
  BY <1>6, ReconcileStep
<1>7. CASE Fails \/ reconcilePending \/ expire
  BY <1>7, RequeueStep
<1>8. CASE reconcileCreating
  BY <1>8, CreatingStep
<1>9. CASE slide
  BY <1>9, SlideStep
<1>10. CASE wait
  BY <1>10, WaitStep
<1>11. CASE reconcileDeleting
  BY <1>11, DeletingStep
<1>12. CASE reconcileTerminated
  BY <1>12, TerminatedStep
<1> QED
  BY <1>1, <1>2, <1>3, <1>4, <1>5, <1>6, <1>7, <1>8, <1>9, <1>10, <1>11, <1>12
     DEF Next, Worker

\* The inductive invariant of the session's times.
THEOREM ExpiryInvariant == Spec => []ExpiryInv
BY ExpiryInit, ExpiryStep, PTL DEF Spec

\* The operator (session_reconciler.go) never forgets a session: for every time to
\* live, retention and number of execs, a session that is not at its end has a
\* reconcile under way, queued, announced by an event or timed, and a timer that
\* is to end a session is not set later than its expiry; the exception is the
\* reconcile that the expiry overtakes between its two readings of the clock.
THEOREM NeverForgotten == Spec => []WakeUpPlanned
<1>1. ExpiryInv => WakeUpPlanned
  BY DEF ExpiryInv
<1> QED BY <1>1, ExpiryInvariant, PTL

-----------------------------------------------------------------------------
\* The only step that lets a session expire is the guarded one.
LEMMA OnlyExpire == ASSUME ExpiryInv, [Next]_vars, Expiring PROVE expire
<1>0. /\ Typed /\ Copies /\ sess.phase = "Running" /\ sess'.phase = "Deleting"
      /\ rec'.pc # rec.pc /\ rec.obj \in Session
  BY DEF ExpiryInv, Expiring, Typed, Rec
<1>1. sess' # sess
  BY <1>0
<1>2. ~(UNCHANGED vars) /\ ~Tick /\ ~ConfSync /\ ~CacheSync /\ ~TimerFires /\ ~Restart
  BY <1>1 DEF vars, store, Tick, ConfSync, CacheSync, TimerFires, Restart
<1>3. ~(\E t \in TTLs \cup {Nil} : handleSandboxUpdate(t)) /\ ~Reconcile /\ ~Fails /\ ~wait
  BY <1>1 DEF store, handleSandboxUpdate, Reconcile, Fails, wait
<1>4. ASSUME NEW o, Patch(o) PROVE FALSE
  <2>1. rec'.pc = rec.pc
    BY <1>0, <1>4 DEF Patch, Typed, Rec
  <2> QED BY <1>0, <2>1
<1>5. ~Annotate /\ ~handleSandboxEvict
  BY <1>4 DEF Annotate, handleSandboxEvict
<1>6. ~(\E e \in Execs : ExecStarts(e) \/ ExecEnds(e) \/ touchLastExecSession(e))
  BY <1>1, <1>4 DEF store, ExecStarts, ExecEnds, touchLastExecSession
<1>7. ~reconcilePending /\ ~reconcileCreating /\ ~reconcileDeleting
  BY <1>0 DEF Copies, reconcilePending, reconcileCreating, reconcileDeleting
<1>8. ~slide
  <2> SUFFICES ASSUME slide PROVE FALSE
    OBVIOUS
  <2>1. sess' = [rec.obj EXCEPT !.exp = rec.obj.last + rec.ttl] /\ rec.obj.phase = "Running"
    BY <1>0 DEF slide, Store, Copies
  <2>2. sess'.phase = "Running"
    BY <1>0, <2>1 DEF Session
  <2> QED BY <1>0, <2>2
<1>9. ~reconcileTerminated
  <2> SUFFICES ASSUME reconcileTerminated PROVE FALSE
    OBVIOUS
  <2>1. sess' = sess \/ sess' = [sess EXCEPT !.phase = "Gone"]
    BY DEF reconcileTerminated, Store, store
  <2>2. sess'.phase \in {sess.phase, "Gone"}
    BY <1>0, <2>1 DEF Typed, Session
  <2> QED BY <1>0, <2>2
<1> QED
  BY <1>2, <1>3, <1>5, <1>6, <1>7, <1>8, <1>9 DEF Next, Worker

\* reconcileRunning never ends a session on an old copy: when its Update goes
\* through, the stored expiry has passed, and so has the time to live since the
\* last exec that the router recorded.
THEOREM OnlyIdleSessionsExpire == Spec => ExpiresOnlyIdle
<1> DEFINE Idle == /\ sess.exp < rec.at
                   /\ rec.ttl > 0 /\ sess.last # Nil => sess.last + rec.ttl < rec.at
<1>1. ASSUME ExpiryInv, [Next]_vars, Expiring PROVE Idle
  <2>1. expire
    BY <1>1, OnlyExpire
  <2>2. /\ Typed /\ Copies /\ rec \in Rec /\ rec.pc # "idle" /\ rec.obj = sess
        /\ ~Slides /\ rec.obj.exp # Nil /\ rec.at > rec.obj.exp
    BY <1>1, <2>1 DEF ExpiryInv, Typed, Copies, expire, Expired, Deciding
  <2>3. sess.exp \in Int /\ sess.last \in Int /\ rec.ttl \in Int /\ rec.at \in Int
    BY <2>2 DEF Typed, Rec, Session, Times, Nil
  <2>4. rec.ttl > 0 /\ sess.last # Nil => sess.last + rec.ttl <= sess.exp
    BY <2>2, <2>3 DEF Slides
  <2> QED BY <2>2, <2>3, <2>4
<1>2. ExpiryInv /\ [Next]_vars => [Expiring => Idle]_vars
  BY <1>1
<1>3. Spec => [][Expiring => Idle]_vars
  BY <1>2, ExpiryInvariant, PTL DEF Spec
<1> QED BY <1>3 DEF ExpiresOnlyIdle

-----------------------------------------------------------------------------
(* The removal of a terminated session.                                    *)

Ended == {"Terminated", "Deleting", "Gone"}

\* A copy that shows the session terminated, however old, shows the time at
\* which it did: to terminate a second time, after an eviction, it takes a
\* worker that has seen the first.
Removable ==
    /\ cache.phase = "Terminated" =>
          sess.phase \in Ended /\ cache.term = sess.term /\ sess.term # Nil
    /\ rec.pc = "Terminated" =>
          sess.phase \in Ended /\ rec.obj.term = sess.term /\ sess.term # Nil
    /\ sess.phase = "Terminated" => sess.term # Nil
    /\ rec.pc # "idle" /\ rec.fresh => cache.phase = rec.obj.phase

\* The worker ends with a write.
LEMMA RemovableWritten ==
    ASSUME ExpiryInv, Removable, NEW o \in Session, Store(o), Finished, cache.phase # "Terminated",
           o.phase = "Terminated" => o.term # Nil
    PROVE  Removable'
<1>1. sess' = o /\ cache' = cache /\ rec'.pc = "idle"
  BY IdleTyped DEF Store, Finished
<1> QED BY <1>1 DEF Removable

\* The worker ends without one.
LEMMA RemovableKept ==
    ASSUME Removable, UNCHANGED <<sess, cache>>, Finished
    PROVE  Removable'
<1>1. rec'.pc = "idle"
  BY IdleTyped DEF Finished
<1> QED BY <1>1 DEF Removable

\* Somebody else writes.
LEMMA RemovablePatched ==
    ASSUME ExpiryInv, Removable, NEW o \in Session, Patch(o), o.term = sess.term,
           o.phase \in {sess.phase, "Deleting"}
    PROVE  Removable'
<1>1. sess' = o /\ cache' = cache /\ rec' = [rec EXCEPT !.fresh = @ /\ o = sess]
  BY DEF Patch, Store
<1>2. rec \in Rec
  BY DEF ExpiryInv, Typed
<1>3. rec'.pc = rec.pc /\ rec'.obj = rec.obj /\ (rec'.fresh => rec.fresh)
  BY <1>1, <1>2 DEF Rec
<1> QED BY <1>1, <1>3 DEF Removable, Ended

LEMMA RemovableWorker ==
    ASSUME ExpiryInv, Removable, Worker \/ Fails
    PROVE  Removable'
<1>0. /\ Typed /\ Copies /\ rec \in Rec /\ rec.obj \in Session /\ sess \in Session
      /\ rec.pc # "idle" /\ rec.fresh => rec.obj = sess /\ cache.phase = rec.obj.phase
  BY DEF ExpiryInv, Typed, Copies, Rec, Removable
<1>1. CASE Fails \/ wait
  BY <1>1, RemovableKept DEF Fails, wait, store
<1>2. ASSUME NEW ph \in {"Deleting", "Pending", "Running"}, rec.pc # "idle", rec.fresh,
             rec.obj.phase # "Terminated", Store([rec.obj EXCEPT !.phase = ph]), Finished
      PROVE  Removable'
  <2>1. /\ [rec.obj EXCEPT !.phase = ph] \in Session
        /\ [rec.obj EXCEPT !.phase = ph].phase # "Terminated"
    BY <1>0 DEF Session, Phases
  <2> QED BY <1>0, <1>2, <2>1, RemovableWritten
<1>3. CASE reconcilePending
  <2>1. rec.obj.phase = "Pending" /\ rec.pc # "idle" /\ rec.fresh /\ Finished
    BY <1>0, <1>3 DEF reconcilePending, Copies
  <2>2. CASE rec.ttl = Nil
    BY <1>2, <1>3, <2>1, <2>2 DEF reconcilePending
  <2>3. CASE rec.ttl # Nil
    <3>1. PICK t \in Since :
             Store([rec.obj EXCEPT !.phase = "Creating",
                                   !.exp = IF rec.ttl > 0 THEN Stored(t + rec.ttl) ELSE @])
      BY <1>3, <2>3 DEF reconcilePending
    <3>2. sess'.phase = "Creating" /\ cache' = cache /\ rec'.pc = "idle"
      BY <1>0, <2>1, <3>1, IdleTyped DEF Store, Session, Finished
    <3>3. cache.phase = "Pending"
      BY <1>0, <2>1
    <3> QED BY <3>2, <3>3 DEF Removable
  <2> QED BY <2>2, <2>3
<1>4. CASE reconcileCreating
  <2>1. rec.obj.phase = "Creating" /\ rec.pc # "idle" /\ rec.fresh /\ Finished
    BY <1>0, <1>4 DEF reconcileCreating, Copies
  <2> QED BY <1>2, <1>4, <2>1 DEF reconcileCreating
<1>5. CASE expire
  <2>1. rec.obj.phase = "Running" /\ rec.pc # "idle" /\ rec.fresh /\ Finished
    BY <1>0, <1>5 DEF expire, Expired, Deciding, Copies
  <2> QED BY <1>2, <1>5, <2>1 DEF expire
<1>6. CASE slide
  <2> DEFINE o == [rec.obj EXCEPT !.exp = rec.obj.last + rec.ttl]
  <2>1. /\ rec.obj.phase = "Running" /\ rec.pc # "idle" /\ rec.fresh /\ Store(o)
        /\ rec' = [rec EXCEPT !.pc = "decide", !.obj = o]
    BY <1>0, <1>6 DEF slide, Copies
  <2>2. o.phase = "Running"
    BY <1>0, <2>1 DEF Session
  <2> HIDE DEF o
  <2>3. sess' = o /\ cache' = cache /\ rec'.pc = "decide" /\ rec'.obj = o
    BY <1>0, <2>1 DEF Store, Rec
  <2>4. cache.phase = "Running"
    BY <1>0, <2>1
  <2> QED BY <2>2, <2>3, <2>4 DEF Removable
<1>7. CASE reconcileDeleting
  <2>1. rec.obj.phase = "Deleting" /\ rec.pc # "idle" /\ rec.fresh /\ Finished
    BY <1>0, <1>7 DEF reconcileDeleting, Copies
  <2>2. PICK t \in Since : Store([rec.obj EXCEPT !.phase = "Terminated", !.term = Stored(t)])
    BY <1>7 DEF reconcileDeleting
  <2>3. t \in Nat
    BY <1>0 DEF Since, Typed, Rec
  <2>4. Stored(t) \in Nat /\ Stored(t) # Nil
    BY <2>3, StoredTime DEF Nil
  <2>5. sess'.phase = "Terminated" /\ sess'.term = Stored(t) /\ cache' = cache /\ rec'.pc = "idle"
    BY <1>0, <2>1, <2>2, IdleTyped DEF Store, Session, Finished
  <2>6. cache.phase = "Deleting"
    BY <1>0, <2>1
  <2> QED BY <2>4, <2>5, <2>6 DEF Removable
<1>8. CASE reconcileTerminated
  <2>1. CASE UNCHANGED store
    BY <1>8, <2>1, RemovableKept DEF reconcileTerminated, store
  <2>2. CASE Store([sess EXCEPT !.phase = "Gone"])
    <3>1. sess'.phase = "Gone" /\ sess'.term = sess.term /\ cache' = cache /\ rec'.pc = "idle"
      BY <1>0, <1>8, <2>2, IdleTyped DEF reconcileTerminated, Store, Session, Finished
    <3> QED BY <3>1 DEF Removable, Ended
  <2> QED BY <1>8, <2>1, <2>2 DEF reconcileTerminated
<1> QED BY <1>1, <1>3, <1>4, <1>5, <1>6, <1>7, <1>8 DEF Worker

LEMMA RemovableStep == ExpiryInv /\ Removable /\ [Next]_vars => Removable'
<1> SUFFICES ASSUME ExpiryInv, Removable, [Next]_vars PROVE Removable'
  OBVIOUS
<1>0. /\ Typed /\ Copies /\ rec \in Rec /\ sess \in Session /\ cache \in Session
      /\ cache.phase \in Phases
  BY DEF ExpiryInv, Typed, Session
<1>1. CASE UNCHANGED <<sess, cache, rec>>
  BY <1>1 DEF Removable
<1>2. CASE Worker \/ Fails
  BY <1>2, RemovableWorker
<1>3. CASE CacheSync
  <2>1. cache' = sess /\ UNCHANGED <<sess, rec>>
    BY <1>3 DEF CacheSync
  <2> QED BY <1>0, <2>1 DEF Removable, Ended, Copies
<1>4. CASE Restart
  <2>1. cache' = sess /\ sess' = sess /\ rec'.pc = "idle"
    BY <1>4, IdleTyped DEF Restart
  <2> QED BY <2>1 DEF Removable, Ended
<1>5. CASE Reconcile
  <2>1. UNCHANGED <<sess, cache>>
    BY <1>5 DEF Reconcile, store
  <2>2. \/ rec'.pc = "idle"
        \/ rec'.pc = cache.phase /\ rec'.obj = cache
    BY <1>5, IdleTyped DEF Reconcile
  <2> QED BY <2>1, <2>2 DEF Removable
<1>6. CASE handleSandboxEvict
  <2>1. /\ [sess EXCEPT !.phase = "Deleting"] \in Session
        /\ [sess EXCEPT !.phase = "Deleting"].term = sess.term
        /\ [sess EXCEPT !.phase = "Deleting"].phase = "Deleting"
    BY <1>0 DEF Session, Phases
  <2> QED BY <1>6, <2>1, RemovablePatched DEF handleSandboxEvict
<1>9. CASE Annotate
  <2>1. /\ [sess EXCEPT !.retain = TRUE] \in Session
        /\ [sess EXCEPT !.retain = TRUE].term = sess.term
        /\ [sess EXCEPT !.retain = TRUE].phase = sess.phase
    BY <1>0 DEF Session
  <2> QED BY <1>9, <2>1, RemovablePatched DEF Annotate
<1>7. ASSUME NEW e \in Execs, touchLastExecSession(e) PROVE Removable'
  <2>1. /\ [sess EXCEPT !.last = exec[e].at] \in Session
        /\ [sess EXCEPT !.last = exec[e].at].term = sess.term
        /\ [sess EXCEPT !.last = exec[e].at].phase = sess.phase
    BY <1>0 DEF Session, Typed
  <2> QED BY <1>1, <1>7, <2>1, RemovablePatched DEF touchLastExecSession, store
<1>8. CASE \/ Tick \/ ConfSync \/ TimerFires \/ UNCHANGED vars
           \/ \E t \in TTLs \cup {Nil} : handleSandboxUpdate(t)
           \/ \E e \in Execs : ExecStarts(e) \/ ExecEnds(e)
  BY <1>1, <1>8 DEF Tick, ConfSync, TimerFires, vars, handleSandboxUpdate, ExecStarts, ExecEnds,
                    store
<1> QED BY <1>2, <1>3, <1>4, <1>5, <1>6, <1>7, <1>8, <1>9 DEF Next

LEMMA RemovableInvariant == Spec => []Removable
<1>1. Init => Removable
  BY IdleTyped DEF Init, Removable, NewSession
<1> QED BY <1>1, RemovableStep, ExpiryInvariant, PTL DEF Spec

\* The steps that change the stored session, and what they do to it.
LEMMA Writers ==
    ASSUME ExpiryInv, [Next]_vars, sess' # sess
    PROVE  \/ sess' \in Session /\ sess'.phase \in {sess.phase, "Deleting"} /\ sess'.exp = sess.exp
           \/ slide \/ reconcileTerminated
           \/ /\ rec.obj = sess /\ sess.phase \in {"Pending", "Creating", "Running", "Deleting"}
              /\ sess'.phase # sess.phase /\ sess'.phase # "Gone"
<1>0. /\ Typed /\ Copies /\ rec \in Rec /\ sess \in Session /\ rec.obj \in Session
  BY DEF ExpiryInv, Typed, Rec
<1>1. ~(UNCHANGED vars) /\ ~Tick /\ ~ConfSync /\ ~CacheSync /\ ~TimerFires /\ ~Restart
  BY DEF vars, store, Tick, ConfSync, CacheSync, TimerFires, Restart
<1>2. ~(\E t \in TTLs \cup {Nil} : handleSandboxUpdate(t)) /\ ~Reconcile /\ ~Fails /\ ~wait
  BY DEF store, handleSandboxUpdate, Reconcile, Fails, wait
<1>3. CASE handleSandboxEvict
  <2>1. sess' = [sess EXCEPT !.phase = "Deleting"]
    BY <1>3 DEF handleSandboxEvict, Patch, Store
  <2> QED BY <1>0, <2>1 DEF Session, Phases
<1>9. CASE Annotate
  <2>1. sess' = [sess EXCEPT !.retain = TRUE]
    BY <1>9 DEF Annotate, Patch, Store
  <2> QED BY <1>0, <2>1 DEF Session
<1>4. ASSUME NEW e \in Execs, ExecStarts(e) \/ ExecEnds(e) \/ touchLastExecSession(e)
      PROVE  sess' \in Session /\ sess'.phase = sess.phase /\ sess'.exp = sess.exp
  <2>1. sess' = [sess EXCEPT !.last = exec[e].at]
    BY <1>4 DEF ExecStarts, ExecEnds, touchLastExecSession, Patch, Store, store
  <2> QED BY <1>0, <2>1 DEF Session, Typed
<1>5. CASE reconcilePending
  <2>1. rec.obj = sess /\ sess.phase = "Pending"
    BY <1>0, <1>5 DEF reconcilePending, Copies
  <2>2. \E ph \in {"Deleting", "Creating"} : \E x :
          sess' = [rec.obj EXCEPT !.phase = ph, !.exp = x]
    <3>1. CASE rec.ttl = Nil
      <4>1. sess' = [rec.obj EXCEPT !.phase = "Deleting"]
        BY <1>5, <3>1 DEF reconcilePending, Store
      <4>2. sess' = [rec.obj EXCEPT !.phase = "Deleting", !.exp = rec.obj.exp]
        BY <1>0, <4>1 DEF Session
      <4> QED BY <4>2
    <3>2. CASE rec.ttl # Nil
      <4>1. PICK t \in Since :
               sess' = [rec.obj EXCEPT !.phase = "Creating",
                                       !.exp = IF rec.ttl > 0 THEN Stored(t + rec.ttl) ELSE @]
        BY <1>5, <3>2 DEF reconcilePending, Store
      <4> QED BY <4>1
    <3> QED BY <3>1, <3>2
  <2>3. sess'.phase \in {"Deleting", "Creating"}
    BY <1>0, <2>2 DEF Session
  <2> QED BY <2>1, <2>3
<1>6. CASE reconcileCreating
  <2>1. rec.obj = sess /\ sess.phase = "Creating"
    BY <1>0, <1>6 DEF reconcileCreating, Copies
  <2>2. \E ph \in {"Deleting", "Pending", "Running"} : sess' = [rec.obj EXCEPT !.phase = ph]
    BY <1>6 DEF reconcileCreating, Store
  <2>3. sess'.phase \in {"Deleting", "Pending", "Running"}
    BY <1>0, <2>2 DEF Session
  <2> QED BY <2>1, <2>3
<1>7. CASE expire
  <2>1. rec.obj = sess /\ sess.phase = "Running"
    BY <1>0, <1>7 DEF expire, Expired, Deciding, Copies
  <2>2. sess'.phase = "Deleting"
    BY <1>0, <1>7 DEF expire, Store, Session
  <2> QED BY <2>1, <2>2
<1>8. CASE reconcileDeleting
  <2>1. rec.obj = sess /\ sess.phase = "Deleting"
    BY <1>0, <1>8 DEF reconcileDeleting, Copies
  <2>2. PICK t \in Since : sess' = [rec.obj EXCEPT !.phase = "Terminated", !.term = Stored(t)]
    BY <1>8 DEF reconcileDeleting, Store
  <2>3. sess'.phase = "Terminated"
    BY <1>0, <2>2 DEF Session
  <2> QED BY <2>1, <2>3
<1> QED BY <1>1, <1>2, <1>3, <1>4, <1>5, <1>6, <1>7, <1>8, <1>9 DEF Next, Worker

\* reconcileTerminated removes a session only after the retention, counted from
\* the time at which it last terminated, for every retention and whatever the
\* age of its copy; a session that is annotated to be retained is removed only
\* when the annotation came after the copy was read.
THEOREM RemovedAfterRetention == Spec => RetentionKept
<1> DEFINE Late == /\ sess.term # Nil /\ now - sess.term >= Retention
                   /\ sess.retain => ~rec.fresh
           Removed == sess.phase # "Gone" /\ sess'.phase = "Gone"
<1>1. ASSUME ExpiryInv, Removable, [Next]_vars, Removed PROVE Late
  <2>0. Typed /\ sess \in Session /\ sess.term \in Int /\ now \in Int /\ Retention \in Int
    BY <1>1, TimesAssumption DEF ExpiryInv, Typed, Session, Times, Nil
  <2>1. ~slide
    <3> SUFFICES ASSUME slide PROVE FALSE
      OBVIOUS
    <3>1. sess' = [sess EXCEPT !.exp = rec.obj.last + rec.ttl]
      BY <1>1 DEF slide, Store, ExpiryInv, Copies
    <3> QED BY <1>1, <2>0, <3>1 DEF Session
  <2>2. reconcileTerminated
    BY <1>1, <2>1, Writers
  <2>3. sess' # sess
    BY <1>1
  <2>4. rec.pc = "Terminated" /\ ~rec.obj.retain /\ ~(now - rec.obj.term < Retention)
    BY <2>2, <2>3 DEF reconcileTerminated, store
  <2>5. rec.obj.term = sess.term /\ sess.term # Nil
    BY <1>1, <2>4 DEF Removable
  <2>6. rec.fresh => rec.obj = sess
    BY <1>1, <2>4 DEF ExpiryInv, Copies
  <2>7. sess.retain => ~rec.fresh
    BY <2>4, <2>6
  <2> QED BY <2>0, <2>4, <2>5, <2>7
<1>2. ExpiryInv /\ Removable /\ [Next]_vars => [Removed => Late]_vars
  BY <1>1
<1>3. Spec => [][Removed => Late]_vars
  BY <1>2, ExpiryInvariant, RemovableInvariant, PTL DEF Spec
<1> QED BY <1>3 DEF RetentionKept

\* reconcileRunning never brings the expiry of a running session forward: for
\* every order in which execs are recorded, every change of the time to live
\* and every age of the operator's copy.
THEOREM ExpiryNeverShortened == Spec => ExpiryOnlySlides
<1> DEFINE Runs == sess.phase = "Running" /\ sess'.phase = "Running"
<1>1. ASSUME ExpiryInv, [Next]_vars, Runs PROVE sess'.exp >= sess.exp
  <2>0. Typed /\ Copies /\ sess \in Session /\ rec \in Rec /\ sess.exp \in Int
    BY <1>1 DEF ExpiryInv, Typed, Session, Times, Nil
  <2>1. CASE sess'.exp = sess.exp
    BY <2>0, <2>1
  <2>2. CASE slide
    <3>1. rec.obj = sess /\ sess'= [rec.obj EXCEPT !.exp = rec.obj.last + rec.ttl]
          /\ rec.obj.last + rec.ttl > rec.obj.exp
      BY <2>0, <2>2 DEF slide, Store, Copies, Slides
    <3>2. sess'.exp = sess.last + rec.ttl /\ sess.last \in Int /\ rec.ttl \in Int
      BY <2>0, <3>1 DEF Session, Rec, Times, Nil
    <3> QED BY <2>0, <3>1, <3>2
  <2>3. CASE reconcileTerminated
    <3>1. sess' = sess \/ sess' = [sess EXCEPT !.phase = "Gone"]
      BY <2>3 DEF reconcileTerminated, Store, store
    <3>2. sess'.exp = sess.exp
      BY <2>0, <3>1 DEF Session
    <3> QED BY <2>1, <3>2
  <2> QED BY <1>1, <2>1, <2>2, <2>3, Writers
<1>2. ExpiryInv /\ [Next]_vars => [Runs => sess'.exp >= sess.exp]_vars
  BY <1>1
<1>3. Spec => [][Runs => sess'.exp >= sess.exp]_vars
  BY <1>2, ExpiryInvariant, PTL DEF Spec
<1> QED BY <1>3 DEF ExpiryOnlySlides
=============================================================================
