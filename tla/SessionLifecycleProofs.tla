----------------------- MODULE SessionLifecycleProofs -----------------------
(***************************************************************************)
(* Proofs about SessionLifecycle for any sets of sessions and pods.        *)
(***************************************************************************)
EXTENDS SessionLifecycle, TLAPS

\* What every stored version of a Session looks like.
Shape(o) ==
    /\ o.pod # None => o.fin
    /\ o.del => o.fin
    /\ o.phase = "Absent" => o = NoSession
    /\ o.phase \in {"Creating", "Running"} => o.pod # None
    /\ o.phase \in {"New", "Pending"} => o.pod = None

Leaving(o) == o.phase \in {"Absent", "Deleting", "Terminated"} \/ o.del
NotInUse(o) == o.phase \in {"Creating", "Running"} => o.del
Ended == {"Absent", "New", "Deleting", "Terminated"}

\* What the stored version o can be when some reader has seen the version c.
Lag(c, o) ==
    /\ Leaving(c) => NotInUse(o)
    /\ c.phase = "Terminated" => o.phase \in Ended
    /\ c.phase = "Creating" /\ o.phase \in {"Creating", "Running"} => o.pod = c.pod

\* The status the worker is about to store follows from the one it read.
Follows(o, u) ==
    /\ u \in Session /\ u.fin = o.fin /\ ~o.del /\ ~u.del
    /\ \/ o.phase \in {"New", "Pending"} /\ u.phase = "Creating" /\ u.pod \in Pods /\ u.fin
       \/ o.phase = "Creating" /\ u.phase = "Running" /\ u.pod = o.pod
       \/ o.phase = "Creating" /\ u.phase = "Pending" /\ u.pod = None
       \/ o.phase \in {"New", "Pending", "Creating", "Running"} /\ u.phase = "Deleting" /\ u.pod = o.pod
       \/ o.phase = "Deleting" /\ u.phase = "Terminated" /\ u.pod = o.pod

\* What the worker knows at each of its steps.
AtStep(pc, o, u) ==
    /\ pc \in {"deletion", "unfinalize"} <=> o.del
    /\ pc = "pending" => o.phase \in {"New", "Pending"}
    /\ pc = "assign" => o.phase \in {"New", "Pending"} /\ o.fin
    /\ pc \in {"creating", "create"} => o.phase = "Creating"
    /\ pc \in {"running", "expiry"} => o.phase = "Running"
    /\ pc = "deleting" => o.phase = "Deleting"
    /\ pc = "terminated" => o.phase = "Terminated"
    /\ pc = "status" => Follows(o, u)

ShapeInv == \A s \in Sessions : Shape(sess[s]) /\ Shape(cache[s])

\* Every cached copy is an earlier version of what is stored.
CacheInv ==
    \A s \in Sessions : /\ cacheFresh[s] => cache[s] = sess[s]
                        /\ Lag(cache[s], sess[s])

WorkerInv ==
    IF w.pc = "idle" THEN ~w.fresh
    ELSE /\ w.s \in Sessions /\ Exists(w.obj) /\ Shape(w.obj)
         /\ AtStep(w.pc, w.obj, w.upd)
         /\ Lag(w.obj, sess[w.s])
         /\ w.fresh => /\ sess[w.s] = w.obj
                       /\ cache[w.s].phase = w.obj.phase
                       /\ cache[w.s].del = w.obj.del

BackedInv ==
    /\ RunningIsBacked
    /\ w.pc = "status" /\ w.fresh /\ w.upd.phase = "Running" =>
          w.s \in wiped \/ w.s \in sandboxes[w.upd.pod]

\* The sessions, their caches and their worker.
SessionInv ==
    /\ sess \in [Sessions -> Session] /\ cache \in [Sessions -> Session]
    /\ cacheFresh \in [Sessions -> BOOLEAN] /\ w \in Worker
    /\ ShapeInv /\ CacheInv /\ WorkerInv /\ BackedInv

\* A config worker about to write knows the stored config; if it is about to
\* drop the finalizer, no session is in use or about to be assigned.
ConfInv ==
    /\ cw.pc = "finalize" /\ cw.fresh => conf = "Unprotected"
    /\ cw.pc = "unfinalize" /\ cw.fresh =>
          /\ conf = "Deleting" /\ confCache = "Deleting"
          /\ \A s \in Sessions : NotInUse(sess[s])
          /\ w.pc = "status" /\ w.fresh => w.upd.phase # "Creating"

ConfigPart ==
    /\ conf \in ConfStates /\ confCache \in ConfStates
    /\ confCacheFresh \in BOOLEAN /\ cw \in ConfWorker
    /\ confCacheFresh => confCache = conf
    /\ ConfInv

PodPart ==
    /\ sandboxes \in [Pods -> SUBSET Sessions]
    /\ excused \subseteq Pods \X Sessions /\ wiped \subseteq Sessions

IInv == SessionInv /\ ConfigPart /\ PodPart

-----------------------------------------------------------------------------
\* The initial state satisfies the invariant.
LEMMA InitIInv == Init => IInv
  BY NoneAssumption
  DEF Init, IInv, SessionInv, ConfigPart, PodPart, ShapeInv, CacheInv, WorkerInv, BackedInv, ConfInv,
      RunningIsBacked, Shape, Lag, Leaving, NotInUse, Session, Phases,
      NoSession, ConfStates, Worker, WorkerSteps, IdleWorker, ConfWorker,
      IdleConfWorker

\* A write o over the stored version a that starts nothing and moves nothing.
Harmless(a, o) ==
    /\ o \in Session /\ Shape(o)
    /\ o.phase \in {"Creating", "Running"} =>
          o.phase = a.phase /\ o.pod = a.pod /\ (a.del => o.del)
    /\ a.phase \in Ended => o.phase \in Ended

\* Whoever writes a Session behind the worker's back, with or without looking
\* at the stored version, preserves the invariant if the write is harmless.
LEMMA ForeignWriteInv ==
  ASSUME SessionInv, NEW s \in Sessions, NEW o, Harmless(sess[s], o),
         ForeignWrite(s, o), UNCHANGED podVars
  PROVE  /\ SessionInv'
         /\ \A t \in Sessions : NotInUse(sess[t]) => NotInUse(sess'[t])
         /\ w'.pc = w.pc /\ w'.upd = w.upd /\ (w'.fresh => w.fresh)
<1> USE DEF SessionInv, ForeignWrite, Store, podVars
<1>1. /\ sess' \in [Sessions -> Session] /\ cache' \in [Sessions -> Session]
      /\ cacheFresh' \in [Sessions -> BOOLEAN] /\ w' \in Worker
  BY DEF Harmless, Worker
<1>2. ShapeInv'
  BY DEF Harmless, ShapeInv
<1>3. ASSUME NEW t \in Sessions, NEW c, Lag(c, sess[t]) PROVE Lag(c, sess'[t])
  BY <1>3 DEF Lag, Harmless, NotInUse
<1>4. CacheInv'
  BY <1>3 DEF CacheInv
<1>5. w'.pc = w.pc /\ w'.upd = w.upd /\ (w'.fresh => w.fresh) /\ w'.s = w.s
      /\ w'.obj = w.obj /\ (w'.fresh => w.s # s)
  BY DEF Worker
<1>6. WorkerInv'
  BY <1>3, <1>5 DEF WorkerInv
<1>7. BackedInv'
  BY <1>5 DEF BackedInv, RunningIsBacked, Harmless
<1>8. \A t \in Sessions : NotInUse(sess[t]) => NotInUse(sess'[t])
  BY DEF NotInUse, Harmless
<1> QED BY <1>1, <1>2, <1>4, <1>5, <1>6, <1>7, <1>8

\* The writes of the router and of the config reconciler are harmless.
LEMMA HarmlessWrites ==
  ASSUME NEW a \in Session, Shape(a)
  PROVE  /\ ~Exists(a) => Harmless(a, NewSession)
         /\ Exists(a) => Harmless(a, Deleted(a))
         /\ Exists(a) => Harmless(a, [a EXCEPT !.phase = "Deleting"])
         /\ Harmless(a, a)
  BY DEF Harmless, Shape, Session, Phases, NewSession, NoSession, Deleted,
         Exists, Ended

\* Every write behind the worker's back, whatever it does to the config
\* worker short of starting an Update of the config.
LEMMA ForeignStep ==
  ASSUME IInv, NEW s \in Sessions, NEW o, Harmless(sess[s], o),
         ForeignWrite(s, o), UNCHANGED <<confVars, podVars>>,
         cw' \in ConfWorker, cw' = cw \/ cw'.pc \in {"idle", "evict"}
  PROVE  IInv'
<1>1. SessionInv /\ ConfigPart /\ PodPart
  BY DEF IInv
<1>2. /\ SessionInv'
      /\ \A t \in Sessions : NotInUse(sess[t]) => NotInUse(sess'[t])
      /\ w'.pc = w.pc /\ w'.upd = w.upd /\ (w'.fresh => w.fresh)
  BY <1>1, ForeignWriteInv DEF podVars
<1>3. ConfigPart'
  BY <1>1, <1>2 DEF ConfigPart, ConfInv, confVars
<1>4. PodPart'
  BY <1>1 DEF PodPart, podVars
<1> QED BY <1>2, <1>3, <1>4 DEF IInv

LEMMA RouterSessionStep ==
  ASSUME IInv, NEW s \in Sessions,
         \/ CreateSession(s) \/ handleSessionDelete(s)
         \/ handleSandboxEvict(s) \/ touchLastExecSession(s)
  PROVE  IInv'
<1>1. sess[s] \in Session /\ Shape(sess[s]) /\ cw \in ConfWorker
  BY DEF IInv, SessionInv, ConfigPart, ShapeInv
<1>2. cw' \in ConfWorker /\ cw' = cw /\ UNCHANGED <<confVars, podVars>>
  BY <1>1 DEF CreateSession, handleSessionDelete, handleSandboxEvict,
              touchLastExecSession
<1>3. CASE CreateSession(s)
  BY <1>1, <1>2, <1>3, HarmlessWrites, ForeignStep DEF CreateSession
<1>4. CASE handleSessionDelete(s)
  BY <1>1, <1>2, <1>4, HarmlessWrites, ForeignStep DEF handleSessionDelete
<1>5. CASE handleSandboxEvict(s)
  BY <1>1, <1>2, <1>5, HarmlessWrites, ForeignStep DEF handleSandboxEvict
<1>6. CASE touchLastExecSession(s)
  BY <1>1, <1>2, <1>6, HarmlessWrites, ForeignStep DEF touchLastExecSession
<1> QED BY <1>3, <1>4, <1>5, <1>6

LEMMA EvictOneStep ==
  ASSUME IInv, NEW s \in Sessions, EvictOne(s)
  PROVE  IInv'
<1>1. sess[s] \in Session /\ Shape(sess[s]) /\ cw \in ConfWorker
  BY DEF IInv, SessionInv, ConfigPart, ShapeInv
<1>2. cw' \in ConfWorker /\ cw'.pc \in {"idle", "evict"}
  BY <1>1 DEF EvictOne, ConfWorker, IdleConfWorker
<1>3. CASE /\ Exists(sess[s])
           /\ ForeignWrite(s, [sess[s] EXCEPT !.phase = "Deleting"])
  BY <1>1, <1>2, <1>3, HarmlessWrites, ForeignStep DEF EvictOne
<1>4. CASE UNCHANGED <<storeVars, w>>
  <2>1. UNCHANGED <<sess, cache, cacheFresh, w, sandboxes, excused, wiped,
                    conf, confCache, confCacheFresh>>
    BY <1>4 DEF EvictOne, storeVars, confVars, podVars
  <2> QED BY <1>2, <2>1 DEF IInv, SessionInv, ConfigPart, PodPart,
             ShapeInv, CacheInv, WorkerInv, BackedInv, RunningIsBacked, ConfInv
<1> QED BY <1>3, <1>4 DEF EvictOne

\* A delivery of the informer: the stored version is no earlier than itself,
\* and a worker whose copy is current finds the cache current too.
LEMMA CacheSyncStep ==
  ASSUME IInv, NEW s \in Sessions, CacheSync(s)
  PROVE  IInv'
<1> USE DEF IInv, SessionInv, CacheSync
<1>1. ASSUME NEW o PROVE Lag(o, o)
  BY DEF Lag, Leaving, NotInUse, Ended
<1>2. ShapeInv' /\ CacheInv'
  BY <1>1 DEF ShapeInv, CacheInv
<1>3. WorkerInv' /\ BackedInv'
  BY DEF WorkerInv, BackedInv, RunningIsBacked, podVars
<1>4. ConfigPart' /\ PodPart'
  BY DEF ConfigPart, ConfInv, PodPart, confVars, podVars
<1> QED BY <1>2, <1>3, <1>4

\* Steps that leave sessions, their worker and the pods alone.
LEMMA SessionFrame ==
  ASSUME SessionInv, PodPart, UNCHANGED <<storeVars, w, podVars>>
  PROVE  SessionInv' /\ PodPart'
  BY DEF SessionInv, PodPart, storeVars, podVars, ShapeInv, CacheInv,
         WorkerInv, BackedInv, RunningIsBacked

\* The requests that write the config make the config worker's copy stale.
LEMMA RouterConfigStep ==
  ASSUME IInv, handleSandboxCreate \/ handleSandboxUpdate \/ handleSandboxDelete
  PROVE  IInv'
<1>1. UNCHANGED <<storeVars, w, podVars>>
  BY DEF handleSandboxCreate, handleSandboxUpdate, handleSandboxDelete
<1>2. SessionInv' /\ PodPart'
  BY <1>1, SessionFrame DEF IInv
<1>3. /\ conf' \in ConfStates /\ confCache' = confCache
      /\ confCacheFresh' = FALSE /\ cw' = [cw EXCEPT !.fresh = FALSE]
  BY DEF handleSandboxCreate, handleSandboxUpdate, handleSandboxDelete,
         StoreConf, ConfStates, IInv, ConfigPart
<1>4. ConfigPart'
  BY <1>3 DEF ConfigPart, ConfInv, ConfWorker, IInv
<1> QED BY <1>2, <1>4 DEF IInv

LEMMA ConfCacheSyncStep ==
  ASSUME IInv, ConfCacheSync
  PROVE  IInv'
<1>1. SessionInv' /\ PodPart'
  BY SessionFrame DEF IInv, ConfCacheSync
<1>2. ConfigPart'
  BY DEF IInv, ConfigPart, ConfInv, ConfCacheSync, storeVars
<1> QED BY <1>1, <1>2 DEF IInv

\* The heart of config protection: when the cache shows no active session,
\* none is in use, and the worker holds no assignment it could still store.
LEMMA ReconcileConfigStep ==
  ASSUME IInv, ReconcileConfig
  PROVE  IInv'
<1>1. SessionInv' /\ PodPart'
  BY SessionFrame DEF IInv, ReconcileConfig
<1>2. cw' \in ConfWorker
  <2>1. ToEvict \subseteq Sessions
    BY DEF ToEvict, ActiveSessions
  <2> QED BY <2>1 DEF IInv, ConfigPart, ReconcileConfig, StartConf, ConfWorker
<1>3. ASSUME \A s \in Sessions : ~Active(cache[s])
      PROVE  /\ \A s \in Sessions : NotInUse(sess[s])
             /\ w.pc = "status" /\ w.fresh => w.upd.phase # "Creating"
  <2>1. \A s \in Sessions : Leaving(cache[s])
    BY <1>3 DEF Active, Exists, Leaving
  <2>2. \A s \in Sessions : NotInUse(sess[s])
    BY <2>1 DEF IInv, SessionInv, CacheInv, Lag
  <2>3. w.pc = "status" /\ w.fresh => w.upd.phase # "Creating"
    BY <2>1 DEF IInv, SessionInv, WorkerInv, AtStep, Follows, Leaving
  <2> QED BY <2>2, <2>3
<1>4. cw'.pc = "unfinalize" =>
        confCache = "Deleting" /\ \A s \in Sessions : ~Active(cache[s])
  BY DEF ReconcileConfig, StartConf, ActiveSessions
<1>5. cw'.pc = "finalize" => confCache = "Unprotected"
  BY DEF ReconcileConfig, StartConf
<1>6. cw'.fresh => confCacheFresh
  BY DEF ReconcileConfig, StartConf
<1>7. UNCHANGED <<conf, confCache, confCacheFresh, sess, w>>
  BY DEF ReconcileConfig, confVars, storeVars
<1>8. ConfigPart'
  BY <1>2, <1>3, <1>4, <1>5, <1>6, <1>7 DEF ConfigPart, ConfInv, IInv
<1> QED BY <1>1, <1>8 DEF IInv

LEMMA ConfWorkerWrites ==
  ASSUME IInv, UpdateConfig \/ ConfAbort
  PROVE  IInv'
<1>1. SessionInv' /\ PodPart'
  BY SessionFrame DEF IInv, UpdateConfig, ConfAbort
<1>2. cw' = IdleConfWorker
  BY DEF UpdateConfig, ConfAbort, ConfDone
<1>3. cw' \in ConfWorker /\ cw'.pc = "idle"
  BY <1>2 DEF IdleConfWorker, ConfWorker
<1>4. /\ conf' \in ConfStates /\ confCache' = confCache
      /\ confCacheFresh' \in BOOLEAN
      /\ confCacheFresh' => confCacheFresh /\ conf' = conf
  <2>1. CASE UNCHANGED confVars
    BY <2>1 DEF IInv, ConfigPart, confVars
  <2>2. CASE \E c \in ConfStates : StoreConf(c)
    BY <2>2 DEF StoreConf
  <2> QED BY <2>1, <2>2 DEF UpdateConfig, ConfAbort, ConfStates
<1>5. ConfigPart'
  BY <1>3, <1>4 DEF IInv, ConfigPart, ConfInv
<1> QED BY <1>1, <1>5 DEF IInv

-----------------------------------------------------------------------------
\* A step of the session worker that stores nothing.  It may end the
\* reconcile, or go on with the copy it has; an assignment to be stored must
\* come from a config that the cache shows and does not show as deleted.
LEMMA WorkerMove ==
  ASSUME IInv, UNCHANGED <<storeVars, confVars, cw>>, w' \in Worker,
         PodPart', BackedInv',
         \/ w'.pc = "idle" /\ ~w'.fresh
         \/ /\ w.pc # "idle" /\ w'.pc # "idle"
            /\ w'.s = w.s /\ w'.obj = w.obj /\ w'.fresh = w.fresh
            /\ AtStep(w'.pc, w'.obj, w'.upd)
            /\ w'.pc = "status" /\ w'.upd.phase = "Creating" => fetchSandboxConfig
  PROVE  IInv'
<1> USE DEF IInv, storeVars, confVars
<1>1. ShapeInv' /\ CacheInv'
  BY DEF SessionInv, ShapeInv, CacheInv
<1>2. WorkerInv'
  BY DEF SessionInv, WorkerInv
<1>3. SessionInv'
  BY <1>1, <1>2 DEF SessionInv
<1>4. ConfigPart'
  BY DEF ConfigPart, ConfInv, fetchSandboxConfig
<1> QED BY <1>3, <1>4

\* The same when the pods are left alone and nothing is to become Running.
LEMMA WorkerMoveNoCall ==
  ASSUME IInv, UNCHANGED <<storeVars, confVars, cw, podVars>>, w' \in Worker,
         ~(w'.pc = "status" /\ w'.fresh /\ w'.upd.phase = "Running"),
         \/ w'.pc = "idle" /\ ~w'.fresh
         \/ /\ w.pc # "idle" /\ w'.pc # "idle"
            /\ w'.s = w.s /\ w'.obj = w.obj /\ w'.fresh = w.fresh
            /\ AtStep(w'.pc, w'.obj, w'.upd)
            /\ w'.pc = "status" /\ w'.upd.phase = "Creating" => fetchSandboxConfig
  PROVE  IInv'
<1>1. PodPart'
  BY DEF IInv, PodPart, podVars
<1>2. BackedInv'
  BY DEF IInv, SessionInv, BackedInv, RunningIsBacked, podVars, storeVars
<1>3. UNCHANGED <<storeVars, confVars, cw>>
  OBVIOUS
<1> QED BY <1>1, <1>2, <1>3, WorkerMove

\* Done is a return: the idle worker holds nothing.
LEMMA DoneIdle == Done => w' \in Worker /\ w'.pc = "idle" /\ ~w'.fresh
  BY NoneAssumption DEF Done, IdleWorker, NoSession, Worker, WorkerSteps,
                        Session, Phases

\* What Goto and UpdateWith do to the worker.
LEMMA GotoMove ==
  ASSUME w \in Worker, NEW pc \in WorkerSteps, Goto(pc)
  PROVE  /\ w' \in Worker /\ w'.pc = pc
         /\ w'.s = w.s /\ w'.obj = w.obj /\ w'.fresh = w.fresh /\ w'.upd = w.upd
  BY DEF Goto, Worker

LEMMA UpdateMove ==
  ASSUME w \in Worker, NEW o \in Session, UpdateWith(o)
  PROVE  /\ w' \in Worker /\ w'.pc = "status" /\ w'.upd = o
         /\ w'.s = w.s /\ w'.obj = w.obj /\ w'.fresh = w.fresh
  BY DEF UpdateWith, Worker, WorkerSteps

LEMMA AbortStep ==
  ASSUME IInv, Abort
  PROVE  IInv'
  BY DoneIdle, WorkerMoveNoCall DEF Abort

\* Reconcile takes its copy from the cache: what holds of the cached copy and
\* the stored version now holds of the worker's copy.
LEMMA ReconcileStep ==
  ASSUME IInv, NEW s \in Sessions, Reconcile(s)
  PROVE  IInv'
<1> USE DEF Reconcile, storeVars, confVars, podVars
<1>1. /\ cache[s] \in Session /\ Shape(cache[s]) /\ Exists(cache[s])
      /\ Lag(cache[s], sess[s]) /\ cacheFresh[s] \in BOOLEAN
      /\ cacheFresh[s] => cache[s] = sess[s]
  BY DEF IInv, SessionInv, ShapeInv, CacheInv
<1>2. /\ Dispatch(cache[s]) \in WorkerSteps \ {"idle", "status", "unfinalize"}
      /\ AtStep(Dispatch(cache[s]), cache[s], NoSession)
  BY <1>1 DEF Dispatch, WorkerSteps, AtStep, Session, Phases, Exists
<1>3. /\ w'.pc = Dispatch(cache[s]) /\ w'.s = s /\ w'.obj = cache[s]
      /\ w'.upd = NoSession /\ w'.fresh = cacheFresh[s]
  OBVIOUS
<1>4. NoSession \in Session
  BY DEF NoSession, Session, Phases
<1>5. w' \in Worker
  BY <1>1, <1>2, <1>4 DEF Worker
<1>6. WorkerInv'
  BY <1>1, <1>2, <1>3 DEF WorkerInv
<1>7. ShapeInv' /\ CacheInv' /\ PodPart'
  BY DEF IInv, SessionInv, ShapeInv, CacheInv, PodPart
<1>8. BackedInv'
  BY <1>2, <1>3 DEF IInv, SessionInv, BackedInv, RunningIsBacked
<1>9. ConfigPart'
  BY <1>2, <1>3 DEF IInv, ConfigPart, ConfInv
<1> QED BY <1>5, <1>6, <1>7, <1>8, <1>9 DEF IInv, SessionInv

\* DeleteSandbox is only called for a session that is leaving: the stored
\* session cannot be in use, so no session loses the sandbox it runs in.
LEMMA DeleteSandboxPods ==
  ASSUME IInv, UNCHANGED <<sess, wiped>>, w.pc # "idle", Leaving(w.obj),
         NEW p \in Pods,
         \/ /\ sandboxes' = [sandboxes EXCEPT ![p] = @ \ {w.s}]
            /\ excused' = excused \ {<<p, w.s>>}
         \/ /\ UNCHANGED sandboxes
            /\ excused' = excused \cup ({p} \X (sandboxes[p] \cap {w.s}))
         \/ UNCHANGED <<sandboxes, excused>>,
         ~(w'.pc = "status" /\ w'.fresh /\ w'.upd.phase = "Running")
  PROVE  PodPart' /\ BackedInv'
<1>1. w.s \in Sessions /\ NotInUse(sess[w.s])
  BY DEF IInv, SessionInv, WorkerInv, Lag
<1>2. PodPart'
  BY DEF IInv, PodPart
<1>3. \A s \in Sessions : sess[s].phase = "Running" => sess[s].pod \in Pods
  BY DEF IInv, SessionInv, ShapeInv, Shape, Session
<1>4. RunningIsBacked'
  BY <1>1, <1>3 DEF IInv, SessionInv, BackedInv, RunningIsBacked, NotInUse, PodPart
<1> QED BY <1>2, <1>4 DEF BackedInv

LEMMA handleDeletionStep ==
  ASSUME IInv, handleDeletion
  PROVE  IInv'
<1>1. /\ w \in Worker /\ w.obj \in Session /\ w.obj.del /\ w.pc # "idle"
      /\ UNCHANGED <<storeVars, confVars, cw, sess>>
  BY DEF IInv, SessionInv, WorkerInv, AtStep, handleDeletion, Worker, storeVars
<1>2. "unfinalize" \in WorkerSteps
  BY DEF WorkerSteps
<1>3. Goto("unfinalize") =>
        /\ w' \in Worker /\ w'.pc = "unfinalize" /\ w'.s = w.s
        /\ w'.obj = w.obj /\ w'.fresh = w.fresh
        /\ AtStep(w'.pc, w'.obj, w'.upd)
  BY <1>1, <1>2, GotoMove DEF AtStep
<1>4. CASE ~w.obj.fin /\ Done /\ UNCHANGED podVars
  BY <1>1, <1>4, DoneIdle, WorkerMoveNoCall
<1>5. CASE Goto("unfinalize") /\ UNCHANGED podVars
  BY <1>1, <1>3, <1>5, WorkerMoveNoCall
<1>6. CASE /\ w.obj.pod # None /\ UNCHANGED wiped
           /\ DeleteSandbox(w.obj.pod, Goto("unfinalize"))
  <2>1. w.obj.pod \in Pods
    BY <1>1, <1>6 DEF Session
  <2>2. Goto("unfinalize") \/ Done
    BY <1>6 DEF DeleteSandbox
  <2>3. /\ w' \in Worker
        /\ ~(w'.pc = "status" /\ w'.fresh /\ w'.upd.phase = "Running")
    BY <1>3, <2>2, DoneIdle
  <2>4. PodPart' /\ BackedInv'
    BY <1>1, <1>6, <2>1, <2>3, DeleteSandboxPods DEF DeleteSandbox, Leaving
  <2> QED BY <1>1, <1>3, <2>2, <2>3, <2>4, DoneIdle, WorkerMove
<1> QED BY <1>4, <1>5, <1>6 DEF handleDeletion

LEMMA reconcileDeletingStep ==
  ASSUME IInv, reconcileDeleting
  PROVE  IInv'
<1> DEFINE u == [w.obj EXCEPT !.phase = "Terminated"]
<1>1. /\ w \in Worker /\ w.obj \in Session /\ w.pc # "idle"
      /\ w.obj.phase = "Deleting" /\ ~w.obj.del
      /\ UNCHANGED <<storeVars, confVars, cw, sess, wiped>>
  BY DEF IInv, SessionInv, WorkerInv, AtStep, reconcileDeleting, Worker,
         storeVars, podVars
<1>2. u \in Session /\ Follows(w.obj, u) /\ u.phase = "Terminated"
  BY <1>1 DEF Follows, Session, Phases
<1>3. UpdateWith(u) =>
        /\ w' \in Worker /\ w'.pc = "status" /\ w'.s = w.s /\ w'.upd = u
        /\ w'.obj = w.obj /\ w'.fresh = w.fresh
        /\ AtStep(w'.pc, w'.obj, w'.upd)
  BY <1>1, <1>2, UpdateMove DEF AtStep
<1> HIDE DEF u
<1>4. CASE UpdateWith(u) /\ UNCHANGED <<sandboxes, excused>>
  <2>1. UNCHANGED podVars
    BY <1>1, <1>4 DEF podVars
  <2> QED BY <1>1, <1>2, <1>3, <1>4, <2>1, WorkerMoveNoCall
<1>5. CASE w.obj.pod # None /\ DeleteSandbox(w.obj.pod, UpdateWith(u))
  <2>1. w.obj.pod \in Pods
    BY <1>1, <1>5 DEF Session
  <2>2. UpdateWith(u) \/ Done
    BY <1>5 DEF DeleteSandbox
  <2>3. /\ w' \in Worker
        /\ ~(w'.pc = "status" /\ w'.fresh /\ w'.upd.phase = "Running")
    BY <1>2, <1>3, <2>2, DoneIdle
  <2>4. PodPart' /\ BackedInv'
    BY <1>1, <1>5, <2>1, <2>3, DeleteSandboxPods DEF DeleteSandbox, Leaving
  <2> QED BY <1>1, <1>2, <1>3, <2>2, <2>3, <2>4, DoneIdle, WorkerMove
<1> QED BY <1>4, <1>5 DEF reconcileDeleting, u

\* The worker settles on the next status and calls nobody.
LEMMA UpdateStep ==
  ASSUME IInv, w.pc # "idle", ~w.obj.del,
         UNCHANGED <<storeVars, confVars, cw, podVars>>,
         NEW u \in Session, UpdateWith(u), Follows(w.obj, u),
         u.phase # "Running", u.phase = "Creating" => fetchSandboxConfig
  PROVE  IInv'
<1>1. /\ w' \in Worker /\ w'.pc = "status" /\ w'.s = w.s /\ w'.upd = u
      /\ w'.obj = w.obj /\ w'.fresh = w.fresh
  BY UpdateMove DEF IInv, SessionInv
<1>2. AtStep(w'.pc, w'.obj, w'.upd)
  BY <1>1 DEF AtStep
<1> QED BY <1>1, <1>2, WorkerMoveNoCall

LEMMA reconcilePendingStep ==
  ASSUME IInv, reconcilePending
  PROVE  IInv'
<1>1. /\ w \in Worker /\ w.obj \in Session /\ w.pc # "idle" /\ Shape(w.obj)
      /\ w.obj.phase \in {"New", "Pending"} /\ ~w.obj.del /\ w.obj.fin
      /\ UNCHANGED <<storeVars, confVars, cw, podVars>>
  BY DEF IInv, SessionInv, WorkerInv, AtStep, reconcilePending, Worker
<1>2. ASSUME NEW u \in Session, UpdateWith(u), Follows(w.obj, u),
             u.phase # "Running", u.phase = "Creating" => fetchSandboxConfig
      PROVE  IInv'
  BY <1>1, <1>2, UpdateStep
<1>3. CASE UpdateWith([w.obj EXCEPT !.phase = "Deleting"])
  <2>1. /\ [w.obj EXCEPT !.phase = "Deleting"] \in Session
        /\ Follows(w.obj, [w.obj EXCEPT !.phase = "Deleting"])
        /\ [w.obj EXCEPT !.phase = "Deleting"].phase = "Deleting"
    BY <1>1 DEF Follows, Session, Phases
  <2> QED BY <1>2, <1>3, <2>1
<1>4. ASSUME NEW p \in Pods, fetchSandboxConfig,
             UpdateWith([w.obj EXCEPT !.phase = "Creating", !.pod = p])
      PROVE  IInv'
  <2>1. /\ [w.obj EXCEPT !.phase = "Creating", !.pod = p] \in Session
        /\ Follows(w.obj, [w.obj EXCEPT !.phase = "Creating", !.pod = p])
        /\ [w.obj EXCEPT !.phase = "Creating", !.pod = p].phase = "Creating"
    BY <1>1 DEF Follows, Session, Phases
  <2> QED BY <1>2, <1>4, <2>1
<1>5. CASE Done
  BY <1>1, <1>5, DoneIdle, WorkerMoveNoCall
<1> QED BY <1>3, <1>4, <1>5 DEF reconcilePending

\* Retiring a session that has not ended is a status that follows.
LEMMA RetireFollows ==
  ASSUME NEW o \in Session, ~o.del,
         o.phase \in {"New", "Pending", "Creating", "Running"}
  PROVE  /\ [o EXCEPT !.phase = "Deleting"] \in Session
         /\ [o EXCEPT !.phase = "Deleting"].phase = "Deleting"
         /\ Follows(o, [o EXCEPT !.phase = "Deleting"])
  BY DEF Follows, Session, Phases

LEMMA reconcileCreatingStep ==
  ASSUME IInv, reconcileCreating
  PROVE  IInv'
<1>1. /\ w \in Worker /\ w.obj \in Session /\ w.pc # "idle"
      /\ w.obj.phase = "Creating" /\ ~w.obj.del
      /\ UNCHANGED <<storeVars, confVars, cw, podVars>>
  BY DEF IInv, SessionInv, WorkerInv, AtStep, reconcileCreating, Worker
<1>2. CASE UpdateWith([w.obj EXCEPT !.phase = "Deleting"])
  BY <1>1, <1>2, RetireFollows, UpdateStep
<1>3. CASE Goto("create")
  <2>1. "create" \in WorkerSteps
    BY DEF WorkerSteps
  <2>2. /\ w' \in Worker /\ w'.pc = "create" /\ w'.s = w.s
        /\ w'.obj = w.obj /\ w'.fresh = w.fresh
    BY <1>1, <1>3, <2>1, GotoMove
  <2>3. AtStep(w'.pc, w'.obj, w'.upd)
    BY <1>1, <2>2 DEF AtStep
  <2> QED BY <1>1, <2>2, <2>3, WorkerMoveNoCall
<1> QED BY <1>2, <1>3 DEF reconcileCreating

\* The call.  Its copy may be stale, but a session that is Creating or Running
\* is still on the pod the copy names, so a create that clears the mark of a
\* restart does give the session its sandbox.
LEMMA CreateSandboxStep ==
  ASSUME IInv, CreateSandbox
  PROVE  IInv'
<1> DEFINE p == w.obj.pod
           run == [w.obj EXCEPT !.phase = "Running"]
           wait == [w.obj EXCEPT !.phase = "Pending", !.pod = None]
           created == [sandboxes EXCEPT ![p] = @ \cup {w.s}]
<1>1. /\ w \in Worker /\ w.obj \in Session /\ w.pc = "create" /\ w.s \in Sessions
      /\ w.obj.phase = "Creating" /\ ~w.obj.del /\ p \in Pods
      /\ Lag(w.obj, sess[w.s])
      /\ UNCHANGED <<storeVars, confVars, cw, sess>>
  BY DEF IInv, SessionInv, WorkerInv, AtStep, CreateSandbox, Worker, Shape,
         Session, storeVars
<1>2. /\ run \in Session /\ Follows(w.obj, run) /\ run.phase = "Running"
      /\ run.pod = p
      /\ wait \in Session /\ Follows(w.obj, wait) /\ wait.phase = "Pending"
  BY <1>1 DEF Follows, Session, Phases
<1>3. ASSUME NEW u \in Session, Follows(w.obj, u), UpdateWith(u)
      PROVE  /\ w' \in Worker /\ w'.pc = "status" /\ w'.s = w.s /\ w'.upd = u
             /\ w'.obj = w.obj /\ w'.fresh = w.fresh
             /\ AtStep(w'.pc, w'.obj, w'.upd)
  BY <1>1, <1>3, UpdateMove DEF AtStep
<1>4. /\ created \in [Pods -> SUBSET Sessions]
      /\ w.s \in created[p] /\ \A q \in Pods : sandboxes[q] \subseteq created[q]
  BY <1>1 DEF IInv, PodPart
<1>5. \A s \in Sessions : sess[s].phase = "Running" =>
          sess[s].pod \in Pods /\ (s = w.s => sess[s].pod = p)
  BY <1>1 DEF IInv, SessionInv, ShapeInv, Shape, Session, Lag
<1> HIDE DEF p, run, wait, created
<1>6. CASE /\ sandboxes' = created /\ wiped' = wiped \ {w.s} /\ UpdateWith(run)
           /\ excused' = IF sess[w.s].pod = p THEN excused
                         ELSE excused \cup {<<p, w.s>>}
  <2>1. PodPart'
    BY <1>1, <1>4, <1>6 DEF IInv, PodPart
  <2>2. RunningIsBacked'
    BY <1>1, <1>4, <1>5, <1>6 DEF IInv, SessionInv, BackedInv, RunningIsBacked
  <2>3. BackedInv'
    BY <1>2, <1>3, <1>4, <1>6, <2>2 DEF BackedInv
  <2> QED BY <1>1, <1>2, <1>3, <1>6, <2>1, <2>3, WorkerMove
<1>7. CASE /\ sandboxes' \in {sandboxes, created} /\ UNCHANGED wiped
           /\ excused' = excused \cup ({p} \X (sandboxes'[p] \cap {w.s}))
           /\ UpdateWith(wait)
  <2>1. PodPart'
    BY <1>1, <1>4, <1>7 DEF IInv, PodPart
  <2>2. RunningIsBacked'
    BY <1>1, <1>4, <1>5, <1>7 DEF IInv, SessionInv, BackedInv, RunningIsBacked
  <2>3. BackedInv'
    BY <1>2, <1>3, <1>7, <2>2 DEF BackedInv
  <2> QED BY <1>1, <1>2, <1>3, <1>7, <2>1, <2>3, WorkerMove
<1>8. CASE Done /\ UNCHANGED podVars
  BY <1>1, <1>8, DoneIdle, WorkerMoveNoCall
<1> QED BY <1>6, <1>7, <1>8 DEF CreateSandbox, p, run, wait, created

LEMMA reconcileRunningStep ==
  ASSUME IInv, reconcileRunning
  PROVE  IInv'
<1>1. /\ w \in Worker /\ w.obj \in Session /\ w.pc # "idle"
      /\ w.obj.phase = "Running" /\ ~w.obj.del
      /\ UNCHANGED <<storeVars, confVars, cw, podVars>>
  BY DEF IInv, SessionInv, WorkerInv, AtStep, reconcileRunning, Worker
<1>2. CASE UpdateWith([w.obj EXCEPT !.phase = "Deleting"])
  BY <1>1, <1>2, RetireFollows, UpdateStep
<1>3. CASE Done
  BY <1>1, <1>3, DoneIdle, WorkerMoveNoCall
<1> QED BY <1>2, <1>3 DEF reconcileRunning

-----------------------------------------------------------------------------
\* The worker's own writes.  A fresh copy is the stored version, and the cache
\* is at the same phase, so the version stored next lags behind no reader.
LEMMA OwnWrite ==
  ASSUME IInv, w.pc # "idle", w.fresh, NEW u, Store(w.s, u),
         UNCHANGED <<sandboxes, wiped>>,
         \/ w.pc = "status" /\ u = w.upd
         \/ Harmless(w.obj, u)
  PROVE  /\ sess' \in [Sessions -> Session] /\ cache' \in [Sessions -> Session]
         /\ cacheFresh' \in [Sessions -> BOOLEAN]
         /\ ShapeInv' /\ CacheInv' /\ RunningIsBacked'
         /\ cw.pc = "unfinalize" /\ cw.fresh =>
               \A s \in Sessions : NotInUse(sess'[s])
<1> USE DEF IInv, SessionInv, Store
<1>1. /\ w.s \in Sessions /\ sess[w.s] = w.obj /\ Shape(w.obj)
      /\ cache[w.s].phase = w.obj.phase /\ cache[w.s].del = w.obj.del
      /\ AtStep(w.pc, w.obj, w.upd)
  BY DEF WorkerInv
<1>2. CASE w.pc = "status" /\ u = w.upd
  <2>1. Follows(w.obj, u)
    BY <1>1, <1>2 DEF AtStep
  <2>2. u \in Session /\ Shape(u)
    BY <1>1, <2>1, NoneAssumption DEF Follows, Shape, NoSession
  <2>3. Lag(cache[w.s], u)
    BY <1>1, <2>1 DEF CacheInv, Lag, Follows, Leaving, NotInUse, Ended
  <2>4. ShapeInv' /\ CacheInv'
    BY <1>1, <2>2, <2>3 DEF ShapeInv, CacheInv
  <2>5. RunningIsBacked'
    BY <1>1, <1>2, <2>1 DEF BackedInv, RunningIsBacked
  <2>6. cw.pc = "unfinalize" /\ cw.fresh =>
          \A s \in Sessions : NotInUse(sess'[s])
    BY <1>1, <1>2, <2>1 DEF ConfigPart, ConfInv, NotInUse, Follows
  <2> QED BY <1>1, <2>2, <2>4, <2>5, <2>6
<1>3. CASE Harmless(w.obj, u)
  <2>1. ShapeInv' /\ CacheInv'
    BY <1>1, <1>3 DEF ShapeInv, CacheInv, Harmless, Lag, NotInUse
  <2>2. RunningIsBacked'
    BY <1>1, <1>3 DEF BackedInv, RunningIsBacked, Harmless
  <2>3. cw.pc = "unfinalize" /\ cw.fresh =>
          \A s \in Sessions : NotInUse(sess'[s])
    BY <1>1, <1>3 DEF ConfigPart, ConfInv, NotInUse, Harmless
  <2> QED BY <1>1, <1>3, <2>1, <2>2, <2>3 DEF Harmless
<1> QED BY <1>2, <1>3

\* An own write that ends the reconcile.
LEMMA OwnWriteDone ==
  ASSUME IInv, w.pc # "idle", w.fresh, NEW u, Store(w.s, u), Done,
         UNCHANGED <<confVars, cw, sandboxes, wiped>>,
         excused' \subseteq Pods \X Sessions,
         \/ w.pc = "status" /\ u = w.upd
         \/ Harmless(w.obj, u)
  PROVE  IInv'
<1>1. w' \in Worker /\ w'.pc = "idle" /\ ~w'.fresh
  BY DoneIdle
<1>2. SessionInv'
  BY <1>1, OwnWrite DEF SessionInv, WorkerInv, BackedInv
<1>3. ConfigPart'
  BY <1>1, OwnWrite DEF IInv, ConfigPart, ConfInv, confVars
<1>4. PodPart'
  BY DEF IInv, PodPart
<1> QED BY <1>2, <1>3, <1>4 DEF IInv

\* An own write after which the worker goes on with what it wrote.
LEMMA OwnWriteGoesOn ==
  ASSUME IInv, w.pc # "idle", w.fresh, NEW u, Store(w.s, u),
         UNCHANGED <<confVars, cw, podVars>>, Harmless(w.obj, u),
         u.phase = w.obj.phase, u.del = w.obj.del, u.pod = w.obj.pod,
         w' \in Worker, w'.s = w.s, w'.obj = u, w'.fresh = w.fresh,
         w'.pc \notin {"idle", "status"}, AtStep(w'.pc, u, w'.upd)
  PROVE  IInv'
<1>1. UNCHANGED <<sandboxes, wiped>>
  BY DEF podVars
<1>2. WorkerInv'
  <2>1. w.s \in Sessions /\ Exists(w.obj) /\ sess[w.s] = w.obj /\ Lag(w.obj, sess[w.s])
    BY DEF IInv, SessionInv, WorkerInv
  <2>2. sess'[w.s] = u /\ cache'[w.s].phase = u.phase /\ cache'[w.s].del = u.del
    BY <2>1 DEF Store, IInv, SessionInv, WorkerInv
  <2>3. Exists(u) /\ Shape(u) /\ Lag(u, u)
    BY <2>1 DEF Exists, Harmless, Lag, Leaving, NotInUse, Ended
  <2> QED BY <2>1, <2>2, <2>3 DEF WorkerInv
<1>3. SessionInv'
  BY <1>1, <1>2, OwnWrite DEF SessionInv, BackedInv
<1>4. ConfigPart'
  BY <1>1, OwnWrite DEF IInv, ConfigPart, ConfInv, confVars
<1>5. PodPart'
  BY DEF IInv, PodPart, podVars
<1> QED BY <1>3, <1>4, <1>5 DEF IInv

LEMMA StatusUpdateStep ==
  ASSUME IInv, StatusUpdate
  PROVE  IInv'
<1>1. w.pc # "idle" /\ Done /\ UNCHANGED <<confVars, cw, podVars>>
  BY DEF StatusUpdate
<1>2. CASE w.fresh
  BY <1>1, <1>2, OwnWriteDone DEF StatusUpdate, podVars, IInv, PodPart
<1>3. CASE ~w.fresh
  BY <1>1, <1>3, DoneIdle, WorkerMoveNoCall DEF StatusUpdate
<1> QED BY <1>2, <1>3

LEMMA RemoveFinalizerStep ==
  ASSUME IInv, RemoveFinalizer
  PROVE  IInv'
<1>1. w.pc # "idle" /\ Done /\ UNCHANGED <<confVars, cw, sandboxes, wiped>>
  BY DEF RemoveFinalizer
<1>2. CASE w.fresh
  <2>1. w.s \in Sessions
    BY <1>1 DEF IInv, SessionInv, WorkerInv
  <2>2. Harmless(w.obj, NoSession)
    BY DEF Harmless, NoSession, Session, Phases, Shape, Ended
  <2>3. excused' \subseteq Pods \X Sessions
    BY <1>2, <2>1 DEF RemoveFinalizer, IInv, PodPart
  <2> QED BY <1>1, <1>2, <2>2, <2>3, OwnWriteDone DEF RemoveFinalizer
<1>3. CASE ~w.fresh
  BY <1>1, <1>3, DoneIdle, WorkerMoveNoCall DEF RemoveFinalizer, podVars
<1> QED BY <1>2, <1>3

LEMMA AddFinalizerStep ==
  ASSUME IInv, AddFinalizer
  PROVE  IInv'
<1> DEFINE o == [w.obj EXCEPT !.fin = TRUE]
<1>1. /\ w \in Worker /\ w.obj \in Session /\ w.pc # "idle" /\ Shape(w.obj)
      /\ Exists(w.obj) /\ w.obj.phase \in {"New", "Pending"} /\ ~w.obj.del
      /\ UNCHANGED <<confVars, cw, podVars>>
  BY DEF IInv, SessionInv, WorkerInv, AtStep, AddFinalizer, Worker
<1>2. "assign" \in WorkerSteps
  BY DEF WorkerSteps
<1>3. CASE w.obj.fin /\ Goto("assign") /\ UNCHANGED storeVars
  <2>1. /\ w' \in Worker /\ w'.pc = "assign" /\ w'.s = w.s
        /\ w'.obj = w.obj /\ w'.fresh = w.fresh
    BY <1>1, <1>2, <1>3, GotoMove
  <2>2. AtStep(w'.pc, w'.obj, w'.upd)
    BY <1>1, <1>3, <2>1 DEF AtStep
  <2> QED BY <1>1, <1>3, <2>1, <2>2, WorkerMoveNoCall
<1>4. CASE /\ w.fresh /\ Store(w.s, o)
           /\ w' = [w EXCEPT !.pc = "assign", !.obj = o]
  <2>1. /\ o \in Session /\ o.phase = w.obj.phase /\ o.del = w.obj.del
        /\ o.pod = w.obj.pod /\ o.fin
    BY <1>1 DEF Session
  <2>2. Harmless(w.obj, o)
    BY <1>1, <2>1 DEF Harmless, Shape, Ended
  <2>3. /\ w' \in Worker /\ w'.s = w.s /\ w'.obj = o /\ w'.fresh = w.fresh
        /\ w'.pc = "assign"
    BY <1>1, <1>2, <1>4, <2>1 DEF Worker
  <2>4. AtStep(w'.pc, o, w'.upd)
    BY <1>1, <2>1, <2>3 DEF AtStep
  <2> HIDE DEF o
  <2> QED BY <1>1, <1>4, <2>1, <2>2, <2>3, <2>4, OwnWriteGoesOn
<1>5. CASE Done /\ UNCHANGED storeVars
  BY <1>1, <1>5, DoneIdle, WorkerMoveNoCall
<1> QED BY <1>3, <1>4, <1>5 DEF AddFinalizer

LEMMA SlideExpiryStep ==
  ASSUME IInv, SlideExpiry
  PROVE  IInv'
<1>1. /\ w \in Worker /\ w.obj \in Session /\ w.pc # "idle" /\ Shape(w.obj)
      /\ w.obj.phase = "Running" /\ ~w.obj.del
      /\ UNCHANGED <<confVars, cw, podVars>>
  BY DEF IInv, SessionInv, WorkerInv, AtStep, SlideExpiry, Worker
<1>2. "expiry" \in WorkerSteps
  BY DEF WorkerSteps
<1>3. ASSUME Goto("expiry")
      PROVE  /\ w' \in Worker /\ w'.pc = "expiry" /\ w'.s = w.s
             /\ w'.obj = w.obj /\ w'.fresh = w.fresh
             /\ AtStep(w'.pc, w'.obj, w'.upd)
  BY <1>1, <1>2, <1>3, GotoMove DEF AtStep
<1>4. CASE Goto("expiry") /\ UNCHANGED storeVars
  BY <1>1, <1>3, <1>4, WorkerMoveNoCall
<1>5. CASE w.fresh /\ Store(w.s, w.obj) /\ Goto("expiry")
  <2>1. Harmless(w.obj, w.obj)
    BY <1>1, HarmlessWrites
  <2> QED BY <1>1, <1>3, <1>5, <2>1, OwnWriteGoesOn
<1>6. CASE Done /\ UNCHANGED storeVars
  BY <1>1, <1>6, DoneIdle, WorkerMoveNoCall
<1> QED BY <1>4, <1>5, <1>6 DEF SlideExpiry

\* Delete by name: the stored version need not be the one the worker read.
LEMMA reconcileTerminatedStep ==
  ASSUME IInv, reconcileTerminated
  PROVE  IInv'
<1>1. /\ w.pc # "idle" /\ w.s \in Sessions /\ sess[w.s] \in Session
      /\ Shape(sess[w.s]) /\ Done /\ UNCHANGED <<confVars, cw, podVars>>
  BY DEF IInv, SessionInv, WorkerInv, ShapeInv, reconcileTerminated
<1>2. w' \in Worker /\ w'.pc = "idle" /\ ~w'.fresh
  BY <1>1, DoneIdle
<1>3. CASE UNCHANGED storeVars
  BY <1>1, <1>2, <1>3, WorkerMoveNoCall
<1>4. CASE Exists(sess[w.s]) /\ Store(w.s, Deleted(sess[w.s]))
  <2>1. Harmless(sess[w.s], Deleted(sess[w.s]))
    BY <1>1, <1>4, HarmlessWrites
  <2>2. /\ sess' \in [Sessions -> Session] /\ cache' \in [Sessions -> Session]
        /\ cacheFresh' \in [Sessions -> BOOLEAN] /\ ShapeInv' /\ CacheInv'
    BY <1>1, <1>4, <2>1 DEF IInv, SessionInv, Store, Harmless, ShapeInv,
                            CacheInv, Lag, NotInUse
  <2>3. WorkerInv'
    BY <1>2 DEF WorkerInv
  <2>4. BackedInv'
    BY <1>1, <1>2, <1>4, <2>1 DEF IInv, SessionInv, BackedInv, RunningIsBacked,
                                  Store, Harmless, podVars
  <2>5. ConfigPart'
    BY <1>1, <1>2, <1>4, <2>1 DEF IInv, SessionInv, ConfigPart, ConfInv,
                                  Store, Harmless, NotInUse, confVars
  <2>6. PodPart'
    BY <1>1 DEF IInv, PodPart, podVars
  <2> QED BY <1>2, <2>2, <2>3, <2>4, <2>5, <2>6 DEF IInv, SessionInv
<1> QED BY <1>3, <1>4 DEF reconcileTerminated

\* A restart takes the sandboxes of a pod, and marks the sessions it had.
LEMMA PodRestartStep ==
  ASSUME IInv, NEW p \in Pods, PodRestart(p)
  PROVE  IInv'
<1> USE DEF PodRestart
<1>1. UNCHANGED <<sess, cache, cacheFresh, w, cw>> /\ UNCHANGED confVars
  BY DEF storeVars
<1>2. PodPart'
  BY DEF IInv, PodPart
<1>3. ASSUME NEW s \in Sessions, s \in wiped \/ s \in sandboxes[sess[s].pod]
      PROVE  s \in wiped' \/ s \in sandboxes'[sess[s].pod]
  BY <1>3 DEF IInv, PodPart
<1>4. RunningIsBacked'
  BY <1>1, <1>3 DEF IInv, SessionInv, BackedInv, RunningIsBacked
<1>5. w.pc = "status" /\ w.fresh /\ w.upd.phase = "Running" =>
        w.upd.pod = sess[w.s].pod /\ w.s \in Sessions
  BY DEF IInv, SessionInv, WorkerInv, AtStep, Follows
<1>6. BackedInv'
  BY <1>1, <1>3, <1>4, <1>5 DEF IInv, SessionInv, BackedInv
<1>7. SessionInv'
  BY <1>1, <1>6 DEF IInv, SessionInv, ShapeInv, CacheInv, WorkerInv
<1>8. ConfigPart'
  BY <1>1 DEF IInv, ConfigPart, ConfInv, confVars
<1> QED BY <1>2, <1>7, <1>8 DEF IInv

-----------------------------------------------------------------------------
\* Every step preserves the invariant.
LEMMA NextIInv == IInv /\ [Next]_vars => IInv'
<1> SUFFICES ASSUME IInv, [Next]_vars PROVE IInv'
  OBVIOUS
<1>1. CASE RouterStep
  BY <1>1, RouterSessionStep, RouterConfigStep DEF RouterStep
<1>2. CASE \E s \in Sessions : CacheSync(s) \/ Reconcile(s)
  BY <1>2, CacheSyncStep, ReconcileStep
<1>3. CASE ConfCacheSync
  BY <1>3, ConfCacheSyncStep
<1>4. CASE WorkerStep
  BY <1>4, handleDeletionStep, RemoveFinalizerStep, AddFinalizerStep,
     reconcilePendingStep, reconcileCreatingStep, CreateSandboxStep,
     SlideExpiryStep, reconcileRunningStep, reconcileDeletingStep,
     reconcileTerminatedStep, StatusUpdateStep DEF WorkerStep
<1>5. CASE Abort
  BY <1>5, AbortStep
<1>6. CASE ConfWorkerStep
  BY <1>6, ReconcileConfigStep, ConfWorkerWrites, EvictOneStep DEF ConfWorkerStep
<1>7. CASE ConfAbort
  BY <1>7, ConfWorkerWrites
<1>8. CASE \E p \in Pods : PodRestart(p)
  BY <1>8, PodRestartStep
<1>9. CASE UNCHANGED vars
  <2>1. UNCHANGED <<storeVars, w, podVars>> /\ UNCHANGED confVars /\ cw' = cw
        /\ sess' = sess
    BY <1>9 DEF vars, storeVars
  <2>2. SessionInv' /\ PodPart'
    BY <2>1, SessionFrame DEF IInv
  <2>3. ConfigPart'
    BY <2>1 DEF IInv, ConfigPart, ConfInv, confVars
  <2> QED BY <2>2, <2>3 DEF IInv
<1> QED BY <1>1, <1>2, <1>3, <1>4, <1>5, <1>6, <1>7, <1>8, <1>9 DEF Next

LEMMA Invariance == Spec => []IInv
  BY InitIInv, NextIInv, PTL DEF Spec

\* The types of the stored objects, the caches and both workers, for every
\* interleaving of the operator, the router and pod restarts.
THEOREM TypeCorrect == Spec => []TypeOK
<1>1. IInv => TypeOK
  BY DEF IInv, SessionInv, ConfigPart, PodPart, TypeOK
<1> QED BY <1>1, Invariance, PTL

\* reconcilePending stores the finalizer before it assigns a pod, and no other
\* writer takes it away: an assigned session always carries it.
THEOREM FinalizerBeforeAssignment == Spec => []AssignedIsFinalized
<1>1. IInv => AssignedIsFinalized
  BY DEF IInv, SessionInv, ShapeInv, Shape, AssignedIsFinalized
<1> QED BY <1>1, Invariance, PTL

\* A session that shows Running is backed by a sandbox on its pod unless that
\* pod restarted: creates retried from stale copies and deletes of leaving
\* sessions never take the sandbox of a session in use.
THEOREM RunningSessionsAreBacked == Spec => []RunningIsBacked
<1>1. IInv => RunningIsBacked
  BY DEF IInv, SessionInv, BackedInv
<1> QED BY <1>1, Invariance, PTL

\* The config reconciler drops its finalizer only when no session is in use,
\* although it counted sessions in a cache that may lag.
THEOREM ConfigProtection == Spec => ConfigOutlivesSessions
<1> DEFINE P == conf = "Deleting" /\ conf' = "Absent" =>
                  \A s \in Sessions :
                      sess[s].phase \in {"Creating", "Running"} => sess[s].del
<1>1. IInv /\ [Next]_vars => P
  <2> SUFFICES ASSUME IInv, [Next]_vars, conf = "Deleting", conf' = "Absent"
               PROVE  \A s \in Sessions : NotInUse(sess[s])
    BY DEF NotInUse
  <2>1. UpdateConfig
    BY DEF Next, vars, RouterStep, WorkerStep, ConfWorkerStep, CreateSession,
       handleSessionDelete, handleSandboxEvict, touchLastExecSession,
       handleSandboxCreate, handleSandboxUpdate, handleSandboxDelete, StoreConf,
       CacheSync, Reconcile, ConfCacheSync, handleDeletion, RemoveFinalizer,
       AddFinalizer, reconcilePending, reconcileCreating, CreateSandbox,
       SlideExpiry, reconcileRunning, reconcileDeleting, reconcileTerminated,
       StatusUpdate, Abort, ReconcileConfig, EvictOne, ConfAbort, PodRestart,
       confVars
  <2>2. cw.pc = "unfinalize" /\ cw.fresh
    BY <2>1 DEF UpdateConfig, StoreConf, confVars
  <2> QED BY <2>2 DEF IInv, ConfigPart, ConfInv
<1>2. IInv /\ [Next]_vars => [P]_vars
  BY <1>1
<1> QED BY <1>2, Invariance, PTL DEF Spec, ConfigOutlivesSessions

-----------------------------------------------------------------------------
\* The refinement: first, what a write does to the contract's variables.
\* A step that keeps phase, pod and deletion mark is a stutter.
LEMMA KeepsIsStutter ==
  ASSUME \A s \in Sessions : /\ sess'[s].phase = sess[s].phase
                             /\ sess'[s].pod = sess[s].pod
                             /\ sess'[s].del = sess[s].del
  PROVE  UNCHANGED Contract!cvars
  BY DEF Contract!cvars

\* A write of the stored version that only moves it as the contract allows.
Allowed(a, o) ==
    \/ o.phase = a.phase /\ o.pod = a.pod /\ (a.del => o.del) /\ Exists(a)
    \/ Exists(a) /\ o.phase = "Deleting" /\ o.pod = a.pod /\ o.del = a.del
    \/ ~Exists(a) /\ o = NewSession
    \/ o = NoSession /\ (a.del \/ a.pod = None)
    \/ Follows(a, o)

LEMMA AllowedStep ==
  ASSUME sess \in [Sessions -> Session], NEW s \in Sessions, NEW o \in Session,
         Store(s, o), Shape(sess[s]), Allowed(sess[s], o)
  PROVE  [Contract!CNext]_(Contract!cvars)
<1> DEFINE ph == [t \in Sessions |-> sess[t].phase]
           pd == [t \in Sessions |-> sess[t].pod]
           dm == [t \in Sessions |-> sess[t].del]
<1>1. /\ ph' = [ph EXCEPT ![s] = o.phase] /\ pd' = [pd EXCEPT ![s] = o.pod]
      /\ dm' = [dm EXCEPT ![s] = o.del]
      /\ (o.pod = sess[s].pod => pd' = pd) /\ (o.del = sess[s].del => dm' = dm)
      /\ (o.phase = sess[s].phase => ph' = ph)
  BY DEF Store
<1>2. ph[s] = sess[s].phase /\ pd[s] = sess[s].pod /\ dm[s] = sess[s].del
  OBVIOUS
<1>3. CASE /\ o.phase = sess[s].phase /\ o.pod = sess[s].pod
           /\ (sess[s].del => o.del) /\ Exists(sess[s])
  <2>1. CASE o.del = sess[s].del
    <3>1. \A t \in Sessions : /\ sess'[t].phase = sess[t].phase
                              /\ sess'[t].pod = sess[t].pod
                              /\ sess'[t].del = sess[t].del
      BY <1>3, <2>1 DEF Store
    <3> QED BY <3>1, KeepsIsStutter
  <2>2. CASE o.del # sess[s].del
    <3>1. o.del = TRUE
      BY <1>3, <2>2 DEF Session
    <3>2. Contract!Doom(s)
      BY <1>1, <1>3, <3>1 DEF Contract!Doom, Exists
    <3> QED BY <3>2 DEF Contract!CNext
  <2> QED BY <2>1, <2>2
<1>4. CASE /\ Exists(sess[s]) /\ o.phase = "Deleting" /\ o.pod = sess[s].pod
           /\ o.del = sess[s].del
  <2>1. Contract!Retire(s)
    BY <1>1, <1>4 DEF Contract!Retire, Exists
  <2> QED BY <2>1 DEF Contract!CNext
<1>5. CASE ~Exists(sess[s]) /\ o = NewSession
  <2>1. /\ o.phase = "New" /\ o.pod = None /\ o.del = FALSE
        /\ sess[s].pod = None /\ sess[s].del = FALSE
    BY <1>5 DEF NewSession, NoSession, Shape, Exists
  <2>2. Contract!Create(s)
    BY <1>1, <1>5, <2>1 DEF Contract!Create, Exists
  <2> QED BY <2>2 DEF Contract!CNext
<1>6. CASE o = NoSession /\ (sess[s].del \/ sess[s].pod = None)
  <2>1. o.phase = "Absent" /\ o.pod = None /\ o.del = FALSE
    BY <1>6 DEF NoSession
  <2>2. Contract!Vanish(s)
    BY <1>1, <1>6, <2>1 DEF Contract!Vanish
  <2> QED BY <2>2 DEF Contract!CNext
<1>7. CASE Follows(sess[s], o)
  <2>1. o.del = FALSE /\ sess[s].del = FALSE
    BY <1>7 DEF Follows, Session
  <2>2. CASE /\ sess[s].phase \in {"New", "Pending"} /\ o.phase = "Creating"
             /\ o.pod \in Pods
    <3>1. Contract!Assign(s, o.pod)
      BY <1>1, <2>1, <2>2 DEF Contract!Assign
    <3> QED BY <2>2, <3>1 DEF Contract!CNext
  <2>3. CASE /\ sess[s].phase = "Creating" /\ o.phase = "Running"
             /\ o.pod = sess[s].pod
    <3>1. Contract!Start(s)
      BY <1>1, <2>1, <2>3 DEF Contract!Start
    <3> QED BY <3>1 DEF Contract!CNext
  <2>4. CASE sess[s].phase = "Creating" /\ o.phase = "Pending" /\ o.pod = None
    <3>1. Contract!Reassign(s)
      BY <1>1, <2>1, <2>4 DEF Contract!Reassign
    <3> QED BY <3>1 DEF Contract!CNext
  <2>5. CASE /\ sess[s].phase \in {"New", "Pending", "Creating", "Running"}
             /\ o.phase = "Deleting" /\ o.pod = sess[s].pod
    BY <1>4, <2>1, <2>5 DEF Exists
  <2>6. CASE /\ sess[s].phase = "Deleting" /\ o.phase = "Terminated"
             /\ o.pod = sess[s].pod
    <3>1. Contract!Terminate(s)
      BY <1>1, <2>1, <2>6 DEF Contract!Terminate
    <3> QED BY <3>1 DEF Contract!CNext
  <2> QED BY <1>7, <2>2, <2>3, <2>4, <2>5, <2>6 DEF Follows
<1> QED BY <1>3, <1>4, <1>5, <1>6, <1>7 DEF Allowed

LEMMA AllowedWrites ==
  ASSUME NEW a \in Session, Shape(a)
  PROVE  /\ ~Exists(a) => Allowed(a, NewSession) /\ NewSession \in Session
         /\ Exists(a) => Allowed(a, Deleted(a)) /\ Deleted(a) \in Session
         /\ Exists(a) => /\ Allowed(a, [a EXCEPT !.phase = "Deleting"])
                         /\ [a EXCEPT !.phase = "Deleting"] \in Session
         /\ Exists(a) => Allowed(a, a)
         /\ a.del => Allowed(a, NoSession) /\ NoSession \in Session
         /\ Exists(a) => /\ Allowed(a, [a EXCEPT !.fin = TRUE])
                         /\ [a EXCEPT !.fin = TRUE] \in Session
  BY DEF Allowed, Shape, Session, Phases, NewSession, NoSession, Deleted, Exists

\* Every step leaves the stored sessions alone or is an allowed write of one.
LEMMA EveryWriteAllowed ==
  ASSUME IInv, [Next]_vars
  PROVE  \/ UNCHANGED sess
         \/ \E s \in Sessions, o \in Session : Store(s, o) /\ Allowed(sess[s], o)
<1> DEFINE Goal == \/ UNCHANGED sess
                   \/ \E s \in Sessions, o \in Session :
                         Store(s, o) /\ Allowed(sess[s], o)
<1>1. \A s \in Sessions : sess[s] \in Session /\ Shape(sess[s])
  BY DEF IInv, SessionInv, ShapeInv
<1>2. w.pc # "idle" =>
        /\ w.s \in Sessions /\ AtStep(w.pc, w.obj, w.upd)
        /\ (w.fresh => sess[w.s] = w.obj) /\ Exists(w.obj)
  BY DEF IInv, SessionInv, WorkerInv
<1>3. ASSUME NEW s \in Sessions, CreateSession(s) PROVE Goal
  BY <1>1, <1>3, AllowedWrites DEF CreateSession, ForeignWrite
<1>4. ASSUME NEW s \in Sessions, handleSessionDelete(s) PROVE Goal
  BY <1>1, <1>4, AllowedWrites DEF handleSessionDelete, ForeignWrite
<1>5. ASSUME NEW s \in Sessions, handleSandboxEvict(s) PROVE Goal
  BY <1>1, <1>5, AllowedWrites DEF handleSandboxEvict, ForeignWrite
<1>6. ASSUME NEW s \in Sessions, touchLastExecSession(s) PROVE Goal
  BY <1>1, <1>6, AllowedWrites DEF touchLastExecSession, ForeignWrite
<1>7. ASSUME NEW s \in Sessions, EvictOne(s) PROVE Goal
  BY <1>1, <1>7, AllowedWrites DEF EvictOne, ForeignWrite, storeVars
<1>8. CASE StatusUpdate
  <2>1. w.fresh => Follows(w.obj, w.upd)
    BY <1>2, <1>8 DEF StatusUpdate, AtStep
  <2> QED BY <1>2, <1>8, <2>1 DEF StatusUpdate, Allowed, Follows, storeVars
<1>9. CASE RemoveFinalizer
  BY <1>1, <1>2, <1>9, AllowedWrites DEF RemoveFinalizer, AtStep, storeVars
<1>10. CASE AddFinalizer
  BY <1>1, <1>2, <1>10, AllowedWrites DEF AddFinalizer, storeVars
<1>11. CASE SlideExpiry
  BY <1>1, <1>2, <1>11, AllowedWrites DEF SlideExpiry, storeVars
<1>12. CASE reconcileTerminated
  BY <1>1, <1>2, <1>12, AllowedWrites DEF reconcileTerminated, storeVars
<1>13. CASE UNCHANGED storeVars \/ UNCHANGED vars \/ \E s \in Sessions : CacheSync(s)
  BY <1>13 DEF storeVars, vars, CacheSync
<1>14. CASE handleSandboxCreate \/ handleSandboxUpdate \/ handleSandboxDelete
  BY <1>13, <1>14 DEF handleSandboxCreate, handleSandboxUpdate, handleSandboxDelete
<1>15. CASE RouterStep
  BY <1>3, <1>4, <1>5, <1>6, <1>14, <1>15 DEF RouterStep
<1>16. CASE WorkerStep
  BY <1>8, <1>9, <1>10, <1>11, <1>12, <1>13, <1>16 DEF WorkerStep,
     handleDeletion, reconcilePending, reconcileCreating, CreateSandbox,
     reconcileRunning, reconcileDeleting
<1>17. CASE ConfWorkerStep
  BY <1>7, <1>13, <1>17 DEF ConfWorkerStep, ReconcileConfig, UpdateConfig
<1>18. CASE \E s \in Sessions : Reconcile(s)
  BY <1>13, <1>18 DEF Reconcile
<1>19. CASE ConfCacheSync \/ Abort \/ ConfAbort \/ \E p \in Pods : PodRestart(p)
  BY <1>13, <1>19 DEF ConfCacheSync, Abort, ConfAbort, PodRestart
<1> QED BY <1>13, <1>15, <1>16, <1>17, <1>18, <1>19 DEF Next

\* The operator, its caches and the router implement the session contract.
THEOREM ImplementsContract == Spec => KeepsContract
<1>1. Init => Contract!CInit
  BY DEF Init, Contract!CInit, NoSession
<1>2. ASSUME IInv, [Next]_vars PROVE [Contract!CNext]_(Contract!cvars)
  <2>1. \A s \in Sessions : Shape(sess[s])
    BY <1>2 DEF IInv, SessionInv, ShapeInv
  <2>2. sess \in [Sessions -> Session]
    BY <1>2 DEF IInv, SessionInv
  <2>3. CASE UNCHANGED sess
    BY <2>3, KeepsIsStutter
  <2>4. CASE \E s \in Sessions, o \in Session : Store(s, o) /\ Allowed(sess[s], o)
    BY <2>1, <2>2, <2>4, AllowedStep
  <2> QED BY <1>2, <2>3, <2>4, EveryWriteAllowed
<1>3. IInv /\ [Next]_vars => [Contract!CNext]_(Contract!cvars)
  BY <1>2
<1> QED BY <1>1, <1>3, Invariance, PTL DEF Spec, KeepsContract, Contract!CSpec

-----------------------------------------------------------------------------
\* Sandboxes and their sessions.

Served(o, p) == o.pod = p /\ o.phase \in {"Creating", "Running", "Deleting"}

\* The worker has called the controller of a session that it is about to unbind.
Unbinding ==
    \/ w.pc = "unfinalize" /\ w.obj.phase \in {"Creating", "Running"}
    \/ w.pc = "status" /\ w.upd.phase \in {"Pending", "Terminated"}

\* What that call left behind is accounted for.
Owed ==
    Unbinding => \A p \in Pods :
        p = w.obj.pod /\ w.s \in sandboxes[p] => <<p, w.s>> \in excused

\* A terminated session was seen to be leaving by every reader, so that no copy
\* still has it created.
TerminatedSeen ==
    /\ \A s \in Sessions :
          sess[s].phase = "Terminated" => cache[s].phase \in {"Deleting", "Terminated"}
    /\ w.pc # "idle" /\ sess[w.s].phase = "Terminated" => w.obj.phase # "Creating"

OrphanInv == NoUnexplainedOrphan /\ TerminatedSeen /\ Owed

\* A write that takes no pod from a session and does not terminate it.
Mild(a, o) ==
    /\ \A p \in Pods : Served(a, p) => Served(o, p)
    /\ o.phase = "Terminated" => a.phase = "Terminated"

\* The writes behind the worker's back, and its own deletion by name, are mild.
LEMMA MildWrites ==
  ASSUME NEW a \in Session, Shape(a)
  PROVE  /\ ~Exists(a) => Mild(a, NewSession)
         /\ Mild(a, Deleted(a))
         /\ Mild(a, [a EXCEPT !.phase = "Deleting"])
         /\ \A f \in BOOLEAN : Mild(a, [a EXCEPT !.fin = f])
         /\ Mild(a, a)
  BY NoneAssumption DEF Mild, Served, Shape, Session, Phases, NewSession, NoSession,
     Deleted, Exists

\* After a mild write the worker goes on as before, or with nothing owed.
LEMMA MildStep ==
  ASSUME IInv, OrphanInv, NEW s \in Sessions, NEW o, Mild(sess[s], o), Store(s, o),
         UNCHANGED <<sandboxes, excused>>,
         \/ w'.pc = "idle"
         \/ /\ w.pc # "idle" /\ w'.s = w.s /\ w'.obj.phase = w.obj.phase
            /\ Unbinding' => Unbinding /\ w'.obj = w.obj
  PROVE  OrphanInv'
<1>1. /\ sess \in [Sessions -> Session] /\ sandboxes \in [Pods -> SUBSET Sessions]
      /\ sess' = [sess EXCEPT ![s] = o] /\ cache' = cache
      /\ w.pc # "idle" => w.s \in Sessions
  BY DEF IInv, SessionInv, PodPart, Store, WorkerInv
<1>2. \A t \in Sessions : Mild(sess[t], sess'[t])
  BY <1>1 DEF Mild, Served
<1>3. NoUnexplainedOrphan'
  <2> SUFFICES ASSUME NEW p \in Pods, NEW t \in sandboxes[p], <<p, t>> \notin excused
               PROVE  Served(sess'[t], p)
    BY DEF NoUnexplainedOrphan, Served
  <2>1. t \in Sessions /\ Served(sess[t], p)
    BY <1>1 DEF OrphanInv, NoUnexplainedOrphan, Served
  <2> QED BY <1>2, <2>1 DEF Mild
<1>4. TerminatedSeen'
  BY <1>1, <1>2 DEF OrphanInv, TerminatedSeen, Mild
<1>5. Owed'
  <2>1. CASE w'.pc = "idle"
    BY <2>1 DEF Owed, Unbinding
  <2>2. CASE w'.s = w.s /\ (Unbinding' => Unbinding /\ w'.obj = w.obj)
    BY <2>2 DEF OrphanInv, Owed
  <2> QED BY <2>1, <2>2
<1> QED BY <1>3, <1>4, <1>5 DEF OrphanInv

\* A write behind the worker's back.
LEMMA ForeignMild ==
  ASSUME IInv, OrphanInv, NEW s \in Sessions, NEW o, Mild(sess[s], o), ForeignWrite(s, o),
         UNCHANGED podVars
  PROVE  OrphanInv'
<1>1. /\ w'.pc = w.pc /\ w'.s = w.s /\ w'.obj = w.obj /\ w'.upd = w.upd
      /\ Store(s, o) /\ UNCHANGED <<sandboxes, excused>>
  BY DEF IInv, SessionInv, ForeignWrite, Worker, podVars
<1>2. Unbinding' => Unbinding
  BY <1>1 DEF Unbinding
<1> QED BY <1>1, <1>2, MildStep

\* The worker moves on, or is done, and nothing is stored.
LEMMA OrphanMove ==
  ASSUME IInv, OrphanInv, UNCHANGED <<sess, cache>>, NoUnexplainedOrphan', Owed',
         w'.pc = "idle" \/ (w.pc # "idle" /\ w'.s = w.s /\ w'.obj = w.obj)
  PROVE  OrphanInv'
<1>1. TerminatedSeen'
  BY DEF OrphanInv, TerminatedSeen
<1> QED BY <1>1 DEF OrphanInv

\* The same, with the pods left alone.
LEMMA OrphanMoveNoCall ==
  ASSUME IInv, OrphanInv, UNCHANGED <<storeVars, podVars>>,
         \/ w'.pc = "idle"
         \/ /\ w.pc # "idle" /\ w'.s = w.s /\ w'.obj = w.obj
            /\ Unbinding' => Unbinding \/ w.obj.pod = None
  PROVE  OrphanInv'
<1>1. UNCHANGED <<sess, cache, sandboxes, excused>>
  BY DEF storeVars, podVars
<1>2. NoUnexplainedOrphan'
  BY <1>1 DEF OrphanInv, NoUnexplainedOrphan
<1>3. Owed'
  <2>1. CASE w'.pc = "idle"
    BY <2>1 DEF Owed, Unbinding
  <2>2. CASE w'.s = w.s /\ w'.obj = w.obj /\ (Unbinding' => Unbinding \/ w.obj.pod = None)
    BY <1>1, <2>2, NoneAssumption DEF OrphanInv, Owed
  <2> QED BY <2>1, <2>2
<1> QED BY <1>1, <1>2, <1>3, OrphanMove

\* A call of DeleteSandbox: the sandbox is gone, or excused, when it goes on.
LEMMA DeleteSandboxOwed ==
  ASSUME IInv, OrphanInv, w.pc # "idle", NEW p \in Pods, p = w.obj.pod, UNCHANGED <<sess, cache>>,
         \/ /\ sandboxes' = [sandboxes EXCEPT ![p] = @ \ {w.s}]
            /\ excused' = excused \ {<<p, w.s>>}
            /\ w'.s = w.s /\ w'.obj = w.obj
         \/ /\ UNCHANGED sandboxes
            /\ excused' = excused \cup ({p} \X (sandboxes[p] \cap {w.s}))
            /\ w'.s = w.s /\ w'.obj = w.obj
         \/ UNCHANGED <<sandboxes, excused>> /\ w'.pc = "idle"
  PROVE  OrphanInv'
<1>1. sandboxes \in [Pods -> SUBSET Sessions] /\ NoUnexplainedOrphan
  BY DEF IInv, PodPart, OrphanInv
<1>2. CASE UNCHANGED <<sandboxes, excused>> /\ w'.pc = "idle"
  <2>1. NoUnexplainedOrphan' /\ Owed'
    BY <1>1, <1>2 DEF NoUnexplainedOrphan, Owed, Unbinding
  <2> QED BY <1>2, <2>1, OrphanMove
<1>3. CASE /\ sandboxes' = [sandboxes EXCEPT ![p] = @ \ {w.s}]
           /\ excused' = excused \ {<<p, w.s>>}
           /\ w'.s = w.s /\ w'.obj = w.obj
  <2>1. \A q \in Pods, t \in Sessions :
          t \in sandboxes'[q] => t \in sandboxes[q] /\ ~(q = p /\ t = w.s)
    BY <1>1, <1>3
  <2>2. \A q \in Pods : sandboxes'[q] \subseteq Sessions
    BY <1>1, <1>3
  <2>3. NoUnexplainedOrphan'
    BY <1>1, <1>3, <2>1, <2>2 DEF NoUnexplainedOrphan
  <2>4. Owed'
    BY <1>3, <2>1, <2>2 DEF Owed
  <2> QED BY <1>3, <2>3, <2>4, OrphanMove
<1>4. CASE /\ UNCHANGED sandboxes
           /\ excused' = excused \cup ({p} \X (sandboxes[p] \cap {w.s}))
           /\ w'.s = w.s /\ w'.obj = w.obj
  <2>1. NoUnexplainedOrphan'
    BY <1>1, <1>4 DEF NoUnexplainedOrphan
  <2>2. Owed'
    BY <1>4 DEF Owed
  <2> QED BY <1>4, <2>1, <2>2, OrphanMove
<1> QED BY <1>2, <1>3, <1>4

LEMMA handleDeletionOrphan == ASSUME IInv, OrphanInv, handleDeletion PROVE OrphanInv'
<1>1. /\ w \in Worker /\ w.pc = "deletion" /\ w.obj \in Session
      /\ UNCHANGED storeVars /\ UNCHANGED <<sess, cache>>
  BY DEF IInv, SessionInv, handleDeletion, Worker, storeVars
<1>2. Goto("unfinalize") => w'.pc = "unfinalize" /\ w'.s = w.s /\ w'.obj = w.obj
  BY <1>1 DEF Goto, Worker
<1>3. CASE Done /\ UNCHANGED podVars
  BY <1>1, <1>3, DoneIdle, OrphanMoveNoCall
<1>4. CASE /\ w.obj.phase \notin {"Running", "Creating"} \/ w.obj.pod = None
           /\ Goto("unfinalize") /\ UNCHANGED podVars
  BY <1>1, <1>2, <1>4, OrphanMoveNoCall DEF Unbinding
<1>5. CASE w.obj.pod # None /\ DeleteSandbox(w.obj.pod, Goto("unfinalize"))
  <2>1. w.obj.pod \in Pods
    BY <1>1, <1>5 DEF Session
  <2> QED BY <1>1, <1>2, <1>5, <2>1, DoneIdle, DeleteSandboxOwed DEF DeleteSandbox
<1> QED BY <1>3, <1>4, <1>5 DEF handleDeletion

LEMMA reconcileDeletingOrphan == ASSUME IInv, OrphanInv, reconcileDeleting PROVE OrphanInv'
<1> DEFINE terminate == UpdateWith([w.obj EXCEPT !.phase = "Terminated"])
<1>1. /\ w \in Worker /\ w.pc = "deleting" /\ w.obj \in Session
      /\ UNCHANGED storeVars /\ UNCHANGED <<sess, cache, wiped>>
  BY DEF IInv, SessionInv, reconcileDeleting, Worker, storeVars
<1>2. terminate => w'.s = w.s /\ w'.obj = w.obj
  BY <1>1 DEF UpdateWith, Worker
<1>3. CASE w.obj.pod = None
  <2>1. terminate /\ UNCHANGED podVars
    BY <1>1, <1>3 DEF reconcileDeleting, podVars
  <2> QED BY <1>1, <1>2, <1>3, <2>1, OrphanMoveNoCall
<1>4. CASE w.obj.pod # None
  <2>1. w.obj.pod \in Pods /\ DeleteSandbox(w.obj.pod, terminate)
    BY <1>1, <1>4 DEF Session, reconcileDeleting
  <2> HIDE DEF terminate
  <2> QED BY <1>1, <1>2, <2>1, DoneIdle, DeleteSandboxOwed DEF DeleteSandbox
<1> QED BY <1>3, <1>4

\* A sandbox is created for a session that is assigned to the pod and has not
\* ended, or it is excused.
LEMMA CreateSandboxOrphan == ASSUME IInv, OrphanInv, CreateSandbox PROVE OrphanInv'
<1> DEFINE p == w.obj.pod
           created == [sandboxes EXCEPT ![p] = @ \cup {w.s}]
<1>1. /\ w \in Worker /\ w.pc = "create" /\ w.s \in Sessions /\ p \in Pods
      /\ w.obj.phase = "Creating" /\ w.obj \in Session
      /\ UNCHANGED storeVars /\ UNCHANGED <<sess, cache>>
      /\ sess[w.s] \in Session /\ Shape(sess[w.s])
      /\ sandboxes \in [Pods -> SUBSET Sessions]
  BY DEF IInv, SessionInv, WorkerInv, AtStep, Shape, ShapeInv, PodPart, CreateSandbox, Worker,
         Session, storeVars
<1>2. sess[w.s].pod = p => Served(sess[w.s], p)
  BY <1>1, NoneAssumption DEF OrphanInv, TerminatedSeen, Served, Shape, Session, Phases, NoSession
<1>3. ASSUME NEW o, UpdateWith(o)
      PROVE  w'.pc = "status" /\ w'.upd = o /\ w'.s = w.s /\ w'.obj = w.obj
  BY <1>1, <1>3 DEF UpdateWith, Worker
<1>4. CASE Done /\ UNCHANGED podVars
  BY <1>1, <1>4, DoneIdle, OrphanMoveNoCall
<1>5. \A q \in Pods, t \in Sessions :
         t \in created[q] => t \in sandboxes[q] \/ (q = p /\ t = w.s)
  BY <1>1
<1>6. \A q \in Pods : created[q] \subseteq Sessions
  BY <1>1
<1>7. CASE /\ sandboxes' = created
           /\ excused' = IF sess[w.s].pod = p THEN excused ELSE excused \cup {<<p, w.s>>}
           /\ UpdateWith([w.obj EXCEPT !.phase = "Running"])
  <2>1. \A q \in Pods : \A t \in sandboxes'[q] : <<q, t>> \in excused' \/ Served(sess'[t], q)
    <3> SUFFICES ASSUME NEW q \in Pods, NEW t \in sandboxes'[q]
                 PROVE  <<q, t>> \in excused' \/ Served(sess'[t], q)
      OBVIOUS
    <3>1. t \in Sessions /\ (t \in sandboxes[q] \/ (q = p /\ t = w.s))
      BY <1>5, <1>6, <1>7
    <3>2. CASE t \in sandboxes[q]
      BY <1>1, <1>7, <3>2 DEF OrphanInv, NoUnexplainedOrphan, Served
    <3>3. CASE q = p /\ t = w.s
      BY <1>1, <1>2, <1>7, <3>3
    <3> QED BY <3>1, <3>2, <3>3
  <2>2. NoUnexplainedOrphan'
    BY <2>1 DEF NoUnexplainedOrphan, Served
  <2>3. w'.pc = "status" /\ w'.upd.phase = "Running" /\ w'.s = w.s /\ w'.obj = w.obj
    BY <1>1, <1>3, <1>7 DEF Session
  <2>4. Owed'
    BY <2>3 DEF Owed, Unbinding
  <2> QED BY <1>1, <2>2, <2>3, <2>4, OrphanMove
<1>8. CASE /\ sandboxes' \in {sandboxes, created}
           /\ excused' = excused \cup ({p} \X (sandboxes'[p] \cap {w.s}))
           /\ UpdateWith([w.obj EXCEPT !.phase = "Pending", !.pod = None])
  <2>1. \A q \in Pods : \A t \in sandboxes'[q] : <<q, t>> \in excused' \/ Served(sess'[t], q)
    <3> SUFFICES ASSUME NEW q \in Pods, NEW t \in sandboxes'[q]
                 PROVE  <<q, t>> \in excused' \/ Served(sess'[t], q)
      OBVIOUS
    <3>1. t \in Sessions /\ (t \in sandboxes[q] \/ (q = p /\ t = w.s))
      BY <1>1, <1>5, <1>6, <1>8
    <3>2. CASE t \in sandboxes[q]
      BY <1>1, <1>8, <3>2 DEF OrphanInv, NoUnexplainedOrphan, Served
    <3>3. CASE q = p /\ t = w.s
      BY <1>1, <1>8, <3>3
    <3> QED BY <3>1, <3>2, <3>3
  <2>2. NoUnexplainedOrphan'
    BY <2>1 DEF NoUnexplainedOrphan, Served
  <2>3. w'.s = w.s /\ w'.obj = w.obj
    BY <1>3, <1>8
  <2>4. Owed'
    BY <1>8, <2>3 DEF Owed
  <2> QED BY <1>1, <2>2, <2>3, <2>4, OrphanMove
<1> QED BY <1>4, <1>7, <1>8 DEF CreateSandbox

\* The steps of the worker that store nothing and call nobody.
LEMMA QuietStepsOrphan ==
  ASSUME IInv, OrphanInv, Abort \/ reconcilePending \/ reconcileCreating \/ reconcileRunning
  PROVE  OrphanInv'
<1>1. /\ w \in Worker /\ w.pc # "idle" /\ w.obj \in Session
      /\ UNCHANGED <<storeVars, podVars>>
  BY DEF IInv, SessionInv, Worker, Abort, reconcilePending, reconcileCreating, reconcileRunning
<1>2. CASE Done
  BY <1>1, <1>2, DoneIdle, OrphanMoveNoCall
<1>3. CASE Goto("create")
  <2>1. w'.pc = "create" /\ w'.s = w.s /\ w'.obj = w.obj
    BY <1>1, <1>3 DEF Goto, Worker
  <2> QED BY <1>1, <2>1, OrphanMoveNoCall DEF Unbinding
<1>4. ASSUME NEW o, UpdateWith(o), o.phase \in {"Deleting", "Creating"}
      PROVE  OrphanInv'
  <2>1. w'.pc = "status" /\ w'.upd = o /\ w'.s = w.s /\ w'.obj = w.obj
    BY <1>1, <1>4 DEF UpdateWith, Worker
  <2> QED BY <1>1, <1>4, <2>1, OrphanMoveNoCall DEF Unbinding
<1>5. [w.obj EXCEPT !.phase = "Deleting"].phase = "Deleting"
  BY <1>1 DEF Session
<1>6. \A p \in Pods : [w.obj EXCEPT !.phase = "Creating", !.pod = p].phase = "Creating"
  BY <1>1 DEF Session
<1>7. CASE UpdateWith([w.obj EXCEPT !.phase = "Deleting"])
  BY <1>4, <1>5, <1>7
<1>8. CASE \E p \in Pods : UpdateWith([w.obj EXCEPT !.phase = "Creating", !.pod = p])
  BY <1>4, <1>6, <1>8
<1> QED BY <1>2, <1>3, <1>7, <1>8 DEF Abort, reconcilePending, reconcileCreating, reconcileRunning

\* The steps of the worker whose write is mild.
LEMMA MildStepsOrphan ==
  ASSUME IInv, OrphanInv, AddFinalizer \/ SlideExpiry \/ reconcileTerminated
  PROVE  OrphanInv'
<1>1. /\ w \in Worker /\ w.pc \in {"pending", "running", "terminated"}
      /\ w.s \in Sessions /\ w.obj \in Session /\ Shape(w.obj)
      /\ w.fresh => sess[w.s] = w.obj
      /\ sess[w.s] \in Session /\ Shape(sess[w.s])
      /\ UNCHANGED podVars /\ UNCHANGED <<sandboxes, excused>>
  BY DEF IInv, SessionInv, WorkerInv, ShapeInv, Worker, AddFinalizer, SlideExpiry,
         reconcileTerminated, podVars
<1>2. CASE Done /\ UNCHANGED storeVars
  BY <1>1, <1>2, DoneIdle, OrphanMoveNoCall
<1>3. ASSUME NEW pc \in {"assign", "expiry"}, Goto(pc)
      PROVE  w'.pc = pc /\ w'.s = w.s /\ w'.obj = w.obj
  BY <1>1, <1>3 DEF Goto, Worker
<1>4. CASE (Goto("assign") \/ Goto("expiry")) /\ UNCHANGED storeVars
  BY <1>1, <1>3, <1>4, OrphanMoveNoCall DEF Unbinding
<1>5. CASE w.fresh /\ Store(w.s, w.obj) /\ Goto("expiry")
  <2>1. Mild(sess[w.s], w.obj)
    BY <1>1, <1>5, MildWrites
  <2>2. w'.pc = "expiry" /\ w'.s = w.s /\ w'.obj = w.obj
    BY <1>3, <1>5
  <2>3. w.pc # "idle" /\ ~Unbinding'
    BY <1>1, <2>2 DEF Unbinding
  <2> QED BY <1>1, <1>5, <2>1, <2>2, <2>3, MildStep
<1>6. CASE /\ w.fresh /\ Store(w.s, [w.obj EXCEPT !.fin = TRUE])
           /\ w' = [w EXCEPT !.pc = "assign", !.obj = [w.obj EXCEPT !.fin = TRUE]]
  <2>1. Mild(sess[w.s], [w.obj EXCEPT !.fin = TRUE])
    BY <1>1, <1>6, MildWrites
  <2>2. w'.pc = "assign" /\ w'.s = w.s /\ w'.obj.phase = w.obj.phase
    BY <1>1, <1>6 DEF Worker, Session
  <2>3. w.pc # "idle" /\ ~Unbinding'
    BY <1>1, <2>2 DEF Unbinding
  <2> QED BY <1>1, <1>6, <2>1, <2>2, <2>3, MildStep
<1>7. CASE Done /\ Store(w.s, Deleted(sess[w.s]))
  BY <1>1, <1>7, DoneIdle, MildWrites, MildStep
<1> QED BY <1>2, <1>4, <1>5, <1>6, <1>7 DEF AddFinalizer, SlideExpiry, reconcileTerminated

\* A status update that unbinds the session finds its sandbox accounted for.
LEMMA StatusUpdateOrphan == ASSUME IInv, OrphanInv, StatusUpdate PROVE OrphanInv'
<1>1. w.pc = "status" /\ w'.pc = "idle" /\ UNCHANGED podVars /\ UNCHANGED <<sandboxes, excused>>
  BY DoneIdle DEF StatusUpdate, podVars
<1>2. CASE ~w.fresh
  BY <1>1, <1>2, OrphanMoveNoCall DEF StatusUpdate
<1>3. CASE w.fresh
  <2>1. /\ w.s \in Sessions /\ sess[w.s] = w.obj /\ cache[w.s].phase = w.obj.phase
        /\ Follows(w.obj, w.upd) /\ Shape(w.obj)
        /\ sess \in [Sessions -> Session] /\ sandboxes \in [Pods -> SUBSET Sessions]
    BY <1>1, <1>3 DEF IInv, SessionInv, WorkerInv, AtStep, PodPart
  <2>2. sess' = [sess EXCEPT ![w.s] = w.upd] /\ cache' = cache
    BY <1>3 DEF StatusUpdate, Store
  <2>3. NoUnexplainedOrphan'
    <3> SUFFICES ASSUME NEW q \in Pods, NEW t \in sandboxes[q], <<q, t>> \notin excused
                 PROVE  Served(sess'[t], q)
      BY <1>1 DEF NoUnexplainedOrphan, Served
    <3>1. t \in Sessions /\ Served(sess[t], q)
      BY <2>1 DEF OrphanInv, NoUnexplainedOrphan, Served
    <3>2. CASE t # w.s
      BY <2>1, <2>2, <3>1, <3>2
    <3>3. CASE t = w.s
      <4>1. Served(w.obj, q) /\ sess'[t] = w.upd
        BY <2>1, <2>2, <3>1, <3>3
      <4>2. w.upd.phase \notin {"Pending", "Terminated"}
        BY <1>1, <3>3, <4>1 DEF OrphanInv, Owed, Unbinding, Served
      <4> QED BY <2>1, <4>1, <4>2 DEF Follows, Served
    <3> QED BY <3>2, <3>3
  <2>4. w.upd.phase = "Terminated" => cache[w.s].phase = "Deleting"
    BY <2>1 DEF Follows
  <2>5. TerminatedSeen'
    BY <1>1, <2>1, <2>2, <2>4 DEF OrphanInv, TerminatedSeen
  <2>6. Owed'
    BY <1>1 DEF Owed, Unbinding
  <2> QED BY <2>3, <2>5, <2>6 DEF OrphanInv
<1> QED BY <1>2, <1>3

\* So does the removal of the finalizer, or it excuses what it skips.
LEMMA RemoveFinalizerOrphan == ASSUME IInv, OrphanInv, RemoveFinalizer PROVE OrphanInv'
<1>1. w.pc = "unfinalize" /\ w'.pc = "idle" /\ UNCHANGED sandboxes
  BY DoneIdle DEF RemoveFinalizer
<1>2. CASE ~w.fresh
  BY <1>1, <1>2, OrphanMoveNoCall DEF RemoveFinalizer, podVars
<1>3. CASE w.fresh
  <2>1. /\ w.s \in Sessions /\ sess[w.s] = w.obj
        /\ sess \in [Sessions -> Session] /\ sandboxes \in [Pods -> SUBSET Sessions]
    BY <1>1, <1>3 DEF IInv, SessionInv, WorkerInv, PodPart
  <2>2. /\ sess' = [sess EXCEPT ![w.s] = NoSession] /\ cache' = cache
        /\ excused \subseteq excused'
    BY <1>3 DEF RemoveFinalizer, Store
  <2>3. ASSUME NEW q \in Pods, w.s \in sandboxes[q], Served(w.obj, q)
        PROVE  <<q, w.s>> \in excused'
    <3>1. CASE w.obj.phase = "Deleting"
      BY <1>3, <2>3, <3>1 DEF RemoveFinalizer, Served
    <3>2. CASE w.obj.phase \in {"Creating", "Running"}
      BY <1>1, <2>2, <2>3, <3>2 DEF OrphanInv, Owed, Unbinding, Served
    <3> QED BY <2>3, <3>1, <3>2 DEF Served
  <2>4. NoUnexplainedOrphan'
    <3> SUFFICES ASSUME NEW q \in Pods, NEW t \in sandboxes[q], <<q, t>> \notin excused'
                 PROVE  Served(sess'[t], q)
      BY <1>1 DEF NoUnexplainedOrphan, Served
    <3>1. t \in Sessions /\ Served(sess[t], q)
      BY <2>1, <2>2 DEF OrphanInv, NoUnexplainedOrphan, Served
    <3>2. t # w.s
      BY <2>1, <2>3, <3>1
    <3> QED BY <2>1, <2>2, <3>1, <3>2
  <2>5. TerminatedSeen'
    BY <1>1, <2>1, <2>2 DEF OrphanInv, TerminatedSeen, NoSession
  <2>6. Owed'
    BY <1>1 DEF Owed, Unbinding
  <2> QED BY <2>4, <2>5, <2>6 DEF OrphanInv
<1> QED BY <1>2, <1>3

\* A step of which this part of the state sees nothing.
LEMMA UnseenStep ==
  ASSUME OrphanInv, UNCHANGED <<storeVars, w, podVars>>
  PROVE  OrphanInv'
  BY DEF OrphanInv, NoUnexplainedOrphan, TerminatedSeen, Owed, Unbinding, storeVars, podVars

\* The writes of the router and of the config reconciler.
LEMMA ForeignOrphan ==
  ASSUME IInv, OrphanInv, NEW s \in Sessions,
         \/ CreateSession(s) \/ handleSessionDelete(s) \/ handleSandboxEvict(s)
         \/ touchLastExecSession(s) \/ EvictOne(s)
  PROVE  OrphanInv'
<1>1. sess[s] \in Session /\ Shape(sess[s])
  BY DEF IInv, SessionInv, ShapeInv
<1>2. UNCHANGED podVars
  BY DEF CreateSession, handleSessionDelete, handleSandboxEvict, touchLastExecSession, EvictOne
<1>3. CASE ForeignWrite(s, NewSession) /\ ~Exists(sess[s])
  BY <1>1, <1>2, <1>3, MildWrites, ForeignMild
<1>4. CASE ForeignWrite(s, Deleted(sess[s]))
  BY <1>1, <1>2, <1>4, MildWrites, ForeignMild
<1>5. CASE ForeignWrite(s, [sess[s] EXCEPT !.phase = "Deleting"])
  BY <1>1, <1>2, <1>5, MildWrites, ForeignMild
<1>6. CASE ForeignWrite(s, sess[s])
  BY <1>1, <1>2, <1>6, MildWrites, ForeignMild
<1>7. CASE UNCHANGED <<storeVars, w>>
  BY <1>2, <1>7, UnseenStep
<1> QED BY <1>3, <1>4, <1>5, <1>6, <1>7
  DEF CreateSession, handleSessionDelete, handleSandboxEvict, touchLastExecSession, EvictOne

\* A delivered version, and a reconcile that starts from the cache.
LEMMA CacheOrphan ==
  ASSUME IInv, OrphanInv, NEW s \in Sessions, CacheSync(s) \/ Reconcile(s)
  PROVE  OrphanInv'
<1>1. /\ sess \in [Sessions -> Session] /\ cache \in [Sessions -> Session]
      /\ UNCHANGED <<sess, sandboxes, excused>>
  BY DEF IInv, SessionInv, CacheSync, Reconcile, storeVars, podVars
<1>2. NoUnexplainedOrphan'
  BY <1>1 DEF OrphanInv, NoUnexplainedOrphan
<1>3. CASE CacheSync(s)
  <2>1. w' = w /\ cache' = [cache EXCEPT ![s] = sess[s]]
    BY <1>3 DEF CacheSync
  <2>2. TerminatedSeen'
    BY <1>1, <2>1 DEF OrphanInv, TerminatedSeen
  <2>3. Owed'
    BY <1>1, <2>1 DEF OrphanInv, Owed, Unbinding
  <2> QED BY <1>2, <2>2, <2>3 DEF OrphanInv
<1>4. CASE Reconcile(s)
  <2>1. /\ w'.pc = Dispatch(cache[s]) /\ w'.s = s /\ w'.obj = cache[s] /\ cache' = cache
        /\ Exists(cache[s])
    BY <1>4 DEF Reconcile, storeVars
  <2>2. TerminatedSeen'
    BY <1>1, <2>1 DEF OrphanInv, TerminatedSeen
  <2>3. cache[s].phase \in Phases \ {"Absent"}
    BY <1>1, <2>1 DEF Session, Exists
  <2>4. w'.pc \notin {"unfinalize", "status"}
    BY <2>1, <2>3 DEF Dispatch, Phases
  <2>5. Owed'
    BY <2>4 DEF Owed, Unbinding
  <2> QED BY <1>2, <2>2, <2>5 DEF OrphanInv
<1> QED BY <1>3, <1>4

\* A pod that restarts holds nothing.
LEMMA PodRestartOrphan ==
  ASSUME IInv, OrphanInv, NEW p \in Pods, PodRestart(p)
  PROVE  OrphanInv'
<1>1. /\ sandboxes \in [Pods -> SUBSET Sessions] /\ sandboxes' = [sandboxes EXCEPT ![p] = {}]
      /\ excused' = excused \ ({p} \X Sessions) /\ UNCHANGED <<sess, cache, w>>
  BY DEF IInv, PodPart, PodRestart, storeVars
<1>2. \A q \in Pods : \A t \in sandboxes'[q] :
         t \in sandboxes[q] /\ (<<q, t>> \in excused => <<q, t>> \in excused')
  BY <1>1
<1>3. NoUnexplainedOrphan'
  BY <1>1, <1>2 DEF OrphanInv, NoUnexplainedOrphan
<1>4. TerminatedSeen'
  BY <1>1 DEF OrphanInv, TerminatedSeen
<1>5. Owed'
  BY <1>1, <1>2 DEF OrphanInv, Owed, Unbinding
<1> QED BY <1>3, <1>4, <1>5 DEF OrphanInv

LEMMA OrphanNext == ASSUME IInv, OrphanInv, [Next]_vars PROVE OrphanInv'
<1>1. CASE UNCHANGED vars
  BY <1>1, UnseenStep DEF vars
<1>2. CASE RouterStep
  <2>1. CASE handleSandboxCreate \/ handleSandboxUpdate \/ handleSandboxDelete
    BY <2>1, UnseenStep DEF handleSandboxCreate, handleSandboxUpdate, handleSandboxDelete
  <2> QED BY <1>2, <2>1, ForeignOrphan DEF RouterStep
<1>3. CASE \E s \in Sessions : CacheSync(s) \/ Reconcile(s)
  BY <1>3, CacheOrphan
<1>4. CASE ConfCacheSync \/ ConfAbort
  BY <1>4, UnseenStep DEF ConfCacheSync, ConfAbort
<1>5. CASE WorkerStep \/ Abort
  BY <1>5, handleDeletionOrphan, RemoveFinalizerOrphan, QuietStepsOrphan, MildStepsOrphan,
     CreateSandboxOrphan, reconcileDeletingOrphan, StatusUpdateOrphan DEF WorkerStep
<1>6. CASE ConfWorkerStep
  <2>1. CASE ReconcileConfig \/ UpdateConfig
    BY <2>1, UnseenStep DEF ReconcileConfig, UpdateConfig
  <2> QED BY <1>6, <2>1, ForeignOrphan DEF ConfWorkerStep
<1>7. CASE \E p \in Pods : PodRestart(p)
  BY <1>7, PodRestartOrphan
<1> QED BY <1>1, <1>2, <1>3, <1>4, <1>5, <1>6, <1>7 DEF Next

\* Every sandbox a controller holds belongs to a session that is assigned to it
\* and will still be cleaned up, or was left behind in one of the ways the code
\* accepts: DeleteSandbox and CreateSandbox whose transport fails, handleDeletion
\* in phase Deleting, and a create sent from a stale copy.
THEOREM OrphansExplained == Spec => []NoUnexplainedOrphan
<1>1. Init => OrphanInv
  BY DEF Init, OrphanInv, NoUnexplainedOrphan, TerminatedSeen, Owed, Unbinding, IdleWorker, NoSession
<1>2. IInv /\ OrphanInv /\ [Next]_vars => OrphanInv'
  BY OrphanNext
<1>3. OrphanInv => NoUnexplainedOrphan
  BY DEF OrphanInv
<1> QED BY <1>1, <1>2, <1>3, Invariance, PTL DEF Spec

-----------------------------------------------------------------------------
\* Garbage collection.

\* Some version of the session that is stored, cached or held is Terminated.
SeenOver(s) ==
    \/ sess[s].phase = "Terminated" \/ cache[s].phase = "Terminated"
    \/ w.pc # "idle" /\ w.s = s /\ w.obj.phase = "Terminated"

\* Nothing of it is left that has to be cleaned up, the operator has not begun
\* with another session of the name, and does not create a sandbox for it.
Swept(s) ==
    /\ \A p \in Pods : s \in sandboxes[p] => <<p, s>> \in excused
    /\ sess[s].phase = "New" => ~sess[s].fin
    /\ w.pc # "idle" /\ w.s = s => w.obj.phase # "Creating"

SweptInv == \A s \in Sessions : SeenOver(s) => Swept(s)

\* No sandbox comes, and an excuse goes only with its sandbox.
PodsShrink ==
    \A p \in Pods, s \in Sessions : s \in sandboxes'[p] =>
        s \in sandboxes[p] /\ (<<p, s>> \in excused => <<p, s>> \in excused')

\* The worker is done, or goes on in the same phase of the same session.
WorkerStays ==
    \/ w'.pc = "idle"
    \/ w.pc # "idle" /\ w'.s = w.s /\ w'.obj.phase = w.obj.phase

\* A step that stores nothing.
LEMMA SweptMove ==
  ASSUME SweptInv, UNCHANGED <<sess, cache>>, PodsShrink, WorkerStays
  PROVE  SweptInv'
  BY DEF SweptInv, SeenOver, Swept, PodsShrink, WorkerStays

\* A write o over a that neither terminates a session nor begins with a new one.
Idles(a, o) ==
    /\ o.phase = "Terminated" => a.phase = "Terminated"
    /\ o.phase = "New" /\ o.fin => a.phase = "New" /\ a.fin

LEMMA SweptWrite ==
  ASSUME IInv, SweptInv, NEW s \in Sessions, NEW o, Idles(sess[s], o), Store(s, o),
         UNCHANGED <<sandboxes, excused>>, WorkerStays
  PROVE  SweptInv'
<1>1. sess' = [sess EXCEPT ![s] = o] /\ cache' = cache /\ sess \in [Sessions -> Session]
  BY DEF Store, IInv, SessionInv
<1>2. \A t \in Sessions : Idles(sess[t], sess'[t])
  BY <1>1 DEF Idles
<1> QED BY <1>1, <1>2 DEF SweptInv, SeenOver, Swept, Idles, WorkerStays

\* The writes of the router and of the config reconciler.
LEMMA ForeignSwept ==
  ASSUME IInv, SweptInv, NEW s \in Sessions,
         \/ CreateSession(s) \/ handleSessionDelete(s) \/ handleSandboxEvict(s)
         \/ touchLastExecSession(s) \/ EvictOne(s)
  PROVE  SweptInv'
<1>1. sess[s] \in Session /\ w \in Worker
  BY DEF IInv, SessionInv
<1>2. UNCHANGED podVars /\ UNCHANGED <<sandboxes, excused>>
  BY DEF CreateSession, handleSessionDelete, handleSandboxEvict, touchLastExecSession, EvictOne,
         podVars
<1>3. ASSUME NEW o, ForeignWrite(s, o), Idles(sess[s], o)
      PROVE  SweptInv'
  <2>1. w'.pc = w.pc /\ w'.s = w.s /\ w'.obj = w.obj
    BY <1>1, <1>3 DEF ForeignWrite, Worker
  <2>2. WorkerStays
    BY <2>1 DEF WorkerStays
  <2> QED BY <1>2, <1>3, <2>2, SweptWrite DEF ForeignWrite
<1>4. /\ Idles(sess[s], NewSession) /\ Idles(sess[s], Deleted(sess[s]))
      /\ Idles(sess[s], [sess[s] EXCEPT !.phase = "Deleting"]) /\ Idles(sess[s], sess[s])
  BY <1>1 DEF Idles, Session, NewSession, NoSession, Deleted
<1>5. CASE UNCHANGED <<storeVars, w>>
  BY <1>2, <1>5 DEF SweptInv, SeenOver, Swept, storeVars
<1> QED BY <1>3, <1>4, <1>5
  DEF CreateSession, handleSessionDelete, handleSandboxEvict, touchLastExecSession, EvictOne
\* A delivered version, and a reconcile that starts from the cache.
LEMMA CacheSwept ==
  ASSUME IInv, OrphanInv, SweptInv, NEW s \in Sessions, CacheSync(s) \/ Reconcile(s)
  PROVE  SweptInv'
<1>1. /\ sess \in [Sessions -> Session] /\ cache \in [Sessions -> Session]
      /\ UNCHANGED <<sess, sandboxes, excused>>
  BY DEF IInv, SessionInv, CacheSync, Reconcile, storeVars, podVars
<1>2. CASE CacheSync(s)
  <2>1. w' = w /\ cache' = [cache EXCEPT ![s] = sess[s]]
    BY <1>2 DEF CacheSync
  <2>2. \A t \in Sessions : SeenOver(t)' => SeenOver(t)
    BY <1>1, <2>1 DEF SeenOver
  <2> QED BY <1>1, <2>1, <2>2 DEF SweptInv, Swept
<1>3. CASE Reconcile(s)
  <2>1. w'.s = s /\ w'.obj = cache[s] /\ cache' = cache
    BY <1>3 DEF Reconcile, storeVars
  <2>2. \A t \in Sessions : SeenOver(t)' => SeenOver(t)
    BY <1>1, <2>1 DEF SeenOver
  <2>3. \A t \in Sessions : SeenOver(t)' /\ w'.s = t => w'.obj.phase # "Creating"
    BY <1>1, <2>1 DEF SeenOver, OrphanInv, TerminatedSeen
  <2> QED BY <1>1, <2>1, <2>2, <2>3 DEF SweptInv, Swept
<1> QED BY <1>2, <1>3

\* The steps of the worker that store nothing, the calls of DeleteSandbox included.
LEMMA QuietSwept ==
  ASSUME IInv, SweptInv,
         \/ Abort \/ handleDeletion \/ reconcilePending \/ reconcileCreating
         \/ reconcileRunning \/ reconcileDeleting
  PROVE  SweptInv'
<1>1. /\ w \in Worker /\ w.pc # "idle" /\ w.obj \in Session
      /\ UNCHANGED storeVars /\ UNCHANGED <<sess, cache>>
      /\ sandboxes \in [Pods -> SUBSET Sessions]
  BY DEF IInv, SessionInv, PodPart, Worker, Abort, handleDeletion, reconcilePending,
         reconcileCreating, reconcileRunning, reconcileDeleting, storeVars
<1>2. Done => WorkerStays
  BY DoneIdle DEF WorkerStays
<1>3. ASSUME NEW pc, Goto(pc) PROVE WorkerStays
  BY <1>1, <1>3 DEF Goto, Worker, WorkerStays
<1>4. ASSUME NEW o, UpdateWith(o) PROVE WorkerStays
  BY <1>1, <1>4 DEF UpdateWith, Worker, WorkerStays
<1>5. UNCHANGED <<sandboxes, excused>> => PodsShrink
  BY DEF PodsShrink
<1>6. ASSUME NEW p \in Pods, NEW t,
             \/ /\ sandboxes' = [sandboxes EXCEPT ![p] = @ \ {t}]
                /\ excused' = excused \ {<<p, t>>}
             \/ UNCHANGED sandboxes /\ excused \subseteq excused'
      PROVE  PodsShrink
  BY <1>1, <1>6 DEF PodsShrink
<1>7. WorkerStays
  BY <1>2, <1>3, <1>4 DEF Abort, handleDeletion, reconcilePending, reconcileCreating,
     reconcileRunning, reconcileDeleting, DeleteSandbox
<1>8. PodsShrink
  <2>1. w.obj.pod # None => w.obj.pod \in Pods
    BY <1>1 DEF Session
  <2>2. CASE handleDeletion
    BY <1>5, <1>6, <2>1, <2>2 DEF handleDeletion, DeleteSandbox, podVars
  <2>3. CASE reconcileDeleting
    BY <1>5, <1>6, <2>1, <2>3 DEF reconcileDeleting, DeleteSandbox
  <2> QED BY <1>5, <2>2, <2>3 DEF Abort, reconcilePending, reconcileCreating, reconcileRunning,
             podVars
<1> QED BY <1>1, <1>7, <1>8, SweptMove

\* The writes of the worker but for the status: the finalizer of a new session
\* is stored only by a worker that, like the cache, has seen it new.
LEMMA WriteSwept ==
  ASSUME IInv, SweptInv, AddFinalizer \/ SlideExpiry \/ reconcileTerminated \/ RemoveFinalizer
  PROVE  SweptInv'
<1>1. /\ w \in Worker /\ w.pc # "idle" /\ w.s \in Sessions /\ w.obj \in Session
      /\ w.fresh => sess[w.s] = w.obj /\ cache[w.s].phase = w.obj.phase
      /\ sess[w.s] \in Session /\ sess \in [Sessions -> Session]
      /\ sandboxes \in [Pods -> SUBSET Sessions]
  BY DEF IInv, SessionInv, WorkerInv, PodPart, Worker, AddFinalizer, SlideExpiry,
         reconcileTerminated, RemoveFinalizer
<1>2. Done => WorkerStays
  BY DoneIdle DEF WorkerStays
<1>3. ASSUME NEW pc, Goto(pc) PROVE WorkerStays
  BY <1>1, <1>3 DEF Goto, Worker, WorkerStays
<1>4. CASE UNCHANGED storeVars /\ UNCHANGED <<sandboxes, excused>> /\ WorkerStays
  BY <1>4, SweptMove DEF PodsShrink, storeVars
<1>5. CASE AddFinalizer
  <2>1. UNCHANGED <<sandboxes, excused>>
    BY <1>5 DEF AddFinalizer, podVars
  <2>2. CASE /\ w.fresh /\ Store(w.s, [w.obj EXCEPT !.fin = TRUE])
             /\ w' = [w EXCEPT !.pc = "assign", !.obj = [w.obj EXCEPT !.fin = TRUE]]
    <3>1. /\ sess' = [sess EXCEPT ![w.s] = [w.obj EXCEPT !.fin = TRUE]] /\ cache' = cache
          /\ w'.pc = "assign" /\ w'.s = w.s /\ w'.obj.phase = w.obj.phase
          /\ sess'[w.s].phase = w.obj.phase
      BY <1>1, <2>2 DEF Store, Worker, Session
    <3>2. w.obj.phase \in {"New", "Pending"}
      BY <1>5 DEF AddFinalizer, IInv, SessionInv, WorkerInv, AtStep
    <3>3. ~SeenOver(w.s)'
      BY <1>1, <2>2, <3>1, <3>2 DEF SeenOver
    <3>4. \A t \in Sessions \ {w.s} :
             /\ sess'[t] = sess[t] /\ w'.s # t
             /\ SeenOver(t)' => SeenOver(t)
      BY <1>1, <3>1 DEF SeenOver
    <3>5. \A t \in Sessions : SeenOver(t)' => t # w.s
      BY <3>1, <3>3
    <3> QED BY <2>1, <3>4, <3>5 DEF SweptInv, Swept
  <2>3. CASE Goto("assign") /\ UNCHANGED storeVars
    BY <1>3, <1>4, <2>1, <2>3
  <2>4. CASE Done /\ UNCHANGED storeVars
    BY <1>2, <1>4, <2>1, <2>4
  <2> QED BY <1>5, <2>2, <2>3, <2>4 DEF AddFinalizer
<1>6. CASE SlideExpiry
  <2>1. Idles(sess[w.s], w.obj) \/ ~w.fresh
    BY <1>1 DEF Idles
  <2>2. UNCHANGED <<sandboxes, excused>>
    BY <1>6 DEF SlideExpiry, podVars
  <2>3. CASE Goto("expiry") /\ UNCHANGED storeVars
    BY <1>3, <1>4, <2>2, <2>3
  <2>4. CASE Done /\ UNCHANGED storeVars
    BY <1>2, <1>4, <2>2, <2>4
  <2>5. CASE w.fresh /\ Store(w.s, w.obj) /\ Goto("expiry")
    BY <1>1, <1>3, <2>1, <2>2, <2>5, SweptWrite
  <2> QED BY <1>6, <2>3, <2>4, <2>5 DEF SlideExpiry
<1>7. CASE reconcileTerminated
  <2>1. Idles(sess[w.s], Deleted(sess[w.s]))
    BY <1>1 DEF Idles, Session, NoSession, Deleted
  <2>2. UNCHANGED <<sandboxes, excused>>
    BY <1>7 DEF reconcileTerminated, podVars
  <2> QED BY <1>1, <1>2, <1>4, <1>7, <2>1, <2>2, SweptWrite DEF reconcileTerminated
<1>8. CASE RemoveFinalizer
  <2>1. /\ WorkerStays /\ UNCHANGED sandboxes /\ excused \subseteq excused'
        /\ cache' = cache
    BY <1>2, <1>8 DEF RemoveFinalizer, Store, storeVars
  <2>2. sess' = sess \/ sess' = [sess EXCEPT ![w.s] = NoSession]
    BY <1>8 DEF RemoveFinalizer, Store, storeVars
  <2>3. \A t \in Sessions : sess'[t] = sess[t] \/ sess'[t].phase = "Absent"
    BY <1>1, <2>2 DEF NoSession
  <2>4. \A t \in Sessions : SeenOver(t)' => SeenOver(t)
    BY <2>1, <2>3 DEF SeenOver, WorkerStays
  <2> QED BY <2>1, <2>3, <2>4 DEF SweptInv, Swept, WorkerStays
<1> QED BY <1>5, <1>6, <1>7, <1>8
\* A sandbox is created only for a session of which no version is over.
LEMMA CreateSwept ==
  ASSUME IInv, SweptInv, CreateSandbox
  PROVE  SweptInv'
<1>1. /\ w \in Worker /\ w.pc = "create" /\ w.s \in Sessions /\ w.obj.phase = "Creating"
      /\ UNCHANGED <<sess, cache>> /\ sandboxes \in [Pods -> SUBSET Sessions]
      /\ w.obj.pod \in Pods
  BY DEF IInv, SessionInv, WorkerInv, AtStep, PodPart, Shape, CreateSandbox, Worker, Session,
         storeVars
<1>2. ~SeenOver(w.s)
  BY <1>1 DEF SweptInv, Swept
<1>3. ASSUME NEW o, UpdateWith(o) PROVE w'.pc # "idle" /\ w'.s = w.s /\ w'.obj = w.obj
  BY <1>1, <1>3 DEF UpdateWith, Worker
<1>4. w'.pc = "idle" \/ (w'.pc # "idle" /\ w'.s = w.s /\ w'.obj = w.obj)
  BY <1>3, DoneIdle DEF CreateSandbox
<1>5. \A t \in Sessions : SeenOver(t)' => SeenOver(t) /\ t # w.s
  BY <1>1, <1>2, <1>4 DEF SeenOver
<1>6. \A p \in Pods, t \in Sessions \ {w.s} : t \in sandboxes'[p] => t \in sandboxes[p]
  BY <1>1 DEF CreateSandbox, podVars
<1>7. excused \subseteq excused'
  BY DEF CreateSandbox, podVars
<1> QED BY <1>1, <1>4, <1>5, <1>6, <1>7 DEF SweptInv, Swept

\* A session is terminated once its sandbox is accounted for.
LEMMA StatusSwept ==
  ASSUME IInv, OrphanInv, SweptInv, StatusUpdate
  PROVE  SweptInv'
<1>1. w.pc = "status" /\ w'.pc = "idle" /\ UNCHANGED <<sandboxes, excused, cache>>
  BY DoneIdle DEF StatusUpdate, podVars, Store, storeVars
<1>2. CASE ~w.fresh
  BY <1>1, <1>2, SweptMove DEF StatusUpdate, storeVars, PodsShrink, WorkerStays
<1>3. CASE w.fresh
  <2>1. /\ w.s \in Sessions /\ sess[w.s] = w.obj /\ cache[w.s].phase = w.obj.phase
        /\ Follows(w.obj, w.upd) /\ sess \in [Sessions -> Session]
        /\ sandboxes \in [Pods -> SUBSET Sessions]
        /\ sess' = [sess EXCEPT ![w.s] = w.upd]
    BY <1>1, <1>3 DEF IInv, SessionInv, WorkerInv, AtStep, PodPart, StatusUpdate, Store
  <2>s. PICK s \in Sessions : s = w.s
    BY <2>1
  <2>2. \A t \in Sessions \ {s} : sess'[t] = sess[t] /\ (SeenOver(t)' => SeenOver(t))
    BY <1>1, <2>s, <2>1 DEF SeenOver
  <2>3. SeenOver(s)' => w.upd.phase = "Terminated"
    BY <1>1, <2>s, <2>1 DEF SeenOver, Follows
  <2>4. w.upd.phase = "Terminated" =>
          \A p \in Pods : s \in sandboxes[p] => <<p, s>> \in excused
    BY <1>1, <2>s, <2>1 DEF OrphanInv, NoUnexplainedOrphan, Owed, Unbinding
  <2>5. SeenOver(s)' => Swept(s)'
    BY <1>1, <2>s, <2>1, <2>3, <2>4 DEF Swept
  <2> QED BY <1>1, <2>2, <2>5 DEF SweptInv, Swept
<1> QED BY <1>2, <1>3

LEMMA SweptNext == ASSUME IInv, OrphanInv, SweptInv, [Next]_vars PROVE SweptInv'
<1>1. CASE UNCHANGED <<storeVars, w, podVars>>
  BY <1>1 DEF SweptInv, SeenOver, Swept, storeVars, podVars
<1>2. CASE RouterStep
  <2>1. CASE handleSandboxCreate \/ handleSandboxUpdate \/ handleSandboxDelete
    BY <1>1, <2>1 DEF handleSandboxCreate, handleSandboxUpdate, handleSandboxDelete
  <2> QED BY <1>2, <2>1, ForeignSwept DEF RouterStep
<1>3. CASE \E s \in Sessions : CacheSync(s) \/ Reconcile(s)
  BY <1>3, CacheSwept
<1>4. CASE WorkerStep \/ Abort
  BY <1>4, QuietSwept, WriteSwept, CreateSwept, StatusSwept DEF WorkerStep
<1>5. CASE ConfWorkerStep
  <2>1. CASE ReconcileConfig \/ UpdateConfig
    BY <1>1, <2>1 DEF ReconcileConfig, UpdateConfig
  <2> QED BY <1>5, <2>1, ForeignSwept DEF ConfWorkerStep
<1>6. ASSUME NEW p \in Pods, PodRestart(p) PROVE SweptInv'
  <2>1. /\ sandboxes \in [Pods -> SUBSET Sessions] /\ sandboxes' = [sandboxes EXCEPT ![p] = {}]
        /\ excused' = excused \ ({p} \X Sessions) /\ UNCHANGED <<sess, cache, w>>
    BY <1>6 DEF IInv, PodPart, PodRestart, storeVars
  <2>2. PodsShrink
    BY <2>1 DEF PodsShrink
  <2> QED BY <2>1, <2>2 DEF SweptInv, SeenOver, Swept, PodsShrink
<1> QED BY <1>1, <1>2, <1>3, <1>4, <1>5, <1>6 DEF Next, vars, ConfCacheSync, ConfAbort

\* What reconcileTerminated deletes by name, from a copy of any age, is ending or
\* has ended with its sandbox gone or left behind before, or is a new session the
\* operator has not begun with.
THEOREM GCSafety == Spec => GCSparesStartedSessions
<1> DEFINE P == \A s \in Sessions :
          reconcileTerminated /\ sess'[s] # sess[s] =>
              /\ sess[s].phase \in {"Terminated", "Deleting"} \/ sess[s] = NewSession
              /\ \A p \in Pods : s \in sandboxes[p] => <<p, s>> \in excused
<1>1. Init => OrphanInv /\ SweptInv
  BY DEF Init, OrphanInv, NoUnexplainedOrphan, TerminatedSeen, Owed, Unbinding, IdleWorker,
         NoSession, SweptInv, SeenOver
<1>2. IInv /\ OrphanInv /\ SweptInv /\ [Next]_vars => (OrphanInv /\ SweptInv)'
  BY OrphanNext, SweptNext
<1>3. IInv /\ SweptInv /\ [Next]_vars => P
  <2> SUFFICES ASSUME IInv, SweptInv, NEW s \in Sessions, reconcileTerminated,
                      sess'[s] # sess[s]
               PROVE  /\ sess[s].phase \in {"Terminated", "Deleting"} \/ sess[s] = NewSession
                      /\ \A p \in Pods : s \in sandboxes[p] => <<p, s>> \in excused
    OBVIOUS
  <2>1. w.pc = "terminated" /\ w.s = s /\ Exists(sess[s])
    BY DEF IInv, SessionInv, reconcileTerminated, Store, storeVars
  <2>2. /\ Lag(w.obj, sess[s]) /\ w.obj.phase = "Terminated"
        /\ sess[s] \in Session /\ Shape(sess[s])
    BY <2>1 DEF IInv, SessionInv, WorkerInv, AtStep, ShapeInv
  <2>3. Swept(s)
    BY <2>1, <2>2 DEF SweptInv, SeenOver
  <2>4. sess[s].phase \in {"Terminated", "Deleting", "New"}
    BY <2>1, <2>2 DEF Lag, Ended, Exists
  <2>5. sess[s].phase = "New" => sess[s] = NewSession
    <3>1. sess[s].phase = "New" => sess[s].pod = None /\ ~sess[s].fin /\ ~sess[s].del
      BY <2>2, <2>3 DEF Swept, Shape
    <3>2. NewSession \in Session /\ NewSession.phase = "New" /\ NewSession.pod = None
          /\ NewSession.fin = FALSE /\ NewSession.del = FALSE
      BY DEF NewSession, NoSession, Session, Phases
    <3>3. sess[s].fin \in BOOLEAN /\ sess[s].del \in BOOLEAN
      BY <2>2 DEF Session
    <3> QED BY <2>2, <3>1, <3>2, <3>3 DEF Session
  <2> QED BY <2>3, <2>4, <2>5 DEF Swept
<1>4. IInv /\ SweptInv /\ [Next]_vars => [P]_vars
  BY <1>3
<1> QED BY <1>1, <1>2, <1>4, Invariance, PTL DEF Spec, GCSparesStartedSessions

=============================================================================
