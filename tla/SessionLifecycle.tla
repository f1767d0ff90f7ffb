-------------------------- MODULE SessionLifecycle --------------------------
(***************************************************************************)
(* The life of the Session objects of one Sandbox config: the Session and  *)
(* SandboxConfig reconcilers of the operator, the router requests that     *)
(* write the same objects, and the sandboxes the controller pods hold.     *)
(*                                                                         *)
(* Both reconcilers read from the operator's informer cache, which lags    *)
(* behind the API server, and write with optimistic concurrency: an Update *)
(* carries the resourceVersion of the copy it was made from and is refused *)
(* when that version is no longer the stored one.  A patch carries none.   *)
(* Instead of version numbers the model keeps, for every copy, the flag    *)
(* "fresh": no write to the object has happened since the copy was taken.  *)
(***************************************************************************)
CONSTANTS Sessions,  \* names of the sessions of the config
          Pods,      \* names of the controller pods
          None       \* no pod, or no session

ASSUME NoneAssumption == None \notin Sessions /\ None \notin Pods

VARIABLES
    sess,           \* the stored Session of every name
    cache,          \* the operator's cached copy of it
    cacheFresh,     \* whether that copy is the stored version
    conf,           \* the stored Sandbox config
    confCache,      \* the operator's cached copy of it
    confCacheFresh, \* whether that copy is the stored version
    w,              \* the one worker of the session controller
    cw,             \* the one worker of the sandbox-config controller
    sandboxes,      \* the sandboxes each controller pod holds
    excused,        \* history: <<pod, session>> of sandboxes left behind
                    \* after a failed call or a finalizer that skips the call
    wiped           \* history: sessions whose pod restarted under them

storeVars == <<sess, cache, cacheFresh>>
confVars == <<conf, confCache, confCacheFresh>>
podVars == <<sandboxes, excused, wiped>>
vars == <<storeVars, confVars, w, cw, podVars>>

-----------------------------------------------------------------------------
\* Status.Phase; "New" is the empty phase of a Session just created and
\* "Absent" stands for a name no Session has.
Phases == {"Absent", "New", "Pending", "Creating", "Running", "Deleting",
           "Terminated"}

\* fin: the cleanup finalizer is present; del: DeletionTimestamp is set.
\* ControllerAddress and Port are functions of the pod and are not kept.
Session == [phase : Phases, pod : Pods \cup {None}, fin : BOOLEAN,
            del : BOOLEAN]

NoSession == [phase |-> "Absent", pod |-> None, fin |-> FALSE, del |-> FALSE]
NewSession == [NoSession EXCEPT !.phase = "New"]

\* A config without its finalizer, with it, or with it and being deleted.
ConfStates == {"Absent", "Unprotected", "Live", "Deleting"}

WorkerSteps == {"idle", "deletion", "unfinalize", "pending", "assign",
                "creating", "create", "running", "expiry", "deleting",
                "terminated", "status"}

\* obj is the object as last read or written, upd the object to be stored.
Worker == [pc : WorkerSteps, s : Sessions \cup {None}, obj : Session,
           upd : Session, fresh : BOOLEAN]

IdleWorker == [pc |-> "idle", s |-> None, obj |-> NoSession,
               upd |-> NoSession, fresh |-> FALSE]

\* todo: the active sessions it has still to patch.
ConfWorker == [pc : {"idle", "finalize", "evict", "unfinalize"},
               todo : SUBSET Sessions, fresh : BOOLEAN]

IdleConfWorker == [pc |-> "idle", todo |-> {}, fresh |-> FALSE]

Exists(o) == o.phase # "Absent"

-----------------------------------------------------------------------------
\* The API server.

\* Store o under name s; the caller says what becomes of the worker's copy.
Store(s, o) ==
    /\ sess' = [sess EXCEPT ![s] = o]
    /\ cacheFresh' = [cacheFresh EXCEPT ![s] = FALSE]
    /\ UNCHANGED cache

\* A write of s by someone other than the session worker.
ForeignWrite(s, o) ==
    /\ Store(s, o)
    /\ w' = [w EXCEPT !.fresh = w.fresh /\ w.s # s]

\* Delete: the object goes at once without finalizers, else it is marked.
Deleted(o) == IF o.fin THEN [o EXCEPT !.del = TRUE] ELSE NoSession

\* The informer delivers the stored version.
CacheSync(s) ==
    /\ ~cacheFresh[s]
    /\ cache' = [cache EXCEPT ![s] = sess[s]]
    /\ cacheFresh' = [cacheFresh EXCEPT ![s] = TRUE]
    /\ UNCHANGED <<sess, confVars, w, cw, podVars>>

ConfCacheSync ==
    /\ ~confCacheFresh
    /\ confCache' = conf
    /\ confCacheFresh' = TRUE
    /\ UNCHANGED <<storeVars, conf, w, cw, podVars>>

StoreConf(c) ==
    /\ conf' = c
    /\ confCacheFresh' = FALSE
    /\ UNCHANGED confCache

-----------------------------------------------------------------------------
\* Router requests.  The router looks objects up in a cache of its own, which
\* may lag by any amount, and then writes by name: what the lookup saw does
\* not restrict the stored object the write meets.

\* createAndWaitForSession: AlreadyExists is tolerated and changes nothing.
CreateSession(s) ==
    /\ ~Exists(sess[s])
    /\ ForeignWrite(s, NewSession)
    /\ UNCHANGED <<confVars, cw, podVars>>

handleSessionDelete(s) ==
    /\ Exists(sess[s]) /\ ~sess[s].del
    /\ ForeignWrite(s, Deleted(sess[s]))
    /\ UNCHANGED <<confVars, cw, podVars>>

\* One session of the eviction loop: a status patch without resourceVersion.
handleSandboxEvict(s) ==
    /\ Exists(sess[s]) /\ sess[s].phase # "Deleting"
    /\ ForeignWrite(s, [sess[s] EXCEPT !.phase = "Deleting"])
    /\ UNCHANGED <<confVars, cw, podVars>>

\* A write that changes neither phase nor assignment: the lastExecAt patch
\* the router sends after an exec, or a user's boxy.dev/retain annotation.
touchLastExecSession(s) ==
    /\ Exists(sess[s])
    /\ ForeignWrite(s, sess[s])
    /\ UNCHANGED <<confVars, cw, podVars>>

\* createSandboxFromBody; an existing config answers 409 and stays as it is.
handleSandboxCreate ==
    /\ conf = "Absent"
    /\ StoreConf("Unprotected")
    /\ cw' = [cw EXCEPT !.fresh = FALSE]
    /\ UNCHANGED <<storeVars, w, podVars>>

\* A patch of the spec: a new version, the same life-cycle state.
handleSandboxUpdate ==
    /\ conf # "Absent"
    /\ StoreConf(conf)
    /\ cw' = [cw EXCEPT !.fresh = FALSE]
    /\ UNCHANGED <<storeVars, w, podVars>>

handleSandboxDelete ==
    /\ conf \in {"Unprotected", "Live"}
    /\ StoreConf(IF conf = "Live" THEN "Deleting" ELSE "Absent")
    /\ cw' = [cw EXCEPT !.fresh = FALSE]
    /\ UNCHANGED <<storeVars, w, podVars>>

-----------------------------------------------------------------------------
\* The session reconciler.  MaxConcurrentReconciles is left at 1: one worker
\* serves all sessions.

Goto(pc) == w' = [w EXCEPT !.pc = pc]
Done == w' = IdleWorker

\* Continue with a status update that stores o.
UpdateWith(o) == w' = [w EXCEPT !.pc = "status", !.upd = o]

\* Where Reconcile sends an object.
Dispatch(o) ==
    IF o.del THEN "deletion"
    ELSE CASE o.phase \in {"New", "Pending"} -> "pending"
           [] o.phase = "Creating"   -> "creating"
           [] o.phase = "Running"    -> "running"
           [] o.phase = "Deleting"   -> "deleting"
           [] o.phase = "Terminated" -> "terminated"

Reconcile(s) ==
    /\ w.pc = "idle"
    /\ Exists(cache[s])
    /\ w' = [pc |-> Dispatch(cache[s]), s |-> s, obj |-> cache[s],
             upd |-> NoSession, fresh |-> cacheFresh[s]]
    /\ UNCHANGED <<storeVars, confVars, cw, podVars>>

\* Every return of an error (a refused or failed API call) and a crash of the
\* operator: what the worker knows is lost, what it wrote is not.
Abort ==
    /\ w.pc # "idle"
    /\ Done
    /\ UNCHANGED <<storeVars, confVars, cw, podVars>>

\* Whether the config a session names exists and is not being deleted.
fetchSandboxConfig == confCache \in {"Unprotected", "Live"}

\* Mutant of StatusUpdate: a patch in its place, without resourceVersion.
StatusPatch ==
    /\ w.pc = "status"
    /\ Store(w.s, w.upd)
    /\ Done
    /\ UNCHANGED <<confVars, cw, podVars>>

\* Status().Update: stores only a change of the stored version, then returns.
StatusUpdate ==
    /\ w.pc = "status"
    /\ IF w.fresh
       THEN Store(w.s, w.upd)
       ELSE UNCHANGED storeVars
    /\ Done
    /\ UNCHANGED <<confVars, cw, podVars>>

\* Mutant of DeleteSandbox: a controller that does not know the sandbox, or
\* does not answer, counts as a failure.
DeleteSandboxStrict(p, then) ==
    \/ /\ w.s \in sandboxes[p]
       /\ sandboxes' = [sandboxes EXCEPT ![p] = @ \ {w.s}]
       /\ excused' = excused \ {<<p, w.s>>}
       /\ then
    \/ UNCHANGED <<sandboxes, excused>> /\ Done

\* DeleteSandbox of the session's sandbox on pod p, followed by the worker
\* step "then": 204 and 404 continue; so does any transport error, whether or
\* not the controller got the request; other answers are retried later.
DeleteSandbox(p, then) ==
    \/ /\ sandboxes' = [sandboxes EXCEPT ![p] = @ \ {w.s}]
       /\ excused' = excused \ {<<p, w.s>>}
       /\ then
    \/ /\ UNCHANGED sandboxes
       /\ excused' = excused \cup ({p} \X (sandboxes[p] \cap {w.s}))
       /\ then
    \/ UNCHANGED <<sandboxes, excused>> /\ Done

\* Mutant of handleDeletion: no call for a session still Creating.
handleDeletionRunningOnly ==
    /\ w.pc = "deletion" /\ w.obj.fin
    /\ IF w.obj.phase = "Running"
       THEN DeleteSandbox(w.obj.pod, Goto("unfinalize")) /\ UNCHANGED wiped
       ELSE Goto("unfinalize") /\ UNCHANGED podVars
    /\ UNCHANGED <<storeVars, confVars, cw>>

\* handleDeletion up to the removal of the finalizer.
handleDeletion ==
    /\ w.pc = "deletion"
    /\ \/ /\ ~w.obj.fin
          /\ Done
          /\ UNCHANGED podVars
       \/ /\ w.obj.fin
          /\ w.obj.phase \in {"Running", "Creating"} /\ w.obj.pod # None
          /\ DeleteSandbox(w.obj.pod, Goto("unfinalize"))
          /\ UNCHANGED wiped
       \/ /\ w.obj.fin
          /\ w.obj.phase \notin {"Running", "Creating"} \/ w.obj.pod = None
          /\ Goto("unfinalize")
          /\ UNCHANGED podVars
    /\ UNCHANGED <<storeVars, confVars, cw>>

\* RemoveFinalizer and Update: the marked object disappears.
RemoveFinalizer ==
    /\ w.pc = "unfinalize"
    /\ IF w.fresh
       THEN /\ Store(w.s, NoSession)
            /\ excused' = excused \cup
                 {x \in Pods \X {w.s} : /\ w.obj.phase = "Deleting"
                                        /\ x[1] = w.obj.pod
                                        /\ w.s \in sandboxes[x[1]]}
       ELSE UNCHANGED <<storeVars, excused>>
    /\ Done
    /\ UNCHANGED <<confVars, cw, sandboxes, wiped>>

\* Mutant of AddFinalizer: added to the copy and never stored.
AddFinalizerUnsaved ==
    /\ w.pc = "pending"
    /\ Goto("assign")
    /\ UNCHANGED <<storeVars, confVars, cw, podVars>>

\* reconcilePending, first part: make sure of the finalizer.
AddFinalizer ==
    /\ w.pc = "pending"
    /\ LET o == [w.obj EXCEPT !.fin = TRUE] IN
       \/ w.obj.fin /\ Goto("assign") /\ UNCHANGED storeVars
       \/ /\ ~w.obj.fin /\ w.fresh
          /\ Store(w.s, o)
          /\ w' = [w EXCEPT !.pc = "assign", !.obj = o]
       \/ ~w.obj.fin /\ ~w.fresh /\ Done /\ UNCHANGED storeVars
    /\ UNCHANGED <<confVars, cw, podVars>>

\* reconcilePending, second part: without a config the session is given up,
\* else it is assigned to a ready pod, or waits while there is no capacity.
reconcilePending ==
    /\ w.pc = "assign"
    /\ \/ /\ ~fetchSandboxConfig
          /\ UpdateWith([w.obj EXCEPT !.phase = "Deleting"])
       \/ /\ fetchSandboxConfig
          /\ \E p \in Pods :
               UpdateWith([w.obj EXCEPT !.phase = "Creating", !.pod = p])
       \/ fetchSandboxConfig /\ Done
    /\ UNCHANGED <<storeVars, confVars, cw, podVars>>

\* reconcileCreating, up to the call.
reconcileCreating ==
    /\ w.pc = "creating"
    /\ IF fetchSandboxConfig
       THEN Goto("create")
       ELSE UpdateWith([w.obj EXCEPT !.phase = "Deleting"])
    /\ UNCHANGED <<storeVars, confVars, cw, podVars>>

\* Mutant of CreateSandbox: a refused create goes on to Running.
CreateSandboxNoReturn ==
    /\ w.pc = "create"
    /\ UpdateWith([w.obj EXCEPT !.phase = "Running"])
    /\ UNCHANGED <<storeVars, confVars, cw, podVars>>

\* reconcileCreating, the call: 201; 409 when the sandbox is already there;
\* another refusal; or a transport error, with the request done or not.
CreateSandbox ==
    /\ w.pc = "create"
    /\ LET p == w.obj.pod
           created == [sandboxes EXCEPT ![p] = @ \cup {w.s}]
       IN \/ /\ w.s \notin sandboxes[p]
             /\ sandboxes' = created
             /\ wiped' = wiped \ {w.s}
             /\ excused' = IF sess[w.s].pod = p THEN excused
                           ELSE excused \cup {<<p, w.s>>}
             /\ UpdateWith([w.obj EXCEPT !.phase = "Running"])
          \/ /\ w.s \in sandboxes[p]
             /\ Done
             /\ UNCHANGED podVars
          \/ /\ Done
             /\ UNCHANGED podVars
          \/ /\ sandboxes' \in {sandboxes, created}
             /\ excused' = excused \cup ({p} \X (sandboxes'[p] \cap {w.s}))
             /\ UpdateWith([w.obj EXCEPT !.phase = "Pending", !.pod = None])
             /\ UNCHANGED wiped
    /\ UNCHANGED <<storeVars, confVars, cw>>

\* reconcileRunning, the sliding window: a later lastExecAt moves ExpiresAt.
SlideExpiry ==
    /\ w.pc = "running"
    /\ \/ Goto("expiry") /\ UNCHANGED storeVars
       \/ w.fresh /\ Store(w.s, w.obj) /\ Goto("expiry")
       \/ ~w.fresh /\ Done /\ UNCHANGED storeVars
    /\ UNCHANGED <<confVars, cw, podVars>>

\* reconcileRunning, the check: expired, or looked at again later.
reconcileRunning ==
    /\ w.pc = "expiry"
    /\ \/ UpdateWith([w.obj EXCEPT !.phase = "Deleting"])
       \/ Done
    /\ UNCHANGED <<storeVars, confVars, cw, podVars>>

reconcileDeleting ==
    /\ w.pc = "deleting"
    /\ LET terminate == UpdateWith([w.obj EXCEPT !.phase = "Terminated"]) IN
       IF w.obj.pod # None
       THEN DeleteSandbox(w.obj.pod, terminate)
       ELSE terminate /\ UNCHANGED <<sandboxes, excused>>
    /\ UNCHANGED <<storeVars, confVars, cw, wiped>>

\* Mutant of reconcileTerminated: an expired session is deleted at once.
reconcileExpired ==
    /\ w.pc \in {"expiry", "terminated"}
    /\ Exists(sess[w.s]) /\ Store(w.s, Deleted(sess[w.s]))
    /\ Done
    /\ UNCHANGED <<confVars, cw, podVars>>

\* reconcileTerminated: kept (annotation, retention), or deleted by name.
reconcileTerminated ==
    /\ w.pc = "terminated"
    /\ \/ UNCHANGED storeVars
       \/ Exists(sess[w.s]) /\ Store(w.s, Deleted(sess[w.s]))
    /\ Done
    /\ UNCHANGED <<confVars, cw, podVars>>

-----------------------------------------------------------------------------
\* The sandbox-config reconciler.

ConfDone == cw' = IdleConfWorker

\* Mutant of Active: only sessions that run count.
ActiveRunning(o) == o.phase = "Running" /\ ~o.del

\* Mutant of Active: Terminated sessions kept for inspection count.
ActiveAll(o) == Exists(o) /\ ~o.del

\* A cached session that keeps a config being deleted from going away.
Active(o) == Exists(o) /\ o.phase # "Terminated" /\ ~o.del

ActiveSessions == {s \in Sessions : Active(cache[s])}
ToEvict == {s \in ActiveSessions : cache[s].phase # "Deleting"}

StartConf(pc, todo) ==
    cw' = [pc |-> pc, todo |-> todo, fresh |-> confCacheFresh]

\* Reconcile: a config without its finalizer gets it; one being deleted has
\* its active sessions listed from the cache: with none the finalizer goes,
\* else the ones not yet Deleting are patched and the rest is for later.
ReconcileConfig ==
    /\ cw.pc = "idle"
    /\ \/ confCache = "Unprotected" /\ StartConf("finalize", {})
       \/ /\ confCache = "Deleting" /\ ActiveSessions = {}
          /\ StartConf("unfinalize", {})
       \/ /\ confCache = "Deleting" /\ ToEvict # {}
          /\ StartConf("evict", ToEvict)
    /\ UNCHANGED <<storeVars, confVars, w, podVars>>

\* The Update that adds or removes the finalizer.
UpdateConfig ==
    /\ cw.pc \in {"finalize", "unfinalize"}
    /\ IF cw.fresh
       THEN StoreConf(IF cw.pc = "finalize" THEN "Live" ELSE "Absent")
       ELSE UNCHANGED confVars
    /\ ConfDone
    /\ UNCHANGED <<storeVars, w, podVars>>

\* handleDeletion's loop: patch one session; a failure is only logged.
EvictOne(s) ==
    /\ cw.pc = "evict" /\ s \in cw.todo
    /\ cw' = IF cw.todo = {s} THEN IdleConfWorker
             ELSE [cw EXCEPT !.todo = @ \ {s}]
    /\ \/ /\ Exists(sess[s]) /\ sess[s].phase # "Deleting"
          /\ ForeignWrite(s, [sess[s] EXCEPT !.phase = "Deleting"])
       \/ UNCHANGED <<storeVars, w>>
    /\ UNCHANGED <<confVars, podVars>>

ConfAbort ==
    /\ cw.pc # "idle"
    /\ ConfDone
    /\ UNCHANGED <<storeVars, confVars, w, podVars>>

-----------------------------------------------------------------------------
\* A controller pod starts over: its table of sandboxes is in memory.
PodRestart(p) ==
    /\ sandboxes[p] # {}
    /\ sandboxes' = [sandboxes EXCEPT ![p] = {}]
    /\ excused' = excused \ ({p} \X Sessions)
    /\ wiped' = wiped \cup {s \in sandboxes[p] : sess[s].pod = p}
    /\ UNCHANGED <<storeVars, confVars, w, cw>>

Init ==
    /\ sess = [s \in Sessions |-> NoSession]
    /\ cache = sess
    /\ cacheFresh = [s \in Sessions |-> TRUE]
    /\ conf = "Absent"
    /\ confCache = "Absent"
    /\ confCacheFresh = TRUE
    /\ w = IdleWorker
    /\ cw = IdleConfWorker
    /\ sandboxes = [p \in Pods |-> {}]
    /\ excused = {}
    /\ wiped = {}

RouterStep ==
    \/ \E s \in Sessions :
          \/ CreateSession(s) \/ handleSessionDelete(s)
          \/ handleSandboxEvict(s) \/ touchLastExecSession(s)
    \/ handleSandboxCreate \/ handleSandboxUpdate \/ handleSandboxDelete

\* The session worker's steps after Reconcile has picked a session.
WorkerStep ==
    \/ handleDeletion \/ RemoveFinalizer \/ AddFinalizer
    \/ reconcilePending \/ reconcileCreating \/ CreateSandbox
    \/ SlideExpiry \/ reconcileRunning \/ reconcileDeleting
    \/ reconcileTerminated \/ StatusUpdate

ConfWorkerStep ==
    ReconcileConfig \/ UpdateConfig \/ \E s \in Sessions : EvictOne(s)

Next ==
    \/ RouterStep
    \/ \E s \in Sessions : CacheSync(s) \/ Reconcile(s)
    \/ ConfCacheSync
    \/ WorkerStep \/ Abort
    \/ ConfWorkerStep \/ ConfAbort
    \/ \E p \in Pods : PodRestart(p)

Spec == Init /\ [][Next]_vars

-----------------------------------------------------------------------------
\* Every variable stays in its type.
TypeOK ==
    /\ sess \in [Sessions -> Session]
    /\ cache \in [Sessions -> Session]
    /\ cacheFresh \in [Sessions -> BOOLEAN]
    /\ conf \in ConfStates /\ confCache \in ConfStates
    /\ confCacheFresh \in BOOLEAN
    /\ w \in Worker
    /\ cw \in ConfWorker
    /\ sandboxes \in [Pods -> SUBSET Sessions]
    /\ excused \subseteq Pods \X Sessions
    /\ wiped \subseteq Sessions

\* A session assigned to a controller pod carries the cleanup finalizer, so
\* no Delete, however it interleaves with reconcilePending and the cache, can
\* make the object vanish while a controller may hold its sandbox.
AssignedIsFinalized ==
    \A s \in Sessions : sess[s].pod # None => sess[s].fin

\* The Session says Running only while its controller holds the sandbox, or
\* that controller restarted since: no stale reconcile, retried call or late
\* delete takes away the sandbox of a session that routes are served from.
RunningIsBacked ==
    \A s \in Sessions :
        sess[s].phase = "Running" /\ ~sess[s].del =>
            s \in wiped \/ s \in sandboxes[sess[s].pod]

\* A controller holds a sandbox only for a session that is assigned to it and
\* will still be cleaned up, or it was left behind in one of three ways: a
\* call failed in transport, the finalizer ran in phase Deleting (which skips
\* DeleteSandbox), or a create was sent from a stale copy to a pod the session
\* had been taken from.
NoUnexplainedOrphan ==
    \A p \in Pods : \A s \in sandboxes[p] :
        \/ <<p, s>> \in excused
        \/ sess[s].pod = p /\ sess[s].phase \in {"Creating", "Running", "Deleting"}

\* Readers of the Session see the contract of SessionContract: phases advance
\* in order, a pod is chosen once, Deleting and Terminated never lead back,
\* and a session marked for deletion is neither assigned nor started.
Contract == INSTANCE SessionContract
    WITH phase  <- [s \in Sessions |-> sess[s].phase],
         pod    <- [s \in Sessions |-> sess[s].pod],
         doomed <- [s \in Sessions |-> sess[s].del]

KeepsContract == Contract!CSpec

\* The finalizer of a config goes only when no session lives on it: at that
\* step no session is Creating or Running unless it is itself being deleted,
\* although the reconciler counted them in a cache that may lag.
ConfigOutlivesSessions ==
    [][conf = "Deleting" /\ conf' = "Absent" =>
          \A s \in Sessions :
              sess[s].phase \in {"Creating", "Running"} => sess[s].del]_vars

\* Garbage collection deletes by name what a copy showed as Terminated, and a
\* session of the same name may have been created since.  What it hits is ending
\* (or has ended) and its sandbox is gone or was left behind already, or it is a
\* new session the operator has not begun with, without finalizer or pod.
GCSparesStartedSessions ==
    [][\A s \in Sessions :
          reconcileTerminated /\ sess'[s] # sess[s] =>
              /\ sess[s].phase \in {"Terminated", "Deleting"} \/ sess[s] = NewSession
              /\ \A p \in Pods : s \in sandboxes[p] => <<p, s>> \in excused]_vars

\* Terminated sessions are kept for a while and then deleted
\* (docs/architecture.md:136), and no others are by the operator.
GCHitsOnlyTerminated ==
    [][\A s \in Sessions :
          reconcileTerminated /\ sess'[s] # sess[s] =>
              sess[s].phase \in {"Terminated", "Deleting"}]_vars
=============================================================================
