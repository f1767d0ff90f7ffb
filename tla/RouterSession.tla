--------------------------- MODULE RouterSession ---------------------------
(***************************************************************************)
(* How the router gets a request to its session (internal/router/server.go *)
(* and mcp.go): look the session up, create it or recreate a terminated    *)
(* one, wait until it runs, then send the exec to its controller.  Reads   *)
(* come from the router's informer cache, which lags; writes go to the API *)
(* server.  The model has one session name and one router; the operator,   *)
(* reduced to what SessionLifecycle shows of it, and the users change the  *)
(* session meanwhile, and the controllers keep the sandboxes made for it.  *)
(* touchLastExecSession changes nothing that is kept here, and access      *)
(* checks, API errors and cancelled clients are Refuse.                    *)
(***************************************************************************)
EXTENDS Integers, FiniteSets

CONSTANTS Reqs,            \* requests in flight at the same time
          Configs,         \* names of Sandbox configs
          Default,         \* the config of the default sandbox; its shared
                           \* session has the one session name of the model
          Kinds,           \* the kinds of requests that are made
          Pods, NoPod,     \* the controllers, and the absence of one
          MaxConcurrency,  \* BOXY_MAX_CONCURRENCY, the size of sem
          Deletable,       \* bound: the configs that somebody deletes
          MaxGen,          \* bound: sessions created under the name
          MaxStuck         \* bound: creations given up and still under way

AllKinds == {"create", "exec", "tool", "shared", "default"}

ASSUME ReqsAssumption == IsFiniteSet(Reqs)
ASSUME ConfigsAssumption == Default \in Configs
ASSUME KindsAssumption == Kinds \subseteq AllKinds
ASSUME PodsAssumption == NoPod \notin Pods
ASSUME LimitsAssumption ==
    MaxConcurrency \in Nat \ {0} /\ MaxGen \in Nat \ {0} /\ MaxStuck \in Nat

VARIABLES sess,       \* the session as the API server has it
          born,       \* sessions created so far
          cache,      \* the session as the router's cache shows it
          confs,      \* the configs: "none", "live", or "going" (finalizer)
          confCache,  \* the configs as the router's cache shows them
          assigned,   \* the last session that was given a controller
          box,        \* the sandbox each controller has under the name, if any
          stuck,      \* creations that the operator has given up and a controller has not
          sem,        \* slots taken in the router's semaphore
          req         \* the requests

boxes == <<box, stuck>>
store == <<sess, born, assigned, boxes>>
caches == <<cache, confCache>>
vars == <<store, caches, confs, sem, req>>

Phases == {"Pending", "Creating", "Running", "Deleting", "Terminated"}
Session == [gen : 0..MaxGen, conf : Configs, phase : Phases, pod : Pods \cup {NoPod},
            fin : BOOLEAN, del : BOOLEAN]
NoSession == [gen |-> 0, conf |-> Default, phase |-> "Pending", pod |-> NoPod,
              fin |-> FALSE, del |-> FALSE]
NewSession(c) == [NoSession EXCEPT !.gen = born + 1, !.conf = c]

\* The session a sandbox is for, and whether the operator had given up its creation.
Box == [gen : 0..MaxGen, late : BOOLEAN]
NoBox == [gen |-> 0, late |-> FALSE]

PCs == {"idle", "find", "default", "conf", "again", "delete", "post", "wait", "reget",
        "ready", "exec"}
Answers == {"none", "ok", "busy", "mismatch", "notfound", "conflict", "terminated",
            "timeout", "notready", "error"}

\* copy  the session it holds;  old  the last one it knows to be over: it has
\* deleted that one, or it was gone when the request created its own
\* made  it created the default config;  ans  the answer it got, when idle
Request == [pc : PCs, kind : AllKinds, conf : Configs, copy : Session, old : 0..MaxGen,
            made : BOOLEAN, ans : Answers]
Idle == [pc |-> "idle", kind |-> "exec", conf |-> Default, copy |-> NoSession, old |-> 0,
         made |-> FALSE, ans |-> "none"]

InFlight(r) == req[r].pc # "idle"

\* The REST handlers take their slot first, the tools just before the exec.
Holds(r) == InFlight(r) /\ (req[r].kind = "exec" \/ req[r].pc = "exec")

Go(r, pc) == req' = [req EXCEPT ![r].pc = pc] /\ UNCHANGED sem
GoWith(r, pc, s) == req' = [req EXCEPT ![r].pc = pc, ![r].copy = s] /\ UNCHANGED sem

\* The deferred release and the answer.
Answer(r, a) ==
    /\ req' = [req EXCEPT ![r] = [Idle EXCEPT !.ans = a]]
    /\ sem' = IF Holds(r) THEN sem - 1 ELSE sem

\* What lookupSession and lookupSandbox find.
Visible == cache.gen # 0 /\ ~cache.del
Known(c) == confCache[c] = "live"

-----------------------------------------------------------------------------
\* A request arrives.  "tool" names session and config, "shared" only the
\* config, "default" neither.
Start(r, kind, c) ==
    /\ req[r].pc = "idle"
    /\ kind \in {"shared", "default"} => c = Default
    /\ req' = [req EXCEPT ![r] =
         [Idle EXCEPT !.kind = kind, !.conf = c,
            !.pc = CASE kind = "exec" -> IF sem < MaxConcurrency THEN "find" ELSE "idle"
                     [] kind = "tool" -> "find"
                     [] kind = "default" -> "default"
                     [] OTHER -> "conf",
            !.ans = IF kind = "exec" /\ sem = MaxConcurrency THEN "busy" ELSE "none"]]
    /\ sem' = IF kind = "exec" /\ sem < MaxConcurrency THEN sem + 1 ELSE sem
    /\ UNCHANGED <<store, caches, confs>>

\* Mutant of lookupSession: whatever does not run is recreated.
lookupNotRunning(r) ==
    /\ req[r].pc = "find"
    /\ IF ~Visible THEN Go(r, "conf")
       ELSE IF req[r].kind = "exec" /\ cache.phase # "Running" THEN GoWith(r, "delete", cache)
       ELSE IF cache.conf # req[r].conf THEN Answer(r, "mismatch")
       ELSE GoWith(r, "ready", cache)
    /\ UNCHANGED <<store, caches, confs>>

\* lookupSession in the exec handlers and in resolveToolSession.  Only the exec
\* handlers recreate a terminated session.
lookupSession(r) ==
    /\ req[r].pc = "find"
    /\ IF ~Visible THEN Go(r, "conf")
       ELSE IF req[r].kind = "exec" /\ cache.phase = "Terminated" THEN GoWith(r, "delete", cache)
       ELSE IF cache.conf # req[r].conf THEN Answer(r, "mismatch")
       ELSE GoWith(r, "ready", cache)
    /\ UNCHANGED <<store, caches, confs>>

\* resolveDefaultSession creates the default config when it finds none.
resolveDefaultSession(r) ==
    LET c == req[r].conf IN
    /\ req[r].pc = "default"
    /\ \/ /\ Known(c)
          /\ Go(r, "conf") /\ UNCHANGED confs
       \/ /\ ~Known(c) /\ confs[c] = "none"
          /\ confs' = [confs EXCEPT ![c] = "live"]
          /\ req' = [req EXCEPT ![r].pc = "conf", ![r].made = TRUE]
          /\ UNCHANGED sem
       \/ /\ ~Known(c) /\ confs[c] # "none"
          /\ Answer(r, "conflict") /\ UNCHANGED confs
    /\ UNCHANGED <<store, caches>>

\* lookupSandbox in handleSessionCreate, the exec handlers and ensureSession.
lookupSandbox(r) ==
    /\ req[r].pc = "conf"
    /\ IF ~Known(req[r].conf) THEN Answer(r, "notfound")
       ELSE Go(r, IF req[r].kind \in {"create", "exec"} THEN "post" ELSE "again")
    /\ UNCHANGED <<store, caches, confs>>

\* ensureSession's own lookupSession: any session but a terminated one is
\* reused.
ensureSession(r) ==
    /\ req[r].pc = "again"
    /\ IF ~Visible THEN Go(r, "post")
       ELSE IF cache.phase = "Terminated" THEN GoWith(r, "delete", cache)
       ELSE Go(r, "reget")
    /\ UNCHANGED <<store, caches, confs>>

\* Kubernetes: a Delete marks an object with a finalizer, and removes one
\* without.
Deleted == IF sess.fin THEN [sess EXCEPT !.del = TRUE] ELSE NoSession

\* The Delete of a session that was found terminated.  It goes by name.
DeleteTerminated(r) ==
    /\ req[r].pc = "delete"
    /\ IF sess.gen = 0 THEN Answer(r, "error") /\ UNCHANGED sess
       ELSE /\ sess' = Deleted
            /\ req' = [req EXCEPT ![r].pc = IF req[r].kind = "exec" THEN "conf" ELSE "post",
                                  ![r].old = sess.gen, ![r].copy = NoSession]
            /\ UNCHANGED sem
    /\ UNCHANGED <<born, assigned, boxes, caches, confs>>

\* Create in createAndWaitForSession: that the name is taken is no error.  (A
\* creation beyond the bound MaxGen fails.)
CreateSession(r) ==
    /\ req[r].pc = "post"
    /\ \/ /\ sess.gen # 0
          /\ Go(r, "wait") /\ UNCHANGED <<sess, born>>
       \/ /\ sess.gen = 0 /\ born < MaxGen
          /\ sess' = NewSession(req[r].conf) /\ born' = born + 1
          /\ req' = [req EXCEPT ![r].pc = "wait", ![r].old = born] /\ UNCHANGED sem
       \/ /\ sess.gen = 0 /\ born = MaxGen
          /\ Answer(r, "error") /\ UNCHANGED <<sess, born>>
    /\ UNCHANGED <<assigned, boxes, caches, confs>>

\* Mutant of createAndWaitForSession: without its deadline.
waitForever(r) ==
    /\ req[r].pc = "wait"
    /\ \/ /\ cache.gen # 0 /\ cache.phase = "Running"
          /\ IF req[r].kind = "create" THEN Answer(r, "ok")
             ELSE GoWith(r, IF req[r].kind = "exec" THEN "ready" ELSE "reget", cache)
       \/ cache.gen # 0 /\ cache.phase = "Terminated" /\ Answer(r, "terminated")
    /\ UNCHANGED <<store, caches, confs>>

\* The loop of createAndWaitForSession: a Get that ends it, or one that does not
\* once the deadline has passed.  The Gets in between change nothing.
createAndWaitForSession(r) ==
    /\ req[r].pc = "wait"
    /\ \/ /\ cache.gen # 0 /\ cache.phase = "Running"
          /\ IF req[r].kind = "create" THEN Answer(r, "ok")
             ELSE GoWith(r, IF req[r].kind = "exec" THEN "ready" ELSE "reget", cache)
       \/ cache.gen # 0 /\ cache.phase = "Terminated" /\ Answer(r, "terminated")
       \/ /\ cache.gen = 0 \/ cache.phase \notin {"Running", "Terminated"}
          /\ Answer(r, "timeout")
    /\ UNCHANGED <<store, caches, confs>>

\* resolveToolSession looks the session up again after ensureSession.
Relookup(r) ==
    /\ req[r].pc = "reget"
    /\ IF Visible THEN GoWith(r, "ready", cache) ELSE Answer(r, "notfound")
    /\ UNCHANGED <<store, caches, confs>>

\* Mutant of CheckRunning: a tool takes its slot before the phase is checked.
CheckAfterSlot(r) ==
    /\ req[r].pc = "ready"
    /\ IF req[r].kind # "exec" /\ sem = MaxConcurrency THEN Answer(r, "busy")
       ELSE /\ req' = [req EXCEPT ![r].pc = IF req[r].copy.phase = "Running" THEN "exec" ELSE "idle"]
            /\ sem' = IF req[r].kind = "exec" THEN sem ELSE sem + 1
    /\ UNCHANGED <<store, caches, confs>>

\* The phase of the copy is checked; a tool takes its slot.
CheckRunning(r) ==
    /\ req[r].pc = "ready"
    /\ IF req[r].copy.phase # "Running" THEN Answer(r, "notready")
       ELSE IF req[r].kind = "exec" THEN Go(r, "exec")
       ELSE IF sem = MaxConcurrency THEN Answer(r, "busy")
       ELSE req' = [req EXCEPT ![r].pc = "exec"] /\ sem' = sem + 1
    /\ UNCHANGED <<store, caches, confs>>

\* The controller that the copy names runs the command in whatever sandbox it
\* has under the name, or answers 404.
Exec(r) ==
    /\ req[r].pc = "exec"
    /\ Answer(r, IF box[req[r].copy.pod] # NoBox THEN "ok" ELSE "error")
    /\ UNCHANGED <<store, caches, confs>>

\* An access check, a call to the API server or to the controller fails, or the
\* client goes away.
Refuse(r) ==
    /\ InFlight(r)
    /\ Answer(r, "error")
    /\ UNCHANGED <<store, caches, confs>>

Step(r) ==
    \/ lookupSession(r) \/ resolveDefaultSession(r) \/ lookupSandbox(r)
    \/ ensureSession(r) \/ DeleteTerminated(r) \/ CreateSession(r)
    \/ createAndWaitForSession(r) \/ Relookup(r) \/ CheckRunning(r) \/ Exec(r)

-----------------------------------------------------------------------------
\* The other writers of the session, and the sandboxes.
SetPhase(phase) == sess' = [sess EXCEPT !.phase = phase] /\ UNCHANGED <<born, assigned>>
Others == UNCHANGED <<caches, confs, sem, req>>

\* A controller creates a sandbox for session n unless it has one of the name,
\* and deletes whichever it has.
Filled(p, n) ==
    IF box[p] = NoBox THEN [box EXCEPT ![p] = [gen |-> n, late |-> FALSE]] ELSE box
Emptied(p) == [q \in Pods |-> IF q = p THEN NoBox ELSE box[q]]

\* A creation whose answer the operator does not get: it was not begun, was
\* refused or failed, has been done, or is still under way.  (The setup script
\* runs under the context of the request, which a partition does not end.)
Unanswered(p, n) ==
    \/ box' \in {box, Filled(p, n)} /\ UNCHANGED stuck
    \/ /\ box[p] = NoBox /\ Cardinality(stuck) < MaxStuck
       /\ stuck' = stuck \cup {<<p, n>>} /\ UNCHANGED box

AddFinalizer ==
    /\ sess.gen # 0 /\ ~sess.del /\ ~sess.fin /\ sess.phase = "Pending"
    /\ sess' = [sess EXCEPT !.fin = TRUE]
    /\ UNCHANGED <<born, assigned, boxes>> /\ Others

\* Assigned, or its config not found; the operator's cache of the configs lags.
reconcilePending ==
    /\ sess.fin /\ ~sess.del /\ sess.phase = "Pending"
    /\ \/ /\ \E p \in Pods : sess' = [sess EXCEPT !.phase = "Creating", !.pod = p]
          /\ assigned' = sess.gen /\ UNCHANGED born
       \/ SetPhase("Deleting")
    /\ UNCHANGED boxes /\ Others

\* Mutant of reconcileCreating: a 409 counts as success.
reconcileConflict ==
    /\ ~sess.del /\ sess.phase = "Creating"
    /\ SetPhase("Running")
    /\ box' = Filled(sess.pod, sess.gen)
    /\ UNCHANGED stuck /\ Others

\* The sandbox is created and, unless the status update fails, the session runs;
\* a controller that cannot be reached sends it back to Pending, whatever became
\* of the request; the config is not found.  As long as the controller answers
\* 409 the session stays Creating.
reconcileCreating ==
    /\ ~sess.del /\ sess.phase = "Creating"
    /\ \/ /\ box[sess.pod] = NoBox /\ box' = Filled(sess.pod, sess.gen) /\ UNCHANGED stuck
          /\ SetPhase("Running") \/ UNCHANGED <<sess, born, assigned>>
       \/ /\ sess' = [sess EXCEPT !.phase = "Pending", !.pod = NoPod]
          /\ UNCHANGED <<born, assigned>>
          /\ Unanswered(sess.pod, sess.gen)
       \/ SetPhase("Deleting") /\ UNCHANGED boxes
    /\ Others

\* reconcileCreating with a copy that the operator's lagging cache still shows
\* as Creating: the status update will be refused, but the sandbox is made.  The
\* copy is of the last session the operator assigned, since it has seen that one.
createFromStale ==
    /\ assigned # 0
    /\ \E p \in Pods : Unanswered(p, assigned)
    /\ UNCHANGED <<sess, born, assigned>> /\ Others

\* A creation that was given up comes to its end: Create enters the sandbox
\* without another look at the table.
CreateLate ==
    /\ \E w \in stuck : /\ box' = [box EXCEPT ![w[1]] = [gen |-> w[2], late |-> TRUE]]
                        /\ stuck' = stuck \ {w}
    /\ UNCHANGED <<sess, born, assigned>> /\ Others

\* handleSandboxEvict, which patches what a cache that lags shows as not
\* terminated, and the expiry in reconcileRunning.
Evict ==
    /\ sess.gen # 0 /\ sess.phase # "Deleting"
    /\ SetPhase("Deleting")
    /\ UNCHANGED boxes /\ Others

\* A controller that cannot be reached counts as having deleted the sandbox.
reconcileDeleting ==
    /\ ~sess.del /\ sess.phase = "Deleting"
    /\ SetPhase("Terminated")
    /\ box' \in {box, Emptied(sess.pod)} /\ UNCHANGED stuck
    /\ Others

\* handleSessionDelete, and the retention in reconcileTerminated.
DeleteSession ==
    /\ sess.gen # 0 /\ ~sess.del
    /\ sess' = Deleted
    /\ UNCHANGED <<born, assigned, boxes>> /\ Others

handleDeletion ==
    /\ sess.del
    /\ sess' = NoSession
    /\ box' \in IF sess.phase \in {"Creating", "Running"} THEN {box, Emptied(sess.pod)} ELSE {box}
    /\ UNCHANGED <<born, assigned, stuck>> /\ Others

PodRestart ==
    /\ \E p \in Pods : box' = Emptied(p) /\ stuck' = {w \in stuck : w[1] # p}
    /\ UNCHANGED <<sess, born, assigned>> /\ Others

\* handleSandboxCreate and EnsureDefaultSandbox; handleSandboxDelete, of a
\* config with its finalizer or without; the config reconciler.
CreateConfig(c) ==
    /\ confs[c] = "none"
    /\ confs' = [confs EXCEPT ![c] = "live"]
    /\ UNCHANGED <<store, caches, sem, req>>

DeleteConfig(c) ==
    /\ c \in Deletable /\ confs[c] = "live"
    /\ \E s \in {"going", "none"} : confs' = [confs EXCEPT ![c] = s]
    /\ UNCHANGED <<store, caches, sem, req>>

ConfigGone(c) ==
    /\ confs[c] = "going"
    /\ sess.conf = c => sess.phase \notin {"Creating", "Running"}
    /\ confs' = [confs EXCEPT ![c] = "none"]
    /\ UNCHANGED <<store, caches, sem, req>>

\* The router does not look at the finalizer.
CacheSync == cache' = [sess EXCEPT !.fin = FALSE] /\ UNCHANGED <<store, confCache, confs, sem, req>>
ConfCacheSync == confCache' = confs /\ UNCHANGED <<store, cache, confs, sem, req>>

-----------------------------------------------------------------------------
Init ==
    /\ sess = NoSession /\ born = 0 /\ cache = NoSession
    /\ confs = [c \in Configs |-> "live"] /\ confCache = confs
    /\ assigned = 0 /\ box = [p \in Pods |-> NoBox] /\ stuck = {} /\ sem = 0
    /\ req = [r \in Reqs |-> Idle]

Next ==
    \/ \E r \in Reqs, kind \in Kinds, c \in Configs : Start(r, kind, c)
    \/ \E r \in Reqs : Step(r) \/ Refuse(r)
    \/ AddFinalizer \/ reconcilePending \/ reconcileCreating \/ createFromStale
    \/ CreateLate \/ Evict \/ reconcileDeleting \/ DeleteSession \/ handleDeletion \/ PodRestart
    \/ \E c \in Configs : CreateConfig(c) \/ DeleteConfig(c) \/ ConfigGone(c)
    \/ CacheSync \/ ConfCacheSync

Spec == Init /\ [][Next]_vars

\* A handler goroutine that can take its next step takes it; its calls have
\* timeouts.
FairSpec == Spec /\ \A r \in Reqs : WF_vars(Step(r))

-----------------------------------------------------------------------------
\* Types: the semaphore stays within its size.
TypeOK ==
    /\ sess \in Session /\ cache \in Session /\ born \in 0..MaxGen
    /\ confs \in [Configs -> {"none", "live", "going"}]
    /\ confCache \in [Configs -> {"none", "live", "going"}]
    /\ assigned \in 0..MaxGen /\ box \in [Pods -> Box]
    /\ stuck \subseteq Pods \X (0..MaxGen) /\ sem \in 0..MaxConcurrency
    /\ req \in [Reqs -> Request]

\* The router's semaphore counts exactly the requests that hold a slot, over
\* all the ways the handlers and tools end.
SlotsMatch == sem = Cardinality({r \in Reqs : Holds(r)})

\* An exec never runs in the sandbox of a session before the one its copy shows,
\* although deleted sessions leave sandboxes behind, controllers find a sandbox by
\* name, and the copy may be of any age: a session runs only once its controller
\* has made a new sandbox.  A creation that the operator had given up may undo
\* that.  (The copy may itself be of an earlier session: RunsInOwnSession.)
NeverOlderThanCopy ==
    \A r \in Reqs : req[r].pc = "exec" =>
        LET b == box[req[r].copy.pod]
        IN  b = NoBox \/ b.gen >= req[r].copy.gen \/ b.late

\* A request that recreates a terminated session never deletes one that goes on:
\* what its Delete hits is over, or is a later session than the one it saw, since
\* the Delete goes by name.
RecreatesOnlyEnded ==
    [][\A r \in Reqs : DeleteTerminated(r) /\ sess' # sess =>
          \/ sess.phase \in {"Deleting", "Terminated"}
          \/ sess.gen > req[r].copy.gen]_vars

\* Every request is answered: createAndWaitForSession gives up at its deadline
\* whatever becomes of the session.
RequestsEnd == \A r \in Reqs : InFlight(r) ~> ~InFlight(r)

\* TestResolveToolSession_SessionSandboxMismatch: a session of another config
\* than the requested one is rejected.
ConfigRespected == \A r \in Reqs : req[r].pc = "exec" => req[r].copy.conf = req[r].conf

\* ensureSession's comment: a Running or Pending session is reused as-is.
DeletesOnlyTerminated ==
    [][\A r \in Reqs : DeleteTerminated(r) /\ sess' # sess => sess.phase = "Terminated"]_vars

\* ensureSession's comment: a Terminated session is deleted and recreated; the
\* request does not fail because of the session it has just deleted.
RecreatesTerminated ==
    [][\A r \in Reqs : createAndWaitForSession(r) /\ req'[r].ans = "terminated"
                         => cache.gen > req[r].old]_vars

\* TestEnsureSession_RecreatesTerminated (provisioning_test.go:179): a request that
\* recreated its session uses the new one, not a session it knows to be over.
RunsInOwnSession == \A r \in Reqs : req[r].pc = "exec" => req[r].copy.gen > req[r].old

\* ensureSession's comment: sessions are never created for an unknown config.
NeverForUnknownConfig == [][born' # born => confs[sess'.conf] = "live"]_vars

\* A request for the default sandbox that had to create its config goes on to
\* use it, unless somebody deleted the config meanwhile.
DefaultIsUsable ==
    [][\A r \in Reqs : lookupSandbox(r) /\ req[r].made /\ req'[r].ans = "notfound"
                         => confs[req[r].conf] # "live"]_vars

=============================================================================
