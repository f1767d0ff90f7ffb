---------------------------- MODULE SessionExpiry ----------------------------
(***************************************************************************)
(* The times of one session: the expiry that the operator sets, slides     *)
(* with every exec and acts on, and the retention of the terminated one.   *)
(* The operator is woken by changes of the object and by the timers its    *)
(* reconciles ask for (RequeueAfter); what it reads may be out of date.    *)
(*                                                                         *)
(* SessionLifecycle has the rest of a session's life: finalizers, deletion *)
(* by a user, pods and their sandboxes.                                    *)
(***************************************************************************)
EXTENDS Integers

CONSTANTS TTLs,      \* the ttlSeconds the config may be given; 0: no expiry
          Retention, \* TerminatedRetentionSec
          Second,    \* instants of a second, in which times are stored
          Execs,     \* requests
          MaxTime    \* bound: the clock stops here

ASSUME TimesAssumption ==
    /\ TTLs \subseteq Nat /\ Retention \in Nat \ {0} /\ Second \in Nat \ {0}
    /\ \A t \in TTLs : t % Second = 0    \* they are whole seconds
    /\ MaxTime \in Nat

VARIABLES now,     \* the clock
          sess,    \* the stored Session
          cache,   \* the operator's copy of it
          synced,  \* that copy is the stored version
          ttl,     \* ttlSeconds of the stored config
          ttlSeen, \* the operator's copy of it
          rec,     \* the operator's worker
          queue,   \* the operator's work queue: key added, timer
          missed,  \* the last reconcile saw the session before its expiry and
                   \* asked for a timer only after it
          exec     \* the requests

store == <<sess, cache, synced>>
config == <<ttl, ttlSeen>>
vars == <<now, store, config, rec, queue, missed, exec>>

Nil == -1      \* no time; no config
Failed == -2   \* a config that cannot be read

Times == Nat \cup {Nil}

Phases == {"Pending", "Creating", "Running", "Deleting", "Terminated", "Gone"}
\* retain: the annotation boxy.dev/retain
Session == [phase : Phases, exp : Times, last : Times, term : Times, retain : BOOLEAN]

Steps == {"idle", "decide"} \cup Phases
Rec == [pc : Steps, obj : Session, at : Nat, ttl : Int, fresh : BOOLEAN]

NewSession == [phase |-> "Pending", exp |-> Nil, last |-> Nil, term |-> Nil,
               retain |-> FALSE]
IdleRec == [pc |-> "idle", obj |-> NewSession, at |-> 0, ttl |-> Nil, fresh |-> FALSE]

\* A time as the API server keeps it.
Stored(t) == Second * (t \div Second)

-----------------------------------------------------------------------------
\* A write.  One that changes nothing makes no new version.
Store(o) ==
    /\ sess' = o
    /\ synced' = (synced /\ o = sess)
    /\ UNCHANGED cache

\* A write of somebody else than the worker.
Patch(o) == Store(o) /\ rec' = [rec EXCEPT !.fresh = @ /\ o = sess]

\* The key is added to the queue, at once or after one of the fixed delays (2 s,
\* 5 s, 5 min), which no property tells apart.  The queue keeps one entry per key:
\* a timer may be gone with that.
Added == queue' \in {[ready |-> TRUE, due |-> d] : d \in {Nil, queue.due}}

\* RequeueAfter, until t: the earlier of two timers is kept, and none is needed
\* when the key has been added.
Arm(t) ==
    queue' \in {[queue EXCEPT !.due = IF @ = Nil \/ t < @ THEN t ELSE @]}
                 \cup IF queue.ready THEN {[queue EXCEPT !.due = Nil]} ELSE {}

Finished == rec' = IdleRec

-----------------------------------------------------------------------------
Tick ==
    /\ now < MaxTime
    /\ now' = now + 1
    /\ UNCHANGED <<store, config, rec, queue, missed, exec>>

\* The router, or whoever else writes the config; Nil: it is deleted.
handleSandboxUpdate(t) ==
    /\ ttl # Nil
    /\ ttl' = t
    /\ UNCHANGED <<now, store, ttlSeen, rec, queue, missed, exec>>

ConfSync ==
    /\ ttlSeen' = ttl
    /\ UNCHANGED <<now, store, ttl, rec, queue, missed, exec>>

\* The operator's cache catches up, and the change is an event.
CacheSync ==
    /\ ~synced
    /\ cache' = sess /\ synced' = TRUE
    /\ Added
    /\ UNCHANGED <<now, sess, config, rec, missed, exec>>

\* A timer that was set until t fires after t.
TimerFires ==
    /\ queue.due # Nil /\ now > queue.due
    /\ queue' = [ready |-> TRUE, due |-> Nil]
    /\ UNCHANGED <<now, store, config, rec, missed, exec>>

\* Another process takes over, or the same one restarts: the timers are gone,
\* and every object is an event.
Restart ==
    /\ cache' = sess /\ synced' = TRUE /\ ttlSeen' = ttl
    /\ rec' = IdleRec
    /\ queue' = [ready |-> TRUE, due |-> Nil]
    /\ missed' = FALSE
    /\ UNCHANGED <<now, sess, ttl, exec>>

-----------------------------------------------------------------------------
\* What a reconcile reads of the config, if it looks at it.
fetchSandboxConfig ==
    IF \/ cache.phase \in {"Pending", "Creating"}
       \/ cache.phase = "Running" /\ cache.exp # Nil /\ cache.last # Nil
    THEN {ttlSeen, Failed} ELSE {Nil}

\* Reconcile: the copy, the clock and the config are read.
Reconcile ==
    /\ rec.pc = "idle" /\ queue.ready
    /\ queue' = [queue EXCEPT !.ready = FALSE]
    /\ missed' = FALSE
    /\ \E t \in fetchSandboxConfig :
         rec' = IF cache.phase = "Gone" THEN IdleRec
                ELSE [pc |-> cache.phase, obj |-> cache, at |-> now, ttl |-> t,
                      fresh |-> synced]
    /\ UNCHANGED <<now, store, config, exec>>

\* The expiry slides.
Slides ==
    /\ rec.obj.exp # Nil /\ rec.obj.last # Nil /\ rec.ttl > 0
    /\ rec.obj.last + rec.ttl > rec.obj.exp

\* The decision on an expiry is due.
Deciding == rec.pc = "decide" \/ (rec.pc = "Running" /\ ~Slides)
Expired == Deciding /\ rec.obj.exp # Nil /\ rec.at > rec.obj.exp

\* An error, after which the key is added again: a read or a write fails, for
\* instance because the copy was out of date; no pod has room; a controller
\* answers with an error.
Fails ==
    /\ rec.pc \in {"Pending", "Creating", "Deleting", "Terminated"}
         \/ (rec.pc = "Running" /\ Slides) \/ Expired
    /\ Finished /\ Added
    /\ UNCHANGED <<now, store, config, missed, exec>>

\* The times taken between the reading of the clock and the write.
Since == rec.at..now

reconcilePending ==
    /\ rec.pc = "Pending" /\ rec.fresh /\ rec.ttl # Failed
    /\ IF rec.ttl = Nil
       THEN Store([rec.obj EXCEPT !.phase = "Deleting"])
       ELSE \E t \in Since :
              Store([rec.obj EXCEPT !.phase = "Creating",
                                    !.exp = IF rec.ttl > 0 THEN Stored(t + rec.ttl) ELSE @])
    /\ Finished /\ Added
    /\ UNCHANGED <<now, config, missed, exec>>

\* No config; or the controller could not be reached; or the sandbox is there.
reconcileCreating ==
    /\ rec.pc = "Creating" /\ rec.fresh /\ rec.ttl # Failed
    /\ \/ rec.ttl = Nil /\ Store([rec.obj EXCEPT !.phase = "Deleting"]) /\ Added
       \/ rec.ttl # Nil /\ Store([rec.obj EXCEPT !.phase = "Pending"]) /\ Added
       \/ /\ rec.ttl # Nil /\ Store([rec.obj EXCEPT !.phase = "Running"])
          /\ IF rec.obj.exp > now THEN Arm(rec.obj.exp) ELSE UNCHANGED queue
    /\ Finished
    /\ UNCHANGED <<now, config, missed, exec>>

\* reconcileRunning, its first write.
slide ==
    /\ rec.pc = "Running" /\ Slides /\ rec.fresh
    /\ LET o == [rec.obj EXCEPT !.exp = rec.obj.last + rec.ttl]
       IN Store(o) /\ rec' = [rec EXCEPT !.pc = "decide", !.obj = o]
    /\ UNCHANGED <<now, config, queue, missed, exec>>

\* Mutant of expire: a patch, which no version guards.
expirePatch ==
    /\ Expired
    /\ Store([sess EXCEPT !.phase = "Deleting"])
    /\ Finished /\ Added
    /\ UNCHANGED <<now, config, missed, exec>>

\* reconcileRunning, past the expiry.
expire ==
    /\ Expired /\ rec.fresh
    /\ Store([rec.obj EXCEPT !.phase = "Deleting"])
    /\ Finished /\ Added
    /\ UNCHANGED <<now, config, missed, exec>>

\* Mutant of wait: the timer of reconcileCreating is relied on.
waitUnarmed ==
    /\ Deciding /\ ~Expired
    /\ IF rec.obj.exp = Nil THEN Added ELSE UNCHANGED queue
    /\ Finished
    /\ UNCHANGED <<now, store, config, missed, exec>>

\* reconcileRunning, before the expiry.  A RequeueAfter that is not positive, the
\* expiry having come meanwhile, is none.
wait ==
    /\ Deciding /\ ~Expired
    /\ IF rec.obj.exp = Nil THEN Added /\ UNCHANGED missed
       ELSE IF rec.obj.exp > now THEN Arm(rec.obj.exp) /\ UNCHANGED missed
       ELSE missed' = TRUE /\ UNCHANGED queue
    /\ Finished
    /\ UNCHANGED <<now, store, config, exec>>

\* The controller has deleted the sandbox, or could not be reached.
reconcileDeleting ==
    /\ rec.pc = "Deleting" /\ rec.fresh
    /\ \E t \in Since : Store([rec.obj EXCEPT !.phase = "Terminated", !.term = Stored(t)])
    /\ Finished /\ Arm(now + Retention)
    /\ UNCHANGED <<now, config, missed, exec>>

\* Mutant of reconcileTerminated: the retention is counted from the reconcile.
reconcileTerminatedAnew ==
    /\ rec.pc = "Terminated"
    /\ IF rec.obj.retain THEN UNCHANGED <<store, queue>>
       ELSE Arm(rec.at + Retention) /\ UNCHANGED store
    /\ Finished
    /\ UNCHANGED <<now, config, missed, exec>>

\* Mutant of reconcileTerminated: the timer is trusted to have fired in time.
reconcileTerminatedEarly ==
    /\ rec.pc = "Terminated"
    /\ IF rec.obj.retain THEN UNCHANGED <<store, queue>>
       ELSE Store([sess EXCEPT !.phase = "Gone"]) /\ UNCHANGED queue
    /\ Finished
    /\ UNCHANGED <<now, config, missed, exec>>

\* Delete goes by name, whatever the version.
reconcileTerminated ==
    /\ rec.pc = "Terminated"
    /\ IF rec.obj.retain THEN UNCHANGED <<store, queue>>
       ELSE IF now - rec.obj.term < Retention
       THEN Arm(rec.obj.term + Retention) /\ UNCHANGED store
       ELSE Store([sess EXCEPT !.phase = "Gone"]) /\ UNCHANGED queue
    /\ Finished
    /\ UNCHANGED <<now, config, missed, exec>>

-----------------------------------------------------------------------------
\* A user annotates the session, once it has terminated: it is not read before.
Annotate ==
    /\ sess.phase = "Terminated"
    /\ Patch([sess EXCEPT !.retain = TRUE])
    /\ UNCHANGED <<now, config, queue, missed, exec>>

\* The router.

\* One session of the eviction loop, found in a cache that may lag: the patch may
\* meet one that has terminated since.
handleSandboxEvict ==
    /\ sess.phase \notin {"Deleting", "Gone"}
    /\ Patch([sess EXCEPT !.phase = "Deleting"])
    /\ UNCHANGED <<now, config, queue, missed, exec>>

\* The handler has found a Running session, perhaps in a cache that lags.
ExecStarts(e) ==
    /\ exec[e].pc = "idle" /\ sess.phase \in {"Running", "Deleting", "Terminated"}
    /\ exec' = [exec EXCEPT ![e].pc = "running"]
    /\ UNCHANGED <<now, store, config, rec, queue, missed>>

\* It fails, or it succeeds and the time is taken.
ExecEnds(e) ==
    /\ exec[e].pc = "running"
    /\ exec' \in {[exec EXCEPT ![e].pc = "done"],
                  [exec EXCEPT ![e] = [pc |-> "touch", at |-> Stored(now)]]}
    /\ UNCHANGED <<now, store, config, rec, queue, missed>>

\* The patch arrives, or it fails and nobody tries again.
touchLastExecSession(e) ==
    /\ exec[e].pc = "touch"
    /\ exec' = [exec EXCEPT ![e] = [pc |-> "done", at |-> Nil]]
    /\ \/ sess.phase # "Gone" /\ Patch([sess EXCEPT !.last = exec[e].at])
       \/ UNCHANGED <<store, rec>>
    /\ UNCHANGED <<now, config, queue, missed>>

-----------------------------------------------------------------------------
Init ==
    /\ now = 0
    /\ sess = NewSession /\ cache = NewSession /\ synced = TRUE
    /\ ttl \in TTLs /\ ttlSeen = ttl
    /\ rec = IdleRec
    /\ queue = [ready |-> TRUE, due |-> Nil]
    /\ missed = FALSE
    /\ exec = [e \in Execs |-> [pc |-> "idle", at |-> Nil]]

Worker ==
    \/ reconcilePending \/ reconcileCreating \/ slide \/ expire \/ wait
    \/ reconcileDeleting \/ reconcileTerminated

Next ==
    \/ Tick \/ ConfSync \/ CacheSync \/ TimerFires \/ Restart
    \/ \E t \in TTLs \cup {Nil} : handleSandboxUpdate(t)
    \/ Reconcile \/ Fails \/ Worker
    \/ Annotate \/ handleSandboxEvict
    \/ \E e \in Execs : ExecStarts(e) \/ ExecEnds(e) \/ touchLastExecSession(e)

Spec == Init /\ [][Next]_vars

\* Time passes, events and timers arrive, the worker serves the queue, and a
\* reconcile is not cut short or refused for ever.
FairSpec ==
    /\ Spec
    /\ WF_vars(Tick) /\ WF_vars(CacheSync) /\ WF_vars(TimerFires)
    /\ SF_vars(Reconcile) /\ SF_vars(Worker) /\ WF_vars(Fails)

-----------------------------------------------------------------------------
TypeOK ==
    /\ now \in 0..MaxTime
    /\ sess \in Session /\ cache \in Session /\ synced \in BOOLEAN
    /\ ttl \in TTLs \cup {Nil} /\ ttlSeen \in TTLs \cup {Nil}
    /\ rec \in Rec
    /\ queue \in [ready : BOOLEAN, due : Times]
    /\ missed \in BOOLEAN
    /\ exec \in [Execs -> [pc : {"idle", "running", "touch", "done"}, at : Times]]

\* The step in which the operator lets the session expire.
Expiring == sess.phase = "Running" /\ sess'.phase = "Deleting" /\ rec'.pc # rec.pc

\* A session that the operator lets expire has had no exec, as far as the router
\* had recorded one at that moment, for the time to live the operator read, and
\* its stored expiry has passed: an exec recorded during the reconcile makes the
\* Update fail, and the expiry slides in the next one.
ExpiresOnlyIdle ==
    [][Expiring =>
          /\ sess.exp < rec.at
          /\ rec.ttl > 0 /\ sess.last # Nil => sess.last + rec.ttl < rec.at]_vars

\* A reconcile is under way, asked for, or going to be.
Planned ==
    rec.pc # "idle" \/ queue.ready \/ ~synced \/ queue.due # Nil

\* The operator never forgets a session that is to expire or to be removed: no
\* event, conflict, restart or stale copy leaves it without a reconcile to come,
\* and the one for an expiry comes in time.  Only a reconcile that
\* the expiry overtakes asks for none.
WakeUpPlanned ==
    /\ sess.phase \in {"Pending", "Creating", "Deleting"} => Planned
    /\ sess.phase = "Terminated" => Planned \/ sess.retain
    /\ sess.phase = "Running" => Planned \/ missed
    /\ sess.phase = "Running" /\ sess.exp # Nil /\ ~queue.ready /\ synced /\ rec.pc = "idle" =>
          missed \/ queue.due <= sess.exp

\* A session that is idle past its expiry is given up, and a terminated one is
\* removed after the retention, unless it is annotated.
IdleSessionEnds ==
    /\ sess.phase = "Running" /\ sess.exp \in 0..(MaxTime - 1)
          ~> (sess.phase # "Running" \/ sess.exp >= MaxTime \/ missed)
    /\ sess.phase = "Terminated" /\ sess.term + Retention < MaxTime
          ~> (sess.phase = "Gone" \/ sess.retain \/ sess.term + Retention >= MaxTime)

\* The life of a running session is never cut short: neither execs that are
\* recorded out of order, nor a shorter time to live, nor an old copy bring its
\* expiry forward.
ExpiryOnlySlides ==
    [][sess.phase = "Running" /\ sess'.phase = "Running" => sess'.exp >= sess.exp]_vars

\* A terminated session is kept for the retention, although Delete goes by name
\* and by a copy that may be old: an eviction that meets it and terminates it once
\* more does not shorten that.  One that is annotated is removed only if it was
\* annotated after the copy was made.  (What Delete does to another session that
\* has got the name meanwhile: GCSparesStartedSessions of SessionLifecycle.)
RetentionKept ==
    [][sess.phase # "Gone" /\ sess'.phase = "Gone" =>
          /\ sess.term # Nil /\ now - sess.term >= Retention
          /\ sess.retain => ~rec.fresh]_vars

-----------------------------------------------------------------------------
\* A config with ttlSeconds 0 means no expiry (README.md:174).
ZeroMeansNoExpiry == [][Expiring => ttl # 0]_vars

\* ttlSeconds is the time to live of the sessions (README.md:174), those too that
\* were there when it was changed from 0.
NewTTLApplies ==
    sess.phase = "Running" /\ ttl > 0 ~> (ttl <= 0 \/ sess.exp # Nil \/ sess.phase # "Running")

\* Past expiresAt the operator gives the session up (docs/architecture.md:165).
ExpiresOnTime ==
    sess.phase = "Running" /\ sess.exp \in 0..(MaxTime - 1)
        ~> (sess.phase # "Running" \/ sess.exp >= MaxTime)

\* Each exec refreshes the time to live (README.md:174).
EachExecRefreshes ==
    [][Expiring => \A e \in Execs : exec[e].pc = "touch" => exec[e].at + rec.ttl < rec.at]_vars
=============================================================================
