# Verification of boxy

TLA+ models of boxy, a Kubernetes-native runtime for sandboxes, with the TLC
runs that check them on small instances and TLAPS proofs of the main results
for every instance. Paths are relative to the repository root.

## The system and its parts

| part | code | state | operations |
|---|---|---|---|
| Session reconciler | `internal/operator/session_reconciler.go` | `Session` objects: phase, assigned pod, finalizer, deletion mark, expiry | one handler per phase, `handleDeletion`, `assignController`, `scaleUp` |
| Sandbox-config reconciler | `internal/operator/sandbox_config_reconciler.go` | `Sandbox` objects: finalizer, deletion mark | add the finalizer, evict sessions, remove the finalizer |
| Scaler | `internal/operator/session_scaler.go` | replicas of the controller StatefulSet | `RunScaleDownLoop`, `tryScaleDown` |
| Pool reconciler | `internal/operator/pool_reconciler.go` | status of the `ControllerPool` | count, set condition |
| Router API | `internal/router/server.go` | a semaphore for execs; it writes the objects above | REST handlers for sessions and sandboxes, exec, exec stream, files |
| Router MCP tools | `internal/router/mcp.go` | the same semaphore | resolve or create a session, run a tool on it |
| Router authentication | `internal/router/auth.go` | token-review cache | `authenticate`, `authorizeResource`, `evictLoop` |
| Request validation | `internal/api/validate.go` | none | `Validate...` |
| Controller client | `internal/controller/client.go` | none | calls to a controller; which errors mean a stale route |
| Controller server | `cmd/boxy-controller/server.go` | semaphores for exec and streams | create, delete, exec, exec stream, files |
| nsjail adapter | `internal/nsjail/adapter.go` | table of sandboxes, workspace directories | `Create`, `Exec`, `ExecStream`, files, `Delete` |
| nsjail configuration, pty, cgroup, metrics, telemetry, commands | the other files | none that outlives a call | formatting, I/O, wiring |

The operator, the router and the users write the same `Session` and `Sandbox`
objects. The operator talks to the controller pods over HTTP; the router looks
a session up, follows its `ControllerAddress`, and sends execs to that pod. A
controller pod keeps its sandboxes in memory, so a restart forgets them.

What makes it hard, and what should hold all the same:

* **Session reconciler.** It acts on a cached copy that lags behind; its writes
  are refused when the object has moved on, but the calls it makes to a
  controller are not. It can stop between any two steps. A session that shows
  `Running` must have its sandbox; a sandbox must have a session that will
  clean it up; deletions and evictions must complete.
* **Config reconciler.** It counts sessions in the same lagging cache before it
  lets a config go. No session may live on a config that went.
* **Scaler.** It picks an idle pod by name, but a StatefulSet gives up its
  highest ordinal. Replicas stay within their limits; a pod in use stays.
* **Router.** Lookup and use are two steps; a session may be evicted, deleted or
  replaced under the same name between them.
* **Controller and adapter.** Requests run concurrently; creation runs a setup
  script outside the lock; the limits on sandboxes and execs are checked first
  and used later.
* **Expiry.** Only a timer in the operator's memory ends an idle session. The
  expiry slides with the execs the router records, on copies that lag.
* **Exec stream.** Two output streams, a timeout, a cap on the output, and a
  connection, a caller or a controller that may go away; the caller should see
  the output in order and then one exit, and must not take a broken stream for a
  success.
* **Token cache.** An answer may be reused only within its time to live.

## The modules

| module | models | proofs |
|---|---|---|
| `SessionLifecycle`, `SessionContract` | both reconcilers, the router's writes, caches, crashes and controllers; the abstract specification of a session | `SessionLifecycleProofs` |
| `SessionExpiry` | the times of a session: expiry, sliding, retention, timers and the work queue | `SessionExpiryProofs` |
| `Scaler` | placement, scale-up, scale-down and the StatefulSet | `ScalerProofs` |
| `Adapter` | creation, deletion, execs and edits on one controller pod | `AdapterProofs` |
| `ExecOutput` | the output of an exec or a file that is collected and answered | `AdapterProofs` |
| `ExecStream`, `ExecRelay` | the output of an exec that is streamed, from the command to the caller | `ExecRelayProofs` |
| `RouterSession` | create-and-wait, `ensureSession` and exec over a session that changes underneath | `RouterSessionProofs` |
| `ControllerPool` | the status of the pool | `ControllerPoolProofs` |
| `TokenCache` | the cache of token reviews | `TokenCacheProofs` |

The modules overlap where parts meet. `SessionLifecycle` leaves the choice of a
pod free, and `Scaler` models it; it leaves the moment of an expiry free, and
`SessionExpiry` has the times; it takes creation and deletion on a controller
as one step, and `Adapter` takes them apart; `RouterSession` contains the
operator reduced to the transitions `SessionLifecycle` shows.

## SessionLifecycle

The state is what the API server stores (`sess`, `conf`), what the operator's
cache shows (`cache`, `confCache`), what each of the two workers holds (`w`, `cw`)
and the sandboxes on every pod (`sandboxes`). A `Session` is reduced to its
phase, pod, finalizer and deletion mark; the times, owner, labels and messages
are dropped. Whether a TTL has run out is a free choice.

A `resourceVersion` is modelled by a flag: a copy is `fresh` as long as nothing
has been written to the object since the copy was taken. `Update` and
`Status().Update` succeed exactly on fresh copies; a patch and a delete by name
always meet the object that is stored. `touchLastExecSession` and
`handleSandboxUpdate` change nothing but the version, which is what makes
conflicts possible at any time. The cache may lag by any amount; when it is
brought up to date it takes the version stored then.

| definition | code |
|---|---|
| `Reconcile`, `Dispatch` | `Reconcile`: read the cached copy, switch on deletion mark and phase |
| `handleDeletion`, `RemoveFinalizer` | `handleDeletion`: the call to the controller, then the update |
| `AddFinalizer`, `reconcilePending`, `StatusUpdate` | `reconcilePending`: finalizer, assignment (any pod here), status update |
| `reconcileCreating`, `CreateSandbox` | `reconcileCreating`: the config, the call with its possible answers, status update |
| `SlideExpiry`, `reconcileRunning` | `reconcileRunning`: the sliding window, the expiry check |
| `reconcileDeleting`, `reconcileTerminated` | the handlers of the same name |
| `ReconcileConfig`, `EvictOne`, `UpdateConfig` | the config reconciler: list, evict one by one, finalizer |
| `Abort`, `ConfAbort` | every error return, and a crash of the operator |
| `CreateSession`, `handleSession...`, `handleSandbox...`, `touchLastExecSession` | the router's writes |
| `CacheSync`, `Store`, `Deleted`, `PodRestart`, ... | Kubernetes, as the code relies on it |

A handler is split into one action per call to the API server or to a
controller, since other actors act between them. There is one session worker,
because `MaxConcurrentReconciles` keeps its default of 1 and only the elected
leader reconciles. A call to a controller ends in one of the answers the client
tells apart: done, a refusal, or a transport error, after which the request may
or may not have been carried out.

`excused` and `wiped` are history variables. They record the sandboxes the code
is known to leave behind and the sessions whose pod restarted, so that the
invariants can say that nothing *else* goes wrong.

### What is checked

| run | instance | shows |
|---|---|---|
| `session_safety` | 1 session, 2 pods, no other bound | all safety properties, and that `SessionLifecycle` implements `SessionContract` |
| `session_liveness` | 1 session, 1 pod, 4 disturbances | deletion, eviction and the deletion of a config complete |

Sessions interact only through the worker, the pods and the config. One session
with everything around it unbounded is what TLC can exhaust; any number of
sessions is covered by the proofs, for all safety properties. Two pods are what reassignment needs. In
`session_liveness` the constant `Budget` bounds the router's requests, aborted
reconciles and pod restarts together, not the operator's own steps; four are
enough to create a config and a session and to disturb them twice. It does not
check deadlock, since an instance that has used its budget may come to rest.

Fairness (in `MCSessionLifecycle`): the cache is brought up to date and a started
reconcile takes its next step (weak fairness); every session that exists is
reconciled again and again, since the work queue is first-in first-out and every
return but two asks for a requeue or follows a write that triggers one (strong
fairness on `Reconcile`, enabled only while the worker is idle); and a call that
is retried for ever is answered some time (strong fairness on the answer). `CreateFairSpec`
adds that a create that can be answered 201 is answered so some time, and that a
pod with room is found.

### What is proved

`SessionLifecycleProofs` proves for all sets of sessions and pods, from the
one assumption that `None` is neither a session nor a pod:

| theorem | states |
|---|---|
| `TypeCorrect` | `TypeOK` |
| `FinalizerBeforeAssignment` | `AssignedIsFinalized` |
| `RunningSessionsAreBacked` | `RunningIsBacked` |
| `ConfigProtection` | `ConfigOutlivesSessions` |
| `GCSafety` | `GCSparesStartedSessions` |
| `OrphansExplained` | `NoUnexplainedOrphan` |
| `ImplementsContract` | `KeepsContract`: the refinement of `SessionContract` |

The inductive invariant `IInv` has to say what a stale copy still tells about the
stored object. That is `Lag(c, o)`: once some reader has seen a session leaving
(`Deleting`, `Terminated`, marked or gone), the stored one is in use only if it is
marked for deletion, because a session of the same name would have to pass
through the same worker first; a stale `Creating` copy names the right pod as
long as the session is still in use. `Lag` relates the stored object to the cached
copy and to the worker's copy; a fresh copy equals the stored object. `ConfInv`
adds what the config worker knows when it is about to drop the finalizer. Every
write from outside is `Harmless` in the sense that preserves `Lag`, which settles
the router and the config reconciler in one lemma; the session worker has one
lemma per action.

`OrphansExplained` rests on a second invariant, `OrphanInv`, inductive relative to
`IInv`. Between its call to a controller and the write that unbinds the session
the worker is `Unbinding`, and `Owed` says that what the call left behind is then
already excused. `TerminatedSeen` says that no copy still shows a terminated
session as `Creating`: the one worker wrote `Terminated` itself, from a copy in
which the session was leaving, so it cannot start a sandbox for it any more. All
writes but `StatusUpdate` and `RemoveFinalizer` are `Mild`: they take no pod from a
session and terminate none.

`GCSafety` is about `reconcileTerminated`, which deletes by name from a copy that may
be of an earlier session than the stored one. `SweptInv`, inductive relative to the
two others, says that as long as some copy shows a session terminated, its sandboxes
are gone or excused and the operator has not begun with another session of the name.
So the delete hits a session that has ended or is ending, or one that was created
just now and has neither finalizer nor pod. That the last case is possible is
`GCHitsOnlyTerminated` below.

The liveness properties are model-checked only (the proof system has no fairness
and no `ENABLED`).

## Scaler

`replicas` is the spec of the StatefulSet, `pods` what Kubernetes makes of it,
`place` where each session is. Every operator process has its own cached copies
(`stsSeen`, `podsSeen`, `seen`) and its own scale-down loop (`loop`); only the leader
has a session worker (`rec`). `assignController` and `IdlePods` see only the copies: a
pod may be chosen, or counted as idle, after it has stopped. A list is brought up to
date as a whole. Copies of the StatefulSet are fresh or not, as in `SessionLifecycle`.
Time is counted in ticks, and only the age of a pod up to the cooldown matters; the
age a copy gives is that of its creation time, so it grows with the clock (`Aged`).
`Listed` is what a list tells apart: a stopping pod is one that is not ready.
`assignController`, `StatusUpdate` and `scaleUp` are the steps of the worker,
`tryScaleDown` (list and pick) and `ScaleDown` (one `Update`) those of the loop. The
pod steps are Kubernetes: ordinals are started from the bottom and stopped from the top.

| run | instance | shows |
|---|---|---|
| `scaler` | 2 sessions, up to 2 pods with 1 place, pod 0 running from the start | replicas stay in bounds; a choice made from an up-to-date list never overfills a pod; an idle pool shrinks to its floor |
| `scale_down_busy` | 1 session, up to 2 pods with 1 place, none at the start | violated: an idle pod 0 costs the sessions of pod 1, with every copy up to date |

A pod with one place and two sessions is the smallest case in which scaling and
overbooking happen. The loop of one operator already races the worker of the same
process; any number of operators, and passes that take several replicas, are
covered by the proofs. `Standing` is the set of pods that run when the operators
start; the proofs take any, and `scaler` takes pod 0, which the floor of one replica
keeps. Fairness: the copies of the StatefulSet and of the sessions catch up, and the
loop runs (it has a ticker of 60 s) and is not refused or cut short for ever. Nothing
is assumed of the worker, the clock, the pods or their copies: with pod 0 listed and
old the loop has a pod to scale down for.

That a waiting session gets a pod is not among the properties: a scale-down may
take away the pod that was just added as long as it is empty, and whether the
session comes first depends on times (a retry after 5 s, a cooldown of 300 s, the
start of a pod) that no fairness expresses.

`ScalerProofs` proves `TypeOK`, `ReplicasInBounds`, `ScalesByOne` and
`OverbookedOnlyByLag` for all limits, sessions and operators. `CopiesInv` says that
a pass of the loop holding a fresh copy never has more updates left than there
are replicas above the floor, from which `ScalesByOne` (every `Update` is one step,
none is lost or doubled) follows too; `RoomInv` that a pod chosen from a current list
keeps its place until the choice is stored, because only the worker fills pods.

## Adapter

One controller pod. `sandboxes` is the adapter's table, `dirs` the directories on
disk, `execSem` the exec semaphore, `req` the requests in flight. A create is the
check of the limit (`handleCreate`), the entry into `Create` under the lock, and
the end of the setup script (`SetupDone`), which runs outside the lock; a delete
is the removal from the table and the `Teardown` that follows it; an exec takes a
slot, looks the sandbox up and runs; an edit is two execs. `Restart` loses the
table and keeps the disk. `MkdirAll` may fail half-way and `RemoveAll` may fail, and
nothing looks at the directory again. `leftover` has the
directories that these failures and restarts left, so that `DirsAreOwned` says that
every other one has its sandbox or a request that will register or remove it. `Overlap` is the set of names
whose creates and deletes may be in flight together. The operator waits for each
answer, so they come one at a time, but a broken connection or a new leader
leaves the earlier request running.

| run | instance | shows |
|---|---|---|
| `adapter` | 3 names (2 of them with overlap), 2 requests, limit 1, 1 slot | no directory without an owner; the semaphore counts the execs; creates in flight exceed the limit by at most their number; a sandbox without overlap keeps its workspace |

Two requests are enough for each pair of handlers to meet, a third name for a
table that exceeds the limit by the two requests in flight.

`AdapterProofs` proves `TypeOK`, `SlotsMatch`, `DirsAreOwned`, `OvershootBounded` and
`WorkspaceThere` for any names, requests and limits. `RoomInv` gives each create in
flight its place in the bound already; `AloneInv` says that a request that changes
a sandbox without overlap is alone with it. With overlap a sandbox may lose its
workspace (`WorkspaceAlwaysThere` below). (Its part on `ExecOutput` is below.)

## ExecOutput, ExecStream and ExecRelay

They count bytes and store none. `ExecOutput` follows the output of a command
through `limitWriter` (with the short count that makes `io.Copy` fail),
`buildExecResponse`, and the handlers of exec, file read and file edit. Of the
bytes' values it keeps the positions at which a cut leaves valid UTF-8.

`ExecStream` has the two drains with their shared cap, the command, `Wait` (which
closes the pipes) and the controller's handler; a drain reads, is granted its
share under `totalMu`, and sends, in separate steps. An event knows whether its
bytes are whole characters, since `json.Marshal` replaces the others.

`ExecRelay` extends it to the caller. `Dial`, `Scan` and `ScanEnd` are the client's
`ExecStream`; `Return` is what `handleSessionExecStream`, or the `bash` tool, does
with its result. The connection may break or go silent (`Cut`), the deadline of the
request or the caller's leaving closes it (`Deadline`), and the controller may
get a signal (`Shutdown`) and end after its grace period, or at once (`Stop`). The
callback is synchronous, so the events the client has read are those the caller
has. `caller` says whether it reads, has stopped reading without leaving
(`CallerStalls`), or is gone (`CallerLeaves`). No server of the repository sets a write
timeout, so the callback and the last write of the handler wait for a caller that
does not read, and behind them the controller's writes.

| run | instance | shows |
|---|---|---|
| `exec_output` | every output up to 8 bytes, cap 5, reads up to 3 | an edit never writes back a cut file; a cut read is marked; text stays text |
| `exec_stream` | 2 bytes per stream, cap 3, buffer 2, characters of 2 bytes | order, the cap, one end, an announced truncation; an exit code the caller is told was sent by the controller; every step leaves fewer to take (`StepsRunOut`); a call returns unless its caller stalls for ever, and the command's side is freed all the same (`CallReturns`) |

Eight bytes with a cap of five let the cap fall on each place of a four-byte
character, and cover output below, at and above it. In `exec_stream` the cap
falls within the second chunk of either stream, a read may return one byte, so a
stream has up to two chunks, and a chunk may end within a character. Neither run
checks deadlock: both end when the answer is complete. Fairness of `exec_stream`:
the command has a time limit, goroutines run as long as their process does, and
every request has a deadline. The controller's handler is asked to move on only while
what it writes is taken (`Drained`): the caller reads, or the connection is closed.
Nothing is assumed of the connection, of the caller, or of a controller that is to
stop.

`AdapterProofs` proves both invariants of `ExecOutput`, `CutsAreNoticed` and
`TextStaysText`, for every limit, output and split into chunks. The inductive
`OutputInv` says that the buffer holds what was copied, up to the limit, and that a
copy fails only above the limit (`Kept`), and that what an answer was made of does
not change after it (`Settled`). So an answer without a cut is made of a buffer below
the limit, which is the whole file. `TrimmedToText` shows that the fewest bytes
`trimPartialRune` finds are at most those of the rune the limit cut, so the rest
ends with a rune; that a rune has at most four bytes is what `IsText` assumes.

`ExecRelayProofs` proves the five invariants for every cap, chunk size, character
length and output. The invariants of the handler carry over from `ExecStream`, which
`ExecRelay` only watches (lemma `RelayImplementsStream`). `StreamInv` follows each drain: its events
reach as far as it has read, or the cap was hit (`Order`); what both have sent or
are about to send is within `totalRead`, and that within the cap (`Count`); the truncated
event is pending in one drain or sent once (`Mark`, `Marked`). `Stage` and `Ending` tie the
last event to the end of the handler, and `Reader` adds what the client holds: an
exit event it has read gave it its result, it reads nothing past an error event,
and a body that has ended was read to its last event.

`StepsRunOut` is the part of `CallReturns` that needs no fairness, and is proved
(`ExecRunsOut`): `StepsLeft` goes down with every step of every part, failures and
cuts included. A byte that is read pays for the events it may lead to and for
their reading by the client. The count is a natural number and starts at six for
each byte the command may write and sixteen (`StepsAreCounted`), so that
an exec with a finite output has no loop in which its parts could wait for each other
busily.

## RouterSession

One session name, one router, any controllers. `sess` is what the API server
stores, with `gen` numbering the sessions that had the name one after another and
`pod` the controller it was given; `cache` and `confCache` are what the router's
informers show, of any age; `box` says of each controller whose sandbox it has
under the name, and whether its creation came late; `stuck` has the creations that the
operator has given up and a controller still works on;
`assigned` is the last session the operator gave a controller; `sem`
is the router's semaphore. A request (`req`) goes through the places where the code talks to the API server:

| definition | code |
|---|---|
| `Start` | the arrival; the REST handlers take their slot here |
| `lookupSession` | the lookup in the exec handlers and in `resolveToolSession` |
| `resolveDefaultSession`, `lookupSandbox`, `ensureSession` | the functions of the same names, and the same calls in the handlers |
| `DeleteTerminated`, `CreateSession`, `createAndWaitForSession` | deletion by name, creation, the wait loop with its deadline |
| `Relookup`, `CheckRunning`, `Exec` | the second lookup of a tool, the check of the phase and the tools' slot, the call |
| `Refuse` | every failing call, refused access check and cancelled client |
| `createFromStale` | `reconcileCreating` with an old copy: the call is made, the status update refused |
| `Unanswered`, `CreateLate` | a create that is given up, and its end: `Create` enters the sandbox without another look at the table |
| `AddFinalizer`, `reconcile...`, `Evict`, `DeleteSession`, `handleDeletion`, `PodRestart` | the operator and the users, as `SessionLifecycle` shows them |
| `CreateConfig`, `DeleteConfig`, `ConfigGone` | the configs |

Kinds of requests: `create` (POST of a session), `exec` (exec and exec stream),
`tool` (session and config named), `shared` (config only), `default` (neither).

| run | instance | shows |
|---|---|---|
| `router_pair` | 2 requests (`exec` or `shared`), 1 slot, 2 sessions in turn, 1 creation under way, no config deleted, symmetric | the semaphore counts the holders; an exec never lands in the sandbox of a session before the one its copy shows, late creations apart; a request that recreates a session never deletes one that goes on |
| `router_liveness` | 1 request of any kind, 2 sessions in turn, the config may be deleted, no late creation | every request is answered |

`exec` and `shared` are the two ways through the code, with and without creation; the
others share their steps and are in the second run. Two sessions, an old one and a
newer one, are what a stale copy needs. `MaxStuck` and `Deletable` bound what is
irrelevant to the properties of the one run or of the other. Both runs have one
controller, which every session of the name meets; the proofs cover any number of
requests, sessions, controllers and creations under way.
One thing is taken from the rest of the system: the operator's copies are not
older than the last assignment, since the leader that made it has seen it; the lag
of a cache does not outlast a change of leader.
Fairness: a handler takes its next step, as its calls have timeouts; nothing is
assumed of the operator or the caches.

`RouterSessionProofs` proves `TypeOK` (`TypeCorrect`), `SlotsMatch` (`SlotAccounting`),
`NeverOlderThanCopy` (`NoOlderSandbox`) and `RecreatesOnlyEnded` (`RecreationIsSafe`) for
any requests, configs, controllers, limits and number of sessions. The invariant needed
for `NeverOlderThanCopy` is about all copies, however old: one that shows `Running` is of
a session no later than the one whose sandbox is on the controller it names (`Ok`). It
holds because a session gets `Running` only with the creation of its own sandbox, and
whatever is created afterwards, on any controller and from any copy, is of the last
session assigned, or late. It compares the sandbox with the copy. The copy may itself be
of a session that the request knows to be over (`RunsInOwnSession` below).
`RecreatesOnlyEnded` needs `OverInv`: a session that some copy shows as terminated is over
if it is still there, as no step leads back from `Deleting` or `Terminated`. For the slots,
every step of a request is shown to keep, take or end its hold (`Moves`), and each of
these is shown to move the count with it.

## SessionExpiry

One session and its times, which `SessionLifecycle` leaves out. `sess` is stored,
`cache` is the operator's copy, and `synced` says that no event is to come; `rec`
is the worker with the copy, the clock and the time to live it has read; `queue` is
the work queue with at most one entry and one timer for the key. An event may
consume the timer, since the queue keeps the key once (`Added`), and a
`RequeueAfter` that is not positive is none (`wait`). Times that are stored are cut
to whole seconds (`Stored`), the clock is finer. The router patches `LastExecAt` in a
goroutine after the exec, so the patch comes late or never (`ExecEnds`,
`touchLastExecSession`). A user may annotate a session to be retained once it has
terminated (`Annotate`; it is not read before), and a lookup of the config may fail where
a reconcile makes one (`fetchSandboxConfig`). Errors of every call end in `Fails`. The
fixed delays after an error are taken as "some time". The removal of a
terminated session is one step here; the finalizer's part is in `SessionLifecycle`.

| run | instance | shows |
|---|---|---|
| `session_expiry` | ttl 0 or 2, retention 1, seconds of 2 instants, 1 exec, clock up to 4 | a session that is to end has a reconcile to come, in time for its expiry; an idle one ends and is removed; one that expires was idle; none is removed before its retention has passed, or with an annotation that the copy shows |

A second of two instants is what rounding needs. A clock of four gives the first
expiry and a retention their time; an expiry also slides within it, but the end of
the one that slid lies beyond and is left to the proofs. The router's eviction goes by a list
that may be old, so it can meet a session that has terminated since, bring it back to
`Deleting` and have it terminated again. One exec already races each step of
the worker, and more are covered by the proofs. `IdleSessionEnds` speaks of
expiries within the bound. Deadlock is not checked, as the clock stops and the session
goes. Fairness: time passes, events and timers arrive, the worker takes what is
queued (strong, as a restart may empty its hands), and a reconcile is not refused or
cut short for ever (strong).

`SessionExpiryProofs` proves `WakeUpPlanned`, `ExpiresOnlyIdle`, `RetentionKept` and
`ExpiryOnlySlides` for every set of times to live, every retention and any execs.
`ExpiryOnlySlides` (the expiry of a running session is never brought forward, by an exec
recorded out of order, a shorter time to live or an old copy) is only proved: the cases
in which it could fail need two times to live or two execs, and more states than a
run should have. The inductive invariant adds to
`WakeUpPlanned` what the copies are worth (`Copies`: a fresh copy is the stored
session, and one that reaches the decision does not slide) and that a worker with
an old copy will be called again (`Recalled`): its event is still to come or has put
the key back into the queue. So a reconcile that finishes without a timer for
the stored session is never the last one. `RetentionKept` has an invariant of its
own, `Removable`: a copy that shows the session terminated, however old, shows the
time at which it did, because after an eviction only a worker that has seen
it terminated can terminate it again, and that one keeps the time. An annotated session
is removed only by a copy from before the annotation, since `Delete` goes by name.

`missed` excuses one case: the expiry comes between the clock's first reading
(`now`, line 238) and the second (`time.Until`, line 266), and no timer is set. See
`ExpiresOnTime` below.

## ControllerPool and TokenCache

`ControllerPool` has the pool's status, the cache, the work queue and one worker.
`controller_pool` (1 session, a floor of 1 or 2 replicas, 1 or 2 of them ready)
checks that whenever the operator has
nothing left to do the number of sessions is right and the condition is `True` exactly
when the ready replicas shown are at least the floor, and that the reconciler, which its own updates trigger,
comes to rest (`Settles`): an update that changes nothing causes no event, and the
transition time is kept. `NearsRest` says how: `Distance` (what the caches have not shown
yet, then what is queued, held or about to be noticed of the worker's own write)
goes down with each step of the operator and stays the same only for a reconcile
on an outdated pool. One session takes every phase, and two values each for the floor
and the ready replicas are enough to be below, at and above it.
Fairness: the cache catches up and the worker runs; failed
updates are up to the environment. `ControllerPoolProofs` proves the two invariants for
any sessions and replicas: what the worker is about to write, and what it has
written, follows from the cache unless another reconcile is queued or to come. It
also proves `NearsRest` (`EveryStepNearsRest`) and that the distance is a natural number
and zero exactly at rest (`RestIsDistanceZero`); this takes `Known`, what the copies
of the pool are worth, and that applying the status twice is applying it
once (`StatusIdempotent`). `Sessions` is assumed to be finite.

`TokenCache` has the entries, requests with a review under way, the ticker of
`evictLoop` and the API server's view of the tokens. `token_cache` (2 requests, a
token and the static token, ttl 2, 9 ticks, two rounds of the ticker and more)
checks that a token is accepted only if it was valid a ttl and one delay ago, and
that no entry is older than three ttls. `Delay` bounds the time from the API
server's answer to the entry; the entry is dated with the later time, so the
delay adds to the ttl. `TokenCacheProofs` proves both, and the types, for every
ttl, delay and number of requests: the invariant dates each entry and each answer
by the time the token was last valid, and bounds an entry's age by the next tick.

## What stays with TLC

The proof system has no fairness and no `ENABLED`, so liveness is model-checked
only: deletion, eviction, the shrinking pool, `CallReturns`, `RequestsEnd`, `Settles`,
`IdleSessionEnds`. Of two of them the safety half is proved, a count that each step
lowers: `StepsRunOut` and `NearsRest`. What is left to
TLC there is that a step is always possible until the end. Every other property
of a passing run is proved. The modules use no
recursive definitions, so nothing depends on induction over data. Where a type
invariant is not among the properties of a run, the theorem `TypeCorrect` states it, or the
inductive invariant of the proofs contains it (`Typed`, `OutputInv`).

## Statements the code does not meet

`scale_down_busy` is kept as a run: `tryScaleDown` takes a replica off for every
idle pod, while docs/architecture.md:154-156 has it go "from highest ordinal
downward". The others below were met while modelling. Each is a definition in
its module; added to the configuration named, TLC finds it violated (the
invariants as `INVARIANT`, the others as `PROPERTY`).

| definition | configuration | the repository says | the code |
|---|---|---|---|
| `CreatingProgresses` | `SessionLiveness.cfg` with `CreateFairSpec` | docs/architecture.md:683 "New leader elected; reconciler re-drives all CRs from Kubernetes state" | `session_reconciler.go:221`: stopped between the controller's 201 and the status update, every retry is answered 409 and the session stays `Creating` |
| `RestartIsRepaired` | `SessionLiveness.cfg` | docs/architecture.md:684 "router resets CR to `Pending`; operator reassigns to another pod" | nothing resets a `Running` session; the router returns the stale-route error |
| `DeleteCleansUp` | `SessionLiveness.cfg` | README.md:265 "Deletes the session and cleans up its controller-side sandbox." | `session_reconciler.go:113` calls the controller only in `Running` and `Creating`; a session deleted while `Deleting` leaves its sandbox |
| `ConfigGoesLast` | `SessionLiveness.cfg` | README.md:269 "Deletes the sandbox config after active sessions are evicted/terminated." | `sandbox_config_reconciler.go:42`: before the reconciler has added its finalizer a config goes at once |
| `GCHitsOnlyTerminated` | `SessionLifecycle.cfg` | docs/architecture.md:136 "(retained N seconds, then GC'd)" | `session_reconciler.go:313` deletes by name from a cached copy, and may hit a session created since under the name |
| `WithinCapacity` | `Scaler.cfg` with `MCScaler` | README.md:382 "Sandboxes per controller pod (bin-packing cap)." | `session_reconciler.go:385` counts in a cache that may lack the worker's last placement |
| `FirstFit` | `Scaler.cfg` with `MCScaler` | docs/architecture.md:142 "For each controller pod (ordered by ordinal)" | `session_reconciler.go:389` takes the fullest pod, in the cache's order |
| `MaxSandboxesKept` | `Adapter.cfg` | README.md:395 "Max concurrent sandboxes on this pod." | `server.go:175` of the controller checks before the setup script and not again |
| `WorkspaceAlwaysThere` | `Adapter.cfg` | README.md:45 "Private `/workspace`" | `adapter.go:478` removes the directory after the name is free, and may remove that of a sandbox created since |
| `EditStaysInSandbox` | `Adapter.cfg` | README.md:45 "Private `/workspace`" | `adapter.go:446`: the write of an edit looks the name up again and may find a new sandbox |
| `TruncationIsANotice` | `ExecOutput.cfg` | README.md:284 "truncated at the controller with a `\n[output truncated]` suffix. The response still returns `200 OK`." | `adapter.go:375`: `limitWriter` caps first, so the notice is never sent; a short write ends in a 500 |
| `FullOutput` | `ExecRelay.cfg` | docs/architecture.md:290 "still returning the full accumulated output in the final tool result" | `adapter.go:313`: `Wait` closes the pipes while the drains read |
| `ExitAlwaysPresent` | `ExecRelay.cfg` | README.md:246 "Final event, always present." | `server.go:337`: a failing exec ends in an error event |
| `NothingAfterTruncated` | `ExecRelay.cfg` | README.md:245 "Output cap hit; remaining output discarded." | `adapter.go:292`: granted under the lock, sent after it |
| `TextIntact` | `ExecRelay.cfg` | docs/architecture.md:290 "still returning the full accumulated output in the final tool result" | `adapter.go:296`: a chunk may end within a character, and both halves are replaced in the JSON |
| `ToolOutputWhole` | `ExecRelay.cfg` | the same line | `mcp.go:221` passes over the truncated event, so a cut output is returned without a word |
| `AlwaysReturns` | `ExecRelay.cfg` | docs/architecture.md:688 "exec returns exit code 137" | `server.go:775` of the router writes without a timeout, and waits for a caller that does not read |
| `ZeroMeansNoExpiry` | `SessionExpiry.cfg` | README.md:174 "`0` = no expiry" | `session_reconciler.go:240`: a session that has an expiry keeps it when the config is changed to 0 |
| `NewTTLApplies` | `SessionExpiry.cfg` | README.md:174 "Sandbox TTL (sliding window, refreshed on each exec)" | `session_reconciler.go:240`: a session placed without an expiry never gets one |
| `ExpiresOnTime` | `SessionExpiry.cfg` | docs/architecture.md:165 "When `now > expiresAt`, operator transitions Running -> Deleting" | `session_reconciler.go:266`: overtaken by the expiry, `RequeueAfter` is not positive and sets no timer; the session waits for the next event |
| `EachExecRefreshes` | `SessionExpiry.cfg` | README.md:174 "refreshed on each exec" | `server.go:515` of the router: the patch comes after the exec, and one that fails is only logged |
| `RecreatesTerminated` | `RouterLiveness.cfg` | mcp.go:415 "a Terminated one is deleted and recreated" | `mcp.go:439`: Delete only marks it, Create finds it there, the wait reads it and fails |
| `DeletesOnlyTerminated` | `RouterLiveness.cfg` | mcp.go:415 "A Running/Pending session is reused as-is" | `mcp.go:439` deletes by name from a cached copy |
| `RunsInOwnSession` | `RouterPair.cfg` | provisioning_test.go:179 "a Terminated session is deleted and recreated" | `server.go:550` of the router: the wait reads a cache that may still show as running a session that the request has deleted, or that was gone when it created its own |
| `NeverForUnknownConfig` | `RouterLiveness.cfg` | mcp.go:414-415 "sessions are never created for an unknown config" | `mcp.go:418` looks the config up in a cache, and the Create comes later |
| `DefaultIsUsable` | `RouterLiveness.cfg` | README.md:309 "omit both — uses the default sandbox" | `mcp.go:395` creates the config and looks it up in a cache that may lack it |
| `ConfigRespected` | `RouterPair.cfg` with `Kinds = {"tool"}`, `Configs = {c1, c2}` | provisioning_test.go:147 "A session id that belongs to a different config than the requested X-Sandbox-Id is rejected." | `mcp.go:432` compares only when its first lookup finds the session |
| `ReplicasInSync` | `ControllerPool.cfg` | docs/architecture.md:121 "in sync with the StatefulSet" | `pool_reconciler.go:36` does not watch the StatefulSet |

A further one needs no model: README.md:386 calls the cooldown the "Minimum seconds
between successive scale-down events", and `tryScaleDown` compares it with the age
of each pod only, so one pass may scale down several times.

## Limits and what is not modelled

* A create that the operator has given up lands at once or never in
  `SessionLifecycle`; `RouterSession` and `Adapter` have late ones.
* A cache that is brought up to date takes the newest version; the versions in
  between, which a watch delivers too, show nothing that a slower cache would not.
* Access checks are a step that may fail (`Refuse`); who may do what is up to
  Kubernetes.
* In `SessionLifecycle` whether a TTL has run out is a free choice, which includes
  whatever `SessionExpiry` decides.
* `SessionExpiry` has no deletion by a user and no failing pod; neither sets a time.
* `ExecRelay` takes the request as having found its session; `RouterSession` has how.
* A tool call that names a session and no config is left out of `RouterSession`.

Request validation and the nsjail configuration text are pure functions of
one request, made of checks and formatting of strings, with no state that a step of
another actor could change; the unit tests cover them. Terminals, cgroups, metrics
and telemetry, client factories, the commands' start-up and generated code are
not modelled; `PROJECT.json` gives the reason for each.
