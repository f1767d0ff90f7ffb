------------------------------ MODULE Adapter ------------------------------
(***************************************************************************)
(* One controller pod: the HTTP handlers of cmd/boxy-controller and the    *)
(* nsjail adapter behind them.  Requests run concurrently.  The adapter's  *)
(* lock covers its table of sandboxes, but not the setup script of a       *)
(* create, nor what a delete does after it has taken the sandbox out of    *)
(* the table.                                                              *)
(*                                                                         *)
(* An answer that changes nothing (400, 409, 429, 503, most 404) is no     *)
(* step, unless the request already holds something.                       *)
(***************************************************************************)
EXTENDS Integers, FiniteSets

CONSTANTS Ids,                 \* names of sandboxes
          Reqs,                \* requests that may be in flight together
          maxSandboxes,
          maxExecConcurrency,
          Overlap              \* names whose creates and deletes may overlap

ASSUME ReqsAssumption ==
    /\ IsFiniteSet(Ids) /\ Ids # {}
    /\ IsFiniteSet(Reqs) /\ Reqs # {}

ASSUME LimitsAssumption ==
    /\ maxSandboxes \in Nat
    /\ maxExecConcurrency \in Nat \ {0}

ASSUME OverlapAssumption == Overlap \subseteq Ids

VARIABLES sandboxes,  \* the adapter's table: the sandboxes that exist
          dirs,       \* the sandboxes with a directory on disk
          execSem,    \* slots taken in the exec semaphore
          req,        \* the requests
          leftover    \* history: what a restart, a MkdirAll that failed half-way or a
                      \* RemoveAll that failed left on disk

disk == <<dirs, leftover>>
vars == <<sandboxes, disk, execSem, req>>

\* pc   "create": counted in, not yet in Create; "setup": its script runs;
\*      "teardown": taken out of the table, directory not yet removed;
\*      "exec": holds a slot; "run": has found the sandbox, nsjail runs
\* op   an edit is two execs, "edit" that reads and "rewrite" that writes
\* held whose content an edit holds: nobody's, its sandbox's, or that of an
\*      earlier sandbox of the same name (history)
PCs == {"idle", "create", "setup", "teardown", "exec", "run"}
Ops == {"exec", "edit", "rewrite"}
Request == [pc : PCs, id : Ids, op : Ops, held : {"none", "own", "foreign"}]

Idle == [pc |-> "idle", id |-> CHOOSE i \in Ids : TRUE, op |-> "exec", held |-> "none"]

Done(r) == req' = [req EXCEPT ![r] = Idle]

At(pcs) == {r \in Reqs : req[r].pc \in pcs}

\* The creates and deletes of sandbox id in flight.
Changing(id) == {r \in At({"create", "setup", "teardown"}) : req[r].id = id}

\* The operator waits for the answer to a create or delete before it sends the
\* next one for the same session.  A connection that breaks, or an operator
\* that is replaced, leaves the earlier request running: Overlap.
MayStart(id) == id \in Overlap \/ Changing(id) = {}

-----------------------------------------------------------------------------
\* Mutant of handleCreate: the limit is off by one.
handleCreateOffByOne(r, id) ==
    /\ req[r].pc = "idle"
    /\ MayStart(id)
    /\ Cardinality(sandboxes) <= maxSandboxes
    /\ req' = [req EXCEPT ![r].pc = "create", ![r].id = id]
    /\ UNCHANGED <<sandboxes, disk, execSem>>

\* handleCreate: the limit is checked here and not again.
handleCreate(r, id) ==
    /\ req[r].pc = "idle"
    /\ MayStart(id)
    /\ Cardinality(sandboxes) < maxSandboxes
    /\ req' = [req EXCEPT ![r].pc = "create", ![r].id = id]
    /\ UNCHANGED <<sandboxes, disk, execSem>>

\* os.RemoveAll, when the directories are ds.  Nobody looks at its error.
RemoveAll(id, ds) ==
    \/ dirs' = ds \ {id} /\ leftover' = leftover \ {id}
    \/ dirs' = ds /\ leftover' = leftover \cup (ds \cap {id})

\* The sandbox has its directory, and owns it whatever was there before.
\* MkdirAll accepts a directory that is there.
Own(id) ==
    /\ dirs' = dirs \cup {id}
    /\ leftover' = leftover \ {id}

\* Create, up to its return or to the setup script: refused (409, 400); a
\* workspace that cannot be made, where what MkdirAll has made stays; a binary
\* that cannot be copied; registered at once; or off to the script.
Create(r) ==
    LET id == req[r].id IN
    /\ req[r].pc = "create"
    /\ \/ Done(r) /\ UNCHANGED <<sandboxes, disk>>
       \/ /\ id \notin sandboxes
          /\ \/ /\ Done(r)
                /\ dirs' = dirs \cup {id}
                /\ leftover' = leftover \cup ({id} \ dirs)
                /\ UNCHANGED sandboxes
             \/ Done(r) /\ RemoveAll(id, dirs \cup {id}) /\ UNCHANGED sandboxes
             \/ Done(r) /\ Own(id) /\ sandboxes' = sandboxes \cup {id}
             \/ /\ req' = [req EXCEPT ![r].pc = "setup"]
                /\ Own(id) /\ UNCHANGED sandboxes
    /\ UNCHANGED execSem

\* Mutant of SetupDone: a failed script leaves the directory.
SetupDoneNoCleanup(r) ==
    LET id == req[r].id IN
    /\ req[r].pc = "setup"
    /\ sandboxes' \in {sandboxes, sandboxes \cup {id}}
    /\ Done(r)
    /\ UNCHANGED <<disk, execSem>>

\* Mutant of SetupDone: a failed script is logged, and the sandbox registered.
SetupDoneAnyway(r) ==
    LET id == req[r].id IN
    /\ req[r].pc = "setup"
    /\ Done(r)
    /\ \/ UNCHANGED disk
       \/ RemoveAll(id, dirs)
    /\ sandboxes' = sandboxes \cup {id}
    /\ UNCHANGED execSem

\* The script has ended, well or not, and Create holds the lock again.  It does
\* not look at the table a second time.
SetupDone(r) ==
    LET id == req[r].id IN
    /\ req[r].pc = "setup"
    /\ Done(r)
    /\ \/ sandboxes' = sandboxes \cup {id} /\ leftover' = leftover \ {id} /\ UNCHANGED dirs
       \/ RemoveAll(id, dirs) /\ UNCHANGED sandboxes
    /\ UNCHANGED execSem

-----------------------------------------------------------------------------
\* Delete under the lock.  An edit in flight now holds content of a sandbox
\* that is gone.
handleDelete(r, id) ==
    /\ req[r].pc = "idle"
    /\ MayStart(id)
    /\ id \in sandboxes
    /\ sandboxes' = sandboxes \ {id}
    /\ req' = [q \in Reqs |->
                 IF q = r THEN [req[r] EXCEPT !.pc = "teardown", !.id = id]
                 ELSE IF req[q].id = id /\ req[q].held = "own"
                      THEN [req[q] EXCEPT !.held = "foreign"] ELSE req[q]]
    /\ UNCHANGED <<disk, execSem>>

\* The rest of Delete: the teardown script, whose failure is ignored, and
\* RemoveAll.
Teardown(r) ==
    LET id == req[r].id IN
    /\ req[r].pc = "teardown"
    /\ Done(r)
    /\ RemoveAll(id, dirs)
    /\ UNCHANGED <<sandboxes, execSem>>

-----------------------------------------------------------------------------
\* Mutant of acquire: the semaphore does not refuse.
acquireAlways(r, id, op) ==
    /\ req[r].pc = "idle"
    /\ execSem' = execSem + 1
    /\ req' = [req EXCEPT ![r].pc = "exec", ![r].id = id, ![r].op = op]
    /\ UNCHANGED <<sandboxes, disk>>

\* handleExec, handleExecStream, handleFileRead and -Write ("exec") and
\* handleFileEdit ("edit") take a slot, or answer 429.
acquire(r, id, op) ==
    /\ req[r].pc = "idle"
    /\ execSem < maxExecConcurrency
    /\ execSem' = execSem + 1
    /\ req' = [req EXCEPT ![r].pc = "exec", ![r].id = id, ![r].op = op]
    /\ UNCHANGED <<sandboxes, disk>>

release(r) == Done(r) /\ execSem' = execSem - 1

\* Mutant of Lookup: the 404 path returns without its slot.
LookupLeak(r) ==
    /\ req[r].pc = "exec"
    /\ IF req[r].id \in sandboxes THEN req' = [req EXCEPT ![r].pc = "run"] ELSE Done(r)
    /\ UNCHANGED <<sandboxes, disk, execSem>>

\* execWithStdin finds the sandbox in the table, or not (404).
Lookup(r) ==
    /\ req[r].pc = "exec"
    /\ IF req[r].id \in sandboxes
       THEN req' = [req EXCEPT ![r].pc = "run"] /\ UNCHANGED execSem
       ELSE release(r)
    /\ UNCHANGED <<sandboxes, disk>>

\* nsjail has run.  The first exec of an edit goes on to its second one unless
\* it failed (the workspace is gone, a timeout, no match in the file).
Run(r) ==
    /\ req[r].pc = "run"
    /\ \/ release(r)
       \/ /\ req[r].op = "edit" /\ req[r].id \in dirs
          /\ req' = [req EXCEPT ![r].pc = "exec", ![r].op = "rewrite", ![r].held = "own"]
          /\ UNCHANGED execSem
    /\ UNCHANGED <<sandboxes, disk>>

\* The controller's container restarts and finds its directories, or the pod
\* is replaced and its volume is empty.
Restart ==
    /\ sandboxes' = {}
    /\ execSem' = 0
    /\ req' = [r \in Reqs |-> Idle]
    /\ \/ UNCHANGED dirs
       \/ dirs' = {}
    /\ leftover' = dirs'

-----------------------------------------------------------------------------
Init ==
    /\ sandboxes = {} /\ dirs = {} /\ leftover = {}
    /\ execSem = 0
    /\ req = [r \in Reqs |-> Idle]

Next ==
    \/ \E r \in Reqs :
          \/ \E id \in Ids :
                \/ handleCreate(r, id) \/ handleDelete(r, id)
                \/ \E op \in Ops \ {"rewrite"} : acquire(r, id, op)
          \/ Create(r) \/ SetupDone(r) \/ Teardown(r)
          \/ Lookup(r) \/ Run(r)
    \/ Restart

Spec == Init /\ [][Next]_vars

-----------------------------------------------------------------------------
\* Every variable stays in its type.
TypeOK ==
    /\ sandboxes \subseteq Ids
    /\ dirs \subseteq Ids
    /\ leftover \subseteq Ids
    /\ execSem \in 0..maxExecConcurrency
    /\ req \in [Reqs -> Request]

\* A sandbox in the table has its workspace (README.md:45), so an exec never
\* finds a sandbox it cannot run in, whatever else is created, deleted or
\* fails on the pod, as long as requests for its own name do not overlap.
WorkspaceThere == sandboxes \ Overlap \subseteq dirs

\* The check of the limit and the registration are apart, but concurrent
\* creates exceed the limit by no more than their own number less one.
OvershootBounded ==
    Cardinality(sandboxes) <= maxSandboxes + Cardinality(Reqs) - 1

\* A directory on disk has its sandbox, or a request that will register it or
\* remove it, whatever requests for the same name overlap, or it is one of those
\* nothing looks after: a restart, a MkdirAll of Create that failed half-way, or
\* a RemoveAll of Create or Delete that failed has left it.
DirsAreOwned ==
    \A id \in dirs \ (sandboxes \cup leftover) :
        \E r \in At({"setup", "teardown"}) : req[r].id = id

\* The slots of the semaphore are those of the execs in flight: every return
\* path gives its slot back.
SlotsMatch == execSem = Cardinality(At({"exec", "run"}))

\* Every sandbox in the table has its workspace (README.md:45), also when a
\* create overlaps an earlier request for its name.
WorkspaceAlwaysThere == sandboxes \subseteq dirs

\* There are never more sandboxes than BOXY_MAX_SANDBOXES (README.md:395).
MaxSandboxesKept == Cardinality(sandboxes) <= maxSandboxes

\* The workspace is private to its sandbox (README.md:45): EditFile writes back
\* what it read from the same sandbox.
EditStaysInSandbox ==
    [][\A r \in Reqs :
          Lookup(r) /\ req'[r].pc = "run" /\ req[r].op = "rewrite"
              => req[r].held = "own"]_vars
=============================================================================
