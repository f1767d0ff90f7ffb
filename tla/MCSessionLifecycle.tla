------------------------- MODULE MCSessionLifecycle -------------------------
(***************************************************************************)
(* SessionLifecycle with a bounded number of disturbances: requests that   *)
(* reach the router, reconciles cut short, and pod restarts.  What is left *)
(* is the reconcilers at work, so that liveness can be asked for.          *)
(***************************************************************************)
EXTENDS SessionLifecycle, Naturals

CONSTANT Budget  \* the number of disturbances

VARIABLE budget  \* those still to come

mcVars == <<vars, budget>>

Disturbance ==
    \/ RouterStep \/ Abort \/ ConfAbort
    \/ \E p \in Pods : PodRestart(p)

\* The operator on its own.
Operator ==
    \/ \E s \in Sessions : CacheSync(s) \/ Reconcile(s)
    \/ ConfCacheSync \/ WorkerStep \/ ConfWorkerStep

MCInit == Init /\ budget = Budget

MCNext ==
    \/ budget > 0 /\ budget' = budget - 1 /\ Disturbance
    \/ UNCHANGED budget /\ Operator

\* The informer delivers; the work queue is first-in first-out and Reconcile
\* requeues on every return but that of a retained Terminated session, so no
\* session waits for ever; a started reconcile ends; and a call retried for
\* ever (a DeleteSandbox, a patch) is answered some time.
Fairness ==
    /\ \A s \in Sessions :
        /\ WF_mcVars(CacheSync(s) /\ UNCHANGED budget)
        /\ SF_mcVars(Reconcile(s) /\ UNCHANGED budget)
        /\ SF_mcVars(EvictOne(s) /\ sess' # sess /\ UNCHANGED budget)
    /\ WF_mcVars(ConfCacheSync /\ UNCHANGED budget)
    /\ WF_mcVars(WorkerStep /\ UNCHANGED budget)
    /\ WF_mcVars(ConfWorkerStep /\ UNCHANGED budget)
    /\ SF_mcVars(handleDeletion /\ w'.pc = "unfinalize" /\ UNCHANGED budget)
    /\ SF_mcVars(reconcileDeleting /\ w'.pc = "status" /\ UNCHANGED budget)

\* A create that can be answered with 201 is so some time, and a pod with room
\* is found some time.
CreateFairness ==
    /\ SF_mcVars(/\ CreateSandbox /\ w'.pc = "status" /\ w'.upd.phase = "Running"
                 /\ UNCHANGED budget)
    /\ SF_mcVars(reconcilePending /\ w'.pc = "status" /\ UNCHANGED budget)

MCSpec == MCInit /\ [][MCNext]_mcVars
FairSpec == MCSpec /\ Fairness
CreateFairSpec == FairSpec /\ CreateFairness

\* A Session marked for deletion goes away: the finalizer is removed in the
\* end, whatever conflicts, stale reads, crashes and failed calls come before.
DeletionCompletes == \A s \in Sessions : sess[s].del ~> ~sess[s].del

\* An evicted or expired session ends: it is terminated, or goes altogether.
EvictionCompletes ==
    \A s \in Sessions : sess[s].phase = "Deleting" ~> sess[s].phase # "Deleting"

\* A deleted config goes: its reconciler evicts the sessions that hold it.
ConfigDeletionCompletes == conf = "Deleting" ~> conf # "Deleting"

\* The reconciler carries every assigned session on, whatever restarts cut
\* its work short (docs/architecture.md:683).
CreatingProgresses ==
    \A s \in Sessions : sess[s].phase = "Creating" ~> sess[s].phase # "Creating"

\* A session whose controller pod restarted gets back a sandbox, or is given
\* up (docs/architecture.md:684).
RestartIsRepaired ==
    \A s \in Sessions : s \in wiped /\ sess[s].phase = "Running"
        ~> sess[s].phase # "Running" \/ s \in sandboxes[sess[s].pod]

\* A deleted session leaves no sandbox on its controller, unless a call to the
\* controller failed (README.md:265, handleDeletion).
DeleteCleansUp ==
    [][RemoveFinalizer /\ w.fresh /\ w.obj.pod # None =>
          \/ w.s \notin sandboxes[w.obj.pod]
          \/ <<w.obj.pod, w.s>> \in excused]_mcVars

\* A config goes after its sessions (README.md:269): when it disappears, no
\* session that stays is Creating or Running.
ConfigGoesLast ==
    [][conf # "Absent" /\ conf' = "Absent" =>
          \A s \in Sessions :
              sess[s].phase \in {"Creating", "Running"} => sess[s].del]_mcVars
=============================================================================
