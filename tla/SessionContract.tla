--------------------------- MODULE SessionContract ---------------------------
(***************************************************************************)
(* What the operator promises the readers of a Session (the router, which  *)
(* routes by phase and pod, and users): the phases a session goes through, *)
(* when its controller pod is chosen and given up, and that a session      *)
(* marked for deletion makes no more progress.  SessionLifecycle           *)
(* implements this with caches, retries and conflicting writers.           *)
(***************************************************************************)
CONSTANTS Sessions, Pods, None

VARIABLES phase,   \* the phase of every session name
          pod,     \* the controller pod it is assigned to
          doomed   \* whether its deletion has been requested

cvars == <<phase, pod, doomed>>

Create(s) ==
    /\ phase[s] = "Absent"
    /\ phase' = [phase EXCEPT ![s] = "New"]
    /\ UNCHANGED <<pod, doomed>>

\* A pod is chosen once, when a waiting session is taken on.
Assign(s, p) ==
    /\ phase[s] \in {"New", "Pending"} /\ ~doomed[s]
    /\ phase' = [phase EXCEPT ![s] = "Creating"]
    /\ pod' = [pod EXCEPT ![s] = p]
    /\ UNCHANGED doomed

Start(s) ==
    /\ phase[s] = "Creating" /\ ~doomed[s]
    /\ phase' = [phase EXCEPT ![s] = "Running"]
    /\ UNCHANGED <<pod, doomed>>

\* Only a session that never ran can be taken from its pod.
Reassign(s) ==
    /\ phase[s] = "Creating" /\ ~doomed[s]
    /\ phase' = [phase EXCEPT ![s] = "Pending"]
    /\ pod' = [pod EXCEPT ![s] = None]
    /\ UNCHANGED doomed

\* Expiry or eviction, of a doomed session too.
Retire(s) ==
    /\ phase[s] # "Absent"
    /\ phase' = [phase EXCEPT ![s] = "Deleting"]
    /\ UNCHANGED <<pod, doomed>>

Terminate(s) ==
    /\ phase[s] = "Deleting" /\ ~doomed[s]
    /\ phase' = [phase EXCEPT ![s] = "Terminated"]
    /\ UNCHANGED <<pod, doomed>>

Doom(s) ==
    /\ phase[s] # "Absent"
    /\ doomed' = [doomed EXCEPT ![s] = TRUE]
    /\ UNCHANGED <<phase, pod>>

\* A session that has a pod disappears only after it was doomed.
Vanish(s) ==
    /\ doomed[s] \/ pod[s] = None
    /\ phase' = [phase EXCEPT ![s] = "Absent"]
    /\ pod' = [pod EXCEPT ![s] = None]
    /\ doomed' = [doomed EXCEPT ![s] = FALSE]

CInit ==
    /\ phase = [s \in Sessions |-> "Absent"]
    /\ pod = [s \in Sessions |-> None]
    /\ doomed = [s \in Sessions |-> FALSE]

CNext == \E s \in Sessions :
    \/ Create(s) \/ Start(s) \/ Reassign(s) \/ Retire(s) \/ Terminate(s)
    \/ Doom(s) \/ Vanish(s) \/ \E p \in Pods : Assign(s, p)

CSpec == CInit /\ [][CNext]_cvars
=============================================================================
