------------------------------ MODULE MCScaler ------------------------------
(***************************************************************************)
(* Scaler with fairness, its liveness properties, and what the             *)
(* documentation says of the scaling.                                      *)
(***************************************************************************)
EXTENDS Scaler

\* The copies of the StatefulSet and of the sessions catch up; the loop runs
\* every minute and is not cut short or refused for ever.  Nothing is asked of
\* the worker, the clock, the pods or their copies: a pod that stands from the
\* start is listed, and old enough.
FairSpec ==
    /\ Spec
    /\ \A o \in Operators :
          /\ WF_vars(StsSync(o)) /\ WF_vars(SessionSync(o))
          /\ WF_vars(ScaleDown(o)) /\ WF_vars(tryScaleDown(o))
          /\ SF_vars(ScaleDown(o) /\ replicas' # replicas)

\* When the last session has gone for good, the loop brings the StatefulSet
\* back to the floor, and it stays there.
IdlePoolShrinks ==
    <>[](\A s \in Sessions : place[s] = Gone)
        => <>[](replicas = MinControllerReplicas)

\* A scale-down takes pods without sessions (docs/architecture.md:154), at
\* least if it decides on current copies: then the ordinals the StatefulSet
\* will give up hold no session.
ScaleDownSparesBusyPods ==
    [][\A o \in Operators :
          tryScaleDown(o) /\ seen[o] = place /\ podsSeen[o] = Listed /\ stsSeen[o].fresh =>
              \A i \in (replicas - loop'[o].left)..(replicas - 1) : On(place, i) = {}]_vars

\* No pod is given more sessions than the cap (README.md:382).
WithinCapacity ==
    \A i \in Ordinals : Cardinality(On(place, i)) <= MaxSandboxesPerCtrl

\* Sessions go to the first pod by ordinal that has room
\* (docs/architecture.md:142).
FirstFit ==
    [][\A s \in Sessions :
          assignController(s) /\ rec'.pc = "status" =>
              \A i \in Candidates : rec'.pod <= i]_vars
=============================================================================
