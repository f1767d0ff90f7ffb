SPECIFICATION FairSpec
CONSTANTS
    Sessions = {s1}
    MinReplicas = {1, 2}
    ReadyReplicas = {1, 2}
INVARIANTS SessionsInSync ConditionInSync
PROPERTIES NearsRest Settles
