SPECIFICATION FairSpec
CONSTANTS
    Sessions = {s1, s2}
    Operators = {o1}
    Leader = o1
    MinControllerReplicas = 1
    MaxControllerReplicas = 2
    MaxSandboxesPerCtrl = 1
    ScaleDownCooldown = 1
    Standing = {0}
INVARIANTS
    ReplicasInBounds
PROPERTIES
    OverbookedOnlyByLag
    IdlePoolShrinks
