SPECIFICATION Spec
CONSTANTS
    Sessions = {s1}
    Operators = {o1}
    Leader = o1
    MinControllerReplicas = 1
    MaxControllerReplicas = 2
    MaxSandboxesPerCtrl = 1
    ScaleDownCooldown = 1
    Standing = {}
PROPERTY ScaleDownSparesBusyPods
