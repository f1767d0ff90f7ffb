\* One session name and two pods, without any bound on what happens to them.
SPECIFICATION Spec
CONSTANTS
    Sessions = {s1}
    Pods = {p1, p2}
    None = None
INVARIANTS
    AssignedIsFinalized
    RunningIsBacked
    NoUnexplainedOrphan
PROPERTIES
    KeepsContract
    ConfigOutlivesSessions
    GCSparesStartedSessions
