SPECIFICATION FairSpec
CONSTANTS
    Sessions = {s1}
    Pods = {p1}
    None = None
    Budget = 4
PROPERTIES
    DeletionCompletes
    EvictionCompletes
    ConfigDeletionCompletes
CHECK_DEADLOCK FALSE
