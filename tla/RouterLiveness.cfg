SPECIFICATION FairSpec
CONSTANTS
    Reqs = {r1}
    Configs = {c1}
    Default = c1
    Kinds = {"create", "exec", "tool", "shared", "default"}
    Pods = {p1}
    NoPod = NoPod
    MaxConcurrency = 1
    Deletable = {c1}
    MaxGen = 2
    MaxStuck = 0
PROPERTY RequestsEnd
