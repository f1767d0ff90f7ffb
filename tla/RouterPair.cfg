SPECIFICATION Spec
CONSTANTS
    Reqs = {r1, r2}
    Configs = {c1}
    Default = c1
    Kinds = {"exec", "shared"}
    Pods = {p1}
    NoPod = NoPod
    MaxConcurrency = 1
    Deletable = {}
    MaxGen = 2
    MaxStuck = 1
INVARIANT SlotsMatch NeverOlderThanCopy
 
SYMMETRY Symmetry
