SPECIFICATION Spec
CONSTANTS
    Ids = {a, b, c}
    Reqs = {r1, r2}
    maxSandboxes = 1
    maxExecConcurrency = 1
    Overlap = {a, b}
INVARIANTS TypeOK WorkspaceThere DirsAreOwned SlotsMatch OvershootBounded
