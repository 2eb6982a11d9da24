SPECIFICATION Spec
CONSTANTS
    r1 = r1  r2 = r2  h1 = h1  b1 = b1  b2 = b2  c1 = c1  c2 = c2
    Runs = {r1}
    Hooks = {}
    Branches = {b1}
    Commits = {c1, c2}
    Ancestor <- MCAncestor
    Trusted <- MCTrusted
    None = None
    NoEvidence = NoEvidence
    Torn = Torn
    FirstTips <- MCFirstTips
    MaxBase = 1
    MaxEdits = 1
    MaxOthers = 0
INVARIANTS ReadyMeansClean
CHECK_DEADLOCK FALSE
