SPECIFICATION FairSpec
CONSTANTS
    r1 = r1
    r2 = r2
    r3 = r3
    n1 = n1
    AnyNode = AnyNode
    None = None
    Rules = {r1, r2, r3}
    Known = {r1, r2}
    Opa = {r3}
    Unreadable = {}
    Nodes = {n1}
    Target <- MCTarget
    MinDeploy = 2
INVARIANTS TypeOK PoolBound CollectedIsReported VerdictSound LeftoverIsFailed
PROPERTIES FinalWhenReturned ReportGrows PoolDrains
CHECK_DEADLOCK FALSE
