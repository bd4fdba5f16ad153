SPECIFICATION Spec
CONSTANTS
    u1 = u1
    p1 = p1
    q1 = q1
    q2 = q2
    r1 = r1
    b1 = b1
    f1 = f1
    f2 = f2
    g1 = g1
    k1 = k1
    rt1 = rt1
    rt2 = rt2
    Users = {u1}
    Projects = {p1}
    Quotes = {q1, q2}
    Singles = {r1}
    Batches = {b1}
    Finishers = {f1, f2}
    Granters = {g1}
    GrantKeys = {k1}
    GrantAmounts = {3}
    Durations = {1, 2}
    Routes = {rt1, rt2}
    ChargeNumerator = 1
    ChargeDenominator = 1500
    MaxAborts = 0
    NoWork = NoWork
    ProjectOwner <- OneOwner
SYMMETRY FinisherSymmetry
INVARIANTS TypeOK WalletsCovered PostingsExplainBalances FrozenForLiveJobs BatchFollowsJobs QuotePaysOnce DeletedProjectIsQuiet OneRoutePerProject
PROPERTIES AcceptedAtCurrentPrice StoppedRouteAcceptsNothing
CHECK_DEADLOCK FALSE
