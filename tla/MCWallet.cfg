\* Every kind of request on the rows of one user, paying a second one.
SPECIFICATION WalletSpec
CONSTANTS
    u1 = u1
    u2 = u2
    e1 = e1
    e2 = e2
    g1 = g1
    Users <- MCUsers
    Envs = {e1}
    Goals <- MCGoals
    Rows <- MCRows
    Owner <- MCOwner
    Opened = {e1}
    Opening <- MCOpening
    Target <- MCTarget
    NoPot = NoPot
    NoReq = NoReq
    NoMove = NoMove
    Reqs = {r1, r2, r3}
    Amounts = {1}
    Kinds = {"withdraw", "transfer", "deposit", "allocate", "release", "cancelEnvelope", "contribute", "releaseGoal", "cancelGoal"}
    MaxDay = 0
    MonthOf <- MCMonthOf
    DefaultLimits <- MCLimits
    LimitValues = {}
    Adjustable = {}
SYMMETRY Symmetry
INVARIANTS
    BooksBalance
    NoWaitCycle
PROPERTIES
    MovesAreAtomic
    OnlyOwnersMove
    SpendsOnlyFromActive
    CancelReturnsEverything
    TargetCompletesForGood
