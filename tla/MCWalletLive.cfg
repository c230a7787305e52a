\* Any two requests, waiting for each other's rows in every order, on the two
\* sides of a midnight, while one of the limits is changed.
SPECIFICATION FairWalletSpec
CONSTANTS
    u1 = u1
    u2 = u2
    e1 = e1
    e2 = e2
    g1 = g1
    Users <- MCUsers
    Envs = {e1, e2}
    Goals <- MCGoals
    Rows <- MCRows
    Owner <- MCOwner
    Opened = {e1, g1}
    Opening <- MCAllFunded
    Target <- MCTarget
    NoPot = NoPot
    NoReq = NoReq
    NoMove = NoMove
    Reqs = {r1, r2}
    Amounts = {1}
    Kinds = {"withdraw", "transfer", "deposit", "allocate", "release", "cancelEnvelope", "contribute", "releaseGoal", "cancelGoal"}
    MaxDay = 1
    MonthOf <- MCMonthOf
    DefaultLimits <- MCTightLimits
    LimitValues = {2}
    Adjustable <- MCAdjustable
INVARIANTS
    TransactionsTypeOK
    UsageWithinLimits
PROPERTIES
    EveryWalletRequestAnswered
