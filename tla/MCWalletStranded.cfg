\* A contribution or an allocation overlaps a cancellation.
SPECIFICATION WalletSpec
CONSTANTS
    u1 = u1
    u2 = u2
    e1 = e1
    e2 = e2
    g1 = g1
    Users <- MCUsers
    Envs = {e1}
    Goals <- MCGoals
    Rows <- MCRows
    Owner <- MCOwner
    Opened = {e1, g1}
    Opening <- MCOpening
    Target <- MCTarget
    NoPot = NoPot
    NoReq = NoReq
    NoMove = NoMove
    Reqs = {r1, r2, r3}
    Amounts = {1}
    Kinds = {"allocate", "cancelEnvelope", "contribute", "cancelGoal"}
    MaxDay = 0
    MonthOf <- MCMonthOf
    DefaultLimits <- MCLimits
    LimitValues = {}
    Adjustable = {}
SYMMETRY Symmetry
INVARIANTS
    CancelledIsEmpty
