\* Two overlapping runs retry a slot that has failed before.
SPECIFICATION ScheduledSpec
CONSTANTS
    NoReq = NoReq
    Reqs = {r1, r2}
    Rows <- MCRows
    Wallet = wallet
    Funding = wallet
    Schedule = schedule
    Amount = 1
    Edits = {}
    MaxSlot = 2
    MaxBalance = 1
    MaxAborts = 0
    FirstYear = 2027
    StartMonths = {0}
    MaxMonth = 1
SYMMETRY Symmetry
INVARIANTS
    PaidIsRecorded
