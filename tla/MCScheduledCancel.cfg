\* Two requests of the owner overlap.
SPECIFICATION ScheduledSpec
CONSTANTS
    NoReq = NoReq
    Reqs = {r1}
    Rows <- MCRows
    Wallet = wallet
    Funding = wallet
    Schedule = schedule
    Amount = 1
    Edits = {e1, e2}
    MaxSlot = 1
    MaxBalance = 1
    MaxAborts = 0
    FirstYear = 2027
    StartMonths = {0}
    MaxMonth = 1
SYMMETRY Symmetry
PROPERTIES
    CancelledIsFinal
