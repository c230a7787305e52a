\* Two overlapping runs over two slots, one request of the owner.  Dates
\* start on any day of fourteen months; February 2028 has 29 days and
\* February 2029 has 28.
SPECIFICATION FairScheduledSpec
CONSTANTS
    NoReq = NoReq
    Reqs = {r1, r2}
    Rows <- MCRows
    Wallet = wallet
    Funding = wallet
    Schedule = schedule
    Amount = 1
    Edits = {e1}
    MaxSlot = 2
    MaxBalance = 1
    MaxAborts = 1
    FirstYear = 2027
    StartMonths = {0, 1, 2, 3, 4, 5, 6, 7, 8, 9, 10, 11, 12, 13}
    MaxMonth = 14
INVARIANTS
    ScheduledTypeOK
    PaidAtMostOnce
    PaidInOrder
    SuccessIsPaid
    SlotsAreRegular
PROPERTIES
    ScheduleMovesForward
    InstalmentsAreAtomic
    DueSlotIsAttempted
