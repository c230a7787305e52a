\* Payments around the throttle, and payments to a destination that its
\* owner saves, renames and deletes.
SPECIFICATION OperationsSpec
CONSTANTS
    Dests = {d}
    Ids = {i1, i2}
    Reqs = {r1, r2}
    Nothing = Nothing
    MaxFailed = 2
    Scenarios = {{"withdraw", "transfer"}, {"transfer", "save", "rename", "delete"}}
SYMMETRY Symmetry
INVARIANTS
    OperationsTypeOK
    FailuresBounded
    AbuseIsReported
    PaidIsConfirmed
PROPERTIES
    PaymentsKeepDestinations
