\* What requests do to each other, a few kinds of request at a time.
SPECIFICATION AccessSpec
CONSTANTS
    a = a
    b = b
    Users <- MCUsers
    Root = a
    Devices = {d}
    Sids = {s1, s2, s3}
    Reqs = {r1, r2}
    Nothing = Nothing
    MaxFailures = 2
    MaxFaults = 1
    Start <- MCStart
    Scenarios = {{"register", "login", "use", "logout", "revoke", "setStatus"}, {"guess", "login", "setStatus"}}
SYMMETRY Symmetry
INVARIANTS
    AccessTypeOK
    LateIsRefused
    GuessesBounded
    DevicesAreKnown
PROPERTIES
    OnlyOwnersRevoke
