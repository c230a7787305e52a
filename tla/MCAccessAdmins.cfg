\* Two administrators disable each other.
SPECIFICATION AccessSpec
CONSTANTS
    a = a
    b = b
    Users <- MCUsers
    Root = Nothing
    Devices = {d}
    Sids = {s1, s2}
    Reqs = {r1, r2}
    Nothing = Nothing
    MaxFailures = 2
    MaxFaults = 0
    Start <- MCTwoAdmins
    Scenarios = {{"login", "setStatus"}}
SYMMETRY Symmetry
INVARIANTS
    ActiveAdminRemains
