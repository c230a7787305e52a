\* A tick is half a second.  Lists end, and forms are left.
SPECIFICATION BrowserSpec
CONSTANTS
    Calls = {q1, q2}
    Second = 2
    Ttl <- MCTtl
    Limit <- MCLimit
    MaxTime = 2
    Scarce = {{"burst", "user"}, {"deposit"}, {"payments"}, {"login", "lockout"}}
    Tabs = {t1, t2}
    Users = {a}
    Sids = {1}
    Nobody = Nobody
    MaxInbox = 1
    Choices = {1, 2}
    First = 1
    LoadSlots = {1, 2}
    ChangeSlots = {1, 2}
    Tries = {1, 2, 3}
    MaxBlocks = 1
    MaxVisits = 2
    PageSize = 2
    MaxPages = 3
    MaxRows = 4
INVARIANTS
    BrowserTypeOK
    CooldownCoversWindow
    NotRefusedTwice
    NewestIsShown
    AskedOnce
    ListMissesNothing
PROPERTIES
    TabsConverge
CHECK_DEADLOCK FALSE
