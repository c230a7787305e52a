\* One tab signs out while the other signs in again.
SPECIFICATION SessionSpec
CONSTANTS
    Tabs = {t1, t2}
    Users = {a}
    Sids = {1, 2}
    Nobody = Nobody
    MaxInbox = 1
PROPERTIES
    LoginSurvives
