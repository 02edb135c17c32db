SPECIFICATION FairSpec
CHECK_DEADLOCK FALSE
CONSTANTS
    d1 = d1
    d2 = d2
    Device = {d1, d2}
    Account = {alice, bob}
    NoAccount = NoAccount
    NoDevice = NoDevice
    Worlds <- OneAndTwoPhones
INVARIANTS
    TypeOK
    HomeKnowsUser
    PrefsMatchAuth
PROPERTIES
    ProfileWritten
    LoginSettles
