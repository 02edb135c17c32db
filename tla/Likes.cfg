SPECIFICATION FairSpec
CONSTANTS
    d1 = d1
    d2 = d2
    alice = alice
    bob = bob
    Device = {d1, d2}
    Account = {alice, bob}
    UserOf <- OwnPhones
    Worlds <- NominalAndFaulty
INVARIANTS
    TypeOK
    DriftBounded
    IconShowsLike
    RecordsAgree
    LastTapRecorded
PROPERTIES
    TapSettles
