SPECIFICATION MCSpec
CONSTANTS
    d1 = d1
    d2 = d2
    d3 = d3
    alice = alice
    bob = bob
    carol = carol
    u1 = u1
    u2 = u2
    u3 = u3
    s1 = s1
    s2 = s2
    Device = {d1, d2, d3}
    Account = {alice, bob, carol}
    NoAccount = NoAccount
    MayUse <- ThreePhones
    Screen = {s1, s2}
    NoScreen = NoScreen
    Upload = {u1, u2, u3}
    NoDevice = NoDevice
    Clock <- TapTimes
    Faults = {"kill", "upload_fails", "delete_fails"}
    MaxDrops <- FirstPhoneDrops
    MaxKills = 1
    MaxOutstanding = 3
INVARIANTS
    TypeOK
    NoDanglingImage
    DeletedStaysDeleted
    PublishingInv
PROPERTIES
    UploadSettlesOnOne
    DeleteSettlesOnOne
