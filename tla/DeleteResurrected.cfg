SPECIFICATION UnboundSpec
CONSTANTS
    d1 = d1
    d2 = d2
    d3 = d3
    alice = alice
    bob = bob
    carol = carol
    u1 = u1
    u2 = u2
    u3 = u3
    s1 = s1
    s2 = s2
    Device = {d1, d2}
    Account = {alice, bob, carol}
    NoAccount = NoAccount
    MayUse <- TwoPhones
    Screen = {s1}
    NoScreen = NoScreen
    Upload = {u1, u2}
    NoDevice = NoDevice
    Clock <- TapTimes
    Faults = {}
    MaxDrops <- EveryPhoneDrops
    MaxKills = 0
    MaxOutstanding = 2
INVARIANTS
    DeletedStaysDeleted
