CONSTANTS
    gm = gm
    alice = alice
    bob = bob
    s1 = s1
    s2 = s2
    s3 = s3
    noAccount = noAccount
    noSession = noSession
    Accounts <- ThreeAccounts
    Privileged <- GameMasters
    Sessions <- ThreeSessions
    NoAccount = noAccount
    NoSession = noSession
    Limits <- OneOrTwo
    Tolerance = 1
    MaxTime = 0
SPECIFICATION Spec
SYMMETRY Interchangeable
INVARIANTS
    TypeOK
    WaitersAreSessions
    NoIdleSlot
PROPERTIES
    AdmissionWithinLimit
    NoOvertaking
