CONSTANTS
    gm = gm
    alice = alice
    bob = bob
    s1 = s1
    s2 = s2
    s3 = s3
    noAccount = noAccount
    noSession = noSession
    Accounts <- TwoAccounts
    Privileged <- Nobody
    Sessions <- ThreeSessions
    NoAccount = noAccount
    NoSession = noSession
    Limits <- OneSlot
    Tolerance = 1
    MaxTime = 1
SPECIFICATION Spec
SYMMETRY Interchangeable
PROPERTY
    ToleranceExpires
