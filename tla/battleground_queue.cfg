CONSTANTS
    a1 = a1
    a2 = a2
    h1 = h1
    h2 = h2
    q1 = q1
    q2 = q2
    Players <- MCPlayers
    Team <- MCTeam
    Queues = {q1, q2}
    Scenarios <- MCScenarios
    Leavers = {a1}
    MinPlayers = 1
    MaxPlayers = 2
    AcceptTime = 2
    Updaters = 2
    MaxId = 2
SPECIFICATION Spec
INVARIANTS
    TypeOK
    CountsExact
    InvitationsHold
    IdsAreUnique
PROPERTIES
    TimelyRemoval
    EndedIsDeleted
CHECK_DEADLOCK TRUE
