SPECIFICATION Spec
CONSTANTS
    Emails = {e1}
    Passwords = {p1, p2}
    NoPassword = noPassword
    Subjects = {s1}
    NoSubject = noSubject
    Requests = {r1, r2}
    MaxSessions = 2
    Threshold = 1
    LockFor = 1
    RefreshFor = 1
    ResetFor = 1
    MaxTime = 1
    MaxTokens = 4
    MaxResets = 1
    MaxFails = 2
    Clients = {c1, c2}
    Checks <- MCChecks
    Burst = 1
    Slack = 1
    MaxDelay = 1
    IdleCutoff = 1
    RecoveryThreshold = 1
    MaxNow = 3
    MaxOK = 1
SYMMETRY Symmetric
CONSTRAINT Bound
INVARIANTS
    TokensBounded
    LockMatchesCount
    ResetEndsSessions
    GrantsBounded
CHECK_DEADLOCK FALSE
