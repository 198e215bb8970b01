SPECIFICATION Spec
CONSTANTS
    None = None
    admin = admin
    other = other
    q1 = q1
    q2 = q2
    q3 = q3
    c1 = c1
    s1 = s1
    Users <- TwoUsers
    Bootstrapped = admin
    Requests <- ThreeRequests
    Commands <- OneCommand
    Sources <- OneSource
    Channels <- TwoChannels
    DefaultChannel = "stable"
    Slugs <- ThreeSlugs
    Assets <- OneAsset
    MaxRestarts = 1
CHECK_DEADLOCK FALSE
SYMMETRY Symmetric
INVARIANT TypeOK
INVARIANT Replays
INVARIANT ActsAfterLogin
PROPERTY PasswordsAreKept
