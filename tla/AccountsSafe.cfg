\* Two accounts, every disturbance but re-entry.
CONSTANTS
    Account = {a1, a2}
    NoAccount = NoAccount
    Env = {"dead", "network", "user", "teardown"}
    MaxWaiting = 1
    MaxAuth = 3
    KeepalivePeriod = 40
    StaleAfter = 180
    MaxDead = 1
SPECIFICATION AccountsSpec
SYMMETRY Symmetry
INVARIANTS
    AccountsTypeOK
    FirstChallengeAnswered
    RegisteredIsBound
    FailureStaysVisible
PROPERTIES
    CallKeepsEngine
