\* One account, answers that come between two keepalives, a registrar that forgets.
CONSTANTS
    Account = {a1}
    NoAccount = NoAccount
    Env = {"dead", "forget", "late", "user", "network"}
    MaxWaiting = 2
    MaxAuth = 5
    KeepalivePeriod = 40
    StaleAfter = 180
    MaxDead = 2
SPECIFICATION FairAccountsSpec
INVARIANTS
    StaleIsSettled
    
PROPERTIES
    Recovers
    ReachableAgain
