\* A destructor iterates the main loop while active_engines is borrowed.
CONSTANTS
    Account = {a1, a2}
    NoAccount = NoAccount
    Env = {"user", "reenter"}
    MaxWaiting = 1
    MaxAuth = 3
    KeepalivePeriod = 40
    StaleAfter = 180
    MaxDead = 0
SPECIFICATION AccountsSpec
SYMMETRY Symmetry
INVARIANTS
    NoDoubleBorrow
