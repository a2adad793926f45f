\* Two accounts, the first imported, and its second import, or two quickdials;
\* a log that keeps two of four calls.
CONSTANTS
    Legacy = TRUE
    MaxIds = 3
    Raws <- SomeRaws
    MaxRecords = 2
    MaxCalls = 4
    Fault = {"crash", "full"}
SPECIFICATION StoresSpec
INVARIANTS
    StoresTypeOK
    ScreensShowStores
PROPERTIES
    AccountsAreUsers
    DefaultSurvives
    RestartKeepsNewest
