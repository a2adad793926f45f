\* Nothing fails, and two calls are enough.
CONSTANTS
    Handles = {h1, h2}
    NoHandle = NoHandle
    WebRtc = TRUE
    Env = {}
    Failing = {}
    Sessions = {s1, s2}
    NoSession = NoSession
    PeerSdps <- OneSdp
    Races = {"stale"}
    MaxTasks = 2
SPECIFICATION PhoneSpec
PROPERTIES
    OnlyAnsweredGoesUp
