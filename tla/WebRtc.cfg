\* One call after another, or a digest retry: two handles.
CONSTANTS
    Handles = {h1, h2}
    NoHandle = NoHandle
    WebRtc = TRUE
    Env = {"cancel_race", "error"}
    Failing = {"promise", "chain", "new", "offer"}
    Sessions = {s1, s2}
    NoSession = NoSession
    PeerSdps <- SomeSdps
    Races = {}
    MaxTasks = 2
SPECIFICATION FairPhoneSpec
INVARIANTS
    WebRtcTypeOK
    MicFollowsButtons
    SessionHasCall
    MediaOfCall
    NegotiationAgrees
PROPERTIES
    AnswerConcludes
    ReinviteAnswered
