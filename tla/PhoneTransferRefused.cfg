\* A transfer target that declines (603).
CONSTANTS
    Handles = {h1, h2}
    NoHandle = NoHandle
    WebRtc = FALSE
    Env = {"refer_other"}
SPECIFICATION FairPhoneSpec
PROPERTY TransferConcludes
