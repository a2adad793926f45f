\* Liveness: no symmetry, a call and a consultation.
CONSTANTS
    Handles = {h1, h2}
    NoHandle = NoHandle
    WebRtc = FALSE
    Env = {}
SPECIFICATION FairPhoneSpec
\* Both properties are fulfilled as soon as a live handle is overwritten, and only
\* the user's steps, which are not fair, overwrite one: nothing is lost behind it.
CONSTRAINT Intact
PROPERTIES
    HangupEnds
    TransferConcludes
