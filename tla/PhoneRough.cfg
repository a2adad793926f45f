\* Transfers, messages without SDP and a sound card that fails.  Three handles: a
\* call and a consultation, and a digest retry, a second caller or a second
\* consultation, the first one's handle being kept for its dialog identifiers.
CONSTANTS
    Handles = {h1, h2, h3}
    NoHandle = NoHandle
    WebRtc = FALSE
    Env = {"sdp_less", "refer_other", "audio_error"}
SPECIFICATION PhoneSpec
SYMMETRY Symmetry
\* These properties speak of a phone that has not overwritten a live handle yet
\* (Intact).  Once it has, it has for good and they say nothing, so that what follows
\* need not be explored.
CONSTRAINT Intact
INVARIANTS
    EstablishedIsUp
    NoOrphanLeg
    HoldSilencesMic
    MediaOfPrimary
    TransferReplacesConsultation
PROPERTIES
    OnlyOwnLegEndsCall
\* The addresses and identifiers glue.c keeps of dead legs hold on to their
\* handles, and once all are taken an idle phone can do nothing more.
CHECK_DEADLOCK FALSE
