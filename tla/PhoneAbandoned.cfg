\* Answers and BYEs cross, transactions time out and handles are dropped with their
\* legs alive; two suffice for one dropped leg beside a call, or a consultation.
CONSTANTS
    Handles = {h1, h2}
    NoHandle = NoHandle
    WebRtc = FALSE
    Env = {"bye_glare", "cancel_race", "error"}
SPECIFICATION PhoneSpec
SYMMETRY Symmetry
INVARIANTS
    PhoneTypeOK
    NoStuckScreen
PROPERTIES
    OneRecordPerCall
    OneDigestRetry
\* The addresses and identifiers glue.c keeps of dead legs hold on to their
\* handles, and once all are taken an idle phone can do nothing more.
CHECK_DEADLOCK FALSE
