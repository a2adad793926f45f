----------------------------- MODULE PhoneLine -----------------------------
(***************************************************************************)
(* What the phone promises its user: one call at a time, which is dialled  *)
(* or rings, perhaps connects, ends, and on ending leaves exactly one      *)
(* record in the call log that tells how far it got.                       *)
(***************************************************************************)
VARIABLES
    phase,      \* idle, calling, ringing, talking
    record      \* what the last call left in the log; "none" while one is on

lineVars == <<phase, record>>

Init == phase = "idle" /\ record = "none"

Begin(p) == phase = "idle" /\ phase' = p /\ record' = "none"

Dial == Begin("calling")
Ring == Begin("ringing")

Connect == phase \in {"calling", "ringing"} /\ phase' = "talking" /\ UNCHANGED record

End ==
    /\ phase' = "idle"
    /\ \/ phase = "talking" /\ record' = "answered"
       \/ phase = "ringing" /\ record' = "missed"
       \/ phase = "calling" /\ record' = "failed"

Next == Dial \/ Ring \/ Connect \/ End

Spec == Init /\ [][Next]_lineVars
=============================================================================
