-------------------------------- MODULE Pipe --------------------------------
(***************************************************************************)
(* What a writer promises its producers: whatever is handed over comes out *)
(* whole, once and in the order it was handed over, until the stream       *)
(* breaks; after that nothing comes out any more.                          *)
(***************************************************************************)
EXTENDS Sequences, Naturals

VARIABLES
    sent,   \* what the producers handed over
    got,    \* what came out
    cut     \* the stream is broken

pipeVars == <<sent, got, cut>>

Init == sent = <<>> /\ got = <<>> /\ cut = FALSE

Send ==
    /\ Len(sent') = Len(sent) + 1
    /\ SubSeq(sent', 1, Len(sent)) = sent
    /\ UNCHANGED <<got, cut>>

Deliver ==
    /\ ~cut
    /\ Len(got) < Len(sent)
    /\ got' = Append(got, sent[Len(got) + 1])
    /\ UNCHANGED <<sent, cut>>

Cut == cut' = TRUE /\ UNCHANGED <<sent, got>>

Next == Send \/ Deliver \/ Cut

Spec == Init /\ [][Next]_pipeVars
=============================================================================
