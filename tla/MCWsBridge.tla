----------------------------- MODULE MCWsBridge -----------------------------
(***************************************************************************)
(* The bridge for TLC: the frames a server may send.                       *)
(***************************************************************************)
EXTENDS WsBridge

Shape(op, fin, blank) == [op |-> op, fin |-> fin, blank |-> blank]

AnyFrames ==
    {Shape("text", TRUE, FALSE), Shape("text", FALSE, FALSE), Shape("cont", TRUE, FALSE),
     Shape("cont", FALSE, FALSE), Shape("text", TRUE, TRUE), Shape("ping", TRUE, FALSE),
     Shape("close", TRUE, TRUE),
     Shape("huge", TRUE, FALSE)}

=============================================================================
