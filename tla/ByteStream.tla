------------------------------ MODULE ByteStream ------------------------------
(***************************************************************************)
(* What one direction of an obfs4 tunnel promises its two applications: an *)
(* ordered byte stream.  The bytes are 1, 2, ..., sent.                    *)
(***************************************************************************)
EXTENDS Integers, Sequences

VARIABLES sent,    \* bytes taken from the writing application
          got,     \* bytes given to the reading one
          closed,  \* the writer has shut the stream down
          broken,  \* the connection was lost or damaged
          ended    \* the reader was told that the stream ended

bsVars == <<sent, got, closed, broken, ended>>

BsInit == sent = 0 /\ got = <<>> /\ closed = FALSE /\ broken = FALSE /\ ended = FALSE

Send ==
    /\ ~closed
    /\ sent' \in Nat /\ sent' > sent
    /\ UNCHANGED <<got, closed, broken, ended>>

(* Bytes are delivered in order, each of them once, and none that was not  *)
(* sent.                                                                   *)
Deliver ==
    /\ Len(got) < Len(got') /\ Len(got') <= sent
    /\ got' = [i \in 1..Len(got') |-> i]
    /\ UNCHANGED <<sent, closed, broken, ended>>

Close == closed' = TRUE /\ UNCHANGED <<sent, got, broken, ended>>

Break == broken' = TRUE /\ UNCHANGED <<sent, got, closed, ended>>

(* Only a broken stream may end early.                                     *)
End ==
    /\ broken \/ (closed /\ Len(got) = sent)
    /\ ended' = TRUE
    /\ UNCHANGED <<sent, got, closed, broken>>

BsNext == Send \/ Deliver \/ Close \/ Break \/ End

BsSpec == BsInit /\ [][BsNext]_bsVars
=============================================================================
