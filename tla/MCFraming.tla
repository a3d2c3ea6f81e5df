----------------------------- MODULE MCFraming -----------------------------
(***************************************************************************)
(* The behaviours of Framing that TLC explores.                            *)
(***************************************************************************)
EXTENDS Framing

Peer(one, number, short) == [alone |-> one, frames |-> number, shorts |-> short]

All == {Peer(FALSE, 3, 0),     (* frames follow one another, whole Reads   *)
        Peer(FALSE, 2, 2),     (* the same with Reads that are short       *)
        Peer(TRUE, 2, 120)}    (* one frame at a time, Reads as they like  *)
=============================================================================
