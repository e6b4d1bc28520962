------------------------------ MODULE MCQueue ------------------------------
(* A buffer of three slots that doubles and halves within eight items. *)
EXTENDS Queue

CONSTANTS e1, e2

MCItems == {e1, e2}
=============================================================================
