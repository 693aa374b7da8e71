----------------------------- MODULE MCBeeBuffer -----------------------------
(* BeeBuffer with sizes around the first allocation (7) and its double. *)
EXTENDS BeeBuffer

MCSizes == {1, 4, 9}
MCRequests == {1, 5, 8, 13}
=============================================================================
