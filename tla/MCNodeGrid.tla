----------------------------- MODULE MCNodeGrid -----------------------------
(* NodeGrid.tla with clocks that run slow and fast. *)
EXTENDS NodeGrid

MCDrifts == {-70, 70}
=============================================================================
