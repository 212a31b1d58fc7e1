----------------------------- MODULE MCLsrPlane -----------------------------
(***************************************************************************)
(* A node with two neighbours for LsrPlane.                                *)
(***************************************************************************)
EXTENDS LsrPlane, TLC

\* Both neighbours are configured with the cost 2.
Two == [m \in Nbr |-> 2]
=============================================================================
