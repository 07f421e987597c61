----------------------------- MODULE MCHandout -----------------------------
(***************************************************************************)
(* Model checking Handout: symmetry of the clients.                        *)
(***************************************************************************)
EXTENDS Handout, TLC

ClientSymmetry == Permutations(Requests)
=============================================================================
