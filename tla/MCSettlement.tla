---------------------------- MODULE MCSettlement ----------------------------
(***************************************************************************)
(* Model checking Settlement: symmetry of the requests.                    *)
(***************************************************************************)
EXTENDS Settlement, TLC

RequestSymmetry == Permutations(Requests)
=============================================================================
