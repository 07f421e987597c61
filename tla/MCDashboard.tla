---------------------------- MODULE MCDashboard ----------------------------
(***************************************************************************)
(* Model checking Dashboard: symmetry of the connections.                  *)
(***************************************************************************)
EXTENDS Dashboard, TLC

ConnectionSymmetry == Permutations(Connections)
=============================================================================
