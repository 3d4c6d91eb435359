---------------------------- MODULE MCReconcile ----------------------------
(* Instances of Reconcile for TLC: runs, locations and reconcilers are      *)
(* interchangeable.                                                         *)
EXTENDS Reconcile, TLC

Symmetry == Permutations(Run) \union Permutations(Location) \union Permutations(Reconciler)

=============================================================================
