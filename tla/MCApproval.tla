----------------------------- MODULE MCApproval -----------------------------
(* An instance of Approval for TLC: no name matters.                      *)
EXTENDS Approval, TLC

Symmetry == Permutations(Request) \union Permutations(Attempt)
                \union Permutations(Operator) \union Permutations(Session)

=============================================================================
