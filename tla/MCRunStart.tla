----------------------------- MODULE MCRunStart -----------------------------
(* Instances of RunStart: a patch plan over two locations and a plan that    *)
(* overlaps it in one of them.                                               *)
EXTENDS RunStart, TLC

CONSTANTS patch, other, here, there

MCScope == (patch :> {here, there}) @@ (other :> {here})
\* Both plans in one location, where only their order matters.
MCScopeOne == (patch :> {here}) @@ (other :> {here})

\* Attempts are interchangeable.
Symmetry == Permutations(Attempt)

=============================================================================
