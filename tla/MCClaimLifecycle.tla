-------------------------- MODULE MCClaimLifecycle --------------------------
EXTENDS ClaimLifecycle, TLC

\* No property tells the calls apart.
Symmetry == Permutations(Calls)
=============================================================================
