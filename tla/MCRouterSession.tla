-------------------------- MODULE MCRouterSession --------------------------
(* RouterSession for TLC: requests are interchangeable.                    *)
EXTENDS RouterSession, TLC

Symmetry == Permutations(Reqs)

=============================================================================
