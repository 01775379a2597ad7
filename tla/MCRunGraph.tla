----------------------------- MODULE MCRunGraph -----------------------------
(* Instances of RunGraph for model checking.                                *)
EXTENDS RunGraph, TLC

\* Workers and review requests are interchangeable (used by the safety runs only).
Symmetry == Permutations(Pass) \cup Permutations(Reviewer)
=============================================================================
