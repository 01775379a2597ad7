----------------------------- MODULE MCRunQueue -----------------------------
(* Instances of RunQueue for model checking.                                *)
EXTENDS RunQueue, TLC

\* Workers and requests are interchangeable (used by the safety runs only).
Symmetry == Permutations(Worker) \cup Permutations(Client) \cup Permutations(Run)
=============================================================================
