----------------------------- MODULE MCJobQueue -----------------------------
(* Instances of JobQueue for TLC.                                          *)
EXTENDS JobQueue, TLC

\* Neither the payloads nor the workers are told apart.
Symmetry == Permutations(Jobs) \cup Permutations(Workers)
=============================================================================
