--------------------------- MODULE MCScheduleRuns ---------------------------
(* Instances of ScheduleRuns for TLC.                                      *)
EXTENDS ScheduleRuns, TLC

\* All runs are for the same days.
MCPeriod == [r \in Runs |-> [start |-> 1, end |-> 7]]

\* Jobs, workers and administrators are not told apart, nor runs of one period.
Symmetry == Permutations(Jobs) \cup Permutations(Workers) \cup Permutations(Clients)
RunSymmetry == Symmetry \cup Permutations(Runs)
=============================================================================
