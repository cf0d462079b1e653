-------------------------------- MODULE Solver --------------------------------
(***************************************************************************)
(* One schedule, solved, relaxed and solved again: solve_schedule          *)
(* (solver/ortools_solver.py), the proposals that                          *)
(* _solver_result_artifacts makes of its issues, and what an approval      *)
(* (approve_relaxation_proposal) and a reading of the policy               *)
(* (get_schedule_policy) change for the next attempt.                      *)
(***************************************************************************)
EXTENDS PlanningRules

CONSTANTS Problems, None

\* The approvals of a run are those of its own proposals.
ASSUME ProblemsAssumption == \A p \in Problems : WellFormed(p) /\ p.approved = {}

VARIABLES problem, answer

vars == <<problem, answer>>

C == INSTANCE Compliance

\* The rows of an answer, and the policy they were computed under.
NoAnswer == [status |-> "none", proven |-> FALSE, rows |-> {}, under |-> Unlimited]

Answer(status, proven, rows) ==
  [status |-> status, proven |-> proven, rows |-> rows, under |-> Policy(problem)]

Init == problem \in Problems /\ answer = NoAnswer

\* OPTIMAL or, when the time runs out with a solution at hand, FEASIBLE.
Succeed ==
  \/ \E x \in Optima(problem) : answer' = Answer("succeeded", TRUE, x)
  \/ \E x \in FeasibleSets(problem) : answer' = Answer("succeeded", FALSE, x)

Unsolved ==
  \/ FeasibleSets(problem) = {} /\ answer' = Answer("infeasible", FALSE, {})
  \/ answer' = Answer("failed", FALSE, {})

Solve ==
  /\ answer.status = "none"
  /\ Succeed \/ Unsolved
  /\ UNCHANGED problem

\* An approval of a proposal of the answer, and the recalculation it allows.
Approve(issue, leave) ==
  /\ answer.status = "succeeded"
  /\ ProposalOf(issue, leave) \notin problem.approved
  /\ problem' = [problem EXCEPT !.approved = @ \cup {ProposalOf(issue, leave)}]
  /\ answer' = NoAnswer

\* An administrator looks at the policy before any has been stored.
ReadPolicy ==
  /\ problem.policy = NoPolicy
  /\ problem' = [problem EXCEPT !.policy = DefaultPolicy]
  /\ UNCHANGED answer

Next ==
  \/ Solve
  \/ \E issue \in Issues(problem, answer.rows) :
       \E leave \in Proposed(problem, issue) : Approve(issue, leave)
  \/ ReadPolicy

Spec == Init /\ [][Next]_vars

-----------------------------------------------------------------------------
(* Properties.                                                             *)

\* The shifts of the answer as compliance.py is given them.
Shifts ==
  {[employee |-> a.employee, slot |-> a.slot, start |-> Starts(problem, a.slot),
    end |-> Ends(problem, a.slot), nightLabel |-> problem.types[a.slot.type].nightLabel] :
     a \in answer.rows}

\* The problem with the policy of the answer: one may have been stored since.
SolvedProblem == [problem EXCEPT !.policy = answer.under]

Solved == answer.status = "succeeded"

\* The model has a slack for every requirement, so that it always has a
\* solution: "infeasible" is a status that no run gets from the solver
\* (ortools_solver.py:94-107, :294-301).
NeverInfeasible == answer.status # "infeasible"

\* The windows over the dates with slots (ortools_solver.py:246-258) mean what
\* the policy says: nobody works more days in a row than it allows.
NoLongStretch ==
  Solved =>
    \A e \in Active(problem), d \in problem.first..problem.last :
      ~(d..(d + answer.under.consecutive) \subseteq DaysOf(answer.rows, e))

\* A solver held to eleven hours of rest leaves compliance.py nothing to warn
\* of, though one compares all pairs of slots and the other neighbours only.
RestIsCompliant ==
  Solved /\ answer.under.rest >= C!MinRestHours => C!MinimumRestWarnings(Shifts) = {}

\* The weights of the objective do what they are there for: an optimal answer
\* leaves no requirement open that one more candidate could fill, where its
\* weight exceeds all that target, avoided pairs, rotation, fairness and repeated
\* days can cost (ortools_solver.py:18-20).
NothingLeftToFill ==
  Solved /\ answer.proven =>
    \A a \in Candidates(SolvedProblem) \ answer.rows :
      Outweighed(SolvedProblem, a) => ~Feasible(SolvedProblem, answer.rows \cup {a})

\* The check of a manual edit accepts every assignment that the solver makes
\* next to its others (schedule_runs.py:3083-3235).
ValidatorAgrees ==
  Solved =>
    \A a \in answer.rows : \A verdict \in LeaveVerdicts(problem, a.employee, a.slot) :
      ValidEdit(problem, Slots(problem), answer.rows, a, verdict)

\* An approved override is taken into account by the next attempt
\* (schedule-run-state-machine.md:55), unless another leave stands in its way.
ApprovedAreCandidates ==
  \A k \in problem.approved :
    (\A leave \in LeavesOn(problem, k[1], k[2].day) : leave.override) =>
      \E a \in Candidates(problem) : a.employee = k[1] /\ a.slot = k[2]

=============================================================================
