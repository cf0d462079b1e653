------------------------------ MODULE SolverProofs ------------------------------
(***************************************************************************)
(* What holds of the solver and of the loop of attempts and approvals      *)
(* around it, whatever the organization's reference data.                  *)
(***************************************************************************)
EXTENDS Solver, PlanningRulesProofs, TLAPS

\* Two problems that agree on everything but the policy and the approvals.
SamePlan(p, q) ==
  /\ q.first = p.first /\ q.last = p.last /\ q.types = p.types
  /\ q.required = p.required /\ q.staff = p.staff
  /\ q.away = p.away /\ q.blocked = p.blocked

-----------------------------------------------------------------------------
(* The data.                                                               *)

LEMMA DataInit ==
  ASSUME Init PROVE WellFormed(problem) /\ problem.approved = {}
BY ProblemsAssumption DEF Init

LEMMA DataNext ==
  ASSUME WellFormed(problem), [Next]_vars
  PROVE  WellFormed(problem)' /\ SamePlan(problem, problem')
<1>1. CASE Solve
  BY <1>1 DEF Solve, WellFormed, SamePlan
<1>2. ASSUME NEW issue, NEW leave, Approve(issue, leave)
      PROVE  WellFormed(problem)' /\ SamePlan(problem, problem')
  BY <1>2 DEF Approve, WellFormed, SamePlan
<1>3. CASE ReadPolicy
  <2>1. DefaultPolicy \in PolicyRows
    BY DEF DefaultPolicy, PolicyRows
  <2>2. QED
    BY <1>3, <2>1 DEF ReadPolicy, WellFormed, SamePlan
<1>4. CASE UNCHANGED vars
  BY <1>4 DEF vars, WellFormed, SamePlan
<1>5. QED
  BY <1>1, <1>2, <1>3, <1>4 DEF Next

\* No attempt is ever told that there is no solution (ortools_solver.py:94).
THEOREM NeverInfeasibleHolds == Spec => []NeverInfeasible
<1> DEFINE IInv == WellFormed(problem) /\ NeverInfeasible
<1>1. Init => IInv
  BY DataInit DEF Init, NeverInfeasible, NoAnswer
<1>2. IInv /\ [Next]_vars => IInv'
  <2> SUFFICES ASSUME IInv, [Next]_vars PROVE NeverInfeasible'
    BY DataNext
  <2>1. CASE Solve
    <3>1. FeasibleSets(problem) # {}
      BY NobodyIsFeasible
    <3>2. answer'.status \in {"succeeded", "failed"}
      BY <2>1, <3>1 DEF Solve, Succeed, Unsolved, Answer
    <3>3. QED
      BY <3>2 DEF NeverInfeasible
  <2>2. CASE ReadPolicy
    BY <2>2 DEF ReadPolicy, NeverInfeasible
  <2>3. ASSUME NEW issue, NEW leave, Approve(issue, leave) PROVE NeverInfeasible'
    BY <2>3 DEF Approve, NeverInfeasible, NoAnswer
  <2>4. CASE UNCHANGED vars
    BY <2>4 DEF vars, NeverInfeasible
  <2>5. QED
    BY <2>1, <2>2, <2>3, <2>4 DEF Next
<1>3. QED
  BY <1>1, <1>2, PTL DEF Spec

-----------------------------------------------------------------------------
(* The answer.                                                             *)

\* The policy may have changed since, and with it the caps: what is left of a
\* solution is that its assignments may be made, and no blocked pair is in it.
Assignable ==
  Solved => answer.rows \subseteq Candidates(problem) /\ BlockedApart(problem, answer.rows)

LEMMA AssignableNext ==
  ASSUME WellFormed(problem), Assignable, [Next]_vars
  PROVE  Assignable'
<1>1. CASE Solve
  <2>1. CASE Succeed
    <3>1. PICK x \in FeasibleSets(problem) : answer'.rows = x
      BY <2>1 DEF Succeed, Answer, Optima
    <3>2. x \subseteq Candidates(problem) /\ BlockedApart(problem, x)
      BY DEF FeasibleSets, Feasible
    <3>3. problem' = problem
      BY <1>1 DEF Solve
    <3>4. QED
      BY <3>1, <3>2, <3>3 DEF Assignable
  <2>2. CASE Unsolved
    BY <2>2 DEF Unsolved, Answer, Assignable, Solved
  <2>3. QED
    BY <1>1, <2>1, <2>2 DEF Solve
<1>2. ASSUME NEW issue, NEW leave, Approve(issue, leave) PROVE Assignable'
  BY <1>2 DEF Approve, NoAnswer, Assignable, Solved
<1>3. CASE ReadPolicy
  <2>1. problem' = [problem EXCEPT !.policy = DefaultPolicy] /\ answer' = answer
    BY <1>3 DEF ReadPolicy
  <2>2. /\ problem'.first = problem.first /\ problem'.last = problem.last
        /\ problem'.types = problem.types /\ problem'.required = problem.required
        /\ problem'.staff = problem.staff /\ problem'.away = problem.away
        /\ problem'.approved = problem.approved /\ problem'.blocked = problem.blocked
    BY <2>1 DEF WellFormed
  <2>3. Slots(problem') = Slots(problem)
    BY <2>2 DEF Slots
  <2>4. \A e, s : Unavailable(problem', e, s) <=> Unavailable(problem, e, s)
    BY <2>2 DEF Unavailable, LeavesOn
  <2>5. Candidates(problem') = Candidates(problem)
    BY <2>2, <2>3, <2>4 DEF Candidates, Active
  <2>6. BlockedApart(problem, answer.rows) <=> BlockedApart(problem', answer.rows)
    BY <2>2, <2>3 DEF BlockedApart
  <2>7. QED
    BY <2>1, <2>5, <2>6 DEF Assignable, Solved
<1>4. CASE UNCHANGED vars
  BY <1>4 DEF vars, Assignable, Solved
<1>5. QED
  BY <1>1, <1>2, <1>3, <1>4 DEF Next

\* The verdict of a manual edit on a leave is an error only where the solver
\* takes the employee to be unavailable.
LEMMA NoErrorForCandidates ==
  ASSUME NEW p, NEW a \in Candidates(p), NEW verdict \in LeaveVerdicts(p, a.employee, a.slot)
  PROVE  verdict # "error"
<1> DEFINE leaves == LeavesOn(p, a.employee, a.slot.day)
<1>1. \A leave \in leaves : leave.override
  BY DEF Candidates, Unavailable
<1> HIDE DEF leaves
<1>2. CASE leaves = {}
  BY <1>2 DEF LeaveVerdicts, leaves
<1>3. CASE leaves # {}
  <2>1. PICK leave \in leaves : verdict = IF leave.override THEN "warning" ELSE "error"
    BY <1>3 DEF LeaveVerdicts, leaves
  <2>2. QED
    BY <1>1, <2>1
<1>4. QED
  BY <1>2, <1>3

\* Whoever repeats an assignment of the solver by hand is not turned down
\* (schedule_runs.py:3083), whatever leaves, approvals and pairs there are.
THEOREM ValidatorAgreesHolds == Spec => []ValidatorAgrees
<1> DEFINE IInv == WellFormed(problem) /\ Assignable
<1>1. Init => IInv
  BY DataInit DEF Init, Assignable, Solved, NoAnswer
<1>2. IInv /\ [Next]_vars => IInv'
  BY DataNext, AssignableNext
<1>3. IInv => ValidatorAgrees
  <2> SUFFICES ASSUME IInv, Solved, NEW a \in answer.rows,
                      NEW verdict \in LeaveVerdicts(problem, a.employee, a.slot)
               PROVE  ValidEdit(problem, Slots(problem), answer.rows, a, verdict)
    BY DEF ValidatorAgrees
  <2>1. a \in Candidates(problem)
    BY DEF Assignable
  <2>2. /\ a.slot \in Slots(problem)
        /\ a.employee \in Active(problem)
        /\ a.role \in problem.staff[a.employee].roles
    BY <2>1 DEF Candidates
  <2>3. verdict # "error"
    BY <2>1, NoErrorForCandidates
  <2>4. ~PairConflict(problem, answer.rows, a.employee, a.slot)
    BY NoPairConflict DEF Assignable
  <2>5. QED
    BY <2>2, <2>3, <2>4 DEF ValidEdit
<1>4. QED
  BY <1>1, <1>2, <1>3, PTL DEF Spec

-----------------------------------------------------------------------------
(* Hours and days.                                                         *)

Dates(p) == {s.day : s \in Slots(p)}

\* What the policy of the time, answer.under, has left its mark on.
Held ==
  Solved =>
    /\ answer.under \in PolicyRows
    /\ answer.rows \subseteq Candidates(problem)
    /\ \A e \in Active(problem), d \in Dates(problem) :
         LET w == d..(d + answer.under.consecutive) IN
         w \subseteq Dates(problem) =>
           Cardinality(DaysOf(answer.rows, e) \cap w) <= answer.under.consecutive
    /\ answer.under.rest > 0 =>
         \A e \in Active(problem) : \A s, t \in {a.slot : a \in Of(answer.rows, e)} :
           s # t /\ Starts(problem, s) <= Starts(problem, t) =>
             ~(Starts(problem, t) - Ends(problem, s) < answer.under.rest)

LEMMA HeldNext ==
  ASSUME WellFormed(problem), Assignable', Held, [Next]_vars
  PROVE  Held'
<1>1. CASE Solve /\ Succeed
  <2>1. PICK x \in FeasibleSets(problem) : answer'.rows = x /\ answer'.under = Policy(problem)
    BY <1>1 DEF Succeed, Answer, Optima
  <2>2. Feasible(problem, x) /\ problem' = problem
    BY <1>1 DEF FeasibleSets, Solve
  <2>3. Policy(problem) \in PolicyRows
    BY PolicyNumbers
  <2>4. ASSUME NEW e \in Active(problem), NEW d \in Dates(problem),
               d..(d + Policy(problem).consecutive) \subseteq Dates(problem)
        PROVE  Cardinality(DaysOf(x, e) \cap (d..(d + Policy(problem).consecutive)))
                 <= Policy(problem).consecutive
    <3>1. d..(d + Policy(problem).consecutive) \in Windows(problem)
      BY <2>4 DEF Windows, Dates
    <3>2. QED
      BY <2>2, <3>1 DEF Feasible, ConsecutiveCapped
  <2>5. ASSUME Policy(problem).rest > 0, NEW e \in Active(problem),
               NEW s \in {a.slot : a \in Of(x, e)}, NEW t \in {a.slot : a \in Of(x, e)},
               s # t, Starts(problem, s) <= Starts(problem, t)
        PROVE  ~(Starts(problem, t) - Ends(problem, s) < Policy(problem).rest)
    BY <2>2, <2>5 DEF Feasible, Rested, TooClose
  <2>6. x \subseteq Candidates(problem)
    BY <2>2 DEF Feasible
  <2>7. QED
    BY <2>1, <2>2, <2>3, <2>4, <2>5, <2>6 DEF Held
<1>2. CASE Solve /\ Unsolved
  BY <1>2 DEF Solve, Unsolved, Answer, Held, Solved
<1>3. ASSUME NEW issue, NEW leave, Approve(issue, leave) PROVE Held'
  BY <1>3 DEF Approve, NoAnswer, Held, Solved
<1>4. CASE ReadPolicy
  <2>1. answer' = answer
    BY <1>4 DEF ReadPolicy
  <2>2. /\ problem'.first = problem.first /\ problem'.last = problem.last
        /\ problem'.types = problem.types /\ problem'.staff = problem.staff
    BY <1>4 DEF ReadPolicy, WellFormed
  <2>3. Slots(problem') = Slots(problem) /\ Active(problem') = Active(problem)
    BY <2>2 DEF Slots, Active
  <2>4. \A s : Starts(problem', s) = Starts(problem, s) /\ Ends(problem', s) = Ends(problem, s)
    BY <2>2 DEF Starts, Ends
  <2>5. Solved => answer.rows \subseteq Candidates(problem')
    BY <2>1 DEF Assignable, Solved
  <2>6. Dates(problem') = Dates(problem)
    BY <2>3 DEF Dates
  <2>7. Held' <=>
          (Solved =>
             /\ answer.under \in PolicyRows
             /\ answer.rows \subseteq Candidates(problem')
             /\ \A e \in Active(problem), d \in Dates(problem) :
                  LET w == d..(d + answer.under.consecutive) IN
                  w \subseteq Dates(problem) =>
                    Cardinality(DaysOf(answer.rows, e) \cap w) <= answer.under.consecutive
             /\ answer.under.rest > 0 =>
                  \A e \in Active(problem) : \A s, t \in {a.slot : a \in Of(answer.rows, e)} :
                    s # t /\ Starts(problem, s) <= Starts(problem, t) =>
                      ~(Starts(problem, t) - Ends(problem, s) < answer.under.rest))
    BY <2>1, <2>3, <2>4, <2>6 DEF Held, Solved
  <2>8. QED
    BY <2>5, <2>7 DEF Held
<1>5. CASE UNCHANGED vars
  BY <1>5 DEF vars, Held, Solved
<1>6. QED
  BY <1>1, <1>2, <1>3, <1>4, <1>5 DEF Next, Solve

LEMMA HeldHolds == Spec => [](WellFormed(problem) /\ Held)
<1> DEFINE IInv == WellFormed(problem) /\ Assignable /\ Held
<1>1. Init => IInv
  BY DataInit DEF Init, Assignable, Held, Solved, NoAnswer
<1>2. IInv /\ [Next]_vars => IInv'
  BY DataNext, AssignableNext, HeldNext
<1>3. QED
  BY <1>1, <1>2, PTL DEF Spec

\* The windows over the dates with slots forbid every longer stretch of days
\* (ortools_solver.py:246), whatever the weekdays of the shift types.
THEOREM NoLongStretchHolds == Spec => []NoLongStretch
<1>1. WellFormed(problem) /\ Held => NoLongStretch
  <2> SUFFICES ASSUME Held, Solved, NEW e \in Active(problem),
                      NEW d \in problem.first..problem.last,
                      d..(d + answer.under.consecutive) \subseteq DaysOf(answer.rows, e)
               PROVE  FALSE
    BY DEF NoLongStretch
  <2> DEFINE k == answer.under.consecutive
             w == d..(d + k)
  <2>1. k \in Nat /\ d \in Int
    BY DEF Held, PolicyRows, DefaultPolicy
  <2>2. DaysOf(answer.rows, e) \subseteq Dates(problem)
    BY DEF Held, Candidates, DaysOf, Of, Dates
  <2>3. d \in w
    BY <2>1
  <2>4. w \subseteq Dates(problem) /\ d \in Dates(problem)
    BY <2>2, <2>3
  <2>5. Cardinality(DaysOf(answer.rows, e) \cap w) <= k
    BY <2>4 DEF Held
  <2>6. DaysOf(answer.rows, e) \cap w = w
    OBVIOUS
  <2>7. Cardinality(w) = k + 1
    BY <2>1, FS_Interval
  <2> HIDE DEF w, k
  <2>8. QED
    BY <2>1, <2>5, <2>6, <2>7
<1>2. QED
  BY <1>1, HeldHolds, PTL

\* The solver compares all pairs of slots, compliance.py the neighbours: what
\* the one rules out the other never warns of (ortools_solver.py:272).
THEOREM RestIsCompliantHolds == Spec => []RestIsCompliant
<1>1. WellFormed(problem) /\ Held => RestIsCompliant
  <2> SUFFICES ASSUME WellFormed(problem), Held, Solved, answer.under.rest >= C!MinRestHours,
                      NEW k \in C!Neighbours(Shifts), k[2].start - k[1].end < C!MinRestHours
               PROVE  FALSE
    BY DEF RestIsCompliant, C!MinimumRestWarnings
  <2>1. /\ k[1] \in Shifts /\ k[2] \in Shifts
        /\ k[1].employee = k[2].employee /\ k[1].start < k[2].start
    BY DEF C!Neighbours
  <2>2. PICK a \in answer.rows : k[1].employee = a.employee
          /\ k[1].start = Starts(problem, a.slot) /\ k[1].end = Ends(problem, a.slot)
    BY <2>1 DEF Shifts
  <2>3. PICK b \in answer.rows : k[2].employee = b.employee /\ k[2].start = Starts(problem, b.slot)
    BY <2>1 DEF Shifts
  <2>4. a.employee \in Active(problem) /\ a.slot \in Slots(problem) /\ b.slot \in Slots(problem)
    BY DEF Held, Candidates
  <2>5. \A s \in Slots(problem) : Starts(problem, s) \in Int /\ Ends(problem, s) \in Int
    BY DEF Slots, Starts, Ends, WellFormed
  <2>6. answer.under.rest \in Nat /\ C!MinRestHours = 11
    BY DEF Held, PolicyRows, DefaultPolicy, C!MinRestHours
  <2>7. a \in Of(answer.rows, a.employee) /\ b \in Of(answer.rows, a.employee)
    BY <2>1, <2>2, <2>3 DEF Of
  <2>8. a.slot # b.slot /\ Starts(problem, a.slot) <= Starts(problem, b.slot)
    BY <2>1, <2>2, <2>3, <2>4, <2>5
  <2>9. ~(Starts(problem, b.slot) - Ends(problem, a.slot) < answer.under.rest)
    BY <2>4, <2>6, <2>7, <2>8 DEF Held
  <2>10. QED
    BY <2>2, <2>3, <2>4, <2>5, <2>6, <2>9
<1>2. QED
  BY <1>1, HeldHolds, PTL

-----------------------------------------------------------------------------
(* The approvals.                                                          *)

\* Each names an active employee, who can fill a post of the slot.
Fitting(p, k) ==
  /\ k = <<k[1], k[2]>>
  /\ k[1] \in Active(p)
  /\ k[2] \in Slots(p)
  /\ \E r \in Requirements(p) : r.slot = k[2] /\ r.role \in p.staff[k[1]].roles

ApprovalsFit == \A k \in problem.approved : Fitting(problem, k)

LEMMA FittingKept ==
  ASSUME NEW p, NEW q, SamePlan(p, q), NEW k, Fitting(p, k)
  PROVE  Fitting(q, k)
<1>1. Slots(q) = Slots(p) /\ Active(q) = Active(p)
  BY DEF SamePlan, Slots, Active
<1>2. Requirements(q) = Requirements(p)
  BY <1>1 DEF SamePlan, Requirements
<1>3. QED
  BY <1>1, <1>2 DEF Fitting, SamePlan

LEMMA ApprovalsFitNext ==
  ASSUME WellFormed(problem), ApprovalsFit, [Next]_vars
  PROVE  ApprovalsFit'
<1>1. SamePlan(problem, problem')
  BY DataNext
<1>2. ASSUME NEW k \in problem.approved PROVE Fitting(problem', k)
  BY <1>1, FittingKept DEF ApprovalsFit
<1>3. CASE problem'.approved \subseteq problem.approved
  BY <1>2, <1>3 DEF ApprovalsFit
<1>4. ASSUME NEW issue \in Issues(problem, answer.rows), NEW leave \in Proposed(problem, issue),
             Approve(issue, leave)
      PROVE  ApprovalsFit'
  <2>1. issue \in Requirements(problem) /\ leave \in OverrideCandidates(problem, issue)
    BY DEF Issues, Proposed
  <2>2. issue.slot \in Slots(problem)
    BY <2>1 DEF Requirements
  <2>3. Fitting(problem, ProposalOf(issue, leave))
    BY <2>1, <2>2 DEF Fitting, ProposalOf, OverrideCandidates
  <2>4. problem'.approved = problem.approved \cup {ProposalOf(issue, leave)}
    BY <1>4 DEF Approve, WellFormed
  <2>5. Fitting(problem', ProposalOf(issue, leave))
    BY <1>1, <2>3, FittingKept
  <2>6. QED
    BY <1>2, <2>4, <2>5 DEF ApprovalsFit
<1>5. CASE Solve \/ ReadPolicy \/ UNCHANGED vars
  BY <1>3, <1>5 DEF Solve, ReadPolicy, vars, WellFormed
<1>6. QED
  BY <1>4, <1>5 DEF Next

\* An approval is never lost on the next attempt: the employee can be assigned
\* in the slot again (schedule_runs.py:2707), whatever was approved before it.
THEOREM ApprovedAreCandidatesHolds == Spec => []ApprovedAreCandidates
<1> DEFINE IInv == WellFormed(problem) /\ ApprovalsFit
<1>1. Init => IInv
  BY DataInit DEF ApprovalsFit
<1>2. IInv /\ [Next]_vars => IInv'
  BY DataNext, ApprovalsFitNext
<1>3. IInv => ApprovedAreCandidates
  <2> SUFFICES ASSUME IInv, NEW k \in problem.approved,
                      \A leave \in LeavesOn(problem, k[1], k[2].day) : leave.override
               PROVE  \E a \in Candidates(problem) : a.employee = k[1] /\ a.slot = k[2]
    BY DEF ApprovedAreCandidates
  <2>1. Fitting(problem, k)
    BY DEF ApprovalsFit
  <2>2. PICK r \in Requirements(problem) : r.slot = k[2] /\ r.role \in problem.staff[k[1]].roles
    BY <2>1 DEF Fitting
  <2> DEFINE a == [slot |-> k[2], role |-> r.role, employee |-> k[1]]
  <2>3. a \in Candidates(problem)
    <3>1. a \in [slot : Slots(problem), role : {l[2] : l \in DOMAIN problem.required},
                 employee : Active(problem)]
      BY <2>1, <2>2 DEF Fitting, Requirements
    <3>2. <<a.slot.type, a.role>> \in DOMAIN problem.required
      BY <2>2 DEF Requirements
    <3>3. <<k[1], k[2]>> = k
      BY <2>1 DEF Fitting
    <3>4. ~Unavailable(problem, a.employee, a.slot)
      BY <3>3 DEF Unavailable
    <3>5. QED
      BY <2>2, <3>1, <3>2, <3>4 DEF Candidates
  <2>4. QED
    BY <2>3
<1>4. QED
  BY <1>1, <1>2, <1>3, PTL DEF Spec

-----------------------------------------------------------------------------
(* The optimum.                                                            *)

\* Two problems that differ at most in that the policy of one is stored.
SameRules(p, q) ==
  /\ SamePlan(p, q)
  /\ q.approved = p.approved /\ q.avoid = p.avoid /\ q.demand = p.demand /\ q.month = p.month
  /\ Policy(q) = Policy(p)

LEMMA SameCandidates ==
  ASSUME NEW p, NEW q, SameRules(p, q)
  PROVE  /\ Slots(q) = Slots(p) /\ Active(q) = Active(p) /\ Requirements(q) = Requirements(p)
         /\ Candidates(q) = Candidates(p)
<1>1. /\ q.first = p.first /\ q.last = p.last /\ q.types = p.types /\ q.required = p.required
      /\ q.staff = p.staff /\ q.away = p.away /\ q.approved = p.approved
  BY DEF SameRules, SamePlan
<1>2. Slots(q) = Slots(p)
  BY <1>1 DEF Slots
<1>3. Active(q) = Active(p)
  BY <1>1 DEF Active
<1>4. Requirements(q) = Requirements(p)
  BY <1>1, <1>2 DEF Requirements
<1>5. \A e, s : Unavailable(q, e, s) <=> Unavailable(p, e, s)
  BY <1>1 DEF Unavailable, LeavesOn
<1>6. Candidates(q) = Candidates(p)
  BY <1>1, <1>2, <1>3, <1>5 DEF Candidates
<1>7. QED
  BY <1>2, <1>3, <1>4, <1>6

LEMMA SameFeasible ==
  ASSUME NEW p, NEW q, SameRules(p, q), NEW x, Feasible(q, x)
  PROVE  Feasible(p, x)
<1>1. /\ q.first = p.first /\ q.last = p.last /\ q.types = p.types /\ q.required = p.required
      /\ q.staff = p.staff /\ q.blocked = p.blocked /\ q.month = p.month /\ Policy(q) = Policy(p)
  BY DEF SameRules, SamePlan
<1>2. /\ Slots(q) = Slots(p) /\ Active(q) = Active(p) /\ Requirements(q) = Requirements(p)
      /\ Candidates(q) = Candidates(p)
  BY SameCandidates
<1>3. NotOverfilled(p, x)
  BY <1>1, <1>2 DEF Feasible, NotOverfilled, Required
<1>4. OncePerSlot(p, x)
  BY <1>2 DEF Feasible, OncePerSlot
<1>5. BlockedApart(p, x)
  BY <1>1, <1>2 DEF Feasible, BlockedApart
<1>6. WeeklyCapped(p, x)
  <2>1. \A e : Cap(q, e) = Cap(p, e)
    BY <1>1 DEF Cap
  <2>2. QED
    BY <1>1, <1>2, <2>1 DEF Feasible, WeeklyCapped
<1>7. MonthlyCapped(p, x)
  <2>1. \A s : Night(q, s) <=> Night(p, s)
    BY <1>1 DEF Night
  <2>2. QED
    <3> SUFFICES ASSUME NEW e \in Active(p), NEW d \in p.first..p.last
                 PROVE  LET month == {a \in Of(x, e) : p.month[a.slot.day] = p.month[d]} IN
                        /\ Cardinality({a \in month : Weekend(a.slot)}) <= Policy(p).weekends
                        /\ Cardinality({a \in month : Night(p, a.slot)}) <= Policy(p).nights
      BY DEF MonthlyCapped
    <3> DEFINE month == {a \in Of(x, e) : p.month[a.slot.day] = p.month[d]}
    <3>1. {a \in month : Night(q, a.slot)} = {a \in month : Night(p, a.slot)}
      BY <2>1
    <3>2. MonthlyCapped(q, x) /\ e \in Active(q) /\ d \in q.first..q.last
      BY <1>1, <1>2 DEF Feasible
    <3>3. /\ Cardinality({a \in month : Weekend(a.slot)}) <= Policy(p).weekends
          /\ Cardinality({a \in month : Night(q, a.slot)}) <= Policy(p).nights
      BY <1>1, <3>2 DEF MonthlyCapped
    <3> HIDE DEF month
    <3>4. /\ Cardinality({a \in month : Weekend(a.slot)}) <= Policy(p).weekends
          /\ Cardinality({a \in month : Night(p, a.slot)}) <= Policy(p).nights
      BY <3>1, <3>3
    <3>5. QED
      BY <3>4 DEF month
<1>8. ConsecutiveCapped(p, x)
  <2>1. Windows(q) = Windows(p)
    BY <1>1, <1>2 DEF Windows
  <2>2. QED
    BY <1>1, <1>2, <2>1 DEF Feasible, ConsecutiveCapped
<1>9. Rested(p, x)
  <2>1. \A s, t : TooClose(q, s, t) <=> TooClose(p, s, t)
    BY <1>1 DEF TooClose, Starts, Ends
  <2>2. QED
    BY <1>1, <1>2, <2>1 DEF Feasible, Rested
<1>10. x \subseteq Candidates(p)
  BY <1>2 DEF Feasible
<1>11. QED
  BY <1>3, <1>4, <1>5, <1>6, <1>7, <1>8, <1>9, <1>10 DEF Feasible

LEMMA SameWeights ==
  ASSUME NEW p, NEW q, SameRules(p, q), NEW a
  PROVE  Outweighed(q, a) <=> Outweighed(p, a)
<1>1. /\ q.required = p.required /\ q.avoid = p.avoid /\ Policy(q) = Policy(p)
      /\ Active(q) = Active(p)
  BY SameCandidates DEF SameRules, SamePlan
<1>2. \A r : Weight(q, r) = Weight(p, r)
  BY <1>1 DEF Weight
<1>3. \A pair : AvoidPenalty(q, pair) = AvoidPenalty(p, pair)
  BY <1>1 DEF AvoidPenalty
<1>4. PairsOf(q, a) = PairsOf(p, a)
  BY <1>1, <1>3 DEF PairsOf
<1>5. TeamSize(q) = TeamSize(p)
  BY <1>1 DEF TeamSize
<1>6. MostAdded(q, a) = MostAdded(p, a)
  BY <1>1, <1>4, <1>5 DEF MostAdded
<1>7. QED
  BY <1>2, <1>6 DEF Outweighed

\* To store the policy that a problem goes by changes nothing.
LEMMA PolicyStored ==
  ASSUME NEW p, WellFormed(p), NEW q, q = [p EXCEPT !.policy = Policy(p)]
  PROVE  SameRules(p, q)
<1>1. q.policy = Policy(p)
  BY DEF WellFormed
<1>2. Policy(q) = Policy(p)
  BY <1>1 DEF Policy
<1>3. QED
  BY <1>2 DEF SameRules, SamePlan

LEMMA FillsNext ==
  ASSUME WellFormed(problem), NothingLeftToFill, [Next]_vars
  PROVE  NothingLeftToFill'
<1>1. CASE Solve
  <2>1. CASE Solved' /\ answer'.proven
    <3>1. problem' = problem
      BY <1>1 DEF Solve
    <3>2. PICK x \in Optima(problem) : answer' = Answer("succeeded", TRUE, x)
      BY <1>1, <2>1 DEF Solve, Succeed, Unsolved, Answer, Solved
    <3> DEFINE q == [problem EXCEPT !.policy = Policy(problem)]
    <3>3. SolvedProblem' = q /\ answer'.rows = x
      BY <3>1, <3>2 DEF Answer, SolvedProblem
    <3>4. SameRules(problem, q)
      BY PolicyStored
    <3> HIDE DEF q
    <3>5. Candidates(q) = Candidates(problem)
      BY <3>4, SameCandidates
    <3>6. ASSUME NEW a \in Candidates(problem) \ x, Outweighed(q, a), Feasible(q, x \cup {a})
          PROVE  FALSE
      <4>1. Outweighed(problem, a)
        BY <3>4, <3>6, SameWeights
      <4>2. Feasible(problem, x \cup {a})
        BY <3>4, <3>6, SameFeasible
      <4>3. QED
        BY <4>1, <4>2, OptimumFills
    <3>7. QED
      BY <3>3, <3>5, <3>6 DEF NothingLeftToFill
  <2>2. CASE ~(Solved' /\ answer'.proven)
    BY <2>2 DEF NothingLeftToFill
  <2>3. QED
    BY <2>1, <2>2
<1>2. ASSUME NEW issue, NEW leave, Approve(issue, leave) PROVE NothingLeftToFill'
  BY <1>2 DEF Approve, NoAnswer, NothingLeftToFill, Solved
<1>3. CASE ReadPolicy
  <2>1. problem' = [problem EXCEPT !.policy = DefaultPolicy] /\ answer' = answer
    BY <1>3 DEF ReadPolicy
  <2>2. SolvedProblem' = SolvedProblem
    BY <2>1 DEF SolvedProblem
  <2>3. QED
    BY <2>1, <2>2 DEF NothingLeftToFill, Solved
<1>4. CASE UNCHANGED vars
  BY <1>4 DEF vars, NothingLeftToFill, Solved, SolvedProblem
<1>5. QED
  BY <1>1, <1>2, <1>3, <1>4 DEF Next

\* The scales of the objective (ortools_solver.py:18-20, :107) are right: of
\* whatever problem, an optimal answer leaves no post open that one candidate
\* more could fill, if only the post weighs more than the filling can cost.
THEOREM NothingLeftToFillHolds == Spec => []NothingLeftToFill
<1> DEFINE IInv == WellFormed(problem) /\ NothingLeftToFill
<1>1. Init => IInv
  BY DataInit DEF Init, NothingLeftToFill, Solved, NoAnswer
<1>2. IInv /\ [Next]_vars => IInv'
  BY DataNext, FillsNext
<1>3. QED
  BY <1>1, <1>2, PTL DEF Spec

================================================================================
