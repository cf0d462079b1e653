----------------------------- MODULE PlanningRules -----------------------------
(***************************************************************************)
(* What the organization's reference data say of a schedule: the slots of  *)
(* a period, who may be put where, the constraints and the cost of the     *)
(* CP-SAT model (solver/ortools_solver.py), the issues and proposals made  *)
(* of its answer, and the check of a manual edit                           *)
(* (api/routes/schedule_runs.py).                                          *)
(*                                                                         *)
(* A problem p is a record of that data.  Days are counted from a Monday   *)
(* and moments in hours; employees, roles and shift types are numbers, in  *)
(* the order of their identifiers.                                         *)
(*   p.first, p.last  the period           p.month[d]   the month of day d *)
(*   p.types[t]       start, end, midnight, weekdays, active               *)
(*   p.required       <<type, role>> -> count, weight (-1: no override)    *)
(*   p.staff[e]       roles, cap (-1: none), active                        *)
(*   p.away           records employee, from, to, override                 *)
(*   p.approved       the <<employee, slot>> of approved time-off overrides *)
(*   p.blocked, p.avoid   sets of pairs, and pairs -> multiplier           *)
(*   p.demand         records day, type, count                             *)
(*   p.policy         the row of schedule_policies, or NoPolicy            *)
(***************************************************************************)
EXTENDS Integers, FiniteSets, Functions

CONSTANT NoPolicy

Weekday(d) == d % 7
Week(d) == d \div 7
AtLeast(a, b) == IF a < b THEN b ELSE a

\* DEFAULT_POLICY, which reading the policy stores.
DefaultPolicy ==
  [rest |-> 11, consecutive |-> 5, weekly |-> 5, weekends |-> 4, nights |-> 6,
   unfilled |-> 900, imbalance |-> 100, avoid |-> 60]

\* What the solver goes by while no policy is stored.
Unlimited ==
  [DefaultPolicy EXCEPT !.rest = 0, !.consecutive = 31, !.weekly = 31, !.weekends = 31,
                        !.nights = 31, !.unfilled = 100, !.avoid = 0]

PolicyRows == [DOMAIN DefaultPolicy -> Nat]

Policy(p) == IF p.policy = NoPolicy THEN Unlimited ELSE p.policy

\* What the columns and checks of the tables say of a problem (models.py).
WellFormed(p) ==
  /\ {"first", "last", "month", "types", "required", "staff", "away", "approved", "blocked",
      "avoid", "demand", "policy"} \subseteq DOMAIN p
  /\ p.policy \in PolicyRows \cup {NoPolicy}
  /\ p.first \in Int /\ p.last \in Int
  /\ IsFiniteSet(DOMAIN p.types)
  /\ \A t \in DOMAIN p.types : p.types[t].start \in Nat /\ p.types[t].end \in Nat
  /\ IsFiniteSet(DOMAIN p.required)
  /\ \A k \in DOMAIN p.required :
       p.required[k].count \in Nat \ {0} /\ p.required[k].weight \in Nat \cup {-1}
  /\ IsFiniteSet(DOMAIN p.staff) /\ DOMAIN p.staff \subseteq Int
  /\ \A e \in DOMAIN p.staff : p.staff[e].cap \in Nat \cup {-1}
  /\ \A pair \in p.blocked : \E a, b \in pair : a # b /\ pair = {a, b}
  /\ IsFiniteSet(DOMAIN p.avoid) /\ \A pair \in DOMAIN p.avoid : p.avoid[pair] \in Nat
  /\ IsFiniteSet(p.demand) /\ \A d \in p.demand : d.count \in Nat

-----------------------------------------------------------------------------
(* Slots, requirements and candidates.                                     *)

Slots(p) ==
  {s \in [day : p.first..p.last, type : DOMAIN p.types] :
     p.types[s.type].active /\ Weekday(s.day) \in p.types[s.type].weekdays}

Starts(p, s) == 24 * s.day + p.types[s.type].start
Ends(p, s) ==
  24 * (IF p.types[s.type].midnight THEN s.day + 1 ELSE s.day) + p.types[s.type].end

Weekend(s) == Weekday(s.day) >= 5
Night(p, s) ==
  LET t == p.types[s.type] IN t.midnight \/ t.start >= 20 \/ t.end <= 8

\* A leave covers whole days; one that ends at midnight leaves that day free.
Covers(leave, d) ==
  /\ leave.from \div 24 <= d
  /\ IF leave.to % 24 = 0 THEN d < leave.to \div 24 ELSE d <= leave.to \div 24

LeavesOn(p, e, d) == {leave \in p.away : leave.employee = e /\ Covers(leave, d)}

\* A plausible slip: the approval lifts every leave of the day.
UnavailableUnlessApproved(p, e, s) ==
  LeavesOn(p, e, s.day) # {} /\ <<e, s>> \notin p.approved

\* A plausible slip: the approvals are not looked at.
UnavailableWhateverApproved(p, e, s) == LeavesOn(p, e, s.day) # {}

\* An approved override lifts the leaves that allow one, for that slot only.
Unavailable(p, e, s) ==
  \E leave \in LeavesOn(p, e, s.day) : ~(leave.override /\ <<e, s>> \in p.approved)

Requirements(p) ==
  {r \in [slot : Slots(p), role : {k[2] : k \in DOMAIN p.required}] :
     <<r.slot.type, r.role>> \in DOMAIN p.required}

Required(p, r) == p.required[<<r.slot.type, r.role>>].count

Weight(p, r) ==
  LET w == p.required[<<r.slot.type, r.role>>].weight
  IN  IF w = -1 THEN Policy(p).unfilled ELSE w

Active(p) == {e \in DOMAIN p.staff : p.staff[e].active}

\* The variables of the model: an assignment that may be made.
Candidates(p) ==
  {a \in [slot : Slots(p), role : {k[2] : k \in DOMAIN p.required}, employee : Active(p)] :
     /\ <<a.slot.type, a.role>> \in DOMAIN p.required
     /\ a.role \in p.staff[a.employee].roles
     /\ ~Unavailable(p, a.employee, a.slot)}

-----------------------------------------------------------------------------
(* The constraints.  x is a set of candidates.                             *)

Of(x, e) == {a \in x : a.employee = e}
For(x, r) == {a \in x : a.slot = r.slot /\ a.role = r.role}
In(x, s) == {a \in x : a.slot = s}
DaysOf(x, e) == {a.slot.day : a \in Of(x, e)}

\* A plausible slip: the equation of a requirement without its slack.
FilledExactly(p, x) == \A r \in Requirements(p) : Cardinality(For(x, r)) = Required(p, r)

NotOverfilled(p, x) == \A r \in Requirements(p) : Cardinality(For(x, r)) <= Required(p, r)

OncePerSlot(p, x) ==
  \A e \in Active(p), s \in Slots(p) : Cardinality(Of(In(x, s), e)) <= 1

BlockedApart(p, x) ==
  \A pair \in p.blocked, s \in Slots(p) :
    Cardinality({a \in In(x, s) : a.employee \in pair}) <= 1

Cap(p, e) == IF p.staff[e].cap = -1 THEN Policy(p).weekly ELSE p.staff[e].cap

WeeklyCapped(p, x) ==
  \A e \in Active(p), d \in p.first..p.last :
    Cardinality({a \in Of(x, e) : Week(a.slot.day) = Week(d)}) <= Cap(p, e)

MonthlyCapped(p, x) ==
  \A e \in Active(p), d \in p.first..p.last :
    LET month == {a \in Of(x, e) : p.month[a.slot.day] = p.month[d]} IN
    /\ Cardinality({a \in month : Weekend(a.slot)}) <= Policy(p).weekends
    /\ Cardinality({a \in month : Night(p, a.slot)}) <= Policy(p).nights

\* A plausible slip: the windows are a day too long.
WindowsTooLong(p) ==
  LET dates == {s.day : s \in Slots(p)} IN
  {w \in {d..(d + Policy(p).consecutive + 1) : d \in dates} : w \subseteq dates}

\* The windows lie inside a run of consecutive dates that have slots.
Windows(p) ==
  LET dates == {s.day : s \in Slots(p)} IN
  {w \in {d..(d + Policy(p).consecutive) : d \in dates} : w \subseteq dates}

ConsecutiveCapped(p, x) ==
  \A e \in Active(p), w \in Windows(p) :
    Cardinality(DaysOf(x, e) \cap w) <= Policy(p).consecutive

\* A plausible slip: only the slots of one day are compared.
TooCloseSameDay(p, s, t) ==
  /\ s # t /\ s.day = t.day
  /\ Starts(p, s) <= Starts(p, t)
  /\ Starts(p, t) - Ends(p, s) < Policy(p).rest

\* Two different slots between which the rest would be too short.
TooClose(p, s, t) ==
  /\ s # t
  /\ Starts(p, s) <= Starts(p, t)
  /\ Starts(p, t) - Ends(p, s) < Policy(p).rest

Rested(p, x) ==
  Policy(p).rest > 0 =>
    \A e \in Active(p) : \A s, t \in {a.slot : a \in Of(x, e)} : ~TooClose(p, s, t)

Feasible(p, x) ==
  /\ x \subseteq Candidates(p)
  /\ NotOverfilled(p, x)
  /\ OncePerSlot(p, x)
  /\ BlockedApart(p, x)
  /\ WeeklyCapped(p, x)
  /\ MonthlyCapped(p, x)
  /\ ConsecutiveCapped(p, x)
  /\ Rested(p, x)

-----------------------------------------------------------------------------
(* The cost that the solver minimizes.                                     *)

Missing(p, x, r) == Required(p, r) - Cardinality(For(x, r))
Before(S, x) == Cardinality({y \in S : y < x})

\* A plausible slip: the weights are not scaled up, and rotation outweighs them.
UnfilledUnscaled(p, x) ==
  SumFunction([r \in Requirements(p) |-> Missing(p, x, r) * Weight(p, r)])

Unfilled(p, x) ==
  SumFunction([r \in Requirements(p) |-> Missing(p, x, r) * Weight(p, r) * 100000])

\* The drivers of a slot add up; a slot without any has no target.
Target(p, s) ==
  SumFunction([d \in {d \in p.demand : d.day = s.day /\ d.type = s.type} |-> d.count])

\* What n people cost in a slot that should have so many.
OffTargetCost(target, n) ==
  AtLeast(0, target - n) * 100000 + AtLeast(0, n - target) * 25000

OffTarget(p, x) ==
  SumFunction([s \in {s \in Slots(p) : Target(p, s) > 0} |->
                 OffTargetCost(Target(p, s), Cardinality(In(x, s)))])

\* The penalty of an avoided pair: its severity, times the policy's weight.
AvoidPenalty(p, pair) == Policy(p).avoid * p.avoid[pair] * 10000

\* The slots in which a pair works together.
SlotsTogether(p, x, pair) ==
  {s \in Slots(p) : \A e \in pair : \E a \in In(x, s) : a.employee = e}

Avoided(p, x) ==
  SumFunction([pair \in DOMAIN p.avoid |->
                 AvoidPenalty(p, pair) * Cardinality(SlotsTogether(p, x, pair))])

\* Whose turn it is, by the rank of the slot and of the role.
Turn(p, a) ==
  LET roles == {r.role : r \in Requirements(p)}
      Earlier(t) == t.day < a.slot.day \/ (t.day = a.slot.day /\ t.type < a.slot.type)
  IN  Cardinality({t \in Slots(p) : Earlier(t)}) + Before(roles, a.role)

TeamSize(p) == AtLeast(1, Cardinality(Active(p)))

\* How far an employee is from the one whose turn it is.
RotationCost(p, a) ==
  LET n == TeamSize(p)
      index == Before(Active(p), a.employee)
  IN  ((index - (Turn(p, a) % n)) % n) * 1000 + index

Rotation(p, x) == SumFunction([a \in x |-> RotationCost(p, a)])

FairTarget(p) ==
  LET total == SumFunction([r \in Requirements(p) |-> Required(p, r)])
      n == Cardinality(Active(p))
  IN  IF n = 0 THEN 0 ELSE AtLeast(1, (total + n - 1) \div n)

Imbalance(p, x) ==
  SumFunction([e \in Active(p) |->
                 AtLeast(0, Cardinality(Of(x, e)) - FairTarget(p)) * Policy(p).imbalance * 500])

Repeated(x, e) == {d \in DaysOf(x, e) : d + 1 \in DaysOf(x, e)}

Adjacent(p, x) == SumFunction([e \in Active(p) |-> 20000 * Cardinality(Repeated(x, e))])

Cost(p, x) ==
  Unfilled(p, x) + OffTarget(p, x) + Avoided(p, x) + Rotation(p, x) + Imbalance(p, x)
    + Adjacent(p, x)

FeasibleSets(p) == {x \in SUBSET Candidates(p) : Feasible(p, x)}

Optima(p) ==
  LET sets == FeasibleSets(p)
      cost == [x \in sets |-> Cost(p, x)]
  IN  {x \in sets : \A y \in sets : cost[x] <= cost[y]}

-----------------------------------------------------------------------------
(* What the weights of the objective are worth.                            *)

\* What the pairs of an employee cost in one slot.
PairsOf(p, a) ==
  [pair \in DOMAIN p.avoid |-> IF a.employee \in pair THEN AvoidPenalty(p, pair) ELSE 0]

\* The most that one assignment more can add to all costs but the first: a
\* person above the target, the avoided pairs of its employee, the rotation by
\* all the others, a shift above the fair share, the days before and after.
MostAdded(p, a) ==
  25000 + SumFunction(PairsOf(p, a)) + (TeamSize(p) - 1) * 1001 + Policy(p).imbalance * 500
    + 2 * 20000

\* An unfilled post weighs more than whatever filling it may cost.
Outweighed(p, a) == Weight(p, [slot |-> a.slot, role |-> a.role]) * 100000 > MostAdded(p, a)

-----------------------------------------------------------------------------
(* What is made of an answer.                                              *)

\* A plausible slip: filled requirements are reported too.
IssuesOfAll(p, x) == {r \in Requirements(p) : Missing(p, x, r) >= 0}

Issues(p, x) == {r \in Requirements(p) : Missing(p, x, r) > 0}

\* The leaves that would have to be overridden to fill an issue, one proposal
\* each: an employee with two of them is proposed twice.
OverrideCandidates(p, issue) ==
  {leave \in p.away :
     /\ leave.override
     /\ Covers(leave, issue.slot.day)
     /\ leave.employee \in Active(p)
     /\ issue.role \in p.staff[leave.employee].roles}

\* At most three, in the order of the employees.
Proposed(p, issue) ==
  LET all == OverrideCandidates(p, issue)
      Earlier(l, m) == l.employee < m.employee \/ (l.employee = m.employee /\ l.from < m.from)
  IN  {leave \in all : Cardinality({l \in all : Earlier(l, leave)}) < 3}

\* The identifier of a proposal names the employee and the slot.
ProposalOf(issue, leave) == <<leave.employee, issue.slot>>

\* Two proposals of one answer with the same identifier, which is their key.
ProposalsCollide(p, issues) ==
  \E i, j \in issues : \E l \in Proposed(p, i), m \in Proposed(p, j) :
    <<i, l>> # <<j, m>> /\ ProposalOf(i, l) = ProposalOf(j, m)

-----------------------------------------------------------------------------
(* _validate_manual_edit_request.  rows are the assignments shown to it.   *)

\* The first leave that the query returns decides, and no order is asked for.
LeaveVerdicts(p, e, s) ==
  LET leaves == LeavesOn(p, e, s.day)
  IN  IF leaves = {} THEN {"free"}
      ELSE {IF leave.override THEN "warning" ELSE "error" : leave \in leaves}

PairConflict(p, rows, e, s) ==
  \E a \in In(rows, s) : a.employee # e /\ {a.employee, e} \in p.blocked

\* slots are the slots of the result that is shown, which is not always Slots(p).
ValidEdit(p, slots, rows, edit, verdict) ==
  /\ edit.slot \in slots
  /\ edit.employee \in Active(p)
  /\ edit.role \in p.staff[edit.employee].roles
  /\ verdict # "error"
  /\ ~PairConflict(p, rows, edit.employee, edit.slot)

=============================================================================
