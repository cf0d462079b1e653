-------------------------------- MODULE MCSolver --------------------------------
EXTENDS Solver

Types ==
  LET T(start, end, midnight) ==
        [start |-> start, end |-> end, midnight |-> midnight, weekdays |-> 0..6,
         active |-> TRUE, nightLabel |-> midnight]
  IN  <<T(9, 18, FALSE), T(22, 6, TRUE), [T(14, 22, FALSE) EXCEPT !.weekdays = 0..4]>>

Employee(roles, cap) == [roles |-> roles, cap |-> cap, active |-> TRUE]
Leave(e, from, to, override) == [employee |-> e, from |-> from, to |-> to, override |-> override]

\* Friday and Saturday, one day shift, two employees of whom one has a leave.
Base ==
  [first |-> 4, last |-> 5, month |-> [d \in 0..20 |-> IF d < 6 THEN 1 ELSE 2],
   types |-> [t \in {1} |-> Types[t]],
   required |-> [k \in {<<1, 1>>} |-> [count |-> 1, weight |-> -1]],
   staff |-> [e \in 1..2 |-> Employee({1}, -1)],
   away |-> {}, approved |-> {}, blocked |-> {}, avoid |-> [k \in {} |-> 1],
   demand |-> {}, policy |-> NoPolicy]

Tight == [DefaultPolicy EXCEPT !.consecutive = 2, !.weekends = 1, !.nights = 1]

\* Who may be away: on the first day, on both, until a midnight, for good.
Leaves ==
  {{}, {Leave(1, 100, 110, TRUE)}, {Leave(1, 100, 144, TRUE), Leave(2, 100, 110, TRUE)},
   {Leave(1, 98, 120, FALSE), Leave(2, 120, 121, TRUE)},
   {Leave(1, 100, 110, TRUE), Leave(1, 101, 111, FALSE)}}

Posts(types, count) == [k \in types \X {1} |-> [count |-> count, weight |-> -1]]

\* Leaves, blocked pairs and two posts a day.
Pairs ==
  {[Base EXCEPT !.away = away, !.blocked = blocked, !.policy = policy,
                !.required = Posts({1}, count)] :
     away \in Leaves, blocked \in {{}, {{1, 2}}}, policy \in {NoPolicy, Tight}, count \in 1..2}

\* Two roles in one slot that the same people can fill.
TwoRoles ==
  {[Base EXCEPT !.last = 4, !.away = away,
                !.required = [k \in {1} \X {1, 2} |-> [count |-> 1, weight |-> -1]],
                !.staff = [e \in 1..3 |-> Employee(IF e = 3 THEN {2} ELSE {1, 2}, -1)],
                !.avoid = [k \in {{1, 2}} |-> 4]] : away \in Leaves}

\* Weights around the price of an avoided pair, above and below.
Weights ==
  {[Base EXCEPT !.last = 4, !.policy = DefaultPolicy,
                !.required = [k \in {1} \X {1, 2} |-> [count |-> count, weight |-> weight]],
                !.staff = [e \in 1..3 |-> Employee({1, 2}, -1)],
                !.demand = {[day |-> 4, type |-> 1, count |-> target]},
                !.avoid = [k \in pairs |-> 4]] :
     count \in 1..2, weight \in {0, 1, 2, 24, 26}, target \in 1..2,
     pairs \in {{{1, 2}}, {{1, 2}, {1, 3}, {2, 3}}}}

\* Day, evening and night, with and without a rest to keep.
Shiftwork ==
  {[Base EXCEPT !.types = [t \in types |-> Types[t]], !.required = Posts(types, 1),
                !.policy = policy] :
     types \in {{1, 2}, {2, 3}}, policy \in {NoPolicy, DefaultPolicy, Tight}}

\* A week and a half for one employee: stretches, weeks and weekends.
Stretch ==
  {[Base EXCEPT !.first = first, !.last = first + 4, !.policy = policy,
                !.types = [t \in {1} |-> [Types[1] EXCEPT !.weekdays = days]],
                !.staff = [e \in {1} |-> Employee({1}, cap)],
                !.demand = {[day |-> first, type |-> 1, count |-> 2]}] :
     first \in 4..5, policy \in {NoPolicy, Tight}, days \in {0..6, 0..4}, cap \in {-1, 2}}

MCProblems == Pairs \cup TwoRoles \cup Weights \cup Shiftwork \cup Stretch
=============================================================================
