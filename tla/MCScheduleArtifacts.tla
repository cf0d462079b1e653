-------------------------- MODULE MCScheduleArtifacts --------------------------
EXTENDS ScheduleArtifacts, TLC

\* A shift across midnight: three of them are more hours than a week allows.
Type == [start |-> 8, end |-> 7, midnight |-> TRUE, weekdays |-> 0..6, active |-> TRUE]

Employee(roles) == [roles |-> roles, cap |-> -1, active |-> TRUE]
Leave(e, from, to, override) == [employee |-> e, from |-> from, to |-> to, override |-> override]

\* One day and one shift with a post for two and one for one, for two employees of whom one has a leave.
Pair ==
  [first |-> 0, last |-> 0, month |-> [d \in 0..20 |-> 1],
   types |-> [t \in {1, 2} |-> [Type EXCEPT !.active = (t = 1)]],
   required |-> [k \in {1} \X {1, 2} |-> [count |-> IF k[2] = 1 THEN 2 ELSE 1, weight |-> -1]],
   staff |-> [e \in 1..2 |-> Employee({1, 2})],
   away |-> {Leave(2, 1, 30, TRUE)},
   approved |-> {}, blocked |-> {}, avoid |-> [k \in {} |-> 1],
   demand |-> {}, policy |-> NoPolicy]

\* One employee for four long days.
Long ==
  [Pair EXCEPT !.last = 3, !.staff = [e \in {1} |-> Employee({1})], !.away = {},
               !.required = [k \in {<<1, 1>>} |-> [count |-> 1, weight |-> -1]]]

\* The shift is given up for another one that needs nobody.
Closed == [Pair EXCEPT !.types[1].active = FALSE, !.types[2].active = TRUE, !.blocked = {{1, 2}}]

\* The two come not to be put together, or the shift to be closed.
MCPlans ==
  {Pair, Closed, Long}

\* One edit of the long days is enough to change what an override was given for.
MCMaxEdits(p) == IF p.last = 0 THEN 2 ELSE 1

Symmetric == Permutations(Clients)
=============================================================================
