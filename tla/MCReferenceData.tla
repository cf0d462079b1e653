----------------------------- MODULE MCReferenceData -----------------------------
EXTENDS ReferenceData, TLC

CONSTANTS Ann, Bob, Clerk, Temp

Day == [start |-> 9, end |-> 18, days |-> 0..4]
Night == [start |-> 22, end |-> 6, days |-> 0..6]

E(code, roles, cap) == [code |-> code, roles |-> roles, cap |-> cap]
T(name, shape, role, count) ==
  [name |-> name, shape |-> shape, active |-> TRUE, role |-> role, count |-> count]

\* Three employees, one shift type, one blocked pair, one pending request, no run.
Base ==
  [employees |-> [e \in 1..3 |-> [code |-> <<"A", "B", "C">>[e], active |-> TRUE, cap |-> None]],
   skills |-> [s \in 1..2 |-> [employee |-> s, role |-> <<"senior", "junior">>[s]]],
   types |-> [t \in {1} |-> [name |-> "day", shape |-> Day, active |-> TRUE]],
   posts |-> [p \in {1} |-> [type |-> 1, role |-> "senior", count |-> 1]],
   pairs |-> [p \in {1} |-> PairRow(3, 1, "blocked", "high", TRUE)],
   leaves |-> [l \in {} |-> 0],
   requests |-> [r \in {1} |-> [employee |-> 1, by |-> Clerk, kind |-> "vacation", from |-> 1,
                                to |-> 2, status |-> "pending", leave |-> None]],
   links |-> [l \in {1} |-> [employee |-> 1, user |-> Clerk, status |-> "linked"]],
   policy |-> [p \in {} |-> 0],
   drivers |-> [x \in {} |-> 0],
   budgets |-> [b \in {} |-> 0],
   runs |-> [r \in {} |-> 0]]

Leaves ==
  [l \in 1..2 |-> LeaveRow(2, <<1, 3>>[l], <<2, 4>>[l], FALSE, {})]

MCInitial == {Base, [Base EXCEPT !.policy = [p \in {1} |-> StandardPolicy], !.leaves = Leaves]}

MCMember == [c \in Clients |-> IF c \in {Clerk, Temp} THEN "employee" ELSE "scheduler"]

Import(kind, rows) == [op |-> "import", kind |-> kind, rows |-> rows]
Pair(op, id, a, b) ==
  [op |-> op, id |-> id, a |-> a, b |-> b, kind |-> "blocked", severity |-> "low", active |-> TRUE]

StaffAsks ==
  {[op |-> "bulk_paste", rows |-> <<E("A", <<"junior", "junior">>, 3), E("D", <<"senior">>, None)>>],
   [op |-> "update_employee", id |-> 1, row |-> E("A", <<"junior">>, None), active |-> TRUE],
   [op |-> "update_employee", id |-> 2, row |-> E("D", <<"senior">>, 40), active |-> TRUE],
   [op |-> "deactivate_employee", id |-> 1],
   Import("employees", <<E("A", <<"senior", "junior">>, None), E("A", <<"junior">>, 3)>>),
   Import("employees", <<E("D", <<>>, None)>>)}

TypeAsks ==
  {[op |-> "create_shift_type", rows |-> <<T("night", Night, "junior", 1)>>],
   [op |-> "update_shift_type", id |-> 1, rows |-> <<T("day", Day, "junior", 2)>>],
   [op |-> "update_shift_type", id |-> 1, rows |-> <<T("night", Day, "senior", 2)>>],
   [op |-> "deactivate_shift_type", id |-> 1],
   Import("shift_types", <<T("day", Night, "senior", 1), T("day", Night, "junior", 1)>>),
   Import("shift_types", <<T("night", Night, "senior", 1)>>)}

PairAsks ==
  {Pair("create_pair", 0, 2, 1), Pair("create_pair", 0, 1, 2), Pair("update_pair", 1, 2, 1),
   Pair("update_pair", 1, 3, 2), [op |-> "delete_pair", id |-> 1]}

PairImports ==
  {Import("pair_constraints", <<[a |-> "A", b |-> "C", kind |-> "blocked", severity |-> "low"],
                                [a |-> "C", b |-> "A", kind |-> "blocked", severity |-> "high"]>>)}

LeaveAsks ==
  {[op |-> op, employee |-> 2, from |-> 1, to |-> 3, override |-> TRUE] :
     op \in {"create_leave", "update_leave", "delete_leave"}}
  \cup {Import("unavailabilities", <<[code |-> "B", from |-> 1, to |-> 3, override |-> FALSE]>>)}

RequestAsks ==
  {[op |-> "submit", kind |-> kind, employee |-> e, by |-> <<None, Temp>>[e], from |-> 1, to |-> 2] :
     kind \in {"unavailable", "swap"}, e \in {1, 2}}
  \cup {[op |-> "approve"], [op |-> "reject"]}
  \cup {[op |-> "link", employee |-> 2, user |-> user, status |-> "invited"] : user \in {Clerk, Temp}}

PolicyAsks ==
  {[op |-> "get_policy"], [op |-> "put_policy", values |-> [weekly |-> 6, rest |-> 11]],
   [op |-> "put_policy", values |-> [weekly |-> 5, rest |-> 10]],
   [op |-> "create_driver", values |-> [date |-> 1, segment |-> "all_day", demand |-> 9, staff |-> 2]],
   [op |-> "create_budget", values |-> [from |-> 1, to |-> 7, amount |-> 100]],
   Import("policy", <<[key |-> "rest", value |-> 12]>>),
   Import("policy", <<[key |-> "weekly", value |-> 7], [key |-> "weekly", value |-> 31]>>)}

\* Day 5 is a day off.  The key of a run may come again, with another period; a
\* leave may be the same as one that is there.
RunAsks ==
  {[op |-> "create_run", key |-> "k", period |-> period] : period \in {4..5, {5}}}
  \cup {[op |-> "create_run", key |-> None, period |-> 4..5]}
  \cup {[op |-> "create_leave", employee |-> 2, from |-> 3, to |-> to, override |-> FALSE] :
          to \in {4, 5}}
  \cup {[op |-> "create_shift_type", rows |-> <<T("night", Night, "junior", 1)>>],
         [op |-> "deactivate_shift_type", id |-> 1]}

MCAgendas ==
  {StaffAsks \cup PairImports, TypeAsks, PairAsks \cup PairImports,
   LeaveAsks \cup RequestAsks, PolicyAsks, RunAsks}

Symmetry == Permutations({Ann, Bob})
=============================================================================
