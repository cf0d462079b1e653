------------------------------ MODULE RunSnapshots ------------------------------
(***************************************************************************)
(* The input snapshot that is stored and hashed when a schedule run is     *)
(* created (_build_snapshot_payload in api/routes/schedule_runs.py).  Its  *)
(* hash is abstracted to the snapshot itself.  A period is a set of days,  *)
(* numbered so that day d is weekday d % 7.                                *)
(***************************************************************************)
EXTENDS ReferenceTables

\* The order in which the tables are read, one SELECT each.
SnapshotTables == <<"employees", "skills", "types", "posts", "leaves", "pairs">>

\* _generated_snapshot_artifacts: a requirement counts only for a shift type
\* that is among those read, is active and works on the day.
Needed(seen, period) ==
  LET Works(t, day) == seen.types[t].active /\ day % 7 \in seen.types[t].shape.days IN
  {[day |-> slot[1], type |-> slot[2].type, role |-> slot[2].role, count |-> slot[2].count] :
     slot \in {s \in period \X Contents(seen, "posts") :
                 s[2].type \in DOMAIN seen.types /\ Works(s[2].type, s[1])}}

\* What a snapshot lists of a leave and of a pair, and the keys they are sorted by.
ShownLeave(r) == [employee |-> r.employee, from |-> r.from, to |-> r.to, override |-> r.override]
ShownPair(r) ==
  [a |-> r.a, b |-> r.b, kind |-> r.kind, severity |-> r.severity, active |-> r.active]

\* A plausible slip: the leaves are sorted by employee only.
ByEmployee(r, s) == r.employee < s.employee

LeaveBefore(r, s) == r.employee < s.employee \/ (r.employee = s.employee /\ r.from < s.from)
PairBefore(r, s) == r.a < s.a \/ (r.a = s.a /\ r.b < s.b)

\* The lists that sorting can make of the rows: the SELECT has no ORDER BY and
\* rows of equal keys stay in the order in which it found them.
Orders(ids) == Bijection(1..Cardinality(ids), ids)

LeaveListings(rows) ==
  LET Sorted(o) == \A m, n \in DOMAIN o : m < n => ~LeaveBefore(rows[o[n]], rows[o[m]]) IN
  {[n \in DOMAIN o |-> ShownLeave(rows[o[n]])] : o \in {p \in Orders(DOMAIN rows) : Sorted(p)}}

PairListings(rows) ==
  LET Sorted(o) == \A m, n \in DOMAIN o : m < n => ~PairBefore(rows[o[n]], rows[o[m]]) IN
  {[n \in DOMAIN o |-> ShownPair(rows[o[n]])] : o \in {p \in Orders(DOMAIN rows) : Sorted(p)}}

\* A run and its snapshot: one row each, in one transaction.
RunRow(key, snapshot) == [key |-> key, snapshot |-> snapshot]

\* The other lists are sorted by keys that are unique.
Snapshots(seen, period) ==
  {[period |-> period, employees |-> seen.employees, skills |-> Contents(seen, "skills"),
    types |-> seen.types, posts |-> seen.posts, needed |-> Needed(seen, period),
    leaves |-> leaves, pairs |-> pairs] :
     leaves \in LeaveListings(seen.leaves),
     pairs \in PairListings(seen.pairs)}

=============================================================================
