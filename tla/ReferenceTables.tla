---------------------------- MODULE ReferenceTables ----------------------------
(***************************************************************************)
(* The tables of an organization's reference data (db/models.py), what     *)
(* their constraints refuse, and what one transaction does to them.        *)
(*                                                                         *)
(* A table maps the identifiers of its rows to records with the columns of *)
(* ColumnsOf; a run and its input snapshot are one row.                    *)
(***************************************************************************)
EXTENDS Integers, Sequences, FiniteSets, Functions

CONSTANT None

\* skills is the table employee_roles, posts the table shift_requirements.
ColumnsOf ==
  [employees |-> {"code", "active", "cap"},
   skills |-> {"employee", "role"},
   types |-> {"name", "shape", "active"},
   posts |-> {"type", "role", "count"},
   pairs |-> {"a", "b", "na", "nb", "kind", "severity", "active"},
   leaves |-> {"employee", "from", "to", "override", "note"},
   requests |-> {"employee", "by", "kind", "from", "to", "status", "leave"},
   links |-> {"employee", "user", "status"},
   policy |-> {"weekly", "rest"},
   drivers |-> {"date", "segment", "demand", "staff"},
   budgets |-> {"from", "to", "amount"},
   runs |-> {"key", "snapshot"}]

TableNames == DOMAIN ColumnsOf

Shaped(d) ==
  /\ DOMAIN d = TableNames
  /\ \A t \in TableNames : \A i \in DOMAIN d[t] : DOMAIN d[t][i] = ColumnsOf[t]

\* The columns that may not agree in two rows of a table, and no two rows of
\* the last, which has one row per organization.
Keys ==
  [employees |-> {{"code"}}, skills |-> {{"employee", "role"}}, types |-> {{"name"}},
   posts |-> {{"type", "role"}}, pairs |-> {{"na", "nb", "kind"}}, leaves |-> {},
   requests |-> {}, links |-> {{"employee"}, {"user"}}, policy |-> {{}},
   drivers |-> {{"date", "segment"}}, budgets |-> {}, runs |-> {{"key"}}]

\* Rows without a value in a column never agree in it.
UniqueIn(d, t, key) ==
  \A i, j \in DOMAIN d[t] :
    (\A column \in key : d[t][i][column] = d[t][j][column] /\ d[t][i][column] # None) => i = j

Unique(d) == \A t \in TableNames : \A key \in Keys[t] : UniqueIn(d, t, key)

\* The CHECK constraints of each table, named as its class.
EmployeeUserLink(r) == r.status \in {"invited", "linked", "disabled"}

EmployeeRequest(r) ==
  /\ r.kind \in {"vacation", "unavailable", "prefer_shift", "avoid_shift", "swap", "open_shift"}
  /\ r.status \in {"pending", "approved", "rejected", "canceled"}
  /\ r.from < r.to

Employee(r) == r.active \in BOOLEAN /\ r.cap \in Nat \cup {None}
Unavailability(r) == r.override \in BOOLEAN /\ r.from < r.to
SchedulePolicy(r) == r.rest >= 0 /\ r.weekly >= 1
ShiftType(r) == r.active \in BOOLEAN /\ r.shape.start # r.shape.end
ShiftRequirement(r) == r.count >= 1

DemandDriver(r) == r.demand >= 0 /\ r.staff >= 0
LaborBudget(r) == r.from <= r.to /\ r.amount >= 0
ScheduleRun(r) == r.snapshot.period # {}

PairConstraint(r) ==
  /\ r.na < r.nb
  /\ r.kind \in {"blocked", "avoid", "prefer"}
  /\ r.severity \in {"low", "medium", "high", "critical"}
  /\ r.active \in BOOLEAN

Checked(d) ==
  /\ \A i \in DOMAIN d.links : EmployeeUserLink(d.links[i])
  /\ \A i \in DOMAIN d.requests : EmployeeRequest(d.requests[i])
  /\ \A i \in DOMAIN d.employees : Employee(d.employees[i])
  /\ \A i \in DOMAIN d.leaves : Unavailability(d.leaves[i])
  /\ \A i \in DOMAIN d.policy : SchedulePolicy(d.policy[i])
  /\ \A i \in DOMAIN d.types : ShiftType(d.types[i])
  /\ \A i \in DOMAIN d.posts : ShiftRequirement(d.posts[i])
  /\ \A i \in DOMAIN d.pairs : PairConstraint(d.pairs[i])
  /\ \A i \in DOMAIN d.drivers : DemandDriver(d.drivers[i])
  /\ \A i \in DOMAIN d.budgets : LaborBudget(d.budgets[i])
  /\ \A i \in DOMAIN d.runs : ScheduleRun(d.runs[i])

\* The foreign keys.
Refers(d) ==
  /\ \A i \in DOMAIN d.skills : d.skills[i].employee \in DOMAIN d.employees
  /\ \A i \in DOMAIN d.posts : d.posts[i].type \in DOMAIN d.types
  /\ \A i \in DOMAIN d.pairs :
       {d.pairs[i].a, d.pairs[i].b, d.pairs[i].na, d.pairs[i].nb} \subseteq DOMAIN d.employees
  /\ \A i \in DOMAIN d.leaves : d.leaves[i].employee \in DOMAIN d.employees
  /\ \A i \in DOMAIN d.links : d.links[i].employee \in DOMAIN d.employees
  /\ \A i \in DOMAIN d.requests :
       /\ d.requests[i].employee \in DOMAIN d.employees
       /\ d.requests[i].leave \in DOMAIN d.leaves \cup {None}

\* normalize_pair_employee_ids
Lower(a, b) == IF a < b THEN a ELSE b
Upper(a, b) == IF a < b THEN b ELSE a

-----------------------------------------------------------------------------
(* Effects.  A transaction sets columns of rows, removes rows and adds     *)
(* rows.  The ORM writes the columns whose value differs from the one that *)
(* the transaction has read, and no others.                                *)

Columns(t, i, new) == [table |-> t, id |-> i, new |-> new]

\* A plausible slip: a save writes the whole row.
WholeRow(d, t, i, new) == {Columns(t, i, new)}

Changed(d, t, i, new) ==
  LET differ == {column \in DOMAIN new : new[column] # d[t][i][column]}
  IN  IF differ = {} THEN {} ELSE {Columns(t, i, Restrict(new, differ))}

Row(t, i, values) == [table |-> t, id |-> i, values |-> values]

\* replaces: the <<table, row>> whose skills or posts are deleted and replaced.
Nothing == [set |-> {}, remove |-> {}, replaces |-> {}, add |-> {}]

SkillsOf(d, e) == {i \in DOMAIN d.skills : d.skills[i].employee = e}
PostsOf(d, t) == {i \in DOMAIN d.posts : d.posts[i].type = t}

\* Plausible slips: only roles, or only requirements, are replaced.
DetailsOfEmployees(d, owner) ==
  {"skills"} \X (IF owner[1] = "employees" THEN SkillsOf(d, owner[2]) ELSE {})
DetailsOfTypes(d, owner) ==
  {"posts"} \X (IF owner[1] = "types" THEN PostsOf(d, owner[2]) ELSE {})

\* The rows that a replacement deletes: those its DELETE can see.
Details(d, owner) ==
  IF owner[1] = "employees" THEN {"skills"} \X SkillsOf(d, owner[2])
  ELSE {"posts"} \X PostsOf(d, owner[2])

\* A plausible slip: the column has no foreign key.
ForgottenNever(d, gone) == {}

\* A deleted leave is forgotten by the request it came from (ON DELETE SET NULL).
Forgotten(d, gone) ==
  {Columns("requests", i, [leave |-> None]) :
     i \in {k \in DOMAIN d.requests : <<"leaves", d.requests[k].leave>> \in gone}}

\* The tables after a transaction that deletes the rows gone.
After(d, effect, gone) ==
  LET set == effect.set \cup Forgotten(d, gone)
      Updates(t, i, column) == {w \in set : w.table = t /\ w.id = i /\ column \in DOMAIN w.new}
      Value(t, i, column) ==
        IF Updates(t, i, column) = {} THEN d[t][i][column]
        ELSE (CHOOSE w \in Updates(t, i, column) : TRUE).new[column]
      kept(t) == {i \in DOMAIN d[t] : <<t, i>> \notin gone}
      added(t) == {r \in effect.add : r.table = t}
  IN  [t \in TableNames |->
         [i \in kept(t) \cup {r.id : r \in added(t)} |->
            IF i \in kept(t) THEN [column \in DOMAIN d[t][i] |-> Value(t, i, column)]
            ELSE (CHOOSE r \in added(t) : r.id = i).values]]

\* An UPDATE of a row that another transaction has deleted fails.
Accepts(d, effect, gone) ==
  /\ \A w \in effect.set : w.id \in DOMAIN d[w.table]
  /\ LET new == After(d, effect, gone) IN Unique(new) /\ Checked(new)

\* The rows of a table without their identifiers.
Contents(d, t) == {d[t][i] : i \in DOMAIN d[t]}

\* The roles of an employee, or the roles and counts of a shift type.
DetailsOf(d, owner) ==
  IF owner[1] = "employees" THEN {d.skills[i].role : i \in SkillsOf(d, owner[2])}
  ELSE {[role |-> d.posts[i].role, count |-> d.posts[i].count] : i \in PostsOf(d, owner[2])}

=============================================================================
