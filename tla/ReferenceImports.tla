---------------------------- MODULE ReferenceImports ----------------------------
(***************************************************************************)
(* Rows of reference data that come in batches: POST imports/apply         *)
(* (api/routes/imports.py) and POST employees/bulk-paste                   *)
(* (api/routes/employees.py).  For each kind of rows, whether the rows are *)
(* valid in tables d, and the effect of the n-th call with such rows.      *)
(* Parsing a sheet is abstracted to the rows it yields; a row of the model *)
(* has the columns that are required, with values that may be wrong.       *)
(***************************************************************************)
EXTENDS ReferenceTables, FiniteSetsExt

CONSTANT Roles      \* the role names of the organization

\* Bound on the rows of a request, above MAX_XLSX_ROWS, and on the roles of a row.
MaxRows == 9999

\* New identifiers, of which no two calls make the same: the j-th row made for
\* row i of call n, j = 0 for its owner.  The initial rows have the ones below.
NewId(n, i, j) == 100000000 * (n + 1) + 10000 * i + j
FirstIds == 1..(NewId(0, 0, 0) - 1)

Indices(rows) == DOMAIN rows

ByCode(d, code) == {e \in DOMAIN d.employees : d.employees[e].code = code}
TheId(ids) == CHOOSE i \in ids : TRUE

-----------------------------------------------------------------------------
(* Employees.                                                              *)

Caps == {None} \cup 0..31
Repeats(roles) == \E i, j \in DOMAIN roles : i # j /\ roles[i] = roles[j]

KnownRoles(rows) == \A i \in Indices(rows) : \A j \in DOMAIN rows[i].roles : rows[i].roles[j] \in Roles

\* Pasted rows: a code twice is refused, a role twice counts once.
ValidPaste(rows) ==
  /\ KnownRoles(rows)
  /\ \A i, j \in Indices(rows) : rows[i].code = rows[j].code => i = j

\* Imported rows: the last row of a code wins.  A role twice in a row passes
\* the validation and then fails on uq_employee_roles_organization_employee_role.
ValidEmployees(rows) ==
  /\ KnownRoles(rows)
  /\ \A i \in Indices(rows) : rows[i].cap \in Caps
  /\ \A i \in Indices(rows) : ~Repeats(rows[i].roles)

EmployeesEffect(d, rows, n) ==
  LET codes == {rows[i].code : i \in Indices(rows)}
      With(code) == {i \in Indices(rows) : rows[i].code = code}
      known == {code \in codes : ByCode(d, code) # {}}
      Id(code) == IF code \in known THEN TheId(ByCode(d, code))
                  ELSE NewId(n, Min(With(code)), 0)
      index(code) == Max(With(code))
      Values(code) == [code |-> code, active |-> TRUE, cap |-> rows[index(code)].cap]
      \* dict.fromkeys: the first of equal roles
      Kept(roles) == {j \in DOMAIN roles : \A k \in 1..(j - 1) : roles[k] # roles[j]}
      Skills(code) ==
        LET roles == rows[index(code)].roles IN
        {Row("skills", NewId(n, index(code), j), [employee |-> Id(code), role |-> roles[j]]) :
           j \in Kept(roles)}
  IN  [Nothing EXCEPT
         !.set = UNION {Changed(d, "employees", Id(code), Values(code)) : code \in known},
         !.replaces = {<<"employees", Id(code)>> : code \in known},
         !.add = {Row("employees", Id(code), Values(code)) : code \in codes \ known}
                 \cup UNION {Skills(code) : code \in codes}]

-----------------------------------------------------------------------------
(* Shift types, one row per requirement.                                   *)

ValidShape(shape) == shape.start # shape.end /\ shape.days # {} /\ shape.days \subseteq 0..6

Definition(row) == [name |-> row.name, shape |-> row.shape, active |-> row.active]

ValidTypes(rows) ==
  /\ \A i \in Indices(rows) :
       ValidShape(rows[i].shape) /\ rows[i].role \in Roles /\ rows[i].count \in 1..20
  /\ \A i, j \in Indices(rows) :
       rows[i].name = rows[j].name =>
         /\ Definition(rows[i]) = Definition(rows[j])
         /\ rows[i].role = rows[j].role => i = j

TypesEffect(d, rows, n) ==
  LET names == {rows[i].name : i \in Indices(rows)}
      Named(name) == {t \in DOMAIN d.types : d.types[t].name = name}
      known == {name \in names : Named(name) # {}}
      first(name) == Min({i \in Indices(rows) : rows[i].name = name})
      Id(name) == IF name \in known THEN TheId(Named(name)) ELSE NewId(n, first(name), 0)
      Posts(i) == Row("posts", NewId(n, i, 1),
                      [type |-> Id(rows[i].name), role |-> rows[i].role, count |-> rows[i].count])
  IN  [Nothing EXCEPT
         !.set = UNION {Changed(d, "types", Id(name), Definition(rows[first(name)])) : name \in known},
         !.replaces = {<<"types", Id(name)>> : name \in known},
         !.add = {Row("types", Id(name), Definition(rows[first(name)])) : name \in names \ known}
                 \cup {Posts(i) : i \in Indices(rows)}]

-----------------------------------------------------------------------------
(* Pairs, leaves and the policy.                                           *)

ValidPairs(d, rows) ==
  \A i \in Indices(rows) :
    ByCode(d, rows[i].a) # {} /\ ByCode(d, rows[i].b) # {} /\ rows[i].a # rows[i].b

\* PairConstraint.create
PairRow(a, b, kind, severity, active) ==
  [a |-> a, b |-> b, na |-> Lower(a, b), nb |-> Upper(a, b), kind |-> kind,
   severity |-> severity, active |-> active]

SamePair(p, q) == p.na = q.na /\ p.nb = q.nb /\ p.kind = q.kind

PairsEffect(d, rows, n) ==
  LET Id(code) == TheId(ByCode(d, code))
      Made(i) == PairRow(Id(rows[i].a), Id(rows[i].b), rows[i].kind, rows[i].severity, TRUE)
      Stored(i) == {p \in DOMAIN d.pairs : SamePair(d.pairs[p], Made(i))}
      firsts == {i \in Indices(rows) : \A k \in 1..(i - 1) : ~SamePair(Made(k), Made(i))}
      severity(i) ==
        rows[Max({k \in Indices(rows) : SamePair(Made(k), Made(i))})].severity
      new == {i \in firsts : Stored(i) = {}}
  IN  [Nothing EXCEPT
         !.set = UNION {Changed(d, "pairs", TheId(Stored(i)), [severity |-> severity(i), active |-> TRUE]) :
                          i \in firsts \ new},
         !.add = {Row("pairs", NewId(n, i, 0), [Made(i) EXCEPT !.severity = severity(i)]) : i \in new}]

ValidLeaves(d, rows) ==
  \A i \in Indices(rows) : ByCode(d, rows[i].code) # {} /\ rows[i].from < rows[i].to

LeaveRow(e, from, to, override, note) ==
  [employee |-> e, from |-> from, to |-> to, override |-> override, note |-> note]

\* The rows are inserted, whatever is there.
LeavesEffect(d, rows, n) ==
  [Nothing EXCEPT
     !.add = {Row("leaves", NewId(n, i, 0),
                  LeaveRow(TheId(ByCode(d, rows[i].code)), rows[i].from, rows[i].to,
                           rows[i].override, {})) : i \in Indices(rows)}]

\* POLICY_INTEGER_RANGES and DEFAULT_POLICY
PolicyRanges == [weekly |-> 1..31, rest |-> 0..48]
StandardPolicy == [weekly |-> 5, rest |-> 11]

ValidPolicyRows(rows) ==
  \A i \in Indices(rows) :
    rows[i].key \in DOMAIN PolicyRanges /\ rows[i].value \in PolicyRanges[rows[i].key]

StoredPolicy(d) == {d.policy[i] : i \in DOMAIN d.policy}

\* A new row, or the columns of the row whose values are new.
PolicyEffect(d, values, n) ==
  IF DOMAIN d.policy = {} THEN [Nothing EXCEPT !.add = {Row("policy", NewId(n, 0, 0), values)}]
  ELSE [Nothing EXCEPT !.set = Changed(d, "policy", TheId(DOMAIN d.policy), values)]

PolicyRowsEffect(d, rows, n) ==
  LET current == IF StoredPolicy(d) = {} THEN StandardPolicy ELSE TheId(StoredPolicy(d))
      Given(key) == {i \in Indices(rows) : rows[i].key = key}
      values == [key \in DOMAIN current |->
                   IF Given(key) = {} THEN current[key]
                   ELSE rows[Max(Given(key))].value]
  IN  PolicyEffect(d, values, n)

-----------------------------------------------------------------------------
(* _validate_rows and apply_import.                                        *)

ImportKinds == {"employees", "shift_types", "pair_constraints", "unavailabilities", "policy"}

ValidRows(d, kind, rows) ==
  /\ Len(rows) > 0
  /\ \/ kind = "employees" /\ ValidEmployees(rows)
     \/ kind = "shift_types" /\ ValidTypes(rows)
     \/ kind = "pair_constraints" /\ ValidPairs(d, rows)
     \/ kind = "unavailabilities" /\ ValidLeaves(d, rows)
     \/ kind = "policy" /\ ValidPolicyRows(rows)

ImportEffect(d, kind, rows, n) ==
  CASE kind = "employees" -> EmployeesEffect(d, rows, n)
    [] kind = "shift_types" -> TypesEffect(d, rows, n)
    [] kind = "pair_constraints" -> PairsEffect(d, rows, n)
    [] kind = "unavailabilities" -> LeavesEffect(d, rows, n)
    [] kind = "policy" -> PolicyRowsEffect(d, rows, n)

=============================================================================
