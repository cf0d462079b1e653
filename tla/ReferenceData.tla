------------------------------ MODULE ReferenceData ------------------------------
(***************************************************************************)
(* The reference data of one organization under concurrent requests: the   *)
(* handlers of api/routes/employees.py, shift_templates.py,                *)
(* pair_constraints.py, unavailabilities.py, policies.py, demand.py,       *)
(* imports.py, the requests and links of employee_self_service.py, and the creation of *)
(* schedule runs (schedule_runs.py), which stores a snapshot of it all.    *)
(*                                                                         *)
(* A handler reads and validates; then its UPDATEs and DELETEs take row    *)
(* locks, one transaction at a time; then its INSERTs meet the constraints *)
(* and it commits.  Isolation is READ COMMITTED: the three steps see what  *)
(* has been committed before each.  A handler that is refused changes      *)
(* nothing and is not shown.                                               *)
(***************************************************************************)
EXTENDS ReferenceImports, RunSnapshots

CONSTANTS
  Clients,      \* the users who send requests
  Member,       \* Member[c]: the role of c in the organization
  Agendas,      \* sets of requests, records with a field op: those sent in one behaviour
  Initial,      \* the tables to start from
  MaxCalls      \* bound on the requests that are begun

NoCall == [phase |-> "none"]

\* _linked_employee_ids
LinkedEmployees(d, user) ==
  {d.links[l].employee :
     l \in {k \in DOMAIN d.links : d.links[k].user = user /\ d.links[k].status = "linked"}}

\* A request has at most one leave of its own, and only if it was approved and
\* is for time away.
HasItsLeave(d, r) ==
  LET own == {l \in DOMAIN d.leaves : r \in d.leaves[l].note} IN
  /\ own \subseteq {d.requests[r].leave}
  /\ own # {} => /\ d.requests[r].status = "approved"
                 /\ d.requests[r].kind \in {"vacation", "unavailable"}

\* Tables to start from: what earlier requests may have left; no run yet.
Settled(d) ==
  /\ Shaped(d) /\ Unique(d) /\ Checked(d) /\ Refers(d)
  /\ \A t \in TableNames : DOMAIN d[t] \subseteq FirstIds
  /\ DOMAIN d.runs = {}
  /\ \A s \in Contents(d, "skills") \cup Contents(d, "posts") : s.role \in Roles
  /\ \A p \in Contents(d, "pairs") : p.na = Lower(p.a, p.b) /\ p.nb = Upper(p.a, p.b)
  /\ \A r \in Contents(d, "requests") \cup Contents(d, "leaves") : r.from \in Int
  /\ \A l \in Contents(d, "leaves") : l.note \subseteq DOMAIN d.requests
  /\ \A r \in DOMAIN d.requests : HasItsLeave(d, r)

\* The columns and types that the schemas of the request bodies ask for.
RowsWellFormed(kind, rows) ==
  /\ DOMAIN rows \subseteq 1..MaxRows
  /\ \A i \in DOMAIN rows :
       /\ kind = "employees" => /\ DOMAIN rows[i] = {"code", "roles", "cap"}
                                /\ DOMAIN rows[i].roles \subseteq 1..MaxRows
       /\ kind = "shift_types" => DOMAIN rows[i] = {"name", "shape", "active", "role", "count"}
       /\ kind = "unavailabilities" => rows[i].from \in Int

WellFormed(q) ==
  /\ q.op = "import" => RowsWellFormed(q.kind, q.rows)
  /\ q.op = "bulk_paste" => RowsWellFormed("employees", q.rows)
  /\ q.op = "update_employee" => RowsWellFormed("employees", <<q.row>>)
  /\ q.op \in {"create_shift_type", "update_shift_type"} => RowsWellFormed("shift_types", q.rows)
  /\ q.op \in {"create_leave", "update_leave", "submit"} => q.from \in Int
  /\ q.op = "put_policy" => DOMAIN q.values = ColumnsOf["policy"]
  /\ q.op = "create_driver" => DOMAIN q.values = ColumnsOf["drivers"]
  /\ q.op = "create_budget" => DOMAIN q.values = ColumnsOf["budgets"]

ASSUME ReferenceDataAssumption ==
  /\ MaxCalls \in Nat
  /\ None \notin Int
  /\ \A d \in Initial : Settled(d)
  /\ \A requests \in Agendas : \A q \in requests : WellFormed(q)

VARIABLES
  agenda,   \* the requests that are sent
  db,       \* the committed tables
  call,     \* call[c]: the request of c in progress
  calls,    \* how many requests have been begun
  asked,    \* history: the roles or requirements last asked for, by owner
  raced,    \* history: the rows that two requests were about at once
  answers   \* history: the answers to keys of runs that were there

vars == <<agenda, db, call, calls, asked, raced, answers>>

Owners(d) ==
  ({"employees"} \X DOMAIN d.employees) \cup ({"types"} \X DOMAIN d.types)

Init ==
  /\ agenda \in Agendas
  /\ db \in Initial
  /\ call = [c \in Clients |-> NoCall]
  /\ calls = 0
  /\ asked = [o \in Owners(db) |-> DetailsOf(db, o)]
  /\ raced = {}
  /\ answers = {}

-----------------------------------------------------------------------------
(* A transaction.                                                          *)

Working == {c \in Clients : call[c] # NoCall}
Written(effect) == {<<w.table, w.id>> : w \in effect.set} \cup effect.remove
About(effect) == Written(effect) \cup effect.replaces

\* require_roles(ADMIN_ROLES)
Administers(c) == Member[c] \in {"owner", "admin", "scheduler"}

Read(c, q, effect) ==
  /\ c \notin Working
  /\ calls < MaxCalls
  /\ calls' = calls + 1
  /\ call' = [call EXCEPT ![c] = [q |-> q, effect |-> effect, phase |-> "read", gone |-> {}]]
  /\ raced' = raced \cup (About(effect) \cap UNION {About(call[o].effect) : o \in Working})
  /\ UNCHANGED <<agenda, db, asked, answers>>

\* A row that another transaction has written is waited for.
Flush(c) ==
  /\ c \in Working
  /\ call[c].phase = "read"
  /\ \A o \in Working \ {c} :
       call[o].phase = "flushed" => Written(call[o].effect) \cap Written(call[c].effect) = {}
  /\ call' = [call EXCEPT
       ![c].phase = "flushed",
       ![c].gone = call[c].effect.remove
                   \cup UNION {Details(db, owner) : owner \in call[c].effect.replaces}]
  /\ UNCHANGED <<agenda, db, calls, asked, raced, answers>>

\* The roles or requirements that an effect gives an owner.
Given(effect, owner) ==
  IF owner[1] = "employees"
    THEN {r.values.role : r \in {k \in effect.add : k.table = "skills" /\ k.values.employee = owner[2]}}
    ELSE {[role |-> r.values.role, count |-> r.values.count] :
            r \in {k \in effect.add : k.table = "posts" /\ k.values.type = owner[2]}}

GivenTo(effect) ==
  effect.replaces
    \cup {<<r.table, r.id>> : r \in {k \in effect.add : k.table \in {"employees", "types"}}}

\* A constraint that fails rolls everything back.
Commit(c) ==
  /\ c \in Working
  /\ call[c].phase = "flushed"
  /\ LET effect == call[c].effect IN
     IF Accepts(db, effect, call[c].gone)
       THEN /\ db' = After(db, effect, call[c].gone)
            /\ asked' = [o \in DOMAIN asked \cup GivenTo(effect) |->
                           IF o \in GivenTo(effect) THEN Given(effect, o) ELSE asked[o]]
       ELSE UNCHANGED <<db, asked>>
  /\ call' = [call EXCEPT ![c] = NoCall]
  /\ UNCHANGED <<agenda, calls, raced, answers>>

\* The process dies, or the database ends the transaction.
Fail(c) ==
  /\ c \in Working
  /\ call' = [call EXCEPT ![c] = NoCall]
  /\ UNCHANGED <<agenda, db, calls, asked, raced, answers>>

-----------------------------------------------------------------------------
(* Employees.                                                              *)

BulkPasteEmployees(c, q) ==
  /\ Administers(c)
  /\ ValidPaste(q.rows)
  /\ Read(c, q, EmployeesEffect(db, q.rows, calls))

UpdateEmployee(c, q) ==
  /\ Administers(c)
  /\ q.id \in DOMAIN db.employees
  /\ ByCode(db, q.row.code) \subseteq {q.id}
  /\ KnownRoles(<<q.row>>)
  /\ Read(c, q,
       [EmployeesEffect(db, <<[q.row EXCEPT !.code = db.employees[q.id].code]>>, calls) EXCEPT
          !.set = Changed(db, "employees", q.id,
                    [code |-> q.row.code, active |-> q.active, cap |-> q.row.cap])])

DeactivateEmployee(c, q) ==
  /\ Administers(c)
  /\ q.id \in DOMAIN db.employees
  /\ Read(c, q, [Nothing EXCEPT !.set = Changed(db, "employees", q.id, [active |-> FALSE])])

-----------------------------------------------------------------------------
(* Shift types.  The requirements of a request are rows of the same name.  *)

TypesNamed(name) == {t \in DOMAIN db.types : db.types[t].name = name}

CreateShiftType(c, q) ==
  /\ Administers(c)
  /\ ValidTypes(q.rows)
  /\ TypesNamed(q.rows[1].name) = {}
  /\ Read(c, q, TypesEffect(db, q.rows, calls))

UpdateShiftType(c, q) ==
  /\ Administers(c)
  /\ q.id \in DOMAIN db.types
  /\ ValidTypes(q.rows)
  /\ TypesNamed(q.rows[1].name) \subseteq {q.id}
  /\ LET known == [i \in Indices(q.rows) |-> [q.rows[i] EXCEPT !.name = db.types[q.id].name]] IN
     Read(c, q, [TypesEffect(db, known, calls) EXCEPT
                   !.set = Changed(db, "types", q.id, Definition(q.rows[1]))])

DeactivateShiftType(c, q) ==
  /\ Administers(c)
  /\ q.id \in DOMAIN db.types
  /\ Read(c, q, [Nothing EXCEPT !.set = Changed(db, "types", q.id, [active |-> FALSE])])

-----------------------------------------------------------------------------
(* Pairs.                                                                  *)

PairOf(q) == PairRow(q.a, q.b, q.kind, q.severity, q.active)

PairAllowed(q, except) ==
  /\ q.a # q.b
  /\ {q.a, q.b} \subseteq DOMAIN db.employees
  /\ {p \in DOMAIN db.pairs : SamePair(db.pairs[p], PairOf(q))} \subseteq except

CreatePairConstraint(c, q) ==
  /\ Administers(c)
  /\ PairAllowed(q, {})
  /\ Read(c, q, [Nothing EXCEPT !.add = {Row("pairs", NewId(calls, 0, 0), PairOf(q))}])

\* A plausible slip: the normalized columns keep their values.
PairRewritten(d, id, q) ==
  Changed(d, "pairs", id, Restrict(PairOf(q), {"a", "b", "kind", "severity", "active"}))

PairUpdated(d, id, q) == Changed(d, "pairs", id, PairOf(q))

UpdatePairConstraint(c, q) ==
  /\ Administers(c)
  /\ q.id \in DOMAIN db.pairs
  /\ PairAllowed(q, {q.id})
  /\ Read(c, q, [Nothing EXCEPT !.set = PairUpdated(db, q.id, q)])

DeletePairConstraint(c, q) ==
  /\ Administers(c)
  /\ q.id \in DOMAIN db.pairs
  /\ Read(c, q, [Nothing EXCEPT !.remove = {<<"pairs", q.id>>}])

-----------------------------------------------------------------------------
(* Leaves.                                                                 *)

LeaveOf(q) == LeaveRow(q.employee, q.from, q.to, q.override, {})

CreateUnavailability(c, q) ==
  /\ Administers(c)
  /\ q.employee \in DOMAIN db.employees
  /\ q.from < q.to
  /\ Read(c, q, [Nothing EXCEPT !.add = {Row("leaves", NewId(calls, 0, 0), LeaveOf(q))}])

UpdateUnavailability(c, q) ==
  /\ Administers(c)
  /\ q.employee \in DOMAIN db.employees
  /\ q.from < q.to
  /\ \E id \in DOMAIN db.leaves :
       Read(c, q, [Nothing EXCEPT !.set = Changed(db, "leaves", id, LeaveOf(q))])

DeleteUnavailability(c, q) ==
  /\ Administers(c)
  /\ \E id \in DOMAIN db.leaves : Read(c, q, [Nothing EXCEPT !.remove = {<<"leaves", id>>}])

-----------------------------------------------------------------------------
(* The policy.  Who may only read is shown the defaults, and nothing is    *)
(* stored.  Demand and budgets.                                            *)

GetSchedulePolicy(c, q) ==
  /\ Administers(c)
  /\ StoredPolicy(db) = {}
  /\ Read(c, q, PolicyEffect(db, StandardPolicy, calls))

\* The page allows fewer shifts per week than an import.
UpdateSchedulePolicy(c, q) ==
  /\ Administers(c)
  /\ q.values.weekly \in 1..14
  /\ q.values.rest \in 0..48
  /\ Read(c, q, PolicyEffect(db, q.values, calls))

CreateDemandDriver(c, q) ==
  /\ Administers(c)
  /\ Read(c, q, [Nothing EXCEPT !.add = {Row("drivers", NewId(calls, 0, 0), q.values)}])

CreateLaborBudget(c, q) ==
  /\ Administers(c)
  /\ q.values.from <= q.values.to
  /\ Read(c, q, [Nothing EXCEPT !.add = {Row("budgets", NewId(calls, 0, 0), q.values)}])

ApplyImport(c, q) ==
  /\ Administers(c)
  /\ ValidRows(db, q.kind, q.rows)
  /\ Read(c, q, ImportEffect(db, q.kind, q.rows, calls))

-----------------------------------------------------------------------------
(* Employees' requests.                                                    *)

CreateEmployeeUserLink(c, q) ==
  /\ Administers(c)
  /\ q.employee \in DOMAIN db.employees
  /\ Read(c, q, [Nothing EXCEPT
       !.add = {Row("links", NewId(calls, 0, 0),
                    [employee |-> q.employee, user |-> q.user, status |-> q.status])}])

\* A plausible slip: an invitation is as good as a link.
MaySubmitWhenInvited(c, employee) ==
  \/ /\ Member[c] = "employee"
     /\ \E l \in DOMAIN db.links : db.links[l].user = c /\ db.links[l].employee = employee
  \/ Member[c] # "employee" /\ Administers(c)

MaySubmitFor(c, employee) ==
  \/ Member[c] = "employee" /\ employee \in LinkedEmployees(db, c)
  \/ Member[c] # "employee" /\ Administers(c)

\* An employee asks in their own name, an administrator in the name of the user
\* that the body gives, or of nobody; of that user only the existence is checked.
AskedBy(c, q) == IF Member[c] = "employee" THEN c ELSE q.by

CreateEmployeeRequest(c, q) ==
  /\ q.employee \in DOMAIN db.employees
  /\ MaySubmitFor(c, q.employee)
  /\ AskedBy(c, q) \in Clients \cup {None}
  /\ q.from < q.to
  /\ Read(c, q, [Nothing EXCEPT
       !.add = {Row("requests", NewId(calls, 0, 0),
                    [employee |-> q.employee, by |-> AskedBy(c, q), kind |-> q.kind,
                     from |-> q.from, to |-> q.to, status |-> "pending", leave |-> None])}])

\* A plausible slip: what has been decided can be decided again.
Decidable(id) == id \in DOMAIN db.requests

Pending(id) == id \in DOMAIN db.requests /\ db.requests[id].status = "pending"

\* The leave takes over the note of the request, for which its identifier stands.
ApproveEmployeeRequest(c, q) ==
  /\ Administers(c)
  /\ \E id \in DOMAIN db.requests :
       /\ Pending(id)
       /\ LET r == db.requests[id]
              leave == NewId(calls, 0, 0)
          IN  IF r.kind \in {"vacation", "unavailable"}
                THEN Read(c, q, [Nothing EXCEPT
                       !.set = Changed(db, "requests", id, [status |-> "approved", leave |-> leave]),
                       !.add = {Row("leaves", leave, LeaveRow(r.employee, r.from, r.to, FALSE, {id}))}])
                ELSE Read(c, q, [Nothing EXCEPT
                       !.set = Changed(db, "requests", id, [status |-> "approved"])])

RejectEmployeeRequest(c, q) ==
  /\ Administers(c)
  /\ \E id \in DOMAIN db.requests :
       /\ Pending(id)
       /\ Read(c, q, [Nothing EXCEPT !.set = Changed(db, "requests", id, [status |-> "rejected"])])

-----------------------------------------------------------------------------
(* Schedule runs.  The snapshot is read table by table before the key is   *)
(* looked up.  Committing the run and queueing it are in ScheduleRuns.     *)

CreateScheduleRun(c, q) ==
  /\ Administers(c)
  /\ c \notin Working
  /\ calls < MaxCalls
  /\ calls' = calls + 1
  /\ call' = [call EXCEPT ![c] = [q |-> q, effect |-> Nothing, phase |-> "reading", gone |-> {},
                                 seen |-> [t \in {} |-> 0], n |-> calls]]
  /\ UNCHANGED <<agenda, db, asked, raced, answers>>

TablesRead(c) == {SnapshotTables[n] : n \in 1..Cardinality(DOMAIN call[c].seen)}

ReadNextTable(c) ==
  /\ c \in Working
  /\ call[c].phase = "reading"
  /\ Cardinality(TablesRead(c)) < Len(SnapshotTables)
  /\ LET next == SnapshotTables[Cardinality(TablesRead(c)) + 1] IN
     call' = [call EXCEPT
       ![c].seen = [t \in TablesRead(c) \cup {next} |-> IF t = next THEN db[t] ELSE @[t]]]
  /\ UNCHANGED <<agenda, db, calls, asked, raced, answers>>

LookUpKey(c) ==
  /\ c \in Working
  /\ call[c].phase = "reading"
  /\ Cardinality(TablesRead(c)) = Len(SnapshotTables)
  /\ LET key == call[c].q.key
         existing == {r \in DOMAIN db.runs : key # None /\ db.runs[r].key = key}
     IN  \E snapshot \in Snapshots(call[c].seen, call[c].q.period) :
           \/ /\ existing = {}
              /\ call' = [call EXCEPT ![c] =
                   [q |-> call[c].q, phase |-> "read", gone |-> {},
                    effect |-> [Nothing EXCEPT
                      !.add = {Row("runs", NewId(call[c].n, 0, 0), RunRow(key, snapshot))}]]]
              /\ UNCHANGED answers
           \/ /\ existing # {}
              /\ call' = [call EXCEPT ![c] = NoCall]
              /\ answers' = answers \cup
                   {[run |-> r, snapshot |-> snapshot, accepted |-> db.runs[r].snapshot = snapshot] :
                      r \in existing}
  /\ UNCHANGED <<agenda, db, calls, asked, raced>>

-----------------------------------------------------------------------------
Handle(c, q) ==
  \/ q.op = "bulk_paste" /\ BulkPasteEmployees(c, q)
  \/ q.op = "update_employee" /\ UpdateEmployee(c, q)
  \/ q.op = "deactivate_employee" /\ DeactivateEmployee(c, q)
  \/ q.op = "create_shift_type" /\ CreateShiftType(c, q)
  \/ q.op = "update_shift_type" /\ UpdateShiftType(c, q)
  \/ q.op = "deactivate_shift_type" /\ DeactivateShiftType(c, q)
  \/ q.op = "create_pair" /\ CreatePairConstraint(c, q)
  \/ q.op = "update_pair" /\ UpdatePairConstraint(c, q)
  \/ q.op = "delete_pair" /\ DeletePairConstraint(c, q)
  \/ q.op = "create_leave" /\ CreateUnavailability(c, q)
  \/ q.op = "update_leave" /\ UpdateUnavailability(c, q)
  \/ q.op = "delete_leave" /\ DeleteUnavailability(c, q)
  \/ q.op = "get_policy" /\ GetSchedulePolicy(c, q)
  \/ q.op = "put_policy" /\ UpdateSchedulePolicy(c, q)
  \/ q.op = "create_driver" /\ CreateDemandDriver(c, q)
  \/ q.op = "create_budget" /\ CreateLaborBudget(c, q)
  \/ q.op = "import" /\ ApplyImport(c, q)
  \/ q.op = "link" /\ CreateEmployeeUserLink(c, q)
  \/ q.op = "submit" /\ CreateEmployeeRequest(c, q)
  \/ q.op = "approve" /\ ApproveEmployeeRequest(c, q)
  \/ q.op = "reject" /\ RejectEmployeeRequest(c, q)
  \/ q.op = "create_run" /\ CreateScheduleRun(c, q)

Next ==
  \E c \in Clients :
    \/ \E q \in agenda : Handle(c, q)
    \/ ReadNextTable(c)
    \/ LookUpKey(c)
    \/ Flush(c)
    \/ Commit(c)
    \/ Fail(c)

Spec == Init /\ [][Next]_vars

-----------------------------------------------------------------------------
(* Properties.                                                             *)

\* The rows refer to each other, and the tables keep to their constraints
\* (models.py:82-625), whatever requests are in progress.
TypeOK ==
  /\ Shaped(db)
  /\ Unique(db) /\ Checked(db) /\ Refers(db)
  /\ \A s \in Contents(db, "skills") \cup Contents(db, "posts") : s.role \in Roles

\* An employee has the roles, and a shift type the requirements, that the last
\* request for them asked for, whichever page or import it came from, unless two
\* requests replaced them at once (xlsx-import-contract.md: an import replaces).
ReplacedAsAsked == \A o \in DOMAIN asked \ raced : DetailsOf(db, o) = asked[o]

\* The normalized columns, which the solver goes by, are the pair that the page
\* shows, unless two requests changed the pair at once.
PairsNormalized ==
  \A p \in DOMAIN db.pairs :
    <<"pairs", p>> \notin raced =>
      /\ db.pairs[p].na = Lower(db.pairs[p].a, db.pairs[p].b)
      /\ db.pairs[p].nb = Upper(db.pairs[p].a, db.pairs[p].b)

\* A request has at most one leave of its own, and only if it was approved and
\* is for time away, unless two managers decided on it at once.
RequestHasItsLeave ==
  \A r \in DOMAIN db.requests : <<"requests", r>> \notin raced => HasItsLeave(db, r)

\* An import that is applied a second time changes nothing, leaves excepted,
\* which it adds again (xlsx-import-contract.md).
ImportTwiceIsOnce ==
  Working = {} => \A q \in {k \in agenda : k.op = "import"} :
    LET Effect(d, n) == ImportEffect(d, q.kind, q.rows, n)
        Gone(d, n) == UNION {Details(d, o) : o \in Effect(d, n).replaces}
        Result(d, n) == After(d, Effect(d, n), Gone(d, n))
        once == Result(db, MaxCalls)
        twice == Result(once, MaxCalls + 1)
    IN  ValidRows(db, q.kind, q.rows) /\ Unique(once) =>
          /\ ValidRows(once, q.kind, q.rows)
          /\ Unique(twice)
          /\ q.kind # "unavailabilities" =>
               \A t \in TableNames : Contents(twice, t) = Contents(once, t)

\* An import of policy rows changes the keys of its rows and no other, although
\* it saves all of them and another administrator may have saved since it read.
ImportTouchesItsKeys ==
  [][\A c \in Working :
       LET q == call[c].q IN
       call'[c] = NoCall /\ q.op = "import" /\ q.kind = "policy" =>
         \A p \in StoredPolicy(db), new \in StoredPolicy(db') :
           \A key \in DOMAIN p :
             (\A i \in DOMAIN q.rows : q.rows[i].key # key) => new[key] = p[key]]_vars

\* What an employee's transaction leaves behind is, at most, a pending request in
\* their own name for an employee they are linked to; every row that was there
\* keeps all its columns, whatever was committed since the link was looked up.
EmployeesOnlyAsk ==
  [][\A c \in Working :
       Member[c] = "employee" /\ call'[c] = NoCall =>
         \A t \in TableNames :
           /\ \A i \in DOMAIN db[t] :
                /\ i \in DOMAIN db'[t]
                /\ \A column \in DOMAIN db[t][i] : db'[t][i][column] = db[t][i][column]
           /\ \A i \in DOMAIN db'[t] \ DOMAIN db[t] :
                /\ t = "requests"
                /\ db'[t][i].by = c
                /\ db'[t][i].status = "pending" /\ db'[t][i].leave = None
                /\ db'[t][i].employee \in LinkedEmployees(db', c)]_vars

\* A snapshot without the order of its lists, and whether leaves of one employee
\* begin together, so that the order of its lists is not determined.
Counted(list) == [x \in Range(list) |-> Cardinality({n \in DOMAIN list : list[n] = x})]
Unordered(s) ==
  [field \in DOMAIN s |-> IF field \in {"leaves", "pairs"} THEN Counted(s[field]) ELSE s[field]]
Tied(s) ==
  \/ \E m, n \in DOMAIN s.leaves :
       /\ m # n
       /\ s.leaves[m].employee = s.leaves[n].employee
       /\ s.leaves[m].from = s.leaves[n].from
  \/ \E m, n \in DOMAIN s.pairs :
       m # n /\ s.pairs[m].a = s.pairs[n].a /\ s.pairs[m].b = s.pairs[n].b

\* A key that comes again is answered with its run exactly if the run would have
\* the same input: nobody gets a run of other data, and a retry is refused only
\* after a change, unless two leaves or pairs tie (schedule_runs.py:392-410).
RetriesAnswered ==
  \A a \in answers :
    LET made == db.runs[a.run].snapshot IN
    /\ a.accepted => Unordered(a.snapshot) = Unordered(made)
    /\ ~a.accepted => Unordered(a.snapshot) # Unordered(made) \/ Tied(made)

=============================================================================
