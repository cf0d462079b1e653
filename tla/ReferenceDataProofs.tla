--------------------------- MODULE ReferenceDataProofs ---------------------------
(***************************************************************************)
(* Proofs about ReferenceData: what the effect of every handler leaves     *)
(* alone, and what follows for pairs and for what employees may change.     *)
(***************************************************************************)
EXTENDS ReferenceData, TLAPS

-----------------------------------------------------------------------------
(* Effects.                                                                *)

Normal(p) == p.na = Lower(p.a, p.b) /\ p.nb = Upper(p.a, p.b)

\* No handler changes links or runs, nor who asked for a request and for whom.
Modest(effect) ==
  /\ \A w \in effect.set :
       /\ w.table \notin {"links", "runs"}
       /\ w.table = "requests" => DOMAIN w.new \subseteq {"status", "leave"}
  /\ \A x \in effect.remove : x[1] \in {"pairs", "leaves"}

AddsWell(effect) ==
  \A r \in effect.add :
    /\ r.table \in {"requests", "links", "runs", "pairs"} => DOMAIN r.values = ColumnsOf[r.table]
    /\ r.table = "pairs" => Normal(r.values)

Overlay(row, new) ==
  [column \in DOMAIN row |-> IF column \in DOMAIN new THEN new[column] ELSE row[column]]

\* The columns of a pair stay, or they are written together.
WritesPair(d, effect, w) ==
  /\ w.id \in DOMAIN d.pairs
  /\ \/ DOMAIN w.new \cap {"a", "b", "na", "nb"} = {}
     \/ effect.set = {w} /\ Normal(Overlay(d.pairs[w.id], w.new))

Good(d, effect) ==
  /\ Modest(effect)
  /\ AddsWell(effect)
  /\ \A w \in effect.set : w.table = "pairs" => WritesPair(d, effect, w)

LEMMA NothingIsGood == ASSUME NEW d PROVE Good(d, Nothing)
BY DEF Good, Modest, AddsWell, Nothing

LEMMA ChangedFacts ==
  ASSUME NEW d, NEW t, NEW i, NEW new, NEW w \in Changed(d, t, i, new)
  PROVE  /\ w.table = t /\ w.id = i
         /\ Changed(d, t, i, new) = {w}
         /\ DOMAIN w.new \subseteq DOMAIN new
         /\ \A column \in DOMAIN new :
              IF column \in DOMAIN w.new THEN w.new[column] = new[column]
              ELSE new[column] = d[t][i][column]
<1> DEFINE differ == {column \in DOMAIN new : new[column] # d[t][i][column]}
<1>1. Changed(d, t, i, new) = {[table |-> t, id |-> i, new |-> [x \in differ |-> new[x]]]}
  BY DEF Changed, Columns, Restrict
<1>2. w = [table |-> t, id |-> i, new |-> [x \in differ |-> new[x]]]
  BY <1>1
<1>3. QED
  BY <1>1, <1>2

\* An effect on rows that no lemma below is about.
LEMMA ElsewhereIsGood ==
  ASSUME NEW d, NEW sets, NEW replaces, NEW adds,
         \A w \in sets : w.table \in {"employees", "types", "policy", "leaves"},
         \A r \in adds : r.table \notin {"requests", "links", "runs", "pairs"}
  PROVE  Good(d, [set |-> sets, remove |-> {}, replaces |-> replaces, add |-> adds])
BY DEF Good, Modest, AddsWell

LEMMA OneRowIsGood ==
  ASSUME NEW d, NEW t \in {"employees", "types", "policy", "leaves"}, NEW i, NEW new
  PROVE  Good(d, [Nothing EXCEPT !.set = Changed(d, t, i, new)])
<1>1. [Nothing EXCEPT !.set = Changed(d, t, i, new)] =
        [set |-> Changed(d, t, i, new), remove |-> {}, replaces |-> {}, add |-> {}]
  BY DEF Nothing
<1>2. QED
  BY <1>1, ChangedFacts, ElsewhereIsGood

LEMMA AddingIsGood ==
  ASSUME NEW d, NEW adds,
         \A r \in adds : r.table \notin {"requests", "links", "runs", "pairs"}
  PROVE  Good(d, [Nothing EXCEPT !.add = adds])
<1>1. [Nothing EXCEPT !.add = adds] = [set |-> {}, remove |-> {}, replaces |-> {}, add |-> adds]
  BY DEF Nothing
<1>2. QED
  BY <1>1, ElsewhereIsGood

\* An effect on pairs.
LEMMA PairsAreGood ==
  ASSUME NEW d, NEW sets, NEW remove, NEW adds, NEW effect,
         effect = [set |-> sets, remove |-> remove, replaces |-> {}, add |-> adds],
         \A w \in sets : w.table = "pairs" /\ WritesPair(d, effect, w),
         \A x \in remove : x[1] = "pairs",
         \A r \in adds : /\ r.table = "pairs"
                         /\ DOMAIN r.values = ColumnsOf["pairs"]
                         /\ Normal(r.values)
  PROVE  Good(d, effect)
<1>1. effect.set = sets /\ effect.remove = remove /\ effect.add = adds
  OBVIOUS
<1>2. QED
  BY <1>1 DEF Good, Modest, AddsWell

LEMMA EmployeesIsGood ==
  ASSUME NEW d, NEW rows, NEW n
  PROVE  /\ Good(d, EmployeesEffect(d, rows, n))
         /\ \A set : (\A w \in set : w.table = "employees") =>
              Good(d, [EmployeesEffect(d, rows, n) EXCEPT !.set = set])
<1> DEFINE codes == {rows[i].code : i \in Indices(rows)}
           With(code) == {i \in Indices(rows) : rows[i].code = code}
           known == {code \in codes : ByCode(d, code) # {}}
           Id(code) == IF code \in known THEN TheId(ByCode(d, code))
                       ELSE NewId(n, Min(With(code)), 0)
           index(code) == Max(With(code))
           Values(code) == [code |-> code, active |-> TRUE, cap |-> rows[index(code)].cap]
           Kept(roles) == {j \in DOMAIN roles : \A k \in 1..(j - 1) : roles[k] # roles[j]}
           Skills(code) ==
             LET roles == rows[index(code)].roles IN
             {Row("skills", NewId(n, index(code), j), [employee |-> Id(code), role |-> roles[j]]) :
                j \in Kept(roles)}
           sets == UNION {Changed(d, "employees", Id(code), Values(code)) : code \in known}
           replaces == {<<"employees", Id(code)>> : code \in known}
           adds == {Row("employees", Id(code), Values(code)) : code \in codes \ known}
                   \cup UNION {Skills(code) : code \in codes}
<1>1. EmployeesEffect(d, rows, n) =
        [Nothing EXCEPT !.set = sets, !.replaces = replaces, !.add = adds]
  BY DEF EmployeesEffect
<1> HIDE DEF Id, Values, Kept, index, With, known, codes
<1>2. \A w \in sets : w.table = "employees"
  BY ChangedFacts
<1>3. \A r \in adds : r.table \in {"employees", "skills"}
  BY DEF Row
<1> HIDE DEF sets, replaces, adds
<1>4. EmployeesEffect(d, rows, n) = [set |-> sets, remove |-> {}, replaces |-> replaces, add |-> adds]
  BY <1>1 DEF Nothing
<1>5. \A set : [EmployeesEffect(d, rows, n) EXCEPT !.set = set] =
                [set |-> set, remove |-> {}, replaces |-> replaces, add |-> adds]
  BY <1>4
<1>6. QED
  BY <1>2, <1>3, <1>4, <1>5, ElsewhereIsGood

LEMMA TypesIsGood ==
  ASSUME NEW d, NEW rows, NEW n
  PROVE  /\ Good(d, TypesEffect(d, rows, n))
         /\ \A set : (\A w \in set : w.table = "types") =>
              Good(d, [TypesEffect(d, rows, n) EXCEPT !.set = set])
<1> DEFINE names == {rows[i].name : i \in Indices(rows)}
           Named(name) == {t \in DOMAIN d.types : d.types[t].name = name}
           known == {name \in names : Named(name) # {}}
           first(name) == Min({i \in Indices(rows) : rows[i].name = name})
           Id(name) == IF name \in known THEN TheId(Named(name)) ELSE NewId(n, first(name), 0)
           Posts(i) == Row("posts", NewId(n, i, 1),
                           [type |-> Id(rows[i].name), role |-> rows[i].role,
                            count |-> rows[i].count])
           sets == UNION {Changed(d, "types", Id(name), Definition(rows[first(name)])) : name \in known}
           replaces == {<<"types", Id(name)>> : name \in known}
           adds == {Row("types", Id(name), Definition(rows[first(name)])) : name \in names \ known}
                   \cup {Posts(i) : i \in Indices(rows)}
<1>1. TypesEffect(d, rows, n) =
        [Nothing EXCEPT !.set = sets, !.replaces = replaces, !.add = adds]
  BY DEF TypesEffect
<1> HIDE DEF Id, first, Named, known, names
<1>2. \A w \in sets : w.table = "types"
  BY ChangedFacts
<1>3. \A r \in adds : r.table \in {"types", "posts"}
  BY DEF Row
<1> HIDE DEF sets, replaces, adds
<1>4. TypesEffect(d, rows, n) = [set |-> sets, remove |-> {}, replaces |-> replaces, add |-> adds]
  BY <1>1 DEF Nothing
<1>5. \A set : [TypesEffect(d, rows, n) EXCEPT !.set = set] =
                [set |-> set, remove |-> {}, replaces |-> replaces, add |-> adds]
  BY <1>4
<1>6. QED
  BY <1>2, <1>3, <1>4, <1>5, ElsewhereIsGood

LEMMA PairRowNormal ==
  ASSUME NEW a, NEW b, NEW kind, NEW severity, NEW active
  PROVE  /\ Normal(PairRow(a, b, kind, severity, active))
         /\ DOMAIN PairRow(a, b, kind, severity, active) = ColumnsOf["pairs"]
BY DEF PairRow, Normal, ColumnsOf

\* The row of one pair is written whole.
LEMMA PairWriteIsGood ==
  ASSUME NEW d, NEW i \in DOMAIN d.pairs, DOMAIN d.pairs[i] = ColumnsOf["pairs"], NEW q
  PROVE  Good(d, [Nothing EXCEPT !.set = PairUpdated(d, i, q)])
<1> DEFINE sets == PairUpdated(d, i, q)
<1>1. [Nothing EXCEPT !.set = sets] = [set |-> sets, remove |-> {}, replaces |-> {}, add |-> {}]
  BY DEF Nothing
<1>2. ASSUME NEW w \in sets
      PROVE  /\ w.table = "pairs"
             /\ WritesPair(d, [set |-> sets, remove |-> {}, replaces |-> {}, add |-> {}], w)
  <2>1. /\ w.table = "pairs" /\ w.id = i
        /\ sets = {w}
        /\ \A column \in DOMAIN PairOf(q) :
              IF column \in DOMAIN w.new THEN w.new[column] = PairOf(q)[column]
              ELSE PairOf(q)[column] = d["pairs"][i][column]
    BY <1>2, ChangedFacts DEF PairUpdated
  <2>2. DOMAIN PairOf(q) = ColumnsOf["pairs"] /\ Normal(PairOf(q))
    BY PairRowNormal DEF PairOf
  <2>3. \A column \in ColumnsOf["pairs"] :
          Overlay(d.pairs[i], w.new)[column] = PairOf(q)[column]
    BY <2>1, <2>2 DEF Overlay
  <2>4. {"a", "b", "na", "nb"} \subseteq ColumnsOf["pairs"]
    BY DEF ColumnsOf
  <2>5. Normal(Overlay(d.pairs[i], w.new))
    BY <2>2, <2>3, <2>4 DEF Normal
  <2>6. QED
    BY <2>1, <2>5 DEF WritesPair
<1> HIDE DEF sets
<1> DEFINE effect == [set |-> sets, remove |-> {}, replaces |-> {}, add |-> {}]
<1>3. \A w \in sets : w.table = "pairs" /\ WritesPair(d, effect, w)
  BY <1>2
<1>4. Good(d, effect)
  BY <1>3, PairsAreGood
<1>5. QED
  BY <1>1, <1>4 DEF sets

LEMMA PairsImportIsGood ==
  ASSUME NEW d, NEW rows, NEW n
  PROVE  Good(d, PairsEffect(d, rows, n))
<1> DEFINE Id(code) == TheId(ByCode(d, code))
           Made(i) == PairRow(Id(rows[i].a), Id(rows[i].b), rows[i].kind, rows[i].severity, TRUE)
           Stored(i) == {p \in DOMAIN d.pairs : SamePair(d.pairs[p], Made(i))}
           firsts == {i \in Indices(rows) : \A k \in 1..(i - 1) : ~SamePair(Made(k), Made(i))}
           severity(i) ==
             rows[Max({k \in Indices(rows) : SamePair(Made(k), Made(i))})].severity
           new == {i \in firsts : Stored(i) = {}}
           Values(i) == [severity |-> severity(i), active |-> TRUE]
           sets == UNION {Changed(d, "pairs", TheId(Stored(i)), Values(i)) : i \in firsts \ new}
           adds == {Row("pairs", NewId(n, i, 0), [Made(i) EXCEPT !.severity = severity(i)]) :
                      i \in new}
<1>1. PairsEffect(d, rows, n) = [Nothing EXCEPT !.set = sets, !.add = adds]
  BY DEF PairsEffect
<1>2. PairsEffect(d, rows, n) = [set |-> sets, remove |-> {}, replaces |-> {}, add |-> adds]
  <2> HIDE DEF sets, adds
  <2>1. QED
    BY <1>1 DEF Nothing
<1>3. ASSUME NEW r \in adds
      PROVE  /\ r.table = "pairs"
             /\ DOMAIN r.values = ColumnsOf["pairs"]
             /\ Normal(r.values)
  <2>1. PICK i \in new :
          r = Row("pairs", NewId(n, i, 0), [Made(i) EXCEPT !.severity = severity(i)])
    BY <1>3
  <2> HIDE DEF severity, Id, new
  <2>2. r.table = "pairs" /\ r.values = [Made(i) EXCEPT !.severity = severity(i)]
    BY <2>1 DEF Row
  <2>3. r.values = PairRow(Id(rows[i].a), Id(rows[i].b), rows[i].kind, severity(i), TRUE)
    BY <2>2 DEF PairRow
  <2> DEFINE first == Id(rows[i].a)
             second == Id(rows[i].b)
             kind == rows[i].kind
             worst == severity(i)
             active == TRUE
  <2>4. r.values = PairRow(first, second, kind, worst, active)
    BY <2>3
  <2> HIDE DEF first, second, kind, worst, active
  <2>5. Normal(r.values) /\ DOMAIN r.values = ColumnsOf["pairs"]
    BY <2>4, PairRowNormal
  <2>6. QED
    BY <2>2, <2>5
<1>4. ASSUME NEW w \in sets
      PROVE  /\ w.table = "pairs"
             /\ w.id \in DOMAIN d.pairs
             /\ DOMAIN w.new \subseteq {"severity", "active"}
  <2>1. PICK i \in firsts \ new : w \in Changed(d, "pairs", TheId(Stored(i)), Values(i))
    BY <1>4
  <2>2. TheId(Stored(i)) \in DOMAIN d.pairs
    <3>1. Stored(i) # {}
      BY <2>1
    <3>2. TheId(Stored(i)) \in Stored(i)
      <4> HIDE DEF Stored
      <4>1. QED
        BY <3>1 DEF TheId
    <3>3. QED
      BY <3>2
  <2> HIDE DEF severity, Stored, firsts, new
  <2>3. w.table = "pairs" /\ w.id = TheId(Stored(i)) /\ DOMAIN w.new \subseteq DOMAIN Values(i)
    <3> HIDE DEF Values
    <3>1. QED
      BY <2>1, ChangedFacts
  <2>4. QED
    BY <2>2, <2>3
<1> HIDE DEF sets, adds
<1>5. QED
  <2> DEFINE effect == [set |-> sets, remove |-> {}, replaces |-> {}, add |-> adds]
  <2>1. \A w \in sets : w.table = "pairs" /\ WritesPair(d, effect, w)
    BY <1>4 DEF WritesPair
  <2>2. QED
    BY <1>2, <1>3, <2>1, PairsAreGood

LEMMA PolicyIsGood ==
  ASSUME NEW d, NEW values, NEW n
  PROVE  Good(d, PolicyEffect(d, values, n))
<1>1. CASE DOMAIN d.policy = {}
  BY <1>1, AddingIsGood DEF PolicyEffect, Row
<1>2. CASE DOMAIN d.policy # {}
  BY <1>2, OneRowIsGood DEF PolicyEffect
<1>3. QED
  BY <1>1, <1>2

LEMMA LeavesIsGood ==
  ASSUME NEW d, NEW rows, NEW n
  PROVE  Good(d, LeavesEffect(d, rows, n))
<1> DEFINE adds ==
      {Row("leaves", NewId(n, i, 0),
           LeaveRow(TheId(ByCode(d, rows[i].code)), rows[i].from, rows[i].to,
                    rows[i].override, {})) : i \in Indices(rows)}
<1>1. LeavesEffect(d, rows, n) = [Nothing EXCEPT !.add = adds]
  BY DEF LeavesEffect
<1>2. \A r \in adds : r.table = "leaves"
  BY DEF Row
<1> HIDE DEF adds
<1>3. QED
  BY <1>1, <1>2, AddingIsGood

LEMMA ImportIsGood ==
  ASSUME NEW d, NEW kind, NEW rows, NEW n, ValidRows(d, kind, rows)
  PROVE  Good(d, ImportEffect(d, kind, rows, n))
<1>1. CASE kind = "employees"
  BY <1>1, EmployeesIsGood DEF ImportEffect
<1>2. CASE kind = "shift_types"
  BY <1>2, TypesIsGood DEF ImportEffect
<1>3. CASE kind = "pair_constraints"
  BY <1>3, PairsImportIsGood DEF ImportEffect
<1>4. CASE kind = "unavailabilities"
  BY <1>4, LeavesIsGood DEF ImportEffect
<1>5. CASE kind = "policy"
  BY <1>5, PolicyIsGood DEF ImportEffect, PolicyRowsEffect
<1>6. QED
  BY <1>1, <1>2, <1>3, <1>4, <1>5 DEF ValidRows

-----------------------------------------------------------------------------
(* Handlers.                                                               *)

Shapes(d) ==
  \A t \in {"requests", "links", "runs", "pairs"} :
    \A i \in DOMAIN d[t] : DOMAIN d[t][i] = ColumnsOf[t]

ReadsWell(c, q) == \E effect : Read(c, q, effect) /\ Good(db, effect)

LEMMA PairHandlersReadWell ==
  ASSUME Shapes(db), NEW c \in Clients, NEW q,
         \/ CreatePairConstraint(c, q)
         \/ UpdatePairConstraint(c, q)
         \/ DeletePairConstraint(c, q)
  PROVE  ReadsWell(c, q)
<1>1. CASE CreatePairConstraint(c, q)
  <2> DEFINE row == Row("pairs", NewId(calls, 0, 0), PairOf(q))
             effect == [set |-> {}, remove |-> {}, replaces |-> {}, add |-> {row}]
  <2>1. effect = [Nothing EXCEPT !.add = {row}]
    BY DEF Nothing
  <2>2. row.table = "pairs" /\ DOMAIN row.values = ColumnsOf["pairs"] /\ Normal(row.values)
    BY PairRowNormal DEF Row, PairOf
  <2>3. Read(c, q, effect)
    BY <1>1, <2>1 DEF CreatePairConstraint
  <2> HIDE DEF row
  <2>4. Good(db, effect)
    BY <2>2, PairsAreGood
  <2>5. QED
    BY <2>3, <2>4 DEF ReadsWell
<1>2. CASE UpdatePairConstraint(c, q)
  <2>1. q.id \in DOMAIN db.pairs /\ DOMAIN db.pairs[q.id] = ColumnsOf["pairs"]
    BY <1>2 DEF UpdatePairConstraint, Shapes
  <2>2. Good(db, [Nothing EXCEPT !.set = PairUpdated(db, q.id, q)])
    BY <2>1, PairWriteIsGood
  <2>3. QED
    BY <1>2, <2>2 DEF UpdatePairConstraint, ReadsWell
<1>3. CASE DeletePairConstraint(c, q)
  <2> DEFINE effect == [set |-> {}, remove |-> {<<"pairs", q.id>>}, replaces |-> {}, add |-> {}]
  <2>1. effect = [Nothing EXCEPT !.remove = {<<"pairs", q.id>>}]
    BY DEF Nothing
  <2>2. Read(c, q, effect)
    BY <1>3, <2>1 DEF DeletePairConstraint
  <2>3. Good(db, effect)
    BY PairsAreGood
  <2>4. QED
    BY <2>2, <2>3 DEF ReadsWell
<1>4. QED
  BY <1>1, <1>2, <1>3

LEMMA LeaveHandlersReadWell ==
  ASSUME NEW c \in Clients, NEW q,
         \/ CreateUnavailability(c, q)
         \/ UpdateUnavailability(c, q)
         \/ DeleteUnavailability(c, q)
  PROVE  ReadsWell(c, q)
<1>1. CASE CreateUnavailability(c, q)
  <2> DEFINE row == Row("leaves", NewId(calls, 0, 0), LeaveOf(q))
  <2>1. Read(c, q, [Nothing EXCEPT !.add = {row}])
    BY <1>1 DEF CreateUnavailability
  <2>2. row.table = "leaves"
    BY DEF Row
  <2> HIDE DEF row
  <2>3. QED
    BY <2>1, <2>2, AddingIsGood DEF ReadsWell
<1>2. CASE UpdateUnavailability(c, q)
  BY <1>2, OneRowIsGood DEF UpdateUnavailability, ReadsWell
<1>3. CASE DeleteUnavailability(c, q)
  <2>1. PICK id \in DOMAIN db.leaves : Read(c, q, [Nothing EXCEPT !.remove = {<<"leaves", id>>}])
    BY <1>3 DEF DeleteUnavailability
  <2> DEFINE effect == [set |-> {}, remove |-> {<<"leaves", id>>}, replaces |-> {}, add |-> {}]
  <2>2. effect = [Nothing EXCEPT !.remove = {<<"leaves", id>>}]
    BY DEF Nothing
  <2>3. Good(db, effect)
    BY DEF Good, Modest, AddsWell
  <2>4. QED
    BY <2>1, <2>2, <2>3 DEF ReadsWell
<1>4. QED
  BY <1>1, <1>2, <1>3

LEMMA RowHandlersReadWell ==
  ASSUME NEW c \in Clients, NEW q,
         \/ BulkPasteEmployees(c, q)
         \/ UpdateEmployee(c, q)
         \/ DeactivateEmployee(c, q)
         \/ CreateShiftType(c, q)
         \/ UpdateShiftType(c, q)
         \/ DeactivateShiftType(c, q)
         \/ GetSchedulePolicy(c, q)
         \/ UpdateSchedulePolicy(c, q)
         \/ CreateDemandDriver(c, q)
         \/ CreateLaborBudget(c, q)
         \/ ApplyImport(c, q)
  PROVE  ReadsWell(c, q)
<1>1. CASE BulkPasteEmployees(c, q)
  BY <1>1, EmployeesIsGood DEF BulkPasteEmployees, ReadsWell
<1>2. CASE UpdateEmployee(c, q)
  <2> DEFINE rows == <<[q.row EXCEPT !.code = db.employees[q.id].code]>>
             new == [code |-> q.row.code, active |-> q.active, cap |-> q.row.cap]
             sets == Changed(db, "employees", q.id, new)
  <2>1. Read(c, q, [EmployeesEffect(db, rows, calls) EXCEPT !.set = sets])
    BY <1>2 DEF UpdateEmployee
  <2> HIDE DEF rows, new
  <2>2. \A w \in sets : w.table = "employees"
    BY ChangedFacts
  <2> HIDE DEF sets
  <2>3. QED
    BY <2>1, <2>2, EmployeesIsGood DEF ReadsWell
<1>3. CASE DeactivateEmployee(c, q)
  BY <1>3, OneRowIsGood DEF DeactivateEmployee, ReadsWell
<1>4. CASE CreateShiftType(c, q)
  BY <1>4, TypesIsGood DEF CreateShiftType, ReadsWell
<1>5. CASE UpdateShiftType(c, q)
  <2> DEFINE rows == [i \in Indices(q.rows) |-> [q.rows[i] EXCEPT !.name = db.types[q.id].name]]
             sets == Changed(db, "types", q.id, Definition(q.rows[1]))
  <2>1. Read(c, q, [TypesEffect(db, rows, calls) EXCEPT !.set = sets])
    BY <1>5 DEF UpdateShiftType
  <2> HIDE DEF rows
  <2>2. \A w \in sets : w.table = "types"
    BY ChangedFacts
  <2> HIDE DEF sets
  <2>3. QED
    BY <2>1, <2>2, TypesIsGood DEF ReadsWell
<1>6. CASE DeactivateShiftType(c, q)
  BY <1>6, OneRowIsGood DEF DeactivateShiftType, ReadsWell
<1>7. CASE GetSchedulePolicy(c, q) \/ UpdateSchedulePolicy(c, q)
  BY <1>7, PolicyIsGood DEF GetSchedulePolicy, UpdateSchedulePolicy, ReadsWell
<1>8. CASE CreateDemandDriver(c, q) \/ CreateLaborBudget(c, q)
  <2>1. PICK t \in {"drivers", "budgets"} :
          Read(c, q, [Nothing EXCEPT !.add = {Row(t, NewId(calls, 0, 0), q.values)}])
    BY <1>8 DEF CreateDemandDriver, CreateLaborBudget
  <2> DEFINE row == Row(t, NewId(calls, 0, 0), q.values)
  <2>2. row.table = t
    BY DEF Row
  <2> HIDE DEF row
  <2>3. Good(db, [Nothing EXCEPT !.add = {row}])
    BY <2>2, AddingIsGood
  <2>4. QED
    BY <2>1, <2>3 DEF ReadsWell, row
<1>9. CASE ApplyImport(c, q)
  BY <1>9, ImportIsGood DEF ApplyImport, ReadsWell
<1>10. QED
  BY <1>1, <1>2, <1>3, <1>4, <1>5, <1>6, <1>7, <1>8, <1>9

LEMMA RequestHandlersReadWell ==
  ASSUME NEW c \in Clients, NEW q,
         \/ CreateEmployeeUserLink(c, q)
         \/ CreateEmployeeRequest(c, q)
         \/ ApproveEmployeeRequest(c, q)
         \/ RejectEmployeeRequest(c, q)
  PROVE  ReadsWell(c, q)
<1>1. CASE CreateEmployeeUserLink(c, q)
  <2> DEFINE row == Row("links", NewId(calls, 0, 0),
                        [employee |-> q.employee, user |-> q.user, status |-> q.status])
             effect == [set |-> {}, remove |-> {}, replaces |-> {}, add |-> {row}]
  <2>1. effect = [Nothing EXCEPT !.add = {row}]
    BY DEF Nothing
  <2>2. row.table = "links" /\ DOMAIN row.values = ColumnsOf["links"]
    BY DEF Row, ColumnsOf
  <2>3. Read(c, q, effect)
    BY <1>1, <2>1 DEF CreateEmployeeUserLink
  <2> HIDE DEF row
  <2>4. Good(db, effect)
    BY <2>2 DEF Good, Modest, AddsWell
  <2>5. QED
    BY <2>3, <2>4 DEF ReadsWell
<1>2. CASE CreateEmployeeRequest(c, q)
  <2> DEFINE row == Row("requests", NewId(calls, 0, 0),
                        [employee |-> q.employee, by |-> AskedBy(c, q), kind |-> q.kind,
                         from |-> q.from, to |-> q.to, status |-> "pending", leave |-> None])
             effect == [set |-> {}, remove |-> {}, replaces |-> {}, add |-> {row}]
  <2>1. effect = [Nothing EXCEPT !.add = {row}]
    BY DEF Nothing
  <2>2. row.table = "requests" /\ DOMAIN row.values = ColumnsOf["requests"]
    BY DEF Row, ColumnsOf
  <2>3. Read(c, q, effect)
    BY <1>2, <2>1 DEF CreateEmployeeRequest
  <2> HIDE DEF row
  <2>4. Good(db, effect)
    BY <2>2 DEF Good, Modest, AddsWell
  <2>5. QED
    BY <2>3, <2>4 DEF ReadsWell
<1>3. ASSUME NEW id \in DOMAIN db.requests, NEW new, NEW adds,
             DOMAIN new \subseteq {"status", "leave"},
             \A r \in adds : r.table = "leaves"
      PROVE  Good(db, [set |-> Changed(db, "requests", id, new), remove |-> {},
                       replaces |-> {}, add |-> adds])
  BY <1>3, ChangedFacts DEF Good, Modest, AddsWell
<1>4. CASE ApproveEmployeeRequest(c, q)
  <2> DEFINE leave == NewId(calls, 0, 0)
             decided == [status |-> "approved", leave |-> leave]
             approved == [status |-> "approved"]
  <2>1. PICK id \in DOMAIN db.requests :
          LET r == db.requests[id]
              adds == {Row("leaves", leave, LeaveRow(r.employee, r.from, r.to, FALSE, {id}))}
          IN  \/ Read(c, q, [Nothing EXCEPT !.set = Changed(db, "requests", id, decided),
                                            !.add = adds])
              \/ Read(c, q, [Nothing EXCEPT !.set = Changed(db, "requests", id, approved)])
    BY <1>4 DEF ApproveEmployeeRequest, Pending
  <2> DEFINE r == db.requests[id]
             adds == {Row("leaves", leave, LeaveRow(r.employee, r.from, r.to, FALSE, {id}))}
             both == [set |-> Changed(db, "requests", id, decided), remove |-> {},
                      replaces |-> {}, add |-> adds]
             one == [set |-> Changed(db, "requests", id, approved), remove |-> {},
                     replaces |-> {}, add |-> {}]
  <2>2. \A x \in adds : x.table = "leaves"
    BY DEF Row
  <2>3. DOMAIN decided \subseteq {"status", "leave"} /\ DOMAIN approved \subseteq {"status", "leave"}
    OBVIOUS
  <2>4. Read(c, q, both) \/ Read(c, q, one)
    <3> DEFINE first == Changed(db, "requests", id, decided)
               second == Changed(db, "requests", id, approved)
    <3>1. \/ Read(c, q, [Nothing EXCEPT !.set = first, !.add = adds])
          \/ Read(c, q, [Nothing EXCEPT !.set = second])
      BY <2>1
    <3> HIDE DEF first, second, adds
    <3>2. [Nothing EXCEPT !.set = first, !.add = adds] =
            [set |-> first, remove |-> {}, replaces |-> {}, add |-> adds]
      <4> DEFINE effect == [Nothing EXCEPT !.set = first, !.add = adds]
      <4>1. /\ DOMAIN effect = {"set", "remove", "replaces", "add"}
            /\ effect.set = first /\ effect.remove = {}
            /\ effect.replaces = {} /\ effect.add = adds
        BY DEF Nothing
      <4>2. effect = [x \in {"set", "remove", "replaces", "add"} |-> effect[x]]
        BY DEF Nothing
      <4> HIDE DEF effect
      <4>3. effect = [set |-> first, remove |-> {}, replaces |-> {}, add |-> adds]
        BY <4>1, <4>2
      <4>4. QED
        BY <4>3 DEF effect
    <3>3. [Nothing EXCEPT !.set = second] =
            [set |-> second, remove |-> {}, replaces |-> {}, add |-> {}]
      BY DEF Nothing
    <3>4. QED
      BY <3>1, <3>2, <3>3 DEF first, second
  <2> HIDE DEF adds, decided, approved
  <2>5. Good(db, both)
    BY <1>3, <2>2, <2>3
  <2>6. Good(db, one)
    BY <1>3, <2>3
  <2>7. QED
    BY <2>4, <2>5, <2>6 DEF ReadsWell
<1>5. CASE RejectEmployeeRequest(c, q)
  <2> DEFINE rejected == [status |-> "rejected"]
  <2>1. PICK id \in DOMAIN db.requests :
          Read(c, q, [Nothing EXCEPT !.set = Changed(db, "requests", id, rejected)])
    BY <1>5 DEF RejectEmployeeRequest, Pending
  <2>2. DOMAIN rejected \subseteq {"status", "leave"}
    OBVIOUS
  <2> DEFINE one == [set |-> Changed(db, "requests", id, rejected), remove |-> {},
                     replaces |-> {}, add |-> {}]
  <2> HIDE DEF rejected
  <2>3. Read(c, q, one)
    BY <2>1 DEF Nothing
  <2>4. Good(db, one)
    BY <1>3, <2>2
  <2>5. QED
    BY <2>3, <2>4 DEF ReadsWell
<1>6. QED
  BY <1>1, <1>2, <1>4, <1>5

LEMMA HandlersReadWell ==
  ASSUME Shapes(db), NEW c \in Clients, NEW q, Handle(c, q)
  PROVE  CreateScheduleRun(c, q) \/ ReadsWell(c, q)
BY PairHandlersReadWell, LeaveHandlersReadWell, RowHandlersReadWell, RequestHandlersReadWell
   DEF Handle

-----------------------------------------------------------------------------
(* Transactions.                                                           *)

\* What a transaction writes to a column of a row.
Updates(d, effect, gone, t, i, column) ==
  {w \in effect.set \cup Forgotten(d, gone) : w.table = t /\ w.id = i /\ column \in DOMAIN w.new}

\* A row that was there keeps the columns to which nothing is written.
Kept(d, effect, gone, t, i, row) ==
  /\ i \in DOMAIN d[t]
  /\ <<t, i>> \notin gone
  /\ DOMAIN row = DOMAIN d[t][i]
  /\ \A column \in DOMAIN row :
       LET written == Updates(d, effect, gone, t, i, column) IN
       IF written = {} THEN row[column] = d[t][i][column]
       ELSE \E w \in written : row[column] = w.new[column]

\* A row that is new.
Added(effect, t, i, row) == \E r \in effect.add : r.table = t /\ r.id = i /\ row = r.values

LEMMA AfterRows ==
  ASSUME NEW d, NEW effect, NEW gone, NEW t \in TableNames
  PROVE  /\ \A i \in DOMAIN After(d, effect, gone)[t] :
              LET row == After(d, effect, gone)[t][i] IN
              Kept(d, effect, gone, t, i, row) \/ Added(effect, t, i, row)
         /\ \A i \in DOMAIN d[t] :
              <<t, i>> \notin gone =>
                /\ i \in DOMAIN After(d, effect, gone)[t]
                /\ Kept(d, effect, gone, t, i, After(d, effect, gone)[t][i])
         /\ \A r \in effect.add : r.table = t => r.id \in DOMAIN After(d, effect, gone)[t]
<1> DEFINE Value(i, column) ==
             IF Updates(d, effect, gone, t, i, column) = {} THEN d[t][i][column]
             ELSE (CHOOSE w \in Updates(d, effect, gone, t, i, column) : TRUE).new[column]
           kept == {i \in DOMAIN d[t] : <<t, i>> \notin gone}
           added == {r \in effect.add : r.table = t}
           ids == kept \cup {r.id : r \in added}
           old(i) == [column \in DOMAIN d[t][i] |-> Value(i, column)]
           fresh(i) == (CHOOSE r \in added : r.id = i).values
           rows == After(d, effect, gone)[t]
<1>1. rows = [i \in ids |-> IF i \in kept THEN old(i) ELSE fresh(i)]
  BY DEF After, Updates
<1>2. ASSUME NEW i \in kept PROVE Kept(d, effect, gone, t, i, old(i))
  <2>1. ASSUME NEW column \in DOMAIN old(i),
               Updates(d, effect, gone, t, i, column) # {}
        PROVE  \E w \in Updates(d, effect, gone, t, i, column) : old(i)[column] = w.new[column]
    <3> DEFINE written == Updates(d, effect, gone, t, i, column)
               w == CHOOSE x \in written : TRUE
    <3>1. w \in written
      <4> HIDE DEF written
      <4>1. QED
        BY <2>1 DEF written
    <3>2. old(i)[column] = w.new[column]
      BY <2>1
    <3>3. QED
      BY <3>1, <3>2
  <2>2. \A column \in DOMAIN old(i) :
          Updates(d, effect, gone, t, i, column) = {} => old(i)[column] = d[t][i][column]
    OBVIOUS
  <2>3. DOMAIN old(i) = DOMAIN d[t][i]
    OBVIOUS
  <2>4. i \in DOMAIN d[t] /\ <<t, i>> \notin gone
    OBVIOUS
  <2> HIDE DEF old
  <2>5. QED
    BY <2>1, <2>2, <2>3, <2>4 DEF Kept
<1>3. ASSUME NEW i \in ids, i \notin kept PROVE Added(effect, t, i, fresh(i))
  <2>1. \E r \in added : r.id = i
    BY <1>3
  <2>2. PICK r \in added : r = (CHOOSE x \in added : x.id = i) /\ r.id = i
    <3> HIDE DEF added
    <3>1. QED
      BY <2>1
  <2>3. QED
    BY <2>2 DEF Added
<1> HIDE DEF old, fresh, rows, kept
<1>4. \A i \in ids : rows[i] = IF i \in kept THEN old(i) ELSE fresh(i)
  BY <1>1
<1>5. DOMAIN rows = ids
  BY <1>1
<1>6. \A i \in DOMAIN rows :
        Kept(d, effect, gone, t, i, rows[i]) \/ Added(effect, t, i, rows[i])
  BY <1>2, <1>3, <1>4, <1>5
<1>7. \A i \in kept : i \in DOMAIN rows /\ Kept(d, effect, gone, t, i, rows[i])
  BY <1>2, <1>4, <1>5
<1>8. \A r \in effect.add : r.table = t => r.id \in DOMAIN rows
  BY <1>5
<1>9. QED
  BY <1>6, <1>7, <1>8 DEF rows, kept

LEMMA ForgottenFacts ==
  ASSUME NEW d, NEW gone, NEW w \in Forgotten(d, gone)
  PROVE  w.table = "requests" /\ DOMAIN w.new = {"leave"}
<1>1. PICK i \in DOMAIN d.requests : w = Columns("requests", i, [leave |-> None])
  BY DEF Forgotten
<1>2. w.table = "requests" /\ w.new = [leave |-> None]
  BY <1>1 DEF Columns
<1>3. QED
  BY <1>2

\* What a modest transaction cannot write.
LEMMA NotWritten ==
  ASSUME NEW d, NEW effect, NEW gone, Modest(effect), NEW i, NEW column
  PROVE  /\ Updates(d, effect, gone, "links", i, column) = {}
         /\ Updates(d, effect, gone, "runs", i, column) = {}
         /\ column \in {"by", "employee"} => Updates(d, effect, gone, "requests", i, column) = {}
BY ForgottenFacts DEF Modest, Updates

LEMMA PairUpdates ==
  ASSUME NEW d, NEW effect, NEW gone, NEW i, NEW column
  PROVE  Updates(d, effect, gone, "pairs", i, column) =
           {w \in effect.set : w.table = "pairs" /\ w.id = i /\ column \in DOMAIN w.new}
BY ForgottenFacts DEF Updates

-----------------------------------------------------------------------------
(* The invariant.                                                          *)

GoneOK(effect, gone) ==
  \A x \in gone : x \in effect.remove \/ x[1] \in {"skills", "posts"}

CallOK(c) ==
  /\ {"q", "effect", "phase", "gone"} \subseteq DOMAIN call[c]
  /\ call[c].phase = "reading" => {"seen", "n"} \subseteq DOMAIN call[c]
  /\ Modest(call[c].effect)
  /\ AddsWell(call[c].effect)
  /\ GoneOK(call[c].effect, call[c].gone)
  /\ \A w \in call[c].effect.set :
       w.table = "pairs" /\ <<"pairs", w.id>> \notin raced => WritesPair(db, call[c].effect, w)

Apart ==
  \A c, o \in Working : c # o => About(call[c].effect) \cap About(call[o].effect) \subseteq raced

CallsOK ==
  /\ DOMAIN call = Clients
  /\ \A c \in Working : CallOK(c)
  /\ Apart

RowsOK ==
  /\ Shapes(db)
  /\ \A i \in DOMAIN db.pairs : <<"pairs", i>> \notin raced => Normal(db.pairs[i])

Inv == RowsOK /\ CallsOK

LEMMA InvInit == Init => Inv
<1> SUFFICES ASSUME Init PROVE Inv
  OBVIOUS
<1>1. Working = {}
  BY DEF Init, Working
<1>2. db \in Initial /\ raced = {} /\ DOMAIN call = Clients
  BY DEF Init
<1>3. Shapes(db)
  BY <1>2, ReferenceDataAssumption DEF Settled, Shaped, Shapes, TableNames, ColumnsOf
<1>4. \A i \in DOMAIN db.pairs : Normal(db.pairs[i])
  BY <1>2, ReferenceDataAssumption DEF Settled, Contents, Normal
<1>5. QED
  BY <1>1, <1>2, <1>3, <1>4 DEF Inv, RowsOK, CallsOK, Apart

\* Steps that change one call and leave the tables alone.
LEMMA OneCallKeepsInv ==
  ASSUME Inv, NEW c \in Clients,
         UNCHANGED db, raced \subseteq raced',
         DOMAIN call' = Clients,
         \A o \in Clients \ {c} : call'[o] = call[o],
         c \in Working' =>
           /\ CallOK(c)'
           /\ \A o \in Working \ {c} :
                About(call'[c].effect) \cap About(call[o].effect) \subseteq raced'
  PROVE  Inv'
<1>1. RowsOK'
  BY DEF Inv, RowsOK
<1>2. \A o \in Working' : o # c => o \in Working /\ call'[o] = call[o]
  BY DEF Working
<1>3. ASSUME NEW o \in Working' PROVE CallOK(o)'
  <2>1. CASE o = c
    BY <1>3, <2>1
  <2>2. CASE o # c
    BY <1>2, <2>2 DEF Inv, CallsOK, CallOK
  <2>3. QED
    BY <2>1, <2>2
<1>4. Apart'
  <2> SUFFICES ASSUME NEW o \in Working', NEW p \in Working', o # p
               PROVE  About(call'[o].effect) \cap About(call'[p].effect) \subseteq raced'
    BY DEF Apart
  <2>1. CASE o = c
    BY <1>2, <2>1
  <2>2. CASE p = c
    BY <1>2, <2>2
  <2>3. CASE o # c /\ p # c
    BY <1>2, <2>3 DEF Inv, CallsOK, Apart
  <2>4. QED
    BY <2>1, <2>2, <2>3
<1>5. QED
  BY <1>1, <1>3, <1>4 DEF Inv, CallsOK

LEMMA ReadKeepsInv ==
  ASSUME Inv, NEW c \in Clients, NEW q, ReadsWell(c, q)
  PROVE  Inv'
<1>1. PICK effect : Read(c, q, effect) /\ Good(db, effect)
  BY DEF ReadsWell
<1>2. DOMAIN call = Clients
  BY DEF Inv, CallsOK
<1>3. call'[c] = [q |-> q, effect |-> effect, phase |-> "read", gone |-> {}]
  BY <1>1, <1>2 DEF Read
<1>4. UNCHANGED db /\ raced \subseteq raced' /\ DOMAIN call' = Clients
      /\ \A o \in Clients \ {c} : call'[o] = call[o]
  BY <1>1, <1>2 DEF Read
<1>5. CallOK(c)'
  BY <1>1, <1>3, <1>4 DEF CallOK, Good, GoneOK
<1>6. \A o \in Working \ {c} : About(call'[c].effect) \cap About(call[o].effect) \subseteq raced'
  BY <1>1, <1>3 DEF Read
<1>7. QED
  BY <1>4, <1>5, <1>6, OneCallKeepsInv

LEMMA NothingIsApart ==
  /\ About(Nothing) = {}
  /\ \A adds : About([Nothing EXCEPT !.add = adds]) = {}
BY DEF About, Written, Nothing

LEMMA CreateKeepsInv ==
  ASSUME Inv, NEW c \in Clients, NEW q, CreateScheduleRun(c, q)
  PROVE  Inv'
<1>1. DOMAIN call = Clients
  BY DEF Inv, CallsOK
<1>2. call'[c] = [q |-> q, effect |-> Nothing, phase |-> "reading", gone |-> {},
                  seen |-> [t \in {} |-> 0], n |-> calls]
  BY <1>1 DEF CreateScheduleRun
<1>3. UNCHANGED db /\ UNCHANGED raced /\ DOMAIN call' = Clients
      /\ \A o \in Clients \ {c} : call'[o] = call[o]
  BY <1>1 DEF CreateScheduleRun
<1>4. CallOK(c)'
  <2>1. {"q", "effect", "phase", "gone", "seen", "n"} \subseteq DOMAIN call'[c]
    BY <1>2
  <2>2. call'[c].effect = Nothing /\ call'[c].gone = {}
    BY <1>2
  <2>3. Modest(Nothing) /\ AddsWell(Nothing) /\ Nothing.set = {}
    BY NothingIsGood DEF Good, Nothing
  <2>4. QED
    BY <2>1, <2>2, <2>3 DEF CallOK, GoneOK
<1>5. \A o : About(call'[c].effect) \cap About(call[o].effect) \subseteq raced'
  BY <1>2, NothingIsApart
<1>6. QED
  BY <1>3, <1>4, <1>5, OneCallKeepsInv

\* A step that changes fields of a call other than its effect.
LEMMA SameEffectKeepsInv ==
  ASSUME Inv, NEW c \in Working, UNCHANGED <<db, raced>>,
         DOMAIN call' = Clients,
         \A o \in Clients \ {c} : call'[o] = call[o],
         DOMAIN call'[c] = DOMAIN call[c],
         call'[c].effect = call[c].effect,
         call'[c].phase = "reading" => call[c].phase = "reading",
         GoneOK(call[c].effect, call'[c].gone)
  PROVE  Inv'
<1>1. CallOK(c) /\ Apart /\ c \in Clients
  BY DEF Inv, CallsOK, Working
<1>2. CallOK(c)'
  BY <1>1 DEF CallOK
<1>3. \A o \in Working \ {c} : About(call'[c].effect) \cap About(call[o].effect) \subseteq raced'
  BY <1>1 DEF Apart
<1>4. QED
  BY <1>1, <1>2, <1>3, OneCallKeepsInv

LEMMA ReadNextTableKeepsInv ==
  ASSUME Inv, NEW c \in Clients, ReadNextTable(c)
  PROVE  Inv'
<1>1. c \in Working /\ CallOK(c) /\ DOMAIN call = Clients
  BY DEF ReadNextTable, Inv, CallsOK
<1>2. PICK seen : call' = [call EXCEPT ![c].seen = seen]
  BY DEF ReadNextTable
<1>3. /\ DOMAIN call'[c] = DOMAIN call[c]
      /\ call'[c].effect = call[c].effect
      /\ call'[c].phase = call[c].phase
      /\ call'[c].gone = call[c].gone
  BY <1>1, <1>2 DEF CallOK
<1>4. DOMAIN call' = Clients /\ \A o \in Clients \ {c} : call'[o] = call[o]
  BY <1>1, <1>2
<1>5. QED
  BY <1>1, <1>3, <1>4, SameEffectKeepsInv DEF ReadNextTable, CallOK

LEMMA FlushKeepsInv ==
  ASSUME Inv, NEW c \in Clients, Flush(c)
  PROVE  Inv'
<1>1. c \in Working /\ CallOK(c) /\ DOMAIN call = Clients
  BY DEF Flush, Inv, CallsOK
<1> DEFINE effect == call[c].effect
           gone == effect.remove \cup UNION {Details(db, owner) : owner \in effect.replaces}
<1>2. call' = [call EXCEPT ![c].phase = "flushed", ![c].gone = gone]
  BY DEF Flush
<1>3. GoneOK(effect, gone)
  BY DEF GoneOK, Details
<1> HIDE DEF gone
<1>4. /\ DOMAIN call'[c] = DOMAIN call[c]
      /\ call'[c].effect = effect
      /\ call'[c].phase = "flushed"
      /\ call'[c].gone = gone
  BY <1>1, <1>2 DEF CallOK
<1>5. DOMAIN call' = Clients /\ \A o \in Clients \ {c} : call'[o] = call[o]
  BY <1>1, <1>2
<1>6. QED
  BY <1>1, <1>3, <1>4, <1>5, SameEffectKeepsInv DEF Flush

LEMMA EndKeepsInv ==
  ASSUME Inv, NEW c \in Clients, UNCHANGED <<db, raced>>, call' = [call EXCEPT ![c] = NoCall]
  PROVE  Inv'
<1>1. DOMAIN call = Clients
  BY DEF Inv, CallsOK
<1>2. c \notin Working'
  BY <1>1 DEF Working
<1>3. QED
  BY <1>1, <1>2, OneCallKeepsInv

LEMMA LookUpKeepsInv ==
  ASSUME Inv, NEW c \in Clients, LookUpKey(c)
  PROVE  Inv'
<1>1. CASE call' = [call EXCEPT ![c] = NoCall]
  BY <1>1, EndKeepsInv DEF LookUpKey
<1>2. ASSUME NEW snapshot \in Snapshots(call[c].seen, call[c].q.period),
             call' = [call EXCEPT ![c] =
               [q |-> call[c].q, phase |-> "read", gone |-> {},
                effect |-> [Nothing EXCEPT
                  !.add = {Row("runs", NewId(call[c].n, 0, 0), RunRow(call[c].q.key, snapshot))}]]]
      PROVE  Inv'
  <2> DEFINE row == Row("runs", NewId(call[c].n, 0, 0), RunRow(call[c].q.key, snapshot))
             effect == [Nothing EXCEPT !.add = {row}]
  <2>1. DOMAIN call = Clients /\ UNCHANGED <<db, raced>>
    BY DEF Inv, CallsOK, LookUpKey
  <2>2. call'[c] = [q |-> call[c].q, phase |-> "read", gone |-> {}, effect |-> effect]
    BY <1>2, <2>1
  <2>3. row.table = "runs" /\ DOMAIN row.values = ColumnsOf["runs"]
    BY DEF Row, RunRow, ColumnsOf
  <2>4. effect.set = {} /\ effect.remove = {} /\ effect.add = {row}
    BY DEF Nothing
  <2> HIDE DEF row
  <2>5. Modest(effect) /\ AddsWell(effect)
    BY <2>3, <2>4 DEF Modest, AddsWell
  <2>6. About(effect) = {}
    BY NothingIsApart
  <2> HIDE DEF effect
  <2>7. CallOK(c)'
    BY <2>2, <2>4, <2>5 DEF CallOK, GoneOK
  <2>8. \A o : About(call'[c].effect) \cap About(call[o].effect) \subseteq raced'
    BY <2>2, <2>6
  <2>9. QED
    BY <1>2, <2>1, <2>7, <2>8, OneCallKeepsInv
<1>3. QED
  BY <1>1, <1>2 DEF LookUpKey

\* A commit: what it writes is what its handler has decided on.
LEMMA CommitKeepsInv ==
  ASSUME Inv, NEW c \in Clients, Commit(c)
  PROVE  Inv'
<1> DEFINE effect == call[c].effect
           gone == call[c].gone
<1>1. c \in Working /\ CallOK(c) /\ DOMAIN call = Clients /\ Apart /\ RowsOK
  BY DEF Commit, Inv, CallsOK
<1>2. call' = [call EXCEPT ![c] = NoCall] /\ UNCHANGED raced
  BY DEF Commit
<1>3. CASE UNCHANGED db
  BY <1>2, <1>3, EndKeepsInv
<1>4. CASE db' = After(db, effect, gone)
  <2>1. Modest(effect) /\ AddsWell(effect) /\ GoneOK(effect, gone)
    BY <1>1 DEF CallOK
  <2>2. \A t \in TableNames : \A i \in DOMAIN db'[t] :
          Kept(db, effect, gone, t, i, db'[t][i]) \/ Added(effect, t, i, db'[t][i])
    BY <1>4, AfterRows
  <2>3. \A t \in TableNames : \A i \in DOMAIN db[t] :
          <<t, i>> \notin gone => i \in DOMAIN db'[t] /\ Kept(db, effect, gone, t, i, db'[t][i])
    BY <1>4, AfterRows
  <2>4. {"requests", "links", "runs", "pairs"} \subseteq TableNames
    BY DEF TableNames, ColumnsOf
  <2> HIDE DEF effect, gone
  <2>5. Shapes(db) /\ Shapes(db')
    <3>1. Shapes(db)
      BY <1>1 DEF RowsOK
    <3>2. ASSUME NEW t \in {"requests", "links", "runs", "pairs"}, NEW i \in DOMAIN db'[t]
          PROVE  DOMAIN db'[t][i] = ColumnsOf[t]
      <4>1. CASE Added(effect, t, i, db'[t][i])
        BY <2>1, <4>1 DEF Added, AddsWell
      <4>2. CASE Kept(db, effect, gone, t, i, db'[t][i])
        BY <3>1, <4>2 DEF Kept, Shapes
      <4>3. QED
        BY <2>2, <2>4, <4>1, <4>2
    <3>3. QED
      BY <3>1, <3>2 DEF Shapes
  <2>6. {"a", "b", "na", "nb"} \subseteq ColumnsOf["pairs"]
    BY DEF ColumnsOf
  <2>7. ASSUME NEW i \in DOMAIN db'.pairs, <<"pairs", i>> \notin raced
         PROVE  Normal(db'.pairs[i])
    <3>1. CASE Added(effect, "pairs", i, db'.pairs[i])
      BY <2>1, <3>1 DEF Added, AddsWell
    <3>2. CASE Kept(db, effect, gone, "pairs", i, db'.pairs[i])
      <4> DEFINE row == db'.pairs[i]
                 Wrote(column) ==
                   {w \in effect.set : w.table = "pairs" /\ w.id = i /\ column \in DOMAIN w.new}
      <4>1. /\ i \in DOMAIN db.pairs
            /\ DOMAIN row = ColumnsOf["pairs"]
            /\ DOMAIN db.pairs[i] = ColumnsOf["pairs"]
        BY <2>5, <3>2 DEF Kept, Shapes
      <4>2. \A column \in ColumnsOf["pairs"] :
              IF Wrote(column) = {} THEN row[column] = db.pairs[i][column]
              ELSE \E w \in Wrote(column) : row[column] = w.new[column]
        <5>1. \A column : Updates(db, effect, gone, "pairs", i, column) = Wrote(column)
          BY PairUpdates
        <5>2. QED
          BY <3>2, <4>1, <5>1 DEF Kept
      <4>3. Normal(db.pairs[i])
        BY <1>1, <1>2, <2>7, <4>1 DEF RowsOK
      <4>4. \A w \in effect.set : w.table = "pairs" /\ w.id = i => WritesPair(db, effect, w)
        BY <1>1, <2>7 DEF CallOK, effect
      <4>5. CASE \A w \in effect.set :
                   w.table = "pairs" /\ w.id = i => DOMAIN w.new \cap {"a", "b", "na", "nb"} = {}
        <5>1. \A column \in {"a", "b", "na", "nb"} : row[column] = db.pairs[i][column]
          BY <2>6, <4>2, <4>5
        <5> HIDE DEF row
        <5>2. Normal(row)
          BY <4>3, <5>1 DEF Normal
        <5>3. QED
          BY <5>2 DEF row
      <4>6. ASSUME NEW w \in effect.set, w.table = "pairs", w.id = i,
                   DOMAIN w.new \cap {"a", "b", "na", "nb"} # {}
            PROVE  Normal(row)
        <5>1. effect.set = {w} /\ Normal(Overlay(db.pairs[i], w.new))
          BY <4>4, <4>6 DEF WritesPair
        <5>2. \A column \in ColumnsOf["pairs"] : row[column] = Overlay(db.pairs[i], w.new)[column]
          BY <4>1, <4>2, <4>6, <5>1 DEF Overlay
        <5> HIDE DEF row
        <5>3. QED
          BY <2>6, <5>1, <5>2 DEF Normal
      <4>7. QED
        BY <4>5, <4>6
    <3>3. QED
      BY <2>2, <2>4, <3>1, <3>2
  <2>8. RowsOK'
    BY <1>2, <2>5, <2>7 DEF RowsOK
  <2>9. /\ DOMAIN call' = Clients
         /\ \A o \in Working' : o # c /\ o \in Working /\ call'[o] = call[o]
    BY <1>1, <1>2 DEF Working
  <2>10. Apart'
    BY <1>1, <1>2, <2>9 DEF Apart
  <2>11. ASSUME NEW o \in Working' PROVE CallOK(o)'
    <3> DEFINE other == call[o].effect
    <3>1. CallOK(o) /\ call'[o] = call[o] /\ o # c /\ o \in Working
      BY <2>9 DEF Inv, CallsOK
    <3>2. ASSUME NEW w \in other.set, w.table = "pairs", <<"pairs", w.id>> \notin raced
          PROVE  WritesPair(db', other, w)
      <4> DEFINE i == w.id
      <4>1. WritesPair(db, other, w)
        BY <3>1, <3>2 DEF CallOK
      <4>2. i \in DOMAIN db.pairs
        BY <4>1 DEF WritesPair
      <4>3. <<"pairs", i>> \in About(other)
        BY <3>2 DEF About, Written
      <4>4. <<"pairs", i>> \notin About(effect)
        BY <1>1, <3>1, <3>2, <4>3 DEF Apart, effect
      <4>5. <<"pairs", i>> \notin gone
        BY <2>1, <4>4 DEF GoneOK, About, Written
      <4>6. i \in DOMAIN db'.pairs /\ Kept(db, effect, gone, "pairs", i, db'.pairs[i])
        BY <2>3, <2>4, <4>2, <4>5
      <4>7. \A column : Updates(db, effect, gone, "pairs", i, column) = {}
        <5>1. \A v \in effect.set : ~(v.table = "pairs" /\ v.id = i)
          BY <4>4 DEF About, Written
        <5>2. QED
          BY <5>1, PairUpdates
      <4>8. /\ DOMAIN db.pairs[i] = ColumnsOf["pairs"]
            /\ DOMAIN db'.pairs[i] = ColumnsOf["pairs"]
            /\ \A column \in ColumnsOf["pairs"] : db'.pairs[i][column] = db.pairs[i][column]
        BY <2>5, <4>2, <4>6, <4>7 DEF Kept, Shapes
      <4>9. Overlay(db'.pairs[i], w.new) = Overlay(db.pairs[i], w.new)
        BY <4>8 DEF Overlay
      <4>10. QED
        BY <4>1, <4>6, <4>9 DEF WritesPair
    <3>3. QED
      BY <1>2, <3>1, <3>2 DEF CallOK
  <2>12. QED
    BY <2>8, <2>9, <2>10, <2>11 DEF Inv, CallsOK
<1>5. QED
  BY <1>3, <1>4 DEF Commit

LEMMA InvNext == ASSUME Inv, [Next]_vars PROVE Inv'
<1>1. ASSUME NEW c \in Clients, NEW q, Handle(c, q) PROVE Inv'
  <2>1. Shapes(db)
    BY DEF Inv, RowsOK
  <2>2. QED
    BY <1>1, <2>1, HandlersReadWell, ReadKeepsInv, CreateKeepsInv
<1>2. ASSUME NEW c \in Clients, Fail(c) PROVE Inv'
  BY <1>2, EndKeepsInv DEF Fail
<1>3. CASE UNCHANGED vars
  BY <1>3 DEF vars, Inv, RowsOK, CallsOK, CallOK, Apart, Working
<1>4. QED
  BY <1>1, <1>2, <1>3, ReadNextTableKeepsInv, LookUpKeepsInv, FlushKeepsInv, CommitKeepsInv
     DEF Next

LEMMA InvHolds == Spec => []Inv
<1>1. Init => Inv
  BY InvInit
<1>2. Inv /\ [Next]_vars => Inv'
  BY InvNext
<1>3. QED
  BY <1>1, <1>2, PTL DEF Spec

-----------------------------------------------------------------------------
(* What an employee's transaction can do.                                  *)

\* A pending request in the name of c, for an employee that c is linked to.
OwnAsk(d, c, r) ==
  /\ r.table = "requests"
  /\ r.values.by = c
  /\ r.values.status = "pending" /\ r.values.leave = None
  /\ r.values.employee \in LinkedEmployees(d, c)

OnlyAsks(c) ==
  /\ call[c].phase # "reading"
  /\ call[c].gone = {}
  /\ call[c].effect.set = {} /\ call[c].effect.remove = {} /\ call[c].effect.replaces = {}
  /\ \A r \in call[c].effect.add : OwnAsk(db, c, r)

EmployeesOK == \A c \in Working : Member[c] = "employee" => OnlyAsks(c)

\* A link is never taken back.
LEMMA LinksGrow ==
  ASSUME Inv, [Next]_vars, NEW user
  PROVE  LinkedEmployees(db, user) \subseteq LinkedEmployees(db', user)
<1>1. CASE UNCHANGED db
  BY <1>1 DEF LinkedEmployees
<1>2. ASSUME NEW c \in Clients, Commit(c)
      PROVE  LinkedEmployees(db, user) \subseteq LinkedEmployees(db', user)
  <2> DEFINE effect == call[c].effect
             gone == call[c].gone
  <2>1. db' = db \/ db' = After(db, effect, gone)
    BY <1>2 DEF Commit
  <2>2. Modest(effect) /\ GoneOK(effect, gone) /\ Shapes(db)
    BY <1>2 DEF Commit, Inv, CallsOK, CallOK, RowsOK
  <2> HIDE DEF effect, gone
  <2>3. CASE db' = After(db, effect, gone)
    <3> SUFFICES ASSUME NEW l \in DOMAIN db.links,
                        db.links[l].user = user, db.links[l].status = "linked"
                 PROVE  db.links[l].employee \in LinkedEmployees(db', user)
      BY DEF LinkedEmployees
    <3>1. "links" \in TableNames /\ {"employee", "user", "status"} \subseteq ColumnsOf["links"]
      BY DEF TableNames, ColumnsOf
    <3>2. <<"links", l>> \notin gone
      BY <2>2 DEF GoneOK, Modest
    <3>3. l \in DOMAIN db'.links /\ Kept(db, effect, gone, "links", l, db'.links[l])
      BY <2>3, <3>1, <3>2, AfterRows
    <3>4. DOMAIN db.links[l] = ColumnsOf["links"]
      BY <2>2 DEF Shapes
    <3>5. \A column \in ColumnsOf["links"] : db'.links[l][column] = db.links[l][column]
      BY <2>2, <3>3, <3>4, NotWritten DEF Kept
    <3>6. /\ db'.links[l].user = user /\ db'.links[l].status = "linked"
          /\ db'.links[l].employee = db.links[l].employee
      BY <3>1, <3>5
    <3>7. QED
      BY <3>3, <3>6 DEF LinkedEmployees
  <2>4. QED
    BY <1>1, <2>1, <2>3
<1>3. UNCHANGED db \/ \E c \in Clients : Commit(c)
  <2>1. ASSUME NEW c \in Clients, NEW q, Handle(c, q) PROVE UNCHANGED db
    <3>1. Shapes(db)
      BY DEF Inv, RowsOK
    <3>2. CreateScheduleRun(c, q) \/ ReadsWell(c, q)
      BY <2>1, <3>1, HandlersReadWell
    <3>3. QED
      BY <3>2 DEF CreateScheduleRun, ReadsWell, Read
  <2>2. QED
    BY <2>1 DEF Next, vars, ReadNextTable, LookUpKey, Flush, Fail
<1>4. QED
  BY <1>1, <1>2, <1>3

\* The one handler that lets an employee in.
LEMMA EmployeesSubmit ==
  ASSUME NEW c, NEW q, Handle(c, q), Member[c] = "employee"
  PROVE  CreateEmployeeRequest(c, q)
BY DEF Handle, Administers, BulkPasteEmployees, UpdateEmployee, DeactivateEmployee,
       CreateShiftType, UpdateShiftType, DeactivateShiftType, CreatePairConstraint,
       UpdatePairConstraint, DeletePairConstraint, CreateUnavailability, UpdateUnavailability,
       DeleteUnavailability, GetSchedulePolicy, UpdateSchedulePolicy, CreateDemandDriver,
       CreateLaborBudget, ApplyImport, CreateEmployeeUserLink, ApproveEmployeeRequest,
       RejectEmployeeRequest, CreateScheduleRun

LEMMA SubmitOnlyAsks ==
  ASSUME NEW c \in Clients, NEW q, CreateEmployeeRequest(c, q), Member[c] = "employee",
         DOMAIN call = Clients
  PROVE  OnlyAsks(c)' /\ \A o \in Clients \ {c} : call'[o] = call[o]
<1> DEFINE row == Row("requests", NewId(calls, 0, 0),
                      [employee |-> q.employee, by |-> AskedBy(c, q), kind |-> q.kind,
                       from |-> q.from, to |-> q.to, status |-> "pending", leave |-> None])
           effect == [set |-> {}, remove |-> {}, replaces |-> {}, add |-> {row}]
<1>1. OwnAsk(db, c, row)
  BY DEF CreateEmployeeRequest, MaySubmitFor, AskedBy, OwnAsk, Row
<1>2. effect = [Nothing EXCEPT !.add = {row}]
  BY DEF Nothing
<1>3. Read(c, q, effect)
  BY <1>2 DEF CreateEmployeeRequest
<1> HIDE DEF row
<1>4. /\ call'[c] = [q |-> q, effect |-> effect, phase |-> "read", gone |-> {}]
      /\ UNCHANGED db
      /\ \A o \in Clients \ {c} : call'[o] = call[o]
  BY <1>3 DEF Read
<1>5. QED
  BY <1>1, <1>4 DEF OnlyAsks

\* A call that goes on as it was, or whose rows are locked, goes on only asking.
LEMMA StillOnlyAsks ==
  ASSUME Inv, [Next]_vars, NEW c, OnlyAsks(c),
         call'[c] = call[c] \/ (Flush(c) /\ c \in Clients)
  PROVE  OnlyAsks(c)'
<1>1. \A r : OwnAsk(db, c, r) => OwnAsk(db', c, r)
  BY LinksGrow DEF OwnAsk
<1>2. CASE call'[c] = call[c]
  BY <1>1, <1>2 DEF OnlyAsks
<1>3. CASE Flush(c) /\ c \in Clients
  <2>1. CallOK(c) /\ DOMAIN call = Clients
    BY <1>3 DEF Flush, Inv, CallsOK
  <2> DEFINE gone == call[c].effect.remove
                     \cup UNION {Details(db, owner) : owner \in call[c].effect.replaces}
  <2>2. gone = {}
    BY DEF OnlyAsks
  <2>3. call' = [call EXCEPT ![c].phase = "flushed", ![c].gone = gone]
    BY <1>3 DEF Flush
  <2> HIDE DEF gone
  <2>4. call'[c].effect = call[c].effect /\ call'[c].phase = "flushed" /\ call'[c].gone = {}
    BY <1>3, <2>1, <2>2, <2>3 DEF CallOK
  <2>5. QED
    BY <1>1, <2>4 DEF OnlyAsks
<1>4. QED
  BY <1>2, <1>3

LEMMA EmployeesOKNext ==
  ASSUME Inv, EmployeesOK, [Next]_vars
  PROVE  EmployeesOK'
<1> SUFFICES ASSUME NEW o \in Working', Member[o] = "employee"
             PROVE  OnlyAsks(o)'
  BY DEF EmployeesOK
<1>1. DOMAIN call = Clients /\ o \in Clients /\ call'[o] # NoCall
  BY DEF Inv, CallsOK, Working
<1>2. ASSUME call'[o] = call[o] PROVE OnlyAsks(o)'
  BY <1>1, <1>2, StillOnlyAsks DEF EmployeesOK, Working
<1>3. ASSUME NEW c \in Clients, NEW q, Handle(c, q) PROVE OnlyAsks(o)'
  <2>1. CASE c = o
    BY <1>1, <1>3, <2>1, EmployeesSubmit, SubmitOnlyAsks
  <2>2. CASE c # o
    <3>1. Shapes(db)
      BY DEF Inv, RowsOK
    <3>2. CreateScheduleRun(c, q) \/ ReadsWell(c, q)
      BY <1>3, <3>1, HandlersReadWell
    <3>3. call'[o] = call[o]
      BY <1>1, <2>2, <3>2 DEF CreateScheduleRun, ReadsWell, Read
    <3>4. QED
      BY <1>2, <3>3
  <2>3. QED
    BY <2>1, <2>2
<1>4. ASSUME NEW c \in Clients, ReadNextTable(c) \/ LookUpKey(c) PROVE OnlyAsks(o)'
  <2>1. c \in Working /\ call[c].phase = "reading"
    BY <1>4 DEF ReadNextTable, LookUpKey
  <2>2. c # o
    BY <2>1 DEF EmployeesOK, OnlyAsks
  <2>3. call'[o] = call[o]
    BY <1>1, <1>4, <2>2 DEF ReadNextTable, LookUpKey
  <2>4. QED
    BY <1>2, <2>3
<1>5. ASSUME NEW c \in Clients, Flush(c) PROVE OnlyAsks(o)'
  <2>1. CASE c = o
    BY <1>1, <1>5, <2>1, StillOnlyAsks DEF Flush, EmployeesOK
  <2>2. CASE c # o
    BY <1>1, <1>2, <1>5, <2>2 DEF Flush
  <2>3. QED
    BY <2>1, <2>2
<1>6. ASSUME NEW c \in Clients, Commit(c) \/ Fail(c) PROVE OnlyAsks(o)'
  <2>1. call' = [call EXCEPT ![c] = NoCall]
    BY <1>6 DEF Commit, Fail
  <2>2. QED
    BY <1>1, <1>2, <2>1
<1>7. CASE UNCHANGED vars
  BY <1>2, <1>7 DEF vars
<1>8. QED
  BY <1>3, <1>4, <1>5, <1>6, <1>7 DEF Next

-----------------------------------------------------------------------------
(* Theorems.                                                               *)

\* An employee changes nothing that was there and leaves behind, at most, pending
\* requests in their own name for employees they are linked to, whatever others
\* have committed since they were let in.
THEOREM EmployeesOnlyAskHolds == Spec => EmployeesOnlyAsk
<1> DEFINE OnlyAsked(c) ==
      \A t \in TableNames :
        /\ \A i \in DOMAIN db[t] :
             /\ i \in DOMAIN db'[t]
             /\ \A column \in DOMAIN db[t][i] : db'[t][i][column] = db[t][i][column]
        /\ \A i \in DOMAIN db'[t] \ DOMAIN db[t] :
             /\ t = "requests"
             /\ db'[t][i].by = c
             /\ db'[t][i].status = "pending" /\ db'[t][i].leave = None
             /\ db'[t][i].employee \in LinkedEmployees(db', c)
<1>1. ASSUME Inv, EmployeesOK, [Next]_vars, NEW c \in Working,
             Member[c] = "employee", call'[c] = NoCall
      PROVE  OnlyAsked(c)
  <2> DEFINE effect == call[c].effect
             gone == call[c].gone
  <2>1. OnlyAsks(c)
    BY <1>1 DEF EmployeesOK
  <2>2. effect.set \cup Forgotten(db, gone) = {} /\ gone = {}
    BY <2>1 DEF OnlyAsks, Forgotten
  <2>3. UNCHANGED db \/ db' = After(db, effect, gone)
    <3>1. ASSUME NEW o \in Clients, NEW q, Handle(o, q) PROVE UNCHANGED db
      <4>1. Shapes(db)
        BY <1>1 DEF Inv, RowsOK
      <4>2. CreateScheduleRun(o, q) \/ ReadsWell(o, q)
        BY <3>1, <4>1, HandlersReadWell
      <4>3. QED
        BY <4>2 DEF CreateScheduleRun, ReadsWell, Read
    <3>2. ASSUME NEW o \in Clients, Commit(o)
          PROVE  UNCHANGED db \/ db' = After(db, effect, gone)
      <4>1. call' = [call EXCEPT ![o] = NoCall] /\ DOMAIN call = Clients /\ call[c] # NoCall
        BY <1>1, <3>2 DEF Commit, Inv, CallsOK, Working
      <4>2. o = c
        BY <1>1, <4>1 DEF Working
      <4>3. QED
        BY <3>2, <4>2 DEF Commit
    <3>3. QED
      BY <1>1, <3>1, <3>2 DEF Next, vars, ReadNextTable, LookUpKey, Flush, Fail
  <2>4. CASE UNCHANGED db
    BY <2>4
  <2>5. CASE db' = After(db, effect, gone)
    <3>1. \A t, i, column : Updates(db, effect, gone, t, i, column) = {}
      BY <2>2 DEF Updates
    <3>2. \A r \in effect.add : OwnAsk(db', c, r)
      BY <1>1, <2>1, LinksGrow DEF OnlyAsks, OwnAsk
    <3> HIDE DEF effect, gone
    <3>3. ASSUME NEW t \in TableNames, NEW i \in DOMAIN db[t]
          PROVE  /\ i \in DOMAIN db'[t]
                 /\ \A column \in DOMAIN db[t][i] : db'[t][i][column] = db[t][i][column]
      <4>1. i \in DOMAIN db'[t] /\ Kept(db, effect, gone, t, i, db'[t][i])
        BY <2>2, <2>5, AfterRows
      <4>2. QED
        BY <3>1, <4>1 DEF Kept
    <3>4. ASSUME NEW t \in TableNames, NEW i \in DOMAIN db'[t] \ DOMAIN db[t]
          PROVE  \E r \in effect.add : r.table = t /\ db'[t][i] = r.values
      <4>1. Kept(db, effect, gone, t, i, db'[t][i]) \/ Added(effect, t, i, db'[t][i])
        BY <2>5, AfterRows
      <4>2. QED
        BY <4>1 DEF Kept, Added
    <3>5. ASSUME NEW t \in TableNames, NEW i \in DOMAIN db'[t] \ DOMAIN db[t]
          PROVE  /\ t = "requests"
                 /\ db'[t][i].by = c
                 /\ db'[t][i].status = "pending" /\ db'[t][i].leave = None
                 /\ db'[t][i].employee \in LinkedEmployees(db', c)
      <4>1. PICK r \in effect.add : r.table = t /\ db'[t][i] = r.values
        BY <3>4
      <4>2. QED
        BY <3>2, <4>1 DEF OwnAsk
    <3>6. QED
      BY <3>3, <3>5
  <2>6. QED
    BY <2>3, <2>4, <2>5
<1>2. Inv /\ EmployeesOK /\ [Next]_vars =>
        [\A c \in Working :
           Member[c] = "employee" /\ call'[c] = NoCall => OnlyAsked(c)]_vars
  BY <1>1
<1>3. Init => EmployeesOK
  BY DEF Init, EmployeesOK, Working
<1>4. Inv /\ EmployeesOK /\ [Next]_vars => EmployeesOK'
  BY EmployeesOKNext
<1>5. QED
  BY <1>2, <1>3, <1>4, InvHolds, PTL DEF Spec, EmployeesOnlyAsk

\* The normalized columns of a pair are those of the pair that is shown, unless
\* two requests changed it at once.
THEOREM PairsNormalizedHolds == Spec => []PairsNormalized
<1>1. Inv => PairsNormalized
  BY DEF Inv, RowsOK, PairsNormalized, Normal
<1>2. QED
  BY <1>1, InvHolds, PTL

=============================================================================
