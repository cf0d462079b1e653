-------------------------- MODULE ReferenceHistoryProofs --------------------------
(***************************************************************************)
(* Proofs about ReferenceData: the foreign keys and shapes of the tables,  *)
(* the roles and requirements that were asked for, the leaves of approved  *)
(* requests, the keys that an import of policy rows touches, the answers   *)
(* to repeated keys and imports that are applied twice.  They rest on the  *)
(* identifiers of new rows, which no other call makes, on the order of the *)
(* snapshots' lists and on what a batch of rows leaves of the tables.      *)
(***************************************************************************)
EXTENDS ReferenceDataProofs, FiniteSetTheorems, WellFoundedInduction

-----------------------------------------------------------------------------
(* What a handler may decide on, in tables d.                              *)

AddedIds(effect, t) == {r.id : r \in {k \in effect.add : k.table = t}}

RowWell(d, r) ==
  /\ r.table \in TableNames
  /\ DOMAIN r.values = ColumnsOf[r.table]
  /\ r.table \in {"skills", "posts"} => r.values.role \in Roles
  /\ r.table = "pairs" =>
       {r.values.a, r.values.b, r.values.na, r.values.nb} \subseteq DOMAIN d.employees
  /\ r.table \in {"leaves", "links", "requests"} => r.values.employee \in DOMAIN d.employees
  /\ r.table \in {"leaves", "requests"} => r.values.from \in Int
  /\ r.table = "requests" => r.values.leave = None

\* Roles and requirements are added for those who lose the ones they have, or
\* have none because they are new.
DetailsWell(effect) ==
  \A r \in effect.add :
    /\ r.table = "skills" => <<"employees", r.values.employee>> \in GivenTo(effect)
    /\ r.table = "posts" => <<"types", r.values.type>> \in GivenTo(effect)

ColumnWell(d, effect, t, column, value) ==
  /\ t = "pairs" /\ column \in {"a", "b", "na", "nb"} => value \in DOMAIN d.employees
  /\ t = "leaves" /\ column = "employee" => value \in DOMAIN d.employees
  /\ t = "leaves" /\ column = "from" => value \in Int
  /\ t = "leaves" /\ column = "note" => value = {}
  /\ t = "requests" /\ column = "leave" => value \in AddedIds(effect, "leaves")

SetWell(d, effect, w) ==
  /\ w.table \in {"employees", "types", "pairs", "leaves", "requests", "policy"}
  /\ \A column \in DOMAIN w.new : ColumnWell(d, effect, w.table, column, w.new[column])

\* The leave r takes the place of the request that w approves.
Grants(d, r, w) ==
  /\ w.table = "requests"
  /\ r.values.note = {w.id}
  /\ d.requests[w.id].kind \in {"vacation", "unavailable"}
  /\ DOMAIN w.new = {"status", "leave"}
  /\ w.new["status"] = "approved"
  /\ w.new["leave"] = r.id

DecidesWell(d, effect) ==
  /\ \A r \in effect.add :
       r.table = "leaves" /\ r.values.note # {} => \E w \in effect.set : Grants(d, r, w)
  /\ \A w \in effect.set :
       w.table = "requests" =>
         /\ w.id \in DOMAIN d.requests
         /\ effect.remove = {} /\ effect.set = {w}

OneRowPerId(effect) ==
  \A r, s \in effect.add : r.table = s.table /\ r.id = s.id => r = s

Proper(d, effect) ==
  /\ \A r \in effect.add : RowWell(d, r)
  /\ DetailsWell(effect)
  /\ \A w \in effect.set : SetWell(d, effect, w)
  /\ DecidesWell(d, effect)
  /\ OneRowPerId(effect)
  /\ effect.replaces \subseteq Owners(d)

\* The identifiers that call n makes.
IdsOf(n) == NewId(n, 0, 0)..NewId(n, MaxRows, MaxRows)

Numbered(effect, n) == \A r \in effect.add : r.id \in IdsOf(n)

\* A decision is taken on a request that is pending.
DecidesPending(d, effect) ==
  \A w \in effect.set : w.table = "requests" => d.requests[w.id].status = "pending"

\* Runs are added only when their key has been looked up.
AddsNoRun(effect) == \A r \in effect.add : r.table # "runs"

Decision(d, effect, n) ==
  Proper(d, effect) /\ Numbered(effect, n) /\ DecidesPending(d, effect) /\ AddsNoRun(effect)

\* An import of policy rows is about the keys of its rows.
OnlyItsKeys(q, effect) ==
  q.op = "import" /\ q.kind = "policy" =>
    \A w \in effect.set :
      w.table = "policy" /\ \A column \in DOMAIN w.new : \E i \in DOMAIN q.rows : q.rows[i].key = column

LEMMA NothingIsProper == ASSUME NEW d, NEW n PROVE Decision(d, Nothing, n)
BY DEF Decision, Proper, DetailsWell, DecidesWell, OneRowPerId, Numbered, AddsNoRun, DecidesPending, Nothing

LEMMA ExceptNothing ==
  \A x : /\ [Nothing EXCEPT !.add = x] = [set |-> {}, remove |-> {}, replaces |-> {}, add |-> x]
         /\ [Nothing EXCEPT !.set = x] = [set |-> x, remove |-> {}, replaces |-> {}, add |-> {}]
         /\ [Nothing EXCEPT !.remove = x] = [set |-> {}, remove |-> x, replaces |-> {}, add |-> {}]
BY DEF Nothing

\* The identifiers of a call are its own, and each is made once.
LEMMA RowsBounded == MaxRows \in Nat /\ {0, 1} \subseteq 0..MaxRows
BY SMT DEF MaxRows

LEMMA FirstId ==
  ASSUME NEW n \in Nat, NEW i \in 0..MaxRows, NEW j \in 0..MaxRows
  PROVE  NewId(n, i, j) \in IdsOf(n)
<1>1. i \in Nat /\ j \in Nat /\ i <= 9999 /\ j <= 9999
  BY SMT DEF MaxRows
<1>2. /\ NewId(n, i, j) \in Int /\ NewId(n, 0, 0) \in Int /\ NewId(n, MaxRows, MaxRows) \in Int
      /\ NewId(n, 0, 0) <= NewId(n, i, j)
  BY <1>1, SMT DEF NewId, MaxRows
<1>3. NewId(n, i, j) <= NewId(n, MaxRows, MaxRows)
  BY <1>1, SMT DEF NewId, MaxRows
<1>4. QED
  BY <1>2, <1>3 DEF IdsOf

LEMMA MadeOnce ==
  ASSUME NEW n \in Nat, NEW i \in 0..MaxRows, NEW j \in 0..MaxRows,
         NEW k \in 0..MaxRows, NEW l \in 0..MaxRows, NewId(n, i, j) = NewId(n, k, l)
  PROVE  i = k /\ j = l
<1>1. i \in Nat /\ j \in Nat /\ k \in Nat /\ l \in Nat
      /\ i < 10000 /\ j < 10000 /\ k < 10000 /\ l < 10000
  BY SMT DEF MaxRows
<1>2. 10000 * i + j = 10000 * k + l
  BY <1>1, SMT DEF NewId
<1>3. QED
  BY <1>1, <1>2, SMT

\* One row is added, which is neither a role nor a requirement nor a run.
LEMMA OneAddedIsProper ==
  ASSUME NEW d, NEW n \in Nat, NEW row, row.id = NewId(n, 0, 0),
         row.table \notin {"skills", "posts", "runs"},
         RowWell(d, row),
         row.table = "leaves" => row.values.note = {}
  PROVE  Decision(d, [Nothing EXCEPT !.add = {row}], n)
<1> DEFINE effect == [set |-> {}, remove |-> {}, replaces |-> {}, add |-> {row}]
<1>1. [Nothing EXCEPT !.add = {row}] = effect
  BY ExceptNothing
<1>2. row.id \in IdsOf(n)
  BY FirstId, RowsBounded
<1>3. effect.set = {} /\ effect.remove = {} /\ effect.replaces = {} /\ effect.add = {row}
  OBVIOUS
<1> HIDE DEF effect
<1>4. Decision(d, effect, n)
  BY <1>2, <1>3
     DEF Decision, Proper, DetailsWell, DecidesWell, OneRowPerId, Numbered, AddsNoRun, DecidesPending
<1>5. QED
  BY <1>1, <1>4

\* Columns of one row are written.
LEMMA OneChangedIsProper ==
  ASSUME NEW d, NEW n, NEW t \in {"employees", "types", "pairs", "leaves", "requests", "policy"},
         NEW i, NEW new,
         \A column \in DOMAIN new : ColumnWell(d, Nothing, t, column, new[column]),
         t = "requests" => i \in DOMAIN d.requests /\ d.requests[i].status = "pending"
  PROVE  Decision(d, [Nothing EXCEPT !.set = Changed(d, t, i, new)], n)
<1> DEFINE sets == Changed(d, t, i, new)
           effect == [set |-> sets, remove |-> {}, replaces |-> {}, add |-> {}]
<1>1. [Nothing EXCEPT !.set = sets] = effect
  BY ExceptNothing
<1>2. ASSUME NEW w \in sets
      PROVE  /\ w.table = t /\ w.id = i /\ sets = {w}
             /\ \A column \in DOMAIN w.new : ColumnWell(d, Nothing, t, column, w.new[column])
  BY <1>2, ChangedFacts
<1> HIDE DEF sets
<1>3. effect.set = sets /\ effect.remove = {} /\ effect.replaces = {} /\ effect.add = {}
  OBVIOUS
<1> HIDE DEF effect
<1>4. AddedIds(effect, "leaves") = AddedIds(Nothing, "leaves")
  BY <1>3 DEF AddedIds, Nothing
<1>5. \A w \in sets : SetWell(d, effect, w)
  BY <1>2, <1>4 DEF SetWell, ColumnWell
<1>6. Decision(d, effect, n)
  BY <1>2, <1>3, <1>5
     DEF Decision, Proper, DetailsWell, DecidesWell, OneRowPerId, Numbered, AddsNoRun, DecidesPending
<1>7. QED
  BY <1>1, <1>6 DEF sets

LEMMA RemovingIsProper ==
  ASSUME NEW d, NEW n, NEW remove
  PROVE  Decision(d, [Nothing EXCEPT !.remove = remove], n)
<1> DEFINE effect == [set |-> {}, remove |-> remove, replaces |-> {}, add |-> {}]
<1>1. [Nothing EXCEPT !.remove = remove] = effect
  BY ExceptNothing
<1>2. effect.set = {} /\ effect.replaces = {} /\ effect.add = {}
  OBVIOUS
<1> HIDE DEF effect
<1>3. Decision(d, effect, n)
  BY <1>2
     DEF Decision, Proper, DetailsWell, DecidesWell, OneRowPerId, Numbered, AddsNoRun, DecidesPending
<1>4. QED
  BY <1>1, <1>3

-----------------------------------------------------------------------------
(* Batches of employees and shift types.                                   *)

LEMMA MinMaxInside ==
  ASSUME NEW N \in Nat, NEW S, S \subseteq 1..N, S # {}
  PROVE  Min(S) \in S /\ Max(S) \in S
<1>1. ASSUME NEW T, T \subseteq Nat, T # {} PROVE \E x \in T : \A y \in T : x =< y
  <2>1. PICK x \in T : \A y \in T : <<y, x>> \notin OpToRel(<, Nat)
    BY <1>1, NatLessThanWellFounded, WFMin
  <2>2. ASSUME NEW y \in T PROVE x =< y
    <3>1. x \in Nat /\ y \in Nat
      BY <1>1
    <3>2. <<y, x>> \notin OpToRel(<, Nat)
      BY <2>1
    <3>3. ~(y < x)
      BY <3>1, <3>2 DEF OpToRel
    <3>4. QED
      BY <3>1, <3>3
  <2>3. QED
    BY <2>2
<1>2. \E x \in S : \A y \in S : x =< y
  <2>1. S \subseteq Nat /\ S # {}
    OBVIOUS
  <2>2. QED
    BY <1>1, <2>1
<1>3. \E x \in S : \A y \in S : x >= y
  <2> DEFINE T == {N - x : x \in S}
  <2>1. \A x \in S : N - x \in Nat
    OBVIOUS
  <2>2. T \subseteq Nat /\ T # {}
    BY <2>1, Zenon
  <2>3. PICK z \in T : \A y \in T : z =< y
    BY <1>1, <2>2
  <2>4. PICK x \in S : z = N - x
    OBVIOUS
  <2>5. \A y \in S : N - x =< N - y
    BY <2>3, <2>4
  <2>6. \A y \in S : x >= y
    BY <2>5
  <2>7. QED
    BY <2>6
<1>4. QED
  BY <1>2, <1>3 DEF Min, Max

LEMMA BatchIsProper ==
  ASSUME NEW d, NEW n, NEW sets, NEW replaces, NEW adds, NEW effect,
         effect = [set |-> sets, remove |-> {}, replaces |-> replaces, add |-> adds],
         \A w \in sets : w.table \in {"employees", "types"},
         replaces \subseteq Owners(d),
         \A r \in adds : /\ r.table \in {"employees", "skills", "types", "posts"}
                         /\ RowWell(d, r)
                         /\ r.id \in IdsOf(n),
         DetailsWell(effect),
         OneRowPerId(effect)
  PROVE  Decision(d, effect, n)
<1>1. effect.set = sets /\ effect.replaces = replaces /\ effect.add = adds
  OBVIOUS
<1>2. \A w \in sets : SetWell(d, effect, w)
  BY DEF SetWell, ColumnWell
<1>3. QED
  BY <1>1, <1>2 DEF Decision, Proper, DecidesWell, Numbered, AddsNoRun, DecidesPending

LEMMA EmployeesIsProper ==
  ASSUME NEW d, NEW rows, NEW n \in Nat, RowsWellFormed("employees", rows), KnownRoles(rows)
  PROVE  /\ Decision(d, EmployeesEffect(d, rows, n), n)
         /\ \A set : (\A w \in set : w.table = "employees") =>
              Decision(d, [EmployeesEffect(d, rows, n) EXCEPT !.set = set], n)
<1> DEFINE codes == {rows[i].code : i \in Indices(rows)}
           With(code) == {i \in Indices(rows) : rows[i].code = code}
           known == {code \in codes : ByCode(d, code) # {}}
           Id(code) == IF code \in known THEN TheId(ByCode(d, code))
                       ELSE NewId(n, Min(With(code)), 0)
           index(code) == Max(With(code))
           Values(code) == [code |-> code, active |-> TRUE, cap |-> rows[index(code)].cap]
           Kept1(roles) == {j \in DOMAIN roles : \A k \in 1..(j - 1) : roles[k] # roles[j]}
           Skills(code) ==
             LET roles == rows[index(code)].roles IN
             {Row("skills", NewId(n, index(code), j), [employee |-> Id(code), role |-> roles[j]]) :
                j \in Kept1(roles)}
           sets == UNION {Changed(d, "employees", Id(code), Values(code)) : code \in known}
           replaces == {<<"employees", Id(code)>> : code \in known}
           fresh == {Row("employees", Id(code), Values(code)) : code \in codes \ known}
           adds == fresh \cup UNION {Skills(code) : code \in codes}
<1>1. EmployeesEffect(d, rows, n) =
        [Nothing EXCEPT !.set = sets, !.replaces = replaces, !.add = adds]
  BY DEF EmployeesEffect
<1>2. \A w \in sets : w.table = "employees"
  <2> HIDE DEF Id, Values, known
  <2>1. QED
    BY ChangedFacts
<1>3. ASSUME NEW code \in codes
      PROVE  /\ Min(With(code)) \in With(code) /\ Max(With(code)) \in With(code)
             /\ With(code) \subseteq Indices(rows)
             /\ With(code) \subseteq 1..MaxRows
  <2>1. With(code) # {} /\ With(code) \subseteq 1..MaxRows
    BY DEF RowsWellFormed, Indices
  <2>2. QED
    BY <2>1, RowsBounded, MinMaxInside
<1>4. ASSUME NEW code \in known PROVE Id(code) \in DOMAIN d.employees
  <2>1. ByCode(d, code) # {}
    BY <1>4
  <2>2. Id(code) = TheId(ByCode(d, code))
    BY <1>4
  <2>3. Id(code) \in ByCode(d, code)
    BY <2>1, <2>2 DEF TheId
  <2>4. QED
    BY <2>3 DEF ByCode
<1> HIDE DEF Id
<1>5. replaces \subseteq Owners(d)
  BY <1>4 DEF Owners
<1> HIDE DEF Values
<1>6. ASSUME NEW r \in fresh
      PROVE  \E code \in codes \ known :
               /\ r.table = "employees"
               /\ r.id = NewId(n, Min(With(code)), 0)
               /\ r = Row("employees", Id(code), Values(code))
               /\ r.values = Values(code)
  BY <1>6 DEF Row, Id
<1>7. \A code \in codes : \A j \in DOMAIN rows[index(code)].roles :
        /\ j \in 0..MaxRows /\ index(code) \in 0..MaxRows
        /\ rows[index(code)].roles[j] \in Roles
  <2>1. \A code \in codes : index(code) \in Indices(rows) /\ index(code) \in 1..MaxRows
    BY <1>3
  <2> HIDE DEF index, codes
  <2>2. \A i \in Indices(rows) : DOMAIN rows[i].roles \subseteq 1..MaxRows
    BY DEF RowsWellFormed, Indices
  <2>3. \A i \in Indices(rows) : \A j \in DOMAIN rows[i].roles : rows[i].roles[j] \in Roles
    BY DEF KnownRoles
  <2>4. QED
    BY <2>1, <2>2, <2>3, RowsBounded
<1>8. ASSUME NEW r \in adds, r \notin fresh
      PROVE  \E code \in codes, j \in 0..MaxRows :
               /\ r.table = "skills"
               /\ r.id = NewId(n, index(code), j)
               /\ r = Row("skills", NewId(n, index(code), j),
                          [employee |-> Id(code), role |-> rows[index(code)].roles[j]])
               /\ r.values = [employee |-> Id(code), role |-> rows[index(code)].roles[j]]
               /\ index(code) \in 0..MaxRows /\ rows[index(code)].roles[j] \in Roles
  <2>1. PICK code \in codes : r \in Skills(code)
    BY <1>8
  <2>2. PICK j \in DOMAIN rows[index(code)].roles :
          r = Row("skills", NewId(n, index(code), j),
                  [employee |-> Id(code), role |-> rows[index(code)].roles[j]])
    BY <2>1
  <2> HIDE DEF Id, index
  <2>3. QED
    BY <1>7, <2>2 DEF Row
<1>9. \A code \in codes \ known : Min(With(code)) \in 0..MaxRows /\ 0 \in 0..MaxRows
  <2>1. \A code \in codes : Min(With(code)) \in 1..MaxRows
    BY <1>3
  <2> HIDE DEF With, codes
  <2>2. QED
    BY <2>1, RowsBounded
<1>10. ASSUME NEW code1 \in codes, NEW code2 \in codes,
              \/ Min(With(code1)) = Min(With(code2))
              \/ Max(With(code1)) = Max(With(code2))
       PROVE  code1 = code2
  BY <1>3, <1>10
<1> DEFINE effect(set) == [set |-> set, remove |-> {}, replaces |-> replaces, add |-> adds]
<1> HIDE DEF Values, Kept1
<1>11. ASSUME NEW code \in codes, NEW set PROVE <<"employees", Id(code)>> \in GivenTo(effect(set))
  <2>1. CASE code \in known
    BY <2>1 DEF GivenTo
  <2>2. CASE code \notin known
    <3> DEFINE row == Row("employees", Id(code), Values(code))
    <3>1. row \in effect(set).add /\ row.table = "employees" /\ row.id = Id(code)
      BY <2>2 DEF Row
    <3> HIDE DEF Id
    <3>2. QED
      BY <3>1 DEF GivenTo
  <2>3. QED
    BY <2>1, <2>2
<1>12. \A code : DOMAIN Values(code) = ColumnsOf["employees"]
  BY DEF Values, ColumnsOf
<1>13. "employees" \in TableNames /\ "skills" \in TableNames
  BY DEF TableNames, ColumnsOf
<1>14. \A e, role : DOMAIN [employee |-> e, role |-> role] = ColumnsOf["skills"]
  BY DEF ColumnsOf
<1> HIDE DEF Id, index, With, known, codes, sets, replaces, fresh, adds
<1>15. ASSUME NEW r \in adds
       PROVE  /\ r.table \in {"employees", "skills", "types", "posts"}
              /\ RowWell(d, r)
              /\ r.id \in IdsOf(n)
  <2>1. CASE r \in fresh
    <3>1. PICK code \in codes \ known :
            r.table = "employees" /\ r.id = NewId(n, Min(With(code)), 0) /\ r.values = Values(code)
      BY <1>6, <2>1
    <3>2. r.id \in IdsOf(n)
      BY <1>9, <3>1, FirstId
    <3>3. QED
      BY <1>12, <1>13, <3>1, <3>2 DEF RowWell
  <2>2. CASE r \notin fresh
    <3>1. PICK code \in codes, j \in 0..MaxRows :
            /\ r.table = "skills" /\ r.id = NewId(n, index(code), j)
            /\ r.values = [employee |-> Id(code), role |-> rows[index(code)].roles[j]]
            /\ index(code) \in 0..MaxRows /\ rows[index(code)].roles[j] \in Roles
      BY <1>8, <2>2
    <3>2. r.id \in IdsOf(n)
      BY <3>1, FirstId
    <3>3. QED
      BY <1>13, <1>14, <3>1, <3>2 DEF RowWell
  <2>3. QED
    BY <2>1, <2>2
<1>16. ASSUME NEW r \in adds, NEW s \in adds, r.table = s.table, r.id = s.id PROVE r = s
  <2>1. CASE r \in fresh
    <3>1. PICK code1 \in codes \ known :
            /\ r.table = "employees" /\ r.id = NewId(n, Min(With(code1)), 0)
            /\ r = Row("employees", Id(code1), Values(code1))
      BY <1>6, <2>1
    <3>2. s \in fresh
      BY <1>8, <1>16, <3>1
    <3>3. PICK code2 \in codes \ known :
            /\ s.id = NewId(n, Min(With(code2)), 0)
            /\ s = Row("employees", Id(code2), Values(code2))
      BY <1>6, <3>2
    <3>4. Min(With(code1)) = Min(With(code2))
      <4>1. NewId(n, Min(With(code1)), 0) = NewId(n, Min(With(code2)), 0)
        BY <1>16, <3>1, <3>3
      <4>2. QED
        BY <1>9, <4>1, MadeOnce
    <3>5. QED
      BY <1>10, <3>1, <3>3, <3>4
  <2>2. CASE r \notin fresh
    <3>1. PICK code1 \in codes, j1 \in 0..MaxRows :
            /\ index(code1) \in 0..MaxRows
            /\ r.table = "skills" /\ r.id = NewId(n, index(code1), j1)
            /\ r = Row("skills", NewId(n, index(code1), j1),
                       [employee |-> Id(code1), role |-> rows[index(code1)].roles[j1]])
      BY <1>8, <2>2
    <3>2. s \notin fresh
      BY <1>6, <1>16, <3>1
    <3>3. PICK code2 \in codes, j2 \in 0..MaxRows :
            /\ index(code2) \in 0..MaxRows
            /\ s.id = NewId(n, index(code2), j2)
            /\ s = Row("skills", NewId(n, index(code2), j2),
                       [employee |-> Id(code2), role |-> rows[index(code2)].roles[j2]])
      BY <1>8, <3>2
    <3>4. index(code1) = index(code2) /\ j1 = j2
      <4>1. NewId(n, index(code1), j1) = NewId(n, index(code2), j2)
        BY <1>16, <3>1, <3>3
      <4>2. index(code1) \in 0..MaxRows /\ index(code2) \in 0..MaxRows
        BY <3>1, <3>3
      <4>3. QED
        BY <4>1, <4>2, MadeOnce
    <3>5. code1 = code2
      BY <1>10, <3>4 DEF index
    <3>6. QED
      BY <3>1, <3>3, <3>4, <3>5
  <2>3. QED
    BY <2>1, <2>2
<1>17. ASSUME NEW set, \A w \in set : w.table = "employees" PROVE Decision(d, effect(set), n)
  <2>1. DetailsWell(effect(set))
    <3>1. effect(set).add = adds
      OBVIOUS
    <3>2. ASSUME NEW r \in adds
          PROVE  /\ r.table # "posts"
                 /\ r.table = "skills" => <<"employees", r.values.employee>> \in GivenTo(effect(set))
      <4>1. CASE r \in fresh
        BY <1>6, <4>1
      <4>2. CASE r \notin fresh
        <5>1. PICK code \in codes, j \in 0..MaxRows :
                /\ r.table = "skills"
                /\ r.values = [employee |-> Id(code), role |-> rows[index(code)].roles[j]]
          BY <1>8, <4>2
        <5>2. r.values.employee = Id(code)
          BY <5>1
        <5>3. QED
          BY <1>11, <5>1, <5>2
      <4>3. QED
        BY <4>1, <4>2
    <3> HIDE DEF effect
    <3>3. QED
      BY <3>1, <3>2 DEF DetailsWell
  <2>2. OneRowPerId(effect(set))
    BY <1>16 DEF OneRowPerId
  <2>3. QED
    BY <1>5, <1>15, <1>17, <2>1, <2>2, BatchIsProper
<1>18. EmployeesEffect(d, rows, n) = effect(sets)
  BY <1>1 DEF Nothing
<1>19. \A set : [EmployeesEffect(d, rows, n) EXCEPT !.set = set] = effect(set)
  BY <1>18
<1> HIDE DEF effect
<1>20. QED
  BY <1>2, <1>17, <1>18, <1>19

LEMMA TypesIsProper ==
  ASSUME NEW d, NEW rows, NEW n \in Nat, DOMAIN rows \subseteq 1..MaxRows,
         \A i \in DOMAIN rows : rows[i].role \in Roles
  PROVE  /\ Decision(d, TypesEffect(d, rows, n), n)
         /\ \A set : (\A w \in set : w.table = "types") =>
              Decision(d, [TypesEffect(d, rows, n) EXCEPT !.set = set], n)
<1> DEFINE names == {rows[i].name : i \in Indices(rows)}
           Named(name) == {t \in DOMAIN d.types : d.types[t].name = name}
           known == {name \in names : Named(name) # {}}
           With(name) == {i \in Indices(rows) : rows[i].name = name}
           first(name) == Min(With(name))
           Id(name) == IF name \in known THEN TheId(Named(name)) ELSE NewId(n, first(name), 0)
           Values(name) == Definition(rows[first(name)])
           Post(i) == [type |-> Id(rows[i].name), role |-> rows[i].role, count |-> rows[i].count]
           Posts(i) == Row("posts", NewId(n, i, 1), Post(i))
           sets == UNION {Changed(d, "types", Id(name), Values(name)) : name \in known}
           replaces == {<<"types", Id(name)>> : name \in known}
           fresh == {Row("types", Id(name), Values(name)) : name \in names \ known}
           adds == fresh \cup {Posts(i) : i \in Indices(rows)}
<1>1. TypesEffect(d, rows, n) =
        [Nothing EXCEPT !.set = sets, !.replaces = replaces, !.add = adds]
  BY DEF TypesEffect
<1>2. \A w \in sets : w.table = "types"
  <2> HIDE DEF Id, Values, known
  <2>1. QED
    BY ChangedFacts
<1>3. ASSUME NEW name \in names PROVE first(name) \in With(name) /\ first(name) \in 1..MaxRows
  <2>1. With(name) # {} /\ With(name) \subseteq 1..MaxRows
    BY DEF Indices
  <2> HIDE DEF With
  <2>2. QED
    BY <2>1, RowsBounded, MinMaxInside
<1>4. ASSUME NEW name \in known PROVE Id(name) \in DOMAIN d.types
  <2>1. Id(name) \in Named(name)
    BY <1>4 DEF TheId
  <2>2. QED
    BY <2>1
<1>5. \A name \in names \ known : Id(name) = NewId(n, first(name), 0)
  OBVIOUS
<1> HIDE DEF Id, first
<1>6. replaces \subseteq Owners(d)
  BY <1>4 DEF Owners
<1> HIDE DEF Values, Post, known
<1>7. ASSUME NEW r \in fresh
      PROVE  \E name \in names \ known :
               /\ r.table = "types"
               /\ r.id = NewId(n, first(name), 0)
               /\ r = Row("types", Id(name), Values(name))
               /\ r.values = Values(name)
  BY <1>5, <1>7 DEF Row
<1>8. ASSUME NEW r \in adds, r \notin fresh
      PROVE  \E i \in Indices(rows) :
               /\ r.table = "posts"
               /\ r.id = NewId(n, i, 1)
               /\ r = Row("posts", NewId(n, i, 1), Post(i))
               /\ r.values = Post(i)
  BY <1>8 DEF Row
<1>9. \A i \in Indices(rows) :
        /\ i \in 0..MaxRows /\ Post(i).role \in Roles /\ DOMAIN Post(i) = ColumnsOf["posts"]
        /\ Post(i).type = Id(rows[i].name) /\ rows[i].name \in names
  BY RowsBounded DEF Post, Indices, ColumnsOf
<1>10. \A name \in names : first(name) \in 0..MaxRows
  <2> HIDE DEF With, names
  <2>1. QED
    BY <1>3, RowsBounded
<1>11. ASSUME NEW name1 \in names, NEW name2 \in names, first(name1) = first(name2)
       PROVE  name1 = name2
  BY <1>3, <1>11
<1>12. 0 \in 0..MaxRows /\ 1 \in 0..MaxRows
  BY RowsBounded
<1> DEFINE effect(set) == [set |-> set, remove |-> {}, replaces |-> replaces, add |-> adds]
<1>13. ASSUME NEW name \in names, NEW set PROVE <<"types", Id(name)>> \in GivenTo(effect(set))
  <2>1. CASE name \in known
    BY <2>1 DEF GivenTo
  <2>2. CASE name \notin known
    <3> DEFINE row == Row("types", Id(name), Values(name))
    <3>1. row \in effect(set).add /\ row.table = "types" /\ row.id = Id(name)
      BY <2>2 DEF Row
    <3>2. QED
      BY <3>1 DEF GivenTo
  <2>3. QED
    BY <2>1, <2>2
<1>14. \A name : DOMAIN Values(name) = ColumnsOf["types"]
  BY DEF Values, ColumnsOf, Definition
<1>15. "types" \in TableNames /\ "posts" \in TableNames
  BY DEF TableNames, ColumnsOf
<1> HIDE DEF With, names, sets, replaces, fresh, adds
<1>16. ASSUME NEW r \in adds
       PROVE  /\ r.table \in {"employees", "skills", "types", "posts"}
              /\ RowWell(d, r)
              /\ r.id \in IdsOf(n)
  <2>1. CASE r \in fresh
    <3>1. PICK name \in names \ known :
            r.table = "types" /\ r.id = NewId(n, first(name), 0) /\ r.values = Values(name)
      BY <1>7, <2>1
    <3>2. r.id \in IdsOf(n)
      BY <1>10, <1>12, <3>1, FirstId
    <3>3. QED
      BY <1>14, <1>15, <3>1, <3>2 DEF RowWell
  <2>2. CASE r \notin fresh
    <3>1. PICK i \in Indices(rows) : r.table = "posts" /\ r.id = NewId(n, i, 1) /\ r.values = Post(i)
      BY <1>8, <2>2
    <3>2. r.id \in IdsOf(n)
      BY <1>9, <1>12, <3>1, FirstId
    <3>3. QED
      BY <1>9, <1>15, <3>1, <3>2 DEF RowWell
  <2>3. QED
    BY <2>1, <2>2
<1>17. ASSUME NEW r \in adds, NEW s \in adds, r.table = s.table, r.id = s.id PROVE r = s
  <2>1. CASE r \in fresh
    <3>1. PICK name1 \in names \ known :
            /\ r.table = "types" /\ r.id = NewId(n, first(name1), 0)
            /\ r = Row("types", Id(name1), Values(name1))
      BY <1>7, <2>1
    <3>2. s \in fresh
      BY <1>8, <1>17, <3>1
    <3>3. PICK name2 \in names \ known :
            /\ s.id = NewId(n, first(name2), 0)
            /\ s = Row("types", Id(name2), Values(name2))
      BY <1>7, <3>2
    <3>4. NewId(n, first(name1), 0) = NewId(n, first(name2), 0)
      BY <1>17, <3>1, <3>3
    <3>5. first(name1) = first(name2)
      BY <1>10, <1>12, <3>4, MadeOnce
    <3>6. QED
      BY <1>11, <3>1, <3>3, <3>5
  <2>2. CASE r \notin fresh
    <3>1. PICK i1 \in Indices(rows) :
            r.table = "posts" /\ r.id = NewId(n, i1, 1) /\ r = Row("posts", NewId(n, i1, 1), Post(i1))
      BY <1>8, <2>2
    <3>2. s \notin fresh
      BY <1>7, <1>17, <3>1
    <3>3. PICK i2 \in Indices(rows) :
            s.id = NewId(n, i2, 1) /\ s = Row("posts", NewId(n, i2, 1), Post(i2))
      BY <1>8, <3>2
    <3>4. NewId(n, i1, 1) = NewId(n, i2, 1)
      BY <1>17, <3>1, <3>3
    <3>5. i1 = i2
      BY <1>9, <1>12, <3>4, MadeOnce
    <3>6. QED
      BY <3>1, <3>3, <3>5
  <2>3. QED
    BY <2>1, <2>2
<1>18. ASSUME NEW set, \A w \in set : w.table = "types" PROVE Decision(d, effect(set), n)
  <2>1. DetailsWell(effect(set))
    <3>1. effect(set).add = adds
      OBVIOUS
    <3>2. ASSUME NEW r \in adds
          PROVE  /\ r.table # "skills"
                 /\ r.table = "posts" => <<"types", r.values.type>> \in GivenTo(effect(set))
      <4>1. CASE r \in fresh
        BY <1>7, <4>1
      <4>2. CASE r \notin fresh
        <5>1. PICK i \in Indices(rows) : r.table = "posts" /\ r.values = Post(i)
          BY <1>8, <4>2
        <5>2. QED
          BY <1>9, <1>13, <5>1
      <4>3. QED
        BY <4>1, <4>2
    <3> HIDE DEF effect
    <3>3. QED
      BY <3>1, <3>2 DEF DetailsWell
  <2>2. OneRowPerId(effect(set))
    BY <1>17 DEF OneRowPerId
  <2>3. QED
    BY <1>6, <1>16, <1>18, <2>1, <2>2, BatchIsProper
<1>19. TypesEffect(d, rows, n) = effect(sets)
  BY <1>1 DEF Nothing
<1>20. \A set : [TypesEffect(d, rows, n) EXCEPT !.set = set] = effect(set)
  BY <1>19
<1> HIDE DEF effect
<1>21. QED
  BY <1>2, <1>18, <1>19, <1>20

-----------------------------------------------------------------------------
(* Batches of pairs, leaves and policy keys.                               *)

LEMMA PlainBatchIsProper ==
  ASSUME NEW d, NEW n, NEW sets, NEW adds, NEW effect,
         effect = [set |-> sets, remove |-> {}, replaces |-> {}, add |-> adds],
         \A w \in sets : w.table = "pairs" /\ DOMAIN w.new \subseteq {"severity", "active"},
         \A r \in adds : /\ r.table \in {"pairs", "leaves"}
                         /\ r.table = "leaves" => r.values.note = {}
                         /\ RowWell(d, r)
                         /\ r.id \in IdsOf(n),
         OneRowPerId(effect)
  PROVE  Decision(d, effect, n)
<1>1. effect.set = sets /\ effect.replaces = {} /\ effect.add = adds
  OBVIOUS
<1>2. \A w \in sets : SetWell(d, effect, w)
  BY DEF SetWell, ColumnWell
<1>3. QED
  BY <1>1, <1>2 DEF Decision, Proper, DetailsWell, DecidesWell, Numbered, AddsNoRun, DecidesPending

LEMMA KnownCode == ASSUME NEW d, NEW code, ByCode(d, code) # {} PROVE TheId(ByCode(d, code)) \in DOMAIN d.employees
<1>1. TheId(ByCode(d, code)) \in ByCode(d, code)
  BY DEF TheId
<1>2. QED
  BY <1>1 DEF ByCode

LEMMA PairRowOf ==
  ASSUME NEW employees, NEW a \in employees, NEW b \in employees, NEW kind, NEW severity, NEW active,
         NEW row, row = PairRow(a, b, kind, severity, active)
  PROVE  /\ {row.a, row.b, row.na, row.nb} \subseteq employees
         /\ DOMAIN row = ColumnsOf["pairs"]
BY DEF PairRow, Lower, Upper, ColumnsOf

LEMMA PairsIsProper ==
  ASSUME NEW d, NEW rows, NEW n \in Nat, DOMAIN rows \subseteq 1..MaxRows, ValidPairs(d, rows)
  PROVE  Decision(d, PairsEffect(d, rows, n), n)
<1> DEFINE Id(code) == TheId(ByCode(d, code))
           Made(i) == PairRow(Id(rows[i].a), Id(rows[i].b), rows[i].kind, rows[i].severity, TRUE)
           Stored(i) == {p \in DOMAIN d.pairs : SamePair(d.pairs[p], Made(i))}
           firsts == {i \in Indices(rows) : \A k \in 1..(i - 1) : ~SamePair(Made(k), Made(i))}
           severity(i) ==
             rows[Max({k \in Indices(rows) : SamePair(Made(k), Made(i))})].severity
           new == {i \in firsts : Stored(i) = {}}
           Written1(i) == [severity |-> severity(i), active |-> TRUE]
           Values(i) == [Made(i) EXCEPT !.severity = severity(i)]
           sets == UNION {Changed(d, "pairs", TheId(Stored(i)), Written1(i)) : i \in firsts \ new}
           adds == {Row("pairs", NewId(n, i, 0), Values(i)) : i \in new}
           effect == [set |-> sets, remove |-> {}, replaces |-> {}, add |-> adds]
<1>1. PairsEffect(d, rows, n) = [Nothing EXCEPT !.set = sets, !.add = adds]
  BY DEF PairsEffect
<1>2. PairsEffect(d, rows, n) = effect
  <2> HIDE DEF sets, adds
  <2>1. QED
    BY <1>1 DEF Nothing
<1>3. ASSUME NEW i \in Indices(rows)
      PROVE  /\ {Values(i).a, Values(i).b, Values(i).na, Values(i).nb} \subseteq DOMAIN d.employees
             /\ DOMAIN Values(i) = ColumnsOf["pairs"]
  <2>1. Id(rows[i].a) \in DOMAIN d.employees /\ Id(rows[i].b) \in DOMAIN d.employees
    BY <1>3, KnownCode DEF ValidPairs, Indices
  <2> DEFINE a == Id(rows[i].a)
             b == Id(rows[i].b)
             kind == rows[i].kind
             worst == severity(i)
             active == TRUE
             row == Values(i)
  <2> HIDE DEF severity, Id
  <2>2. row = PairRow(a, b, kind, worst, active)
    <3>1. ASSUME NEW values, values = [Made(i) EXCEPT !.severity = severity(i)]
          PROVE  values = PairRow(Id(rows[i].a), Id(rows[i].b), rows[i].kind, severity(i), TRUE)
      BY <3>1 DEF PairRow
    <3>2. QED
      BY <3>1
  <2> HIDE DEF a, b, kind, worst, active, row
  <2>3. a \in DOMAIN d.employees /\ b \in DOMAIN d.employees
    BY <2>1 DEF a, b
  <2>4. {row.a, row.b, row.na, row.nb} \subseteq DOMAIN d.employees /\ DOMAIN row = ColumnsOf["pairs"]
    BY <2>2, <2>3, PairRowOf
  <2>5. QED
    BY <2>4 DEF row
<1>4. \A w \in sets : w.table = "pairs" /\ DOMAIN w.new \subseteq {"severity", "active"}
  <2> SUFFICES ASSUME NEW i, NEW w \in Changed(d, "pairs", TheId(Stored(i)), Written1(i))
               PROVE  w.table = "pairs" /\ DOMAIN w.new \subseteq {"severity", "active"}
    OBVIOUS
  <2> DEFINE id == TheId(Stored(i))
             written == Written1(i)
  <2>1. DOMAIN written = {"severity", "active"}
    OBVIOUS
  <2>2. w \in Changed(d, "pairs", id, written)
    OBVIOUS
  <2> HIDE DEF id, written
  <2>3. QED
    BY <2>1, <2>2, ChangedFacts
<1>5. new \subseteq Indices(rows)
  OBVIOUS
<1>6. ASSUME NEW r \in adds
      PROVE  \E i \in new : /\ r.table = "pairs" /\ r.id = NewId(n, i, 0)
                            /\ r = Row("pairs", NewId(n, i, 0), Values(i))
                            /\ r.values = Values(i)
  <2> HIDE DEF Values, new
  <2>1. QED
    BY <1>6 DEF Row
<1>7. \A i \in Indices(rows) : i \in 0..MaxRows
  BY RowsBounded DEF Indices
<1>8. 0 \in 0..MaxRows
  BY RowsBounded
<1>9. "pairs" \in TableNames
  BY DEF TableNames, ColumnsOf
<1> HIDE DEF sets, adds, new, Values
<1>10. ASSUME NEW r \in adds
       PROVE  /\ r.table \in {"pairs", "leaves"}
              /\ r.table = "leaves" => r.values.note = {}
              /\ RowWell(d, r)
              /\ r.id \in IdsOf(n)
  <2>1. PICK i \in Indices(rows) : r.table = "pairs" /\ r.id = NewId(n, i, 0) /\ r.values = Values(i)
    BY <1>5, <1>6
  <2>2. r.id \in IdsOf(n)
    BY <1>7, <1>8, <2>1, FirstId
  <2>3. QED
    BY <1>3, <1>9, <2>1, <2>2 DEF RowWell
<1>11. ASSUME NEW r \in adds, NEW s \in adds, r.id = s.id PROVE r = s
  <2>1. PICK i \in Indices(rows) : r.id = NewId(n, i, 0) /\ r = Row("pairs", NewId(n, i, 0), Values(i))
    BY <1>5, <1>6
  <2>2. PICK k \in Indices(rows) : s.id = NewId(n, k, 0) /\ s = Row("pairs", NewId(n, k, 0), Values(k))
    BY <1>5, <1>6
  <2>3. NewId(n, i, 0) = NewId(n, k, 0)
    BY <1>11, <2>1, <2>2
  <2>4. i = k
    BY <1>7, <1>8, <2>3, MadeOnce
  <2>5. QED
    BY <2>1, <2>2, <2>4
<1>12. OneRowPerId(effect)
  BY <1>11 DEF OneRowPerId
<1>13. QED
  BY <1>2, <1>4, <1>10, <1>12, PlainBatchIsProper

LEMMA LeavesIsProper ==
  ASSUME NEW d, NEW rows, NEW n \in Nat, RowsWellFormed("unavailabilities", rows),
         ValidLeaves(d, rows)
  PROVE  Decision(d, LeavesEffect(d, rows, n), n)
<1> DEFINE Values(i) == LeaveRow(TheId(ByCode(d, rows[i].code)), rows[i].from, rows[i].to,
                                 rows[i].override, {})
           adds == {Row("leaves", NewId(n, i, 0), Values(i)) : i \in Indices(rows)}
           effect == [set |-> {}, remove |-> {}, replaces |-> {}, add |-> adds]
<1>1. LeavesEffect(d, rows, n) = effect
  <2>1. LeavesEffect(d, rows, n) = [Nothing EXCEPT !.add = adds]
    BY DEF LeavesEffect
  <2> HIDE DEF adds
  <2>2. QED
    BY <2>1, ExceptNothing
<1>2. ASSUME NEW i \in Indices(rows)
      PROVE  /\ DOMAIN Values(i) = ColumnsOf["leaves"]
             /\ Values(i).employee \in DOMAIN d.employees
             /\ Values(i).from \in Int
             /\ Values(i).note = {}
  <2>1. TheId(ByCode(d, rows[i].code)) \in DOMAIN d.employees
    BY <1>2, KnownCode DEF ValidLeaves
  <2>2. rows[i].from \in Int
    BY <1>2 DEF RowsWellFormed, Indices
  <2>3. QED
    BY <2>1, <2>2 DEF LeaveRow, ColumnsOf
<1> HIDE DEF Values
<1>3. ASSUME NEW r \in adds
      PROVE  \E i \in Indices(rows) : /\ r.table = "leaves" /\ r.id = NewId(n, i, 0)
                                      /\ r = Row("leaves", NewId(n, i, 0), Values(i))
                                      /\ r.values = Values(i)
  BY <1>3 DEF Row
<1>4. \A i \in Indices(rows) : i \in 0..MaxRows
  BY RowsBounded DEF Indices, RowsWellFormed
<1>5. 0 \in 0..MaxRows
  BY RowsBounded
<1>6. "leaves" \in TableNames
  BY DEF TableNames, ColumnsOf
<1> HIDE DEF adds
<1>7. ASSUME NEW r \in adds
      PROVE  /\ r.table \in {"pairs", "leaves"}
             /\ r.table = "leaves" => r.values.note = {}
             /\ RowWell(d, r)
             /\ r.id \in IdsOf(n)
  <2>1. PICK i \in Indices(rows) : r.table = "leaves" /\ r.id = NewId(n, i, 0) /\ r.values = Values(i)
    BY <1>3
  <2>2. r.id \in IdsOf(n)
    BY <1>4, <1>5, <2>1, FirstId
  <2>3. QED
    BY <1>2, <1>6, <2>1, <2>2 DEF RowWell
<1>8. ASSUME NEW r \in adds, NEW s \in adds, r.id = s.id PROVE r = s
  <2>1. PICK i \in Indices(rows) : r.id = NewId(n, i, 0) /\ r = Row("leaves", NewId(n, i, 0), Values(i))
    BY <1>3
  <2>2. PICK k \in Indices(rows) : s.id = NewId(n, k, 0) /\ s = Row("leaves", NewId(n, k, 0), Values(k))
    BY <1>3
  <2>3. NewId(n, i, 0) = NewId(n, k, 0)
    BY <1>8, <2>1, <2>2
  <2>4. i = k
    BY <1>4, <1>5, <2>3, MadeOnce
  <2>5. QED
    BY <2>1, <2>2, <2>4
<1>9. OneRowPerId(effect)
  BY <1>8 DEF OneRowPerId
<1>10. \A w \in {} : w.table = "pairs" /\ DOMAIN w.new \subseteq {"severity", "active"}
  OBVIOUS
<1>11. \A sets : sets = {} => Decision(d, effect, n)
  BY <1>7, <1>9, <1>10, PlainBatchIsProper
<1>12. QED
  BY <1>1, <1>11

LEMMA PolicyIsProper ==
  ASSUME NEW d, NEW values, NEW n \in Nat, DOMAIN values = ColumnsOf["policy"]
  PROVE  Decision(d, PolicyEffect(d, values, n), n)
<1>1. CASE DOMAIN d.policy = {}
  <2> DEFINE row == Row("policy", NewId(n, 0, 0), values)
  <2>1. row.id = NewId(n, 0, 0) /\ row.table = "policy" /\ row.values = values
    BY DEF Row
  <2>2. PolicyEffect(d, values, n) = [Nothing EXCEPT !.add = {row}]
    BY <1>1 DEF PolicyEffect
  <2>3. "policy" \in TableNames
    BY DEF TableNames, ColumnsOf
  <2> HIDE DEF row
  <2>4. RowWell(d, row)
    BY <2>1, <2>3 DEF RowWell
  <2>5. QED
    BY <2>1, <2>2, <2>4, OneAddedIsProper
<1>2. CASE DOMAIN d.policy # {}
  <2>1. PolicyEffect(d, values, n) =
          [Nothing EXCEPT !.set = Changed(d, "policy", TheId(DOMAIN d.policy), values)]
    BY <1>2 DEF PolicyEffect
  <2> DEFINE t == "policy"
             id == TheId(DOMAIN d.policy)
  <2>2. \A column \in DOMAIN values : ColumnWell(d, Nothing, t, column, values[column])
    BY DEF ColumnWell
  <2>3. /\ t \in {"employees", "types", "pairs", "leaves", "requests", "policy"}
        /\ t # "requests"
    OBVIOUS
  <2>4. PolicyEffect(d, values, n) = [Nothing EXCEPT !.set = Changed(d, t, id, values)]
    BY <2>1
  <2> HIDE DEF t, id
  <2>5. Decision(d, [Nothing EXCEPT !.set = Changed(d, t, id, values)], n)
    BY <2>2, <2>3, OneChangedIsProper
  <2>6. QED
    BY <2>4, <2>5
<1>3. QED
  BY <1>1, <1>2

\* What an import of policy rows saves has the keys of its rows: the values of
\* the others are those that it has read.
LEMMA PolicyRowsIsProper ==
  ASSUME NEW d, Shaped(d), Unique(d), NEW rows, NEW n \in Nat
  PROVE  /\ Decision(d, PolicyRowsEffect(d, rows, n), n)
         /\ \A w \in PolicyRowsEffect(d, rows, n).set :
              /\ w.table = "policy"
              /\ \A column \in DOMAIN w.new : \E i \in DOMAIN rows : rows[i].key = column
<1> DEFINE current == IF StoredPolicy(d) = {} THEN StandardPolicy ELSE TheId(StoredPolicy(d))
           Keyed(key) == {i \in Indices(rows) : rows[i].key = key}
           Value(key) == IF Keyed(key) = {} THEN current[key] ELSE rows[Max(Keyed(key))].value
           values == [key \in DOMAIN current |-> Value(key)]
<1>1. PolicyRowsEffect(d, rows, n) = PolicyEffect(d, values, n)
  BY DEF PolicyRowsEffect
<1>2. "policy" \in TableNames /\ {} \in Keys["policy"]
  BY DEF TableNames, ColumnsOf, Keys
<1>3. DOMAIN current = ColumnsOf["policy"]
  <2>1. CASE StoredPolicy(d) = {}
    BY <2>1 DEF StandardPolicy, ColumnsOf
  <2>2. CASE StoredPolicy(d) # {}
    <3>1. TheId(StoredPolicy(d)) \in StoredPolicy(d)
      BY <2>2 DEF TheId
    <3>2. PICK i \in DOMAIN d.policy : current = d.policy[i]
      BY <2>2, <3>1 DEF StoredPolicy
    <3>3. QED
      BY <1>2, <3>2 DEF Shaped
  <2>3. QED
    BY <2>1, <2>2
<1> HIDE DEF current
<1>4. DOMAIN values = ColumnsOf["policy"]
  BY <1>3
<1>5. CASE DOMAIN d.policy = {}
  <2>1. PolicyEffect(d, values, n).set = {}
    BY <1>5 DEF PolicyEffect, Nothing
  <2> HIDE DEF values
  <2>2. QED
    BY <1>1, <1>4, <2>1, PolicyIsProper
<1>6. CASE DOMAIN d.policy # {}
  <2> DEFINE id == TheId(DOMAIN d.policy)
             sets == Changed(d, "policy", id, values)
  <2>1. id \in DOMAIN d.policy
    BY <1>6 DEF TheId
  <2>2. \A i \in DOMAIN d.policy : i = id
    BY <1>2, <2>1 DEF Unique, UniqueIn
  <2>3. StoredPolicy(d) = {d.policy[id]}
    BY <2>1, <2>2 DEF StoredPolicy
  <2>4. current = d.policy[id]
    BY <2>3 DEF current, TheId
  <2>5. PolicyEffect(d, values, n).set = sets
    <3> HIDE DEF values
    <3>1. PolicyEffect(d, values, n) = [Nothing EXCEPT !.set = sets]
      BY <1>6 DEF PolicyEffect
    <3> HIDE DEF sets
    <3>2. QED
      BY <3>1 DEF Nothing
  <2>6. ASSUME NEW w \in sets
        PROVE  /\ w.table = "policy"
               /\ \A column \in DOMAIN w.new : \E i \in DOMAIN rows : rows[i].key = column
    <3> DEFINE differ == {column \in DOMAIN values : values[column] # d["policy"][id][column]}
    <3>1. sets \subseteq {Columns("policy", id, [x \in differ |-> values[x]])}
      BY DEF Changed, Restrict
    <3> HIDE DEF differ, sets
    <3>2. w.table = "policy" /\ DOMAIN w.new = differ
      BY <2>6, <3>1 DEF Columns
    <3>3. ASSUME NEW column \in DOMAIN w.new PROVE \E i \in DOMAIN rows : rows[i].key = column
      <4>1. column \in DOMAIN current /\ Value(column) # current[column]
        BY <2>4, <3>2, <3>3 DEF differ
      <4>2. Keyed(column) # {}
        BY <4>1
      <4>3. QED
        BY <4>2 DEF Indices
    <3>4. QED
      BY <3>2, <3>3
  <2> HIDE DEF sets, values
  <2>7. QED
    BY <1>1, <1>4, <2>5, <2>6, PolicyIsProper
<1>7. QED
  BY <1>5, <1>6

LEMMA ImportIsProper ==
  ASSUME NEW d, Shaped(d), Unique(d), NEW q, ValidRows(d, q.kind, q.rows),
         RowsWellFormed(q.kind, q.rows), NEW n \in Nat
  PROVE  /\ Decision(d, ImportEffect(d, q.kind, q.rows, n), n)
         /\ OnlyItsKeys(q, ImportEffect(d, q.kind, q.rows, n))
<1>1. DOMAIN q.rows \subseteq 1..MaxRows
  BY DEF RowsWellFormed
<1>2. CASE q.kind = "employees"
  BY <1>2, EmployeesIsProper DEF ImportEffect, OnlyItsKeys, ValidRows, ValidEmployees
<1>3. CASE q.kind = "shift_types"
  <2>1. \A i \in DOMAIN q.rows : q.rows[i].role \in Roles
    BY <1>3 DEF ValidRows, ValidTypes, Indices
  <2>2. QED
    BY <1>1, <1>3, <2>1, TypesIsProper DEF ImportEffect, OnlyItsKeys
<1>4. CASE q.kind = "pair_constraints"
  BY <1>1, <1>4, PairsIsProper DEF ImportEffect, OnlyItsKeys, ValidRows
<1>5. CASE q.kind = "unavailabilities"
  BY <1>5, LeavesIsProper DEF ImportEffect, OnlyItsKeys, ValidRows
<1>6. CASE q.kind = "policy"
  BY <1>6, PolicyRowsIsProper DEF ImportEffect, OnlyItsKeys
<1>7. QED
  BY <1>2, <1>3, <1>4, <1>5, <1>6 DEF ValidRows

-----------------------------------------------------------------------------
(* Handlers.                                                               *)

\* Identifiers made before call n, or there from the start.
Before(n) == 1..(NewId(n, 0, 0) - 1)

SoundTables(d, n) ==
  /\ Shaped(d) /\ Unique(d) /\ Checked(d) /\ Refers(d)
  /\ \A i \in DOMAIN d.skills : d.skills[i].role \in Roles
  /\ \A i \in DOMAIN d.posts : d.posts[i].role \in Roles
  /\ \A t \in TableNames \ {"runs"} : DOMAIN d[t] \subseteq Before(n)
  /\ \A i \in DOMAIN d.leaves :
       d.leaves[i].from \in Int /\ d.leaves[i].note \subseteq DOMAIN d.requests
  /\ \A i \in DOMAIN d.requests : d.requests[i].from \in Int

ReadsProper(c, q) ==
  \E effect :
    Read(c, q, effect) /\ Decision(db, effect, calls) /\ OnlyItsKeys(q, effect)

\* The two pages that change a row and what belongs to it.
LEMMA UpdateEmployeeReadsProper ==
  ASSUME calls \in Nat, NEW c \in Clients, NEW q, q.op # "import",
         RowsWellFormed("employees", <<q.row>>), UpdateEmployee(c, q)
  PROVE  ReadsProper(c, q)
<1> DEFINE row == [q.row EXCEPT !.code = db.employees[q.id].code]
           rows == <<row>>
           new == [code |-> q.row.code, active |-> q.active, cap |-> q.row.cap]
           sets == Changed(db, "employees", q.id, new)
<1>1. Read(c, q, [EmployeesEffect(db, rows, calls) EXCEPT !.set = sets])
  BY DEF UpdateEmployee
<1>2. DOMAIN q.row = {"code", "roles", "cap"} /\ DOMAIN q.row.roles \subseteq 1..MaxRows
  BY DEF RowsWellFormed
<1>3. \A j \in DOMAIN q.row.roles : q.row.roles[j] \in Roles
  BY DEF UpdateEmployee, KnownRoles, Indices
<1>4. DOMAIN row = {"code", "roles", "cap"} /\ row.roles = q.row.roles
  BY <1>2
<1> HIDE DEF row
<1>5. RowsWellFormed("employees", rows)
  BY <1>2, <1>4, RowsBounded DEF RowsWellFormed
<1>6. KnownRoles(rows)
  BY <1>3, <1>4 DEF KnownRoles, Indices
<1> HIDE DEF rows, new
<1>7. \A w \in sets : w.table = "employees"
  BY ChangedFacts
<1> HIDE DEF sets
<1>8. Decision(db, [EmployeesEffect(db, rows, calls) EXCEPT !.set = sets], calls)
  BY <1>5, <1>6, <1>7, EmployeesIsProper
<1>9. QED
  BY <1>1, <1>8 DEF ReadsProper, OnlyItsKeys

LEMMA UpdateShiftTypeReadsProper ==
  ASSUME calls \in Nat, NEW c \in Clients, NEW q, q.op # "import",
         RowsWellFormed("shift_types", q.rows), UpdateShiftType(c, q)
  PROVE  ReadsProper(c, q)
<1> DEFINE rows == [i \in Indices(q.rows) |-> [q.rows[i] EXCEPT !.name = db.types[q.id].name]]
           sets == Changed(db, "types", q.id, Definition(q.rows[1]))
<1>1. Read(c, q, [TypesEffect(db, rows, calls) EXCEPT !.set = sets])
  BY DEF UpdateShiftType
<1>2. DOMAIN rows \subseteq 1..MaxRows
  BY DEF RowsWellFormed, Indices
<1>3. ASSUME NEW i \in DOMAIN rows PROVE rows[i].role \in Roles
  <2>1. i \in DOMAIN q.rows /\ "role" \in DOMAIN q.rows[i]
    BY DEF RowsWellFormed, Indices
  <2>2. rows[i].role = q.rows[i].role
    BY <2>1
  <2>3. q.rows[i].role \in Roles
    BY <2>1 DEF UpdateShiftType, ValidTypes, Indices
  <2>4. QED
    BY <2>2, <2>3
<1> HIDE DEF rows
<1>4. \A w \in sets : w.table = "types"
  BY ChangedFacts
<1> HIDE DEF sets
<1>5. Decision(db, [TypesEffect(db, rows, calls) EXCEPT !.set = sets], calls)
  BY <1>2, <1>3, <1>4, TypesIsProper
<1>6. QED
  BY <1>1, <1>5 DEF ReadsProper, OnlyItsKeys

LEMMA BatchHandlersReadProper ==
  ASSUME Shaped(db), Unique(db), calls \in Nat, NEW c \in Clients, NEW q, WellFormed(q),
         \/ q.op = "bulk_paste" /\ BulkPasteEmployees(c, q)
         \/ q.op = "create_shift_type" /\ CreateShiftType(c, q)
         \/ q.op = "import" /\ ApplyImport(c, q)
  PROVE  ReadsProper(c, q)
<1>1. CASE q.op = "bulk_paste" /\ BulkPasteEmployees(c, q)
  <2>1. RowsWellFormed("employees", q.rows) /\ KnownRoles(q.rows)
    BY <1>1 DEF WellFormed, BulkPasteEmployees, ValidPaste
  <2>2. Decision(db, EmployeesEffect(db, q.rows, calls), calls)
    BY <2>1, EmployeesIsProper
  <2>3. QED
    BY <1>1, <2>2 DEF BulkPasteEmployees, ReadsProper, OnlyItsKeys
<1>2. CASE q.op = "create_shift_type" /\ CreateShiftType(c, q)
  <2>1. DOMAIN q.rows \subseteq 1..MaxRows /\ \A i \in DOMAIN q.rows : q.rows[i].role \in Roles
    BY <1>2 DEF WellFormed, RowsWellFormed, CreateShiftType, ValidTypes, Indices
  <2>2. Decision(db, TypesEffect(db, q.rows, calls), calls)
    BY <2>1, TypesIsProper
  <2>3. QED
    BY <1>2, <2>2 DEF CreateShiftType, ReadsProper, OnlyItsKeys
<1>3. CASE q.op = "import" /\ ApplyImport(c, q)
  <2>1. RowsWellFormed(q.kind, q.rows) /\ ValidRows(db, q.kind, q.rows)
    BY <1>3 DEF WellFormed, ApplyImport
  <2>2. /\ Decision(db, ImportEffect(db, q.kind, q.rows, calls), calls)
        /\ OnlyItsKeys(q, ImportEffect(db, q.kind, q.rows, calls))
    BY <2>1, ImportIsProper
  <2>3. QED
    BY <1>3, <2>2 DEF ApplyImport, ReadsProper
<1>4. QED
  BY <1>1, <1>2, <1>3

\* Handlers that add one row.
LEMMA AddingReadsProper ==
  ASSUME calls \in Nat, NEW c \in Clients, NEW q, q.op # "import",
         NEW t \in TableNames \ {"skills", "posts", "runs"}, NEW values,
         Read(c, q, [Nothing EXCEPT !.add = {Row(t, NewId(calls, 0, 0), values)}]),
         RowWell(db, Row(t, NewId(calls, 0, 0), values)),
         t = "leaves" => values.note = {}
  PROVE  ReadsProper(c, q)
<1> DEFINE row == Row(t, NewId(calls, 0, 0), values)
<1>1. row.table = t /\ row.id = NewId(calls, 0, 0) /\ row.values = values
  BY DEF Row
<1>2. Read(c, q, [Nothing EXCEPT !.add = {row}]) /\ RowWell(db, row)
  OBVIOUS
<1> HIDE DEF row
<1>3. Decision(db, [Nothing EXCEPT !.add = {row}], calls)
  BY <1>1, <1>2, OneAddedIsProper
<1>4. QED
  BY <1>2, <1>3 DEF ReadsProper, OnlyItsKeys

LEMMA AddingHandlersReadProper ==
  ASSUME SoundTables(db, calls), calls \in Nat, NEW c \in Clients, NEW q, WellFormed(q),
         \/ q.op = "create_pair" /\ CreatePairConstraint(c, q)
         \/ q.op = "create_leave" /\ CreateUnavailability(c, q)
         \/ q.op = "create_driver" /\ CreateDemandDriver(c, q)
         \/ q.op = "create_budget" /\ CreateLaborBudget(c, q)
         \/ q.op = "link" /\ CreateEmployeeUserLink(c, q)
         \/ q.op = "submit" /\ CreateEmployeeRequest(c, q)
  PROVE  ReadsProper(c, q)
<1> DEFINE id == NewId(calls, 0, 0)
<1>1. ASSUME NEW t \in TableNames, NEW values
      PROVE  /\ Row(t, id, values).table = t
             /\ Row(t, id, values).values = values
  BY DEF Row
<1>2. {"pairs", "leaves", "drivers", "budgets", "links", "requests"} \subseteq TableNames
  BY DEF TableNames, ColumnsOf
<1>3. CASE q.op = "create_pair" /\ CreatePairConstraint(c, q)
  <2> DEFINE values == PairOf(q)
             active == q.active
             row == Row("pairs", id, values)
  <2>1. Read(c, q, [Nothing EXCEPT !.add = {row}])
    BY <1>3 DEF CreatePairConstraint
  <2>2. q.a \in DOMAIN db.employees /\ q.b \in DOMAIN db.employees
    BY <1>3 DEF CreatePairConstraint, PairAllowed
  <2>3. /\ {values.a, values.b, values.na, values.nb} \subseteq DOMAIN db.employees
        /\ DOMAIN values = ColumnsOf["pairs"]
    BY <2>2, PairRowOf DEF PairOf
  <2>4. row.table = "pairs" /\ row.values = values
    BY <1>1, <1>2
  <2> HIDE DEF values, row
  <2>5. RowWell(db, row)
    BY <1>2, <2>3, <2>4 DEF RowWell
  <2>6. QED
    BY <1>2, <1>3, <2>1, <2>5, AddingReadsProper DEF row
<1>4. CASE q.op = "create_leave" /\ CreateUnavailability(c, q)
  <2> DEFINE values == LeaveOf(q)
             row == Row("leaves", id, values)
  <2>1. Read(c, q, [Nothing EXCEPT !.add = {row}])
    BY <1>4 DEF CreateUnavailability
  <2>2. /\ DOMAIN values = ColumnsOf["leaves"]
        /\ values.employee \in DOMAIN db.employees
        /\ values.from \in Int
        /\ values.note = {}
    BY <1>4 DEF CreateUnavailability, WellFormed, LeaveOf, LeaveRow, ColumnsOf
  <2>3. row.table = "leaves" /\ row.values = values
    BY <1>1, <1>2
  <2> HIDE DEF values, row
  <2>4. RowWell(db, row)
    BY <1>2, <2>2, <2>3 DEF RowWell
  <2>5. QED
    BY <1>2, <1>4, <2>1, <2>2, <2>4, AddingReadsProper DEF row
<1>5. ASSUME NEW t \in {"drivers", "budgets"}, q.op # "import",
             Read(c, q, [Nothing EXCEPT !.add = {Row(t, id, q.values)}]),
             DOMAIN q.values = ColumnsOf[t]
      PROVE  ReadsProper(c, q)
  <2> DEFINE row == Row(t, id, q.values)
  <2>1. row.table = t /\ row.values = q.values
    BY <1>1, <1>2
  <2> HIDE DEF row
  <2>2. RowWell(db, row)
    BY <1>2, <1>5, <2>1 DEF RowWell
  <2>3. QED
    BY <1>2, <1>5, <2>2, AddingReadsProper DEF row
<1>6. CASE q.op = "link" /\ CreateEmployeeUserLink(c, q)
  <2> DEFINE values == [employee |-> q.employee, user |-> q.user, status |-> q.status]
             row == Row("links", id, values)
  <2>1. Read(c, q, [Nothing EXCEPT !.add = {row}])
    BY <1>6 DEF CreateEmployeeUserLink
  <2>2. DOMAIN values = ColumnsOf["links"] /\ values.employee \in DOMAIN db.employees
    BY <1>6 DEF CreateEmployeeUserLink, ColumnsOf
  <2>3. row.table = "links" /\ row.values = values
    BY <1>1, <1>2
  <2> HIDE DEF values, row
  <2>4. RowWell(db, row)
    BY <1>2, <2>2, <2>3 DEF RowWell
  <2>5. QED
    BY <1>2, <1>6, <2>1, <2>4, AddingReadsProper DEF row
<1>7. CASE q.op = "submit" /\ CreateEmployeeRequest(c, q)
  <2> DEFINE values == [employee |-> q.employee, by |-> AskedBy(c, q), kind |-> q.kind,
                        from |-> q.from, to |-> q.to, status |-> "pending", leave |-> None]
             row == Row("requests", id, values)
  <2>1. Read(c, q, [Nothing EXCEPT !.add = {row}])
    BY <1>7 DEF CreateEmployeeRequest
  <2>2. /\ DOMAIN values = ColumnsOf["requests"]
        /\ values.employee \in DOMAIN db.employees
        /\ values.from \in Int
        /\ values.leave = None
    BY <1>7 DEF CreateEmployeeRequest, WellFormed, ColumnsOf
  <2>3. row.table = "requests" /\ row.values = values
    BY <1>1, <1>2
  <2> HIDE DEF values, row
  <2>4. RowWell(db, row)
    BY <1>2, <2>2, <2>3 DEF RowWell
  <2>5. QED
    BY <1>2, <1>7, <2>1, <2>4, AddingReadsProper DEF row
<1>8. CASE q.op = "create_driver" /\ CreateDemandDriver(c, q)
  BY <1>5, <1>8 DEF CreateDemandDriver, WellFormed
<1>9. CASE q.op = "create_budget" /\ CreateLaborBudget(c, q)
  BY <1>5, <1>9 DEF CreateLaborBudget, WellFormed
<1>10. QED
  BY <1>3, <1>4, <1>6, <1>7, <1>8, <1>9

\* Handlers that write columns of one row.
LEMMA ChangingReadsProper ==
  ASSUME NEW c \in Clients, NEW q, q.op # "import",
         NEW t \in {"employees", "types", "pairs", "leaves", "requests", "policy"}, NEW i, NEW new,
         Read(c, q, [Nothing EXCEPT !.set = Changed(db, t, i, new)]),
         \A column \in DOMAIN new : ColumnWell(db, Nothing, t, column, new[column]),
         t = "requests" => i \in DOMAIN db.requests /\ db.requests[i].status = "pending"
  PROVE  ReadsProper(c, q)
<1>1. Decision(db, [Nothing EXCEPT !.set = Changed(db, t, i, new)], calls)
  BY OneChangedIsProper
<1>2. QED
  BY <1>1 DEF ReadsProper, OnlyItsKeys

LEMMA ChangingHandlersReadProper ==
  ASSUME calls \in Nat, NEW c \in Clients, NEW q, WellFormed(q),
         \/ q.op = "deactivate_employee" /\ DeactivateEmployee(c, q)
         \/ q.op = "deactivate_shift_type" /\ DeactivateShiftType(c, q)
         \/ q.op = "update_pair" /\ UpdatePairConstraint(c, q)
         \/ q.op = "update_leave" /\ UpdateUnavailability(c, q)
         \/ q.op = "get_policy" /\ GetSchedulePolicy(c, q)
         \/ q.op = "put_policy" /\ UpdateSchedulePolicy(c, q)
         \/ q.op = "delete_pair" /\ DeletePairConstraint(c, q)
         \/ q.op = "delete_leave" /\ DeleteUnavailability(c, q)
         \/ q.op = "reject" /\ RejectEmployeeRequest(c, q)
  PROVE  ReadsProper(c, q)
<1>1. ASSUME NEW t \in {"employees", "types"}, q.op # "import",
             NEW new, DOMAIN new = {"active"},
             Read(c, q, [Nothing EXCEPT !.set = Changed(db, t, q.id, new)])
      PROVE  ReadsProper(c, q)
  <2>1. \A column \in DOMAIN new : ColumnWell(db, Nothing, t, column, new[column])
    BY <1>1 DEF ColumnWell
  <2>2. QED
    BY <1>1, <2>1, ChangingReadsProper
<1> DEFINE inactive == [active |-> FALSE]
<1>2. DOMAIN inactive = {"active"}
  OBVIOUS
<1>3. CASE q.op = "deactivate_employee" /\ DeactivateEmployee(c, q)
  <2>1. Read(c, q, [Nothing EXCEPT !.set = Changed(db, "employees", q.id, inactive)])
    BY <1>3 DEF DeactivateEmployee
  <2> HIDE DEF inactive
  <2>2. QED
    BY <1>1, <1>2, <1>3, <2>1
<1>4. CASE q.op = "deactivate_shift_type" /\ DeactivateShiftType(c, q)
  <2>1. Read(c, q, [Nothing EXCEPT !.set = Changed(db, "types", q.id, inactive)])
    BY <1>4 DEF DeactivateShiftType
  <2> HIDE DEF inactive
  <2>2. QED
    BY <1>1, <1>2, <1>4, <2>1
<1>5. CASE q.op = "update_pair" /\ UpdatePairConstraint(c, q)
  <2> DEFINE values == PairOf(q)
  <2>1. Read(c, q, [Nothing EXCEPT !.set = Changed(db, "pairs", q.id, values)])
    BY <1>5 DEF UpdatePairConstraint, PairUpdated
  <2>2. q.a \in DOMAIN db.employees /\ q.b \in DOMAIN db.employees
    BY <1>5 DEF UpdatePairConstraint, PairAllowed
  <2>3. {values.a, values.b, values.na, values.nb} \subseteq DOMAIN db.employees
    BY <2>2, PairRowOf DEF PairOf
  <2> HIDE DEF values
  <2>4. \A column \in DOMAIN values : ColumnWell(db, Nothing, "pairs", column, values[column])
    BY <2>3 DEF ColumnWell
  <2>5. QED
    BY <1>5, <2>1, <2>4, ChangingReadsProper
<1>6. CASE q.op = "update_leave" /\ UpdateUnavailability(c, q)
  <2> DEFINE values == LeaveOf(q)
  <2>1. PICK id : Read(c, q, [Nothing EXCEPT !.set = Changed(db, "leaves", id, values)])
    BY <1>6 DEF UpdateUnavailability
  <2>2. values.employee \in DOMAIN db.employees /\ values.from \in Int /\ values.note = {}
    BY <1>6 DEF UpdateUnavailability, WellFormed, LeaveOf, LeaveRow
  <2> HIDE DEF values
  <2>3. \A column \in DOMAIN values : ColumnWell(db, Nothing, "leaves", column, values[column])
    BY <2>2 DEF ColumnWell
  <2>4. QED
    BY <1>6, <2>1, <2>3, ChangingReadsProper
<1>7. ASSUME NEW values, DOMAIN values = ColumnsOf["policy"], q.op # "import",
             Read(c, q, PolicyEffect(db, values, calls))
      PROVE  ReadsProper(c, q)
  BY <1>7, PolicyIsProper DEF ReadsProper, OnlyItsKeys
<1>8. CASE q.op = "get_policy" /\ GetSchedulePolicy(c, q)
  <2>1. DOMAIN StandardPolicy = ColumnsOf["policy"]
    BY DEF StandardPolicy, ColumnsOf
  <2>2. QED
    BY <1>7, <1>8, <2>1 DEF GetSchedulePolicy
<1>9. CASE q.op = "put_policy" /\ UpdateSchedulePolicy(c, q)
  BY <1>7, <1>9 DEF UpdateSchedulePolicy, WellFormed
<1>10. ASSUME NEW remove, q.op # "import", Read(c, q, [Nothing EXCEPT !.remove = remove])
       PROVE  ReadsProper(c, q)
  BY <1>10, RemovingIsProper DEF ReadsProper, OnlyItsKeys
<1>11. CASE q.op = "delete_pair" /\ DeletePairConstraint(c, q)
  BY <1>10, <1>11 DEF DeletePairConstraint
<1>12. CASE q.op = "delete_leave" /\ DeleteUnavailability(c, q)
  BY <1>10, <1>12 DEF DeleteUnavailability
<1>13. CASE q.op = "reject" /\ RejectEmployeeRequest(c, q)
  <2> DEFINE rejected == [status |-> "rejected"]
  <2>1. PICK id \in DOMAIN db.requests :
          /\ Pending(id)
          /\ Read(c, q, [Nothing EXCEPT !.set = Changed(db, "requests", id, rejected)])
    BY <1>13 DEF RejectEmployeeRequest
  <2>2. \A column \in DOMAIN rejected : ColumnWell(db, Nothing, "requests", column, rejected[column])
    BY DEF ColumnWell
  <2> HIDE DEF rejected
  <2>3. QED
    BY <1>13, <2>1, <2>2, ChangingReadsProper DEF Pending
<1>14. QED
  BY <1>3, <1>4, <1>5, <1>6, <1>8, <1>9, <1>11, <1>12, <1>13

\* An approval of time away: the leave is new, so that both columns are written.
LEMMA GrantIsProper ==
  ASSUME SoundTables(db, calls), calls \in Nat, NEW id \in DOMAIN db.requests,
         db.requests[id].status = "pending",
         db.requests[id].kind \in {"vacation", "unavailable"},
         NEW leave, leave = NewId(calls, 0, 0),
         NEW sets, sets = Changed(db, "requests", id, [status |-> "approved", leave |-> leave]),
         NEW row, row.table = "leaves", row.id = leave,
         row.values = LeaveRow(db.requests[id].employee, db.requests[id].from,
                               db.requests[id].to, FALSE, {id}),
         NEW effect,
         effect = [set |-> sets, remove |-> {}, replaces |-> {}, add |-> {row}]
  PROVE  Decision(db, effect, calls)
<1> DEFINE r == db.requests[id]
           new == [status |-> "approved", leave |-> leave]
<1>1. {"requests", "leaves"} \subseteq TableNames \ {"runs"}
  BY DEF TableNames, ColumnsOf
<1>2. r.leave # leave /\ r.status # "approved"
  <2>1. r.leave \in DOMAIN db.leaves \cup {None}
    BY DEF SoundTables, Refers
  <2>2. leave \in Int /\ leave \notin Before(calls)
    BY SMT DEF Before, NewId
  <2>3. DOMAIN db.leaves \subseteq Before(calls)
    BY <1>1 DEF SoundTables
  <2>4. QED
    BY <2>1, <2>2, <2>3, ReferenceDataAssumption
<1>3. /\ sets = {Columns("requests", id, new)}
  <2>1. {column \in DOMAIN new : new[column] # db["requests"][id][column]} = {"status", "leave"}
    BY <1>2
  <2>2. Restrict(new, {"status", "leave"}) = new
    BY DEF Restrict
  <2> HIDE DEF new
  <2>3. Changed(db, "requests", id, new) = {Columns("requests", id, new)}
    BY <2>1, <2>2 DEF Changed
  <2>4. QED
    BY <2>3 DEF new
<1> DEFINE w == Columns("requests", id, new)
<1>4. /\ w.table = "requests" /\ w.id = id
      /\ DOMAIN w.new = {"status", "leave"} /\ w.new["status"] = "approved" /\ w.new["leave"] = leave
  BY DEF Columns
<1>5. effect.set = {w} /\ effect.remove = {} /\ effect.replaces = {} /\ effect.add = {row}
  BY <1>3
<1>6. /\ r.employee \in DOMAIN db.employees
      /\ r.from \in Int
  BY DEF SoundTables, Refers
<1>7. /\ DOMAIN row.values = ColumnsOf["leaves"]
      /\ row.values.employee \in DOMAIN db.employees
      /\ row.values.from \in Int
      /\ row.values.note = {id}
  BY <1>6 DEF LeaveRow, ColumnsOf
<1> HIDE DEF w, new
<1>8. RowWell(db, row)
  BY <1>1, <1>7 DEF RowWell
<1>9. leave \in AddedIds(effect, "leaves")
  BY <1>5 DEF AddedIds
<1>10. SetWell(db, effect, w)
  BY <1>4, <1>9 DEF SetWell, ColumnWell
<1>11. Grants(db, row, w)
  BY <1>4, <1>7 DEF Grants
<1>12. row.id \in IdsOf(calls)
  BY FirstId, RowsBounded
<1>13. DetailsWell(effect) /\ OneRowPerId(effect) /\ effect.replaces \subseteq Owners(db)
  BY <1>5 DEF DetailsWell, OneRowPerId
<1>14. DecidesWell(db, effect) /\ DecidesPending(db, effect)
  BY <1>4, <1>5, <1>11 DEF DecidesWell, DecidesPending
<1>15. QED
  BY <1>5, <1>8, <1>10, <1>12, <1>13, <1>14 DEF Decision, Proper, Numbered, AddsNoRun

LEMMA ApproveReadsProper ==
  ASSUME SoundTables(db, calls), calls \in Nat, NEW c \in Clients, NEW q, q.op # "import",
         ApproveEmployeeRequest(c, q)
  PROVE  ReadsProper(c, q)
<1> DEFINE leave == NewId(calls, 0, 0)
           granted == [status |-> "approved", leave |-> leave]
           approved == [status |-> "approved"]
           LeaveFor(id) == LET r == db.requests[id] IN
                           Row("leaves", leave, LeaveRow(r.employee, r.from, r.to, FALSE, {id}))
<1>1. PICK id \in DOMAIN db.requests :
        /\ Pending(id)
        /\ \/ /\ db.requests[id].kind \in {"vacation", "unavailable"}
              /\ Read(c, q, [Nothing EXCEPT !.set = Changed(db, "requests", id, granted),
                                            !.add = {LeaveFor(id)}])
           \/ Read(c, q, [Nothing EXCEPT !.set = Changed(db, "requests", id, approved)])
  BY DEF ApproveEmployeeRequest
<1>2. db.requests[id].status = "pending"
  BY <1>1 DEF Pending
<1>3. CASE Read(c, q, [Nothing EXCEPT !.set = Changed(db, "requests", id, approved)])
  <2>1. \A column \in DOMAIN approved : ColumnWell(db, Nothing, "requests", column, approved[column])
    BY DEF ColumnWell
  <2> HIDE DEF approved
  <2>2. QED
    BY <1>2, <1>3, <2>1, ChangingReadsProper
<1>4. CASE /\ db.requests[id].kind \in {"vacation", "unavailable"}
           /\ Read(c, q, [Nothing EXCEPT !.set = Changed(db, "requests", id, granted),
                                         !.add = {LeaveFor(id)}])
  <2> DEFINE sets == Changed(db, "requests", id, granted)
             row == LeaveFor(id)
             effect == [Nothing EXCEPT !.set = sets, !.add = {row}]
             same == [set |-> sets, remove |-> {}, replaces |-> {}, add |-> {row}]
  <2>1. /\ row.table = "leaves" /\ row.id = leave
        /\ row.values = LeaveRow(db.requests[id].employee, db.requests[id].from,
                                 db.requests[id].to, FALSE, {id})
    BY DEF Row
  <2>2. sets = Changed(db, "requests", id, [status |-> "approved", leave |-> leave])
    OBVIOUS
  <2>3. Read(c, q, effect)
    BY <1>4
  <2> HIDE DEF sets, row, leave
  <2>4. effect = same
    <3>1. ASSUME NEW x, x = [Nothing EXCEPT !.set = sets, !.add = {row}] PROVE x = same
      BY <3>1 DEF Nothing
    <3>2. QED
      BY <3>1
  <2> HIDE DEF effect
  <2>5. Decision(db, same, calls)
    BY <1>2, <1>4, <2>1, <2>2, GrantIsProper DEF leave
  <2>6. QED
    BY <2>3, <2>4, <2>5 DEF ReadsProper, OnlyItsKeys
<1>5. QED
  BY <1>1, <1>3, <1>4

LEMMA HandlersReadProper ==
  ASSUME SoundTables(db, calls), calls \in Nat, NEW c \in Clients, NEW q, WellFormed(q), Handle(c, q)
  PROVE  CreateScheduleRun(c, q) \/ ReadsProper(c, q)
<1>1. Shaped(db) /\ Unique(db)
  BY DEF SoundTables
<1>2. CASE q.op = "update_employee" /\ UpdateEmployee(c, q)
  BY <1>2, UpdateEmployeeReadsProper DEF WellFormed
<1>3. CASE q.op = "update_shift_type" /\ UpdateShiftType(c, q)
  BY <1>3, UpdateShiftTypeReadsProper DEF WellFormed
<1>4. QED
  BY <1>1, <1>2, <1>3, BatchHandlersReadProper, AddingHandlersReadProper,
     ChangingHandlersReadProper, ApproveReadsProper
     DEF Handle

-----------------------------------------------------------------------------
(* The invariant.                                                          *)

\* New rows have identifiers that no row has had.
NewRows(d, effect, n) ==
  \A r \in effect.add :
    r.table # "runs" => r.id \in Before(n) /\ r.id \notin DOMAIN d[r.table]

\* Deleted roles and requirements belonged to the owners that are replaced.
OwnersReplaced(d, effect, gone, n) ==
  \A i :
    /\ <<"skills", i>> \in gone =>
         /\ i \in Before(n)
         /\ i \in DOMAIN d.skills => <<"employees", d.skills[i].employee>> \in effect.replaces
    /\ <<"posts", i>> \in gone =>
         /\ i \in Before(n)
         /\ i \in DOMAIN d.posts => <<"types", d.posts[i].type>> \in effect.replaces

CallWell(c) ==
  LET effect == call[c].effect
      gone == call[c].gone
  IN  /\ Proper(db, effect)
      /\ OnlyItsKeys(call[c].q, effect)
      /\ NewRows(db, effect, calls)
      /\ \A w \in effect.set :
           w.table = "requests" /\ <<"requests", w.id>> \notin raced =>
             db.requests[w.id].status = "pending"
      /\ call[c].phase # "flushed" => gone = {}
      /\ call[c].phase = "flushed" =>
           \A o \in effect.replaces \ raced : Details(db, o) \subseteq gone
      /\ OwnersReplaced(db, effect, gone, calls)

\* What call c adds, other neither adds nor deletes.
IdsApart(effect, other, gone) ==
  \A r \in effect.add :
    /\ \A s \in other.add : r.table = s.table /\ r.table # "runs" => r.id # s.id
    /\ r.table \in {"skills", "posts"} => <<r.table, r.id>> \notin gone

TablesWell ==
  /\ calls \in Nat /\ agenda \in Agendas
  /\ SoundTables(db, calls)
  /\ DOMAIN asked = Owners(db)
  /\ ReplacedAsAsked
  /\ RequestHasItsLeave

Whole ==
  /\ TablesWell
  /\ \A c \in Working : CallWell(c)
  /\ \A c, o \in Working : c # o => IdsApart(call[c].effect, call[o].effect, call[o].gone)

LEMMA BeforeGrows ==
  /\ \A n, m \in Nat : n <= m => Before(n) \subseteq Before(m)
  /\ \A n \in Nat : IdsOf(n) \subseteq Before(n + 1) /\ IdsOf(n) \cap Before(n) = {}
BY SMT DEF Before, IdsOf, NewId, MaxRows

LEMMA WholeInit == Init => Whole
<1> SUFFICES ASSUME Init PROVE Whole
  OBVIOUS
<1>1. Working = {}
  BY DEF Init, Working
<1>2. db \in Initial /\ calls = 0 /\ agenda \in Agendas
  BY DEF Init
<1>3. Settled(db)
  BY <1>2, ReferenceDataAssumption
<1>4. FirstIds = Before(0)
  BY DEF FirstIds, Before
<1>5. SoundTables(db, calls)
  <2>1. /\ \A i \in DOMAIN db.skills : db.skills[i].role \in Roles
        /\ \A i \in DOMAIN db.posts : db.posts[i].role \in Roles
    BY <1>3 DEF Settled, Contents
  <2>2. /\ \A i \in DOMAIN db.leaves :
             db.leaves[i].from \in Int /\ db.leaves[i].note \subseteq DOMAIN db.requests
        /\ \A i \in DOMAIN db.requests : db.requests[i].from \in Int
    BY <1>3 DEF Settled, Contents
  <2>3. \A t \in TableNames : DOMAIN db[t] \subseteq Before(calls)
    BY <1>2, <1>3, <1>4 DEF Settled
  <2>4. QED
    BY <1>3, <2>1, <2>2, <2>3 DEF Settled, SoundTables
<1>6. ReplacedAsAsked /\ DOMAIN asked = Owners(db)
  BY DEF Init, ReplacedAsAsked
<1>7. RequestHasItsLeave
  BY <1>3 DEF Settled, RequestHasItsLeave
<1>8. QED
  BY <1>1, <1>2, <1>5, <1>6, <1>7 DEF Whole, TablesWell

\* Steps that change one call, begin requests and leave the tables alone.
LEMMA OneCallKeepsWhole ==
  ASSUME Inv, Whole, NEW c \in Clients,
         UNCHANGED <<agenda, db, asked>>, raced \subseteq raced',
         calls' \in Nat, calls <= calls',
         \A o \in Clients \ {c} : call'[o] = call[o],
         c \in Working' =>
           /\ CallWell(c)'
           /\ \A o \in Working \ {c} :
                /\ IdsApart(call'[c].effect, call[o].effect, call[o].gone)
                /\ IdsApart(call[o].effect, call'[c].effect, call'[c].gone)
  PROVE  Whole'
<1>1. calls \in Nat /\ Before(calls) \subseteq Before(calls')
  BY BeforeGrows DEF Whole, TablesWell
<1>2. TablesWell'
  <2>1. SoundTables(db, calls')
    BY <1>1 DEF Whole, TablesWell, SoundTables
  <2>2. ReplacedAsAsked' /\ RequestHasItsLeave' /\ DOMAIN asked' = Owners(db')
    BY DEF Whole, TablesWell, ReplacedAsAsked, RequestHasItsLeave
  <2>3. QED
    BY <2>1, <2>2 DEF Whole, TablesWell
<1>3. \A o \in Working' : o # c => o \in Working /\ call'[o] = call[o]
  BY DEF Working
<1>4. ASSUME NEW o \in Working' PROVE CallWell(o)'
  <2>1. CASE o = c
    BY <2>1
  <2>2. CASE o # c
    <3> DEFINE effect == call[o].effect
               gone == call[o].gone
    <3>1. o \in Working /\ call'[o] = call[o] /\ CallWell(o)
      BY <1>3, <2>2 DEF Whole
    <3> HIDE DEF effect, gone
    <3>2. NewRows(db, effect, calls')
      BY <1>1, <3>1 DEF CallWell, NewRows, effect
    <3>3. OwnersReplaced(db, effect, gone, calls')
      BY <1>1, <3>1 DEF CallWell, OwnersReplaced, effect, gone
    <3>4. QED
      BY <3>1, <3>2, <3>3 DEF CallWell, effect, gone
  <2>3. QED
    BY <2>1, <2>2
<1>5. ASSUME NEW o \in Working', NEW p \in Working', o # p
      PROVE  IdsApart(call'[o].effect, call'[p].effect, call'[p].gone)
  BY <1>3, <1>5 DEF Whole
<1>6. QED
  BY <1>2, <1>4, <1>5 DEF Whole

\* What a handler decides on is well, and its rows are new.
LEMMA BeginKeepsWhole ==
  ASSUME Inv, Whole, NEW c \in Clients, c \notin Working,
         UNCHANGED <<agenda, db, asked>>, raced \subseteq raced', calls' = calls + 1,
         \A o \in Clients \ {c} : call'[o] = call[o],
         call'[c].phase # "flushed", call'[c].gone = {},
         Decision(db, call'[c].effect, calls),
         OnlyItsKeys(call'[c].q, call'[c].effect)
  PROVE  Whole'
<1> DEFINE effect == call'[c].effect
<1>1. calls \in Nat /\ SoundTables(db, calls)
  BY DEF Whole, TablesWell
<1>2. calls' \in Nat /\ calls <= calls'
  BY <1>1
<1>3. \A r \in effect.add : r.id \in Before(calls') /\ r.id \notin Before(calls)
  BY <1>1, BeforeGrows DEF Decision, Numbered, AddsNoRun
<1>4. \A r \in effect.add : r.table \in TableNames
  BY DEF Decision, Proper, RowWell
<1>5. NewRows(db, effect, calls')
  BY <1>1, <1>3, <1>4 DEF NewRows, SoundTables
<1>6. CallWell(c)'
  BY <1>5 DEF CallWell, Decision, DecidesPending, OwnersReplaced
<1>7. ASSUME NEW o \in Working, o # c
      PROVE  /\ IdsApart(effect, call[o].effect, call[o].gone)
             /\ IdsApart(call[o].effect, effect, call'[c].gone)
  <2>1. CallWell(o)
    BY DEF Whole
  <2>2. /\ \A s \in call[o].effect.add : s.table # "runs" => s.id \in Before(calls)
        /\ \A i : <<"skills", i>> \in call[o].gone \/ <<"posts", i>> \in call[o].gone =>
                    i \in Before(calls)
    BY <2>1 DEF CallWell, NewRows, OwnersReplaced
  <2> HIDE DEF effect
  <2>3. QED
    BY <1>3, <2>2 DEF IdsApart
<1>8. QED
  BY <1>2, <1>6, <1>7, OneCallKeepsWhole

LEMMA ReadKeepsWhole ==
  ASSUME Inv, Whole, NEW c \in Clients, NEW q, ReadsProper(c, q)
  PROVE  Whole'
<1>1. PICK effect : Read(c, q, effect) /\ Decision(db, effect, calls) /\ OnlyItsKeys(q, effect)
  BY DEF ReadsProper
<1>2. DOMAIN call = Clients
  BY DEF Inv, CallsOK
<1>3. call'[c] = [q |-> q, effect |-> effect, phase |-> "read", gone |-> {}]
  BY <1>1, <1>2 DEF Read
<1>4. \A o \in Clients \ {c} : call'[o] = call[o]
  BY <1>1, <1>2 DEF Read
<1>5. c \notin Working /\ calls' = calls + 1 /\ UNCHANGED <<agenda, db, asked>> /\ raced \subseteq raced'
  BY <1>1 DEF Read
<1>6. /\ call'[c].q = q /\ call'[c].effect = effect
      /\ call'[c].phase # "flushed" /\ call'[c].gone = {}
  BY <1>3
<1>7. QED
  BY <1>1, <1>4, <1>5, <1>6, BeginKeepsWhole

LEMMA CreateKeepsWhole ==
  ASSUME Inv, Whole, NEW c \in Clients, NEW q, CreateScheduleRun(c, q)
  PROVE  Whole'
<1>1. DOMAIN call = Clients
  BY DEF Inv, CallsOK
<1>2. /\ call'[c].q = q /\ call'[c].effect = Nothing
      /\ call'[c].phase # "flushed" /\ call'[c].gone = {}
  BY <1>1 DEF CreateScheduleRun
<1>3. \A o \in Clients \ {c} : call'[o] = call[o]
  BY <1>1 DEF CreateScheduleRun
<1>4. /\ c \notin Working /\ calls' = calls + 1
      /\ UNCHANGED <<agenda, db, asked>> /\ raced \subseteq raced'
  BY DEF CreateScheduleRun
<1>5. OnlyItsKeys(q, Nothing)
  BY DEF OnlyItsKeys, Nothing
<1>6. QED
  BY <1>2, <1>3, <1>4, <1>5, NothingIsProper, BeginKeepsWhole

\* A step of a call that deletes nothing yet.
LEMMA SameEffectKeepsWhole ==
  ASSUME Inv, Whole, NEW c \in Clients, c \in Working, call[c].phase # "flushed",
         UNCHANGED <<agenda, db, asked, raced, calls>>,
         \A o \in Clients \ {c} : call'[o] = call[o],
         call'[c].q = call[c].q, call'[c].effect = call[c].effect,
         call'[c].gone = {}, call'[c].phase # "flushed"
  PROVE  Whole'
<1>1. CallWell(c) /\ calls \in Nat
  BY DEF Whole, TablesWell
<1>2. CallWell(c)'
  BY <1>1 DEF CallWell, OwnersReplaced
<1>3. \A o \in Working \ {c} :
        /\ IdsApart(call'[c].effect, call[o].effect, call[o].gone)
        /\ IdsApart(call[o].effect, call'[c].effect, call'[c].gone)
  BY DEF Whole, IdsApart
<1>4. /\ UNCHANGED <<agenda, db, asked>> /\ raced \subseteq raced'
      /\ calls' \in Nat /\ calls <= calls'
  BY <1>1
<1>5. QED
  BY <1>2, <1>3, <1>4, OneCallKeepsWhole

LEMMA EndKeepsWhole ==
  ASSUME Inv, Whole, NEW c \in Clients, UNCHANGED <<agenda, db, asked, raced, calls>>,
         call' = [call EXCEPT ![c] = NoCall]
  PROVE  Whole'
<1>1. DOMAIN call = Clients /\ calls \in Nat
  BY DEF Inv, CallsOK, Whole, TablesWell
<1>2. c \notin Working' /\ \A o \in Clients \ {c} : call'[o] = call[o]
  BY <1>1 DEF Working
<1>3. QED
  BY <1>1, <1>2, OneCallKeepsWhole

LEMMA ReadNextTableKeepsWhole ==
  ASSUME Inv, Whole, NEW c \in Clients, ReadNextTable(c)
  PROVE  Whole'
<1>1. /\ c \in Working /\ CallOK(c) /\ DOMAIN call = Clients
      /\ call[c].phase = "reading" /\ CallWell(c)
  BY DEF ReadNextTable, Inv, CallsOK, Whole
<1>2. PICK seen : call' = [call EXCEPT ![c].seen = seen]
  BY DEF ReadNextTable
<1>3. /\ call'[c].q = call[c].q
      /\ call'[c].effect = call[c].effect
      /\ call'[c].phase = call[c].phase
      /\ call'[c].gone = call[c].gone
  BY <1>1, <1>2 DEF CallOK
<1>4. \A o \in Clients \ {c} : call'[o] = call[o]
  BY <1>1, <1>2
<1>5. UNCHANGED <<agenda, db, asked, raced, calls>>
  BY DEF ReadNextTable
<1>6. QED
  BY <1>1, <1>3, <1>4, <1>5, SameEffectKeepsWhole DEF CallWell

\* A run is the only row that is added.
LEMMA LookUpKeepsWhole ==
  ASSUME Inv, Whole, NEW c \in Clients, LookUpKey(c)
  PROVE  Whole'
<1>1. /\ c \in Working /\ DOMAIN call = Clients /\ calls \in Nat
      /\ UNCHANGED <<agenda, db, asked, raced, calls>>
  BY DEF LookUpKey, Inv, CallsOK, Whole, TablesWell
<1>2. CASE call' = [call EXCEPT ![c] = NoCall]
  BY <1>1, <1>2, EndKeepsWhole
<1>3. ASSUME NEW snapshot,
             call' = [call EXCEPT ![c] =
               [q |-> call[c].q, phase |-> "read", gone |-> {},
                effect |-> [Nothing EXCEPT
                  !.add = {Row("runs", NewId(call[c].n, 0, 0), RunRow(call[c].q.key, snapshot))}]]]
      PROVE  Whole'
  <2> DEFINE row == Row("runs", NewId(call[c].n, 0, 0), RunRow(call[c].q.key, snapshot))
             effect == [Nothing EXCEPT !.add = {row}]
  <2>1. call'[c] = [q |-> call[c].q, phase |-> "read", gone |-> {}, effect |-> effect]
    BY <1>1, <1>3
  <2>2. /\ row.table = "runs"
        /\ DOMAIN row.values = ColumnsOf["runs"]
    BY DEF Row, RunRow, ColumnsOf
  <2> HIDE DEF row
  <2>3. effect.set = {} /\ effect.remove = {} /\ effect.replaces = {} /\ effect.add = {row}
    BY ExceptNothing
  <2> HIDE DEF effect
  <2>4. RowWell(db, row)
    BY <2>2 DEF RowWell, TableNames, ColumnsOf
  <2>5. Proper(db, effect)
    BY <2>2, <2>3, <2>4 DEF Proper, DetailsWell, DecidesWell, OneRowPerId
  <2>6. NewRows(db, effect, calls) /\ OnlyItsKeys(call[c].q, effect)
    BY <2>2, <2>3 DEF NewRows, OnlyItsKeys
  <2>7. CallWell(c)'
    BY <1>1, <2>1, <2>3, <2>5, <2>6 DEF CallWell, OwnersReplaced
  <2>8. \A o \in Working \ {c} :
          /\ IdsApart(effect, call[o].effect, call[o].gone)
          /\ IdsApart(call[o].effect, effect, {})
    BY <2>2, <2>3 DEF IdsApart
  <2>9. \A o \in Clients \ {c} : call'[o] = call[o]
    BY <1>1, <1>3
  <2>10. /\ UNCHANGED <<agenda, db, asked>> /\ raced \subseteq raced'
         /\ calls' \in Nat /\ calls <= calls'
    BY <1>1
  <2>11. call'[c].effect = effect /\ call'[c].gone = {}
    BY <2>1
  <2>12. QED
    BY <2>7, <2>8, <2>9, <2>10, <2>11, OneCallKeepsWhole
<1>4. QED
  BY <1>2, <1>3 DEF LookUpKey

\* The roles and requirements that a request deletes are those of the owners it
\* replaces.
LEMMA FlushKeepsWhole ==
  ASSUME Inv, Whole, NEW c \in Clients, Flush(c)
  PROVE  Whole'
<1> DEFINE effect == call[c].effect
           gone == effect.remove \cup UNION {Details(db, owner) : owner \in effect.replaces}
<1>1. /\ c \in Working /\ CallOK(c) /\ DOMAIN call = Clients /\ CallWell(c)
      /\ calls \in Nat /\ SoundTables(db, calls)
      /\ UNCHANGED <<agenda, db, asked, raced, calls>>
  BY DEF Flush, Inv, CallsOK, Whole, TablesWell
<1>2. call' = [call EXCEPT ![c].phase = "flushed", ![c].gone = gone]
  BY DEF Flush
<1>3. /\ call'[c].q = call[c].q /\ call'[c].effect = effect
      /\ call'[c].phase = "flushed" /\ call'[c].gone = gone
      /\ \A o \in Clients \ {c} : call'[o] = call[o]
  <2> HIDE DEF gone
  <2>1. QED
    BY <1>1, <1>2 DEF CallOK
<1>4. \A o \in effect.replaces : Details(db, o) \subseteq gone
  OBVIOUS
<1>5. {"skills", "posts"} \subseteq TableNames \ {"runs"}
  BY DEF TableNames, ColumnsOf
<1>6. ASSUME NEW t \in {"skills", "posts"}, NEW i, <<t, i>> \in gone
      PROVE  /\ i \in DOMAIN db[t]
             /\ t = "skills" => <<"employees", db.skills[i].employee>> \in effect.replaces
             /\ t = "posts" => <<"types", db.posts[i].type>> \in effect.replaces
  <2>1. <<t, i>> \notin effect.remove
    BY <1>1 DEF CallOK, Modest
  <2>2. PICK owner \in effect.replaces : <<t, i>> \in Details(db, owner)
    BY <1>6, <2>1
  <2>3. owner \in Owners(db)
    BY <1>1, <2>2 DEF CallWell, Proper
  <2>4. QED
    BY <2>2, <2>3 DEF Details, SkillsOf, PostsOf, Owners
<1> HIDE DEF gone
<1>7. OwnersReplaced(db, effect, gone, calls)
  BY <1>1, <1>5, <1>6 DEF OwnersReplaced, SoundTables
<1>8. CallWell(c)'
  BY <1>1, <1>3, <1>4, <1>7 DEF CallWell
<1>9. ASSUME NEW o \in Working \ {c}
      PROVE  /\ IdsApart(effect, call[o].effect, call[o].gone)
             /\ IdsApart(call[o].effect, effect, gone)
  <2>1. /\ IdsApart(effect, call[o].effect, call[o].gone)
        /\ IdsApart(call[o].effect, effect, call[c].gone)
        /\ NewRows(db, call[o].effect, calls)
    BY <1>1 DEF Whole, CallWell
  <2> HIDE DEF effect
  <2>2. \A r \in call[o].effect.add : r.table \in {"skills", "posts"} => <<r.table, r.id>> \notin gone
    BY <1>6, <2>1 DEF NewRows
  <2>3. QED
    BY <2>1, <2>2 DEF IdsApart
<1>10. QED
  BY <1>1, <1>3, <1>8, <1>9, OneCallKeepsWhole

-----------------------------------------------------------------------------
(* What a commit makes of the tables.                                      *)

Applies(d, effect, gone, n) ==
  /\ n \in Nat /\ SoundTables(d, n)
  /\ Proper(d, effect) /\ Modest(effect) /\ GoneOK(effect, gone)
  /\ NewRows(d, effect, n)
  /\ OwnersReplaced(d, effect, gone, n)

\* A column keeps its value, is written, or forgets the leave that is deleted.
ColumnAfter(d, effect, gone, t, i, column, value) ==
  \/ /\ value = d[t][i][column]
     /\ \A w \in effect.set : ~(w.table = t /\ w.id = i /\ column \in DOMAIN w.new)
     /\ t = "requests" /\ column = "leave" => <<"leaves", value>> \notin gone
  \/ \E w \in effect.set :
       w.table = t /\ w.id = i /\ column \in DOMAIN w.new /\ value = w.new[column]
  \/ /\ t = "requests" /\ column = "leave" /\ value = None
     /\ <<"leaves", d.requests[i].leave>> \in gone

Stays(d, effect, gone, t, i, row) ==
  /\ i \in DOMAIN d[t]
  /\ <<t, i>> \notin gone
  /\ \A column \in ColumnsOf[t] : ColumnAfter(d, effect, gone, t, i, column, row[column])

Comes(d, effect, t, i, row) ==
  /\ Added(effect, t, i, row)
  /\ t # "runs" => i \notin DOMAIN d[t]

LEMMA KeptStays ==
  ASSUME NEW d, NEW effect, NEW gone, Shaped(d), NEW t \in TableNames, NEW i, NEW row,
         Kept(d, effect, gone, t, i, row)
  PROVE  Stays(d, effect, gone, t, i, row) /\ DOMAIN row = ColumnsOf[t]
<1>1. DOMAIN row = ColumnsOf[t] /\ i \in DOMAIN d[t] /\ <<t, i>> \notin gone
  BY DEF Kept, Shaped
<1>2. ASSUME NEW column \in ColumnsOf[t]
      PROVE  ColumnAfter(d, effect, gone, t, i, column, row[column])
  <2> DEFINE written == Updates(d, effect, gone, t, i, column)
  <2>1. CASE written = {}
    <3>1. row[column] = d[t][i][column]
      BY <1>1, <2>1 DEF Kept
    <3>2. \A w \in effect.set : ~(w.table = t /\ w.id = i /\ column \in DOMAIN w.new)
      BY <2>1 DEF Updates
    <3>3. ASSUME t = "requests", column = "leave", <<"leaves", d.requests[i].leave>> \in gone
          PROVE  FALSE
      <4> DEFINE w == Columns("requests", i, [leave |-> None])
      <4>1. w \in Forgotten(d, gone)
        BY <1>1, <3>3 DEF Forgotten
      <4>2. w.table = t /\ w.id = i /\ column \in DOMAIN w.new
        BY <3>3 DEF Columns
      <4>3. QED
        BY <2>1, <4>1, <4>2 DEF Updates
    <3>4. QED
      BY <3>1, <3>2, <3>3 DEF ColumnAfter
  <2>2. CASE written # {}
    <3>1. PICK w \in written : row[column] = w.new[column]
      BY <1>1, <2>2 DEF Kept
    <3>2. w.table = t /\ w.id = i /\ column \in DOMAIN w.new
      BY DEF Updates
    <3>3. CASE w \in effect.set
      BY <3>1, <3>2, <3>3 DEF ColumnAfter
    <3>4. CASE w \in Forgotten(d, gone)
      <4>1. PICK k \in DOMAIN d.requests :
              /\ <<"leaves", d.requests[k].leave>> \in gone
              /\ w = Columns("requests", k, [leave |-> None])
        BY <3>4 DEF Forgotten
      <4>2. w.table = "requests" /\ w.id = k /\ DOMAIN w.new = {"leave"} /\ w.new["leave"] = None
        BY <4>1 DEF Columns
      <4>3. QED
        BY <3>1, <3>2, <4>1, <4>2 DEF ColumnAfter
    <3>5. QED
      BY <3>3, <3>4 DEF Updates
  <2>3. QED
    BY <2>1, <2>2
<1>3. QED
  BY <1>1, <1>2 DEF Stays

LEMMA RowsAfter ==
  ASSUME NEW d, NEW effect, NEW gone, NEW n, Applies(d, effect, gone, n),
         NEW new, new = After(d, effect, gone)
  PROVE  /\ DOMAIN new = TableNames
         /\ \A t \in TableNames : \A i \in DOMAIN new[t] :
              /\ DOMAIN new[t][i] = ColumnsOf[t]
              /\ Stays(d, effect, gone, t, i, new[t][i]) \/ Comes(d, effect, t, i, new[t][i])
         /\ \A t \in TableNames : \A i \in DOMAIN d[t] :
              <<t, i>> \notin gone =>
                i \in DOMAIN new[t] /\ Stays(d, effect, gone, t, i, new[t][i])
         /\ \A r \in effect.add :
              r.table # "runs" =>
                r.id \in DOMAIN new[r.table] /\ new[r.table][r.id] = r.values
<1>1. Shaped(d) /\ OneRowPerId(effect) /\ NewRows(d, effect, n)
  BY DEF Applies, SoundTables, Proper
<1>2. \A r \in effect.add : r.table \in TableNames /\ DOMAIN r.values = ColumnsOf[r.table]
  BY DEF Applies, Proper, RowWell
<1>3. DOMAIN new = TableNames
  BY DEF After
<1>4. ASSUME NEW t \in TableNames
      PROVE  /\ \A i \in DOMAIN new[t] :
                  Kept(d, effect, gone, t, i, new[t][i]) \/ Added(effect, t, i, new[t][i])
             /\ \A i \in DOMAIN d[t] :
                  <<t, i>> \notin gone =>
                    i \in DOMAIN new[t] /\ Kept(d, effect, gone, t, i, new[t][i])
             /\ \A r \in effect.add : r.table = t => r.id \in DOMAIN new[t]
  BY AfterRows
<1>5. ASSUME NEW t \in TableNames, NEW i, Added(effect, t, i, new[t][i])
      PROVE  DOMAIN new[t][i] = ColumnsOf[t] /\ Comes(d, effect, t, i, new[t][i])
  BY <1>1, <1>2, <1>5 DEF Added, Comes, NewRows
<1>6. ASSUME NEW r \in effect.add, r.table # "runs"
      PROVE  r.id \in DOMAIN new[r.table] /\ new[r.table][r.id] = r.values
  <2>1. r.table \in TableNames /\ r.id \in DOMAIN new[r.table] /\ r.id \notin DOMAIN d[r.table]
    BY <1>1, <1>2, <1>4, <1>6 DEF NewRows
  <2>2. Added(effect, r.table, r.id, new[r.table][r.id])
    BY <1>4, <2>1 DEF Kept
  <2>3. QED
    BY <1>1, <2>1, <2>2 DEF Added, OneRowPerId
<1>7. QED
  BY <1>1, <1>3, <1>4, <1>5, <1>6, KeptStays

\* Who is deleted, and which columns stay as they are.
LEMMA WhatStays ==
  ASSUME NEW d, NEW effect, NEW gone, NEW n, Applies(d, effect, gone, n),
         NEW new, new = After(d, effect, gone)
  PROVE  /\ DOMAIN d.employees \subseteq DOMAIN new.employees
         /\ DOMAIN d.types \subseteq DOMAIN new.types
         /\ DOMAIN d.requests \subseteq DOMAIN new.requests
         /\ \A t \in {"skills", "posts", "links"} : \A i \in DOMAIN new[t] :
              Stays(d, effect, gone, t, i, new[t][i]) =>
                \A column \in ColumnsOf[t] : new[t][i][column] = d[t][i][column]
         /\ \A t \in {"requests"} : \A i \in DOMAIN new[t] :
              Stays(d, effect, gone, t, i, new[t][i]) =>
                \A column \in ColumnsOf[t] \ {"status", "leave"} : new[t][i][column] = d[t][i][column]
<1>1. Proper(d, effect) /\ Modest(effect) /\ GoneOK(effect, gone)
  BY DEF Applies
<1>2. {"employees", "types", "requests"} \subseteq TableNames
  BY DEF TableNames, ColumnsOf
<1>3. \A t \in {"employees", "types", "requests"} : \A i : <<t, i>> \notin gone
  BY <1>1 DEF Modest, GoneOK
<1>4. \A t \in {"employees", "types", "requests"} : DOMAIN d[t] \subseteq DOMAIN new[t]
  BY <1>2, <1>3, RowsAfter
<1>5. \A w \in effect.set :
        /\ w.table \notin {"skills", "posts", "links"}
        /\ w.table = "requests" => DOMAIN w.new \subseteq {"status", "leave"}
  BY <1>1 DEF Proper, SetWell, Modest
<1>6. ASSUME NEW t \in {"skills", "posts", "links"}, NEW i,
             Stays(d, effect, gone, t, i, new[t][i]), NEW column \in ColumnsOf[t]
      PROVE  new[t][i][column] = d[t][i][column]
  BY <1>5, <1>6 DEF Stays, ColumnAfter
<1>7. ASSUME NEW i, Stays(d, effect, gone, "requests", i, new["requests"][i]),
             NEW column \in ColumnsOf["requests"] \ {"status", "leave"}
      PROVE  new["requests"][i][column] = d["requests"][i][column]
  BY <1>5, <1>7 DEF Stays, ColumnAfter
<1>8. QED
  BY <1>4, <1>6, <1>7

LEMMA AfterIsSound ==
  ASSUME NEW d, NEW effect, NEW gone, NEW n, Applies(d, effect, gone, n),
         Accepts(d, effect, gone), NEW new, new = After(d, effect, gone)
  PROVE  SoundTables(new, n)
<1>1. /\ SoundTables(d, n) /\ Refers(d)
      /\ \A r \in effect.add : RowWell(d, r)
      /\ \A w \in effect.set : SetWell(d, effect, w)
      /\ NewRows(d, effect, n)
      /\ GoneOK(effect, gone) /\ Modest(effect) /\ DetailsWell(effect) /\ DecidesWell(d, effect)
      /\ effect.replaces \subseteq Owners(d)
  BY DEF Applies, SoundTables, Proper
<1>2. Unique(new) /\ Checked(new)
  BY DEF Accepts
<1>3. /\ DOMAIN new = TableNames
      /\ \A t \in TableNames : \A i \in DOMAIN new[t] :
           /\ DOMAIN new[t][i] = ColumnsOf[t]
           /\ Stays(d, effect, gone, t, i, new[t][i]) \/ Comes(d, effect, t, i, new[t][i])
      /\ \A t \in TableNames : \A i \in DOMAIN d[t] : <<t, i>> \notin gone => i \in DOMAIN new[t]
      /\ \A r \in effect.add :
           r.table # "runs" => r.id \in DOMAIN new[r.table] /\ new[r.table][r.id] = r.values
  BY RowsAfter
<1>4. Shaped(new)
  BY <1>3 DEF Shaped
<1>5. /\ DOMAIN d.employees \subseteq DOMAIN new.employees
      /\ DOMAIN d.types \subseteq DOMAIN new.types
      /\ DOMAIN d.requests \subseteq DOMAIN new.requests
      /\ \A t \in {"skills", "posts", "links"} : \A i \in DOMAIN new[t] :
              Stays(d, effect, gone, t, i, new[t][i]) =>
                \A column \in ColumnsOf[t] : new[t][i][column] = d[t][i][column]
      /\ \A t \in {"requests"} : \A i \in DOMAIN new[t] :
           Stays(d, effect, gone, t, i, new[t][i]) =>
             \A column \in ColumnsOf[t] \ {"status", "leave"} : new[t][i][column] = d[t][i][column]
  BY WhatStays
<1>6. ASSUME NEW t \in TableNames \ {"runs"} PROVE DOMAIN new[t] \subseteq Before(n)
  <2>1. DOMAIN d[t] \subseteq Before(n)
    BY <1>1 DEF SoundTables
  <2>2. \A r \in effect.add : r.table = t => r.id \in Before(n)
    BY <1>1 DEF NewRows
  <2>3. ASSUME NEW i \in DOMAIN new[t] PROVE i \in Before(n)
    <3>1. Stays(d, effect, gone, t, i, new[t][i]) \/ Comes(d, effect, t, i, new[t][i])
      BY <1>3
    <3>2. CASE Stays(d, effect, gone, t, i, new[t][i])
      BY <2>1, <3>2 DEF Stays
    <3>3. CASE Comes(d, effect, t, i, new[t][i])
      BY <2>2, <3>3 DEF Comes, Added
    <3>4. QED
      BY <3>1, <3>2, <3>3
  <2>4. QED
    BY <2>3
<1>7. /\ "skills" \in TableNames /\ {"employee", "role"} = ColumnsOf["skills"]
      /\ "posts" \in TableNames /\ {"type", "role", "count"} = ColumnsOf["posts"]
      /\ "links" \in TableNames /\ {"employee", "user", "status"} = ColumnsOf["links"]
      /\ "pairs" \in TableNames /\ {"a", "b", "na", "nb"} \subseteq ColumnsOf["pairs"]
      /\ "leaves" \in TableNames /\ {"employee", "from", "note"} \subseteq ColumnsOf["leaves"]
      /\ "requests" \in TableNames /\ {"employee", "from", "leave"} \subseteq ColumnsOf["requests"]
      /\ "employees" \in TableNames /\ "types" \in TableNames
  BY DEF TableNames, ColumnsOf
<1>8. \A o \in GivenTo(effect) : o \in Owners(new)
  BY <1>1, <1>3, <1>5 DEF GivenTo, Owners
<1>9. ASSUME NEW i \in DOMAIN new.skills
      PROVE  new.skills[i].employee \in DOMAIN new.employees /\ new.skills[i].role \in Roles
  <2>1. CASE Stays(d, effect, gone, "skills", i, new.skills[i])
    <3>1. i \in DOMAIN d.skills
      BY <2>1 DEF Stays
    <3>2. new.skills[i].employee = d.skills[i].employee /\ new.skills[i].role = d.skills[i].role
      BY <1>5, <1>7, <2>1
    <3>3. QED
      BY <1>1, <1>5, <3>1, <3>2 DEF SoundTables, Refers
  <2>2. CASE Comes(d, effect, "skills", i, new.skills[i])
    <3>1. PICK r \in effect.add : r.table = "skills" /\ new.skills[i] = r.values
      BY <2>2 DEF Comes, Added
    <3>2. <<"employees", r.values.employee>> \in Owners(new)
      BY <1>1, <1>8, <3>1 DEF DetailsWell
    <3>3. QED
      BY <1>1, <3>1, <3>2 DEF Owners, RowWell
  <2>3. QED
    BY <1>3, <1>7, <2>1, <2>2
<1>10. ASSUME NEW i \in DOMAIN new.posts
       PROVE  new.posts[i].type \in DOMAIN new.types /\ new.posts[i].role \in Roles
  <2>1. CASE Stays(d, effect, gone, "posts", i, new.posts[i])
    <3>1. i \in DOMAIN d.posts
      BY <2>1 DEF Stays
    <3>2. new.posts[i].type = d.posts[i].type /\ new.posts[i].role = d.posts[i].role
      BY <1>5, <1>7, <2>1
    <3>3. QED
      BY <1>1, <1>5, <3>1, <3>2 DEF SoundTables, Refers
  <2>2. CASE Comes(d, effect, "posts", i, new.posts[i])
    <3>1. PICK r \in effect.add : r.table = "posts" /\ new.posts[i] = r.values
      BY <2>2 DEF Comes, Added
    <3>2. <<"types", r.values.type>> \in Owners(new)
      BY <1>1, <1>8, <3>1 DEF DetailsWell
    <3>3. QED
      BY <1>1, <3>1, <3>2 DEF Owners, RowWell
  <2>3. QED
    BY <1>3, <1>7, <2>1, <2>2
<1>11. ASSUME NEW t \in {"pairs", "leaves", "links"}, NEW i \in DOMAIN new[t],
              NEW column \in ColumnsOf[t]
       PROVE  \/ i \in DOMAIN d[t] /\ new[t][i][column] = d[t][i][column]
              \/ ColumnWell(d, effect, t, column, new[t][i][column])
              \/ \E r \in effect.add :
                   r.table = t /\ r.id = i /\ new[t][i] = r.values /\ RowWell(d, r)
  <2>1. CASE Stays(d, effect, gone, t, i, new[t][i])
    BY <1>1, <2>1 DEF Stays, ColumnAfter, SetWell
  <2>2. CASE Comes(d, effect, t, i, new[t][i])
    BY <1>1, <2>2 DEF Comes, Added
  <2>3. QED
    BY <1>3, <1>7, <2>1, <2>2
<1>12. ASSUME NEW i \in DOMAIN new.pairs, NEW column \in {"a", "b", "na", "nb"}
       PROVE  new.pairs[i][column] \in DOMAIN new.employees
  <2>1. i \in DOMAIN d.pairs => d.pairs[i][column] \in DOMAIN d.employees
    BY <1>1 DEF Refers
  <2>2. \A r \in effect.add :
          r.table = "pairs" /\ RowWell(d, r) => r.values[column] \in DOMAIN d.employees
    BY DEF RowWell
  <2>3. QED
    BY <1>5, <1>7, <1>11, <2>1, <2>2 DEF ColumnWell
<1>13. ASSUME NEW i \in DOMAIN new.leaves
       PROVE  /\ new.leaves[i].employee \in DOMAIN new.employees
              /\ new.leaves[i].from \in Int
  <2>1. i \in DOMAIN d.leaves =>
          d.leaves[i].employee \in DOMAIN d.employees /\ d.leaves[i].from \in Int
    BY <1>1 DEF Refers, SoundTables
  <2>2. \A r \in effect.add :
          r.table = "leaves" /\ RowWell(d, r) =>
            r.values.employee \in DOMAIN d.employees /\ r.values.from \in Int
    BY DEF RowWell
  <2>3. QED
    BY <1>5, <1>7, <1>11, <2>1, <2>2 DEF ColumnWell
<1>14. ASSUME NEW i \in DOMAIN new.leaves PROVE new.leaves[i].note \subseteq DOMAIN new.requests
  <2>1. i \in DOMAIN d.leaves => d.leaves[i].note \subseteq DOMAIN new.requests
    BY <1>1, <1>5 DEF SoundTables
  <2>2. \A r \in effect.add :
          r.table = "leaves" => r.values.note \subseteq DOMAIN new.requests
    BY <1>1, <1>5 DEF DecidesWell, Grants
  <2>3. QED
    BY <1>7, <1>11, <2>1, <2>2 DEF ColumnWell
<1>15. ASSUME NEW i \in DOMAIN new.links PROVE new.links[i].employee \in DOMAIN new.employees
  <2>1. CASE Stays(d, effect, gone, "links", i, new.links[i])
    <3>1. i \in DOMAIN d.links /\ new.links[i].employee = d.links[i].employee
      BY <1>5, <1>7, <2>1 DEF Stays
    <3>2. QED
      BY <1>1, <1>5, <3>1 DEF Refers
  <2>2. CASE Comes(d, effect, "links", i, new.links[i])
    BY <1>1, <1>5, <2>2 DEF Comes, Added, RowWell
  <2>3. QED
    BY <1>3, <1>7, <2>1, <2>2
<1>16. ASSUME NEW i \in DOMAIN new.requests
       PROVE  /\ new.requests[i].employee \in DOMAIN new.employees
              /\ new.requests[i].from \in Int
              /\ new.requests[i].leave \in DOMAIN new.leaves \cup {None}
  <2>1. CASE Comes(d, effect, "requests", i, new.requests[i])
    BY <1>1, <1>5, <2>1 DEF Comes, Added, RowWell
  <2>2. CASE Stays(d, effect, gone, "requests", i, new.requests[i])
    <3>1. i \in DOMAIN d.requests
      BY <2>2 DEF Stays
    <3>2. /\ new.requests[i].employee = d.requests[i].employee
          /\ new.requests[i].from = d.requests[i].from
      BY <1>5, <1>7, <2>2
    <3>3. ColumnAfter(d, effect, gone, "requests", i, "leave", new.requests[i].leave)
      BY <1>7, <2>2 DEF Stays
    <3>4. ASSUME new.requests[i].leave = d.requests[i].leave,
                 <<"leaves", new.requests[i].leave>> \notin gone
          PROVE  new.requests[i].leave \in DOMAIN new.leaves \cup {None}
      <4>1. d.requests[i].leave \in DOMAIN d.leaves \cup {None}
        BY <1>1, <3>1 DEF Refers
      <4>2. QED
        BY <1>3, <1>7, <3>4, <4>1
    <3>5. ASSUME NEW w \in effect.set, w.table = "requests", "leave" \in DOMAIN w.new,
                 new.requests[i].leave = w.new["leave"]
          PROVE  new.requests[i].leave \in DOMAIN new.leaves
      <4>1. new.requests[i].leave \in AddedIds(effect, "leaves")
        BY <1>1, <3>5 DEF SetWell, ColumnWell
      <4>2. PICK r \in effect.add : r.table = "leaves" /\ r.id = new.requests[i].leave
        BY <4>1 DEF AddedIds
      <4>3. QED
        BY <1>3, <4>2
    <3>6. new.requests[i].leave \in DOMAIN new.leaves \cup {None}
      BY <3>3, <3>4, <3>5 DEF ColumnAfter
    <3>7. QED
      BY <1>1, <1>5, <3>1, <3>2, <3>6 DEF SoundTables, Refers
  <2>3. QED
    BY <1>3, <1>7, <2>1, <2>2
<1>17. Refers(new)
  BY <1>9, <1>10, <1>12, <1>13, <1>15, <1>16 DEF Refers
<1>18. QED
  BY <1>2, <1>4, <1>6, <1>9, <1>10, <1>13, <1>14, <1>16, <1>17 DEF SoundTables

\* Skills belong to employees, and posts to shift types.
OwnerTable(kind) == IF kind = "skills" THEN "employees" ELSE "types"
OwnerColumn(kind) == IF kind = "skills" THEN "employee" ELSE "type"
DetailIds(d, kind, o) == {i \in DOMAIN d[kind] : d[kind][i][OwnerColumn(kind)] = o}

DetailAdds(effect, kind, o) ==
  {r \in effect.add : r.table = kind /\ r.values[OwnerColumn(kind)] = o}

LEMMA DetailFacts ==
  ASSUME NEW d, NEW effect, NEW gone, NEW n, Applies(d, effect, gone, n),
         NEW new, new = After(d, effect, gone), NEW kind \in {"skills", "posts"}
  PROVE  /\ kind \in TableNames /\ OwnerColumn(kind) \in ColumnsOf[kind]
         /\ \A i \in DOMAIN new[kind] :
              \/ /\ i \in DOMAIN d[kind] /\ <<kind, i>> \notin gone
                 /\ \A column \in ColumnsOf[kind] : new[kind][i][column] = d[kind][i][column]
              \/ /\ i \notin DOMAIN d[kind]
                 /\ \E r \in effect.add : r.table = kind /\ r.id = i /\ new[kind][i] = r.values
         /\ \A i \in DOMAIN d[kind] :
              <<kind, i>> \notin gone =>
                /\ i \in DOMAIN new[kind]
                /\ \A column \in ColumnsOf[kind] : new[kind][i][column] = d[kind][i][column]
         /\ \A r \in effect.add :
              r.table = kind => r.id \in DOMAIN new[kind] /\ new[kind][r.id] = r.values
         /\ \A r \in effect.add :
              r.table = kind => <<OwnerTable(kind), r.values[OwnerColumn(kind)]>> \in GivenTo(effect)
         /\ \A i : <<kind, i>> \in gone /\ i \in DOMAIN d[kind] =>
              <<OwnerTable(kind), d[kind][i][OwnerColumn(kind)]>> \in effect.replaces
<1>1. kind \in TableNames /\ OwnerColumn(kind) \in ColumnsOf[kind] /\ kind # "runs"
  BY DEF TableNames, ColumnsOf, OwnerColumn
<1>2. /\ \A i \in DOMAIN new[kind] :
           Stays(d, effect, gone, kind, i, new[kind][i]) \/ Comes(d, effect, kind, i, new[kind][i])
      /\ \A i \in DOMAIN d[kind] :
           <<kind, i>> \notin gone =>
             i \in DOMAIN new[kind] /\ Stays(d, effect, gone, kind, i, new[kind][i])
      /\ \A r \in effect.add :
           r.table = kind => r.id \in DOMAIN new[kind] /\ new[kind][r.id] = r.values
  BY <1>1, RowsAfter
<1>3. \A i \in DOMAIN new[kind] :
        Stays(d, effect, gone, kind, i, new[kind][i]) =>
          /\ i \in DOMAIN d[kind] /\ <<kind, i>> \notin gone
          /\ \A column \in ColumnsOf[kind] : new[kind][i][column] = d[kind][i][column]
  BY WhatStays DEF Stays
<1>4. \A i \in DOMAIN new[kind] :
        Comes(d, effect, kind, i, new[kind][i]) =>
          /\ i \notin DOMAIN d[kind]
          /\ \E r \in effect.add : r.table = kind /\ r.id = i /\ new[kind][i] = r.values
  BY <1>1 DEF Comes, Added
<1>5. ASSUME NEW r \in effect.add, r.table = kind
      PROVE  <<OwnerTable(kind), r.values[OwnerColumn(kind)]>> \in GivenTo(effect)
  <2>1. DetailsWell(effect)
    BY DEF Applies, Proper
  <2>2. CASE kind = "skills"
    BY <1>5, <2>1, <2>2 DEF DetailsWell, OwnerTable, OwnerColumn
  <2>3. CASE kind = "posts"
    BY <1>5, <2>1, <2>3 DEF DetailsWell, OwnerTable, OwnerColumn
  <2>4. QED
    BY <2>2, <2>3
<1>6. ASSUME NEW i \in DOMAIN d[kind], <<kind, i>> \in gone
      PROVE  <<OwnerTable(kind), d[kind][i][OwnerColumn(kind)]>> \in effect.replaces
  <2>1. OwnersReplaced(d, effect, gone, n)
    BY DEF Applies
  <2>2. CASE kind = "skills"
    BY <1>6, <2>1, <2>2 DEF OwnersReplaced, OwnerTable, OwnerColumn
  <2>3. CASE kind = "posts"
    BY <1>6, <2>1, <2>3 DEF OwnersReplaced, OwnerTable, OwnerColumn
  <2>4. QED
    BY <2>2, <2>3
<1>7. QED
  BY <1>1, <1>2, <1>3, <1>4, <1>5, <1>6

\* Who is not given roles or requirements keeps them.
LEMMA DetailsStay ==
  ASSUME NEW d, NEW effect, NEW gone, NEW n, Applies(d, effect, gone, n),
         NEW new, new = After(d, effect, gone), NEW kind \in {"skills", "posts"},
         NEW o, <<OwnerTable(kind), o>> \notin GivenTo(effect)
  PROVE  /\ DetailIds(new, kind, o) = DetailIds(d, kind, o)
         /\ \A i \in DetailIds(d, kind, o) : \A column \in ColumnsOf[kind] :
              new[kind][i][column] = d[kind][i][column]
<1> DEFINE column == OwnerColumn(kind)
<1>1. effect.replaces \subseteq GivenTo(effect) /\ column \in ColumnsOf[kind]
  BY DetailFacts DEF GivenTo
<1>2. ASSUME NEW i \in DOMAIN d[kind], d[kind][i][column] = o
      PROVE  /\ i \in DOMAIN new[kind]
             /\ \A x \in ColumnsOf[kind] : new[kind][i][x] = d[kind][i][x]
  <2>1. <<kind, i>> \in gone => <<OwnerTable(kind), d[kind][i][column]>> \in effect.replaces
    BY DetailFacts
  <2>2. <<kind, i>> \notin gone
    BY <1>1, <1>2, <2>1
  <2>3. QED
    BY <2>2, DetailFacts
<1>3. ASSUME NEW i \in DOMAIN new[kind], new[kind][i][column] = o
      PROVE  i \in DOMAIN d[kind] /\ d[kind][i][column] = o
  <2>1. CASE \E r \in effect.add : r.table = kind /\ r.id = i /\ new[kind][i] = r.values
    <3>1. PICK r \in effect.add : r.table = kind /\ r.id = i /\ new[kind][i] = r.values
      BY <2>1
    <3>2. <<OwnerTable(kind), r.values[column]>> \in GivenTo(effect)
      BY <3>1, DetailFacts
    <3>3. QED
      BY <1>3, <3>1, <3>2
  <2>2. CASE /\ i \in DOMAIN d[kind]
             /\ \A x \in ColumnsOf[kind] : new[kind][i][x] = d[kind][i][x]
    BY <1>1, <1>3, <2>2
  <2>3. \/ /\ i \in DOMAIN d[kind] /\ <<kind, i>> \notin gone
           /\ \A x \in ColumnsOf[kind] : new[kind][i][x] = d[kind][i][x]
        \/ \E r \in effect.add : r.table = kind /\ r.id = i /\ new[kind][i] = r.values
    <3> HIDE DEF column
    <3>1. QED
      BY DetailFacts
  <2>4. QED
    BY <2>1, <2>2, <2>3
<1> HIDE DEF column
<1>4. DetailIds(new, kind, o) = DetailIds(d, kind, o)
  BY <1>1, <1>2, <1>3 DEF DetailIds, column
<1>5. QED
  BY <1>2, <1>4 DEF DetailIds, column

\* Whoever loses all they had, or is new, has what is added for them.
LEMMA DetailsGiven ==
  ASSUME NEW d, NEW effect, NEW gone, NEW n, Applies(d, effect, gone, n),
         NEW new, new = After(d, effect, gone), NEW kind \in {"skills", "posts"},
         NEW o, <<OwnerTable(kind), o>> \in GivenTo(effect),
         <<OwnerTable(kind), o>> \in effect.replaces =>
           \A i \in DetailIds(d, kind, o) : <<kind, i>> \in gone
  PROVE  /\ \A i \in DetailIds(new, kind, o) :
              \E r \in DetailAdds(effect, kind, o) : r.id = i /\ new[kind][i] = r.values
         /\ \A r \in DetailAdds(effect, kind, o) :
              r.id \in DetailIds(new, kind, o) /\ new[kind][r.id] = r.values
<1>1. \A r \in DetailAdds(effect, kind, o) :
        r.id \in DetailIds(new, kind, o) /\ new[kind][r.id] = r.values
  BY DetailFacts DEF DetailIds, DetailAdds
<1>2. ASSUME NEW i \in DetailIds(d, kind, o), <<kind, i>> \notin gone PROVE FALSE
  <2>1. <<OwnerTable(kind), o>> \notin effect.replaces
    BY <1>2
  <2>2. PICK r \in effect.add : r.table = OwnerTable(kind) /\ r.id = o
    BY <2>1 DEF GivenTo
  <2>3. o \notin DOMAIN d[OwnerTable(kind)]
    BY <2>2 DEF Applies, NewRows, OwnerTable
  <2>4. Refers(d)
    BY DEF Applies, SoundTables
  <2>5. CASE kind = "skills"
    BY <2>3, <2>4, <2>5 DEF Refers, DetailIds, OwnerTable, OwnerColumn
  <2>6. CASE kind = "posts"
    BY <2>3, <2>4, <2>6 DEF Refers, DetailIds, OwnerTable, OwnerColumn
  <2>7. QED
    BY <2>5, <2>6
<1>3. ASSUME NEW i \in DetailIds(new, kind, o)
      PROVE  \E r \in DetailAdds(effect, kind, o) : r.id = i /\ new[kind][i] = r.values
  <2>1. OwnerColumn(kind) \in ColumnsOf[kind]
    BY DetailFacts
  <2>2. i \in DOMAIN new[kind] /\ new[kind][i][OwnerColumn(kind)] = o
    BY DEF DetailIds
  <2>3. CASE \E r \in effect.add : r.table = kind /\ r.id = i /\ new[kind][i] = r.values
    BY <2>2, <2>3 DEF DetailAdds
  <2>4. CASE /\ i \in DOMAIN d[kind] /\ <<kind, i>> \notin gone
             /\ \A column \in ColumnsOf[kind] : new[kind][i][column] = d[kind][i][column]
    BY <1>2, <2>1, <2>2, <2>4 DEF DetailIds
  <2>5. QED
    BY <2>2, <2>3, <2>4, DetailFacts
<1>4. QED
  BY <1>1, <1>3

\* In terms of the details that the properties speak of.
LEMMA DetailsAre ==
  ASSUME NEW id, NEW d
  PROVE  /\ Details(d, <<"employees", id>>) = {"skills"} \X DetailIds(d, "skills", id)
         /\ Details(d, <<"types", id>>) = {"posts"} \X DetailIds(d, "posts", id)
<1>1. DetailIds(d, "skills", id) = SkillsOf(d, id) /\ DetailIds(d, "posts", id) = PostsOf(d, id)
  BY DEF DetailIds, OwnerColumn, SkillsOf, PostsOf
<1>2. QED
  BY <1>1 DEF Details

LEMMA GivenAre ==
  ASSUME NEW id, NEW effect
  PROVE  /\ Given(effect, <<"employees", id>>) =
              {r.values.role : r \in DetailAdds(effect, "skills", id)}
         /\ Given(effect, <<"types", id>>) =
              {[role |-> r.values.role, count |-> r.values.count] :
                 r \in DetailAdds(effect, "posts", id)}
<1>1. /\ DetailAdds(effect, "skills", id) =
           {r \in effect.add : r.table = "skills" /\ r.values.employee = id}
      /\ DetailAdds(effect, "posts", id) =
           {r \in effect.add : r.table = "posts" /\ r.values.type = id}
  BY DEF DetailAdds, OwnerColumn
<1>2. QED
  BY <1>1 DEF Given

LEMMA OwnDetailsAfter ==
  ASSUME NEW d, NEW effect, NEW gone, NEW n, Applies(d, effect, gone, n),
         NEW new, new = After(d, effect, gone), NEW o \in Owners(new),
         o \in effect.replaces => Details(d, o) \subseteq gone
  PROVE  DetailsOf(new, o) = IF o \in GivenTo(effect) THEN Given(effect, o) ELSE DetailsOf(d, o)
<1>1. PICK id : o = <<"employees", id>> \/ o = <<"types", id>>
  BY DEF Owners
<1> DEFINE skills(t) == {t.skills[i].role : i \in DetailIds(t, "skills", id)}
           posts(t) == {[role |-> t.posts[i].role, count |-> t.posts[i].count] :
                          i \in DetailIds(t, "posts", id)}
<1>2. CASE o = <<"employees", id>>
  <2>0. /\ DetailsOf(new, o) = skills(new) /\ DetailsOf(d, o) = skills(d)
        /\ Given(effect, o) = {r.values.role : r \in DetailAdds(effect, "skills", id)}
    <3>1. /\ DetailsOf(new, <<"employees", id>>) = skills(new)
          /\ DetailsOf(d, <<"employees", id>>) = skills(d)
      <4>1. ASSUME NEW t PROVE DetailsOf(t, <<"employees", id>>) = skills(t)
        <5>1. DetailIds(t, "skills", id) = SkillsOf(t, id)
          BY DEF DetailIds, OwnerColumn, SkillsOf
        <5>2. QED
          BY <5>1 DEF DetailsOf
      <4>2. QED
        BY <4>1
    <3>2. Given(effect, <<"employees", id>>) =
            {r.values.role : r \in DetailAdds(effect, "skills", id)}
      BY GivenAre
    <3>3. QED
      BY <1>2, <3>1, <3>2
  <2>1. OwnerTable("skills") = "employees" /\ "role" \in ColumnsOf["skills"]
    BY DEF OwnerTable, ColumnsOf
  <2>2. CASE o \notin GivenTo(effect)
    <3>1. /\ DetailIds(new, "skills", id) = DetailIds(d, "skills", id)
          /\ \A i \in DetailIds(d, "skills", id) : new.skills[i].role = d.skills[i].role
      BY <1>2, <2>1, <2>2, DetailsStay
    <3>2. QED
      BY <2>0, <2>2, <3>1
  <2>3. CASE o \in GivenTo(effect)
    <3>1. o \in effect.replaces => \A i \in DetailIds(d, "skills", id) : <<"skills", i>> \in gone
      <4>1. Details(d, o) = {"skills"} \X DetailIds(d, "skills", id)
        <5>1. Details(d, <<"employees", id>>) = {"skills"} \X DetailIds(d, "skills", id)
          BY DetailsAre
        <5>2. QED
          BY <1>2, <5>1
      <4>2. QED
        BY <4>1
    <3>2. /\ \A i \in DetailIds(new, "skills", id) :
               \E r \in DetailAdds(effect, "skills", id) : r.id = i /\ new["skills"][i] = r.values
          /\ \A r \in DetailAdds(effect, "skills", id) :
               r.id \in DetailIds(new, "skills", id) /\ new["skills"][r.id] = r.values
      BY <1>2, <2>1, <2>3, <3>1, DetailsGiven
    <3>3. {new.skills[i].role : i \in DetailIds(new, "skills", id)} =
            {r.values.role : r \in DetailAdds(effect, "skills", id)}
      BY <3>2
    <3>4. QED
      BY <2>0, <2>3, <3>3
  <2>4. QED
    BY <2>2, <2>3
<1>3. CASE o = <<"types", id>>
  <2>0. /\ DetailsOf(new, o) = posts(new) /\ DetailsOf(d, o) = posts(d)
        /\ Given(effect, o) = {[role |-> r.values.role, count |-> r.values.count] :
                                 r \in DetailAdds(effect, "posts", id)}
    <3>1. /\ DetailsOf(new, <<"types", id>>) = posts(new)
          /\ DetailsOf(d, <<"types", id>>) = posts(d)
      <4>1. ASSUME NEW t PROVE DetailsOf(t, <<"types", id>>) = posts(t)
        <5>1. DetailIds(t, "posts", id) = PostsOf(t, id)
          BY DEF DetailIds, OwnerColumn, PostsOf
        <5>2. QED
          BY <5>1 DEF DetailsOf
      <4>2. QED
        BY <4>1
    <3>2. Given(effect, <<"types", id>>) =
            {[role |-> r.values.role, count |-> r.values.count] :
               r \in DetailAdds(effect, "posts", id)}
      BY GivenAre
    <3>3. QED
      BY <1>3, <3>1, <3>2
  <2>1. OwnerTable("posts") = "types" /\ {"role", "count"} \subseteq ColumnsOf["posts"]
    BY DEF OwnerTable, ColumnsOf
  <2>2. CASE o \notin GivenTo(effect)
    <3>1. /\ DetailIds(new, "posts", id) = DetailIds(d, "posts", id)
          /\ \A i \in DetailIds(d, "posts", id) :
               new.posts[i].role = d.posts[i].role /\ new.posts[i].count = d.posts[i].count
      BY <1>3, <2>1, <2>2, DetailsStay
    <3>2. QED
      BY <2>0, <2>2, <3>1
  <2>3. CASE o \in GivenTo(effect)
    <3>1. o \in effect.replaces => \A i \in DetailIds(d, "posts", id) : <<"posts", i>> \in gone
      <4>1. Details(d, o) = {"posts"} \X DetailIds(d, "posts", id)
        <5>1. Details(d, <<"types", id>>) = {"posts"} \X DetailIds(d, "posts", id)
          BY DetailsAre
        <5>2. QED
          BY <1>3, <5>1
      <4>2. QED
        BY <4>1
    <3>2. /\ \A i \in DetailIds(new, "posts", id) :
               \E r \in DetailAdds(effect, "posts", id) : r.id = i /\ new["posts"][i] = r.values
          /\ \A r \in DetailAdds(effect, "posts", id) :
               r.id \in DetailIds(new, "posts", id) /\ new["posts"][r.id] = r.values
      BY <1>3, <2>1, <2>3, <3>1, DetailsGiven
    <3>3. {[role |-> new.posts[i].role, count |-> new.posts[i].count] :
             i \in DetailIds(new, "posts", id)} =
            {[role |-> r.values.role, count |-> r.values.count] :
               r \in DetailAdds(effect, "posts", id)}
      BY <3>2
    <3>4. QED
      BY <2>0, <2>3, <3>3
  <2>4. QED
    BY <2>2, <2>3
<1>4. QED
  BY <1>1, <1>2, <1>3

\* The leave l is granted to request r.
Granted(d, w, r, l) ==
  /\ w.table = "requests" /\ w.id = r
  /\ d.requests[r].kind \in {"vacation", "unavailable"}
  /\ DOMAIN w.new = {"status", "leave"}
  /\ w.new["status"] = "approved"
  /\ w.new["leave"] = l

Had(d, gone, r, l) == l \in DOMAIN d.leaves /\ r \in d.leaves[l].note /\ <<"leaves", l>> \notin gone

\* A leave of a request is one it had, or the one that is granted to it.
LEMMA NotesAfter ==
  ASSUME NEW d, NEW effect, NEW gone, NEW n, Applies(d, effect, gone, n),
         NEW new, new = After(d, effect, gone), NEW l \in DOMAIN new.leaves,
         NEW r, r \in new.leaves[l].note
  PROVE  Had(d, gone, r, l) \/ \E w \in effect.set : Granted(d, w, r, l)
<1>1. "leaves" \in TableNames /\ "note" \in ColumnsOf["leaves"]
  BY DEF TableNames, ColumnsOf
<1>2. CASE Comes(d, effect, "leaves", l, new.leaves[l])
  <2>1. PICK x \in effect.add : x.table = "leaves" /\ x.id = l /\ x.values = new.leaves[l]
    BY <1>2 DEF Comes, Added
  <2>2. PICK w \in effect.set : Grants(d, x, w)
    BY <2>1 DEF Applies, Proper, DecidesWell
  <2>3. w.id = r
    BY <2>1, <2>2 DEF Grants
  <2>4. QED
    BY <2>1, <2>2, <2>3 DEF Grants, Granted
<1>3. CASE Stays(d, effect, gone, "leaves", l, new.leaves[l])
  <2>1. ColumnAfter(d, effect, gone, "leaves", l, "note", new.leaves[l].note)
    BY <1>1, <1>3 DEF Stays
  <2>2. \A w \in effect.set :
          w.table = "leaves" /\ "note" \in DOMAIN w.new => w.new["note"] = {}
    BY DEF Applies, Proper, SetWell, ColumnWell
  <2>3. new.leaves[l].note = d.leaves[l].note
    BY <2>1, <2>2 DEF ColumnAfter
  <2>4. QED
    BY <1>3, <2>3 DEF Stays, Had
<1>4. QED
  BY <1>1, <1>2, <1>3, RowsAfter

\* The columns of a request that was there.
LEMMA RequestAfter ==
  ASSUME NEW d, NEW effect, NEW gone, NEW n, Applies(d, effect, gone, n),
         NEW new, new = After(d, effect, gone), NEW r \in DOMAIN d.requests
  PROVE  /\ r \in DOMAIN new.requests
         /\ new.requests[r].kind = d.requests[r].kind
         /\ ColumnAfter(d, effect, gone, "requests", r, "status", new.requests[r].status)
         /\ ColumnAfter(d, effect, gone, "requests", r, "leave", new.requests[r].leave)
<1>1. /\ "requests" \in TableNames
      /\ {"status", "leave"} \subseteq ColumnsOf["requests"]
      /\ "kind" \in ColumnsOf["requests"] \ {"status", "leave"}
  BY DEF TableNames, ColumnsOf
<1>2. <<"requests", r>> \notin gone
  BY DEF Applies, Modest, GoneOK
<1>3. /\ r \in DOMAIN new["requests"]
      /\ Stays(d, effect, gone, "requests", r, new["requests"][r])
  BY <1>1, <1>2, RowsAfter
<1>4. \A column \in ColumnsOf["requests"] \ {"status", "leave"} :
        new["requests"][r][column] = d["requests"][r][column]
  BY <1>3, WhatStays
<1>5. QED
  BY <1>1, <1>3, <1>4 DEF Stays

LEMMA LeavesAfter ==
  ASSUME NEW d, NEW effect, NEW gone, NEW n, Applies(d, effect, gone, n),
         NEW new, new = After(d, effect, gone), NEW r \in DOMAIN new.requests,
         r \in DOMAIN d.requests => HasItsLeave(d, r),
         \A w \in effect.set : w.table = "requests" /\ w.id = r => d.requests[r].status = "pending"
  PROVE  HasItsLeave(new, r)
<1>1. /\ DecidesWell(d, effect) /\ Modest(effect) /\ GoneOK(effect, gone)
      /\ \A l \in DOMAIN d.leaves : d.leaves[l].note \subseteq DOMAIN d.requests
  BY DEF Applies, Proper, SoundTables
<1> SUFFICES ASSUME NEW l \in DOMAIN new.leaves, r \in new.leaves[l].note
               PROVE  /\ new.requests[r].leave = l
                      /\ new.requests[r].status = "approved"
                      /\ new.requests[r].kind \in {"vacation", "unavailable"}
  BY DEF HasItsLeave
<1>2. Had(d, gone, r, l) \/ \E w \in effect.set : Granted(d, w, r, l)
  BY NotesAfter
<1>3. r \in DOMAIN d.requests
  <2>1. CASE Had(d, gone, r, l)
    BY <1>1, <2>1 DEF Had
  <2>2. CASE \E w \in effect.set : Granted(d, w, r, l)
    BY <1>1, <2>2 DEF DecidesWell, Granted
  <2>3. QED
    BY <1>2, <2>1, <2>2
<1>4. /\ new.requests[r].kind = d.requests[r].kind
      /\ ColumnAfter(d, effect, gone, "requests", r, "status", new.requests[r].status)
      /\ ColumnAfter(d, effect, gone, "requests", r, "leave", new.requests[r].leave)
  BY <1>3, RequestAfter
<1>5. l \in DOMAIN d.leaves /\ r \in d.leaves[l].note =>
        /\ d.requests[r].leave = l
        /\ d.requests[r].status = "approved"
        /\ d.requests[r].kind \in {"vacation", "unavailable"}
  BY <1>3 DEF HasItsLeave
<1>6. CASE \A w \in effect.set : ~(w.table = "requests" /\ w.id = r)
  <2>1. l \in DOMAIN d.leaves /\ r \in d.leaves[l].note /\ <<"leaves", l>> \notin gone
    BY <1>2, <1>6 DEF Had, Granted
  <2>2. new.requests[r].status = d.requests[r].status
    BY <1>4, <1>6 DEF ColumnAfter
  <2>3. new.requests[r].leave = d.requests[r].leave
    BY <1>4, <1>5, <1>6, <2>1 DEF ColumnAfter
  <2>4. QED
    BY <1>4, <1>5, <2>1, <2>2, <2>3
<1>7. ASSUME NEW w \in effect.set, w.table = "requests", w.id = r
      PROVE  /\ new.requests[r].leave = l
             /\ new.requests[r].status = "approved"
             /\ new.requests[r].kind \in {"vacation", "unavailable"}
  <2>1. effect.set = {w} /\ effect.remove = {}
    BY <1>1, <1>7 DEF DecidesWell
  <2>2. ~(l \in DOMAIN d.leaves /\ r \in d.leaves[l].note)
    BY <1>5, <1>7
  <2>3. /\ d.requests[r].kind \in {"vacation", "unavailable"}
        /\ DOMAIN w.new = {"status", "leave"}
        /\ w.new["status"] = "approved"
        /\ w.new["leave"] = l
    BY <1>2, <2>1, <2>2, <1>1 DEF Had, Granted, GoneOK
  <2>4. <<"leaves", d.requests[r].leave>> \notin gone
    BY <1>1, <2>1 DEF GoneOK
  <2>5. new.requests[r].status = "approved" /\ new.requests[r].leave = l
    BY <1>4, <1>7, <2>1, <2>3, <2>4 DEF ColumnAfter
  <2>6. QED
    BY <1>4, <2>3, <2>5
<1>8. QED
  BY <1>6, <1>7

\* What another handler has decided on stays well.
LEMMA OthersStayProper ==
  ASSUME NEW d, NEW effect, NEW gone, NEW n, Applies(d, effect, gone, n),
         NEW new, new = After(d, effect, gone), NEW other, Proper(d, other)
  PROVE  Proper(new, other)
<1>1. /\ DOMAIN d.employees \subseteq DOMAIN new.employees
      /\ DOMAIN d.types \subseteq DOMAIN new.types
      /\ DOMAIN d.requests \subseteq DOMAIN new.requests
  BY WhatStays
<1>2. /\ \A r \in other.add : RowWell(d, r)
      /\ \A w \in other.set : SetWell(d, other, w)
      /\ DecidesWell(d, other)
      /\ other.replaces \subseteq Owners(d)
  BY DEF Proper
<1>3. \A r \in other.add : RowWell(new, r)
  BY <1>1, <1>2 DEF RowWell
<1>4. \A w \in other.set : SetWell(new, other, w)
  <2>1. \A t, column, value :
          ColumnWell(d, other, t, column, value) => ColumnWell(new, other, t, column, value)
    BY <1>1 DEF ColumnWell
  <2>2. QED
    BY <1>2, <2>1 DEF SetWell
<1>5. \A w \in other.set : w.table = "requests" =>
        w.id \in DOMAIN d.requests /\ new.requests[w.id].kind = d.requests[w.id].kind
  BY <1>2, RequestAfter DEF DecidesWell
<1>6. DecidesWell(new, other)
  <2>1. ASSUME NEW r \in other.add, r.table = "leaves", r.values.note # {}
        PROVE  \E w \in other.set : Grants(new, r, w)
    <3>1. PICK w \in other.set : Grants(d, r, w)
      BY <1>2, <2>1 DEF DecidesWell
    <3>2. Grants(new, r, w)
      BY <1>5, <3>1 DEF Grants
    <3>3. QED
      BY <3>2
  <2>2. ASSUME NEW w \in other.set, w.table = "requests"
        PROVE  w.id \in DOMAIN new.requests /\ other.remove = {} /\ other.set = {w}
    BY <1>1, <1>2, <2>2 DEF DecidesWell
  <2>3. QED
    BY <2>1, <2>2 DEF DecidesWell
<1>7. other.replaces \subseteq Owners(new)
  BY <1>1, <1>2 DEF Owners
<1>8. QED
  BY <1>3, <1>4, <1>6, <1>7 DEF Proper

LEMMA OthersStayNew ==
  ASSUME NEW d, NEW effect, NEW gone, NEW n, Applies(d, effect, gone, n),
         NEW new, new = After(d, effect, gone), NEW other, NEW otherGone,
         Proper(d, other), NewRows(d, other, n),
         OwnersReplaced(d, other, otherGone, n),
         IdsApart(other, effect, gone), IdsApart(effect, other, otherGone)
  PROVE  NewRows(new, other, n) /\ OwnersReplaced(new, other, otherGone, n)
<1>1. ASSUME NEW r \in other.add, r.table # "runs", r.id \in DOMAIN new[r.table] PROVE FALSE
  <2>1. r.table \in TableNames
    BY DEF Proper, RowWell
  <2>2. r.id \notin DOMAIN d[r.table]
    BY <1>1 DEF NewRows
  <2>3. Comes(d, effect, r.table, r.id, new[r.table][r.id])
    <3>1. \/ Stays(d, effect, gone, r.table, r.id, new[r.table][r.id])
          \/ Comes(d, effect, r.table, r.id, new[r.table][r.id])
      BY <1>1, <2>1, RowsAfter
    <3>2. QED
      BY <2>2, <3>1 DEF Stays
  <2>4. PICK s \in effect.add : s.table = r.table /\ s.id = r.id
    BY <2>3 DEF Comes, Added
  <2>5. QED
    BY <1>1, <2>4 DEF IdsApart
<1>2. ASSUME NEW kind \in {"skills", "posts"}, NEW i \in DOMAIN new[kind], <<kind, i>> \in otherGone
      PROVE  /\ i \in DOMAIN d[kind]
             /\ \A column \in ColumnsOf[kind] : new[kind][i][column] = d[kind][i][column]
  <2>1. CASE \E r \in effect.add : r.table = kind /\ r.id = i /\ new[kind][i] = r.values
    BY <1>2, <2>1 DEF IdsApart
  <2>2. \/ /\ i \in DOMAIN d[kind] /\ <<kind, i>> \notin gone
           /\ \A column \in ColumnsOf[kind] : new[kind][i][column] = d[kind][i][column]
        \/ \E r \in effect.add : r.table = kind /\ r.id = i /\ new[kind][i] = r.values
    BY DetailFacts
  <2>3. QED
    BY <2>1, <2>2
<1>3. "employee" \in ColumnsOf["skills"] /\ "type" \in ColumnsOf["posts"]
  BY DEF ColumnsOf
<1>4. ASSUME NEW i, <<"skills", i>> \in otherGone
      PROVE  /\ i \in Before(n)
             /\ i \in DOMAIN new.skills => <<"employees", new.skills[i].employee>> \in other.replaces
  BY <1>2, <1>3, <1>4 DEF OwnersReplaced
<1>5. ASSUME NEW i, <<"posts", i>> \in otherGone
      PROVE  /\ i \in Before(n)
             /\ i \in DOMAIN new.posts => <<"types", new.posts[i].type>> \in other.replaces
  BY <1>2, <1>3, <1>5 DEF OwnersReplaced
<1>6. QED
  BY <1>1, <1>4, <1>5 DEF NewRows, OwnersReplaced

\* Nobody adds to an owner that only another replaces.
LEMMA OtherDetailsStay ==
  ASSUME NEW d, NEW effect, NEW gone, NEW n, Applies(d, effect, gone, n),
         NEW new, new = After(d, effect, gone), NEW o \in Owners(d), o \notin effect.replaces
  PROVE  Details(new, o) = Details(d, o)
<1>1. PICK id : \/ o = <<"employees", id>> /\ id \in DOMAIN d["employees"]
                \/ o = <<"types", id>> /\ id \in DOMAIN d["types"]
  BY DEF Owners
<1>2. o \notin GivenTo(effect)
  BY <1>1 DEF GivenTo, Applies, NewRows
<1>3. OwnerTable("skills") = "employees" /\ OwnerTable("posts") = "types"
  BY DEF OwnerTable
<1>4. CASE o = <<"employees", id>>
  <2>1. DetailIds(new, "skills", id) = DetailIds(d, "skills", id)
    BY <1>2, <1>3, <1>4, DetailsStay
  <2>2. /\ Details(new, o) = {"skills"} \X DetailIds(new, "skills", id)
        /\ Details(d, o) = {"skills"} \X DetailIds(d, "skills", id)
    BY <1>4, DetailsAre
  <2>3. QED
    BY <2>1, <2>2
<1>5. CASE o = <<"types", id>>
  <2>1. DetailIds(new, "posts", id) = DetailIds(d, "posts", id)
    BY <1>2, <1>3, <1>5, DetailsStay
  <2>2. /\ Details(new, o) = {"posts"} \X DetailIds(new, "posts", id)
        /\ Details(d, o) = {"posts"} \X DetailIds(d, "posts", id)
    BY <1>5, DetailsAre
  <2>3. QED
    BY <2>1, <2>2
<1>6. QED
  BY <1>1, <1>4, <1>5

LEMMA CallApplies ==
  ASSUME Inv, Whole, NEW c \in Working
  PROVE  Applies(db, call[c].effect, call[c].gone, calls)
BY DEF Inv, CallsOK, CallOK, Whole, TablesWell, CallWell, Applies

\* The tables and what was asked for, after a commit that is accepted.
LEMMA AcceptedKeepsTables ==
  ASSUME Inv, Whole, NEW c \in Working, call[c].phase = "flushed",
         NEW effect, effect = call[c].effect, NEW gone, gone = call[c].gone,
         Accepts(db, effect, gone), db' = After(db, effect, gone),
         asked' = [o \in DOMAIN asked \cup GivenTo(effect) |->
                     IF o \in GivenTo(effect) THEN Given(effect, o) ELSE asked[o]],
         UNCHANGED <<agenda, calls, raced>>
  PROVE  TablesWell'
<1>1. Applies(db, effect, gone, calls)
  BY CallApplies
<1>2. /\ TablesWell /\ CallWell(c)
      /\ Proper(db, effect) /\ effect.replaces \subseteq Owners(db)
  BY DEF Whole, CallWell, Proper
<1>3. SoundTables(db', calls')
  BY <1>1, AfterIsSound
<1>4. /\ DOMAIN db.employees \subseteq DOMAIN db'.employees
      /\ DOMAIN db.types \subseteq DOMAIN db'.types
  BY <1>1, WhatStays
<1>5. DOMAIN asked' = Owners(db')
  <2>1. DOMAIN asked = Owners(db)
    BY <1>2 DEF TablesWell
  <2>2. /\ \A t \in TableNames : \A i \in DOMAIN db'[t] :
             Stays(db, effect, gone, t, i, db'[t][i]) \/ Comes(db, effect, t, i, db'[t][i])
        /\ \A r \in effect.add :
             r.table # "runs" => r.id \in DOMAIN db'[r.table]
    BY <1>1, RowsAfter
  <2>3. \A t \in {"employees", "types"} : \A i \in DOMAIN db'[t] :
          i \in DOMAIN db[t] \/ <<t, i>> \in GivenTo(effect)
    <3>1. {"employees", "types"} \subseteq TableNames
      BY DEF TableNames, ColumnsOf
    <3>2. ASSUME NEW t \in {"employees", "types"}, NEW i \in DOMAIN db'[t], i \notin DOMAIN db[t]
          PROVE  <<t, i>> \in GivenTo(effect)
      <4>1. Comes(db, effect, t, i, db'[t][i])
        BY <2>2, <3>1, <3>2 DEF Stays
      <4>2. PICK r \in effect.add : r.table = t /\ r.id = i
        BY <4>1 DEF Comes, Added
      <4>3. QED
        BY <4>2 DEF GivenTo
    <3>3. QED
      BY <3>2
  <2>4. \A r \in effect.add :
          r.table \in {"employees", "types"} => <<r.table, r.id>> \in Owners(db')
    BY <2>2 DEF Owners
  <2>5. Owners(db) \subseteq Owners(db') /\ GivenTo(effect) \subseteq Owners(db')
    BY <1>2, <1>4, <2>4 DEF Owners, GivenTo
  <2>6. Owners(db') \subseteq Owners(db) \cup GivenTo(effect)
    BY <2>3 DEF Owners
  <2>7. QED
    BY <2>1, <2>5, <2>6
<1>6. ReplacedAsAsked'
  <2> SUFFICES ASSUME NEW o \in DOMAIN asked', o \notin raced
               PROVE  DetailsOf(db', o) = asked'[o]
    BY DEF ReplacedAsAsked
  <2>1. o \in effect.replaces => Details(db, o) \subseteq gone
    BY <1>2 DEF CallWell
  <2>2. DetailsOf(db', o) = IF o \in GivenTo(effect) THEN Given(effect, o) ELSE DetailsOf(db, o)
    BY <1>1, <1>5, <2>1, OwnDetailsAfter
  <2>3. o \notin GivenTo(effect) => o \in DOMAIN asked /\ DetailsOf(db, o) = asked[o]
    BY <1>2 DEF TablesWell, ReplacedAsAsked
  <2>4. QED
    BY <2>2, <2>3
<1>7. RequestHasItsLeave'
  <2> SUFFICES ASSUME NEW r \in DOMAIN db'.requests, <<"requests", r>> \notin raced
               PROVE  HasItsLeave(db', r)
    BY DEF RequestHasItsLeave
  <2>1. r \in DOMAIN db.requests => HasItsLeave(db, r)
    BY <1>2 DEF TablesWell, RequestHasItsLeave
  <2>2. \A w \in effect.set :
          w.table = "requests" /\ w.id = r => db.requests[r].status = "pending"
    BY <1>2 DEF CallWell
  <2>3. QED
    BY <1>1, <2>1, <2>2, LeavesAfter
<1>8. QED
  BY <1>2, <1>3, <1>5, <1>6, <1>7 DEF TablesWell

\* The other requests in progress.
LEMMA AcceptedKeepsOthers ==
  ASSUME Inv, Whole, NEW c \in Working,
         NEW effect, effect = call[c].effect, NEW gone, gone = call[c].gone,
         db' = After(db, effect, gone), UNCHANGED <<calls, raced>>,
         NEW o \in Working, o # c, call'[o] = call[o]
  PROVE  CallWell(o)'
<1> DEFINE other == call[o].effect
           lost == call[o].gone
<1>1. Applies(db, effect, gone, calls)
  BY CallApplies
<1>2. /\ CallWell(o) /\ Proper(db, other)
      /\ NewRows(db, other, calls) /\ OwnersReplaced(db, other, lost, calls)
      /\ other.replaces \subseteq Owners(db) /\ DecidesWell(db, other)
  BY DEF Whole, CallWell, Proper
<1>3. IdsApart(other, effect, gone) /\ IdsApart(effect, other, lost)
  BY DEF Whole
<1>4. About(effect) \cap About(other) \subseteq raced
  BY DEF Inv, CallsOK, Apart
<1> HIDE DEF other, lost
<1>5. Proper(db', other)
  BY <1>1, <1>2, OthersStayProper
<1>6. NewRows(db', other, calls) /\ OwnersReplaced(db', other, lost, calls)
  BY <1>1, <1>2, <1>3, OthersStayNew
<1>7. ASSUME NEW w \in other.set, w.table = "requests", <<"requests", w.id>> \notin raced
      PROVE  db'.requests[w.id].status = "pending"
  <2>1. w.id \in DOMAIN db.requests /\ db.requests[w.id].status = "pending"
    BY <1>2, <1>7 DEF CallWell, DecidesWell, other
  <2>2. <<"requests", w.id>> \notin About(effect)
    BY <1>4, <1>7 DEF About, Written
  <2>3. \A v \in effect.set : ~(v.table = "requests" /\ v.id = w.id)
    BY <2>2 DEF About, Written
  <2>4. ColumnAfter(db, effect, gone, "requests", w.id, "status", db'.requests[w.id].status)
    BY <1>1, <2>1, RequestAfter
  <2>5. QED
    BY <2>1, <2>3, <2>4 DEF ColumnAfter
<1>8. ASSUME NEW p \in other.replaces \ raced, call[o].phase = "flushed"
      PROVE  Details(db', p) \subseteq lost
  <2>1. p \in Owners(db) /\ p \notin effect.replaces
    BY <1>2, <1>4, <1>8 DEF About
  <2>2. Details(db', p) = Details(db, p)
    BY <1>1, <2>1, OtherDetailsStay
  <2>3. QED
    BY <1>2, <1>8, <2>2 DEF CallWell, other, lost
<1>9. QED
  BY <1>2, <1>5, <1>6, <1>7, <1>8 DEF CallWell, other, lost

LEMMA CommitKeepsWhole ==
  ASSUME Inv, Whole, NEW c \in Clients, Commit(c)
  PROVE  Whole'
<1>1. /\ c \in Working /\ call[c].phase = "flushed" /\ DOMAIN call = Clients
      /\ call' = [call EXCEPT ![c] = NoCall] /\ UNCHANGED <<agenda, calls, raced>>
  BY DEF Commit, Inv, CallsOK
<1>2. CASE UNCHANGED <<db, asked>>
  BY <1>1, <1>2, EndKeepsWhole
<1>3. CASE /\ Accepts(db, call[c].effect, call[c].gone)
           /\ db' = After(db, call[c].effect, call[c].gone)
           /\ asked' = [o \in DOMAIN asked \cup GivenTo(call[c].effect) |->
                          IF o \in GivenTo(call[c].effect) THEN Given(call[c].effect, o)
                          ELSE asked[o]]
  <2>1. TablesWell'
    BY <1>1, <1>3, AcceptedKeepsTables
  <2>2. \A o \in Working' : o \in Working /\ o # c /\ call'[o] = call[o]
    BY <1>1 DEF Working
  <2>3. \A o \in Working' : CallWell(o)'
    BY <1>1, <1>3, <2>2, AcceptedKeepsOthers
  <2>4. \A o, p \in Working' : o # p => IdsApart(call'[o].effect, call'[p].effect, call'[p].gone)
    BY <2>2 DEF Whole
  <2>5. QED
    BY <2>1, <2>3, <2>4 DEF Whole
<1>4. QED
  BY <1>2, <1>3 DEF Commit

LEMMA WholeNext == ASSUME Inv, Whole, [Next]_vars PROVE Whole'
<1>1. ASSUME NEW c \in Clients, NEW q \in agenda, Handle(c, q) PROVE Whole'
  <2>1. /\ SoundTables(db, calls) /\ calls \in Nat
        /\ WellFormed(q)
    BY ReferenceDataAssumption DEF Whole, TablesWell
  <2>2. CreateScheduleRun(c, q) \/ ReadsProper(c, q)
    BY <1>1, <2>1, HandlersReadProper
  <2>3. QED
    BY <2>2, ReadKeepsWhole, CreateKeepsWhole
<1>2. ASSUME NEW c \in Clients, Fail(c) PROVE Whole'
  BY <1>2, EndKeepsWhole DEF Fail
<1>3. CASE UNCHANGED vars
  BY <1>3 DEF vars, Whole, TablesWell, ReplacedAsAsked, RequestHasItsLeave, CallWell, Working
<1>4. QED
  BY <1>1, <1>2, <1>3, ReadNextTableKeepsWhole, LookUpKeepsWhole, FlushKeepsWhole, CommitKeepsWhole
     DEF Next

LEMMA WholeHolds == Spec => [](Inv /\ Whole)
<1>1. Init => Inv /\ Whole
  BY InvInit, WholeInit
<1>2. Inv /\ Whole /\ [Next]_vars => (Inv /\ Whole)'
  BY InvNext, WholeNext
<1>3. QED
  BY <1>1, <1>2, PTL DEF Spec

-----------------------------------------------------------------------------
(* Theorems.                                                               *)

\* The tables keep to their constraints and foreign keys whatever requests are
\* in progress: what a handler has found is still there when it commits.
THEOREM TypeOKHolds == Spec => []TypeOK
<1>1. Whole => TypeOK
  BY DEF Whole, TablesWell, SoundTables, TypeOK, Contents
<1>2. QED
  BY <1>1, WholeHolds, PTL

\* Roles and requirements are those last asked for, unless two requests replaced
\* them at once.
THEOREM ReplacedAsAskedHolds == Spec => []ReplacedAsAsked
<1>1. Whole => ReplacedAsAsked
  BY DEF Whole, TablesWell
<1>2. QED
  BY <1>1, WholeHolds, PTL

\* A request has at most one leave of its own, which only its approval made,
\* unless two managers decided on it at once.
THEOREM RequestHasItsLeaveHolds == Spec => []RequestHasItsLeave
<1>1. Whole => RequestHasItsLeave
  BY DEF Whole, TablesWell
<1>2. QED
  BY <1>1, WholeHolds, PTL

\* An import of policy rows changes the keys of its rows and no other: there is
\* one row, it is never deleted, and only the columns that differ are written.
THEOREM ImportTouchesItsKeysHolds == Spec => ImportTouchesItsKeys
<1> DEFINE Touches(c) ==
      LET q == call[c].q IN
      call'[c] = NoCall /\ q.op = "import" /\ q.kind = "policy" =>
        \A p \in StoredPolicy(db), new \in StoredPolicy(db') :
          \A key \in DOMAIN p :
            (\A i \in DOMAIN q.rows : q.rows[i].key # key) => new[key] = p[key]
<1>1. ASSUME Inv, Whole, Whole', Next PROVE \A c \in Working : Touches(c)
  <2>1. "policy" \in TableNames /\ Keys["policy"] = {{}}
    BY DEF TableNames, ColumnsOf, Keys
  <2>2. /\ \A i, j \in DOMAIN db.policy : i = j
        /\ \A i, j \in DOMAIN db'.policy : i = j
    <3>1. Unique(db) /\ Unique(db)'
      BY <1>1 DEF Whole, TablesWell, SoundTables
    <3>2. UniqueIn(db, "policy", {}) /\ UniqueIn(db', "policy", {})
      BY <2>1, <3>1 DEF Unique
    <3>3. QED
      BY <3>2 DEF UniqueIn
  <2>3. CASE UNCHANGED db
    <3>1. \A p \in StoredPolicy(db), new \in StoredPolicy(db') : new = p
      BY <2>2, <2>3 DEF StoredPolicy
    <3>2. QED
      BY <3>1
  <2>4. ASSUME NEW k \in Clients, Commit(k), NEW c \in Working PROVE Touches(c)
    <3> DEFINE effect == call[k].effect
               gone == call[k].gone
    <3>1. /\ k \in Working /\ DOMAIN call = Clients /\ call' = [call EXCEPT ![k] = NoCall]
          /\ UNCHANGED db \/ db' = After(db, effect, gone)
      BY <1>1, <2>4 DEF Commit, Inv, CallsOK
    <3>2. CASE c # k
      BY <3>1, <3>2 DEF Working
    <3>3. CASE c = k /\ db' = After(db, effect, gone)
      <4>1. /\ Applies(db, effect, gone, calls) /\ OnlyItsKeys(call[c].q, effect)
            /\ Shaped(db)
        BY <1>1, <3>1, <3>3, CallApplies DEF Whole, CallWell, TablesWell, SoundTables
      <4> HIDE DEF effect, gone
      <4> SUFFICES ASSUME call[c].q.op = "import", call[c].q.kind = "policy",
                          NEW p \in StoredPolicy(db), NEW new \in StoredPolicy(db'),
                          NEW key \in DOMAIN p,
                          \A i \in DOMAIN call[c].q.rows : call[c].q.rows[i].key # key
                   PROVE  new[key] = p[key]
        OBVIOUS
      <4>2. PICK i \in DOMAIN db["policy"] : p = db["policy"][i]
        BY DEF StoredPolicy
      <4>3. <<"policy", i>> \notin gone
        BY <4>1 DEF Applies, Modest, GoneOK
      <4>4. i \in DOMAIN db'["policy"] /\ Stays(db, effect, gone, "policy", i, db'["policy"][i])
        BY <2>1, <3>3, <4>1, <4>3, RowsAfter
      <4>5. new = db'["policy"][i]
        BY <2>2, <4>4 DEF StoredPolicy
      <4>6. key \in ColumnsOf["policy"]
        BY <2>1, <4>1, <4>2 DEF Shaped
      <4>7. ColumnAfter(db, effect, gone, "policy", i, key, new[key])
        BY <4>4, <4>5, <4>6 DEF Stays
      <4>8. \A w \in effect.set : key \notin DOMAIN w.new
        BY <4>1 DEF OnlyItsKeys
      <4>9. QED
        BY <4>2, <4>7, <4>8 DEF ColumnAfter
    <3>4. QED
      BY <2>3, <3>1, <3>2, <3>3
  <2>5. UNCHANGED db \/ \E k \in Clients : Commit(k)
    <3>1. ASSUME NEW c \in Clients, NEW q, Handle(c, q) PROVE UNCHANGED db
      <4>1. Shapes(db)
        BY <1>1 DEF Inv, RowsOK
      <4>2. CreateScheduleRun(c, q) \/ ReadsWell(c, q)
        BY <3>1, <4>1, HandlersReadWell
      <4>3. QED
        BY <4>2 DEF CreateScheduleRun, ReadsWell, Read
    <3>2. QED
      BY <1>1, <3>1 DEF Next, ReadNextTable, LookUpKey, Flush, Fail
  <2>6. QED
    BY <2>3, <2>4, <2>5
<1>2. Inv /\ Whole /\ Whole' /\ [Next]_vars => [\A c \in Working : Touches(c)]_vars
  BY <1>1
<1>3. QED
  BY <1>2, WholeHolds, PTL DEF Spec, ImportTouchesItsKeys

-----------------------------------------------------------------------------
(* Sorted lists.                                                           *)

\* A list whose elements follow each other strictly.
Increasing(list, N, less) ==
  /\ DOMAIN list = 1..N
  /\ \A m, n \in 1..N : <<list[m], list[n]>> \in less <=> m < n

\* An element stands at the place that its predecessors leave it.
LEMMA PlaceIsCount ==
  ASSUME NEW N \in Nat, NEW list, NEW less, Increasing(list, N, less), NEW n \in 1..N
  PROVE  Cardinality({y \in Range(list) : <<y, list[n]>> \in less}) = n - 1
<1> DEFINE B == {y \in Range(list) : <<y, list[n]>> \in less}
           f == [k \in 1..(n - 1) |-> list[k]]
<1>1. \A k \in 1..(n - 1) : k \in 1..N /\ k < n
  OBVIOUS
<1>2. \A k \in 1..(n - 1) : f[k] \in B
  BY <1>1 DEF Increasing, Range
<1>3. \A j, k \in 1..(n - 1) : f[j] = f[k] => j = k
  <2> SUFFICES ASSUME NEW j \in 1..(n - 1), NEW k \in 1..(n - 1), list[j] = list[k], j # k
               PROVE  FALSE
    OBVIOUS
  <2>1. j \in 1..N /\ k \in 1..N /\ (j < k \/ k < j)
    OBVIOUS
  <2>2. /\ <<list[j], list[k]>> \in less <=> j < k
        /\ <<list[k], list[j]>> \in less <=> k < j
    BY <2>1 DEF Increasing
  <2>3. QED
    BY <2>1, <2>2
<1>4. \A y \in B : \E k \in 1..(n - 1) : f[k] = y
  <2> SUFFICES ASSUME NEW y \in B PROVE \E k \in 1..(n - 1) : f[k] = y
    OBVIOUS
  <2>1. PICK k \in 1..N : list[k] = y
    BY DEF Increasing, Range
  <2>2. k < n
    <3>1. <<list[k], list[n]>> \in less
      BY <2>1
    <3>2. QED
      BY <3>1 DEF Increasing
  <2>3. k \in 1..(n - 1)
    BY <2>2
  <2>4. QED
    BY <2>1, <2>3
<1> HIDE DEF B
<1>5. f \in Bijection(1..(n - 1), B)
  BY <1>2, <1>3, <1>4 DEF Bijection, Injection, Surjection, IsInjective
<1> HIDE DEF f
<1>6. ExistsBijection(1..(n - 1), B)
  BY <1>5 DEF ExistsBijection
<1>7. IsFiniteSet(1..(n - 1)) /\ Cardinality(1..(n - 1)) = n - 1
  BY FS_Interval
<1>8. Cardinality(B) = n - 1
  BY <1>6, <1>7, FS_Bijection
<1>9. QED
  BY <1>8 DEF B

LEMMA OneIncreasingList ==
  ASSUME NEW N \in Nat, NEW M \in Nat, NEW list, NEW other, NEW less,
         Increasing(list, N, less), Increasing(other, M, less), Range(list) = Range(other)
  PROVE  N = M /\ \A n \in 1..N : list[n] = other[n]
<1>1. ASSUME NEW n \in 1..N PROVE n \in 1..M /\ other[n] = list[n]
  <2>1. PICK m \in 1..M : other[m] = list[n]
    BY DEF Increasing, Range
  <2>2. /\ Cardinality({y \in Range(list) : <<y, list[n]>> \in less}) = n - 1
        /\ Cardinality({y \in Range(other) : <<y, other[m]>> \in less}) = m - 1
    BY PlaceIsCount
  <2>3. n = m
    BY <2>1, <2>2
  <2>4. QED
    BY <2>1, <2>3
<1>2. ASSUME NEW m \in 1..M PROVE m \in 1..N
  <2>1. PICK n \in 1..N : list[n] = other[m]
    BY DEF Increasing, Range
  <2>2. /\ Cardinality({y \in Range(list) : <<y, list[n]>> \in less}) = n - 1
        /\ Cardinality({y \in Range(other) : <<y, other[m]>> \in less}) = m - 1
    BY PlaceIsCount
  <2>3. n = m
    BY <2>1, <2>2
  <2>4. QED
    BY <2>3
<1>3. N = M
  <2>1. N # 0 => N \in 1..M
    BY <1>1
  <2>2. M # 0 => M \in 1..N
    BY <1>2
  <2>3. QED
    BY <2>1, <2>2
<1>4. QED
  BY <1>1, <1>3

\* Of a list without repetitions, a list with the same elements as often has none.
LEMMA CountedOnce ==
  ASSUME NEW N \in Nat, NEW M \in Nat, NEW list, NEW other,
         DOMAIN list = 1..N, DOMAIN other = 1..M,
         Counted(list) = Counted(other),
         \A m, n \in 1..M : other[m] = other[n] => m = n
  PROVE  /\ Range(list) = Range(other)
         /\ \A m, n \in 1..N : list[m] = list[n] => m = n
<1>1. DOMAIN Counted(list) = Range(list) /\ DOMAIN Counted(other) = Range(other)
  BY DEF Counted
<1>2. Range(list) = Range(other)
  BY <1>1
<1>3. ASSUME NEW m \in 1..N, NEW n \in 1..N, list[m] = list[n] PROVE m = n
  <2> DEFINE x == list[m]
             here == {k \in 1..N : list[k] = x}
             there == {k \in 1..M : other[k] = x}
  <2>1. x \in Range(list) /\ x \in Range(other)
    BY <1>2 DEF Range
  <2>2. Counted(list)[x] = Cardinality(here) /\ Counted(other)[x] = Cardinality(there)
    BY <2>1 DEF Counted
  <2>3. PICK k \in 1..M : other[k] = x
    BY <2>1 DEF Range
  <2>4. there = {k}
    BY <2>3
  <2>5. Cardinality(here) = 1
    <3>1. Cardinality({k}) = 1
      BY FS_Singleton
    <3>2. QED
      BY <2>2, <2>4, <3>1
  <2>6. IsFiniteSet(here)
    <3>1. IsFiniteSet(1..N) /\ here \in SUBSET (1..N)
      BY FS_Interval
    <3>2. QED
      BY <3>1, FS_Subset
  <2>7. m \in here /\ n \in here
    BY <1>3
  <2> HIDE DEF here
  <2>8. PICK y : here = {y}
    BY <2>5, <2>6, FS_Singleton
  <2>9. QED
    BY <2>7, <2>8
<1>4. QED
  BY <1>2, <1>3

\* Two lists of the same elements, sorted, and strictly so in the second.
SortedAlike(N, list, M, other, less) ==
  /\ DOMAIN list = 1..N /\ DOMAIN other = 1..M
  /\ Counted(list) = Counted(other)
  /\ \A x, y \in Range(other) : <<x, y>> \in less => <<y, x>> \notin less
  /\ \A m, n \in 1..M : m < n => <<other[m], other[n]>> \in less
  /\ \A m, n \in 1..N : m < n => <<list[n], list[m]>> \notin less

\* Sorting leaves no choice where no two elements tie.
LEMMA SortedListsAgree ==
  ASSUME NEW N \in Nat, NEW M \in Nat, NEW list, NEW other, NEW less,
         SortedAlike(N, list, M, other, less)
  PROVE  N = M /\ \A n \in 1..N : list[n] = other[n]
<1> USE DEF SortedAlike
<1>1. \A n \in 1..M : other[n] \in Range(other)
  BY DEF Range
<1>2. \A m, n \in 1..M : m < n => other[m] # other[n]
  BY <1>1
<1>3. \A m, n \in 1..M : other[m] = other[n] => m = n
  <2> SUFFICES ASSUME NEW m \in 1..M, NEW n \in 1..M, other[m] = other[n], m # n PROVE FALSE
    OBVIOUS
  <2>1. m < n \/ n < m
    OBVIOUS
  <2>2. QED
    BY <1>2, <2>1
<1>4. Range(list) = Range(other) /\ \A m, n \in 1..N : list[m] = list[n] => m = n
  BY <1>3, CountedOnce
<1>5. Increasing(other, M, less)
  <2> SUFFICES ASSUME NEW m \in 1..M, NEW n \in 1..M, <<other[m], other[n]>> \in less
               PROVE  m < n
    BY DEF Increasing
  <2>1. <<other[n], other[m]>> \notin less
    BY <1>1
  <2>2. ~(n < m)
    BY <2>1
  <2>3. m # n
    BY <2>1
  <2>4. QED
    BY <2>2, <2>3
<1>6. Increasing(list, N, less)
  <2>1. ASSUME NEW m \in 1..N, NEW n \in 1..N, m < n PROVE <<list[m], list[n]>> \in less
    <3>1. PICK a \in 1..M : other[a] = list[m]
      <4>1. list[m] \in Range(other)
        <5>1. list[m] \in Range(list)
          BY DEF Range
        <5>2. QED
          BY <1>4, <5>1
      <4>2. QED
        BY <4>1 DEF Range
    <3>2. PICK b \in 1..M : other[b] = list[n]
      <4>1. list[n] \in Range(other)
        <5>1. list[n] \in Range(list)
          BY DEF Range
        <5>2. QED
          BY <1>4, <5>1
      <4>2. QED
        BY <4>1 DEF Range
    <3>3. a # b
      BY <1>4, <2>1, <3>1, <3>2
    <3>4. ~(b < a)
      <4>1. <<list[n], list[m]>> \notin less
        BY <2>1
      <4>2. b < a => <<other[b], other[a]>> \in less
        OBVIOUS
      <4>3. QED
        BY <3>1, <3>2, <4>1, <4>2
    <3>5. <<other[a], other[b]>> \in less
      BY <3>3, <3>4
    <3>6. QED
      BY <3>1, <3>2, <3>5
  <2>2. ASSUME NEW m \in 1..N, NEW n \in 1..N, <<list[m], list[n]>> \in less PROVE m < n
    <3>1. list[m] \in Range(other) /\ list[n] \in Range(other)
      BY <1>4 DEF Range
    <3>2. <<list[n], list[m]>> \notin less
      BY <2>2, <3>1
    <3>3. m # n
      BY <2>2, <3>2
    <3>4. ~(n < m)
      BY <2>2
    <3>5. QED
      BY <3>3, <3>4
  <2>3. QED
    BY <2>1, <2>2 DEF Increasing
<1>7. QED
  BY <1>4, <1>5, <1>6, OneIncreasingList

-----------------------------------------------------------------------------
(* The lists of a snapshot.                                                *)

LeavesKeyed(rows) ==
  /\ IsFiniteSet(DOMAIN rows)
  /\ \A i \in DOMAIN rows : rows[i].employee \in Int /\ rows[i].from \in Int

PairsKeyed(rows) ==
  /\ IsFiniteSet(DOMAIN rows)
  /\ \A i \in DOMAIN rows : rows[i].a \in Int /\ rows[i].b \in Int

LeavesListed(list) ==
  \E N \in Nat :
    /\ list = [n \in 1..N |-> list[n]]
    /\ \A n \in 1..N : list[n].employee \in Int /\ list[n].from \in Int
    /\ \A m, n \in 1..N : m < n => ~LeaveBefore(list[n], list[m])

PairsListed(list) ==
  \E N \in Nat :
    /\ list = [n \in 1..N |-> list[n]]
    /\ \A n \in 1..N : list[n].a \in Int /\ list[n].b \in Int
    /\ \A m, n \in 1..N : m < n => ~PairBefore(list[n], list[m])

LEMMA LeaveListingsListed ==
  ASSUME NEW rows, LeavesKeyed(rows), NEW list \in LeaveListings(rows)
  PROVE  LeavesListed(list)
<1> DEFINE N == Cardinality(DOMAIN rows)
<1>1. N \in Nat
  BY FS_CardinalityType DEF LeavesKeyed
<1>2. PICK o \in Orders(DOMAIN rows) :
        /\ \A m, n \in DOMAIN o : m < n => ~LeaveBefore(rows[o[n]], rows[o[m]])
        /\ list = [n \in DOMAIN o |-> ShownLeave(rows[o[n]])]
  BY DEF LeaveListings
<1>3. o \in [1..N -> DOMAIN rows]
  BY DEF Orders, Bijection, Injection
<1> HIDE DEF N
<1>4. \A n \in 1..N : /\ o[n] \in DOMAIN rows
                      /\ list[n].employee = rows[o[n]].employee
                      /\ list[n].from = rows[o[n]].from
  BY <1>2, <1>3 DEF ShownLeave
<1>5. \A n \in 1..N : list[n].employee \in Int /\ list[n].from \in Int
  BY <1>4 DEF LeavesKeyed
<1>6. \A m, n \in 1..N : m < n => ~LeaveBefore(list[n], list[m])
  BY <1>2, <1>3, <1>4 DEF LeaveBefore
<1>7. list = [n \in 1..N |-> list[n]]
  BY <1>2, <1>3
<1>8. QED
  BY <1>1, <1>5, <1>6, <1>7 DEF LeavesListed

LEMMA PairListingsListed ==
  ASSUME NEW rows, PairsKeyed(rows), NEW list \in PairListings(rows)
  PROVE  PairsListed(list)
<1> DEFINE N == Cardinality(DOMAIN rows)
<1>1. N \in Nat
  BY FS_CardinalityType DEF PairsKeyed
<1>2. PICK o \in Orders(DOMAIN rows) :
        /\ \A m, n \in DOMAIN o : m < n => ~PairBefore(rows[o[n]], rows[o[m]])
        /\ list = [n \in DOMAIN o |-> ShownPair(rows[o[n]])]
  BY DEF PairListings
<1>3. o \in [1..N -> DOMAIN rows]
  BY DEF Orders, Bijection, Injection
<1> HIDE DEF N
<1>4. \A n \in 1..N : /\ o[n] \in DOMAIN rows
                      /\ list[n].a = rows[o[n]].a
                      /\ list[n].b = rows[o[n]].b
  BY <1>2, <1>3 DEF ShownPair
<1>5. \A n \in 1..N : list[n].a \in Int /\ list[n].b \in Int
  BY <1>4 DEF PairsKeyed
<1>6. \A m, n \in 1..N : m < n => ~PairBefore(list[n], list[m])
  BY <1>2, <1>3, <1>4 DEF PairBefore
<1>7. list = [n \in 1..N |-> list[n]]
  BY <1>2, <1>3
<1>8. QED
  BY <1>1, <1>5, <1>6, <1>7 DEF PairsListed

LEMMA LeavesAgree ==
  ASSUME NEW list, NEW other, LeavesListed(list), LeavesListed(other),
         Counted(list) = Counted(other),
         \A m, n \in DOMAIN other :
           m # n => ~(other[m].employee = other[n].employee /\ other[m].from = other[n].from)
  PROVE  list = other
<1>1. PICK N \in Nat :
        /\ list = [n \in 1..N |-> list[n]]
        /\ \A m, n \in 1..N : m < n => ~LeaveBefore(list[n], list[m])
  BY DEF LeavesListed
<1>2. PICK M \in Nat :
        /\ other = [n \in 1..M |-> other[n]]
        /\ \A n \in 1..M : other[n].employee \in Int /\ other[n].from \in Int
        /\ \A m, n \in 1..M : m < n => ~LeaveBefore(other[n], other[m])
  BY DEF LeavesListed
<1> DEFINE S == Range(list) \cup Range(other)
           less == {p \in S \X S : LeaveBefore(p[1], p[2])}
<1>3. DOMAIN list = 1..N /\ DOMAIN other = 1..M
  BY <1>1, <1>2
<1>4. \A x, y \in S : <<x, y>> \in less <=> LeaveBefore(x, y)
  OBVIOUS
<1>5. /\ \A n \in 1..N : list[n] \in S
      /\ \A n \in 1..M : other[n] \in S
      /\ Range(other) \subseteq S
  BY <1>3 DEF Range
<1> HIDE DEF less, S
<1>6. \A x \in Range(other) : x.employee \in Int /\ x.from \in Int
  BY <1>2, <1>3 DEF Range
<1>7. \A x, y \in Range(other) : <<x, y>> \in less => <<y, x>> \notin less
  <2>1. \A x, y \in Range(other) : LeaveBefore(x, y) => ~LeaveBefore(y, x)
    BY <1>6 DEF LeaveBefore
  <2>2. QED
    BY <1>4, <1>5, <2>1
<1>8. ASSUME NEW m \in 1..M, NEW n \in 1..M, m < n PROVE <<other[m], other[n]>> \in less
  <2>1. ~LeaveBefore(other[n], other[m])
    BY <1>2, <1>8
  <2>2. ~(other[m].employee = other[n].employee /\ other[m].from = other[n].from)
    BY <1>3, <1>8
  <2>3. LeaveBefore(other[m], other[n])
    BY <1>2, <2>1, <2>2 DEF LeaveBefore
  <2>4. QED
    BY <1>4, <1>5, <2>3
<1>9. ASSUME NEW m \in 1..N, NEW n \in 1..N, m < n PROVE <<list[n], list[m]>> \notin less
  BY <1>1, <1>4, <1>5, <1>9
<1>10. /\ \A m, n \in 1..M : m < n => <<other[m], other[n]>> \in less
       /\ \A m, n \in 1..N : m < n => <<list[n], list[m]>> \notin less
  BY <1>8, <1>9
<1>11. N = M /\ \A n \in 1..N : list[n] = other[n]
  <2>1. SortedAlike(N, list, M, other, less)
    BY <1>3, <1>7, <1>10 DEF SortedAlike
  <2>2. QED
    BY <2>1, SortedListsAgree
<1>12. QED
  BY <1>1, <1>2, <1>11

LEMMA PairsAgree ==
  ASSUME NEW list, NEW other, PairsListed(list), PairsListed(other),
         Counted(list) = Counted(other),
         \A m, n \in DOMAIN other :
           m # n => ~(other[m].a = other[n].a /\ other[m].b = other[n].b)
  PROVE  list = other
<1>1. PICK N \in Nat :
        /\ list = [n \in 1..N |-> list[n]]
        /\ \A m, n \in 1..N : m < n => ~PairBefore(list[n], list[m])
  BY DEF PairsListed
<1>2. PICK M \in Nat :
        /\ other = [n \in 1..M |-> other[n]]
        /\ \A n \in 1..M : other[n].a \in Int /\ other[n].b \in Int
        /\ \A m, n \in 1..M : m < n => ~PairBefore(other[n], other[m])
  BY DEF PairsListed
<1> DEFINE S == Range(list) \cup Range(other)
           less == {p \in S \X S : PairBefore(p[1], p[2])}
<1>3. DOMAIN list = 1..N /\ DOMAIN other = 1..M
  BY <1>1, <1>2
<1>4. \A x, y \in S : <<x, y>> \in less <=> PairBefore(x, y)
  OBVIOUS
<1>5. /\ \A n \in 1..N : list[n] \in S
      /\ \A n \in 1..M : other[n] \in S
      /\ Range(other) \subseteq S
  BY <1>3 DEF Range
<1> HIDE DEF less, S
<1>6. \A x \in Range(other) : x.a \in Int /\ x.b \in Int
  BY <1>2, <1>3 DEF Range
<1>7. \A x, y \in Range(other) : <<x, y>> \in less => <<y, x>> \notin less
  <2>1. \A x, y \in Range(other) : PairBefore(x, y) => ~PairBefore(y, x)
    BY <1>6 DEF PairBefore
  <2>2. QED
    BY <1>4, <1>5, <2>1
<1>8. ASSUME NEW m \in 1..M, NEW n \in 1..M, m < n PROVE <<other[m], other[n]>> \in less
  <2>1. ~PairBefore(other[n], other[m])
    BY <1>2, <1>8
  <2>2. ~(other[m].a = other[n].a /\ other[m].b = other[n].b)
    BY <1>3, <1>8
  <2>3. PairBefore(other[m], other[n])
    BY <1>2, <2>1, <2>2 DEF PairBefore
  <2>4. QED
    BY <1>4, <1>5, <2>3
<1>9. ASSUME NEW m \in 1..N, NEW n \in 1..N, m < n PROVE <<list[n], list[m]>> \notin less
  BY <1>1, <1>4, <1>5, <1>9
<1>10. /\ \A m, n \in 1..M : m < n => <<other[m], other[n]>> \in less
       /\ \A m, n \in 1..N : m < n => <<list[n], list[m]>> \notin less
  BY <1>8, <1>9
<1>11. N = M /\ \A n \in 1..N : list[n] = other[n]
  <2>1. SortedAlike(N, list, M, other, less)
    BY <1>3, <1>7, <1>10 DEF SortedAlike
  <2>2. QED
    BY <2>1, SortedListsAgree
<1>12. QED
  BY <1>1, <1>2, <1>11

Fields ==
  {"period", "employees", "skills", "types", "posts", "needed", "leaves", "pairs"}

\* A snapshot whose lists are sorted.
Listed(s) ==
  /\ s = [field \in Fields |-> s[field]]
  /\ LeavesListed(s.leaves)
  /\ PairsListed(s.pairs)

LEMMA SnapshotsAreListed ==
  ASSUME NEW seen, NEW period, LeavesKeyed(seen.leaves), PairsKeyed(seen.pairs),
         NEW s \in Snapshots(seen, period)
  PROVE  Listed(s)
<1>1. PICK leaves \in LeaveListings(seen.leaves), pairs \in PairListings(seen.pairs) :
        s = [period |-> period, employees |-> seen.employees, skills |-> Contents(seen, "skills"),
             types |-> seen.types, posts |-> seen.posts, needed |-> Needed(seen, period),
             leaves |-> leaves, pairs |-> pairs]
  BY DEF Snapshots
<1>2. LeavesListed(leaves) /\ PairsListed(pairs)
  BY LeaveListingsListed, PairListingsListed
<1>3. s = [field \in Fields |-> s[field]]
  BY <1>1 DEF Fields
<1>4. QED
  BY <1>1, <1>2, <1>3 DEF Listed

\* Snapshots that differ in the order of their lists only are the same, unless
\* their order is not determined.
LEMMA SnapshotsAgree ==
  ASSUME NEW s, NEW made, Listed(s), Listed(made), Unordered(s) = Unordered(made), ~Tied(made)
  PROVE  s = made
<1>1. DOMAIN s = Fields /\ DOMAIN made = Fields
  BY DEF Listed
<1>2. \A field \in Fields : Unordered(s)[field] = Unordered(made)[field]
  OBVIOUS
<1>3. /\ Counted(s.leaves) = Counted(made.leaves)
      /\ Counted(s.pairs) = Counted(made.pairs)
      /\ \A field \in Fields \ {"leaves", "pairs"} : s[field] = made[field]
  BY <1>1, <1>2 DEF Unordered, Fields
<1>4. s.leaves = made.leaves
  BY <1>3, LeavesAgree DEF Listed, Tied
<1>5. s.pairs = made.pairs
  BY <1>3, PairsAgree DEF Listed, Tied
<1>6. \A field \in Fields : s[field] = made[field]
  BY <1>3, <1>4, <1>5
<1>7. QED
  BY <1>6 DEF Listed

-----------------------------------------------------------------------------
(* Snapshots of runs, and the answers that compare them.                   *)

\* The tables that k SELECTs have read.
FirstTables(k) == {SnapshotTables[n] : n \in 1..k}

SeenWell(seen) ==
  /\ \E k \in 0..6 : DOMAIN seen = FirstTables(k)
  /\ "leaves" \in DOMAIN seen => LeavesKeyed(seen["leaves"])
  /\ "pairs" \in DOMAIN seen => PairsKeyed(seen["pairs"])

CallListed(c) ==
  /\ \A r \in call[c].effect.add : r.table = "runs" => Listed(r.values.snapshot)
  /\ call[c].phase = "reading" => SeenWell(call[c].seen)

\* An answer is about a stored run, which nobody has changed since.
Answered(a) ==
  /\ a.run \in DOMAIN db.runs
  /\ Listed(a.snapshot)
  /\ a.accepted <=> db.runs[a.run].snapshot = a.snapshot

Retried ==
  /\ \A r \in DOMAIN db.runs : Listed(db.runs[r].snapshot)
  /\ \A c \in Working : CallListed(c)
  /\ \A a \in answers : Answered(a)

LEMMA TablesCounted ==
  ASSUME NEW k \in 0..6
  PROVE  /\ Cardinality(FirstTables(k)) = k
         /\ Len(SnapshotTables) = 6
         /\ k < 6 => FirstTables(k) \cup {SnapshotTables[k + 1]} = FirstTables(k + 1)
         /\ k = 6 => {"leaves", "pairs"} \subseteq FirstTables(k)
<1> DEFINE f == [n \in 1..k |-> SnapshotTables[n]]
<1>1. /\ DOMAIN SnapshotTables = 1..6 /\ Len(SnapshotTables) = 6
      /\ \A m, n \in 1..6 : SnapshotTables[m] = SnapshotTables[n] => m = n
      /\ SnapshotTables[5] = "leaves" /\ SnapshotTables[6] = "pairs"
  BY DEF SnapshotTables
<1>2. f \in Bijection(1..k, FirstTables(k))
  <2>1. \A n \in 1..k : n \in 1..6
    OBVIOUS
  <2>2. \A m, n \in 1..k : f[m] = f[n] => m = n
    BY <1>1, <2>1
  <2>3. QED
    BY <2>2 DEF Bijection, Injection, Surjection, IsInjective, FirstTables
<1>3. Cardinality(FirstTables(k)) = k
  <2>1. IsFiniteSet(1..k) /\ Cardinality(1..k) = k
    <3>1. /\ IsFiniteSet(1..k)
          /\ Cardinality(1..k) = IF 1 > k THEN 0 ELSE k - 1 + 1
      BY FS_Interval
    <3>2. QED
      BY <3>1
  <2>2. ExistsBijection(1..k, FirstTables(k))
    BY <1>2 DEF ExistsBijection
  <2>3. QED
    BY <2>1, <2>2, FS_Bijection
<1>4. k < 6 => FirstTables(k) \cup {SnapshotTables[k + 1]} = FirstTables(k + 1)
  <2>1. 1..(k + 1) = (1..k) \cup {k + 1}
    OBVIOUS
  <2>2. QED
    BY <2>1 DEF FirstTables
<1>5. k = 6 => {"leaves", "pairs"} \subseteq FirstTables(k)
  BY <1>1 DEF FirstTables
<1>6. QED
  BY <1>1, <1>3, <1>4, <1>5

LEMMA TablesKeyed ==
  ASSUME NEW d, NEW n \in Nat, SoundTables(d, n)
  PROVE  LeavesKeyed(d["leaves"]) /\ PairsKeyed(d["pairs"])
<1>1. {"leaves", "pairs", "employees"} \subseteq TableNames \ {"runs"}
  BY DEF TableNames, ColumnsOf
<1>2. /\ DOMAIN d["leaves"] \subseteq Before(n) /\ DOMAIN d["pairs"] \subseteq Before(n)
      /\ DOMAIN d["employees"] \subseteq Before(n)
  BY <1>1 DEF SoundTables
<1>3. NewId(n, 0, 0) \in Int
  BY SMT DEF NewId
<1>4. IsFiniteSet(Before(n)) /\ Before(n) \subseteq Int
  BY <1>3, FS_Interval DEF Before
<1>5. IsFiniteSet(DOMAIN d["leaves"]) /\ IsFiniteSet(DOMAIN d["pairs"])
  BY <1>2, <1>4, FS_Subset
<1>6. \A i \in DOMAIN d["leaves"] : d["leaves"][i].employee \in Int /\ d["leaves"][i].from \in Int
  BY <1>2, <1>4 DEF SoundTables, Refers
<1>7. \A i \in DOMAIN d["pairs"] : d["pairs"][i].a \in Int /\ d["pairs"][i].b \in Int
  <2>1. \A i \in DOMAIN d["pairs"] : {d["pairs"][i].a, d["pairs"][i].b} \subseteq DOMAIN d["employees"]
    BY DEF SoundTables, Refers
  <2>2. QED
    BY <1>2, <1>4, <2>1
<1>8. QED
  BY <1>5, <1>6, <1>7 DEF LeavesKeyed, PairsKeyed

LEMMA OneCallKeepsRetried ==
  ASSUME Retried, NEW c \in Clients, UNCHANGED <<db, answers>>,
         \A o \in Clients \ {c} : call'[o] = call[o],
         c \in Working' => CallListed(c)'
  PROVE  Retried'
<1>1. ASSUME NEW o \in Working' PROVE CallListed(o)'
  <2>1. CASE o = c
    BY <2>1
  <2>2. CASE o # c
    BY <2>2 DEF Working, Retried, CallListed
  <2>3. QED
    BY <2>1, <2>2
<1>2. QED
  BY <1>1 DEF Retried, Answered

LEMMA ReadNextTableKeepsRetried ==
  ASSUME Inv, Whole, Retried, NEW c \in Clients, ReadNextTable(c)
  PROVE  Retried'
<1>1. /\ c \in Working /\ CallOK(c) /\ DOMAIN call = Clients
      /\ call[c].phase = "reading" /\ CallListed(c)
  BY DEF ReadNextTable, Inv, CallsOK, Retried
<1>2. PICK k \in 0..6 : DOMAIN call[c].seen = FirstTables(k)
  BY <1>1 DEF CallListed, SeenWell
<1> DEFINE seen == call[c].seen
           next == SnapshotTables[k + 1]
           more == [t \in FirstTables(k) \cup {next} |-> IF t = next THEN db[t] ELSE seen[t]]
<1>3. TablesRead(c) = FirstTables(k) /\ Cardinality(FirstTables(k)) = k /\ k < 6
  <2>1. Cardinality(FirstTables(k)) = k
    BY TablesCounted
  <2>2. TablesRead(c) = FirstTables(k)
    BY <1>2, <2>1 DEF TablesRead, FirstTables
  <2>3. QED
    BY <2>1, <2>2, TablesCounted DEF ReadNextTable
<1>4. call' = [call EXCEPT ![c].seen = more]
  BY <1>3 DEF ReadNextTable
<1>5. /\ call'[c].effect = call[c].effect /\ call'[c].phase = "reading"
      /\ call'[c].seen = more
      /\ \A o \in Clients \ {c} : call'[o] = call[o]
  <2> HIDE DEF more
  <2>1. QED
    BY <1>1, <1>4 DEF CallOK
<1>6. DOMAIN more = FirstTables(k + 1) /\ k + 1 \in 0..6
  BY <1>3, TablesCounted
<1>7. LeavesKeyed(db["leaves"]) /\ PairsKeyed(db["pairs"])
  BY TablesKeyed DEF Whole, TablesWell
<1>8. SeenWell(more)
  <2>1. "leaves" \in DOMAIN more => LeavesKeyed(more["leaves"])
    BY <1>1, <1>2, <1>7 DEF CallListed, SeenWell
  <2>2. "pairs" \in DOMAIN more => PairsKeyed(more["pairs"])
    BY <1>1, <1>2, <1>7 DEF CallListed, SeenWell
  <2>3. QED
    BY <1>6, <2>1, <2>2 DEF SeenWell
<1> HIDE DEF more
<1>9. CallListed(c)'
  BY <1>1, <1>5, <1>8 DEF CallListed
<1>10. QED
  BY <1>5, <1>9, OneCallKeepsRetried DEF ReadNextTable

LEMMA LookUpKeepsRetried ==
  ASSUME Inv, Whole, Retried, NEW c \in Clients, LookUpKey(c)
  PROVE  Retried'
<1>1. /\ c \in Working /\ CallOK(c) /\ DOMAIN call = Clients
      /\ call[c].phase = "reading" /\ CallListed(c) /\ UNCHANGED db
  BY DEF LookUpKey, Inv, CallsOK, Retried
<1> DEFINE key == call[c].q.key
           existing == {r \in DOMAIN db.runs : key # None /\ db.runs[r].key = key}
<1>2. PICK k \in 0..6 : DOMAIN call[c].seen = FirstTables(k)
  BY <1>1 DEF CallListed, SeenWell
<1>3. LeavesKeyed(call[c].seen.leaves) /\ PairsKeyed(call[c].seen.pairs)
  <2>1. Cardinality(FirstTables(k)) = k
    BY TablesCounted
  <2>2. TablesRead(c) = FirstTables(k)
    BY <1>2, <2>1 DEF TablesRead, FirstTables
  <2>3. k = 6
    BY <2>1, <2>2, TablesCounted DEF LookUpKey
  <2>4. {"leaves", "pairs"} \subseteq DOMAIN call[c].seen
    BY <1>2, <2>3, TablesCounted
  <2>5. QED
    BY <1>1, <2>4 DEF CallListed, SeenWell
<1>4. \A snapshot \in Snapshots(call[c].seen, call[c].q.period) : Listed(snapshot)
  BY <1>3, SnapshotsAreListed
<1>5. ASSUME NEW snapshot \in Snapshots(call[c].seen, call[c].q.period),
             call' = [call EXCEPT ![c] =
               [q |-> call[c].q, phase |-> "read", gone |-> {},
                effect |-> [Nothing EXCEPT
                  !.add = {Row("runs", NewId(call[c].n, 0, 0), RunRow(key, snapshot))}]]],
             UNCHANGED answers
      PROVE  Retried'
  <2> DEFINE row == Row("runs", NewId(call[c].n, 0, 0), RunRow(key, snapshot))
             effect == [Nothing EXCEPT !.add = {row}]
  <2>1. /\ call'[c] = [q |-> call[c].q, phase |-> "read", gone |-> {}, effect |-> effect]
        /\ \A o \in Clients \ {c} : call'[o] = call[o]
    BY <1>1, <1>5
  <2>2. row.values.snapshot = snapshot
    BY DEF Row, RunRow
  <2> HIDE DEF row
  <2>3. effect.add = {row}
    BY ExceptNothing
  <2> HIDE DEF effect
  <2>4. call'[c].effect = effect /\ call'[c].phase = "read"
    BY <2>1
  <2>5. CallListed(c)'
    BY <1>4, <2>2, <2>3, <2>4 DEF CallListed
  <2>6. QED
    BY <1>1, <1>5, <2>1, <2>5, OneCallKeepsRetried
<1>6. ASSUME NEW snapshot \in Snapshots(call[c].seen, call[c].q.period),
             call' = [call EXCEPT ![c] = NoCall],
             answers' = answers \cup
               {[run |-> r, snapshot |-> snapshot, accepted |-> db.runs[r].snapshot = snapshot] :
                  r \in existing}
      PROVE  Retried'
  <2>1. ASSUME NEW a \in answers' PROVE Answered(a)'
    <3>1. CASE a \in answers
      BY <1>1, <3>1 DEF Retried, Answered
    <3>2. ASSUME NEW r \in existing,
                 a = [run |-> r, snapshot |-> snapshot, accepted |-> db.runs[r].snapshot = snapshot]
          PROVE  Answered(a)'
      <4>1. r \in DOMAIN db.runs /\ Listed(snapshot)
        BY <1>4
      <4>2. /\ a.run = r /\ a.snapshot = snapshot
            /\ a.accepted <=> db.runs[r].snapshot = snapshot
        BY <3>2
      <4>3. QED
        BY <1>1, <4>1, <4>2 DEF Answered
    <3>3. QED
      BY <1>6, <3>1, <3>2
  <2>2. ASSUME NEW o \in Working' PROVE CallListed(o)'
    BY <1>1, <1>6 DEF Working, Retried, CallListed
  <2>3. QED
    BY <1>1, <2>1, <2>2 DEF Retried
<1>7. QED
  BY <1>5, <1>6 DEF LookUpKey

\* A run that is stored stays as it is.
LEMMA CommitKeepsRetried ==
  ASSUME Inv, Whole, Retried, NEW c \in Clients, Commit(c)
  PROVE  Retried'
<1> DEFINE effect == call[c].effect
           gone == call[c].gone
<1>1. /\ c \in Working /\ CallOK(c) /\ DOMAIN call = Clients /\ CallListed(c) /\ RowsOK
      /\ call' = [call EXCEPT ![c] = NoCall] /\ UNCHANGED answers
  BY DEF Commit, Inv, CallsOK, Retried
<1>2. \A o \in Working' : CallListed(o)'
  BY <1>1 DEF Working, Retried, CallListed
<1>3. CASE UNCHANGED db
  BY <1>1, <1>2, <1>3 DEF Retried, Answered
<1>4. CASE db' = After(db, effect, gone)
  <2>1. Modest(effect) /\ GoneOK(effect, gone) /\ "runs" \in TableNames
    BY <1>1 DEF CallOK, TableNames, ColumnsOf
  <2>2. \A r \in effect.add : r.table = "runs" => Listed(r.values.snapshot)
    BY <1>1 DEF CallListed
  <2> HIDE DEF effect, gone
  <2>3. \A i \in DOMAIN db'["runs"] :
          Kept(db, effect, gone, "runs", i, db'["runs"][i]) \/ Added(effect, "runs", i, db'["runs"][i])
    BY <1>4, <2>1, AfterRows
  <2>4. \A i \in DOMAIN db["runs"] :
          <<"runs", i>> \notin gone =>
            i \in DOMAIN db'["runs"] /\ Kept(db, effect, gone, "runs", i, db'["runs"][i])
    BY <1>4, <2>1, AfterRows
  <2>5. \A i : <<"runs", i>> \notin gone
    BY <2>1 DEF GoneOK, Modest
  <2>6. ASSUME NEW i, Kept(db, effect, gone, "runs", i, db'["runs"][i])
        PROVE  i \in DOMAIN db["runs"] /\ db'["runs"][i].snapshot = db["runs"][i].snapshot
    <3>1. i \in DOMAIN db["runs"] /\ DOMAIN db["runs"][i] = ColumnsOf["runs"]
      BY <1>1, <2>6 DEF Kept, RowsOK, Shapes
    <3>2. "snapshot" \in ColumnsOf["runs"]
      BY DEF ColumnsOf
    <3>3. QED
      BY <2>1, <2>6, <3>1, <3>2, NotWritten DEF Kept
  <2>7. ASSUME NEW i \in DOMAIN db'["runs"] PROVE Listed(db'["runs"][i].snapshot)
    <3>1. CASE Added(effect, "runs", i, db'["runs"][i])
      BY <2>2, <3>1 DEF Added
    <3>2. CASE Kept(db, effect, gone, "runs", i, db'["runs"][i])
      BY <2>6, <3>2 DEF Retried
    <3>3. QED
      BY <2>3, <3>1, <3>2
  <2>8. ASSUME NEW a \in answers PROVE Answered(a)'
    <3>1. Answered(a)
      BY DEF Retried
    <3>2. a.run \in DOMAIN db'["runs"] /\ db'["runs"][a.run].snapshot = db["runs"][a.run].snapshot
      BY <2>4, <2>5, <2>6, <3>1 DEF Answered
    <3>3. QED
      BY <3>1, <3>2 DEF Answered
  <2>9. QED
    BY <1>1, <1>2, <2>7, <2>8 DEF Retried
<1>5. QED
  BY <1>3, <1>4 DEF Commit

LEMMA RetriedInit == Init => Retried
<1> SUFFICES ASSUME Init PROVE Retried
  OBVIOUS
<1>1. Working = {} /\ answers = {} /\ db \in Initial
  BY DEF Init, Working
<1>2. DOMAIN db.runs = {}
  BY <1>1, ReferenceDataAssumption DEF Settled
<1>3. QED
  BY <1>1, <1>2 DEF Retried

LEMMA RetriedNext == ASSUME Inv, Whole, Retried, [Next]_vars PROVE Retried'
<1>1. DOMAIN call = Clients
  BY DEF Inv, CallsOK
<1>2. ASSUME NEW c \in Clients, NEW q \in agenda, Handle(c, q) PROVE Retried'
  <2>1. /\ SoundTables(db, calls) /\ calls \in Nat
        /\ WellFormed(q)
    BY ReferenceDataAssumption DEF Whole, TablesWell
  <2>2. CreateScheduleRun(c, q) \/ ReadsProper(c, q)
    BY <1>2, <2>1, HandlersReadProper
  <2>3. CASE CreateScheduleRun(c, q)
    <3>1. /\ call'[c].effect = Nothing /\ call'[c].seen = [t \in {} |-> 0]
          /\ \A o \in Clients \ {c} : call'[o] = call[o]
          /\ UNCHANGED <<db, answers>>
      BY <1>1, <2>3 DEF CreateScheduleRun
    <3>2. SeenWell([t \in {} |-> 0])
      <4>1. FirstTables(0) = {}
        BY DEF FirstTables
      <4>2. QED
        BY <4>1 DEF SeenWell
    <3>3. CallListed(c)'
      BY <3>1, <3>2 DEF CallListed, Nothing
    <3>4. QED
      BY <3>1, <3>3, OneCallKeepsRetried
  <2>4. ASSUME NEW effect, Read(c, q, effect), Decision(db, effect, calls) PROVE Retried'
    <3>1. /\ call'[c] = [q |-> q, effect |-> effect, phase |-> "read", gone |-> {}]
          /\ \A o \in Clients \ {c} : call'[o] = call[o]
          /\ UNCHANGED <<db, answers>>
      BY <1>1, <2>4 DEF Read
    <3>2. call'[c].effect = effect /\ call'[c].phase = "read"
      BY <3>1
    <3>3. CallListed(c)'
      BY <2>4, <3>2 DEF CallListed, Decision, AddsNoRun
    <3>4. QED
      BY <3>1, <3>3, OneCallKeepsRetried
  <2>5. QED
    BY <2>2, <2>3, <2>4 DEF ReadsProper
<1>3. ASSUME NEW c \in Clients, Flush(c) PROVE Retried'
  <2>1. c \in Working /\ CallOK(c) /\ CallListed(c) /\ UNCHANGED <<db, answers>>
    BY <1>3 DEF Flush, Inv, CallsOK, Retried
  <2>2. PICK gone : call' = [call EXCEPT ![c].phase = "flushed", ![c].gone = gone]
    BY <1>3 DEF Flush
  <2>3. /\ call'[c].effect = call[c].effect /\ call'[c].phase = "flushed"
        /\ \A o \in Clients \ {c} : call'[o] = call[o]
    BY <1>1, <2>1, <2>2 DEF CallOK
  <2>4. CallListed(c)'
    BY <2>1, <2>3 DEF CallListed
  <2>5. QED
    BY <2>1, <2>3, <2>4, OneCallKeepsRetried
<1>4. ASSUME NEW c \in Clients, Fail(c) PROVE Retried'
  <2>1. c \notin Working' /\ \A o \in Clients \ {c} : call'[o] = call[o]
    BY <1>1, <1>4 DEF Fail, Working
  <2>2. QED
    BY <1>4, <2>1, OneCallKeepsRetried DEF Fail
<1>5. CASE UNCHANGED vars
  BY <1>5 DEF vars, Retried, Answered, CallListed, Working
<1>6. QED
  BY <1>2, <1>3, <1>4, <1>5, ReadNextTableKeepsRetried, LookUpKeepsRetried, CommitKeepsRetried
     DEF Next

\* A key that comes again is answered with its run exactly if the run would have
\* the same input, unless the order of a list in it is up to the database.
THEOREM RetriesAnsweredHolds == Spec => []RetriesAnswered
<1>1. Init => Inv /\ Whole /\ Retried
  BY InvInit, WholeInit, RetriedInit
<1>2. Inv /\ Whole /\ Retried /\ [Next]_vars => (Inv /\ Whole /\ Retried)'
  BY InvNext, WholeNext, RetriedNext
<1>3. Retried => RetriesAnswered
  <2> SUFFICES ASSUME Retried, NEW a \in answers
               PROVE  LET made == db.runs[a.run].snapshot IN
                      /\ a.accepted => Unordered(a.snapshot) = Unordered(made)
                      /\ ~a.accepted => Unordered(a.snapshot) # Unordered(made) \/ Tied(made)
    BY DEF RetriesAnswered
  <2> DEFINE made == db.runs[a.run].snapshot
  <2>1. Listed(a.snapshot) /\ Listed(made) /\ (a.accepted <=> made = a.snapshot)
    BY DEF Retried, Answered
  <2>2. Unordered(a.snapshot) = Unordered(made) /\ ~Tied(made) => a.snapshot = made
    BY <2>1, SnapshotsAgree
  <2>3. QED
    BY <2>1, <2>2
<1>4. QED
  BY <1>1, <1>2, <1>3, PTL DEF Spec

-----------------------------------------------------------------------------
(* What an effect leaves, on tables that need not meet the checks.         *)

IsRow(row) == row = [column \in DOMAIN row |-> row[column]]

\* The rows that an effect adds are new and have the columns of their table.
Lands(d, effect) ==
  /\ Shaped(d) /\ OneRowPerId(effect)
  /\ \A r \in effect.add :
       /\ r.table \in TableNames \ {"runs"}
       /\ DOMAIN r.values = ColumnsOf[r.table] /\ IsRow(r.values)
       /\ r.id \notin DOMAIN d[r.table]

\* Tables d and new have the same rows in t.
Same(d, new, t) ==
  /\ DOMAIN new[t] = DOMAIN d[t]
  /\ \A i \in DOMAIN d[t] : \A column \in ColumnsOf[t] : new[t][i][column] = d[t][i][column]

AreRows(d) == \A t \in TableNames : \A i \in DOMAIN d[t] : IsRow(d[t][i])

LEMMA RowsLand ==
  ASSUME NEW d, NEW effect, NEW gone, Lands(d, effect), NEW new, new = After(d, effect, gone)
  PROVE  /\ Shaped(new)
         /\ \A t \in TableNames : \A i \in DOMAIN new[t] :
              \/ Stays(d, effect, gone, t, i, new[t][i])
              \/ i \notin DOMAIN d[t] /\ Added(effect, t, i, new[t][i])
         /\ \A t \in TableNames : \A i \in DOMAIN d[t] :
              <<t, i>> \notin gone =>
                i \in DOMAIN new[t] /\ Stays(d, effect, gone, t, i, new[t][i])
         /\ \A r \in effect.add : r.id \in DOMAIN new[r.table] /\ new[r.table][r.id] = r.values
<1>1. DOMAIN new = TableNames
  BY DEF After
<1>2. ASSUME NEW t \in TableNames
      PROVE  /\ \A i \in DOMAIN new[t] :
                  Kept(d, effect, gone, t, i, new[t][i]) \/ Added(effect, t, i, new[t][i])
             /\ \A i \in DOMAIN d[t] :
                  <<t, i>> \notin gone =>
                    i \in DOMAIN new[t] /\ Kept(d, effect, gone, t, i, new[t][i])
             /\ \A r \in effect.add : r.table = t => r.id \in DOMAIN new[t]
  BY AfterRows
<1>3. ASSUME NEW t \in TableNames, NEW i, Added(effect, t, i, new[t][i])
      PROVE  DOMAIN new[t][i] = ColumnsOf[t] /\ i \notin DOMAIN d[t]
  BY <1>3 DEF Added, Lands
<1>4. ASSUME NEW r \in effect.add
      PROVE  r.id \in DOMAIN new[r.table] /\ new[r.table][r.id] = r.values
  <2>1. r.table \in TableNames /\ r.id \in DOMAIN new[r.table] /\ r.id \notin DOMAIN d[r.table]
    BY <1>2 DEF Lands
  <2>2. Added(effect, r.table, r.id, new[r.table][r.id])
    BY <1>2, <2>1 DEF Kept
  <2>3. QED
    BY <2>1, <2>2 DEF Added, Lands, OneRowPerId
<1>5. Shaped(d)
  BY DEF Lands
<1>6. QED
  BY <1>1, <1>2, <1>3, <1>4, <1>5, KeptStays DEF Shaped

\* The rows that a transaction leaves are records.
LEMMA AfterLeavesRows ==
  ASSUME NEW d, NEW effect, NEW gone, Lands(d, effect)
  PROVE  AreRows(After(d, effect, gone))
<1> DEFINE new == After(d, effect, gone)
<1> SUFFICES ASSUME NEW t \in TableNames, NEW i \in DOMAIN new[t] PROVE IsRow(new[t][i])
  BY DEF AreRows
<1> DEFINE Value(column) ==
             IF Updates(d, effect, gone, t, i, column) = {} THEN d[t][i][column]
             ELSE (CHOOSE w \in Updates(d, effect, gone, t, i, column) : TRUE).new[column]
           kept == {k \in DOMAIN d[t] : <<t, k>> \notin gone}
           added == {r \in effect.add : r.table = t}
<1>1. i \in kept \cup {r.id : r \in added}
  BY DEF After
<1>2. new[t][i] = IF i \in kept THEN [column \in DOMAIN d[t][i] |-> Value(column)]
                  ELSE (CHOOSE r \in added : r.id = i).values
  BY <1>1 DEF After, Updates
<1>3. CASE i \in kept
  <2> HIDE DEF Value
  <2>1. new[t][i] = [column \in DOMAIN d[t][i] |-> Value(column)]
    BY <1>2, <1>3
  <2>2. QED
    BY <2>1 DEF IsRow
<1>4. CASE i \notin kept
  <2>1. \E r \in added : r.id = i
    BY <1>1, <1>4
  <2>2. (CHOOSE r \in added : r.id = i) \in added
    BY <2>1
  <2>3. QED
    BY <1>2, <1>4, <2>2 DEF Lands
<1>5. QED
  BY <1>3, <1>4

\* A table that the effect is not about stays as it is.
LEMMA Untouched ==
  ASSUME NEW d, NEW effect, NEW gone, Lands(d, effect), NEW new, new = After(d, effect, gone),
         \A x \in gone : x[1] \in {"skills", "posts"},
         NEW t \in TableNames, \A i : <<t, i>> \notin gone,
         \A w \in effect.set : w.table # t, \A r \in effect.add : r.table # t
  PROVE  Same(d, new, t)
<1>1. \A i \in DOMAIN new[t] : Stays(d, effect, gone, t, i, new[t][i])
  BY RowsLand DEF Added
<1>2. \A i \in DOMAIN d[t] : i \in DOMAIN new[t]
  BY RowsLand
<1>3. \A i \in DOMAIN new[t] : i \in DOMAIN d[t]
  BY <1>1 DEF Stays
<1>4. \A i : <<"leaves", i>> \notin gone
  OBVIOUS
<1>5. ASSUME NEW i \in DOMAIN d[t], NEW column \in ColumnsOf[t]
      PROVE  new[t][i][column] = d[t][i][column]
  <2>1. ColumnAfter(d, effect, gone, t, i, column, new[t][i][column])
    BY <1>1, <1>2 DEF Stays
  <2>2. QED
    BY <1>4, <2>1 DEF ColumnAfter
<1>6. QED
  BY <1>2, <1>3, <1>5 DEF Same

LEMMA SameRows ==
  ASSUME NEW d, NEW new, Shaped(d), Shaped(new), AreRows(d), AreRows(new),
         NEW t \in TableNames, NEW i \in DOMAIN d[t], NEW j \in DOMAIN new[t],
         \A column \in ColumnsOf[t] : new[t][j][column] = d[t][i][column]
  PROVE  new[t][j] = d[t][i]
<1>1. DOMAIN d[t][i] = ColumnsOf[t] /\ DOMAIN new[t][j] = ColumnsOf[t]
  BY DEF Shaped
<1>2. IsRow(d[t][i]) /\ IsRow(new[t][j])
  BY DEF AreRows
<1>3. QED
  BY <1>1, <1>2 DEF IsRow

LEMMA SameContents ==
  ASSUME NEW d, NEW new, Shaped(d), Shaped(new), AreRows(d), AreRows(new),
         NEW t \in TableNames, Same(d, new, t)
  PROVE  Contents(new, t) = Contents(d, t)
<1>1. \A i \in DOMAIN d[t] : new[t][i] = d[t][i]
  BY SameRows DEF Same
<1>2. QED
  BY <1>1 DEF Same, Contents

LEMMA KeysAreColumns == \A t \in TableNames : \A key \in Keys[t] : key \subseteq ColumnsOf[t]
BY DEF TableNames, Keys, ColumnsOf

LEMMA SameUnique ==
  ASSUME NEW d, NEW new, NEW t \in TableNames, Same(d, new, t), NEW key \in Keys[t],
         UniqueIn(d, t, key)
  PROVE  UniqueIn(new, t, key)
BY KeysAreColumns DEF Same, UniqueIn

-----------------------------------------------------------------------------
(* A batch of employees or shift types, with the roles or requirements     *)
(* they are given.                                                         *)

NameColumn(kind) == IF kind = "skills" THEN "code" ELSE "name"
Bearers(d, kind, name) ==
  {i \in DOMAIN d[OwnerTable(kind)] : d[OwnerTable(kind)][i][NameColumn(kind)] = name}

\* The owners that a batch names get the identifiers ids and the columns values.
IsBatch(d, effect, kind, ids, values) ==
  LET t == OwnerTable(kind)
      known == {a \in DOMAIN ids : ids[a] \in DOMAIN d[t]}
  IN  /\ \A a, b \in DOMAIN ids : ids[a] = ids[b] => a = b
      /\ \A a \in DOMAIN ids :
           /\ DOMAIN values[a] = ColumnsOf[t] /\ IsRow(values[a])
           /\ values[a][NameColumn(kind)] = a
           /\ a \in known => ids[a] \in Bearers(d, kind, a)
           /\ a \notin known => Bearers(d, kind, a) = {}
      /\ effect.remove = {}
      /\ effect.set = UNION {Changed(d, t, ids[a], values[a]) : a \in known}
      /\ effect.replaces = {<<t, ids[a]>> : a \in known}
      /\ \A r \in effect.add :
           \/ r.table = t /\ \E a \in DOMAIN ids \ known : r.id = ids[a] /\ r.values = values[a]
           \/ r.table = kind /\ \E a \in DOMAIN ids : r.values[OwnerColumn(kind)] = ids[a]
      /\ \A a \in DOMAIN ids \ known : Row(t, ids[a], values[a]) \in effect.add

Replaced(d, effect) == UNION {Details(d, o) : o \in effect.replaces}

\* Who has no row yet has no roles or requirements.
NoOrphans(d, kind, ids) ==
  \A a \in DOMAIN ids :
    ids[a] \notin DOMAIN d[OwnerTable(kind)] => DetailIds(d, kind, ids[a]) = {}

\* What a batch makes of tables d.
OwnersSaved(d, new, kind, ids, values) ==
  LET t == OwnerTable(kind) IN
  /\ \A a \in DOMAIN ids : ids[a] \in DOMAIN new[t] /\ new[t][ids[a]] = values[a]
  /\ \A i \in DOMAIN new[t] : i \in DOMAIN d[t] \/ \E a \in DOMAIN ids : i = ids[a]
  /\ \A i \in DOMAIN d[t] :
       /\ i \in DOMAIN new[t]
       /\ \/ \E a \in DOMAIN ids : i = ids[a]
          \/ \A column \in ColumnsOf[t] : new[t][i][column] = d[t][i][column]

Others(d, kind, ids) ==
  {i \in DOMAIN d[kind] : \A a \in DOMAIN ids : d[kind][i][OwnerColumn(kind)] # ids[a]}

DetailsSaved(d, new, effect, kind, ids) ==
  /\ \A i \in DOMAIN new[kind] :
       \/ i \in Others(d, kind, ids)
       \/ \E r \in effect.add : r.table = kind /\ r.id = i /\ new[kind][i] = r.values
  /\ \A i \in Others(d, kind, ids) :
       /\ i \in DOMAIN new[kind]
       /\ \A column \in ColumnsOf[kind] : new[kind][i][column] = d[kind][i][column]
  /\ \A r \in effect.add :
       r.table = kind => r.id \in DOMAIN new[kind] /\ new[kind][r.id] = r.values

LEMMA KindFacts ==
  ASSUME NEW kind \in {"skills", "posts"}
  PROVE  /\ kind \in TableNames /\ OwnerTable(kind) \in TableNames /\ OwnerTable(kind) # kind
         /\ OwnerTable(kind) \notin {"skills", "posts", "requests", "leaves"}
         /\ NameColumn(kind) \in ColumnsOf[OwnerTable(kind)]
         /\ OwnerColumn(kind) \in ColumnsOf[kind]
         /\ \A d, o : Details(d, <<OwnerTable(kind), o>>) = {kind} \X DetailIds(d, kind, o)
<1>1. CASE kind = "skills"
  BY <1>1, DetailsAre DEF TableNames, ColumnsOf, OwnerTable, NameColumn, OwnerColumn
<1>2. CASE kind = "posts"
  BY <1>2, DetailsAre DEF TableNames, ColumnsOf, OwnerTable, NameColumn, OwnerColumn
<1>3. QED
  BY <1>1, <1>2

LEMMA ChangedWrites ==
  ASSUME NEW d, NEW t, NEW i, NEW new, NEW column \in DOMAIN new,
         new[column] # d[t][i][column]
  PROVE  Changed(d, t, i, new) # {}
BY DEF Changed

\* The rows that a batch deletes.
LEMMA BatchDeletes ==
  ASSUME NEW kind \in {"skills", "posts"}, NEW d, NEW effect, NEW ids, NEW values,
         IsBatch(d, effect, kind, ids, values), NoOrphans(d, kind, ids)
  PROVE  /\ \A x \in Replaced(d, effect) : x[1] = kind
         /\ \A i \in DOMAIN d[kind] :
              <<kind, i>> \in Replaced(d, effect) <=> i \notin Others(d, kind, ids)
<1> DEFINE t == OwnerTable(kind)
<1>1. effect.replaces = {<<t, ids[a]>> : a \in {b \in DOMAIN ids : ids[b] \in DOMAIN d[t]}}
  BY DEF IsBatch
<1>2. \A o \in effect.replaces :
        \E a \in DOMAIN ids : Details(d, o) = {kind} \X DetailIds(d, kind, ids[a])
  BY <1>1, KindFacts
<1>3. ASSUME NEW x \in Replaced(d, effect)
      PROVE  \E a \in DOMAIN ids : x[1] = kind /\ x[2] \in DetailIds(d, kind, ids[a])
  <2>1. PICK o \in effect.replaces : x \in Details(d, o)
    BY DEF Replaced
  <2>2. QED
    BY <1>2, <2>1
<1>4. ASSUME NEW i \in DOMAIN d[kind], <<kind, i>> \in Replaced(d, effect)
      PROVE  i \notin Others(d, kind, ids)
  <2>1. PICK a \in DOMAIN ids : i \in DetailIds(d, kind, ids[a])
    BY <1>3, <1>4
  <2>2. QED
    BY <2>1 DEF DetailIds, Others
<1>5. ASSUME NEW i \in DOMAIN d[kind], i \notin Others(d, kind, ids)
      PROVE  <<kind, i>> \in Replaced(d, effect)
  <2>1. PICK a \in DOMAIN ids : i \in DetailIds(d, kind, ids[a])
    BY <1>5 DEF DetailIds, Others
  <2>2. ids[a] \in DOMAIN d[t]
    BY <2>1 DEF NoOrphans
  <2>3. <<t, ids[a]>> \in effect.replaces
    BY <1>1, <2>2
  <2>4. Details(d, <<t, ids[a]>>) = {kind} \X DetailIds(d, kind, ids[a])
    BY KindFacts
  <2> HIDE DEF t
  <2>5. <<kind, i>> \in Details(d, <<t, ids[a]>>)
    BY <2>1, <2>4
  <2>6. QED
    BY <2>3, <2>5 DEF Replaced
<1>6. QED
  BY <1>3, <1>4, <1>5

LEMMA BatchSavesOwners ==
  ASSUME NEW kind \in {"skills", "posts"}, NEW d, NEW effect, NEW ids, NEW values,
         Lands(d, effect), IsBatch(d, effect, kind, ids, values), NoOrphans(d, kind, ids),
         NEW new, new = After(d, effect, Replaced(d, effect))
  PROVE  OwnersSaved(d, new, kind, ids, values)
<1> DEFINE t == OwnerTable(kind)
           gone == Replaced(d, effect)
<1>1. /\ t \in TableNames /\ t # kind /\ t # "requests"
      /\ \A i : <<t, i>> \notin gone
  BY KindFacts, BatchDeletes
<1>a. new = After(d, effect, gone)
  OBVIOUS
<1>b. /\ \A a, b \in DOMAIN ids : ids[a] = ids[b] => a = b
      /\ \A a \in DOMAIN ids : DOMAIN values[a] = ColumnsOf[t] /\ IsRow(values[a])
      /\ effect.set = UNION {Changed(d, t, ids[a], values[a]) :
                               a \in {x \in DOMAIN ids : ids[x] \in DOMAIN d[t]}}
      /\ \A r \in effect.add :
           \/ r.table = t /\ \E a \in DOMAIN ids : r.id = ids[a]
           \/ r.table = kind
      /\ \A a \in DOMAIN ids : ids[a] \notin DOMAIN d[t] => Row(t, ids[a], values[a]) \in effect.add
  BY DEF IsBatch
<1> HIDE DEF t, gone
<1>2. /\ Shaped(new)
      /\ \A i \in DOMAIN new[t] :
           \/ Stays(d, effect, gone, t, i, new[t][i])
           \/ i \notin DOMAIN d[t] /\ Added(effect, t, i, new[t][i])
      /\ \A i \in DOMAIN d[t] : i \in DOMAIN new[t] /\ Stays(d, effect, gone, t, i, new[t][i])
  <2>1. \A i \in DOMAIN new[t] :
          \/ Stays(d, effect, gone, t, i, new[t][i])
          \/ i \notin DOMAIN d[t] /\ Added(effect, t, i, new[t][i])
    BY <1>1, <1>a, RowsLand
  <2>2. \A i \in DOMAIN d[t] : i \in DOMAIN new[t] /\ Stays(d, effect, gone, t, i, new[t][i])
    BY <1>1, <1>a, RowsLand
  <2>3. QED
    BY <1>a, <2>1, <2>2, RowsLand
<1>3. \A r \in effect.add : r.id \in DOMAIN new[r.table] /\ new[r.table][r.id] = r.values
  BY <1>a, RowsLand
<1>4. AreRows(new)
  BY <1>a, AfterLeavesRows
<1>5. ASSUME NEW i \in DOMAIN d[t], NEW column \in ColumnsOf[t]
      PROVE  \/ /\ new[t][i][column] = d[t][i][column]
                /\ \A w \in effect.set : ~(w.table = t /\ w.id = i /\ column \in DOMAIN w.new)
             \/ \E w \in effect.set :
                  w.table = t /\ w.id = i /\ column \in DOMAIN w.new
                    /\ new[t][i][column] = w.new[column]
  <2>1. ColumnAfter(d, effect, gone, t, i, column, new[t][i][column])
    BY <1>2 DEF Stays
  <2>2. QED
    BY <1>1, <2>1 DEF ColumnAfter
<1>6. \A w \in effect.set :
        \E a \in DOMAIN ids : ids[a] \in DOMAIN d[t] /\ w \in Changed(d, t, ids[a], values[a])
  BY <1>b
<1>7. \A a \in DOMAIN ids :
        ids[a] \in DOMAIN d[t] => Changed(d, t, ids[a], values[a]) \subseteq effect.set
  BY <1>b
<1>8. ASSUME NEW a \in DOMAIN ids, ids[a] \in DOMAIN d[t], NEW column \in ColumnsOf[t]
      PROVE  new[t][ids[a]][column] = values[a][column]
  <2>1. DOMAIN values[a] = ColumnsOf[t]
    BY <1>b
  <2>2. CASE \E w \in effect.set :
               w.table = t /\ w.id = ids[a] /\ column \in DOMAIN w.new
                 /\ new[t][ids[a]][column] = w.new[column]
    <3>1. PICK w \in effect.set :
               w.table = t /\ w.id = ids[a] /\ column \in DOMAIN w.new
                 /\ new[t][ids[a]][column] = w.new[column]
      BY <2>2
    <3>2. PICK b \in DOMAIN ids : w \in Changed(d, t, ids[b], values[b])
      BY <1>6
    <3>3. w.id = ids[b]
      BY <3>2, ChangedFacts
    <3>4. a = b
      BY <1>b, <3>1, <3>3
    <3>5. w.new[column] = values[a][column]
      BY <2>1, <3>1, <3>2, <3>4, ChangedFacts
    <3>6. QED
      BY <3>1, <3>5
  <2>3. CASE /\ new[t][ids[a]][column] = d[t][ids[a]][column]
             /\ \A w \in effect.set : ~(w.table = t /\ w.id = ids[a] /\ column \in DOMAIN w.new)
    <3>1. SUFFICES ASSUME values[a][column] # d[t][ids[a]][column] PROVE FALSE
      BY <2>3
    <3>2. column \in DOMAIN values[a]
      BY <2>1
    <3>3. PICK w \in Changed(d, t, ids[a], values[a]) : TRUE
      BY <3>1, <3>2, ChangedWrites
    <3>4. w.table = t /\ w.id = ids[a] /\ column \in DOMAIN w.new
      BY <3>1, <3>2, ChangedFacts
    <3>5. QED
      BY <1>7, <1>8, <2>3, <3>4
  <2>4. QED
    BY <1>5, <1>8, <2>2, <2>3
<1>9. ASSUME NEW a \in DOMAIN ids
      PROVE  ids[a] \in DOMAIN new[t] /\ new[t][ids[a]] = values[a]
  <2>1. CASE ids[a] \notin DOMAIN d[t]
    <3>1. Row(t, ids[a], values[a]) \in effect.add
      BY <1>b, <2>1
    <3>2. QED
      BY <1>3, <3>1 DEF Row
  <2>2. CASE ids[a] \in DOMAIN d[t]
    <3>1. /\ DOMAIN values[a] = ColumnsOf[t] /\ IsRow(values[a])
          /\ ids[a] \in DOMAIN new[t]
      BY <1>b, <1>2, <2>2
    <3>2. DOMAIN new[t][ids[a]] = ColumnsOf[t] /\ IsRow(new[t][ids[a]])
      BY <1>1, <1>2, <1>4, <3>1 DEF Shaped, AreRows
    <3>3. QED
      BY <1>8, <2>2, <3>1, <3>2 DEF IsRow
  <2>3. QED
    BY <2>1, <2>2
<1>10. ASSUME NEW i \in DOMAIN new[t], i \notin DOMAIN d[t]
       PROVE  \E a \in DOMAIN ids : i = ids[a]
  <2>1. PICK r \in effect.add : r.table = t /\ r.id = i
    BY <1>2, <1>10 DEF Stays, Added
  <2>2. QED
    BY <1>1, <1>b, <2>1
<1>11. ASSUME NEW i \in DOMAIN d[t], \A a \in DOMAIN ids : i # ids[a], NEW column \in ColumnsOf[t]
       PROVE  new[t][i][column] = d[t][i][column]
  <2>1. \A w \in effect.set : w.id # i
    BY <1>6, <1>11, ChangedFacts
  <2>2. QED
    BY <1>5, <2>1
<1>12. QED
  BY <1>2, <1>9, <1>10, <1>11 DEF OwnersSaved, t

LEMMA BatchSavesDetails ==
  ASSUME NEW kind \in {"skills", "posts"}, NEW d, NEW effect, NEW ids, NEW values,
         Lands(d, effect), IsBatch(d, effect, kind, ids, values), NoOrphans(d, kind, ids),
         NEW new, new = After(d, effect, Replaced(d, effect))
  PROVE  DetailsSaved(d, new, effect, kind, ids)
<1> DEFINE gone == Replaced(d, effect)
<1>1. new = After(d, effect, gone)
  OBVIOUS
<1>2. kind \in TableNames /\ kind # "requests"
  BY KindFacts
<1>3. \A i \in DOMAIN d[kind] : <<kind, i>> \in gone <=> i \notin Others(d, kind, ids)
  BY BatchDeletes
<1> HIDE DEF gone
<1>4. \A i \in DOMAIN new[kind] :
        \/ Stays(d, effect, gone, kind, i, new[kind][i])
        \/ Added(effect, kind, i, new[kind][i])
  BY <1>1, <1>2, RowsLand
<1>5. \A i \in DOMAIN d[kind] :
        <<kind, i>> \notin gone =>
          i \in DOMAIN new[kind] /\ Stays(d, effect, gone, kind, i, new[kind][i])
  BY <1>1, <1>2, RowsLand
<1>6. \A r \in effect.add :
        r.table = kind => r.id \in DOMAIN new[kind] /\ new[kind][r.id] = r.values
  BY <1>1, RowsLand
<1>7. \A w \in effect.set : w.table # kind
  <2>1. ASSUME NEW w \in effect.set PROVE \E a : w \in Changed(d, OwnerTable(kind), ids[a], values[a])
    BY DEF IsBatch
  <2>2. QED
    BY <2>1, KindFacts, ChangedFacts
<1>8. ASSUME NEW i \in Others(d, kind, ids)
      PROVE  /\ i \in DOMAIN new[kind]
             /\ \A column \in ColumnsOf[kind] : new[kind][i][column] = d[kind][i][column]
  <2>1. i \in DOMAIN d[kind] /\ <<kind, i>> \notin gone
    BY <1>3 DEF Others
  <2>2. i \in DOMAIN new[kind] /\ Stays(d, effect, gone, kind, i, new[kind][i])
    BY <1>5, <2>1
  <2>3. QED
    BY <1>2, <1>7, <2>2 DEF Stays, ColumnAfter
<1>9. ASSUME NEW i \in DOMAIN new[kind], i \notin Others(d, kind, ids)
      PROVE  \E r \in effect.add : r.table = kind /\ r.id = i /\ new[kind][i] = r.values
  <2>1. CASE Stays(d, effect, gone, kind, i, new[kind][i])
    BY <1>3, <1>9, <2>1 DEF Stays
  <2>2. CASE Added(effect, kind, i, new[kind][i])
    BY <2>2 DEF Added
  <2>3. QED
    BY <1>4, <2>1, <2>2
<1>10. QED
  BY <1>6, <1>8, <1>9 DEF DetailsSaved

LEMMA BatchLeavesOthers ==
  ASSUME NEW kind \in {"skills", "posts"}, NEW d, NEW effect, NEW ids, NEW values,
         Lands(d, effect), IsBatch(d, effect, kind, ids, values), NoOrphans(d, kind, ids),
         NEW new, new = After(d, effect, Replaced(d, effect)),
         NEW t \in TableNames \ {kind, OwnerTable(kind)}
  PROVE  Same(d, new, t)
<1> DEFINE gone == Replaced(d, effect)
<1>1. new = After(d, effect, gone)
  OBVIOUS
<1>2. \A x \in gone : x[1] = kind
  BY BatchDeletes
<1> HIDE DEF gone
<1>3. (\A x \in gone : x[1] \in {"skills", "posts"}) /\ \A i : <<t, i>> \notin gone
  BY <1>2
<1>4. \A w \in effect.set : w.table # t
  <2>1. ASSUME NEW w \in effect.set PROVE \E a : w \in Changed(d, OwnerTable(kind), ids[a], values[a])
    BY DEF IsBatch
  <2>2. QED
    BY <2>1, ChangedFacts
<1>5. \A r \in effect.add : r.table # t
  BY DEF IsBatch
<1>6. QED
  BY <1>1, <1>3, <1>4, <1>5, Untouched

\* Who bears a name is the one that a batch gave it to.
LEMMA BearersAgain ==
  ASSUME NEW kind \in {"skills", "posts"}, NEW d, NEW effect, NEW ids, NEW values,
         IsBatch(d, effect, kind, ids, values),
         NEW new, OwnersSaved(d, new, kind, ids, values), NEW a \in DOMAIN ids
  PROVE  Bearers(new, kind, a) =
           IF ids[a] \in DOMAIN d[OwnerTable(kind)] THEN Bearers(d, kind, a) ELSE {ids[a]}
<1> DEFINE t == OwnerTable(kind)
           column == NameColumn(kind)
<1>1. column \in ColumnsOf[t]
  BY KindFacts
<1>2. \A b \in DOMAIN ids :
        /\ values[b][column] = b
        /\ ids[b] \in DOMAIN d[t] => d[t][ids[b]][column] = b
        /\ ids[b] \notin DOMAIN d[t] => \A i \in DOMAIN d[t] : d[t][i][column] # b
        /\ ids[b] \in DOMAIN new[t] /\ new[t][ids[b]] = values[b]
  BY DEF IsBatch, Bearers, OwnersSaved
<1>3. /\ \A i \in DOMAIN new[t] : i \in DOMAIN d[t] \/ \E b \in DOMAIN ids : i = ids[b]
      /\ \A i \in DOMAIN d[t] :
           /\ i \in DOMAIN new[t]
           /\ (\E b \in DOMAIN ids : i = ids[b]) \/ new[t][i][column] = d[t][i][column]
  BY <1>1 DEF OwnersSaved
<1>4. /\ Bearers(new, kind, a) = {i \in DOMAIN new[t] : new[t][i][column] = a}
      /\ Bearers(d, kind, a) = {i \in DOMAIN d[t] : d[t][i][column] = a}
  BY DEF Bearers
<1> HIDE DEF t, column
<1>5. ASSUME NEW i \in DOMAIN d[t] PROVE new[t][i][column] = d[t][i][column]
  <2>1. CASE \E b \in DOMAIN ids : i = ids[b]
    BY <1>2, <2>1
  <2>2. QED
    BY <1>3, <2>1
<1>6. ASSUME NEW i \in DOMAIN new[t], i \notin DOMAIN d[t], new[t][i][column] = a
      PROVE  i = ids[a]
  BY <1>2, <1>3, <1>6
<1>7. CASE ids[a] \in DOMAIN d[t]
  <2>1. Bearers(new, kind, a) = Bearers(d, kind, a)
    BY <1>3, <1>4, <1>5, <1>6, <1>7
  <2>2. QED
    BY <1>7, <2>1 DEF t
<1>8. CASE ids[a] \notin DOMAIN d[t]
  <2>1. Bearers(new, kind, a) = {ids[a]}
    BY <1>2, <1>4, <1>5, <1>6, <1>8
  <2>2. QED
    BY <1>8, <2>1 DEF t
<1>9. QED
  BY <1>7, <1>8

-----------------------------------------------------------------------------
(* The same batch twice.                                                   *)

LEMMA OwnersSavedTwice ==
  ASSUME NEW kind \in {"skills", "posts"}, NEW d, NEW once, NEW twice, NEW ids, NEW values,
         OwnersSaved(d, once, kind, ids, values), OwnersSaved(once, twice, kind, ids, values)
  PROVE  Same(once, twice, OwnerTable(kind))
<1> DEFINE t == OwnerTable(kind)
<1>1. DOMAIN twice[t] = DOMAIN once[t]
  BY DEF OwnersSaved
<1>2. ASSUME NEW i \in DOMAIN once[t], NEW column \in ColumnsOf[t]
      PROVE  twice[t][i][column] = once[t][i][column]
  BY DEF OwnersSaved
<1>3. QED
  BY <1>1, <1>2 DEF Same

DetailValues(effect, kind) == {r.values : r \in {x \in effect.add : x.table = kind}}

\* Of one owner, no two roles or requirements are for the same role.
DetailsApart(effect, kind) ==
  \A r, s \in effect.add :
    /\ r.table = kind /\ s.table = kind
    /\ r.values[OwnerColumn(kind)] = s.values[OwnerColumn(kind)]
    /\ r.values["role"] = s.values["role"]
    => r = s

LEMMA DetailsSavedContents ==
  ASSUME NEW kind \in {"skills", "posts"}, NEW d, NEW new, NEW effect, NEW ids,
         Shaped(d), Shaped(new), AreRows(d), AreRows(new),
         DetailsSaved(d, new, effect, kind, ids)
  PROVE  Contents(new, kind) =
           {d[kind][i] : i \in Others(d, kind, ids)} \cup DetailValues(effect, kind)
<1>1. \A i \in Others(d, kind, ids) : i \in DOMAIN new[kind] /\ new[kind][i] = d[kind][i]
  BY SameRows, KindFacts DEF DetailsSaved, Others
<1>2. Contents(new, kind) \subseteq
        {d[kind][i] : i \in Others(d, kind, ids)} \cup DetailValues(effect, kind)
  BY <1>1 DEF DetailsSaved, Contents, DetailValues
<1>3. {d[kind][i] : i \in Others(d, kind, ids)} \subseteq Contents(new, kind)
  BY <1>1 DEF Contents
<1>4. DetailValues(effect, kind) \subseteq Contents(new, kind)
  BY DEF DetailsSaved, Contents, DetailValues
<1>5. QED
  BY <1>2, <1>3, <1>4

LEMMA DetailsSavedTwice ==
  ASSUME NEW kind \in {"skills", "posts"}, NEW d, NEW once, NEW twice, NEW e, NEW f, NEW ids,
         Shaped(d), Shaped(once), Shaped(twice), AreRows(once), AreRows(twice),
         DetailsSaved(d, once, e, kind, ids), DetailsSaved(once, twice, f, kind, ids),
         DetailValues(f, kind) = DetailValues(e, kind),
         \A v \in DetailValues(e, kind) : \E a \in DOMAIN ids : v[OwnerColumn(kind)] = ids[a]
  PROVE  Contents(twice, kind) = Contents(once, kind)
<1> DEFINE column == OwnerColumn(kind)
<1>1. Contents(twice, kind) =
        {once[kind][i] : i \in Others(once, kind, ids)} \cup DetailValues(e, kind)
  BY DetailsSavedContents
<1>2. {once[kind][i] : i \in Others(once, kind, ids)} \subseteq Contents(once, kind)
  BY DEF Others, Contents
<1>3. DetailValues(e, kind) \subseteq Contents(once, kind)
  BY DEF DetailsSaved, Contents, DetailValues
<1>4. ASSUME NEW i \in DOMAIN once[kind], i \notin Others(once, kind, ids)
      PROVE  once[kind][i] \in DetailValues(e, kind)
  <2>1. column \in ColumnsOf[kind]
    BY KindFacts
  <2>2. i \notin Others(d, kind, ids)
    BY <1>4, <2>1 DEF DetailsSaved, Others
  <2>3. QED
    BY <2>2 DEF DetailsSaved, DetailValues
<1>5. Contents(once, kind) \subseteq
        {once[kind][i] : i \in Others(once, kind, ids)} \cup DetailValues(e, kind)
  BY <1>4 DEF Contents
<1>6. QED
  BY <1>1, <1>2, <1>3, <1>5

LEMMA DetailsStayUnique ==
  ASSUME NEW kind \in {"skills", "posts"}, NEW d, NEW new, NEW effect, NEW ids,
         DetailsSaved(d, new, effect, kind, ids), DetailsApart(effect, kind),
         \A v \in DetailValues(effect, kind) : \E a \in DOMAIN ids : v[OwnerColumn(kind)] = ids[a],
         NEW key \in Keys[kind], UniqueIn(d, kind, key)
  PROVE  UniqueIn(new, kind, key)
<1> DEFINE column == OwnerColumn(kind)
<1>1. key = {column, "role"} /\ key \subseteq ColumnsOf[kind]
  <2>1. CASE kind = "skills"
    BY <2>1 DEF Keys, OwnerColumn, ColumnsOf
  <2>2. CASE kind = "posts"
    BY <2>2 DEF Keys, OwnerColumn, ColumnsOf
  <2>3. QED
    BY <2>1, <2>2
<1>2. \A i \in Others(d, kind, ids) :
        /\ i \in DOMAIN d[kind]
        /\ \A x \in key : new[kind][i][x] = d[kind][i][x]
        /\ \A a \in DOMAIN ids : new[kind][i][column] # ids[a]
  BY <1>1 DEF DetailsSaved, Others
<1> SUFFICES ASSUME NEW i \in DOMAIN new[kind], NEW j \in DOMAIN new[kind],
                    \A x \in key : new[kind][i][x] = new[kind][j][x] /\ new[kind][i][x] # None
             PROVE  i = j
  BY DEF UniqueIn
<1>3. new[kind][i][column] = new[kind][j][column] /\ new[kind][i]["role"] = new[kind][j]["role"]
  BY <1>1
<1> HIDE DEF column
<1>4. ASSUME NEW k \in DOMAIN new[kind], k \notin Others(d, kind, ids)
      PROVE  /\ \E r \in effect.add : r.table = kind /\ r.id = k /\ new[kind][k] = r.values
             /\ \E a \in DOMAIN ids : new[kind][k][column] = ids[a]
  <2>1. PICK r \in effect.add : r.table = kind /\ r.id = k /\ new[kind][k] = r.values
    BY <1>4 DEF DetailsSaved
  <2>2. r.values \in DetailValues(effect, kind)
    BY <2>1 DEF DetailValues
  <2>3. QED
    BY <2>1, <2>2 DEF column
<1>5. CASE i \in Others(d, kind, ids)
  <2>1. j \in Others(d, kind, ids)
    BY <1>2, <1>3, <1>4, <1>5
  <2>2. QED
    BY <1>2, <1>5, <2>1 DEF UniqueIn
<1>6. CASE i \notin Others(d, kind, ids)
  <2>1. j \notin Others(d, kind, ids)
    BY <1>2, <1>3, <1>4, <1>6
  <2>2. PICK r \in effect.add : r.table = kind /\ r.id = i /\ new[kind][i] = r.values
    BY <1>4, <1>6
  <2>3. PICK s \in effect.add : s.table = kind /\ s.id = j /\ new[kind][j] = s.values
    BY <1>4, <2>1
  <2>4. r = s
    BY <1>3, <2>2, <2>3 DEF DetailsApart, column
  <2>5. QED
    BY <2>2, <2>3, <2>4
<1>7. QED
  BY <1>5, <1>6

\* The tables of the batch, its details and everything else are as after the first.
LEMMA BatchTwice ==
  ASSUME NEW kind \in {"skills", "posts"}, NEW d, NEW e, NEW f, NEW ids, NEW values,
         Lands(d, e), IsBatch(d, e, kind, ids, values), NoOrphans(d, kind, ids),
         NEW once, once = After(d, e, Replaced(d, e)),
         Lands(once, f), IsBatch(once, f, kind, ids, values),
         NEW twice, twice = After(once, f, Replaced(once, f)),
         DetailValues(f, kind) = DetailValues(e, kind), DetailsApart(f, kind),
         Unique(once)
  PROVE  /\ Unique(twice)
         /\ \A t \in TableNames : Contents(twice, t) = Contents(once, t)
<1> DEFINE owners == OwnerTable(kind)
<1>1. owners \in TableNames /\ kind \in TableNames /\ owners # kind
  BY KindFacts
<1>2. Shaped(d) /\ Shaped(once) /\ Shaped(twice)
  BY RowsLand DEF Lands
<1>3. AreRows(once) /\ AreRows(twice)
  BY AfterLeavesRows
<1>4. OwnersSaved(d, once, kind, ids, values) /\ DetailsSaved(d, once, e, kind, ids)
  BY BatchSavesOwners, BatchSavesDetails
<1>5. NoOrphans(once, kind, ids)
  BY <1>4 DEF NoOrphans, OwnersSaved
<1>6. OwnersSaved(once, twice, kind, ids, values) /\ DetailsSaved(once, twice, f, kind, ids)
  BY <1>5, BatchSavesOwners, BatchSavesDetails
<1>7. \A v \in DetailValues(e, kind) : \E a \in DOMAIN ids : v[OwnerColumn(kind)] = ids[a]
  <2>1. \A r \in e.add :
          r.table = kind => \E a \in DOMAIN ids : r.values[OwnerColumn(kind)] = ids[a]
    BY <1>1 DEF IsBatch
  <2>2. QED
    BY <2>1 DEF DetailValues
<1>8. ASSUME NEW t \in TableNames \ {kind} PROVE Same(once, twice, t)
  <2>1. CASE t = owners
    BY <1>4, <1>6, <2>1, OwnersSavedTwice
  <2>2. CASE t # owners
    BY <1>5, <2>2, BatchLeavesOthers
  <2>3. QED
    BY <2>1, <2>2
<1>9. Contents(twice, kind) = Contents(once, kind)
  BY <1>2, <1>3, <1>4, <1>6, <1>7, DetailsSavedTwice
<1>10. ASSUME NEW key \in Keys[kind] PROVE UniqueIn(twice, kind, key)
  <2>1. UniqueIn(once, kind, key)
    BY <1>1 DEF Unique
  <2>2. QED
    BY <1>6, <1>7, <2>1, DetailsStayUnique
<1>11. ASSUME NEW t \in TableNames \ {kind}
       PROVE  /\ Contents(twice, t) = Contents(once, t)
              /\ \A key \in Keys[t] : UniqueIn(twice, t, key)
  <2>1. Same(once, twice, t)
    BY <1>8
  <2>2. \A key \in Keys[t] : UniqueIn(once, t, key)
    BY DEF Unique
  <2>3. QED
    BY <1>2, <1>3, <2>1, <2>2, SameContents, SameUnique
<1>12. QED
  BY <1>9, <1>10, <1>11 DEF Unique

\* A transaction that changes nothing, or adds rows of a table without keys.
LEMMA QuietTwice ==
  ASSUME NEW d, NEW f, NEW ts, Lands(d, f), f.set = {}, f.remove = {}, f.replaces = {},
         \A r \in f.add : r.table \in ts, \A t \in ts : Keys[t] = {},
         AreRows(d), Unique(d), NEW new, new = After(d, f, Replaced(d, f))
  PROVE  /\ Unique(new)
         /\ \A t \in TableNames \ ts : Contents(new, t) = Contents(d, t)
<1>1. Replaced(d, f) = {}
  BY DEF Replaced
<1>2. Shaped(d) /\ Shaped(new) /\ AreRows(new)
  BY RowsLand, AfterLeavesRows DEF Lands
<1>3. new = After(d, f, {})
  BY <1>1
<1>4. ASSUME NEW t \in TableNames \ ts PROVE Same(d, new, t)
  BY <1>3, Untouched
<1>5. ASSUME NEW t \in TableNames, NEW key \in Keys[t] PROVE UniqueIn(new, t, key)
  <2>1. t \notin ts
    OBVIOUS
  <2>2. UniqueIn(d, t, key)
    BY DEF Unique
  <2>3. QED
    BY <1>4, <2>1, <2>2, SameUnique
<1>6. QED
  BY <1>2, <1>4, <1>5, SameContents DEF Unique

-----------------------------------------------------------------------------
(* Imports of employees.                                                   *)

CodesOf(rows) == {rows[i].code : i \in Indices(rows)}
RowsOf(rows, code) == {i \in Indices(rows) : rows[i].code = code}

EmployeeIds(d, rows, n) ==
  [code \in CodesOf(rows) |->
     IF ByCode(d, code) # {} THEN TheId(ByCode(d, code)) ELSE NewId(n, Min(RowsOf(rows, code)), 0)]

EmployeeValues(rows) ==
  [code \in CodesOf(rows) |->
     [code |-> code, active |-> TRUE, cap |-> rows[Max(RowsOf(rows, code))].cap]]

FirstOnes(roles) == {j \in DOMAIN roles : \A k \in 1..(j - 1) : roles[k] # roles[j]}
RolesOf(rows, code) == rows[Max(RowsOf(rows, code))].roles

SkillsFor(rows, ids, n, code) ==
  {Row("skills", NewId(n, Max(RowsOf(rows, code)), j),
       [employee |-> ids[code], role |-> RolesOf(rows, code)[j]]) : j \in FirstOnes(RolesOf(rows, code))}

SkillValues(rows, ids) ==
  UNION {{[employee |-> ids[code], role |-> RolesOf(rows, code)[j]] : j \in FirstOnes(RolesOf(rows, code))} :
           code \in CodesOf(rows)}

KnownCodes(d, rows) == {code \in CodesOf(rows) : ByCode(d, code) # {}}

SavesEmployees(d, rows, n, ids, values, effect) ==
  LET known == KnownCodes(d, rows) IN
  /\ effect.set = UNION {Changed(d, "employees", ids[code], values[code]) : code \in known}
  /\ effect.remove = {}
  /\ effect.replaces = {<<"employees", ids[code]>> : code \in known}
  /\ effect.add = {Row("employees", ids[code], values[code]) : code \in CodesOf(rows) \ known}
                  \cup UNION {SkillsFor(rows, ids, n, code) : code \in CodesOf(rows)}

LEMMA EmployeesEffectIs ==
  ASSUME NEW d, NEW rows, NEW n, NEW ids, ids = EmployeeIds(d, rows, n),
         NEW values, values = EmployeeValues(rows),
         NEW effect, effect = EmployeesEffect(d, rows, n)
  PROVE  SavesEmployees(d, rows, n, ids, values, effect)
<1> DEFINE known == KnownCodes(d, rows)
<1> DEFINE codes == {rows[i].code : i \in Indices(rows)}
           With(code) == {i \in Indices(rows) : rows[i].code = code}
           known1 == {code \in codes : ByCode(d, code) # {}}
           Id(code) == IF code \in known1 THEN TheId(ByCode(d, code))
                       ELSE NewId(n, Min(With(code)), 0)
           index(code) == Max(With(code))
           Values(code) == [code |-> code, active |-> TRUE, cap |-> rows[index(code)].cap]
           Kept1(roles) == {j \in DOMAIN roles : \A k \in 1..(j - 1) : roles[k] # roles[j]}
           Skills(code) ==
             LET roles == rows[index(code)].roles IN
             {Row("skills", NewId(n, index(code), j), [employee |-> Id(code), role |-> roles[j]]) :
                j \in Kept1(roles)}
           sets == UNION {Changed(d, "employees", Id(code), Values(code)) : code \in known1}
           replaces == {<<"employees", Id(code)>> : code \in known1}
           adds == {Row("employees", Id(code), Values(code)) : code \in codes \ known1}
                   \cup UNION {Skills(code) : code \in codes}
<1>1. effect = [Nothing EXCEPT !.set = sets, !.replaces = replaces, !.add = adds]
  BY DEF EmployeesEffect
<1>2. codes = CodesOf(rows) /\ known1 = known
  BY DEF CodesOf, KnownCodes
<1>3. \A code \in codes : Id(code) = ids[code] /\ Values(code) = values[code]
  BY DEF EmployeeIds, EmployeeValues, CodesOf, RowsOf
<1>4. ASSUME NEW code \in codes PROVE Skills(code) = SkillsFor(rows, ids, n, code)
  <2>1. Id(code) = ids[code]
    BY <1>3
  <2> HIDE DEF Id
  <2>2. QED
    BY <2>1 DEF SkillsFor, RolesOf, RowsOf, FirstOnes
<1> HIDE DEF Skills, Id, Values
<1>5. sets = UNION {Changed(d, "employees", ids[code], values[code]) : code \in known}
  BY <1>2, <1>3
<1>6. replaces = {<<"employees", ids[code]>> : code \in known}
  BY <1>2, <1>3
<1>7. adds = {Row("employees", ids[code], values[code]) : code \in CodesOf(rows) \ known}
             \cup UNION {SkillsFor(rows, ids, n, code) : code \in CodesOf(rows)}
  BY <1>2, <1>3, <1>4
<1> HIDE DEF sets, replaces, adds
<1>8. effect = [set |-> sets, remove |-> {}, replaces |-> replaces, add |-> adds]
  BY <1>1 DEF Nothing
<1>9. QED
  BY <1>5, <1>6, <1>7, <1>8 DEF SavesEmployees

LEMMA RowsOfFacts ==
  ASSUME NEW rows, DOMAIN rows \subseteq 1..MaxRows, NEW code \in CodesOf(rows)
  PROVE  LET S == RowsOf(rows, code) IN
         /\ Min(S) \in S /\ Max(S) \in S
         /\ Min(S) \in 0..MaxRows /\ Max(S) \in 0..MaxRows
<1> DEFINE S == RowsOf(rows, code)
<1>1. S # {} /\ S \subseteq 1..MaxRows
  BY DEF CodesOf, RowsOf, Indices
<1> HIDE DEF S
<1>2. Min(S) \in S /\ Max(S) \in S
  BY <1>1, RowsBounded, MinMaxInside
<1>3. 1..MaxRows \subseteq 0..MaxRows
  BY RowsBounded
<1>4. QED
  BY <1>1, <1>2, <1>3 DEF S

\* The owner of a code is known by it, or gets an identifier of its own.
LEMMA EmployeeIdsFacts ==
  ASSUME NEW d, NEW rows, NEW n \in Nat, DOMAIN rows \subseteq 1..MaxRows,
         DOMAIN d.employees \cap IdsOf(n) = {}, NEW ids, ids = EmployeeIds(d, rows, n)
  PROVE  /\ DOMAIN ids = CodesOf(rows)
         /\ \A a \in DOMAIN ids :
              /\ ids[a] \in DOMAIN d.employees <=> ByCode(d, a) # {}
              /\ ids[a] \in DOMAIN d.employees => ids[a] \in ByCode(d, a)
         /\ \A a, b \in DOMAIN ids : ids[a] = ids[b] => a = b
<1>1. /\ DOMAIN ids = CodesOf(rows)
      /\ \A a \in CodesOf(rows) :
           ids[a] = IF ByCode(d, a) # {} THEN TheId(ByCode(d, a))
                    ELSE NewId(n, Min(RowsOf(rows, a)), 0)
  BY DEF EmployeeIds
<1>2. \A a \in CodesOf(rows) : Min(RowsOf(rows, a)) \in RowsOf(rows, a) /\ Min(RowsOf(rows, a)) \in 0..MaxRows
  BY RowsOfFacts
<1>3. ASSUME NEW a \in CodesOf(rows), ByCode(d, a) # {}
      PROVE  ids[a] \in ByCode(d, a) /\ ids[a] \in DOMAIN d.employees
  <2>1. ids[a] \in ByCode(d, a)
    BY <1>1, <1>3 DEF TheId
  <2>2. QED
    BY <2>1 DEF ByCode
<1>4. ASSUME NEW a \in CodesOf(rows), ByCode(d, a) = {}
      PROVE  ids[a] = NewId(n, Min(RowsOf(rows, a)), 0) /\ ids[a] \notin DOMAIN d.employees
  <2>1. ids[a] = NewId(n, Min(RowsOf(rows, a)), 0)
    BY <1>1, <1>4
  <2>2. ids[a] \in IdsOf(n)
    BY <1>2, <2>1, FirstId, RowsBounded
  <2>3. QED
    BY <2>1, <2>2
<1>5. ASSUME NEW a \in CodesOf(rows), NEW b \in CodesOf(rows), ids[a] = ids[b] PROVE a = b
  <2>1. CASE ByCode(d, a) # {}
    <3>1. ids[a] \in ByCode(d, a) /\ ids[b] \in ByCode(d, b)
      BY <1>3, <1>4, <1>5, <2>1
    <3>2. QED
      BY <1>5, <3>1 DEF ByCode
  <2>2. CASE ByCode(d, a) = {}
    <3>1. ids[a] = NewId(n, Min(RowsOf(rows, a)), 0) /\ ids[b] = NewId(n, Min(RowsOf(rows, b)), 0)
      BY <1>3, <1>4, <1>5, <2>2
    <3>2. Min(RowsOf(rows, a)) = Min(RowsOf(rows, b))
      <4> DEFINE i == Min(RowsOf(rows, a))
                 k == Min(RowsOf(rows, b))
      <4>1. NewId(n, i, 0) = NewId(n, k, 0)
        BY <1>5, <3>1
      <4>2. i \in 0..MaxRows /\ k \in 0..MaxRows /\ 0 \in 0..MaxRows
        BY <1>2, RowsBounded
      <4> HIDE DEF i, k
      <4>3. i = k
        BY <4>1, <4>2, MadeOnce
      <4>4. QED
        BY <4>3 DEF i, k
    <3>3. QED
      BY <1>2, <3>2 DEF RowsOf
  <2>3. QED
    BY <2>1, <2>2
<1>6. QED
  BY <1>1, <1>3, <1>4, <1>5

LEMMA EmployeesBatch ==
  ASSUME NEW d, NEW rows, NEW n \in Nat, DOMAIN rows \subseteq 1..MaxRows,
         DOMAIN d.employees \cap IdsOf(n) = {}, NEW ids, ids = EmployeeIds(d, rows, n),
         NEW values, values = EmployeeValues(rows),
         NEW effect, effect = EmployeesEffect(d, rows, n)
  PROVE  IsBatch(d, effect, "skills", ids, values)
<1> DEFINE known == KnownCodes(d, rows)
<1>0. known = KnownCodes(d, rows)
  OBVIOUS
<1> HIDE DEF known
<1>1. /\ effect.set = UNION {Changed(d, "employees", ids[code], values[code]) : code \in known}
      /\ effect.remove = {}
      /\ effect.replaces = {<<"employees", ids[code]>> : code \in known}
      /\ effect.add = {Row("employees", ids[code], values[code]) : code \in CodesOf(rows) \ known}
                      \cup UNION {SkillsFor(rows, ids, n, code) : code \in CodesOf(rows)}
  <2>1. SavesEmployees(d, rows, n, ids, values, effect)
    BY <1>0, EmployeesEffectIs
  <2>2. QED
    BY <1>0, <2>1 DEF SavesEmployees
<1>2. /\ DOMAIN ids = CodesOf(rows)
      /\ \A a \in DOMAIN ids :
           /\ ids[a] \in DOMAIN d.employees <=> ByCode(d, a) # {}
           /\ ids[a] \in DOMAIN d.employees => ids[a] \in ByCode(d, a)
      /\ \A a, b \in DOMAIN ids : ids[a] = ids[b] => a = b
  BY EmployeeIdsFacts
<1>3. known = {a \in DOMAIN ids : ids[a] \in DOMAIN d.employees}
  BY <1>0, <1>2 DEF KnownCodes
<1>4. \A a : ByCode(d, a) = Bearers(d, "skills", a)
  BY DEF ByCode, Bearers, OwnerTable, NameColumn
<1>5. \A a \in DOMAIN ids :
        DOMAIN values[a] = ColumnsOf["employees"] /\ IsRow(values[a]) /\ values[a]["code"] = a
  BY <1>2 DEF EmployeeValues, ColumnsOf, IsRow
<1>6. ASSUME NEW r \in effect.add
      PROVE  \/ /\ r.table = "employees"
                /\ \E a \in DOMAIN ids \ known : r.id = ids[a] /\ r.values = values[a]
             \/ r.table = "skills" /\ \E a \in DOMAIN ids : r.values["employee"] = ids[a]
  <2>1. CASE \E code \in CodesOf(rows) \ known : r = Row("employees", ids[code], values[code])
    BY <1>2, <2>1 DEF Row
  <2>2. CASE \E code \in CodesOf(rows) : r \in SkillsFor(rows, ids, n, code)
    BY <1>2, <2>2 DEF SkillsFor, Row
  <2>3. QED
    BY <1>1, <2>1, <2>2
<1>7. \A a \in DOMAIN ids \ known : Row("employees", ids[a], values[a]) \in effect.add
  BY <1>1, <1>2
<1>8. /\ OwnerTable("skills") = "employees" /\ NameColumn("skills") = "code"
      /\ OwnerColumn("skills") = "employee"
  BY DEF OwnerTable, NameColumn, OwnerColumn
<1>9. \A a \in DOMAIN ids :
        /\ a \in known => ids[a] \in Bearers(d, "skills", a)
        /\ a \notin known => Bearers(d, "skills", a) = {}
  BY <1>2, <1>3, <1>4
<1>10. QED
  BY <1>1, <1>2, <1>3, <1>5, <1>6, <1>7, <1>8, <1>9 DEF IsBatch

LEMMA EmployeesDetails ==
  ASSUME NEW d, NEW rows, NEW n \in Nat, DOMAIN rows \subseteq 1..MaxRows,
         \A i \in DOMAIN rows : DOMAIN rows[i].roles \subseteq 1..MaxRows,
         DOMAIN d.employees \cap IdsOf(n) = {}, NEW ids, ids = EmployeeIds(d, rows, n),
         NEW effect, effect = EmployeesEffect(d, rows, n)
  PROVE  /\ DetailValues(effect, "skills") = SkillValues(rows, ids)
         /\ DetailsApart(effect, "skills")
<1> DEFINE values == EmployeeValues(rows)
           known == KnownCodes(d, rows)
           skills == UNION {SkillsFor(rows, ids, n, code) : code \in CodesOf(rows)}
<1>0. values = EmployeeValues(rows) /\ known = KnownCodes(d, rows)
  OBVIOUS
<1> HIDE DEF known, values
<1>1. effect.add = {Row("employees", ids[code], values[code]) : code \in CodesOf(rows) \ known}
                   \cup skills
  <2>1. SavesEmployees(d, rows, n, ids, values, effect)
    BY <1>0, EmployeesEffectIs
  <2>2. QED
    BY <1>0, <2>1 DEF SavesEmployees
<1>2. \A a, b \in CodesOf(rows) : ids[a] = ids[b] => a = b
  BY EmployeeIdsFacts
<1>3. {x \in effect.add : x.table = "skills"} = skills
  BY <1>1 DEF Row, SkillsFor
<1>4. ASSUME NEW code \in CodesOf(rows)
      PROVE  {r.values : r \in SkillsFor(rows, ids, n, code)} =
               {[employee |-> ids[code], role |-> RolesOf(rows, code)[j]] :
                  j \in FirstOnes(RolesOf(rows, code))}
  <2> DEFINE S == FirstOnes(RolesOf(rows, code))
             row(j) == Row("skills", NewId(n, Max(RowsOf(rows, code)), j),
                           [employee |-> ids[code], role |-> RolesOf(rows, code)[j]])
             value(j) == [employee |-> ids[code], role |-> RolesOf(rows, code)[j]]
  <2>1. SkillsFor(rows, ids, n, code) = {row(j) : j \in S}
    BY DEF SkillsFor
  <2>2. \A j : row(j).values = value(j)
    BY DEF Row
  <2> HIDE DEF S, row, value
  <2>3. {r.values : r \in {row(j) : j \in S}} = {value(j) : j \in S}
    BY <2>2
  <2>4. QED
    BY <2>1, <2>3 DEF S, value
<1>5. DetailValues(effect, "skills") = SkillValues(rows, ids)
  <2>1. DetailValues(effect, "skills") = {r.values : r \in skills}
    BY <1>3 DEF DetailValues
  <2>2. {r.values : r \in skills} =
          UNION {{r.values : r \in SkillsFor(rows, ids, n, code)} : code \in CodesOf(rows)}
    OBVIOUS
  <2>3. QED
    BY <1>4, <2>1, <2>2 DEF SkillValues
<1>6. ASSUME NEW r \in skills
      PROVE  \E code \in CodesOf(rows) : \E j \in FirstOnes(RolesOf(rows, code)) :
               /\ r = Row("skills", NewId(n, Max(RowsOf(rows, code)), j),
                          [employee |-> ids[code], role |-> RolesOf(rows, code)[j]])
               /\ r.values["employee"] = ids[code] /\ r.values["role"] = RolesOf(rows, code)[j]
  <2>1. PICK code \in CodesOf(rows) : r \in SkillsFor(rows, ids, n, code)
    OBVIOUS
  <2>2. PICK j \in FirstOnes(RolesOf(rows, code)) :
          r = Row("skills", NewId(n, Max(RowsOf(rows, code)), j),
                  [employee |-> ids[code], role |-> RolesOf(rows, code)[j]])
    BY <2>1 DEF SkillsFor
  <2>3. QED
    BY <2>2 DEF Row
<1>7. ASSUME NEW code \in CodesOf(rows), NEW j \in FirstOnes(RolesOf(rows, code)),
             NEW k \in FirstOnes(RolesOf(rows, code)), RolesOf(rows, code)[j] = RolesOf(rows, code)[k]
      PROVE  j = k
  <2>1. Max(RowsOf(rows, code)) \in DOMAIN rows
    BY RowsOfFacts DEF RowsOf, Indices
  <2>2. DOMAIN RolesOf(rows, code) \subseteq 1..MaxRows
    BY <2>1 DEF RolesOf
  <2>3. j \in 1..MaxRows /\ k \in 1..MaxRows
    BY <2>2 DEF FirstOnes
  <2>4. /\ j \in Nat \ {0} /\ k \in Nat \ {0}
    BY <2>3, RowsBounded
  <2>5. ~(j < k) /\ ~(k < j)
    <3>1. j < k => j \in 1..(k - 1)
      BY <2>4
    <3>2. k < j => k \in 1..(j - 1)
      BY <2>4
    <3>3. QED
      BY <1>7, <3>1, <3>2 DEF FirstOnes
  <2>6. QED
    BY <2>4, <2>5
<1>8. DetailsApart(effect, "skills")
  <2> SUFFICES ASSUME NEW r \in skills, NEW s \in skills,
                      r.values["employee"] = s.values["employee"],
                      r.values["role"] = s.values["role"]
               PROVE  r = s
    BY <1>3 DEF DetailsApart, OwnerColumn
  <2>1. PICK a \in CodesOf(rows) : \E j \in FirstOnes(RolesOf(rows, a)) :
               /\ r = Row("skills", NewId(n, Max(RowsOf(rows, a)), j),
                          [employee |-> ids[a], role |-> RolesOf(rows, a)[j]])
               /\ r.values["employee"] = ids[a] /\ r.values["role"] = RolesOf(rows, a)[j]
    BY <1>6
  <2>2. PICK b \in CodesOf(rows) : \E j \in FirstOnes(RolesOf(rows, b)) :
               /\ s = Row("skills", NewId(n, Max(RowsOf(rows, b)), j),
                          [employee |-> ids[b], role |-> RolesOf(rows, b)[j]])
               /\ s.values["employee"] = ids[b] /\ s.values["role"] = RolesOf(rows, b)[j]
    BY <1>6
  <2>3. a = b
    BY <1>2, <2>1, <2>2
  <2>4. QED
    BY <1>7, <2>1, <2>2, <2>3
<1>9. QED
  BY <1>5, <1>8

-----------------------------------------------------------------------------
(* Imports of shift types.                                                 *)

NamesOf(rows) == {rows[i].name : i \in Indices(rows)}
RowsNamed(rows, name) == {i \in Indices(rows) : rows[i].name = name}

TypeIds(d, rows, n) ==
  [name \in NamesOf(rows) |->
     IF Bearers(d, "posts", name) # {} THEN TheId(Bearers(d, "posts", name))
     ELSE NewId(n, Min(RowsNamed(rows, name)), 0)]

TypeValues(rows) == [name \in NamesOf(rows) |-> Definition(rows[Min(RowsNamed(rows, name))])]

KnownNames(d, rows) == {name \in NamesOf(rows) : Bearers(d, "posts", name) # {}}

PostFor(rows, ids, n, i) ==
  Row("posts", NewId(n, i, 1),
      [type |-> ids[rows[i].name], role |-> rows[i].role, count |-> rows[i].count])

PostValues(rows, ids) ==
  {[type |-> ids[rows[i].name], role |-> rows[i].role, count |-> rows[i].count] : i \in Indices(rows)}

SavesTypes(d, rows, n, ids, values, effect) ==
  LET known == KnownNames(d, rows) IN
  /\ effect.set = UNION {Changed(d, "types", ids[name], values[name]) : name \in known}
  /\ effect.remove = {}
  /\ effect.replaces = {<<"types", ids[name]>> : name \in known}
  /\ effect.add = {Row("types", ids[name], values[name]) : name \in NamesOf(rows) \ known}
                  \cup {PostFor(rows, ids, n, i) : i \in Indices(rows)}

LEMMA TypesEffectIs ==
  ASSUME NEW d, NEW rows, NEW n, NEW ids, ids = TypeIds(d, rows, n),
         NEW values, values = TypeValues(rows),
         NEW effect, effect = TypesEffect(d, rows, n)
  PROVE  SavesTypes(d, rows, n, ids, values, effect)
<1> DEFINE names == {rows[i].name : i \in Indices(rows)}
           Named(name) == {t \in DOMAIN d.types : d.types[t].name = name}
           known1 == {name \in names : Named(name) # {}}
           first(name) == Min({i \in Indices(rows) : rows[i].name = name})
           Id(name) == IF name \in known1 THEN TheId(Named(name)) ELSE NewId(n, first(name), 0)
           Posts(i) == Row("posts", NewId(n, i, 1),
                           [type |-> Id(rows[i].name), role |-> rows[i].role,
                            count |-> rows[i].count])
           sets == UNION {Changed(d, "types", Id(name), Definition(rows[first(name)])) : name \in known1}
           replaces == {<<"types", Id(name)>> : name \in known1}
           adds == {Row("types", Id(name), Definition(rows[first(name)])) : name \in names \ known1}
                   \cup {Posts(i) : i \in Indices(rows)}
           known == KnownNames(d, rows)
<1>1. effect = [Nothing EXCEPT !.set = sets, !.replaces = replaces, !.add = adds]
  BY DEF TypesEffect
<1>2. \A name : Named(name) = Bearers(d, "posts", name)
  BY DEF Bearers, OwnerTable, NameColumn
<1>3. names = NamesOf(rows) /\ known1 = known
  BY <1>2 DEF NamesOf, KnownNames
<1>4. \A name \in names : Id(name) = ids[name] /\ Definition(rows[first(name)]) = values[name]
  BY <1>2 DEF TypeIds, TypeValues, NamesOf, RowsNamed
<1>5. \A i \in Indices(rows) : Posts(i) = PostFor(rows, ids, n, i)
  <2> SUFFICES ASSUME NEW i \in Indices(rows) PROVE Posts(i) = PostFor(rows, ids, n, i)
    OBVIOUS
  <2>1. Id(rows[i].name) = ids[rows[i].name]
    BY <1>4
  <2> HIDE DEF Id
  <2>2. QED
    BY <2>1 DEF PostFor
<1> HIDE DEF Posts, Id, first
<1>6. sets = UNION {Changed(d, "types", ids[name], values[name]) : name \in known}
  BY <1>3, <1>4
<1>7. replaces = {<<"types", ids[name]>> : name \in known}
  BY <1>3, <1>4
<1>8. adds = {Row("types", ids[name], values[name]) : name \in NamesOf(rows) \ known}
             \cup {PostFor(rows, ids, n, i) : i \in Indices(rows)}
  BY <1>3, <1>4, <1>5
<1> HIDE DEF sets, replaces, adds
<1>9. effect = [set |-> sets, remove |-> {}, replaces |-> replaces, add |-> adds]
  BY <1>1 DEF Nothing
<1>10. QED
  BY <1>6, <1>7, <1>8, <1>9 DEF SavesTypes

LEMMA RowsNamedFacts ==
  ASSUME NEW rows, DOMAIN rows \subseteq 1..MaxRows, NEW name \in NamesOf(rows)
  PROVE  LET S == RowsNamed(rows, name) IN Min(S) \in S /\ Min(S) \in 0..MaxRows
<1> DEFINE S == RowsNamed(rows, name)
<1>1. S # {} /\ S \subseteq 1..MaxRows
  BY DEF NamesOf, RowsNamed, Indices
<1> HIDE DEF S
<1>2. Min(S) \in S
  BY <1>1, RowsBounded, MinMaxInside
<1>3. 1..MaxRows \subseteq 0..MaxRows
  BY RowsBounded
<1>4. QED
  BY <1>1, <1>2, <1>3 DEF S

\* The shift type of a name is known by it, or gets an identifier of its own.
LEMMA TypeIdsFacts ==
  ASSUME NEW d, NEW rows, NEW n \in Nat, DOMAIN rows \subseteq 1..MaxRows,
         DOMAIN d.types \cap IdsOf(n) = {}, NEW ids, ids = TypeIds(d, rows, n)
  PROVE  /\ DOMAIN ids = NamesOf(rows)
         /\ \A a \in DOMAIN ids :
              /\ ids[a] \in DOMAIN d.types <=> Bearers(d, "posts", a) # {}
              /\ ids[a] \in DOMAIN d.types => ids[a] \in Bearers(d, "posts", a)
         /\ \A a, b \in DOMAIN ids : ids[a] = ids[b] => a = b
<1>1. /\ DOMAIN ids = NamesOf(rows)
      /\ \A a \in NamesOf(rows) :
           ids[a] = IF Bearers(d, "posts", a) # {} THEN TheId(Bearers(d, "posts", a))
                    ELSE NewId(n, Min(RowsNamed(rows, a)), 0)
  BY DEF TypeIds
<1>2. \A a \in NamesOf(rows) :
        Min(RowsNamed(rows, a)) \in RowsNamed(rows, a) /\ Min(RowsNamed(rows, a)) \in 0..MaxRows
  BY RowsNamedFacts
<1>3. ASSUME NEW a \in NamesOf(rows), Bearers(d, "posts", a) # {}
      PROVE  ids[a] \in Bearers(d, "posts", a) /\ ids[a] \in DOMAIN d.types
  <2>1. ids[a] \in Bearers(d, "posts", a)
    BY <1>1, <1>3 DEF TheId
  <2>2. QED
    BY <2>1 DEF Bearers, OwnerTable
<1>4. ASSUME NEW a \in NamesOf(rows), Bearers(d, "posts", a) = {}
      PROVE  ids[a] = NewId(n, Min(RowsNamed(rows, a)), 0) /\ ids[a] \notin DOMAIN d.types
  <2>1. ids[a] = NewId(n, Min(RowsNamed(rows, a)), 0)
    BY <1>1, <1>4
  <2>2. ids[a] \in IdsOf(n)
    BY <1>2, <2>1, FirstId, RowsBounded
  <2>3. QED
    BY <2>1, <2>2
<1>5. ASSUME NEW a \in NamesOf(rows), NEW b \in NamesOf(rows), ids[a] = ids[b] PROVE a = b
  <2>1. CASE Bearers(d, "posts", a) # {}
    <3>1. ids[a] \in Bearers(d, "posts", a) /\ ids[b] \in Bearers(d, "posts", b)
      BY <1>3, <1>4, <1>5, <2>1
    <3>2. QED
      BY <1>5, <3>1 DEF Bearers
  <2>2. CASE Bearers(d, "posts", a) = {}
    <3> DEFINE i == Min(RowsNamed(rows, a))
               k == Min(RowsNamed(rows, b))
    <3>1. NewId(n, i, 0) = NewId(n, k, 0)
      BY <1>3, <1>4, <1>5, <2>2
    <3>2. i \in 0..MaxRows /\ k \in 0..MaxRows /\ 0 \in 0..MaxRows
      BY <1>2, RowsBounded
    <3> HIDE DEF i, k
    <3>3. i = k
      BY <3>1, <3>2, MadeOnce
    <3>4. QED
      BY <1>2, <3>3 DEF i, k, RowsNamed
  <2>3. QED
    BY <2>1, <2>2
<1>6. QED
  BY <1>1, <1>3, <1>4, <1>5

LEMMA TypesBatch ==
  ASSUME NEW d, NEW rows, NEW n \in Nat, DOMAIN rows \subseteq 1..MaxRows,
         DOMAIN d.types \cap IdsOf(n) = {}, NEW ids, ids = TypeIds(d, rows, n),
         NEW values, values = TypeValues(rows),
         NEW effect, effect = TypesEffect(d, rows, n)
  PROVE  IsBatch(d, effect, "posts", ids, values)
<1> DEFINE known == KnownNames(d, rows)
<1>1. known = KnownNames(d, rows)
  OBVIOUS
<1> HIDE DEF known
<1>2. /\ effect.set = UNION {Changed(d, "types", ids[name], values[name]) : name \in known}
      /\ effect.remove = {}
      /\ effect.replaces = {<<"types", ids[name]>> : name \in known}
      /\ effect.add = {Row("types", ids[name], values[name]) : name \in NamesOf(rows) \ known}
                      \cup {PostFor(rows, ids, n, i) : i \in Indices(rows)}
  <2>1. SavesTypes(d, rows, n, ids, values, effect)
    BY TypesEffectIs
  <2>2. QED
    BY <1>1, <2>1 DEF SavesTypes
<1>3. /\ DOMAIN ids = NamesOf(rows)
      /\ \A a \in DOMAIN ids :
           /\ ids[a] \in DOMAIN d.types <=> Bearers(d, "posts", a) # {}
           /\ ids[a] \in DOMAIN d.types => ids[a] \in Bearers(d, "posts", a)
      /\ \A a, b \in DOMAIN ids : ids[a] = ids[b] => a = b
  BY TypeIdsFacts
<1>4. known = {a \in DOMAIN ids : ids[a] \in DOMAIN d.types}
  BY <1>1, <1>3 DEF KnownNames
<1>5. \A a \in DOMAIN ids :
        DOMAIN values[a] = ColumnsOf["types"] /\ IsRow(values[a]) /\ values[a]["name"] = a
  <2>1. ASSUME NEW a \in DOMAIN ids PROVE rows[Min(RowsNamed(rows, a))].name = a
    BY <1>3, RowsNamedFacts DEF RowsNamed
  <2>2. QED
    BY <1>3, <2>1 DEF TypeValues, Definition, ColumnsOf, IsRow
<1>6. ASSUME NEW r \in effect.add
      PROVE  \/ /\ r.table = "types"
                /\ \E a \in DOMAIN ids \ known : r.id = ids[a] /\ r.values = values[a]
             \/ r.table = "posts" /\ \E a \in DOMAIN ids : r.values["type"] = ids[a]
  <2>1. CASE \E name \in NamesOf(rows) \ known : r = Row("types", ids[name], values[name])
    BY <1>3, <2>1 DEF Row
  <2>2. CASE \E i \in Indices(rows) : r = PostFor(rows, ids, n, i)
    <3>1. PICK i \in Indices(rows) : r = PostFor(rows, ids, n, i)
      BY <2>2
    <3>2. rows[i].name \in DOMAIN ids
      BY <1>3 DEF NamesOf
    <3>3. r.table = "posts" /\ r.values["type"] = ids[rows[i].name]
      BY <3>1 DEF PostFor, Row
    <3>4. QED
      BY <3>2, <3>3
  <2>3. QED
    BY <1>2, <2>1, <2>2
<1>7. \A a \in DOMAIN ids \ known : Row("types", ids[a], values[a]) \in effect.add
  BY <1>2, <1>3
<1>8. /\ OwnerTable("posts") = "types" /\ NameColumn("posts") = "name"
      /\ OwnerColumn("posts") = "type"
  BY DEF OwnerTable, NameColumn, OwnerColumn
<1>9. \A a \in DOMAIN ids :
        /\ a \in known => ids[a] \in Bearers(d, "posts", a)
        /\ a \notin known => Bearers(d, "posts", a) = {}
  BY <1>3, <1>4
<1>10. QED
  BY <1>2, <1>3, <1>4, <1>5, <1>6, <1>7, <1>8, <1>9 DEF IsBatch

LEMMA TypesDetails ==
  ASSUME NEW d, NEW rows, NEW n \in Nat, DOMAIN rows \subseteq 1..MaxRows, ValidTypes(rows),
         DOMAIN d.types \cap IdsOf(n) = {}, NEW ids, ids = TypeIds(d, rows, n),
         NEW effect, effect = TypesEffect(d, rows, n)
  PROVE  /\ DetailValues(effect, "posts") = PostValues(rows, ids)
         /\ DetailsApart(effect, "posts")
<1> DEFINE values == TypeValues(rows)
           known == KnownNames(d, rows)
           posts == {PostFor(rows, ids, n, i) : i \in Indices(rows)}
<1>1. effect.add = {Row("types", ids[name], values[name]) : name \in NamesOf(rows) \ known} \cup posts
  BY TypesEffectIs DEF SavesTypes
<1>2. DOMAIN ids = NamesOf(rows) /\ \A a, b \in DOMAIN ids : ids[a] = ids[b] => a = b
  BY TypeIdsFacts
<1> HIDE DEF known, values
<1>3. {x \in effect.add : x.table = "posts"} = posts
  BY <1>1 DEF Row, PostFor
<1>4. \A i \in Indices(rows) :
        PostFor(rows, ids, n, i).values =
          [type |-> ids[rows[i].name], role |-> rows[i].role, count |-> rows[i].count]
  BY DEF PostFor, Row
<1>5. DetailValues(effect, "posts") = PostValues(rows, ids)
  <2>1. DetailValues(effect, "posts") = {r.values : r \in posts}
    BY <1>3 DEF DetailValues
  <2> DEFINE row(i) == PostFor(rows, ids, n, i)
             value(i) == [type |-> ids[rows[i].name], role |-> rows[i].role, count |-> rows[i].count]
  <2>2. \A i \in Indices(rows) : row(i).values = value(i)
    BY <1>4
  <2>3. posts = {row(i) : i \in Indices(rows)} /\ PostValues(rows, ids) = {value(i) : i \in Indices(rows)}
    BY DEF PostValues
  <2> HIDE DEF row, value, posts
  <2>4. {r.values : r \in {row(i) : i \in Indices(rows)}} = {value(i) : i \in Indices(rows)}
    BY <2>2
  <2>5. QED
    BY <2>1, <2>3, <2>4
<1>6. DetailsApart(effect, "posts")
  <2> SUFFICES ASSUME NEW r \in posts, NEW s \in posts, r.values["type"] = s.values["type"],
                      r.values["role"] = s.values["role"]
               PROVE  r = s
    BY <1>3 DEF DetailsApart, OwnerColumn
  <2>1. PICK i \in Indices(rows) : r = PostFor(rows, ids, n, i)
    OBVIOUS
  <2>2. PICK j \in Indices(rows) : s = PostFor(rows, ids, n, j)
    OBVIOUS
  <2>3. ids[rows[i].name] = ids[rows[j].name] /\ rows[i].role = rows[j].role
    <3>1. r.values["type"] = ids[rows[i].name] /\ r.values["role"] = rows[i].role
      BY <2>1 DEF PostFor, Row
    <3>2. s.values["type"] = ids[rows[j].name] /\ s.values["role"] = rows[j].role
      BY <2>2 DEF PostFor, Row
    <3>3. QED
      BY <3>1, <3>2
  <2>4. rows[i].name = rows[j].name
    BY <1>2, <2>3 DEF NamesOf
  <2>5. i = j
    BY <2>3, <2>4 DEF ValidTypes
  <2>6. QED
    BY <2>1, <2>2, <2>5
<1>7. QED
  BY <1>5, <1>6

-----------------------------------------------------------------------------
(* Imports that are applied twice.                                         *)

\* Call n makes identifiers that no row has.
Fresh(d, n) == \A t \in TableNames \ {"runs"} : DOMAIN d[t] \cap IdsOf(n) = {}

LEMMA OrphansNever ==
  ASSUME NEW d, Refers(d), NEW kind \in {"skills", "posts"}, NEW ids
  PROVE  NoOrphans(d, kind, ids)
<1>1. CASE kind = "skills"
  BY <1>1 DEF Refers, NoOrphans, DetailIds, OwnerTable, OwnerColumn
<1>2. CASE kind = "posts"
  BY <1>2 DEF Refers, NoOrphans, DetailIds, OwnerTable, OwnerColumn
<1>3. QED
  BY <1>1, <1>2

LEMMA EmployeesTwice ==
  ASSUME NEW d, NEW rows, NEW n \in Nat, NEW m \in Nat, RowsWellFormed("employees", rows),
         Fresh(d, n), Refers(d), NEW e, e = EmployeesEffect(d, rows, n), Lands(d, e),
         NEW once, once = After(d, e, Replaced(d, e)), Fresh(once, m), Unique(once),
         NEW f, f = EmployeesEffect(once, rows, m), Lands(once, f),
         NEW twice, twice = After(once, f, Replaced(once, f))
  PROVE  /\ Unique(twice)
         /\ \A t \in TableNames : Contents(twice, t) = Contents(once, t)
<1> DEFINE ids == EmployeeIds(d, rows, n)
           values == EmployeeValues(rows)
<1>1. /\ DOMAIN rows \subseteq 1..MaxRows
      /\ \A i \in DOMAIN rows : DOMAIN rows[i].roles \subseteq 1..MaxRows
  BY DEF RowsWellFormed
<1>2. DOMAIN d.employees \cap IdsOf(n) = {} /\ DOMAIN once.employees \cap IdsOf(m) = {}
  BY DEF Fresh, TableNames, ColumnsOf
<1>3. IsBatch(d, e, "skills", ids, values)
  BY <1>1, <1>2, EmployeesBatch
<1>4. NoOrphans(d, "skills", ids)
  BY OrphansNever
<1>5. OwnersSaved(d, once, "skills", ids, values)
  BY <1>3, <1>4, BatchSavesOwners
<1>6. /\ DOMAIN ids = CodesOf(rows)
      /\ \A a \in DOMAIN ids :
           /\ ids[a] \in DOMAIN d.employees <=> ByCode(d, a) # {}
           /\ ids[a] \in DOMAIN d.employees => ids[a] \in ByCode(d, a)
  BY <1>1, <1>2, EmployeeIdsFacts
<1>7. ASSUME NEW a \in CodesOf(rows) PROVE ByCode(once, a) # {} /\ TheId(ByCode(once, a)) = ids[a]
  <2>1. Bearers(once, "skills", a) =
          IF ids[a] \in DOMAIN d.employees THEN Bearers(d, "skills", a) ELSE {ids[a]}
    BY <1>3, <1>5, <1>6, BearersAgain DEF OwnerTable
  <2>2. \A x : Bearers(x, "skills", a) = ByCode(x, a)
    BY DEF ByCode, Bearers, OwnerTable, NameColumn
  <2>3. CASE ByCode(d, a) # {}
    <3>1. ids[a] = TheId(ByCode(d, a))
      BY <2>3 DEF EmployeeIds
    <3>2. ByCode(once, a) = ByCode(d, a)
      BY <1>6, <2>1, <2>2, <2>3
    <3>3. QED
      BY <2>3, <3>1, <3>2
  <2>4. CASE ByCode(d, a) = {}
    <3>1. ByCode(once, a) = {ids[a]}
      BY <1>6, <2>1, <2>2, <2>4
    <3>2. QED
      BY <3>1 DEF TheId
  <2>5. QED
    BY <2>3, <2>4
<1>8. ids = EmployeeIds(once, rows, m)
  <2>1. EmployeeIds(once, rows, m) = [a \in CodesOf(rows) |-> ids[a]]
    BY <1>7 DEF EmployeeIds
  <2>2. ids = [a \in CodesOf(rows) |-> ids[a]]
    BY DEF EmployeeIds
  <2>3. QED
    BY <2>1, <2>2
<1>9. /\ DetailValues(e, "skills") = SkillValues(rows, ids)
      /\ DetailValues(f, "skills") = SkillValues(rows, ids) /\ DetailsApart(f, "skills")
  BY <1>1, <1>2, <1>8, EmployeesDetails
<1>10. IsBatch(once, f, "skills", ids, values)
  BY <1>1, <1>2, <1>8, EmployeesBatch
<1> HIDE DEF ids, values
<1>11. QED
  BY <1>3, <1>4, <1>9, <1>10, BatchTwice

LEMMA TypesTwice ==
  ASSUME NEW d, NEW rows, NEW n \in Nat, NEW m \in Nat, DOMAIN rows \subseteq 1..MaxRows,
         ValidTypes(rows),
         Fresh(d, n), Refers(d), NEW e, e = TypesEffect(d, rows, n), Lands(d, e),
         NEW once, once = After(d, e, Replaced(d, e)), Fresh(once, m), Unique(once),
         NEW f, f = TypesEffect(once, rows, m), Lands(once, f),
         NEW twice, twice = After(once, f, Replaced(once, f))
  PROVE  /\ Unique(twice)
         /\ \A t \in TableNames : Contents(twice, t) = Contents(once, t)
<1> DEFINE ids == TypeIds(d, rows, n)
           values == TypeValues(rows)
<1>1. DOMAIN d.types \cap IdsOf(n) = {} /\ DOMAIN once.types \cap IdsOf(m) = {}
  BY DEF Fresh, TableNames, ColumnsOf
<1>2. IsBatch(d, e, "posts", ids, values)
  BY <1>1, TypesBatch
<1>3. NoOrphans(d, "posts", ids)
  BY OrphansNever
<1>4. OwnersSaved(d, once, "posts", ids, values)
  BY <1>2, <1>3, BatchSavesOwners
<1>5. /\ DOMAIN ids = NamesOf(rows)
      /\ \A a \in DOMAIN ids :
           /\ ids[a] \in DOMAIN d.types <=> Bearers(d, "posts", a) # {}
           /\ ids[a] \in DOMAIN d.types => ids[a] \in Bearers(d, "posts", a)
  BY <1>1, TypeIdsFacts
<1>6. ASSUME NEW a \in NamesOf(rows)
      PROVE  Bearers(once, "posts", a) # {} /\ TheId(Bearers(once, "posts", a)) = ids[a]
  <2>1. Bearers(once, "posts", a) =
          IF ids[a] \in DOMAIN d.types THEN Bearers(d, "posts", a) ELSE {ids[a]}
    BY <1>2, <1>4, <1>5, BearersAgain DEF OwnerTable
  <2>2. CASE Bearers(d, "posts", a) # {}
    <3>1. ids[a] = TheId(Bearers(d, "posts", a))
      BY <2>2 DEF TypeIds
    <3>2. Bearers(once, "posts", a) = Bearers(d, "posts", a)
      BY <1>5, <2>1, <2>2
    <3>3. QED
      BY <2>2, <3>1, <3>2
  <2>3. CASE Bearers(d, "posts", a) = {}
    <3>1. Bearers(once, "posts", a) = {ids[a]}
      BY <1>5, <2>1, <2>3
    <3>2. QED
      BY <3>1 DEF TheId
  <2>4. QED
    BY <2>2, <2>3
<1>7. ids = TypeIds(once, rows, m)
  <2>1. TypeIds(once, rows, m) = [a \in NamesOf(rows) |-> ids[a]]
    BY <1>6 DEF TypeIds
  <2>2. ids = [a \in NamesOf(rows) |-> ids[a]]
    BY DEF TypeIds
  <2>3. QED
    BY <2>1, <2>2
<1>8. /\ DetailValues(e, "posts") = PostValues(rows, ids)
      /\ DetailValues(f, "posts") = PostValues(rows, ids) /\ DetailsApart(f, "posts")
  BY <1>1, <1>7, TypesDetails
<1>9. IsBatch(once, f, "posts", ids, values)
  BY <1>1, <1>7, TypesBatch
<1> HIDE DEF ids, values
<1>10. QED
  BY <1>2, <1>3, <1>8, <1>9, BatchTwice

PairMade(d, rows, i) ==
  PairRow(TheId(ByCode(d, rows[i].a)), TheId(ByCode(d, rows[i].b)), rows[i].kind,
          rows[i].severity, TRUE)

PairFirsts(d, rows) ==
  {i \in Indices(rows) : \A k \in 1..(i - 1) : ~SamePair(PairMade(d, rows, k), PairMade(d, rows, i))}

PairSeverity(d, rows, i) ==
  rows[Max({k \in Indices(rows) : SamePair(PairMade(d, rows, k), PairMade(d, rows, i))})].severity

StoredPairs(d, made) == {p \in DOMAIN d.pairs : SamePair(d.pairs[p], made)}

PairGiven(d, rows, i) == [severity |-> PairSeverity(d, rows, i), active |-> TRUE]
PairAdded(d, rows, i) == [PairMade(d, rows, i) EXCEPT !.severity = PairSeverity(d, rows, i)]

SavesPairs(d, rows, n, effect) ==
  LET Stored(i) == StoredPairs(d, PairMade(d, rows, i))
      new == {i \in PairFirsts(d, rows) : Stored(i) = {}}
  IN  /\ effect.set = UNION {Changed(d, "pairs", TheId(Stored(i)), PairGiven(d, rows, i)) :
                               i \in PairFirsts(d, rows) \ new}
      /\ effect.remove = {} /\ effect.replaces = {}
      /\ effect.add = {Row("pairs", NewId(n, i, 0), PairAdded(d, rows, i)) : i \in new}

LEMMA PairsEffectIs ==
  ASSUME NEW d, NEW rows, NEW n
  PROVE  SavesPairs(d, rows, n, PairsEffect(d, rows, n))
<1> DEFINE Id(code) == TheId(ByCode(d, code))
           Made(i) == PairRow(Id(rows[i].a), Id(rows[i].b), rows[i].kind, rows[i].severity, TRUE)
           Stored(i) == {p \in DOMAIN d.pairs : SamePair(d.pairs[p], Made(i))}
           firsts == {i \in Indices(rows) : \A k \in 1..(i - 1) : ~SamePair(Made(k), Made(i))}
           severity(i) ==
             rows[Max({k \in Indices(rows) : SamePair(Made(k), Made(i))})].severity
           new == {i \in firsts : Stored(i) = {}}
           Values(i) == [severity |-> severity(i), active |-> TRUE]
           sets == UNION {Changed(d, "pairs", TheId(Stored(i)), Values(i)) : i \in firsts \ new}
           adds == {Row("pairs", NewId(n, i, 0), [Made(i) EXCEPT !.severity = severity(i)]) :
                      i \in new}
<1>1. PairsEffect(d, rows, n) = [Nothing EXCEPT !.set = sets, !.add = adds]
  BY DEF PairsEffect
<1>2. \A i : Made(i) = PairMade(d, rows, i)
  BY DEF PairMade
<1>3. \A i : Stored(i) = StoredPairs(d, PairMade(d, rows, i))
  BY DEF PairMade, StoredPairs
<1>4. firsts = PairFirsts(d, rows)
  BY DEF PairMade, PairFirsts
<1>5. \A i : severity(i) = PairSeverity(d, rows, i)
  BY DEF PairMade, PairSeverity
<1> HIDE DEF Made, Stored, firsts, severity
<1>6. new = {i \in PairFirsts(d, rows) : StoredPairs(d, PairMade(d, rows, i)) = {}}
  BY <1>3, <1>4
<1>7. \A i : Values(i) = PairGiven(d, rows, i)
  BY <1>5 DEF PairGiven
<1>8. \A i : [Made(i) EXCEPT !.severity = severity(i)] = PairAdded(d, rows, i)
  BY <1>2, <1>5 DEF PairAdded
<1> HIDE DEF new, Values
<1>9. sets = UNION {Changed(d, "pairs", TheId(StoredPairs(d, PairMade(d, rows, i))),
                            PairGiven(d, rows, i)) : i \in PairFirsts(d, rows) \ new}
  BY <1>3, <1>4, <1>7
<1>10. adds = {Row("pairs", NewId(n, i, 0), PairAdded(d, rows, i)) : i \in new}
  BY <1>8
<1> HIDE DEF sets, adds
<1>11. PairsEffect(d, rows, n) = [set |-> sets, remove |-> {}, replaces |-> {}, add |-> adds]
  BY <1>1 DEF Nothing
<1>12. QED
  BY <1>6, <1>9, <1>10, <1>11 DEF SavesPairs

LEMMA FirstsDiffer ==
  ASSUME NEW d, NEW rows, DOMAIN rows \subseteq 1..MaxRows,
         NEW i \in PairFirsts(d, rows), NEW k \in PairFirsts(d, rows),
         SamePair(PairMade(d, rows, i), PairMade(d, rows, k))
  PROVE  i = k
<1>1. i \in 1..MaxRows /\ k \in 1..MaxRows
  BY DEF PairFirsts, Indices
<1>2. i \in Nat \ {0} /\ k \in Nat \ {0}
  BY <1>1, RowsBounded
<1>3. SamePair(PairMade(d, rows, k), PairMade(d, rows, i))
  BY DEF SamePair
<1>4. k < i => k \in 1..(i - 1)
  BY <1>2
<1>5. i < k => i \in 1..(k - 1)
  BY <1>2
<1>6. ~(k < i) /\ ~(i < k)
  BY <1>3, <1>4, <1>5 DEF PairFirsts
<1>7. QED
  BY <1>2, <1>6

LEMMA PairAddedFacts ==
  ASSUME NEW d, NEW rows, NEW i
  PROVE  LET row == PairAdded(d, rows, i) IN
         /\ IsRow(row)
         /\ row["severity"] = PairSeverity(d, rows, i) /\ row["active"] = TRUE
         /\ \A made : SamePair(row, made) <=> SamePair(PairMade(d, rows, i), made)
         /\ SamePair(row, PairMade(d, rows, i))
<1> DEFINE worst == PairSeverity(d, rows, i)
<1> HIDE DEF worst
<1>1. PairAdded(d, rows, i) = [PairMade(d, rows, i) EXCEPT !.severity = worst]
  BY DEF PairAdded, worst
<1>2. QED
  BY <1>1 DEF PairMade, PairRow, SamePair, IsRow, worst

\* The rows of a pair have what the import says of it.
PairSaved(d, once, rows, i) ==
  LET stored == StoredPairs(once, PairMade(d, rows, i)) IN
  /\ stored # {}
  /\ once["pairs"][TheId(stored)]["severity"] = PairSeverity(d, rows, i)
  /\ once["pairs"][TheId(stored)]["active"] = TRUE

\* After an import of pairs they do.
LEMMA PairsSaved ==
  ASSUME NEW d, NEW rows, NEW n \in Nat, DOMAIN rows \subseteq 1..MaxRows,
         NEW e, e = PairsEffect(d, rows, n), Lands(d, e),
         NEW once, once = After(d, e, {}),
         NEW i \in PairFirsts(d, rows)
  PROVE  PairSaved(d, once, rows, i)
<1> DEFINE made == PairMade(d, rows, i)
<1> HIDE DEF made
<1>0. made = PairMade(d, rows, i)
  BY DEF made
<1> DEFINE Stored(k) == StoredPairs(d, PairMade(d, rows, k))
           new == {k \in PairFirsts(d, rows) : Stored(k) = {}}
           old == PairFirsts(d, rows) \ new
<1>1. /\ e.set = UNION {Changed(d, "pairs", TheId(Stored(k)), PairGiven(d, rows, k)) : k \in old}
      /\ e.add = {Row("pairs", NewId(n, k, 0), PairAdded(d, rows, k)) : k \in new}
  BY PairsEffectIs DEF SavesPairs
<1>2. /\ "pairs" \in TableNames /\ "pairs" # "requests"
      /\ {"na", "nb", "kind", "severity", "active"} \subseteq ColumnsOf["pairs"]
  BY DEF TableNames, ColumnsOf
<1>3. /\ \A p \in DOMAIN once.pairs :
           \/ Stays(d, e, {}, "pairs", p, once.pairs[p])
           \/ p \notin DOMAIN d.pairs /\ Added(e, "pairs", p, once.pairs[p])
      /\ \A p \in DOMAIN d.pairs :
           p \in DOMAIN once.pairs /\ Stays(d, e, {}, "pairs", p, once.pairs[p])
  <2>1. \A p \in DOMAIN once["pairs"] :
          \/ Stays(d, e, {}, "pairs", p, once["pairs"][p])
          \/ p \notin DOMAIN d["pairs"] /\ Added(e, "pairs", p, once["pairs"][p])
    BY <1>2, RowsLand
  <2> DEFINE gone == {}
  <2>2. once = After(d, e, gone) /\ \A x : x \notin gone
    OBVIOUS
  <2> HIDE DEF gone
  <2>3. \A t \in TableNames : \A x \in DOMAIN d[t] :
          <<t, x>> \notin gone => x \in DOMAIN once[t] /\ Stays(d, e, gone, t, x, once[t][x])
    BY <2>2, RowsLand
  <2>4. \A p \in DOMAIN d["pairs"] :
          p \in DOMAIN once["pairs"] /\ Stays(d, e, gone, "pairs", p, once["pairs"][p])
    BY <1>2, <2>2, <2>3
  <2>5. gone = {}
    BY DEF gone
  <2>6. QED
    BY <2>1, <2>4, <2>5
<1>4. \A r \in e.add : r.id \in DOMAIN once[r.table] /\ once[r.table][r.id] = r.values
  BY RowsLand
<1> HIDE DEF new
<1>5. \A w \in e.set :
        \E k \in old : w \in Changed(d, "pairs", TheId(Stored(k)), PairGiven(d, rows, k))
  BY <1>1
<1>6. \A k \in old : Stored(k) # {} /\ TheId(Stored(k)) \in Stored(k)
  BY DEF new, TheId
<1>7. \A w \in e.set : \E k \in old :
        /\ w.table = "pairs" /\ w.id = TheId(Stored(k))
        /\ DOMAIN w.new \subseteq {"severity", "active"}
        /\ \A column \in DOMAIN w.new : w.new[column] = PairGiven(d, rows, k)[column]
  <2> SUFFICES ASSUME NEW w \in e.set
               PROVE  \E k \in old :
                        /\ w.table = "pairs" /\ w.id = TheId(Stored(k))
                        /\ DOMAIN w.new \subseteq {"severity", "active"}
                        /\ \A column \in DOMAIN w.new : w.new[column] = PairGiven(d, rows, k)[column]
    OBVIOUS
  <2>1. PICK k \in old : w \in Changed(d, "pairs", TheId(Stored(k)), PairGiven(d, rows, k))
    BY <1>5
  <2>2. DOMAIN PairGiven(d, rows, k) = {"severity", "active"}
    BY DEF PairGiven
  <2> DEFINE p == TheId(Stored(k))
             row == PairGiven(d, rows, k)
  <2> HIDE DEF p, row
  <2>3. /\ w.table = "pairs" /\ w.id = p /\ DOMAIN w.new \subseteq DOMAIN row
        /\ \A column \in DOMAIN w.new : w.new[column] = row[column]
    BY <2>1, ChangedFacts DEF p, row
  <2>4. QED
    BY <2>2, <2>3 DEF p, row
<1>8. ASSUME NEW p \in DOMAIN d.pairs, NEW column \in {"na", "nb", "kind"}
      PROVE  once.pairs[p][column] = d.pairs[p][column]
  <2>1. ColumnAfter(d, e, {}, "pairs", p, column, once.pairs[p][column])
    BY <1>2, <1>3 DEF Stays
  <2>2. \A w \in e.set : column \notin DOMAIN w.new
    BY <1>7
  <2>3. QED
    BY <2>1, <2>2 DEF ColumnAfter
<1>9. ASSUME NEW p \in DOMAIN d.pairs
      PROVE  p \in DOMAIN once.pairs /\ (SamePair(once.pairs[p], made) <=> SamePair(d.pairs[p], made))
  BY <1>3, <1>8 DEF SamePair
<1>10. ASSUME NEW p \in DOMAIN once.pairs, p \notin DOMAIN d.pairs, SamePair(once.pairs[p], made)
       PROVE  i \in new /\ once.pairs[p] = PairAdded(d, rows, i)
  <2>1. PICK r \in e.add : r.table = "pairs" /\ r.id = p /\ once.pairs[p] = r.values
    BY <1>3, <1>10 DEF Stays, Added
  <2>2. PICK k \in new : r = Row("pairs", NewId(n, k, 0), PairAdded(d, rows, k))
    BY <1>1, <2>1
  <2>3. once.pairs[p] = PairAdded(d, rows, k)
    BY <2>1, <2>2 DEF Row
  <2>4. SamePair(PairMade(d, rows, k), made)
    BY <1>10, <2>3, PairAddedFacts
  <2>5. k = i
    BY <1>0, <2>4, FirstsDiffer DEF new
  <2>6. QED
    BY <2>3, <2>5
<1>11. CASE i \in new
  <2>1. Stored(i) = {}
    BY <1>11 DEF new
  <2>2. \A p \in StoredPairs(once, made) : once.pairs[p] = PairAdded(d, rows, i)
    BY <1>0, <1>9, <1>10, <2>1 DEF StoredPairs
  <2>3. NewId(n, i, 0) \in StoredPairs(once, made)
    <3> DEFINE r == Row("pairs", NewId(n, i, 0), PairAdded(d, rows, i))
    <3>1. r \in e.add
      BY <1>1, <1>11
    <3>2. r.table = "pairs" /\ r.id = NewId(n, i, 0) /\ r.values = PairAdded(d, rows, i)
      BY DEF Row
    <3> HIDE DEF r
    <3>3. NewId(n, i, 0) \in DOMAIN once.pairs /\ once.pairs[NewId(n, i, 0)] = PairAdded(d, rows, i)
      BY <1>4, <3>1, <3>2
    <3>4. QED
      BY <1>0, <3>3, PairAddedFacts DEF StoredPairs
  <2>4. TheId(StoredPairs(once, made)) \in StoredPairs(once, made)
    BY <2>3 DEF TheId
  <2> DEFINE p == TheId(StoredPairs(once, made))
  <2> HIDE DEF p
  <2>5. p \in StoredPairs(once, made) /\ once["pairs"][p] = PairAdded(d, rows, i)
    BY <2>2, <2>4 DEF p
  <2>6. once["pairs"][p]["severity"] = PairSeverity(d, rows, i) /\ once["pairs"][p]["active"] = TRUE
    BY <2>5, PairAddedFacts
  <2>7. QED
    BY <1>0, <2>3, <2>6 DEF PairSaved, p
<1>12. CASE i \notin new
  <2> DEFINE p == TheId(Stored(i))
             row == PairGiven(d, rows, i)
  <2>1. i \in old /\ p \in Stored(i)
    BY <1>6, <1>12
  <2>2. StoredPairs(once, made) = Stored(i)
    BY <1>0, <1>9, <1>10, <1>12 DEF StoredPairs
  <2>3. p \in DOMAIN d.pairs /\ SamePair(d.pairs[p], made)
    BY <1>0, <2>1 DEF StoredPairs
  <2>4. Changed(d, "pairs", p, row) \subseteq e.set
    BY <1>1, <2>1
  <2>5. ASSUME NEW k \in old, TheId(Stored(k)) = p PROVE k = i
    <3>1. SamePair(d.pairs[p], PairMade(d, rows, k))
      BY <1>6, <2>5 DEF StoredPairs
    <3>2. SamePair(PairMade(d, rows, k), made)
      BY <2>3, <3>1 DEF SamePair
    <3>3. QED
      BY <3>2, <1>0, FirstsDiffer
  <2>6. DOMAIN row = {"severity", "active"}
    BY DEF PairGiven
  <2> HIDE DEF p, row, Stored, old
  <2>7. ASSUME NEW column \in {"severity", "active"} PROVE once.pairs[p][column] = row[column]
    <3>1. ColumnAfter(d, e, {}, "pairs", p, column, once.pairs[p][column])
      BY <1>2, <1>3, <2>3 DEF Stays
    <3>2. CASE \E w \in e.set : w.table = "pairs" /\ w.id = p /\ column \in DOMAIN w.new
                                  /\ once.pairs[p][column] = w.new[column]
      <4>1. PICK w \in e.set : w.id = p /\ column \in DOMAIN w.new
                                 /\ once.pairs[p][column] = w.new[column]
        BY <3>2
      <4>2. PICK k \in old :
              /\ w.id = TheId(Stored(k))
              /\ \A x \in DOMAIN w.new : w.new[x] = PairGiven(d, rows, k)[x]
        BY <1>7
      <4>3. k = i
        BY <2>5, <4>1, <4>2
      <4>4. QED
        BY <4>1, <4>2, <4>3 DEF row
    <3>3. CASE /\ once.pairs[p][column] = d["pairs"][p][column]
               /\ \A w \in e.set : ~(w.table = "pairs" /\ w.id = p /\ column \in DOMAIN w.new)
      <4>1. SUFFICES ASSUME row[column] # d["pairs"][p][column] PROVE FALSE
        BY <3>3
      <4>2. PICK w \in Changed(d, "pairs", p, row) : TRUE
        BY <2>6, <4>1, ChangedWrites
      <4>3. w.table = "pairs" /\ w.id = p /\ column \in DOMAIN w.new
        BY <2>6, <4>1, ChangedFacts
      <4>4. QED
        BY <2>4, <3>3, <4>3
    <3>4. QED
      BY <1>2, <3>1, <3>2, <3>3 DEF ColumnAfter
  <2>8. once.pairs[p]["severity"] = PairSeverity(d, rows, i) /\ once.pairs[p]["active"] = TRUE
    BY <2>7 DEF row, PairGiven
  <2>9. QED
    BY <1>0, <2>1, <2>2, <2>8 DEF PairSaved, p
<1>13. QED
  BY <1>11, <1>12

LEMMA NothingDiffers ==
  ASSUME NEW d, NEW t, NEW i, NEW new,
         \A column \in DOMAIN new : new[column] = d[t][i][column]
  PROVE  Changed(d, t, i, new) = {}
BY DEF Changed

\* So the import changes nothing when it comes again.
LEMMA PairsTwice ==
  ASSUME NEW d, NEW rows, NEW n \in Nat, NEW m \in Nat, DOMAIN rows \subseteq 1..MaxRows,
         NEW e, e = PairsEffect(d, rows, n), Lands(d, e),
         NEW once, once = After(d, e, {}), \A code : ByCode(once, code) = ByCode(d, code),
         NEW f, f = PairsEffect(once, rows, m)
  PROVE  f.set = {} /\ f.remove = {} /\ f.replaces = {} /\ f.add = {}
<1> DEFINE Stored(k) == StoredPairs(once, PairMade(once, rows, k))
           new == {k \in PairFirsts(once, rows) : Stored(k) = {}}
<1>1. /\ f.set = UNION {Changed(once, "pairs", TheId(Stored(k)), PairGiven(once, rows, k)) :
                          k \in PairFirsts(once, rows) \ new}
      /\ f.remove = {} /\ f.replaces = {}
      /\ f.add = {Row("pairs", NewId(m, k, 0), PairAdded(once, rows, k)) : k \in new}
  BY PairsEffectIs DEF SavesPairs
<1>2. \A k : PairMade(once, rows, k) = PairMade(d, rows, k)
  BY DEF PairMade
<1>3. /\ PairFirsts(once, rows) = PairFirsts(d, rows)
      /\ \A k : PairSeverity(once, rows, k) = PairSeverity(d, rows, k)
  BY <1>2 DEF PairFirsts, PairSeverity
<1>4. ASSUME NEW k \in PairFirsts(once, rows)
      PROVE  /\ Stored(k) # {}
             /\ Changed(once, "pairs", TheId(Stored(k)), PairGiven(once, rows, k)) = {}
  <2> DEFINE made == PairMade(d, rows, k)
             p == TheId(StoredPairs(once, made))
             row == PairGiven(once, rows, k)
  <2>1. /\ StoredPairs(once, made) # {}
        /\ once["pairs"][p]["severity"] = PairSeverity(d, rows, k)
        /\ once["pairs"][p]["active"] = TRUE
    <3>1. k \in PairFirsts(d, rows)
      BY <1>3
    <3>2. PairSaved(d, once, rows, k)
      BY <3>1, PairsSaved
    <3>3. QED
      BY <3>2 DEF PairSaved
  <2>2. Stored(k) = StoredPairs(once, made)
    BY <1>2
  <2>3. \A column \in DOMAIN row : row[column] = once["pairs"][p][column]
    <3>1. DOMAIN row = {"severity", "active"} /\ row["active"] = TRUE
          /\ row["severity"] = PairSeverity(once, rows, k)
      BY DEF PairGiven
    <3> HIDE DEF row, p
    <3>2. QED
      BY <1>3, <2>1, <3>1
  <2> HIDE DEF row, p
  <2>4. Changed(once, "pairs", p, row) = {}
    BY <2>3, NothingDiffers
  <2>5. QED
    BY <2>1, <2>2, <2>4 DEF row, p
<1>5. new = {}
  BY <1>4
<1> HIDE DEF new, Stored
<1>6. QED
  BY <1>1, <1>4, <1>5

\* The policy after an import of its rows.
CurrentPolicy(d) == IF StoredPolicy(d) = {} THEN StandardPolicy ELSE TheId(StoredPolicy(d))
RowsKeyed(rows, key) == {i \in Indices(rows) : rows[i].key = key}
PolicyValues(d, rows) ==
  [key \in DOMAIN CurrentPolicy(d) |->
     IF RowsKeyed(rows, key) = {} THEN CurrentPolicy(d)[key]
     ELSE rows[Max(RowsKeyed(rows, key))].value]

LEMMA PolicyRowsEffectIs ==
  ASSUME NEW d, NEW rows, NEW n
  PROVE  PolicyRowsEffect(d, rows, n) = PolicyEffect(d, PolicyValues(d, rows), n)
BY DEF PolicyRowsEffect, PolicyValues, CurrentPolicy, RowsKeyed

LEMMA CurrentPolicyColumns ==
  ASSUME NEW d, Shaped(d)
  PROVE  DOMAIN CurrentPolicy(d) = ColumnsOf["policy"]
<1>1. CASE StoredPolicy(d) = {}
  BY <1>1 DEF CurrentPolicy, StandardPolicy, ColumnsOf
<1>2. CASE StoredPolicy(d) # {}
  <2>1. TheId(StoredPolicy(d)) \in StoredPolicy(d)
    BY <1>2 DEF TheId
  <2>2. PICK i \in DOMAIN d.policy : CurrentPolicy(d) = d.policy[i]
    BY <1>2, <2>1 DEF StoredPolicy, CurrentPolicy
  <2>3. "policy" \in TableNames
    BY DEF TableNames, ColumnsOf
  <2>4. QED
    BY <2>2, <2>3 DEF Shaped
<1>3. QED
  BY <1>1, <1>2

LEMMA PolicyEffectIs ==
  ASSUME NEW d, NEW values, NEW n
  PROVE  /\ PolicyEffect(d, values, n).remove = {} /\ PolicyEffect(d, values, n).replaces = {}
         /\ DOMAIN d.policy = {} =>
              /\ PolicyEffect(d, values, n).set = {}
              /\ PolicyEffect(d, values, n).add = {Row("policy", NewId(n, 0, 0), values)}
         /\ DOMAIN d.policy # {} =>
              /\ PolicyEffect(d, values, n).set = Changed(d, "policy", TheId(DOMAIN d.policy), values)
              /\ PolicyEffect(d, values, n).add = {}
<1> DEFINE adds == {Row("policy", NewId(n, 0, 0), values)}
           sets == Changed(d, "policy", TheId(DOMAIN d.policy), values)
<1>1. DOMAIN d.policy = {} => PolicyEffect(d, values, n) = [Nothing EXCEPT !.add = adds]
  BY DEF PolicyEffect
<1>2. DOMAIN d.policy # {} => PolicyEffect(d, values, n) = [Nothing EXCEPT !.set = sets]
  BY DEF PolicyEffect
<1> HIDE DEF adds, sets
<1>3. /\ [Nothing EXCEPT !.add = adds] = [set |-> {}, remove |-> {}, replaces |-> {}, add |-> adds]
      /\ [Nothing EXCEPT !.set = sets] = [set |-> sets, remove |-> {}, replaces |-> {}, add |-> {}]
  BY ExceptNothing
<1>4. QED
  BY <1>1, <1>2, <1>3 DEF adds, sets

LEMMA PolicySaved ==
  ASSUME NEW d, NEW rows, NEW n \in Nat, Shaped(d), Unique(d),
         NEW e, e = PolicyRowsEffect(d, rows, n), Lands(d, e),
         NEW once, once = After(d, e, {})
  PROVE  /\ DOMAIN once.policy # {}
         /\ \A i \in DOMAIN once.policy : \A column \in ColumnsOf["policy"] :
              once["policy"][i][column] = PolicyValues(d, rows)[column]
<1> DEFINE values == PolicyValues(d, rows)
<1>1. e = PolicyEffect(d, values, n) /\ DOMAIN values = ColumnsOf["policy"]
  BY PolicyRowsEffectIs, CurrentPolicyColumns DEF PolicyValues
<1> HIDE DEF values
<1>2. "policy" \in TableNames /\ {} \in Keys["policy"] /\ "policy" # "requests"
  BY DEF TableNames, ColumnsOf, Keys
<1>3. \A i \in DOMAIN once["policy"] :
        \/ Stays(d, e, {}, "policy", i, once["policy"][i])
        \/ i \notin DOMAIN d["policy"] /\ Added(e, "policy", i, once["policy"][i])
  BY <1>2, RowsLand
<1>4. \A r \in e.add : r.id \in DOMAIN once[r.table]
  BY RowsLand
<1>5. CASE DOMAIN d.policy = {}
  <2> DEFINE row == Row("policy", NewId(n, 0, 0), values)
  <2>1. e.add = {row}
    BY <1>1, <1>5, PolicyEffectIs
  <2>2. row.table = "policy" /\ row.values = values
    BY DEF Row
  <2> HIDE DEF row
  <2>3. row.id \in DOMAIN once["policy"]
    BY <1>4, <2>1, <2>2
  <2>4. \A i \in DOMAIN once["policy"] : once["policy"][i] = values
    BY <1>3, <1>5, <2>1, <2>2 DEF Stays, Added
  <2>5. QED
    BY <2>3, <2>4 DEF values
<1>6. CASE DOMAIN d.policy # {}
  <2> DEFINE id == TheId(DOMAIN d.policy)
  <2>1. e.set = Changed(d, "policy", id, values) /\ e.add = {}
    BY <1>1, <1>6, PolicyEffectIs
  <2>2. id \in DOMAIN d["policy"]
    BY <1>6 DEF TheId
  <2> HIDE DEF id
  <2>3. \A i \in DOMAIN d["policy"] : i = id
    BY <1>2, <2>2 DEF Unique, UniqueIn
  <2> DEFINE gone == {}
  <2>4. once = After(d, e, gone) /\ \A x : x \notin gone
    OBVIOUS
  <2> HIDE DEF gone
  <2>5. \A t \in TableNames : \A i \in DOMAIN d[t] :
          <<t, i>> \notin gone => i \in DOMAIN once[t] /\ Stays(d, e, gone, t, i, once[t][i])
    BY <2>4, RowsLand
  <2>6. id \in DOMAIN once["policy"]
    BY <1>2, <2>2, <2>4, <2>5
  <2>7. ASSUME NEW i \in DOMAIN once["policy"], NEW column \in ColumnsOf["policy"]
        PROVE  once["policy"][i][column] = values[column]
    <3>1. Stays(d, e, {}, "policy", i, once["policy"][i])
      BY <1>3, <2>1 DEF Added
    <3>2. i = id
      BY <2>3, <3>1 DEF Stays
    <3>3. ColumnAfter(d, e, {}, "policy", id, column, once["policy"][i][column])
      BY <3>1, <3>2 DEF Stays
    <3>4. CASE \E w \in e.set : column \in DOMAIN w.new /\ once["policy"][i][column] = w.new[column]
      BY <2>1, <3>4, ChangedFacts
    <3>5. CASE /\ once["policy"][i][column] = d["policy"][id][column]
               /\ \A w \in e.set : ~(w.table = "policy" /\ w.id = id /\ column \in DOMAIN w.new)
      <4>1. SUFFICES ASSUME values[column] # d["policy"][id][column] PROVE FALSE
        BY <3>5
      <4>2. PICK w \in Changed(d, "policy", id, values) : TRUE
        BY <1>1, <4>1, ChangedWrites
      <4>3. w.table = "policy" /\ w.id = id /\ column \in DOMAIN w.new
        BY <1>1, <4>1, ChangedFacts
      <4>4. QED
        BY <2>1, <3>5, <4>2, <4>3
    <3>6. QED
      BY <1>2, <3>3, <3>4, <3>5 DEF ColumnAfter
  <2>8. QED
    BY <2>6, <2>7 DEF values
<1>7. QED
  BY <1>5, <1>6

LEMMA PolicyTwice ==
  ASSUME NEW d, NEW rows, NEW n \in Nat, NEW m \in Nat, Shaped(d), Unique(d),
         NEW e, e = PolicyRowsEffect(d, rows, n), Lands(d, e),
         NEW once, once = After(d, e, {}), Shaped(once), Unique(once),
         NEW f, f = PolicyRowsEffect(once, rows, m)
  PROVE  f.set = {} /\ f.remove = {} /\ f.replaces = {} /\ f.add = {}
<1> DEFINE id == TheId(DOMAIN once.policy)
           values == PolicyValues(once, rows)
<1>1. /\ DOMAIN once.policy # {}
      /\ \A i \in DOMAIN once.policy : \A column \in ColumnsOf["policy"] :
           once["policy"][i][column] = PolicyValues(d, rows)[column]
  BY PolicySaved
<1>2. f = PolicyEffect(once, values, m)
  BY PolicyRowsEffectIs
<1>3. DOMAIN CurrentPolicy(d) = ColumnsOf["policy"] /\ DOMAIN CurrentPolicy(once) = ColumnsOf["policy"]
  BY CurrentPolicyColumns
<1>4. DOMAIN values = ColumnsOf["policy"]
  BY <1>3 DEF PolicyValues
<1>5. id \in DOMAIN once.policy
  BY <1>1 DEF TheId
<1>6. \A i \in DOMAIN once["policy"] : i = id
  <2>1. "policy" \in TableNames /\ {} \in Keys["policy"]
    BY DEF TableNames, ColumnsOf, Keys
  <2> HIDE DEF id
  <2>2. QED
    BY <1>5, <2>1 DEF Unique, UniqueIn
<1> HIDE DEF id
<1>7. CurrentPolicy(once) = once["policy"][id]
  <2>1. StoredPolicy(once) = {once["policy"][id]}
    BY <1>5, <1>6 DEF StoredPolicy
  <2>2. QED
    BY <2>1 DEF CurrentPolicy, TheId
<1>8. ASSUME NEW column \in ColumnsOf["policy"] PROVE values[column] = once["policy"][id][column]
  <2>1. once["policy"][id][column] = PolicyValues(d, rows)[column]
    BY <1>1, <1>5
  <2>2. CASE RowsKeyed(rows, column) = {}
    BY <1>3, <1>7, <2>2 DEF PolicyValues
  <2>3. CASE RowsKeyed(rows, column) # {}
    BY <1>3, <2>1, <2>3 DEF PolicyValues
  <2>4. QED
    BY <2>2, <2>3
<1> HIDE DEF values
<1>9. Changed(once, "policy", id, values) = {}
  BY <1>4, <1>8, NothingDiffers
<1>10. QED
  BY <1>1, <1>2, <1>9, PolicyEffectIs DEF id

LEMMA LeavesEffectIs ==
  ASSUME NEW d, NEW rows, NEW n
  PROVE  LET f == LeavesEffect(d, rows, n) IN
         /\ f.set = {} /\ f.remove = {} /\ f.replaces = {}
         /\ \A r \in f.add : r.table = "leaves" /\ IsRow(r.values)
<1> DEFINE Leave(i) == LeaveRow(TheId(ByCode(d, rows[i].code)), rows[i].from, rows[i].to,
                                rows[i].override, {})
           adds == {Row("leaves", NewId(n, i, 0), Leave(i)) : i \in Indices(rows)}
<1>1. LeavesEffect(d, rows, n) = [Nothing EXCEPT !.add = adds]
  BY DEF LeavesEffect
<1>2. \A i : IsRow(Leave(i))
  BY DEF LeaveRow, IsRow
<1> HIDE DEF Leave
<1>3. \A r \in adds : r.table = "leaves" /\ IsRow(r.values)
  BY <1>2 DEF Row
<1> HIDE DEF adds
<1>4. LeavesEffect(d, rows, n) = [set |-> {}, remove |-> {}, replaces |-> {}, add |-> adds]
  BY <1>1, ExceptNothing
<1>5. QED
  BY <1>3, <1>4

\* The rows of an import are records.
LEMMA ImportAddsRows ==
  ASSUME NEW d, NEW kind \in ImportKinds, NEW rows, NEW n
  PROVE  \A r \in ImportEffect(d, kind, rows, n).add : IsRow(r.values)
<1> SUFFICES ASSUME NEW r \in ImportEffect(d, kind, rows, n).add PROVE IsRow(r.values)
  OBVIOUS
<1>1. CASE kind = "employees"
  <2> DEFINE ids == EmployeeIds(d, rows, n)
             values == EmployeeValues(rows)
  <2>1. r \in {Row("employees", ids[code], values[code]) : code \in CodesOf(rows) \ KnownCodes(d, rows)}
              \cup UNION {SkillsFor(rows, ids, n, code) : code \in CodesOf(rows)}
    BY <1>1, EmployeesEffectIs DEF SavesEmployees, ImportEffect
  <2>2. \A code \in CodesOf(rows) : IsRow(values[code])
    BY DEF EmployeeValues, IsRow
  <2> HIDE DEF ids, values
  <2>3. ASSUME NEW code \in CodesOf(rows), r \in SkillsFor(rows, ids, n, code) PROVE IsRow(r.values)
    <3>1. PICK j : r = Row("skills", NewId(n, Max(RowsOf(rows, code)), j),
                           [employee |-> ids[code], role |-> RolesOf(rows, code)[j]])
      BY <2>3 DEF SkillsFor
    <3>2. r.values = [employee |-> ids[code], role |-> RolesOf(rows, code)[j]]
      BY <3>1 DEF Row
    <3>3. QED
      BY <3>2 DEF IsRow
  <2>4. CASE r \in {Row("employees", ids[code], values[code]) : code \in CodesOf(rows) \ KnownCodes(d, rows)}
    BY <2>2, <2>4 DEF Row
  <2>5. QED
    BY <2>1, <2>3, <2>4
<1>2. CASE kind = "shift_types"
  <2> DEFINE ids == TypeIds(d, rows, n)
             values == TypeValues(rows)
  <2>1. r \in {Row("types", ids[name], values[name]) : name \in NamesOf(rows) \ KnownNames(d, rows)}
              \cup {PostFor(rows, ids, n, i) : i \in Indices(rows)}
    BY <1>2, TypesEffectIs DEF SavesTypes, ImportEffect
  <2>2. \A name \in NamesOf(rows) : IsRow(values[name])
    BY DEF TypeValues, Definition, IsRow
  <2> HIDE DEF ids, values
  <2>3. ASSUME NEW i \in Indices(rows), r = PostFor(rows, ids, n, i) PROVE IsRow(r.values)
    <3>1. r.values = [type |-> ids[rows[i].name], role |-> rows[i].role, count |-> rows[i].count]
      BY <2>3 DEF PostFor, Row
    <3>2. QED
      BY <3>1 DEF IsRow
  <2>4. CASE r \in {Row("types", ids[name], values[name]) : name \in NamesOf(rows) \ KnownNames(d, rows)}
    BY <2>2, <2>4 DEF Row
  <2>5. QED
    BY <2>1, <2>3, <2>4
<1>3. CASE kind = "pair_constraints"
  <2>1. PICK i : r = Row("pairs", NewId(n, i, 0), PairAdded(d, rows, i))
    BY <1>3, PairsEffectIs DEF SavesPairs, ImportEffect
  <2>2. r.values = PairAdded(d, rows, i)
    BY <2>1 DEF Row
  <2>3. QED
    BY <2>2, PairAddedFacts
<1>4. CASE kind = "unavailabilities"
  BY <1>4, LeavesEffectIs DEF ImportEffect
<1>5. CASE kind = "policy"
  <2> DEFINE values == PolicyValues(d, rows)
  <2>1. IsRow(values)
    BY DEF PolicyValues, IsRow
  <2> HIDE DEF values
  <2>2. r \in PolicyEffect(d, values, n).add
    BY <1>5, PolicyRowsEffectIs DEF ImportEffect, values
  <2>3. r = Row("policy", NewId(n, 0, 0), values)
    BY <2>2, PolicyEffectIs
  <2>4. r.values = values
    BY <2>3 DEF Row
  <2>5. QED
    BY <2>1, <2>4
<1>6. QED
  BY <1>1, <1>2, <1>3, <1>4, <1>5 DEF ImportKinds

LEMMA ImportLands ==
  ASSUME NEW d, NEW n \in Nat, Shaped(d), Unique(d), Fresh(d, n), NEW q,
         ValidRows(d, q.kind, q.rows), RowsWellFormed(q.kind, q.rows),
         NEW e, e = ImportEffect(d, q.kind, q.rows, n)
  PROVE  Lands(d, e) /\ \A r \in e.add : r.id \in IdsOf(n)
<1>1. Decision(d, e, n)
  BY ImportIsProper
<1>2. \A r \in e.add : IsRow(r.values)
  BY ImportAddsRows DEF ValidRows, ImportKinds
<1>3. \A r \in e.add :
        /\ r.table \in TableNames \ {"runs"} /\ DOMAIN r.values = ColumnsOf[r.table]
        /\ r.id \in IdsOf(n)
  BY <1>1 DEF Decision, Proper, RowWell, Numbered, AddsNoRun
<1>4. OneRowPerId(e)
  BY <1>1 DEF Decision, Proper
<1>5. QED
  BY <1>2, <1>3, <1>4 DEF Lands, Fresh

LEMMA FreshAfter ==
  ASSUME NEW d, NEW n \in Nat, \A t \in TableNames \ {"runs"} : DOMAIN d[t] \subseteq Before(n),
         NEW e, Lands(d, e), \A r \in e.add : r.id \in IdsOf(n),
         NEW gone, NEW once, once = After(d, e, gone)
  PROVE  Fresh(once, n + 1)
<1>1. /\ Before(n) \subseteq Before(n + 1) /\ IdsOf(n) \subseteq Before(n + 1)
      /\ IdsOf(n + 1) \cap Before(n + 1) = {}
  BY BeforeGrows
<1>2. ASSUME NEW t \in TableNames \ {"runs"}, NEW i \in DOMAIN once[t] PROVE i \in Before(n + 1)
  <2>1. Stays(d, e, gone, t, i, once[t][i]) \/ Added(e, t, i, once[t][i])
    BY RowsLand
  <2>2. QED
    BY <1>1, <2>1 DEF Stays, Added
<1>3. QED
  BY <1>1, <1>2 DEF Fresh

\* Codes stay those of their employees.
LEMMA CodesStay ==
  ASSUME NEW d, NEW e, Lands(d, e), NEW once, once = After(d, e, {}),
         \A w \in e.set : w.table # "employees", \A r \in e.add : r.table # "employees"
  PROVE  \A code : ByCode(once, code) = ByCode(d, code)
<1>1. "employees" \in TableNames /\ "code" \in ColumnsOf["employees"]
  BY DEF TableNames, ColumnsOf
<1> DEFINE gone == {}
<1>2. once = After(d, e, gone) /\ \A x : x \notin gone
  OBVIOUS
<1> HIDE DEF gone
<1>3. Same(d, once, "employees")
  BY <1>1, <1>2, Untouched
<1>4. QED
  BY <1>1, <1>3 DEF Same, ByCode

LEMMA PairsAreElsewhere ==
  ASSUME NEW d, NEW rows, NEW n, NEW e, e = PairsEffect(d, rows, n)
  PROVE  /\ e.replaces = {}
         /\ \A w \in e.set : w.table # "employees"
         /\ \A r \in e.add : r.table # "employees"
<1>1. ASSUME NEW w \in e.set PROVE w.table # "employees"
  <2>1. PICK i \in PairFirsts(d, rows) :
          w \in Changed(d, "pairs", TheId(StoredPairs(d, PairMade(d, rows, i))), PairGiven(d, rows, i))
    BY PairsEffectIs DEF SavesPairs
  <2> DEFINE p == TheId(StoredPairs(d, PairMade(d, rows, i)))
             row == PairGiven(d, rows, i)
  <2> HIDE DEF p, row
  <2>2. w \in Changed(d, "pairs", p, row)
    BY <2>1 DEF p, row
  <2>3. w.table = "pairs"
    BY <2>2, ChangedFacts
  <2>4. QED
    BY <2>3
<1>2. ASSUME NEW r \in e.add PROVE r.table # "employees"
  <2>1. PICK i : r = Row("pairs", NewId(n, i, 0), PairAdded(d, rows, i))
    BY PairsEffectIs DEF SavesPairs
  <2>2. QED
    BY <2>1 DEF Row
<1>3. QED
  BY <1>1, <1>2, PairsEffectIs DEF SavesPairs

\* An import applied to the tables that it has left.
LEMMA ImportTwice ==
  ASSUME NEW d, NEW n \in Nat, SoundTables(d, n), NEW q,
         ValidRows(d, q.kind, q.rows), RowsWellFormed(q.kind, q.rows),
         NEW e, e = ImportEffect(d, q.kind, q.rows, n),
         NEW once, once = After(d, e, Replaced(d, e)), Unique(once),
         NEW f, f = ImportEffect(once, q.kind, q.rows, n + 1),
         NEW twice, twice = After(once, f, Replaced(once, f))
  PROVE  /\ ValidRows(once, q.kind, q.rows)
         /\ Unique(twice)
         /\ q.kind # "unavailabilities" => \A t \in TableNames : Contents(twice, t) = Contents(once, t)
<1> DEFINE rows == q.rows
<1>1. n + 1 \in Nat /\ DOMAIN rows \subseteq 1..MaxRows
  BY DEF RowsWellFormed
<1>2. Shaped(d) /\ Unique(d) /\ Refers(d) /\ \A t \in TableNames \ {"runs"} : DOMAIN d[t] \subseteq Before(n)
  BY DEF SoundTables
<1>3. Fresh(d, n)
  BY <1>2, BeforeGrows DEF Fresh
<1>4. Lands(d, e) /\ \A r \in e.add : r.id \in IdsOf(n)
  BY <1>2, <1>3, ImportLands
<1>5. Shaped(once) /\ AreRows(once)
  <2>1. Shaped(once)
    BY <1>4, RowsLand
  <2>2. AreRows(once)
    BY <1>4, AfterLeavesRows
  <2>3. QED
    BY <2>1, <2>2
<1>6. Fresh(once, n + 1)
  BY <1>2, <1>4, FreshAfter
<1>7. ASSUME ValidRows(once, q.kind, rows) PROVE Lands(once, f)
  BY <1>1, <1>5, <1>6, <1>7, ImportLands
<1>8. ASSUME Lands(once, f), f.set = {}, f.remove = {}, f.replaces = {}, f.add = {}
       PROVE  Unique(twice) /\ \A t \in TableNames : Contents(twice, t) = Contents(once, t)
  <2> DEFINE ts == {}
  <2>1. /\ \A r \in f.add : r.table \in ts
        /\ \A t \in ts : Keys[t] = {}
        /\ TableNames \ ts = TableNames
    BY <1>8
  <2> HIDE DEF ts
  <2>2. QED
    BY <1>5, <1>8, <2>1, QuietTwice
<1>9. CASE q.kind = "employees"
  <2>1. ValidRows(once, q.kind, rows) /\ Lands(once, f)
    BY <1>7, <1>9 DEF ValidRows
  <2>2. e = EmployeesEffect(d, rows, n) /\ f = EmployeesEffect(once, rows, n + 1)
    BY <1>9 DEF ImportEffect
  <2>3. RowsWellFormed("employees", rows)
    BY <1>9
  <2> HIDE DEF rows
  <2>4. Unique(twice) /\ \A t \in TableNames : Contents(twice, t) = Contents(once, t)
    BY <1>1, <1>2, <1>3, <1>4, <1>6, <2>1, <2>2, <2>3, EmployeesTwice
  <2>5. QED
    BY <2>1, <2>4 DEF rows
<1>10. CASE q.kind = "shift_types"
  <2>1. ValidRows(once, q.kind, rows) /\ Lands(once, f) /\ ValidTypes(rows)
    BY <1>7, <1>10 DEF ValidRows
  <2>2. e = TypesEffect(d, rows, n) /\ f = TypesEffect(once, rows, n + 1)
    BY <1>10 DEF ImportEffect
  <2> HIDE DEF rows
  <2>3. Unique(twice) /\ \A t \in TableNames : Contents(twice, t) = Contents(once, t)
    BY <1>1, <1>2, <1>3, <1>4, <1>6, <2>1, <2>2, TypesTwice
  <2>4. QED
    BY <2>1, <2>3 DEF rows
<1>11. CASE q.kind = "pair_constraints"
  <2>1. e = PairsEffect(d, rows, n) /\ f = PairsEffect(once, rows, n + 1)
    BY <1>11 DEF ImportEffect
  <2> HIDE DEF rows
  <2>2. /\ e.replaces = {}
        /\ \A w \in e.set : w.table # "employees"
        /\ \A r \in e.add : r.table # "employees"
    BY <2>1, PairsAreElsewhere
  <2>3. once = After(d, e, {})
    BY <2>2 DEF Replaced
  <2>4. \A code : ByCode(once, code) = ByCode(d, code)
    BY <1>4, <2>2, <2>3, CodesStay
  <2>5. ValidRows(once, q.kind, rows) /\ Lands(once, f)
    BY <1>7, <1>11, <2>4 DEF ValidRows, ValidPairs, rows
  <2>6. f.set = {} /\ f.remove = {} /\ f.replaces = {} /\ f.add = {}
    BY <1>1, <1>4, <2>1, <2>3, <2>4, PairsTwice
  <2>7. Unique(twice) /\ \A t \in TableNames : Contents(twice, t) = Contents(once, t)
    BY <1>5, <1>8, <2>5, <2>6
  <2>8. QED
    BY <2>5, <2>7 DEF rows
<1>12. CASE q.kind = "unavailabilities"
  <2>1. e = LeavesEffect(d, rows, n) /\ f = LeavesEffect(once, rows, n + 1)
    BY <1>12 DEF ImportEffect
  <2> HIDE DEF rows
  <2>2. /\ e.set = {} /\ e.replaces = {}
        /\ \A r \in e.add : r.table = "leaves"
    BY <2>1, LeavesEffectIs
  <2>3. /\ f.set = {} /\ f.remove = {} /\ f.replaces = {}
        /\ \A r \in f.add : r.table = "leaves"
    BY <2>1, LeavesEffectIs
  <2>4. once = After(d, e, {})
    BY <2>2 DEF Replaced
  <2>5. \A code : ByCode(once, code) = ByCode(d, code)
    BY <1>4, <2>2, <2>4, CodesStay
  <2>6. ValidRows(once, q.kind, rows) /\ Lands(once, f)
    BY <1>7, <1>12, <2>5 DEF ValidRows, ValidLeaves, rows
  <2> DEFINE ts == {"leaves"}
  <2>7. (\A r \in f.add : r.table \in ts) /\ (\A t \in ts : Keys[t] = {})
    BY <2>3 DEF Keys
  <2> HIDE DEF ts
  <2>8. Unique(twice)
    BY <1>5, <2>3, <2>6, <2>7, QuietTwice
  <2>9. QED
    BY <1>12, <2>6, <2>8 DEF rows
<1>13. CASE q.kind = "policy"
  <2>1. e = PolicyRowsEffect(d, rows, n) /\ f = PolicyRowsEffect(once, rows, n + 1)
    BY <1>13 DEF ImportEffect
  <2>2. ValidRows(once, q.kind, rows) /\ Lands(once, f)
    BY <1>7, <1>13 DEF ValidRows
  <2> HIDE DEF rows
  <2>3. e.replaces = {}
    BY <2>1, PolicyRowsEffectIs, PolicyEffectIs
  <2>4. once = After(d, e, {})
    BY <2>3 DEF Replaced
  <2>5. f.set = {} /\ f.remove = {} /\ f.replaces = {} /\ f.add = {}
    BY <1>1, <1>2, <1>4, <1>5, <2>1, <2>4, PolicyTwice
  <2>6. Unique(twice) /\ \A t \in TableNames : Contents(twice, t) = Contents(once, t)
    BY <1>5, <1>8, <2>2, <2>5
  <2>7. QED
    BY <2>2, <2>6 DEF rows
<1>14. QED
  BY <1>9, <1>10, <1>11, <1>12, <1>13 DEF ValidRows

\* No more than MaxCalls calls have made identifiers.
LEMMA CallsBounded == Spec => [](Inv /\ Whole /\ calls <= MaxCalls)
<1>1. Init => Inv /\ Whole /\ calls <= MaxCalls
  BY InvInit, WholeInit, ReferenceDataAssumption DEF Init
<1>2. ASSUME Inv, Whole, calls <= MaxCalls, [Next]_vars PROVE (calls <= MaxCalls)'
  <2>1. calls \in Nat /\ MaxCalls \in Nat /\ SoundTables(db, calls)
    BY <1>2, ReferenceDataAssumption DEF Whole, TablesWell
  <2>2. ASSUME NEW c \in Clients, NEW q \in agenda, Handle(c, q) PROVE calls' <= MaxCalls
    <3>1. WellFormed(q)
      BY <1>2, ReferenceDataAssumption DEF Whole, TablesWell
    <3>2. CreateScheduleRun(c, q) \/ ReadsProper(c, q)
      BY <2>1, <2>2, <3>1, HandlersReadProper
    <3>3. calls < MaxCalls /\ calls' = calls + 1
      BY <3>2 DEF CreateScheduleRun, ReadsProper, Read
    <3>4. QED
      BY <2>1, <3>3
  <2>3. ASSUME NEW c \in Clients,
               ReadNextTable(c) \/ LookUpKey(c) \/ Flush(c) \/ Commit(c) \/ Fail(c)
        PROVE  calls' <= MaxCalls
    BY <1>2, <2>3 DEF ReadNextTable, LookUpKey, Flush, Commit, Fail
  <2>4. CASE UNCHANGED vars
    BY <1>2, <2>4 DEF vars
  <2>5. QED
    BY <1>2, <2>2, <2>3, <2>4 DEF Next
<1>3. Inv /\ Whole /\ calls <= MaxCalls /\ [Next]_vars => (Inv /\ Whole /\ calls <= MaxCalls)'
  BY <1>2, InvNext, WholeNext
<1>4. QED
  BY <1>1, <1>3, PTL DEF Spec

\* An import that is applied a second time changes nothing, leaves excepted, which
\* it adds again (imports.py: the rows that are there are found by code, name, pair
\* or organization, and what belongs to them is replaced).
THEOREM ImportTwiceIsOnceHolds == Spec => []ImportTwiceIsOnce
<1>1. ASSUME Whole, calls <= MaxCalls PROVE ImportTwiceIsOnce
  <2>1. calls \in Nat /\ MaxCalls \in Nat /\ SoundTables(db, calls)
    BY <1>1, ReferenceDataAssumption DEF Whole, TablesWell
  <2>2. Before(calls) \subseteq Before(MaxCalls)
    BY <1>1, <2>1, BeforeGrows
  <2>3. SoundTables(db, MaxCalls)
    BY <2>1, <2>2 DEF SoundTables
  <2>4. ASSUME NEW q \in agenda, q.op = "import"
        PROVE  LET Effect(d, n) == ImportEffect(d, q.kind, q.rows, n)
                   Gone(d, n) == UNION {Details(d, o) : o \in Effect(d, n).replaces}
                   Result(d, n) == After(d, Effect(d, n), Gone(d, n))
                   once == Result(db, MaxCalls)
                   twice == Result(once, MaxCalls + 1)
               IN  ValidRows(db, q.kind, q.rows) /\ Unique(once) =>
                     /\ ValidRows(once, q.kind, q.rows)
                     /\ Unique(twice)
                     /\ q.kind # "unavailabilities" =>
                          \A t \in TableNames : Contents(twice, t) = Contents(once, t)
    <3> DEFINE Effect(d, n) == ImportEffect(d, q.kind, q.rows, n)
               Gone(d, n) == UNION {Details(d, o) : o \in Effect(d, n).replaces}
               Result(d, n) == After(d, Effect(d, n), Gone(d, n))
               once == Result(db, MaxCalls)
               twice == Result(once, MaxCalls + 1)
               e == Effect(db, MaxCalls)
               f == Effect(once, MaxCalls + 1)
    <3> SUFFICES ASSUME ValidRows(db, q.kind, q.rows), Unique(once)
                 PROVE  /\ ValidRows(once, q.kind, q.rows)
                        /\ Unique(twice)
                        /\ q.kind # "unavailabilities" =>
                             \A t \in TableNames : Contents(twice, t) = Contents(once, t)
      OBVIOUS
    <3>1. RowsWellFormed(q.kind, q.rows)
      BY <1>1, <2>4, ReferenceDataAssumption DEF Whole, TablesWell, WellFormed
    <3>2. e = ImportEffect(db, q.kind, q.rows, MaxCalls)
      OBVIOUS
    <3>3. once = After(db, e, Replaced(db, e))
      BY DEF Replaced
    <3>4. f = ImportEffect(once, q.kind, q.rows, MaxCalls + 1)
      OBVIOUS
    <3>5. twice = After(once, f, Replaced(once, f))
      BY DEF Replaced
    <3> HIDE DEF Effect, Gone, Result, once, twice, e, f
    <3>6. QED
      BY <2>1, <2>3, <3>1, <3>2, <3>3, <3>4, <3>5, ImportTwice
  <2>5. QED
    BY <2>4 DEF ImportTwiceIsOnce
<1>2. QED
  BY <1>1, CallsBounded, PTL

=============================================================================
