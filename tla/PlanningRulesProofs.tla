--------------------------- MODULE PlanningRulesProofs ---------------------------
(***************************************************************************)
(* Facts about the rules of planning that hold for whatever reference data *)
(* the tables accept, cited by the proofs about the solver and about the   *)
(* persisted results.                                                      *)
(***************************************************************************)
EXTENDS PlanningRules, FiniteSetTheorems, TLAPS

(* Nobody at all is always a solution.                                     *)

LEMMA PolicyNumbers ==
  ASSUME NEW p, WellFormed(p)
  PROVE  Policy(p) \in PolicyRows
<1>1. DefaultPolicy \in PolicyRows
  BY DEF DefaultPolicy, PolicyRows
<1>2. Unlimited \in PolicyRows
  BY <1>1 DEF Unlimited, PolicyRows
<1>3. QED
  BY <1>2 DEF WellFormed, Policy

LEMMA CapNumber ==
  ASSUME NEW p, WellFormed(p), NEW e \in Active(p)
  PROVE  Cap(p, e) \in Nat
<1>1. Policy(p).weekly \in Nat
  BY PolicyNumbers DEF PolicyRows, DefaultPolicy
<1>2. p.staff[e].cap \in Nat \cup {-1}
  BY DEF WellFormed, Active
<1>3. QED
  BY <1>1, <1>2 DEF Cap

LEMMA NobodyIsFeasible ==
  ASSUME NEW p, WellFormed(p)
  PROVE  {} \in FeasibleSets(p)
<1>1. Cardinality({}) = 0
  BY FS_EmptySet
<1>2. /\ Policy(p).weekends \in Nat /\ Policy(p).nights \in Nat
      /\ Policy(p).consecutive \in Nat
  BY PolicyNumbers DEF PolicyRows, DefaultPolicy
<1>3. NotOverfilled(p, {})
  <2>1. ASSUME NEW r \in Requirements(p) PROVE Cardinality(For({}, r)) <= Required(p, r)
    <3>1. Required(p, r) \in Nat
      BY DEF Requirements, Required, WellFormed
    <3>2. For({}, r) = {}
      BY DEF For
    <3>3. QED
      BY <1>1, <3>1, <3>2
  <2>2. QED
    BY <2>1 DEF NotOverfilled
<1>4. OncePerSlot(p, {})
  <2>1. ASSUME NEW e, NEW s PROVE Of(In({}, s), e) = {}
    BY DEF Of, In
  <2>2. QED
    BY <1>1, <2>1 DEF OncePerSlot
<1>5. BlockedApart(p, {})
  <2> SUFFICES ASSUME NEW pair \in p.blocked, NEW s \in Slots(p)
               PROVE  Cardinality({a \in In({}, s) : a.employee \in pair}) <= 1
    BY DEF BlockedApart
  <2> DEFINE S == {a \in In({}, s) : a.employee \in pair}
  <2>1. S = {}
    BY DEF In
  <2> HIDE DEF S
  <2>2. Cardinality(S) <= 1
    BY <1>1, <2>1
  <2>3. QED
    BY <2>2 DEF S
<1>6. WeeklyCapped(p, {})
  <2>1. ASSUME NEW e \in Active(p), NEW d \in p.first..p.last
        PROVE  Cardinality({a \in Of({}, e) : Week(a.slot.day) = Week(d)}) <= Cap(p, e)
    <3> DEFINE week == {a \in Of({}, e) : Week(a.slot.day) = Week(d)}
    <3>1. week = {}
      BY DEF Of
    <3>2. Cap(p, e) \in Nat
      BY CapNumber
    <3> HIDE DEF week
    <3>3. Cardinality(week) <= Cap(p, e)
      BY <1>1, <3>1, <3>2
    <3>4. QED
      BY <3>3 DEF week
  <2>2. QED
    BY <2>1 DEF WeeklyCapped
<1>7. MonthlyCapped(p, {})
  <2> SUFFICES ASSUME NEW e \in Active(p), NEW d \in p.first..p.last
               PROVE  LET month == {a \in Of({}, e) : p.month[a.slot.day] = p.month[d]} IN
                      /\ Cardinality({a \in month : Weekend(a.slot)}) <= Policy(p).weekends
                      /\ Cardinality({a \in month : Night(p, a.slot)}) <= Policy(p).nights
    BY DEF MonthlyCapped
  <2> DEFINE month == {a \in Of({}, e) : p.month[a.slot.day] = p.month[d]}
             weekends == {a \in month : Weekend(a.slot)}
             nights == {a \in month : Night(p, a.slot)}
  <2>1. weekends = {} /\ nights = {}
    BY DEF Of
  <2> HIDE DEF weekends, nights
  <2>2. Cardinality(weekends) <= Policy(p).weekends /\ Cardinality(nights) <= Policy(p).nights
    BY <1>1, <1>2, <2>1
  <2>3. QED
    BY <2>2 DEF weekends, nights
<1>8. ConsecutiveCapped(p, {})
  <2>1. ASSUME NEW e, NEW w PROVE DaysOf({}, e) \cap w = {}
    BY DEF DaysOf, Of
  <2>2. QED
    BY <1>1, <1>2, <2>1 DEF ConsecutiveCapped
<1>9. Rested(p, {})
  BY DEF Rested, Of
<1>10. QED
  BY <1>3, <1>4, <1>5, <1>6, <1>7, <1>8, <1>9 DEF FeasibleSets, Feasible

-----------------------------------------------------------------------------
(* What a constraint of the model that counts to one says.                 *)

LEMMA AtMostOne ==
  ASSUME NEW S, IsFiniteSet(S), Cardinality(S) <= 1, NEW a \in S, NEW b \in S
  PROVE  a = b
<1>1. IsFiniteSet(S \ {a}) /\ Cardinality(S \ {a}) = Cardinality(S) - 1
  BY FS_RemoveElement
<1>2. Cardinality(S) \in Nat /\ Cardinality(S \ {a}) \in Nat
  BY <1>1, FS_CardinalityType
<1>3. Cardinality(S \ {a}) = 0
  BY <1>1, <1>2
<1>4. S \ {a} = {}
  BY <1>1, <1>3, FS_EmptySet
<1>5. QED
  BY <1>4

LEMMA SlotIsFinite ==
  ASSUME NEW p, WellFormed(p), NEW x, x \subseteq Candidates(p), NEW s
  PROVE  IsFiniteSet(In(x, s))
<1> DEFINE T == (DOMAIN p.required) \X (DOMAIN p.staff)
           At(k) == [slot |-> s, role |-> k[1][2], employee |-> k[2]]
           U == {At(k) : k \in T}
           f == [k \in T |-> At(k)]
<1>1. IsFiniteSet(T)
  BY FS_Product DEF WellFormed
<1>2. IsFiniteSet(U)
  <2>1. f \in Surjection(T, U)
    BY DEF Surjection
  <2> HIDE DEF f, T, U
  <2>2. QED
    BY <1>1, <2>1, FS_Surjection
<1>3. In(x, s) \subseteq U
  <2> SUFFICES ASSUME NEW a \in In(x, s) PROVE a \in U
    OBVIOUS
  <2>1. /\ a \in [slot : Slots(p), role : {k[2] : k \in DOMAIN p.required}, employee : Active(p)]
        /\ a.slot = s
    BY DEF In, Candidates
  <2>2. PICK k \in DOMAIN p.required : k[2] = a.role
    BY <2>1
  <2>3. a.employee \in DOMAIN p.staff
    BY <2>1 DEF Active
  <2>4. <<k, a.employee>> \in T /\ a = At(<<k, a.employee>>)
    BY <2>1, <2>2, <2>3
  <2>5. QED
    BY <2>4
<1>4. QED
  BY <1>2, <1>3, FS_Subset

\* Nobody is in a slot twice.
LEMMA OneAssignmentInASlot ==
  ASSUME NEW p, WellFormed(p), NEW x \in FeasibleSets(p), NEW a \in x, NEW b \in x,
         a.slot = b.slot, a.employee = b.employee
  PROVE  a = b
<1>1. x \subseteq Candidates(p) /\ OncePerSlot(p, x)
  BY DEF FeasibleSets, Feasible
<1> DEFINE S == Of(In(x, a.slot), a.employee)
<1>2. a \in S /\ b \in S
  BY DEF Of, In
<1>3. IsFiniteSet(S)
  <2>1. S \subseteq In(x, a.slot)
    BY DEF Of
  <2> HIDE DEF S
  <2>2. QED
    BY <1>1, <2>1, SlotIsFinite, FS_Subset
<1>4. Cardinality(S) <= 1
  <2>1. a.employee \in Active(p) /\ a.slot \in Slots(p)
    BY <1>1 DEF Candidates
  <2>2. QED
    BY <1>1, <2>1 DEF OncePerSlot
<1> HIDE DEF S
<1>5. QED
  BY <1>2, <1>3, <1>4, AtMostOne

\* No blocked pair is in a slot.
LEMMA NoPairConflict ==
  ASSUME NEW p, WellFormed(p), NEW x, x \subseteq Candidates(p), BlockedApart(p, x), NEW a \in x
  PROVE  ~PairConflict(p, x, a.employee, a.slot)
<1> SUFFICES ASSUME NEW b \in In(x, a.slot), b.employee # a.employee,
                    {b.employee, a.employee} \in p.blocked
             PROVE  FALSE
  BY DEF PairConflict
<1> DEFINE pair == {b.employee, a.employee}
           S == {c \in In(x, a.slot) : c.employee \in pair}
<1>1. a \in S /\ b \in S
  BY DEF In
<1>2. IsFiniteSet(S)
  <2>1. S \subseteq In(x, a.slot)
    OBVIOUS
  <2> HIDE DEF S
  <2>2. QED
    BY <2>1, SlotIsFinite, FS_Subset
<1>3. Cardinality(S) <= 1
  <2>1. a.slot \in Slots(p)
    BY DEF Candidates
  <2>2. QED
    BY <2>1 DEF BlockedApart
<1> HIDE DEF S
<1>4. a = b
  BY <1>1, <1>2, <1>3, AtMostOne
<1>5. QED
  BY <1>4

-----------------------------------------------------------------------------
(* Sums over finite sets are recursive functions of their subsets.  What   *)
(* they return is proved by taking a smallest subset of which it fails.    *)

\* Induction over the subsets of a finite set, as the choice of a smallest one.
LEMMA SmallestSubset ==
  ASSUME NEW S, IsFiniteSet(S), NEW B \in SUBSET (SUBSET S), B # {}
  PROVE  \E T \in B : \A U \in B : ~(U \subseteq T /\ U # T)
<1> DEFINE R == StrictSubsetOrdering(S)
           F == FiniteSubsetsOf(S)
<1>1. IsWellFoundedOn(R, F)
  BY FS_StrictSubsetOrderingWellFounded
<1>2. B \subseteq F
  BY FS_FiniteSubsetsOfFinite
<1> HIDE DEF R, F
<1>3. PICK T \in B : \A U \in B : ~(<<U, T>> \in R)
  BY <1>1, <1>2, WFMin
<1>4. ASSUME NEW U \in B, U \subseteq T, U # T PROVE FALSE
  <2>1. <<U, T>> \in R
    BY <1>4 DEF R, StrictSubsetOrdering
  <2>2. QED
    BY <1>3, <2>1
<1>5. QED
  BY <1>4

Picked(S) == CHOOSE x \in S : TRUE

\* The sum, as a function of the subsets, takes out one element after the other.
AddsUp(f, S, h) ==
  h = [s \in SUBSET S |-> IF s = {} THEN 0 ELSE f[Picked(s)] + h[s \ {Picked(s)}]]

Adder(f, S) == CHOOSE h : AddsUp(f, S, h)

\* What the community module's sum unfolds to.
LEMMA SumIsAdder ==
  ASSUME NEW f, NEW S
  PROVE  SumFunctionOnSet(f, S) = Adder(f, S)[S]
BY Zenon DEF SumFunctionOnSet, FoldFunctionOnSet, MapThenFoldSet, Adder, AddsUp, Picked

LEMMA PickedIn == ASSUME NEW S, S # {} PROVE Picked(S) \in S
BY DEF Picked

\* Two adders agree where both add.
LEMMA AddersAgree ==
  ASSUME NEW f, NEW S, NEW T, NEW h, NEW g, AddsUp(f, S, h), AddsUp(f, T, g),
         NEW s, s \subseteq S, s \subseteq T, IsFiniteSet(s)
  PROVE  h[s] = g[s]
<1> DEFINE B == {u \in SUBSET s : h[u] # g[u]}
<1> SUFFICES ASSUME B # {} PROVE FALSE
  OBVIOUS
<1>1. PICK u \in B : \A v \in B : ~(v \subseteq u /\ v # u)
  <2>1. B \in SUBSET (SUBSET s)
    OBVIOUS
  <2> HIDE DEF B
  <2>2. QED
    BY <2>1, SmallestSubset
<1>2. u \in SUBSET S /\ u \in SUBSET T /\ u \in SUBSET s
  OBVIOUS
<1>3. /\ h[u] = IF u = {} THEN 0 ELSE f[Picked(u)] + h[u \ {Picked(u)}]
      /\ g[u] = IF u = {} THEN 0 ELSE f[Picked(u)] + g[u \ {Picked(u)}]
  BY <1>2 DEF AddsUp
<1>4. CASE u = {}
  BY <1>3, <1>4
<1>5. CASE u # {}
  <2> DEFINE v == u \ {Picked(u)}
  <2>1. v \subseteq u /\ v # u /\ v \in SUBSET s
    BY <1>2, <1>5, PickedIn
  <2>2. h[v] = g[v]
    BY <1>1, <2>1
  <2>3. QED
    BY <1>3, <1>5, <2>2
<1>6. QED
  BY <1>4, <1>5

\* There is an adder of every finite set: the recursion is well-founded.
LEMMA AdderAdds ==
  ASSUME NEW f, NEW S, IsFiniteSet(S)
  PROVE  AddsUp(f, S, Adder(f, S))
<1> DEFINE B == {s \in SUBSET S : ~AddsUp(f, s, Adder(f, s))}
<1> SUFFICES ASSUME B # {} PROVE FALSE
  OBVIOUS
<1>1. PICK s \in B : \A u \in B : ~(u \subseteq s /\ u # s)
  <2>1. B \in SUBSET (SUBSET S)
    OBVIOUS
  <2> HIDE DEF B
  <2>2. QED
    BY <2>1, SmallestSubset
<1>2. \A u \in SUBSET s : u # s => AddsUp(f, u, Adder(f, u))
  BY <1>1
<1> DEFINE total(u) == Adder(f, u)[u]
           h == [u \in SUBSET s |-> IF u = {} THEN 0 ELSE f[Picked(u)] + total(u \ {Picked(u)})]
<1>3. ASSUME NEW u \in SUBSET s, u # s PROVE h[u] = total(u)
  <2>1. AddsUp(f, u, Adder(f, u))
    BY <1>2, <1>3
  <2>2. Adder(f, u)[u] =
          IF u = {} THEN 0 ELSE f[Picked(u)] + Adder(f, u)[u \ {Picked(u)}]
    BY <2>1 DEF AddsUp
  <2>3. CASE u = {}
    BY <2>2, <2>3
  <2>4. CASE u # {}
    <3> DEFINE v == u \ {Picked(u)}
    <3>1. v \subseteq u /\ v # u /\ v \in SUBSET s /\ v # s
      BY <2>4, PickedIn
    <3>2. IsFiniteSet(v)
      BY <3>1, FS_Subset
    <3>3. AddsUp(f, v, Adder(f, v))
      BY <1>2, <3>1
    <3>4. Adder(f, u)[v] = Adder(f, v)[v]
      BY <2>1, <3>1, <3>2, <3>3, AddersAgree
    <3>5. QED
      BY <2>2, <2>4, <3>4
  <2>5. QED
    BY <2>3, <2>4
<1>4. ASSUME NEW u \in SUBSET s, u # {}
      PROVE  h[u \ {Picked(u)}] = total(u \ {Picked(u)})
  <2>1. u \ {Picked(u)} \in SUBSET s /\ u \ {Picked(u)} # s
    BY <1>4, PickedIn
  <2>2. QED
    BY <1>3, <2>1
<1>5. h = [u \in SUBSET s |-> IF u = {} THEN 0 ELSE f[Picked(u)] + h[u \ {Picked(u)}]]
  <2> DEFINE k == [u \in SUBSET s |-> IF u = {} THEN 0 ELSE f[Picked(u)] + h[u \ {Picked(u)}]]
  <2>1. ASSUME NEW u \in SUBSET s PROVE h[u] = k[u]
    BY <1>4
  <2> HIDE DEF total
  <2>2. h = k
    BY <2>1
  <2>3. QED
    BY <2>2
<1> HIDE DEF h
<1>6. AddsUp(f, s, h)
  BY <1>5 DEF AddsUp
<1>7. AddsUp(f, s, Adder(f, s))
  BY <1>6 DEF Adder
<1>8. QED
  BY <1>1, <1>7

LEMMA SumEmpty == ASSUME NEW f PROVE SumFunctionOnSet(f, {}) = 0
<1>1. AddsUp(f, {}, Adder(f, {}))
  BY AdderAdds, FS_EmptySet
<1>2. Adder(f, {})[{}] = 0
  BY <1>1 DEF AddsUp
<1>3. QED
  BY <1>2, SumIsAdder

\* The sum of a set that is not empty is one element and the sum of the rest.
LEMMA SumPicked ==
  ASSUME NEW f, NEW S, IsFiniteSet(S), S # {}
  PROVE  SumFunctionOnSet(f, S) = f[Picked(S)] + SumFunctionOnSet(f, S \ {Picked(S)})
<1> DEFINE T == S \ {Picked(S)}
<1>1. IsFiniteSet(T) /\ T \subseteq S
  BY FS_Subset
<1>2. AddsUp(f, S, Adder(f, S)) /\ AddsUp(f, T, Adder(f, T))
  BY <1>1, AdderAdds
<1>3. Adder(f, S)[S] = f[Picked(S)] + Adder(f, S)[T]
  BY <1>2 DEF AddsUp
<1>4. Adder(f, S)[T] = Adder(f, T)[T]
  BY <1>1, <1>2, AddersAgree
<1>5. QED
  BY <1>3, <1>4, SumIsAdder

-----------------------------------------------------------------------------
(* Facts about sums over finite sets.                                      *)

\* A sum of numbers is a number.
LEMMA SumInt ==
  ASSUME NEW f, NEW S, IsFiniteSet(S), \A x \in S : f[x] \in Int
  PROVE  SumFunctionOnSet(f, S) \in Int
<1> DEFINE B == {s \in SUBSET S : SumFunctionOnSet(f, s) \notin Int}
<1> SUFFICES ASSUME B # {} PROVE FALSE
  OBVIOUS
<1>1. PICK s \in B : \A u \in B : ~(u \subseteq s /\ u # s)
  <2>1. B \in SUBSET (SUBSET S)
    OBVIOUS
  <2> HIDE DEF B
  <2>2. QED
    BY <2>1, SmallestSubset
<1>2. IsFiniteSet(s)
  BY FS_Subset
<1>3. s # {}
  BY <1>1, SumEmpty
<1> DEFINE x == Picked(s)
<1>4. SumFunctionOnSet(f, s) = f[x] + SumFunctionOnSet(f, s \ {x})
  BY <1>2, <1>3, SumPicked
<1>5. x \in s /\ x \in S
  BY <1>3, PickedIn
<1>6. SumFunctionOnSet(f, s \ {x}) \in Int
  BY <1>1, <1>5
<1>7. QED
  BY <1>1, <1>4, <1>5, <1>6

\* Whichever element is taken out first.
LEMMA SumRemove ==
  ASSUME NEW f, NEW S, IsFiniteSet(S), \A x \in S : f[x] \in Int, NEW x \in S
  PROVE  SumFunctionOnSet(f, S) = f[x] + SumFunctionOnSet(f, S \ {x})
<1> DEFINE B == {s \in SUBSET S :
                   \E y \in s : SumFunctionOnSet(f, s) # f[y] + SumFunctionOnSet(f, s \ {y})}
<1> SUFFICES ASSUME B # {} PROVE FALSE
  OBVIOUS
<1>1. PICK s \in B : \A u \in B : ~(u \subseteq s /\ u # s)
  <2>1. B \in SUBSET (SUBSET S)
    OBVIOUS
  <2> HIDE DEF B
  <2>2. QED
    BY <2>1, SmallestSubset
<1>2. PICK y \in s : SumFunctionOnSet(f, s) # f[y] + SumFunctionOnSet(f, s \ {y})
  BY <1>1
<1> DEFINE z == Picked(s)
           rest == (s \ {y}) \ {z}
<1>3. IsFiniteSet(s) /\ s \in SUBSET S /\ s # {} /\ z \in s
  BY FS_Subset, PickedIn
<1>4. SumFunctionOnSet(f, s) = f[z] + SumFunctionOnSet(f, s \ {z})
  BY <1>3, SumPicked
<1> HIDE DEF z
<1>5. z # y
  BY <1>2, <1>4
<1>6. SumFunctionOnSet(f, s \ {z}) = f[y] + SumFunctionOnSet(f, rest)
  <2>1. s \ {z} \notin B /\ s \ {z} \in SUBSET S /\ y \in s \ {z}
    BY <1>1, <1>3, <1>5
  <2>2. (s \ {z}) \ {y} = rest
    OBVIOUS
  <2>3. QED
    BY <2>1, <2>2
<1>7. SumFunctionOnSet(f, s \ {y}) = f[z] + SumFunctionOnSet(f, rest)
  <2>1. s \ {y} \notin B /\ s \ {y} \in SUBSET S /\ z \in s \ {y}
    BY <1>1, <1>3, <1>5
  <2>2. QED
    BY <2>1
<1>8. SumFunctionOnSet(f, rest) \in Int
  <2>1. IsFiniteSet(rest) /\ \A a \in rest : f[a] \in Int
    BY <1>3, FS_Subset
  <2> HIDE DEF rest
  <2>2. QED
    BY <2>1, SumInt
<1>9. f[z] \in Int /\ f[y] \in Int
  BY <1>3
<1>10. QED
  BY <1>2, <1>4, <1>6, <1>7, <1>8, <1>9

\* An element more.
LEMMA SumAdd ==
  ASSUME NEW f, NEW S, NEW x, IsFiniteSet(S), x \notin S, \A y \in S \cup {x} : f[y] \in Int
  PROVE  SumFunctionOnSet(f, S \cup {x}) = SumFunctionOnSet(f, S) + f[x]
<1> DEFINE T == S \cup {x}
<1>1. IsFiniteSet(T) /\ x \in T
  BY FS_AddElement
<1>2. T \ {x} = S
  OBVIOUS
<1>3. \A y \in T : f[y] \in Int
  OBVIOUS
<1> HIDE DEF T
<1>4. SumFunctionOnSet(f, T) = f[x] + SumFunctionOnSet(f, S)
  BY <1>1, <1>2, <1>3, SumRemove
<1>5. SumFunctionOnSet(f, S) \in Int /\ f[x] \in Int
  BY SumInt
<1>6. QED
  BY <1>4, <1>5 DEF T

\* Larger summands have a larger sum.
LEMMA SumMonotone ==
  ASSUME NEW f, NEW g, NEW S, IsFiniteSet(S),
         \A x \in S : f[x] \in Int /\ g[x] \in Int /\ f[x] <= g[x]
  PROVE  SumFunctionOnSet(f, S) <= SumFunctionOnSet(g, S)
<1> DEFINE B == {s \in SUBSET S : ~(SumFunctionOnSet(f, s) <= SumFunctionOnSet(g, s))}
<1> SUFFICES ASSUME B # {} PROVE FALSE
  OBVIOUS
<1>1. PICK s \in B : \A u \in B : ~(u \subseteq s /\ u # s)
  <2>1. B \in SUBSET (SUBSET S)
    OBVIOUS
  <2> HIDE DEF B
  <2>2. QED
    BY <2>1, SmallestSubset
<1>2. IsFiniteSet(s)
  BY FS_Subset
<1>3. s # {}
  <2>1. SumFunctionOnSet(f, {}) = 0 /\ SumFunctionOnSet(g, {}) = 0
    BY SumEmpty
  <2>2. QED
    BY <2>1
<1> DEFINE x == Picked(s)
<1>4. /\ SumFunctionOnSet(f, s) = f[x] + SumFunctionOnSet(f, s \ {x})
      /\ SumFunctionOnSet(g, s) = g[x] + SumFunctionOnSet(g, s \ {x})
  BY <1>2, <1>3, SumPicked
<1>5. x \in s /\ x \in S
  BY <1>3, PickedIn
<1>6. SumFunctionOnSet(f, s \ {x}) <= SumFunctionOnSet(g, s \ {x})
  BY <1>1, <1>5
<1>7. IsFiniteSet(s \ {x}) /\ \A y \in s \ {x} : f[y] \in Int /\ g[y] \in Int
  BY <1>2, FS_Subset
<1>8. SumFunctionOnSet(f, s \ {x}) \in Int /\ SumFunctionOnSet(g, s \ {x}) \in Int
  BY <1>7, SumInt
<1> HIDE DEF x
<1>9. f[x] \in Int /\ g[x] \in Int /\ f[x] <= g[x]
  BY <1>5
<1>10. QED
  BY <1>1, <1>4, <1>6, <1>8, <1>9

LEMMA SumEqual ==
  ASSUME NEW f, NEW g, NEW S, IsFiniteSet(S), \A x \in S : f[x] \in Int /\ g[x] = f[x]
  PROVE  SumFunctionOnSet(g, S) = SumFunctionOnSet(f, S)
<1>1. /\ SumFunctionOnSet(f, S) <= SumFunctionOnSet(g, S)
      /\ SumFunctionOnSet(g, S) <= SumFunctionOnSet(f, S)
  BY SumMonotone
<1>2. SumFunctionOnSet(f, S) \in Int /\ SumFunctionOnSet(g, S) \in Int
  BY SumInt
<1>3. QED
  BY <1>1, <1>2

\* Two functions that differ at one index.
LEMMA SumDiffers ==
  ASSUME NEW f, NEW g, NEW S, IsFiniteSet(S), NEW k \in S,
         \A x \in S : f[x] \in Int /\ g[x] \in Int /\ (x # k => g[x] = f[x])
  PROVE  SumFunctionOnSet(g, S) = SumFunctionOnSet(f, S) - f[k] + g[k]
<1> DEFINE T == S \ {k}
<1>1. IsFiniteSet(T) /\ \A x \in T : f[x] \in Int /\ g[x] = f[x]
  BY FS_Subset
<1>2. /\ SumFunctionOnSet(f, S) = f[k] + SumFunctionOnSet(f, T)
      /\ SumFunctionOnSet(g, S) = g[k] + SumFunctionOnSet(g, T)
  BY SumRemove
<1> HIDE DEF T
<1>3. SumFunctionOnSet(g, T) = SumFunctionOnSet(f, T) /\ SumFunctionOnSet(f, T) \in Int
  BY <1>1, SumEqual, SumInt
<1>4. QED
  BY <1>2, <1>3

\* Sums are added element by element.
LEMMA SumPlus ==
  ASSUME NEW f, NEW g, NEW h, NEW S, IsFiniteSet(S),
         \A x \in S : f[x] \in Int /\ g[x] \in Int /\ h[x] = f[x] + g[x]
  PROVE  SumFunctionOnSet(h, S) = SumFunctionOnSet(f, S) + SumFunctionOnSet(g, S)
<1> DEFINE B == {s \in SUBSET S :
                   SumFunctionOnSet(h, s) # SumFunctionOnSet(f, s) + SumFunctionOnSet(g, s)}
<1> SUFFICES ASSUME B # {} PROVE FALSE
  OBVIOUS
<1>1. PICK s \in B : \A u \in B : ~(u \subseteq s /\ u # s)
  <2>1. B \in SUBSET (SUBSET S)
    OBVIOUS
  <2> HIDE DEF B
  <2>2. QED
    BY <2>1, SmallestSubset
<1>2. IsFiniteSet(s)
  BY FS_Subset
<1>3. s # {}
  <2>1. SumFunctionOnSet(f, {}) = 0 /\ SumFunctionOnSet(g, {}) = 0 /\ SumFunctionOnSet(h, {}) = 0
    BY SumEmpty
  <2>2. SumFunctionOnSet(h, {}) = SumFunctionOnSet(f, {}) + SumFunctionOnSet(g, {})
    BY <2>1
  <2>3. QED
    BY <2>2
<1> DEFINE x == Picked(s)
<1>4. /\ SumFunctionOnSet(f, s) = f[x] + SumFunctionOnSet(f, s \ {x})
      /\ SumFunctionOnSet(g, s) = g[x] + SumFunctionOnSet(g, s \ {x})
      /\ SumFunctionOnSet(h, s) = h[x] + SumFunctionOnSet(h, s \ {x})
  BY <1>2, <1>3, SumPicked
<1>5. x \in s /\ x \in S
  BY <1>3, PickedIn
<1>6. SumFunctionOnSet(h, s \ {x}) =
        SumFunctionOnSet(f, s \ {x}) + SumFunctionOnSet(g, s \ {x})
  BY <1>1, <1>5
<1>7. IsFiniteSet(s \ {x}) /\ \A y \in s \ {x} : f[y] \in Int /\ g[y] \in Int
  BY <1>2, FS_Subset
<1>8. SumFunctionOnSet(f, s \ {x}) \in Int /\ SumFunctionOnSet(g, s \ {x}) \in Int
  BY <1>7, SumInt
<1> HIDE DEF x
<1>9. f[x] \in Int /\ g[x] \in Int /\ h[x] = f[x] + g[x]
  BY <1>5
<1>10. QED
  BY <1>1, <1>4, <1>6, <1>8, <1>9

-----------------------------------------------------------------------------
(* A problem is finite.                                                    *)

LEMMA ImageIsFinite ==
  ASSUME NEW f, IsFiniteSet(DOMAIN f), f = [k \in DOMAIN f |-> f[k]]
  PROVE  IsFiniteSet({f[k] : k \in DOMAIN f})
<1> DEFINE T == {f[k] : k \in DOMAIN f}
<1>1. f \in Surjection(DOMAIN f, T)
  BY DEF Surjection
<1> HIDE DEF T
<1>2. IsFiniteSet(T)
  BY <1>1, FS_Surjection
<1>3. QED
  BY <1>2 DEF T

LEMMA SlotsFinite ==
  ASSUME NEW p, WellFormed(p) PROVE IsFiniteSet(Slots(p))
<1> DEFINE D == (p.first..p.last) \X (DOMAIN p.types)
           f == [k \in D |-> [day |-> k[1], type |-> k[2]]]
           T == {f[k] : k \in DOMAIN f}
<1>1. IsFiniteSet(D)
  BY FS_Interval, FS_Product DEF WellFormed
<1>2. IsFiniteSet(T)
  <2>1. DOMAIN f = D /\ f = [k \in DOMAIN f |-> f[k]]
    OBVIOUS
  <2> HIDE DEF f, D
  <2>2. QED
    BY <1>1, <2>1, ImageIsFinite
<1>3. Slots(p) \subseteq T
  <2> SUFFICES ASSUME NEW s \in Slots(p) PROVE s \in T
    OBVIOUS
  <2>1. s \in [day : p.first..p.last, type : DOMAIN p.types]
    BY DEF Slots
  <2>2. <<s.day, s.type>> \in D /\ s = [day |-> s.day, type |-> s.type]
    BY <2>1
  <2>3. f[<<s.day, s.type>>] = s
    BY <2>2
  <2> HIDE DEF D
  <2>4. QED
    BY <2>2, <2>3
<1>4. QED
  BY <1>2, <1>3, FS_Subset

LEMMA ActiveFinite ==
  ASSUME NEW p, WellFormed(p) PROVE IsFiniteSet(Active(p))
BY FS_Subset DEF WellFormed, Active

LEMMA RequirementsFinite ==
  ASSUME NEW p, WellFormed(p) PROVE IsFiniteSet(Requirements(p))
<1> DEFINE D == Slots(p) \X (DOMAIN p.required)
           f == [k \in D |-> [slot |-> k[1], role |-> k[2][2]]]
           T == {f[k] : k \in DOMAIN f}
<1>1. IsFiniteSet(D)
  BY SlotsFinite, FS_Product DEF WellFormed
<1>2. IsFiniteSet(T)
  <2>1. DOMAIN f = D /\ f = [k \in DOMAIN f |-> f[k]]
    OBVIOUS
  <2> HIDE DEF f, D
  <2>2. QED
    BY <1>1, <2>1, ImageIsFinite
<1>3. Requirements(p) \subseteq T
  <2> SUFFICES ASSUME NEW r \in Requirements(p) PROVE r \in T
    OBVIOUS
  <2>1. r \in [slot : Slots(p), role : {k[2] : k \in DOMAIN p.required}]
    BY DEF Requirements
  <2>2. PICK k \in DOMAIN p.required : k[2] = r.role
    BY <2>1
  <2>3. <<r.slot, k>> \in D /\ r = [slot |-> r.slot, role |-> k[2]]
    BY <2>1, <2>2
  <2>4. f[<<r.slot, k>>] = r
    BY <2>3
  <2> HIDE DEF D
  <2>5. QED
    BY <2>3, <2>4
<1>4. QED
  BY <1>2, <1>3, FS_Subset

LEMMA CandidatesFinite ==
  ASSUME NEW p, WellFormed(p) PROVE IsFiniteSet(Candidates(p))
<1> DEFINE D == (Slots(p) \X (DOMAIN p.required)) \X Active(p)
           f == [k \in D |-> [slot |-> k[1][1], role |-> k[1][2][2], employee |-> k[2]]]
           T == {f[k] : k \in DOMAIN f}
<1>1. IsFiniteSet(D)
  <2>1. IsFiniteSet(Slots(p) \X (DOMAIN p.required))
    BY SlotsFinite, FS_Product DEF WellFormed
  <2>2. QED
    BY <2>1, ActiveFinite, FS_Product
<1>2. IsFiniteSet(T)
  <2>1. DOMAIN f = D /\ f = [k \in DOMAIN f |-> f[k]]
    OBVIOUS
  <2> HIDE DEF f, D
  <2>2. QED
    BY <1>1, <2>1, ImageIsFinite
<1>3. Candidates(p) \subseteq T
  <2> SUFFICES ASSUME NEW a \in Candidates(p) PROVE a \in T
    OBVIOUS
  <2>1. a \in [slot : Slots(p), role : {k[2] : k \in DOMAIN p.required}, employee : Active(p)]
    BY DEF Candidates
  <2>2. PICK k \in DOMAIN p.required : k[2] = a.role
    BY <2>1
  <2> DEFINE t == <<<<a.slot, k>>, a.employee>>
  <2>3. t \in D /\ a = [slot |-> a.slot, role |-> k[2], employee |-> a.employee]
    BY <2>1, <2>2
  <2>4. f[t] = a
    BY <2>3
  <2> HIDE DEF D
  <2>5. QED
    BY <2>3, <2>4
<1>4. QED
  BY <1>2, <1>3, FS_Subset

-----------------------------------------------------------------------------
(* One assignment more.                                                    *)

Grows(p, x, a, y) ==
  /\ WellFormed(p)
  /\ x \subseteq Candidates(p)
  /\ a \in Candidates(p) \ x
  /\ y = x \cup {a}

PostFilled(a) == [slot |-> a.slot, role |-> a.role]

LEMMA GrownFinite ==
  ASSUME NEW p, NEW x, NEW a, NEW y, Grows(p, x, a, y)
  PROVE  IsFiniteSet(x) /\ IsFiniteSet(y)
BY CandidatesFinite, FS_Subset DEF Grows

LEMMA CandidateParts ==
  ASSUME NEW p, NEW a \in Candidates(p)
  PROVE  a.slot \in Slots(p) /\ a.employee \in Active(p) /\ PostFilled(a) \in Requirements(p)
BY DEF Candidates, Requirements, PostFilled

\* How many there are of the assignments of a kind.
LEMMA OneMore ==
  ASSUME NEW S, IsFiniteSet(S), NEW a, NEW T, a \notin S, T = S \cup {a}
  PROVE  IsFiniteSet(T) /\ Cardinality(T) = Cardinality(S) + 1 /\ Cardinality(S) \in Nat
BY FS_AddElement, FS_CardinalityType

LEMMA UnfilledInt ==
  ASSUME NEW p, WellFormed(p), NEW x, x \subseteq Candidates(p), NEW r \in Requirements(p)
  PROVE  Missing(p, x, r) \in Int /\ Weight(p, r) \in Int /\ IsFiniteSet(For(x, r))
<1>1. IsFiniteSet(For(x, r))
  BY CandidatesFinite, FS_Subset DEF For
<1>2. Cardinality(For(x, r)) \in Nat
  BY <1>1, FS_CardinalityType
<1>3. Required(p, r) \in Int
  BY DEF Requirements, Required, WellFormed
<1>4. Policy(p).unfilled \in Nat
  BY PolicyNumbers DEF PolicyRows, DefaultPolicy
<1>5. p.required[<<r.slot.type, r.role>>].weight \in Nat \cup {-1}
  BY DEF Requirements, WellFormed
<1>6. QED
  BY <1>1, <1>2, <1>3, <1>4, <1>5 DEF Missing, Weight

\* The missing posts cost less by exactly the weight of the post filled.
LEMMA UnfilledFalls ==
  ASSUME NEW p, NEW x, NEW a, NEW y, Grows(p, x, a, y)
  PROVE  /\ Unfilled(p, x) \in Int
         /\ Unfilled(p, y) = Unfilled(p, x) - Weight(p, PostFilled(a)) * 100000
<1> DEFINE R == Requirements(p)
           k == PostFilled(a)
           f == [r \in R |-> Missing(p, x, r) * Weight(p, r) * 100000]
           g == [r \in R |-> Missing(p, y, r) * Weight(p, r) * 100000]
<1>1. /\ WellFormed(p) /\ x \subseteq Candidates(p) /\ y \subseteq Candidates(p)
      /\ a \in Candidates(p) /\ a \notin x /\ y = x \cup {a}
  BY DEF Grows
<1>2. IsFiniteSet(R) /\ k \in R
  BY <1>1, RequirementsFinite, CandidateParts
<1>3. \A r \in R : /\ Missing(p, x, r) \in Int /\ Missing(p, y, r) \in Int
                   /\ Weight(p, r) \in Int /\ IsFiniteSet(For(x, r))
  BY <1>1, UnfilledInt
<1>4. ASSUME NEW r \in R, r # k PROVE Missing(p, y, r) = Missing(p, x, r)
  <2>1. ~(a.slot = r.slot /\ a.role = r.role)
    BY <1>4 DEF Requirements, PostFilled
  <2>2. For(y, r) = For(x, r)
    BY <1>1, <2>1 DEF For
  <2>3. QED
    BY <2>2 DEF Missing
<1>5. Missing(p, y, k) = Missing(p, x, k) - 1
  <2>1. For(y, k) = For(x, k) \cup {a} /\ a \notin For(x, k)
    BY <1>1 DEF For, PostFilled
  <2>2. Cardinality(For(y, k)) = Cardinality(For(x, k)) + 1 /\ Cardinality(For(x, k)) \in Nat
    BY <1>2, <1>3, <2>1, OneMore
  <2>3. Required(p, k) \in Int
    BY <1>1, <1>2 DEF Requirements, Required, WellFormed
  <2>4. QED
    BY <2>2, <2>3 DEF Missing
<1>6. \A r \in R : f[r] \in Int /\ g[r] \in Int /\ (r # k => g[r] = f[r])
  BY <1>3, <1>4
<1>7. g[k] = f[k] - Weight(p, k) * 100000
  <2>1. \A m, w \in Int : (m - 1) * w * 100000 = m * w * 100000 - w * 100000
    OBVIOUS
  <2>2. g[k] = (Missing(p, x, k) - 1) * Weight(p, k) * 100000
    BY <1>2, <1>5
  <2>3. f[k] = Missing(p, x, k) * Weight(p, k) * 100000
    BY <1>2
  <2>4. Missing(p, x, k) \in Int /\ Weight(p, k) \in Int
    BY <1>2, <1>3
  <2> HIDE DEF f, g
  <2>5. QED
    BY <2>1, <2>2, <2>3, <2>4
<1>8. Unfilled(p, x) = SumFunctionOnSet(f, R) /\ Unfilled(p, y) = SumFunctionOnSet(g, R)
  BY DEF Unfilled, SumFunction
<1>9. Weight(p, k) * 100000 \in Int
  BY <1>2, <1>3
<1> HIDE DEF f, g, R, k
<1>10. SumFunctionOnSet(f, R) \in Int
  BY <1>2, <1>6, SumInt
<1>11. SumFunctionOnSet(g, R) = SumFunctionOnSet(f, R) - f[k] + g[k]
  BY <1>2, <1>6, SumDiffers
<1>12. f[k] \in Int
  BY <1>2, <1>6
<1>13. SumFunctionOnSet(g, R) = SumFunctionOnSet(f, R) - Weight(p, k) * 100000
  BY <1>7, <1>9, <1>10, <1>11, <1>12
<1>14. QED
  BY <1>8, <1>10, <1>13 DEF k

LEMMA GrownParts ==
  ASSUME NEW p, NEW x, NEW a, NEW y, Grows(p, x, a, y)
  PROVE  /\ WellFormed(p) /\ x \subseteq Candidates(p) /\ y \subseteq Candidates(p)
         /\ a \in Candidates(p) /\ a \notin x /\ y = x \cup {a}
         /\ a.slot \in Slots(p) /\ a.employee \in Active(p)
BY CandidateParts DEF Grows

LEMMA TargetInt ==
  ASSUME NEW p, WellFormed(p), NEW s PROVE Target(p, s) \in Int
<1> DEFINE D == {d \in p.demand : d.day = s.day /\ d.type = s.type}
           f == [d \in D |-> d.count]
<1>1. IsFiniteSet(D)
  BY FS_Subset DEF WellFormed
<1>2. \A d \in D : f[d] \in Int
  BY DEF WellFormed
<1>3. Target(p, s) = SumFunctionOnSet(f, D)
  BY DEF Target, SumFunction
<1> HIDE DEF f, D
<1>4. QED
  BY <1>1, <1>2, <1>3, SumInt

LEMMA OffTargetStep ==
  ASSUME NEW t \in Int, NEW n \in Nat
  PROVE  /\ OffTargetCost(t, n) \in Int /\ OffTargetCost(t, n + 1) \in Int
         /\ OffTargetCost(t, n + 1) <= OffTargetCost(t, n) + 25000
BY SMT DEF OffTargetCost, AtLeast

\* One person more is at most one above the target of one slot.
LEMMA OffTargetRises ==
  ASSUME NEW p, NEW x, NEW a, NEW y, Grows(p, x, a, y)
  PROVE  /\ OffTarget(p, x) \in Int /\ OffTarget(p, y) \in Int
         /\ OffTarget(p, y) <= OffTarget(p, x) + 25000
<1> DEFINE Z == {s \in Slots(p) : Target(p, s) > 0}
           k == a.slot
           f == [s \in Z |-> OffTargetCost(Target(p, s), Cardinality(In(x, s)))]
           g == [s \in Z |-> OffTargetCost(Target(p, s), Cardinality(In(y, s)))]
<1>1. IsFiniteSet(Z)
  BY GrownParts, SlotsFinite, FS_Subset
<1>2. ASSUME NEW s PROVE IsFiniteSet(In(x, s)) /\ IsFiniteSet(In(y, s))
  BY GrownFinite, FS_Subset DEF In
<1>3. ASSUME NEW s PROVE Cardinality(In(x, s)) \in Nat /\ Cardinality(In(y, s)) \in Nat
  BY <1>2, FS_CardinalityType
<1>4. ASSUME NEW s, s # k PROVE In(y, s) = In(x, s)
  BY <1>4, GrownParts DEF In
<1>5. Cardinality(In(y, k)) = Cardinality(In(x, k)) + 1
  <2>1. In(y, k) = In(x, k) \cup {a} /\ a \notin In(x, k)
    BY GrownParts DEF In
  <2>2. QED
    BY <1>2, <2>1, OneMore
<1>6. \A s \in Z : f[s] \in Int /\ g[s] \in Int /\ (s # k => g[s] = f[s])
  <2> SUFFICES ASSUME NEW s \in Z PROVE f[s] \in Int /\ g[s] \in Int /\ (s # k => g[s] = f[s])
    OBVIOUS
  <2>1. Target(p, s) \in Int
    BY GrownParts, TargetInt
  <2>2. /\ OffTargetCost(Target(p, s), Cardinality(In(x, s))) \in Int
        /\ OffTargetCost(Target(p, s), Cardinality(In(y, s))) \in Int
    <3>1. Cardinality(In(x, s)) \in Nat /\ Cardinality(In(y, s)) \in Nat
      BY <1>3
    <3>2. QED
      BY <2>1, <3>1, OffTargetStep
  <2>3. QED
    BY <1>4, <2>2
<1>7. k \in Z => g[k] <= f[k] + 25000
  BY <1>3, <1>5, GrownParts, TargetInt, OffTargetStep
<1>8. OffTarget(p, x) = SumFunctionOnSet(f, Z) /\ OffTarget(p, y) = SumFunctionOnSet(g, Z)
  BY DEF OffTarget, SumFunction
<1> HIDE DEF f, g, Z, k
<1>9. SumFunctionOnSet(f, Z) \in Int /\ SumFunctionOnSet(g, Z) \in Int
  BY <1>1, <1>6, SumInt
<1>10. CASE k \in Z
  <2>1. SumFunctionOnSet(g, Z) = SumFunctionOnSet(f, Z) - f[k] + g[k]
    BY <1>1, <1>6, <1>10, SumDiffers
  <2>2. f[k] \in Int /\ g[k] \in Int
    BY <1>6, <1>10
  <2>3. QED
    BY <1>7, <1>8, <1>9, <1>10, <2>1, <2>2
<1>11. CASE k \notin Z
  <2>1. \A s \in Z : f[s] \in Int /\ g[s] = f[s]
    BY <1>6, <1>11
  <2>2. SumFunctionOnSet(g, Z) = SumFunctionOnSet(f, Z)
    BY <1>1, <2>1, SumEqual
  <2>3. QED
    BY <1>8, <1>9, <2>2
<1>12. QED
  BY <1>10, <1>11

LEMMA PenaltyNat ==
  ASSUME NEW p, WellFormed(p), NEW pair \in DOMAIN p.avoid
  PROVE  AvoidPenalty(p, pair) \in Nat
<1>1. Policy(p).avoid \in Nat /\ p.avoid[pair] \in Nat
  <2>1. Policy(p).avoid \in Nat
    BY PolicyNumbers DEF PolicyRows, DefaultPolicy
  <2>2. QED
    BY <2>1 DEF WellFormed
<1>2. \A m, n \in Nat : m * n * 10000 \in Nat
  OBVIOUS
<1>3. QED
  BY <1>1, <1>2 DEF AvoidPenalty

\* A pair meets in at most one slot more, and only if the employee is of the pair.
LEMMA TogetherRises ==
  ASSUME NEW p, NEW x, NEW a, NEW y, Grows(p, x, a, y), NEW pair
  PROVE  /\ Cardinality(SlotsTogether(p, x, pair)) \in Nat
         /\ Cardinality(SlotsTogether(p, y, pair)) \in Nat
         /\ Cardinality(SlotsTogether(p, y, pair)) <= Cardinality(SlotsTogether(p, x, pair)) + 1
         /\ a.employee \notin pair => SlotsTogether(p, y, pair) = SlotsTogether(p, x, pair)
<1> DEFINE S == SlotsTogether(p, x, pair)
           T == SlotsTogether(p, y, pair)
<1>1. IsFiniteSet(S) /\ IsFiniteSet(T)
  BY GrownParts, SlotsFinite, FS_Subset DEF SlotsTogether
<1>2. T \subseteq S \cup {a.slot}
  <2>1. ASSUME NEW s, s # a.slot PROVE In(y, s) = In(x, s)
    BY <2>1, GrownParts DEF In
  <2>2. QED
    BY <2>1 DEF SlotsTogether
<1>3. a.employee \notin pair => T = S
  <2> SUFFICES ASSUME a.employee \notin pair, NEW s \in Slots(p), NEW e \in pair
               PROVE  (\E b \in In(y, s) : b.employee = e) <=> (\E b \in In(x, s) : b.employee = e)
    BY DEF SlotsTogether
  <2>1. QED
    BY GrownParts DEF In
<1> HIDE DEF S, T
<1>4. IsFiniteSet(S \cup {a.slot}) /\ Cardinality(S \cup {a.slot}) <= Cardinality(S) + 1
  <2>1. /\ IsFiniteSet(S \cup {a.slot})
        /\ Cardinality(S \cup {a.slot}) =
             IF a.slot \in S THEN Cardinality(S) ELSE Cardinality(S) + 1
    BY <1>1, FS_AddElement
  <2>2. Cardinality(S) \in Nat
    BY <1>1, FS_CardinalityType
  <2>3. QED
    BY <2>1, <2>2
<1>5. Cardinality(S) \in Nat /\ Cardinality(T) \in Nat /\ Cardinality(S \cup {a.slot}) \in Nat
  BY <1>1, <1>4, FS_CardinalityType
<1>6. Cardinality(T) <= Cardinality(S \cup {a.slot})
  BY <1>2, <1>4, FS_Subset
<1>7. Cardinality(T) <= Cardinality(S) + 1
  BY <1>4, <1>5, <1>6
<1>8. QED
  BY <1>3, <1>5, <1>7 DEF S, T

\* At most the avoided pairs of the employee meet in the slot.
LEMMA AvoidedRises ==
  ASSUME NEW p, NEW x, NEW a, NEW y, Grows(p, x, a, y)
  PROVE  /\ Avoided(p, x) \in Int /\ Avoided(p, y) \in Int
         /\ SumFunction(PairsOf(p, a)) \in Int
         /\ Avoided(p, y) <= Avoided(p, x) + SumFunction(PairsOf(p, a))
<1> DEFINE P == DOMAIN p.avoid
           f == [pair \in P |-> AvoidPenalty(p, pair) * Cardinality(SlotsTogether(p, x, pair))]
           g == [pair \in P |-> AvoidPenalty(p, pair) * Cardinality(SlotsTogether(p, y, pair))]
           h == PairsOf(p, a)
           fh == [pair \in P |-> f[pair] + h[pair]]
<1>1. IsFiniteSet(P)
  BY GrownParts DEF WellFormed
<1>2. ASSUME NEW pair \in P
      PROVE  f[pair] \in Int /\ g[pair] \in Int /\ h[pair] \in Int /\ g[pair] <= f[pair] + h[pair]
  <2> DEFINE c == Cardinality(SlotsTogether(p, x, pair))
             d == Cardinality(SlotsTogether(p, y, pair))
             m == AvoidPenalty(p, pair)
  <2>1. c \in Nat /\ d \in Nat /\ d <= c + 1 /\ (a.employee \notin pair => d = c)
    BY TogetherRises
  <2>2. m \in Nat
    BY GrownParts, PenaltyNat
  <2>3. f[pair] = m * c /\ g[pair] = m * d /\ h[pair] = IF a.employee \in pair THEN m ELSE 0
    BY DEF PairsOf
  <2> HIDE DEF c, d, m, f, g, h
  <2>4. m * c \in Nat /\ m * d \in Nat
    BY <2>1, <2>2
  <2>5. \A i, j, k \in Nat : j <= k + 1 => i * j <= i * k + i
    OBVIOUS
  <2>6. m * d <= m * c + m
    BY <2>1, <2>2, <2>5
  <2>7. CASE a.employee \in pair
    BY <2>2, <2>3, <2>4, <2>6, <2>7
  <2>8. CASE a.employee \notin pair
    BY <2>1, <2>3, <2>4, <2>8
  <2>9. QED
    BY <2>7, <2>8
<1>3. Avoided(p, x) = SumFunctionOnSet(f, P) /\ Avoided(p, y) = SumFunctionOnSet(g, P)
  BY DEF Avoided, SumFunction
<1>4. SumFunction(h) = SumFunctionOnSet(h, P)
  BY DEF PairsOf, SumFunction
<1> HIDE DEF f, g, h, P
<1>5. \A pair \in P : f[pair] \in Int /\ g[pair] \in Int /\ h[pair] \in Int
  BY <1>2
<1>6. \A pair \in P : fh[pair] = f[pair] + h[pair] /\ fh[pair] \in Int /\ g[pair] <= fh[pair]
  BY <1>2
<1> HIDE DEF fh
<1>7. /\ SumFunctionOnSet(f, P) \in Int /\ SumFunctionOnSet(g, P) \in Int
      /\ SumFunctionOnSet(h, P) \in Int
  BY <1>1, <1>5, SumInt
<1>8. SumFunctionOnSet(fh, P) = SumFunctionOnSet(f, P) + SumFunctionOnSet(h, P)
  BY <1>1, <1>5, <1>6, SumPlus
<1>9. SumFunctionOnSet(g, P) <= SumFunctionOnSet(fh, P)
  BY <1>1, <1>5, <1>6, SumMonotone
<1>10. Avoided(p, y) <= Avoided(p, x) + SumFunction(h)
  BY <1>3, <1>4, <1>7, <1>8, <1>9
<1>11. QED
  BY <1>3, <1>4, <1>7, <1>10 DEF h

LEMMA TeamSizeNumber ==
  ASSUME NEW p, WellFormed(p)
  PROVE  /\ TeamSize(p) \in Nat \ {0}
         /\ Cardinality(Active(p)) \in Nat
         /\ Active(p) # {} => TeamSize(p) = Cardinality(Active(p))
<1>1. Cardinality(Active(p)) \in Nat
  BY ActiveFinite, FS_CardinalityType
<1>2. Active(p) # {} => Cardinality(Active(p)) # 0
  BY ActiveFinite, FS_EmptySet
<1>3. QED
  BY <1>1, <1>2 DEF TeamSize, AtLeast

\* The rank of an employee is less than the number of employees.
LEMMA RankInside ==
  ASSUME NEW p, WellFormed(p), NEW e \in Active(p)
  PROVE  Before(Active(p), e) \in 0..(TeamSize(p) - 1)
<1> DEFINE S == Active(p)
           T == {u \in S : u < e}
<1>1. IsFiniteSet(S) /\ e \in S /\ S \subseteq Int
  BY ActiveFinite DEF Active, WellFormed
<1>2. T \subseteq S \ {e}
  BY <1>1
<1>3. IsFiniteSet(S \ {e}) /\ Cardinality(S \ {e}) = Cardinality(S) - 1
  BY <1>1, FS_RemoveElement
<1>4. TeamSize(p) = Cardinality(S) /\ Cardinality(S) \in Nat
  BY <1>1, TeamSizeNumber
<1>5. Before(S, e) = Cardinality(T)
  BY DEF Before
<1> HIDE DEF S, T
<1>6. IsFiniteSet(T) /\ Cardinality(T) <= Cardinality(S \ {e})
  BY <1>2, <1>3, FS_Subset
<1>7. Cardinality(T) \in Nat /\ Cardinality(S \ {e}) \in Nat
  BY <1>3, <1>6, FS_CardinalityType
<1>8. Before(S, e) \in 0..(TeamSize(p) - 1)
  BY <1>3, <1>4, <1>5, <1>6, <1>7
<1>9. QED
  BY <1>8 DEF S

LEMMA TurnInt ==
  ASSUME NEW p, WellFormed(p), NEW a PROVE Turn(p, a) \in Int
<1> DEFINE roles == {r.role : r \in Requirements(p)}
           earlier == {t \in Slots(p) :
                         t.day < a.slot.day \/ (t.day = a.slot.day /\ t.type < a.slot.type)}
           before == {u \in roles : u < a.role}
           f == [r \in Requirements(p) |-> r.role]
<1>1. IsFiniteSet(earlier)
  BY SlotsFinite, FS_Subset
<1>2. IsFiniteSet(roles)
  <2>1. DOMAIN f = Requirements(p) /\ f = [k \in DOMAIN f |-> f[k]]
    OBVIOUS
  <2>2. roles = {f[k] : k \in DOMAIN f}
    OBVIOUS
  <2> HIDE DEF f, roles
  <2>3. IsFiniteSet({f[k] : k \in DOMAIN f})
    BY <2>1, RequirementsFinite, ImageIsFinite
  <2>4. QED
    BY <2>2, <2>3
<1>3. IsFiniteSet(before)
  <2>1. before \subseteq roles
    OBVIOUS
  <2> HIDE DEF before, roles
  <2>2. QED
    BY <1>2, <2>1, FS_Subset
<1>4. Turn(p, a) = Cardinality(earlier) + Cardinality(before)
  BY DEF Turn, Before
<1> HIDE DEF earlier, before
<1>5. QED
  BY <1>1, <1>3, <1>4, FS_CardinalityType

\* The turn of an assignment costs at most what the last in the row costs.
LEMMA RotationBounded ==
  ASSUME NEW p, WellFormed(p), NEW a \in Candidates(p)
  PROVE  RotationCost(p, a) \in Int /\ RotationCost(p, a) <= (TeamSize(p) - 1) * 1001
<1> DEFINE n == TeamSize(p)
           index == Before(Active(p), a.employee)
           turn == Turn(p, a)
<1>1. n \in Nat \ {0} /\ index \in 0..(n - 1) /\ turn \in Int
  BY TeamSizeNumber, RankInside, TurnInt, CandidateParts
<1>2. RotationCost(p, a) = ((index - (turn % n)) % n) * 1000 + index
  BY DEF RotationCost
<1> HIDE DEF n, index, turn
<1>3. turn % n \in Int
  BY <1>1
<1>4. index - (turn % n) \in Int
  BY <1>1, <1>3
<1>5. (index - (turn % n)) % n \in 0..(n - 1)
  BY <1>1, <1>4
<1>6. \A i, j \in 0..(n - 1) : i * 1000 + j \in Int /\ i * 1000 + j <= (n - 1) * 1001
  BY <1>1
<1>7. RotationCost(p, a) \in Int /\ RotationCost(p, a) <= (n - 1) * 1001
  BY <1>1, <1>2, <1>5, <1>6
<1>8. QED
  BY <1>7 DEF n

LEMMA RotationRises ==
  ASSUME NEW p, NEW x, NEW a, NEW y, Grows(p, x, a, y)
  PROVE  /\ Rotation(p, x) \in Int /\ Rotation(p, y) \in Int
         /\ Rotation(p, y) <= Rotation(p, x) + (TeamSize(p) - 1) * 1001
<1> DEFINE f == [b \in x |-> RotationCost(p, b)]
           g == [b \in y |-> RotationCost(p, b)]
<1>1. IsFiniteSet(x) /\ IsFiniteSet(y)
  BY GrownFinite
<1>2. \A b \in y : RotationCost(p, b) \in Int
  BY GrownParts, RotationBounded
<1>3. y = x \cup {a} /\ a \notin x
  BY GrownParts
<1>4. \A b \in x : f[b] \in Int /\ g[b] = f[b]
  BY <1>2, <1>3
<1>5. \A b \in y : g[b] = RotationCost(p, b) /\ g[b] \in Int
  BY <1>2
<1>6. Rotation(p, x) = SumFunctionOnSet(f, x) /\ Rotation(p, y) = SumFunctionOnSet(g, y)
  BY DEF Rotation, SumFunction
<1> HIDE DEF f, g
<1>7. SumFunctionOnSet(g, x) = SumFunctionOnSet(f, x) /\ SumFunctionOnSet(f, x) \in Int
  BY <1>1, <1>4, SumEqual, SumInt
<1>8. SumFunctionOnSet(g, x \cup {a}) = SumFunctionOnSet(g, x) + g[a]
  BY <1>1, <1>3, <1>5, SumAdd
<1>9. g[a] \in Int /\ g[a] <= (TeamSize(p) - 1) * 1001
  BY <1>3, <1>5, GrownParts, RotationBounded
<1>10. TeamSize(p) \in Int
  BY GrownParts, TeamSizeNumber
<1>11. QED
  BY <1>3, <1>6, <1>7, <1>8, <1>9, <1>10

LEMMA FairTargetInt ==
  ASSUME NEW p, WellFormed(p) PROVE FairTarget(p) \in Int
<1> DEFINE R == Requirements(p)
           f == [r \in R |-> Required(p, r)]
           total == SumFunction(f)
           n == Cardinality(Active(p))
<1>1. n \in Nat
  BY TeamSizeNumber
<1>2. \A r \in R : f[r] \in Int
  BY DEF Requirements, Required, WellFormed
<1>3. total = SumFunctionOnSet(f, R)
  BY DEF SumFunction
<1>4. FairTarget(p) = IF n = 0 THEN 0 ELSE AtLeast(1, (total + n - 1) \div n)
  BY DEF FairTarget
<1>5. IsFiniteSet(R)
  BY RequirementsFinite
<1> HIDE DEF f, R, n, total
<1>6. total \in Int
  BY <1>2, <1>3, <1>5, SumInt
<1>7. n # 0 => (total + n - 1) \div n \in Int
  BY <1>1, <1>6
<1>8. QED
  BY <1>4, <1>7 DEF AtLeast

LEMMA OfGrown ==
  ASSUME NEW p, NEW x, NEW a, NEW y, Grows(p, x, a, y)
  PROVE  /\ \A e : IsFiniteSet(Of(x, e)) /\ IsFiniteSet(Of(y, e))
         /\ \A e : Cardinality(Of(x, e)) \in Nat /\ Cardinality(Of(y, e)) \in Nat
         /\ \A e : e # a.employee => Of(y, e) = Of(x, e)
         /\ Of(y, a.employee) = Of(x, a.employee) \cup {a}
         /\ Cardinality(Of(y, a.employee)) = Cardinality(Of(x, a.employee)) + 1
<1>1. ASSUME NEW e PROVE IsFiniteSet(Of(x, e)) /\ IsFiniteSet(Of(y, e))
  BY GrownFinite, FS_Subset DEF Of
<1>2. ASSUME NEW e PROVE Cardinality(Of(x, e)) \in Nat /\ Cardinality(Of(y, e)) \in Nat
  BY <1>1, FS_CardinalityType
<1>3. ASSUME NEW e, e # a.employee PROVE Of(y, e) = Of(x, e)
  BY <1>3, GrownParts DEF Of
<1>4. Of(y, a.employee) = Of(x, a.employee) \cup {a} /\ a \notin Of(x, a.employee)
  BY GrownParts DEF Of
<1>5. Cardinality(Of(y, a.employee)) = Cardinality(Of(x, a.employee)) + 1
  BY <1>1, <1>4, OneMore
<1>6. QED
  BY <1>1, <1>2, <1>3, <1>4, <1>5

OverShare(p, n) == AtLeast(0, n - FairTarget(p)) * Policy(p).imbalance * 500

\* A shift more is at most one more above the fair share.
LEMMA OverShareStep ==
  ASSUME NEW p, WellFormed(p), NEW n \in Nat
  PROVE  /\ OverShare(p, n) \in Int /\ OverShare(p, n + 1) \in Int
         /\ OverShare(p, n + 1) <= OverShare(p, n) + Policy(p).imbalance * 500
<1> DEFINE i == Policy(p).imbalance
           t == FairTarget(p)
           u == AtLeast(0, n - t)
           v == AtLeast(0, n + 1 - t)
<1>1. i \in Nat
  BY PolicyNumbers DEF PolicyRows, DefaultPolicy
<1>2. t \in Int
  BY FairTargetInt
<1>3. OverShare(p, n) = u * i * 500 /\ OverShare(p, n + 1) = v * i * 500
  BY <1>1, <1>2, SMT DEF OverShare, AtLeast
<1> HIDE DEF i, t
<1>4. u \in Nat /\ v \in Nat /\ (v = u \/ v = u + 1)
  BY <1>2 DEF AtLeast
<1> HIDE DEF u, v
<1>5. u * i \in Nat /\ v * i \in Nat
  BY <1>1, <1>4
<1>6. v * i <= u * i + i
  <2>1. CASE v = u
    BY <1>1, <1>5, <2>1
  <2>2. CASE v = u + 1
    <3>1. (u + 1) * i = u * i + i
      BY <1>1, <1>4
    <3>2. QED
      BY <1>5, <2>2, <3>1
  <2>3. QED
    BY <1>4, <2>1, <2>2
<1>7. u * i * 500 \in Int /\ v * i * 500 \in Int /\ v * i * 500 <= u * i * 500 + i * 500
  BY <1>1, <1>5, <1>6
<1>8. QED
  BY <1>3, <1>7 DEF i

LEMMA ImbalanceRises ==
  ASSUME NEW p, NEW x, NEW a, NEW y, Grows(p, x, a, y)
  PROVE  /\ Imbalance(p, x) \in Int /\ Imbalance(p, y) \in Int
         /\ Imbalance(p, y) <= Imbalance(p, x) + Policy(p).imbalance * 500
<1> DEFINE A == Active(p)
           k == a.employee
           f == [e \in A |-> AtLeast(0, Cardinality(Of(x, e)) - FairTarget(p))
                               * Policy(p).imbalance * 500]
           g == [e \in A |-> AtLeast(0, Cardinality(Of(y, e)) - FairTarget(p))
                               * Policy(p).imbalance * 500]
<1>1. IsFiniteSet(A) /\ k \in A /\ WellFormed(p)
  BY GrownParts, ActiveFinite
<1>2. \A e \in A : /\ f[e] = OverShare(p, Cardinality(Of(x, e)))
                   /\ g[e] = OverShare(p, Cardinality(Of(y, e)))
  BY DEF OverShare
<1>3. Imbalance(p, x) = SumFunctionOnSet(f, A) /\ Imbalance(p, y) = SumFunctionOnSet(g, A)
  BY DEF Imbalance, SumFunction
<1> HIDE DEF f, g, A, k
<1>4. \A e \in A : f[e] \in Int /\ g[e] \in Int /\ (e # k => g[e] = f[e])
  <2> SUFFICES ASSUME NEW e \in A
               PROVE  f[e] \in Int /\ g[e] \in Int /\ (e # k => g[e] = f[e])
    OBVIOUS
  <2>1. Cardinality(Of(x, e)) \in Nat /\ Cardinality(Of(y, e)) \in Nat
    BY OfGrown
  <2>2. /\ OverShare(p, Cardinality(Of(x, e))) \in Int
        /\ OverShare(p, Cardinality(Of(y, e))) \in Int
    BY <1>1, <2>1, OverShareStep
  <2>3. e # k => Of(y, e) = Of(x, e)
    BY OfGrown DEF k
  <2>4. QED
    BY <1>2, <2>2, <2>3
<1>5. g[k] <= f[k] + Policy(p).imbalance * 500
  <2>1. Cardinality(Of(x, k)) \in Nat /\ Cardinality(Of(y, k)) = Cardinality(Of(x, k)) + 1
    BY OfGrown DEF k
  <2>2. QED
    BY <1>1, <1>2, <2>1, OverShareStep
<1>6. SumFunctionOnSet(f, A) \in Int /\ SumFunctionOnSet(g, A) \in Int
  BY <1>1, <1>4, SumInt
<1>7. SumFunctionOnSet(g, A) = SumFunctionOnSet(f, A) - f[k] + g[k]
  BY <1>1, <1>4, SumDiffers
<1>8. f[k] \in Int /\ g[k] \in Int
  BY <1>1, <1>4
<1>9. Policy(p).imbalance \in Int
  BY <1>1, PolicyNumbers DEF PolicyRows, DefaultPolicy
<1>10. QED
  BY <1>3, <1>5, <1>6, <1>7, <1>8, <1>9

LEMMA DaysGrown ==
  ASSUME NEW p, NEW x, NEW a, NEW y, Grows(p, x, a, y), NEW e
  PROVE  /\ IsFiniteSet(DaysOf(x, e)) /\ IsFiniteSet(DaysOf(y, e))
         /\ DaysOf(x, e) \subseteq Int /\ a.slot.day \in Int
         /\ e # a.employee => DaysOf(y, e) = DaysOf(x, e)
         /\ DaysOf(y, e) \subseteq DaysOf(x, e) \cup {a.slot.day}
<1>1. \A s \in Slots(p) : s.day \in p.first..p.last
  BY DEF Slots
<1>2. p.first \in Int /\ p.last \in Int
  BY GrownParts DEF WellFormed
<1>3. IsFiniteSet(p.first..p.last) /\ p.first..p.last \subseteq Int
  BY <1>2, FS_Interval
<1>4. \A b \in y : b.slot \in Slots(p)
  BY GrownParts, CandidateParts
<1>5. x \subseteq y /\ a \in y /\ y = x \cup {a}
  BY GrownParts
<1>6. DaysOf(x, e) \subseteq p.first..p.last /\ DaysOf(y, e) \subseteq p.first..p.last
  BY <1>1, <1>4, <1>5 DEF DaysOf, Of
<1>7. a.slot.day \in p.first..p.last
  BY <1>1, <1>4, <1>5
<1>8. e # a.employee => DaysOf(y, e) = DaysOf(x, e)
  BY OfGrown DEF DaysOf
<1>9. DaysOf(y, e) \subseteq DaysOf(x, e) \cup {a.slot.day}
  BY <1>5 DEF DaysOf, Of
<1>10. QED
  BY <1>3, <1>6, <1>7, <1>8, <1>9, FS_Subset

\* A day worked more makes at most two pairs of days: with the one before and the
\* one after.
LEMMA RepeatedRises ==
  ASSUME NEW p, NEW x, NEW a, NEW y, Grows(p, x, a, y), NEW e
  PROVE  /\ Cardinality(Repeated(x, e)) \in Nat /\ Cardinality(Repeated(y, e)) \in Nat
         /\ e # a.employee => Repeated(y, e) = Repeated(x, e)
         /\ Cardinality(Repeated(y, e)) <= Cardinality(Repeated(x, e)) + 2
<1> DEFINE R == Repeated(x, e)
           S == Repeated(y, e)
           d == a.slot.day
           T == R \cup {d}
           U == T \cup {d - 1}
<1>1. IsFiniteSet(R) /\ IsFiniteSet(S)
  BY DaysGrown, FS_Subset DEF Repeated
<1>2. e # a.employee => S = R
  BY DaysGrown DEF Repeated
<1>3. S \subseteq U
  <2>1. /\ DaysOf(x, e) \subseteq Int /\ d \in Int
        /\ DaysOf(y, e) \subseteq DaysOf(x, e) \cup {d}
    BY DaysGrown
  <2> HIDE DEF d
  <2>2. ASSUME NEW c \in S, c # d PROVE c \in U
    <3>1. c \in DaysOf(x, e) /\ c + 1 \in DaysOf(x, e) \cup {d}
      BY <2>1, <2>2 DEF Repeated
    <3>2. CASE c + 1 = d
      BY <2>1, <3>1, <3>2
    <3>3. CASE c + 1 # d
      BY <3>1, <3>3 DEF Repeated
    <3>4. QED
      BY <3>2, <3>3
  <2>3. QED
    BY <2>2
<1> HIDE DEF R, S, d
<1>4. Cardinality(R) \in Nat /\ Cardinality(S) \in Nat
  BY <1>1, FS_CardinalityType
<1>5. /\ IsFiniteSet(T)
      /\ Cardinality(T) = IF d \in R THEN Cardinality(R) ELSE Cardinality(R) + 1
  BY <1>1, FS_AddElement
<1> HIDE DEF T
<1>6. /\ IsFiniteSet(U)
      /\ Cardinality(U) = IF d - 1 \in T THEN Cardinality(T) ELSE Cardinality(T) + 1
  BY <1>5, FS_AddElement
<1> HIDE DEF U
<1>7. Cardinality(S) <= Cardinality(U)
  BY <1>3, <1>6, FS_Subset
<1>8. Cardinality(S) <= Cardinality(R) + 2
  BY <1>4, <1>5, <1>6, <1>7
<1>9. QED
  BY <1>2, <1>4, <1>8 DEF R, S

LEMMA AdjacentRises ==
  ASSUME NEW p, NEW x, NEW a, NEW y, Grows(p, x, a, y)
  PROVE  /\ Adjacent(p, x) \in Int /\ Adjacent(p, y) \in Int
         /\ Adjacent(p, y) <= Adjacent(p, x) + 40000
<1> DEFINE A == Active(p)
           k == a.employee
           f == [e \in A |-> 20000 * Cardinality(Repeated(x, e))]
           g == [e \in A |-> 20000 * Cardinality(Repeated(y, e))]
<1>1. IsFiniteSet(A) /\ k \in A
  BY GrownParts, ActiveFinite
<1>2. \A e \in A : f[e] \in Int /\ g[e] \in Int /\ (e # k => g[e] = f[e])
  <2> SUFFICES ASSUME NEW e \in A
               PROVE  f[e] \in Int /\ g[e] \in Int /\ (e # k => g[e] = f[e])
    OBVIOUS
  <2>1. /\ Cardinality(Repeated(x, e)) \in Nat /\ Cardinality(Repeated(y, e)) \in Nat
        /\ e # k => Repeated(y, e) = Repeated(x, e)
    BY RepeatedRises
  <2>2. QED
    BY <2>1
<1>3. g[k] <= f[k] + 40000
  <2>1. /\ Cardinality(Repeated(x, k)) \in Nat /\ Cardinality(Repeated(y, k)) \in Nat
        /\ Cardinality(Repeated(y, k)) <= Cardinality(Repeated(x, k)) + 2
    BY RepeatedRises
  <2>2. QED
    BY <1>1, <2>1
<1>4. Adjacent(p, x) = SumFunctionOnSet(f, A) /\ Adjacent(p, y) = SumFunctionOnSet(g, A)
  BY DEF Adjacent, SumFunction
<1> HIDE DEF f, g, A, k
<1>5. SumFunctionOnSet(f, A) \in Int /\ SumFunctionOnSet(g, A) \in Int
  BY <1>1, <1>2, SumInt
<1>6. SumFunctionOnSet(g, A) = SumFunctionOnSet(f, A) - f[k] + g[k]
  BY <1>1, <1>2, SumDiffers
<1>7. f[k] \in Int /\ g[k] \in Int
  BY <1>1, <1>2
<1>8. QED
  BY <1>3, <1>4, <1>5, <1>6, <1>7

\* Whoever fills a post of enough weight lowers the cost, and whatever the
\* weights the cost is a number.
LEMMA CostFalls ==
  ASSUME NEW p, NEW x, NEW a, NEW y, Grows(p, x, a, y)
  PROVE  /\ Cost(p, x) \in Int /\ Cost(p, y) \in Int
         /\ Outweighed(p, a) => Cost(p, y) < Cost(p, x)
<1> DEFINE w == Weight(p, PostFilled(a)) * 100000
           pairs == SumFunction(PairsOf(p, a))
           turns == (TeamSize(p) - 1) * 1001
           share == Policy(p).imbalance * 500
<1>1. Unfilled(p, x) \in Int /\ Unfilled(p, y) = Unfilled(p, x) - w
  BY UnfilledFalls
<1>2. /\ OffTarget(p, x) \in Int /\ OffTarget(p, y) \in Int
      /\ OffTarget(p, y) <= OffTarget(p, x) + 25000
  BY OffTargetRises
<1>3. /\ Avoided(p, x) \in Int /\ Avoided(p, y) \in Int /\ pairs \in Int
      /\ Avoided(p, y) <= Avoided(p, x) + pairs
  BY AvoidedRises
<1>4. /\ Rotation(p, x) \in Int /\ Rotation(p, y) \in Int
      /\ Rotation(p, y) <= Rotation(p, x) + turns
  BY RotationRises
<1>5. /\ Imbalance(p, x) \in Int /\ Imbalance(p, y) \in Int
      /\ Imbalance(p, y) <= Imbalance(p, x) + share
  BY ImbalanceRises
<1>6. /\ Adjacent(p, x) \in Int /\ Adjacent(p, y) \in Int
      /\ Adjacent(p, y) <= Adjacent(p, x) + 40000
  BY AdjacentRises
<1>7. /\ w \in Int /\ turns \in Int /\ share \in Int
  <2>1. Weight(p, PostFilled(a)) \in Int
    BY GrownParts, CandidateParts, UnfilledInt
  <2>2. TeamSize(p) \in Int
    BY GrownParts, TeamSizeNumber
  <2>3. Policy(p).imbalance \in Int
    BY GrownParts, PolicyNumbers DEF PolicyRows, DefaultPolicy
  <2>4. QED
    BY <2>1, <2>2, <2>3
<1>8. Outweighed(p, a) => w > 25000 + pairs + turns + share + 2 * 20000
  BY SMT DEF Outweighed, MostAdded, PostFilled
<1> HIDE DEF w, pairs, turns, share
<1>9. Outweighed(p, a) => w > 25000 + pairs + turns + share + 40000
  BY <1>3, <1>7, <1>8
<1>10. Cost(p, x) \in Int /\ Cost(p, y) \in Int
  BY <1>1, <1>2, <1>3, <1>4, <1>5, <1>6, <1>7 DEF Cost
<1>11. Outweighed(p, a) => Cost(p, y) < Cost(p, x)
  BY <1>1, <1>2, <1>3, <1>4, <1>5, <1>6, <1>7, <1>9 DEF Cost
<1>12. QED
  BY <1>10, <1>11

\* An optimum leaves no post open that one more candidate could fill.
LEMMA OptimumFills ==
  ASSUME NEW p, WellFormed(p), NEW x \in Optima(p), NEW a \in Candidates(p) \ x, Outweighed(p, a)
  PROVE  ~Feasible(p, x \cup {a})
<1> DEFINE y == x \cup {a}
<1> SUFFICES ASSUME Feasible(p, y) PROVE FALSE
  OBVIOUS
<1>1. x \in FeasibleSets(p) /\ \A z \in FeasibleSets(p) : Cost(p, x) <= Cost(p, z)
  BY DEF Optima
<1>2. x \subseteq Candidates(p)
  BY <1>1 DEF FeasibleSets
<1>3. y \in FeasibleSets(p)
  BY <1>2 DEF FeasibleSets
<1>4. Grows(p, x, a, y)
  BY <1>2 DEF Grows
<1> HIDE DEF y
<1>5. Cost(p, x) <= Cost(p, y)
  BY <1>1, <1>3
<1>6. Cost(p, x) \in Int /\ Cost(p, y) \in Int /\ Cost(p, y) < Cost(p, x)
  BY <1>4, CostFalls
<1>7. QED
  BY <1>5, <1>6

-----------------------------------------------------------------------------
(* There is an optimum.                                                    *)

\* Finitely many numbers have a least one.
LEMMA LeastOf ==
  ASSUME NEW S, IsFiniteSet(S), S # {}, NEW c, \A x \in S : c[x] \in Int
  PROVE  \E x \in S : \A y \in S : c[x] <= c[y]
<1> DEFINE Least(s) == \E x \in s : \A y \in s : c[x] <= c[y]
           B == {s \in SUBSET S : s # {} /\ ~Least(s)}
<1> SUFFICES ASSUME B # {} PROVE FALSE
  OBVIOUS
<1>1. PICK s \in B : \A u \in B : ~(u \subseteq s /\ u # s)
  <2>1. B \in SUBSET (SUBSET S)
    OBVIOUS
  <2> HIDE DEF B
  <2>2. QED
    BY <2>1, SmallestSubset
<1>2. s \subseteq S /\ s # {} /\ ~Least(s)
  BY <1>1
<1>3. PICK x \in s : TRUE
  BY <1>2
<1> DEFINE t == s \ {x}
<1>4. t \notin B /\ t \subseteq S
  BY <1>1, <1>2, <1>3
<1>5. CASE t = {}
  <2>1. s = {x} /\ c[x] <= c[x]
    BY <1>2, <1>3, <1>5
  <2>2. QED
    BY <1>2, <2>1
<1>6. CASE t # {}
  <2>1. Least(t)
    BY <1>4, <1>6
  <2>2. PICK m \in t : \A y \in t : c[m] <= c[y]
    BY <2>1
  <2>3. c[m] \in Int /\ c[x] \in Int /\ \A y \in t : c[y] \in Int
    BY <1>2, <1>3
  <2>4. CASE c[x] <= c[m]
    <3>1. ASSUME NEW y \in s PROVE c[x] <= c[y]
      BY <2>2, <2>3, <2>4
    <3>2. QED
      BY <1>2, <1>3, <3>1
  <2>5. CASE c[m] <= c[x]
    <3>1. ASSUME NEW y \in s PROVE c[m] <= c[y]
      BY <2>2, <2>3, <2>5
    <3>2. QED
      BY <1>2, <2>2, <3>1
  <2>6. QED
    BY <2>3, <2>4, <2>5
<1>7. QED
  BY <1>5, <1>6

\* The cost of whatever set of candidates is a number.
LEMMA CostInt ==
  ASSUME NEW p, WellFormed(p), NEW x, x \subseteq Candidates(p)
  PROVE  Cost(p, x) \in Int
<1>1. IsFiniteSet(x)
  BY CandidatesFinite, FS_Subset
<1>2. \A a \in x : a \in Candidates(p) /\ a.slot \in Slots(p)
  BY CandidateParts
<1>3. Unfilled(p, x) \in Int
  <2> DEFINE f == [r \in Requirements(p) |-> Missing(p, x, r) * Weight(p, r) * 100000]
  <2>1. \A r \in Requirements(p) : f[r] \in Int
    <3>1. \A r \in Requirements(p) : Missing(p, x, r) \in Int /\ Weight(p, r) \in Int
      BY UnfilledInt
    <3>2. QED
      BY <3>1
  <2>2. Unfilled(p, x) = SumFunctionOnSet(f, Requirements(p))
    BY DEF Unfilled, SumFunction
  <2> HIDE DEF f
  <2>3. QED
    BY <2>1, <2>2, RequirementsFinite, SumInt
<1>4. OffTarget(p, x) \in Int
  <2> DEFINE Z == {s \in Slots(p) : Target(p, s) > 0}
             f == [s \in Z |-> OffTargetCost(Target(p, s), Cardinality(In(x, s)))]
  <2>1. \A s \in Z : f[s] \in Int
    <3>1. ASSUME NEW s PROVE Cardinality(In(x, s)) \in Nat /\ Target(p, s) \in Int
      BY <1>1, FS_Subset, FS_CardinalityType, TargetInt DEF In
    <3>2. ASSUME NEW s PROVE OffTargetCost(Target(p, s), Cardinality(In(x, s))) \in Int
      BY <3>1, OffTargetStep
    <3>3. QED
      BY <3>2
  <2>2. IsFiniteSet(Z)
    BY SlotsFinite, FS_Subset
  <2>3. OffTarget(p, x) = SumFunctionOnSet(f, Z)
    BY DEF OffTarget, SumFunction
  <2> HIDE DEF f, Z
  <2>4. QED
    BY <2>1, <2>2, <2>3, SumInt
<1>5. Avoided(p, x) \in Int
  <2> DEFINE P == DOMAIN p.avoid
             f == [pair \in P |-> AvoidPenalty(p, pair) * Cardinality(SlotsTogether(p, x, pair))]
  <2>1. \A pair \in P : f[pair] \in Int
    <3>1. ASSUME NEW pair \in P
          PROVE  AvoidPenalty(p, pair) \in Nat /\ Cardinality(SlotsTogether(p, x, pair)) \in Nat
      <4>1. IsFiniteSet(SlotsTogether(p, x, pair))
        BY SlotsFinite, FS_Subset DEF SlotsTogether
      <4>2. QED
        BY <4>1, FS_CardinalityType, PenaltyNat
    <3>2. QED
      BY <3>1
  <2>2. IsFiniteSet(P)
    BY DEF WellFormed
  <2>3. Avoided(p, x) = SumFunctionOnSet(f, P)
    BY DEF Avoided, SumFunction
  <2> HIDE DEF f, P
  <2>4. QED
    BY <2>1, <2>2, <2>3, SumInt
<1>6. Rotation(p, x) \in Int
  <2> DEFINE f == [a \in x |-> RotationCost(p, a)]
  <2>1. \A a \in x : f[a] \in Int
    BY <1>2, RotationBounded
  <2>2. Rotation(p, x) = SumFunctionOnSet(f, x)
    BY DEF Rotation, SumFunction
  <2> HIDE DEF f
  <2>3. QED
    BY <1>1, <2>1, <2>2, SumInt
<1>7. Imbalance(p, x) \in Int
  <2> DEFINE f == [e \in Active(p) |-> AtLeast(0, Cardinality(Of(x, e)) - FairTarget(p))
                                         * Policy(p).imbalance * 500]
  <2>1. \A e \in Active(p) : f[e] = OverShare(p, Cardinality(Of(x, e)))
    BY DEF OverShare
  <2>2. Imbalance(p, x) = SumFunctionOnSet(f, Active(p))
    BY DEF Imbalance, SumFunction
  <2> HIDE DEF f
  <2>3. ASSUME NEW e PROVE OverShare(p, Cardinality(Of(x, e))) \in Int
    <3>1. Cardinality(Of(x, e)) \in Nat
      BY <1>1, FS_Subset, FS_CardinalityType DEF Of
    <3>2. QED
      BY <3>1, OverShareStep
  <2>4. \A e \in Active(p) : f[e] \in Int
    BY <2>1, <2>3
  <2>5. QED
    BY <2>2, <2>4, ActiveFinite, SumInt
<1>8. Adjacent(p, x) \in Int
  <2> DEFINE f == [e \in Active(p) |-> 20000 * Cardinality(Repeated(x, e))]
  <2>1. ASSUME NEW e PROVE Cardinality(Repeated(x, e)) \in Nat
    <3>1. IsFiniteSet(p.first..p.last)
      BY FS_Interval DEF WellFormed
    <3>2. DaysOf(x, e) \subseteq p.first..p.last
      BY <1>2 DEF DaysOf, Of, Slots
    <3>3. Repeated(x, e) \subseteq p.first..p.last
      BY <3>2 DEF Repeated
    <3>4. QED
      BY <3>1, <3>3, FS_Subset, FS_CardinalityType
  <2>2. \A e \in Active(p) : f[e] \in Int
    BY <2>1
  <2>3. Adjacent(p, x) = SumFunctionOnSet(f, Active(p))
    BY DEF Adjacent, SumFunction
  <2> HIDE DEF f
  <2>4. QED
    BY <2>2, <2>3, ActiveFinite, SumInt
<1>9. QED
  BY <1>3, <1>4, <1>5, <1>6, <1>7, <1>8 DEF Cost

\* The solver always has an optimum to find: nobody at all is a solution, there
\* are finitely many, and each has a cost (ortools_solver.py:94-107).
THEOREM OptimumExists ==
  ASSUME NEW p, WellFormed(p)
  PROVE  Optima(p) # {}
<1> DEFINE S == FeasibleSets(p)
           c == [x \in S |-> Cost(p, x)]
<1>1. IsFiniteSet(S) /\ S # {}
  <2>1. IsFiniteSet(SUBSET Candidates(p))
    BY CandidatesFinite, FS_SUBSET
  <2>2. S \subseteq SUBSET Candidates(p)
    BY DEF FeasibleSets
  <2>3. QED
    BY <2>1, <2>2, NobodyIsFeasible, FS_Subset
<1>2. \A x \in S : c[x] \in Int
  BY CostInt DEF FeasibleSets
<1>3. Optima(p) = {x \in S : \A y \in S : c[x] <= c[y]}
  BY DEF Optima
<1> HIDE DEF S, c
<1>4. \E x \in S : \A y \in S : c[x] <= c[y]
  BY <1>1, <1>2, LeastOf
<1>5. QED
  BY <1>3, <1>4

-----------------------------------------------------------------------------
(* The constraints only ever forbid.                                       *)

LEMMA FewerOf ==
  ASSUME NEW S, IsFiniteSet(S), NEW T, T \subseteq S, NEW n \in Int, Cardinality(S) <= n
  PROVE  Cardinality(T) <= n
<1>1. IsFiniteSet(T) /\ Cardinality(T) <= Cardinality(S)
  BY FS_Subset
<1>2. Cardinality(T) \in Nat /\ Cardinality(S) \in Nat
  BY <1>1, FS_CardinalityType
<1>3. QED
  BY <1>1, <1>2

\* What is left of a schedule when assignments are taken out of it keeps to every
\* constraint still.  The merge of an attempt does so: it leaves out what a locked
\* manual assignment stands in the way of (schedule_runs.py:1862-1868).
THEOREM FeasibleShrinks ==
  ASSUME NEW p, WellFormed(p), NEW x, Feasible(p, x), NEW y, y \subseteq x
  PROVE  Feasible(p, y)
<1>1. x \subseteq Candidates(p)
  BY DEF Feasible
<1>2. IsFiniteSet(x) /\ IsFiniteSet(y) /\ y \subseteq Candidates(p)
  BY <1>1, CandidatesFinite, FS_Subset
<1>3. /\ Policy(p).weekends \in Nat /\ Policy(p).nights \in Nat
      /\ Policy(p).consecutive \in Nat
  BY PolicyNumbers DEF PolicyRows, DefaultPolicy
<1>4. NotOverfilled(p, y)
  <2> SUFFICES ASSUME NEW r \in Requirements(p) PROVE Cardinality(For(y, r)) <= Required(p, r)
    BY DEF NotOverfilled
  <2>1. IsFiniteSet(For(x, r)) /\ For(y, r) \subseteq For(x, r)
    BY <1>2, FS_Subset DEF For
  <2>2. Cardinality(For(x, r)) <= Required(p, r) /\ Required(p, r) \in Int
    BY DEF Feasible, NotOverfilled, Requirements, Required, WellFormed
  <2>3. QED
    BY <2>1, <2>2, FewerOf
<1>5. OncePerSlot(p, y)
  <2> SUFFICES ASSUME NEW e \in Active(p), NEW s \in Slots(p)
               PROVE  Cardinality(Of(In(y, s), e)) <= 1
    BY DEF OncePerSlot
  <2>1. IsFiniteSet(Of(In(x, s), e)) /\ Of(In(y, s), e) \subseteq Of(In(x, s), e)
    BY <1>2, FS_Subset DEF Of, In
  <2>2. Cardinality(Of(In(x, s), e)) <= 1
    BY DEF Feasible, OncePerSlot
  <2>3. QED
    BY <2>1, <2>2, FewerOf
<1>6. BlockedApart(p, y)
  <2> SUFFICES ASSUME NEW pair \in p.blocked, NEW s \in Slots(p)
               PROVE  Cardinality({a \in In(y, s) : a.employee \in pair}) <= 1
    BY DEF BlockedApart
  <2> DEFINE S == {a \in In(x, s) : a.employee \in pair}
             T == {a \in In(y, s) : a.employee \in pair}
  <2>1. IsFiniteSet(S) /\ T \subseteq S
    BY <1>2, FS_Subset DEF In
  <2>2. Cardinality(S) <= 1
    BY DEF Feasible, BlockedApart
  <2> HIDE DEF S, T
  <2>3. Cardinality(T) <= 1
    BY <2>1, <2>2, FewerOf
  <2>4. QED
    BY <2>3 DEF T
<1>7. WeeklyCapped(p, y)
  <2> SUFFICES ASSUME NEW e \in Active(p), NEW d \in p.first..p.last
               PROVE  Cardinality({a \in Of(y, e) : Week(a.slot.day) = Week(d)}) <= Cap(p, e)
    BY DEF WeeklyCapped
  <2> DEFINE S == {a \in Of(x, e) : Week(a.slot.day) = Week(d)}
             T == {a \in Of(y, e) : Week(a.slot.day) = Week(d)}
  <2>1. IsFiniteSet(S) /\ T \subseteq S
    BY <1>2, FS_Subset DEF Of
  <2>2. Cardinality(S) <= Cap(p, e)
    BY DEF Feasible, WeeklyCapped
  <2>3. Cap(p, e) \in Int
    BY CapNumber
  <2> HIDE DEF S, T
  <2>4. Cardinality(T) <= Cap(p, e)
    BY <2>1, <2>2, <2>3, FewerOf
  <2>5. QED
    BY <2>4 DEF T
<1>8. MonthlyCapped(p, y)
  <2> SUFFICES ASSUME NEW e \in Active(p), NEW d \in p.first..p.last
               PROVE  LET month == {a \in Of(y, e) : p.month[a.slot.day] = p.month[d]} IN
                      /\ Cardinality({a \in month : Weekend(a.slot)}) <= Policy(p).weekends
                      /\ Cardinality({a \in month : Night(p, a.slot)}) <= Policy(p).nights
    BY DEF MonthlyCapped
  <2> DEFINE month(z) == {a \in Of(z, e) : p.month[a.slot.day] = p.month[d]}
             weekends(z) == {a \in month(z) : Weekend(a.slot)}
             nights(z) == {a \in month(z) : Night(p, a.slot)}
  <2>1. /\ IsFiniteSet(weekends(x)) /\ weekends(y) \subseteq weekends(x)
        /\ IsFiniteSet(nights(x)) /\ nights(y) \subseteq nights(x)
    BY <1>2, FS_Subset DEF Of
  <2>2. /\ Cardinality(weekends(x)) <= Policy(p).weekends
        /\ Cardinality(nights(x)) <= Policy(p).nights
    BY DEF Feasible, MonthlyCapped
  <2> HIDE DEF weekends, nights
  <2>3. Cardinality(weekends(y)) <= Policy(p).weekends
    BY <1>3, <2>1, <2>2, FewerOf
  <2>4. Cardinality(nights(y)) <= Policy(p).nights
    BY <1>3, <2>1, <2>2, FewerOf
  <2>5. QED
    BY <2>3, <2>4 DEF weekends, nights
<1>9. ConsecutiveCapped(p, y)
  <2> SUFFICES ASSUME NEW e \in Active(p), NEW w \in Windows(p)
               PROVE  Cardinality(DaysOf(y, e) \cap w) <= Policy(p).consecutive
    BY DEF ConsecutiveCapped
  <2>1. IsFiniteSet(DaysOf(x, e))
    <3>1. \A a \in x : a.slot \in Slots(p)
      BY <1>1, CandidateParts
    <3>2. DaysOf(x, e) \subseteq p.first..p.last
      BY <3>1 DEF DaysOf, Of, Slots
    <3>3. IsFiniteSet(p.first..p.last)
      BY FS_Interval DEF WellFormed
    <3>4. QED
      BY <3>2, <3>3, FS_Subset
  <2>2. IsFiniteSet(DaysOf(x, e) \cap w)
    BY <2>1, FS_Subset
  <2>3. DaysOf(y, e) \cap w \subseteq DaysOf(x, e) \cap w
    BY DEF DaysOf, Of
  <2>4. Cardinality(DaysOf(x, e) \cap w) <= Policy(p).consecutive
    BY DEF Feasible, ConsecutiveCapped
  <2>5. QED
    BY <1>3, <2>2, <2>3, <2>4, FewerOf
<1>10. Rested(p, y)
  BY DEF Feasible, Rested, Of
<1>11. QED
  BY <1>2, <1>4, <1>5, <1>6, <1>7, <1>8, <1>9, <1>10 DEF Feasible

==================================================================================
