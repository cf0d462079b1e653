------------------------- MODULE ScheduleArtifactsProofs -------------------------
(***************************************************************************)
(* What holds of the persisted result of a run for whatever reference      *)
(* data, employees, edits and attempts.                                    *)
(***************************************************************************)
EXTENDS ScheduleArtifacts, PlanningRulesProofs, TLAPS

PlanOK == plan \in Plans

LEMMA PlanNext == ASSUME PlanOK, [Next]_vars PROVE PlanOK'
BY DEF PlanOK, Next, vars, Attempt, AttemptUnsolved, AttemptAborted, Recalculate, Replan,
       Override, Approve, BeginEdit, BeginPublish, Edit, Publish, GiveUp

LEMMA ProblemIsWellFormed == ASSUME PlanOK PROVE WellFormed(Problem)
<1>1. WellFormed(plan)
  BY PlansAssumption DEF PlanOK
<1>2. QED
  BY <1>1 DEF WellFormed, Problem

-----------------------------------------------------------------------------
(* The merge.                                                              *)

Unique == ~TwiceInSlot(rows) /\ MergeKeepsUnique

LEMMA SolverRowsOnce ==
  ASSUME PlanOK, NEW x \in FeasibleSets(Problem)
  PROVE  ~TwiceInSlot(SolverRows(x))
<1> SUFFICES ASSUME NEW a \in SolverRows(x), NEW b \in SolverRows(x),
                    a.slot = b.slot, a.employee = b.employee
             PROVE  a = b
  BY DEF TwiceInSlot
<1>1. PICK c \in x : a = [id |-> SolverId(Rank(x, c) + 1), slot |-> c.slot, role |-> c.role,
                          employee |-> c.employee, manual |-> FALSE, locked |-> FALSE]
  BY DEF SolverRows
<1>2. PICK d \in x : b = [id |-> SolverId(Rank(x, d) + 1), slot |-> d.slot, role |-> d.role,
                          employee |-> d.employee, manual |-> FALSE, locked |-> FALSE]
  BY DEF SolverRows
<1>3. c = d
  BY <1>1, <1>2, ProblemIsWellFormed, OneAssignmentInASlot
<1>4. QED
  BY <1>1, <1>2, <1>3

LEMMA MergeOnce ==
  ASSUME ~TwiceInSlot(rows), NEW new, ~TwiceInSlot(new)
  PROVE  ~TwiceInSlot(MergedRows(new))
<1> SUFFICES ASSUME NEW a \in MergedRows(new), NEW b \in MergedRows(new),
                    a.slot = b.slot, a.employee = b.employee
             PROVE  a = b
  BY DEF TwiceInSlot
<1>1. CASE a \in Kept /\ b \in Kept
  BY <1>1 DEF Kept, TwiceInSlot
<1>2. CASE a \notin Kept /\ b \in Kept
  BY <1>2 DEF MergedRows, KeptPlaces
<1>3. CASE a \in Kept /\ b \notin Kept
  BY <1>3 DEF MergedRows, KeptPlaces
<1>4. CASE a \notin Kept /\ b \notin Kept
  BY <1>4 DEF MergedRows, TwiceInSlot
<1>5. QED
  BY <1>1, <1>2, <1>3, <1>4

LEMMA UniqueNext ==
  ASSUME PlanOK, Unique, [Next]_vars
  PROVE  Unique'
<1>1. CASE Attempt
  <2>1. PICK x \in FeasibleSets(Problem) :
          LET new == SolverRows(x)
              found == SolverIssues(x) IN
          /\ failure' = Rejected(new, found)
          /\ IF failure' = "none" THEN Store(new, found) ELSE UNCHANGED artifacts
    BY <1>1 DEF Attempt
  <2>2. ~TwiceInSlot(MergedRows(SolverRows(x)))
    BY SolverRowsOnce, MergeOnce DEF Unique
  <2>3. failure' # "double"
    BY <2>1, <2>2 DEF Rejected
  <2>4. CASE failure' = "none"
    <3>1. rows' = MergedRows(SolverRows(x))
      BY <2>1, <2>4 DEF Store
    <3>2. QED
      BY <2>2, <2>3, <3>1 DEF Unique, MergeKeepsUnique, TwiceInSlot
  <2>5. CASE failure' # "none"
    BY <2>1, <2>3, <2>5 DEF artifacts, Unique, MergeKeepsUnique, TwiceInSlot
  <2>6. QED
    BY <2>4, <2>5
<1>2. CASE AttemptUnsolved
  <2>1. rows' \subseteq rows /\ failure' = "unsolved"
    BY <1>2 DEF AttemptUnsolved, Kept
  <2>2. QED
    BY <2>1 DEF Unique, MergeKeepsUnique, TwiceInSlot
<1>3. CASE AttemptAborted
  BY <1>3 DEF AttemptAborted, artifacts, Unique, MergeKeepsUnique, TwiceInSlot
<1>4. ASSUME NEW c \in Clients, Edit(c) PROVE Unique'
  <2>1. ~TwiceInSlot(rows') /\ failure' = failure
    BY <1>4 DEF Edit
  <2>2. QED
    BY <2>1 DEF Unique, MergeKeepsUnique, TwiceInSlot
<1>5. CASE UNCHANGED <<rows, failure>>
  BY <1>5 DEF Unique, MergeKeepsUnique, TwiceInSlot
<1>6. QED
  BY <1>1, <1>2, <1>3, <1>4, <1>5
  DEF Next, vars, artifacts, history, Recalculate, Replan, Override, Approve, BeginEdit,
      BeginPublish, Publish, GiveUp

\* The unique key on slot and employee never fails the worker
\* (schedule_runs.py:1834): whatever the answer, the kept assignments and the
\* edits between the attempts.
THEOREM MergeKeepsUniqueHolds == Spec => []MergeKeepsUnique
<1> DEFINE IInv == PlanOK /\ Unique
<1>1. Init => IInv
  BY DEF Init, PlanOK, Unique, MergeKeepsUnique, TwiceInSlot
<1>2. IInv /\ [Next]_vars => IInv'
  BY PlanNext, UniqueNext
<1>3. IInv => MergeKeepsUnique
  BY DEF Unique
<1>4. QED
  BY <1>1, <1>2, <1>3, PTL DEF Spec

-----------------------------------------------------------------------------
(* What is published.                                                      *)

\* The hours of these assignments are known, and the reference data that come
\* later do not change them.
Timed(S) == \A a \in S : a.slot.type \in DOMAIN plan.types

RowsTimed == Timed(rows) /\ \A s \in slots : s.type \in DOMAIN plan.types

EditFields == {"op", "edit", "fresh", "attempt", "old", "writes", "id"}

CallsOK ==
  /\ DOMAIN call = Clients
  /\ \A c \in Clients :
       /\ "op" \in DOMAIN call[c]
       /\ call[c].op = "edit" => DOMAIN call[c] = EditFields

Justified(S) ==
  \A w \in C!Blocking(ShiftsOf(S)) : \E k \in overrides : k.warning = w /\ k.hash = ShiftsOf(S)

Gated ==
  /\ \A c \in Clients : call[c].op = "publish" =>
       Timed(call[c].shown.rows) /\ Justified(call[c].shown.rows)
  /\ published # None => Timed(published.rows) /\ Justified(published.rows)

LEMMA SameTypes ==
  ASSUME PlanOK, PlanOK'
  PROVE  DOMAIN plan'.types = DOMAIN plan.types
BY PlansAssumption DEF PlanOK

LEMMA SameShifts ==
  ASSUME PlanOK, PlanOK', NEW S, Timed(S)
  PROVE  ShiftsOf(S)' = ShiftsOf(S)
<1>1. \A t \in DOMAIN plan.types :
        /\ plan'.types[t].start = plan.types[t].start
        /\ plan'.types[t].end = plan.types[t].end
        /\ plan'.types[t].midnight = plan.types[t].midnight
  BY PlansAssumption DEF PlanOK
<1>2. \A s : Problem.types = plan.types /\ Problem'.types = plan'.types
  BY PlansAssumption DEF PlanOK, Problem, WellFormed
<1>3. ASSUME NEW a \in S
      PROVE  /\ Starts(Problem', a.slot) = Starts(Problem, a.slot)
             /\ Ends(Problem', a.slot) = Ends(Problem, a.slot)
  BY <1>1, <1>2 DEF Timed, Starts, Ends
<1>4. QED
  BY <1>3 DEF ShiftsOf

LEMMA TimedKept ==
  ASSUME PlanOK, PlanOK', NEW S, Timed(S)
  PROVE  Timed(S)'
BY SameTypes DEF Timed

LEMMA JustifiedKept ==
  ASSUME PlanOK, PlanOK', NEW S, Timed(S), Justified(S), overrides \subseteq overrides'
  PROVE  Justified(S)'
<1>1. ShiftsOf(S)' = ShiftsOf(S)
  BY SameShifts
<1>2. QED
  BY <1>1 DEF Justified

LEMMA SolverRowsTimed ==
  ASSUME PlanOK, NEW x \in FeasibleSets(Problem)
  PROVE  Timed(SolverRows(x))
<1>1. \A a \in x : a.slot \in Slots(Problem)
  BY DEF FeasibleSets, Feasible, Candidates
<1>2. Problem.types = plan.types
  BY PlansAssumption DEF PlanOK, Problem, WellFormed
<1>3. QED
  BY <1>1, <1>2 DEF Timed, SolverRows, Slots

LEMMA ShownTimed ==
  ASSUME PlanOK, RowsTimed, NEW shown \in Shown
  PROVE  Timed(shown.rows)
<1>1. CASE shown.rows = {} \/ shown.rows = rows
  BY <1>1 DEF RowsTimed, Timed
<1>2. ASSUME NEW x \in FeasibleSets(Problem), shown.rows = SolverRows(x)
      PROVE  Timed(shown.rows)
  BY <1>2, SolverRowsTimed
<1>3. CASE status = "queued"
  BY <1>1, <1>3 DEF Shown
<1>4. CASE status # "queued" /\ slots = {}
  <2>1. shown \in Computed
    BY <1>4 DEF Shown
  <2>2. \/ \E x \in FeasibleSets(Problem) : shown.rows = SolverRows(x)
        \/ shown.rows = SolverRows({})
    BY <2>1 DEF Computed
  <2>3. SolverRows({}) = {}
    BY DEF SolverRows
  <2>4. QED
    BY <1>1, <1>2, <2>2, <2>3
<1>5. CASE status # "queued" /\ slots # {}
  BY <1>1, <1>5 DEF Shown
<1>6. QED
  BY <1>3, <1>4, <1>5

LEMMA RowsTimedNext ==
  ASSUME PlanOK, RowsTimed, [Next]_vars
  PROVE  RowsTimed'
<1>1. PlanOK' /\ DOMAIN plan'.types = DOMAIN plan.types
  BY PlanNext, SameTypes
<1>2. ASSUME slots' = Slots(Problem) PROVE \A s \in slots' : s.type \in DOMAIN plan.types
  BY <1>2, PlansAssumption DEF PlanOK, Problem, WellFormed, Slots
<1>3. CASE Attempt
  <2>1. PICK x \in FeasibleSets(Problem) :
          IF failure' = "none" THEN Store(SolverRows(x), SolverIssues(x)) ELSE UNCHANGED artifacts
    BY <1>3 DEF Attempt
  <2>2. CASE failure' = "none"
    <3>1. slots' = Slots(Problem) /\ rows' \subseteq SolverRows(x) \cup rows
      BY <2>1, <2>2 DEF Store, MergedRows, Kept
    <3>2. QED
      BY <1>1, <1>2, <3>1, SolverRowsTimed DEF RowsTimed, Timed
  <2>3. CASE failure' # "none"
    BY <1>1, <2>1, <2>3 DEF artifacts, RowsTimed, Timed
  <2>4. QED
    BY <2>2, <2>3
<1>4. CASE AttemptUnsolved
  BY <1>1, <1>2, <1>4 DEF AttemptUnsolved, Kept, RowsTimed, Timed
<1>5. ASSUME NEW c \in Clients, Edit(c) PROVE RowsTimed'
  <2>1. \A a \in rows' : a \in rows \/ a.slot \in slots
    BY <1>5 DEF Edit
  <2>2. slots' = slots
    BY <1>5 DEF Edit
  <2>3. QED
    BY <1>1, <2>1, <2>2 DEF RowsTimed, Timed
<1>6. CASE UNCHANGED <<rows, slots>>
  BY <1>1, <1>6 DEF RowsTimed, Timed
<1>7. QED
  BY <1>3, <1>4, <1>5, <1>6
  DEF Next, vars, artifacts, AttemptAborted, Recalculate, Replan, Override, Approve,
      BeginEdit, BeginPublish, Publish, GiveUp

\* A step leaves a client's call, ends it, begins one, or marks an edit.
LEMMA CallsNext ==
  ASSUME CallsOK, [Next]_vars
  PROVE  CallsOK'
<1>1. ASSUME NEW c \in Clients, NEW request, "op" \in DOMAIN request, Begin(c, request),
             request.op = "edit" => DOMAIN request = EditFields
      PROVE  CallsOK'
  BY <1>1 DEF Begin, CallsOK
<1>2. ASSUME NEW c \in Clients, End(c) PROVE CallsOK'
  BY <1>2 DEF End, CallsOK, NoCall
<1>3. ASSUME OutdateAll PROVE CallsOK'
  BY <1>3 DEF OutdateAll, CallsOK
<1>4. ASSUME NEW c \in Clients, EndAndOutdate(c) PROVE CallsOK'
  BY <1>4 DEF EndAndOutdate, CallsOK, NoCall
<1>5. CASE UNCHANGED call
  BY <1>5 DEF CallsOK
<1>6. CASE Attempt
  BY <1>3, <1>5, <1>6 DEF Attempt, Afresh
<1>7. CASE AttemptUnsolved \/ Replan
  BY <1>3, <1>7 DEF AttemptUnsolved, Afresh, Replan
<1>8. ASSUME NEW c \in Clients, NEW shown, NEW edit, BeginEdit(c, shown, edit) PROVE CallsOK'
  BY <1>1, <1>8 DEF BeginEdit, EditFields
<1>9. ASSUME NEW c \in Clients, NEW shown, BeginPublish(c, shown) PROVE CallsOK'
  BY <1>1, <1>9 DEF BeginPublish
<1>10. ASSUME NEW c \in Clients, Edit(c) PROVE CallsOK'
  BY <1>4, <1>10 DEF Edit
<1>11. ASSUME NEW c \in Clients, Publish(c) \/ GiveUp(c) PROVE CallsOK'
  BY <1>2, <1>11 DEF Publish, GiveUp
<1>12. QED
  BY <1>5, <1>6, <1>7, <1>8, <1>9, <1>10, <1>11
  DEF Next, vars, AttemptAborted, Recalculate, Override, Approve

LEMMA OverridesGrow == ASSUME [Next]_vars PROVE overrides \subseteq overrides'
BY DEF Next, vars, Attempt, AttemptUnsolved, AttemptAborted, Recalculate, Replan,
       Override, Approve, BeginEdit, BeginPublish, Edit, Publish, GiveUp

\* A publication under way was begun by this step or as it is now.
LEMMA PublishCalls ==
  ASSUME CallsOK, [Next]_vars, NEW c \in Clients, call'[c].op = "publish"
  PROVE  \/ call'[c] = call[c]
         \/ \E shown \in Shown :
              BeginPublish(c, shown) /\ call'[c].shown = shown /\ call'[c].writes = Writes(shown)
<1>1. ASSUME NEW d \in Clients, End(d) PROVE call'[c] = call[c]
  BY <1>1 DEF End, CallsOK, NoCall
<1>2. ASSUME OutdateAll PROVE call'[c] = call[c]
  BY <1>2 DEF OutdateAll, CallsOK
<1>3. ASSUME NEW d \in Clients, EndAndOutdate(d) PROVE call'[c] = call[c]
  BY <1>3 DEF EndAndOutdate, CallsOK, NoCall
<1>4. CASE Attempt
  BY <1>2, <1>4 DEF Attempt, Afresh
<1>5. CASE AttemptUnsolved \/ Replan
  BY <1>2, <1>5 DEF AttemptUnsolved, Afresh, Replan
<1>6. ASSUME NEW d \in Clients, NEW shown, NEW edit, BeginEdit(d, shown, edit)
      PROVE  call'[c] = call[c]
  BY <1>6 DEF BeginEdit, Begin, CallsOK
<1>7. ASSUME NEW d \in Clients, NEW shown \in Shown, BeginPublish(d, shown)
      PROVE  \/ call'[c] = call[c]
             \/ BeginPublish(c, shown) /\ call'[c].shown = shown /\ call'[c].writes = Writes(shown)
  BY <1>7 DEF BeginPublish, Begin, CallsOK
<1>8. ASSUME NEW d \in Clients, Edit(d) PROVE call'[c] = call[c]
  BY <1>3, <1>8 DEF Edit
<1>9. ASSUME NEW d \in Clients, Publish(d) \/ GiveUp(d) PROVE call'[c] = call[c]
  BY <1>1, <1>9 DEF Publish, GiveUp
<1>10. CASE UNCHANGED call
  BY <1>10
<1>11. QED
  BY <1>4, <1>5, <1>6, <1>7, <1>8, <1>9, <1>10
  DEF Next, vars, AttemptAborted, Recalculate, Override, Approve

LEMMA GateJustifies ==
  ASSUME NEW c \in Clients, NEW shown, BeginPublish(c, shown)
  PROVE  Justified(shown.rows)
BY DEF BeginPublish, Justified, C!InstanceKey

LEMMA GatedNext ==
  ASSUME PlanOK, RowsTimed, CallsOK, Gated, [Next]_vars
  PROVE  Gated'
<1>1. PlanOK' /\ overrides \subseteq overrides'
  BY PlanNext, OverridesGrow
<1>2. ASSUME NEW S, Timed(S), Justified(S) PROVE Timed(S)' /\ Justified(S)'
  BY <1>1, <1>2, TimedKept, JustifiedKept
<1>3. ASSUME NEW c \in Clients, call'[c].op = "publish"
      PROVE  (Timed(call[c].shown.rows) /\ Justified(call[c].shown.rows))'
  <2>1. CASE call'[c] = call[c]
    <3>1. Timed(call[c].shown.rows) /\ Justified(call[c].shown.rows)
      BY <1>3, <2>1 DEF Gated
    <3>2. call'[c].shown.rows = call[c].shown.rows
      BY <2>1
    <3>3. PICK S : S = call[c].shown.rows
      OBVIOUS
    <3>4. Timed(S)' /\ Justified(S)'
      BY <1>2, <3>1, <3>3
    <3>5. QED
      BY <3>2, <3>3, <3>4 DEF Timed, Justified, ShiftsOf
  <2>2. ASSUME NEW shown \in Shown, BeginPublish(c, shown), call'[c].shown = shown
        PROVE  (Timed(call[c].shown.rows) /\ Justified(call[c].shown.rows))'
    <3>1. Timed(shown.rows) /\ Justified(shown.rows)
      BY <2>2, ShownTimed, GateJustifies
    <3>2. PICK S : S = shown.rows
      OBVIOUS
    <3>3. Timed(S)' /\ Justified(S)'
      BY <1>2, <3>1, <3>2
    <3>4. QED
      BY <2>2, <3>2, <3>3 DEF Timed, Justified, ShiftsOf
  <2>3. QED
    BY <1>3, <2>1, <2>2, PublishCalls
<1>4. published' # None => (Timed(published.rows) /\ Justified(published.rows))'
  <2> SUFFICES ASSUME published' # None
               PROVE  (Timed(published.rows) /\ Justified(published.rows))'
    OBVIOUS
  <2>1. ASSUME NEW c \in Clients, Publish(c)
        PROVE  /\ published'.rows = call[c].shown.rows
               /\ Timed(call[c].shown.rows) /\ Justified(call[c].shown.rows)
    BY <2>1 DEF Publish, Gated
  <2>2. \/ published' = published
        \/ \E c \in Clients : Publish(c)
    BY DEF Next, vars, Attempt, AttemptUnsolved, AttemptAborted, Recalculate, Replan,
           Override, Approve, BeginEdit, BeginPublish, Edit, GiveUp
  <2>3. PICK S : S = published'.rows /\ Timed(S) /\ Justified(S)
    <3>1. CASE published' = published
      BY <3>1 DEF Gated
    <3>2. QED
      BY <2>1, <2>2, <3>1
  <2>4. Timed(S)' /\ Justified(S)'
    BY <1>2, <2>3
  <2>5. QED
    BY <2>3, <2>4 DEF Timed, Justified, ShiftsOf
<1>5. QED
  BY <1>3, <1>4 DEF Gated

\* Every excess of hours in what is published was overridden with the very
\* assignments that are published in view (schedule_runs.py:1003), whatever
\* edits, attempts and changes of the reference data came in between.
THEOREM PublishedJustifiedHolds == Spec => []PublishedJustified
<1> DEFINE IInv == PlanOK /\ RowsTimed /\ CallsOK /\ Gated
<1>1. Init => IInv
  BY DEF Init, PlanOK, RowsTimed, Timed, CallsOK, Gated, NoCall
<1>2. IInv /\ [Next]_vars => IInv'
  BY PlanNext, RowsTimedNext, CallsNext, GatedNext
<1>3. IInv => PublishedJustified
  BY DEF Gated, Justified, PublishedJustified
<1>4. QED
  BY <1>1, <1>2, <1>3, PTL DEF Spec

-----------------------------------------------------------------------------
(* The rows.                                                               *)

Placed == ~SameId(rows) /\ \A a \in rows : a.slot \in slots

LEMMA PlacedNext ==
  ASSUME PlanOK, Placed, [Next]_vars
  PROVE  Placed'
<1>1. CASE Attempt
  <2>1. PICK x \in FeasibleSets(Problem) :
          LET new == SolverRows(x)
              found == SolverIssues(x) IN
          /\ failure' = Rejected(new, found)
          /\ IF failure' = "none" THEN Store(new, found) ELSE UNCHANGED artifacts
    BY <1>1 DEF Attempt
  <2>2. CASE failure' = "none"
    <3>1. ~SameId(MergedRows(SolverRows(x)))
      BY <2>1, <2>2 DEF Rejected
    <3>2. \A a \in MergedRows(SolverRows(x)) : a.slot \in Slots(Problem)
      BY <2>1, <2>2 DEF Rejected
    <3>3. slots' = Slots(Problem) /\ rows' = MergedRows(SolverRows(x))
      BY <2>1, <2>2 DEF Store
    <3>4. QED
      BY <3>1, <3>2, <3>3 DEF Placed, SameId
  <2>3. CASE failure' # "none"
    BY <2>1, <2>3 DEF artifacts, Placed, SameId
  <2>4. QED
    BY <2>2, <2>3
<1>2. CASE AttemptUnsolved
  <2>1. rows' = Kept /\ Kept \subseteq rows /\ \A a \in Kept : a.slot \in slots'
    BY <1>2 DEF AttemptUnsolved, Kept
  <2>2. QED
    BY <2>1 DEF Placed, SameId
<1>3. ASSUME NEW c \in Clients, Edit(c) PROVE Placed'
  <2>1. ~SameId(rows') /\ slots' = slots /\ \A a \in rows' : a \in rows \/ a.slot \in slots
    BY <1>3 DEF Edit
  <2>2. QED
    BY <2>1 DEF Placed, SameId
<1>4. CASE UNCHANGED <<rows, slots>>
  BY <1>4 DEF Placed, SameId
<1>5. QED
  BY <1>1, <1>2, <1>3, <1>4
  DEF Next, vars, artifacts, AttemptAborted, Recalculate, Replan, Override, Approve,
      BeginEdit, BeginPublish, Publish, GiveUp

-----------------------------------------------------------------------------
(* The edits under way.                                                    *)

\* An edit replaces at most one assignment, whose id the new one takes over.
\* While nothing but edits of this attempt have happened, it is one of its post.
Aimed(c) ==
  /\ call[c].attempt \in 0..attempt
  /\ call[c].old = {} \/ call[c].old = {call[c].id}
  /\ call[c].attempt = attempt /\ ~mixed /\ slots # {} =>
       \A id \in call[c].old : \E a \in rows : a.id = id /\ KeyOf(a) = KeyOf(call[c].edit)

EditsAimed == attempt \in Nat /\ \A c \in Clients : call[c].op = "edit" => Aimed(c)

LEMMA ReplacedFacts ==
  ASSUME NEW shown, NEW edit
  PROVE  /\ Replaced(shown, edit) = {} \/ \E id : Replaced(shown, edit) = {id}
         /\ \A id \in Replaced(shown, edit) :
              \E a \in shown.rows : a.id = id /\ KeyOf(a) = KeyOf(edit)
<1> DEFINE present == {a \in shown.rows : KeyOf(a) = KeyOf(edit)}
           free == {a \in present : ~a.locked}
           chosen == CHOOSE a \in IF free # {} THEN free ELSE present : TRUE
<1>1. Replaced(shown, edit) = {} \/ (present # {} /\ Replaced(shown, edit) = {chosen.id})
  BY DEF Replaced
<1>2. present # {} => chosen \in present
  OBVIOUS
<1>3. QED
  BY <1>1, <1>2

\* An edit is begun on what is persisted, or before anything is.
LEMMA EditBegun ==
  ASSUME NEW c \in Clients, NEW shown \in Shown, NEW edit, BeginEdit(c, shown, edit), slots # {}
  PROVE  shown.rows = rows /\ shown.posts = posts /\ shown.slots = slots
<1>1. edit.slot \in shown.slots
  BY DEF BeginEdit, ValidEdit
<1>2. CASE status = "queued"
  BY <1>1, <1>2 DEF Shown
<1>3. CASE status # "queued"
  BY <1>3 DEF Shown
<1>4. QED
  BY <1>2, <1>3

\* What a step does to an edit that is under way after it.
SameEdit(c) ==
  /\ call[c].op = "edit"
  /\ call'[c].edit = call[c].edit /\ call'[c].attempt = call[c].attempt
  /\ call'[c].old = call[c].old /\ call'[c].id = call[c].id
  /\ call'[c].writes = call[c].writes
  /\ call'[c].fresh => call[c].fresh

Begun(c) ==
  \E shown \in Shown : \E edit \in Edits(shown) :
    /\ BeginEdit(c, shown, edit)
    /\ call'[c].edit = edit /\ call'[c].attempt = attempt
    /\ call'[c].old = Replaced(shown, edit)
    /\ call'[c].old = {} \/ call'[c].old = {call'[c].id}
    /\ call'[c].writes = Writes(shown)

LEMMA EditCalls ==
  ASSUME CallsOK, [Next]_vars, NEW c \in Clients, call'[c].op = "edit"
  PROVE  SameEdit(c) \/ Begun(c)
<1>1. ASSUME call'[c] = call[c] PROVE SameEdit(c)
  BY <1>1 DEF SameEdit
<1>2. ASSUME NEW d \in Clients, End(d) PROVE SameEdit(c)
  BY <1>1, <1>2 DEF End, CallsOK, NoCall
<1>3. ASSUME OutdateAll PROVE SameEdit(c)
  BY <1>1, <1>3 DEF OutdateAll, CallsOK, SameEdit, EditFields
<1>4. ASSUME NEW d \in Clients, EndAndOutdate(d) PROVE SameEdit(c)
  BY <1>1, <1>4 DEF EndAndOutdate, CallsOK, NoCall, SameEdit, EditFields
<1>5. CASE Attempt
  BY <1>1, <1>3, <1>5 DEF Attempt, Afresh
<1>6. CASE AttemptUnsolved \/ Replan
  BY <1>3, <1>6 DEF AttemptUnsolved, Afresh, Replan
<1>7. ASSUME NEW d \in Clients, NEW shown \in Shown, NEW edit \in Edits(shown),
             BeginEdit(d, shown, edit)
      PROVE  SameEdit(c) \/ Begun(c)
  <2>1. CASE c = d
    <3>1. /\ call'[c].edit = edit /\ call'[c].attempt = attempt
          /\ call'[c].old = Replaced(shown, edit)
          /\ call'[c].old # {} => call'[c].id \in call'[c].old
          /\ call'[c].writes = Writes(shown)
      BY <1>7, <2>1 DEF BeginEdit, Begin, CallsOK
    <3>2. call'[c].old = {} \/ call'[c].old = {call'[c].id}
      BY <3>1, ReplacedFacts
    <3>3. QED
      BY <1>7, <2>1, <3>1, <3>2 DEF Begun
  <2>2. CASE c # d
    BY <1>1, <1>7, <2>2 DEF BeginEdit, Begin, CallsOK
  <2>3. QED
    BY <2>1, <2>2
<1>8. ASSUME NEW d \in Clients, NEW shown, BeginPublish(d, shown) PROVE SameEdit(c)
  BY <1>1, <1>8 DEF BeginPublish, Begin, CallsOK
<1>9. ASSUME NEW d \in Clients, Edit(d) PROVE SameEdit(c)
  BY <1>4, <1>9 DEF Edit
<1>10. ASSUME NEW d \in Clients, Publish(d) \/ GiveUp(d) PROVE SameEdit(c)
  BY <1>2, <1>10 DEF Publish, GiveUp
<1>11. CASE UNCHANGED call
  BY <1>1, <1>11
<1>12. QED
  BY <1>5, <1>6, <1>7, <1>8, <1>9, <1>10, <1>11
  DEF Next, vars, AttemptAborted, Recalculate, Override, Approve

\* Attempts count; nothing else changes the rows but edits.
LEMMA StepKinds ==
  ASSUME [Next]_vars
  PROVE  \/ Attempt \/ AttemptUnsolved \/ AttemptAborted
         \/ \E c \in Clients : Edit(c)
         \/ Replan /\ UNCHANGED <<attempt, rows, slots, posts, issues, failure, edited, mixed>>
         \/ UNCHANGED <<attempt, rows, slots, posts, issues, failure, edited, mixed, plan>>
<1> DEFINE same == UNCHANGED <<attempt, rows, slots, posts, issues, failure, edited, mixed>>
<1>1. Recalculate => same /\ plan' = plan
  BY DEF Recalculate, artifacts, history
<1>2. Replan => same
  BY DEF Replan, artifacts, history
<1>3. ASSUME NEW w, Override(w) PROVE same /\ plan' = plan
  BY <1>3 DEF Override, artifacts, history
<1>4. ASSUME NEW shown, NEW q, Approve(shown, q) PROVE same /\ plan' = plan
  BY <1>4 DEF Approve, artifacts, history
<1>5. ASSUME NEW c, NEW shown, NEW edit, BeginEdit(c, shown, edit) PROVE same /\ plan' = plan
  BY <1>5 DEF BeginEdit, artifacts, history
<1>6. ASSUME NEW c, NEW shown, BeginPublish(c, shown) PROVE same /\ plan' = plan
  BY <1>6 DEF BeginPublish, artifacts, history
<1>7. ASSUME NEW c, Publish(c) \/ GiveUp(c) PROVE same /\ plan' = plan
  BY <1>7 DEF Publish, GiveUp, artifacts, history
<1>8. UNCHANGED vars => same /\ plan' = plan
  BY DEF vars, artifacts, history
<1> HIDE DEF same
<1>9. \/ Attempt \/ AttemptUnsolved \/ AttemptAborted
      \/ \E c \in Clients : Edit(c)
      \/ Replan /\ same
      \/ same /\ plan' = plan
  BY <1>1, <1>2, <1>3, <1>4, <1>5, <1>6, <1>7, <1>8 DEF Next
<1>10. QED
  BY <1>9 DEF same

LEMMA AttemptCounts ==
  ASSUME attempt \in Nat, [Next]_vars
  PROVE  /\ attempt' \in Nat
         /\ attempt' = attempt \/ attempt' = attempt + 1
         /\ Attempt \/ AttemptUnsolved \/ AttemptAborted => attempt' = attempt + 1
<1>1. CASE Attempt \/ AttemptUnsolved \/ AttemptAborted
  BY <1>1 DEF Attempt, AttemptUnsolved, AttemptAborted
<1>2. CASE ~(Attempt \/ AttemptUnsolved \/ AttemptAborted)
  BY <1>2, StepKinds DEF Edit
<1>3. QED
  BY <1>1, <1>2

LEMMA EditsAimedNext ==
  ASSUME Placed, CallsOK, EditsAimed, [Next]_vars
  PROVE  EditsAimed'
<1>1. /\ attempt \in Nat /\ attempt' \in Nat
      /\ attempt' = attempt \/ attempt' = attempt + 1
      /\ Attempt \/ AttemptUnsolved \/ AttemptAborted => attempt' = attempt + 1
  BY AttemptCounts DEF EditsAimed
<1> SUFFICES ASSUME NEW c \in Clients, call'[c].op = "edit" PROVE Aimed(c)'
  BY <1>1 DEF EditsAimed
<1>2. CASE Begun(c)
  <2>0. PICK shown \in Shown : \E edit \in Edits(shown) :
          /\ BeginEdit(c, shown, edit)
          /\ call'[c].edit = edit /\ call'[c].attempt = attempt
          /\ call'[c].old = Replaced(shown, edit)
          /\ call'[c].old = {} \/ call'[c].old = {call'[c].id}
    BY <1>2 DEF Begun
  <2>1. PICK edit \in Edits(shown) :
          /\ BeginEdit(c, shown, edit)
          /\ call'[c].edit = edit /\ call'[c].attempt = attempt
          /\ call'[c].old = Replaced(shown, edit)
          /\ call'[c].old = {} \/ call'[c].old = {call'[c].id}
    BY <2>0
  <2>2. UNCHANGED <<attempt, mixed, slots, rows>>
    BY <2>1 DEF BeginEdit, artifacts, history
  <2>3. slots # {} => \A id \in call'[c].old : \E a \in rows : a.id = id /\ KeyOf(a) = KeyOf(edit)
    BY <2>1, EditBegun, ReplacedFacts
  <2>4. QED
    BY <1>1, <2>1, <2>2, <2>3 DEF Aimed
<1>3. CASE SameEdit(c)
  <2>1. Aimed(c) /\ call[c].attempt \in 0..attempt'
    BY <1>1, <1>3 DEF SameEdit, EditsAimed, Aimed
  <2>2. CASE Attempt \/ AttemptUnsolved \/ AttemptAborted
    <3>1. call'[c].attempt # attempt'
      BY <1>1, <1>3, <2>1, <2>2 DEF SameEdit, Aimed
    <3>2. QED
      BY <1>3, <2>1, <3>1 DEF SameEdit, Aimed
  <2>3. ASSUME NEW d \in Clients, Edit(d) PROVE Aimed(c)'
    <3> SUFFICES ASSUME call'[c].attempt = attempt', ~mixed', slots' # {}, NEW id \in call'[c].old
                 PROVE  \E a \in rows' : a.id = id /\ KeyOf(a) = KeyOf(call'[c].edit)
      BY <1>3, <2>1 DEF SameEdit, Aimed, KeyOf
    <3>1. slots' = slots /\ attempt' = attempt /\ ~mixed /\ call[d].attempt = attempt
      BY <2>3 DEF Edit
    <3>2. PICK a \in rows : a.id = id /\ KeyOf(a) = KeyOf(call[c].edit)
      BY <1>3, <2>1, <3>1 DEF SameEdit, Aimed
    <3>3. CASE a.id \notin call[d].old
      BY <1>3, <2>3, <3>2, <3>3 DEF Edit, SameEdit
    <3>4. CASE a.id \in call[d].old
      <4>1. Aimed(d)
        BY <2>3 DEF Edit, EditsAimed
      <4>2. call[d].id = id
        BY <3>2, <3>4, <4>1 DEF Aimed
      <4>3. PICK b \in rows : b.id = id /\ KeyOf(b) = KeyOf(call[d].edit)
        BY <3>1, <3>2, <3>4, <4>1 DEF Aimed
      <4>4. a = b
        BY <3>2, <4>3 DEF Placed, SameId
      <4> DEFINE e == call[d].edit
                 n == [id |-> call[d].id, slot |-> e.slot, role |-> e.role,
                       employee |-> e.employee, manual |-> TRUE, locked |-> e.locked]
      <4>5. n \in rows' /\ n.id = call[d].id /\ KeyOf(n) = KeyOf(call[d].edit)
        BY <2>3 DEF Edit, KeyOf
      <4>6. QED
        BY <1>3, <3>2, <4>2, <4>3, <4>4, <4>5 DEF SameEdit
    <3>5. QED
      BY <3>3, <3>4
  <2>4. CASE UNCHANGED <<attempt, rows, slots, mixed>>
    BY <1>3, <2>1, <2>4 DEF SameEdit, Aimed, KeyOf
  <2>5. QED
    BY <2>2, <2>3, <2>4, StepKinds
<1>4. QED
  BY <1>2, <1>3, EditCalls

\* A locked manual assignment is never lost to an attempt, nor to an edit of
\* another post that read the same attempt (schedule_runs.py:655, :1834).
THEOREM LockedAssignmentsKeptHolds == Spec => LockedAssignmentsKept
<1> DEFINE IInv == PlanOK /\ Placed /\ CallsOK /\ EditsAimed
           Kept1 == \A a \in rows : a.manual /\ a.locked /\ a \notin rows' =>
                      \E c \in Clients :
                        /\ call[c].op = "edit"
                        /\ KeyOf(call[c].edit) = KeyOf(a) \/ call[c].attempt # attempt \/ mixed
<1>1. Init => IInv
  BY DEF Init, PlanOK, Placed, SameId, CallsOK, EditsAimed, NoCall
<1>2. IInv /\ [Next]_vars => IInv'
  BY PlanNext, PlacedNext, CallsNext, EditsAimedNext
<1>3. IInv /\ [Next]_vars => [Kept1]_vars
  <2> SUFFICES ASSUME IInv, [Next]_vars, NEW a \in rows, a.manual, a.locked, a \notin rows'
               PROVE  \E c \in Clients :
                        /\ call[c].op = "edit"
                        /\ KeyOf(call[c].edit) = KeyOf(a) \/ call[c].attempt # attempt \/ mixed
    OBVIOUS
  <2>1. a \in Kept
    BY DEF Kept
  <2>2. ~Attempt
    BY <2>1 DEF Attempt, Store, MergedRows, artifacts
  <2>3. ~AttemptUnsolved /\ ~AttemptAborted
    BY <2>1 DEF AttemptUnsolved, AttemptAborted, artifacts
  <2>4. PICK c \in Clients : Edit(c)
    BY <2>2, <2>3, StepKinds
  <2>5. call[c].op = "edit" /\ a.id \in call[c].old
    BY <2>4 DEF Edit
  <2>6. CASE call[c].attempt = attempt /\ ~mixed
    <3>1. PICK b \in rows : b.id = a.id /\ KeyOf(b) = KeyOf(call[c].edit)
      BY <2>5, <2>6 DEF EditsAimed, Aimed, Placed
    <3>2. a = b
      BY <3>1 DEF Placed, SameId
    <3>3. QED
      BY <2>5, <3>1, <3>2
  <2>7. QED
    BY <2>5, <2>6
<1>4. QED
  BY <1>1, <1>2, <1>3, PTL DEF Spec, LockedAssignmentsKept

-----------------------------------------------------------------------------
(* Types.                                                                  *)

Statuses == {"queued", "succeeded", "failed"}
People == UNION {DOMAIN p.staff : p \in Plans}

SlotOK(s) == s.day \in plan.first..plan.last /\ s.type \in DOMAIN plan.types

\* Of what a request remembers: whom it assigns and the status it will write.
CallOK(c) ==
  /\ call[c].op \in {"none", "edit", "publish"}
  /\ call[c].op = "edit" => call[c].edit.employee \in People
  /\ call[c].op # "none" => call[c].writes \in Statuses \cup {None}

ArtifactsOK ==
  /\ \A s \in slots : SlotOK(s)
  /\ \A a \in rows : Row(a)
  /\ \A i \in issues : i.slot \in slots /\ i.missing > 0
  /\ \A q \in proposals : q.slot \in slots
  /\ failure \in {"none", "unsolved", "deadlock", "proposals", "slots", "double", "ids"}
  /\ edited \subseteq slots

LEMMA SameSlotOK ==
  ASSUME PlanOK, [Next]_vars
  PROVE  /\ plan'.first = plan.first /\ plan'.last = plan.last
         /\ DOMAIN plan'.types = DOMAIN plan.types
<1>1. DOMAIN plan'.types = DOMAIN plan.types
  BY PlanNext, SameTypes
<1>2. CASE Attempt \/ AttemptUnsolved \/ AttemptAborted
  BY <1>1, <1>2 DEF Attempt, AttemptUnsolved, AttemptAborted
<1>3. CASE \E c \in Clients : Edit(c)
  BY <1>1, <1>3 DEF Edit
<1>4. CASE Replan
  BY <1>1, <1>4 DEF Replan
<1>5. QED
  BY <1>1, <1>2, <1>3, <1>4, StepKinds

LEMMA SlotsOK ==
  ASSUME PlanOK, NEW s \in Slots(Problem)
  PROVE  SlotOK(s)
<1>1. /\ Problem.first = plan.first /\ Problem.last = plan.last
      /\ Problem.types = plan.types
  BY PlansAssumption DEF PlanOK, Problem, WellFormed
<1>2. QED
  BY <1>1 DEF Slots, SlotOK

LEMMA SolverRowsOK ==
  ASSUME PlanOK, NEW x \in FeasibleSets(Problem), NEW a \in SolverRows(x)
  PROVE  Row(a)
<1>1. PICK b \in x : /\ a.slot = b.slot /\ a.employee = b.employee
                      /\ a.locked = FALSE
  BY DEF SolverRows
<1>2. b.slot \in Slots(Problem) /\ b.employee \in Active(Problem)
  BY DEF FeasibleSets, Feasible, Candidates
<1>3. SlotOK(b.slot)
  BY <1>2, SlotsOK
<1>4. Problem.staff = plan.staff
  BY PlansAssumption DEF PlanOK, Problem, WellFormed
<1>5. b.employee \in People
  BY <1>2, <1>4 DEF Active, PlanOK, People
<1>6. QED
  BY <1>1, <1>3, <1>5 DEF Row, SlotOK, People

LEMMA ArtifactsNext ==
  ASSUME PlanOK, ArtifactsOK, \A c \in Clients : CallOK(c), [Next]_vars
  PROVE  ArtifactsOK'
<1>1. /\ plan'.first = plan.first /\ plan'.last = plan.last
      /\ DOMAIN plan'.types = DOMAIN plan.types
  BY SameSlotOK
<1>2. ASSUME NEW a, Row(a) PROVE Row(a)'
  BY <1>1, <1>2 DEF Row
<1>3. ASSUME NEW s, SlotOK(s) PROVE SlotOK(s)'
  BY <1>1, <1>3 DEF SlotOK
<1>4. ASSUME UNCHANGED artifacts, UNCHANGED edited,
             failure' \in {"none", "unsolved", "deadlock", "proposals", "slots", "double", "ids"}
      PROVE  ArtifactsOK'
  BY <1>2, <1>3, <1>4 DEF artifacts, ArtifactsOK
<1>5. CASE Attempt
  <2>1. PICK x \in FeasibleSets(Problem) :
          LET new == SolverRows(x)
              found == SolverIssues(x) IN
          /\ failure' = Rejected(new, found)
          /\ IF failure' = "none" THEN Store(new, found) /\ Afresh
             ELSE UNCHANGED <<artifacts, edited, mixed, call>>
    BY <1>5 DEF Attempt
  <2>2. failure' \in {"none", "slots", "double", "ids", "proposals"}
    BY <2>1 DEF Rejected
  <2>3. CASE failure' = "none"
    <3>1. Store(SolverRows(x), SolverIssues(x)) /\ edited' = {}
      BY <2>1, <2>3 DEF Afresh
    <3>2. slots' = Slots(Problem)
      BY <3>1 DEF Store
    <3>3. \A s \in slots' : SlotOK(s)'
      BY <1>3, <3>2, SlotsOK
    <3>4. \A a \in rows' : Row(a)'
      <4>1. rows' \subseteq SolverRows(x) \cup rows
        BY <3>1 DEF Store, MergedRows, Kept
      <4>2. QED
        BY <1>2, <4>1, SolverRowsOK DEF ArtifactsOK
    <3>5. \A i \in SolverIssues(x) : i.slot \in slots' /\ i.missing > 0
      <4>1. \A r \in Issues(Problem, x) : r.slot \in slots' /\ Missing(Problem, x, r) > 0
        BY <3>2 DEF Issues, Requirements
      <4>2. QED
        BY <4>1 DEF SolverIssues
    <3>6. issues' \subseteq SolverIssues(x)
      BY <3>1 DEF Store, MergedIssues
    <3>7. \A q \in proposals' : q.slot \in slots'
      BY <3>1, <3>5 DEF Store, MergedProposals, SolverProposals
    <3>8. QED
      BY <2>2, <3>1, <3>3, <3>4, <3>5, <3>6, <3>7 DEF ArtifactsOK
  <2>4. CASE failure' # "none"
    BY <1>4, <2>1, <2>2, <2>4
  <2>5. QED
    BY <2>3, <2>4
<1>6. CASE AttemptUnsolved
  <2>1. /\ slots' = Slots(Problem) /\ rows' \subseteq rows /\ issues' = {} /\ proposals' = {}
        /\ edited' = {} /\ failure' = "unsolved"
    BY <1>6 DEF AttemptUnsolved, Kept, Afresh
  <2>2. \A s \in slots' : SlotOK(s)'
    BY <1>3, <2>1, SlotsOK
  <2>3. QED
    BY <1>2, <2>1, <2>2 DEF ArtifactsOK
<1>7. CASE AttemptAborted
  BY <1>4, <1>7 DEF AttemptAborted
<1>8. ASSUME NEW c \in Clients, Edit(c) PROVE ArtifactsOK'
  <2> DEFINE e == call[c].edit
             n == [id |-> call[c].id, slot |-> e.slot, role |-> e.role,
                   employee |-> e.employee, manual |-> TRUE, locked |-> e.locked]
  <2>1. /\ rows' \subseteq rows \cup {n} /\ e.slot \in slots /\ slots' = slots
        /\ issues' \subseteq issues /\ proposals' \subseteq proposals
        /\ edited' = edited \cup {e.slot} /\ failure' = failure
    BY <1>8 DEF Edit
  <2>2. e.employee \in People
    BY <1>8 DEF Edit, CallOK
  <2>3. Row(n)
    BY <2>1, <2>2 DEF Row, ArtifactsOK, SlotOK, People
  <2>4. QED
    BY <1>2, <1>3, <2>1, <2>3 DEF ArtifactsOK
<1>9. CASE UNCHANGED <<attempt, rows, slots, posts, issues, failure, edited, mixed>> /\ proposals' = proposals
  BY <1>2, <1>3, <1>9 DEF ArtifactsOK
<1>10. CASE Replan
  BY <1>4, <1>10 DEF Replan, history, ArtifactsOK
<1>11. ASSUME ~(Attempt \/ AttemptUnsolved \/ AttemptAborted), \A c \in Clients : ~Edit(c)
       PROVE  proposals' = proposals
  BY <1>11 DEF Next, vars, artifacts, Recalculate, Replan, Override, Approve, BeginEdit,
       BeginPublish, Publish, GiveUp
<1>12. QED
  BY <1>5, <1>6, <1>7, <1>8, <1>9, <1>10, <1>11, StepKinds

LEMMA ShownStatus ==
  ASSUME status \in Statuses, NEW shown \in Shown
  PROVE  shown.status \in Statuses
<1>1. CASE status = "queued"
  BY <1>1 DEF Shown, Statuses
<1>2. CASE status # "queued" /\ slots = {}
  BY <1>2 DEF Shown, Computed, Statuses
<1>3. CASE status # "queued" /\ slots # {}
  BY <1>3 DEF Shown
<1>4. QED
  BY <1>1, <1>2, <1>3

LEMMA CallOKNext ==
  ASSUME PlanOK, CallsOK, status \in Statuses, \A c \in Clients : CallOK(c), [Next]_vars,
         NEW c \in Clients
  PROVE  CallOK(c)'
<1>1. \A shown \in Shown : Writes(shown) \in Statuses \cup {None}
  BY ShownStatus DEF Writes
<1>2. CASE call'[c].op = "edit"
  <2>1. CASE SameEdit(c)
    BY <1>2, <2>1 DEF SameEdit, CallOK
  <2>2. CASE Begun(c)
    <3>1. PICK shown \in Shown : \E edit \in Edits(shown) :
            BeginEdit(c, shown, edit) /\ call'[c].edit = edit /\ call'[c].writes = Writes(shown)
      BY <2>2 DEF Begun
    <3>2. PICK edit \in Edits(shown) :
            BeginEdit(c, shown, edit) /\ call'[c].edit = edit /\ call'[c].writes = Writes(shown)
      BY <3>1
    <3>3. edit.employee \in People
      BY <3>2 DEF Edits, PlanOK, People
    <3>4. QED
      BY <1>1, <1>2, <3>2, <3>3 DEF CallOK
  <2>3. QED
    BY <1>2, <2>1, <2>2, EditCalls
<1>3. CASE call'[c].op = "publish"
  BY <1>1, <1>3, PublishCalls DEF CallOK
<1>4. call'[c].op \in {"none", "edit", "publish"}
  <2>1. call'[c] = call[c] => call'[c].op \in {"none", "edit", "publish"}
    BY DEF CallOK
  <2>2. ASSUME NEW d \in Clients, End(d) PROVE call'[c].op \in {"none", "edit", "publish"}
    BY <2>2, <2>1 DEF End, CallsOK, NoCall
  <2>3. ASSUME OutdateAll PROVE call'[c].op \in {"none", "edit", "publish"}
    BY <2>3, <2>1 DEF OutdateAll, CallsOK, EditFields
  <2>4. ASSUME NEW d \in Clients, EndAndOutdate(d)
        PROVE  call'[c].op \in {"none", "edit", "publish"}
    BY <2>1, <2>4 DEF EndAndOutdate, CallsOK, NoCall, EditFields
  <2>5. CASE Attempt
    BY <2>1, <2>3, <2>5 DEF Attempt, Afresh
  <2>6. CASE AttemptUnsolved \/ Replan
    BY <2>3, <2>6 DEF AttemptUnsolved, Afresh, Replan
  <2>7. ASSUME NEW d \in Clients, NEW shown, NEW edit, BeginEdit(d, shown, edit)
        PROVE  call'[c].op \in {"none", "edit", "publish"}
    BY <2>1, <2>7 DEF BeginEdit, Begin, CallsOK
  <2>8. ASSUME NEW d \in Clients, NEW shown, BeginPublish(d, shown)
        PROVE  call'[c].op \in {"none", "edit", "publish"}
    BY <2>1, <2>8 DEF BeginPublish, Begin, CallsOK
  <2>9. ASSUME NEW d \in Clients, Edit(d) PROVE call'[c].op \in {"none", "edit", "publish"}
    BY <2>4, <2>9 DEF Edit
  <2>10. ASSUME NEW d \in Clients, Publish(d) \/ GiveUp(d)
         PROVE  call'[c].op \in {"none", "edit", "publish"}
    BY <2>2, <2>10 DEF Publish, GiveUp
  <2>11. CASE UNCHANGED call
    BY <2>1, <2>11
  <2>12. QED
    BY <2>5, <2>6, <2>7, <2>8, <2>9, <2>10, <2>11
    DEF Next, vars, AttemptAborted, Recalculate, Override, Approve
<1>5. QED
  BY <1>2, <1>3, <1>4 DEF CallOK

LEMMA StatusNext ==
  ASSUME status \in Statuses, \A c \in Clients : CallOK(c), [Next]_vars
  PROVE  status' \in Statuses
<1>1. CASE Attempt
  BY <1>1 DEF Attempt, Statuses
<1>2. CASE AttemptUnsolved \/ AttemptAborted \/ Recalculate
  BY <1>2 DEF AttemptUnsolved, AttemptAborted, Recalculate, Statuses
<1>3. ASSUME NEW shown \in Shown, NEW q, Approve(shown, q) PROVE status' \in Statuses
  BY <1>3, ShownStatus DEF Approve
<1>4. ASSUME NEW c \in Clients, Edit(c) \/ Publish(c) PROVE status' \in Statuses
  BY <1>4 DEF Edit, Publish, CallOK
<1>5. CASE UNCHANGED status
  BY <1>5
<1>6. QED
  BY <1>1, <1>2, <1>3, <1>4, <1>5
  DEF Next, vars, Replan, Override, BeginEdit, BeginPublish, GiveUp

LEMMA AttemptBound ==
  ASSUME attempt \in 0..MaxAttempts, [Next]_vars
  PROVE  attempt' \in 0..MaxAttempts
<1>1. CASE Attempt \/ AttemptUnsolved \/ AttemptAborted
  BY <1>1, PlansAssumption DEF Attempt, AttemptUnsolved, AttemptAborted
<1>2. CASE UNCHANGED attempt
  BY <1>2
<1>3. QED
  BY <1>1, <1>2, StepKinds DEF Edit

\* Whatever is merged, edited and replaced, the persisted result stays one that
\* the tables accept and that fits the period and the people.
THEOREM TypeOKHolds == Spec => []TypeOK
<1> DEFINE IInv == /\ PlanOK /\ Placed /\ CallsOK /\ ArtifactsOK
                   /\ status \in Statuses /\ attempt \in 0..MaxAttempts
                   /\ \A c \in Clients : CallOK(c)
<1>1. Init => IInv
  BY PlansAssumption
  DEF Init, PlanOK, Placed, SameId, CallsOK, ArtifactsOK, Statuses, CallOK, NoCall
<1>2. IInv /\ [Next]_vars => IInv'
  BY PlanNext, PlacedNext, CallsNext, ArtifactsNext, StatusNext, AttemptBound, CallOKNext
<1>3. IInv => TypeOK
  BY DEF TypeOK, PlanOK, Placed, ArtifactsOK, Statuses, CallOK
<1>4. QED
  BY <1>1, <1>2, <1>3, PTL DEF Spec

-----------------------------------------------------------------------------
(* How many people a persisted result puts into its posts: what an         *)
(* attempt, and edits after it, leave for an administrator to see.         *)

RowOf(x, a) ==
  [id |-> SolverId(Rank(x, a) + 1), slot |-> a.slot, role |-> a.role,
   employee |-> a.employee, manual |-> FALSE, locked |-> FALSE]

\* The rows of an answer are as many as its assignments, in every post.
LEMMA SolverRowsCount ==
  ASSUME PlanOK, NEW x \in FeasibleSets(Problem), NEW r
  PROVE  /\ Cardinality(For(SolverRows(x), r)) = Cardinality(For(x, r))
         /\ IsFiniteSet(For(SolverRows(x), r))
<1> DEFINE S == For(x, r)
           T == For(SolverRows(x), r)
           f == [a \in S |-> RowOf(x, a)]
<1>1. x \subseteq Candidates(Problem)
  BY DEF FeasibleSets, Feasible
<1>2. IsFiniteSet(S)
  <2>1. S \subseteq In(x, r.slot)
    BY DEF For, In
  <2> HIDE DEF S
  <2>2. QED
    BY <1>1, <2>1, ProblemIsWellFormed, SlotIsFinite, FS_Subset
<1>3. \A a \in S : f[a] \in T
  BY DEF RowOf, SolverRows, For
<1>4. \A b \in T : \E a \in S : f[a] = b
  BY DEF RowOf, SolverRows, For
<1>5. \A a, b \in S : f[a] = f[b] => a = b
  <2> SUFFICES ASSUME NEW a \in S, NEW b \in S, f[a] = f[b] PROVE a = b
    OBVIOUS
  <2>1. a \in x /\ b \in x
    BY DEF For
  <2>2. a.slot = b.slot /\ a.role = b.role /\ a.employee = b.employee
    BY DEF RowOf
  <2>3. /\ a = [slot |-> a.slot, role |-> a.role, employee |-> a.employee]
        /\ b = [slot |-> b.slot, role |-> b.role, employee |-> b.employee]
    BY <1>1, <2>1 DEF Candidates
  <2>4. QED
    BY <2>2, <2>3
<1>6. f \in [S -> T]
  BY <1>3
<1> HIDE DEF f, S, T
<1>7. f \in Bijection(S, T)
  <2>1. f \in Surjection(S, T)
    BY <1>4, <1>6 DEF Surjection
  <2>2. f \in Injection(S, T)
    BY <1>5, <1>6 DEF Injection, IsInjective
  <2>3. QED
    BY <2>1, <2>2 DEF Bijection
<1>8. Cardinality(T) = Cardinality(S) /\ IsFiniteSet(T)
  BY <1>2, <1>7, FS_Bijection DEF ExistsBijection
<1>9. QED
  BY <1>8 DEF S, T

LEMMA SolverRowsFinite ==
  ASSUME PlanOK, NEW x \in FeasibleSets(Problem), NEW s
  PROVE  IsFiniteSet(In(SolverRows(x), s))
<1> DEFINE S == In(x, s)
           T == In(SolverRows(x), s)
           f == [a \in S |-> RowOf(x, a)]
<1>1. x \subseteq Candidates(Problem)
  BY DEF FeasibleSets, Feasible
<1>2. IsFiniteSet(S)
  BY <1>1, ProblemIsWellFormed, SlotIsFinite
<1>3. \A a \in S : f[a] \in T
  BY DEF RowOf, SolverRows, In
<1>4. \A b \in T : \E a \in S : f[a] = b
  BY DEF RowOf, SolverRows, In
<1>5. f \in [S -> T]
  BY <1>3
<1> HIDE DEF f, S, T
<1>6. f \in Surjection(S, T)
  BY <1>4, <1>5 DEF Surjection
<1>7. IsFiniteSet(T)
  BY <1>2, <1>6, FS_Surjection
<1>8. QED
  BY <1>7 DEF T

-----------------------------------------------------------------------------
(* The numbers are numbers.                                                *)

Post(r) == [slot |-> r.slot, role |-> r.role]

PostsCounted(P) == \A r \in DOMAIN P : P[r] \in Nat \ {0} /\ r = Post(r)

Counted == PostsCounted(posts) /\ \A s : IsFiniteSet(In(rows, s))

LEMMA PostsOfCounted == ASSUME PlanOK PROVE PostsCounted(PostsOf)
<1>1. DOMAIN PostsOf = Requirements(Problem)
  BY DEF PostsOf
<1>2. ASSUME NEW r \in Requirements(Problem) PROVE PostsOf[r] \in Nat \ {0} /\ r = Post(r)
  BY ProblemIsWellFormed DEF PostsOf, Requirements, Required, WellFormed, Post
<1>3. QED
  BY <1>1, <1>2 DEF PostsCounted

LEMMA CountedNext ==
  ASSUME PlanOK, Counted, [Next]_vars
  PROVE  Counted'
<1>1. CASE Attempt
  <2>1. PICK x \in FeasibleSets(Problem) :
          IF failure' = "none" THEN Store(SolverRows(x), SolverIssues(x)) ELSE UNCHANGED artifacts
    BY <1>1 DEF Attempt
  <2>2. CASE failure' = "none"
    <3>1. posts' = PostsOf /\ rows' = MergedRows(SolverRows(x))
      BY <2>1, <2>2 DEF Store
    <3>2. ASSUME NEW s PROVE IsFiniteSet(In(rows', s))
      <4>1. In(rows', s) \subseteq In(SolverRows(x), s) \cup In(rows, s)
        BY <3>1 DEF MergedRows, Kept, In
      <4>2. IsFiniteSet(In(SolverRows(x), s)) /\ IsFiniteSet(In(rows, s))
        BY SolverRowsFinite DEF Counted
      <4>3. QED
        BY <4>1, <4>2, FS_Union, FS_Subset
    <3>3. QED
      BY <3>1, <3>2, PostsOfCounted DEF Counted
  <2>3. CASE failure' # "none"
    BY <2>1, <2>3 DEF artifacts, Counted
  <2>4. QED
    BY <2>2, <2>3
<1>2. CASE AttemptUnsolved
  <2>1. posts' = PostsOf /\ rows' \subseteq rows
    BY <1>2 DEF AttemptUnsolved, Kept
  <2>2. ASSUME NEW s PROVE IsFiniteSet(In(rows', s))
    <3>1. In(rows', s) \subseteq In(rows, s) /\ IsFiniteSet(In(rows, s))
      BY <2>1 DEF In, Counted
    <3>2. QED
      BY <3>1, FS_Subset
  <2>3. QED
    BY <2>1, <2>2, PostsOfCounted DEF Counted
<1>3. ASSUME NEW c \in Clients, Edit(c) PROVE Counted'
  <2>1. posts' = posts
    BY <1>3 DEF Edit
  <2>2. PICK n : rows' \subseteq rows \cup {n}
    BY <1>3 DEF Edit
  <2>3. ASSUME NEW s PROVE IsFiniteSet(In(rows', s))
    <3>1. In(rows', s) \subseteq In(rows, s) \cup {n}
      BY <2>2 DEF In
    <3>2. IsFiniteSet(In(rows, s) \cup {n})
      BY FS_AddElement DEF Counted
    <3>3. QED
      BY <3>1, <3>2, FS_Subset
  <2>4. QED
    BY <2>1, <2>3 DEF Counted
<1>4. CASE UNCHANGED <<rows, posts>>
  BY <1>4 DEF Counted
<1>5. QED
  BY <1>1, <1>2, <1>3, <1>4, StepKinds DEF AttemptAborted, artifacts

LEMMA PostFinite ==
  ASSUME Counted, NEW r
  PROVE  IsFiniteSet(For(rows, r)) /\ Cardinality(For(rows, r)) \in Nat
<1>1. For(rows, r) \subseteq In(rows, r.slot) /\ IsFiniteSet(In(rows, r.slot))
  BY DEF For, In, Counted
<1>2. IsFiniteSet(For(rows, r))
  BY <1>1, FS_Subset
<1>3. QED
  BY <1>2, FS_CardinalityType

-----------------------------------------------------------------------------
(* What is left open is shown.                                             *)

\* An answer reports what it leaves open.
LEMMA AnswerReports ==
  ASSUME PlanOK, NEW x \in FeasibleSets(Problem), NEW r \in DOMAIN PostsOf,
         Cardinality(For(SolverRows(x), r)) < PostsOf[r]
  PROVE  \E i \in SolverIssues(x) : KeyOf(i) = KeyOf(r)
<1>1. r \in Requirements(Problem) /\ PostsOf[r] = Required(Problem, r) /\ PostsOf[r] \in Nat
  BY PostsOfCounted DEF PostsOf, PostsCounted
<1> DEFINE n == Cardinality(For(SolverRows(x), r))
<1>2. n = Cardinality(For(x, r)) /\ n \in Nat
  BY SolverRowsCount, FS_CardinalityType
<1>3. Missing(Problem, x, r) = PostsOf[r] - n
  BY <1>1, <1>2 DEF Missing
<1> HIDE DEF n
<1>4. Missing(Problem, x, r) > 0
  <2>1. n < PostsOf[r]
    BY DEF n
  <2>2. QED
    BY <1>1, <1>2, <1>3, <2>1
<1>5. r \in Issues(Problem, x)
  BY <1>1, <1>4 DEF Issues
<1> DEFINE i == [slot |-> r.slot, role |-> r.role, missing |-> Missing(Problem, x, r)]
<1>6. i \in SolverIssues(x)
  BY <1>5 DEF SolverIssues
<1>7. KeyOf(i) = KeyOf(r)
  BY DEF KeyOf
<1>8. QED
  BY <1>6, <1>7

\* An edit of another slot leaves a slot as it is, if it has read this attempt.
LEMMA OtherSlotsKept ==
  ASSUME Placed, EditsAimed, NEW c \in Clients, Edit(c), ~mixed', NEW s, s # call[c].edit.slot
  PROVE  In(rows', s) = In(rows, s)
<1>1. call[c].op = "edit" /\ ~mixed /\ call[c].attempt = attempt /\ slots # {}
  BY DEF Edit
<1>2. ASSUME NEW a \in rows, a.id \in call[c].old PROVE a.slot = call[c].edit.slot
  <2>1. PICK b \in rows : b.id = a.id /\ KeyOf(b) = KeyOf(call[c].edit)
    BY <1>1, <1>2 DEF EditsAimed, Aimed
  <2>2. a = b
    BY <2>1 DEF Placed, SameId
  <2>3. QED
    BY <2>1, <2>2 DEF KeyOf
<1> DEFINE e == call[c].edit
           n == [id |-> call[c].id, slot |-> e.slot, role |-> e.role,
                 employee |-> e.employee, manual |-> TRUE, locked |-> e.locked]
<1>3. rows' = {a \in rows : a.id \notin call[c].old} \cup {n}
  BY DEF Edit
<1>4. QED
  BY <1>2, <1>3 DEF In

ManualSinceEdit == edited # {} \/ mixed => \E a \in rows : a.manual

LEMMA ManualSinceEditNext ==
  ASSUME ManualSinceEdit, [Next]_vars
  PROVE  ManualSinceEdit'
<1>1. CASE Attempt
  BY <1>1 DEF Attempt, Afresh, artifacts, ManualSinceEdit
<1>2. CASE AttemptUnsolved \/ AttemptAborted
  BY <1>2 DEF AttemptUnsolved, AttemptAborted, Afresh, artifacts, ManualSinceEdit
<1>3. ASSUME NEW c \in Clients, Edit(c) PROVE ManualSinceEdit'
  <2> DEFINE e == call[c].edit
             n == [id |-> call[c].id, slot |-> e.slot, role |-> e.role,
                   employee |-> e.employee, manual |-> TRUE, locked |-> e.locked]
  <2>1. n \in rows' /\ n.manual
    BY <1>3 DEF Edit
  <2> HIDE DEF n
  <2>2. QED
    BY <2>1 DEF ManualSinceEdit
<1>4. CASE UNCHANGED <<rows, edited, mixed>>
  BY <1>4 DEF ManualSinceEdit
<1>5. QED
  BY <1>1, <1>2, <1>3, <1>4, StepKinds

LEMMA ShortfallNext ==
  ASSUME PlanOK, Placed, EditsAimed, ShortfallShown, [Next]_vars
  PROVE  ShortfallShown'
<1> SUFFICES ASSUME failure' = "none", ~mixed', NEW r \in DOMAIN posts',
                    Cardinality(For(rows', r)) < posts'[r],
                    r.slot \notin edited',
                    \A a \in In(rows', r.slot) : ~a.manual
             PROVE  \E i \in issues' : KeyOf(i) = KeyOf(r)
  BY DEF ShortfallShown, KeyOf
<1>1. CASE Attempt
  <2>1. PICK x \in FeasibleSets(Problem) : Store(SolverRows(x), SolverIssues(x))
    BY <1>1 DEF Attempt
  <2>2. posts' = PostsOf /\ rows' = MergedRows(SolverRows(x))
        /\ issues' = MergedIssues(SolverIssues(x))
    BY <2>1 DEF Store
  <2>3. \A a \in Kept : a.slot # r.slot
    BY <2>2 DEF MergedRows, Kept, In
  <2>4. <<r.slot, r.role>> \notin KeptKeys
    BY <2>3 DEF KeptKeys, KeyOf
  <2>5. For(rows', r) = For(SolverRows(x), r)
    <3>1. ASSUME NEW a \in For(SolverRows(x), r) PROVE a \in rows'
      <4>1. a \in SolverRows(x) /\ KeyOf(a) \notin KeptKeys
        BY <2>4 DEF For, KeyOf
      <4>2. <<a.slot, a.employee>> \notin KeptPlaces
        BY <2>3 DEF For, KeptPlaces
      <4>3. QED
        BY <2>2, <4>1, <4>2 DEF MergedRows
    <3>2. ASSUME NEW a \in For(rows', r) PROVE a \in SolverRows(x)
      BY <2>2, <2>3 DEF MergedRows, For
    <3>3. QED
      BY <3>1, <3>2 DEF For
  <2>6. PICK i \in SolverIssues(x) : KeyOf(i) = KeyOf(r)
    BY <2>2, <2>5, AnswerReports
  <2>7. QED
    BY <2>2, <2>4, <2>6 DEF MergedIssues, KeyOf
<1>2. CASE AttemptUnsolved \/ AttemptAborted
  BY <1>2 DEF AttemptUnsolved, AttemptAborted
<1>3. ASSUME NEW c \in Clients, Edit(c) PROVE \E i \in issues' : KeyOf(i) = KeyOf(r)
  <2>1. /\ failure = "none" /\ ~mixed /\ posts' = posts /\ edited' = edited \cup {call[c].edit.slot}
        /\ issues' = {i \in issues : KeyOf(i) # KeyOf(call[c].edit)}
    BY <1>3 DEF Edit
  <2>2. r.slot # call[c].edit.slot /\ r.slot \notin edited
    BY <2>1
  <2>3. In(rows', r.slot) = In(rows, r.slot)
    BY <1>3, <2>2, OtherSlotsKept
  <2>4. For(rows', r) = For(rows, r)
    BY <2>3 DEF For, In
  <2>5. PICK i \in issues : KeyOf(i) = KeyOf(r)
    BY <2>1, <2>2, <2>3, <2>4 DEF ShortfallShown
  <2>6. QED
    BY <2>1, <2>2, <2>5 DEF KeyOf
<1>4. CASE UNCHANGED <<rows, posts, issues, failure, edited, mixed>>
  BY <1>4 DEF ShortfallShown
<1>5. QED
  BY <1>1, <1>2, <1>3, <1>4, StepKinds

\* The invariant behind the three results of this module.
CountsInv ==
  /\ PlanOK /\ Placed /\ CallsOK /\ EditsAimed
  /\ Counted /\ ManualSinceEdit /\ ShortfallShown

LEMMA CountsInvHolds == Spec => []CountsInv
<1>1. Init => CountsInv
  <2> SUFFICES ASSUME Init PROVE CountsInv
    OBVIOUS
  <2>1. PlanOK /\ Placed /\ CallsOK /\ EditsAimed
    BY DEF Init, PlanOK, Placed, SameId, CallsOK, EditsAimed, NoCall
  <2>2. Counted
    <3>1. In(rows, 0) = {} /\ \A s : In(rows, s) = {}
      BY DEF Init, In
    <3>2. DOMAIN posts = {}
      BY DEF Init
    <3>3. QED
      BY <3>1, <3>2, FS_EmptySet DEF Counted, PostsCounted
  <2>3. ManualSinceEdit
    BY DEF Init, ManualSinceEdit
  <2>4. ShortfallShown
    BY DEF Init, ShortfallShown
  <2>5. QED
    BY <2>1, <2>2, <2>3, <2>4 DEF CountsInv
<1>2. CountsInv /\ [Next]_vars => CountsInv'
  BY PlanNext, PlacedNext, CallsNext, EditsAimedNext, CountedNext, ManualSinceEditNext,
     ShortfallNext DEF CountsInv
<1>3. QED
  BY <1>1, <1>2, PTL DEF Spec

\* Every post that an attempt could not fill is reported until somebody puts
\* someone into its slot by hand (schedule_runs.py:1871), whatever the merge
\* with kept assignments and the edits of other slots.
THEOREM ShortfallShownHolds == Spec => []ShortfallShown
<1>1. CountsInv => ShortfallShown
  BY DEF CountsInv
<1>2. QED
  BY <1>1, CountsInvHolds, PTL

-----------------------------------------------------------------------------
(* How complete what is published is.                                      *)

\* Of a result that is shown, or published.
Full(result) ==
  result.solved /\ (\A a \in result.rows : ~a.manual) =>
    \A r \in DOMAIN result.posts : Cardinality(For(result.rows, r)) >= result.posts[r]

FullCalls ==
  /\ \A c \in Clients : call[c].op = "publish" => Full(call[c].shown)
  /\ published # None => Full(published)

LEMMA NoIssuesNoGaps ==
  ASSUME CountsInv, NEW shown \in Shown, shown.issues = {}
  PROVE  Full(shown)
<1> SUFFICES ASSUME shown.solved, \A a \in shown.rows : ~a.manual, NEW r \in DOMAIN shown.posts
             PROVE  Cardinality(For(shown.rows, r)) >= shown.posts[r]
  BY DEF Full
<1>1. CASE status = "queued"
  BY <1>1 DEF Shown
<1>2. CASE status # "queued" /\ slots = {}
  <2>1. PICK x \in FeasibleSets(Problem) :
          shown.rows = SolverRows(x) /\ shown.issues = SolverIssues(x) /\ shown.posts = PostsOf
    <3> DEFINE Told(verdict, x, found) ==
                 [status |-> verdict, solved |-> verdict = "succeeded", slots |-> Slots(Problem),
                  posts |-> PostsOf, rows |-> SolverRows(x), issues |-> found,
                  proposals |-> SolverProposals(found)]
    <3>1. shown \in Computed
      BY <1>2 DEF Shown
    <3>2. \/ \E x \in FeasibleSets(Problem) : shown = Told("succeeded", x, SolverIssues(x))
          \/ shown = Told("failed", {}, {})
      BY <3>1 DEF Computed
    <3>3. Told("failed", {}, {}).solved = ("failed" = "succeeded")
      OBVIOUS
    <3>4. shown # Told("failed", {}, {})
      BY <3>3
    <3>5. QED
      BY <3>2, <3>4
  <2>2. ~(Cardinality(For(SolverRows(x), r)) < PostsOf[r])
    BY <2>1, AnswerReports DEF CountsInv
  <2>3. PostsOf[r] \in Nat
    BY <2>1, PostsOfCounted DEF CountsInv, PostsCounted
  <2>4. Cardinality(For(SolverRows(x), r)) \in Nat
    BY SolverRowsCount, FS_CardinalityType DEF CountsInv
  <2>5. QED
    BY <2>1, <2>2, <2>3, <2>4
<1>3. CASE status # "queued" /\ slots # {}
  <2>1. /\ shown.rows = rows /\ shown.posts = posts /\ shown.issues = issues
        /\ failure = "none"
    <3>1. shown = [status |-> status, solved |-> failure = "none", slots |-> slots,
                   posts |-> posts, rows |-> rows, issues |-> issues, proposals |-> proposals]
      BY <1>3 DEF Shown
    <3>2. shown.solved = (failure = "none")
      BY <3>1
    <3>3. QED
      BY <3>1, <3>2
  <2>2. edited = {} /\ ~mixed
    BY <2>1 DEF CountsInv, ManualSinceEdit
  <2>3. ~(Cardinality(For(rows, r)) < posts[r])
    BY <2>1, <2>2 DEF CountsInv, ShortfallShown, In
  <2>4. posts[r] \in Nat /\ Cardinality(For(rows, r)) \in Nat
    BY <2>1, PostFinite DEF CountsInv, Counted, PostsCounted
  <2>5. QED
    BY <2>1, <2>3, <2>4
<1>4. QED
  BY <1>1, <1>2, <1>3

LEMMA FullCallsNext ==
  ASSUME CountsInv, FullCalls, [Next]_vars
  PROVE  FullCalls'
<1>1. ASSUME NEW c \in Clients, call'[c].op = "publish" PROVE Full(call'[c].shown)
  <2>1. CASE call'[c] = call[c]
    BY <1>1, <2>1 DEF FullCalls
  <2>2. ASSUME NEW shown \in Shown, BeginPublish(c, shown), call'[c].shown = shown
        PROVE  Full(call'[c].shown)
    BY <2>2, NoIssuesNoGaps DEF BeginPublish
  <2>3. QED
    BY <1>1, <2>1, <2>2, PublishCalls DEF CountsInv
<1>2. published' # None => Full(published')
  <2>1. ASSUME NEW c \in Clients, Publish(c) PROVE Full(published')
    <3>1. Full(call[c].shown)
      BY <2>1 DEF Publish, FullCalls
    <3>2. /\ published'.solved = call[c].shown.solved /\ published'.rows = call[c].shown.rows
          /\ published'.posts = call[c].shown.posts
      BY <2>1 DEF Publish
    <3>3. QED
      BY <3>1, <3>2 DEF Full
  <2>2. published' = published \/ \E c \in Clients : Publish(c)
    BY DEF Next, vars, Attempt, AttemptUnsolved, AttemptAborted, Recalculate, Replan,
           Override, Approve, BeginEdit, BeginPublish, Edit, GiveUp
  <2>3. QED
    BY <2>1, <2>2 DEF FullCalls
<1>3. QED
  BY <1>1, <1>2 DEF FullCalls

\* The gate of the issues (schedule_runs.py:985) does what it is there for:
\* nothing is published with a gap, unless somebody has edited it.
THEOREM PublishedCompleteHolds == Spec => []PublishedComplete
<1>1. Init => FullCalls
  BY DEF Init, FullCalls, NoCall
<1>2. CountsInv /\ FullCalls /\ [Next]_vars => FullCalls'
  BY FullCallsNext
<1>3. FullCalls => PublishedComplete
  BY DEF FullCalls, Full, PublishedComplete
<1>4. QED
  BY <1>1, <1>2, <1>3, CountsInvHolds, PTL DEF Spec

-----------------------------------------------------------------------------
(* Edits that decided on what is still so.                                 *)

\* What such an edit has found: no blocked pair, and either room in the post or
\* the assignment that it replaces.
StillSo(c) ==
  LET e == call[c].edit
      post == Post(e) IN
  /\ ~PairConflict(plan, rows, e.employee, e.slot)
  /\ call[c].old = {} /\ post \in DOMAIN posts => Cardinality(For(rows, post)) < posts[post]
  /\ \A id \in call[c].old : \E a \in rows : a.id = id /\ KeyOf(a) = KeyOf(e)

FreshCalls ==
  \A c \in Clients : call[c].op = "edit" /\ call[c].fresh /\ slots # {} => StillSo(c)

\* Whatever changes the rows or the reference data leaves no edit fresh.
LEMMA FreshNothingChanged ==
  ASSUME CallsOK, [Next]_vars, NEW c \in Clients, call'[c].op = "edit", call'[c].fresh
  PROVE  UNCHANGED <<rows, slots, posts, plan>>
<1>1. ASSUME OutdateAll PROVE FALSE
  BY <1>1 DEF OutdateAll, CallsOK, EditFields
<1>2. ASSUME NEW d \in Clients, EndAndOutdate(d) PROVE FALSE
  BY <1>2 DEF EndAndOutdate, CallsOK, NoCall, EditFields
<1>3. Attempt => UNCHANGED <<rows, slots, posts, plan>>
  BY <1>1 DEF Attempt, Afresh, artifacts
<1>4. AttemptAborted => UNCHANGED <<rows, slots, posts, plan>>
  BY DEF AttemptAborted, artifacts
<1>5. ~AttemptUnsolved /\ ~Replan
  BY <1>1 DEF AttemptUnsolved, Afresh, Replan
<1>6. \A d \in Clients : ~Edit(d)
  BY <1>2 DEF Edit
<1>7. QED
  BY <1>3, <1>4, <1>5, <1>6, StepKinds

LEMMA PlanFields ==
  ASSUME PlanOK
  PROVE  Problem.blocked = plan.blocked /\ WellFormed(plan)
BY PlansAssumption DEF PlanOK, Problem, WellFormed

\* An edit that replaces nothing has found room.
LEMMA RoomFound ==
  ASSUME Counted, NEW shown, shown.rows = rows, shown.posts = posts, NEW edit,
         Replaced(shown, edit) = {}, Post(edit) \in DOMAIN posts
  PROVE  Cardinality(For(rows, Post(edit))) < posts[Post(edit)]
<1> DEFINE present == {a \in rows : KeyOf(a) = KeyOf(edit)}
<1>1. present = For(rows, Post(edit))
  BY DEF For, KeyOf, Post
<1>2. KeyOf(edit) \in {<<r.slot, r.role>> : r \in DOMAIN posts}
  BY DEF KeyOf, Post
<1>3. Cardinality(present) < posts[Post(edit)] \/ present = {}
  BY <1>2 DEF Replaced, Post
<1>4. posts[Post(edit)] \in Nat \ {0}
  BY DEF Counted, PostsCounted
<1> HIDE DEF present
<1>5. present = {} => Cardinality(present) = 0
  BY FS_EmptySet
<1>6. QED
  BY <1>1, <1>3, <1>4, <1>5

LEMMA FreshCallsNext ==
  ASSUME CountsInv, FreshCalls, [Next]_vars
  PROVE  FreshCalls'
<1> SUFFICES ASSUME NEW c \in Clients, call'[c].op = "edit", call'[c].fresh, slots' # {}
             PROVE  StillSo(c)'
  BY DEF FreshCalls
<1>1. UNCHANGED <<rows, slots, posts, plan>>
  BY FreshNothingChanged DEF CountsInv
<1>2. CASE SameEdit(c)
  <2>1. StillSo(c)
    BY <1>1, <1>2 DEF SameEdit, FreshCalls
  <2>2. call'[c].edit = call[c].edit /\ call'[c].old = call[c].old
    BY <1>2 DEF SameEdit
  <2>3. QED
    BY <1>1, <2>1, <2>2 DEF StillSo, KeyOf, Post
<1>3. CASE Begun(c)
  <2>1. PICK shown \in Shown : \E edit \in Edits(shown) :
          BeginEdit(c, shown, edit) /\ call'[c].edit = edit /\ call'[c].old = Replaced(shown, edit)
    BY <1>3 DEF Begun
  <2>2. PICK edit \in Edits(shown) :
          BeginEdit(c, shown, edit) /\ call'[c].edit = edit /\ call'[c].old = Replaced(shown, edit)
    BY <2>1
  <2>3. shown.rows = rows /\ shown.posts = posts
    BY <1>1, <2>2, EditBegun
  <2>4. ~PairConflict(plan, rows, edit.employee, edit.slot)
    BY <2>2, <2>3, PlanFields DEF BeginEdit, ValidEdit, PairConflict, CountsInv
  <2>5. \A id \in Replaced(shown, edit) : \E a \in rows : a.id = id /\ KeyOf(a) = KeyOf(edit)
    BY <2>3, ReplacedFacts
  <2>6. Replaced(shown, edit) = {} /\ Post(edit) \in DOMAIN posts
          => Cardinality(For(rows, Post(edit))) < posts[Post(edit)]
    BY <2>3, RoomFound DEF CountsInv
  <2>7. QED
    BY <1>1, <2>2, <2>4, <2>5, <2>6 DEF StillSo, KeyOf, Post
<1>4. QED
  BY <1>2, <1>3, EditCalls DEF CountsInv

\* The new assignment, with no more people in its post than before or than
\* the post is for.
LEMMA EditOverfillsNothing ==
  ASSUME CountsInv, NEW c \in Clients, Edit(c), StillSo(c), NEW r \in Overfilled(rows')
  PROVE  r \in Overfilled(rows)
<1> DEFINE e == call[c].edit
           n == [id |-> call[c].id, slot |-> e.slot, role |-> e.role,
                 employee |-> e.employee, manual |-> TRUE, locked |-> e.locked]
           old == For(rows, r)
           new == For(rows', r)
           kept == {a \in old : a.id \notin call[c].old}
<1>1. r \in DOMAIN posts /\ r = Post(r) /\ posts[r] \in Nat
  BY DEF Overfilled, CountsInv, Counted, PostsCounted
<1>2. IsFiniteSet(old) /\ Cardinality(old) \in Nat
  BY PostFinite DEF CountsInv
<1>3. rows' = {a \in rows : a.id \notin call[c].old} \cup {n}
  BY DEF Edit
<1>4. kept \subseteq old
  OBVIOUS
<1>5. IsFiniteSet(kept) /\ Cardinality(kept) \in Nat /\ Cardinality(kept) <= Cardinality(old)
  <2> HIDE DEF kept, old
  <2>1. QED
    BY <1>2, <1>4, FS_Subset, FS_CardinalityType
<1>6. Cardinality(new) > posts[r]
  BY DEF Overfilled
<1>7. CASE KeyOf(e) # KeyOf(r)
  <2>1. new = kept
    BY <1>3, <1>7 DEF For, KeyOf
  <2> HIDE DEF kept, old, new
  <2>2. Cardinality(old) > posts[r]
    BY <1>1, <1>2, <1>5, <1>6, <2>1
  <2>3. QED
    BY <1>1, <2>2 DEF Overfilled, old
<1>8. CASE KeyOf(e) = KeyOf(r)
  <2>1. Post(e) = r
    BY <1>1, <1>8 DEF KeyOf, Post
  <2>2. new \subseteq kept \cup {n}
    BY <1>3 DEF For
  <2>3. Cardinality(new) <= Cardinality(kept) + 1 /\ Cardinality(new) \in Nat
    <3> HIDE DEF kept, new, n
    <3>1. IsFiniteSet(kept \cup {n}) /\ Cardinality(kept \cup {n}) <= Cardinality(kept) + 1
      <4>1. /\ IsFiniteSet(kept \cup {n})
            /\ \/ Cardinality(kept \cup {n}) = Cardinality(kept)
               \/ Cardinality(kept \cup {n}) = Cardinality(kept) + 1
        BY <1>5, FS_AddElement
      <4>2. QED
        BY <1>5, <4>1
    <3>2. IsFiniteSet(new) /\ Cardinality(new) <= Cardinality(kept \cup {n})
      BY <2>2, <3>1, FS_Subset
    <3>3. Cardinality(new) \in Nat /\ Cardinality(kept \cup {n}) \in Nat
      BY <3>1, <3>2, FS_CardinalityType
    <3>4. QED
      BY <1>5, <3>1, <3>2, <3>3
  <2>4. CASE call[c].old = {}
    <3>1. Cardinality(old) < posts[r]
      BY <1>1, <2>1, <2>4 DEF StillSo
    <3> HIDE DEF kept, old, new
    <3>2. FALSE
      BY <1>1, <1>2, <1>5, <1>6, <2>3, <3>1
    <3>3. QED
      BY <3>2
  <2>5. CASE call[c].old # {}
    <3>1. PICK id : id \in call[c].old
      BY <2>5
    <3>2. PICK a \in rows : a.id = id /\ KeyOf(a) = KeyOf(e)
      BY <3>1 DEF StillSo
    <3>3. a \in old /\ kept \subseteq old \ {a}
      BY <1>8, <3>1, <3>2 DEF For, KeyOf
    <3> HIDE DEF kept, old, new
    <3>4. IsFiniteSet(old \ {a}) /\ Cardinality(old \ {a}) = Cardinality(old) - 1
      BY <1>2, <3>3, FS_RemoveElement
    <3>5. Cardinality(kept) <= Cardinality(old) - 1
      BY <3>3, <3>4, FS_Subset
    <3>6. Cardinality(old) > posts[r]
      BY <1>1, <1>2, <1>5, <1>6, <2>3, <3>5
    <3>7. QED
      BY <1>1, <3>6 DEF Overfilled, old
  <2>6. QED
    BY <2>4, <2>5
<1>9. QED
  BY <1>7, <1>8

LEMMA EditJoinsNoPair ==
  ASSUME CountsInv, NEW c \in Clients, Edit(c), StillSo(c), NEW k \in Together(rows')
  PROVE  k \in Together(rows)
<1> DEFINE e == call[c].edit
<1>1. k \in plan.blocked \X slots /\ k[1] \subseteq {a.employee : a \in In(rows', k[2])}
  BY DEF Together
<1>2. PICK a, b \in k[1] : a # b /\ k[1] = {a, b}
  BY <1>1, PlanFields DEF CountsInv, WellFormed
<1>3. ASSUME NEW m \in k[1], m # e.employee \/ k[2] # e.slot
      PROVE  \E row \in In(rows, k[2]) : row.employee = m
  BY <1>1, <1>3 DEF Edit, In
<1>4. CASE e.employee \notin k[1] \/ k[2] # e.slot
  BY <1>1, <1>3, <1>4 DEF Together
<1>5. CASE e.employee \in k[1] /\ k[2] = e.slot
  <2>1. PICK m \in k[1] : m # e.employee /\ k[1] = {m, e.employee}
    BY <1>2, <1>5
  <2>2. PICK row \in In(rows, e.slot) : row.employee = m
    BY <1>3, <1>5, <2>1
  <2>3. {row.employee, e.employee} \in plan.blocked
    BY <1>1, <2>1, <2>2
  <2>4. FALSE
    BY <2>1, <2>2, <2>3 DEF StillSo, PairConflict
  <2>5. QED
    BY <2>4
<1>6. QED
  BY <1>4, <1>5

\* What save_manual_edit checks and decides (schedule_runs.py:628-720) is enough
\* as long as nothing it has read changes before it commits.
THEOREM FreshEditsRespectHolds == Spec => FreshEditsRespect
<1> DEFINE Respect == \A c \in Clients :
                        Edit(c) /\ call[c].fresh =>
                          /\ Overfilled(rows') \subseteq Overfilled(rows)
                          /\ Together(rows') \subseteq Together(rows)
<1>1. Init => FreshCalls
  BY DEF Init, FreshCalls, NoCall
<1>2. CountsInv /\ FreshCalls /\ [Next]_vars => FreshCalls'
  BY FreshCallsNext
<1>3. CountsInv /\ FreshCalls /\ [Next]_vars => [Respect]_vars
  <2> SUFFICES ASSUME CountsInv, FreshCalls, NEW c \in Clients, Edit(c), call[c].fresh
               PROVE  /\ Overfilled(rows') \subseteq Overfilled(rows)
                      /\ Together(rows') \subseteq Together(rows)
    OBVIOUS
  <2>1. StillSo(c)
    BY DEF Edit, FreshCalls
  <2>2. QED
    BY <2>1, EditOverfillsNothing, EditJoinsNoPair
<1>4. QED
  BY <1>1, <1>2, <1>3, CountsInvHolds, PTL DEF Spec, FreshEditsRespect

=============================================================================
