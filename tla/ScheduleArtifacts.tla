--------------------------- MODULE ScheduleArtifacts ---------------------------
(***************************************************************************)
(* The persisted result of one schedule run and what changes it            *)
(* (api/routes/schedule_runs.py): attempts of the worker, which merge the  *)
(* solver's answer with the locked manual assignments                      *)
(* (_replace_persisted_artifacts), manual edits, approvals, compliance     *)
(* overrides and the publication.                                          *)
(*                                                                         *)
(* An edit and a publication read, decide, and commit in a later step.  An *)
(* attempt is one step: it holds the row lock of the run, which an edit    *)
(* needs to commit.  If an edit has already touched the rows that the      *)
(* attempt deletes, the two wait for each other and the database aborts    *)
(* one of them.                                                            *)
(***************************************************************************)
EXTENDS PlanningRules

CONSTANTS
  Plans,        \* the reference data a run may start with
  Clients, None,
  MaxAttempts,  \* bound on the attempts of the run
  MaxEdits(_),  \* bound on the edits of a run, by its reference data
  MaxOverrides  \* bound on the compliance overrides

\* The reference data may change, the hours of a slot that exists do not.  There
\* always is a slot: without shift types the code falls back on invented data.
ASSUME PlansAssumption ==
  /\ MaxAttempts \in Nat /\ MaxOverrides \in Nat
  /\ \A p \in Plans : WellFormed(p) /\ MaxEdits(p) \in Nat /\ Slots(p) # {}
  /\ \A p, q \in Plans : \A t \in DOMAIN p.types :
       /\ t \in DOMAIN q.types
       /\ p.types[t].start = q.types[t].start
       /\ p.types[t].end = q.types[t].end
       /\ p.types[t].midnight = q.types[t].midnight

VARIABLES
  plan,       \* the organization's reference data, see PlanningRules
  approved,   \* relaxation_proposal_id of the override approvals of the run
  status,     \* of the run
  attempt,    \* the attempts carried out so far
  slots, posts, rows, issues, proposals,  \* the persisted artifacts
  overrides,  \* the instance keys of the compliance warnings overridden
  published,  \* what has been published, or None
  failure,    \* history: why the last attempt failed, "none" if it did not
  edited,     \* history: the slots edited since the last attempt
  mixed,      \* history: whether one of these edits had read an older result, in
              \* which the id of the assignment it replaces was another one's
  edits,      \* the edits committed so far
  call        \* call[c]: the request of client c, between read and commit

artifacts == <<slots, posts, rows, issues, proposals>>
history == <<failure, edited, mixed, edits>>
vars == <<plan, approved, status, attempt, artifacts, overrides, published, history, call>>

C == INSTANCE Compliance

\* The primary key of an assignment: its rank in the solver's answer, or the
\* slot, role, employee and rank of a manual one.
SolverId(n) == <<"solver", n>>
ManualId(edit, n) == <<"manual", edit.slot, edit.role, edit.employee, n>>

NoCall == [op |-> "none"]

Init ==
  /\ plan \in Plans
  /\ approved = {}
  /\ status = "queued"
  /\ attempt = 0
  /\ slots = {} /\ posts = <<>> /\ rows = {} /\ issues = {} /\ proposals = {}
  /\ overrides = {}
  /\ published = None
  /\ failure = "none"
  /\ edited = {} /\ mixed = FALSE /\ edits = 0
  /\ call = [c \in Clients |-> NoCall]

Begin(c, request) ==
  /\ call[c] = NoCall
  /\ call' = [call EXCEPT ![c] = request]

End(c) == call' = [call EXCEPT ![c] = NoCall]

\* The rows have changed: what the other requests have read is out of date.
EndAndOutdate(c) ==
  call' = [d \in Clients |->
             IF d = c THEN NoCall
             ELSE IF call[d].op = "edit" THEN [call[d] EXCEPT !.fresh = FALSE] ELSE call[d]]

OutdateAll ==
  call' = [d \in Clients |->
             IF call[d].op = "edit" THEN [call[d] EXCEPT !.fresh = FALSE] ELSE call[d]]

-----------------------------------------------------------------------------
(* An attempt of the worker.                                               *)

Problem == [plan EXCEPT !.approved = approved]

\* Numbered by slot, role and employee, which is how the answer is sorted.
Rank(x, a) ==
  Cardinality({b \in x :
    \/ b.slot.day < a.slot.day
    \/ b.slot.day = a.slot.day /\ b.slot.type < a.slot.type
    \/ b.slot = a.slot /\ b.role < a.role
    \/ b.slot = a.slot /\ b.role = a.role /\ b.employee < a.employee})

SolverRows(x) ==
  {[id |-> SolverId(Rank(x, a) + 1), slot |-> a.slot, role |-> a.role,
    employee |-> a.employee, manual |-> FALSE, locked |-> FALSE] : a \in x}

\* A plausible slip: only posts that nobody fills are reported.
SolverIssuesOfEmptyPosts(x) ==
  {[slot |-> r.slot, role |-> r.role, missing |-> Missing(Problem, x, r)] :
     r \in {r \in Issues(Problem, x) : For(x, r) = {}}}

SolverIssues(x) ==
  {[slot |-> r.slot, role |-> r.role, missing |-> Missing(Problem, x, r)] :
     r \in Issues(Problem, x)}

SolverProposals(found) ==
  UNION {LET leaves == Proposed(Problem, i) IN
           IF leaves = {} THEN {[employee |-> None, slot |-> i.slot]}
           ELSE {[employee |-> leave.employee, slot |-> i.slot] : leave \in leaves} : i \in found}

Kept == {a \in rows : a.manual /\ a.locked}
KeyOf(a) == <<a.slot, a.role>>
KeptKeys == {KeyOf(a) : a \in Kept}
KeptPlaces == {<<a.slot, a.employee>> : a \in Kept}

\* A plausible slip: a kept employee may be assigned a second time.
MergedRowsByKey(new) == {a \in new : KeyOf(a) \notin KeptKeys} \cup Kept

\* A plausible slip: the solver's assignments come before the kept ones.
MergedRowsForSolver(new) ==
  new \cup {a \in Kept : \A b \in new :
               KeyOf(a) # KeyOf(b) /\ <<a.slot, a.employee>> # <<b.slot, b.employee>>}

\* _merge_locked_manual_assignments: a kept assignment takes the place of all
\* the solver's for its slot and role, and of its employee's in the slot.
MergedRows(new) ==
  {a \in new : KeyOf(a) \notin KeptKeys /\ <<a.slot, a.employee>> \notin KeptPlaces} \cup Kept

MergedIssues(found) == {i \in found : KeyOf(i) \notin KeptKeys}

MergedProposals(found) == {q \in found : \A a \in Kept : q.slot # a.slot}

\* What the keys of the tables reject.
SameId(S) == \E a, b \in S : a # b /\ a.id = b.id
TwiceInSlot(S) == \E a, b \in S : a # b /\ a.slot = b.slot /\ a.employee = b.employee

PostsOf == [r \in Requirements(Problem) |-> Required(Problem, r)]

Rejected(new, found) ==
  LET merged == MergedRows(new) IN
  IF ProposalsCollide(Problem, {i \in found : \A a \in Kept : a.slot # i.slot}) THEN "proposals"
  ELSE IF \E a \in merged : a.slot \notin Slots(Problem) THEN "slots"
  ELSE IF TwiceInSlot(merged) THEN "double"
  ELSE IF SameId(merged) THEN "ids"
  ELSE "none"

Store(new, found) ==
  /\ slots' = Slots(Problem)
  /\ posts' = PostsOf
  /\ rows' = MergedRows(new)
  /\ issues' = MergedIssues(found)
  /\ proposals' = MergedProposals(SolverProposals(found))

Afresh == edited' = {} /\ mixed' = FALSE /\ OutdateAll

\* Any solution may be what the solver has when its time is up.
Attempt ==
  /\ status = "queued"
  /\ attempt < MaxAttempts
  /\ attempt' = attempt + 1
  /\ \E x \in FeasibleSets(Problem) :
       LET new == SolverRows(x)
           found == SolverIssues(x) IN
       /\ failure' = Rejected(new, found)
       /\ IF failure' = "none"
          THEN Store(new, found) /\ Afresh /\ status' = "succeeded"
          ELSE UNCHANGED <<artifacts, edited, mixed, call>> /\ status' = "failed"
  /\ UNCHANGED <<plan, approved, overrides, published, edits>>

\* No answer in time: what was persisted is replaced all the same.
AttemptUnsolved ==
  /\ status = "queued"
  /\ attempt < MaxAttempts
  /\ attempt' = attempt + 1
  /\ slots' = Slots(Problem)
  /\ posts' = PostsOf
  /\ rows' = Kept
  /\ issues' = {}
  /\ proposals' = {}
  /\ \A a \in Kept : a.slot \in slots'
  /\ Afresh
  /\ status' = "failed"
  /\ failure' = "unsolved"
  /\ UNCHANGED <<plan, approved, overrides, published, edits>>

\* The database aborts the attempt in favour of an edit.
AttemptAborted ==
  /\ status = "queued"
  /\ attempt < MaxAttempts
  /\ \E c \in Clients : call[c].op = "edit"
  /\ attempt' = attempt + 1
  /\ status' = "failed"
  /\ failure' = "deadlock"
  /\ UNCHANGED <<plan, approved, artifacts, overrides, published, edited, mixed, edits, call>>

-----------------------------------------------------------------------------
(* What a request sees: _result_artifacts_for_run.                         *)

\* An attempt may have failed before anything was persisted.  Then the request
\* computes a result of its own, and writes the status that goes with it.
Computed ==
  LET Answer(verdict, x, found) ==
        [status |-> verdict, solved |-> verdict = "succeeded", slots |-> Slots(Problem),
         posts |-> PostsOf, rows |-> SolverRows(x), issues |-> found,
         proposals |-> SolverProposals(found)]
  IN  {Answer("succeeded", x, SolverIssues(x)) : x \in FeasibleSets(Problem)}
        \cup {Answer("failed", {}, {})}

Shown ==
  CASE status = "queued" ->
         {[status |-> status, solved |-> FALSE, slots |-> {}, posts |-> <<>>, rows |-> {},
           issues |-> {}, proposals |-> {}]}
    [] status # "queued" /\ slots = {} -> Computed
    [] OTHER ->
         {[status |-> status, solved |-> failure = "none", slots |-> slots, posts |-> posts,
           rows |-> rows, issues |-> issues, proposals |-> proposals]}

\* The status that a request writes with its commit, if any.
Writes(shown) == IF shown.status = status THEN None ELSE shown.status

-----------------------------------------------------------------------------
(* What administrators do.                                                 *)

\* recalculate_schedule_run: after an approval.
Recalculate ==
  /\ status # "queued"
  /\ published = None
  /\ approved # {}
  /\ status' = "queued"
  /\ UNCHANGED <<plan, approved, attempt, artifacts, overrides, published, history,
                 call>>

\* The reference data are replaced while the run exists.
Replan ==
  /\ \E new \in Plans :
       /\ new # plan /\ new.first = plan.first /\ new.last = plan.last
       /\ plan' = new
  /\ OutdateAll
  /\ UNCHANGED <<approved, status, attempt, artifacts, overrides, published, history>>

\* approve_relaxation_proposal.
Approve(shown, q) ==
  /\ q \in shown.proposals
  /\ <<q.employee, q.slot>> \notin approved
  /\ approved' = approved \cup {<<q.employee, q.slot>>}
  /\ status' = shown.status
  /\ UNCHANGED <<plan, attempt, artifacts, overrides, published, history, call>>

\* A plausible slip: the assignment to replace is never looked for.
ReplacedByNone(shown, edit) == {}

\* The id of the assignment an edit takes the place of: none while the post has
\* room, else one that is not locked, else any of the post's.
Replaced(shown, edit) ==
  LET present == {a \in shown.rows : KeyOf(a) = KeyOf(edit)}
      free == {a \in present : ~a.locked}
  IN  IF \/ KeyOf(edit) \notin {<<r.slot, r.role>> : r \in DOMAIN shown.posts}
         \/ Cardinality(present) < shown.posts[[slot |-> edit.slot, role |-> edit.role]]
         \/ present = {}
      THEN {}
      ELSE {(CHOOSE a \in IF free # {} THEN free ELSE present : TRUE).id}

\* save_manual_edit, up to its first statement that writes.
BeginEdit(c, shown, edit) ==
  LET old == Replaced(shown, edit)
      present == {a \in shown.rows : KeyOf(a) = KeyOf(edit)} IN
  /\ published = None
  /\ call[c] = NoCall
  /\ edits + Cardinality({d \in Clients : call[d].op = "edit"}) < MaxEdits(plan)
  /\ \E verdict \in LeaveVerdicts(Problem, edit.employee, edit.slot) :
       ValidEdit(Problem, shown.slots, shown.rows, edit, verdict)
  /\ Begin(c, [op |-> "edit", edit |-> edit, fresh |-> TRUE, attempt |-> attempt, old |-> old,
               writes |-> Writes(shown),
               id |-> IF old = {} THEN ManualId(edit, Cardinality(present) + 1)
                      ELSE CHOOSE id \in old : TRUE])
  /\ UNCHANGED <<plan, approved, status, attempt, artifacts, overrides, published,
                 history>>

\* The row it read is deleted by its key, the new one inserted under a key of
\* its own or the same, and all the issues of the post are taken to be resolved.
Edit(c) ==
  LET e == call[c].edit
      rest == {a \in rows : a.id \notin call[c].old}
      new == [id |-> call[c].id, slot |-> e.slot, role |-> e.role, employee |-> e.employee,
              manual |-> TRUE, locked |-> e.locked] IN
  /\ call[c].op = "edit"
  /\ ~SameId(rest \cup {new})
  /\ ~TwiceInSlot(rest \cup {new})
  /\ e.slot \in slots
  /\ rows' = rest \cup {new}
  /\ issues' = {i \in issues : KeyOf(i) # KeyOf(e)}
  /\ proposals' = {q \in proposals : q.slot # e.slot}
  /\ edited' = edited \cup {e.slot}
  /\ edits' = edits + 1
  /\ mixed' = (mixed \/ call[c].attempt # attempt)
  /\ status' = IF call[c].writes = None THEN status ELSE call[c].writes
  /\ EndAndOutdate(c)
  /\ UNCHANGED <<plan, approved, attempt, slots, posts, overrides, published,
                 failure>>

\* A request fails or is rolled back.
GiveUp(c) ==
  /\ call[c] # NoCall
  /\ End(c)
  /\ UNCHANGED <<plan, approved, status, attempt, artifacts, overrides, published,
                 history>>

\* The shifts that compliance.py is given for these assignments.
ShiftsOf(S) ==
  {[employee |-> a.employee, slot |-> a.slot, start |-> Starts(Problem, a.slot),
    end |-> Ends(Problem, a.slot), nightLabel |-> FALSE] : a \in S}

\* create_compliance_warning_override, from the rows whatever the status.
Override(warning) ==
  LET key == C!InstanceKey(warning, ShiftsOf(rows)) IN
  /\ warning \in C!Blocking(ShiftsOf(rows))
  /\ key \notin overrides
  /\ Cardinality(overrides) < MaxOverrides
  /\ overrides' = overrides \cup {key}
  /\ UNCHANGED <<plan, approved, status, attempt, artifacts, published, history, call>>

\* Plausible slips: an override counts for any assignments, issues do not count.
BeginPublishForAnyRows(c, shown) ==
  /\ published = None
  /\ shown.issues = {}
  /\ \A w \in C!Blocking(ShiftsOf(shown.rows)) : \E k \in overrides : k.warning = w
  /\ Begin(c, [op |-> "publish", shown |-> shown, writes |-> Writes(shown)])
  /\ UNCHANGED <<plan, approved, status, attempt, artifacts, overrides, published,
                 history>>

BeginPublishWithIssues(c, shown) ==
  /\ published = None
  /\ \A w \in C!Blocking(ShiftsOf(shown.rows)) :
       C!InstanceKey(w, ShiftsOf(shown.rows)) \in overrides
  /\ Begin(c, [op |-> "publish", shown |-> shown, writes |-> Writes(shown)])
  /\ UNCHANGED <<plan, approved, status, attempt, artifacts, overrides, published,
                 history>>

\* publish_schedule_run, the gate.  The slots keep the hours they had.
BeginPublish(c, shown) ==
  /\ published = None
  /\ shown.issues = {}
  /\ \A w \in C!Blocking(ShiftsOf(shown.rows)) :
       C!InstanceKey(w, ShiftsOf(shown.rows)) \in overrides
  /\ Begin(c, [op |-> "publish", shown |-> shown, writes |-> Writes(shown)])
  /\ UNCHANGED <<plan, approved, status, attempt, artifacts, overrides, published,
                 history>>

Publish(c) ==
  /\ call[c].op = "publish"
  /\ published = None
  /\ published' = [rows |-> call[c].shown.rows, posts |-> call[c].shown.posts,
                   solved |-> call[c].shown.solved]
  /\ status' = IF call[c].writes = None THEN status ELSE call[c].writes
  /\ End(c)
  /\ UNCHANGED <<plan, approved, attempt, artifacts, overrides, history>>

-----------------------------------------------------------------------------
Edits(shown) ==
  [slot : shown.slots, role : {r.role : r \in DOMAIN shown.posts},
   employee : DOMAIN plan.staff, locked : BOOLEAN]

Next ==
  \/ Attempt \/ AttemptUnsolved \/ AttemptAborted
  \/ Recalculate
  \/ Replan
  \/ \E w \in C!Blocking(ShiftsOf(rows)) : Override(w)
  \/ \E shown \in Shown :
       \/ \E q \in shown.proposals : Approve(shown, q)
       \/ \E c \in Clients :
            \/ \E edit \in Edits(shown) : BeginEdit(c, shown, edit)
            \/ BeginPublish(c, shown)
  \/ \E c \in Clients : Edit(c) \/ Publish(c) \/ GiveUp(c)

Spec == Init /\ [][Next]_vars

-----------------------------------------------------------------------------
(* Properties.                                                             *)

Row(a) ==
  /\ a.slot.day \in plan.first..plan.last
  /\ a.slot.type \in DOMAIN plan.types
  /\ a.employee \in UNION {DOMAIN p.staff : p \in Plans}
  /\ a.locked => a.manual

TypeOK ==
  /\ plan \in Plans
  /\ status \in {"queued", "succeeded", "failed"}
  /\ attempt \in 0..MaxAttempts
  /\ \A a \in rows : Row(a)
  /\ ~SameId(rows)
  /\ \A i \in issues : i.slot \in slots /\ i.missing > 0
  /\ \A q \in proposals : q.slot \in slots
  /\ failure \in {"none", "unsolved", "deadlock", "proposals", "slots", "double", "ids"}
  /\ edited \subseteq slots
  /\ \A c \in Clients : call[c].op \in {"none", "edit", "publish"}

\* "Recalculation never overwrites a locked manual assignment"
\* (schedule-run-state-machine.md:56): it leaves only for an edit of its own
\* slot and role, unless some edit has read the rows of an earlier attempt.
LockedAssignmentsKept ==
  [][\A a \in rows : a.manual /\ a.locked /\ a \notin rows' =>
       \E c \in Clients :
         /\ call[c].op = "edit"
         /\ KeyOf(call[c].edit) = KeyOf(a) \/ call[c].attempt # attempt \/ mixed]_vars

\* The merge of an answer with the locked assignments gives nobody two
\* assignments in one slot, which the table would reject, whatever the
\* assignments and the answer (schedule_runs.py:1834).
MergeKeepsUnique == failure # "double"

\* An administrator sees every post that an attempt could not fill, as long as
\* nobody has put anyone into that slot by hand.
ShortfallShown ==
  failure = "none" /\ ~mixed =>
    \A r \in DOMAIN posts :
      /\ Cardinality(For(rows, r)) < posts[r]
      /\ r.slot \notin edited
      /\ \A a \in In(rows, r.slot) : ~a.manual
      => \E i \in issues : KeyOf(i) = KeyOf(r)

\* "Unassigned posts are not hidden" (README.md:32), with edits too.
ShortfallsShown ==
  failure = "none" =>
    \A r \in DOMAIN posts :
      Cardinality(For(rows, r)) < posts[r] => \E i \in issues : KeyOf(i) = KeyOf(r)

Overfilled(S) == {r \in DOMAIN posts : Cardinality(For(S, r)) > posts[r]}
Together(S) == {k \in plan.blocked \X slots : k[1] \subseteq {a.employee : a \in In(S, k[2])}}

\* An edit that decided on what is still so puts nobody too many into a post
\* and no blocked pair into a slot (schedule_runs.py:628-720).
FreshEditsRespect ==
  [][\A c \in Clients :
       Edit(c) /\ call[c].fresh =>
         /\ Overfilled(rows') \subseteq Overfilled(rows)
         /\ Together(rows') \subseteq Together(rows)]_vars

\* What is published with too many hours has been overridden for exactly the
\* assignments that were published, however they came to be between the
\* override and the publication (schedule_runs.py:1003).
PublishedJustified ==
  published # None =>
    \A w \in C!Blocking(ShiftsOf(published.rows)) :
      \E k \in overrides : k.warning = w /\ k.hash = ShiftsOf(published.rows)

\* What is published from an answer nobody has edited has every post filled.
PublishedComplete ==
  published # None =>
    (published.solved /\ (\A a \in published.rows : ~a.manual) =>
       \A r \in DOMAIN published.posts :
         Cardinality(For(published.rows, r)) >= published.posts[r])

=============================================================================
