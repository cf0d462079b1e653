------------------------------ MODULE Publications ------------------------------
(***************************************************************************)
(* What comes with a publication (publish_schedule_run in                  *)
(* api/routes/schedule_runs.py): the acknowledgements that its employees   *)
(* are asked for and the notifications that are recorded for them; the     *)
(* links and pages on which they read and acknowledge it                   *)
(* (api/routes/employee_self_service.py); and the dispatch of the          *)
(* notifications (notifications/dispatcher.py, notifications/providers.py).*)
(*                                                                         *)
(* The publication of a run has the run's name: there is at most one.  A   *)
(* roster, the part of a result that matters here, is a set of pairs       *)
(* <<employee, day>>.  A dispatch reads a batch, delivers one notification *)
(* at a time, and commits what became of all of them at the end.           *)
(***************************************************************************)
EXTENDS Integers, FiniteSets, FiniteSetsExt

CONSTANTS
  Runs, Employees,
  First, Last,     \* [Runs -> day]: the periods
  Results,         \* [Runs -> set of rosters]: what a run's result may be
  Reachable,       \* the employees with a linked user, who has an address
  Channels,        \* the channels used next to in_app: email, slack
  Configured,      \* those with a provider
  Clients,         \* administrators and the requests they make
  Limit,           \* the most that a dispatch takes
  MaxExtra,        \* bound on the notifications recorded for other channels
  MaxDeliveries    \* a notification that went out so often is not dispatched again

ASSUME PublicationsAssumption ==
  /\ \A r \in Runs : First[r] \in Nat /\ Last[r] \in Nat /\ First[r] <= Last[r]
  /\ \A r \in Runs : \A roster \in Results[r] : \A k \in roster : k[1] \in Employees
  /\ Channels \subseteq {"email", "slack"} /\ Configured \subseteq Channels
  /\ Limit \in Nat \ {0} /\ MaxExtra \in Nat /\ MaxDeliveries \in Nat

VARIABLES
  result,     \* [Runs -> roster]: the persisted result
  pubs,       \* run -> its publication: status, roster, changed
  clock,      \* time, which passes with every commit that records notifications
  acks,       \* <<run, employee>> -> "pending" or "acknowledged"
  notes,      \* <<run, employee, channel>> -> type, created, status, attempts
  call,       \* [Clients -> what the client's request is at]
  delivered,  \* history: <<run, employee, channel>> -> how often it went out
  disturbed   \* history: a dispatch died, or ran while another did

vars == <<result, pubs, clock, acks, notes, call, delivered, disturbed>>

NoCall == [op |-> "none"]

Init ==
  /\ result \in [Runs -> UNION {Results[r] : r \in Runs}]
  /\ \A r \in Runs : result[r] \in Results[r]
  /\ pubs = [r \in {} |-> {}]
  /\ clock = 0
  /\ acks = [k \in {} |-> ""]
  /\ notes = [k \in {} |-> {}]
  /\ call = [c \in Clients |-> NoCall]
  /\ delivered = [k \in {} |-> 0]
  /\ disturbed = FALSE

\* The rows of f and those of g, of which g's are new.
With(f, g) == [k \in DOMAIN f \cup DOMAIN g |-> IF k \in DOMAIN g THEN g[k] ELSE f[k]]

InForce == {r \in DOMAIN pubs : pubs[r].status = "published"}
Staff(roster) == {k[1] : k \in roster}

-----------------------------------------------------------------------------
(* Publishing.                                                             *)

\* The comparison of the query: periods that share one day do not overlap.
Overlapping(r) == {s \in InForce : First[s] < Last[r] /\ Last[s] > First[r]}

\* A run that is not published may get another result.
Rework(r) ==
  /\ r \notin InForce
  /\ \E roster \in Results[r] : result' = [result EXCEPT ![r] = roster]
  /\ UNCHANGED <<pubs, clock, acks, notes, call, delivered, disturbed>>

\* publish_schedule_run, up to the new rows.
BeginPublish(c, r, replace) ==
  /\ call[c] = NoCall
  /\ r \notin DOMAIN pubs
  /\ Overlapping(r) # {} => replace
  /\ call' = [call EXCEPT ![c] = [op |-> "publish", run |-> r, roster |-> result[r],
                                  archived |-> Overlapping(r), now |-> clock]]
  /\ UNCHANGED <<result, pubs, clock, acks, notes, delivered, disturbed>>

\* A plausible slip: the employees are those of the result as it is by now.
AffectedByNow(p) == Staff(result[p.run])

\* affected_employee_ids, of the artifacts that the request has read.
Affected(p) == Staff(p.roster)

\* The rows, in one commit.  The key on the run rejects a second publication.
CommitPublish(c) ==
  LET p == call[c]
      new == [status |-> "published", roster |-> p.roster, changed |-> p.archived # {}]
      staff == Affected(p)
  IN
  /\ p.op = "publish"
  /\ p.run \notin DOMAIN pubs
  /\ pubs' = With([r \in DOMAIN pubs |->
                     IF r \in p.archived THEN [pubs[r] EXCEPT !.status = "archived"] ELSE pubs[r]],
                  [r \in {p.run} |-> new])
  /\ acks' = With(acks, [k \in {p.run} \X staff |-> "pending"])
  /\ notes' = With(notes, [k \in {p.run} \X staff \X {"in_app"} |->
       [type |-> IF new.changed THEN "changed" ELSE "published", created |-> p.now,
        status |-> "pending_recorded", attempts |-> 0]])
  /\ clock' = clock + 1
  /\ call' = [call EXCEPT ![c] = NoCall]
  /\ UNCHANGED <<result, delivered, disturbed>>

\* Bound: the notifications for other channels.
Room == Cardinality({n \in DOMAIN notes : n[3] # "in_app"}) < MaxExtra

\* A notification for another channel, which the table and the dispatch are
\* made for, though publish_schedule_run itself only records in_app.  As it does
\* there, its time is taken before its commit: others may record meanwhile.
BeginRecord(c, k) ==
  /\ Room
  /\ call[c] = NoCall
  /\ <<k[1], k[2], "in_app">> \in DOMAIN notes
  /\ k \notin DOMAIN notes
  /\ call' = [call EXCEPT ![c] = [op |-> "record", key |-> k, now |-> clock]]
  /\ UNCHANGED <<result, pubs, clock, acks, notes, delivered, disturbed>>

CommitRecord(c) ==
  LET k == call[c].key IN
  /\ call[c].op = "record"
  /\ k \notin DOMAIN notes
  /\ Room
  /\ clock' = clock + 1
  /\ notes' = With(notes, [n \in {k} |-> [type |-> "published", created |-> call[c].now,
                                          status |-> "pending_recorded", attempts |-> 0]])
  /\ delivered' = With(delivered, [n \in {k} |-> 0])
  /\ call' = [call EXCEPT ![c] = NoCall]
  /\ UNCHANGED <<result, pubs, acks, disturbed>>

-----------------------------------------------------------------------------
(* Reading and acknowledging.                                              *)

\* _verify_employee_publication_link, for whoever holds the employee's link:
\* an archived publication no longer opens.
Opens(r) == r \in InForce

\* _employee_schedule_cards: the employee's part of the published snapshot.
Cards(r, e) == {k \in pubs[r].roster : k[1] = e}

Acknowledged(r, e) == acks' = [acks EXCEPT ![<<r, e>>] = "acknowledged"]

\* acknowledge_employee_publication_link.
AcknowledgeByLink(r, e) ==
  /\ Opens(r)
  /\ <<r, e>> \in DOMAIN acks
  /\ Acknowledged(r, e)
  /\ UNCHANGED <<result, pubs, clock, notes, call, delivered, disturbed>>

\* acknowledge_publication, by an administrator or a linked employee: of an
\* archived publication too.
Acknowledge(r, e) ==
  /\ <<r, e>> \in DOMAIN acks
  /\ Acknowledged(r, e)
  /\ UNCHANGED <<result, pubs, clock, notes, call, delivered, disturbed>>

-----------------------------------------------------------------------------
(* dispatch_pending_notifications.                                         *)

\* A plausible slip: what has failed is taken up again.
PendingOrFailed == {k \in DOMAIN notes : notes[k].status \in {"pending_recorded", "failed"}}

Pending == {k \in DOMAIN notes : notes[k].status = "pending_recorded"}

\* A plausible slip: the query has no order.
BatchesInAnyOrder ==
  {S \in SUBSET Pending : Cardinality(S) = Min({Limit, Cardinality(Pending)})}

\* The oldest; those recorded at one time come in no particular order.
Batches ==
  {S \in SUBSET Pending :
     /\ Cardinality(S) = Min({Limit, Cardinality(Pending)})
     /\ \A k \in S, n \in Pending \ S : notes[k].created <= notes[n].created}

Dispatching == {c \in Clients : call[c].op = "dispatch"}

\* The request keeps what it has read; `seen`, for the properties, is what was
\* pending when it read its batch.
BeginDispatch(c) ==
  /\ call[c] = NoCall
  /\ Pending # {}
  /\ \E S \in Batches :
       /\ \A k \in S \cap DOMAIN delivered : delivered[k] < MaxDeliveries
       /\ call' = [call EXCEPT ![c] = [op |-> "dispatch", todo |-> S, seen |-> Pending,
         attempts |-> [k \in S |-> notes[k].attempts], outcome |-> [k \in {} |-> ""]]]
  /\ disturbed' = (disturbed \/ Dispatching # {})
  /\ UNCHANGED <<result, pubs, clock, acks, notes, delivered>>

\* An e-mail needs an address, and every channel its provider.
Deliverable(k) == k[3] \in Configured /\ (k[3] = "email" => k[2] \in Reachable)

\* What may become of a delivery.  A provider can raise after it has delivered.
\* A plausible slip: an exception of the provider counts as sent.
FatesForgiving(k) ==
  CASE k[3] = "in_app" -> {[status |-> "sent", out |-> FALSE]}
    [] k[3] # "in_app" /\ ~Deliverable(k) -> {[status |-> "suppressed", out |-> FALSE]}
    [] OTHER -> {[status |-> "sent", out |-> out] : out \in BOOLEAN}

Fates(k) ==
  CASE k[3] = "in_app" -> {[status |-> "sent", out |-> FALSE]}
    [] k[3] # "in_app" /\ ~Deliverable(k) -> {[status |-> "suppressed", out |-> FALSE]}
    [] OTHER -> {[status |-> "sent", out |-> TRUE]} \cup
                {[status |-> "failed", out |-> out] : out \in BOOLEAN}

\* The next of the batch.
Deliver(c, k) ==
  /\ call[c].op = "dispatch"
  /\ k \in call[c].todo
  /\ \A n \in call[c].todo : notes[k].created <= notes[n].created
  /\ \E fate \in Fates(k) :
       /\ call' = [call EXCEPT ![c].todo = @ \ {k},
                               ![c].outcome = With(@, [n \in {k} |-> fate.status])]
       /\ delivered' = IF fate.out THEN [delivered EXCEPT ![k] = @ + 1] ELSE delivered
  /\ UNCHANGED <<result, pubs, clock, acks, notes, disturbed>>

\* What the commit writes: numbers and states computed from the batch.
\* A plausible slip: the attempt is not counted.
HandledUncounted(c, k) == [notes[k] EXCEPT !.status = call[c].outcome[k]]

Handled(c, k) ==
  [notes[k] EXCEPT !.status = call[c].outcome[k], !.attempts = call[c].attempts[k] + 1]

CommitDispatch(c) ==
  /\ call[c].op = "dispatch"
  /\ call[c].todo = {}
  /\ notes' = [k \in DOMAIN notes |-> IF k \in DOMAIN call[c].outcome THEN Handled(c, k) ELSE notes[k]]
  /\ call' = [call EXCEPT ![c] = NoCall]
  /\ UNCHANGED <<result, pubs, clock, acks, delivered, disturbed>>

\* A request dies, and with it what it has not committed.
Die(c) ==
  /\ call[c] # NoCall
  /\ call' = [call EXCEPT ![c] = NoCall]
  /\ disturbed' = (disturbed \/ call[c].op = "dispatch")
  /\ UNCHANGED <<result, pubs, clock, acks, notes, delivered>>

Next ==
  \/ \E r \in Runs : Rework(r)
  \/ \E r \in Runs, e \in Employees :
       \/ AcknowledgeByLink(r, e)
       \/ Acknowledge(r, e)
  \/ \E c \in Clients :
       \/ \E r \in Runs, replace \in BOOLEAN : BeginPublish(c, r, replace)
       \/ CommitPublish(c)
       \/ \E k \in Runs \X Employees \X Channels : BeginRecord(c, k)
       \/ CommitRecord(c)
       \/ BeginDispatch(c)
       \/ \E k \in DOMAIN notes : Deliver(c, k)
       \/ CommitDispatch(c)
       \/ Die(c)

Spec == Init /\ [][Next]_vars

-----------------------------------------------------------------------------
(* Properties.                                                             *)

TypeOK ==
  /\ DOMAIN pubs \subseteq Runs
  /\ \A r \in DOMAIN pubs : pubs[r].status \in {"published", "archived"}
  /\ DOMAIN acks \subseteq (DOMAIN pubs) \X Employees
  /\ \A k \in DOMAIN acks : acks[k] \in {"pending", "acknowledged"}
  /\ DOMAIN notes \subseteq (DOMAIN pubs) \X Employees \X ({"in_app"} \cup Channels)
  /\ \A k \in DOMAIN notes :
       /\ notes[k].status \in {"pending_recorded", "sent", "failed", "suppressed"}
       /\ notes[k].attempts \in Nat
       /\ notes[k].status # "pending_recorded" => notes[k].attempts > 0
  /\ DOMAIN delivered = {k \in DOMAIN notes : k[3] # "in_app"}

\* The employees asked to acknowledge a publication are those who find
\* something on its page, however the result of the run has changed while it
\* was published or after it was archived (schedule_runs.py:1092-1119,
\* employee_self_service.py:712).
AskedForWhatTheySee ==
  \A r \in DOMAIN pubs : \A e \in Employees :
    <<r, e>> \in DOMAIN acks <=> Cards(r, e) # {}

\* A notification that goes out again does so because a dispatch died before
\* its commit or ran next to another one (dispatcher.py:41-79).
DeliveredOnce == ~disturbed => \A k \in DOMAIN delivered : delivered[k] <= 1

\* What is recorded as sent has gone out, whatever dispatches do to each other.
SentWasDelivered ==
  \A k \in DOMAIN delivered : notes[k].status = "sent" => delivered[k] > 0

\* A dispatch delivers nothing before an older notification of the same employee
\* and channel that was pending when it read its batch: a backlog longer than
\* the limit is worked off from its old end, whatever is recorded or dispatched
\* meanwhile (dispatcher.py:44-46).  One recorded with an older time after the
\* batch was read comes later.
DeliveredInOrder ==
  [][\A c \in Clients : call[c].op = "dispatch" =>
       \A k \in call[c].todo \cap DOMAIN delivered, n \in call[c].seen :
         /\ k[2] = n[2] /\ k[3] = n[3] /\ notes[n].created < notes[k].created
         /\ call'[c] # call[c] /\ delivered'[k] > delivered[k]
         => n \in DOMAIN call[c].outcome]_vars

=============================================================================
