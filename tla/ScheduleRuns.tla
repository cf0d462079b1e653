---------------------------- MODULE ScheduleRuns ----------------------------
(***************************************************************************)
(* The life of a schedule run: the row of schedule_runs and its persisted  *)
(* artifacts, the workers that execute it (worker/schedule_worker.py), the *)
(* administrators' requests that change it (api/routes/schedule_runs.py),  *)
(* and the job queue between them, which is JobDelivery.                   *)
(*                                                                         *)
(* A request reads, decides, and commits: two steps, with anything in      *)
(* between, because nothing locks the row when it is read.  A worker flushes *)
(* "running" without committing it, so no one else ever sees that status,  *)
(* and holds the row lock until it commits; every UPDATE of the row waits  *)
(* for that lock.  The content of a result is one of a few values.  The    *)
(* period of a run has at least one shift.                                 *)
(***************************************************************************)
EXTENDS Integers, FiniteSets

CONSTANTS
  Runs, Jobs, Workers, Clients,
  Results,       \* what the solver or an edit can leave behind
  Clean,         \* the results without issues that can be published
  Bare,          \* shifts without any assignment or issue: no solution
  Empty,         \* what a request is shown while the run is queued
  NoResult,      \* nothing is persisted, or nothing was read
  NoRun, NoJob,
  Period,        \* Period[r]: the period of run r, in days
  MaxRecalculations,  \* 3 in the code
  RowSecurity    \* whether the row-level security policies bind the worker

ASSUME ScheduleRunsAssumption ==
  /\ Clean \subseteq Results
  /\ Bare \in Clean
  /\ Empty \notin Results /\ NoResult \notin Results \cup {Empty}
  /\ NoRun \notin Runs /\ NoJob \notin Jobs
  /\ Period \in [Runs -> [start : Nat, end : Nat]]
  /\ MaxRecalculations \in Nat
  /\ RowSecurity \in BOOLEAN

VARIABLES
  status,     \* status[r]: the committed status, "absent" before creation
  recalcs,    \* recalcs[r]: recalculation_count
  approved,   \* the runs with an override approval
  result,     \* result[r]: the persisted artifacts
  pub,        \* pub[r]: the status of its publication, "absent" if none
  snapshot,   \* snapshot[r]: result_snapshot_json of its publication
  place, done, dropped,  \* the job queue, see JobDelivery
  runOf,      \* runOf[j]: the run job j is for
  pc,         \* pc[w]: where worker w is
  job,        \* job[w]: the job worker w deals with
  seen,       \* seen[w]: the status it read before it records a failure
  call,       \* call[c]: the request of client c, between read and commit
  stranded,   \* history: runs whose producer died before the enqueue, or
              \* whose job was dropped
  quiet       \* history: runs published while nothing was going on

row == <<status, recalcs, result>>
publications == <<pub, snapshot, quiet>>
queue == <<place, done, dropped>>
work == <<pc, job, seen>>
vars == <<row, approved, publications, queue, runOf, work, call, stranded>>

Delivery == INSTANCE JobDelivery

Outcomes == {"succeeded", "infeasible", "failed"}
Status == Outcomes \cup {"absent", "queued", "canceled"}
PublicationStatus == {"absent", "published", "archived"}
Stages == {"idle", "taken", "claiming", "solving", "failing", "recording", "acking"}
Operations == {"none", "enqueue", "cancel", "recalculate", "approve", "edit", "publish"}

\* What a request remembers of what it read: the run, the status it will write
\* over it ("absent": none), the count, the result it was shown, and the
\* publications it will archive.
Calls ==
  [op : Operations, run : Runs \cup {NoRun}, writes : Status,
   recalcs : 0..MaxRecalculations, view : Results \cup {Empty, NoResult},
   others : SUBSET Runs]

Request(op, r) ==
  [op |-> op, run |-> r, writes |-> "absent", recalcs |-> 0,
   view |-> NoResult, others |-> {}]

NoCall == Request("none", NoRun)

RowTypeOK ==
  /\ status \in [Runs -> Status]
  /\ recalcs \in [Runs -> 0..MaxRecalculations]
  /\ approved \subseteq Runs
  /\ result \in [Runs -> Results \cup {NoResult}]

PublicationTypeOK ==
  /\ pub \in [Runs -> PublicationStatus]
  /\ snapshot \in [Runs -> Results \cup {Empty, NoResult}]
  /\ quiet \subseteq Runs

QueueTypeOK ==
  /\ place \in [Jobs -> {"unsent", "waiting", "inflight", "gone"}]
  /\ done \subseteq Jobs
  /\ dropped \subseteq Jobs
  /\ runOf \in [Jobs -> Runs \cup {NoRun}]
  /\ stranded \subseteq Runs

WorkTypeOK ==
  /\ pc \in [Workers -> Stages]
  /\ job \in [Workers -> Jobs \cup {NoJob}]
  /\ seen \in [Workers -> Status]

CallTypeOK == call \in [Clients -> Calls]

TypeOK == RowTypeOK /\ PublicationTypeOK /\ QueueTypeOK /\ WorkTypeOK /\ CallTypeOK

Init ==
  /\ status = [r \in Runs |-> "absent"]
  /\ recalcs = [r \in Runs |-> 0]
  /\ approved = {}
  /\ result = [r \in Runs |-> NoResult]
  /\ pub = [r \in Runs |-> "absent"]
  /\ snapshot = [r \in Runs |-> NoResult]
  /\ Delivery!Init
  /\ runOf = [j \in Jobs |-> NoRun]
  /\ pc = [w \in Workers |-> "idle"]
  /\ job = [w \in Workers |-> NoJob]
  /\ seen = [w \in Workers |-> "absent"]
  /\ call = [c \in Clients |-> NoCall]
  /\ stranded = {}
  /\ quiet = {}

\* The run worker w is dealing with.
Serving(w) == IF job[w] = NoJob THEN NoRun ELSE runOf[job[w]]

\* The row lock of r is held by the worker whose transaction has updated it.
Locked(r) == \E w \in Workers : pc[w] = "solving" /\ Serving(w) = r

Goto(w, from, to) ==
  /\ pc[w] = from
  /\ pc' = [pc EXCEPT ![w] = to]

-----------------------------------------------------------------------------
(* A worker: process_next_schedule_run around execute_schedule_run.        *)

Take(w, j) ==
  /\ Goto(w, "idle", "taken")
  /\ Delivery!Deliver(j)
  /\ job' = [job EXCEPT ![w] = j]
  /\ UNCHANGED <<row, approved, publications, runOf, seen, call, stranded>>

\* The first read.  A run that is not queued is left alone.
Read(w) ==
  /\ pc[w] = "taken"
  /\ \/ /\ status[Serving(w)] = "queued"
        /\ pc' = [pc EXCEPT ![w] = "claiming"]
        /\ UNCHANGED queue
     \/ /\ status[Serving(w)] # "queued"
        /\ pc' = [pc EXCEPT ![w] = "acking"]
        /\ Delivery!Perform(job[w])
  /\ UNCHANGED <<row, approved, publications, runOf, job, seen, call, stranded>>

\* The flush of "running": the UPDATE waits for the row lock, then holds it.
\* What the status is by now is not looked at.
Claim(w) ==
  /\ Goto(w, "claiming", "solving")
  /\ ~Locked(Serving(w))
  /\ UNCHANGED <<row, approved, publications, queue, runOf, job, seen,
                 call, stranded>>

\* What the solver leaves behind with an outcome.
Content(outcome) == IF outcome = "succeeded" THEN Results \ {Bare} ELSE {Bare}

\* A plausible slip: "running" is not turned into an outcome.
FinishRunning(w, outcome) ==
  /\ Goto(w, "solving", "acking")
  /\ status' = [status EXCEPT ![Serving(w)] = "running"]
  /\ \E new \in Content(outcome) : result' = [result EXCEPT ![Serving(w)] = new]
  /\ Delivery!Perform(job[w])
  /\ UNCHANGED <<recalcs, approved, publications, runOf, job, seen,
                 call, stranded>>

\* The executor has replaced the artifacts, and status and artifacts commit.
Finish(w, outcome) ==
  /\ Goto(w, "solving", "acking")
  /\ status' = [status EXCEPT ![Serving(w)] = outcome]
  /\ \E new \in Content(outcome) : result' = [result EXCEPT ![Serving(w)] = new]
  /\ Delivery!Perform(job[w])
  /\ UNCHANGED <<recalcs, approved, publications, runOf, job, seen,
                 call, stranded>>

\* The executor raises and the transaction is rolled back.
Raise(w) ==
  /\ Goto(w, "solving", "failing")
  /\ UNCHANGED <<row, approved, publications, queue, runOf, job, seen,
                 call, stranded>>

\* A plausible slip: no failure is ever recorded.
RereadOnly(w) ==
  /\ Goto(w, "failing", "acking")
  /\ Delivery!Perform(job[w])
  /\ UNCHANGED <<row, approved, publications, runOf, job, seen, call,
                 stranded>>

\* The read after the rollback.  The rollback has also undone the tenant
\* context, which was local to the transaction: under row-level security the
\* row is not found, and the LookupError acknowledges the job.
Reread(w) ==
  /\ pc[w] = "failing"
  /\ \/ /\ RowSecurity \/ status[Serving(w)] = "canceled"
        /\ pc' = [pc EXCEPT ![w] = "acking"]
        /\ Delivery!Perform(job[w])
        /\ UNCHANGED seen
     \/ /\ ~RowSecurity /\ status[Serving(w)] # "canceled"
        /\ pc' = [pc EXCEPT ![w] = "recording"]
        /\ seen' = [seen EXCEPT ![w] = status[Serving(w)]]
        /\ UNCHANGED queue
  /\ UNCHANGED <<row, approved, publications, runOf, job, call, stranded>>

\* The commit of "failed".  The UPDATE names the status only if it is not the
\* one that was read.
Record(w) ==
  /\ Goto(w, "recording", "acking")
  /\ ~Locked(Serving(w))
  /\ status' = IF seen[w] = "failed" THEN status
               ELSE [status EXCEPT ![Serving(w)] = "failed"]
  /\ Delivery!Perform(job[w])
  /\ seen' = [seen EXCEPT ![w] = "absent"]
  /\ UNCHANGED <<recalcs, result, approved, publications, runOf, job,
                 call, stranded>>

\* ack: it finds the job in the processing list, or it does not any more.
Ack(w) ==
  /\ Goto(w, "acking", "idle")
  /\ IF place[job[w]] = "inflight" THEN Delivery!Forget(job[w]) ELSE UNCHANGED queue
  /\ job' = [job EXCEPT ![w] = NoJob]
  /\ UNCHANGED <<row, approved, publications, runOf, seen, call, stranded>>

\* The process dies, its transaction is rolled back, its job stays where it is.
Crash(w) ==
  /\ pc[w] # "idle"
  /\ pc' = [pc EXCEPT ![w] = "idle"]
  /\ job' = [job EXCEPT ![w] = NoJob]
  /\ seen' = [seen EXCEPT ![w] = "absent"]
  /\ UNCHANGED <<row, approved, publications, queue, runOf, call, stranded>>

\* recover_in_progress of a worker that starts.
Redeliver(j) ==
  /\ Delivery!Redeliver(j)
  /\ UNCHANGED <<row, approved, publications, runOf, work, call, stranded>>

\* The same worker dies while it has the job in its hands.
Drop(j) ==
  /\ Delivery!Drop(j)
  /\ stranded' = stranded \cup {runOf[j]}
  /\ UNCHANGED <<row, approved, publications, runOf, work, call>>

-----------------------------------------------------------------------------
(* The administrators' requests.  Begin reads and decides, Commit writes.  *)

Begin(c, request) ==
  /\ call[c] = NoCall
  /\ call' = [call EXCEPT ![c] = request]
  /\ UNCHANGED <<row, approved, publications, queue, runOf, work, stranded>>

\* Bound: a request that will enqueue starts only if a job is left for it.
Spare ==
  Cardinality({j \in Jobs : place[j] = "unsent"}) >
    Cardinality({c \in Clients : call[c].op \in {"enqueue", "recalculate"}})

\* create_schedule_run up to its commit; the enqueue is still to come.
Create(c, r) ==
  /\ Spare
  /\ status[r] = "absent"
  /\ call[c] = NoCall
  /\ call' = [call EXCEPT ![c] = Request("enqueue", r)]
  /\ status' = [status EXCEPT ![r] = "queued"]
  /\ UNCHANGED <<recalcs, result, approved, publications, queue, runOf,
                 work, stranded>>

\* reenqueue_queued_schedule_run (a repeated idempotency key), and the script
\* for queued runs.
Reenqueue(c, r) ==
  /\ Spare
  /\ status[r] = "queued"
  /\ Begin(c, Request("enqueue", r))

\* enqueue_schedule_run_for_run, after the commit of the run.
Enqueue(c) ==
  /\ call[c].op = "enqueue"
  /\ \E j \in Jobs :
       /\ Delivery!Submit(j)
       /\ runOf' = [runOf EXCEPT ![j] = call[c].run]
  /\ stranded' = stranded \ {call[c].run}
  /\ call' = [call EXCEPT ![c] = NoCall]
  /\ UNCHANGED <<row, approved, publications, work>>

\* A request is rolled back: an error, a unique key, a lost connection.
\* After the commit of a run only its enqueue can still fail.
GiveUp(c) ==
  /\ call[c] # NoCall
  /\ stranded' = IF call[c].op = "enqueue" THEN stranded \cup {call[c].run} ELSE stranded
  /\ call' = [call EXCEPT ![c] = NoCall]
  /\ UNCHANGED <<row, approved, publications, queue, runOf, work>>

BeginCancel(c, r) ==
  /\ status[r] = "queued"
  /\ Begin(c, Request("cancel", r))

\* cancel_schedule_run: the row may have moved on since it was read.
Cancel(c) ==
  /\ call[c].op = "cancel"
  /\ ~Locked(call[c].run)
  /\ status' = [status EXCEPT ![call[c].run] = "canceled"]
  /\ call' = [call EXCEPT ![c] = NoCall]
  /\ UNCHANGED <<recalcs, result, approved, publications, queue, runOf,
                 work, stranded>>

BeginRecalculate(c, r) ==
  /\ Spare
  /\ pub[r] # "published"
  /\ status[r] \notin {"absent", "queued"}
  /\ r \in approved
  /\ recalcs[r] < MaxRecalculations
  /\ Begin(c, [Request("recalculate", r) EXCEPT !.recalcs = recalcs[r]])

\* recalculate_schedule_run: the count is written as a number, not added to, so
\* that two requests that have read the same count both go through.
Recalculate(c) ==
  LET r == call[c].run IN
  /\ call[c].op = "recalculate"
  /\ ~Locked(r)
  /\ status' = [status EXCEPT ![r] = "queued"]
  /\ recalcs' = [recalcs EXCEPT ![r] = call[c].recalcs + 1]
  /\ call' = [call EXCEPT ![c] = Request("enqueue", r)]
  /\ stranded' = stranded \ {r}
  /\ UNCHANGED <<result, approved, publications, queue, runOf, work>>

\* _result_artifacts_for_run: nothing while the run is queued, else what is
\* persisted, else a new computation, by the solver, which sets the status of
\* the row as well, or by the fallback, which does not.
Shown(r) ==
  IF status[r] = "queued" THEN {[view |-> Empty, writes |-> "absent"]}
  ELSE IF result[r] # NoResult THEN {[view |-> result[r], writes |-> "absent"]}
  ELSE {[view |-> x, writes |-> "absent"] : x \in Results \ {Bare}} \cup
       UNION {{[view |-> x, writes |-> IF o = status[r] THEN "absent" ELSE o] :
                 x \in Content(o)} : o \in Outcomes}

\* The status goes with the commit only if the request has changed it.
WriteStatus(request) ==
  IF request.writes = "absent"
  THEN UNCHANGED status
  ELSE /\ ~Locked(request.run)
       /\ status' = [status EXCEPT ![request.run] = request.writes]

\* approve_relaxation_proposal: a proposal comes with an issue.  Another one of
\* the run may be approved already.
BeginApprove(c, r) ==
  /\ status[r] # "absent"
  /\ \E shown \in Shown(r) :
       /\ shown.view \in Results \ Clean
       /\ Begin(c, [Request("approve", r) EXCEPT !.writes = shown.writes])

Approve(c) ==
  /\ call[c].op = "approve"
  /\ WriteStatus(call[c])
  /\ approved' = approved \cup {call[c].run}
  /\ call' = [call EXCEPT ![c] = NoCall]
  /\ UNCHANGED <<recalcs, result, publications, queue, runOf, work, stranded>>

\* A plausible slip: a published run can be edited.
BeginEditAnyway(c, r) ==
  /\ status[r] # "queued"
  /\ result[r] # NoResult
  /\ Begin(c, Request("edit", r))

\* save_manual_edit: the assignment must go to a persisted shift.
BeginEdit(c, r) ==
  /\ pub[r] # "published"
  /\ status[r] # "queued"
  /\ result[r] # NoResult
  /\ Begin(c, Request("edit", r))

\* An edit can resolve issues and never adds one.
Edit(c) ==
  LET r == call[c].run IN
  /\ call[c].op = "edit"
  /\ ~Locked(r)
  /\ \E new \in Results :
       /\ result[r] \in Clean => new \in Clean
       /\ result' = [result EXCEPT ![r] = new]
  /\ call' = [call EXCEPT ![c] = NoCall]
  /\ UNCHANGED <<status, recalcs, approved, publications, queue, runOf,
                 work, stranded>>

Overlap(r, s) == Period[r].start < Period[s].end /\ Period[r].end > Period[s].start

\* The active publications that a publication of r would replace.
Overlapping(r) == {s \in Runs : pub[s] = "published" /\ Overlap(s, r)}

\* publish_schedule_run: a result without issues, whatever the status, and no
\* publication of the run yet.
BeginPublish(c, r) ==
  /\ status[r] # "absent"
  /\ pub[r] = "absent"
  /\ \E shown \in Shown(r) :
       /\ shown.view \in Clean \cup {Empty}
       /\ Begin(c, [Request("publish", r) EXCEPT
                      !.writes = shown.writes, !.view = shown.view, !.others = Overlapping(r)])

\* Nothing can still change the result of r, and it is the one that was read.
Quiet(c, r) ==
  /\ status[r] # "queued"
  /\ result[r] \in {call[c].view, NoResult}
  /\ \A w \in Workers : Serving(w) # r \/ pc[w] \notin {"claiming", "solving"}
  /\ \A d \in Clients \ {c} : call[d].run # r \/ call[d].op \notin {"edit", "recalculate"}

\* The key on schedule_run_id lets one publication of the run through.
Publish(c) ==
  LET r == call[c].run IN
  /\ call[c].op = "publish"
  /\ pub[r] = "absent"
  /\ WriteStatus(call[c])
  /\ pub' = [s \in Runs |-> IF s = r THEN "published"
                            ELSE IF s \in call[c].others THEN "archived" ELSE pub[s]]
  /\ snapshot' = [snapshot EXCEPT ![r] = call[c].view]
  /\ quiet' = IF Quiet(c, r) THEN quiet \cup {r} ELSE quiet
  /\ call' = [call EXCEPT ![c] = NoCall]
  /\ UNCHANGED <<recalcs, result, approved, queue, runOf, work, stranded>>

-----------------------------------------------------------------------------

Work(w) ==
  \/ Read(w)
  \/ Claim(w)
  \/ \E outcome \in Outcomes : Finish(w, outcome)
  \/ Raise(w)
  \/ Reread(w)
  \/ Record(w)
  \/ Ack(w)

Asked(c) ==
  \/ \E r \in Runs :
       \/ Create(c, r)
       \/ Reenqueue(c, r)
       \/ BeginCancel(c, r)
       \/ BeginRecalculate(c, r)
       \/ BeginApprove(c, r)
       \/ BeginEdit(c, r)
       \/ BeginPublish(c, r)
  \/ Enqueue(c)
  \/ GiveUp(c)
  \/ Cancel(c)
  \/ Recalculate(c)
  \/ Approve(c)
  \/ Edit(c)
  \/ Publish(c)

Next ==
  \/ \E w \in Workers :
       \/ \E j \in Jobs : Take(w, j)
       \/ Work(w)
       \/ Crash(w)
  \/ \E j \in Jobs : Redeliver(j) \/ Drop(j)
  \/ \E c \in Clients : Asked(c)

Spec == Init /\ [][Next]_vars
-----------------------------------------------------------------------------
(* Safety.                                                                 *)

\* A queued run has a job that a worker will get, or a producer about to send
\* one: neither a duplicate delivery, a late ack, nor a failing executor may
\* leave it queued with nothing to move it (schedule_worker.py:16-60, :93-132).
QueuedRunIsCovered ==
  \A r \in Runs : status[r] = "queued" /\ r \notin stranded =>
    \/ \E j \in Jobs : runOf[j] = r /\ place[j] \in {"waiting", "inflight"}
    \/ \E c \in Clients : call[c].op = "enqueue" /\ call[c].run = r

\* A publication made while nothing was going on stays what the run's persisted
\* result is: the checks for "published" in edit and recalculate suffice then.
QuietPublicationStable ==
  \A r \in quiet : pub[r] = "published" => result[r] \in {snapshot[r], NoResult}

\* What the contract says and several administrators at once break: the
\* publications in force do not overlap (state-machine.md:67), though two
\* requests may both have looked for overlaps before either commits.
ActivePublicationsDisjoint ==
  \A r, s \in Runs :
    r # s /\ pub[r] = "published" /\ pub[s] = "published" => ~Overlap(r, s)

\* A canceled run stays canceled (state-machine.md:30).
CanceledIsTerminal ==
  [][\A r \in Runs : status[r] = "canceled" => status'[r] = "canceled"]_vars

-----------------------------------------------------------------------------
(* Liveness.  The worker loop has no exit, BRPOP serves the oldest job, and *)
(* a producer that has committed goes on to its enqueue unless it dies.    *)
(* Nothing is assumed of recovery here: it runs once, when a worker starts *)
(* (queue_worker.py:32), so that its coming back is a premise.             *)

Fairness ==
  /\ \A w \in Workers : WF_vars(Work(w))
  /\ \A j \in Jobs : SF_vars(\E w \in Workers : Take(w, j))
  /\ \A c \in Clients : WF_vars(Enqueue(c))

FairSpec == Spec /\ Fairness

\* From some point on a worker does not die with a job in its hands.
CrashesEnd ==
  <>[][\A w \in Workers : job[w] # NoJob /\ job'[w] = NoJob => pc[w] = "acking"]_vars

\* Job j is in the processing list and no worker has it.
Abandoned(j) == place[j] = "inflight" /\ \A w \in Workers : job[w] # j

\* Workers are restarted again and again, so that no job stays abandoned: what
\* JobQueue shows of such restarts (RestartsTakeUpAbandoned).
RestartsGoOn == \A j \in Jobs : []<>~Abandoned(j)

\* A queued run whose producer and job were not lost leaves that status, if only
\* workers are restarted while a job lies abandoned; without restarts, one that
\* stays queued has such a job.
QueuedRunEnds ==
  CrashesEnd =>
    \A r \in Runs :
      /\ RestartsGoOn =>
           (status[r] = "queued" ~> status[r] # "queued" \/ r \in stranded)
      /\ <>[](status[r] = "queued") =>
           <>[](r \in stranded \/ \E j \in Jobs : runOf[j] = r /\ Abandoned(j))

=============================================================================
