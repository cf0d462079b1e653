# WorkScheduleAI: a verification project

TLA+ models of the WorkScheduleAI scheduling service, TLC runs on small
instances, and TLAPS proofs. Source paths are relative to the repository:
`schedule_runs.py` and the other handlers are in
`src/work_schedule_ai/api/routes/`, `queue.py`, `queue_worker.py` and
`schedule_worker.py` in `src/work_schedule_ai/worker/`, `ortools_solver.py` in
`src/work_schedule_ai/solver/`, `models.py` in `src/work_schedule_ai/db/`, and
`state-machine.md` is `docs/contracts/schedule-run-state-machine.md`.

## 1. The system

An organization keeps **reference data**: employees with roles, shift types with
requirements, pairs that may not work together, leaves, a policy. Administrators
edit them, paste them or import them; employees ask for leave. An administrator
asks for a **schedule run** over a period of at most 31 days. The API commits the
run as `queued`, with a snapshot of its input, and pushes a job to a Redis queue.
A worker takes the job, runs the CP-SAT solver on the reference data and replaces
the run's persisted **artifacts**: slots, requirements, assignments, issues,
relaxation proposals. The administrator may cancel, approve a proposal and
recalculate, edit an assignment by hand, override compliance warnings, and at last
**publish** the run, which archives the publications it overlaps and creates
acknowledgements and notifications for the employees. Notifications are
dispatched by e-mail and Slack; employees read and acknowledge through a link.

| Part | State | Operations | Correct when |
| --- | --- | --- | --- |
| Job queue (`queue.py`) | queue list, processing list, leases, all in Redis | enqueue, dequeue, ack, recover_in_progress | no job is lost or duplicated by recovery; every job is carried out |
| Worker (`queue_worker.py`, `schedule_worker.py`) | one job in hand; an open transaction | recovery at start, loop, execute, ack | a queued run gets executed, whatever became of its jobs; the outcome is recorded |
| Run requests (`schedule_runs.py`) | schedule_runs, recalculation requests, approvals, snapshots | create, cancel, approve, recalculate, edit, publish | the state machine of `state-machine.md`; limits; published results do not change; a repeated key gets its run |
| Requeueing (`schedule_run_queueing.py`, `scripts/requeue_queued_schedule_runs.py`) | none | put a queued run back on the queue | repairs a run without a job |
| Solver (`ortools_solver.py`) | none | model, search, issues | the constraints hold in every answer and never make a week infeasible; a post is left open only if it must be, or weighs less than filling it costs |
| Artifact merge, manual edits (`schedule_runs.py:598-747, 1695-1910`) | assignments, issues, proposals | keep locked assignments across attempts, replace one assignment | nobody is assigned twice in a slot; locked assignments survive; a short post has an issue |
| Manual-edit validation (`schedule_runs.py:3083-3235`) | none | errors and warnings of an edit | agrees with the solver's constraints |
| Compliance (`compliance.py`, `routes/compliance.py`) | overrides keyed by a snapshot hash | warnings, overrides, the gate of publication | an override counts for what it was given for |
| Publications (`schedule_runs.py`, `employee_self_service.py`) | publications, acknowledgements, signed links | publish, read, acknowledge | who finds something on the page is asked for it |
| Notifications (`notifications/`) | notification rows | dispatch | sent means delivered; in order; once |
| Employee requests and links (`employee_self_service.py`) | requests, links, leaves | link, submit, approve, reject | a request has a leave only if approved; employees change nothing but ask for themselves |
| Imports (`imports.py`), reference data (`employees.py`, `shift_templates.py`, `pair_constraints.py`, `unavailabilities.py`, `policies.py`, `demand.py`) | rows and their constraints | create, update, delete, paste, import | rows are what the last request asked for; an import applied twice changes nothing more |
| Access control (`api/security.py`) | memberships, tokens | roles, signatures, tenant context | tenants do not see each other |
| RAG and explanations, operations reports, frontend | documents, logs | retrieve, summarize, show | - |

What makes it hard: several workers and several administrators share the
database and Redis without a common transaction; rows are read without a lock,
so a check is made on a value that may be stale when it is used; a worker holds
the row lock of its run while it executes and other writers wait for it; a
process may die between any two round trips; a DELETE and the INSERTs after it
see different committed states; one rule is written down three times, in the
solver, in the check of manual edits and in `compliance.py`. The list `hazards`
in PROJECT.json names each place.

## 2. Modules

    JobDelivery              what the queue promises
      ^        ^
      |        |  INSTANCE: its actions are steps of the composed system
      |     ScheduleRuns     run rows, workers, administrators
      |  refinement
    JobQueue                 the Redis queue, round trip by round trip

    PlanningRules            what a schedule may be; what an edit may do
      ^            ^
    Solver   ScheduleArtifacts   --INSTANCE-->  Compliance
                             the persisted result of a run

    Publications             acknowledgements and notifications

    ReferenceTables  <-  ReferenceImports, RunSnapshots  <-  ReferenceData

`MC*` modules give them finite instances. `JobQueueProofs`, `ScheduleRunsProofs`,
`PlanningRulesProofs`, `SolverProofs`, `ScheduleArtifactsProofs`,
`PublicationsProofs`, `ReferenceDataProofs` and `ReferenceHistoryProofs` hold the
theorems.

ScheduleRuns composes workers and requests with the queue's *promise*,
JobDelivery, which JobQueue is shown to implement, so no state of Redis is needed
there; it reduces a result to a value. ScheduleArtifacts takes one run apart:
its attempts are steps, its rows are modelled one by one, and the plan they are
made from may change. Publishing appears in three modules, each time with what it
depends on there: overlapping runs (ScheduleRuns), the gate of issues and
warnings (ScheduleArtifacts), acknowledgements and notifications (Publications).

### JobDelivery, JobQueue

| JobQueue | code |
| --- | --- |
| `queued`, `processing` | the two lists, as counts per payload. Order is not kept: `Dequeue` takes any waiting payload, `Start` any `RecoverLimit` entries; both allow more than FIFO does |
| `lease` | the lease hash, as an age in ticks; the owner hash is written and never read |
| `Enqueue` | `enqueue` (LPUSH of a payload with a fresh job_id) |
| `Dequeue`, `WriteLease` | `dequeue`: BRPOPLPUSH, then HSET |
| `Start`, `Check`, `TakeBack`, `ClearLease`, `PutBack`, `EndScan` | `recover_in_progress`: LRANGE with the limit, HGET, LREM with `removed_count`, HDEL, RPUSH |
| `Perform` | execute_schedule_run returns or raises LookupError |
| `Ack`, `Release`, `AckFails` | `ack`: LREM, HDEL; an exception is swallowed |
| `Crash` | any other exception leaves the loop; the process can be killed anywhere |
| `Tick` | the clock |

`stale[w]` is how the comparison of each lease with one `now`, read first, is
kept exact. JobDelivery has a place per job (`unsent`, `waiting`, `inflight`,
`gone`); `PlaceOf` maps the lists to it. A payload in the hands of a recovering
worker still waits; if that worker dies it is dropped, which JobDelivery shows
as an action of its own because the code really loses the job.

### ScheduleRuns

| ScheduleRuns | code |
| --- | --- |
| `status`, `recalcs` | `schedule_runs.status`, `.recalculation_count` |
| `approved` | the runs with a row in `override_approvals` |
| `result` | the persisted artifacts, reduced to a value; `Clean` ones have no issue and no blocking warning without override |
| `pub`, `snapshot` | `schedule_publications` |
| `Take` ... `Ack` | `process_next_schedule_run` around `execute_schedule_run` |
| `Claim` | flush of `running`: never committed, but it takes the row lock (`Locked`) |
| `Finish` | executor and commit |
| `Raise`, `Reread`, `Record` | the `except` branch: rollback, second read, commit of `failed` |
| `Create`, `Enqueue` | `create_schedule_run` up to its commit, then the enqueue |
| `Reenqueue` | repeated idempotency key of create or recalculate; the script |
| `BeginX`, `X` | what a handler reads and decides; its commit |
| `Shown` | `_result_artifacts_for_run`: empty while queued, else persisted, else computed inside the request, by the solver, which assigns the status of the row (`WriteStatus`) |
| `GiveUp` | any error or unique key that rolls the request back |
| `Drop`, `Redeliver` | what JobQueue shows of recovery |

All reads of a handler are one step (`Begin`): nothing in these handlers depends
on two reads being of different times except against the commit, which is a step
of its own. PostgreSQL runs at READ COMMITTED, so an UPDATE of the run row waits
for the lock of the executing worker and then goes through with the values decided
before. An UPDATE names a column only if the handler changed it from what it read:
that is why `Record` writes nothing when it read `failed`. `RowSecurity` is a
constant because it depends on the database role of the worker: a superuser, or a
role with BYPASSRLS, is not bound by the policies; an owner of the tables is, since
migration 0009 forces them. `stranded`, `quiet`, `done` and `dropped` are
history: no guard reads them, except that `Forget` may only forget what was done,
which JobQueue proves.

### PlanningRules, Compliance, Solver

A **problem** is a record of what an attempt reads: the period, the shift types,
requirements, staff, leaves (in hours from the period's origin), approvals, pairs,
demand and policy. PlanningRules holds what is computed from it, as pure operators:

| PlanningRules | code |
| --- | --- |
| `Slots`, `Starts`, `Ends`, `Night`, `Weekend` | `_generated_slot_pairs` and the inputs `_solver_result_artifacts` builds |
| `Unavailable`, `LeavesOn` | `_unavailable_slot_ids_by_employee`: by day, unless the leave may be overridden and the override was approved |
| `Requirements`, `Weight`, `Policy` | requirements with their weights; no policy row means no limits (`Unlimited`), reading the policy stores `DefaultPolicy` |
| `Candidates`, `NotOverfilled`, `OncePerSlot`, `BlockedApart`, `WeeklyCapped`, `MonthlyCapped`, `ConsecutiveCapped`, `Rested`: `Feasible` | the variables and constraints of `solve_schedule` |
| `Unfilled`, `OffTarget`, `Avoided`, `Rotation`, `Imbalance`, `Adjacent`: `Cost` | the objective, each kind of cost a sum over what it is charged for |
| `MostAdded`, `Outweighed` | not in the code: the most one assignment more can add to the other costs, and a post that weighs more |
| `Issues`, `Proposed`, `ProposalOf`, `ProposalsCollide` | `_extract_issues`, `_solver_proposals`, and when two proposals get one id |
| `LeaveVerdicts`, `PairConflict`, `ValidEdit` | `_validate_manual_edit_request`; a set of verdicts where the query has no ORDER BY |

The CP-SAT search is external: `FeasibleSets` is what it may have found when its
time runs out, `Optima` what it may answer as optimal. `Compliance` holds the four
kinds of warnings and their instance key. `Solver` is the small state machine
around them: solve, approve a proposal and solve again, look at the policy (which
stores the default and so changes the next answer). Days are numbers, day 0 a
Monday; months are given by a function, so that a period may cross one.

### ScheduleArtifacts

| ScheduleArtifacts | code |
| --- | --- |
| `plan`, `Replan` | the reference data, and any change of them while the run exists |
| `rows`, `issues`, `proposals`, `slots`, `posts` | the persisted artifacts; an assignment has the id it has in the table, by rank (`SolverId`) or by slot, role, employee and rank (`ManualId`) |
| `Attempt` | `execute_schedule_run`: any feasible answer, merged with the locked rows (`MergedRows`, `MergedIssues`, `MergedProposals`), unless a key refuses it (`Rejected`): then the run fails and keeps what it had |
| `AttemptUnsolved` | no answer in time: the result is replaced by what is locked |
| `AttemptAborted` | the deadlock with an edit, which has deleted a row the attempt wants to delete and waits for the row lock the attempt holds |
| `Shown`, `Computed`, `Writes` | `_result_artifacts_for_run`, and the status its computation writes with the next commit |
| `BeginEdit`, `Edit` | `save_manual_edit` up to its first write, and its commit: the row it read is deleted by its id, whoever has that id now |
| `Override`, `BeginPublish`, `Publish` | `create_compliance_warning_override`; the gate on what was read; the commit |
| `failure`, `edited`, `mixed`, `edits`, `fresh` | history |

### Publications

A result is reduced to its roster, the pairs of employee and day. `CommitPublish`
archives what overlaps, asks the employees of the roster it has *read* to
acknowledge, and records notifications, whose time it has taken before its commit.
Notifications for other channels, which no code of the repository records but the
table and the dispatch are made for, are recorded in the same two steps
(`BeginRecord`, `CommitRecord`; external). `Opens` and `AcknowledgeByLink` check the
page that `Cards` shows. A dispatch takes a batch (`BeginDispatch`), delivers one
notification after another (`Deliver`; the provider may raise before or after the
message has gone out, `Fates`), and commits all outcomes at the end
(`CommitDispatch`); it may die anywhere (`Die`). SMTP and Slack are external.

### ReferenceTables, ReferenceImports, RunSnapshots, ReferenceData

ReferenceTables has the tables as functions from identifiers to records, what
their unique keys (`Keys`), checks and foreign keys refuse, and what an *effect*
(columns set, rows removed, details replaced, rows added) does to them.
ReferenceImports gives the effect of each kind of imported or pasted rows,
RunSnapshots the input snapshot of a new run. In ReferenceData every handler is
three steps: it reads, validates and computes its effect (`Read`); its UPDATEs and
DELETEs take row locks and see what is committed now (`Flush`); its INSERTs meet
the constraints and it commits or rolls back (`Commit`). `Fail` may end it before.
`CreateScheduleRun` reads one table per step (`ReadNextTable`), because there the
differences matter, and looks its key up at the end (`LookUpKey`). What a request
asks for comes from `Agendas`, sets of requests that belong together. Who asks for
leave is written down by `AskedBy`: an employee in their own name, an administrator
in the name of any user the body gives. `raced`
remembers the rows that two requests were about at once, `asked` the details last
asked for, `answers` what was said to repeated keys: history.

## 3. Runs

| run | instance | checks |
| --- | --- | --- |
| queue_safety | 2 payloads, 2 workers, leases of 2 ticks, limit 1 | types, `OnePlace`, `NoSilentLoss`, `OnlyDeadLeasesTaken`, refinement of JobDelivery |
| queue_restarts | 2 payloads, 1 worker, fair, limit 1 | `RestartsServeEveryJob`, `RestartsTakeUpAbandoned` |
| runs_workers | 1 run, 2 jobs, 2 workers, 1 administrator, limit 1 | types, `QueuedRunIsCovered` |
| runs_admins | 1 run, 2 jobs, 1 worker under row-level security, 2 administrators | `QuietPublicationStable` |
| runs_live | 1 run, 2 jobs, 1 worker, fair | `QueuedRunEnds` |
| solver | some hundred weeks of one to three employees and types | `NeverInfeasible`, `NoLongStretch`, `RestIsCompliant`, `NothingLeftToFill`, `ValidatorAgrees`, `ApprovedAreCandidates` |
| artifacts | 1 run, 3 plans, 2 attempts, 2 edits, 2 administrators | types, `MergeKeepsUnique`, `ShortfallShown`, `PublishedJustified`, `PublishedComplete`, `LockedAssignmentsKept`, `FreshEditsRespect` |
| publications | 2 overlapping weeks, 2 employees, 2 requests at once | types, `AskedForWhatTheySee`, `DeliveredOnce`, `SentWasDelivered`, `DeliveredInOrder` |
| reference_data | 2 administrators, 2 employees, 3 requests out of six agendas | types and constraints, `ReplacedAsAsked`, `PairsNormalized`, `RequestHasItsLeave`, `ImportTwiceIsOnce`, `ImportTouchesItsKeys`, `RetriesAnswered`, `EmployeesOnlyAsk` |
| runs_canceled, runs_publications, artifacts_hidden | | violations, section 4 |

Why the bounds are enough for the cases to happen:

- Queue: two workers and two payloads give every race of two recoveries, of a
  recovery with a dequeue or an ack, and a limit of 1 below the number of
  payloads, in the fair run too: a start looks at one entry of the processing list
  while another may lie behind it. Lease ages saturate at `LeaseTicks`.
- Runs: two jobs per run give a duplicate delivery and a recalculation after a
  first execution; `MaxRecalculations = 1` (3 in the code) a run that goes back to
  `queued` once. Two administrators with two workers are beyond TLC (over six million
  states), so two workers race in runs_workers and two administrators in runs_admins. Three results tell apart no solution (`bare`), open issues (`gaps`) and
  publishable (`full`). `Spare` keeps requests from starting when no job is left
  for their enqueue: a bound, not code.
- Solver: the weeks are chosen so that each constraint binds in some: leaves that
  may and may not be overridden, a blocked pair, two roles for the same people,
  day, evening and night shifts, a stretch over a weekend and a month's end, tight
  and default policies and none; and the weight of a post lies below and above the
  price of an avoided pair, so that an optimum leaves some posts open that could be
  filled. At most five days, since TLC enumerates every set
  of candidates.
- Artifacts: `Pair` has a post for two and one for one, and an employee on leave:
  shortfalls, proposals, approvals, replacements and locked double assignments all
  occur; `Closed` takes the slot away or blocks the pair in mid-run; `Long` has the
  hours that call for a compliance override. Two attempts give a merge with what
  was locked after the first.
- Publications: rosters that move one day from one employee to the other; a batch
  limit of 2 below the number of notifications; two extra notifications (`MaxExtra`)
  and two deliveries of each (`MaxDeliveries`).
- Reference data: three requests give two that race and one after or before them.
  Agendas keep requests together that touch the same rows. `MaxRows` is above the
  5,000 rows of a sheet (`imports.py:63`); the instance has at most three.
  Identifiers are numbers in place of uuids: `NewId` gives each call its own, and
  the initial rows have smaller ones.

Deadlock is checked for JobQueue. Elsewhere the system may come to rest: a solved
week without proposals, a published run with nothing queued, all notifications
sent, or the bound on requests used up.

## 4. Disagreements and surprising behaviour

Violation runs (`findings`), each against a sentence of the repository:

| run | what happens |
| --- | --- |
| runs_canceled | approving a proposal of a canceled run computes its result inside the request; the computation assigns the status, and the commit of the approval writes it: `canceled` becomes `succeeded` (`schedule_runs.py:2422`) |
| runs_publications | two administrators publish runs of one week at once; each looks for overlaps before the other commits, and both publications stay in force (`schedule_runs.py:1049`, against `state-machine.md:67`) |
| artifacts_hidden | an edit removes every issue of its slot and role, and the merge every issue of a post with a locked assignment, filled or not: a shortfall is no longer shown, and the run can be published (`schedule_runs.py:1616`, `:1871`) |

Behaviours of the models, found while modelling and kept as they are; the
properties above except them by name or by the number of clients:

Queue and workers
- a recovery between the BRPOPLPUSH and the HSET of `dequeue` finds no lease and
  takes a live job, although `tests/worker/test_queue_worker.py:202` says active
  leases are kept; the job is then carried out twice;
- a worker that dies between LREM and RPUSH of a recovery takes the job with it
  (`dropped`), although `docs/submission-report.md:120` says no job is lost;
- a worker that replaces a dead one starts before the lease has run out, skips the
  payload and never looks again (`docs/submission-report.md:198`): hence the
  premise `RestartsGoOn`;
- a start looks at the newest entries only, and an entry whose acknowledgements fail
  is put back and taken again: such an entry, or a second worker that always outlasts
  its lease, can keep a start with a limit of 1 from ever reaching the other;
- under row-level security the second read of a failing executor, after the
  rollback that ended the tenant context, finds no run: it stays queued and its
  job is acknowledged.

Runs
- a cancellation that read `queued` waits for the lock of the executing worker
  and overwrites `succeeded` (`Cancel` after `Finish`), although
  `tests/api/test_schedule_runs_api.py:485` says that is a conflict;
- a request that computed a result because none was persisted writes its status
  over that of a later attempt;
- two administrators who recalculate at once write the same count, and the run
  is recalculated more often than the limit (`state-machine.md:50`); a queued run
  can be published and is then executed (`:66`);
- the `failed` of a raising executor can be committed after another worker finished
  and an administrator recalculated: it overwrites that `queued`, and the recalculation
  is lost;
- `period_end` is a day of the period (`schedule_runs.py:94`) but the overlap test
  is strict (`:1053`), so two runs of one single day can both be published;
- a recalculation needs an approval (`schedule_runs.py:899`), a locked manual
  assignment alone is not enough, although `state-machine.md` allows for it;
- the input snapshot is stored and hashed, but attempts solve the data of the
  moment; `state-machine.md:22` speaks of a damaged snapshot that fails a run. Its
  tables are read one by one, so that it can hold a skill of an employee it does
  not list; a repeated key is refused after any change of the data, and even
  without one if two leaves of an employee begin together, because the order of
  its list is then up to the database.

Attempts, edits and publication
- a locked manual row keeps the solver's id it took over; a new answer may use
  that id again, and so may two proposals for one slot (two leaves, two roles):
  the key refuses the attempt and the run fails, as it does when a locked row's
  slot no longer exists;
- the merge compares neither blocked pairs nor rest nor caps of locked rows with
  the solver's; dropping the solver's row of an employee who was put into another
  post of the slot leaves a post short without an issue;
- an edit that read the rows of an earlier attempt can delete another slot's
  assignment, which has inherited the id;
- of two leaves on one day, one that may be overridden can hide the one that may
  not from the check of an edit (no ORDER BY), and a proposal is offered although
  the other leave also covers the day; leaves are judged by the day a shift begins;
- reading the policy page stores the default policy and so changes the limits of
  the next attempt; two first readings at once collide on the key;
- "infeasible" is a status no answer of the solver leads to.

Publications and notifications
- employees who are dropped by a replacing publication are not told; the pending
  notifications of an archived publication still go out, and it can still be
  acknowledged by an administrator or a linked employee; the run of an archived
  publication cannot be published again;
- two dispatches at once deliver twice and overwrite each other's outcome; a death
  before the commit delivers again; what failed is not tried again;
- a notification has the time at which its request read the clock: one that is
  committed late goes out after newer ones.

Reference data
- two replacements of one employee's roles, or one type's requirements, at once
  leave the union of both (`docs/xlsx-import-contract.md` says rows are replaced);
- two updates of one pair mix columns, so that the normalized pair, which the
  solver uses, is not the one the page shows;
- an administrator may file a request in the name of any user, linked or not
  (`employee_self_service.py:219`);
- a request approved and rejected at once ends rejected with a leave, or approved
  twice with two leaves; deleting the leave leaves the request approved;
- a role twice in an imported row passes the validation and fails on the key,
  where a pasted row drops the repetition; an employee code twice is refused when
  pasted, and the last row wins when imported; importing leaves again adds them again;
- the policy page allows 14 shifts per week (`policies.py:22`), an import 31
  (`imports.py:52`).

## 5. Fairness

The worker loop has no exit, so a worker with something to do goes on
(`WF` of `Work`). BRPOP takes the oldest payload, so a waiting payload is not
passed over for ever (`SF` of its dequeue, by some worker). Time passes. Producers
are fair only from commit to enqueue. Nothing is assumed of when a worker dies or is
restarted, nor of recovery, which runs once, when a worker starts
(`queue_worker.py:32`). What liveness needs of them is stated as premises:

- `RestartsServe` (JobQueue): deaths with a job in hand come to an end
  (`CrashesEnd`), workers go on being started (`RestartsGoOn`, as in a series of
  deployments), and acknowledgements fail only finitely often (`AcksSucceed`). Without
  any one of them a job can be left in the processing list for ever (section 4).
  Under them every job is carried out (`RestartsServeEveryJob`) and none stays there
  without a worker (`RestartsTakeUpAbandoned`).
- `QueuedRunEnds` (ScheduleRuns) takes the second as its premise: with restarts that
  leave no job abandoned every queued run is executed. Without restarts it claims
  less: a run that stays queued has an abandoned job, so that nothing but a missing
  restart holds it up. Both except `stranded` runs: those whose producer died
  between commit and enqueue, or whose job was dropped.

The other modules state no liveness: nothing in the code makes an administrator, or
the caller of the dispatch endpoint, come back.

## 6. Proofs

Each theorem holds for every value of the constants that meets the module's
assumption. Those that state a property of a run were checked by TLC on the instance
of section 3 first.

`JobQueueProofs`, from `JobQueueAssumption` (lease and limit positive, `NoJob` is
no payload):

- `TypeCorrect`, `PayloadInOnePlace`, `PayloadNotLost`: an inductive invariant
  adds to `OnePlace` and `NoSilentLoss` that a payload in a list or a hand was
  sent, and that a worker about to acknowledge has carried its job out. Without
  the second, `Ack` could remove the last copy of undone work.
- `RecoveryRespectsLeases`: each expired lease a worker remembers is still
  expired, because writing a lease takes it out of `stale`.
- `QueueImplementsDelivery`: initial states map to initial states, and every
  step to a step of JobDelivery or to a stutter. `OnePlace` is what makes
  `PlaceOf` change as JobDelivery says.

`ScheduleRunsProofs`, from `ScheduleRunsAssumption`:

- `TypeCorrect`: the type invariant is not inductive; `Known` adds that a worker
  at work has a job that was sent, that such a job is for a run, that a request
  is about a run and that a recalculation began below the limit.
- `QueuedRunsCovered`, assuming `~RowSecurity`: the covering job must not be
  *spent*: carried out already, or in the hands of a worker that read `failed`
  and will write nothing. That strengthening (`Covered`) is inductive.
- `QuietPublicationsStable`: `QuietRest` says what keeps the result from
  changing: the run is not queued, no worker has claimed it, and no edit or
  recalculation of it is between its read and its commit.

`PlanningRulesProofs` and `SolverProofs`, from `WellFormed` data (what the columns
and checks of `models.py` say): lemmas about the constraints (the empty schedule is
feasible; a candidate is of an active employee with the role; windows of consecutive
days lie in the period), about sums, and

- `NeverInfeasibleHolds`: the slack of every requirement;
- `NoLongStretchHolds`, `RestIsCompliantHolds`: by the invariant `Held`, an answer
  was feasible under the policy it records, though approvals and a stored default
  may have changed the problem since. The first takes the days someone works
  without a break for one of the windows; the second compares all pairs of slots
  with the neighbours that `compliance.py` looks at;
- `ValidatorAgreesHolds`: each row of an answer is assignable and keeps out of
  blocked pairs (`Assignable`), which the check of an edit restates;
- `ApprovedAreCandidatesHolds`: approvals fit the problem (`ApprovalsFit`): their
  slot exists and has a requirement for a role of their employee;
- `NothingLeftToFillHolds`: an optimum leaves no post open that one candidate more
  could fill, if the post is `Outweighed`. The condition is needed, TLC finds optima
  that leave a post open without it: a weight may be 0, and one avoided pair of high
  severity costs as much as 24 posts of weight 1. Under the
  default policy, with weight 900, it is met by an employee with a hundred avoided
  pairs of low severity, or a dozen critical ones, among as many as 29,000 others.
  Each kind of cost is a sum that changes in one summand when an assignment is added
  (`UnfilledFalls`, `OffTargetRises`, `AvoidedRises`, `RotationRises`,
  `ImbalanceRises`, `AdjacentRises`), so the cost falls (`CostFalls`) and the larger
  schedule, if it were feasible, would have been chosen (`OptimumFills`). A policy
  stored after the answer does not matter (`SolvedProblem`, `PolicyStored`);
- `OptimumExists`: the solutions are finitely many and each has a cost that is a
  number, so there always is an optimal answer to speak of;
- `FeasibleShrinks`: the constraints only forbid, so what the merge with locked
  assignments leaves of an answer keeps to all of them.

The sum over a finite set is defined in the community modules by a recursive
function of its subsets. Induction theorems take operators and cannot be used, but
their content can be had from a well-founded order: among the subsets of which a
claim fails there is a smallest one (`SmallestSubset`). So the recursion has a
solution (`AdderAdds`) and only one (`AddersAgree`), the order of the summands does
not matter (`SumRemove`), and sums compare and add up summand by summand
(`SumMonotone`, `SumDiffers`, `SumPlus`).

`ScheduleArtifactsProofs`, from `PlansAssumption`:

- `TypeOKHolds`, with what rows, issues and requests of every plan look like;
- `MergeKeepsUniqueHolds`: an answer has nobody twice in a slot, the locked rows
  have not either, and the merge drops what they share; `Unique` is kept by edits
  because the key refuses the others;
- `PublishedJustifiedHolds`: what a publication under way has found overridden was
  overridden for the rows that it publishes (`Gated`);
- `LockedAssignmentsKeptHolds`: an edit with a fresh reading aims at a row of its
  own post (`EditsAimed`);
- `ShortfallShownHolds`, `PublishedCompleteHolds`: as long as a slot was not edited
  its rows are those of the answer less those the merge took out, which are
  counted, and the issues those the solver reported (`CountsInv`);
- `FreshEditsRespectHolds`: what an edit has decided on is still so at its commit
  if nothing outdated it (`FreshCalls`).

`PublicationsProofs`, from `PublicationsAssumption`:

- `TypeOKHolds` and the types of what a request has read (`Types`);
- `AskedForWhatTheySeeHolds`: the acknowledgements of a publication are for the
  employees of the roster that is stored with it, and neither is added to later;
- `SentWasDeliveredHolds`: an outcome a dispatch is about to record as sent has
  been delivered (`SentOut`), whatever other dispatches write;
- `DeliveredOnceHolds`: while no dispatch has died or met another, the batch of a
  dispatch is pending, and what it has not handled has not gone out (`Calm`);
- `DeliveredInOrderHolds`, for any number of dispatches that overlap and die: what was
  pending when a batch was read is in the batch, or no older than what the batch still
  holds (`BatchOldest`), and the time of a notification never changes.

`ReferenceDataProofs`, from `ReferenceDataAssumption`. Each handler's effect is shown
to be `Good`: it sets no column of a link or a run, of a request only its status and
leave, of a pair either none of the columns that name it or all that differ, and the
pairs it adds are normalized (`Normal`). The invariant `Inv` says this of the effects
that wait for their commit, against the tables of the moment, and that two of them
share only rows in `raced` (`Apart`).
`AfterRows` says what a transaction leaves. From these:

- `EmployeesOnlyAskHolds`: of all handlers only `CreateEmployeeRequest` lets an
  employee in (`EmployeesSubmit`), so that what waits for an employee's commit is one
  request and deletes nothing (`OnlyAsks`); links are never taken back (`LinksGrow`),
  so what entitled it at its read still does at its commit;
- `PairsNormalizedHolds`: an update that nobody else was about finds the pair as it
  read it, so the columns it writes and those it does not are of one pair.

`ReferenceHistoryProofs`, from the same assumption, which says of the initial
tables that they meet the constraints (`Settled`) and of the requests that they
have the columns and types their schemas ask for (`WellFormed`). The type invariant
is not inductive, and neither is what was asked for: both depend on what the effects
in progress will do to rows that others write meanwhile. The invariant `Whole` adds,
besides `Inv`:

- of the tables, that all identifiers were made by calls that have begun
  (`SoundTables`), so that those of a new row collide with nothing;
- of a call, that its effect is `Proper`: a column it sets and a row it adds refer
  to rows that are still there, since employees and shift types are never deleted,
  only deactivated, and a request forgets a leave that is; new roles and
  requirements are for owners whose old ones it replaces;
- of a call whose UPDATEs and DELETEs are done, that the details it deleted are those
  its owners have now, unless somebody else was about the owner since, and no other
  owner's (`OwnersReplaced`);
- of two calls, that they add no row with one identifier and delete nothing the
  other adds (`IdsApart`).

`RowsAfter` and `AfterIsSound` say what a commit leaves of the rows and of the
constraints, `OwnDetailsAfter` and `OthersStayNew` what becomes of the owners it
replaced and of the others. From these:

- `TypeOKHolds`: a commit that passes the keys and checks also leaves the foreign
  keys whole;
- `ReplacedAsAskedHolds`: an owner nobody raced about has the details last asked for;
- `RequestHasItsLeaveHolds`: the leave of a request is made by the transaction that
  approves it, which found it pending, and two that found it so at once are remembered
  in `raced` (`Granted`);
- `ImportTouchesItsKeysHolds`: there is one policy row, it is never deleted, and an
  import sets none but the columns its rows name (`OnlyItsKeys`);
- `RetriesAnsweredHolds`: needs one more invariant, `Retried`. The rows a call has
  read are finitely many and keyed by numbers, so that every snapshot it can build is
  sorted by the columns the queries order by (`Listed`); an answer was given by
  comparing two such snapshots, and the run it names is written by nobody since. Two
  sorted lists of the same rows in which no two rows tie are the same list
  (`SnapshotsAgree`): a row's place is the number of rows before it (`PlaceIsCount`),
  which counts and needs no induction;
- `ImportTwiceIsOnceHolds`: the first import leaves the owners it names under the
  identifiers the second one finds (`OwnersSaved`) and of their roles or requirements
  exactly those it gives (`DetailsSaved`), so the second, which makes other
  identifiers (`FreshAfter`), writes and adds the same again (`BatchTwice`). A pair's
  rows (`PairsSaved`) and the policy's one row (`PolicySaved`) then hold what the rows
  say, so that nothing differs and nothing is saved (`QuietTwice`).

Only model-checked: liveness and the three violations. Liveness under fairness and
ENABLED are out of the prover's reach.

## 7. Not modelled, and why

- The CP-SAT search, PostgreSQL, Redis, SMTP and Slack: external, modelled by what
  the code relies on.
- Signatures, tokens and password hashes: computations on strings. The role table
  is modelled as far as ReferenceData's handlers need it.
- RAG and explanations: text retrieval, redaction and formatting; no state of the
  system depends on them.
- Read-only pages: lists, comparisons of runs, Excel downloads, the demand-cost
  preview, metrics, fairness summaries, audit exports. Audit log rows are written
  and only exported.
- The parsing of sheets: an import is the rows it yields. Names and free text are
  left out of the tables.
- Organizations, users, memberships: created before anything else happens.
- Migrations, seeding, the frontend (its requests are the choices of the clients).
- `retry_schedule_run`, called by nothing; the in-memory queue of development; the
  branch of the requeueing script for `running` rows, a status that is never
  committed; the legacy, run-wide override id `proposal_mock_time_off_1` and the
  invented data of a run without shift types (`_mock_result_artifacts`).

What could come next: the reference data composed with ScheduleArtifacts, whose
`Replan` now changes them in one step; the access table with memberships; and the
fairness summaries as operators against a definition.
