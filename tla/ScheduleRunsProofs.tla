------------------------- MODULE ScheduleRunsProofs -------------------------
(***************************************************************************)
(* Proofs about ScheduleRuns, for any number of runs, jobs, workers and    *)
(* administrators, and any results.                                        *)
(***************************************************************************)
EXTENDS ScheduleRuns, TLAPS

\* A worker that is not idle has a job that was sent.
WorkersKnow ==
  \A w \in Workers : pc[w] # "idle" => job[w] \in Jobs /\ place[job[w]] # "unsent"

\* A job that was sent is for a run; one that was not has not been done.
JobsKnown ==
  \A j \in Jobs : IF place[j] = "unsent" THEN j \notin done ELSE runOf[j] \in Runs

\* A request is about a run, writes no "queued" over a status it read, and
\* begins a recalculation below the limit only.
CallsKnow ==
  \A c \in Clients :
    /\ call[c].op # "none" => call[c].run \in Runs
    /\ call[c].writes # "queued"
    /\ call[c].op = "recalculate" => call[c].recalcs < MaxRecalculations

Known == TypeOK /\ WorkersKnow /\ JobsKnown /\ CallsKnow

USE ScheduleRunsAssumption

-----------------------------------------------------------------------------
(* The requests of the administrators are well formed.                     *)

LEMMA RequestType ==
  ASSUME NEW op \in Operations, NEW r \in Runs \cup {NoRun}
  PROVE  Request(op, r) \in Calls
  <1>1. 0 \in 0..MaxRecalculations /\ "absent" \in Status
    BY DEF Status
  <1>2. QED
    BY <1>1 DEF Request, Calls

LEMMA NoCallType == NoCall \in Calls
  BY RequestType DEF NoCall, Operations

LEMMA PublishRequestType ==
  ASSUME NEW r \in Runs, NEW s \in Status, NEW v \in Results \cup {Empty},
         NEW others \in SUBSET Runs
  PROVE  [Request("publish", r) EXCEPT !.writes = s, !.view = v, !.others = others]
           \in Calls
  <1>1. 0 \in 0..MaxRecalculations /\ "absent" \in Status /\ "publish" \in Operations
    BY DEF Status, Operations
  <1>2. QED
    BY <1>1 DEF Request, Calls

LEMMA ShownType ==
  ASSUME TypeOK, NEW r \in Runs, NEW shown \in Shown(r)
  PROVE  /\ shown.view \in Results \cup {Empty}
         /\ shown.writes \in Outcomes \cup {"absent"}
  <1>1. CASE status[r] = "queued"
    BY <1>1 DEF Shown
  <1>2. CASE status[r] # "queued" /\ result[r] # NoResult
    BY <1>2 DEF Shown, TypeOK, RowTypeOK
  <1>3. CASE status[r] # "queued" /\ result[r] = NoResult
    BY <1>3 DEF Shown, Content, Outcomes
  <1>4. QED
    BY <1>1, <1>2, <1>3

LEMMA ServingRun ==
  ASSUME Known, NEW w \in Workers, pc[w] # "idle"
  PROVE  Serving(w) = runOf[job[w]] /\ Serving(w) \in Runs
  BY DEF Known, WorkersKnow, JobsKnown, Serving

LEMMA InitKnown == Init => Known
    BY NoCallType DEF Init, Known, TypeOK, WorkersKnow, JobsKnown, CallsKnow, Status,
       Outcomes,
         PublicationStatus, Stages, NoCall, Request, RowTypeOK, PublicationTypeOK,
         QueueTypeOK, WorkTypeOK, CallTypeOK, Delivery!Init

-----------------------------------------------------------------------------

LEMMA BeginTypeOK ==
  ASSUME TypeOK, NEW c \in Clients, NEW request \in Calls, Begin(c, request)
  PROVE  TypeOK'
  BY DEF Begin, row, publications, queue, work, TypeOK, RowTypeOK,
         PublicationTypeOK, QueueTypeOK, WorkTypeOK, CallTypeOK

LEMMA NextTypeOK == Known /\ [Next]_vars => TypeOK'
  <1> SUFFICES ASSUME Known, [Next]_vars PROVE TypeOK'
    OBVIOUS
  <1> USE DEF row, publications, queue, work, Goto, Known, TypeOK, RowTypeOK,
              PublicationTypeOK, QueueTypeOK, WorkTypeOK, CallTypeOK
  <1>a. \A w \in Workers : pc[w] # "idle" => job[w] \in Jobs /\ Serving(w) \in Runs
    BY ServingRun DEF WorkersKnow
  <1>b. \A c \in Clients : call[c].op # "none" => call[c].run \in Runs
    BY DEF CallsKnow
  <1>c. NoCall \in Calls /\ \A r \in Runs : Request("enqueue", r) \in Calls
    BY NoCallType, RequestType DEF Operations
  <1>1. ASSUME NEW w \in Workers, NEW j \in Jobs, Take(w, j)
        PROVE  TypeOK'
    BY <1>1 DEF Take, Delivery!Deliver, Delivery!Move, Stages, Status
  <1>2. ASSUME NEW w \in Workers, Read(w) PROVE TypeOK'
    BY <1>a, <1>2 DEF Read, Delivery!Perform, Stages, Status
  <1>3. ASSUME NEW w \in Workers, Claim(w) PROVE TypeOK'
    BY <1>3 DEF Claim, Stages, Status
  <1>4. ASSUME NEW w \in Workers, NEW o \in Outcomes, Finish(w, o)
        PROVE  TypeOK'
    BY <1>a, <1>4 DEF Finish, Delivery!Perform, Content, Outcomes, Stages, Status
  <1>5. ASSUME NEW w \in Workers, Raise(w) PROVE TypeOK'
    BY <1>5 DEF Raise, Stages, Status
  <1>6. ASSUME NEW w \in Workers, Reread(w) PROVE TypeOK'
    BY <1>a, <1>6 DEF Reread, Delivery!Perform, Stages, Status
  <1>7. ASSUME NEW w \in Workers, Record(w) PROVE TypeOK'
    <2>1. status' \in [Runs -> Status]
      BY <1>7 DEF Record, Status, Outcomes
    <2>2. pc' \in [Workers -> Stages] /\ seen' \in [Workers -> Status]
      BY <1>7 DEF Record, Stages, Status
    <2>3. QED
      BY <1>a, <1>7, <2>1, <2>2 DEF Record, Delivery!Perform
  <1>8. ASSUME NEW w \in Workers, Ack(w) PROVE TypeOK'
    BY <1>8 DEF Ack, Delivery!Forget, Delivery!Move, Stages, Status
  <1>9. ASSUME NEW w \in Workers, Crash(w) PROVE TypeOK'
    BY <1>9 DEF Crash, Stages, Status
  <1>10. ASSUME NEW j \in Jobs, Redeliver(j) PROVE TypeOK'
    BY <1>10 DEF Redeliver, Delivery!Redeliver, Delivery!Move, Stages, Status
  <1>11. ASSUME NEW j \in Jobs, Drop(j) PROVE TypeOK'
    BY <1>11 DEF Drop, Delivery!Drop, Delivery!Move, JobsKnown
  <1>12. ASSUME NEW c \in Clients, NEW r \in Runs, Create(c, r)
        PROVE  TypeOK'
    BY <1>c, <1>12 DEF Create, Stages, Status
  <1>13. ASSUME NEW c \in Clients, NEW r \in Runs, Reenqueue(c, r)
        PROVE  TypeOK'
    BY <1>c, <1>13, BeginTypeOK DEF Reenqueue
  <1>14. ASSUME NEW c \in Clients, NEW r \in Runs, BeginCancel(c, r)
        PROVE  TypeOK'
    <2>1. Request("cancel", r) \in Calls
      BY RequestType DEF Operations
    <2>2. QED
      BY <1>14, <2>1, BeginTypeOK DEF BeginCancel
  <1>15. ASSUME NEW c \in Clients, NEW r \in Runs, BeginRecalculate(c, r)
        PROVE  TypeOK'
    <2>1. Request("recalculate", r) \in Calls
      BY RequestType DEF Operations
    <2>2. [Request("recalculate", r) EXCEPT !.recalcs = recalcs[r]] \in Calls
      BY <2>1 DEF Calls
    <2>3. QED
      BY <1>15, <2>2, BeginTypeOK DEF BeginRecalculate
  <1>16. ASSUME NEW c \in Clients, NEW r \in Runs, BeginApprove(c, r)
        PROVE  TypeOK'
    <2>1. Request("approve", r) \in Calls
      BY RequestType DEF Operations
    <2>2. \A shown \in Shown(r) :
            [Request("approve", r) EXCEPT !.writes = shown.writes] \in Calls
      BY <2>1, ShownType DEF Calls, Status
    <2>3. QED
      BY <1>16, <2>2, BeginTypeOK DEF BeginApprove
  <1>17. ASSUME NEW c \in Clients, NEW r \in Runs, BeginEdit(c, r)
        PROVE  TypeOK'
    <2>1. Request("edit", r) \in Calls
      BY RequestType DEF Operations
    <2>2. QED
      BY <1>17, <2>1, BeginTypeOK DEF BeginEdit
  <1>18. ASSUME NEW c \in Clients, NEW r \in Runs, BeginPublish(c, r)
        PROVE  TypeOK'
    <2>1. Overlapping(r) \in SUBSET Runs
      BY DEF Overlapping
    <2>2. \A shown \in Shown(r) : shown.writes \in Status
      BY ShownType DEF Status
    <2>3. PICK shown \in Shown(r) :
            Begin(c, [Request("publish", r) EXCEPT
                        !.writes = shown.writes, !.view = shown.view,
                        !.others = Overlapping(r)])
      BY <1>18 DEF BeginPublish
    <2>4. [Request("publish", r) EXCEPT
             !.writes = shown.writes, !.view = shown.view, !.others = Overlapping(r)]
            \in Calls
      BY <2>1, <2>2, ShownType, PublishRequestType
    <2>5. QED
      BY <2>3, <2>4, BeginTypeOK
  <1>19. ASSUME NEW c \in Clients, Enqueue(c) PROVE TypeOK'
    BY <1>b, <1>c, <1>19 DEF Enqueue, Delivery!Submit, Delivery!Move, Stages, Status
  <1>20. ASSUME NEW c \in Clients, GiveUp(c) PROVE TypeOK'
    BY <1>b, <1>c, <1>20 DEF GiveUp, Stages, Status
  <1>21. ASSUME NEW c \in Clients, Cancel(c) PROVE TypeOK'
    BY <1>b, <1>c, <1>21 DEF Cancel, Stages, Status
  <1>22. ASSUME NEW c \in Clients, Recalculate(c) PROVE TypeOK'
    <2>1. call[c].run \in Runs
      BY <1>b, <1>22 DEF Recalculate
    <2>2. recalcs' \in [Runs -> 0..MaxRecalculations]
      <3>1. call[c].recalcs \in 0..MaxRecalculations /\ call[c].recalcs < MaxRecalculations
        BY <1>22 DEF Recalculate, CallsKnow, Calls
      <3>2. call[c].recalcs + 1 \in 0..MaxRecalculations
        BY <3>1
      <3>3. QED
        BY <1>22, <3>2 DEF Recalculate
    <2>3. status' \in [Runs -> Status]
      BY <1>22 DEF Recalculate, Status
    <2>4. call' \in [Clients -> Calls] /\ stranded' \subseteq Runs
      BY <1>c, <1>22, <2>1 DEF Recalculate
    <2>5. QED
      BY <1>22, <2>2, <2>3, <2>4 DEF Recalculate
  <1>23. ASSUME NEW c \in Clients, Approve(c) PROVE TypeOK'
    <2>1. call[c] \in Calls /\ call[c].run \in Runs
      BY <1>b, <1>23 DEF Approve
    <2>2. status' \in [Runs -> Status]
      BY <1>23, <2>1 DEF Approve, WriteStatus, Calls
    <2>3. approved' \subseteq Runs /\ call' \in [Clients -> Calls]
      BY <1>c, <1>23, <2>1 DEF Approve
    <2>4. QED
      BY <1>23, <2>2, <2>3 DEF Approve
  <1>24. ASSUME NEW c \in Clients, Edit(c) PROVE TypeOK'
    BY <1>b, <1>c, <1>24 DEF Edit, Stages, Status
  <1>25. ASSUME NEW c \in Clients, Publish(c) PROVE TypeOK'
    <2>1. call[c] \in Calls /\ call[c].run \in Runs
      BY <1>b, <1>25 DEF Publish
    <2>2. status' \in [Runs -> Status]
      BY <1>25, <2>1 DEF Publish, WriteStatus, Calls
    <2>3. snapshot' \in [Runs -> Results \cup {Empty, NoResult}]
      BY <1>25, <2>1 DEF Publish, Calls
    <2>4. pub' \in [Runs -> PublicationStatus] /\ quiet' \subseteq Runs
      BY <1>25, <2>1 DEF Publish, PublicationStatus
    <2>5. call' \in [Clients -> Calls]
      BY <1>c, <1>25 DEF Publish
    <2>6. QED
      BY <1>25, <2>2, <2>3, <2>4, <2>5 DEF Publish
  <1>26. CASE UNCHANGED vars
    BY <1>26 DEF vars, row, publications, queue, work
  <1>27. QED
    BY <1>1, <1>2, <1>3, <1>4, <1>5, <1>6, <1>7, <1>8, <1>9, <1>10, <1>11, <1>12,
       <1>13, <1>14, <1>15, <1>16, <1>17, <1>18, <1>19, <1>20, <1>21, <1>22, <1>23,
       <1>24, <1>25, <1>26 DEF Next, Work, Asked

LEMMA NextWorkersJobs == Known /\ [Next]_vars => WorkersKnow' /\ JobsKnown'
  <1> SUFFICES ASSUME Known, [Next]_vars PROVE WorkersKnow' /\ JobsKnown'
    OBVIOUS
  <1> USE DEF row, publications, queue, work, Goto, Known, TypeOK, QueueTypeOK,
              WorkTypeOK, WorkersKnow, JobsKnown
  <1>a. \A w \in Workers : pc[w] # "idle" => job[w] \in Jobs /\ Serving(w) \in Runs
    BY ServingRun
  <1>b. \A c \in Clients : call[c].op # "none" => call[c].run \in Runs
    BY DEF CallsKnow
  <1>1. ASSUME NEW w \in Workers, NEW j \in Jobs, Take(w, j)
        PROVE  WorkersKnow' /\ JobsKnown'
    BY <1>a, <1>1 DEF Take, Delivery!Deliver, Delivery!Move
  <1>2. ASSUME NEW w \in Workers, Read(w)
        PROVE  WorkersKnow' /\ JobsKnown'
    BY <1>a, <1>2 DEF Read, Delivery!Perform
  <1>3. ASSUME NEW w \in Workers, Claim(w)
        PROVE  WorkersKnow' /\ JobsKnown'
    BY <1>a, <1>3 DEF Claim
  <1>4. ASSUME NEW w \in Workers, NEW o \in Outcomes, Finish(w, o)
        PROVE  WorkersKnow' /\ JobsKnown'
    BY <1>a, <1>4 DEF Finish, Delivery!Perform
  <1>5. ASSUME NEW w \in Workers, Raise(w)
        PROVE  WorkersKnow' /\ JobsKnown'
    BY <1>a, <1>5 DEF Raise
  <1>6. ASSUME NEW w \in Workers, Reread(w)
        PROVE  WorkersKnow' /\ JobsKnown'
    BY <1>a, <1>6 DEF Reread, Delivery!Perform
  <1>7. ASSUME NEW w \in Workers, Record(w)
        PROVE  WorkersKnow' /\ JobsKnown'
    BY <1>a, <1>7 DEF Record, Delivery!Perform
  <1>8. ASSUME NEW w \in Workers, Ack(w)
        PROVE  WorkersKnow' /\ JobsKnown'
    BY <1>a, <1>8 DEF Ack, Delivery!Forget, Delivery!Move
  <1>9. ASSUME NEW w \in Workers, Crash(w)
        PROVE  WorkersKnow' /\ JobsKnown'
    BY <1>a, <1>9 DEF Crash
  <1>10. ASSUME NEW j \in Jobs, Redeliver(j)
        PROVE  WorkersKnow' /\ JobsKnown'
    BY <1>a, <1>10 DEF Redeliver, Delivery!Redeliver, Delivery!Move
  <1>11. ASSUME NEW j \in Jobs, Drop(j) PROVE WorkersKnow' /\ JobsKnown'
    BY <1>a, <1>11 DEF Drop, Delivery!Drop, Delivery!Move
  <1>12. ASSUME NEW c \in Clients, NEW r \in Runs, Create(c, r)
        PROVE  WorkersKnow' /\ JobsKnown'
    BY <1>a, <1>12 DEF Create, Begin
  <1>13. ASSUME NEW c \in Clients, NEW r \in Runs, Reenqueue(c, r)
        PROVE  WorkersKnow' /\ JobsKnown'
    BY <1>a, <1>13 DEF Reenqueue, Begin
  <1>14. ASSUME NEW c \in Clients, NEW r \in Runs, BeginCancel(c, r)
        PROVE  WorkersKnow' /\ JobsKnown'
    BY <1>a, <1>14 DEF BeginCancel, Begin
  <1>15. ASSUME NEW c \in Clients, NEW r \in Runs, BeginRecalculate(c, r)
        PROVE  WorkersKnow' /\ JobsKnown'
    BY <1>a, <1>15 DEF BeginRecalculate, Begin
  <1>16. ASSUME NEW c \in Clients, NEW r \in Runs, BeginApprove(c, r)
        PROVE  WorkersKnow' /\ JobsKnown'
    BY <1>a, <1>16 DEF BeginApprove, Begin
  <1>17. ASSUME NEW c \in Clients, NEW r \in Runs, BeginEdit(c, r)
        PROVE  WorkersKnow' /\ JobsKnown'
    BY <1>a, <1>17 DEF BeginEdit, Begin
  <1>18. ASSUME NEW c \in Clients, NEW r \in Runs, BeginPublish(c, r)
        PROVE  WorkersKnow' /\ JobsKnown'
    BY <1>a, <1>18 DEF BeginPublish, Begin
  <1>19. ASSUME NEW c \in Clients, Enqueue(c)
        PROVE  WorkersKnow' /\ JobsKnown'
    BY <1>a, <1>b, <1>19 DEF Enqueue, Delivery!Submit, Delivery!Move
  <1>20. ASSUME NEW c \in Clients, GiveUp(c)
        PROVE  WorkersKnow' /\ JobsKnown'
    BY <1>a, <1>20 DEF GiveUp
  <1>21. ASSUME NEW c \in Clients, Cancel(c)
        PROVE  WorkersKnow' /\ JobsKnown'
    BY <1>a, <1>21 DEF Cancel
  <1>22. ASSUME NEW c \in Clients, Recalculate(c)
        PROVE  WorkersKnow' /\ JobsKnown'
    BY <1>a, <1>22 DEF Recalculate
  <1>23. ASSUME NEW c \in Clients, Approve(c)
        PROVE  WorkersKnow' /\ JobsKnown'
    BY <1>a, <1>23 DEF Approve
  <1>24. ASSUME NEW c \in Clients, Edit(c)
        PROVE  WorkersKnow' /\ JobsKnown'
    BY <1>a, <1>24 DEF Edit
  <1>25. ASSUME NEW c \in Clients, Publish(c)
        PROVE  WorkersKnow' /\ JobsKnown'
    BY <1>a, <1>25 DEF Publish
  <1>26. CASE UNCHANGED vars
    BY <1>26 DEF vars, row, publications, queue, work
  <1>27. QED
    BY <1>1, <1>2, <1>3, <1>4, <1>5, <1>6, <1>7, <1>8, <1>9, <1>10, <1>11, <1>12,
       <1>13, <1>14, <1>15, <1>16, <1>17, <1>18, <1>19, <1>20, <1>21, <1>22, <1>23,
       <1>24, <1>25, <1>26 DEF Next, Work, Asked

LEMMA NextCallsKnow == Known /\ [Next]_vars => CallsKnow'
  <1> SUFFICES ASSUME Known, [Next]_vars PROVE CallsKnow'
    OBVIOUS
  <1> USE DEF row, publications, queue, work, Goto, Known, TypeOK, CallTypeOK, CallsKnow
  <1>1. ASSUME NEW w \in Workers, NEW j \in Jobs, Take(w, j)
        PROVE  CallsKnow'
    BY <1>1 DEF Take
  <1>2. ASSUME NEW w \in Workers, Read(w) PROVE CallsKnow'
    BY <1>2 DEF Read
  <1>3. ASSUME NEW w \in Workers, Claim(w) PROVE CallsKnow'
    BY <1>3 DEF Claim
  <1>4. ASSUME NEW w \in Workers, NEW o \in Outcomes, Finish(w, o)
        PROVE  CallsKnow'
    BY <1>4 DEF Finish
  <1>5. ASSUME NEW w \in Workers, Raise(w) PROVE CallsKnow'
    BY <1>5 DEF Raise
  <1>6. ASSUME NEW w \in Workers, Reread(w) PROVE CallsKnow'
    BY <1>6 DEF Reread
  <1>7. ASSUME NEW w \in Workers, Record(w) PROVE CallsKnow'
    BY <1>7 DEF Record
  <1>8. ASSUME NEW w \in Workers, Ack(w) PROVE CallsKnow'
    BY <1>8 DEF Ack
  <1>9. ASSUME NEW w \in Workers, Crash(w) PROVE CallsKnow'
    BY <1>9 DEF Crash
  <1>10. ASSUME NEW j \in Jobs, Redeliver(j) PROVE CallsKnow'
    BY <1>10 DEF Redeliver
  <1>11. ASSUME NEW j \in Jobs, Drop(j) PROVE CallsKnow'
    BY <1>11 DEF Drop
  <1>12. ASSUME NEW c \in Clients, NEW r \in Runs, Create(c, r)
        PROVE  CallsKnow'
    BY <1>12 DEF Create, Begin, Request
  <1>13. ASSUME NEW c \in Clients, NEW r \in Runs, Reenqueue(c, r)
        PROVE  CallsKnow'
    BY <1>13 DEF Reenqueue, Begin, Request
  <1>14. ASSUME NEW c \in Clients, NEW r \in Runs, BeginCancel(c, r)
        PROVE  CallsKnow'
    BY <1>14 DEF BeginCancel, Begin, Request
  <1>15. ASSUME NEW c \in Clients, NEW r \in Runs, BeginRecalculate(c, r)
        PROVE  CallsKnow'
    BY <1>15 DEF BeginRecalculate, Begin, Request
  <1>16. ASSUME NEW c \in Clients, NEW r \in Runs, BeginApprove(c, r)
        PROVE  CallsKnow'
    BY <1>16, ShownType DEF BeginApprove, Begin, Request, Outcomes
  <1>17. ASSUME NEW c \in Clients, NEW r \in Runs, BeginEdit(c, r)
        PROVE  CallsKnow'
    BY <1>17 DEF BeginEdit, Begin, Request
  <1>18. ASSUME NEW c \in Clients, NEW r \in Runs, BeginPublish(c, r)
        PROVE  CallsKnow'
    BY <1>18, ShownType DEF BeginPublish, Begin, Request, Outcomes
  <1>19. ASSUME NEW c \in Clients, Enqueue(c) PROVE CallsKnow'
    BY <1>19 DEF Enqueue, NoCall, Request
  <1>20. ASSUME NEW c \in Clients, GiveUp(c) PROVE CallsKnow'
    BY <1>20 DEF GiveUp, NoCall, Request
  <1>21. ASSUME NEW c \in Clients, Cancel(c) PROVE CallsKnow'
    BY <1>21 DEF Cancel, NoCall, Request
  <1>22. ASSUME NEW c \in Clients, Recalculate(c) PROVE CallsKnow'
    BY <1>22 DEF Recalculate, NoCall, Request
  <1>23. ASSUME NEW c \in Clients, Approve(c) PROVE CallsKnow'
    BY <1>23 DEF Approve, NoCall, Request
  <1>24. ASSUME NEW c \in Clients, Edit(c) PROVE CallsKnow'
    BY <1>24 DEF Edit, NoCall, Request
  <1>25. ASSUME NEW c \in Clients, Publish(c) PROVE CallsKnow'
    BY <1>25 DEF Publish, NoCall, Request
  <1>26. CASE UNCHANGED vars
    BY <1>26 DEF vars, row, publications, queue, work
  <1>27. QED
    BY <1>1, <1>2, <1>3, <1>4, <1>5, <1>6, <1>7, <1>8, <1>9, <1>10, <1>11, <1>12,
       <1>13, <1>14, <1>15, <1>16, <1>17, <1>18, <1>19, <1>20, <1>21, <1>22, <1>23,
       <1>24, <1>25, <1>26 DEF Next, Work, Asked

LEMMA NextKnown == Known /\ [Next]_vars => Known'
  BY NextTypeOK, NextWorkersJobs, NextCallsKnow DEF Known

\* What a worker serves does not change under its hands: a job that was sent
\* keeps its run.
LEMMA ServingKept ==
  ASSUME Known, Next, NEW w \in Workers, pc[w] # "idle", job'[w] = job[w]
  PROVE  Serving(w)' = Serving(w)
  <1>1. \A j \in Jobs : place[j] # "unsent" => runOf'[j] = runOf[j]
    <2>1. CASE \E c \in Clients : Enqueue(c)
      BY <2>1 DEF Enqueue, Delivery!Submit, Delivery!Move, Known, TypeOK, QueueTypeOK
    <2>2. CASE ~(\E c \in Clients : Enqueue(c))
      BY <2>2 DEF Next, Work, Asked, Take, Read, Claim, Finish, Raise, Reread, Record,
           Ack, Crash, Redeliver, Drop, Create, Reenqueue, Begin, BeginCancel,
           BeginRecalculate, BeginApprove, BeginEdit, BeginPublish, GiveUp, Cancel,
           Recalculate, Approve, Edit, Publish
    <2>3. QED
      BY <2>1, <2>2
  <1>2. QED
    BY <1>1 DEF Known, WorkersKnow, Serving

-----------------------------------------------------------------------------
(* A queued run is covered.  The job that covers it must not be about to    *)
(* be forgotten: it has not been carried out, and no worker is about to     *)
(* carry it out without touching the status (a worker that read "failed"    *)
(* after its rollback writes nothing over a run queued again meanwhile).    *)

Spent(j) ==
  j \in done \/ \E w \in Workers :
                  pc[w] = "recording" /\ seen[w] = "failed" /\ job[w] = j

Covers(j, r) == runOf[j] = r /\ place[j] \in {"waiting", "inflight"} /\ ~Spent(j)

Covered ==
  \A r \in Runs : status[r] = "queued" /\ r \notin stranded =>
    \/ \E j \in Jobs : Covers(j, r)
    \/ \E c \in Clients : call[c].op = "enqueue" /\ call[c].run = r

LEMMA NextCovered ==
  ASSUME ~RowSecurity
  PROVE  Known /\ Covered /\ [Next]_vars => Covered'
  <1> SUFFICES ASSUME Known, Covered, [Next]_vars PROVE Covered'
    OBVIOUS
  <1> USE DEF row, publications, queue, work, Goto, Known, TypeOK, RowTypeOK, QueueTypeOK,
              WorkTypeOK, CallTypeOK, Covered
  <1>a. \A w \in Workers : pc[w] # "idle" =>
          job[w] \in Jobs /\ Serving(w) \in Runs /\ Serving(w) = runOf[job[w]]
    BY ServingRun DEF WorkersKnow
  <1>b. \A c \in Clients : call[c].op # "none" => call[c].run \in Runs
    BY DEF CallsKnow
  <1>1. ASSUME NEW w \in Workers, NEW j \in Jobs, Take(w, j)
        PROVE  Covered'
    BY <1>a, <1>b, <1>1 DEF Covers, Spent, Take, Delivery!Deliver, Delivery!Move
  <1>2. ASSUME NEW w \in Workers, Read(w) PROVE Covered'
    BY <1>a, <1>b, <1>2 DEF Covers, Spent, Read, Delivery!Perform
  <1>3. ASSUME NEW w \in Workers, Claim(w) PROVE Covered'
    BY <1>a, <1>b, <1>3 DEF Covers, Spent, Claim
  <1>4. ASSUME NEW w \in Workers, NEW o \in Outcomes, Finish(w, o)
        PROVE  Covered'
    <2>1. \A j \in Jobs, r \in Runs : Covers(j, r) /\ r # Serving(w) => Covers(j, r)'
      BY <1>a, <1>4 DEF Covers, Spent, Finish, Delivery!Perform
    <2>2. \A r \in Runs : status'[r] = "queued" => status[r] = "queued" /\ r # Serving(w)
      BY <1>a, <1>4 DEF Finish, Outcomes
    <2>3. QED
      BY <1>4, <2>1, <2>2 DEF Finish
  <1>5. ASSUME NEW w \in Workers, Raise(w) PROVE Covered'
    BY <1>5 DEF Covers, Spent, Raise
  <1>6. ASSUME NEW w \in Workers, Reread(w) PROVE Covered'
    <2>1. CASE pc'[w] = "acking"
      <3>1. status[Serving(w)] = "canceled"
        BY <1>6, <2>1 DEF Reread
      <3>2. \A j \in Jobs, r \in Runs : Covers(j, r) /\ r # Serving(w) => Covers(j, r)'
        BY <1>a, <1>6, <2>1 DEF Covers, Spent, Reread, Delivery!Perform
      <3>3. QED
        BY <1>6, <3>1, <3>2 DEF Reread
    <2>2. CASE pc'[w] = "recording"
      <3>1. seen'[w] = status[Serving(w)] /\ UNCHANGED <<queue, job, runOf>>
        BY <1>6, <2>2 DEF Reread
      <3>2. \A v \in Workers \ {w} : pc'[v] = pc[v] /\ seen'[v] = seen[v]
        BY <1>6 DEF Reread
      <3>3. \A j \in Jobs, r \in Runs :
              Covers(j, r) /\ status[r] = "queued" => Covers(j, r)'
        BY <1>a, <1>6, <3>1, <3>2 DEF Covers, Spent, Reread
      <3>4. QED
        BY <1>6, <3>3 DEF Reread
    <2>3. QED
      BY <1>6, <2>1, <2>2 DEF Reread
  <1>7. ASSUME NEW w \in Workers, Record(w) PROVE Covered'
    <2>1. CASE seen[w] = "failed"
      <3>1. \A j \in Jobs, r \in Runs : Covers(j, r) => Covers(j, r)'
        BY <1>a, <1>7, <2>1 DEF Covers, Spent, Record, Delivery!Perform
      <3>2. QED
        BY <1>7, <2>1, <3>1 DEF Record
    <2>2. CASE seen[w] # "failed"
      <3>1. \A j \in Jobs, r \in Runs : Covers(j, r) /\ r # Serving(w) => Covers(j, r)'
        BY <1>a, <1>7 DEF Covers, Spent, Record, Delivery!Perform
      <3>2. \A r \in Runs : status'[r] = "queued" => status[r] = "queued" /\ r # Serving(w)
        BY <1>a, <1>7, <2>2 DEF Record
      <3>3. QED
        BY <1>7, <3>1, <3>2 DEF Record
    <2>3. QED
      BY <2>1, <2>2
  <1>8. ASSUME NEW w \in Workers, Ack(w) PROVE Covered'
    <2>1. \/ job[w] \in done /\ place' = [place EXCEPT ![job[w]] = "gone"]
          \/ place' = place
      BY <1>8 DEF Ack, Delivery!Forget, Delivery!Move
    <2>2. done' = done /\ \A v \in Workers \ {w} : pc'[v] = pc[v] /\ job'[v] = job[v]
      BY <1>8 DEF Ack, Delivery!Forget, Delivery!Move
    <2>3. \A j \in Jobs, r \in Runs : Covers(j, r) => Covers(j, r)'
      BY <1>8, <2>1, <2>2 DEF Covers, Spent, Ack
    <2>4. QED
      BY <1>8, <2>3 DEF Ack
  <1>9. ASSUME NEW w \in Workers, Crash(w) PROVE Covered'
    BY <1>9 DEF Covers, Spent, Crash
  <1>10. ASSUME NEW j \in Jobs, Redeliver(j) PROVE Covered'
    BY <1>10 DEF Covers, Spent, Redeliver, Delivery!Redeliver, Delivery!Move
  <1>11. ASSUME NEW j \in Jobs, Drop(j) PROVE Covered'
    <2>1. \A k \in Jobs, r \in Runs : Covers(k, r) /\ r # runOf[j] => Covers(k, r)'
      BY <1>11 DEF Covers, Spent, Drop, Delivery!Drop, Delivery!Move
    <2>2. QED
      BY <1>11, <2>1 DEF Drop
  <1>12. ASSUME NEW c \in Clients, NEW r \in Runs, Create(c, r)
        PROVE  Covered'
    BY <1>12 DEF Covers, Spent, Create, NoCall, Request
  <1>13. ASSUME NEW c \in Clients, NEW r \in Runs, Reenqueue(c, r)
        PROVE  Covered'
    BY <1>13 DEF Covers, Spent, Reenqueue, Begin, NoCall, Request
  <1>14. ASSUME NEW c \in Clients, NEW r \in Runs, BeginCancel(c, r)
        PROVE  Covered'
    BY <1>14 DEF Covers, Spent, BeginCancel, Begin, NoCall, Request
  <1>15. ASSUME NEW c \in Clients, NEW r \in Runs, BeginRecalculate(c, r)
        PROVE  Covered'
    BY <1>15 DEF Covers, Spent, BeginRecalculate, Begin, NoCall, Request
  <1>16. ASSUME NEW c \in Clients, NEW r \in Runs, BeginApprove(c, r)
        PROVE  Covered'
    BY <1>16 DEF Covers, Spent, BeginApprove, Begin, NoCall, Request
  <1>17. ASSUME NEW c \in Clients, NEW r \in Runs, BeginEdit(c, r)
        PROVE  Covered'
    BY <1>17 DEF Covers, Spent, BeginEdit, Begin, NoCall, Request
  <1>18. ASSUME NEW c \in Clients, NEW r \in Runs, BeginPublish(c, r)
        PROVE  Covered'
    BY <1>18 DEF Covers, Spent, BeginPublish, Begin, NoCall, Request
  <1>19. ASSUME NEW c \in Clients, Enqueue(c) PROVE Covered'
    <2>1. PICK j \in Jobs :
            Delivery!Submit(j) /\ runOf' = [runOf EXCEPT ![j] = call[c].run]
      BY <1>19 DEF Enqueue
    <2>2. j \notin done /\ \A w \in Workers : pc[w] # "idle" => job[w] # j
      BY <2>1 DEF WorkersKnow, JobsKnown, Delivery!Submit, Delivery!Move
    <2>3. \A r \in Runs : r = call[c].run => Covers(j, r)'
      BY <1>19, <2>1, <2>2 DEF Covers, Spent, Enqueue, Delivery!Submit, Delivery!Move
    <2>4. \A k \in Jobs, r \in Runs : Covers(k, r) => Covers(k, r)'
      BY <1>19, <2>1 DEF Covers, Spent, Enqueue, Delivery!Submit, Delivery!Move
    <2>5. QED
      BY <1>19, <2>3, <2>4 DEF Enqueue
  <1>20. ASSUME NEW c \in Clients, GiveUp(c) PROVE Covered'
    BY <1>20 DEF Covers, Spent, GiveUp, NoCall, Request
  <1>21. ASSUME NEW c \in Clients, Cancel(c) PROVE Covered'
    BY <1>21 DEF Covers, Spent, Cancel, NoCall, Request
  <1>22. ASSUME NEW c \in Clients, Recalculate(c) PROVE Covered'
    BY <1>22 DEF Covers, Spent, Recalculate, NoCall, Request
  <1>23. ASSUME NEW c \in Clients, Approve(c) PROVE Covered'
    <2>1. \A r \in Runs : status'[r] = "queued" => status[r] = "queued"
      BY <1>23 DEF Approve, WriteStatus, CallsKnow
    <2>2. \A j \in Jobs, r \in Runs : Covers(j, r) => Covers(j, r)'
      BY <1>23 DEF Covers, Spent, Approve
    <2>3. QED
      BY <1>23, <2>1, <2>2 DEF Approve
  <1>24. ASSUME NEW c \in Clients, Edit(c) PROVE Covered'
    BY <1>24 DEF Covers, Spent, Edit, NoCall, Request
  <1>25. ASSUME NEW c \in Clients, Publish(c) PROVE Covered'
    <2>1. \A r \in Runs : status'[r] = "queued" => status[r] = "queued"
      BY <1>25 DEF Publish, WriteStatus, CallsKnow
    <2>2. \A j \in Jobs, r \in Runs : Covers(j, r) => Covers(j, r)'
      BY <1>25 DEF Covers, Spent, Publish
    <2>3. QED
      BY <1>25, <2>1, <2>2 DEF Publish
  <1>26. CASE UNCHANGED vars
    BY <1>26 DEF Covers, Spent, vars, row, publications, queue, work
  <1>27. QED
    BY <1>1, <1>2, <1>3, <1>4, <1>5, <1>6, <1>7, <1>8, <1>9, <1>10, <1>11, <1>12,
       <1>13, <1>14, <1>15, <1>16, <1>17, <1>18, <1>19, <1>20, <1>21, <1>22, <1>23,
       <1>24, <1>25, <1>26 DEF Next, Work, Asked

-----------------------------------------------------------------------------
(* A quiet publication stays what it was.                                  *)

\* A request is about a run that exists, and so is a result.
Existing ==
  /\ \A c \in Clients : call[c].op # "none" => status[call[c].run] # "absent"
  /\ \A r \in Runs : result[r] # NoResult => status[r] # "absent"

LEMMA NextExisting == Known /\ Existing /\ [Next]_vars => Existing'
  <1> SUFFICES ASSUME Known, Existing, [Next]_vars PROVE Existing'
    OBVIOUS
  <1> USE DEF row, publications, queue, work, Goto, Known, TypeOK, RowTypeOK,
              CallTypeOK, Existing
  <1>a. \A w \in Workers : pc[w] # "idle" => job[w] \in Jobs /\ Serving(w) \in Runs
    BY ServingRun DEF WorkersKnow
  <1>b. \A c \in Clients : call[c].op # "none" => call[c].run \in Runs
    BY DEF CallsKnow
  <1>1. ASSUME NEW w \in Workers, NEW j \in Jobs, Take(w, j)
        PROVE  Existing'
    BY <1>a, <1>b, <1>1 DEF Take, Delivery!Deliver, Delivery!Move
  <1>2. ASSUME NEW w \in Workers, Read(w) PROVE Existing'
    BY <1>a, <1>b, <1>2 DEF Read, Delivery!Perform
  <1>3. ASSUME NEW w \in Workers, Claim(w) PROVE Existing'
    BY <1>a, <1>b, <1>3 DEF Claim
  <1>4. ASSUME NEW w \in Workers, NEW o \in Outcomes, Finish(w, o)
        PROVE  Existing'
    BY <1>a, <1>b, <1>4 DEF Finish, Delivery!Perform, Outcomes
  <1>5. ASSUME NEW w \in Workers, Raise(w) PROVE Existing'
    BY <1>a, <1>b, <1>5 DEF Raise
  <1>6. ASSUME NEW w \in Workers, Reread(w) PROVE Existing'
    BY <1>a, <1>b, <1>6 DEF Reread, Delivery!Perform
  <1>7. ASSUME NEW w \in Workers, Record(w) PROVE Existing'
    BY <1>a, <1>b, <1>7 DEF Record, Delivery!Perform
  <1>8. ASSUME NEW w \in Workers, Ack(w) PROVE Existing'
    BY <1>a, <1>b, <1>8 DEF Ack, Delivery!Forget, Delivery!Move
  <1>9. ASSUME NEW w \in Workers, Crash(w) PROVE Existing'
    BY <1>a, <1>b, <1>9 DEF Crash
  <1>10. ASSUME NEW j \in Jobs, Redeliver(j) PROVE Existing'
    BY <1>a, <1>b, <1>10 DEF Redeliver, Delivery!Redeliver, Delivery!Move
  <1>11. ASSUME NEW j \in Jobs, Drop(j) PROVE Existing'
    BY <1>a, <1>b, <1>11 DEF Drop, Delivery!Drop, Delivery!Move
  <1>12. ASSUME NEW c \in Clients, NEW r \in Runs, Create(c, r)
        PROVE  Existing'
    BY <1>a, <1>b, <1>12 DEF Create, NoCall, Request
  <1>13. ASSUME NEW c \in Clients, NEW r \in Runs, Reenqueue(c, r)
        PROVE  Existing'
    BY <1>a, <1>b, <1>13 DEF Reenqueue, Begin, NoCall, Request
  <1>14. ASSUME NEW c \in Clients, NEW r \in Runs, BeginCancel(c, r)
        PROVE  Existing'
    BY <1>a, <1>b, <1>14 DEF BeginCancel, Begin, NoCall, Request
  <1>15. ASSUME NEW c \in Clients, NEW r \in Runs, BeginRecalculate(c, r)
        PROVE  Existing'
    BY <1>a, <1>b, <1>15 DEF BeginRecalculate, Begin, NoCall, Request
  <1>16. ASSUME NEW c \in Clients, NEW r \in Runs, BeginApprove(c, r)
        PROVE  Existing'
    BY <1>a, <1>b, <1>16 DEF BeginApprove, Begin, NoCall, Request
  <1>17. ASSUME NEW c \in Clients, NEW r \in Runs, BeginEdit(c, r)
        PROVE  Existing'
    BY <1>a, <1>b, <1>17 DEF BeginEdit, Begin, NoCall, Request
  <1>18. ASSUME NEW c \in Clients, NEW r \in Runs, BeginPublish(c, r)
        PROVE  Existing'
    BY <1>a, <1>b, <1>18 DEF BeginPublish, Begin, NoCall, Request
  <1>19. ASSUME NEW c \in Clients, Enqueue(c) PROVE Existing'
    BY <1>a, <1>b, <1>19 DEF Enqueue, Delivery!Submit, Delivery!Move, NoCall, Request
  <1>20. ASSUME NEW c \in Clients, GiveUp(c) PROVE Existing'
    BY <1>a, <1>b, <1>20 DEF GiveUp, NoCall, Request
  <1>21. ASSUME NEW c \in Clients, Cancel(c) PROVE Existing'
    BY <1>a, <1>b, <1>21 DEF Cancel, NoCall, Request
  <1>22. ASSUME NEW c \in Clients, Recalculate(c) PROVE Existing'
    BY <1>a, <1>b, <1>22 DEF Recalculate, NoCall, Request
  <1>23. ASSUME NEW c \in Clients, Approve(c) PROVE Existing'
    BY <1>a, <1>b, <1>23 DEF Approve, WriteStatus, NoCall, Request
  <1>24. ASSUME NEW c \in Clients, Edit(c) PROVE Existing'
    BY <1>a, <1>b, <1>24 DEF Edit, NoCall, Request
  <1>25. ASSUME NEW c \in Clients, Publish(c) PROVE Existing'
    BY <1>a, <1>b, <1>25 DEF Publish, WriteStatus, NoCall, Request
  <1>26. CASE UNCHANGED vars
    BY <1>26 DEF vars, row, publications, queue, work
  <1>27. QED
    BY <1>1, <1>2, <1>3, <1>4, <1>5, <1>6, <1>7, <1>8, <1>9, <1>10, <1>11, <1>12,
       <1>13, <1>14, <1>15, <1>16, <1>17, <1>18, <1>19, <1>20, <1>21, <1>22, <1>23,
       <1>24, <1>25, <1>26 DEF Next, Work, Asked

\* What keeps the result of a quiet publication from changing: nothing can put
\* the run back into the queue or write its artifacts.
QuietRest ==
  \A r \in quiet : pub[r] = "published" =>
    /\ status[r] \notin {"queued", "absent"}
    /\ result[r] \in {snapshot[r], NoResult}
    /\ \A w \in Workers : pc[w] \in {"claiming", "solving"} => Serving(w) # r
    /\ \A c \in Clients : call[c].op \in {"edit", "recalculate"} => call[c].run # r

QuietKnown == \A r \in quiet : pub[r] # "absent"

LEMMA NextQuiet ==
  Known /\ Existing /\ QuietKnown /\ QuietRest /\ [Next]_vars => QuietKnown' /\ QuietRest'
  <1> SUFFICES ASSUME Known, Existing, QuietKnown, QuietRest, [Next]_vars
               PROVE  QuietKnown' /\ QuietRest'
    OBVIOUS
  <1> USE DEF row, publications, queue, work, Goto, Known, TypeOK, RowTypeOK,
              PublicationTypeOK, WorkTypeOK, CallTypeOK, QuietKnown, QuietRest
  <1>a. \A w \in Workers : pc[w] # "idle" => job[w] \in Jobs /\ Serving(w) \in Runs
    BY ServingRun DEF WorkersKnow
  <1>b. \A c \in Clients : call[c].op # "none" => call[c].run \in Runs
    BY DEF CallsKnow
  <1>c. [Next]_vars => \A w \in Workers :
          pc[w] # "idle" /\ job'[w] = job[w] => Serving(w)' = Serving(w)
    BY ServingKept DEF vars, Serving
  <1>1. ASSUME NEW w \in Workers, NEW j \in Jobs, Take(w, j)
        PROVE  QuietKnown' /\ QuietRest'
    BY <1>a, <1>b, <1>c, <1>1 DEF Take, Delivery!Deliver, Delivery!Move
  <1>2. ASSUME NEW w \in Workers, Read(w)
        PROVE  QuietKnown' /\ QuietRest'
    BY <1>a, <1>b, <1>c, <1>2 DEF Read, Delivery!Perform
  <1>3. ASSUME NEW w \in Workers, Claim(w)
        PROVE  QuietKnown' /\ QuietRest'
    BY <1>a, <1>b, <1>c, <1>3 DEF Claim
  <1>4. ASSUME NEW w \in Workers, NEW o \in Outcomes, Finish(w, o)
        PROVE  QuietKnown' /\ QuietRest'
    BY <1>a, <1>b, <1>c, <1>4 DEF Finish, Delivery!Perform, Outcomes
  <1>5. ASSUME NEW w \in Workers, Raise(w)
        PROVE  QuietKnown' /\ QuietRest'
    BY <1>a, <1>b, <1>c, <1>5 DEF Raise
  <1>6. ASSUME NEW w \in Workers, Reread(w)
        PROVE  QuietKnown' /\ QuietRest'
    BY <1>a, <1>b, <1>c, <1>6 DEF Reread, Delivery!Perform
  <1>7. ASSUME NEW w \in Workers, Record(w)
        PROVE  QuietKnown' /\ QuietRest'
    BY <1>a, <1>b, <1>c, <1>7 DEF Record, Delivery!Perform
  <1>8. ASSUME NEW w \in Workers, Ack(w) PROVE QuietKnown' /\ QuietRest'
    BY <1>a, <1>b, <1>c, <1>8 DEF Ack, Delivery!Forget, Delivery!Move
  <1>9. ASSUME NEW w \in Workers, Crash(w)
        PROVE  QuietKnown' /\ QuietRest'
    BY <1>a, <1>b, <1>c, <1>9 DEF Crash
  <1>10. ASSUME NEW j \in Jobs, Redeliver(j)
        PROVE  QuietKnown' /\ QuietRest'
    BY <1>a, <1>b, <1>c, <1>10 DEF Redeliver, Delivery!Redeliver, Delivery!Move
  <1>11. ASSUME NEW j \in Jobs, Drop(j) PROVE QuietKnown' /\ QuietRest'
    BY <1>a, <1>b, <1>c, <1>11 DEF Drop, Delivery!Drop, Delivery!Move
  <1>12. ASSUME NEW c \in Clients, NEW r \in Runs, Create(c, r)
        PROVE  QuietKnown' /\ QuietRest'
    BY <1>a, <1>b, <1>c, <1>12 DEF Create, NoCall, Request
  <1>13. ASSUME NEW c \in Clients, NEW r \in Runs, Reenqueue(c, r)
        PROVE  QuietKnown' /\ QuietRest'
    BY <1>a, <1>b, <1>c, <1>13 DEF Reenqueue, Begin, NoCall, Request
  <1>14. ASSUME NEW c \in Clients, NEW r \in Runs, BeginCancel(c, r)
        PROVE  QuietKnown' /\ QuietRest'
    BY <1>a, <1>b, <1>c, <1>14 DEF BeginCancel, Begin, NoCall, Request
  <1>15. ASSUME NEW c \in Clients, NEW r \in Runs, BeginRecalculate(c, r)
        PROVE  QuietKnown' /\ QuietRest'
    BY <1>a, <1>b, <1>c, <1>15 DEF BeginRecalculate, Begin, NoCall, Request
  <1>16. ASSUME NEW c \in Clients, NEW r \in Runs, BeginApprove(c, r)
        PROVE  QuietKnown' /\ QuietRest'
    BY <1>a, <1>b, <1>c, <1>16 DEF BeginApprove, Begin, NoCall, Request
  <1>17. ASSUME NEW c \in Clients, NEW r \in Runs, BeginEdit(c, r)
        PROVE  QuietKnown' /\ QuietRest'
    BY <1>a, <1>b, <1>c, <1>17 DEF BeginEdit, Begin, NoCall, Request
  <1>18. ASSUME NEW c \in Clients, NEW r \in Runs, BeginPublish(c, r)
        PROVE  QuietKnown' /\ QuietRest'
    BY <1>a, <1>b, <1>c, <1>18 DEF BeginPublish, Begin, NoCall, Request
  <1>19. ASSUME NEW c \in Clients, Enqueue(c)
        PROVE  QuietKnown' /\ QuietRest'
    BY <1>a, <1>b, <1>c, <1>19 DEF Enqueue, Delivery!Submit, Delivery!Move, NoCall, Request
  <1>20. ASSUME NEW c \in Clients, GiveUp(c)
        PROVE  QuietKnown' /\ QuietRest'
    BY <1>a, <1>b, <1>c, <1>20 DEF GiveUp, NoCall, Request
  <1>21. ASSUME NEW c \in Clients, Cancel(c)
        PROVE  QuietKnown' /\ QuietRest'
    BY <1>a, <1>b, <1>c, <1>21 DEF Cancel, NoCall, Request
  <1>22. ASSUME NEW c \in Clients, Recalculate(c)
        PROVE  QuietKnown' /\ QuietRest'
    BY <1>a, <1>b, <1>c, <1>22 DEF Recalculate, NoCall, Request
  <1>23. ASSUME NEW c \in Clients, Approve(c)
        PROVE  QuietKnown' /\ QuietRest'
    <2>1. \A r \in Runs : status[r] \notin {"queued", "absent"} =>
            status'[r] \notin {"queued", "absent"}
      BY <1>23 DEF Approve, WriteStatus, CallsKnow
    <2>2. QED
      BY <1>c, <1>23, <2>1 DEF Approve, NoCall, Request
  <1>24. ASSUME NEW c \in Clients, Edit(c)
        PROVE  QuietKnown' /\ QuietRest'
    BY <1>a, <1>b, <1>c, <1>24 DEF Edit, NoCall, Request
  <1>25. ASSUME NEW c \in Clients, Publish(c)
        PROVE  QuietKnown' /\ QuietRest'
    <2>0. call[c].run \in Runs /\ call[c] \in Calls
      BY <1>b, <1>25 DEF Publish
    <2>1. \A r \in Runs : status[r] \notin {"queued", "absent"} =>
            status'[r] \notin {"queued", "absent"}
      BY <1>25 DEF Publish, WriteStatus, CallsKnow
    <2>2. QuietKnown'
      BY <1>25, <2>0 DEF Publish
    <2>3. ASSUME NEW r \in quiet', pub'[r] = "published"
          PROVE  /\ status'[r] \notin {"queued", "absent"}
                 /\ result'[r] \in {snapshot'[r], NoResult}
                 /\ \A w \in Workers : pc'[w] \in {"claiming", "solving"} => Serving(w) # r
                 /\ \A d \in Clients : call'[d].op \in {"edit", "recalculate"} => call'[d].run # r
      <3>1. CASE r \in quiet
        <4>1. r # call[c].run /\ pub[r] = "published"
          BY <1>25, <2>3, <3>1 DEF Publish
        <4>2. QED
          BY <1>25, <2>1, <3>1, <4>1 DEF Publish, NoCall, Request
      <3>2. CASE r \notin quiet
        <4>1. r = call[c].run /\ Quiet(c, r)
          BY <1>25, <2>3, <3>2 DEF Publish
        <4>2. status[r] \notin {"queued", "absent"}
          BY <1>25, <4>1 DEF Publish, Quiet, Existing
        <4>3. QED
          BY <1>25, <2>1, <2>0, <4>1, <4>2 DEF Publish, Quiet, NoCall, Request
      <3>3. QED
        BY <3>1, <3>2
    <2>4. \A w \in Workers : pc'[w] \in {"claiming", "solving"} => Serving(w)' = Serving(w)
      BY <1>c, <1>25 DEF Publish
    <2>5. QED
      BY <2>2, <2>3, <2>4
  <1>26. CASE UNCHANGED vars
    BY <1>26 DEF Serving, vars, row, publications, queue, work
  <1>27. QED
    BY <1>1, <1>2, <1>3, <1>4, <1>5, <1>6, <1>7, <1>8, <1>9, <1>10, <1>11, <1>12,
       <1>13, <1>14, <1>15, <1>16, <1>17, <1>18, <1>19, <1>20, <1>21, <1>22, <1>23,
       <1>24, <1>25, <1>26 DEF Next, Work, Asked

-----------------------------------------------------------------------------
(* The theorems.  Known is inductive; each of the others is inductive       *)
(* together with it.                                                       *)

\* Every variable of the specification keeps its type: in particular no handler
\* writes a status outside the five committed ones, and no count passes the limit
\* by itself (recalculate_schedule_run).
THEOREM TypeCorrect == Spec => []TypeOK
  <1>1. Known => TypeOK
    BY DEF Known
  <1>2. QED
    BY InitKnown, NextKnown, <1>1, PTL DEF Spec

\* Where row-level security does not hide the run from the worker, a queued run
\* has a job that is still to be carried out, unless its producer died or its
\* job was dropped (process_next_schedule_run, execute_schedule_run).
THEOREM QueuedRunsCovered ==
  ASSUME ~RowSecurity
  PROVE  Spec => []QueuedRunIsCovered
  <1>1. Init => Covered
    BY DEF Init, Covered
  <1>2. Covered => QueuedRunIsCovered
    BY DEF Covered, Covers, QueuedRunIsCovered
  <1>3. QED
    BY InitKnown, NextKnown, NextCovered, <1>1, <1>2, PTL DEF Spec

\* What was published while nothing else was going on about the run stays what
\* is persisted, for as long as the publication is in force (publish_schedule_run,
\* save_manual_edit, recalculate_schedule_run).
THEOREM QuietPublicationsStable == Spec => []QuietPublicationStable
  <1>1. Init => Existing /\ QuietKnown /\ QuietRest
    BY DEF Init, Existing, QuietKnown, QuietRest, NoCall, Request
  <1>2. QuietRest => QuietPublicationStable
    BY DEF QuietRest, QuietPublicationStable
  <1>3. QED
    BY InitKnown, NextKnown, NextExisting, NextQuiet, <1>1, <1>2, PTL DEF Spec

=============================================================================
