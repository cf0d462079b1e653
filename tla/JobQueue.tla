------------------------------ MODULE JobQueue ------------------------------
(***************************************************************************)
(* The Redis queue of schedule-run jobs: worker/queue.py, and the worker   *)
(* loop of worker/queue_worker.py that drives it.                          *)
(*                                                                         *)
(* Each action is one round trip to Redis, because a worker can die, and   *)
(* another can act, between any two of them.  A job stands for its         *)
(* payload, which carries a fresh job_id and so is pushed by a producer    *)
(* once.  The two lists are counted, not ordered: queued[j] is how often   *)
(* the payload of j is in the queue list.  A lease is kept as its age in   *)
(* ticks, LeaseTicks meaning "this old or older".  The owners hash is left *)
(* out: it is written beside the lease and read by nothing.                *)
(***************************************************************************)
EXTENDS Integers, FiniteSets

CONSTANTS
  Jobs,          \* the payloads
  Workers,       \* the worker processes
  LeaseTicks,    \* WORKSCHEDULEAI_QUEUE_LEASE_SECONDS, in ticks
  RecoverLimit,  \* the limit of recover_in_progress (100)
  NoJob          \* no payload

ASSUME JobQueueAssumption ==
  /\ LeaseTicks \in Nat \ {0}
  /\ RecoverLimit \in Nat \ {0}
  /\ NoJob \notin Jobs

VARIABLES
  queued,      \* queued[j]: occurrences of j in the queue list
  processing,  \* processing[j]: occurrences of j in the processing list
  lease,       \* lease[j]: the age of the lease of j, NoLease if it has none
  pc,          \* pc[w]: where worker w is
  job,         \* job[w]: the payload w works on
  scan,        \* scan[w]: what is left of the list w read when it started
  stale,       \* stale[w]: leases that had expired at w's `now`, and have
               \* not been written again since
  sent,        \* history: the payloads producers have pushed
  done,        \* history: the payloads a worker has carried out
  dropped      \* history: the payloads that died with a recovering worker

vars == <<queued, processing, lease, pc, job, scan, stale, sent, done, dropped>>
lists == <<queued, processing>>
recovery == <<scan, stale>>
history == <<sent, done, dropped>>

NoLease == -1

\* Where the worker is: "checking" is between HGET and LREM of a recovery,
\* "putback" between LREM and HDEL, "pushback" between HDEL and RPUSH,
\* "leasing" between BRPOPLPUSH and HSET, "acking" before the LREM of an
\* ack, "releasing" before its HDEL.
Places == {"down", "scanning", "checking", "putback", "pushback", "idle",
           "leasing", "executing", "acking", "releasing"}

TypeOK ==
  /\ queued \in [Jobs -> Nat]
  /\ processing \in [Jobs -> Nat]
  /\ lease \in [Jobs -> {NoLease} \cup 0..LeaseTicks]
  /\ pc \in [Workers -> Places]
  /\ job \in [Workers -> Jobs \cup {NoJob}]
  /\ scan \in [Workers -> SUBSET Jobs]
  /\ stale \in [Workers -> SUBSET Jobs]
  /\ sent \subseteq Jobs
  /\ done \subseteq Jobs
  /\ dropped \subseteq Jobs

Init ==
  /\ queued = [j \in Jobs |-> 0]
  /\ processing = [j \in Jobs |-> 0]
  /\ lease = [j \in Jobs |-> NoLease]
  /\ pc = [w \in Workers |-> "down"]
  /\ job = [w \in Workers |-> NoJob]
  /\ scan = [w \in Workers |-> {}]
  /\ stale = [w \in Workers |-> {}]
  /\ sent = {}
  /\ done = {}
  /\ dropped = {}

\* A plausible slip: an entry is taken away whether or not it is there.
LremAnyway(list, j) == [list EXCEPT ![j] = @ - 1]

\* One more, and (LREM with count 1) one less if there is one.
Push(list, j) == [list EXCEPT ![j] = @ + 1]
Lrem(list, j) == [list EXCEPT ![j] = IF @ > 0 THEN @ - 1 ELSE @]

Goto(w, from, to) ==
  /\ pc[w] = from
  /\ pc' = [pc EXCEPT ![w] = to]

-----------------------------------------------------------------------------
(* The producer.                                                           *)

\* enqueue: LPUSH of a payload with a new job_id.
Enqueue(j) ==
  /\ j \notin sent
  /\ queued' = Push(queued, j)
  /\ sent' = sent \cup {j}
  /\ UNCHANGED <<processing, lease, pc, job, recovery, done, dropped>>

-----------------------------------------------------------------------------
(* A worker that starts: run_queue_worker calls recover_in_progress once.  *)

\* `now`, and LRANGE cut to the limit: the payloads this worker looks at.
Start(w) ==
  /\ Goto(w, "down", "scanning")
  /\ \E seen \in SUBSET {j \in Jobs : processing[j] > 0} :
       /\ \/ Cardinality(seen) = RecoverLimit
          \/ /\ Cardinality(seen) < RecoverLimit
             /\ seen = {j \in Jobs : processing[j] > 0}
       /\ scan' = [scan EXCEPT ![w] = seen]
  /\ stale' = [stale EXCEPT ![w] = {j \in Jobs : lease[j] = LeaseTicks}]
  /\ UNCHANGED <<lists, lease, job, history>>

\* Plausible slips: leases are not looked at, or never run out.
RecoverableIfUnleased(w, j) == lease[j] = NoLease
RecoverableWhateverTheLease(w, j) == TRUE

\* _is_processing_payload_recoverable: no lease, or one that had expired at
\* `now`.  A lease written since then is younger than `now`.
Recoverable(w, j) == lease[j] = NoLease \/ j \in stale[w]

\* HGET of the lease, and `continue` when the payload is not recoverable.
Check(w, j) ==
  /\ pc[w] = "scanning"
  /\ j \in scan[w]
  /\ scan' = [scan EXCEPT ![w] = @ \ {j}]
  /\ IF Recoverable(w, j)
     THEN /\ pc' = [pc EXCEPT ![w] = "checking"]
          /\ job' = [job EXCEPT ![w] = j]
     ELSE UNCHANGED <<pc, job>>
  /\ UNCHANGED <<lists, lease, stale, history>>

\* A plausible slip: removed_count is not looked at.
TakeBackAnyway(w) ==
  /\ Goto(w, "checking", "putback")
  /\ processing' = Lrem(processing, job[w])
  /\ UNCHANGED <<queued, lease, job, recovery, history>>

\* LREM, and `continue` when another worker has already removed it.
TakeBack(w) ==
  /\ pc[w] = "checking"
  /\ pc' = [pc EXCEPT ![w] = IF processing[job[w]] > 0 THEN "putback" ELSE "scanning"]
  /\ processing' = Lrem(processing, job[w])
  /\ UNCHANGED <<queued, lease, job, recovery, history>>

\* The two HDELs.
ClearLease(w) ==
  /\ Goto(w, "putback", "pushback")
  /\ lease' = [lease EXCEPT ![job[w]] = NoLease]
  /\ UNCHANGED <<lists, job, recovery, history>>

\* RPUSH.
PutBack(w) ==
  /\ Goto(w, "pushback", "scanning")
  /\ queued' = Push(queued, job[w])
  /\ UNCHANGED <<processing, lease, job, recovery, history>>

\* recover_in_progress returns and the loop begins.
EndScan(w) ==
  /\ scan[w] = {}
  /\ Goto(w, "scanning", "idle")
  /\ UNCHANGED <<lists, lease, job, recovery, history>>

-----------------------------------------------------------------------------
(* The worker's loop.                                                      *)

\* BRPOPLPUSH.
Dequeue(w, j) ==
  /\ queued[j] > 0
  /\ Goto(w, "idle", "leasing")
  /\ queued' = [queued EXCEPT ![j] = @ - 1]
  /\ processing' = Push(processing, j)
  /\ job' = [job EXCEPT ![w] = j]
  /\ UNCHANGED <<lease, recovery, history>>

\* HSET of the lease.
WriteLease(w) ==
  /\ Goto(w, "leasing", "executing")
  /\ lease' = [lease EXCEPT ![job[w]] = 0]
  /\ stale' = [v \in Workers |-> stale[v] \ {job[w]}]
  /\ UNCHANGED <<lists, job, scan, history>>

\* execute_schedule_run returns (or raises LookupError): should_ack.
Perform(w) ==
  /\ Goto(w, "executing", "acking")
  /\ done' = done \cup {job[w]}
  /\ UNCHANGED <<lists, lease, job, recovery, sent, dropped>>

\* A plausible slip: the job is acknowledged before it has been carried out.
AckUndone(w) ==
  /\ pc[w] \in {"executing", "acking"}
  /\ pc' = [pc EXCEPT ![w] = "releasing"]
  /\ processing' = Lrem(processing, job[w])
  /\ UNCHANGED <<queued, lease, job, recovery, history>>

\* ack: LREM, whoever the entry belongs to by now.
Ack(w) ==
  /\ Goto(w, "acking", "releasing")
  /\ processing' = Lrem(processing, job[w])
  /\ UNCHANGED <<queued, lease, job, recovery, history>>

\* ack: HDEL of lease and owner.
Release(w) ==
  /\ Goto(w, "releasing", "idle")
  /\ lease' = [lease EXCEPT ![job[w]] = NoLease]
  /\ UNCHANGED <<lists, job, recovery, history>>

\* An exception of ack is logged and swallowed: the loop goes on.
AckFails(w) ==
  /\ pc[w] \in {"acking", "releasing"}
  /\ pc' = [pc EXCEPT ![w] = "idle"]
  /\ UNCHANGED <<lists, lease, job, recovery, history>>

\* Any other exception leaves run_queue_worker, and the process can be
\* killed at any point.  What it had taken out of the lists goes with it.
Crash(w) ==
  /\ pc[w] # "down"
  /\ pc' = [pc EXCEPT ![w] = "down"]
  /\ dropped' = IF pc[w] \in {"putback", "pushback"}
                THEN dropped \cup {job[w]} ELSE dropped
  /\ UNCHANGED <<lists, lease, job, recovery, sent, done>>

\* The clock: every lease gets older.
Tick ==
  /\ \E j \in Jobs : lease[j] \in 0..(LeaseTicks - 1)
  /\ lease' = [j \in Jobs |-> IF lease[j] \in 0..(LeaseTicks - 1)
                              THEN lease[j] + 1 ELSE lease[j]]
  /\ UNCHANGED <<lists, pc, job, recovery, history>>

Next ==
  \/ \E j \in Jobs : Enqueue(j)
  \/ \E w \in Workers :
       \/ Start(w)
       \/ \E j \in Jobs : Check(w, j)
       \/ TakeBack(w)
       \/ ClearLease(w)
       \/ PutBack(w)
       \/ EndScan(w)
       \/ \E j \in Jobs : Dequeue(w, j)
       \/ WriteLease(w)
       \/ Perform(w)
       \/ Ack(w)
       \/ Release(w)
       \/ AckFails(w)
       \/ Crash(w)
  \/ Tick

Spec == Init /\ [][Next]_vars

-----------------------------------------------------------------------------
(* Safety.                                                                 *)

\* Worker w has taken j out of the processing list and not pushed it yet.
Moving(w, j) == pc[w] \in {"putback", "pushback"} /\ job[w] = j

\* A payload is in one place at most: once in one of the two lists, or in the
\* hands of one recovering worker.  Two workers that recover the same payload,
\* or an acknowledgement that races a recovery, must not duplicate it (the
\* removed_count test of recover_in_progress, the count of LREM).
OnePlace ==
  \A j \in Jobs :
    /\ queued[j] + processing[j] <= 1
    /\ \A w \in Workers : Moving(w, j) => queued[j] + processing[j] = 0
    /\ \A v, w \in Workers : Moving(v, j) /\ Moving(w, j) => v = w

\* A payload that was pushed is somewhere until a worker has carried it out:
\* an ack never loses undone work, even when it is late and removes the entry
\* of another worker.  The one exception is a worker that dies between the
\* LREM and the RPUSH of a recovery.
NoSilentLoss ==
  \A j \in sent \ (done \cup dropped) :
    queued[j] + processing[j] > 0 \/ \E w \in Workers : Moving(w, j)

\* recover_in_progress takes up a payload only if its lease is missing or has
\* run out at that moment, although it compares with a `now` read earlier.
OnlyDeadLeasesTaken ==
  [][\A w \in Workers :
       pc[w] = "scanning" /\ pc'[w] = "checking" =>
         lease[job'[w]] \notin 0..(LeaseTicks - 1)]_vars

-----------------------------------------------------------------------------
(* The abstract queue.                                                     *)

\* A payload being put back still waits.
PlaceOf(j) ==
  IF j \notin sent THEN "unsent"
  ELSE IF queued[j] > 0 \/ \E w \in Workers : Moving(w, j) THEN "waiting"
  ELSE IF processing[j] > 0 THEN "inflight"
  ELSE "gone"

Delivery == INSTANCE JobDelivery WITH place <- [j \in Jobs |-> PlaceOf(j)]

\* The Redis queue delivers every job at least once, in the sense of
\* JobDelivery: it forgets a payload only after it was carried out.
DeliversAtLeastOnce == Delivery!Spec

-----------------------------------------------------------------------------
(* Liveness.  The loop of a worker has no exit, and the platform starts a  *)
(* worker that is down.  BRPOP takes the oldest payload, so none is passed *)
(* over for ever: that is the strong fairness on Dequeue.  Nothing is      *)
(* assumed of producers, of failures, or of when a worker is restarted.    *)

Work(w) ==
  \/ Start(w)
  \/ \E j \in Jobs : Check(w, j)
  \/ TakeBack(w)
  \/ ClearLease(w)
  \/ PutBack(w)
  \/ EndScan(w)
  \/ WriteLease(w)
  \/ Perform(w)
  \/ Ack(w)
  \/ Release(w)

Fairness ==
  /\ \A w \in Workers : WF_vars(Work(w))
  /\ \A j \in Jobs : SF_vars(\E w \in Workers : Dequeue(w, j))
  /\ WF_vars(Tick)

FairSpec == Spec /\ Fairness

\* From some point on workers only stop between two jobs.
CrashesEnd ==
  <>[][\A w \in Workers :
         pc[w] # "down" /\ pc'[w] = "down" => pc[w] = "idle"]_vars

\* Workers are started again and again, as in a series of deployments.
RestartsGoOn ==
  []<><<\E w \in Workers : pc[w] = "down" /\ pc'[w] = "scanning">>_vars

\* From some point on no acknowledgement fails: a payload that was carried out
\* and keeps being put back takes a place among those that a start looks at.
AcksSucceed == <>[][\A w \in Workers : ~AckFails(w)]_vars

RestartsServe == CrashesEnd /\ RestartsGoOn /\ AcksSucceed

EverySentJobDone == \A j \in Jobs : j \in sent ~> j \in done \cup dropped

\* With restarts that go on, every job is carried out, though each start looks
\* at no more than RecoverLimit payloads and finds some of their leases alive:
\* a payload stranded in the processing list by a dead worker is found by a
\* later start (queue_worker.py:32, queue.py:132-155).
RestartsServeEveryJob == RestartsServe => EverySentJobDone

\* j is in the processing list, and no worker has it in its hands.
Abandoned(j) ==
  /\ processing[j] > 0
  /\ \A w \in Workers : pc[w] \in {"leasing", "executing", "acking"} => job[w] # j

\* Likewise, no payload stays in the processing list without a worker for ever:
\* the premise on restarts in ScheduleRuns.
RestartsTakeUpAbandoned == RestartsServe => \A j \in Jobs : []<>~Abandoned(j)
=============================================================================
