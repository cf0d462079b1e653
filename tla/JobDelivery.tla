----------------------------- MODULE JobDelivery -----------------------------
(***************************************************************************)
(* What the schedule-run job queue promises, with Redis taken away: a job  *)
(* waits, is handed to a worker, may be handed out again, and disappears   *)
(* only after some worker has carried it out, or because a worker died     *)
(* while it was putting the job back (Drop).  JobQueue implements this.    *)
(***************************************************************************)

CONSTANT Jobs

VARIABLES
  place,    \* place[j]: "unsent", "waiting", "inflight" or "gone"
  done,     \* the jobs some worker has carried out to its commit
  dropped   \* the jobs lost while they were being put back

vars == <<place, done, dropped>>

TypeOK ==
  /\ place \in [Jobs -> {"unsent", "waiting", "inflight", "gone"}]
  /\ done \subseteq Jobs
  /\ dropped \subseteq Jobs

Init ==
  /\ place = [j \in Jobs |-> "unsent"]
  /\ done = {}
  /\ dropped = {}

Move(j, from, to) ==
  /\ place[j] = from
  /\ place' = [place EXCEPT ![j] = to]

\* A producer puts a new job on the queue.
Submit(j) == Move(j, "unsent", "waiting") /\ UNCHANGED <<done, dropped>>

\* A worker takes the job.
Deliver(j) == Move(j, "waiting", "inflight") /\ UNCHANGED <<done, dropped>>

\* The job is put back because its worker is taken for dead.
Redeliver(j) == Move(j, "inflight", "waiting") /\ UNCHANGED <<done, dropped>>

\* A worker carries the job out.  It may be one the job was taken from, so
\* the job can be anywhere but unsent.
Perform(j) ==
  /\ place[j] # "unsent"
  /\ done' = done \cup {j}
  /\ UNCHANGED <<place, dropped>>

\* The queue forgets the job, which has been carried out.
Forget(j) ==
  /\ j \in done
  /\ Move(j, "inflight", "gone")
  /\ UNCHANGED <<done, dropped>>

\* The worker that was putting the job back dies with it.
Drop(j) ==
  /\ Move(j, "waiting", "gone")
  /\ dropped' = dropped \cup {j}
  /\ UNCHANGED done

Next ==
  \E j \in Jobs :
    \/ Submit(j)
    \/ Deliver(j)
    \/ Redeliver(j)
    \/ Perform(j)
    \/ Forget(j)
    \/ Drop(j)

Spec == Init /\ [][Next]_vars
=============================================================================
