--------------------------- MODULE JobQueueProofs ---------------------------
(***************************************************************************)
(* Proofs about JobQueue, for any number of payloads and workers.          *)
(***************************************************************************)
EXTENDS JobQueue, TLAPS

\* Where job[w] names the payload worker w is dealing with.
Engaged == {"checking", "putback", "pushback", "leasing", "executing",
            "acking", "releasing"}

\* A worker deals with payloads that were pushed.
EngagedInSent == \A w \in Workers : pc[w] \in Engaged => job[w] \in sent

\* And so are the payloads it read from the processing list.
ScanInSent == \A w \in Workers : scan[w] \subseteq sent

\* A payload nobody has pushed is in neither list.
UnsentNowhere == \A j \in Jobs \ sent : queued[j] = 0 /\ processing[j] = 0

\* The ack of a job comes after the job was carried out.
AckAfterDone == \A w \in Workers : pc[w] = "acking" => job[w] \in done

\* A lease that had expired at a worker's `now` is still expired, or gone.
StaleIsExpired ==
  \A w \in Workers : \A j \in stale[w] : lease[j] \in {NoLease, LeaseTicks}

IInv ==
  /\ TypeOK
  /\ EngagedInSent
  /\ ScanInSent
  /\ UnsentNowhere
  /\ OnePlace
  /\ AckAfterDone
  /\ NoSilentLoss
  /\ StaleIsExpired

LEMMA InitIInv == Init => IInv
  BY JobQueueAssumption
     DEF Init, IInv, TypeOK, EngagedInSent, ScanInSent, UnsentNowhere, OnePlace, Moving,
         AckAfterDone, NoSilentLoss, StaleIsExpired, Engaged, Places, NoLease

USE JobQueueAssumption

-----------------------------------------------------------------------------
(* The two list operations, and what a worker's payload is.                *)

LEMMA PushCount ==
  ASSUME NEW list \in [Jobs -> Nat], NEW j \in Jobs
  PROVE  /\ Push(list, j) \in [Jobs -> Nat]
         /\ \A k \in Jobs : Push(list, j)[k] = IF k = j THEN list[k] + 1 ELSE list[k]
  BY DEF Push

LEMMA LremCount ==
  ASSUME NEW list \in [Jobs -> Nat], NEW j \in Jobs
  PROVE  /\ Lrem(list, j) \in [Jobs -> Nat]
         /\ \A k \in Jobs :
              Lrem(list, j)[k] = IF k = j /\ list[k] > 0 THEN list[k] - 1 ELSE list[k]
  BY DEF Lrem

LEMMA EngagedJob ==
  ASSUME TypeOK, EngagedInSent, NEW w \in Workers, pc[w] \in Engaged
  PROVE  job[w] \in sent /\ job[w] \in Jobs
  BY DEF TypeOK, EngagedInSent

-----------------------------------------------------------------------------
(* Each conjunct of IInv is kept by every step.                            *)

LEMMA NextTypeOK == TypeOK /\ EngagedInSent /\ [Next]_vars => TypeOK'
  <1> SUFFICES ASSUME TypeOK, EngagedInSent, [Next]_vars PROVE TypeOK'
    OBVIOUS
  <1> USE DEF lists, recovery, history, Goto
  <1> DEFINE J(w) == pc[w] \in Engaged => job[w] \in Jobs
  <1>0. \A w \in Workers : J(w)
    BY EngagedJob
  <1>1. ASSUME NEW j \in Jobs, Enqueue(j) PROVE TypeOK'
    BY <1>1, PushCount DEF Enqueue, TypeOK
  <1>2. ASSUME NEW w \in Workers, Start(w) PROVE TypeOK'
    BY <1>2 DEF Start, TypeOK, Places
  <1>3. ASSUME NEW w \in Workers, NEW j \in Jobs, Check(w, j) PROVE TypeOK'
    BY <1>3 DEF Check, TypeOK, Places
  <1>4. ASSUME NEW w \in Workers, TakeBack(w) PROVE TypeOK'
    BY <1>0, <1>4, LremCount DEF TakeBack, TypeOK, Places, Engaged
  <1>5. ASSUME NEW w \in Workers, ClearLease(w) PROVE TypeOK'
    BY <1>5 DEF ClearLease, NoLease, TypeOK, Places
  <1>6. ASSUME NEW w \in Workers, PutBack(w) PROVE TypeOK'
    BY <1>0, <1>6, PushCount DEF PutBack, TypeOK, Places, Engaged
  <1>7. ASSUME NEW w \in Workers, EndScan(w) PROVE TypeOK'
    BY <1>7 DEF EndScan, TypeOK, Places
  <1>8. ASSUME NEW w \in Workers, NEW j \in Jobs, Dequeue(w, j) PROVE TypeOK'
    BY <1>8, PushCount DEF Dequeue, TypeOK, Places
  <1>9. ASSUME NEW w \in Workers, WriteLease(w) PROVE TypeOK'
    <2>0. 0 \in 0..LeaseTicks
      BY SMT
    <2>1. lease' \in [Jobs -> {NoLease} \cup 0..LeaseTicks]
      BY <1>9, <2>0 DEF WriteLease, TypeOK
    <2>2. stale' \in [Workers -> SUBSET Jobs]
      BY <1>9 DEF WriteLease, TypeOK
    <2>3. QED
      BY <1>9, <2>1, <2>2 DEF WriteLease, TypeOK, Places
  <1>10. ASSUME NEW w \in Workers, Perform(w) PROVE TypeOK'
    BY <1>0, <1>10 DEF Perform, TypeOK, Places, Engaged
  <1>11. ASSUME NEW w \in Workers, Ack(w) PROVE TypeOK'
    BY <1>0, <1>11, LremCount DEF Ack, TypeOK, Places, Engaged
  <1>12. ASSUME NEW w \in Workers, Release(w) PROVE TypeOK'
    BY <1>12 DEF Release, NoLease, TypeOK, Places
  <1>13. ASSUME NEW w \in Workers, AckFails(w) PROVE TypeOK'
    BY <1>13 DEF AckFails, TypeOK, Places
  <1>14. ASSUME NEW w \in Workers, Crash(w) PROVE TypeOK'
    BY <1>0, <1>14 DEF Crash, TypeOK, Places, Engaged
  <1>15. CASE Tick
    BY <1>15 DEF Tick, TypeOK
  <1>16. CASE UNCHANGED vars
    BY <1>16 DEF vars, TypeOK
  <1>17. QED
    BY <1>1, <1>2, <1>3, <1>4, <1>5, <1>6, <1>7, <1>8, <1>9, <1>10, <1>11,
       <1>12, <1>13, <1>14, <1>15, <1>16 DEF Next

LEMMA NextEngaged ==
  IInv /\ [Next]_vars => EngagedInSent' /\ ScanInSent' /\ AckAfterDone' /\ UnsentNowhere'
  <1> SUFFICES ASSUME IInv, [Next]_vars
               PROVE  EngagedInSent' /\ ScanInSent' /\ AckAfterDone' /\ UnsentNowhere'
    OBVIOUS
  <1> USE DEF lists, recovery, history, Goto, IInv, EngagedInSent, Engaged,
              ScanInSent, AckAfterDone, UnsentNowhere, TypeOK
  <1> DEFINE Kept == EngagedInSent' /\ ScanInSent' /\ AckAfterDone' /\ UnsentNowhere'
  <1>0. \A w \in Workers : pc[w] \in Engaged => job[w] \in Jobs
    BY EngagedJob
  <1>1. ASSUME NEW j \in Jobs, Enqueue(j) PROVE Kept
    BY <1>1, PushCount DEF Enqueue
  <1>2. ASSUME NEW w \in Workers, Start(w) PROVE Kept
    BY <1>2 DEF Start
  <1>3. ASSUME NEW w \in Workers, NEW j \in Jobs, Check(w, j) PROVE Kept
    BY <1>3 DEF Check
  <1>4. ASSUME NEW w \in Workers, TakeBack(w) PROVE Kept
    BY <1>0, <1>4, LremCount DEF TakeBack
  <1>5. ASSUME NEW w \in Workers, ClearLease(w) PROVE Kept
    BY <1>5 DEF ClearLease
  <1>6. ASSUME NEW w \in Workers, PutBack(w) PROVE Kept
    <2>1. job[w] \in Jobs /\ job[w] \in sent
      BY <1>0, <1>6 DEF PutBack
    <2>2. \A j \in Jobs \ sent : queued'[j] = queued[j]
      BY <1>6, <2>1 DEF PutBack, Push
    <2>3. UnsentNowhere'
      BY <1>6, <2>2 DEF PutBack
    <2>4. EngagedInSent' /\ ScanInSent' /\ AckAfterDone'
      BY <1>6 DEF PutBack
    <2>5. QED
      BY <2>3, <2>4
  <1>7. ASSUME NEW w \in Workers, EndScan(w) PROVE Kept
    BY <1>7 DEF EndScan
  <1>8. ASSUME NEW w \in Workers, NEW j \in Jobs, Dequeue(w, j) PROVE Kept
    BY <1>8, PushCount DEF Dequeue
  <1>9. ASSUME NEW w \in Workers, WriteLease(w) PROVE Kept
    BY <1>9 DEF WriteLease
  <1>10. ASSUME NEW w \in Workers, Perform(w) PROVE Kept
    BY <1>10 DEF Perform
  <1>11. ASSUME NEW w \in Workers, Ack(w) PROVE Kept
    BY <1>0, <1>11, LremCount DEF Ack
  <1>12. ASSUME NEW w \in Workers, Release(w) PROVE Kept
    BY <1>12 DEF Release
  <1>13. ASSUME NEW w \in Workers, AckFails(w) PROVE Kept
    BY <1>13 DEF AckFails
  <1>14. ASSUME NEW w \in Workers, Crash(w) PROVE Kept
    BY <1>14 DEF Crash
  <1>15. CASE Tick
    BY <1>15 DEF Tick
  <1>16. CASE UNCHANGED vars
    BY <1>16 DEF vars
  <1>17. QED
    BY <1>1, <1>2, <1>3, <1>4, <1>5, <1>6, <1>7, <1>8, <1>9, <1>10, <1>11,
       <1>12, <1>13, <1>14, <1>15, <1>16 DEF Next

LEMMA InOneList ==
  ASSUME IInv, NEW j \in Jobs
  PROVE  /\ queued[j] > 0 => /\ queued[j] = 1 /\ processing[j] = 0
                             /\ \A v \in Workers : ~Moving(v, j)
         /\ processing[j] > 0 => /\ processing[j] = 1 /\ queued[j] = 0
                                 /\ \A v \in Workers : ~Moving(v, j)
  <1>1. queued[j] \in Nat /\ processing[j] \in Nat
    BY DEF IInv, TypeOK
  <1>2. /\ queued[j] + processing[j] <= 1
        /\ \A v \in Workers : Moving(v, j) => queued[j] + processing[j] = 0
    BY DEF IInv, OnePlace
  <1>3. QED
    BY <1>1, <1>2

LEMMA NextOnePlace == IInv /\ [Next]_vars => OnePlace'
  <1> SUFFICES ASSUME IInv, [Next]_vars PROVE OnePlace'
    OBVIOUS
  <1> USE DEF lists, recovery, history, Goto, IInv, OnePlace, Moving,
              UnsentNowhere, TypeOK, Push, Lrem
  <1>0. \A w \in Workers : pc[w] \in Engaged => job[w] \in Jobs /\ job[w] \in sent
    BY EngagedJob
  <1>1. ASSUME NEW j \in Jobs, Enqueue(j) PROVE OnePlace'
    BY <1>0, <1>1 DEF Enqueue, Engaged
  <1>2. ASSUME NEW w \in Workers, Start(w) PROVE OnePlace'
    BY <1>0, <1>2 DEF Start, Engaged
  <1>3. ASSUME NEW w \in Workers, NEW j \in Jobs, Check(w, j) PROVE OnePlace'
    <2>1. \A v \in Workers : \A k \in Jobs : Moving(v, k)' <=> Moving(v, k)
      BY <1>3 DEF Check
    <2>2. UNCHANGED lists
      BY <1>3 DEF Check
    <2>3. QED
      BY <2>1, <2>2
  <1>4. ASSUME NEW w \in Workers, TakeBack(w) PROVE OnePlace'
    <2>1. job[w] \in Jobs
      BY <1>0, <1>4 DEF TakeBack, Engaged
    <2>2. CASE processing[job[w]] > 0
      <3>1. processing' = [processing EXCEPT ![job[w]] = 0]
        <4>1. processing[job[w]] = 1
          BY <2>1, <2>2, InOneList
        <4>2. QED
          BY <1>4, <2>1, <4>1 DEF TakeBack
      <3>2. queued[job[w]] = 0 /\ \A v \in Workers : ~Moving(v, job[w])
        BY <2>1, <2>2, InOneList
      <3>3. \A v \in Workers : \A k \in Jobs :
              Moving(v, k)' <=> Moving(v, k) \/ (v = w /\ k = job[w])
        BY <1>4, <2>2 DEF TakeBack
      <3>4. UNCHANGED queued
        BY <1>4 DEF TakeBack
      <3>5. QED
        BY <2>1, <3>1, <3>2, <3>3, <3>4
    <2>3. CASE ~(processing[job[w]] > 0)
      BY <1>4, <2>1, <2>3 DEF TakeBack
    <2>4. QED
      BY <2>2, <2>3
  <1>5. ASSUME NEW w \in Workers, ClearLease(w) PROVE OnePlace'
    BY <1>0, <1>5 DEF ClearLease, Engaged
  <1>6. ASSUME NEW w \in Workers, PutBack(w) PROVE OnePlace'
    BY <1>0, <1>6 DEF PutBack, Engaged
  <1>7. ASSUME NEW w \in Workers, EndScan(w) PROVE OnePlace'
    BY <1>0, <1>7 DEF EndScan, Engaged
  <1>8. ASSUME NEW w \in Workers, NEW j \in Jobs, Dequeue(w, j) PROVE OnePlace'
    BY <1>0, <1>8 DEF Dequeue, Engaged
  <1>9. ASSUME NEW w \in Workers, WriteLease(w) PROVE OnePlace'
    BY <1>0, <1>9 DEF WriteLease, Engaged
  <1>10. ASSUME NEW w \in Workers, Perform(w) PROVE OnePlace'
    BY <1>0, <1>10 DEF Perform, Engaged
  <1>11. ASSUME NEW w \in Workers, Ack(w) PROVE OnePlace'
    BY <1>0, <1>11 DEF Ack, Engaged
  <1>12. ASSUME NEW w \in Workers, Release(w) PROVE OnePlace'
    BY <1>0, <1>12 DEF Release, Engaged
  <1>13. ASSUME NEW w \in Workers, AckFails(w) PROVE OnePlace'
    BY <1>0, <1>13 DEF AckFails, Engaged
  <1>14. ASSUME NEW w \in Workers, Crash(w) PROVE OnePlace'
    BY <1>0, <1>14 DEF Crash, Engaged
  <1>15. CASE Tick
    BY <1>15 DEF Tick
  <1>16. CASE UNCHANGED vars
    BY <1>16 DEF vars
  <1>17. QED
    BY <1>1, <1>2, <1>3, <1>4, <1>5, <1>6, <1>7, <1>8, <1>9, <1>10, <1>11,
       <1>12, <1>13, <1>14, <1>15, <1>16 DEF Next

LEMMA NextNoSilentLoss == IInv /\ [Next]_vars => NoSilentLoss'
  <1> SUFFICES ASSUME IInv, [Next]_vars PROVE NoSilentLoss'
    OBVIOUS
  <1> USE DEF lists, recovery, history, Goto, IInv, OnePlace, Moving,
              NoSilentLoss, AckAfterDone, TypeOK, Push, Lrem
  <1>0. \A w \in Workers : pc[w] \in Engaged => job[w] \in Jobs /\ job[w] \in sent
    BY EngagedJob
  <1>1. ASSUME NEW j \in Jobs, Enqueue(j) PROVE NoSilentLoss'
    BY <1>0, <1>1 DEF Enqueue, Engaged
  <1>2. ASSUME NEW w \in Workers, Start(w) PROVE NoSilentLoss'
    BY <1>0, <1>2 DEF Start, Engaged
  <1>3. ASSUME NEW w \in Workers, NEW j \in Jobs, Check(w, j) PROVE NoSilentLoss'
    BY <1>0, <1>3 DEF Check, Engaged
  <1>4. ASSUME NEW w \in Workers, TakeBack(w) PROVE NoSilentLoss'
    <2>1. job[w] \in Jobs
      BY <1>0, <1>4 DEF TakeBack, Engaged
    <2>2. CASE processing[job[w]] > 0
      <3>1. \A k \in Jobs \ {job[w]} : processing'[k] = processing[k]
        BY <1>4, <2>1 DEF TakeBack
      <3>2. \A v \in Workers : \A k \in Jobs :
              Moving(v, k)' <=> Moving(v, k) \/ (v = w /\ k = job[w])
        BY <1>4, <2>2 DEF TakeBack
      <3>3. UNCHANGED <<queued, sent, done, dropped>>
        BY <1>4 DEF TakeBack
      <3>4. QED
        BY <2>1, <3>1, <3>2, <3>3
    <2>3. CASE ~(processing[job[w]] > 0)
      BY <1>4, <2>1, <2>3 DEF TakeBack
    <2>4. QED
      BY <2>2, <2>3
  <1>5. ASSUME NEW w \in Workers, ClearLease(w) PROVE NoSilentLoss'
    BY <1>0, <1>5 DEF ClearLease, Engaged
  <1>6. ASSUME NEW w \in Workers, PutBack(w) PROVE NoSilentLoss'
    BY <1>0, <1>6 DEF PutBack, Engaged
  <1>7. ASSUME NEW w \in Workers, EndScan(w) PROVE NoSilentLoss'
    BY <1>0, <1>7 DEF EndScan, Engaged
  <1>8. ASSUME NEW w \in Workers, NEW j \in Jobs, Dequeue(w, j) PROVE NoSilentLoss'
    BY <1>0, <1>8 DEF Dequeue, Engaged
  <1>9. ASSUME NEW w \in Workers, WriteLease(w) PROVE NoSilentLoss'
    BY <1>0, <1>9 DEF WriteLease, Engaged
  <1>10. ASSUME NEW w \in Workers, Perform(w) PROVE NoSilentLoss'
    BY <1>0, <1>10 DEF Perform, Engaged
  <1>11. ASSUME NEW w \in Workers, Ack(w) PROVE NoSilentLoss'
    BY <1>0, <1>11 DEF Ack, Engaged
  <1>12. ASSUME NEW w \in Workers, Release(w) PROVE NoSilentLoss'
    BY <1>0, <1>12 DEF Release, Engaged
  <1>13. ASSUME NEW w \in Workers, AckFails(w) PROVE NoSilentLoss'
    BY <1>0, <1>13 DEF AckFails, Engaged
  <1>14. ASSUME NEW w \in Workers, Crash(w) PROVE NoSilentLoss'
    BY <1>0, <1>14 DEF Crash, Engaged
  <1>15. CASE Tick
    BY <1>15 DEF Tick
  <1>16. CASE UNCHANGED vars
    BY <1>16 DEF vars
  <1>17. QED
    BY <1>1, <1>2, <1>3, <1>4, <1>5, <1>6, <1>7, <1>8, <1>9, <1>10, <1>11,
       <1>12, <1>13, <1>14, <1>15, <1>16 DEF Next

LEMMA NextStaleIsExpired == IInv /\ [Next]_vars => StaleIsExpired'
  <1> SUFFICES ASSUME IInv, [Next]_vars PROVE StaleIsExpired'
    OBVIOUS
  <1> USE DEF lists, recovery, history, Goto, IInv, StaleIsExpired, TypeOK, NoLease
  <1>0. \A w \in Workers : pc[w] \in Engaged => job[w] \in Jobs /\ job[w] \in sent
    BY EngagedJob
  <1>1. ASSUME NEW j \in Jobs, Enqueue(j) PROVE StaleIsExpired'
    BY <1>0, <1>1 DEF Enqueue, Engaged
  <1>2. ASSUME NEW w \in Workers, Start(w) PROVE StaleIsExpired'
    BY <1>0, <1>2 DEF Start, Engaged
  <1>3. ASSUME NEW w \in Workers, NEW j \in Jobs, Check(w, j) PROVE StaleIsExpired'
    BY <1>0, <1>3 DEF Check, Engaged
  <1>4. ASSUME NEW w \in Workers, TakeBack(w) PROVE StaleIsExpired'
    BY <1>0, <1>4 DEF TakeBack, Engaged
  <1>5. ASSUME NEW w \in Workers, ClearLease(w) PROVE StaleIsExpired'
    BY <1>0, <1>5 DEF ClearLease, Engaged
  <1>6. ASSUME NEW w \in Workers, PutBack(w) PROVE StaleIsExpired'
    BY <1>0, <1>6 DEF PutBack, Engaged
  <1>7. ASSUME NEW w \in Workers, EndScan(w) PROVE StaleIsExpired'
    BY <1>0, <1>7 DEF EndScan, Engaged
  <1>8. ASSUME NEW w \in Workers, NEW j \in Jobs, Dequeue(w, j) PROVE StaleIsExpired'
    BY <1>0, <1>8 DEF Dequeue, Engaged
  <1>9. ASSUME NEW w \in Workers, WriteLease(w) PROVE StaleIsExpired'
    BY <1>0, <1>9 DEF WriteLease, Engaged
  <1>10. ASSUME NEW w \in Workers, Perform(w) PROVE StaleIsExpired'
    BY <1>0, <1>10 DEF Perform, Engaged
  <1>11. ASSUME NEW w \in Workers, Ack(w) PROVE StaleIsExpired'
    BY <1>0, <1>11 DEF Ack, Engaged
  <1>12. ASSUME NEW w \in Workers, Release(w) PROVE StaleIsExpired'
    BY <1>0, <1>12 DEF Release, Engaged
  <1>13. ASSUME NEW w \in Workers, AckFails(w) PROVE StaleIsExpired'
    BY <1>0, <1>13 DEF AckFails, Engaged
  <1>14. ASSUME NEW w \in Workers, Crash(w) PROVE StaleIsExpired'
    BY <1>0, <1>14 DEF Crash, Engaged
  <1>15. CASE Tick
    BY <1>15 DEF Tick
  <1>16. CASE UNCHANGED vars
    BY <1>16 DEF vars
  <1>17. QED
    BY <1>1, <1>2, <1>3, <1>4, <1>5, <1>6, <1>7, <1>8, <1>9, <1>10, <1>11,
       <1>12, <1>13, <1>14, <1>15, <1>16 DEF Next

LEMMA NextIInv == IInv /\ [Next]_vars => IInv'
  BY NextTypeOK, NextEngaged, NextOnePlace, NextNoSilentLoss, NextStaleIsExpired
     DEF IInv

\* The inductive invariant holds in every reachable state.
THEOREM AlwaysIInv == Spec => []IInv
  BY InitIInv, NextIInv, PTL DEF Spec

\* Every variable keeps its type, however many payloads and workers there are.
THEOREM TypeCorrect == Spec => []TypeOK
  <1>1. IInv => TypeOK
    BY DEF IInv
  <1>2. QED
    BY <1>1, AlwaysIInv, PTL

\* recover_in_progress and ack never put a payload in two places at once.
THEOREM PayloadInOnePlace == Spec => []OnePlace
  <1>1. IInv => OnePlace
    BY DEF IInv
  <1>2. QED
    BY <1>1, AlwaysIInv, PTL

\* Dequeue, ack and recovery lose no payload before it has been carried out,
\* but for a worker that dies while it puts one back.
THEOREM PayloadNotLost == Spec => []NoSilentLoss
  <1>1. IInv => NoSilentLoss
    BY DEF IInv
  <1>2. QED
    BY <1>1, AlwaysIInv, PTL

\* A recovery takes up a payload only when its lease is missing or has run out.
THEOREM RecoveryRespectsLeases == Spec => OnlyDeadLeasesTaken
  <1> DEFINE Respect ==
        \A w \in Workers :
          pc[w] = "scanning" /\ pc'[w] = "checking" =>
            lease[job'[w]] \notin 0..(LeaseTicks - 1)
  <1>1. IInv /\ [Next]_vars => [Respect]_vars
    <2> SUFFICES ASSUME IInv, Next, NEW w \in Workers,
                        pc[w] = "scanning", pc'[w] = "checking"
                 PROVE  lease[job'[w]] \notin 0..(LeaseTicks - 1)
      BY DEF vars
    <2>1. PICK j \in Jobs : Check(w, j)
      <3> USE DEF IInv, TypeOK, Goto
      <3>1. \A j \in Jobs : ~Enqueue(j)
        BY DEF Enqueue
      <3>2. ~Tick
        BY DEF Tick
      <3>3. PICK v \in Workers :
              \/ Start(v) \/ (\E j \in Jobs : Check(v, j)) \/ TakeBack(v)
              \/ ClearLease(v) \/ PutBack(v) \/ EndScan(v)
              \/ (\E j \in Jobs : Dequeue(v, j)) \/ WriteLease(v)
              \/ Perform(v) \/ Ack(v) \/ Release(v) \/ AckFails(v) \/ Crash(v)
        BY <3>1, <3>2 DEF Next
      <3>4. QED
        BY <3>3 DEF Start, Check, TakeBack, ClearLease, PutBack, EndScan,
             Dequeue, WriteLease, Perform, Ack, Release, AckFails, Crash
    <2>2. Recoverable(w, j) /\ job'[w] = j
      BY <2>1 DEF Check, IInv, TypeOK
    <2>3. lease[j] \in {NoLease, LeaseTicks}
      BY <2>2 DEF Recoverable, IInv, StaleIsExpired
    <2>4. QED
      BY <2>2, <2>3 DEF NoLease
  <1>2. QED
    BY <1>1, AlwaysIInv, PTL DEF Spec, OnlyDeadLeasesTaken

-----------------------------------------------------------------------------
(* The refinement of JobDelivery.                                          *)

LEMMA InitDelivery == Init => Delivery!Init
  BY DEF Init, Delivery!Init, PlaceOf

\* A step that changes the place of one payload, or of none.
LEMMA MoveOne ==
  ASSUME NEW j \in Jobs, NEW to,
         PlaceOf(j)' = to,
         \A k \in Jobs \ {j} : PlaceOf(k)' = PlaceOf(k)
  PROVE  Delivery!Move(j, PlaceOf(j), to)
  BY DEF Delivery!Move

LEMMA MoveNone ==
  ASSUME \A k \in Jobs : PlaceOf(k)' = PlaceOf(k), UNCHANGED <<done, dropped>>
  PROVE  UNCHANGED Delivery!vars
  BY DEF Delivery!vars

\* A step that leaves the lists, the movers and the history alone is invisible.
LEMMA Invisible ==
  ASSUME UNCHANGED <<queued, processing, sent, done, dropped>>,
         \A v \in Workers : \A k \in Jobs : Moving(v, k)' <=> Moving(v, k)
  PROVE  UNCHANGED Delivery!vars
  <1>1. \A k \in Jobs : PlaceOf(k)' = PlaceOf(k)
    BY DEF PlaceOf
  <1>2. QED
    BY <1>1, MoveNone

LEMMA NextDelivery ==
  IInv /\ [Next]_vars => [Delivery!Next]_Delivery!vars
  <1> SUFFICES ASSUME IInv, [Next]_vars
               PROVE  Delivery!Next \/ UNCHANGED Delivery!vars
    OBVIOUS
  <1> DEFINE Maps == Delivery!Next \/ UNCHANGED Delivery!vars
  <1> USE DEF lists, recovery, history, Goto
  <1>0. \A w \in Workers : pc[w] \in Engaged => job[w] \in Jobs /\ job[w] \in sent
    BY EngagedJob DEF IInv
  <1>1. ASSUME NEW j \in Jobs, Enqueue(j) PROVE Maps
    <2>1. PlaceOf(j) = "unsent"
      BY <1>1 DEF Enqueue, PlaceOf
    <2>2. PlaceOf(j)' = "waiting"
      BY <1>1 DEF Enqueue, PlaceOf, Push, IInv, UnsentNowhere, TypeOK
    <2>3. \A k \in Jobs \ {j} : PlaceOf(k)' = PlaceOf(k)
      BY <1>1 DEF Enqueue, PlaceOf, Push, Moving, IInv, TypeOK
    <2>4. Delivery!Submit(j)
      BY <1>1, <2>1, <2>2, <2>3, MoveOne DEF Enqueue, Delivery!Submit
    <2>5. QED
      BY <2>4 DEF Delivery!Next
  <1>2. ASSUME NEW w \in Workers, Start(w) PROVE Maps
    BY <1>2, Invisible DEF Start, Moving, IInv, TypeOK
  <1>3. ASSUME NEW w \in Workers, NEW j \in Jobs, Check(w, j) PROVE Maps
    BY <1>3, Invisible DEF Check, Moving, IInv, TypeOK
  <1>4. ASSUME NEW w \in Workers, TakeBack(w) PROVE Maps
    <2>1. job[w] \in Jobs /\ job[w] \in sent
      BY <1>0, <1>4 DEF TakeBack, Engaged
    <2>2. CASE processing[job[w]] > 0
      <3>1. PlaceOf(job[w]) = "inflight"
        BY <2>1, <2>2 DEF PlaceOf, IInv, OnePlace, TypeOK
      <3>2. PlaceOf(job[w])' = "waiting"
        BY <1>4, <2>1, <2>2 DEF TakeBack, PlaceOf, Moving, IInv, TypeOK
      <3>3. \A k \in Jobs \ {job[w]} : PlaceOf(k)' = PlaceOf(k)
        BY <1>4, <2>1 DEF TakeBack, PlaceOf, Moving, Lrem, IInv, TypeOK
      <3>4. Delivery!Redeliver(job[w])
        BY <1>4, <2>1, <3>1, <3>2, <3>3, MoveOne
           DEF TakeBack, Delivery!Redeliver
      <3>5. QED
        BY <2>1, <3>4 DEF Delivery!Next
    <2>3. CASE ~(processing[job[w]] > 0)
      <3>1. processing' = processing
        BY <1>4, <2>1, <2>3 DEF TakeBack, Lrem, IInv, TypeOK
      <3>2. QED
        BY <1>4, <2>3, <3>1, Invisible DEF TakeBack, Moving, IInv, TypeOK
    <2>4. QED
      BY <2>2, <2>3
  <1>5. ASSUME NEW w \in Workers, ClearLease(w) PROVE Maps
    BY <1>5, Invisible DEF ClearLease, Moving, IInv, TypeOK
  <1>6. ASSUME NEW w \in Workers, PutBack(w) PROVE Maps
    <2>1. job[w] \in Jobs /\ job[w] \in sent
      BY <1>0, <1>6 DEF PutBack, Engaged
    <2>2. PlaceOf(job[w]) = "waiting"
      BY <1>6, <2>1 DEF PutBack, PlaceOf, Moving
    <2>3. PlaceOf(job[w])' = "waiting"
      BY <1>6, <2>1 DEF PutBack, PlaceOf, Push, IInv, TypeOK
    <2>4. \A k \in Jobs \ {job[w]} : PlaceOf(k)' = PlaceOf(k)
      BY <1>6, <2>1 DEF PutBack, PlaceOf, Moving, Push, IInv, TypeOK
    <2>5. QED
      BY <1>6, <2>2, <2>3, <2>4, MoveNone DEF PutBack
  <1>7. ASSUME NEW w \in Workers, EndScan(w) PROVE Maps
    BY <1>7, Invisible DEF EndScan, Moving, IInv, TypeOK
  <1>8. ASSUME NEW w \in Workers, NEW j \in Jobs, Dequeue(w, j) PROVE Maps
    <2>1. j \in sent
      BY <1>8 DEF Dequeue, IInv, UnsentNowhere, TypeOK
    <2>2. PlaceOf(j) = "waiting"
      BY <1>8, <2>1 DEF Dequeue, PlaceOf
    <2>3. PlaceOf(j)' = "inflight"
      <3>1. queued[j] = 1 /\ processing[j] = 0 /\ \A v \in Workers : ~Moving(v, j)
        BY <1>8, InOneList DEF Dequeue
      <3>2. queued'[j] = 0 /\ processing'[j] = 1
        BY <1>8, <3>1 DEF Dequeue, Push, IInv, TypeOK
      <3>3. \A v \in Workers : ~Moving(v, j)'
        BY <1>8, <3>1 DEF Dequeue, Moving, IInv, TypeOK
      <3>4. QED
        BY <1>8, <2>1, <3>2, <3>3 DEF Dequeue, PlaceOf
    <2>4. \A k \in Jobs \ {j} : PlaceOf(k)' = PlaceOf(k)
      BY <1>8 DEF Dequeue, PlaceOf, Moving, Push, IInv, TypeOK
    <2>5. Delivery!Deliver(j)
      BY <1>8, <2>2, <2>3, <2>4, MoveOne DEF Dequeue, Delivery!Deliver
    <2>6. QED
      BY <2>5 DEF Delivery!Next
  <1>9. ASSUME NEW w \in Workers, WriteLease(w) PROVE Maps
    BY <1>9, Invisible DEF WriteLease, Moving, IInv, TypeOK
  <1>10. ASSUME NEW w \in Workers, Perform(w) PROVE Maps
    <2>1. job[w] \in Jobs /\ job[w] \in sent
      BY <1>0, <1>10 DEF Perform, Engaged
    <2>2. \A k \in Jobs : PlaceOf(k)' = PlaceOf(k)
      BY <1>10 DEF Perform, PlaceOf, Moving, IInv, TypeOK
    <2>3. PlaceOf(job[w]) # "unsent"
      BY <2>1 DEF PlaceOf
    <2>4. Delivery!Perform(job[w])
      BY <1>10, <2>1, <2>2, <2>3 DEF Perform, Delivery!Perform
    <2>5. QED
      BY <2>1, <2>4 DEF Delivery!Next
  <1>11. ASSUME NEW w \in Workers, Ack(w) PROVE Maps
    <2>1. job[w] \in Jobs /\ job[w] \in sent /\ job[w] \in done
      BY <1>0, <1>11 DEF Ack, Engaged, IInv, AckAfterDone
    <2>2. \A v \in Workers : \A k \in Jobs : Moving(v, k)' <=> Moving(v, k)
      BY <1>11 DEF Ack, Moving, IInv, TypeOK
    <2>3. CASE processing[job[w]] > 0
      <3>1. /\ processing[job[w]] = 1
            /\ queued[job[w]] = 0
            /\ \A v \in Workers : ~Moving(v, job[w])
        BY <2>1, <2>3, InOneList
      <3>2. PlaceOf(job[w]) = "inflight"
        BY <2>1, <3>1 DEF PlaceOf
      <3>3. processing'[job[w]] = 0
        BY <1>11, <2>1, <3>1 DEF Ack, Lrem, IInv, TypeOK
      <3>4. PlaceOf(job[w])' = "gone"
        BY <1>11, <2>1, <2>2, <3>1, <3>3 DEF Ack, PlaceOf
      <3>5. \A k \in Jobs \ {job[w]} : PlaceOf(k)' = PlaceOf(k)
        BY <1>11, <2>1, <2>2 DEF Ack, PlaceOf, Lrem, IInv, TypeOK
      <3>6. Delivery!Forget(job[w])
        BY <1>11, <2>1, <3>2, <3>4, <3>5, MoveOne DEF Ack, Delivery!Forget
      <3>7. QED
        BY <2>1, <3>6 DEF Delivery!Next
    <2>4. CASE ~(processing[job[w]] > 0)
      <3>1. processing' = processing
        BY <1>11, <2>1, <2>4 DEF Ack, Lrem, IInv, TypeOK
      <3>2. QED
        BY <1>11, <2>2, <3>1, Invisible DEF Ack
    <2>5. QED
      BY <2>3, <2>4
  <1>12. ASSUME NEW w \in Workers, Release(w) PROVE Maps
    BY <1>12, Invisible DEF Release, Moving, IInv, TypeOK
  <1>13. ASSUME NEW w \in Workers, AckFails(w) PROVE Maps
    BY <1>13, Invisible DEF AckFails, Moving, IInv, TypeOK
  <1>14. ASSUME NEW w \in Workers, Crash(w) PROVE Maps
    <2>1. CASE pc[w] \in {"putback", "pushback"}
      <3>1. job[w] \in Jobs /\ job[w] \in sent
        BY <1>0, <2>1 DEF Engaged
      <3>2. /\ Moving(w, job[w])
            /\ queued[job[w]] = 0 /\ processing[job[w]] = 0
            /\ \A v \in Workers : Moving(v, job[w]) => v = w
        BY <2>1, <3>1 DEF Moving, IInv, OnePlace, TypeOK
      <3>3. \A v \in Workers : \A k \in Jobs :
              Moving(v, k)' <=> Moving(v, k) /\ v # w
        BY <1>14 DEF Crash, Moving, IInv, TypeOK
      <3>4. PlaceOf(job[w]) = "waiting"
        BY <3>1, <3>2 DEF PlaceOf
      <3>5. PlaceOf(job[w])' = "gone"
        BY <1>14, <3>1, <3>2, <3>3 DEF Crash, PlaceOf
      <3>6. \A k \in Jobs \ {job[w]} : PlaceOf(k)' = PlaceOf(k)
        BY <1>14, <2>1, <3>3 DEF Crash, PlaceOf, Moving
      <3>7. Delivery!Drop(job[w])
        BY <1>14, <2>1, <3>1, <3>4, <3>5, <3>6, MoveOne
           DEF Crash, Delivery!Drop
      <3>8. QED
        BY <3>1, <3>7 DEF Delivery!Next
    <2>2. CASE pc[w] \notin {"putback", "pushback"}
      BY <1>14, <2>2, Invisible DEF Crash, Moving, IInv, TypeOK
    <2>3. QED
      BY <2>1, <2>2
  <1>15. CASE Tick
    BY <1>15, Invisible DEF Tick, Moving
  <1>16. CASE UNCHANGED vars
    BY <1>16, Invisible DEF vars, Moving
  <1>17. QED
    BY <1>1, <1>2, <1>3, <1>4, <1>5, <1>6, <1>7, <1>8, <1>9, <1>10, <1>11,
       <1>12, <1>13, <1>14, <1>15, <1>16 DEF Next

\* The Redis queue implements the abstract one: at least once, and forgotten
\* only when carried out.
THEOREM QueueImplementsDelivery == Spec => DeliversAtLeastOnce
  BY InitDelivery, NextDelivery, AlwaysIInv, PTL
     DEF Spec, DeliversAtLeastOnce, Delivery!Spec
=============================================================================
