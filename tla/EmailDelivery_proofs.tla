------------------------- MODULE EmailDelivery_proofs -------------------------
(***************************************************************************)
(* Machine-checked proofs about EmailDelivery, for any number of emails,   *)
(* workers, scanners, requests and messages, any retry limits, with or     *)
(* without a queue, and for any number of crashes, faults and overruns.    *)
(***************************************************************************)
EXTENDS EmailDelivery, FiniteSetTheorems, TLAPS

-----------------------------------------------------------------------------
(* Type correctness, one part of the state at a time *)

\* What an action leaves alone keeps its type.
LEMMA Frame ==
  /\ RowsOK /\ UNCHANGED <<row, events>> => RowsOK'
  /\ MsgsOK /\ UNCHANGED msg => MsgsOK'
  /\ WorkersOK /\ UNCHANGED <<pc, job>> => WorkersOK'
  /\ ScannersOK /\ UNCHANGED scan => ScannersOK'
  /\ CallsOK /\ UNCHANGED call => CallsOK'
  /\ CountersOK /\ UNCHANGED <<accepted, lost, late, spent>> => CountersOK'
  BY DEF RowsOK, MsgsOK, WorkersOK, ScannersOK, CallsOK, CountersOK

\* The steps many actions share keep the types of what they change.
LEMMA SharedSteps ==
  ASSUME TypeOK
  PROVE  /\ \A e \in Emails : Enqueue(e) => MsgsOK'
         /\ \A k \in {"crash", "fault", "overrun"} :
              Spend(k) /\ UNCHANGED <<accepted, lost, late>> => CountersOK'
         /\ \A w \in Workers : Finish(w) \/ Stop(w) => WorkersOK'
         /\ \A w \in Workers, p \in Pcs :
              pc[w] \notin {"idle", "stopped"} /\ Goto(w, p) => WorkersOK'
<1>1. ASSUME NEW e \in Emails, Enqueue(e) PROVE MsgsOK'
  BY <1>1 DEF TypeOK, Enqueue, MsgsOK, MsgType
<1>2. ASSUME NEW k \in {"crash", "fault", "overrun"}, Spend(k), UNCHANGED <<accepted, lost, late>>
      PROVE  CountersOK'
  BY <1>2 DEF TypeOK, Spend, CountersOK
<1>3. ASSUME NEW w \in Workers, Finish(w) \/ Stop(w) PROVE WorkersOK'
  <2>1. NoJob \in JobType BY DEF NoJob, JobType
  <2>2. PICK p \in {"idle", "stopped"} :
          pc' = [pc EXCEPT ![w] = p] /\ job' = [job EXCEPT ![w] = NoJob]
    BY <1>3 DEF Finish, Stop
  <2>3. p \in Pcs BY DEF Pcs
  <2> HIDE DEF NoJob
  <2> QED BY <2>1, <2>2, <2>3 DEF TypeOK, WorkersOK
<1>4. ASSUME NEW w \in Workers, NEW p \in Pcs, pc[w] \notin {"idle", "stopped"}, Goto(w, p)
      PROVE  WorkersOK'
  BY <1>4 DEF TypeOK, Goto, WorkersOK
<1> QED BY <1>1, <1>2, <1>3, <1>4

LEMMA TypeCalls ==
  ASSUME TypeOK, NEW c \in Calls,
         CallStart(c) \/ CallContinue(c) \/ SendPublishFails(c) \/ CallCrash(c)
  PROVE  TypeOK'
<1> USE DeliveryAssumption DEF TypeOK
<1>1. ASSUME NEW e \in Emails, SendInsert(c, e) PROVE TypeOK'
  <2>1. RowsOK' BY <1>1 DEF SendInsert, RowsOK, RowType, Statuses, Times, CallsOK, CallType
  <2>2. CallsOK' BY <1>1 DEF SendInsert, CallsOK, CallType, NoCall
  <2> QED BY <1>1, <2>1, <2>2, Frame DEF SendInsert
<1>2. CASE SendPublish(c)
  <2>1. MsgsOK' BY <1>2, SharedSteps, Frame DEF SendPublish, CallsOK
  <2>2. CallsOK' BY <1>2 DEF SendPublish, CallsOK, CallType, NoCall
  <2> QED BY <1>2, <2>1, <2>2, Frame DEF SendPublish
<1>3. CASE SendPublishFails(c)
  <2>1. MsgsOK' BY <1>3, SharedSteps, Frame DEF SendPublishFails, CallsOK
  <2>2. CallsOK' BY <1>3 DEF SendPublishFails, CallsOK, CallType, NoCall
  <2>3. CountersOK' BY <1>3, SharedSteps DEF SendPublishFails
  <2> QED BY <1>3, <2>1, <2>2, <2>3, Frame DEF SendPublishFails
<1>4. CASE SendAudit(c)
  <2>1. RowsOK' BY <1>4 DEF SendAudit, RowsOK, RowType, Statuses, Times, CallsOK, CallType
  <2>2. CallsOK' BY <1>4 DEF SendAudit, CallsOK, CallType, NoCall
  <2> QED BY <1>4, <2>1, <2>2, Frame DEF SendAudit
<1>5. CASE SendAuditEvent(c)
  <2>1. RowsOK' BY <1>5 DEF SendAuditEvent, RowsOK, RowType, Statuses, Times, EventIds, CallsOK, CallType
  <2>2. CallsOK' BY <1>5 DEF SendAuditEvent, CallsOK, CallType, NoCall
  <2> QED BY <1>5, <2>1, <2>2, Frame DEF SendAuditEvent
<1>6. ASSUME NEW e \in Emails, NEW op \in {"cancel", "reschedule"}, EditRead(c, e, op) PROVE TypeOK'
  <2>1. CallsOK' BY <1>6 DEF EditRead, CallsOK, CallType, NoCall
  <2> QED BY <1>6, <2>1, Frame DEF EditRead
<1>7. CASE CancelWrite(c)
  <2>1. RowsOK' BY <1>7 DEF CancelWrite, RowsOK, RowType, Statuses, Times, CallsOK, CallType
  <2>2. CallsOK' BY <1>7 DEF CancelWrite, CallsOK, CallType, NoCall
  <2> QED BY <1>7, <2>1, <2>2, Frame DEF CancelWrite
<1>8. CASE RescheduleWrite(c)
  <2>1. RowsOK' BY <1>8 DEF RescheduleWrite, RowsOK, RowType, Statuses, Times, CallsOK, CallType
  <2>2. CallsOK' BY <1>8 DEF RescheduleWrite, CallsOK, CallType, NoCall
  <2> QED BY <1>8, <2>1, <2>2, Frame DEF RescheduleWrite
<1>9. CASE CallCrash(c)
  <2>1. CallsOK' BY <1>9 DEF CallCrash, CallsOK, CallType, NoCall
  <2>2. CountersOK' BY <1>9, SharedSteps DEF CallCrash
  <2> QED BY <1>9, <2>1, <2>2, Frame DEF CallCrash
<1> QED BY <1>1, <1>2, <1>3, <1>4, <1>5, <1>6, <1>7, <1>8, <1>9 DEF CallStart, CallContinue

LEMMA TypeScan ==
  ASSUME TypeOK, NEW s \in Scanners, Scan(s) \/ ScanAbort(s)
  PROVE  TypeOK'
<1> USE DeliveryAssumption DEF TypeOK
<1>1. ASSUME NEW e \in Emails, ScanFind(s, e) PROVE TypeOK'
  <2>1. ScannersOK' BY <1>1 DEF ScanFind, ScannersOK, ScanType
  <2> QED BY <1>1, <2>1, Frame DEF ScanFind
<1>2. CASE ScanPublish(s)
  <2>1. MsgsOK' BY <1>2, SharedSteps, Frame DEF ScanPublish, ScannersOK
  <2>2. ScannersOK' BY <1>2 DEF ScanPublish, ScannersOK, ScanType
  <2> QED BY <1>2, <2>1, <2>2, Frame DEF ScanPublish
<1>3. CASE ScanMark(s)
  <2>1. RowsOK' BY <1>3 DEF ScanMark, RowsOK, RowType, Statuses, Times, ScannersOK, ScanType
  <2>2. ScannersOK' BY <1>3 DEF ScanMark, ScannersOK, ScanType
  <2> QED BY <1>3, <2>1, <2>2, Frame DEF ScanMark
<1>4. CASE CronWrite(s)
  <2>1. RowsOK' BY <1>4 DEF CronWrite, RowsOK, RowType, Statuses, Times, ScannersOK, ScanType
  <2>2. ScannersOK' BY <1>4 DEF CronWrite, ScannersOK, ScanType
  <2>3. CountersOK' BY <1>4 DEF CronWrite, CountersOK, ScannersOK
  <2> QED BY <1>4, <2>1, <2>2, <2>3, Frame DEF CronWrite
<1>5. CASE ScanAbort(s)
  <2>1. ScannersOK' BY <1>5 DEF ScanAbort, ScannersOK, ScanType
  <2>2. CountersOK' BY <1>5, SharedSteps DEF ScanAbort
  <2> QED BY <1>5, <2>1, <2>2, Frame DEF ScanAbort
<1> QED BY <1>1, <1>2, <1>3, <1>4, <1>5 DEF Scan

LEMMA TypeWork ==
  ASSUME TypeOK, NEW w \in Workers, Work(w) \/ WorkFault(w)
  PROVE  TypeOK'
<1> USE DeliveryAssumption DEF TypeOK
<1>1. ASSUME NEW m \in Msgs, Receive(w, m) PROVE TypeOK'
  <2>1. MsgsOK' BY <1>1 DEF Receive, MsgsOK, MsgType, WorkersOK, JobType
  <2>2. WorkersOK' BY <1>1 DEF Receive, WorkersOK, JobType, Pcs, MsgsOK, MsgType, RowsOK, RowType, Times, Statuses
  <2> QED BY <1>1, <2>1, <2>2, Frame DEF Receive
<1>2. ASSUME NEW e \in Emails, PollDatabase(w, e) PROVE TypeOK'
  <2>1. WorkersOK' BY <1>2 DEF PollDatabase, WorkersOK, JobType, Pcs, MsgsOK, MsgType, RowsOK, RowType, Times, Statuses
  <2> QED BY <1>2, <2>1, Frame DEF PollDatabase
<1>3. CASE FindEmail(w)
  <2>1. WorkersOK' BY <1>3, SharedSteps DEF FindEmail, WorkersOK, Pcs
  <2> QED BY <1>3, <2>1, Frame DEF FindEmail
<1>4. CASE ClaimForSending(w)
  <2>1. RowsOK'
    <3>1. job[w].email \in Emails BY <1>4 DEF ClaimForSending, WorkersOK
    <3>2. CASE Claimable(row[job[w].email])
      BY <1>4, <3>1, <3>2 DEF ClaimForSending, RowsOK, RowType, Statuses
    <3>3. CASE ~Claimable(row[job[w].email])
      BY <1>4, <3>3, Frame DEF ClaimForSending
    <3> QED BY <3>2, <3>3
  <2>2. WorkersOK' BY <1>4, SharedSteps DEF ClaimForSending, WorkersOK, Pcs
  <2> QED BY <1>4, <2>1, <2>2, Frame DEF ClaimForSending
<1>5. CASE ResolveDomain(w)
  <2>1. WorkersOK' BY <1>5, SharedSteps DEF ResolveDomain, WorkersOK, Pcs
  <2> QED BY <1>5, <2>1, Frame DEF ResolveDomain
<1>6. CASE Handoff(w)
  <2>1. WorkersOK' BY <1>6, SharedSteps DEF Handoff, WorkersOK, Pcs
  <2>2. CountersOK' BY <1>6 DEF Handoff, CountersOK, WorkersOK, JobType
  <2> QED BY <1>6, <2>1, <2>2, Frame DEF Handoff
<1>7. CASE MarkSent(w)
  <2>1. RowsOK' BY <1>7 DEF MarkSent, RowsOK, RowType, Statuses, Times, WorkersOK, JobType
  <2>2. WorkersOK' BY <1>7, SharedSteps DEF MarkSent, WorkersOK, Pcs
  <2> QED BY <1>7, <2>1, <2>2, Frame DEF MarkSent
<1>8. CASE RecordFailure(w)
  <2>1. RowsOK' BY <1>8 DEF RecordFailure, AttemptFailed, RowsOK, RowType, Statuses, Times, WorkersOK, JobType, NextRetry
  <2>2. WorkersOK' BY <1>8, SharedSteps DEF RecordFailure, WorkersOK, Pcs
  <2> QED BY <1>8, <2>1, <2>2, Frame DEF RecordFailure
<1>9. CASE Bury(w)
  <2>1. RowsOK' BY <1>9 DEF Bury, RowsOK, RowType, Statuses, Times, EventIds, WorkersOK, JobType
  <2>2. WorkersOK' BY <1>9, SharedSteps DEF Bury, WorkersOK, Pcs
  <2> QED BY <1>9, <2>1, <2>2, Frame DEF Bury
<1>10. CASE Delay(w)
  <2>1. RowsOK' BY <1>10 DEF Delay, RowsOK, RowType, Statuses, Times, EventIds, WorkersOK, JobType
  <2>2. WorkersOK' BY <1>10, SharedSteps DEF Delay, WorkersOK, Pcs
  <2> QED BY <1>10, <2>1, <2>2, Frame DEF Delay
<1>11. CASE Ack(w)
  <2>1. MsgsOK'
    <3>1. CASE job[w].msg # None /\ Live(job[w].msg) /\ msg' = [msg EXCEPT ![job[w].msg].state = "deleted"]
      <4>1. job[w].msg \in Msgs BY <3>1 DEF WorkersOK, JobType
      <4>2. msg[job[w].msg].email \in Emails BY <3>1, <4>1 DEF MsgsOK, Live
      <4> QED BY <3>1, <4>1, <4>2 DEF MsgsOK, MsgType
    <3>2. CASE UNCHANGED msg BY <3>2 DEF MsgsOK
    <3> QED BY <1>11, <3>1, <3>2 DEF Ack
  <2>2. WorkersOK' BY <1>11, SharedSteps DEF Ack, WorkersOK, Pcs
  <2> QED BY <1>11, <2>1, <2>2, Frame DEF Ack
<1>12. CASE Nack(w)
  <2>1. MsgsOK'
    <3>1. ASSUME NEW m \in Msgs, NEW h \in BOOLEAN, msg[m].state = "inflight",
                 msg' = [msg EXCEPT ![m].hold = h] PROVE MsgsOK'
      BY <3>1 DEF MsgsOK, MsgType
    <3>2. (row[job[w].email].retry = "future") \in BOOLEAN
      OBVIOUS
    <3>3. job[w].msg \in Msgs \cup {None}
      BY DEF WorkersOK, JobType
    <3> QED BY <1>12, <3>1, <3>2, <3>3, Frame DEF Nack, Current
  <2>2. WorkersOK' BY <1>12, SharedSteps DEF Nack, WorkersOK, Pcs
  <2> QED BY <1>12, <2>1, <2>2, Frame DEF Nack
<1>13. CASE HandoffUnacknowledged(w)
  <2>1. WorkersOK' BY <1>13, SharedSteps DEF HandoffUnacknowledged, WorkersOK, Pcs
  <2>2. CountersOK' BY <1>13 DEF HandoffUnacknowledged, CountersOK, WorkersOK, JobType, Spend
  <2> QED BY <1>13, <2>1, <2>2, Frame DEF HandoffUnacknowledged
<1>14. CASE MarkSentFails(w)
  <2>1. WorkersOK' BY <1>14, SharedSteps DEF MarkSentFails, WorkersOK, Pcs
  <2>2. CountersOK' BY <1>14 DEF MarkSentFails, CountersOK, WorkersOK, JobType, Spend
  <2>3. RowsOK' BY <1>14 DEF MarkSentFails, RowsOK, RowType, Statuses, Times, WorkersOK, JobType
  <2> QED BY <1>14, <2>1, <2>2, <2>3, Frame DEF MarkSentFails
<1>15. CASE DatabaseFails(w)
  <2>1. WorkersOK' BY <1>15, SharedSteps DEF DatabaseFails, WorkersOK, Pcs
  <2>2. CountersOK' BY <1>15, SharedSteps DEF DatabaseFails
  <2> QED BY <1>15, <2>1, <2>2, Frame DEF DatabaseFails
<1>16. CASE AckFails(w)
  <2>1. WorkersOK' BY <1>16, SharedSteps DEF AckFails, WorkersOK, Pcs
  <2>2. CountersOK' BY <1>16, SharedSteps DEF AckFails
  <2> QED BY <1>16, <2>1, <2>2, Frame DEF AckFails
<1>17. CASE LoopFails(w)
  <2>1. WorkersOK' BY <1>17, SharedSteps DEF LoopFails, WorkersOK, Pcs
  <2>2. CountersOK' BY <1>17, SharedSteps DEF LoopFails
  <2> QED BY <1>17, <2>1, <2>2, Frame DEF LoopFails
<1>18. CASE WorkerCrash(w)
  <2>1. WorkersOK' BY <1>18, SharedSteps DEF WorkerCrash, WorkersOK, Pcs
  <2>2. CountersOK' BY <1>18, SharedSteps DEF WorkerCrash
  <2> QED BY <1>18, <2>1, <2>2, Frame DEF WorkerCrash
<1>19. CASE DatabaseUnanswered(w)
  <2>1. pc[w] \in {"claim", "fail", "bury"} BY <1>19 DEF DatabaseUnanswered
  <2>2. WorkersOK' BY <1>19, <2>1, SharedSteps DEF DatabaseUnanswered, Pcs
  <2>3. job[w].email \in Emails /\ job[w] \in JobType BY <2>1 DEF WorkersOK
  <2>4. RowsOK'
    <3>1. CASE pc[w] = "claim" BY <1>19, <3>1, <2>3 DEF DatabaseUnanswered, RowsOK, RowType, Statuses
    <3>2. CASE pc[w] = "fail"
      BY <1>19, <3>2, <2>3 DEF DatabaseUnanswered, AttemptFailed, RowsOK, RowType, Statuses, Times, JobType, NextRetry
    <3>3. CASE pc[w] = "bury"
      BY <1>19, <3>3, <2>3 DEF DatabaseUnanswered, RowsOK, EventIds, JobType
    <3> QED BY <2>1, <3>1, <3>2, <3>3
  <2>5. CountersOK' BY <1>19, SharedSteps DEF DatabaseUnanswered
  <2> QED BY <1>19, <2>2, <2>4, <2>5, Frame DEF DatabaseUnanswered
<1> QED BY <1>1, <1>2, <1>3, <1>4, <1>5, <1>6, <1>7, <1>8, <1>9, <1>10, <1>11, <1>12, <1>13, <1>14, <1>15, <1>16, <1>17, <1>18, <1>19 DEF Work, WorkFault

LEMMA TypeEnvironment ==
  ASSUME TypeOK, 
         \/ \E m \in Msgs : Expire(m) \/ Overrun(m) \/ Redrive(m)
         \/ \E e \in Emails : ScheduleArrives(e) \/ RetryArrives(e)
         \/ \E e \in Emails, t \in FeedbackTypes : Feedback(e, t)
  PROVE  TypeOK'
<1> USE DeliveryAssumption DEF TypeOK
<1>1. ASSUME NEW m \in Msgs, Expire(m) PROVE TypeOK'
  <2>1. MsgsOK' BY <1>1 DEF Expire, MsgsOK, MsgType, BecomeVisible
  <2> QED BY <1>1, <2>1, Frame DEF Expire, BecomeVisible
<1>2. ASSUME NEW m \in Msgs, Overrun(m) PROVE TypeOK'
  <2>1. MsgsOK' BY <1>2 DEF Overrun, MsgsOK, MsgType, BecomeVisible
  <2>2. CountersOK' BY <1>2, SharedSteps DEF Overrun, BecomeVisible
  <2> QED BY <1>2, <2>1, <2>2, Frame DEF Overrun, BecomeVisible
<1>3. ASSUME NEW m \in Msgs, Redrive(m) PROVE TypeOK'
  <2>1. MsgsOK' BY <1>3 DEF Redrive, MsgsOK, MsgType
  <2> QED BY <1>3, <2>1, Frame DEF Redrive
<1>4. ASSUME NEW e \in Emails, ScheduleArrives(e) PROVE TypeOK'
  <2>1. RowsOK' BY <1>4 DEF ScheduleArrives, RowsOK, RowType, Statuses, Times
  <2> QED BY <1>4, <2>1, Frame DEF ScheduleArrives
<1>5. ASSUME NEW e \in Emails, RetryArrives(e) PROVE TypeOK'
  <2>1. RowsOK' BY <1>5 DEF RetryArrives, RowsOK, RowType, Statuses, Times
  <2>2. \A m \in Msgs : [msg[m] EXCEPT !.hold = FALSE] \in MsgType
    BY DEF MsgsOK, MsgType
  <2>3. \A m \in Msgs : msg'[m] \in {msg[m], [msg[m] EXCEPT !.hold = FALSE]}
    BY <1>5 DEF RetryArrives
  <2>4. msg' \in [Msgs -> MsgType] BY <1>5, <2>2, <2>3 DEF RetryArrives, MsgsOK
  <2>5. \A m \in Msgs : msg'[m].email = msg[m].email /\ msg'[m].state = msg[m].state
    BY <2>3 DEF MsgsOK, MsgType
  <2>6. MsgsOK' BY <2>4, <2>5 DEF MsgsOK
  <2> QED BY <1>5, <2>1, <2>6, Frame DEF RetryArrives
<1>6. ASSUME NEW e \in Emails, NEW t \in FeedbackTypes, Feedback(e, t) PROVE TypeOK'
  <2>1. RowsOK' BY <1>6 DEF Feedback, RowsOK, RowType, Statuses, Times, EventIds
  <2> QED BY <1>6, <2>1, Frame DEF Feedback
<1> QED BY <1>1, <1>2, <1>3, <1>4, <1>5, <1>6

\* Every variable keeps its type: statuses stay within the lifecycle, and a
\* worker, scanner or request that is under way always has a row.
THEOREM TypeCorrect == Spec => []TypeOK
<1>1. Init => TypeOK
  BY DEF Init, TypeOK, RowsOK, RowType, Statuses, Times, EventIds, MsgsOK, MsgType, WorkersOK, Pcs,
         JobType, NoJob, ScannersOK, ScanType, CallsOK, CallType, NoCall, CountersOK
<1>2. TypeOK /\ [Next]_vars => TypeOK'
  <2> SUFFICES ASSUME TypeOK, [Next]_vars PROVE TypeOK'
    OBVIOUS
  <2>1. CASE Next BY <2>1, TypeCalls, TypeScan, TypeWork, TypeEnvironment DEF Next
  <2>2. CASE UNCHANGED vars BY <2>2, Frame DEF vars, TypeOK
  <2> QED BY <2>1, <2>2
<1> QED BY <1>1, <1>2, PTL DEF Spec

-----------------------------------------------------------------------------
(* The claim is a lock *)

LEMMA LockInit == Init => ClaimIsALock
  BY DEF Init, ClaimIsALock, Sendable, Dead, Holds

LEMMA CoverInit == Init => HandoffsAreCovered
<1> SUFFICES ASSUME Init, NEW e \in Emails
             PROVE  accepted[e] + Cardinality(Pending(e)) + (IF Sendable(e) THEN 1 ELSE 0)
                      <= 1 + lost[e] + late[e]
  BY DEF HandoffsAreCovered
<1>1. Pending(e) = {} BY DEF Init, Pending, Holds
<1>2. Cardinality(Pending(e)) = 0 BY <1>1, FS_EmptySet
<1> QED BY <1>2 DEF Init

\* Most actions only ever release: no row becomes sendable or processing, no
\* worker takes hold or loses SES's answer, nothing is newly dead-lettered.
\* Such a step can break neither the lock nor the covering of hand-offs.
Releasing ==
  /\ UNCHANGED <<accepted, lost, late>>
  /\ \A e \in Emails :
       /\ Sendable(e)' => Sendable(e)
       /\ (row[e].status = "processing")' => row[e].status = "processing"
       /\ Dead(e)' => Dead(e)
       /\ \A w \in Workers : Holds(w, e)' => Holds(w, e) /\ (pc[w] = "commit" => pc'[w] = "commit")

LEMMA ReleaseKeepsLock == ClaimIsALock /\ Releasing => ClaimIsALock'
  BY DEF ClaimIsALock, Releasing

\* How the size of a finite set moves when one element comes or goes.
LEMMA CountMoves ==
  ASSUME NEW S, NEW T, IsFiniteSet(S), T \subseteq S \/ IsFiniteSet(T)
  PROVE  /\ Cardinality(S) \in Nat /\ Cardinality(T) \in Nat
         /\ T \subseteq S => Cardinality(T) <= Cardinality(S)
         /\ \A x : T \subseteq S \cup {x} => Cardinality(T) <= Cardinality(S) + 1
         /\ \A x \in S : T \subseteq S \ {x} => Cardinality(T) <= Cardinality(S) - 1
<1>1. IsFiniteSet(T) BY FS_Subset
<1>2. Cardinality(S) \in Nat BY FS_CardinalityType
<1>3. Cardinality(T) \in Nat BY <1>1, FS_CardinalityType
<1>4. ASSUME T \subseteq S PROVE Cardinality(T) <= Cardinality(S) BY <1>4, FS_Subset
<1>5. ASSUME NEW x, T \subseteq S \cup {x} PROVE Cardinality(T) <= Cardinality(S) + 1
  <2>0. Cardinality(S \cup {x}) = IF x \in S THEN Cardinality(S) ELSE Cardinality(S) + 1
    BY FS_AddElement
  <2>1. IsFiniteSet(S \cup {x}) /\ Cardinality(S \cup {x}) <= Cardinality(S) + 1
    BY <1>2, <2>0, FS_AddElement
  <2>2. Cardinality(T) <= Cardinality(S \cup {x}) BY <1>5, <2>1, FS_Subset
  <2>3. Cardinality(S \cup {x}) \in Nat BY <2>1, FS_CardinalityType
  <2> QED BY <1>2, <1>3, <2>1, <2>2, <2>3
<1>6. ASSUME NEW x \in S, T \subseteq S \ {x} PROVE Cardinality(T) <= Cardinality(S) - 1
  <2>1. IsFiniteSet(S \ {x}) /\ Cardinality(S \ {x}) = Cardinality(S) - 1
    BY <1>6, FS_RemoveElement
  <2>2. Cardinality(T) <= Cardinality(S \ {x}) BY <1>6, <2>1, FS_Subset
  <2> QED BY <1>2, <1>3, <2>1, <2>2
<1> QED BY <1>2, <1>3, <1>4, <1>5, <1>6

\* Pending claims form a finite set.
LEMMA PendingCounts ==
  ASSUME NEW e \in Emails
  PROVE  /\ Cardinality(Pending(e)) \in Nat /\ Cardinality(Pending(e)') \in Nat
         /\ Pending(e)' \subseteq Pending(e) => Cardinality(Pending(e)') <= Cardinality(Pending(e))
         /\ \A w \in Workers : Pending(e)' \subseteq Pending(e) \cup {w} =>
              Cardinality(Pending(e)') <= Cardinality(Pending(e)) + 1
         /\ \A w \in Workers : w \in Pending(e) /\ Pending(e)' \subseteq Pending(e) \ {w} =>
              Cardinality(Pending(e)') <= Cardinality(Pending(e)) - 1
<1>1. IsFiniteSet(Pending(e)) /\ IsFiniteSet(Pending(e)')
  BY FS_Subset, DeliveryAssumption DEF Pending
<1> QED BY <1>1, CountMoves

LEMMA ReleaseCovers == TypeOK /\ HandoffsAreCovered /\ Releasing => HandoffsAreCovered'
<1> SUFFICES ASSUME TypeOK, HandoffsAreCovered, Releasing, NEW e \in Emails
             PROVE  accepted'[e] + Cardinality(Pending(e)') + (IF Sendable(e)' THEN 1 ELSE 0)
                      <= 1 + lost'[e] + late'[e]
  BY DEF HandoffsAreCovered
<1>1. Pending(e)' \subseteq Pending(e) BY DEF Releasing, Pending
<1>2. Sendable(e)' => Sendable(e) BY DEF Releasing
<1>3. UNCHANGED <<accepted, lost, late>> BY DEF Releasing
<1>4. accepted[e] \in Nat /\ lost[e] \in Nat /\ late[e] \in Nat BY DEF TypeOK, CountersOK
<1> QED BY <1>1, <1>2, <1>3, <1>4, PendingCounts DEF HandoffsAreCovered

\* What a row update leaves of the facts the lock is about.
LEMMA CallsRelease ==
  ASSUME TypeOK, NEW c \in Calls,
         CallStart(c) \/ CallContinue(c) \/ SendPublishFails(c) \/ CallCrash(c)
  PROVE  Releasing
<1> USE DEF TypeOK, RowsOK, RowType, CallsOK, Releasing, Sendable, Dead, Holds
<1>1. ASSUME NEW e \in Emails, SendInsert(c, e) PROVE Releasing BY <1>1 DEF SendInsert
<1>2. CASE SendPublish(c) BY <1>2 DEF SendPublish
<1>3. CASE SendPublishFails(c) BY <1>3 DEF SendPublishFails
<1>4. CASE SendAudit(c) BY <1>4 DEF SendAudit
<1>5. CASE SendAuditEvent(c) BY <1>5 DEF SendAuditEvent
<1>6. ASSUME NEW e \in Emails, NEW op \in {"cancel", "reschedule"}, EditRead(c, e, op) PROVE Releasing
  BY <1>6 DEF EditRead
<1>7. CASE CancelWrite(c) BY <1>7 DEF CancelWrite
<1>8. CASE RescheduleWrite(c) BY <1>8 DEF RescheduleWrite
<1>9. CASE CallCrash(c) BY <1>9 DEF CallCrash
<1> QED BY <1>1, <1>2, <1>3, <1>4, <1>5, <1>6, <1>7, <1>8, <1>9 DEF CallStart, CallContinue

LEMMA ScansRelease ==
  ASSUME TypeOK, NEW s \in Scanners, Scan(s) \/ ScanAbort(s), ~CronWrite(s)
  PROVE  Releasing
<1> USE DEF TypeOK, RowsOK, RowType, ScannersOK, Releasing, Sendable, Dead, Holds
<1>1. ASSUME NEW e \in Emails, ScanFind(s, e) PROVE Releasing BY <1>1 DEF ScanFind
<1>2. CASE ScanPublish(s) BY <1>2 DEF ScanPublish
<1>3. CASE ScanMark(s) BY <1>3 DEF ScanMark
<1>4. CASE ScanAbort(s) BY <1>4 DEF ScanAbort
<1> QED BY <1>1, <1>2, <1>3, <1>4 DEF Scan

LEMMA EnvironmentReleases ==
  ASSUME TypeOK,
         \/ \E m \in Msgs : Expire(m) \/ Overrun(m) \/ Redrive(m)
         \/ \E e \in Emails : ScheduleArrives(e) \/ RetryArrives(e)
         \/ \E e \in Emails, t \in FeedbackTypes : Feedback(e, t)
  PROVE  Releasing
<1> USE DeliveryAssumption DEF TypeOK, RowsOK, RowType, Releasing, Sendable, Dead, Holds
<1>1. ASSUME NEW m \in Msgs, Expire(m) \/ Overrun(m) \/ Redrive(m) PROVE Releasing
  BY <1>1 DEF Expire, Overrun, BecomeVisible, Redrive
<1>2. ASSUME NEW e \in Emails, ScheduleArrives(e) \/ RetryArrives(e) PROVE Releasing
  BY <1>2 DEF ScheduleArrives, RetryArrives
<1>3. ASSUME NEW e \in Emails, NEW t \in FeedbackTypes, Feedback(e, t) PROVE Releasing
  BY <1>3 DEF Feedback
<1> QED BY <1>1, <1>2, <1>3

\* The cron route's write either finds the row still scheduled, or counts as a
\* late one.
LEMMA CronWriteKeeps ==
  ASSUME TypeOK, ClaimIsALock, HandoffsAreCovered, NEW s \in Scanners, CronWrite(s)
  PROVE  ClaimIsALock' /\ HandoffsAreCovered'
<1> DEFINE f == scan[s].email
<1> USE DEF TypeOK, RowsOK, RowType, ScannersOK, CountersOK, Sendable, Dead, Holds, CronWrite
<1>1. f \in Emails OBVIOUS
<1>2. \A e \in Emails : e # f => row'[e] = row[e] /\ late'[e] = late[e] OBVIOUS
<1>3. row[f].status = "scheduled" \/ late'[f] = late[f] + 1 OBVIOUS
<1>4. ClaimIsALock'
  <2> SUFFICES ASSUME NEW e \in Emails, late'[e] = 0
               PROVE  /\ Sendable(e)' => ~Dead(e)' /\ \A w \in Workers : ~Holds(w, e)'
                      /\ Dead(e)' => row'[e].status # "processing" /\ \A w \in Workers : ~Holds(w, e)'
                      /\ \A v, w \in Workers : Holds(v, e)' /\ Holds(w, e)' => v = w
    BY DEF ClaimIsALock
  <2>1. late[e] = 0 OBVIOUS
  <2>2. CASE e # f BY <2>1, <2>2, <1>2 DEF ClaimIsALock
  <2>3. CASE e = f
    <3>1. row[f].status = "scheduled" BY <1>1, <1>3, <2>3
    <3> QED BY <2>1, <2>3, <3>1 DEF ClaimIsALock
  <2> QED BY <2>2, <2>3
<1>5. HandoffsAreCovered'
  <2> SUFFICES ASSUME NEW e \in Emails
               PROVE  accepted'[e] + Cardinality(Pending(e)') + (IF Sendable(e)' THEN 1 ELSE 0)
                        <= 1 + lost'[e] + late'[e]
    BY DEF HandoffsAreCovered
  <2>1. Pending(e)' = Pending(e) BY DEF Pending
  <2>2. Cardinality(Pending(e)) \in Nat BY PendingCounts
  <2>3. accepted[e] \in Nat /\ lost[e] \in Nat /\ late[e] \in Nat OBVIOUS
  <2>4. accepted[e] + Cardinality(Pending(e)) + (IF Sendable(e) THEN 1 ELSE 0) <= 1 + lost[e] + late[e]
    BY DEF HandoffsAreCovered
  <2>5. accepted'[e] = accepted[e] /\ lost'[e] = lost[e] OBVIOUS
  <2>6. \/ late'[e] = late[e] + 1
        \/ late'[e] = late[e] /\ Sendable(e)' = Sendable(e)
    <3>1. CASE e # f BY <3>1, <1>2
    <3>2. CASE e = f /\ row[f].status = "scheduled" BY <3>2, <1>1
    <3>3. CASE e = f /\ row[f].status # "scheduled" BY <3>3, <1>1
    <3> QED BY <3>1, <3>2, <3>3
  <2> HIDE DEF Sendable
  <2> QED BY <2>1, <2>2, <2>3, <2>4, <2>5, <2>6
<1> QED BY <1>4, <1>5

\* The worker's own steps.  Six of them do more than release: the claim takes
\* the lock, the hand-offs and the lost update move the counters, a failed
\* attempt makes the row sendable again as it lets go, and a claim or a record
\* that is not answered does half of that.
Moving(w) == \/ ClaimForSending(w) \/ Handoff(w) \/ HandoffUnacknowledged(w)
             \/ MarkSentFails(w) \/ RecordFailure(w) \/ DatabaseUnanswered(w)

LEMMA MovingKeepsLock ==
  ASSUME TypeOK, ClaimIsALock, NEW w \in Workers, Moving(w)
  PROVE  ClaimIsALock'
<1> USE DEF TypeOK, RowsOK, RowType, WorkersOK, Sendable, Dead, Holds
<1>1. CASE ClaimForSending(w)
  <2>1. CASE Claimable(row[job[w].email])
    BY <1>1, <2>1 DEF ClaimForSending, Claimable, Goto, ClaimIsALock
  <2>2. CASE ~Claimable(row[job[w].email])
    BY <1>1, <2>2, ReleaseKeepsLock DEF ClaimForSending, Goto, Releasing
  <2> QED BY <2>1, <2>2
<1>2. CASE Handoff(w) BY <1>2 DEF Handoff, Goto, ClaimIsALock
<1>3. CASE HandoffUnacknowledged(w) BY <1>3 DEF HandoffUnacknowledged, Goto, ClaimIsALock
<1>4. CASE MarkSentFails(w) BY <1>4 DEF MarkSentFails, Goto, ClaimIsALock
<1>5. CASE RecordFailure(w) BY <1>5 DEF RecordFailure, AttemptFailed, Goto, ClaimIsALock
<1>6. CASE DatabaseUnanswered(w)
  <2>1. pc[w] \in {"claim", "fail", "bury"} /\ Goto(w, "nack") BY <1>6 DEF DatabaseUnanswered
  <2>2. CASE pc[w] = "claim" BY <1>6, <2>1, <2>2 DEF DatabaseUnanswered, Claimable, Goto, ClaimIsALock
  <2>3. CASE pc[w] = "fail" BY <1>6, <2>1, <2>3 DEF DatabaseUnanswered, AttemptFailed, Goto, ClaimIsALock
  <2>4. CASE pc[w] = "bury" BY <1>6, <2>1, <2>4, ReleaseKeepsLock DEF DatabaseUnanswered, Goto, Releasing
  <2> QED BY <2>1, <2>2, <2>3, <2>4
<1> QED BY <1>1, <1>2, <1>3, <1>4, <1>5, <1>6 DEF Moving

\* Each of the six moves one unit of the covering from one place to another.
LEMMA MovingCovers ==
  ASSUME TypeOK, HandoffsAreCovered, NEW w \in Workers, Moving(w)
  PROVE  HandoffsAreCovered'
<1> SUFFICES ASSUME NEW e \in Emails
             PROVE  accepted'[e] + Cardinality(Pending(e)') + (IF Sendable(e)' THEN 1 ELSE 0)
                      <= 1 + lost'[e] + late'[e]
  BY DEF HandoffsAreCovered
<1> DEFINE g == job[w].email
           A == accepted[e]
           C == Cardinality(Pending(e))
           D == Cardinality(Pending(e)')
           b == IF Sendable(e) THEN 1 ELSE 0
           d == IF Sendable(e)' THEN 1 ELSE 0
<1>1. A \in Nat /\ lost[e] \in Nat /\ late[e] \in Nat BY DEF TypeOK, CountersOK
<1>2. C \in Nat /\ D \in Nat BY PendingCounts
<1>3. A + C + b <= 1 + lost[e] + late[e] BY DEF HandoffsAreCovered
<1>4. b \in {0, 1} /\ d \in {0, 1} OBVIOUS
<1>5. g \in Emails BY DEF Moving, ClaimForSending, Handoff, HandoffUnacknowledged, MarkSentFails,
                         RecordFailure, DatabaseUnanswered, TypeOK, WorkersOK
<1>6. late' = late BY DEF Moving, ClaimForSending, Handoff, HandoffUnacknowledged, MarkSentFails, RecordFailure,
                                DatabaseUnanswered
<1>7. CASE g # e
  <2>1. /\ accepted'[e] = A /\ lost'[e] = lost[e] /\ (Sendable(e)' => Sendable(e))
    BY <1>7, <1>5 DEF Moving, ClaimForSending, Handoff, HandoffUnacknowledged, MarkSentFails,
                RecordFailure, AttemptFailed, DatabaseUnanswered, TypeOK, CountersOK, RowsOK, RowType, Sendable
  <2>2. Pending(e)' \subseteq Pending(e)
    BY <1>7 DEF Moving, ClaimForSending, Handoff, HandoffUnacknowledged, MarkSentFails,
                RecordFailure, DatabaseUnanswered, Goto, TypeOK, WorkersOK, Pending, Holds
  <2>3. D <= C BY <2>2, PendingCounts
  <2> HIDE DEF Sendable
  <2> QED BY <1>1, <1>2, <1>3, <1>6, <2>1, <2>3
<1>8. CASE g = e
  <2> USE DEF TypeOK, RowsOK, RowType, WorkersOK, CountersOK
  <2>1. CASE ClaimForSending(w) /\ Claimable(row[e])
    <3>1. b = 1 /\ d = 0 BY <2>1, <1>8 DEF ClaimForSending, Claimable, Sendable
    <3>2. Pending(e)' \subseteq Pending(e) \cup {w}
      BY <2>1, <1>8 DEF ClaimForSending, Goto, Pending, Holds
    <3>3. D <= C + 1 BY <3>2, PendingCounts
    <3>4. accepted' = accepted /\ lost' = lost BY <2>1 DEF ClaimForSending
    <3> QED BY <1>1, <1>2, <1>3, <1>6, <3>1, <3>3, <3>4
  <2>2. CASE ClaimForSending(w) /\ ~Claimable(row[e])
    <3>1. Pending(e)' \subseteq Pending(e)
      BY <2>2, <1>8 DEF ClaimForSending, Goto, Pending, Holds
    <3>2. D <= C BY <3>1, PendingCounts
    <3>3. accepted' = accepted /\ lost' = lost /\ row' = row BY <2>2, <1>8 DEF ClaimForSending
    <3>4. d = b BY <3>3 DEF Sendable
    <3> QED BY <1>1, <1>2, <1>3, <1>6, <3>2, <3>3, <3>4
  <2>3. CASE Handoff(w)
    <3>1. d = b /\ lost' = lost BY <2>3 DEF Handoff, Sendable
    <3>2. CASE Goto(w, "commit") /\ accepted' = [accepted EXCEPT ![g] = @ + 1]
      <4>1. w \in Pending(e) /\ Pending(e)' \subseteq Pending(e) \ {w}
        BY <2>3, <3>2, <1>8 DEF Handoff, Goto, Pending, Holds
      <4>2. D <= C - 1 BY <4>1, PendingCounts
      <4>3. accepted'[e] = A + 1 BY <3>2, <1>8
      <4> QED BY <1>1, <1>2, <1>3, <1>4, <1>6, <3>1, <4>2, <4>3
    <3>3. CASE Goto(w, "fail") /\ UNCHANGED accepted
      <4>1. Pending(e)' \subseteq Pending(e)
        BY <2>3, <3>3, <1>8 DEF Handoff, Goto, Pending, Holds
      <4>2. D <= C BY <4>1, PendingCounts
      <4> QED BY <1>1, <1>2, <1>3, <1>4, <1>6, <3>1, <3>3, <4>2
    <3> QED BY <2>3, <3>2, <3>3 DEF Handoff
  <2>4. CASE HandoffUnacknowledged(w)
    <3>1. d = b BY <2>4 DEF HandoffUnacknowledged, Sendable
    <3>2. Pending(e)' \subseteq Pending(e)
      BY <2>4, <1>8 DEF HandoffUnacknowledged, Goto, Pending, Holds
    <3>3. D <= C BY <3>2, PendingCounts
    <3>4. accepted'[e] = A + 1 /\ lost'[e] = lost[e] + 1 BY <2>4, <1>8 DEF HandoffUnacknowledged
    <3> QED BY <1>1, <1>2, <1>3, <1>4, <1>6, <3>1, <3>3, <3>4
  <2>5. CASE MarkSentFails(w)
    <3>1. d <= b BY <2>5, <1>8 DEF MarkSentFails, Sendable
    <3>2. Pending(e)' \subseteq Pending(e) \cup {w}
      BY <2>5, <1>8 DEF MarkSentFails, Goto, Pending, Holds
    <3>3. D <= C + 1 BY <3>2, PendingCounts
    <3>4. accepted'[e] = A /\ lost'[e] = lost[e] + 1 BY <2>5, <1>8 DEF MarkSentFails
    <3>5. accepted'[e] + D + d <= 1 + lost'[e] + late'[e]
      <4> HIDE DEF D, d, A, C, b
      <4> QED BY <1>1, <1>2, <1>3, <1>4, <1>6, <3>1, <3>3, <3>4
    <3> QED BY <3>5
  <2>6. CASE RecordFailure(w)
    <3>1. w \in Pending(e) /\ Pending(e)' \subseteq Pending(e) \ {w}
      BY <2>6, <1>8 DEF RecordFailure, Goto, Pending, Holds
    <3>2. D <= C - 1 BY <3>1, PendingCounts
    <3>3. accepted' = accepted /\ lost' = lost BY <2>6 DEF RecordFailure
    <3> QED BY <1>1, <1>2, <1>3, <1>4, <1>6, <3>2, <3>3
  <2>7. CASE DatabaseUnanswered(w) /\ pc[w] = "claim"
    <3>1. b = 1 /\ d = 0 BY <2>7, <1>8 DEF DatabaseUnanswered, Claimable, Sendable
    <3>2. Pending(e)' \subseteq Pending(e) BY <2>7, <1>8 DEF DatabaseUnanswered, Goto, Pending, Holds
    <3>3. D <= C BY <3>2, PendingCounts
    <3>4. accepted' = accepted /\ lost' = lost BY <2>7 DEF DatabaseUnanswered
    <3> QED BY <1>1, <1>2, <1>3, <1>6, <3>1, <3>3, <3>4
  <2>8. CASE DatabaseUnanswered(w) /\ pc[w] = "fail"
    <3>1. w \in Pending(e) /\ Pending(e)' \subseteq Pending(e) \ {w}
      BY <2>8, <1>8 DEF DatabaseUnanswered, Goto, Pending, Holds
    <3>2. D <= C - 1 BY <3>1, PendingCounts
    <3>3. accepted' = accepted /\ lost' = lost BY <2>8 DEF DatabaseUnanswered
    <3> QED BY <1>1, <1>2, <1>3, <1>6, <3>2, <3>3
  <2>9. CASE DatabaseUnanswered(w) /\ pc[w] = "bury"
    <3>1. row' = row /\ accepted' = accepted /\ lost' = lost BY <2>9 DEF DatabaseUnanswered
    <3>2. Pending(e)' \subseteq Pending(e) BY <2>9, <1>8 DEF DatabaseUnanswered, Goto, Pending, Holds
    <3>3. D <= C BY <3>2, PendingCounts
    <3>4. d = b BY <3>1 DEF Sendable
    <3> QED BY <1>1, <1>2, <1>3, <1>6, <3>1, <3>3, <3>4
  <2>10. ASSUME DatabaseUnanswered(w) PROVE pc[w] \in {"claim", "fail", "bury"}
    BY <2>10 DEF DatabaseUnanswered
  <2> QED BY <1>8, <2>1, <2>2, <2>3, <2>4, <2>5, <2>6, <2>7, <2>8, <2>9, <2>10 DEF Moving
<1> QED BY <1>7, <1>8

LEMMA WorkReleases ==
  ASSUME TypeOK, NEW w \in Workers, Work(w) \/ WorkFault(w), ~Moving(w)
  PROVE  Releasing
<1> USE DEF TypeOK, RowsOK, RowType, WorkersOK, Sendable, Dead, Holds, Releasing
<1>1. ASSUME NEW m \in Msgs, Receive(w, m) PROVE Releasing BY <1>1 DEF Receive
<1>2. ASSUME NEW e \in Emails, PollDatabase(w, e) PROVE Releasing BY <1>2 DEF PollDatabase
<1>3. CASE FindEmail(w) BY <1>3 DEF FindEmail, Goto
<1>4. CASE ResolveDomain(w) BY <1>4 DEF ResolveDomain, Goto
<1>5. CASE MarkSent(w) BY <1>5 DEF MarkSent, Goto
<1>6. CASE Bury(w) BY <1>6 DEF Bury, Goto
<1>7. CASE Delay(w) BY <1>7 DEF Delay, Goto
<1>8. CASE Ack(w) BY <1>8 DEF Ack, Finish
<1>9. CASE Nack(w) BY <1>9 DEF Nack, Finish, Stop
<1>10. CASE DatabaseFails(w) BY <1>10 DEF DatabaseFails, Goto
<1>11. CASE AckFails(w) BY <1>11 DEF AckFails, Goto
<1>12. CASE LoopFails(w) BY <1>12 DEF LoopFails, Stop
<1>13. CASE WorkerCrash(w) BY <1>13 DEF WorkerCrash, Finish
<1> QED BY <1>1, <1>2, <1>3, <1>4, <1>5, <1>6, <1>7, <1>8, <1>9, <1>10, <1>11, <1>12, <1>13
        DEF Work, WorkFault, Moving

\* Every step releases, moves or is a cron write.
LEMMA StepCases ==
  ASSUME TypeOK, Next
  PROVE  Releasing \/ (\E w \in Workers : Moving(w)) \/ (\E s \in Scanners : CronWrite(s))
  BY CallsRelease, ScansRelease, EnvironmentReleases, WorkReleases DEF Next

\* The claim is a lock in every reachable state the cron route has not
\* interfered with, and so is what makes it one.
THEOREM ClaimLocks == Spec => []ClaimIsALock
<1>1. TypeOK /\ ClaimIsALock /\ HandoffsAreCovered /\ [Next]_vars => ClaimIsALock' /\ HandoffsAreCovered'
  <2> SUFFICES ASSUME TypeOK, ClaimIsALock, HandoffsAreCovered, [Next]_vars
               PROVE  ClaimIsALock' /\ HandoffsAreCovered'
    OBVIOUS
  <2>1. CASE Next
    BY <2>1, StepCases, ReleaseKeepsLock, ReleaseCovers, MovingKeepsLock, MovingCovers, CronWriteKeeps
  <2>2. CASE UNCHANGED vars
    <3>1. Releasing BY <2>2 DEF vars, Releasing, Sendable, Dead, Holds
    <3> QED BY <3>1, ReleaseKeepsLock, ReleaseCovers
  <2> QED BY <2>1, <2>2
<1> QED BY <1>1, LockInit, CoverInit, TypeCorrect, PTL DEF Spec

\* Every hand-off SES has taken or may still be granted is covered by the first
\* one, a lost acknowledgement or a late write of the cron route.
THEOREM HandoffsCovered == Spec => []HandoffsAreCovered
<1>1. TypeOK /\ HandoffsAreCovered /\ ClaimIsALock /\ [Next]_vars => HandoffsAreCovered'
  <2> SUFFICES ASSUME TypeOK, HandoffsAreCovered, ClaimIsALock, [Next]_vars PROVE HandoffsAreCovered'
    OBVIOUS
  <2>1. CASE Next
    BY <2>1, StepCases, ReleaseCovers, MovingCovers, CronWriteKeeps
  <2>2. CASE UNCHANGED vars
    <3>1. Releasing BY <2>2 DEF vars, Releasing, Sendable, Dead, Holds
    <3> QED BY <3>1, ReleaseCovers
  <2> QED BY <2>1, <2>2
<1> QED BY <1>1, ClaimLocks, CoverInit, TypeCorrect, PTL DEF Spec

\* At most one worker is ever between claiming an email and recording the
\* outcome of the attempt, unless the cron route queued the row behind it.
THEOREM OneSender == Spec => []SingleSender
<1>1. ClaimIsALock => SingleSender BY DEF ClaimIsALock, SingleSender
<1> QED BY <1>1, ClaimLocks, PTL

\* The number of times SES takes an email exceeds one by at most the number of
\* hand-offs whose success was lost and of late writes of the cron route.
THEOREM DuplicatesBounded == Spec => []DuplicatesAreLostAcks
<1>1. TypeOK /\ HandoffsAreCovered => DuplicatesAreLostAcks
  <2> SUFFICES ASSUME TypeOK, HandoffsAreCovered, NEW e \in Emails
               PROVE  accepted[e] <= 1 + lost[e] + late[e]
    BY DEF DuplicatesAreLostAcks
  <2>1. Cardinality(Pending(e)) \in Nat BY PendingCounts
  <2>2. accepted[e] \in Nat /\ lost[e] \in Nat /\ late[e] \in Nat BY DEF TypeOK, CountersOK
  <2>3. accepted[e] + Cardinality(Pending(e)) + (IF Sendable(e) THEN 1 ELSE 0) <= 1 + lost[e] + late[e]
    BY DEF HandoffsAreCovered
  <2> QED BY <2>1, <2>2, <2>3
<1> QED BY <1>1, HandoffsCovered, TypeCorrect, PTL

\* A dead-lettered email is never picked up again, unless the cron route queued
\* it again.
THEOREM DeadLettersStay == Spec => []DeadLetterIsFinal
<1>1. ClaimIsALock => DeadLetterIsFinal BY DEF ClaimIsALock, DeadLetterIsFinal, Dead, Sendable
<1> QED BY <1>1, ClaimLocks, PTL

-----------------------------------------------------------------------------
(* Stranded rows *)

\* StrandedByAccident counts, so its proof also needs that there are finitely
\* many rows to count.
StrandedInvariant == IsFiniteSet(Stranded) /\ StrandedByAccident

\* A step that strands nothing, and one that strands a row for one accident.
StrandsNone == Stranded' \subseteq Stranded /\ (UNCHANGED spent \/ \E k \in DOMAIN spent : Spend(k))
StrandsOne  == /\ \E e \in Emails : Stranded' \subseteq Stranded \cup {e}
               /\ Spend("crash") \/ Spend("fault")

LEMMA StrandedCounted ==
  ASSUME TypeOK, StrandedInvariant, StrandsNone \/ StrandsOne
  PROVE  StrandedInvariant'
<1> DEFINE n == spent["crash"] + spent["fault"]
<1>1. spent \in [{"crash", "fault", "overrun"} -> Nat] BY DEF TypeOK, CountersOK
<1>2. IsFiniteSet(Stranded) /\ Cardinality(Stranded) <= n BY DEF StrandedInvariant, StrandedByAccident
<1>3. CASE StrandsNone
  <2>1. n \in Nat /\ n' \in Nat /\ n <= n' BY <1>1, <1>3 DEF StrandsNone, Spend
  <2>2. IsFiniteSet(Stranded') BY <1>2, <1>3, FS_Subset DEF StrandsNone
  <2>3. Cardinality(Stranded') <= Cardinality(Stranded)
    BY <1>2, <1>3, CountMoves DEF StrandsNone
  <2>4. Cardinality(Stranded) \in Nat /\ Cardinality(Stranded') \in Nat
    BY <1>2, <2>2, FS_CardinalityType
  <2>5. Cardinality(Stranded') <= n' BY <1>2, <2>1, <2>3, <2>4
  <2> QED BY <2>2, <2>5 DEF StrandedInvariant, StrandedByAccident
<1>4. CASE StrandsOne
  <2>1. n \in Nat /\ n' = n + 1 BY <1>1, <1>4 DEF StrandsOne, Spend
  <2>2. PICK e \in Emails : Stranded' \subseteq Stranded \cup {e} BY <1>4 DEF StrandsOne
  <2>3. IsFiniteSet(Stranded \cup {e}) BY <1>2, FS_AddElement
  <2>4. IsFiniteSet(Stranded') BY <2>2, <2>3, FS_Subset
  <2>5. Cardinality(Stranded') <= Cardinality(Stranded) + 1 BY <1>2, <2>2, <2>4, CountMoves
  <2>6. Cardinality(Stranded) \in Nat /\ Cardinality(Stranded') \in Nat
    BY <1>2, <2>4, FS_CardinalityType
  <2>7. Cardinality(Stranded') <= n' BY <1>2, <2>1, <2>5, <2>6
  <2> QED BY <2>4, <2>7 DEF StrandedInvariant, StrandedByAccident
<1> QED BY <1>3, <1>4

\* Nobody but a worker takes a row to "processing" or lets one go.
LEMMA CallsStrandNone ==
  ASSUME TypeOK, NEW c \in Calls,
         CallStart(c) \/ CallContinue(c) \/ SendPublishFails(c) \/ CallCrash(c)
  PROVE  StrandsNone
<1> USE DEF TypeOK, RowsOK, RowType, CallsOK, CountersOK, StrandsNone, Stranded, Holds
<1>1. ASSUME NEW e \in Emails, SendInsert(c, e) PROVE StrandsNone BY <1>1 DEF SendInsert
<1>2. CASE SendPublish(c) BY <1>2 DEF SendPublish
<1>3. CASE SendPublishFails(c) BY <1>3 DEF SendPublishFails
<1>4. CASE SendAudit(c) BY <1>4 DEF SendAudit
<1>5. CASE SendAuditEvent(c) BY <1>5 DEF SendAuditEvent
<1>6. ASSUME NEW e \in Emails, NEW op \in {"cancel", "reschedule"}, EditRead(c, e, op) PROVE StrandsNone
  BY <1>6 DEF EditRead
<1>7. CASE CancelWrite(c) BY <1>7 DEF CancelWrite
<1>8. CASE RescheduleWrite(c) BY <1>8 DEF RescheduleWrite
<1>9. CASE CallCrash(c) BY <1>9 DEF CallCrash
<1> QED BY <1>1, <1>2, <1>3, <1>4, <1>5, <1>6, <1>7, <1>8, <1>9 DEF CallStart, CallContinue

LEMMA ScansStrandNone ==
  ASSUME TypeOK, NEW s \in Scanners, Scan(s) \/ ScanAbort(s)
  PROVE  StrandsNone
<1> USE DEF TypeOK, RowsOK, RowType, ScannersOK, CountersOK, StrandsNone, Stranded, Holds
<1>1. ASSUME NEW e \in Emails, ScanFind(s, e) PROVE StrandsNone BY <1>1 DEF ScanFind
<1>2. CASE ScanPublish(s) BY <1>2 DEF ScanPublish
<1>3. CASE ScanMark(s) BY <1>3 DEF ScanMark
<1>4. CASE CronWrite(s) BY <1>4 DEF CronWrite
<1>5. CASE ScanAbort(s) BY <1>5 DEF ScanAbort
<1> QED BY <1>1, <1>2, <1>3, <1>4, <1>5 DEF Scan

LEMMA EnvironmentStrandsNone ==
  ASSUME TypeOK,
         \/ \E m \in Msgs : Expire(m) \/ Overrun(m) \/ Redrive(m)
         \/ \E e \in Emails : ScheduleArrives(e) \/ RetryArrives(e)
         \/ \E e \in Emails, t \in FeedbackTypes : Feedback(e, t)
  PROVE  StrandsNone
<1> USE DeliveryAssumption DEF TypeOK, RowsOK, RowType, CountersOK, StrandsNone, Stranded, Holds
<1>1. ASSUME NEW m \in Msgs, Expire(m) \/ Overrun(m) \/ Redrive(m) PROVE StrandsNone
  BY <1>1 DEF Expire, Overrun, BecomeVisible, Redrive
<1>2. ASSUME NEW e \in Emails, ScheduleArrives(e) \/ RetryArrives(e) PROVE StrandsNone
  BY <1>2 DEF ScheduleArrives, RetryArrives
<1>3. ASSUME NEW e \in Emails, NEW t \in FeedbackTypes, Feedback(e, t) PROVE StrandsNone
  BY <1>3 DEF Feedback
<1> QED BY <1>1, <1>2, <1>3

\* A worker takes the row to "processing" as it takes hold, and writes the
\* outcome as it lets go.  A failing call outside the try block and a crash let
\* go without the write.
LEMMA WorkStrands ==
  ASSUME TypeOK, NEW w \in Workers, Work(w) \/ WorkFault(w)
  PROVE  StrandsNone \/ StrandsOne
<1> USE DEF TypeOK, RowsOK, RowType, WorkersOK, CountersOK, Stranded, Holds
<1>1. ASSUME NEW m \in Msgs, Receive(w, m) PROVE StrandsNone BY <1>1 DEF Receive, StrandsNone
<1>2. ASSUME NEW e \in Emails, PollDatabase(w, e) PROVE StrandsNone
  BY <1>2 DEF PollDatabase, StrandsNone
<1>3. CASE FindEmail(w)
  <2>1. StrandsNone BY <1>3 DEF FindEmail, Goto, StrandsNone
  <2> QED BY <2>1
<1>4. CASE ClaimForSending(w)
  <2>1. CASE Claimable(row[job[w].email])
    <3>1. StrandsNone BY <1>4, <2>1 DEF ClaimForSending, Goto, StrandsNone
    <3> QED BY <3>1
  <2>2. CASE ~Claimable(row[job[w].email])
    <3>1. StrandsNone BY <1>4, <2>2 DEF ClaimForSending, Goto, StrandsNone
    <3> QED BY <3>1
  <2> QED BY <2>1, <2>2
<1>5. ASSUME ResolveDomain(w) \/ Handoff(w) PROVE StrandsNone
  BY <1>5 DEF ResolveDomain, Handoff, Goto, StrandsNone
<1>6. ASSUME MarkSent(w) PROVE StrandsNone BY <1>6 DEF MarkSent, Goto, StrandsNone
<1>7. ASSUME RecordFailure(w) PROVE StrandsNone BY <1>7 DEF RecordFailure, AttemptFailed, Goto, StrandsNone
<1>8. ASSUME Bury(w) \/ Delay(w) PROVE StrandsNone BY <1>8 DEF Bury, Delay, Goto, StrandsNone
<1>9. ASSUME Ack(w) \/ Nack(w) PROVE StrandsNone
  BY <1>9 DEF Ack, Nack, Finish, Stop, StrandsNone
<1>10. ASSUME HandoffUnacknowledged(w) \/ MarkSentFails(w) PROVE StrandsNone
  BY <1>10 DEF HandoffUnacknowledged, MarkSentFails, Goto, StrandsNone
<1>11. ASSUME AckFails(w) PROVE StrandsNone BY <1>11 DEF AckFails, Goto, StrandsNone
<1>12. ASSUME LoopFails(w) PROVE StrandsNone BY <1>12 DEF LoopFails, Stop, StrandsNone
<1>13. ASSUME DatabaseFails(w) PROVE StrandsOne
  <2>1. Spend("fault") /\ UNCHANGED <<row, job>> BY <1>13 DEF DatabaseFails, Goto
  <2>2. \A v \in Workers \ {w} : pc'[v] = pc[v] BY <1>13 DEF DatabaseFails, Goto
  <2>3. job[w].email \in Emails BY <1>13 DEF DatabaseFails
  <2>4. Stranded' \subseteq Stranded \cup {job[w].email} BY ONLY <2>1, <2>2 DEF Stranded, Holds
  <2> QED BY <2>1, <2>3, <2>4 DEF StrandsOne
<1>14. ASSUME WorkerCrash(w) PROVE StrandsNone \/ StrandsOne
  <2>1. Spend("crash") /\ UNCHANGED row BY <1>14 DEF WorkerCrash
  <2>2. \A v \in Workers \ {w} : pc'[v] = pc[v] /\ job'[v] = job[v] BY <1>14 DEF WorkerCrash, Finish
  <2>3. CASE pc[w] = "stopped"
    <3>1. Stranded' \subseteq Stranded BY ONLY <2>1, <2>2, <2>3 DEF Stranded, Holds
    <3> QED BY <2>1, <3>1 DEF StrandsNone
  <2>4. CASE pc[w] # "stopped"
    <3>1. job[w].email \in Emails BY <1>14, <2>4 DEF WorkerCrash
    <3>2. Stranded' \subseteq Stranded \cup {job[w].email} BY ONLY <2>1, <2>2 DEF Stranded, Holds
    <3> QED BY <2>1, <3>1, <3>2 DEF StrandsOne
  <2> QED BY <2>3, <2>4
<1>15. ASSUME DatabaseUnanswered(w) PROVE StrandsOne
  <2>1. Spend("fault") /\ UNCHANGED job /\ \A v \in Workers \ {w} : pc'[v] = pc[v]
    BY <1>15 DEF DatabaseUnanswered, Goto
  <2>2. job[w].email \in Emails BY <1>15 DEF DatabaseUnanswered
  <2>3. \A e \in Emails \ {job[w].email} : row'[e] = row[e] BY <1>15, <2>2 DEF DatabaseUnanswered, AttemptFailed
  <2>4. Stranded' \subseteq Stranded \cup {job[w].email} BY ONLY <2>1, <2>3 DEF Stranded, Holds
  <2> QED BY <2>1, <2>2, <2>4 DEF StrandsOne
<1> QED BY <1>1, <1>2, <1>3, <1>4, <1>5, <1>6, <1>7, <1>8, <1>9, <1>10, <1>11, <1>12, <1>13, <1>14, <1>15
        DEF Work, WorkFault

\* No row is left in "processing" without a worker but by a crash or a failing
\* call between the claim and the write of the outcome, and each of those
\* leaves at most one: whatever is redelivered, polled, canceled or queued again.
THEOREM StrandedOnlyByAccident == Spec => []StrandedByAccident
<1>1. Init => StrandedInvariant
  <2> SUFFICES ASSUME Init PROVE StrandedInvariant OBVIOUS
  <2>1. Stranded = {} BY DEF Init, Stranded
  <2>2. IsFiniteSet(Stranded) /\ Cardinality(Stranded) = 0 BY <2>1, FS_EmptySet
  <2> QED BY <2>2 DEF Init, StrandedInvariant, StrandedByAccident
<1>2. TypeOK /\ StrandedInvariant /\ [Next]_vars => StrandedInvariant'
  <2> SUFFICES ASSUME TypeOK, StrandedInvariant, [Next]_vars PROVE StrandedInvariant'
    OBVIOUS
  <2>1. CASE Next
    <3>1. StrandsNone \/ StrandsOne
      BY <2>1, CallsStrandNone, ScansStrandNone, EnvironmentStrandsNone, WorkStrands DEF Next
    <3> QED BY <3>1, StrandedCounted
  <2>2. CASE UNCHANGED vars
    <3>1. StrandsNone BY <2>2 DEF vars, StrandsNone, Stranded, Holds
    <3> QED BY <3>1, StrandedCounted
  <2> QED BY <2>1, <2>2
<1>3. StrandedInvariant => StrandedByAccident BY DEF StrandedInvariant
<1> QED BY <1>1, <1>2, <1>3, TypeCorrect, PTL DEF Spec

-----------------------------------------------------------------------------
(* Settled rows *)

\* A row in a worker's hands still says so, or "canceled", until SES has taken
\* the email: as long as no call has failed and the cron route keeps away.
HeldRowsAreOpen ==
  \A e \in Emails, w \in Workers : late[e] = 0 /\ Holds(w, e) =>
    pc[w] = "commit" \/ row[e].status \in {"processing", "canceled"}
HeldInvariant ==
  spent["fault"] = 0 =>
    /\ \A c \in Calls : call[c].step # "audit"
    /\ \A e \in Emails : lost[e] = 0
    /\ HeldRowsAreOpen

\* What spent has used up never comes back.
LEMMA SpentGrows ==
  ASSUME TypeOK, Next
  PROVE  spent' \in [{"crash", "fault", "overrun"} -> Nat] /\ spent'["fault"] >= spent["fault"]
<1>1. TypeOK /\ spent \in [{"crash", "fault", "overrun"} -> Nat] BY DEF TypeOK, CountersOK
<1>2. UNCHANGED spent \/ \E k \in {"crash", "fault", "overrun"} : Spend(k)
  <2>1. StrandsNone \/ StrandsOne
    BY CallsStrandNone, ScansStrandNone, EnvironmentStrandsNone, WorkStrands DEF Next
  <2> QED BY <1>1, <2>1 DEF StrandsNone, StrandsOne
<1> QED BY <1>1, <1>2 DEF Spend

\* While no call has failed, feedback finds the row of a held email only once
\* SES has taken it and nobody else may hand it over.
LEMMA HeldWhenAccepted ==
  ASSUME TypeOK, HandoffsAreCovered, NEW e \in Emails, late[e] = 0, lost[e] = 0, accepted[e] > 0
  PROVE  \A w \in Workers : Holds(w, e) => pc[w] = "commit"
<1>1. Cardinality(Pending(e)) \in Nat BY PendingCounts
<1>2. accepted[e] \in Nat BY DEF TypeOK, CountersOK
<1>3. accepted[e] + Cardinality(Pending(e)) + (IF Sendable(e) THEN 1 ELSE 0) <= 1 + lost[e] + late[e]
  BY DEF HandoffsAreCovered
<1>4. Cardinality(Pending(e)) = 0
  <2> HIDE DEF Sendable
  <2> QED BY <1>1, <1>2, <1>3
<1>5. IsFiniteSet(Pending(e)) BY FS_Subset, DeliveryAssumption DEF Pending
<1>6. Pending(e) = {} BY <1>4, <1>5, FS_EmptySet
<1> QED BY <1>6 DEF Pending

LEMMA CallsKeepHeld ==
  ASSUME TypeOK, ClaimIsALock, HeldRowsAreOpen, NEW c \in Calls,
         CallStart(c) \/ CallContinue(c) \/ SendPublishFails(c) \/ CallCrash(c),
         call[c].step # "audit"
  PROVE  HeldRowsAreOpen'
<1> USE DEF TypeOK, RowsOK, RowType, CallsOK, HeldRowsAreOpen, Holds
<1>1. ASSUME NEW e \in Emails, SendInsert(c, e) PROVE HeldRowsAreOpen'
  <2>1. late' = late /\ pc' = pc /\ job' = job BY <1>1 DEF SendInsert
  <2>2. \A f \in Emails : f # e => row'[f] = row[f] BY <1>1 DEF SendInsert
  <2>3. late[e] = 0 => \A w \in Workers : ~Holds(w, e) BY <1>1 DEF SendInsert, ClaimIsALock, Sendable
  <2> QED BY <2>1, <2>2, <2>3
<1>2. CASE SendPublish(c) BY <1>2 DEF SendPublish
<1>3. CASE SendPublishFails(c) BY <1>3 DEF SendPublishFails
<1>4. CASE SendAudit(c) BY <1>4 DEF SendAudit
<1>5. CASE SendAuditEvent(c) BY <1>5 DEF SendAuditEvent
<1>6. ASSUME NEW e \in Emails, NEW op \in {"cancel", "reschedule"}, EditRead(c, e, op)
      PROVE  HeldRowsAreOpen'
  BY <1>6 DEF EditRead
<1>7. CASE CancelWrite(c) BY <1>7 DEF CancelWrite
<1>8. CASE RescheduleWrite(c) BY <1>8 DEF RescheduleWrite
<1>9. CASE CallCrash(c) BY <1>9 DEF CallCrash
<1> QED BY <1>1, <1>2, <1>3, <1>4, <1>5, <1>6, <1>7, <1>8, <1>9 DEF CallStart, CallContinue

\* A scheduled row is held by nobody, so promoting it disturbs no worker.
LEMMA ScansKeepHeld ==
  ASSUME TypeOK, ClaimIsALock, HeldRowsAreOpen, NEW s \in Scanners, Scan(s) \/ ScanAbort(s)
  PROVE  HeldRowsAreOpen'
<1> USE DEF TypeOK, RowsOK, RowType, ScannersOK, CountersOK, HeldRowsAreOpen, Holds
<1>1. ASSUME NEW e \in Emails, ScanFind(s, e) PROVE HeldRowsAreOpen' BY <1>1 DEF ScanFind
<1>2. CASE ScanPublish(s) BY <1>2 DEF ScanPublish
<1>3. CASE ScanMark(s) \/ CronWrite(s)
  <2> DEFINE f == scan[s].email
  <2>1. f \in Emails /\ pc' = pc /\ job' = job BY <1>3 DEF ScanMark, CronWrite
  <2>2. \A e \in Emails : /\ e # f => row'[e] = row[e] /\ late'[e] = late[e]
                          /\ late'[e] = 0 => late[e] = 0
    BY <1>3, <2>1 DEF ScanMark, CronWrite
  <2>3. \/ row'[f] = row[f]
        \/ row[f].status = "scheduled"
        \/ late'[f] > 0
    BY <1>3, <2>1 DEF ScanMark, CronWrite
  <2>4. late[f] = 0 /\ row[f].status = "scheduled" => \A w \in Workers : ~Holds(w, f)
    BY <2>1 DEF ClaimIsALock, Sendable
  <2>5. late'[f] \in Nat BY <1>3, <2>1 DEF ScanMark, CronWrite
  <2> HIDE DEF f
  <2> QED BY <2>1, <2>2, <2>3, <2>4, <2>5
<1>4. CASE ScanAbort(s) BY <1>4 DEF ScanAbort
<1> QED BY <1>1, <1>2, <1>3, <1>4 DEF Scan

LEMMA EnvironmentKeepsHeld ==
  ASSUME TypeOK, HandoffsAreCovered, HeldRowsAreOpen, \A e \in Emails : lost[e] = 0,
         \/ \E m \in Msgs : Expire(m) \/ Overrun(m) \/ Redrive(m)
         \/ \E e \in Emails : ScheduleArrives(e) \/ RetryArrives(e)
         \/ \E e \in Emails, t \in FeedbackTypes : Feedback(e, t)
  PROVE  HeldRowsAreOpen'
<1> USE DEF TypeOK, RowsOK, RowType, HeldRowsAreOpen, Holds
<1>1. ASSUME NEW m \in Msgs, Expire(m) \/ Overrun(m) \/ Redrive(m) PROVE HeldRowsAreOpen'
  BY <1>1 DEF Expire, Overrun, BecomeVisible, Redrive
<1>2. ASSUME NEW e \in Emails, ScheduleArrives(e) \/ RetryArrives(e) PROVE HeldRowsAreOpen'
  BY <1>2 DEF ScheduleArrives, RetryArrives
<1>3. ASSUME NEW e \in Emails, NEW t \in FeedbackTypes, Feedback(e, t) PROVE HeldRowsAreOpen'
  <2>1. late' = late /\ pc' = pc /\ job' = job BY <1>3 DEF Feedback
  <2>2. \A f \in Emails : f # e => row'[f] = row[f] BY <1>3 DEF Feedback
  <2>3. late[e] = 0 => \A w \in Workers : Holds(w, e) => pc[w] = "commit"
    BY <1>3, HeldWhenAccepted DEF Feedback
  <2> QED BY <2>1, <2>2, <2>3
<1> QED BY <1>1, <1>2, <1>3

\* The worker that writes an outcome is the only one that holds the email.
LEMMA WorkKeepsHeld ==
  ASSUME TypeOK, ClaimIsALock, HeldRowsAreOpen, NEW w \in Workers, Work(w) \/ WorkFault(w),
         ~HandoffUnacknowledged(w), ~MarkSentFails(w), ~DatabaseUnanswered(w)
  PROVE  HeldRowsAreOpen'
<1> USE DEF TypeOK, RowsOK, RowType, WorkersOK, HeldRowsAreOpen, Holds
<1>1. ASSUME NEW m \in Msgs, Receive(w, m) PROVE HeldRowsAreOpen' BY <1>1 DEF Receive
<1>2. ASSUME NEW e \in Emails, PollDatabase(w, e) PROVE HeldRowsAreOpen' BY <1>2 DEF PollDatabase
<1>3. CASE FindEmail(w) BY <1>3 DEF FindEmail, Goto
<1>4. CASE ClaimForSending(w) BY <1>4 DEF ClaimForSending, Goto
<1>5. CASE ResolveDomain(w) BY <1>5 DEF ResolveDomain, Goto
<1>6. CASE Handoff(w) BY <1>6 DEF Handoff, Goto
<1>7. CASE MarkSent(w) \/ RecordFailure(w)
  <2> DEFINE f == job[w].email
  <2>1. f \in Emails /\ Holds(w, f) /\ late' = late /\ job' = job
    BY <1>7 DEF MarkSent, RecordFailure, Goto
  <2>2. \A e \in Emails : e # f => row'[e] = row[e] BY <1>7, <2>1 DEF MarkSent, RecordFailure, AttemptFailed
  <2>3. ~Holds(w, f)' /\ \A v \in Workers : v # w => pc'[v] = pc[v]
    BY <1>7 DEF MarkSent, RecordFailure, Goto
  <2>4. late[f] = 0 => \A v \in Workers : Holds(v, f) => v = w BY <2>1 DEF ClaimIsALock
  <2>5. \A v \in Workers, e \in Emails : Holds(v, e)' => v # w /\ Holds(v, e)
    BY <2>1, <2>3
  <2> HIDE DEF f
  <2> QED BY <2>1, <2>2, <2>3, <2>4, <2>5
<1>8. CASE Bury(w) BY <1>8 DEF Bury, Goto
<1>9. CASE Delay(w) BY <1>9 DEF Delay, Goto
<1>10. CASE Ack(w) BY <1>10 DEF Ack, Finish
<1>11. CASE Nack(w) BY <1>11 DEF Nack, Finish, Stop
<1>12. CASE DatabaseFails(w) BY <1>12 DEF DatabaseFails, Goto
<1>13. CASE AckFails(w) BY <1>13 DEF AckFails, Goto
<1>14. CASE LoopFails(w) BY <1>14 DEF LoopFails, Stop
<1>15. CASE WorkerCrash(w) BY <1>15 DEF WorkerCrash, Finish
<1> QED BY <1>1, <1>2, <1>3, <1>4, <1>5, <1>6, <1>7, <1>8, <1>9, <1>10, <1>11, <1>12, <1>13, <1>14, <1>15
        DEF Work, WorkFault

\* Only a failing call sends a request to the audit or loses SES's answer.
LEMMA CalmSteps ==
  ASSUME TypeOK, Next, spent["fault"] = 0, spent'["fault"] = 0,
         \A c \in Calls : call[c].step # "audit", \A e \in Emails : lost[e] = 0
  PROVE  /\ \A c \in Calls : call'[c].step # "audit"
         /\ \A e \in Emails : lost'[e] = 0
         /\ \A w \in Workers : ~HandoffUnacknowledged(w) /\ ~MarkSentFails(w) /\ ~DatabaseUnanswered(w)
<1> USE DEF TypeOK, CountersOK, CallsOK, CallType
<1>1. ~Spend("fault") BY DEF Spend
<1>2. ASSUME NEW w \in Workers PROVE ~HandoffUnacknowledged(w) /\ ~MarkSentFails(w) /\ ~DatabaseUnanswered(w)
  BY <1>1 DEF HandoffUnacknowledged, MarkSentFails, DatabaseUnanswered
<1>3. lost' = lost
  <2>1. ASSUME NEW w \in Workers, Work(w) \/ WorkFault(w) PROVE lost' = lost
    BY <1>2, <2>1 DEF Work, WorkFault, Receive, PollDatabase, FindEmail, ClaimForSending, ResolveDomain,
         Handoff, MarkSent, RecordFailure, Bury, Delay, Ack, Nack, DatabaseFails, AckFails, LoopFails,
         WorkerCrash
  <2>2. ASSUME NEW s \in Scanners, Scan(s) \/ ScanAbort(s) PROVE lost' = lost
    BY <2>2 DEF Scan, ScanFind, ScanPublish, ScanMark, CronWrite, ScanAbort
  <2>3. ASSUME NEW c \in Calls, CallStart(c) \/ CallContinue(c) \/ SendPublishFails(c) \/ CallCrash(c)
        PROVE  lost' = lost
    BY <2>3 DEF CallStart, CallContinue, SendPublishFails, CallCrash, SendInsert, EditRead, SendPublish,
         SendAudit, SendAuditEvent, CancelWrite, RescheduleWrite
  <2>4. ASSUME \/ \E m \in Msgs : Expire(m) \/ Overrun(m) \/ Redrive(m)
               \/ \E e \in Emails : ScheduleArrives(e) \/ RetryArrives(e)
               \/ \E e \in Emails, t \in FeedbackTypes : Feedback(e, t)
        PROVE  lost' = lost
    BY <2>4 DEF Expire, Overrun, BecomeVisible, Redrive, ScheduleArrives, RetryArrives, Feedback
  <2> QED BY <2>1, <2>2, <2>3, <2>4 DEF Next
<1>4. \A c \in Calls : call'[c].step # "audit"
  <2>1. ASSUME NEW w \in Workers, Work(w) \/ WorkFault(w) PROVE call' = call
    BY <1>2, <2>1 DEF Work, WorkFault, Receive, PollDatabase, FindEmail, ClaimForSending, ResolveDomain,
         Handoff, MarkSent, RecordFailure, Bury, Delay, Ack, Nack, DatabaseFails, AckFails, LoopFails,
         WorkerCrash
  <2>2. ASSUME NEW s \in Scanners, Scan(s) \/ ScanAbort(s) PROVE call' = call
    BY <2>2 DEF Scan, ScanFind, ScanPublish, ScanMark, CronWrite, ScanAbort
  <2>3. ASSUME NEW c \in Calls, CallStart(c) \/ CallContinue(c) \/ SendPublishFails(c) \/ CallCrash(c)
        PROVE  \A d \in Calls : call'[d].step # "audit"
    <3>1. ASSUME CallStart(c) PROVE \A d \in Calls : call'[d].step # "audit"
      BY <3>1 DEF CallStart, SendInsert, EditRead
    <3>2. ASSUME CallContinue(c) \/ CallCrash(c) PROVE \A d \in Calls : call'[d].step # "audit"
      BY <3>2 DEF CallContinue, CallCrash, SendPublish, SendAudit, SendAuditEvent, CancelWrite,
           RescheduleWrite, NoCall
    <3>3. ~SendPublishFails(c) BY <1>1 DEF SendPublishFails
    <3> QED BY <2>3, <3>1, <3>2, <3>3
  <2>4. ASSUME \/ \E m \in Msgs : Expire(m) \/ Overrun(m) \/ Redrive(m)
               \/ \E e \in Emails : ScheduleArrives(e) \/ RetryArrives(e)
               \/ \E e \in Emails, t \in FeedbackTypes : Feedback(e, t)
        PROVE  call' = call
    BY <2>4 DEF Expire, Overrun, BecomeVisible, Redrive, ScheduleArrives, RetryArrives, Feedback
  <2> QED BY <2>1, <2>2, <2>3, <2>4 DEF Next
<1> QED BY <1>2, <1>3, <1>4

\* As long as no call has failed, a row held by a worker is open, or SES has
\* taken its email.
THEOREM HeldHolds == Spec => []HeldInvariant
<1>1. Init => HeldInvariant
  BY DEF Init, HeldInvariant, HeldRowsAreOpen, Holds, NoCall
<1>2. TypeOK /\ ClaimIsALock /\ HandoffsAreCovered /\ HeldInvariant /\ [Next]_vars => HeldInvariant'
  <2> SUFFICES ASSUME TypeOK, ClaimIsALock, HandoffsAreCovered, HeldInvariant, [Next]_vars
               PROVE  HeldInvariant'
    OBVIOUS
  <2>1. CASE Next
    <3> SUFFICES ASSUME spent'["fault"] = 0
                 PROVE  /\ \A c \in Calls : call'[c].step # "audit"
                        /\ \A e \in Emails : lost'[e] = 0
                        /\ HeldRowsAreOpen'
      BY DEF HeldInvariant
    <3>1. spent["fault"] = 0
      <4>1. spent["fault"] \in Nat BY DEF TypeOK, CountersOK
      <4> QED BY <2>1, <4>1, SpentGrows
    <3>2. HeldRowsAreOpen /\ (\A c \in Calls : call[c].step # "audit") /\ \A e \in Emails : lost[e] = 0
      BY <3>1 DEF HeldInvariant
    <3>3. /\ \A c \in Calls : call'[c].step # "audit"
          /\ \A e \in Emails : lost'[e] = 0
          /\ \A w \in Workers : ~HandoffUnacknowledged(w) /\ ~MarkSentFails(w) /\ ~DatabaseUnanswered(w)
      BY <2>1, <3>1, <3>2, CalmSteps
    <3>4. HeldRowsAreOpen'
      BY <2>1, <3>2, <3>3, CallsKeepHeld, ScansKeepHeld, EnvironmentKeepsHeld, WorkKeepsHeld DEF Next
    <3> QED BY <3>3, <3>4
  <2>2. CASE UNCHANGED vars BY <2>2 DEF vars, HeldInvariant, HeldRowsAreOpen, Holds
  <2> QED BY <2>1, <2>2
<1> QED BY <1>1, <1>2, ClaimLocks, HandoffsCovered, TypeCorrect, PTL DEF Spec

\* Which steps unsettle a row: a write of the cron route, and the record of a
\* failed attempt.
LEMMA UnsettlingSteps ==
  ASSUME TypeOK, Next, NEW e \in Emails, Settled(e), ~Settled(e)', late'[e] = 0
  PROVE  \E w \in Workers : /\ RecordFailure(w) \/ DatabaseUnanswered(w)
                           /\ pc[w] = "fail" /\ job[w].email = e /\ late' = late
<1> USE DEF TypeOK, RowsOK, RowType, Settled, Skipped
<1>1. ASSUME NEW c \in Calls, CallStart(c) \/ CallContinue(c) \/ SendPublishFails(c) \/ CallCrash(c)
      PROVE  FALSE
  <2> USE DEF CallsOK
  <2>1. ASSUME NEW f \in Emails, SendInsert(c, f) PROVE FALSE BY <2>1 DEF SendInsert
  <2>2. ASSUME SendAudit(c) \/ CancelWrite(c) \/ RescheduleWrite(c) PROVE FALSE
    BY <2>2 DEF SendAudit, CancelWrite, RescheduleWrite
  <2> QED BY <1>1, <2>1, <2>2 DEF CallStart, CallContinue, EditRead, SendPublish, SendAuditEvent,
               SendPublishFails, CallCrash
<1>2. ASSUME NEW s \in Scanners, Scan(s) \/ ScanAbort(s) PROVE FALSE
  BY <1>2 DEF Scan, ScanFind, ScanPublish, ScanMark, CronWrite, ScanAbort, ScannersOK, CountersOK
<1>3. ASSUME \/ \E m \in Msgs : Expire(m) \/ Overrun(m) \/ Redrive(m)
             \/ \E f \in Emails : ScheduleArrives(f) \/ RetryArrives(f)
             \/ \E f \in Emails, t \in FeedbackTypes : Feedback(f, t)
      PROVE  FALSE
  <2>1. ASSUME NEW m \in Msgs, Expire(m) \/ Overrun(m) \/ Redrive(m) PROVE FALSE
    BY <2>1 DEF Expire, Overrun, BecomeVisible, Redrive
  <2>2. ASSUME NEW f \in Emails, ScheduleArrives(f) \/ RetryArrives(f) PROVE FALSE
    BY <2>2 DEF ScheduleArrives, RetryArrives
  <2>3. ASSUME NEW f \in Emails, NEW t \in FeedbackTypes, Feedback(f, t) PROVE FALSE
    <3>1. t \in {"delivered", "bounced", "complained"} BY DeliveryAssumption
    <3> QED BY <2>3, <3>1 DEF Feedback
  <2> QED BY <1>3, <2>1, <2>2, <2>3
<1>4. ASSUME NEW w \in Workers, Work(w) \/ WorkFault(w), ~RecordFailure(w), ~DatabaseUnanswered(w) PROVE FALSE
  <2>1. CASE ClaimForSending(w)
    BY <2>1 DEF ClaimForSending, Claimable, WorkersOK
  <2>2. CASE MarkSent(w) \/ MarkSentFails(w) BY <2>2 DEF MarkSent, MarkSentFails, WorkersOK
  <2>3. CASE ~ClaimForSending(w) /\ ~MarkSent(w) /\ ~MarkSentFails(w)
    BY <1>4, <2>3 DEF Work, WorkFault, Receive, PollDatabase, FindEmail, ResolveDomain,
         Handoff, Bury, Delay, Ack, Nack, DatabaseFails, AckFails, LoopFails, WorkerCrash,
         HandoffUnacknowledged
  <2> QED BY <2>1, <2>2, <2>3
<1>5. PICK w \in Workers : RecordFailure(w) \/ DatabaseUnanswered(w) BY <1>1, <1>2, <1>3, <1>4 DEF Next
<1>6. late' = late BY <1>5 DEF RecordFailure, DatabaseUnanswered
<1>7. pc[w] = "fail" /\ job[w].email = e
  <2>1. CASE RecordFailure(w) BY <2>1 DEF RecordFailure, AttemptFailed, WorkersOK
  <2>2. CASE DatabaseUnanswered(w)
    BY <2>2 DEF DatabaseUnanswered, AttemptFailed, Claimable, WorkersOK
  <2> QED BY <1>5, <2>1, <2>2
<1> QED BY <1>5, <1>6, <1>7

\* Outcomes are final: while the cron route keeps away, a settled row is
\* unsettled only by its worker recording a failed attempt over a cancellation,
\* or after a call has failed.
THEOREM SettledForGood == Spec => SettledStaysSettled
<1>1. TypeOK /\ HeldInvariant /\ [Next]_vars =>
        [\A e \in Emails : Settled(e) /\ late'[e] = 0 => Settled(e)' \/ Overridden(e)]_vars
  <2> SUFFICES ASSUME TypeOK, HeldInvariant, Next, NEW e \in Emails,
                      Settled(e), late'[e] = 0, ~Settled(e)'
               PROVE  Overridden(e)
    OBVIOUS
  <2>1. PICK w \in Workers : pc[w] = "fail" /\ job[w].email = e /\ late' = late BY UnsettlingSteps
  <2>2. pc[w] = "fail" /\ late[e] = 0 BY <2>1
  <2>3. Holds(w, e) BY <2>1, <2>2 DEF Holds
  <2>4. spent["fault"] \in Nat BY DEF TypeOK, CountersOK
  <2>5. CASE spent["fault"] = 0
    <3>1. row[e].status \in {"processing", "canceled"}
      BY <2>2, <2>3, <2>5 DEF HeldInvariant, HeldRowsAreOpen
    <3>2. row[e].status = "canceled" BY <3>1 DEF Settled, Skipped
    <3> QED BY <2>1, <2>2, <3>2 DEF Overridden
  <2>6. CASE spent["fault"] > 0 BY <2>1, <2>2, <2>6 DEF Overridden
  <2> QED BY <2>4, <2>5, <2>6
<1> QED BY <1>1, HeldHolds, TypeCorrect, PTL DEF Spec, SettledStaysSettled
=============================================================================
