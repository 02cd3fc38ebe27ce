------------------------ MODULE WebhookDispatch_proofs ------------------------
(***************************************************************************)
(* Machine-checked proofs about WebhookDispatch, for any number of         *)
(* deliveries and dispatchers, any MaxAttempts and ScanLimit, with or      *)
(* without a queue, and for any number of crashes, faults and overruns.    *)
(***************************************************************************)
EXTENDS WebhookDispatch, TLAPS

-----------------------------------------------------------------------------
(* Type correctness, one part of the state at a time *)

\* What an action leaves alone keeps its type.
LEMMA Frame ==
  /\ RowsOK /\ UNCHANGED <<delivery, active, jobs>> => RowsOK'
  /\ DispatchersOK /\ UNCHANGED <<pc, todo, job, at>> => DispatchersOK'
  /\ HistoryOK /\ UNCHANGED <<tries, oks, spent>> => HistoryOK'
  BY DEF RowsOK, DispatchersOK, HistoryOK

\* The steps many actions share keep the types of what they change.
LEMMA SharedSteps ==
  ASSUME TypeOK
  PROVE  /\ \A d \in Dispatchers : Return(d) \/ Abandon(d) => DispatchersOK'
         /\ \A f \in Faults : Spend(f) /\ UNCHANGED <<tries, oks>> => HistoryOK'
         /\ \A v \in Deliveries, r \in RowType :
              delivery' = [delivery EXCEPT ![v] = r] /\ UNCHANGED <<active, jobs>> => RowsOK'
<1> USE DispatchAssumption DEF TypeOK
<1>1. Idle \in AtType BY DEF Idle, AtType
<1>2. ASSUME NEW d \in Dispatchers, Return(d) PROVE DispatchersOK'
  <2>1. PICK p \in {"next", "ack", "idle"} :
          /\ pc' = [pc EXCEPT ![d] = p]
          /\ p = "ack" => job[d] # None
    BY <1>2 DEF Return
  <2>2. p \notin InHand BY DEF InHand
  <2> HIDE DEF Idle, InHand, AtType
  <2> QED BY <1>1, <1>2, <2>1, <2>2 DEF Return, DispatchersOK
<1>3. ASSUME NEW d \in Dispatchers, Abandon(d) PROVE DispatchersOK'
  <2>1. "idle" \notin InHand BY DEF InHand
  <2> HIDE DEF Idle, InHand, AtType
  <2> QED BY <1>1, <1>3, <2>1 DEF Abandon, DispatchersOK
<1>4. ASSUME NEW f \in Faults, Spend(f), UNCHANGED <<tries, oks>> PROVE HistoryOK'
  BY <1>4 DEF Spend, HistoryOK
<1>5. ASSUME NEW v \in Deliveries, NEW r \in RowType,
             delivery' = [delivery EXCEPT ![v] = r], UNCHANGED <<active, jobs>>
      PROVE  RowsOK'
  BY <1>5 DEF RowsOK
<1> QED BY <1>2, <1>3, <1>4, <1>5

\* Rows, jobs and the endpoint.
LEMMA TypeRows ==
  ASSUME TypeOK, (\E v \in Deliveries : Enqueue(v) \/ RetryArrives(v)) \/ SwitchEndpoint
  PROVE  TypeOK'
<1> USE DispatchAssumption DEF TypeOK
<1>1. ASSUME NEW v \in Deliveries, Enqueue(v) PROVE TypeOK'
  <2>1. RowsOK'
    <3>1. Pending \in RowType BY DEF Pending, RowType
    <3>2. jobs' \subseteq Deliveries BY <1>1 DEF Enqueue, RowsOK
    <3> QED BY <1>1, <3>1, <3>2 DEF Enqueue, RowsOK
  <2>2. HistoryOK' BY <1>1, SharedSteps, Frame DEF Enqueue, Faults
  <2> QED BY <1>1, <2>1, <2>2, Frame DEF Enqueue
<1>2. ASSUME NEW v \in Deliveries, RetryArrives(v) PROVE TypeOK'
  <2>1. [delivery[v] EXCEPT !.retry = "due"] \in RowType BY DEF RowsOK, RowType
  <2>2. RowsOK' BY <1>2, <2>1, SharedSteps DEF RetryArrives
  <2> QED BY <1>2, <2>2, Frame DEF RetryArrives
<1>3. CASE SwitchEndpoint
  <2>1. RowsOK' BY <1>3 DEF SwitchEndpoint, RowsOK
  <2> QED BY <1>3, <2>1, Frame DEF SwitchEndpoint
<1> QED BY <1>1, <1>2, <1>3

\* Picking up work and calling the endpoint.
LEMMA TypeCalls ==
  ASSUME TypeOK, NEW d \in Dispatchers,
         \/ \E v \in Deliveries : Replay(d, v) \/ StartJob(d, v) \/ Load(d, v)
         \/ StartScan(d) \/ Post(d) \/ RefuseUnsafe(d)
  PROVE  TypeOK'
<1> USE DispatchAssumption DEF TypeOK
<1>1. ASSUME NEW v \in Deliveries, Replay(d, v) PROVE TypeOK'
  <2>1. Pending \in RowType BY DEF Pending, RowType
  <2>2. RowsOK' BY <1>1, <2>1, SharedSteps DEF Replay
  <2>3. DispatchersOK' BY <1>1 DEF Replay, DispatchersOK, InHand
  <2> QED BY <1>1, <2>2, <2>3, Frame DEF Replay
<1>2. CASE StartScan(d)
  <2>1. DispatchersOK' BY <1>2 DEF StartScan, DispatchersOK, InHand
  <2> QED BY <1>2, <2>1, Frame DEF StartScan
<1>3. ASSUME NEW v \in Deliveries, StartJob(d, v) PROVE TypeOK'
  <2>1. DispatchersOK' BY <1>3 DEF StartJob, DispatchersOK, InHand
  <2>2. HistoryOK' BY <1>3, SharedSteps, Frame DEF StartJob, Faults
  <2> QED BY <1>3, <2>1, <2>2, Frame DEF StartJob
<1>4. ASSUME NEW v \in Deliveries, Load(d, v) PROVE TypeOK'
  <2> DEFINE hand(x) == [row |-> v, attempt |-> delivery[v].attempt, answer |-> x]
  <2>1. \A x \in {"none", "disabled"} : hand(x) \in AtType BY DEF RowsOK, RowType, AtType
  <2>2. PICK p \in {"post", "terminal"}, x \in {"none", "disabled"} :
          /\ pc' = [pc EXCEPT ![d] = p]
          /\ at' = [at EXCEPT ![d] = hand(x)]
    <3>1. CASE active BY <1>4, <3>1 DEF Load
    <3>2. CASE ~active BY <1>4, <3>2 DEF Load
    <3> QED BY <3>1, <3>2
  <2>3. hand(x).row = v OBVIOUS
  <2>4. DispatchersOK'
    <3> HIDE DEF hand
    <3> QED BY <1>4, <2>1, <2>2, <2>3 DEF Load, DispatchersOK, InHand
  <2> QED BY <1>4, <2>4, Frame DEF Load
<1>5. CASE Post(d)
  <2>1. at[d].row \in Deliveries BY <1>5 DEF Post, DispatchersOK, InHand
  <2>2. DispatchersOK' BY <1>5 DEF Post, DispatchersOK, InHand, AtType
  <2>3. HistoryOK'
    <3>1. tries' \in [Deliveries -> Nat] BY <1>5, <2>1 DEF Post, HistoryOK
    <3>2. oks' \in [Deliveries -> Nat] BY <1>5, <2>1 DEF Post, HistoryOK
    <3> QED BY <1>5, <3>1, <3>2 DEF Post, HistoryOK
  <2> QED BY <1>5, <2>2, <2>3, Frame DEF Post
<1>6. CASE RefuseUnsafe(d)
  <2>1. at[d].row \in Deliveries BY <1>6 DEF RefuseUnsafe, DispatchersOK, InHand
  <2>2. DispatchersOK' BY <1>6 DEF RefuseUnsafe, DispatchersOK, InHand, AtType
  <2>3. HistoryOK' BY <1>6, <2>1 DEF RefuseUnsafe, HistoryOK
  <2> QED BY <1>6, <2>2, <2>3, Frame DEF RefuseUnsafe
<1> QED BY <1>1, <1>2, <1>3, <1>4, <1>5, <1>6

\* Writing the outcome, and the ways out of the loop.
LEMMA TypeOutcomes ==
  ASSUME TypeOK, NEW d \in Dispatchers,
         \/ Record(d) \/ MarkTerminal(d) \/ RecordFails(d) \/ LoadFails(d) \/ Ack(d) \/ Crash(d)
  PROVE  TypeOK'
<1> USE DispatchAssumption DEF TypeOK
<1> DEFINE v == at[d].row
<1>0. /\ WriteOutcome(d) => \E r \in RowType : delivery' = [delivery EXCEPT ![v] = r]
      /\ Write(v, "failed", at[d].attempt, "none") => \E r \in RowType : delivery' = [delivery EXCEPT ![v] = r]
  <2> DEFINE n == at[d].attempt + 1
             status == Outcome(n, at[d].answer)
             retry == IF status = "pending" THEN "future" ELSE "none"
  <2>0. n \in Nat /\ status \in {"success", "dead_letter", "pending"} /\ retry \in {"future", "none"}
    BY DEF Outcome, DispatchersOK, AtType
  <2>1. [status |-> status, attempt |-> n, retry |-> retry] \in RowType BY <2>0 DEF RowType
  <2>2. WriteOutcome(d) => delivery' = [delivery EXCEPT ![v] = [status |-> status, attempt |-> n, retry |-> retry]]
    BY DEF WriteOutcome, Write
  <2>3. [status |-> "failed", attempt |-> at[d].attempt, retry |-> "none"] \in RowType
    BY DEF RowType, DispatchersOK, AtType
  <2> QED BY <2>1, <2>2, <2>3 DEF Write
<1>1. CASE Record(d)
  <2>1. PICK r \in RowType : delivery' = [delivery EXCEPT ![v] = r] BY <1>0, <1>1 DEF Record
  <2>2. v \in Deliveries BY <1>1 DEF Record, DispatchersOK, InHand
  <2>3. RowsOK' BY <1>1, <2>1, <2>2, SharedSteps DEF Record
  <2>4. DispatchersOK' BY <1>1, SharedSteps DEF Record
  <2> QED BY <1>1, <2>3, <2>4, Frame DEF Record
<1>2. CASE MarkTerminal(d)
  <2>1. PICK r \in RowType : delivery' = [delivery EXCEPT ![v] = r] BY <1>0, <1>2 DEF MarkTerminal
  <2>2. v \in Deliveries BY <1>2 DEF MarkTerminal, DispatchersOK, InHand
  <2>3. RowsOK' BY <1>2, <2>1, <2>2, SharedSteps DEF MarkTerminal
  <2>4. DispatchersOK' BY <1>2, SharedSteps DEF MarkTerminal
  <2> QED BY <1>2, <2>3, <2>4, Frame DEF MarkTerminal
<1>3. CASE RecordFails(d)
  <2>1. HistoryOK' BY <1>3, SharedSteps DEF RecordFails, Faults
  <2>4. RowsOK'
    <3>1. v \in Deliveries /\ UNCHANGED <<active, jobs>> BY <1>3 DEF RecordFails, DispatchersOK, InHand
    <3>2. CASE UNCHANGED delivery BY <3>1, <3>2, Frame
    <3>3. CASE WriteOutcome(d) \/ Write(v, "failed", at[d].attempt, "none")
      BY <1>0, <3>1, <3>3, SharedSteps
    <3> QED BY <1>3, <3>2, <3>3 DEF RecordFails
  <2>2. CASE at[d].answer \in {"ok", "refused", "unsafe"}
    <3>1. /\ at' = [at EXCEPT ![d].answer = "error"]
          /\ pc' = [pc EXCEPT ![d] = "record"]
          /\ UNCHANGED <<todo, job>>
      BY <1>3, <2>2 DEF RecordFails
    <3>2. at[d] \in AtType /\ at[d].row \in Deliveries BY <1>3 DEF RecordFails, DispatchersOK, InHand
    <3>3. at' \in [Dispatchers -> AtType] BY <3>1, <3>2 DEF DispatchersOK, AtType
    <3>4. DispatchersOK' BY <3>1, <3>2, <3>3 DEF DispatchersOK, InHand
    <3> QED BY <1>3, <2>1, <2>4, <3>4 DEF RecordFails
  <2>3. CASE at[d].answer \notin {"ok", "refused", "unsafe"}
    <3>1. DispatchersOK' BY <1>3, <2>3, SharedSteps DEF RecordFails
    <3> QED BY <2>1, <2>4, <3>1
  <2> QED BY <2>2, <2>3
<1>4. CASE LoadFails(d)
  <2>1. HistoryOK' /\ DispatchersOK' BY <1>4, SharedSteps DEF LoadFails, Faults
  <2> QED BY <1>4, <2>1, Frame DEF LoadFails
<1>5. CASE Ack(d)
  <2>1. HistoryOK' BY <1>5, SharedSteps, Frame DEF Ack, Faults
  <2>2. DispatchersOK' BY <1>5, SharedSteps DEF Ack
  <2>3. RowsOK' BY <1>5 DEF Ack, RowsOK
  <2> QED BY <1>5, <2>1, <2>2, <2>3 DEF Ack
<1>6. CASE Crash(d)
  <2>1. HistoryOK' /\ DispatchersOK' BY <1>6, SharedSteps DEF Crash, Faults
  <2> QED BY <1>6, <2>1, Frame DEF Crash
<1> QED BY <1>1, <1>2, <1>3, <1>4, <1>5, <1>6

LEMMA TypeInit == Init => TypeOK
<1> SUFFICES ASSUME Init PROVE TypeOK
  OBVIOUS
<1>1. RowsOK BY DEF Init, RowsOK, RowType
<1>2. DispatchersOK BY DEF Init, DispatchersOK, Idle, AtType, InHand
<1>3. HistoryOK BY DEF Init, HistoryOK
<1> QED BY <1>1, <1>2, <1>3 DEF TypeOK

\* Type correctness: every reachable row, job, dispatcher and counter has its
\* type, and whoever is about to record or acknowledge knows of which delivery.
THEOREM TypeCorrect == Spec => []TypeOK
<1>1. TypeOK /\ [Next]_vars => TypeOK'
  <2> SUFFICES ASSUME TypeOK, [Next]_vars PROVE TypeOK'
    OBVIOUS
  <2>1. CASE Next
    <3>1. CASE (\E v \in Deliveries : Enqueue(v) \/ RetryArrives(v)) \/ SwitchEndpoint
      BY <3>1, TypeRows
    <3>2. ASSUME NEW d \in Dispatchers,
                 \/ \E v \in Deliveries : Replay(d, v) \/ StartJob(d, v) \/ Load(d, v)
                 \/ StartScan(d) \/ Post(d) \/ RefuseUnsafe(d)
          PROVE  TypeOK'
      BY <3>2, TypeCalls
    <3>3. ASSUME NEW d \in Dispatchers,
                 \/ Record(d) \/ MarkTerminal(d) \/ RecordFails(d) \/ LoadFails(d) \/ Ack(d) \/ Crash(d)
          PROVE  TypeOK'
      BY <3>3, TypeOutcomes
    <3> QED BY <2>1, <3>1, <3>2, <3>3 DEF Next, Dispatch
  <2>2. CASE UNCHANGED vars BY <2>2, Frame DEF vars, TypeOK
  <2> QED BY <2>1, <2>2
<1> QED BY TypeInit, <1>1, PTL DEF Spec

-----------------------------------------------------------------------------
(* Rows and hands are honest *)

\* A dispatcher that puts its delivery down makes no claim, and others keep
\* theirs.
LEMMA HandsDown ==
  ASSUME TypeOK, HandsAreHonest, NEW d \in Dispatchers, UNCHANGED <<tries, oks>>,
         \/ Return(d) \/ Abandon(d)
         \/ \E p \in {"idle", "next", "ack"} : pc' = [pc EXCEPT ![d] = p] /\ UNCHANGED at
  PROVE  HandsAreHonest'
<1>1. PICK p \in {"idle", "next", "ack"} : pc' = [pc EXCEPT ![d] = p]
  BY DEF Return, Abandon
<1>2. \A e \in Dispatchers \ {d} : at'[e] = at[e] /\ pc'[e] = pc[e]
  BY <1>1 DEF Return, Abandon, TypeOK, DispatchersOK
<1>3. pc'[d] \notin InHand BY <1>1 DEF TypeOK, DispatchersOK, InHand
<1> HIDE DEF InHand
<1> QED BY <1>2, <1>3 DEF HandsAreHonest

\* Rows whose status and attempt stay the same stay honest.
LEMMA RowsKept ==
  ASSUME RowsAreHonest, UNCHANGED <<tries, oks>>,
         \A v \in Deliveries : /\ delivery'[v].status = delivery[v].status
                               /\ delivery'[v].attempt = delivery[v].attempt
  PROVE  RowsAreHonest'
  BY DEF RowsAreHonest

\* A row written from what is true of its delivery stays honest.
LEMMA RowWritten ==
  ASSUME TypeOK, RowsAreHonest, UNCHANGED <<tries, oks>>, NEW v \in Deliveries,
         NEW status, NEW n, NEW retry, Write(v, status, n, retry),
         n <= tries[v],
         status = "success" => oks[v] > 0,
         status = "dead_letter" => tries[v] >= MaxAttempts
  PROVE  RowsAreHonest'
<1>1. delivery'[v] = [status |-> status, attempt |-> n, retry |-> retry]
  BY DEF Write, TypeOK, RowsOK
<1>2. \A w \in Deliveries \ {v} : delivery'[w] = delivery[w]
  BY DEF Write, TypeOK, RowsOK
<1> QED BY <1>1, <1>2 DEF RowsAreHonest

\* Rows and jobs arrive, and dispatchers pick them up.
LEMMA HonestArrivals ==
  ASSUME TypeOK, DispatchInvariant,
         \/ \E v \in Deliveries : Enqueue(v) \/ RetryArrives(v)
         \/ SwitchEndpoint
         \/ \E d \in Dispatchers : StartScan(d) \/ \E v \in Deliveries : Replay(d, v) \/ StartJob(d, v)
  PROVE  DispatchInvariant'
<1> USE DispatchAssumption DEF DispatchInvariant
<1>1. ASSUME NEW v \in Deliveries, delivery' = [delivery EXCEPT ![v] = Pending], UNCHANGED <<tries, oks>>
      PROVE  RowsAreHonest'
  <2>1. Write(v, "pending", 0, "none") BY <1>1 DEF Write, Pending
  <2>2. 0 <= tries[v] BY DEF TypeOK, HistoryOK
  <2> QED BY <1>1, <2>1, <2>2, RowWritten
<1>2. ASSUME NEW v \in Deliveries, Enqueue(v) PROVE DispatchInvariant'
  <2>1. HandsAreHonest' BY <1>2 DEF Enqueue, HandsAreHonest
  <2> QED BY <1>1, <1>2, <2>1 DEF Enqueue
<1>3. ASSUME NEW v \in Deliveries, RetryArrives(v) PROVE DispatchInvariant'
  <2>1. HandsAreHonest' BY <1>3 DEF RetryArrives, HandsAreHonest
  <2>2. RowsAreHonest' BY <1>3, RowsKept DEF RetryArrives, TypeOK, RowsOK, RowType
  <2> QED BY <2>1, <2>2
<1>4. CASE SwitchEndpoint
  <2>1. HandsAreHonest' BY <1>4 DEF SwitchEndpoint, HandsAreHonest
  <2> QED BY <1>4, <2>1 DEF SwitchEndpoint, RowsAreHonest
<1>5. ASSUME NEW d \in Dispatchers, StartScan(d) PROVE DispatchInvariant'
  <2>1. HandsAreHonest' BY <1>5, HandsDown DEF StartScan
  <2> QED BY <1>5, <2>1 DEF StartScan, RowsAreHonest
<1>6. ASSUME NEW d \in Dispatchers, NEW v \in Deliveries, Replay(d, v) PROVE DispatchInvariant'
  <2>1. HandsAreHonest' BY <1>6, HandsDown DEF Replay
  <2> QED BY <1>1, <1>6, <2>1 DEF Replay
<1>7. ASSUME NEW d \in Dispatchers, NEW v \in Deliveries, StartJob(d, v) PROVE DispatchInvariant'
  <2>1. HandsAreHonest' BY <1>7, HandsDown DEF StartJob
  <2> QED BY <1>7, <2>1 DEF StartJob, RowsAreHonest
<1> QED BY <1>2, <1>3, <1>4, <1>5, <1>6, <1>7

\* Reading a row and calling its endpoint.
LEMMA HonestCalls ==
  ASSUME TypeOK, DispatchInvariant, NEW d \in Dispatchers,
         (\E v \in Deliveries : Load(d, v)) \/ Post(d) \/ RefuseUnsafe(d)
  PROVE  DispatchInvariant'
<1> USE DispatchAssumption DEF DispatchInvariant
<1>1. ASSUME NEW v \in Deliveries, Load(d, v) PROVE DispatchInvariant'
  <2>1. \A e \in Dispatchers \ {d} : at'[e] = at[e] /\ pc'[e] = pc[e]
    BY <1>1 DEF Load, TypeOK, DispatchersOK
  <2>2. /\ at'[d].row = v /\ at'[d].attempt = delivery[v].attempt
        /\ at'[d].answer \in {"none", "disabled"}
        /\ pc'[d] \in {"post", "terminal"}
    BY <1>1 DEF Load, TypeOK, DispatchersOK
  <2>3. delivery[v].attempt <= tries[v] BY DEF RowsAreHonest
  <2>4. UNCHANGED <<delivery, tries, oks>> BY <1>1 DEF Load
  <2>5. HandsAreHonest' BY <2>1, <2>2, <2>3, <2>4 DEF HandsAreHonest
  <2> QED BY <2>4, <2>5 DEF RowsAreHonest
<1>2. ASSUME NEW answer \in {"ok", "refused", "error", "unsafe"}, NEW p \in {"record", "terminal"},
             p = "record" => answer # "unsafe",
             pc[d] = "post", pc' = [pc EXCEPT ![d] = p],
             at' = [at EXCEPT ![d].answer = answer],
             tries' = [tries EXCEPT ![at[d].row] = @ + 1],
             oks' = [oks EXCEPT ![at[d].row] = IF answer = "ok" THEN @ + 1 ELSE @],
             UNCHANGED delivery
      PROVE  DispatchInvariant'
  <2>1. at[d].row \in Deliveries /\ at[d].attempt <= tries[at[d].row]
    BY <1>2 DEF TypeOK, DispatchersOK, InHand, HandsAreHonest
  <2>2. \A v \in Deliveries : /\ tries[v] \in Nat /\ tries'[v] \in Nat /\ tries[v] <= tries'[v]
                              /\ oks[v] \in Nat /\ oks'[v] \in Nat /\ oks[v] <= oks'[v]
    BY <1>2, <2>1 DEF TypeOK, HistoryOK
  <2>3. /\ tries'[at[d].row] = tries[at[d].row] + 1
        /\ answer = "ok" => oks'[at[d].row] > 0
    BY <1>2, <2>1 DEF TypeOK, HistoryOK
  <2>4. /\ at'[d].row = at[d].row /\ at'[d].attempt = at[d].attempt /\ at'[d].answer = answer
        /\ at[d].attempt \in Nat /\ pc'[d] = p
    BY <1>2 DEF TypeOK, DispatchersOK, AtType
  <2>5. \A e \in Dispatchers \ {d} :
          /\ at'[e] = at[e] /\ pc'[e] = pc[e] /\ at[e].attempt \in Nat
          /\ pc[e] \in InHand => at[e].row \in Deliveries
    BY <1>2 DEF TypeOK, DispatchersOK, AtType
  <2>6. RowsAreHonest'
    <3>1. \A v \in Deliveries : delivery[v].attempt \in Nat BY DEF TypeOK, RowsOK, RowType
    <3> QED BY <1>2, <2>2, <3>1 DEF RowsAreHonest
  <2>7. HandsAreHonest'
    <3> SUFFICES ASSUME NEW e \in Dispatchers, pc'[e] \in InHand
        PROVE /\ at'[e].attempt <= tries'[at'[e].row]
              /\ pc'[e] = "record" => at'[e].answer \notin {"none", "disabled"}
              /\ at'[e].answer \notin {"none", "disabled"} => at'[e].attempt < tries'[at'[e].row]
              /\ at'[e].answer = "ok" => oks'[at'[e].row] > 0
      BY DEF HandsAreHonest, InHand
    <3>1. CASE e = d BY <1>2, <2>1, <2>2, <2>3, <2>4, <3>1
    <3>2. CASE e # d BY <2>2, <2>5, <3>2 DEF HandsAreHonest
    <3> QED BY <3>1, <3>2
  <2> QED BY <2>6, <2>7
<1>3. CASE Post(d)
  BY <1>2, <1>3 DEF Post
<1>4. CASE RefuseUnsafe(d)
  <2>1. oks' = [oks EXCEPT ![at[d].row] = IF "unsafe" = "ok" THEN @ + 1 ELSE @]
    BY <1>4 DEF RefuseUnsafe, TypeOK, HistoryOK
  <2> QED BY <1>2, <1>4, <2>1 DEF RefuseUnsafe
<1> QED BY <1>1, <1>3, <1>4

\* Writing the outcome, and the ways out of the loop.
LEMMA HonestOutcomes ==
  ASSUME TypeOK, DispatchInvariant, NEW d \in Dispatchers,
         \/ Record(d) \/ MarkTerminal(d) \/ RecordFails(d) \/ LoadFails(d) \/ Ack(d) \/ Crash(d)
  PROVE  DispatchInvariant'
<1> USE DispatchAssumption DEF DispatchInvariant
<1>5. ASSUME pc[d] = "record", WriteOutcome(d), UNCHANGED <<tries, oks>> PROVE RowsAreHonest'
  <2> DEFINE v == at[d].row
             n == at[d].attempt + 1
             status == Outcome(n, at[d].answer)
             retry == IF status = "pending" THEN "future" ELSE "none"
  <2>1. v \in Deliveries /\ at[d].attempt \in Nat /\ tries[v] \in Nat
    BY <1>5 DEF TypeOK, DispatchersOK, AtType, InHand, HistoryOK
  <2>2. at[d].attempt < tries[v] /\ (at[d].answer = "ok" => oks[v] > 0)
    BY <1>5 DEF HandsAreHonest, InHand
  <2>3. n <= tries[v] BY <2>1, <2>2
  <2>4. status = "success" => oks[v] > 0 BY <2>2 DEF Outcome
  <2>5. status = "dead_letter" => tries[v] >= MaxAttempts
    <3>1. status = "dead_letter" => n >= MaxAttempts BY DEF Outcome
    <3> QED BY <2>1, <2>3, <3>1
  <2>6. Write(v, status, n, retry) BY <1>5 DEF WriteOutcome
  <2> HIDE DEF v, n, status, retry
  <2> QED BY <1>5, <2>1, <2>3, <2>4, <2>5, <2>6, RowWritten
<1>6. ASSUME pc[d] = "terminal", Write(at[d].row, "failed", at[d].attempt, "none"), UNCHANGED <<tries, oks>>
      PROVE  RowsAreHonest'
  <2>1. at[d].row \in Deliveries /\ at[d].attempt <= tries[at[d].row]
    BY <1>6 DEF TypeOK, DispatchersOK, HandsAreHonest, InHand
  <2> QED BY <1>6, <2>1, RowWritten
<1>1. CASE Record(d)
  BY <1>1, <1>5, HandsDown DEF Record
<1>2. CASE MarkTerminal(d)
  BY <1>2, <1>6, HandsDown DEF MarkTerminal
<1>3. CASE RecordFails(d)
  <2>1. RowsAreHonest'
    <3>1. CASE UNCHANGED delivery BY <1>3, <3>1 DEF RecordFails, RowsAreHonest
    <3> QED BY <1>3, <1>5, <1>6, <3>1 DEF RecordFails
  <2>2. HandsAreHonest'
    <3>1. CASE at[d].answer \in {"ok", "refused", "unsafe"}
      <4>1. /\ at'[d].row = at[d].row /\ at'[d].attempt = at[d].attempt
            /\ at'[d].answer = "error" /\ pc'[d] = "record"
        BY <1>3, <3>1 DEF RecordFails, TypeOK, DispatchersOK, AtType
      <4>2. \A e \in Dispatchers \ {d} : at'[e] = at[e] /\ pc'[e] = pc[e]
        BY <1>3, <3>1 DEF RecordFails, TypeOK, DispatchersOK
      <4>3. at[d].attempt <= tries[at[d].row] /\ at[d].attempt < tries[at[d].row]
        BY <1>3, <3>1 DEF RecordFails, HandsAreHonest, InHand
      <4>4. UNCHANGED <<tries, oks>> BY <1>3 DEF RecordFails
      <4> QED BY <4>1, <4>2, <4>3, <4>4 DEF HandsAreHonest
    <3>2. CASE at[d].answer \notin {"ok", "refused", "unsafe"}
      BY <1>3, <3>2, HandsDown DEF RecordFails
    <3> QED BY <3>1, <3>2
  <2> QED BY <2>1, <2>2
<1>4. CASE LoadFails(d) \/ Ack(d) \/ Crash(d)
  <2>1. Abandon(d) /\ UNCHANGED <<delivery, tries, oks>> BY <1>4 DEF LoadFails, Ack, Crash
  <2>2. HandsAreHonest' BY <2>1, HandsDown
  <2> QED BY <2>1, <2>2 DEF RowsAreHonest
<1> QED BY <1>1, <1>2, <1>3, <1>4

\* Rows never claim more than happened: overlapping dispatchers, redelivered
\* jobs, failing updates and crashes lose attempts but never invent one, and a
\* success or a dead letter was earned.
THEOREM RowsStayHonest == Spec => []DispatchInvariant
<1>1. Init => DispatchInvariant
  <2> SUFFICES ASSUME Init PROVE DispatchInvariant
    OBVIOUS
  <2>1. RowsAreHonest
    <3>1. \A v \in Deliveries : /\ delivery[v].attempt = 0 /\ tries[v] = 0
                                /\ delivery[v].status = "absent"
      BY DEF Init
    <3> HIDE DEF Init
    <3> QED BY <3>1, 0 <= 0 DEF RowsAreHonest
  <2>2. HandsAreHonest BY DEF Init, HandsAreHonest, InHand
  <2> QED BY <2>1, <2>2 DEF DispatchInvariant
<1>2. TypeOK /\ DispatchInvariant /\ [Next]_vars => DispatchInvariant'
  <2> SUFFICES ASSUME TypeOK, DispatchInvariant, [Next]_vars PROVE DispatchInvariant'
    OBVIOUS
  <2>1. ASSUME NEW d \in Dispatchers,
               (\E v \in Deliveries : Load(d, v)) \/ Post(d) \/ RefuseUnsafe(d)
        PROVE  DispatchInvariant'
    BY <2>1, HonestCalls
  <2>2. ASSUME NEW d \in Dispatchers,
               \/ Record(d) \/ MarkTerminal(d) \/ RecordFails(d) \/ LoadFails(d) \/ Ack(d) \/ Crash(d)
        PROVE  DispatchInvariant'
    BY <2>2, HonestOutcomes
  <2>3. CASE \/ \E v \in Deliveries : Enqueue(v) \/ RetryArrives(v)
             \/ SwitchEndpoint
             \/ \E d \in Dispatchers : StartScan(d) \/ \E v \in Deliveries : Replay(d, v) \/ StartJob(d, v)
    BY <2>3, HonestArrivals
  <2>4. CASE UNCHANGED vars
    BY <2>4 DEF vars, DispatchInvariant, RowsAreHonest, HandsAreHonest
  <2> QED BY <2>1, <2>2, <2>3, <2>4 DEF Next, Dispatch
<1> QED BY TypeCorrect, <1>1, <1>2, PTL DEF Spec

=============================================================================
