------------------------- MODULE BroadcastFanout_proofs -------------------------
(***************************************************************************)
(* Machine-checked proofs about BroadcastFanout, for any number of         *)
(* broadcasts, runs and requests, any BatchLimit, and any number of edits, *)
(* failing calls and crashes.                                              *)
(***************************************************************************)
EXTENDS BroadcastFanout, FiniteSetTheorems, TLAPS

RowType == [status : Statuses, at : Times]
RunType == [pc : {"idle", "next", "requeue"} \cup Steps,
            batch : SUBSET Broadcasts, held : Broadcasts \cup {None}]

\* A run holds a broadcast exactly while it works on one.
Holding(x) == x.held # None <=> x.pc \in Steps \cup {"requeue"}

-----------------------------------------------------------------------------
(* Type correctness *)

\* The statements and moves many actions share keep the types of what they
\* change.
LEMMA SharedSteps ==
  ASSUME TypeOK
  PROVE  /\ \A b \in Broadcasts, x \in RowType :
              broadcast' = [broadcast EXCEPT ![b] = x] => broadcast' \in [Broadcasts -> RowType]
         /\ \A b \in Broadcasts, s \in Statuses :
              SetStatus(b, s) => broadcast' \in [Broadcasts -> RowType]
         /\ \A b \in Broadcasts : Grant(b) => grounds' \in [Broadcasts -> Nat]
         /\ \A k \in {"update", "fault", "crash"} :
              Spend(k) => spent' \in [{"update", "fault", "crash"} -> Nat]
         /\ \A r \in Runs, x \in RunType :
              run' = [run EXCEPT ![r] = x] /\ Holding(x) =>
                /\ run' \in [Runs -> RunType]
                /\ \A q \in Runs : Holding(run'[q])
<1> USE DEF TypeOK, RowType
<1>1. ASSUME NEW b \in Broadcasts, NEW s \in Statuses, SetStatus(b, s)
      PROVE  broadcast' \in [Broadcasts -> RowType]
  BY <1>1 DEF SetStatus
<1>2. ASSUME NEW b \in Broadcasts, Grant(b) PROVE grounds' \in [Broadcasts -> Nat]
  BY <1>2 DEF Grant
<1>3. ASSUME NEW k \in {"update", "fault", "crash"}, Spend(k)
      PROVE  spent' \in [{"update", "fault", "crash"} -> Nat]
  BY <1>3 DEF Spend
<1>4. ASSUME NEW r \in Runs, NEW x \in RunType, run' = [run EXCEPT ![r] = x], Holding(x)
      PROVE  run' \in [Runs -> RunType] /\ \A q \in Runs : Holding(run'[q])
  BY <1>4 DEF RunType, Holding
<1>5. ASSUME NEW b \in Broadcasts, NEW x \in RowType, broadcast' = [broadcast EXCEPT ![b] = x]
      PROVE  broadcast' \in [Broadcasts -> RowType]
  BY <1>5
<1> QED BY <1>1, <1>2, <1>3, <1>4, <1>5

\* So do a run's moves.
LEMMA RunMoves ==
  ASSUME TypeOK, NEW r \in Runs
  PROVE  /\ run[r] \in RunType
         /\ \A pc \in Steps \cup {"requeue"} :
              GoTo(r, pc) /\ run[r].held # None =>
                run' = [run EXCEPT ![r] = [pc |-> pc, batch |-> run[r].batch, held |-> run[r].held]]
         /\ NextRow(r) => \E pc \in {"idle", "next"} :
              run' = [run EXCEPT ![r] = [pc |-> pc, batch |-> run[r].batch, held |-> None]]
         /\ \A pc \in Steps \cup {"requeue"} :
              GoTo(r, pc) /\ run[r].held # None =>
                run' \in [Runs -> RunType] /\ \A q \in Runs : Holding(run'[q])
         /\ NextRow(r) \/ Drop(r) => run' \in [Runs -> RunType] /\ \A q \in Runs : Holding(run'[q])
         /\ Drop(r) => dropped' \in [Broadcasts -> Nat]
<1>1. run[r] \in RunType BY DEF TypeOK, RunType
<1>2. ASSUME NEW pc \in Steps \cup {"requeue"}, GoTo(r, pc)
      PROVE  run' = [run EXCEPT ![r] = [pc |-> pc, batch |-> run[r].batch, held |-> run[r].held]]
  <2>1. [run[r] EXCEPT !.pc = pc] = [pc |-> pc, batch |-> run[r].batch, held |-> run[r].held]
    BY <1>1 DEF RunType
  <2>2. run' = [run EXCEPT ![r] = [run[r] EXCEPT !.pc = pc]] BY <1>2 DEF GoTo
  <2> QED BY <2>1, <2>2
<1>3. ASSUME NEW pc \in Steps \cup {"requeue"}, GoTo(r, pc), run[r].held # None
      PROVE  run' \in [Runs -> RunType] /\ \A q \in Runs : Holding(run'[q])
  <2> DEFINE x == [pc |-> pc, batch |-> run[r].batch, held |-> run[r].held]
  <2>1. x \in RunType /\ Holding(x) BY <1>1, <1>3 DEF RunType, Holding
  <2> QED BY <1>2, <1>3, <2>1, SharedSteps
<1>4. ASSUME NextRow(r)
      PROVE  \E pc \in {"idle", "next"} :
               run' = [run EXCEPT ![r] = [pc |-> pc, batch |-> run[r].batch, held |-> None]]
  BY <1>4 DEF NextRow
<1>5. ASSUME NextRow(r) PROVE run' \in [Runs -> RunType] /\ \A q \in Runs : Holding(run'[q])
  <2>1. PICK pc \in {"idle", "next"} :
          run' = [run EXCEPT ![r] = [pc |-> pc, batch |-> run[r].batch, held |-> None]]
    BY <1>4, <1>5
  <2> DEFINE x == [pc |-> pc, batch |-> run[r].batch, held |-> None]
  <2>2. x \in RunType /\ Holding(x) BY <1>1 DEF RunType, Holding, Steps
  <2> QED BY <2>1, <2>2, SharedSteps
<1>6. ASSUME Drop(r)
      PROVE  /\ run' \in [Runs -> RunType] /\ \A q \in Runs : Holding(run'[q])
             /\ dropped' \in [Broadcasts -> Nat]
  <2>1. Idle \in RunType /\ Holding(Idle) BY DEF Idle, RunType, Holding, Steps
  <2>2. run' \in [Runs -> RunType] /\ \A q \in Runs : Holding(run'[q])
    <3> HIDE DEF Idle
    <3> QED BY <1>6, <2>1, SharedSteps DEF Drop
  <2>3. dropped' \in [Broadcasts -> Nat] BY <1>6 DEF Drop, Strand, TypeOK
  <2> QED BY <2>2, <2>3
<1> QED BY <1>1, <1>2, <1>3, <1>4, <1>5, <1>6

\* The API's steps.
LEMMA TypeService ==
  ASSUME TypeOK,
         \/ \E b \in Broadcasts : Create(b) \/ Update(b) \/ TimeArrives(b)
         \/ \E c \in Calls : \/ SendWrite(c) \/ DeleteWrite(c)
                             \/ \E b \in Broadcasts : SendRead(c, b) \/ DeleteRead(c, b)
  PROVE  TypeOK'
<1> DEFINE Rows == broadcast' \in [Broadcasts -> RowType]
           Requests == /\ call' \in [Calls -> [op : {"none", "send", "delete"}, on : Broadcasts \cup {None}]]
                       /\ \A c \in Calls : call'[c].on # None <=> call'[c].op # "none"
<1> USE FanoutAssumption
<1>0. ASSUME Rows, Requests, UNCHANGED <<run, copies>>, dropped' \in [Broadcasts -> Nat],
             grounds' \in [Broadcasts -> Nat], spent' \in [{"update", "fault", "crash"} -> Nat]
      PROVE  TypeOK'
  BY <1>0 DEF TypeOK, RowType
<1>01. ASSUME UNCHANGED call PROVE Requests BY <1>01 DEF TypeOK
<1>02. /\ grounds \in [Broadcasts -> Nat] /\ dropped \in [Broadcasts -> Nat]
       /\ spent \in [{"update", "fault", "crash"} -> Nat]
  BY DEF TypeOK
<1>1. ASSUME NEW b \in Broadcasts, Create(b) PROVE TypeOK'
  <2>1. Rows BY <1>1, SharedSteps DEF Create, RowType, Statuses, Times
  <2>2. grounds' \in [Broadcasts -> Nat] BY <1>02, <1>1, SharedSteps DEF Create
  <2> QED BY <1>0, <1>01, <1>02, <1>1, <2>1, <2>2 DEF Create
<1>2. ASSUME NEW b \in Broadcasts, Update(b) PROVE TypeOK'
  <2>1. Rows
    <3>1. broadcast[b].status \in Statuses BY DEF TypeOK
    <3> QED BY <1>2, <3>1, SharedSteps DEF Update, RowType, Statuses
  <2>2. grounds' \in [Broadcasts -> Nat] BY <1>02, <1>2, SharedSteps DEF Update
  <2>3. spent' \in [{"update", "fault", "crash"} -> Nat] BY <1>2, SharedSteps DEF Update
  <2>4. dropped' \in [Broadcasts -> Nat] BY <1>02, <1>2 DEF Update, Strand
  <2> QED BY <1>0, <1>01, <1>2, <2>1, <2>2, <2>3, <2>4 DEF Update
<1>3. ASSUME NEW b \in Broadcasts, TimeArrives(b) PROVE TypeOK'
  <2>1. Rows BY <1>3 DEF TimeArrives, TypeOK, RowType, Times
  <2> QED BY <1>0, <1>01, <1>02, <1>3, <2>1 DEF TimeArrives
<1>4. ASSUME NEW c \in Calls, NEW b \in Broadcasts, SendRead(c, b) \/ DeleteRead(c, b) PROVE TypeOK'
  <2>1. Requests
    <3>1. PICK op \in {"send", "delete"} : call' = [call EXCEPT ![c] = [op |-> op, on |-> b]]
      BY <1>4 DEF SendRead, DeleteRead
    <3> QED BY <3>1 DEF TypeOK
  <2>2. Rows BY <1>4 DEF SendRead, DeleteRead, TypeOK, RowType
  <2> QED BY <1>0, <1>02, <1>4, <2>1, <2>2 DEF SendRead, DeleteRead
<1>5. ASSUME NEW c \in Calls, SendWrite(c) PROVE TypeOK'
  <2>1. call[c].on \in Broadcasts BY <1>5 DEF SendWrite, TypeOK
  <2>2. Rows
    <3>1. broadcast \in [Broadcasts -> RowType] BY DEF TypeOK, RowType
    <3>2. PICK time \in {"none", "future"} :
            broadcast' = IF Exists(call[c].on)
                         THEN [broadcast EXCEPT ![call[c].on] =
                                 [status |-> IF time = "none" THEN "queued" ELSE "scheduled", at |-> time]]
                         ELSE broadcast
      BY <1>5 DEF SendWrite
    <3>3. [status |-> IF time = "none" THEN "queued" ELSE "scheduled", at |-> time] \in RowType
      BY DEF RowType, Statuses, Times
    <3> QED BY <2>1, <3>1, <3>2, <3>3
  <2>3. Requests BY <1>5 DEF SendWrite, TypeOK, NoCall
  <2>4. grounds' \in [Broadcasts -> Nat] BY <1>5, <2>1, SharedSteps DEF SendWrite
  <2> QED BY <1>0, <1>02, <1>5, <2>2, <2>3, <2>4 DEF SendWrite
<1>6. ASSUME NEW c \in Calls, DeleteWrite(c) PROVE TypeOK'
  <2>1. call[c].on \in Broadcasts BY <1>6 DEF DeleteWrite, TypeOK
  <2>2. Rows BY <1>6, <2>1, SharedSteps DEF DeleteWrite, Statuses
  <2>3. Requests BY <1>6 DEF DeleteWrite, TypeOK, NoCall
  <2> QED BY <1>0, <1>02, <1>6, <2>2, <2>3 DEF DeleteWrite
<1> QED BY <1>1, <1>2, <1>3, <1>4, <1>5, <1>6

\* The runs' steps.
LEMMA TypeRuns ==
  ASSUME TypeOK, NEW r \in Runs,
         \/ Work(r) \/ FanOutUnacknowledged(r) \/ StepFails(r) \/ StepUnanswered(r)
         \/ RequeueFails(r) \/ Crash(r)
  PROVE  TypeOK'
<1> DEFINE Moved == run' \in [Runs -> RunType] /\ \A q \in Runs : Holding(run'[q])
           Rows == broadcast' \in [Broadcasts -> RowType]
           Tallies == /\ copies' \in [Broadcasts -> Nat] /\ grounds' \in [Broadcasts -> Nat]
                      /\ dropped' \in [Broadcasts -> Nat]
                      /\ spent' \in [{"update", "fault", "crash"} -> Nat]
<1> USE FanoutAssumption
<1>0. ASSUME Moved, Rows, Tallies, UNCHANGED call PROVE TypeOK'
  BY <1>0 DEF TypeOK, RowType, RunType, Holding
<1>01. ASSUME UNCHANGED broadcast PROVE Rows BY <1>01 DEF TypeOK, RowType
<1>02. ASSUME UNCHANGED <<copies, grounds, dropped, spent>> PROVE Tallies BY <1>02 DEF TypeOK
<1>03. run[r].pc \in Steps \cup {"requeue"} => run[r].held \in Broadcasts BY DEF TypeOK
<1>1. CASE Select(r)
  <2>1. PICK batch \in SUBSET Broadcasts :
          run' = [run EXCEPT ![r] = [pc |-> "next", batch |-> batch, held |-> None]]
    BY <1>1 DEF Select
  <2> DEFINE x == [pc |-> "next", batch |-> batch, held |-> None]
  <2>2. x \in RunType /\ Holding(x) BY DEF RunType, Holding, Steps
  <2>3. Moved BY <2>1, <2>2, SharedSteps
  <2>4. Tallies
    <3>1. \A b \in Broadcasts : grounds[b] \in Nat BY DEF TypeOK
    <3>2. grounds' \in [Broadcasts -> Nat] BY <1>1, <3>1 DEF Select
    <3> QED BY <1>1, <3>2 DEF Select, TypeOK
  <2> QED BY <1>0, <1>01, <1>1, <2>3, <2>4 DEF Select
<1>2. ASSUME NEW b \in Broadcasts, TakeRow(r, b) PROVE TypeOK'
  <2> DEFINE x == [pc |-> "mark", batch |-> run[r].batch \ {b}, held |-> b]
  <2>1. run' = [run EXCEPT ![r] = x] BY <1>2 DEF TakeRow
  <2>2. x \in RunType /\ Holding(x) BY RunMoves DEF RunType, Holding, Steps
  <2>3. Moved BY <2>1, <2>2, SharedSteps
  <2> QED BY <1>0, <1>01, <1>02, <1>2, <2>3 DEF TakeRow
<1>3. CASE MarkSending(r)
  <2>1. run[r].held \in Broadcasts BY <1>03, <1>3 DEF MarkSending, Steps
  <2>2. Moved BY <1>3, <2>1, RunMoves DEF MarkSending, Steps
  <2>3. Rows BY <1>3, <2>1, SharedSteps DEF MarkSending, Statuses
  <2> QED BY <1>0, <1>02, <1>3, <2>2, <2>3 DEF MarkSending
<1>4. CASE FailOwnerless(r)
  <2>1. Rows BY <1>03, <1>4, SharedSteps DEF FailOwnerless, Statuses, Steps
  <2> QED BY <1>0, <1>02, <1>4, <2>1, RunMoves DEF FailOwnerless
<1>5. CASE ResolveAudience(r)
  <2>1. Moved BY <1>03, <1>5, RunMoves DEF ResolveAudience, Steps
  <2> QED BY <1>0, <1>01, <1>02, <1>5, <2>1 DEF ResolveAudience
<1>6. CASE FanOut(r)
  <2>1. run[r].held \in Broadcasts BY <1>03, <1>6 DEF FanOut, Steps
  <2>2. Rows BY <1>6, <2>1, SharedSteps DEF FanOut, Statuses
  <2>3. Tallies BY <1>6, <2>1 DEF FanOut, TypeOK
  <2> QED BY <1>0, <1>6, <2>2, <2>3, RunMoves DEF FanOut
<1>7. CASE RefuseQuota(r)
  <2>1. Moved BY <1>03, <1>7, RunMoves DEF RefuseQuota, Steps
  <2> QED BY <1>0, <1>01, <1>02, <1>7, <2>1 DEF RefuseQuota
<1>8. CASE MarkBlocked(r)
  <2>1. Rows BY <1>03, <1>8, SharedSteps DEF MarkBlocked, Statuses, Steps
  <2> QED BY <1>0, <1>02, <1>8, <2>1, RunMoves DEF MarkBlocked
<1>9. CASE Requeue(r)
  <2>1. Rows BY <1>03, <1>9, SharedSteps DEF Requeue, Statuses
  <2> QED BY <1>0, <1>02, <1>9, <2>1, RunMoves DEF Requeue
<1>10. CASE FanOutUnacknowledged(r)
  <2>1. run[r].held \in Broadcasts BY <1>03, <1>10 DEF FanOutUnacknowledged, Steps
  <2>2. Rows BY <1>10, <2>1, SharedSteps DEF FanOutUnacknowledged, Statuses
  <2>3. Tallies
    <3>1. copies' \in [Broadcasts -> Nat] BY <1>10, <2>1 DEF FanOutUnacknowledged, TypeOK
    <3>2. dropped' \in [Broadcasts -> Nat] BY <1>10 DEF FanOutUnacknowledged, TypeOK
    <3> QED BY <1>10, <2>1, <3>1, <3>2, SharedSteps DEF FanOutUnacknowledged
  <2>4. Moved BY <1>10, <2>1, RunMoves DEF FanOutUnacknowledged
  <2> QED BY <1>0, <1>10, <2>2, <2>3, <2>4 DEF FanOutUnacknowledged
<1>11. CASE StepFails(r)
  <2>1. Moved BY <1>03, <1>11, RunMoves DEF StepFails
  <2>2. Tallies BY <1>11, SharedSteps DEF StepFails, TypeOK
  <2> QED BY <1>0, <1>01, <1>11, <2>1, <2>2 DEF StepFails
<1>12. CASE StepUnanswered(r)
  <2>1. run[r].held \in Broadcasts BY <1>03, <1>12 DEF StepUnanswered, Steps
  <2>2. PICK s \in {"sending", "failed", "blocked_billing"} : SetStatus(run[r].held, s)
    BY <1>12 DEF StepUnanswered
  <2>3. Rows BY <2>1, <2>2, SharedSteps DEF Statuses
  <2>4. Moved BY <1>12, <2>1, RunMoves DEF StepUnanswered
  <2>5. Tallies BY <1>12, SharedSteps DEF StepUnanswered, TypeOK
  <2> QED BY <1>0, <1>12, <2>3, <2>4, <2>5 DEF StepUnanswered
<1>13. CASE RequeueFails(r) \/ Crash(r)
  <2>1. Drop(r) /\ UNCHANGED <<broadcast, call, copies, grounds>> /\ (UNCHANGED spent \/ Spend("crash"))
    BY <1>13 DEF RequeueFails, Crash
  <2>2. Tallies BY <2>1, SharedSteps, RunMoves DEF TypeOK
  <2> QED BY <1>0, <1>01, <2>1, <2>2, RunMoves
<1> QED BY <1>1, <1>2, <1>3, <1>4, <1>5, <1>6, <1>7, <1>8, <1>9, <1>10, <1>11, <1>12, <1>13 DEF Work

LEMMA TypeInit == Init => TypeOK
  BY FanoutAssumption DEF Init, TypeOK, Statuses, Times, Steps, Idle, NoCall

\* Type correctness: rows, runs, requests and tallies keep their types, and a
\* run has a broadcast in hand exactly while it works on one.
THEOREM TypeCorrect == Spec => []TypeOK
<1>1. TypeOK /\ [Next]_vars => TypeOK'
  <2> SUFFICES ASSUME TypeOK, [Next]_vars PROVE TypeOK'
    OBVIOUS
  <2>1. CASE Next BY <2>1, TypeService, TypeRuns DEF Next
  <2>2. CASE UNCHANGED vars BY <2>2 DEF vars, TypeOK
  <2> QED BY <2>1, <2>2
<1> QED BY TypeInit, <1>1, PTL DEF Spec

-----------------------------------------------------------------------------
(* Nobody is left in "sending" *)

\* What an unconditional update does to the statuses.
LEMMA StatusWritten ==
  ASSUME TypeOK, NEW b \in Broadcasts, NEW s, SetStatus(b, s)
  PROVE  /\ \A x \in Broadcasts \ {b} : broadcast'[x] = broadcast[x]
         /\ broadcast'[b].status \in {s, "absent", "deleted"}
<1>1. CASE Exists(b)
  <2>1. broadcast' = [broadcast EXCEPT ![b].status = s] BY <1>1 DEF SetStatus
  <2> QED BY <2>1 DEF TypeOK
<1>2. CASE ~Exists(b)
  BY <1>2 DEF SetStatus, Exists
<1> QED BY <1>1, <1>2

\* A run that goes on to its next row leaves its broadcast in another status.
LEMMA AttendedNextRow ==
  ASSUME TypeOK, SendingIsAttended, NEW r \in Runs, run[r].held \in Broadcasts,
         NEW s, s # "sending", SetStatus(run[r].held, s), NextRow(r), UNCHANGED dropped
  PROVE  SendingIsAttended'
<1>1. \A q \in Runs \ {r} : run'[q] = run[q] BY DEF NextRow, TypeOK
<1>2. \A b \in Broadcasts \ {run[r].held} : broadcast'[b] = broadcast[b] BY StatusWritten
<1>3. broadcast'[run[r].held].status # "sending" BY StatusWritten
<1> QED BY <1>1, <1>2, <1>3 DEF SendingIsAttended

\* A run that keeps its broadcast keeps attending it.
LEMMA AttendedGoTo ==
  ASSUME TypeOK, SendingIsAttended, NEW r \in Runs, NEW pc, GoTo(r, pc), UNCHANGED dropped,
         \/ UNCHANGED broadcast
         \/ run[r].held \in Broadcasts /\ \E s : SetStatus(run[r].held, s)
  PROVE  SendingIsAttended'
<1>1. \A q \in Runs : run'[q].held = run[q].held BY DEF GoTo, TypeOK
<1>2. \A b \in Broadcasts : broadcast'[b] = broadcast[b] \/ b = run[r].held BY StatusWritten
<1> QED BY <1>1, <1>2 DEF SendingIsAttended

LEMMA AttendedRuns ==
  ASSUME TypeOK, SendingIsAttended, NEW r \in Runs,
         \/ Work(r) \/ FanOutUnacknowledged(r) \/ StepFails(r) \/ StepUnanswered(r)
         \/ RequeueFails(r) \/ Crash(r)
  PROVE  SendingIsAttended'
<1> USE FanoutAssumption
<1>0. run[r].pc \in Steps \cup {"requeue"} => run[r].held \in Broadcasts BY DEF TypeOK
<1>1. CASE Select(r)
  <2>1. run[r].held = None /\ UNCHANGED <<broadcast, dropped>> BY <1>1 DEF Select, Idle
  <2>2. \A q \in Runs \ {r} : run'[q] = run[q] BY <1>1 DEF Select, TypeOK
  <2> QED BY <2>1, <2>2 DEF SendingIsAttended
<1>2. ASSUME NEW b \in Broadcasts, TakeRow(r, b) PROVE SendingIsAttended'
  <2>1. run[r].held = None BY <1>2 DEF TakeRow, TypeOK, Steps
  <2>2. UNCHANGED <<broadcast, dropped>> BY <1>2 DEF TakeRow
  <2>3. \A q \in Runs \ {r} : run'[q] = run[q] BY <1>2 DEF TakeRow, TypeOK
  <2> QED BY <2>1, <2>2, <2>3 DEF SendingIsAttended
<1>3. CASE MarkSending(r)
  <2>1. run[r].held \in Broadcasts BY <1>0, <1>3 DEF MarkSending, Steps
  <2> QED BY <1>3, <2>1, AttendedGoTo DEF MarkSending
<1>4. CASE FailOwnerless(r) \/ FanOut(r) \/ MarkBlocked(r) \/ Requeue(r)
  <2>1. run[r].held \in Broadcasts
    BY <1>0, <1>4 DEF FailOwnerless, FanOut, MarkBlocked, Requeue, Steps
  <2>2. PICK s \in {"failed", "sent", "blocked_billing", "queued"} : SetStatus(run[r].held, s)
    BY <1>4 DEF FailOwnerless, FanOut, MarkBlocked, Requeue
  <2>3. NextRow(r) /\ UNCHANGED dropped BY <1>4 DEF FailOwnerless, FanOut, MarkBlocked, Requeue
  <2> QED BY <2>1, <2>2, <2>3, AttendedNextRow
<1>5. CASE ResolveAudience(r) \/ RefuseQuota(r) \/ StepFails(r)
  BY <1>5, AttendedGoTo DEF ResolveAudience, RefuseQuota, StepFails
<1>6. CASE FanOutUnacknowledged(r)
  <2>1. run[r].held \in Broadcasts BY <1>0, <1>6 DEF FanOutUnacknowledged, Steps
  <2> QED BY <1>6, <2>1, AttendedGoTo DEF FanOutUnacknowledged
<1>7. CASE StepUnanswered(r)
  <2>1. run[r].held \in Broadcasts BY <1>0, <1>7 DEF StepUnanswered, Steps
  <2> QED BY <1>7, <2>1, AttendedGoTo DEF StepUnanswered
<1>8. CASE RequeueFails(r) \/ Crash(r)
  <2>1. Drop(r) /\ UNCHANGED broadcast BY <1>8 DEF RequeueFails, Crash
  <2>2. \A q \in Runs \ {r} : run'[q] = run[q] BY <2>1 DEF Drop, Strand, TypeOK
  <2>3. \A b \in Broadcasts : /\ dropped[b] > 0 => dropped'[b] > 0
                              /\ b = run[r].held => dropped'[b] > 0
    BY <2>1 DEF Drop, Strand, TypeOK
  <2> QED BY <2>1, <2>2, <2>3 DEF SendingIsAttended
<1> QED BY <1>1, <1>2, <1>3, <1>4, <1>5, <1>6, <1>7, <1>8 DEF Work

LEMMA AttendedService ==
  ASSUME TypeOK, SendingIsAttended,
         \/ \E b \in Broadcasts : Create(b) \/ Update(b) \/ TimeArrives(b)
         \/ \E c \in Calls : \/ SendWrite(c) \/ DeleteWrite(c)
                             \/ \E b \in Broadcasts : SendRead(c, b) \/ DeleteRead(c, b)
  PROVE  SendingIsAttended'
<1> USE FanoutAssumption
<1>0. ASSUME NEW b \in Broadcasts, UNCHANGED <<run, dropped>>,
             \A x \in Broadcasts \ {b} : broadcast'[x] = broadcast[x],
             broadcast'[b].status = "sending" => broadcast[b].status = "sending"
      PROVE  SendingIsAttended'
  BY <1>0 DEF SendingIsAttended
<1>1. ASSUME NEW b \in Broadcasts, Create(b) PROVE SendingIsAttended'
  <2>1. PICK s \in {"draft", "queued", "scheduled"}, time \in Times :
          broadcast' = [broadcast EXCEPT ![b] = [status |-> s, at |-> time]]
    BY <1>1 DEF Create, Times
  <2> QED BY <1>0, <1>1, <2>1 DEF Create, TypeOK
<1>2. ASSUME NEW b \in Broadcasts, Update(b) PROVE SendingIsAttended'
  <2>1. /\ UNCHANGED run
        /\ \A x \in Broadcasts \ {b} : broadcast'[x] = broadcast[x] /\ dropped'[x] = dropped[x]
    BY <1>2 DEF Update, Strand, TypeOK
  <2>2. broadcast'[b].status = "sending" => dropped'[b] > 0
    BY <1>2 DEF Update, Strand, TypeOK
  <2> QED BY <2>1, <2>2 DEF SendingIsAttended
<1>3. ASSUME NEW b \in Broadcasts, TimeArrives(b) PROVE SendingIsAttended'
  BY <1>0, <1>3 DEF TimeArrives, TypeOK
<1>4. ASSUME NEW c \in Calls, NEW b \in Broadcasts, SendRead(c, b) \/ DeleteRead(c, b)
      PROVE  SendingIsAttended'
  BY <1>4 DEF SendRead, DeleteRead, SendingIsAttended
<1>5. ASSUME NEW c \in Calls, SendWrite(c) PROVE SendingIsAttended'
  <2>1. call[c].on \in Broadcasts BY <1>5 DEF SendWrite, TypeOK
  <2>2. CASE Exists(call[c].on)
    <3>1. PICK s \in {"queued", "scheduled"}, time \in Times :
            broadcast' = [broadcast EXCEPT ![call[c].on] = [status |-> s, at |-> time]]
      BY <1>5, <2>2 DEF SendWrite, Times
    <3> QED BY <1>0, <1>5, <2>1, <3>1 DEF SendWrite, TypeOK
  <2>3. CASE ~Exists(call[c].on)
    BY <1>5, <2>3 DEF SendWrite, SendingIsAttended
  <2> QED BY <2>2, <2>3
<1>6. ASSUME NEW c \in Calls, DeleteWrite(c) PROVE SendingIsAttended'
  <2>1. call[c].on \in Broadcasts BY <1>6 DEF DeleteWrite, TypeOK
  <2> QED BY <1>0, <1>6, <2>1, StatusWritten DEF DeleteWrite
<1> QED BY <1>1, <1>2, <1>3, <1>4, <1>5, <1>6

\* A broadcast stays in "sending" only while a run works on it, or after a run
\* that worked on it crashed or failed to requeue it or an edit said so, however
\* runs overlap.
THEOREM NobodyStuckSending == Spec => []SendingIsAttended
<1>1. Init => SendingIsAttended
  <2> SUFFICES ASSUME Init PROVE SendingIsAttended
    OBVIOUS
  <2>1. \A b \in Broadcasts : broadcast[b].status # "sending" BY DEF Init
  <2> QED BY <2>1 DEF SendingIsAttended
<1>2. TypeOK /\ SendingIsAttended /\ [Next]_vars => SendingIsAttended'
  <2> SUFFICES ASSUME TypeOK, SendingIsAttended, [Next]_vars PROVE SendingIsAttended'
    OBVIOUS
  <2>1. CASE Next BY <2>1, AttendedService, AttendedRuns DEF Next
  <2>2. CASE UNCHANGED vars BY <2>2 DEF vars, SendingIsAttended
  <2> QED BY <2>1, <2>2
<1> QED BY TypeCorrect, <1>1, <1>2, PTL DEF Spec

-----------------------------------------------------------------------------
(* A broadcast goes out once for every ground *)

\* How the size of a finite set moves when one element comes or goes.
LEMMA CountMoves ==
  ASSUME NEW S, NEW T, IsFiniteSet(S), IsFiniteSet(T)
  PROVE  /\ Cardinality(S) \in Nat /\ Cardinality(T) \in Nat
         /\ T \subseteq S => Cardinality(T) <= Cardinality(S)
         /\ \A x : T \subseteq S \cup {x} => Cardinality(T) <= Cardinality(S) + 1
         /\ \A x \in S : T \subseteq S \ {x} => Cardinality(T) <= Cardinality(S) - 1
<1>1. Cardinality(S) \in Nat BY FS_CardinalityType
<1>2. Cardinality(T) \in Nat BY FS_CardinalityType
<1>3. ASSUME T \subseteq S PROVE Cardinality(T) <= Cardinality(S) BY <1>3, FS_Subset
<1>4. ASSUME NEW x, T \subseteq S \cup {x} PROVE Cardinality(T) <= Cardinality(S) + 1
  <2>1. Cardinality(S \cup {x}) = IF x \in S THEN Cardinality(S) ELSE Cardinality(S) + 1
    BY FS_AddElement
  <2>2. IsFiniteSet(S \cup {x}) /\ Cardinality(S \cup {x}) <= Cardinality(S) + 1
    BY <1>1, <2>1, FS_AddElement
  <2>3. Cardinality(T) <= Cardinality(S \cup {x}) BY <1>4, <2>2, FS_Subset
  <2>4. Cardinality(S \cup {x}) \in Nat BY <2>2, FS_CardinalityType
  <2> QED BY <1>1, <1>2, <2>2, <2>3, <2>4
<1>5. ASSUME NEW x \in S, T \subseteq S \ {x} PROVE Cardinality(T) <= Cardinality(S) - 1
  <2>1. IsFiniteSet(S \ {x}) /\ Cardinality(S \ {x}) = Cardinality(S) - 1
    BY <1>5, FS_RemoveElement
  <2>2. Cardinality(T) <= Cardinality(S \ {x}) BY <1>5, <2>1, FS_Subset
  <2> QED BY <1>1, <1>2, <2>1, <2>2
<1> QED BY <1>1, <1>2, <1>3, <1>4, <1>5

\* What a step makes of the fan-outs a broadcast has in store.
LEMMA StoreMoves ==
  ASSUME NEW x \in Broadcasts
  PROVE  /\ InStore(x) \in Nat /\ InStore(x)' \in Nat
         /\ Holders(x)' \subseteq Holders(x) => InStore(x)' <= InStore(x) + 1
         /\ Holders(x)' \subseteq Holders(x) /\ (Available(x)' => Available(x)) => InStore(x)' <= InStore(x)
         /\ \A r \in Holders(x) : Holders(x)' \subseteq Holders(x) \ {r} =>
              /\ InStore(x)' <= InStore(x)
              /\ ~Available(x)' => InStore(x)' <= InStore(x) - 1
         /\ \A r \in Runs : Holders(x)' \subseteq Holders(x) \cup {r} /\ ~Available(x)' =>
              /\ InStore(x)' <= InStore(x) + 1
              /\ Available(x) => InStore(x)' <= InStore(x)
<1> DEFINE C == Cardinality(Holders(x))
           D == Cardinality(Holders(x)')
<1>1. IsFiniteSet(Holders(x)) /\ IsFiniteSet(Holders(x)')
  BY FS_Subset, FanoutAssumption DEF Holders
<1>2. C \in Nat /\ D \in Nat BY <1>1, CountMoves
<1>3. Holders(x)' \subseteq Holders(x) => D <= C BY <1>1, CountMoves
<1>4. \A r \in Holders(x) : Holders(x)' \subseteq Holders(x) \ {r} => D <= C - 1 BY <1>1, CountMoves
<1>5. \A r \in Runs : Holders(x)' \subseteq Holders(x) \cup {r} => D <= C + 1 BY <1>1, CountMoves
<1>6. /\ InStore(x) = C + IF Available(x) THEN 1 ELSE 0
      /\ InStore(x)' = D + IF Available(x)' THEN 1 ELSE 0
  BY DEF InStore
<1> HIDE DEF C, D
<1> QED BY <1>2, <1>3, <1>4, <1>5, <1>6

\* When only one run moves, who holds a broadcast depends on that run alone.
LEMMA OneMoves ==
  ASSUME NEW r \in Runs, \A q \in Runs \ {r} : run'[q] = run[q], NEW x \in Broadcasts
  PROVE  /\ r \in Holders(x) <=> Holds(r, x)
         /\ (Holds(r, x)' => Holds(r, x)) => Holders(x)' \subseteq Holders(x)
         /\ ~Holds(r, x)' => Holders(x)' \subseteq Holders(x) \ {r}
         /\ Holders(x)' \subseteq Holders(x) \cup {r}
         /\ (broadcast'[x].status \in Accepted => broadcast[x].status \in Accepted)
            /\ (Unmarked(r, x) => Unmarked(r, x)') => (Available(x)' => Available(x))
         /\ Unmarked(r, x)' => ~Available(x)'
         /\ broadcast'[x].status \notin Accepted => ~Available(x)'
<1>1. \A q \in Runs \ {r} : (Holds(q, x)' <=> Holds(q, x)) /\ (Unmarked(q, x)' <=> Unmarked(q, x))
  BY DEF Holds, Unmarked
<1>2. (Holds(r, x)' => Holds(r, x)) => Holders(x)' \subseteq Holders(x) BY <1>1 DEF Holders
<1>3. ~Holds(r, x)' => Holders(x)' \subseteq Holders(x) \ {r} BY <1>1 DEF Holders
<1>4. Holders(x)' \subseteq Holders(x) \cup {r} BY <1>1 DEF Holders
<1>5. ASSUME broadcast'[x].status \in Accepted => broadcast[x].status \in Accepted,
             Unmarked(r, x) => Unmarked(r, x)', Available(x)'
      PROVE  Available(x)
  BY <1>1, <1>5 DEF Available
<1> QED BY <1>2, <1>3, <1>4, <1>5 DEF Available, Holders

\* What FanOutsAreGranted says of one broadcast, and of one run.
Granted(b) == /\ copies[b] <= grounds[b]
              /\ b \notin Ownerless => copies[b] + InStore(b) <= grounds[b]
Owned(r)   == /\ run[r].pc \in {"fanout", "blocked"} => run[r].held \notin Ownerless
              /\ run[r].held \notin run[r].batch

LEMMA GrantedParts ==
  FanOutsAreGranted <=> (\A b \in Broadcasts : Granted(b)) /\ (\A r \in Runs : Owned(r))
  BY DEF FanOutsAreGranted, CopiesHaveGrounds, Granted, Owned

LEMMA GrantedPartsNext ==
  (\A b \in Broadcasts : Granted(b)') /\ (\A r \in Runs : Owned(r)') => FanOutsAreGranted'
  BY DEF FanOutsAreGranted, CopiesHaveGrounds, Granted, Owned

\* A broadcast stays granted when a step pays for what it puts in store.
LEMMA StaysGranted ==
  ASSUME TypeOK, TypeOK', NEW x \in Broadcasts, Granted(x),
         \/ /\ copies'[x] = copies[x] /\ grounds'[x] = grounds[x]
            /\ x \notin Ownerless => InStore(x)' <= InStore(x)
         \/ /\ copies'[x] = copies[x] /\ grounds'[x] = grounds[x] + 1
            /\ x \notin Ownerless => InStore(x)' <= InStore(x) + 1
         \/ /\ copies'[x] = copies[x] + 1 /\ grounds'[x] = grounds[x]
            /\ x \notin Ownerless /\ InStore(x)' <= InStore(x) - 1
         \/ /\ copies'[x] = copies[x] + 1 /\ grounds'[x] = grounds[x] + 1
            /\ x \notin Ownerless /\ InStore(x)' <= InStore(x)
  PROVE  Granted(x)'
<1>1. InStore(x) \in Nat /\ InStore(x)' \in Nat BY StoreMoves
<1>2. copies[x] \in Nat /\ grounds[x] \in Nat BY DEF TypeOK
<1>3. copies'[x] <= grounds'[x] BY <1>1, <1>2 DEF Granted
<1>4. x \notin Ownerless => copies'[x] + InStore(x)' <= grounds'[x] BY <1>1, <1>2 DEF Granted
<1> QED BY <1>3, <1>4 DEF Granted

\* A request leaves the grounds of a broadcast it does not put in store alone,
\* or adds one.
LEMMA GrantedService ==
  ASSUME TypeOK, TypeOK', FanOutsAreGranted,
         \/ \E b \in Broadcasts : Create(b) \/ Update(b) \/ TimeArrives(b)
         \/ \E c \in Calls : \/ SendWrite(c) \/ DeleteWrite(c)
                             \/ \E b \in Broadcasts : SendRead(c, b) \/ DeleteRead(c, b)
  PROVE  FanOutsAreGranted'
<1> USE FanoutAssumption
<1>0. ASSUME NEW b \in Broadcasts, UNCHANGED <<run, copies>>,
             \A x \in Broadcasts \ {b} : broadcast'[x] = broadcast[x],
             \/ Grant(b)
             \/ UNCHANGED grounds /\ (broadcast'[b].status \in Accepted => broadcast[b].status \in Accepted)
      PROVE  FanOutsAreGranted'
  <2>1. \A r \in Runs : Owned(r)' BY <1>0, GrantedParts DEF Owned
  <2>2. ASSUME NEW x \in Broadcasts PROVE Granted(x)'
    <3>1. Holders(x)' \subseteq Holders(x) BY <1>0 DEF Holders, Holds
    <3>2. Granted(x) BY GrantedParts
    <3>3. \A r \in Runs : Unmarked(r, x)' <=> Unmarked(r, x) BY <1>0 DEF Unmarked
    <3>4. CASE Grant(b) /\ x = b
      <4>1. grounds'[x] = grounds[x] + 1 BY <3>4 DEF Grant, TypeOK
      <4> QED BY <1>0, <3>1, <3>2, <4>1, StoreMoves, StaysGranted
    <3>5. CASE ~Grant(b) \/ x # b
      <4>1. grounds'[x] = grounds[x] BY <1>0, <3>5 DEF Grant, TypeOK
      <4>2. broadcast'[x].status \in Accepted => broadcast[x].status \in Accepted BY <1>0, <3>5
      <4>3. Available(x)' => Available(x) BY <3>3, <4>2 DEF Available
      <4> QED BY <1>0, <3>1, <3>2, <4>1, <4>3, StoreMoves, StaysGranted
    <3> QED BY <3>4, <3>5
  <2>3. (\A b2 \in Broadcasts : Granted(b2)') /\ (\A r \in Runs : Owned(r)') BY <2>1, <2>2
  <2> QED BY <2>3, GrantedPartsNext
<1>1. ASSUME NEW b \in Broadcasts, Create(b) PROVE FanOutsAreGranted'
  <2>1. \A x \in Broadcasts \ {b} : broadcast'[x] = broadcast[x] BY <1>1 DEF Create, TypeOK
  <2>2. Grant(b) \/ (UNCHANGED grounds /\ broadcast'[b].status \notin Accepted)
    BY <1>1 DEF Create, TypeOK, Accepted
  <2> QED BY <1>0, <1>1, <2>1, <2>2 DEF Create
<1>2. ASSUME NEW b \in Broadcasts, Update(b) PROVE FanOutsAreGranted'
  <2>1. \A x \in Broadcasts \ {b} : broadcast'[x] = broadcast[x] BY <1>2 DEF Update, TypeOK
  <2>2. \/ Grant(b)
        \/ UNCHANGED grounds /\ (broadcast'[b].status \in Accepted => broadcast[b].status \in Accepted)
    BY <1>2 DEF Update, TypeOK
  <2> QED BY <1>0, <1>2, <2>1, <2>2 DEF Update
<1>3. ASSUME NEW b \in Broadcasts, TimeArrives(b) PROVE FanOutsAreGranted'
  <2>1. /\ \A x \in Broadcasts \ {b} : broadcast'[x] = broadcast[x]
        /\ broadcast'[b].status = broadcast[b].status
    BY <1>3 DEF TimeArrives, TypeOK
  <2> QED BY <1>0, <1>3, <2>1 DEF TimeArrives
<1>4. ASSUME NEW c \in Calls, NEW b \in Broadcasts, SendRead(c, b) \/ DeleteRead(c, b)
      PROVE  FanOutsAreGranted'
  BY <1>0, <1>4 DEF SendRead, DeleteRead
<1>5. ASSUME NEW c \in Calls, SendWrite(c) PROVE FanOutsAreGranted'
  <2>1. call[c].on \in Broadcasts BY <1>5 DEF SendWrite, TypeOK
  <2>2. \A x \in Broadcasts \ {call[c].on} : broadcast'[x] = broadcast[x]
    BY <1>5, <2>1 DEF SendWrite, TypeOK
  <2> QED BY <1>0, <1>5, <2>1, <2>2 DEF SendWrite
<1>6. ASSUME NEW c \in Calls, DeleteWrite(c) PROVE FanOutsAreGranted'
  <2>1. call[c].on \in Broadcasts BY <1>6 DEF DeleteWrite, TypeOK
  <2>2. broadcast'[call[c].on].status \notin Accepted
    BY <1>6, <2>1, StatusWritten DEF DeleteWrite, Accepted
  <2> QED BY <1>0, <1>6, <2>1, <2>2, StatusWritten DEF DeleteWrite
<1> QED BY <1>1, <1>2, <1>3, <1>4, <1>5, <1>6

\* The runs that do not move keep what they own; the one that moves has to.
LEMMA StaysOwned ==
  ASSUME FanOutsAreGranted, NEW r \in Runs, \A q \in Runs \ {r} : run'[q] = run[q], Owned(r)'
  PROVE  \A q \in Runs : Owned(q)'
  BY GrantedParts DEF Owned

\* A run that goes on to its next row, or ends, has the row in hand no more.
LEMMA Leaving ==
  ASSUME TypeOK, FanOutsAreGranted, NEW r \in Runs, NextRow(r) \/ Drop(r)
  PROVE  /\ \A q \in Runs \ {r} : run'[q] = run[q]
         /\ run'[r].pc \in {"idle", "next"} /\ run'[r].held = None
         /\ run'[r].batch \in {run[r].batch, {}}
         /\ NextRow(r) => run'[r].batch = run[r].batch
         /\ Drop(r) => run'[r].batch = {}
         /\ run[r].held \notin run'[r].batch /\ None \notin run'[r].batch
<1>1. run[r].batch \subseteq Broadcasts /\ run[r].held \notin run[r].batch
  BY DEF TypeOK, FanOutsAreGranted
<1>2. CASE NextRow(r)
  <2>1. run'[r] = [pc |-> IF run[r].batch = {} THEN "idle" ELSE "next", batch |-> run[r].batch, held |-> None]
    BY <1>2 DEF NextRow, TypeOK
  <2>2. \A q \in Runs \ {r} : run'[q] = run[q] BY <1>2 DEF NextRow, TypeOK
  <2>3. Drop(r) => run'[r].batch = {} BY DEF Drop, Idle, TypeOK
  <2> QED BY <1>1, <2>1, <2>2, <2>3, FanoutAssumption
<1>3. CASE Drop(r)
  <2>1. run'[r] = Idle /\ \A q \in Runs \ {r} : run'[q] = run[q] BY <1>3 DEF Drop, TypeOK
  <2>2. NextRow(r) => run'[r].batch = run[r].batch BY DEF NextRow, TypeOK
  <2> QED BY <1>1, <2>1, <2>2 DEF Idle
<1> QED BY <1>2, <1>3

\* A run that keeps its row in hand.
LEMMA Keeping ==
  ASSUME TypeOK, NEW r \in Runs, NEW pc, GoTo(r, pc)
  PROVE  /\ \A q \in Runs \ {r} : run'[q] = run[q]
         /\ run'[r].pc = pc /\ run'[r].batch = run[r].batch /\ run'[r].held = run[r].held
         /\ \A x \in Broadcasts : Holds(r, x)' <=> Holds(r, x)
  BY DEF GoTo, TypeOK, Holds

\* Steps of a run that neither fan out nor select: what the run lets go of is
\* the only thing it may put back in store.
LEMMA QuietRun ==
  ASSUME TypeOK, TypeOK', FanOutsAreGranted, NEW r \in Runs,
         UNCHANGED <<copies, grounds>>,
         \A q \in Runs \ {r} : run'[q] = run[q], Owned(r)',
         \A x \in Broadcasts \ Ownerless :
           /\ Holds(r, x)' => Holds(r, x)
           /\ \/ Holds(r, x) /\ ~Holds(r, x)'
              \/ broadcast'[x].status \notin Accepted
              \/ /\ broadcast'[x].status \in Accepted => broadcast[x].status \in Accepted
                 /\ Unmarked(r, x) => Unmarked(r, x)'
  PROVE  FanOutsAreGranted'
<1>1. ASSUME NEW x \in Broadcasts PROVE Granted(x)'
  <2>1. ASSUME x \notin Ownerless PROVE InStore(x)' <= InStore(x)
    <3>1. Holders(x)' \subseteq Holders(x) BY <2>1, OneMoves
    <3>2. CASE Holds(r, x) /\ ~Holds(r, x)'
      <4>1. r \in Holders(x) /\ Holders(x)' \subseteq Holders(x) \ {r} BY <3>2, OneMoves
      <4> QED BY <4>1, StoreMoves
    <3>3. CASE Available(x)' => Available(x) BY <3>1, <3>3, StoreMoves
    <3> QED BY <2>1, <3>2, <3>3, OneMoves
  <2>2. Granted(x) BY GrantedParts
  <2> QED BY <2>1, <2>2, StaysGranted
<1> QED BY <1>1, StaysOwned, GrantedPartsNext

\* A selection pays for what another run has selected and not yet marked.
LEMMA SelectGranted ==
  ASSUME TypeOK, TypeOK', FanOutsAreGranted, NEW r \in Runs, Select(r)
  PROVE  FanOutsAreGranted'
<1>1. PICK batch \in SUBSET Broadcasts :
        /\ \A x \in batch : broadcast[x].status \in Accepted
        /\ run' = [run EXCEPT ![r] = [pc |-> "next", batch |-> batch, held |-> None]]
        /\ grounds' = [b \in Broadcasts |->
             grounds[b] + IF b \in batch /\ \E q \in Runs : Unmarked(q, b) THEN 1 ELSE 0]
  BY DEF Select, Pending
<1>2. run'[r] = [pc |-> "next", batch |-> batch, held |-> None] BY <1>1 DEF TypeOK
<1>3. \A q \in Runs \ {r} : run'[q] = run[q] BY <1>1 DEF TypeOK
<1>4. UNCHANGED <<broadcast, copies>> BY DEF Select
<1>5. run[r] = Idle BY DEF Select
<1>6. Owned(r)' BY <1>2, FanoutAssumption DEF Owned
<1>7. ASSUME NEW x \in Broadcasts PROVE Granted(x)'
  <2>1. Granted(x) BY GrantedParts
  <2>2. grounds[x] \in Nat BY DEF TypeOK
  <2>3. CASE x \notin batch
    <3>1. ~Holds(r, x)' BY <1>2, <2>3, FanoutAssumption DEF Holds
    <3>2. ~Unmarked(r, x) BY <1>5, FanoutAssumption DEF Unmarked, Idle
    <3>3. Holders(x)' \subseteq Holders(x) /\ (Available(x)' => Available(x))
      BY <1>3, <1>4, <3>1, <3>2, OneMoves
    <3>4. InStore(x)' <= InStore(x) BY <3>3, StoreMoves
    <3>5. grounds'[x] = grounds[x] BY <1>1, <2>2, <2>3
    <3> QED BY <1>4, <2>1, <3>4, <3>5, StaysGranted
  <2>4. CASE x \in batch
    <3>1. Unmarked(r, x)' BY <1>2, <2>4 DEF Unmarked
    <3>2. Holders(x)' \subseteq Holders(x) \cup {r} /\ ~Available(x)' BY <1>3, <3>1, OneMoves
    <3>3. CASE \E q \in Runs : Unmarked(q, x)
      <4>1. grounds'[x] = grounds[x] + 1 BY <1>1, <2>4, <3>3
      <4>2. InStore(x)' <= InStore(x) + 1 BY <3>2, StoreMoves
      <4> QED BY <1>4, <2>1, <4>1, <4>2, StaysGranted
    <3>4. CASE ~\E q \in Runs : Unmarked(q, x)
      <4>1. grounds'[x] = grounds[x] BY <1>1, <2>2, <3>4
      <4>2. Available(x) BY <1>1, <2>4, <3>4 DEF Available
      <4>3. InStore(x)' <= InStore(x) BY <3>2, <4>2, StoreMoves
      <4> QED BY <1>4, <2>1, <4>1, <4>3, StaysGranted
    <3> QED BY <3>3, <3>4
  <2> QED BY <2>3, <2>4
<1> QED BY <1>3, <1>6, <1>7, StaysOwned, GrantedPartsNext

\* A fan-out uses up the ground of the broadcast in hand, or brings its own.
LEMMA FanOutGranted ==
  ASSUME TypeOK, TypeOK', FanOutsAreGranted, NEW r \in Runs, FanOut(r) \/ FanOutUnacknowledged(r)
  PROVE  FanOutsAreGranted'
<1>0. run[r].held \in Broadcasts BY DEF FanOut, FanOutUnacknowledged, TypeOK, Steps
<1>1. PICK b \in Broadcasts : b = run[r].held BY <1>0
<1>2. b \notin Ownerless BY <1>1 DEF FanOut, FanOutUnacknowledged, FanOutsAreGranted
<1>3. SetStatus(b, "sent") BY <1>1 DEF FanOut, FanOutUnacknowledged
<1>4. /\ copies'[b] = copies[b] + 1 /\ \A x \in Broadcasts \ {b} : copies'[x] = copies[x]
  BY <1>1 DEF FanOut, FanOutUnacknowledged, TypeOK
<1>5. broadcast'[b].status \notin Accepted BY <1>3, StatusWritten DEF Accepted
<1>6. \A x \in Broadcasts \ {b} : broadcast'[x] = broadcast[x] BY <1>3, StatusWritten
<1>7. r \in Holders(b) BY <1>1 DEF Holders, Holds
<1>8. CASE FanOut(r)
  <2>1. NextRow(r) /\ UNCHANGED grounds BY <1>8 DEF FanOut
  <2>2. \A q \in Runs \ {r} : run'[q] = run[q] BY <2>1, Leaving
  <2>3. /\ run'[r].pc \in {"idle", "next"} /\ run'[r].held = None
        /\ run'[r].batch = run[r].batch /\ b \notin run'[r].batch /\ None \notin run'[r].batch
    BY <1>1, <2>1, Leaving
  <2>4. Owned(r)' BY <2>3 DEF Owned
  <2>5. Granted(b)'
    <3>1. ~Holds(r, b)' BY <2>3, FanoutAssumption DEF Holds
    <3>2. Holders(b)' \subseteq Holders(b) \ {r} /\ ~Available(b)' BY <1>5, <2>2, <3>1, OneMoves
    <3>3. InStore(b)' <= InStore(b) - 1 BY <1>7, <3>2, StoreMoves
    <3>4. Granted(b) BY GrantedParts
    <3> QED BY <1>2, <1>4, <2>1, <3>3, <3>4, StaysGranted
  <2>6. ASSUME NEW x \in Broadcasts \ {b} PROVE Granted(x)'
    <3>1. (Holds(r, x)' => Holds(r, x)) /\ (Unmarked(r, x) => Unmarked(r, x)')
      BY <1>1, <2>3, FanoutAssumption DEF Holds, Unmarked
    <3>2. Holders(x)' \subseteq Holders(x) /\ (Available(x)' => Available(x))
      BY <1>6, <2>2, <3>1, OneMoves
    <3>3. InStore(x)' <= InStore(x) BY <3>2, StoreMoves
    <3>4. Granted(x) BY GrantedParts
    <3> QED BY <1>4, <2>1, <3>3, <3>4, StaysGranted
  <2> QED BY <2>2, <2>4, <2>5, <2>6, StaysOwned, GrantedPartsNext
<1>9. CASE FanOutUnacknowledged(r)
  <2>1. GoTo(r, "requeue") /\ Grant(b) BY <1>1, <1>9 DEF FanOutUnacknowledged
  <2>2. /\ \A q \in Runs \ {r} : run'[q] = run[q]
        /\ run'[r].pc = "requeue" /\ run'[r].batch = run[r].batch /\ run'[r].held = run[r].held
        /\ \A x \in Broadcasts : Holds(r, x)' <=> Holds(r, x)
    BY <2>1, Keeping
  <2>3. Owned(r)' BY <2>2, GrantedParts DEF Owned
  <2>4. grounds'[b] = grounds[b] + 1 /\ \A x \in Broadcasts \ {b} : grounds'[x] = grounds[x]
    BY <2>1 DEF Grant, TypeOK
  <2>5. Granted(b)'
    <3>1. Holders(b)' \subseteq Holders(b) /\ ~Available(b)' BY <1>5, <2>2, OneMoves
    <3>2. InStore(b)' <= InStore(b) BY <3>1, StoreMoves
    <3>3. Granted(b) BY GrantedParts
    <3> QED BY <1>2, <1>4, <2>4, <3>2, <3>3, StaysGranted
  <2>6. ASSUME NEW x \in Broadcasts \ {b} PROVE Granted(x)'
    <3>1. Unmarked(r, x) => Unmarked(r, x)' BY <1>1, <2>2 DEF Unmarked
    <3>2. Holders(x)' \subseteq Holders(x) /\ (Available(x)' => Available(x))
      BY <1>6, <2>2, <3>1, OneMoves
    <3>3. InStore(x)' <= InStore(x) BY <3>2, StoreMoves
    <3>4. Granted(x) BY GrantedParts
    <3> QED BY <1>4, <2>4, <3>3, <3>4, StaysGranted
  <2> QED BY <2>2, <2>3, <2>5, <2>6, StaysOwned, GrantedPartsNext
<1> QED BY <1>8, <1>9

\* No step of a run puts in store what is not granted.
LEMMA GrantedRuns ==
  ASSUME TypeOK, TypeOK', FanOutsAreGranted, NEW r \in Runs,
         \/ Work(r) \/ FanOutUnacknowledged(r) \/ StepFails(r) \/ StepUnanswered(r)
         \/ RequeueFails(r) \/ Crash(r)
  PROVE  FanOutsAreGranted'
<1> USE FanoutAssumption
<1>0. run[r].pc \in Steps \cup {"requeue"} => run[r].held \in Broadcasts BY DEF TypeOK
<1>1. ASSUME NEW b \in Broadcasts, TakeRow(r, b) PROVE FanOutsAreGranted'
  <2>1. run'[r] = [pc |-> "mark", batch |-> run[r].batch \ {b}, held |-> b] BY <1>1 DEF TakeRow, TypeOK
  <2>2. \A q \in Runs \ {r} : run'[q] = run[q] BY <1>1 DEF TakeRow, TypeOK
  <2>3. UNCHANGED <<broadcast, copies, grounds>> /\ b \in run[r].batch /\ run[r].pc = "next"
    BY <1>1 DEF TakeRow
  <2>4. \A x \in Broadcasts : (Holds(r, x)' => Holds(r, x)) /\ (Unmarked(r, x) => Unmarked(r, x)')
    BY <2>1, <2>3 DEF Holds, Unmarked
  <2>5. Owned(r)' BY <2>1 DEF Owned
  <2> QED BY <2>2, <2>3, <2>4, <2>5, QuietRun
<1>2. CASE MarkSending(r) \/ StepUnanswered(r)
  <2>0. PICK pc \in {"resolve", "requeue"}, s \in {"sending", "failed", "blocked_billing"} :
          GoTo(r, pc) /\ SetStatus(run[r].held, s)
    BY <1>2 DEF MarkSending, StepUnanswered
  <2>1. run[r].held \in Broadcasts BY <1>0, <1>2 DEF MarkSending, StepUnanswered, Steps
  <2>2. GoTo(r, pc) /\ SetStatus(run[r].held, s) /\ UNCHANGED <<copies, grounds>>
    BY <1>2, <2>0 DEF MarkSending, StepUnanswered
  <2>3. /\ \A q \in Runs \ {r} : run'[q] = run[q]
        /\ run'[r].pc = pc /\ run'[r].batch = run[r].batch /\ run'[r].held = run[r].held
        /\ \A x \in Broadcasts : Holds(r, x)' <=> Holds(r, x)
    BY <2>2, Keeping
  <2>4. Owned(r)' BY <2>3, GrantedParts DEF Owned
  <2>5. broadcast'[run[r].held].status \notin Accepted BY <2>1, <2>2, StatusWritten DEF Accepted
  <2>6. \A x \in Broadcasts \ {run[r].held} :
          broadcast'[x] = broadcast[x] /\ (Unmarked(r, x) => Unmarked(r, x)')
    BY <2>1, <2>2, <2>3, StatusWritten DEF Unmarked
  <2> QED BY <2>2, <2>3, <2>4, <2>5, <2>6, QuietRun
<1>3. CASE ResolveAudience(r) \/ RefuseQuota(r) \/ StepFails(r)
  <2>1. PICK pc \in {"fanout", "blocked", "requeue"} :
          GoTo(r, pc) /\ (pc \in {"fanout", "blocked"} => run[r].held \notin Ownerless)
                      /\ (pc # "requeue" => run[r].pc \in {"resolve", "fanout"})
    BY <1>3 DEF ResolveAudience, RefuseQuota, StepFails, FanOutsAreGranted
  <2>2. UNCHANGED <<broadcast, copies, grounds>> BY <1>3 DEF ResolveAudience, RefuseQuota, StepFails
  <2>3. /\ \A q \in Runs \ {r} : run'[q] = run[q]
        /\ run'[r].pc = pc /\ run'[r].batch = run[r].batch /\ run'[r].held = run[r].held
        /\ \A x \in Broadcasts : Holds(r, x)' <=> Holds(r, x)
    BY <2>1, Keeping
  <2>4. Owned(r)' BY <2>1, <2>3, GrantedParts DEF Owned
  <2>5. \A x \in Broadcasts : Unmarked(r, x) => Unmarked(r, x)' BY <2>1, <2>3 DEF Unmarked
  <2> QED BY <2>2, <2>3, <2>4, <2>5, QuietRun
<1>4. CASE FailOwnerless(r) \/ MarkBlocked(r) \/ Requeue(r)
  <2>0. run[r].held \in Broadcasts
    BY <1>0, <1>4 DEF FailOwnerless, MarkBlocked, Requeue, Steps
  <2>1. PICK b \in Broadcasts : b = run[r].held BY <2>0
  <2>2. NextRow(r) /\ UNCHANGED <<copies, grounds>> BY <1>4 DEF FailOwnerless, MarkBlocked, Requeue
  <2>3. PICK s \in {"failed", "blocked_billing", "queued"} : SetStatus(b, s)
    BY <1>4, <2>1 DEF FailOwnerless, MarkBlocked, Requeue
  <2>4. /\ run'[r].pc \in {"idle", "next"} /\ run'[r].held = None /\ run'[r].batch = run[r].batch
        /\ b \notin run'[r].batch /\ None \notin run'[r].batch
        /\ \A q \in Runs \ {r} : run'[q] = run[q]
    BY <2>1, <2>2, Leaving
  <2>5. Owned(r)' BY <2>4 DEF Owned
  <2>6. Holds(r, b) /\ ~Holds(r, b)' BY <2>1, <2>4 DEF Holds
  <2>7. \A x \in Broadcasts \ {b} :
          /\ broadcast'[x] = broadcast[x]
          /\ Unmarked(r, x) => Unmarked(r, x)'
          /\ Holds(r, x)' => Holds(r, x)
    BY <2>1, <2>3, <2>4, StatusWritten DEF Unmarked, Holds
  <2> QED BY <2>2, <2>4, <2>5, <2>6, <2>7, QuietRun
<1>5. CASE RequeueFails(r) \/ Crash(r)
  <2>1. Drop(r) /\ UNCHANGED <<broadcast, copies, grounds>> BY <1>5 DEF RequeueFails, Crash
  <2>2. /\ run'[r].pc \in {"idle", "next"} /\ run'[r].held = None /\ run'[r].batch = {}
        /\ \A q \in Runs \ {r} : run'[q] = run[q]
    BY <2>1, Leaving
  <2>3. Owned(r)' BY <2>2 DEF Owned
  <2>4. \A x \in Broadcasts : ~Holds(r, x)' /\ (Unmarked(r, x) => Holds(r, x))
    BY <2>2 DEF Holds, Unmarked
  <2> QED BY <2>1, <2>2, <2>3, <2>4, QuietRun
<1> QED BY <1>1, <1>2, <1>3, <1>4, <1>5, SelectGranted, FanOutGranted DEF Work

\* However many runs overlap, fail, crash and are started again, a broadcast
\* goes out at most once for every send accepted, edit that puts it back, lost
\* commit and selection beside another.
THEOREM CopiesGrounded == Spec => []CopiesHaveGrounds
<1>1. Init => FanOutsAreGranted
  <2> SUFFICES ASSUME Init PROVE FanOutsAreGranted
    OBVIOUS
  <2>1. \A b \in Broadcasts : /\ copies[b] = 0 /\ grounds[b] = 0
                              /\ b \notin Ownerless => broadcast[b].status \notin Accepted
    BY DEF Init, Accepted
  <2>2. \A q \in Runs : run[q].pc = "idle" /\ run[q].batch = {} /\ run[q].held = None
    BY DEF Init, Idle
  <2> HIDE DEF Init
  <2>3. CopiesHaveGrounds BY <2>1, 0 <= 0 DEF CopiesHaveGrounds
  <2>4. ASSUME NEW b \in Broadcasts \ Ownerless PROVE copies[b] + InStore(b) <= grounds[b]
    <3>1. Holders(b) = {} BY <2>2, FanoutAssumption DEF Holders, Holds
    <3>2. Cardinality(Holders(b)) = 0 BY <3>1, FS_EmptySet
    <3>3. ~Available(b) BY <2>1 DEF Available
    <3>4. InStore(b) = 0 BY <3>2, <3>3 DEF InStore
    <3> QED BY <2>1, <3>4
  <2> QED BY <2>2, <2>3, <2>4 DEF FanOutsAreGranted
<1>2. TypeOK /\ TypeOK' /\ FanOutsAreGranted /\ [Next]_vars => FanOutsAreGranted'
  <2> SUFFICES ASSUME TypeOK, TypeOK', FanOutsAreGranted, [Next]_vars PROVE FanOutsAreGranted'
    OBVIOUS
  <2>1. CASE Next BY <2>1, GrantedService, GrantedRuns DEF Next
  <2>2. CASE UNCHANGED vars
    <3>1. \A b \in Broadcasts : Holders(b)' = Holders(b) /\ (Available(b)' <=> Available(b))
      BY <2>2 DEF vars, Holders, Holds, Available, Unmarked
    <3>2. \A b \in Broadcasts : InStore(b)' = InStore(b) BY <3>1 DEF InStore
    <3> QED BY <2>2, <3>2 DEF vars, FanOutsAreGranted, CopiesHaveGrounds
  <2> QED BY <2>1, <2>2
<1>3. FanOutsAreGranted => CopiesHaveGrounds BY DEF FanOutsAreGranted
<1> QED BY TypeCorrect, <1>1, <1>2, <1>3, PTL DEF Spec

=============================================================================
