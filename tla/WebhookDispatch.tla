---------------------------- MODULE WebhookDispatch ----------------------------
(***************************************************************************)
(* Delivery of webhook events: the WebhookDispatcher of the ingester, run  *)
(* by the one-minute scan, by queued webhook.dispatch jobs and by the      *)
(* replay API, over rows of webhook_deliveries that nothing locks.         *)
(*                                                                         *)
(* Every action is one database statement, one queue call or one POST.  A  *)
(* retry time is unset ("none"), ahead ("future") or reached ("due").      *)
(***************************************************************************)
EXTENDS Integers, FiniteSets

CONSTANTS
  Deliveries,       \* webhook_deliveries rows
  Dispatchers,      \* concurrent callers of the dispatcher
  QueueConfigured,  \* webhook.dispatch jobs are published to SQS
  MaxAttempts,      \* maxAttempts of the dispatcher
  ScanLimit,        \* rows one scan loads
  MaxCrashes,       \* bound on process crashes
  MaxFaults,        \* bound on failing database and queue calls
  MaxOverruns,      \* bound on jobs redelivered while being worked on
  None              \* no delivery

ASSUME DispatchAssumption ==
  /\ QueueConfigured \in BOOLEAN
  /\ MaxAttempts \in Nat \ {0} /\ ScanLimit \in Nat \ {0}
  /\ MaxCrashes \in Nat /\ MaxFaults \in Nat /\ MaxOverruns \in Nat
  /\ None \notin Deliveries

VARIABLES
  delivery,  \* webhook_deliveries: status, attempt, next_retry_at
  active,    \* the status of the deliveries' endpoint is "active"
  jobs,      \* deliveries with a webhook.dispatch message on the queue
  pc,        \* per dispatcher: where dispatchDelivery stands
  todo,      \* per dispatcher: loaded rows left to dispatch
  job,       \* per dispatcher: delivery of the queued job it serves
  at,        \* per dispatcher: delivery in hand, attempt read, answer seen
  tries,     \* history: calls of safeOutboundFetch for a delivery
  oks,       \* history: 2xx answers received for a delivery
  spent      \* how much of each bound is used up

vars == <<delivery, active, jobs, pc, todo, job, at, tries, oks, spent>>

Faults  == {"crash", "fault", "overrun"}
Idle    == [row |-> None, attempt |-> 0, answer |-> "none"]
RowType == [status: {"absent", "pending", "success", "failed", "dead_letter"},
            attempt: Nat, retry: {"none", "future", "due"}]
AtType  == [row: Deliveries \cup {None}, attempt: Nat,
            answer: {"none", "ok", "refused", "error", "disabled", "unsafe"}]
InHand  == {"post", "record", "terminal"}

RowsOK        == /\ delivery \in [Deliveries -> RowType] /\ active \in BOOLEAN
                 /\ jobs \subseteq Deliveries
DispatchersOK ==
  /\ pc \in [Dispatchers -> {"idle", "next", "ack"} \cup InHand]
  /\ todo \in [Dispatchers -> SUBSET Deliveries]
  /\ job \in [Dispatchers -> Deliveries \cup {None}]
  /\ at \in [Dispatchers -> AtType]
  /\ \A d \in Dispatchers : /\ pc[d] \in InHand => at[d].row \in Deliveries
                            /\ pc[d] = "ack" => job[d] \in Deliveries
HistoryOK     == /\ tries \in [Deliveries -> Nat] /\ oks \in [Deliveries -> Nat]
                 /\ spent \in [Faults -> Nat]

TypeOK == RowsOK /\ DispatchersOK /\ HistoryOK

Init ==
  /\ delivery = [v \in Deliveries |-> [status |-> "absent", attempt |-> 0, retry |-> "none"]]
  /\ active = TRUE /\ jobs = {}
  /\ pc = [d \in Dispatchers |-> "idle"]
  /\ todo = [d \in Dispatchers |-> {}]
  /\ job = [d \in Dispatchers |-> None]
  /\ at = [d \in Dispatchers |-> Idle]
  /\ tries = [v \in Deliveries |-> 0]
  /\ oks = [v \in Deliveries |-> 0]
  /\ spent = [f \in Faults |-> 0]

-----------------------------------------------------------------------------
Limit(f) == CASE f = "crash" -> MaxCrashes [] f = "fault" -> MaxFaults [] f = "overrun" -> MaxOverruns
Spend(f) == spent[f] < Limit(f) /\ spent' = [spent EXCEPT ![f] = @ + 1]

Pending == [status |-> "pending", attempt |-> 0, retry |-> "none"]
Exists(v) == delivery[v].status # "absent"

\* Mutated forms, each a bug this code could plausibly have, stand right before
\* the definition they are forms of; no specification uses them.
Dispatchable_NewOnly(v) == delivery[v].status = "pending" /\ delivery[v].retry = "none"

\* findDispatchable: pending rows whose retry time is unset or reached; rows
\* with a retry time sort first, NULL last, and the scan takes ScanLimit rows.
Dispatchable(v) == delivery[v].status = "pending" /\ delivery[v].retry # "future"

Loadable(batch) ==
  LET due == {v \in Deliveries : Dispatchable(v)} IN
  /\ batch # {} /\ batch \subseteq due
  /\ Cardinality(batch) <= ScanLimit
  /\ Cardinality(batch) < ScanLimit => batch = due
  /\ (\E v \in batch : delivery[v].retry = "none") =>
       \A v \in due : delivery[v].retry = "due" => v \in batch

\* Back to the loop over the loaded rows, and out of it after the last one.
Return(d) ==
  /\ at' = [at EXCEPT ![d] = Idle]
  /\ pc' = [pc EXCEPT ![d] = IF todo[d] # {} THEN "next" ELSE IF job[d] # None THEN "ack" ELSE "idle"]
  /\ UNCHANGED <<todo, job>>

\* An exception leaves the loop: the rest of the scan is dropped, and a job's
\* message stays on the queue.
Abandon(d) ==
  /\ at' = [at EXCEPT ![d] = Idle]
  /\ pc' = [pc EXCEPT ![d] = "idle"]
  /\ todo' = [todo EXCEPT ![d] = {}]
  /\ job' = [job EXCEPT ![d] = None]

Write(v, status, attempt, retry) ==
  delivery' = [delivery EXCEPT ![v] = [status |-> status, attempt |-> attempt, retry |-> retry]]

-----------------------------------------------------------------------------
(* Rows and jobs arrive; the endpoint is switched on and off *)

\* enqueue, then publishBackgroundJob, which may fail.
Enqueue(v) ==
  /\ ~Exists(v)
  /\ delivery' = [delivery EXCEPT ![v] = Pending]
  /\ \/ IF QueueConfigured THEN jobs' = jobs \cup {v} /\ UNCHANGED spent
                           ELSE UNCHANGED <<jobs, spent>>
     \/ QueueConfigured /\ Spend("fault") /\ UNCHANGED jobs
  /\ UNCHANGED <<active, pc, todo, job, at, tries, oks>>

\* replayWebhookDelivery: a new row, dispatched by the request itself.  The
\* delivery it repeats may be one that came before those modelled.
Replay(d, v) ==
  /\ pc[d] = "idle" /\ active /\ ~Exists(v)
  /\ delivery' = [delivery EXCEPT ![v] = Pending]
  /\ todo' = [todo EXCEPT ![d] = {v}]
  /\ pc' = [pc EXCEPT ![d] = "next"]
  /\ UNCHANGED <<active, jobs, job, at, tries, oks, spent>>

SwitchEndpoint ==
  /\ active' = ~active
  /\ UNCHANGED <<delivery, jobs, pc, todo, job, at, tries, oks, spent>>

RetryArrives(v) ==
  /\ delivery[v].retry = "future"
  /\ delivery' = [delivery EXCEPT ![v].retry = "due"]
  /\ UNCHANGED <<active, jobs, pc, todo, job, at, tries, oks, spent>>

-----------------------------------------------------------------------------
(* dispatchPendingDeliveries and the queued job *)

StartScan(d) ==
  /\ pc[d] = "idle"
  /\ \E batch \in SUBSET Deliveries : Loadable(batch) /\ todo' = [todo EXCEPT ![d] = batch]
  /\ pc' = [pc EXCEPT ![d] = "next"]
  /\ UNCHANGED <<delivery, active, jobs, job, at, tries, oks, spent>>

\* A job's message is hidden from others while a worker has it, unless its
\* visibility timeout ends first.
StartJob(d, v) ==
  /\ pc[d] = "idle" /\ v \in jobs
  /\ IF \E e \in Dispatchers : job[e] = v THEN Spend("overrun") ELSE UNCHANGED spent
  /\ todo' = [todo EXCEPT ![d] = {v}]
  /\ job' = [job EXCEPT ![d] = v]
  /\ pc' = [pc EXCEPT ![d] = "next"]
  /\ UNCHANGED <<delivery, active, jobs, at, tries, oks>>

\* dispatchDelivery reads the row and its endpoint; the row's status is not
\* looked at again.
Load(d, v) ==
  /\ pc[d] = "next" /\ v \in todo[d]
  /\ at' = [at EXCEPT ![d] = [row |-> v, attempt |-> delivery[v].attempt,
                              answer |-> IF active THEN "none" ELSE "disabled"]]
  /\ todo' = [todo EXCEPT ![d] = @ \ {v}]
  /\ pc' = [pc EXCEPT ![d] = IF active THEN "post" ELSE "terminal"]
  /\ UNCHANGED <<delivery, active, jobs, job, tries, oks, spent>>

\* The POST: a 2xx answer, another answer, or an error or timeout.
Post(d) ==
  LET v == at[d].row IN
  /\ pc[d] = "post"
  /\ \E answer \in {"ok", "refused", "error"} :
       /\ at' = [at EXCEPT ![d].answer = answer]
       /\ oks' = [oks EXCEPT ![v] = IF answer = "ok" THEN @ + 1 ELSE @]
  /\ tries' = [tries EXCEPT ![v] = @ + 1]
  /\ pc' = [pc EXCEPT ![d] = "record"]
  /\ UNCHANGED <<delivery, active, jobs, todo, job, spent>>

\* safeOutboundFetch refuses the URL: no request is made.
RefuseUnsafe(d) ==
  /\ pc[d] = "post"
  /\ at' = [at EXCEPT ![d].answer = "unsafe"]
  /\ tries' = [tries EXCEPT ![at[d].row] = @ + 1]
  /\ pc' = [pc EXCEPT ![d] = "terminal"]
  /\ UNCHANGED <<delivery, active, jobs, todo, job, oks, spent>>

Outcome_BuriedEarly(n, answer) ==
  IF answer = "ok" THEN "success" ELSE IF n + 1 >= MaxAttempts THEN "dead_letter" ELSE "pending"

\* The status after attempt n.
Outcome(n, answer) ==
  IF answer = "ok" THEN "success" ELSE IF n >= MaxAttempts THEN "dead_letter" ELSE "pending"

\* The unconditional update with the number read before the POST.
WriteOutcome(d) ==
  LET n == at[d].attempt + 1
      status == Outcome(n, at[d].answer)
  IN
  Write(at[d].row, status, n, IF status = "pending" THEN "future" ELSE "none")

Record(d) ==
  /\ pc[d] = "record" /\ WriteOutcome(d) /\ Return(d)
  /\ UNCHANGED <<active, jobs, tries, oks, spent>>

\* markTerminal.
MarkTerminal(d) ==
  /\ pc[d] = "terminal"
  /\ Write(at[d].row, "failed", at[d].attempt, "none")
  /\ Return(d)
  /\ UNCHANGED <<active, jobs, tries, oks, spent>>

\* The update throws, before or after it has committed.  Inside the try block the catch block records a failed
\* attempt instead, whatever the answer was; elsewhere the loop is left.
RecordFails(d) ==
  /\ pc[d] \in {"record", "terminal"} /\ Spend("fault")
  /\ \/ UNCHANGED delivery
     \/ pc[d] = "record" /\ WriteOutcome(d)
     \/ pc[d] = "terminal" /\ Write(at[d].row, "failed", at[d].attempt, "none")
  /\ IF at[d].answer \in {"ok", "refused", "unsafe"}
     THEN /\ at' = [at EXCEPT ![d].answer = "error"]
          /\ pc' = [pc EXCEPT ![d] = "record"]
          /\ UNCHANGED <<todo, job>>
     ELSE Abandon(d)
  /\ UNCHANGED <<active, jobs, tries, oks>>

LoadFails(d) ==
  /\ pc[d] = "next" /\ Spend("fault") /\ Abandon(d)
  /\ UNCHANGED <<delivery, active, jobs, tries, oks>>

\* DeleteMessage; if it fails the message comes back.
Ack(d) ==
  /\ pc[d] = "ack" /\ Abandon(d)
  /\ \/ jobs' = jobs \ {job[d]} /\ UNCHANGED spent
     \/ Spend("fault") /\ UNCHANGED jobs
  /\ UNCHANGED <<delivery, active, tries, oks>>

Crash(d) ==
  /\ pc[d] # "idle" /\ Spend("crash") /\ Abandon(d)
  /\ UNCHANGED <<delivery, active, jobs, tries, oks>>

-----------------------------------------------------------------------------
Dispatch(d) ==
  \/ StartScan(d)
  \/ \E v \in Deliveries : StartJob(d, v) \/ Load(d, v)
  \/ Post(d) \/ RefuseUnsafe(d) \/ Record(d) \/ MarkTerminal(d) \/ Ack(d)

Next ==
  \/ \E v \in Deliveries : Enqueue(v) \/ RetryArrives(v)
  \/ SwitchEndpoint
  \/ \E d \in Dispatchers : Dispatch(d) \/ RecordFails(d) \/ LoadFails(d) \/ Crash(d)
  \/ \E d \in Dispatchers, v \in Deliveries : Replay(d, v)

Spec == Init /\ [][Next]_vars

\* Scans are started every minute and dispatchers run on; retry times arrive.
Fairness ==
  /\ \A d \in Dispatchers : WF_vars(Dispatch(d))
  /\ \A v \in Deliveries : WF_vars(RetryArrives(v))

FairSpec == Spec /\ Fairness

-----------------------------------------------------------------------------
(* Properties *)

\* What a row says has happened: it counts no attempt that was not made, it is
\* a success only after a 2xx answer, and a dead letter only after MaxAttempts
\* attempts.  Overlapping dispatchers, redelivered jobs and failing updates
\* lose attempts but never invent them.
RowsAreHonest ==
  \A v \in Deliveries :
    /\ delivery[v].attempt <= tries[v]
    /\ delivery[v].status = "success" => oks[v] > 0
    /\ delivery[v].status = "dead_letter" => tries[v] >= MaxAttempts

\* Why: what a dispatcher is about to write was true of the row it read and of
\* the request it made, whatever others have written since.
HandsAreHonest ==
  \A d \in Dispatchers : pc[d] \in InHand =>
    LET v == at[d].row IN
    /\ at[d].attempt <= tries[v]
    /\ pc[d] = "record" => at[d].answer \notin {"none", "disabled"}
    /\ at[d].answer \notin {"none", "disabled"} => at[d].attempt < tries[v]
    /\ at[d].answer = "ok" => oks[v] > 0

DispatchInvariant == RowsAreHonest /\ HandsAreHonest

\* Every delivery is eventually settled, and settled for good: overlapping
\* dispatchers, stale updates, lost jobs, failing calls and a crash delay this
\* but cannot undo it forever.
DeliverySettles ==
  \A v \in Deliveries : Exists(v) ~> [](delivery[v].status \in {"success", "failed", "dead_letter"})

=============================================================================
