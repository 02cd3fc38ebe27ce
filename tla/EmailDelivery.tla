---------------------------- MODULE EmailDelivery ----------------------------
(***************************************************************************)
(* The life of an email row, from acceptance by the API to its outcome:    *)
(* the API calls that insert, reschedule and cancel it, the scheduled-mail *)
(* scanner, the SQS queue, the ingester's queue workers with their claim,  *)
(* provider hand-off and retry bookkeeping, and the SES feedback that      *)
(* overwrites the row's status.                                            *)
(*                                                                         *)
(* Every action is one atomic unit of the code: one SQL statement or       *)
(* transaction, one queue call or one provider call.  Time is kept as the  *)
(* three cases the guards tell apart: a timestamp is unset ("none"), later *)
(* than now ("future") or reached ("due").                                 *)
(***************************************************************************)
EXTENDS Integers, FiniteSets

CONSTANTS
  Emails,           \* rows of the emails table
  Workers,          \* QueueWorker loops (one per ingester process)
  Scanners,         \* processes that promote due scheduled rows
  Crons,            \* those that do it from the Next.js cron route
  Calls,            \* concurrent API requests
  Msgs,             \* pool of SQS messages; bounds how often a job is published
  QueueConfigured,  \* publishers have BACKGROUND_JOBS_QUEUE_URL (else they skip)
  Pollers,          \* workers without it, which poll the database
  MaxAttempts,      \* providerMaxAttempts
  MaxReceives,      \* maxReceiveCount of the queue's redrive policy (external)
  FeedbackTypes,    \* SES events that change a status
  Ops,              \* API operations offered: "send", "reschedule", "cancel"
  MaxCrashes,       \* bound on process crashes
  MaxFaults,        \* bound on failing DB, SQS and ambiguous provider calls
  MaxOverruns,      \* bound on visibility timeouts expiring during processing
  None              \* no email, no message

ASSUME DeliveryAssumption ==
  /\ QueueConfigured \in BOOLEAN
  /\ IsFiniteSet(Workers) /\ Pollers \subseteq Workers
  /\ Crons \subseteq Scanners
  /\ MaxAttempts \in Nat \ {0}
  /\ MaxReceives \in Nat \ {0}
  /\ MaxCrashes \in Nat /\ MaxFaults \in Nat /\ MaxOverruns \in Nat
  /\ FeedbackTypes \subseteq {"delivered", "bounced", "complained"}
  /\ Ops \subseteq {"send", "reschedule", "cancel"}
  /\ None \notin Emails \cup Msgs

VARIABLES
  row,       \* emails: status, scheduledAt, providerNextRetryAt, providerRetryCount
  events,    \* email_events, by source id
  msg,       \* SQS messages
  pc, job,   \* per worker: where processEmailSend stands, and its job
  scan,      \* per scanner: the row it is handling
  call,      \* per API request: operation, row and step
  accepted,  \* history: provider hand-offs SES took
  lost,      \* history: hand-offs taken whose success the row never learned
  late,      \* history: cron writes of "queued" to a row no longer scheduled
  spent      \* how much of each bound is used up

vars == <<row, events, msg, pc, job, scan, call, accepted, lost, late, spent>>

Statuses == {"absent", "queued", "scheduled", "processing", "sent",
             "delivered", "bounced", "complained", "failed", "canceled"}
Times    == {"none", "future", "due"}

\* Statuses a worker refuses at its first read (getTerminalEmailSkipReason and
\* the canceled check).
Skipped  == {"sent", "delivered", "bounced", "complained", "failed", "canceled"}
Settled(e) == row[e].status \in Skipped

NoJob  == [email |-> None, msg |-> None, rc |-> 0]
NoCall == [op |-> "none", email |-> None, step |-> "idle"]

RowType  == [status: Statuses, sched: Times, retry: Times, attempts: Nat]
MsgType  == [email: Emails \cup {None}, rc: Nat, hold: BOOLEAN,
             state: {"unused", "visible", "inflight", "deleted", "dlq"}]
JobType  == [email: Emails \cup {None}, msg: Msgs \cup {None}, rc: Nat]
ScanType == [email: Emails \cup {None}, step: {"idle", "publish", "mark"}]
CallType == [op: {"none", "send", "reschedule", "cancel"}, email: Emails \cup {None},
             step: {"idle", "publish", "audit", "event", "write"}]
EventIds == ({"dead", "delayed", "unpublished"} \cup FeedbackTypes) \X Emails \X Nat
Pcs      == {"idle", "read", "claim", "domain", "send", "commit", "fail",
             "bury", "delay", "ack", "nack", "stopped"}

RowsOK     == row \in [Emails -> RowType] /\ events \subseteq EventIds
MsgsOK     == /\ msg \in [Msgs -> MsgType]
              /\ \A m \in Msgs : msg[m].state # "unused" => msg[m].email \in Emails
WorkersOK  == /\ pc \in [Workers -> Pcs] /\ job \in [Workers -> JobType]
              /\ \A w \in Workers : pc[w] \notin {"idle", "stopped"} => job[w].email \in Emails
ScannersOK == /\ scan \in [Scanners -> ScanType]
              /\ \A s \in Scanners : scan[s].step # "idle" => scan[s].email \in Emails
CallsOK    == /\ call \in [Calls -> CallType]
              /\ \A c \in Calls : call[c].step # "idle" => call[c].email \in Emails
CountersOK == /\ accepted \in [Emails -> Nat] /\ lost \in [Emails -> Nat]
              /\ late \in [Emails -> Nat]
              /\ spent \in [{"crash", "fault", "overrun"} -> Nat]

TypeOK == RowsOK /\ MsgsOK /\ WorkersOK /\ ScannersOK /\ CallsOK /\ CountersOK

Init ==
  /\ row = [e \in Emails |-> [status |-> "absent", sched |-> "none", retry |-> "none", attempts |-> 0]]
  /\ events = {}
  /\ msg = [m \in Msgs |-> [email |-> None, rc |-> 0, hold |-> FALSE, state |-> "unused"]]
  /\ pc = [w \in Workers |-> "idle"]
  /\ job = [w \in Workers |-> NoJob]
  /\ scan = [s \in Scanners |-> [email |-> None, step |-> "idle"]]
  /\ call = [c \in Calls |-> NoCall]
  /\ accepted = [e \in Emails |-> 0]
  /\ lost = [e \in Emails |-> 0]
  /\ late = [e \in Emails |-> 0]
  /\ spent = [k \in {"crash", "fault", "overrun"} |-> 0]

-----------------------------------------------------------------------------
(* Shared steps *)

Limit(k) == CASE k = "crash" -> MaxCrashes [] k = "fault" -> MaxFaults [] k = "overrun" -> MaxOverruns
Spend(k) == spent[k] < Limit(k) /\ spent' = [spent EXCEPT ![k] = @ + 1]

Goto(w, p)  == pc' = [pc EXCEPT ![w] = p] /\ UNCHANGED job
Finish(w)   == pc' = [pc EXCEPT ![w] = "idle"] /\ job' = [job EXCEPT ![w] = NoJob]
Stop(w)     == pc' = [pc EXCEPT ![w] = "stopped"] /\ job' = [job EXCEPT ![w] = NoJob]

\* Mutated forms, each a bug this code could plausibly have, stand right before
\* the definition they are forms of; no specification uses them.
Claimable_NotProcessing(r)  == r.status # "processing" /\ r.sched # "future" /\ r.retry # "future"
Claimable_NotSettled(r)     == r.status \notin Skipped /\ r.sched # "future" /\ r.retry # "future"

\* claimForSending's predicate; findQueuedForDispatch adds status = "queued".
NotBefore(r) == r.sched # "future" /\ r.retry # "future"
Claimable(r) == /\ r.status = "queued" \/ (r.status = "scheduled" /\ r.sched = "due")
                /\ NotBefore(r)

\* SendMessage: a fresh message becomes visible.
Enqueue(e) == \E m \in Msgs :
  /\ msg[m].state = "unused"
  /\ msg' = [msg EXCEPT ![m] = [email |-> e, rc |-> 0, hold |-> FALSE, state |-> "visible"]]

Live(m)      == msg[m].state \in {"visible", "inflight"}
Kept(m)      == msg[m].state \in {"visible", "inflight", "dlq"}
\* The worker's receipt handle is the one of the latest receive.
Current(w)   == job[w].msg # None /\ msg[job[w].msg].state = "inflight"
                /\ msg[job[w].msg].rc = job[w].rc
Attended(m)  == \E w \in Workers : job[w].msg = m /\ Current(w)

-----------------------------------------------------------------------------
(* API requests *)

\* The transaction that inserts the row, queued or scheduled.
SendInsert(c, e) ==
  /\ "send" \in Ops /\ call[c].step = "idle" /\ row[e].status = "absent"
  /\ \/ /\ row' = [row EXCEPT ![e].status = "queued"]
        /\ call' = [call EXCEPT ![c] = [op |-> "send", email |-> e, step |-> "publish"]]
     \/ /\ row' = [row EXCEPT ![e].status = "scheduled", ![e].sched = "future"]
        /\ UNCHANGED call
  /\ UNCHANGED <<events, msg, pc, job, scan, accepted, lost, late, spent>>

\* publishBackgroundJob after the commit; without a queue it is skipped.
SendPublish(c) ==
  /\ call[c].step = "publish"
  /\ call' = [call EXCEPT ![c] = NoCall]
  /\ IF QueueConfigured THEN Enqueue(call[c].email) ELSE UNCHANGED msg
  /\ UNCHANGED <<row, events, pc, job, scan, accepted, lost, late, spent>>

\* SendMessage throws, whether or not SQS took the message.
SendPublishFails(c) ==
  /\ QueueConfigured /\ call[c].step = "publish" /\ Spend("fault")
  /\ call' = [call EXCEPT ![c].step = "audit"]
  /\ Enqueue(call[c].email) \/ UNCHANGED msg
  /\ UNCHANGED <<row, events, pc, job, scan, accepted, lost, late>>

\* auditQueuePublishFailure: an unconditional update, then the event.
SendAudit(c) ==
  /\ call[c].step = "audit"
  /\ row' = [row EXCEPT ![call[c].email].status = "failed", ![call[c].email].retry = "none"]
  /\ call' = [call EXCEPT ![c].step = "event"]
  /\ UNCHANGED <<events, msg, pc, job, scan, accepted, lost, late, spent>>

SendAuditEvent(c) ==
  /\ call[c].step = "event"
  /\ events' = events \cup {<<"unpublished", call[c].email, 0>>}
  /\ call' = [call EXCEPT ![c] = NoCall]
  /\ UNCHANGED <<row, msg, pc, job, scan, accepted, lost, late, spent>>

\* cancelEmail and updateEmail read the status first ...
EditRead(c, e, op) ==
  /\ op \in Ops \ {"send"} /\ call[c].step = "idle" /\ row[e].status = "scheduled"
  /\ call' = [call EXCEPT ![c] = [op |-> op, email |-> e, step |-> "write"]]
  /\ UNCHANGED <<row, events, msg, pc, job, scan, accepted, lost, late, spent>>

\* ... and then update the row whatever its status has become.
CancelWrite(c) ==
  /\ call[c].op = "cancel" /\ call[c].step = "write"
  /\ row' = [row EXCEPT ![call[c].email].status = "canceled"]
  /\ call' = [call EXCEPT ![c] = NoCall]
  /\ UNCHANGED <<events, msg, pc, job, scan, accepted, lost, late, spent>>

RescheduleWrite(c) ==
  /\ call[c].op = "reschedule" /\ call[c].step = "write"
  /\ \E t \in {"none", "future"} : row' = [row EXCEPT ![call[c].email].sched = t]
  /\ call' = [call EXCEPT ![c] = NoCall]
  /\ UNCHANGED <<events, msg, pc, job, scan, accepted, lost, late, spent>>

CallCrash(c) ==
  /\ call[c].step # "idle" /\ Spend("crash")
  /\ call' = [call EXCEPT ![c] = NoCall]
  /\ UNCHANGED <<row, events, msg, pc, job, scan, accepted, lost, late>>

-----------------------------------------------------------------------------
(* Promotion of due scheduled rows: publish, then write "queued".  The       *)
(* ingester's processDueScheduledEmails writes under a condition, the cron   *)
(* route's processScheduledEmails does not.                                  *)

ScanFind(s, e) ==
  /\ scan[s].step = "idle" /\ row[e].status = "scheduled" /\ row[e].sched = "due"
  /\ s \in Crons => QueueConfigured   \* without a queue the cron route skips the row
  /\ scan' = [scan EXCEPT ![s] = [email |-> e, step |-> IF QueueConfigured THEN "publish" ELSE "mark"]]
  /\ UNCHANGED <<row, events, msg, pc, job, call, accepted, lost, late, spent>>

ScanPublish(s) ==
  /\ scan[s].step = "publish" /\ Enqueue(scan[s].email)
  /\ scan' = [scan EXCEPT ![s].step = "mark"]
  /\ UNCHANGED <<row, events, pc, job, call, accepted, lost, late, spent>>

ScanMark_Unconditional(s) ==
  /\ s \notin Crons /\ scan[s].step = "mark"
  /\ row' = [row EXCEPT ![scan[s].email].status = "queued"]
  /\ scan' = [scan EXCEPT ![s] = [email |-> None, step |-> "idle"]]
  /\ UNCHANGED <<events, msg, pc, job, call, accepted, lost, late, spent>>

\* markDueScheduledQueued: compare-and-set on a row that is still scheduled and due.
ScanMark(s) ==
  LET e == scan[s].email IN
  /\ s \notin Crons /\ scan[s].step = "mark"
  /\ row' = IF row[e].status = "scheduled" /\ row[e].sched = "due"
            THEN [row EXCEPT ![e].status = "queued"] ELSE row
  /\ scan' = [scan EXCEPT ![s] = [email |-> None, step |-> "idle"]]
  /\ UNCHANGED <<events, msg, pc, job, call, accepted, lost, late, spent>>

\* The cron route's update has no condition: it queues whatever the row has
\* become since the select, an email being sent or already settled included.
CronWrite(s) ==
  LET e == scan[s].email IN
  /\ s \in Crons /\ scan[s].step = "mark"
  /\ row' = [row EXCEPT ![e].status = "queued"]
  /\ late' = IF row[e].status = "scheduled" THEN late ELSE [late EXCEPT ![e] = @ + 1]
  /\ scan' = [scan EXCEPT ![s] = [email |-> None, step |-> "idle"]]
  /\ UNCHANGED <<events, msg, pc, job, call, accepted, lost, spent>>

\* The publish throws, or the process dies: the scan is abandoned.
ScanAbort(s) ==
  /\ scan[s].step # "idle" /\ (Spend("fault") \/ Spend("crash"))
  /\ scan' = [scan EXCEPT ![s] = [email |-> None, step |-> "idle"]]
  /\ UNCHANGED <<row, events, msg, pc, job, call, accepted, lost, late>>

-----------------------------------------------------------------------------
(* The worker: pollOnce / pollDatabaseOnce around processEmailSend *)

Receive(w, m) ==
  /\ w \notin Pollers /\ pc[w] = "idle"
  /\ msg[m].state = "visible" /\ msg[m].rc < MaxReceives
  /\ msg' = [msg EXCEPT ![m].state = "inflight", ![m].rc = @ + 1]
  /\ job' = [job EXCEPT ![w] = [email |-> msg[m].email, msg |-> m, rc |-> msg[m].rc + 1]]
  /\ pc' = [pc EXCEPT ![w] = "read"]
  /\ UNCHANGED <<row, events, scan, call, accepted, lost, late, spent>>

\* findQueuedForDispatch; the attempt number comes from the row as it was read.
PollDatabase(w, e) ==
  /\ w \in Pollers /\ pc[w] = "idle"
  /\ row[e].status = "queued" /\ NotBefore(row[e])
  /\ job' = [job EXCEPT ![w] = [email |-> e, msg |-> None, rc |-> row[e].attempts + 1]]
  /\ pc' = [pc EXCEPT ![w] = "read"]
  /\ UNCHANGED <<row, events, msg, scan, call, accepted, lost, late, spent>>

FindEmail(w) ==
  LET r == row[job[w].email] IN
  /\ pc[w] = "read"
  /\ Goto(w, IF r.status \in Skipped \/ r.sched = "future" THEN "ack" ELSE "claim")
  /\ UNCHANGED <<row, events, msg, scan, call, accepted, lost, late, spent>>

\* claimForSending: one conditional UPDATE; a row it does not match is skipped.
ClaimForSending(w) ==
  LET e == job[w].email IN
  /\ pc[w] = "claim"
  /\ IF Claimable(row[e])
     THEN row' = [row EXCEPT ![e].status = "processing"] /\ Goto(w, "domain")
     ELSE UNCHANGED row /\ Goto(w, "ack")
  /\ UNCHANGED <<events, msg, scan, call, accepted, lost, late, spent>>

ResolveDomain(w) ==
  /\ pc[w] = "domain" /\ Goto(w, "send")
  /\ UNCHANGED <<row, events, msg, scan, call, accepted, lost, late, spent>>

Handoff_ErrorIsSkip(w) ==
  /\ pc[w] = "send"
  /\ \/ accepted' = [accepted EXCEPT ![job[w].email] = @ + 1] /\ Goto(w, "commit")
     \/ Goto(w, "ack") /\ UNCHANGED accepted
  /\ UNCHANGED <<row, events, msg, scan, call, lost, late, spent>>

\* emailProvider.sendEmail: taken, or refused (a rendering or attachment error
\* in the same try block ends like a refusal).
Handoff(w) ==
  /\ pc[w] = "send"
  /\ \/ /\ accepted' = [accepted EXCEPT ![job[w].email] = @ + 1]
        /\ Goto(w, "commit")
     \/ Goto(w, "fail") /\ UNCHANGED accepted
  /\ UNCHANGED <<row, events, msg, scan, call, lost, late, spent>>

\* SES takes the mail and the call still throws.
HandoffUnacknowledged(w) ==
  LET e == job[w].email IN
  /\ pc[w] = "send" /\ Spend("fault")
  /\ accepted' = [accepted EXCEPT ![e] = @ + 1]
  /\ lost' = [lost EXCEPT ![e] = @ + 1]
  /\ Goto(w, "fail")
  /\ UNCHANGED <<row, events, msg, scan, call, late>>

\* The update to "sent", unconditional.
MarkSent(w) ==
  /\ pc[w] = "commit"
  /\ row' = [row EXCEPT ![job[w].email].status = "sent", ![job[w].email].retry = "none"]
  /\ Goto(w, "ack")
  /\ UNCHANGED <<events, msg, scan, call, accepted, lost, late, spent>>

\* That update throws inside the try block, before or after it has committed:
\* the catch block treats a mail SES has taken as a failed attempt.
MarkSentFails(w) ==
  /\ pc[w] = "commit" /\ Spend("fault")
  /\ \/ UNCHANGED row
     \/ row' = [row EXCEPT ![job[w].email].status = "sent", ![job[w].email].retry = "none"]
  /\ lost' = [lost EXCEPT ![job[w].email] = @ + 1]
  /\ Goto(w, "fail")
  /\ UNCHANGED <<events, msg, scan, call, accepted, late>>

Exhausted(n) == n >= MaxAttempts
NextRetry_AlwaysDelayed(w, n) == "future"
\* getRetryDelaySeconds is null on a first receive; the DB fallback always delays.
NextRetry(w, n) == IF w \notin Pollers /\ n <= 1 THEN "none" ELSE "future"

RecordFailure_StaysQueued(w) ==
  /\ pc[w] = "fail"
  /\ row' = [row EXCEPT ![job[w].email].status = "queued", ![job[w].email].attempts = job[w].rc,
                        ![job[w].email].retry = NextRetry(w, job[w].rc)]
  /\ Goto(w, IF Exhausted(job[w].rc) THEN "bury" ELSE "delay")
  /\ UNCHANGED <<events, msg, scan, call, accepted, lost, late, spent>>

\* The catch block's update of the row.
AttemptFailed(w) ==
  LET e == job[w].email
      n == job[w].rc
  IN
  row' = [row EXCEPT ![e].status = IF Exhausted(n) THEN "failed" ELSE "queued",
                     ![e].attempts = n,
                     ![e].retry = IF Exhausted(n) THEN "none" ELSE NextRetry(w, n)]

RecordFailure(w) ==
  /\ pc[w] = "fail" /\ AttemptFailed(w)
  /\ Goto(w, IF Exhausted(job[w].rc) THEN "bury" ELSE "delay")
  /\ UNCHANGED <<events, msg, scan, call, accepted, lost, late, spent>>

\* The dead-letter event; its unique source id makes a second insert throw.
Bury(w) ==
  LET id == <<"dead", job[w].email, job[w].rc>> IN
  /\ pc[w] = "bury"
  /\ events' = events \cup {id}
  /\ Goto(w, IF id \in events THEN "nack" ELSE "ack")
  /\ UNCHANGED <<row, msg, scan, call, accepted, lost, late, spent>>

\* The email.delayed event; the job then fails whether or not it is inserted.
Delay(w) ==
  /\ pc[w] = "delay"
  /\ events' = events \cup {<<"delayed", job[w].email, job[w].rc>>}
  /\ Goto(w, "nack")
  /\ UNCHANGED <<row, msg, scan, call, accepted, lost, late, spent>>

\* A database call outside the try block (or in the catch block) throws: the
\* row keeps the status it has.
DatabaseFails(w) ==
  /\ pc[w] \in {"read", "claim", "domain", "fail", "bury", "delay"} /\ Spend("fault")
  /\ Goto(w, "nack")
  /\ UNCHANGED <<row, events, msg, scan, call, accepted, lost, late>>

\* Such a call throws although its statement has taken effect.
DatabaseUnanswered(w) ==
  /\ Spend("fault") /\ Goto(w, "nack")
  /\ \/ /\ pc[w] = "claim" /\ Claimable(row[job[w].email])
        /\ row' = [row EXCEPT ![job[w].email].status = "processing"] /\ UNCHANGED events
     \/ pc[w] = "fail" /\ AttemptFailed(w) /\ UNCHANGED events
     \/ /\ pc[w] = "bury"
        /\ events' = events \cup {<<"dead", job[w].email, job[w].rc>>} /\ UNCHANGED row
  /\ UNCHANGED <<msg, scan, call, accepted, lost, late>>

\* DeleteMessage; with an outdated receipt handle SQS may ignore it.
Ack(w) ==
  LET m == job[w].msg IN
  /\ pc[w] = "ack" /\ Finish(w)
  /\ \/ m # None /\ Live(m) /\ msg' = [msg EXCEPT ![m].state = "deleted"]
     \/ ~Current(w) /\ UNCHANGED msg
  /\ UNCHANGED <<row, events, scan, call, accepted, lost, late, spent>>

AckFails(w) ==
  /\ pc[w] = "ack" /\ job[w].msg # None /\ Spend("fault") /\ Goto(w, "nack")
  /\ UNCHANGED <<row, events, msg, scan, call, accepted, lost, late>>

\* ChangeMessageVisibility from the second receive on: the message stays
\* hidden until the retry time it was given.  With an outdated receipt handle
\* SQS may refuse; the exception leaves pollOnce and ends the loop for good.
Nack(w) ==
  LET m == job[w].msg IN
  /\ pc[w] = "nack"
  /\ \/ (m = None \/ job[w].rc <= 1) /\ Finish(w) /\ UNCHANGED msg
     \/ /\ Current(w) /\ job[w].rc > 1 /\ Finish(w)
        /\ msg' = [msg EXCEPT ![m].hold = (row[job[w].email].retry = "future")]
     \/ m # None /\ job[w].rc > 1 /\ ~Current(w) /\ (Finish(w) \/ Stop(w)) /\ UNCHANGED msg
  /\ UNCHANGED <<row, events, scan, call, accepted, lost, late, spent>>

\* A queue call (or the fallback's scan) throws out of pollForever.
LoopFails(w) ==
  /\ pc[w] = "idle" \/ (pc[w] = "nack" /\ job[w].msg # None /\ job[w].rc > 1)
  /\ Spend("fault") /\ Stop(w)
  /\ UNCHANGED <<row, events, msg, scan, call, accepted, lost, late>>

\* The process dies and is started again.
WorkerCrash(w) ==
  /\ pc[w] # "idle" /\ Spend("crash") /\ Finish(w)
  /\ UNCHANGED <<row, events, msg, scan, call, accepted, lost, late>>

-----------------------------------------------------------------------------
(* SQS, the clock and SES (external) *)

BecomeVisible(m) ==
  /\ msg[m].state = "inflight"
  /\ msg[m].hold => row[msg[m].email].retry # "future"
  /\ msg' = [msg EXCEPT ![m].state = "visible"]
  /\ UNCHANGED <<row, events, pc, job, scan, call, accepted, lost, late>>

\* The visibility timeout of a message nobody works on any more.
Expire(m) == ~Attended(m) /\ BecomeVisible(m) /\ UNCHANGED spent
\* The same timeout while the worker is still busy with the message.
Overrun(m) == Attended(m) /\ BecomeVisible(m) /\ Spend("overrun")

Redrive(m) ==
  /\ msg[m].state = "visible" /\ msg[m].rc >= MaxReceives
  /\ msg' = [msg EXCEPT ![m].state = "dlq"]
  /\ UNCHANGED <<row, events, pc, job, scan, call, accepted, lost, late, spent>>

ScheduleArrives(e) ==
  /\ row[e].sched = "future"
  /\ row' = [row EXCEPT ![e].sched = "due"]
  /\ UNCHANGED <<events, msg, pc, job, scan, call, accepted, lost, late, spent>>

\* A message hidden for this retry is released no earlier than the retry time.
RetryArrives(e) ==
  /\ row[e].retry = "future"
  /\ row' = [row EXCEPT ![e].retry = "due"]
  /\ msg' = [m \in Msgs |-> IF msg[m].email = e THEN [msg[m] EXCEPT !.hold = FALSE] ELSE msg[m]]
  /\ UNCHANGED <<events, pc, job, scan, call, accepted, lost, late, spent>>

\* createOrIgnoreDuplicate: event and status in one transaction, any order.
Feedback(e, t) ==
  /\ accepted[e] > 0 /\ <<t, e, 0>> \notin events
  /\ events' = events \cup {<<t, e, 0>>}
  /\ row' = [row EXCEPT ![e].status = t]
  /\ UNCHANGED <<msg, pc, job, scan, call, accepted, lost, late, spent>>

-----------------------------------------------------------------------------
Work(w) ==
  \/ \E m \in Msgs : Receive(w, m)
  \/ \E e \in Emails : PollDatabase(w, e)
  \/ FindEmail(w) \/ ClaimForSending(w) \/ ResolveDomain(w) \/ Handoff(w)
  \/ MarkSent(w) \/ RecordFailure(w) \/ Bury(w) \/ Delay(w) \/ Ack(w) \/ Nack(w)

WorkFault(w) ==
  \/ HandoffUnacknowledged(w) \/ MarkSentFails(w) \/ DatabaseFails(w) \/ DatabaseUnanswered(w)
  \/ AckFails(w) \/ LoopFails(w) \/ WorkerCrash(w)

Scan(s) == (\E e \in Emails : ScanFind(s, e)) \/ ScanPublish(s) \/ ScanMark(s) \/ CronWrite(s)

CallStart(c) ==
  \E e \in Emails : SendInsert(c, e) \/ \E op \in {"cancel", "reschedule"} : EditRead(c, e, op)

CallContinue(c) ==
  SendPublish(c) \/ SendAudit(c) \/ SendAuditEvent(c) \/ CancelWrite(c) \/ RescheduleWrite(c)

Next ==
  \/ \E w \in Workers : Work(w) \/ WorkFault(w)
  \/ \E s \in Scanners : Scan(s) \/ ScanAbort(s)
  \/ \E c \in Calls : CallStart(c) \/ CallContinue(c) \/ SendPublishFails(c) \/ CallCrash(c)
  \/ \E m \in Msgs : Expire(m) \/ Overrun(m) \/ Redrive(m)
  \/ \E e \in Emails : ScheduleArrives(e) \/ RetryArrives(e)
  \/ \E e \in Emails, t \in FeedbackTypes : Feedback(e, t)

Spec == Init /\ [][Next]_vars

\* Running processes keep running, SQS redelivers and time passes.  Requests
\* need not arrive, SES need not report, nothing need fail.
Fairness ==
  /\ \A w \in Workers : WF_vars(Work(w))
  /\ \A s \in Scanners : WF_vars(Scan(s))
  /\ \A c \in Calls : WF_vars(CallContinue(c))
  /\ \A m \in Msgs : WF_vars(Expire(m)) /\ WF_vars(Redrive(m))
  /\ \A e \in Emails : WF_vars(ScheduleArrives(e)) /\ WF_vars(RetryArrives(e))

FairSpec == Spec /\ Fairness

-----------------------------------------------------------------------------
(* Properties *)

\* The worker has claimed e and has not yet written the outcome of its attempt.
Holds(w, e) == pc[w] \in {"domain", "send", "commit", "fail"} /\ job[w].email = e

\* claimForSending is a lock: at most one worker is between its claim of an
\* email and the write of the outcome, whatever duplicates the queue delivers,
\* whoever cancels, and however workers crash; unless the cron route has put
\* the row back in the queue behind the lock.
SingleSender ==
  \A e \in Emails : late[e] = 0 =>
    \A v, w \in Workers : Holds(v, e) /\ Holds(w, e) => v = w

\* SES takes an email more than once only if an earlier hand-off succeeded
\* without the worker learning or recording it, or the cron route queued the
\* row again: every duplicate is paid for by one such accident.
DuplicatesAreLostAcks == \A e \in Emails : accepted[e] <= 1 + lost[e] + late[e]

\* An email with a dead-letter event is out of reach of every worker: nobody
\* holds it and no row state lets it be claimed again, unless the cron route
\* queued it again.
DeadLetterIsFinal ==
  \A e \in Emails : late[e] = 0 /\ (\E id \in events : id[1] = "dead" /\ id[2] = e) =>
    /\ row[e].status \notin {"queued", "scheduled", "processing"}
    /\ \A w \in Workers : ~Holds(w, e)

\* Why the facts above hold.  While the cron route keeps away: as long as a row
\* can still be claimed, nobody holds it and it is not dead-lettered.
Sendable(e) == row[e].status \in {"absent", "queued", "scheduled"}
Dead(e) == \/ \E id \in events : id[1] = "dead" /\ id[2] = e
           \/ \E w \in Workers : pc[w] = "bury" /\ job[w].email = e
ClaimIsALock ==
  \A e \in Emails : late[e] = 0 =>
    /\ Sendable(e) => ~Dead(e) /\ \A w \in Workers : ~Holds(w, e)
    /\ Dead(e) => row[e].status # "processing" /\ \A w \in Workers : ~Holds(w, e)
    /\ \A v, w \in Workers : Holds(v, e) /\ Holds(w, e) => v = w

\* In any case: the hand-offs taken, those a claim still grants, and the one a
\* claimable row could grant, are covered by what was lost or queued again.
Pending(e) == {w \in Workers : Holds(w, e) /\ pc[w] # "commit"}
HandoffsAreCovered ==
  \A e \in Emails :
    accepted[e] + Cardinality(Pending(e)) + (IF Sendable(e) THEN 1 ELSE 0) <= 1 + lost[e] + late[e]

\* A row that says it is being sent is in some worker's hands, but for those a
\* crash or a failing database call took out of them between the claim and the
\* outcome: no redelivery brings such a row back, and each accident strands one.
Stranded == {e \in Emails : row[e].status = "processing" /\ \A w \in Workers : ~Holds(w, e)}
StrandedByAccident == Cardinality(Stranded) <= spent["crash"] + spent["fault"]

\* A settled row stays settled and never comes back to be sent again, once the
\* cron route keeps away, but where its worker records a failed attempt over it:
\* the email was canceled while it was being sent, or a call failed before.
Overridden(e) ==
  /\ \E w \in Workers : pc[w] = "fail" /\ job[w].email = e
  /\ row[e].status = "canceled" \/ spent["fault"] > 0
SettledStaysSettled ==
  [][\A e \in Emails : Settled(e) /\ late'[e] = 0 => Settled(e)' \/ Overridden(e)]_vars

\* Every accepted email is eventually settled: sent, reported on by SES,
\* canceled, or failed after its provider attempts.
EverySendSettles ==
  \A e \in Emails : row[e].status # "absent" ~> Settled(e)

=============================================================================
