# TLA+ models of the mail platform

These modules model the parts of the repository in which several processes change
the same rows: accepting and sending an email, feedback from SES, webhooks, billing
and Stripe's events, broadcasts, automations and inbound mail. TLC checks them on small
instances; the safety properties that matter most are proved with TLAPS for every
value of the constants.

Paths below are relative to the repository; `tla/` is this directory.

## How to run

    tlc -workers 2 -config EmailDeliveryCalm.cfg MCEmailDelivery.tla
    tlapm EmailDelivery_proofs.tla

`PROJECT.json` lists every run with its module, configuration and properties, maps
every definition to the lines it models, and lists findings and hazards.

## The system

A Next.js application (`src/`) serves the API, the dashboard and a set of cron
routes. A second process, the ingester (`packages/ingester`), polls SQS, receives
SES and Stripe webhooks, serves internal job routes and, in a self-hosted
deployment, runs the scheduler that posts to the job routes once a minute. Both
share `packages/core` (services and repositories) and one Postgres database.
Nothing else coordinates them: no advisory locks, no leader. Any number of either
process may run.

| component | state | operations | talks to |
|---|---|---|---|
| Email lifecycle API (`packages/core/src/services/email*.ts`, `src/lib/api/emails`) | `emails`, `email_events`, idempotency keys | send, batch send, reschedule, cancel | quota in the same transaction; SQS after the commit |
| Background jobs (`packages/core/src/jobs`) | none (SQS) | publish, or "skipped" without a queue | SQS, EventBridge |
| Queue worker (`packages/ingester/src/queue-worker.ts`) | `emails.status`, `provider_retry_count`, `provider_next_retry_at`, `email_events` | poll SQS or the database, claim, hand off, record, retry, dead-letter; also runs `webhook.dispatch` and scheduled scans | SQS, SES, webhook enqueue |
| Cron route (`src/app/api/internal/cron/process-scheduled`) | none of its own | runs email promotion, broadcasts and automations at once | the rows of each; SQS |
| Cron promotion (`src/lib/workers/scheduled-emails.ts`) | `emails.status` | publish and promote due emails | SQS; the same rows as the worker |
| SES ingestion (`packages/ingester/src/index.ts`) | `email_events`, `emails.status`, `suppressions` | normalise, insert or recognise a duplicate, suppress, fan out | email rows, webhook deliveries, broadcast metrics |
| Webhook dispatcher (`packages/ingester/src/dispatcher.ts`) | `webhook_deliveries`, `webhooks.status` | enqueue, scan, dispatch one, replay | SQS, customer endpoints |
| Usage and quota (`packages/core/src/services/usageQuota.ts`) | `usage_periods.emails_sent` | reserve, release | every accepting path |
| Overage reporting (`packages/ingester/src/billing-overage-reporter.ts`) | `usage_overage_reports`, two cursors of `usage_periods` | claim, submit, mark reported or failed | Stripe meter events |
| Stripe webhooks (`packages/ingester/src/stripe-webhook.ts`) | `stripe_events_processed`, `subscriptions` | mark event, find and write the row, undo the mark | quota (plan), billing |
| Broadcasts (`packages/core/src/services/broadcast.ts`, `src/lib/workers/broadcast-sender.ts`) | `broadcasts` | create, send, edit, delete; fan-out by the cron route | `emails`, quota, SQS |
| Automations (`src/lib/workers/automation-runner.ts`, `packages/core/src/services/automations.ts`, `automationRuns.ts`, `customEvents.ts`) | `automations`, `automation_steps`, `automation_runs` | record an event, resume, enrol, run due steps, cancel, edit, stop, delete | emails, contacts |
| Inbound (`packages/core/src/services/inboundEmailIngestion.ts`) | `inbound_provider_events`, `received_emails`, `forwarding_attempts`, stored attachments | ingest, compensate, forward | quota, webhooks, the sending path |
| Scheduler (`packages/ingester/src/job-scheduler.ts`) | heartbeat rows | post to each job route in turn, give up on an answer after 20 s | all jobs above |
| Domains, contacts, topics, templates, API keys, rate limits, dedicated IPs, exports, traces, dashboard, SDKs, SMTP relay, MCP | their rows | request at a time | the above |

### What is hard in it, and what makes each component correct

* **Delivery.** SQS may deliver a job twice, a message may become visible while its
  worker still works, workers crash, SES may take a mail whose answer is lost, and the
  API edits rows while workers hold them. Correct: one sender at a time; a duplicate at
  SES only for a lost acknowledgement; each crash or failing call strands at most one email;
  outcomes are final; everything accepted is eventually settled.
* **Overage.** Scans overlap (the scheduler gives up on an answer after 20 seconds
  and starts the next), leases expire, Stripe's answers get lost, Stripe forgets
  identifiers after a day. Correct: no email is in two reports, none is counted
  twice, all overage is billed, and the reported cursor says only what Stripe confirmed.
* **Webhooks.** A one-minute scan, queued jobs and replays dispatch the same rows with
  no claim. Correct: a row never says what did not happen, and every delivery settles.
* **Broadcasts.** Overlapping cron runs select the same row; a crash in between leaves it
  marked. Correct: as many fan-outs as accepted sends; no row is stuck; a backlog drains.
* **Acceptance.** Quota is reserved inside the transaction and released on failure, beside
  idempotency keys; jobs are published after the commit. Correct: a key is accepted once, a
  period is charged what was accepted, and an accepted answer leaves nothing unpublished.
* **SES feedback.** The event is committed first, suppression and webhook fan-out follow;
  SNS redelivers, to several handlers at once. Correct: an event suppresses and is fanned out
  once, and completely unless its handler was cut short.
* **Stripe's events.** They come late, twice and out of order; the mark that makes a second
  post a duplicate is set before the event is handled. Correct: one handler per event, no event
  forgotten, the row is what Stripe says once nothing is outstanding.
* **Automations.** Cron runs overlap with each other, with events that wake runs, with
  cancellations and edits; every update is made by id from a row read earlier. Correct: a step
  mails once, a row claims only what was done, no run is lost, an event wakes whom it should.
* **Inbound.** Storage, a transaction and a quota counter have to agree, and every failure in
  between is compensated by hand. Correct: one email per event, all of it or nothing.

The hazards in `PROJECT.json` name the line at which each of these bites, and the
properties that would catch it.

## The modules

| module | models | abstract promise |
|---|---|---|
| `EmailAcceptance` | the two routes that accept emails: keys, quota, rows, publishing, release | `KeyAcceptedOnce`, `SendableIsCharged`, `AcceptedIsPublished` ... |
| `EmailDelivery` | emails from acceptance to outcome: API, scheduled scan, queue, workers, feedback | `SingleSender`, `DuplicatesAreLostAcks`, `EverySendSettles` ... |
| `OverageLedger` | what overage reporting promises: a cursor that moves up, a meter that counts once | |
| `BillingOverage` | quota counter, reports, leases, scans, Stripe | `ImplementsLedger` (refinement) |
| `WebhookDispatch` | delivery rows, queue, scans, replay | `DispatchInvariant`, `DeliverySettles` |
| `BroadcastFanout` | broadcasts, their API and the fan-out worker | `SendingIsAttended`, `CopiesHaveGrounds` |
| `SesFeedback` | SNS notifications, suppressions, fan-out to endpoints | `OncePerNote`, `FannedOut`, `BouncesSuppress` |
| `StripeSync` | Stripe's events and the subscription row | `NothingForgotten`, `RowFollowsStripe` |
| `AutomationRun` | runs of one automation, events, cron, cancellation, edits | `RowsAreHonest`, `OneEmailPerStep`, `EventsWakeRuns` |
| `InboundIngestion` | an inbound notification up to its forwards | `AllOrNothing`, `AttemptsAreHonest` |
| `X_proofs` | theorems about `X`, for each module above; those of `BillingOverage` (with its ledger) and `StripeSync` share `Billing_proofs` | |
| `MCX` | symmetry sets and small automations for the runs of `X` | |

In every module an action is one atomic unit of the code: a SQL statement or
transaction, a queue call or a provider call. An actor (worker, scan, request) has a
program counter, and between two actions of one actor any other may act. What it read
earlier it keeps in its own record, so stale reads are real. A failing call, a crash and
an expiring timeout are actions of their own; a call that fails may have taken effect all the same, its
answer lost, wherever what follows can tell. Each is counted against a bound (`MaxFaults`, `MaxCrashes`, `MaxOverruns`, `MaxForgets`, ...) in `spent` or `faults`. Time is kept as the cases the guards
tell apart: a timestamp is unset, ahead, or reached; nothing depends on how far.
Definitions named `X_Something`, right before `X`, are mutated forms that no
specification uses: each is a bug the code could have, and each property is known to
fail under one of them.

### EmailAcceptance

`row` is what the acceptance of an email writes (status, key, day, billing period, and which request made
it), `quota` the counter of `usage_periods`. `req[r]` follows one request of `send.ts` or `batch-send.ts`:

    Start -> Lookup -> Accept -> NextChunk, Publish ... -> Answer      (200)
                    -> RefuseQuota                                     (402)
                    -> Conflict, AcceptFails -> Release -> error       (500)
                       PublishFails -> Audit -> Release -> error       (500)

* `Accept` is the transaction: take the key off rows outside its window (`Expire`), reserve
  (`Reserve`), insert with the key on the first row. The row lock on `usage_periods` serialises the
  transactions of a user, and the unique index decides (`Taken`), not the lookup before it.
* `AcceptFails` is a transaction that is rolled back, before or after its reservation, or that is
  committed with its answer lost. A single send notes its reservation inside the transaction,
  a batch after it, so only the first releases then (`AfterRollback`).
* A batch publishes `ChunkSize` rows at a time (five in the code). When one fails, `Promise.all` rejects and the
  request goes on to `Release`, while the others of its chunk still publish or fail.
* `Release` takes the units of the whole request from the period of *now*, never below zero.
  `unearned` records what it took beyond the units of failed emails.

Abstractions: requests that end before the transaction (validation, suppression, template) change
nothing and are left out, as is a batch of which nothing is accepted and a deployment without billing; the key
window is a day that no request outlasts; the account is locked from the reservation on, so the
transaction is one action; what the workers make of a row is EmailDelivery's.

### EmailDelivery

`row` is a row of `emails` (status, scheduled_at, retry time and count), `events` the
`email_events` by unique source id, `msg` the SQS messages with their receive count. `pc[w]`, `job[w]`
follow `processEmailSend`:

    Receive / PollDatabase -> FindEmail -> ClaimForSending -> ResolveDomain -> Handoff
      -> MarkSent -> Ack
      -> RecordFailure -> Bury -> Ack          (last attempt: dead letter)
                       -> Delay -> Nack        (retry)

* `ClaimForSending` is `emailRepo.claimForSending`: one conditional UPDATE. A worker whose claim
  matches no row treats the job as done and deletes the message.
* `MarkSentFails` is inside the try block: an email SES has taken is recorded as a
  failed attempt, over the "sent" that may have been committed without an answer. `HandoffUnacknowledged` is SES taking a mail whose call throws. Both
  count in the history variable `lost`; `accepted` counts hand-offs SES took.
* `DatabaseFails` covers the calls outside the try block, among them `ResolveDomain`,
  which sits between the claim and the try block. `DatabaseUnanswered` is one of them that takes
  effect and throws all the same: the row is claimed, or the failure recorded, and the job ends there.
* `Nack` changes the visibility from the second receive on and otherwise leaves the
  message to its timeout; with an outdated receipt handle SQS may throw, and the exception ends
  the poll loop (`Stop`).
* A worker in `Pollers` has no queue and takes its jobs from `findQueuedForDispatch`, with the
  attempt number of the row as it was listed. It may stand beside workers of the queue, as
  when one process is deployed without the queue's URL.
* A scanner in `Crons` is the promotion of the cron route: it publishes and then queues the row
  without a condition (`CronWrite`), where the ingester's own scan compares and sets
  (`ScanMark`). `late` counts cron writes to a row that was no longer scheduled, and stands in
  the safety properties for what they undo.
* `EditRead` reads the status; `CancelWrite` and `RescheduleWrite` then update unconditionally, as
  `emailLifecycle.ts` and `emailDetail.ts` do.
* `SendPublishFails`, `SendAudit`, `SendAuditEvent` are `auditQueuePublishFailure`, which may
  follow a publish that did reach the queue.

Abstractions: a worker takes one message per receive (the code handles a batch one after
the other); every email has an owner; a failing EventBridge call is swallowed by the code
and left out; clocks agree; the queue is a standard queue with no order; the sandbox simulation of
test recipients, which never reaches SES, is left out; the content of a mail is left out.

### BillingOverage and OverageLedger

Positions `1..Top` stand for the overage emails of a period. `claimed` and `reported`
are the two cursors of `usage_periods`, `report` the rows of `usage_overage_reports`,
keyed by the range they cover (their idempotency key). A scan (`LoadPeriods`) loads the periods whose
overage exceeds the reported cursor, then for each looks for an unsettled report
(`FindNoReport`, `SkipLeased`, `Reclaim`) and otherwise locks the period and claims the range
up to the present overage (`ClaimRange`). `SubmitReport` is the Stripe call: Stripe counts a range unless it
remembers its identifier (`seen`). `SubmitFails` is a call that throws, counted or not. `billed` counts
per email. `Forget` is Stripe's deduplication window ending.

Abstractions: a lease is fresh or not; the report status "pending" that the schema
allows is written by nothing and left out; `Forget` happens only once no scan has a reason to load
or is still at the period, since scans run every minute and the window is a day.

`OverageLedger` is the abstract specification; `Ledger == INSTANCE OverageLedger WITH
cursor <- claimed, meter <- billed, MaxRepeats <- MaxForgets` maps the detailed state to it.

`Overtaken` names a report that was not confirmed when an overlapping scan settled a later one:
the reported cursor is past it, and nothing loads it until the period has more overage.

### WebhookDispatch

`delivery` holds status, attempt and retry time; a dispatcher keeps the attempt it read
(`at[d].attempt`) from `Load` through `Post` to `Record`, which writes it plus one
unconditionally. `RecordFails` is that update throwing, made or not: inside the try block the catch block
records a failed attempt even after a 2xx answer. `StartScan` loads at most `ScanLimit` due rows in the
repository's order, `StartJob` serves a queued job, `Replay` resets a row and dispatches it.

Abstractions: all deliveries belong to one endpoint, which can be switched on and
off; endpoints are not deleted; the order of one scan's rows is not fixed; a missing event
or an unsupported type ends like a disabled endpoint (`markTerminal`); a signing secret that cannot be
decrypted is not modelled. A job is redelivered after a crash or a failed delete, and with
`MaxOverruns > 0` during the work.

### BroadcastFanout

`run[r]` follows one call of `processScheduledBroadcasts`: `Select` a batch, `TakeRow`,
`MarkSending` (unconditional), `FailOwnerless` or `ResolveAudience`, then `FanOut`, the transaction that
inserts the emails and marks the broadcast sent (`FanOutUnacknowledged`: it commits and the
answer is lost). `StepFails` is any other statement failing, `StepUnanswered` one that has set the status all the same. `RefuseQuota` and `MarkBlocked` are the billing exit,
`Requeue` the catch block. `Update` is the PATCH route, which accepts any status and time. Send and
delete read the status first and write unconditionally.

`grounds` is what a fan-out may rest on: a send the API accepted, an edit that puts the broadcast
back, a commit whose answer was lost, a selection beside another one. The property counts
fan-outs against grounds, so that every double is traced to one of these.

Abstractions: a fan-out is one copy of the broadcast, whomever it goes to; a quota
refusal is a free choice; personalisation, metrics and the publishing of the emails'
jobs (which EmailDelivery has) are left out.

### SesFeedback

`job[h]`, `pc[h]` follow one request of the ingester's `/ses` route:

    Post -> Commit -> Suppress, once per recipient -> List -> EnqueueDelivery, Publish ... -> Answer
                   -> Answer (a duplicate)

* `Commit` is `createOrIgnoreDuplicate`: the unique source id decides, and everything after it
  is done by the handler that inserted the event, once.
* `List` takes the first page of the active endpoints: at most `HookLimit` of them (a hundred in the
  code), highest ids first, which is why endpoints are numbers here. That there are more is ignored: an endpoint
  beyond the page gets no delivery.
* `Suppress` is one upsert of `email_suppressions`; `SuppressByHand`, `RemoveSuppression` and
  `SwitchHook` are the user's edits of the same rows meanwhile.
* `Fail` is a failing statement or publish (answered 500) or a crash, anywhere; the event
  may have committed all the same. `cut` records that a handler ended so after the commit.
* `times`, `listed`, `missed` and `removed` are histories: how often a notification suppressed a recipient,
  what endpoints its handler found and what active ones it did not, and what the user removed last.

Abstractions: all notifications are about one email of one user, and every endpoint subscribes to
every event; types that suppress nobody behave like transient bounces; the status the
transaction writes is in EmailDelivery, dispatching the job in WebhookDispatch; signature checks, subscription
confirmation, broadcast metrics and events of unknown emails are left out.

### StripeSync

`stripe` and `log` are the outside: what happens to a subscription in Stripe (`Subscribe`, `Pay`,
`MissPayment`, `Edit`, `Cancel`) and the event that tells of it. `at[h]` follows `stripe-webhook.ts` (names that `BillingOverage` has
too are qualified here, so that one module of proofs can extend both):

    Receive (markProcessed) -> Find -> Write -> Answer          (200)
                                    -> Undo (deleteProcessed)   (500, Stripe posts again)
                            -> Answer (a duplicate)

* `Receive` is the insert that does nothing on a conflict. Stripe posts any event it has no
  answer for, in any order, and beside an earlier post of it.
* `Find` is the lookup by subscription, then by user; `Write` updates the row found, whatever it
  is by then. Inserting a second row for the user is refused by the unique index (`Refused`).
* `HandleFails` is a failing statement, the write perhaps committed; `Die` is a crash, a failing
  `deleteProcessed` or a lost answer.
* The histories `handled`, `struck`, `early` and `disordered` say what became of an event:
  handled to the end; left marked by a crash; answered as a duplicate while its handler could
  still fail; marked beside another or after a later one.

Abstractions: one user, whose plan and period are left out; ignored event types, parse errors,
unknown users and plans, customers and checkout are left out, as is the warning mailed
about a failed payment.

### AutomationRun

`auto`, `flow` and `desk` are the automation, its steps with their connections, and an edit or
deletion under way; `row` its runs, one per starting event. A cron runner, an event
and a cancelling user are actors with a place (`pc`), the rows they listed (`held`) and the
update they are about to make (`plan`):

    runner: StartCron -> Step -> (Change | Lookup -> Insert) -> Write -> next row ...
    event:  Record -> ListWaiting -> Resume -> Write -> next row ... -> FindEnabled -> CheckEnabled -> Create
    user:   FindRun -> CancelRun

* `Step` has an action per kind of step and decides the update: `After` (on to `NextStep`),
  `Pause`, `Complete`, `Fail`. `Write` is `automationRunRepo.update`: by id, with no condition.
  `CancelRun` is the only one with a condition on the status.
* The email of a step is sent under the key `automation:<run>:<step>`: `Lookup` finds an earlier
  one, `Insert` is decided by the unique index.
* `WriteFails` and `Throw` lead to the catch block, which fails the run, also when the update was made and
  only its answer lost: `plan.again` tells that the runner overwrites its own update. `Interrupt` is a crash
  or an exception outside it, at any place.
* `ListWaiting` takes at most `ListLimit` of the contact's waiting runs (fifty in the code); which ones a full
  list leaves out is open here, where the code takes those updated longest ago. They miss the event, which is not
  repeated. In the code the waiting runs of the contact's other automations take up room in the same list.
* `SwitchAutomation`, `OpenRequest`, `CommitEdit`, `CommitDelete`, `ChangeContact` are what others do meanwhile.
  An edit writes back the status it has read.
* Histories: `happened` says whether a run's delay has passed or its event has come;
  `unheard` holds the runs that waited for an event when it was recorded, until somebody writes them or an edit
  takes their step away; `crowded` the runs a full list left out; `contended` the runs that two actors have
  held at once.

Abstractions: one automation and one contact; a run's trigger step is called "trigger" (see
below); the cron's listing is not limited, since what it leaves out it lists a minute later; the 24-hour window of
the email's key is left out, which no run of repeated steps outlasts here; what a condition evaluates to is a free choice.

### InboundIngestion

`pc[h]` follows `inboundEmailIngestionService.process`:

    Post -> InsertPrimary -> Parse -> Reserve -> Upload ... -> Commit -> MarkProcessed
              -> Forward, RecordAttempt ... -> Answer
         -> RecordDuplicate -> Answer
    UploadFails, CommitFails, MarkFails -> Release -> Cleanup ... -> MarkTerminal -> Answer

* `InsertPrimary` is decided by the partial unique index; the primary row is a claim that
  nobody gives back. The loser is a duplicate, or fails and is posted again: `isUniqueViolation` looks at the code
  of the error itself, which a driver's error may carry one level down.
* A failing upload, commit or mark is compensated in the order of the code: quota, stored objects, status.
  `Release` and `Cleanup` swallow their own failures.
* `MarkFails` shares the catch block with `CommitFails`: it compensates what has been committed, also when the
  row is already marked "processed" and only the answer is lost. `misjudged` is the history of such events: their charge and
  attachments go while the row says "processed", until `MarkTerminal` says otherwise, or for good if that fails.
* `Forward` goes through the rules, each accepted, skipped or failed, and records what it did; a record that
  throws may be there, and a failed one comes on top of it (`attempt` is a set).
* `hurt` is a history: events struck by a crash, or by a failure whose compensation cannot be
  complete (an answer lost after the effect, a failing release or cleanup, a failing mark).

Abstractions: one tenant; parsing and routing end in a verdict; webhook deliveries are inserted by
the transaction and not kept apart from it; what the forwarded email goes through is EmailAcceptance's.

## What the runs check

| run | setting | shows |
|---|---|---|
| `EmailAcceptance` | 2 requests, single or batch of 2, one key or none, 4 rows, chunks of 1; two periods, two days, one change of subscription, two faults, one crash | a key is accepted once; quota follows the accepted emails; an accepted answer leaves no email unpublished |
| `EmailDeliveryQueue` | 1 email; a worker of the queue and one that polls the database, promotion by the cron route, 2 messages, cancel and reschedule; one crash, one fault, one overrun | the claim is a lock; a duplicate at SES is paid for by a lost acknowledgement or a late write of the cron route; a dead letter is never picked up again; as many rows are stranded as there were accidents |
| `EmailDeliveryCalm` | SQS; 2 emails, 2 workers, 2 messages, the ingester's scan, cancellations; only provider attempts fail | outcomes are final, but for a failed attempt recorded over a cancellation; every accepted email settles |
| `BillingOverage` | 2 overlapping scans, crash, fault, lease overrun, a forgotten identifier | reports partition the claimed overage; the ledger is implemented; the reported cursor is confirmed and overage billed, but for overtaken reports |
| `WebhookDispatch` | 2 dispatchers, 1 delivery, queue, scan, replay, crash, fault | rows are honest; the delivery settles for good |
| `BroadcastFanout` | 2 overlapping runs, batches of one, an owned and an ownerless broadcast, request, edit, fault, crash | every fan-out has a ground; only a crash, a failing requeue or an edit leaves "sending" behind; scheduled broadcasts settle |
| `BroadcastFanoutImmediate` | 1 run, 1 broadcast, nothing fails | **violated**: a broadcast sent without a time is never selected |
| `SesFeedback` | 2 notifications posted twice, 2 handlers, 2 recipients, 3 endpoints and pages of 2, an edit, a fault | once per notification; complete unless cut short, and up to a full page of endpoints; every notification is handled |
| `StripeSync` | 2 subscriptions, 3 events in any order, 2 handlers, a fault | one handler per event; forgotten only by the two exceptions; the row follows Stripe while events are handled in order |
| `AutomationRunOverlap` | 2 cron runners, an event that enrols and one that wakes, timed waits, a loop; an edit, switch, deletion or change of the contact, a fault | rows and snapshots are honest; a step mails once; a lone run waits for what it waits for |
| `AutomationRun` | 2 runs, 3 events, lists of one, one runner, a cancelling user, an automation that waits, mails and delays, a fault | events wake the runs their list has room for; what ended stays ended unless contended or failed over a lost answer; every run comes to rest |
| `InboundIngestion` | 1 event posted three times to 3 handlers, 2 attachments, 2 rules, 3 faults | one owner and one email; all or nothing; honest attempts; every event settles unless struck |

### The bounds, and why they are enough

* Two workers, scans, dispatchers, runs or handlers: the races found here are between two
  actors on one row, since each action touches one row and nothing counts actors. The safety
  theorems cover any number. A queue worker and a polling one in one run make every pair of the two
  kinds but the pair of one kind, which `EmailDeliveryCalm` has.
* Two messages for one email give every duplicate job (`EmailDeliveryCalm`, where each email is published
  once, has one for each); two receives of one message exhaust
  `MaxAttempts = 2` and `MaxReceives = 2`, so that the retry, the dead letter and the redrive
  all happen.
* One crash, one to three faults: two are needed for a failure inside the handling of a
  failure (a fault in the step, then in the requeue; a lost answer, then a failing mark); three in
  `InboundIngestion` let an upload, the release and the cleanup fail in one run.
* `Top = 2` with `Included = 1`: an overage that starts at zero below the limit, and two adjacent
  ranges, so that one report can overtake another.
* Two requests, one key, four rows: a batch of two and a batch of two, or a single send beside a batch, before and
  after the key's window and a period's end; chunks of one make a batch publish twice. The
  theorems cover any number of requests, any batch and chunk size.
* `BatchLimit = 1` with two broadcasts: the batch limit bites. Two deliveries with scans of one row
  (`ScanLimit = 1`) make a larger instance of the webhook run, which passes as well and takes longer
  than the others.
* Three events of two subscriptions: created, something in between, and one of the other
  subscription or a cancellation; orders of three are where a late event overwrites a later one.
* `ListLimit = 1` with two runs and `HookLimit = 2` with three endpoints: a full list and one with room to spare, with
  something left out and with nothing.
* The automations of `MCAutomationRun`: one waits, mails and deletes its contact; one delays, updates the contact and
  loops on a condition; one just ends; and one, that of the run with liveness, waits, mails and delays. Every kind of step but `add_to_segment`, which acts like
  `contact_update` with fewer outcomes, is in one of them; the edit replaces one by another. One change by others (a
  switch, an edit, a change of the contact) meets every actor at every step; the deletion of a stopped automation, which
  happens at most once, is not counted against it, nor is a requeue of a broadcast that fails after its step did.
* Symmetry only in the email runs without liveness. `CHECK_DEADLOCK FALSE` stands where
  the system may stop: all emails settled, all messages used, all overage billed, all events handled.

### Fairness

`Fairness` in each module states only that running loops go on, that SQS, SNS, Stripe and the mail provider
post again what has no answer, and that time passes: a worker or dispatcher with something to do does it (`pollForever`
polls again at once); the scheduler calls each job every minute and repeats it after any
failure (`job-scheduler.ts`); leases and retry times are reached. It is weak fairness on each actor's
whole step, never on one of its outcomes: a provider may refuse forever and a request may never arrive. Every
fault is bounded, which is what "eventually" needs in a system that gives up after a number of attempts;
in the SES run SNS posts a notification once more than calls may fail.

What the liveness properties leave open is said in them. Email settling is checked
without crashes and faults, because the code does not recover from them: a crash between the commit
and the publish, or between the claim and the outcome, strands the row. Broadcasts settle
*unless a run drops them*; overage is billed *unless its report is overtaken*; Stripe's events are
handled *unless struck or answered early*; inbound events settle *unless struck*; each exception is a
row of the table below. Runs of an automation come to rest if it has no cycle and nothing
changes it meanwhile (checked for steps that wait, mail and delay); a webhook delivery settles in any case.

## What does not hold, and how to see it

One disagreement between the code and what it says of itself is a run with a violation, and
described under `findings` in `PROJECT.json`: `src/lib/workers/broadcast-sender.ts:38` compares
a NULL time, so an immediate broadcast is never selected.

Other limits show when a property is stated without its exception, or a passing run is given a
harsher setting. TLC refutes each of these in a copy of the module or the
configuration with that one change.

| stated or set so | the code | what a reader might expect |
|---|---|---|
| `DuplicatesAreLostAcks` without `late`: `EmailDeliveryCalm` with a second scanner, of the cron route | the cron route puts an email that was sent, or is being sent, back in the queue (`src/lib/workers/scheduled-emails.ts:44`) | `agent_docs/learnings/active/2026-06-19-issue-640-db-polling-fallback.md:12` |
| `EmailDeliveryCalm` with `MaxOverruns = 1`: `EverySendSettles` | a redelivered job finds the row "processing" and deletes the message the failing attempt needs (`queue-worker.ts:526`) | `docs/ingester-deploy.md:176` |
| `EmailDeliveryCalm` with `MaxCrashes = 1`: `EverySendSettles`, and `StrandedByAccident` without `spent["crash"]` | a crash after the claim leaves "processing"; the next receive skips and deletes (`queue-worker.ts:532`); one between the commit and the publish leaves a row without a job (`packages/core/src/services/email.ts:174`) | `docs/self-hosting.md:406` |
| `SettledStaysSettled` without `Overridden`, in `EmailDeliveryCalm` | cancel reads the status, then updates unconditionally (`emailLifecycle.ts:231`): a canceled email is still being sent, and the failed attempt puts it back in line (`queue-worker.ts:614`) | `tests/email-lifecycle-service.test.ts:197` |
| `BilledOnce` without forgotten identifiers | a failed report that Stripe counted waits unloaded while overage is released, beyond the window (`billing-overage-reporter.ts:188`) | `docs/ingester-deploy.md:330` |
| `CursorIsConfirmed` without `Overtaken` | a scan looks for an unsettled report before it locks the period; another's report comes in between, and the later range is confirmed first (`billing-overage-reporter.ts:294`) | `agent_docs/learnings/active/2026-06-18-issue-656-overage-outbox-cursor.md:13` |
| `ReplaysAnAcceptance` as a PROPERTY of the `EmailAcceptance` run, without SYMMETRY | a retry with the key of a send whose publish failed is answered 200 with the failed email's id (`send.ts:489`) | `public/docs/api-reference/introduction.md:37` |
| `SendableIsCharged` without `unearned` | a release after a rollback (`send.ts:853`), or of a batch partly published (`batch-send.ts:885`), or in the next period, takes units of emails that are sent | the comment at `send.ts:679` |
| a delivery's success is final, in the webhook run without faults | no status check between selecting and recording (`dispatcher.ts:52`): the queued job of a delivery the scan has served dispatches it again; and an attempt read before a request and written after it loses another's (`dispatcher.ts:136`) | `public/docs/webhooks/retries-and-replays.md:5`, `public/docs/guides/webhook-storage.md:22` |
| a broadcast goes out once (`copies[b] <= 1`), two runs, no faults and edits | "sending" is marked without a condition (`broadcast-sender.ts:50`) | the comment above it |
| `BouncesSuppress`, `FannedOut` for events in `cut` too | a handler that fails after the commit is answered 500; the redelivery finds the event and stops there (`packages/ingester/src/index.ts:841`) | a redelivery to make good what failed |
| `NothingForgotten` for events in `struck` too | an event is marked before it is handled: after a crash its redelivery is a duplicate (`stripe-webhook.ts:209`) | |
| `NothingForgotten` without `early` | a post beside the first is answered 200 before the first has been handled, which may then fail (`stripe-webhook.ts:209`) | |
| `RowFollowsStripe` without `disordered` | events carry no order the handler compares: a late one overwrites what a later one wrote (`stripe-webhook.ts:368`) | |
| `PaidIsEntitled` as an INVARIANT of the `StripeSync` run | one row per user, which the events of every subscription write: those of a second, unpaid one overwrite the paid one | |
| `SendingIsAttended` without `dropped` | a crash, or a requeue that fails, leaves "sending", which no run selects (`broadcast-sender.ts:227`) | |
| `FannedOut` with `missed[n] = {}` | the listing is one page of a hundred endpoints; `hasMore` is ignored (`packages/ingester/src/index.ts:892`) | a delivery for every active endpoint |
| `LoneRunsStayEnded`, `LoneRunsWait` for contended runs too | updates are made by id from an earlier read (`automationRunRepo.ts:214`): a cron run overwrites a cancellation and goes on mailing, or sets a run back | |
| `LoneRunsStayEnded` without `Redoes` | an update made inside the try block whose answer is lost: the catch block turns the run it completed into a failed one (`automation-runner.ts:1341`) | |
| `EventsWakeRuns` with `unheard[e] = {}` | at most fifty waiting runs of a contact are listed for an event, which is not repeated (`automation-runner.ts:1370`) | every waiting run is resumed |
| `EventsWakeRuns` with `ListLimit = 2`, leaving a run in `unheard` that somebody else wrote | the wake-up is decided on the listing; a run written in between is overwritten or missed | |
| `AllOrNothing`, `OneOwner` without `misjudged` | a mark that was made and whose answer is lost is compensated too: charge and attachments go under a row that says "processed" (`inboundEmailIngestion.ts:620`) | |
| `AllOrNothing` for events in `hurt` too | `markProcessed` failing after the commit is compensated like a failed commit: the received email stays, its attachments and charge go (`inboundEmailIngestion.ts:592`) | the message "Database commit failed after storage" |
| `EventSettles` for events in `hurt` too | a crash leaves "processing", and every redelivery is a duplicate | |
| `AttemptsAreHonest` for events in `hurt` too | the insert of the "queued" attempt shares its catch block with the send, so that an accepted forward is recorded as failed | |

What the models cannot show because they take it as given, or leave it out, and reading the code did:

* `customEvents.ts:450` enrols every run at a step literally called "trigger", while
  `automationRepo.ts:19` finds the trigger by its type and accepts any key: a run of an automation whose trigger is
  named otherwise is completed without a step (`automation-runner.ts`), against
  `public/docs/dashboard/automations/introduction.md`.
* An edit that removes a wait step leaves the runs waiting there to no event; an edit
  writes back the status it read, over a Stop in between; a Stop between `CheckEnabled` and `Create` still enrols.
* An HTTP error while the raw message is fetched is recorded as "malformed_mime" for good and answered 200.
* A quota release of an inbound email in the next period takes a unit of that period.
* Emails accepted before a suppression are sent all the same: the list is read at acceptance only.

## What is proved

For every number of emails, workers, messages, periods, scans, deliveries, dispatchers,
broadcasts, runs, events, attachments, rules and steps, and every bound. The only assumptions are those
stated with the constants (the `...Assumption` of each module), which TLC evaluates in the runs. Each proof has type correctness first,
then inductive invariants, with a lemma per action or group of actions.

| theorem | states | argument |
|---|---|---|
| `EmailAcceptance_proofs!TypeCorrect` | `TypeOK` | |
| `AcceptedOnce` | `KeyAcceptedOnce` | `KeyInv`: a request inserts once, all its rows on one day, and while that day lasts one of them keeps the key, so that a second transaction finds it taken |
| `Undercharged`, `Charged` | `NeverOvercharged`, `SendableIsCharged` | `ChargeInv`: failed emails stay paid for until their request has released, which is what the audit and the release need of each other; cardinalities of disjoint sets |
| `Published` | `AcceptedIsPublished` | `PublishInv`: a row of a publishing request is scheduled, pending or published |
| `EmailDelivery_proofs!TypeCorrect` | `TypeOK` | |
| `ClaimLocks` | `ClaimIsALock` | inductive: while a row can be claimed nobody holds it and it is not dead-lettered |
| `HandoffsCovered` | `HandoffsAreCovered` | inductive: hand-offs taken, those a claim still grants and the one a claimable row could grant, counted together |
| `OneSender`, `DuplicatesBounded`, `DeadLettersStay` | `SingleSender`, `DuplicatesAreLostAcks`, `DeadLetterIsFinal` | from the two above; none is inductive alone (a second claimer is excluded only because the row of a held email is not claimable) |
| `StrandedOnlyByAccident` | `StrandedByAccident` | no step but an accident adds a row to `Stranded`, and each accident at most one, because a worker holds one email; cardinalities of finite sets |
| `HeldHolds`, `SettledForGood` | `HeldInvariant`, `SettledStaysSettled` | the row of a held email is "processing" or was canceled meanwhile, as long as no call failed and the cron route kept away; only `ClaimIsALock` and `HandoffsAreCovered` exclude a second worker that has settled it |
| `Billing_proofs!TypeCorrect` | `TypeOK` | |
| `OutboxHolds` | `OutboxInvariant` | ordered cursors, disjoint ranges that fill the claimed overage, only registered reports submitted, the count of an email bounded by what Stripe remembers |
| `Partitioned`, `CountedOnce` | `ReportsPartitionClaimed`, `BilledOnce` | from `OutboxInvariant` |
| `RefinesLedger` | `ImplementsLedger` | every step is a `Claim`, a `Meter` or a stutter of the ledger; a range is counted again only after an identifier was forgotten, which is where the invariant is needed |
| `CursorHolds`, `Confirmed` | `CursorInvariant`, `CursorIsConfirmed` | Stripe has counted what it remembers, what is settled and what a scan is about to settle, and the reported cursor never stands inside a report; which report an email below the cursor is in follows from the partition |
| `SyncTypeCorrect` | `SyncTypeOK` (StripeSync) | |
| `MarksHold`, `LockedByMark`, `Remembered` | `MarkInvariant`, `OneHandler`, `NothingForgotten` | an event in a handler's hands is marked and not yet handled, and a success answer is about an event handled, answered early or struck |
| `RowHolds`, `RowFollows` | `RowInvariant`, `RowFollowsStripe` | while events are handled one at a time and in order, the row has its status from an event of its subscription after which none has been handled; it need not be handled itself, since a failed write may have been committed and its mark undone |
| `WebhookDispatch_proofs!TypeCorrect` | `TypeOK` | |
| `RowsStayHonest` | `DispatchInvariant` | what a dispatcher holds in hand stays true of the request it made, because the histories only grow |
| `BroadcastFanout_proofs!TypeCorrect` | `TypeOK` | |
| `NobodyStuckSending` | `SendingIsAttended` | inductive with `TypeOK` |
| `CopiesGrounded` | `CopiesHaveGrounds` | `FanOutsAreGranted`: every fan-out in store (a row that may be selected, or one in a run's hands) has a ground not yet used up |
| `SesFeedback_proofs!TypeCorrect` | `TypeOK` | |
| `Once`, `Complete`, `Suppressed` | `OncePerNote`, `FannedOut`, `BouncesSuppress` | an invariant of each notification: whether anybody works on it, and what is then done, in hand and left of its recipients and of the page of endpoints it listed |
| `InboundIngestion_proofs!TypeCorrect` | `TypeOK` | |
| `Claimed`, `Once` | `OneOwner`, `IngestedOnce` | the primary row stays "processing" while its one owner works, unless a mark of its own was misjudged, and leaves it for good |
| `Atomic`, `HonestAttempts` | `AllOrNothing`, `AttemptsAreHonest` | for each place of the owner, what of the email, its charge, objects and forwards is there; a misjudged mark breaks it for that event alone |
| `AutomationRun_proofs!TypeCorrect` | `TypeOK` | |
| `HonestRows`, `HonestSnapshots`, `OneEmail` | `RowsAreHonest`, `SnapshotsAreHonest`, `OneEmailPerStep` | `Inv`: rows, listed rows and planned updates are honest when made; emails and what has happened only grow, so that stale ones stay honest |
| `Woken` | `EventsWakeRuns` | `Awake`: a run an event has still to wake is in its list, unless it was written, stranded or crowded out |
| `LoneHolds`, `LoneEnded`, `LoneWaits` | `LoneInv`, `LoneRunsStayEnded`, `LoneRunsWait` | an uncontended run is in at most one actor's hands, as its row is now or as the actor's own unanswered update made it; it comes due because its delay has passed, and an update that takes it on was decided in time |

Proved and not only checked: with redeliveries during processing, crashes, and any mix of
edits, at most one worker is between claim and outcome; and no schedule of stale updates makes an
automation mail a step twice.

Every safety invariant and every action property the runs check is the statement of a theorem here.
Only model-checked are the liveness properties (`EverySendSettles`, `OverageIsBilled`,
`DeliverySettles`, `ScheduledSettles`, `NotesAreHandled`, `EventsAreHandled`, `RunsSettle`, `EventSettles`), which rest
on fairness and are out of the prover's reach.

## Plan

Done, in this order: EmailDelivery and the cron route's promotion, OverageLedger and BillingOverage
with the refinement, WebhookDispatch, BroadcastFanout, EmailAcceptance, SesFeedback,
StripeSync, AutomationRun and InboundIngestion; the proofs of every module; those of the action properties.

Next, in order of what they protect:

1. **Abstract specifications** beside the ledger, with the detailed modules proved to implement them: a
   mailbox that hands an email over once per grant (EmailDelivery), and the fan-out of a notification (SesFeedback).
2. **Composition** of EmailAcceptance with EmailDelivery (the rows it commits, the workers that send them), and of SesFeedback
   with WebhookDispatch: from hand-off to a settled delivery of its event. The interfaces are rows and jobs that
   both sides have; the state space of the pair needs coarser modules of each.
3. **Dedicated IP pools**, an approval workflow of a person.

## Not modelled

| part | why |
|---|---|
| Scheduler and heartbeats | one loop that posts to each job route and gives up on an answer after 20 s; what follows from it, scans that repeat and overlap, is in every module |
| Domains, DKIM and deliverability | calls to SES and DNS, one row at a time; `ResolveDomain` is the part the delivery path depends on |
| Contacts, topics, segments, unsubscribe | updates of one row; the contact an automation works on is in AutomationRun |
| API keys, sessions, rate limiting, middleware | stateless, or counters in one process's memory |
| Dashboard exports | a job is made, filled and finished within its request |
| Templates, tracking, traces, logs, health | rendering and reading |
| Dashboard, documentation, SDKs, SMTP relay, MCP server | clients of the API with no shared state; by lines the larger part of the repository |
| The sandbox simulation of test recipients | a path of the worker that never reaches SES |
