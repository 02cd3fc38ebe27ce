---------------------------- MODULE EmailAcceptance ----------------------------
(***************************************************************************)
(* POST /api/emails and POST /api/emails/batch: the idempotency key, the   *)
(* transaction that reserves quota and inserts the rows, the publishing of *)
(* their jobs after the commit, and the release of the quota when a        *)
(* request fails.                                                          *)
(*                                                                         *)
(* Every action is one statement, one transaction or one queue call of one *)
(* request.  A day is the idempotency window: a row made on an earlier day *)
(* is outside it, and no request lasts that long.  Requests that end       *)
(* before the transaction (invalid, suppressed) change nothing and are     *)
(* left out; so is a deployment without billing, which reserves nothing.   *)
(***************************************************************************)
EXTENDS Integers, FiniteSets

CONSTANTS
  Requests,     \* HTTP requests of one user
  Keys,         \* idempotency keys
  Emails,       \* pool of rows of the emails table
  BatchSize,    \* accepted items of a batch request
  ChunkSize,    \* rows of a batch published at a time
  LastPeriod,   \* bound on billing periods
  LastDay,      \* bound on days
  MaxSwitches,  \* bound on changes of the subscription
  MaxFaults,    \* bound on failing database and queue calls
  MaxCrashes,   \* bound on requests whose process dies
  None          \* no key, no request

ASSUME AcceptanceAssumption ==
  /\ IsFiniteSet(Emails)
  /\ BatchSize \in Nat \ {0} /\ ChunkSize \in Nat \ {0}
  /\ LastPeriod \in Nat /\ LastDay \in Nat
  /\ MaxSwitches \in Nat /\ MaxFaults \in Nat /\ MaxCrashes \in Nat
  /\ None \notin Keys \cup Requests

VARIABLES
  row,       \* emails: status, idempotency_key, created_at, request and billing period
  quota,     \* usage_periods.emails_sent, per billing period
  world,     \* day, billing period, and whether the subscription is active
  req,       \* per request: where it is, its kind and its key
  todo,      \* per request: inserted rows not yet handed to publishBackgroundJob
  chunk,     \* per request: rows being published
  failing,   \* per request: rows whose publish threw, to be audited
  jobs,      \* history: rows an email.send job was published for
  unearned,  \* history: units a period got back for emails that had not failed
  spent      \* how much of each bound is used up

vars == <<row, quota, world, req, todo, chunk, failing, jobs, unearned, spent>>

Periods  == 0..LastPeriod
Statuses == {"absent", "queued", "scheduled", "failed"}
Steps    == {"lookup", "accept", "publish", "release"}
Answers  == {"replayed", "refused", "accepted", "error", "crashed"}
Kinds    == {"single", "batch"}
Size(kind) == IF kind = "single" THEN 1 ELSE BatchSize

NoRow   == [status |-> "absent", key |-> None, day |-> 0, by |-> None, period |-> 0]
RowType == [status: Statuses, key: Keys \cup {None}, day: Nat,
            by: Requests \cup {None}, period: Periods]
ReqType == [pc: {"new"} \cup Steps \cup Answers, kind: Kinds, key: Keys \cup {None}]

Pending(r) == todo[r] \cup chunk[r] \cup failing[r]

RowsOK ==
  /\ row \in [Emails -> RowType]
  /\ \A e \in Emails : IF row[e].status = "absent" THEN row[e] = NoRow ELSE row[e].by \in Requests
  /\ jobs \subseteq Emails

AccountsOK ==
  /\ quota \in [Periods -> Nat] /\ unearned \in [Periods -> Nat]
  /\ world \in [day: Nat, period: Periods, active: BOOLEAN]

RequestsOK ==
  /\ req \in [Requests -> ReqType]
  /\ todo \in [Requests -> SUBSET Emails]
  /\ chunk \in [Requests -> SUBSET Emails]
  /\ failing \in [Requests -> SUBSET Emails]
  /\ \A r \in Requests : \A e \in Pending(r) : row[e].by = r

\* Accounts never go below zero, and what a request works on is its own.
TypeOK == RowsOK /\ AccountsOK /\ RequestsOK /\ spent \in [{"switch", "fault", "crash"} -> Nat]

Init ==
  /\ row = [e \in Emails |-> NoRow]
  /\ quota = [p \in Periods |-> 0]
  /\ world = [day |-> 0, period |-> 0, active |-> TRUE]
  /\ req = [r \in Requests |-> [pc |-> "new", kind |-> "single", key |-> None]]
  /\ todo = [r \in Requests |-> {}]
  /\ chunk = [r \in Requests |-> {}]
  /\ failing = [r \in Requests |-> {}]
  /\ jobs = {}
  /\ unearned = [p \in Periods |-> 0]
  /\ spent = [k \in {"switch", "fault", "crash"} |-> 0]

-----------------------------------------------------------------------------
(* Shared steps *)

Limit(k) == CASE k = "switch" -> MaxSwitches [] k = "fault" -> MaxFaults [] k = "crash" -> MaxCrashes
Spend(k) == spent[k] < Limit(k) /\ spent' = [spent EXCEPT ![k] = @ + 1]
Goto(r, step) == req' = [req EXCEPT ![r].pc = step]

Exists(e) == row[e].status # "absent"
Made(r)   == {e \in Emails : row[e].by = r}

\* Rows that hold the request's key, inside its window and outside it.
Holders(r) == {e \in Emails : Exists(e) /\ req[r].key # None /\ row[e].key = req[r].key}
Fresh(r)   == {e \in Holders(r) : row[e].day = world.day}
Stale(r)   == Holders(r) \ Fresh(r)

\* Mutated forms, each a bug this code could plausibly have, stand right before
\* the definition they are forms of; no specification uses them.
Expire_AnyAge(r) == [e \in Emails |-> IF e \in Holders(r) THEN [row[e] EXCEPT !.key = None] ELSE row[e]]
\* The key is taken off rows outside the window.
Expire(r) == [e \in Emails |-> IF e \in Stale(r) THEN [row[e] EXCEPT !.key = None] ELSE row[e]]

\* The unique index on (user, key), as the inserts find it.
Taken(r) == \E e \in Emails : req[r].key # None /\ Expire(r)[e].key = req[r].key

\* One row per item, the key on the first one; some items are scheduled.
Insert(r, new, later, anchor) ==
  row' = [e \in Emails |->
            IF e \in new
            THEN [status |-> IF e \in later THEN "scheduled" ELSE "queued",
                  key |-> IF e = anchor THEN req[r].key ELSE None,
                  day |-> world.day, by |-> r, period |-> world.period]
            ELSE Expire(r)[e]]

Reserve_OnePerRequest(r) == quota' = [quota EXCEPT ![world.period] = @ + 1]
\* reserveEmailQuota for an active subscription.
Reserve(r) == quota' = [quota EXCEPT ![world.period] = @ + Size(req[r].kind)]

\* The transaction commits; the row lock on usage_periods makes it atomic.
Commit(r, new, later) ==
  /\ world.active /\ ~Taken(r)
  /\ new \subseteq {e \in Emails : ~Exists(e)} /\ Cardinality(new) = Size(req[r].kind)
  /\ later \subseteq new
  /\ \E anchor \in new : Insert(r, new, later, anchor)
  /\ Reserve(r)

-----------------------------------------------------------------------------
(* A request *)

Start(r) ==
  /\ req[r].pc = "new"
  /\ \E kind \in Kinds, key \in Keys \cup {None} :
       req' = [req EXCEPT ![r] = [pc |-> IF key = None THEN "accept" ELSE "lookup",
                                  kind |-> kind, key |-> key]]
  /\ UNCHANGED <<row, quota, world, todo, chunk, failing, jobs, unearned, spent>>

\* The idempotency check: a row of the window is answered with.
Lookup(r) ==
  /\ req[r].pc = "lookup"
  /\ Goto(r, IF Fresh(r) # {} THEN "replayed" ELSE "accept")
  /\ UNCHANGED <<row, quota, world, todo, chunk, failing, jobs, unearned, spent>>

Accept(r) ==
  /\ req[r].pc = "accept"
  /\ \E new, later \in SUBSET Emails :
       /\ Commit(r, new, later)
       /\ todo' = [todo EXCEPT ![r] = new \ later]
  /\ Goto(r, "publish")
  /\ UNCHANGED <<world, chunk, failing, jobs, unearned, spent>>

\* 402.  The refusal is returned from the transaction, which commits.
RefuseQuota(r) ==
  /\ req[r].pc = "accept" /\ ~world.active
  /\ row' = Expire(r)
  /\ Goto(r, "refused")
  /\ UNCHANGED <<quota, world, todo, chunk, failing, jobs, unearned, spent>>

\* A single send notes its reservation inside the transaction, a batch after it.
AfterRollback(r) == IF req[r].kind = "single" THEN "release" ELSE "error"

Conflict_KeepsReservation(r) ==
  /\ req[r].pc = "accept" /\ world.active /\ Taken(r)
  /\ Reserve(r)
  /\ Goto(r, AfterRollback(r))
  /\ UNCHANGED <<row, world, todo, chunk, failing, jobs, unearned, spent>>

\* A row of the window has the key: the insert throws, after the reservation.
Conflict(r) ==
  /\ req[r].pc = "accept" /\ world.active /\ Taken(r)
  /\ Goto(r, AfterRollback(r))
  /\ UNCHANGED <<row, quota, world, todo, chunk, failing, jobs, unearned, spent>>

\* The transaction throws before or after its reservation and is rolled back,
\* or it is committed and its answer is lost.
AcceptFails(r) ==
  /\ req[r].pc = "accept" /\ Spend("fault")
  /\ \/ UNCHANGED <<row, quota>> /\ (Goto(r, "error") \/ (world.active /\ Goto(r, AfterRollback(r))))
     \/ /\ \E new, later \in SUBSET Emails : Commit(r, new, later)
        /\ Goto(r, AfterRollback(r))
  /\ UNCHANGED <<world, todo, chunk, failing, jobs, unearned>>

AtMost(n, S) == {T \in SUBSET S : Cardinality(T) = IF Cardinality(S) < n THEN Cardinality(S) ELSE n}

NextChunk_FirstOnly(r) ==
  /\ req[r].pc = "publish" /\ chunk[r] = {} /\ failing[r] = {} /\ todo[r] # {}
  /\ \E next \in AtMost(ChunkSize, todo[r]) : chunk' = [chunk EXCEPT ![r] = next]
  /\ todo' = [todo EXCEPT ![r] = {}]
  /\ UNCHANGED <<row, quota, world, req, failing, jobs, unearned, spent>>

\* The rows of a chunk are published at the same time.
NextChunk(r) ==
  /\ req[r].pc = "publish" /\ chunk[r] = {} /\ failing[r] = {} /\ todo[r] # {}
  /\ \E next \in AtMost(ChunkSize, todo[r]) :
       /\ chunk' = [chunk EXCEPT ![r] = next]
       /\ todo' = [todo EXCEPT ![r] = @ \ next]
  /\ UNCHANGED <<row, quota, world, req, failing, jobs, unearned, spent>>

\* publishBackgroundJob.  Once one row of a chunk has failed the request moves
\* on, and the others go on behind its back.
Publish(r, e) ==
  /\ e \in chunk[r]
  /\ chunk' = [chunk EXCEPT ![r] = @ \ {e}]
  /\ jobs' = jobs \cup {e}
  /\ UNCHANGED <<row, quota, world, req, todo, failing, unearned, spent>>

\* SendMessage throws, whether or not SQS took the message.
PublishFails(r, e) ==
  /\ e \in chunk[r] /\ Spend("fault")
  /\ chunk' = [chunk EXCEPT ![r] = @ \ {e}]
  /\ failing' = [failing EXCEPT ![r] = @ \cup {e}]
  /\ jobs' = jobs \cup {e} \/ UNCHANGED jobs
  /\ UNCHANGED <<row, quota, world, req, todo, unearned>>

\* The first rejection makes the request fail.
Reject(r) == Goto(r, IF req[r].pc = "publish" THEN "release" ELSE req[r].pc)

\* auditQueuePublishFailure, then the exception is thrown on.
Audit(r, e) ==
  /\ e \in failing[r]
  /\ row' = [row EXCEPT ![e].status = "failed"]
  /\ failing' = [failing EXCEPT ![r] = @ \ {e}]
  /\ Reject(r)
  /\ UNCHANGED <<quota, world, todo, chunk, jobs, unearned, spent>>

AuditFails(r, e) ==
  /\ e \in failing[r] /\ Spend("fault")
  /\ failing' = [failing EXCEPT ![r] = @ \ {e}]
  /\ Reject(r)
  /\ UNCHANGED <<row, quota, world, todo, chunk, jobs, unearned>>

\* All jobs are out.  quotaReserved is cleared before anything else can throw
\* (the webhook of a scheduled email, the log).
Answer(r) ==
  /\ req[r].pc = "publish" /\ Pending(r) = {}
  /\ \/ Goto(r, "accepted") /\ UNCHANGED spent
     \/ Goto(r, "error") /\ Spend("fault")
  /\ UNCHANGED <<row, quota, world, todo, chunk, failing, jobs, unearned>>

Least(m, n) == IF m < n THEN m ELSE n

\* releaseEmailQuota: the whole request's units go back to the period of now.
Release(r) ==
  LET p == world.period
      back == Least(Size(req[r].kind), quota[p])
      due == Cardinality({e \in Made(r) : row[e].status = "failed" /\ row[e].period = p})
  IN
  /\ req[r].pc = "release"
  /\ IF world.active
     THEN /\ quota' = [quota EXCEPT ![p] = @ - back]
          /\ unearned' = [unearned EXCEPT ![p] = IF back > due THEN @ + (back - due) ELSE @]
     ELSE UNCHANGED <<quota, unearned>>
  /\ Goto(r, "error")
  /\ UNCHANGED <<row, world, todo, chunk, failing, jobs, spent>>

\* Failures of the release are swallowed.
ReleaseFails(r) ==
  /\ req[r].pc = "release" /\ Spend("fault") /\ Goto(r, "error")
  /\ UNCHANGED <<row, quota, world, todo, chunk, failing, jobs, unearned>>

Crash(r) ==
  /\ req[r].pc \in Steps \/ Pending(r) # {}
  /\ Spend("crash") /\ Goto(r, "crashed")
  /\ todo' = [todo EXCEPT ![r] = {}]
  /\ chunk' = [chunk EXCEPT ![r] = {}]
  /\ failing' = [failing EXCEPT ![r] = {}]
  /\ UNCHANGED <<row, quota, world, jobs, unearned>>

-----------------------------------------------------------------------------
(* Time and the subscription (external) *)

\* The window of every key ends.  No request is under way that long.
DayPasses ==
  /\ world.day < LastDay
  /\ \A r \in Requests : req[r].pc \notin Steps /\ Pending(r) = {}
  /\ world' = [world EXCEPT !.day = @ + 1]
  /\ UNCHANGED <<row, quota, req, todo, chunk, failing, jobs, unearned, spent>>

\* A new billing period begins, at any moment of a request.
PeriodBegins ==
  /\ world.period < LastPeriod
  /\ world' = [world EXCEPT !.period = @ + 1]
  /\ UNCHANGED <<row, quota, req, todo, chunk, failing, jobs, unearned, spent>>

SubscriptionSwitches ==
  /\ Spend("switch")
  /\ world' = [world EXCEPT !.active = ~@]
  /\ UNCHANGED <<row, quota, req, todo, chunk, failing, jobs, unearned>>

-----------------------------------------------------------------------------
Serve(r) ==
  \/ Start(r) \/ Lookup(r) \/ Accept(r) \/ RefuseQuota(r) \/ Conflict(r)
  \/ NextChunk(r) \/ Answer(r) \/ Release(r)
  \/ \E e \in Emails : Publish(r, e) \/ Audit(r, e)

ServeFault(r) ==
  \/ AcceptFails(r) \/ ReleaseFails(r) \/ Crash(r)
  \/ \E e \in Emails : PublishFails(r, e) \/ AuditFails(r, e)

Next ==
  \/ \E r \in Requests : Serve(r) \/ ServeFault(r)
  \/ DayPasses \/ PeriodBegins \/ SubscriptionSwitches

Spec == Init /\ [][Next]_vars

-----------------------------------------------------------------------------
(* Properties *)

\* A key is accepted once: of two requests with one key, both of which inserted
\* rows, one came after the other's window, whatever their lookups saw.
KeyAcceptedOnce ==
  \A e, f \in Emails :
    LET q == row[e].by
        r == row[f].by
    IN
    Exists(e) /\ Exists(f) /\ q # r /\ req[q].key = req[r].key /\ req[q].key # None
      => row[e].day # row[f].day

In(p, statuses) == Cardinality({e \in Emails : row[e].period = p /\ row[e].status \in statuses})

\* A period is never charged for more emails than it accepted: a reservation
\* without a row does not survive.
NeverOvercharged ==
  \A p \in Periods : quota[p] <= In(p, {"queued", "scheduled", "failed"})

\* An email that can still be sent is charged, but for the units that releases
\* gave back although their emails had not failed.
SendableIsCharged ==
  \A p \in Periods : In(p, {"queued", "scheduled"}) <= quota[p] + unearned[p]

\* A request that is answered as accepted left no email behind: each of its
\* rows is scheduled or has its job, and none was failed.
AcceptedIsPublished ==
  \A r \in Requests : req[r].pc = "accepted" =>
    \A e \in Made(r) : row[e].status = "scheduled" \/ (row[e].status = "queued" /\ e \in jobs)

\* A replayed answer speaks of an email that has not failed to be accepted.  It
\* does not hold; the README says how to see it.
ReplaysAnAcceptance ==
  [][\A r \in Requests : req[r].pc = "lookup" /\ req'[r].pc = "replayed" =>
       \E e \in Fresh(r) : row[e].status # "failed"]_vars

=============================================================================
