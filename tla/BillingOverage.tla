---------------------------- MODULE BillingOverage ----------------------------
(***************************************************************************)
(* Overage reporting to Stripe (/jobs/billing-overage of the ingester):    *)
(* schedulers claim ranges of overage emails into an outbox of reports,    *)
(* send each report as a meter event and advance the reported cursor.      *)
(* Scans overlap: the job is started every minute and nothing keeps a slow *)
(* scan and the next one apart but row locks and the report lease.         *)
(*                                                                         *)
(* An email of a period is a position 1..Top of its overage, so that what  *)
(* Stripe was told is a count per position.  A lease is fresh or it is     *)
(* not; Stripe's memory of an identifier lasts until it is forgotten.      *)
(***************************************************************************)
EXTENDS Integers

CONSTANTS
  Periods,      \* usage_periods rows
  Reporters,    \* concurrent runs of reportBillingOverageUsage
  Included,     \* includedEmailQuota
  Top,          \* bound on the overage of a period
  MaxCrashes,   \* bound on process crashes
  MaxFaults,    \* bound on failing DB and Stripe calls
  MaxOverruns,  \* bound on leases expiring under a live reporter
  MaxForgets,   \* bound on identifiers leaving Stripe's deduplication window
  None          \* no period

ASSUME OverageAssumption ==
  /\ Included \in Nat /\ Top \in Nat
  /\ MaxCrashes \in Nat /\ MaxFaults \in Nat
  /\ MaxOverruns \in Nat /\ MaxForgets \in Nat
  /\ None \notin Periods

Pos  == 1..Top
\* A report and its Stripe identifier: buildReportIdentity.
Keys == [period: Periods, from: Pos, through: Pos]

VARIABLES
  sent,      \* emailsSent
  open,      \* the period is still within the scan's status and date window
  claimed,   \* overageClaimedEmails
  reported,  \* overageReportedEmails
  report,    \* billing_overage_reports: status, and whether its lease is fresh
  pc, todo, work,  \* per reporter: step, periods left to handle, its report
  billed,    \* Stripe's meter: how often each overage email was counted
  seen,      \* identifiers Stripe still remembers
  spent      \* how much of each bound is used up

vars == <<sent, open, claimed, reported, report, pc, todo, work, billed, seen, spent>>

Faults == {"crash", "fault", "overrun", "forget"}
Job(p) == [period |-> p, from |-> 0, through |-> 0]   \* no report yet
NoWork == Job(None)

ReportType == [status: {"absent", "sending", "failed", "reported"}, leased: BOOLEAN]
Submitting(r) == pc[r] \in {"stripe", "mark", "fail"}

PeriodsOK   == /\ sent \in [Periods -> 0..(Included + Top)] /\ open \in [Periods -> BOOLEAN]
               /\ claimed \in [Periods -> 0..Top] /\ reported \in [Periods -> 0..Top]
ReportsOK   == report \in [Keys -> ReportType]
ReportersOK == /\ pc \in [Reporters -> {"idle", "scan", "lock", "stripe", "mark", "fail"}]
               /\ todo \in [Reporters -> SUBSET Periods]
               /\ work \in [Reporters -> [period: Periods \cup {None}, from: 0..Top, through: 0..Top]]
               /\ \A r \in Reporters : /\ Submitting(r) => work[r] \in Keys
                                       /\ pc[r] = "lock" => work[r].period \in Periods
StripeOK    == billed \in [Periods -> [Pos -> Nat]] /\ seen \subseteq Keys
SpentOK     == spent \in [Faults -> Nat]

TypeOK == PeriodsOK /\ ReportsOK /\ ReportersOK /\ StripeOK /\ SpentOK

Init ==
  /\ sent = [p \in Periods |-> 0] /\ open = [p \in Periods |-> TRUE]
  /\ claimed = [p \in Periods |-> 0] /\ reported = [p \in Periods |-> 0]
  /\ report = [k \in Keys |-> [status |-> "absent", leased |-> FALSE]]
  /\ pc = [r \in Reporters |-> "idle"]
  /\ todo = [r \in Reporters |-> {}]
  /\ work = [r \in Reporters |-> NoWork]
  /\ billed = [p \in Periods |-> [i \in Pos |-> 0]]
  /\ seen = {}
  /\ spent = [f \in Faults |-> 0]

-----------------------------------------------------------------------------
Limit(f) == CASE f = "crash" -> MaxCrashes [] f = "fault" -> MaxFaults
              [] f = "overrun" -> MaxOverruns [] f = "forget" -> MaxForgets
Spend(f) == spent[f] < Limit(f) /\ spent' = [spent EXCEPT ![f] = @ + 1]

\* GREATEST(emails_sent - included, 0)
Overage(p) == IF sent[p] > Included THEN sent[p] - Included ELSE 0

\* The scan's WHERE clause.
Reportable(p) == open[p] /\ Overage(p) > reported[p]

\* Mutated forms, each a bug this code could plausibly have, stand right before
\* the definition they are forms of; no specification uses them.
Pending_NotFailed(p) == {k \in Keys : k.period = p /\ report[k].status = "sending"}

\* Reports of a period that are not settled, and the oldest of them.
Pending(p)   == {k \in Keys : k.period = p /\ report[k].status \in {"sending", "failed"}}
Oldest(p, k) == k \in Pending(p) /\ \A l \in Pending(p) : k.from <= l.from

AlreadyClaimed_Reported(p) == reported[p]
AlreadyClaimed(p) == IF reported[p] > claimed[p] THEN reported[p] ELSE claimed[p]

\* reportOneUsagePeriod is over for the reporter's period: on to the next one.
NextPeriod(r) ==
  /\ todo' = [todo EXCEPT ![r] = @ \ {work[r].period}]
  /\ pc' = [pc EXCEPT ![r] = IF todo[r] \subseteq {work[r].period} THEN "idle" ELSE "scan"]
  /\ work' = [work EXCEPT ![r] = NoWork]

\* An exception outside the try block, or the end of the process.
Abandon(r) ==
  /\ pc' = [pc EXCEPT ![r] = "idle"]
  /\ todo' = [todo EXCEPT ![r] = {}]
  /\ work' = [work EXCEPT ![r] = NoWork]

Goto(r, step) == pc' = [pc EXCEPT ![r] = step] /\ UNCHANGED <<todo, work>>

-----------------------------------------------------------------------------
(* The counters the reporter reads: quota reservations and their release *)

Reserve(p) ==
  /\ open[p] /\ sent[p] < Included + Top
  /\ sent' = [sent EXCEPT ![p] = @ + 1]
  /\ UNCHANGED <<open, claimed, reported, report, pc, todo, work, billed, seen, spent>>

\* A request that had reserved fails and gives its reservation back.
Release(p) ==
  /\ open[p] /\ sent[p] > 0
  /\ sent' = [sent EXCEPT ![p] = @ - 1]
  /\ UNCHANGED <<open, claimed, reported, report, pc, todo, work, billed, seen, spent>>

\* 30 days after its end, or with its subscription gone, a period drops out.
Close(p) ==
  /\ open[p] /\ open' = [open EXCEPT ![p] = FALSE]
  /\ UNCHANGED <<sent, claimed, reported, report, pc, todo, work, billed, seen, spent>>

-----------------------------------------------------------------------------
(* reportBillingOverageUsage *)

LoadPeriods(r) ==
  /\ pc[r] = "idle" /\ \E p \in Periods : Reportable(p)
  /\ todo' = [todo EXCEPT ![r] = {p \in Periods : Reportable(p)}]
  /\ pc' = [pc EXCEPT ![r] = "scan"]
  /\ UNCHANGED <<sent, open, claimed, reported, report, work, billed, seen, spent>>

\* First half of the claim: no unsettled report is visible.
FindNoReport(r, p) ==
  /\ pc[r] = "scan" /\ p \in todo[r] /\ Pending(p) = {}
  /\ pc' = [pc EXCEPT ![r] = "lock"]
  /\ work' = [work EXCEPT ![r] = Job(p)]
  /\ UNCHANGED <<sent, open, claimed, reported, report, todo, billed, seen, spent>>

\* The oldest unsettled report is still being sent under a fresh lease.
SkipLeased(r, k) ==
  /\ pc[r] = "scan" /\ k.period \in todo[r] /\ Oldest(k.period, k)
  /\ report[k].status = "sending" /\ report[k].leased
  /\ todo' = [todo EXCEPT ![r] = @ \ {k.period}]
  /\ pc' = [pc EXCEPT ![r] = IF todo[r] = {k.period} THEN "idle" ELSE "scan"]
  /\ UNCHANGED <<sent, open, claimed, reported, report, work, billed, seen, spent>>

\* It failed, or its lease ran out: claim it again.
Reclaim(r, k) ==
  /\ pc[r] = "scan" /\ k.period \in todo[r] /\ Oldest(k.period, k)
  /\ report[k].status = "sending" => ~report[k].leased
  /\ report' = [report EXCEPT ![k] = [status |-> "sending", leased |-> TRUE]]
  /\ pc' = [pc EXCEPT ![r] = "stripe"]
  /\ work' = [work EXCEPT ![r] = k]
  /\ UNCHANGED <<sent, open, claimed, reported, todo, billed, seen, spent>>

\* Second half of the claim, under the period's row lock: what an earlier
\* reporter has claimed meanwhile is not claimed again.
ClaimRange(r) ==
  LET p == work[r].period
      k == [period |-> p, from |-> AlreadyClaimed(p) + 1, through |-> Overage(p)]
  IN
  /\ pc[r] = "lock" /\ Overage(p) > AlreadyClaimed(p)
  /\ claimed' = [claimed EXCEPT ![p] = Overage(p)]
  /\ report' = [report EXCEPT ![k] = [status |-> "sending", leased |-> TRUE]]
  /\ pc' = [pc EXCEPT ![r] = "stripe"]
  /\ work' = [work EXCEPT ![r] = k]
  /\ UNCHANGED <<sent, open, reported, todo, billed, seen, spent>>

NothingToClaim(r) ==
  /\ pc[r] = "lock" /\ Overage(work[r].period) <= AlreadyClaimed(work[r].period)
  /\ NextPeriod(r)
  /\ UNCHANGED <<sent, open, claimed, reported, report, billed, seen, spent>>

Count_Undeduplicated(k) ==
  /\ billed' = [billed EXCEPT ![k.period] =
                  [i \in Pos |-> IF i \in k.from..k.through THEN @[i] + 1 ELSE @[i]]]
  /\ seen' = seen \cup {k}

\* Stripe counts a meter event unless it remembers its identifier.
Count(k) ==
  /\ billed' = IF k \in seen THEN billed ELSE
                [billed EXCEPT ![k.period] =
                  [i \in Pos |-> IF i \in k.from..k.through THEN @[i] + 1 ELSE @[i]]]
  /\ seen' = seen \cup {k}

SubmitReport(r) ==
  /\ pc[r] = "stripe" /\ Count(work[r]) /\ Goto(r, "mark")
  /\ UNCHANGED <<sent, open, claimed, reported, report, spent>>

\* meterEvents.create throws, whether or not Stripe counted the event.
SubmitFails(r) ==
  /\ pc[r] = "stripe" /\ Spend("fault") /\ Goto(r, "fail")
  /\ Count(work[r]) \/ UNCHANGED <<billed, seen>>
  /\ UNCHANGED <<sent, open, claimed, reported, report>>

\* The transaction of markDefaultOverageReportReported.
Settle(k) ==
  IF report[k].status = "sending"
  THEN /\ report' = [report EXCEPT ![k].status = "reported"]
       /\ reported' = IF reported[k.period] < k.through
                      THEN [reported EXCEPT ![k.period] = k.through] ELSE reported
  ELSE UNCHANGED <<report, reported>>

MarkReported(r) ==
  /\ pc[r] = "mark" /\ Settle(work[r]) /\ NextPeriod(r)
  /\ UNCHANGED <<sent, open, claimed, billed, seen, spent>>

\* It throws, before or after it committed.
MarkReportedFails(r) ==
  /\ pc[r] = "mark" /\ Spend("fault") /\ Goto(r, "fail")
  /\ Settle(work[r]) \/ UNCHANGED <<report, reported>>
  /\ UNCHANGED <<sent, open, claimed, billed, seen>>

MarkFailed_AsReported(r) ==
  /\ pc[r] = "fail" /\ Settle(work[r]) /\ NextPeriod(r)
  /\ UNCHANGED <<sent, open, claimed, billed, seen, spent>>

\* markDefaultOverageReportFailed: whatever the report's status is by now.
MarkFailed(r) ==
  /\ pc[r] = "fail" /\ NextPeriod(r)
  /\ report' = [report EXCEPT ![work[r]].status = "failed"]
  /\ UNCHANGED <<sent, open, claimed, reported, billed, seen, spent>>

\* The claim or markDefaultOverageReportFailed throws: the scan is given up.
ScanFails(r) ==
  /\ pc[r] \in {"scan", "lock", "fail"} /\ Spend("fault") /\ Abandon(r)
  /\ UNCHANGED <<sent, open, claimed, reported, report, billed, seen>>

Crash(r) ==
  /\ pc[r] # "idle" /\ Spend("crash") /\ Abandon(r)
  /\ UNCHANGED <<sent, open, claimed, reported, report, billed, seen>>

-----------------------------------------------------------------------------
(* The clock and Stripe (external) *)

Attended(k) == \E r \in Reporters : Submitting(r) /\ work[r] = k

RunOut(k) ==
  /\ report[k].status = "sending" /\ report[k].leased
  /\ report' = [report EXCEPT ![k].leased = FALSE]
  /\ UNCHANGED <<sent, open, claimed, reported, pc, todo, work, billed, seen>>

\* The lease of a report nobody is sending any more.
LeaseExpires(k) == ~Attended(k) /\ RunOut(k) /\ UNCHANGED spent
\* The lease of a report in a live scan, whose leases all start with the scan.
LeaseOverrun(k) == Attended(k) /\ RunOut(k) /\ Spend("overrun")

\* A day or more passes.  The job runs every minute, so by then no scan is
\* still at the report's period or has a reason to load it.
Forget(k) ==
  /\ k \in seen /\ ~Reportable(k.period) /\ Spend("forget")
  /\ \A r \in Reporters : k.period \notin todo[r]
  /\ seen' = seen \ {k}
  /\ UNCHANGED <<sent, open, claimed, reported, report, pc, todo, work, billed>>

-----------------------------------------------------------------------------
Report(r) ==
  \/ LoadPeriods(r)
  \/ \E p \in Periods : FindNoReport(r, p)
  \/ \E k \in Keys : SkipLeased(r, k) \/ Reclaim(r, k)
  \/ ClaimRange(r) \/ NothingToClaim(r)
  \/ SubmitReport(r) \/ MarkReported(r) \/ MarkFailed(r)

ReportFault(r) == SubmitFails(r) \/ MarkReportedFails(r) \/ ScanFails(r) \/ Crash(r)

Next ==
  \/ \E p \in Periods : Reserve(p) \/ Release(p) \/ Close(p)
  \/ \E r \in Reporters : Report(r) \/ ReportFault(r)
  \/ \E k \in Keys : LeaseExpires(k) \/ LeaseOverrun(k) \/ Forget(k)

Spec == Init /\ [][Next]_vars

\* The job is started again and again and a scan runs to its end; leases run
\* out.  Sends, closing and every failure are left to chance.
Fairness ==
  /\ \A r \in Reporters : WF_vars(Report(r))
  /\ \A k \in Keys : WF_vars(LeaseExpires(k))

FairSpec == Spec /\ Fairness

-----------------------------------------------------------------------------
(* Properties *)

Registered(k) == report[k].status # "absent"
Covers(k, i) == Registered(k) /\ i \in k.from..k.through

\* The reports of a period cut its claimed overage into ranges: every claimed
\* email is in exactly one report and no report reaches past the claimed
\* cursor, however scans overlap.
ReportsPartitionClaimed ==
  \A p \in Periods, i \in Pos :
    /\ i <= claimed[p] => \E k \in Keys : k.period = p /\ Covers(k, i)
    /\ \A k \in Keys : k.period = p /\ Covers(k, i) =>
         /\ i <= claimed[p]
         /\ \A l \in Keys : l.period = p /\ Covers(l, i) => l = k

\* Stripe counts an overage email once, plus at most once for every time it
\* has forgotten an identifier: crashes, lost answers, expired leases and
\* retries count nothing twice.
BilledOnce ==
  \A p \in Periods, i \in Pos : billed[p][i] <= 1 + spent["forget"]

\* Why that holds, as one inductive statement: the reported cursor follows the
\* claimed one; reports are disjoint ranges that fill the claimed overage;
\* reporters and Stripe know registered reports only; and an email has been
\* counted no more often than its report's identifier was forgotten, plus once
\* if Stripe remembers it.
CursorsOrdered == \A p \in Periods : reported[p] <= claimed[p]
RangesDisjoint ==
  \A k \in Keys : Registered(k) =>
    /\ k.from <= k.through /\ k.through <= claimed[k.period]
    /\ \A l \in Keys : Registered(l) /\ l.period = k.period /\ l # k =>
         k.through < l.from \/ l.through < k.from
RangesFill ==
  \A p \in Periods, i \in Pos : i <= claimed[p] => \E k \in Keys : k.period = p /\ Covers(k, i)
OnlyRegistered ==
  /\ \A r \in Reporters : Submitting(r) => Registered(work[r])
  /\ \A k \in seen : Registered(k)
MeterBounded ==
  /\ \A p \in Periods, i \in Pos : i > claimed[p] => billed[p][i] = 0
  /\ \A k \in Keys, i \in Pos : Covers(k, i) =>
       billed[k.period][i] <= spent["forget"] + (IF k \in seen THEN 1 ELSE 0)
OutboxInvariant ==
  CursorsOrdered /\ RangesDisjoint /\ RangesFill /\ OnlyRegistered /\ MeterBounded

\* The email's report is not confirmed, but the reported cursor has passed it:
\* an overlapping scan settled a later report first.  Nothing tries it again
\* until the period has more overage.
Overtaken(p, i) ==
  \E k \in Keys : /\ k.period = p /\ Covers(k, i)
                  /\ report[k].status # "reported" /\ k.through <= reported[p]

\* The reported cursor is the confirmed one: Stripe has counted every email up
\* to it, except for reports that a later one overtook.
CursorIsConfirmed ==
  \A p \in Periods, i \in Pos : i <= reported[p] => billed[p][i] > 0 \/ Overtaken(p, i)

\* Overage is eventually billed, unless it is given back, its report is
\* overtaken or its period leaves the scan's window first.
OverageIsBilled ==
  \A p \in Periods, i \in Pos :
    i <= Overage(p) ~> billed[p][i] > 0 \/ i > Overage(p) \/ Overtaken(p, i) \/ ~open[p]

\* Reports and cursors implement the ledger: Stripe's forgetting is the only
\* source of a repeated count.
Ledger == INSTANCE OverageLedger WITH cursor <- claimed, meter <- billed, MaxRepeats <- MaxForgets
ImplementsLedger == Ledger!LedgerSpec

=============================================================================
