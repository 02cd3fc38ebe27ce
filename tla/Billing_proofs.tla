---------------------------- MODULE Billing_proofs ----------------------------
(***************************************************************************)
(* Machine-checked proofs about billing: BillingOverage, for any number of *)
(* usage periods and overlapping scans, any quota, and any number of       *)
(* crashes, failing calls, expired leases and forgotten identifiers; and,  *)
(* from "StripeSync" on, StripeSync, for any number of subscriptions,      *)
(* events, handlers and failures.                                          *)
(***************************************************************************)
EXTENDS BillingOverage, StripeSync, TLAPS

-----------------------------------------------------------------------------
(* Type correctness *)

\* What an action leaves alone keeps its type.
LEMMA Frame ==
  /\ PeriodsOK /\ UNCHANGED <<sent, open, claimed, reported>> => PeriodsOK'
  /\ ReportsOK /\ UNCHANGED report => ReportsOK'
  /\ ReportersOK /\ UNCHANGED <<pc, todo, work>> => ReportersOK'
  /\ StripeOK /\ UNCHANGED <<billed, seen>> => StripeOK'
  /\ SpentOK /\ UNCHANGED spent => SpentOK'
  BY DEF PeriodsOK, ReportsOK, ReportersOK, StripeOK, SpentOK, Submitting

\* Moving a reporter on keeps the reporters' types.
LEMMA ReporterSteps ==
  ASSUME TypeOK, NEW r \in Reporters
  PROVE  /\ NextPeriod(r) \/ Abandon(r) => ReportersOK'
         /\ \A step \in {"mark", "fail"} : Submitting(r) /\ Goto(r, step) => ReportersOK'
<1> USE OverageAssumption DEF TypeOK, ReportersOK, Submitting
<1>1. NoWork \in [period: Periods \cup {None}, from: 0..Top, through: 0..Top]
  BY DEF NoWork, Job
<1>2. CASE NextPeriod(r)
  BY <1>1, <1>2 DEF NextPeriod
<1>3. CASE Abandon(r)
  BY <1>1, <1>3 DEF Abandon
<1>4. ASSUME NEW step \in {"mark", "fail"}, Submitting(r), Goto(r, step) PROVE ReportersOK'
  BY <1>4 DEF Goto
<1> QED BY <1>2, <1>3, <1>4

LEMMA SpendType ==
  ASSUME TypeOK, NEW f \in Faults, Spend(f) PROVE SpentOK'
  BY DEF TypeOK, SpentOK, Spend

LEMMA CountType ==
  ASSUME TypeOK, NEW k \in Keys, Count(k) PROVE StripeOK'
<1> USE DEF TypeOK, StripeOK, Count, Keys
<1>1. k.period \in Periods BY DEF Keys
<1>2. DEFINE counted == [i \in Pos |-> IF i \in k.from..k.through
                                       THEN billed[k.period][i] + 1 ELSE billed[k.period][i]]
<1>3. counted \in [Pos -> Nat] BY <1>1
<1>4. billed' \in [Periods -> [Pos -> Nat]] BY <1>1, <1>3
<1>5. seen' \subseteq Keys OBVIOUS
<1> QED BY <1>4, <1>5

LEMMA SettleType ==
  ASSUME TypeOK, NEW k \in Keys, Settle(k), UNCHANGED <<sent, open, claimed>>
  PROVE  PeriodsOK' /\ ReportsOK'
<1>1. k.period \in Periods /\ k.through \in 0..Top BY OverageAssumption DEF Keys, Pos
<1>2. reported' \in [Periods -> 0..Top] BY <1>1 DEF TypeOK, PeriodsOK, Settle
<1>3. PeriodsOK' BY <1>2 DEF TypeOK, PeriodsOK
<1>4. ReportsOK' BY DEF TypeOK, ReportsOK, ReportType, Settle
<1> QED BY <1>3, <1>4

\* The range a reporter is about to claim is the key of a report.
LEMMA FreshKey ==
  ASSUME TypeOK, NEW r \in Reporters, pc[r] = "lock",
         Overage(work[r].period) > AlreadyClaimed(work[r].period)
  PROVE  LET p == work[r].period IN
         /\ p \in Periods
         /\ Overage(p) \in 1..Top /\ AlreadyClaimed(p) \in 0..Top
         /\ [period |-> p, from |-> AlreadyClaimed(p) + 1, through |-> Overage(p)] \in Keys
<1> USE OverageAssumption DEF TypeOK
<1>1. work[r].period \in Periods BY DEF ReportersOK
<1>2. Overage(work[r].period) \in 0..Top BY <1>1 DEF PeriodsOK, Overage
<1>3. AlreadyClaimed(work[r].period) \in 0..Top BY <1>1 DEF PeriodsOK, AlreadyClaimed
<1> QED BY <1>1, <1>2, <1>3 DEF Keys, Pos

LEMMA TypeReport ==
  ASSUME TypeOK, NEW r \in Reporters, Report(r) PROVE TypeOK'
<1> USE OverageAssumption DEF TypeOK
<1>1. CASE LoadPeriods(r)
  <2>1. ReportersOK' BY <1>1 DEF LoadPeriods, ReportersOK, Submitting
  <2> QED BY <1>1, <2>1, Frame DEF LoadPeriods
<1>2. ASSUME NEW p \in Periods, FindNoReport(r, p) PROVE TypeOK'
  <2>1. ReportersOK' BY <1>2 DEF FindNoReport, ReportersOK, Submitting, Job
  <2> QED BY <1>2, <2>1, Frame DEF FindNoReport
<1>3. ASSUME NEW k \in Keys, SkipLeased(r, k) PROVE TypeOK'
  <2>1. ReportersOK' BY <1>3 DEF SkipLeased, ReportersOK, Submitting
  <2> QED BY <1>3, <2>1, Frame DEF SkipLeased
<1>4. ASSUME NEW k \in Keys, Reclaim(r, k) PROVE TypeOK'
  <2>1. ReportsOK' BY <1>4 DEF Reclaim, ReportsOK, ReportType
  <2>2. k \in [period: Periods \cup {None}, from: 0..Top, through: 0..Top] BY DEF Keys, Pos
  <2>3. ReportersOK' BY <1>4, <2>2 DEF Reclaim, ReportersOK, Submitting
  <2> QED BY <1>4, <2>1, <2>3, Frame DEF Reclaim
<1>5. CASE ClaimRange(r)
  <2> DEFINE p == work[r].period
             k == [period |-> p, from |-> AlreadyClaimed(p) + 1, through |-> Overage(p)]
  <2>0. pc[r] = "lock" /\ Overage(p) > AlreadyClaimed(p) BY <1>5 DEF ClaimRange
  <2>1. p \in Periods /\ Overage(p) \in 0..Top /\ k \in Keys
    <3>1. p \in Periods /\ Overage(p) \in 1..Top /\ k \in Keys BY <2>0, FreshKey
    <3> QED BY <3>1
  <2>2. k \in [period: Periods \cup {None}, from: 0..Top, through: 0..Top] BY <2>1 DEF Keys, Pos
  <2>3. /\ claimed' = [claimed EXCEPT ![p] = Overage(p)]
        /\ report' = [report EXCEPT ![k] = [status |-> "sending", leased |-> TRUE]]
        /\ pc' = [pc EXCEPT ![r] = "stripe"] /\ work' = [work EXCEPT ![r] = k]
        /\ UNCHANGED <<sent, open, reported, todo, billed, seen, spent>>
    BY <1>5 DEF ClaimRange
  <2> HIDE DEF p, k
  <2>4. PeriodsOK' BY <2>1, <2>3 DEF PeriodsOK
  <2>5. ReportsOK' BY <2>1, <2>3 DEF ReportsOK, ReportType
  <2>6. ReportersOK' BY <2>1, <2>2, <2>3 DEF ReportersOK, Submitting
  <2> QED BY <2>3, <2>4, <2>5, <2>6, Frame
<1>6. CASE NothingToClaim(r)
  BY <1>6, ReporterSteps, Frame DEF NothingToClaim
<1>7. CASE SubmitReport(r)
  <2>1. work[r] \in Keys BY <1>7 DEF SubmitReport, ReportersOK, Submitting
  <2>2. StripeOK' BY <1>7, <2>1, CountType DEF SubmitReport
  <2>3. ReportersOK' BY <1>7, ReporterSteps DEF SubmitReport, Submitting
  <2> QED BY <1>7, <2>2, <2>3, Frame DEF SubmitReport
<1>8. CASE MarkReported(r)
  <2>1. work[r] \in Keys BY <1>8 DEF MarkReported, ReportersOK, Submitting
  <2>2. PeriodsOK' /\ ReportsOK' BY <1>8, <2>1, SettleType DEF MarkReported
  <2>3. ReportersOK' BY <1>8, ReporterSteps DEF MarkReported
  <2> QED BY <1>8, <2>2, <2>3, Frame DEF MarkReported
<1>9. CASE MarkFailed(r)
  <2>1. work[r] \in Keys BY <1>9 DEF MarkFailed, ReportersOK, Submitting
  <2>2. ReportsOK' BY <1>9, <2>1 DEF MarkFailed, ReportsOK, ReportType
  <2>3. ReportersOK' BY <1>9, ReporterSteps DEF MarkFailed
  <2> QED BY <1>9, <2>2, <2>3, Frame DEF MarkFailed
<1> QED BY <1>1, <1>2, <1>3, <1>4, <1>5, <1>6, <1>7, <1>8, <1>9 DEF Report

LEMMA TypeFault ==
  ASSUME TypeOK, NEW r \in Reporters, ReportFault(r) PROVE TypeOK'
<1> USE DEF TypeOK, Faults
<1>1. CASE SubmitFails(r)
  <2>1. work[r] \in Keys BY <1>1 DEF SubmitFails, ReportersOK, Submitting
  <2>2. StripeOK' BY <1>1, <2>1, CountType, Frame DEF SubmitFails
  <2>3. ReportersOK' BY <1>1, ReporterSteps DEF SubmitFails, Submitting
  <2>4. SpentOK' BY <1>1, SpendType DEF SubmitFails
  <2> QED BY <1>1, <2>2, <2>3, <2>4, Frame DEF SubmitFails
<1>2. CASE MarkReportedFails(r)
  <2>1. work[r] \in Keys BY <1>2 DEF MarkReportedFails, ReportersOK, Submitting
  <2>2. PeriodsOK' /\ ReportsOK' BY <1>2, <2>1, SettleType, Frame DEF MarkReportedFails
  <2>3. ReportersOK' BY <1>2, ReporterSteps DEF MarkReportedFails, Submitting
  <2>4. SpentOK' BY <1>2, SpendType DEF MarkReportedFails
  <2> QED BY <1>2, <2>2, <2>3, <2>4, Frame DEF MarkReportedFails
<1>3. CASE ScanFails(r)
  <2>1. SpentOK' BY <1>3, SpendType DEF ScanFails
  <2> QED BY <1>3, <2>1, ReporterSteps, Frame DEF ScanFails
<1>4. CASE Crash(r)
  <2>1. SpentOK' BY <1>4, SpendType DEF Crash
  <2> QED BY <1>4, <2>1, ReporterSteps, Frame DEF Crash
<1> QED BY <1>1, <1>2, <1>3, <1>4 DEF ReportFault

LEMMA TypeWorld ==
  ASSUME TypeOK,
         \/ \E p \in Periods : Reserve(p) \/ Release(p) \/ Close(p)
         \/ \E k \in Keys : LeaseExpires(k) \/ LeaseOverrun(k) \/ Forget(k)
  PROVE  TypeOK'
<1> USE DEF TypeOK, Faults
<1>1. ASSUME NEW p \in Periods, Reserve(p) \/ Release(p) \/ Close(p) PROVE TypeOK'
  <2>1. CASE UNCHANGED sent
    <3>1. PeriodsOK' BY <1>1, <2>1 DEF Reserve, Release, Close, PeriodsOK
    <3> QED BY <1>1, <3>1, Frame DEF Reserve, Release, Close
  <2>2. ASSUME NEW n \in 0..(Included + Top), sent' = [sent EXCEPT ![p] = n],
               UNCHANGED <<open, claimed, reported>>
        PROVE  PeriodsOK'
    BY <2>2 DEF PeriodsOK
  <2>3. sent[p] \in 0..(Included + Top) BY DEF PeriodsOK
  <2>4. CASE Reserve(p)
    <3>1. sent[p] + 1 \in 0..(Included + Top) BY <2>3, <2>4, OverageAssumption DEF Reserve
    <3> QED BY <2>2, <2>4, <3>1, Frame DEF Reserve
  <2>5. CASE Release(p)
    <3>1. sent[p] - 1 \in 0..(Included + Top) BY <2>3, <2>5, OverageAssumption DEF Release
    <3> QED BY <2>2, <2>5, <3>1, Frame DEF Release
  <2> QED BY <1>1, <2>1, <2>4, <2>5 DEF Close
<1>2. ASSUME NEW k \in Keys, RunOut(k), UNCHANGED spent \/ Spend("overrun") PROVE TypeOK'
  <2>1. ReportsOK' BY <1>2 DEF RunOut, ReportsOK, ReportType
  <2>2. SpentOK' BY <1>2, SpendType, Frame
  <2> QED BY <1>2, <2>1, <2>2, Frame DEF RunOut
<1>3. ASSUME NEW k \in Keys, Forget(k) PROVE TypeOK'
  <2>1. StripeOK' BY <1>3 DEF Forget, StripeOK
  <2>2. SpentOK' BY <1>3, SpendType DEF Forget
  <2> QED BY <1>3, <2>1, <2>2, Frame DEF Forget
<1> QED BY <1>1, <1>2, <1>3 DEF LeaseExpires, LeaseOverrun

\* Every variable keeps its type: the cursors stay within the period's overage
\* bound, and a reporter that submits always has a report of a real range.
THEOREM TypeCorrect == Spec => []TypeOK
<1>1. Init => TypeOK
  BY OverageAssumption DEF Init, TypeOK, PeriodsOK, ReportsOK, ReportType, ReportersOK,
     Submitting, StripeOK, SpentOK, Faults, NoWork, Job
<1>2. TypeOK /\ [Next]_vars => TypeOK'
  <2> SUFFICES ASSUME TypeOK, [Next]_vars PROVE TypeOK' OBVIOUS
  <2>1. CASE UNCHANGED vars BY <2>1, Frame DEF vars, TypeOK
  <2>2. CASE Next BY <2>2, TypeReport, TypeFault, TypeWorld DEF Next
  <2> QED BY <2>1, <2>2
<1> QED BY <1>1, <1>2, PTL DEF Spec

-----------------------------------------------------------------------------
(* The outbox invariant *)

\* A step that registers no report and counts nothing keeps the invariant.
LEMMA Quiet ==
  ASSUME TypeOK, OutboxInvariant, TypeOK',
         UNCHANGED <<claimed, billed, seen>>,
         spent'["forget"] = spent["forget"],
         \A k \in Keys : Registered(k)' <=> Registered(k),
         CursorsOrdered',
         \A r \in Reporters : Submitting(r)' => Registered(work'[r])
  PROVE  OutboxInvariant'
<1> USE DEF OutboxInvariant
<1>1. RangesDisjoint' BY DEF RangesDisjoint
<1>2. RangesFill' BY DEF RangesFill, Covers
<1>3. OnlyRegistered'
  <2>1. \A k \in seen : Registered(k)' BY DEF OnlyRegistered, TypeOK, StripeOK
  <2>2. ASSUME NEW r \in Reporters, Submitting(r)' PROVE Registered(work[r])'
    <3>1. work'[r] \in Keys /\ Registered(work'[r]) BY <2>2 DEF TypeOK, ReportersOK
    <3> QED BY <3>1 DEF Registered
  <2> QED BY <2>1, <2>2 DEF OnlyRegistered
<1>4. MeterBounded' BY DEF MeterBounded, Covers
<1> QED BY <1>1, <1>2, <1>3, <1>4

\* Counting a registered report: what Stripe remembers it does not count again.
LEMMA CountKeepsOutbox ==
  ASSUME TypeOK, OutboxInvariant, TypeOK',
         NEW k \in Keys, Registered(k), Count(k),
         UNCHANGED <<claimed, reported, report, work>>,
         spent'["forget"] = spent["forget"],
         \A r \in Reporters : Submitting(r)' => Submitting(r)
  PROVE  OutboxInvariant'
<1> USE DEF OutboxInvariant
<1>1. CursorsOrdered' BY DEF CursorsOrdered
<1>2. RangesDisjoint' BY DEF RangesDisjoint, Registered
<1>3. RangesFill' BY DEF RangesFill, Covers, Registered
<1>4. OnlyRegistered'
  <2>1. \A r \in Reporters : Submitting(r)' => Registered(work[r])'
    BY DEF OnlyRegistered, Registered
  <2>2. \A l \in seen' : Registered(l)' BY DEF OnlyRegistered, Registered, Count
  <2> QED BY <2>1, <2>2 DEF OnlyRegistered
<1>5. MeterBounded'
  <2>1. CASE k \in seen
    <3>1. UNCHANGED <<billed, seen>> BY <2>1 DEF Count
    <3> QED BY <3>1 DEF MeterBounded, Covers, Registered
  <2>2. CASE k \notin seen
    <3>1. k.period \in Periods BY DEF Keys
    <3>2. \A p \in Periods, i \in Pos :
            billed'[p][i] = IF p = k.period /\ i \in k.from..k.through
                            THEN billed[p][i] + 1 ELSE billed[p][i]
      BY <2>2, <3>1 DEF Count, TypeOK, StripeOK
    <3>3. ASSUME NEW p \in Periods, NEW i \in Pos, i > claimed'[p] PROVE billed'[p][i] = 0
      <4>1. ~(p = k.period /\ i \in k.from..k.through)
        BY <3>3 DEF RangesDisjoint, Keys, Pos, TypeOK, PeriodsOK
      <4> QED BY <3>2, <3>3, <4>1 DEF MeterBounded
    <3>4. ASSUME NEW l \in Keys, NEW i \in Pos, Covers(l, i)'
          PROVE  billed'[l.period][i] <= spent'["forget"] + (IF l \in seen' THEN 1 ELSE 0)
      <4>1. Covers(l, i) /\ l.period \in Periods BY <3>4 DEF Covers, Registered, Keys
      <4>2. billed[l.period][i] <= spent["forget"] + (IF l \in seen THEN 1 ELSE 0)
        BY <4>1 DEF MeterBounded
      <4>3. billed[l.period][i] \in Nat /\ spent["forget"] \in Nat
        BY <4>1 DEF TypeOK, StripeOK, SpentOK, Faults
      <4>4. CASE l = k
        <5>1. billed'[l.period][i] = billed[l.period][i] + 1
          BY <3>2, <4>1, <4>4 DEF Covers
        <5>2. l \in seen' BY <4>4 DEF Count
        <5> QED BY <2>2, <4>2, <4>3, <4>4, <5>1, <5>2
      <4>5. CASE l # k
        <5>1. ~(l.period = k.period /\ i \in k.from..k.through)
          BY <4>1, <4>5 DEF RangesDisjoint, Covers, Keys, Pos
        <5>2. billed'[l.period][i] = billed[l.period][i] BY <3>2, <4>1, <5>1
        <5>3. l \in seen' <=> l \in seen BY <4>5 DEF Count
        <5> QED BY <4>2, <5>2, <5>3
      <4> QED BY <4>4, <4>5
    <3> QED BY <3>3, <3>4 DEF MeterBounded
  <2> QED BY <2>1, <2>2
<1> QED BY <1>1, <1>2, <1>3, <1>4, <1>5

\* Claiming a range: the new report starts right after the claimed cursor and
\* becomes the last range.
LEMMA ClaimKeepsOutbox ==
  ASSUME TypeOK, OutboxInvariant, TypeOK', NEW r \in Reporters, ClaimRange(r)
  PROVE  OutboxInvariant'
<1> USE DEF OutboxInvariant
<1>1. PICK p \in Periods : p = work[r].period /\ Overage(p) \in 1..Top
  BY FreshKey DEF ClaimRange
<1>2. AlreadyClaimed(p) = claimed[p]
  BY DEF CursorsOrdered, AlreadyClaimed, TypeOK, PeriodsOK
<1>3. PICK top \in 1..Top : top = Overage(p) /\ top > claimed[p]
  BY <1>1, <1>2 DEF ClaimRange
<1>4. PICK k \in Keys : k = [period |-> p, from |-> claimed[p] + 1, through |-> top]
  BY <1>1, <1>2, <1>3, FreshKey DEF ClaimRange
<1>5. /\ claimed' = [claimed EXCEPT ![p] = top]
      /\ report' = [report EXCEPT ![k] = [status |-> "sending", leased |-> TRUE]]
      /\ pc' = [pc EXCEPT ![r] = "stripe"] /\ work' = [work EXCEPT ![r] = k]
      /\ UNCHANGED <<reported, billed, seen, spent>>
  BY <1>1, <1>2, <1>3, <1>4 DEF ClaimRange
<1>6. /\ claimed'[p] = top /\ \A q \in Periods \ {p} : claimed'[q] = claimed[q]
      /\ \A q \in Periods : claimed[q] \in 0..Top
  BY <1>1, <1>5 DEF TypeOK, PeriodsOK
<1>7. Registered(k)' /\ \A l \in Keys \ {k} : Registered(l)' <=> Registered(l)
  <2>1. report'[k].status = "sending" BY <1>1, <1>5 DEF TypeOK, ReportsOK
  <2>2. \A l \in Keys \ {k} : report'[l] = report[l] BY <1>1, <1>5 DEF TypeOK, ReportsOK
  <2> QED BY <2>1, <2>2 DEF Registered
<1>8. ~Registered(k)
  BY <1>1, <1>3, <1>4 DEF RangesDisjoint, TypeOK, PeriodsOK
<1>9. CursorsOrdered'
  BY <1>3, <1>5, <1>6 DEF CursorsOrdered, TypeOK, PeriodsOK
<1>10. RangesDisjoint'
  <2>1. \A l \in Keys : Registered(l) =>
          /\ l.from <= l.through /\ l.through <= claimed[l.period]
          /\ l.period \in Periods /\ l.from \in 1..Top /\ l.through \in 1..Top
    BY DEF RangesDisjoint, Keys, Pos
  <2>2. k.from <= k.through /\ k.through <= claimed'[k.period]
    BY <1>1, <1>3, <1>4, <1>6
  <2>3. \A l \in Keys : Registered(l) => l.through <= claimed'[l.period]
    BY <1>3, <1>6, <2>1
  <2>4. \A l \in Keys : Registered(l) /\ l.period = k.period => l.through < k.from
    BY <1>4, <1>6, <2>1, <1>1
  <2>5. \A l, m \in Keys : Registered(l) /\ Registered(m) /\ m.period = l.period /\ m # l =>
          l.through < m.from \/ m.through < l.from
    BY DEF RangesDisjoint
  <2> QED BY <1>7, <2>1, <2>2, <2>3, <2>4, <2>5 DEF RangesDisjoint
<1>11. RangesFill'
  <2> SUFFICES ASSUME NEW q \in Periods, NEW i \in Pos, i <= claimed'[q]
               PROVE  \E l \in Keys : l.period = q /\ Covers(l, i)'
    BY DEF RangesFill
  <2>1. CASE i <= claimed[q]
    <3>1. PICK l \in Keys : l.period = q /\ Covers(l, i) BY <2>1 DEF RangesFill
    <3>2. Covers(l, i)' BY <1>7, <1>8, <3>1 DEF Covers
    <3> QED BY <3>1, <3>2
  <2>2. CASE ~(i <= claimed[q])
    <3>1. q = p /\ i \in k.from..k.through BY <1>3, <1>4, <1>6, <2>2 DEF Pos
    <3>2. Covers(k, i)' BY <1>7, <3>1 DEF Covers
    <3> QED BY <1>1, <1>4, <3>1, <3>2
  <2> QED BY <2>1, <2>2
<1>12. OnlyRegistered'
  <2>1. \A s \in Reporters : Submitting(s)' => Registered(work[s])'
    <3> SUFFICES ASSUME NEW s \in Reporters, Submitting(s)' PROVE Registered(work[s])'
      OBVIOUS
    <3>1. CASE s = r
      <4>1. work'[s] = k BY <1>5, <3>1 DEF TypeOK, ReportersOK
      <4> QED BY <1>7, <4>1 DEF Registered
    <3>2. CASE s # r
      <4>1. work'[s] = work[s] /\ Submitting(s)
        BY <1>5, <3>2 DEF TypeOK, ReportersOK, Submitting
      <4>2. work[s] \in Keys /\ Registered(work[s])
        BY <4>1 DEF OnlyRegistered, TypeOK, ReportersOK
      <4>3. work[s] # k BY <1>8, <4>2
      <4> QED BY <1>7, <4>1, <4>2, <4>3 DEF Registered
    <3> QED BY <3>1, <3>2
  <2>2. \A l \in seen' : Registered(l)'
    <3>1. \A l \in seen : l \in Keys /\ Registered(l) BY DEF OnlyRegistered, TypeOK, StripeOK
    <3> QED BY <1>5, <1>7, <1>8, <3>1
  <2> QED BY <2>1, <2>2 DEF OnlyRegistered
<1>13. MeterBounded'
  <2>1. ASSUME NEW q \in Periods, NEW i \in Pos, i > claimed'[q] PROVE billed'[q][i] = 0
    <3>1. i > claimed[q] BY <1>3, <1>6, <2>1 DEF Pos
    <3> QED BY <1>5, <3>1 DEF MeterBounded
  <2>2. ASSUME NEW l \in Keys, NEW i \in Pos, Covers(l, i)'
        PROVE  billed'[l.period][i] <= spent'["forget"] + (IF l \in seen' THEN 1 ELSE 0)
    <3>1. CASE l = k
      <4>1. billed[p][i] = 0
        BY <1>1, <1>4, <1>6, <2>2, <3>1 DEF Covers, MeterBounded, Pos
      <4>2. spent["forget"] \in Nat BY DEF TypeOK, SpentOK, Faults
      <4> QED BY <1>4, <1>5, <3>1, <4>1, <4>2
    <3>2. CASE l # k
      <4>1. Covers(l, i) BY <1>7, <2>2, <3>2 DEF Covers
      <4> QED BY <1>5, <4>1 DEF MeterBounded
    <3> QED BY <3>1, <3>2
  <2> QED BY <2>1, <2>2 DEF MeterBounded
<1> QED BY <1>9, <1>10, <1>11, <1>12, <1>13

\* Forgetting an identifier is paid for in the bound on what it covers.
LEMMA ForgetKeepsOutbox ==
  ASSUME TypeOK, OutboxInvariant, NEW k \in Keys, Forget(k)
  PROVE  OutboxInvariant'
<1> USE DEF OutboxInvariant
<1>1. /\ UNCHANGED <<claimed, reported, report, pc, work, billed>>
      /\ seen' \subseteq seen /\ \A l \in Keys \ {k} : l \in seen' <=> l \in seen
      /\ spent'["forget"] = spent["forget"] + 1 /\ spent["forget"] \in Nat
  BY DEF Forget, Spend, TypeOK, SpentOK, Faults
<1>2. CursorsOrdered' BY <1>1 DEF CursorsOrdered
<1>3. RangesDisjoint' BY <1>1 DEF RangesDisjoint, Registered
<1>4. RangesFill' BY <1>1 DEF RangesFill, Covers, Registered
<1>5. OnlyRegistered' BY <1>1 DEF OnlyRegistered, Registered, Submitting
<1>6. MeterBounded'
  <2>1. ASSUME NEW l \in Keys, NEW i \in Pos, Covers(l, i)'
        PROVE  billed'[l.period][i] <= spent'["forget"] + (IF l \in seen' THEN 1 ELSE 0)
    <3>1. billed[l.period][i] <= spent["forget"] + (IF l \in seen THEN 1 ELSE 0)
      BY <1>1, <2>1 DEF MeterBounded, Covers, Registered
    <3>2. billed[l.period][i] \in Nat BY DEF TypeOK, StripeOK, Keys
    <3> QED BY <1>1, <3>1, <3>2
  <2> QED BY <1>1, <2>1 DEF MeterBounded
<1> QED BY <1>2, <1>3, <1>4, <1>5, <1>6

\* Marking a report settled moves the reported cursor at most to the end of a
\* registered report.
LEMMA SettleKeepsOrder ==
  ASSUME TypeOK, OutboxInvariant, NEW k \in Keys, Registered(k), Settle(k), UNCHANGED claimed
  PROVE  CursorsOrdered' /\ \A l \in Keys : Registered(l)' <=> Registered(l)
<1>1. k.period \in Periods /\ k.through <= claimed[k.period]
  BY DEF OutboxInvariant, RangesDisjoint, Keys
<1>2. CursorsOrdered'
  BY <1>1 DEF OutboxInvariant, CursorsOrdered, Settle, TypeOK, PeriodsOK
<1>3. \A l \in Keys : Registered(l)' <=> Registered(l)
  BY DEF Settle, Registered, TypeOK, ReportsOK, ReportType
<1> QED BY <1>2, <1>3

LEMMA MovesOn ==
  ASSUME TypeOK, OutboxInvariant, NEW r \in Reporters,
         \/ NextPeriod(r) \/ Abandon(r)
         \/ Submitting(r) /\ \E step \in {"mark", "fail"} : Goto(r, step)
         \/ UNCHANGED <<pc, work>>
  PROVE  \A s \in Reporters : Submitting(s)' => Registered(work'[s])
<1> USE DEF OutboxInvariant, OnlyRegistered, Submitting, TypeOK, ReportersOK
<1>1. CASE NextPeriod(r) BY <1>1 DEF NextPeriod
<1>2. CASE Abandon(r) BY <1>2 DEF Abandon
<1>3. ASSUME NEW step \in {"mark", "fail"}, Submitting(r), Goto(r, step)
      PROVE  \A s \in Reporters : Submitting(s)' => Registered(work'[s])
  BY <1>3 DEF Goto
<1>4. CASE UNCHANGED <<pc, work>> BY <1>4
<1> QED BY <1>1, <1>2, <1>3, <1>4

LEMMA ReportKeepsOutbox ==
  ASSUME TypeOK, OutboxInvariant, TypeOK', NEW r \in Reporters, Report(r)
  PROVE  OutboxInvariant'
<1>1. CASE LoadPeriods(r)
  <2>1. \A s \in Reporters : Submitting(s)' => Registered(work'[s])
    BY <1>1 DEF LoadPeriods, OutboxInvariant, OnlyRegistered, Submitting, TypeOK, ReportersOK
  <2> QED BY <1>1, <2>1, Quiet DEF LoadPeriods, Registered, OutboxInvariant, CursorsOrdered
<1>2. ASSUME NEW p \in Periods, FindNoReport(r, p) PROVE OutboxInvariant'
  <2>1. \A s \in Reporters : Submitting(s)' => Registered(work'[s])
    BY <1>2 DEF FindNoReport, OutboxInvariant, OnlyRegistered, Submitting, TypeOK, ReportersOK
  <2> QED BY <1>2, <2>1, Quiet DEF FindNoReport, Registered, OutboxInvariant, CursorsOrdered
<1>3. ASSUME NEW k \in Keys, SkipLeased(r, k) PROVE OutboxInvariant'
  <2>1. \A s \in Reporters : Submitting(s)' => Registered(work'[s])
    BY <1>3 DEF SkipLeased, OutboxInvariant, OnlyRegistered, Submitting, TypeOK, ReportersOK
  <2> QED BY <1>3, <2>1, Quiet DEF SkipLeased, Registered, OutboxInvariant, CursorsOrdered
<1>4. ASSUME NEW k \in Keys, Reclaim(r, k) PROVE OutboxInvariant'
  <2>1. Registered(k) BY <1>4 DEF Reclaim, Oldest, Pending, Registered
  <2>2. \A l \in Keys : Registered(l)' <=> Registered(l)
    BY <1>4, <2>1 DEF Reclaim, Registered, TypeOK, ReportsOK
  <2>3. \A s \in Reporters : Submitting(s)' => Registered(work'[s])
    BY <1>4, <2>1 DEF Reclaim, OutboxInvariant, OnlyRegistered, Submitting, TypeOK, ReportersOK
  <2> QED BY <1>4, <2>2, <2>3, Quiet DEF Reclaim, OutboxInvariant, CursorsOrdered
<1>5. CASE ClaimRange(r) BY <1>5, ClaimKeepsOutbox
<1>6. CASE NothingToClaim(r)
  <2>1. \A s \in Reporters : Submitting(s)' => Registered(work'[s])
    BY <1>6, MovesOn DEF NothingToClaim
  <2> QED BY <1>6, <2>1, Quiet DEF NothingToClaim, Registered, OutboxInvariant, CursorsOrdered
<1>7. CASE SubmitReport(r)
  <2>1. work[r] \in Keys /\ Registered(work[r])
    BY <1>7 DEF SubmitReport, Submitting, TypeOK, ReportersOK, OutboxInvariant, OnlyRegistered
  <2>2. \A s \in Reporters : Submitting(s)' => Submitting(s)
    BY <1>7 DEF SubmitReport, Goto, Submitting, TypeOK, ReportersOK
  <2> QED BY <1>7, <2>1, <2>2, CountKeepsOutbox DEF SubmitReport, Goto
<1>8. CASE MarkReported(r)
  <2>1. work[r] \in Keys /\ Registered(work[r])
    BY <1>8 DEF MarkReported, Submitting, TypeOK, ReportersOK, OutboxInvariant, OnlyRegistered
  <2>2. CursorsOrdered' /\ \A l \in Keys : Registered(l)' <=> Registered(l)
    BY <1>8, <2>1, SettleKeepsOrder DEF MarkReported
  <2>3. \A s \in Reporters : Submitting(s)' => Registered(work'[s])
    BY <1>8, MovesOn DEF MarkReported
  <2> QED BY <1>8, <2>2, <2>3, Quiet DEF MarkReported
<1>9. CASE MarkFailed(r)
  <2>1. work[r] \in Keys /\ Registered(work[r])
    BY <1>9 DEF MarkFailed, Submitting, TypeOK, ReportersOK, OutboxInvariant, OnlyRegistered
  <2>2. \A l \in Keys : Registered(l)' <=> Registered(l)
    BY <1>9, <2>1 DEF MarkFailed, Registered, TypeOK, ReportsOK, ReportType
  <2>3. \A s \in Reporters : Submitting(s)' => Registered(work'[s])
    BY <1>9, MovesOn DEF MarkFailed
  <2> QED BY <1>9, <2>2, <2>3, Quiet DEF MarkFailed, OutboxInvariant, CursorsOrdered
<1> QED BY <1>1, <1>2, <1>3, <1>4, <1>5, <1>6, <1>7, <1>8, <1>9 DEF Report

LEMMA FaultKeepsOutbox ==
  ASSUME TypeOK, OutboxInvariant, TypeOK', NEW r \in Reporters, ReportFault(r)
  PROVE  OutboxInvariant'
<1>0. ASSUME NEW f \in {"crash", "fault", "overrun"}, Spend(f)
      PROVE  spent'["forget"] = spent["forget"]
  BY <1>0 DEF Spend, TypeOK, SpentOK, Faults
<1>1. CASE SubmitFails(r)
  <2>1. work[r] \in Keys /\ Registered(work[r]) /\ Submitting(r)
    BY <1>1 DEF SubmitFails, Submitting, TypeOK, ReportersOK, OutboxInvariant, OnlyRegistered
  <2>2. \A s \in Reporters : Submitting(s)' => Submitting(s)
    BY <1>1, <2>1 DEF SubmitFails, Goto, Submitting, TypeOK, ReportersOK
  <2>3. spent'["forget"] = spent["forget"] BY <1>0, <1>1 DEF SubmitFails
  <2>4. CASE Count(work[r])
    BY <1>1, <2>1, <2>2, <2>3, <2>4, CountKeepsOutbox DEF SubmitFails, Goto
  <2>5. CASE UNCHANGED <<billed, seen>>
    <3>1. \A s \in Reporters : Submitting(s)' => Registered(work'[s])
      BY <1>1, <2>1, MovesOn DEF SubmitFails
    <3> QED BY <1>1, <2>3, <2>5, <3>1, Quiet
         DEF SubmitFails, Registered, OutboxInvariant, CursorsOrdered
  <2> QED BY <1>1, <2>4, <2>5 DEF SubmitFails
<1>2. CASE MarkReportedFails(r)
  <2>1. work[r] \in Keys /\ Registered(work[r]) /\ Submitting(r)
    BY <1>2 DEF MarkReportedFails, Submitting, TypeOK, ReportersOK, OutboxInvariant, OnlyRegistered
  <2>2. CursorsOrdered' /\ \A l \in Keys : Registered(l)' <=> Registered(l)
    <3>1. CASE Settle(work[r])
      BY <1>2, <2>1, <3>1, SettleKeepsOrder DEF MarkReportedFails
    <3>2. CASE UNCHANGED <<report, reported>>
      BY <1>2, <3>2 DEF MarkReportedFails, OutboxInvariant, CursorsOrdered, Registered
    <3> QED BY <1>2, <3>1, <3>2 DEF MarkReportedFails
  <2>3. \A s \in Reporters : Submitting(s)' => Registered(work'[s])
    BY <1>2, <2>1, MovesOn DEF MarkReportedFails
  <2>4. spent'["forget"] = spent["forget"] BY <1>0, <1>2 DEF MarkReportedFails
  <2> QED BY <1>2, <2>2, <2>3, <2>4, Quiet DEF MarkReportedFails
<1>3. CASE ScanFails(r) \/ Crash(r)
  <2>1. \A s \in Reporters : Submitting(s)' => Registered(work'[s])
    BY <1>3, MovesOn DEF ScanFails, Crash
  <2>2. spent'["forget"] = spent["forget"] BY <1>0, <1>3 DEF ScanFails, Crash
  <2> QED BY <1>3, <2>1, <2>2, Quiet
       DEF ScanFails, Crash, Registered, OutboxInvariant, CursorsOrdered
<1> QED BY <1>1, <1>2, <1>3 DEF ReportFault

LEMMA WorldKeepsOutbox ==
  ASSUME TypeOK, OutboxInvariant, TypeOK',
         \/ \E p \in Periods : Reserve(p) \/ Release(p) \/ Close(p)
         \/ \E k \in Keys : LeaseExpires(k) \/ LeaseOverrun(k) \/ Forget(k)
  PROVE  OutboxInvariant'
<1>0. \A s \in Reporters : Submitting(s) => Registered(work[s])
  BY DEF OutboxInvariant, OnlyRegistered
<1>1. ASSUME NEW p \in Periods, Reserve(p) \/ Release(p) \/ Close(p) PROVE OutboxInvariant'
  <2>1. UNCHANGED <<claimed, reported, report, pc, todo, work, billed, seen, spent>>
    BY <1>1 DEF Reserve, Release, Close
  <2> QED BY <1>0, <2>1, Quiet DEF Registered, Submitting, OutboxInvariant, CursorsOrdered
<1>2. ASSUME NEW k \in Keys, RunOut(k), UNCHANGED spent \/ Spend("overrun") PROVE OutboxInvariant'
  <2>1. \A l \in Keys : Registered(l)' <=> Registered(l)
    BY <1>2 DEF RunOut, Registered, TypeOK, ReportsOK, ReportType
  <2>2. spent'["forget"] = spent["forget"]
    BY <1>2 DEF Spend, TypeOK, SpentOK, Faults
  <2> QED BY <1>0, <1>2, <2>1, <2>2, Quiet
       DEF RunOut, Submitting, OutboxInvariant, CursorsOrdered
<1>3. ASSUME NEW k \in Keys, Forget(k) PROVE OutboxInvariant'
  BY <1>3, ForgetKeepsOutbox
<1> QED BY <1>1, <1>2, <1>3 DEF LeaseExpires, LeaseOverrun

\* The outbox invariant holds in every reachable state: the reported cursor
\* follows the claimed one, reports are disjoint ranges filling the claimed
\* overage, and what Stripe counted is bounded by what it remembers and forgot.
THEOREM OutboxHolds == Spec => []OutboxInvariant
<1>1. Init => OutboxInvariant
  <2> SUFFICES ASSUME Init PROVE OutboxInvariant OBVIOUS
  <2> USE OverageAssumption DEF Init
  <2>1. CursorsOrdered
    <3> SUFFICES ASSUME NEW p \in Periods PROVE reported[p] <= claimed[p] BY DEF CursorsOrdered
    <3>1. reported[p] = 0 /\ claimed[p] = 0 OBVIOUS
    <3> HIDE DEF Init
    <3> QED BY <3>1, 0 <= 0
  <2>2. \A k \in Keys : ~Registered(k) BY DEF Registered
  <2>3. RangesDisjoint BY <2>2 DEF RangesDisjoint
  <2>4. RangesFill BY DEF RangesFill, Pos
  <2>5. OnlyRegistered BY DEF OnlyRegistered, Submitting
  <2>6. MeterBounded BY <2>2 DEF MeterBounded, Covers
  <2> QED BY <2>1, <2>3, <2>4, <2>5, <2>6 DEF OutboxInvariant
<1>2. TypeOK /\ TypeOK' /\ OutboxInvariant /\ [Next]_vars => OutboxInvariant'
  <2> SUFFICES ASSUME TypeOK, TypeOK', OutboxInvariant, [Next]_vars PROVE OutboxInvariant'
    OBVIOUS
  <2>1. CASE UNCHANGED vars
    <3>1. \A s \in Reporters : Submitting(s) => Registered(work[s])
      BY DEF OutboxInvariant, OnlyRegistered
    <3> QED BY <2>1, <3>1, Quiet DEF vars, Registered, Submitting, OutboxInvariant, CursorsOrdered
  <2>2. CASE Next
    BY <2>2, ReportKeepsOutbox, FaultKeepsOutbox, WorldKeepsOutbox DEF Next
  <2> QED BY <2>1, <2>2
<1> QED BY <1>1, <1>2, TypeCorrect, PTL DEF Spec

-----------------------------------------------------------------------------
(* What follows from it *)

\* Every claimed overage email is in exactly one report, and no report reaches
\* past the claimed cursor.
THEOREM Partitioned == Spec => []ReportsPartitionClaimed
<1>1. TypeOK /\ OutboxInvariant => ReportsPartitionClaimed
  <2> SUFFICES ASSUME TypeOK, OutboxInvariant, NEW p \in Periods, NEW i \in Pos
               PROVE  /\ i <= claimed[p] => \E k \in Keys : k.period = p /\ Covers(k, i)
                      /\ \A k \in Keys : k.period = p /\ Covers(k, i) =>
                           /\ i <= claimed[p]
                           /\ \A l \in Keys : l.period = p /\ Covers(l, i) => l = k
    BY DEF ReportsPartitionClaimed
  <2>1. i <= claimed[p] => \E k \in Keys : k.period = p /\ Covers(k, i)
    BY DEF OutboxInvariant, RangesFill
  <2>2. ASSUME NEW k \in Keys, k.period = p, Covers(k, i) PROVE i <= claimed[p]
    <3>1. k.through <= claimed[p] /\ claimed[p] \in 0..Top /\ k.through \in 1..Top
      BY <2>2 DEF OutboxInvariant, RangesDisjoint, Covers, TypeOK, PeriodsOK, Keys, Pos
    <3> QED BY <2>2, <3>1, OverageAssumption DEF Covers, Keys, Pos
  <2>3. ASSUME NEW k \in Keys, k.period = p, Covers(k, i),
               NEW l \in Keys, l.period = p, Covers(l, i)
        PROVE  l = k
    BY <2>3 DEF OutboxInvariant, RangesDisjoint, Covers, Keys, Pos
  <2> QED BY <2>1, <2>2, <2>3
<1> QED BY <1>1, TypeCorrect, OutboxHolds, PTL

\* Stripe counts an overage email once, and once more at most for every time
\* an identifier left its deduplication window.
THEOREM CountedOnce == Spec => []BilledOnce
<1>1. TypeOK /\ OutboxInvariant => BilledOnce
  <2> SUFFICES ASSUME TypeOK, OutboxInvariant, NEW p \in Periods, NEW i \in Pos
               PROVE  billed[p][i] <= 1 + spent["forget"]
    BY DEF BilledOnce
  <2>1. /\ billed[p][i] \in Nat /\ spent["forget"] \in Nat /\ claimed[p] \in Nat
    BY DEF TypeOK, StripeOK, SpentOK, Faults, PeriodsOK
  <2>2. CASE i <= claimed[p]
    <3>1. PICK k \in Keys : k.period = p /\ Covers(k, i)
      BY <2>2 DEF OutboxInvariant, RangesFill
    <3>2. billed[p][i] <= spent["forget"] + (IF k \in seen THEN 1 ELSE 0)
      BY <3>1 DEF OutboxInvariant, MeterBounded
    <3> QED BY <2>1, <3>2
  <2>3. CASE i > claimed[p]
    BY <2>1, <2>3 DEF OutboxInvariant, MeterBounded
  <2> QED BY <2>1, <2>2, <2>3 DEF Pos
<1> QED BY <1>1, TypeCorrect, OutboxHolds, PTL

-----------------------------------------------------------------------------
(* The reported cursor is the confirmed one *)

\* Stripe has counted every email of a report that it remembers, that is
\* settled, or that a reporter has submitted and is about to settle; and the
\* reported cursor never stands inside a report.
AllBilled(k) == \A i \in Pos : i \in k.from..k.through => billed[k.period][i] > 0
SeenAreBilled == \A k \in seen : AllBilled(k)
SettledAreBilled == \A k \in Keys : report[k].status = "reported" => AllBilled(k)
SubmittedAreBilled == \A r \in Reporters : pc[r] = "mark" => AllBilled(work[r])
CursorBetweenReports ==
  \A k \in Keys : Registered(k) => \/ k.through <= reported[k.period]
                                   \/ reported[k.period] < k.from
CursorInvariant ==
  SeenAreBilled /\ SettledAreBilled /\ SubmittedAreBilled /\ CursorBetweenReports

\* A step that counts nothing, registers and settles no report and brings no
\* reporter to the settling keeps the invariant.
LEMMA CursorFrame ==
  ASSUME TypeOK, CursorInvariant, TypeOK',
         UNCHANGED <<billed, reported>>, seen' \subseteq seen,
         \A k \in Keys : Registered(k)' => Registered(k),
         \A k \in Keys : report'[k].status = "reported" => report[k].status = "reported",
         \A r \in Reporters : pc'[r] = "mark" => pc[r] = "mark" /\ work'[r] = work[r]
  PROVE  CursorInvariant'
<1> USE DEF CursorInvariant
<1>1. SeenAreBilled' BY DEF SeenAreBilled, AllBilled
<1>2. SettledAreBilled' BY DEF SettledAreBilled, AllBilled
<1>3. SubmittedAreBilled' BY DEF SubmittedAreBilled, AllBilled
<1>4. CursorBetweenReports' BY DEF CursorBetweenReports
<1> QED BY <1>1, <1>2, <1>3, <1>4

\* Counting a report leaves all of it counted, and nothing less than before.
LEMMA CountBills ==
  ASSUME TypeOK, CursorInvariant, NEW k \in Keys, Count(k)
  PROVE  /\ AllBilled(k)' /\ \A l \in Keys : AllBilled(l) => AllBilled(l)'
<1>1. k.period \in Periods BY DEF Keys
<1>2. CASE k \in seen
  <2>1. UNCHANGED billed BY <1>2 DEF Count
  <2> QED BY <1>2, <2>1 DEF CursorInvariant, SeenAreBilled, AllBilled
<1>3. CASE k \notin seen
  <2>1. \A p \in Periods, i \in Pos :
          /\ billed[p][i] \in Nat
          /\ billed'[p][i] = IF p = k.period /\ i \in k.from..k.through
                             THEN billed[p][i] + 1 ELSE billed[p][i]
    BY <1>1, <1>3 DEF Count, TypeOK, StripeOK
  <2>2. AllBilled(k)' BY <1>1, <2>1 DEF AllBilled
  <2>3. ASSUME NEW l \in Keys, AllBilled(l) PROVE AllBilled(l)'
    <3>1. l.period \in Periods BY DEF Keys
    <3> QED BY <2>1, <2>3, <3>1 DEF AllBilled
  <2> QED BY <2>2, <2>3
<1> QED BY <1>2, <1>3

LEMMA CountKeepsCursor ==
  ASSUME TypeOK, CursorInvariant, TypeOK', NEW k \in Keys, Count(k),
         UNCHANGED <<reported, report, work>>,
         \A r \in Reporters : pc'[r] = "mark" => pc[r] = "mark" \/ work[r] = k
  PROVE  CursorInvariant'
<1> USE DEF CursorInvariant
<1>0. AllBilled(k)' /\ \A l \in Keys : AllBilled(l) => AllBilled(l)' BY CountBills
<1>1. SeenAreBilled' BY <1>0 DEF SeenAreBilled, Count, TypeOK, StripeOK
<1>2. SettledAreBilled' BY <1>0 DEF SettledAreBilled
<1>3. SubmittedAreBilled'
  <2> SUFFICES ASSUME NEW r \in Reporters, pc'[r] = "mark" PROVE AllBilled(work[r])'
    BY DEF SubmittedAreBilled
  <2>1. CASE work[r] = k BY <1>0, <2>1 DEF AllBilled
  <2>2. CASE pc[r] = "mark"
    <3>1. work[r] \in Keys /\ AllBilled(work[r])
      BY <2>2 DEF SubmittedAreBilled, TypeOK, ReportersOK, Submitting
    <3>2. PICK l \in Keys : l = work[r] BY <3>1
    <3>3. AllBilled(l)' BY <1>0, <3>1, <3>2
    <3> QED BY <3>2, <3>3 DEF AllBilled
  <2> QED BY <2>1, <2>2
<1>4. CursorBetweenReports' BY DEF CursorBetweenReports, Registered
<1> QED BY <1>1, <1>2, <1>3, <1>4

\* Settling a submitted report: the cursor moves to its end, and it stands
\* inside no other report because reports are disjoint.
LEMMA SettleKeepsCursor ==
  ASSUME TypeOK, OutboxInvariant, CursorInvariant, TypeOK',
         NEW r \in Reporters, pc[r] = "mark", Settle(work[r]),
         UNCHANGED <<billed, seen>>,
         \A s \in Reporters : pc'[s] = "mark" => pc[s] = "mark" /\ work'[s] = work[s]
  PROVE  CursorInvariant'
<1> USE DEF CursorInvariant
<1>0. PICK k \in Keys : k = work[r] /\ Registered(k) /\ AllBilled(k) /\ Settle(k)
  BY DEF SubmittedAreBilled, TypeOK, ReportersOK, Submitting, OutboxInvariant, OnlyRegistered
<1>1. SeenAreBilled' BY DEF SeenAreBilled, AllBilled
<1>2. SettledAreBilled'
  <2>1. \A l \in Keys \ {k} : report'[l] = report[l]
    BY <1>0 DEF Settle, TypeOK, ReportsOK
  <2> QED BY <1>0, <2>1 DEF SettledAreBilled, AllBilled
<1>3. SubmittedAreBilled' BY DEF SubmittedAreBilled, AllBilled
<1>4. CursorBetweenReports'
  <2>1. \A l \in Keys : Registered(l)' => Registered(l)
    BY <1>0 DEF Settle, Registered, TypeOK, ReportsOK, ReportType
  <2>2. CASE UNCHANGED reported BY <2>1, <2>2 DEF CursorBetweenReports
  <2>3. CASE reported' = [reported EXCEPT ![k.period] = k.through]
    <3> SUFFICES ASSUME NEW l \in Keys, Registered(l)
                 PROVE  l.through <= reported'[l.period] \/ reported'[l.period] < l.from
      BY <2>1 DEF CursorBetweenReports
    <3>1. l.period \in Periods /\ k.period \in Periods BY DEF Keys
    <3>2. CASE l.period # k.period
      <4>1. reported'[l.period] = reported[l.period]
        BY <2>3, <3>1, <3>2 DEF TypeOK, PeriodsOK
      <4> QED BY <4>1 DEF CursorBetweenReports
    <3>3. CASE l.period = k.period
      <4>1. reported'[l.period] = k.through BY <2>3, <3>1, <3>3 DEF TypeOK, PeriodsOK
      <4>2. l.from <= l.through /\ k.from <= k.through
        BY <1>0 DEF OutboxInvariant, RangesDisjoint
      <4>3. l = k \/ k.through < l.from \/ l.through < k.from
        BY <1>0, <3>3 DEF OutboxInvariant, RangesDisjoint
      <4>4. {l.from, l.through, k.from, k.through} \subseteq Int BY DEF Keys, Pos
      <4> QED BY <4>1, <4>2, <4>3, <4>4
    <3> QED BY <3>2, <3>3
  <2> QED BY <1>0, <2>2, <2>3 DEF Settle
<1> QED BY <1>1, <1>2, <1>3, <1>4

\* A newly claimed report lies beyond the reported cursor.
LEMMA ClaimKeepsCursor ==
  ASSUME TypeOK, OutboxInvariant, CursorInvariant, TypeOK', NEW r \in Reporters, ClaimRange(r)
  PROVE  CursorInvariant'
<1> USE DEF CursorInvariant
<1>1. PICK p \in Periods : p = work[r].period /\ Overage(p) \in 1..Top
  BY FreshKey DEF ClaimRange
<1>2. PICK k \in Keys : k = [period |-> p, from |-> AlreadyClaimed(p) + 1, through |-> Overage(p)]
  BY <1>1, FreshKey DEF ClaimRange
<1>3. /\ report' = [report EXCEPT ![k] = [status |-> "sending", leased |-> TRUE]]
      /\ pc' = [pc EXCEPT ![r] = "stripe"] /\ work' = [work EXCEPT ![r] = k]
      /\ UNCHANGED <<reported, billed, seen, spent>>
  BY <1>1, <1>2 DEF ClaimRange
<1>4. \A l \in Keys \ {k} : report'[l] = report[l] BY <1>3 DEF TypeOK, ReportsOK
<1>5. report'[k].status = "sending" BY <1>3 DEF TypeOK, ReportsOK
<1>6. reported[k.period] < k.from
  BY <1>1, <1>2 DEF AlreadyClaimed, TypeOK, PeriodsOK
<1>7. SeenAreBilled' BY <1>3 DEF SeenAreBilled, AllBilled
<1>8. SettledAreBilled' BY <1>3, <1>4, <1>5 DEF SettledAreBilled, AllBilled
<1>9. SubmittedAreBilled'
  BY <1>3 DEF SubmittedAreBilled, AllBilled, TypeOK, ReportersOK
<1>10. CursorBetweenReports'
  BY <1>3, <1>4, <1>6 DEF CursorBetweenReports, Registered
<1> QED BY <1>7, <1>8, <1>9, <1>10

\* Marking a report settled or counting it apart, no step of a reporter
\* disturbs the invariant.
LEMMA ReporterKeepsCursor ==
  ASSUME TypeOK, OutboxInvariant, CursorInvariant, TypeOK',
         NEW r \in Reporters, Report(r) \/ ReportFault(r)
  PROVE  CursorInvariant'
<1>0. ASSUME NextPeriod(r) \/ Abandon(r) \/ Goto(r, "fail")
      PROVE  \A s \in Reporters : pc'[s] = "mark" => pc[s] = "mark" /\ work'[s] = work[s]
  BY <1>0 DEF NextPeriod, Abandon, Goto, TypeOK, ReportersOK
<1>1. CASE LoadPeriods(r) \/ \E p \in Periods : FindNoReport(r, p)
  <2>1. \A s \in Reporters : pc'[s] = "mark" => pc[s] = "mark" /\ work'[s] = work[s]
    BY <1>1 DEF LoadPeriods, FindNoReport, TypeOK, ReportersOK
  <2> QED BY <1>1, <2>1, CursorFrame DEF LoadPeriods, FindNoReport, Registered
<1>2. ASSUME NEW k \in Keys, SkipLeased(r, k) PROVE CursorInvariant'
  <2>1. \A s \in Reporters : pc'[s] = "mark" => pc[s] = "mark" /\ work'[s] = work[s]
    BY <1>2 DEF SkipLeased, TypeOK, ReportersOK
  <2> QED BY <1>2, <2>1, CursorFrame DEF SkipLeased, Registered
<1>3. ASSUME NEW k \in Keys, Reclaim(r, k) PROVE CursorInvariant'
  <2>1. Registered(k) /\ report'[k].status = "sending"
    BY <1>3 DEF Reclaim, Oldest, Pending, Registered, TypeOK, ReportsOK
  <2>2. \A l \in Keys \ {k} : report'[l] = report[l] BY <1>3 DEF Reclaim, TypeOK, ReportsOK
  <2>3. \A s \in Reporters : pc'[s] = "mark" => pc[s] = "mark" /\ work'[s] = work[s]
    BY <1>3 DEF Reclaim, TypeOK, ReportersOK
  <2> QED BY <1>3, <2>1, <2>2, <2>3, CursorFrame DEF Reclaim, Registered
<1>4. CASE ClaimRange(r) BY <1>4, ClaimKeepsCursor
<1>5. CASE NothingToClaim(r) \/ ScanFails(r) \/ Crash(r)
  BY <1>0, <1>5, CursorFrame DEF NothingToClaim, ScanFails, Crash, Registered
<1>6. CASE SubmitReport(r)
  <2>1. work[r] \in Keys BY <1>6 DEF SubmitReport, Submitting, TypeOK, ReportersOK
  <2>2. \A s \in Reporters : pc'[s] = "mark" => pc[s] = "mark" \/ work[s] = work[r]
    BY <1>6 DEF SubmitReport, Goto, TypeOK, ReportersOK
  <2> QED BY <1>6, <2>1, <2>2, CountKeepsCursor DEF SubmitReport, Goto
<1>7. CASE SubmitFails(r)
  <2>1. work[r] \in Keys BY <1>7 DEF SubmitFails, Submitting, TypeOK, ReportersOK
  <2>2. CASE Count(work[r])
    BY <1>0, <1>7, <2>1, <2>2, CountKeepsCursor DEF SubmitFails, Goto
  <2>3. CASE UNCHANGED <<billed, seen>>
    BY <1>0, <1>7, <2>3, CursorFrame DEF SubmitFails, Registered
  <2> QED BY <1>7, <2>2, <2>3 DEF SubmitFails
<1>8. CASE MarkReported(r)
  BY <1>0, <1>8, SettleKeepsCursor DEF MarkReported
<1>9. CASE MarkReportedFails(r)
  <2>1. CASE Settle(work[r])
    BY <1>0, <1>9, <2>1, SettleKeepsCursor DEF MarkReportedFails
  <2>2. CASE UNCHANGED <<report, reported>>
    BY <1>0, <1>9, <2>2, CursorFrame DEF MarkReportedFails, Registered
  <2> QED BY <1>9, <2>1, <2>2 DEF MarkReportedFails
<1>10. CASE MarkFailed(r)
  <2>1. PICK k \in Keys : k = work[r] /\ Registered(k)
    BY <1>10 DEF MarkFailed, Submitting, TypeOK, ReportersOK, OutboxInvariant, OnlyRegistered
  <2>2. /\ \A l \in Keys \ {k} : report'[l] = report[l]
        /\ report'[k].status = "failed"
    BY <1>10, <2>1 DEF MarkFailed, TypeOK, ReportsOK
  <2> QED BY <1>0, <1>10, <2>1, <2>2, CursorFrame DEF MarkFailed, Registered
<1> QED BY <1>1, <1>2, <1>3, <1>4, <1>5, <1>6, <1>7, <1>8, <1>9, <1>10 DEF Report, ReportFault

LEMMA WorldKeepsCursor ==
  ASSUME TypeOK, CursorInvariant, TypeOK',
         \/ \E p \in Periods : Reserve(p) \/ Release(p) \/ Close(p)
         \/ \E k \in Keys : LeaseExpires(k) \/ LeaseOverrun(k) \/ Forget(k)
  PROVE  CursorInvariant'
<1>1. UNCHANGED <<reported, pc, work, billed>> /\ seen' \subseteq seen
  BY DEF Reserve, Release, Close, LeaseExpires, LeaseOverrun, RunOut, Forget
<1>2. \A l \in Keys : report'[l].status = report[l].status
  <2>1. ASSUME NEW k \in Keys, RunOut(k) PROVE \A l \in Keys : report'[l].status = report[l].status
    BY <2>1 DEF RunOut, TypeOK, ReportsOK, ReportType
  <2>2. CASE UNCHANGED report BY <2>2
  <2> QED BY <2>1, <2>2 DEF Reserve, Release, Close, LeaseExpires, LeaseOverrun, Forget
<1> QED BY <1>1, <1>2, CursorFrame DEF Registered

\* Every report that Stripe remembers, that is settled or that is about to be
\* settled has been counted, and the reported cursor stands between reports.
THEOREM CursorHolds == Spec => []CursorInvariant
<1>1. Init => CursorInvariant
  <2> SUFFICES ASSUME Init PROVE CursorInvariant OBVIOUS
  <2>1. \A k \in Keys : report[k].status = "absent" BY DEF Init
  <2> QED BY <2>1 DEF Init, CursorInvariant, SeenAreBilled, SettledAreBilled,
       SubmittedAreBilled, CursorBetweenReports, Registered
<1>2. TypeOK /\ TypeOK' /\ OutboxInvariant /\ CursorInvariant /\ [Next]_vars => CursorInvariant'
  <2> SUFFICES ASSUME TypeOK, TypeOK', OutboxInvariant, CursorInvariant, [Next]_vars
               PROVE  CursorInvariant'
    OBVIOUS
  <2>1. CASE UNCHANGED vars BY <2>1, CursorFrame DEF vars, Registered
  <2>2. CASE Next BY <2>2, ReporterKeepsCursor, WorldKeepsCursor DEF Next
  <2> QED BY <2>1, <2>2
<1> QED BY <1>1, <1>2, TypeCorrect, OutboxHolds, PTL DEF Spec

\* The reported cursor is the confirmed one, whatever fails and however scans
\* overlap: Stripe has counted every email up to it, except those of a report
\* that a later one overtook.
THEOREM Confirmed == Spec => []CursorIsConfirmed
<1>1. TypeOK /\ OutboxInvariant /\ CursorInvariant => CursorIsConfirmed
  <2> SUFFICES ASSUME TypeOK, OutboxInvariant, CursorInvariant,
                      NEW p \in Periods, NEW i \in Pos, i <= reported[p],
                      ~(billed[p][i] > 0)
               PROVE  Overtaken(p, i)
    BY DEF CursorIsConfirmed
  <2>1. /\ reported[p] <= claimed[p] /\ reported[p] \in Nat /\ claimed[p] \in Nat
        /\ i \in Int
    BY DEF OutboxInvariant, CursorsOrdered, TypeOK, PeriodsOK, Pos
  <2>2. PICK k \in Keys : k.period = p /\ Covers(k, i)
    BY <2>1 DEF OutboxInvariant, RangesFill
  <2>3. report[k].status # "reported"
    BY <2>2 DEF CursorInvariant, SettledAreBilled, AllBilled, Covers
  <2>4. k.through <= reported[p]
    BY <2>1, <2>2 DEF CursorInvariant, CursorBetweenReports, Covers, Keys, Pos
  <2> QED BY <2>2, <2>3, <2>4 DEF Overtaken
<1> QED BY <1>1, TypeCorrect, OutboxHolds, CursorHolds, PTL

-----------------------------------------------------------------------------
(* The outbox implements the ledger *)

Frugal == spent["forget"] <= MaxForgets

\* No step spends more than its bound.
LEMMA FrugalKept == Spec => []Frugal
<1>1. Init => Frugal
  BY OverageAssumption DEF Init, Frugal, Faults
<1>2. TypeOK /\ Frugal /\ [Next]_vars => Frugal'
  <2> SUFFICES ASSUME TypeOK, Frugal, [Next]_vars PROVE Frugal' OBVIOUS
  <2>1. ASSUME NEW f \in Faults, Spend(f) PROVE Frugal'
    BY <2>1, OverageAssumption DEF Spend, Limit, Frugal, TypeOK, SpentOK, Faults
  <2>2. CASE UNCHANGED spent BY <2>2 DEF Frugal
  <2>3. UNCHANGED spent \/ \E f \in Faults : Spend(f)
    BY DEF vars, Next, Report, ReportFault, Reserve, Release, Close, LoadPeriods, FindNoReport,
       SkipLeased, Reclaim, ClaimRange, NothingToClaim, SubmitReport, MarkReported, MarkFailed,
       SubmitFails, MarkReportedFails, ScanFails, Crash, LeaseExpires, LeaseOverrun, Forget, Faults
  <2> QED BY <2>1, <2>2, <2>3
<1> QED BY <1>1, <1>2, TypeCorrect, PTL DEF Spec

\* Claiming a range moves the ledger's cursor.
LEMMA ClaimIsLedgerClaim ==
  ASSUME TypeOK, OutboxInvariant, NEW r \in Reporters, ClaimRange(r)
  PROVE  Ledger!LedgerNext
<1>1. PICK p \in Periods : p = work[r].period /\ Overage(p) \in 1..Top
  BY FreshKey DEF ClaimRange
<1>2. Overage(p) > claimed[p]
  BY <1>1 DEF ClaimRange, AlreadyClaimed, OutboxInvariant, CursorsOrdered, TypeOK, PeriodsOK
<1>3. claimed' = [claimed EXCEPT ![p] = Overage(p)] /\ UNCHANGED billed
  BY <1>1 DEF ClaimRange
<1>4. Ledger!Claim(p) BY <1>1, <1>2, <1>3 DEF Ledger!Claim, Ledger!Pos
<1> QED BY <1>4 DEF Ledger!LedgerNext

\* Counting a report moves a range of emails to the meter, each of them counted
\* no more often than identifiers were forgotten, or nothing at all.
LEMMA CountIsLedgerMeter ==
  ASSUME TypeOK, OutboxInvariant, Frugal,
         NEW k \in Keys, Registered(k), Count(k), UNCHANGED claimed
  PROVE  Ledger!LedgerNext \/ UNCHANGED <<claimed, billed>>
<1>1. CASE k \in seen BY <1>1 DEF Count
<1>2. CASE k \notin seen
  <2>1. /\ k.period \in Periods /\ k.from \in Pos /\ k.through \in Pos
        /\ k.from <= k.through /\ k.through <= claimed[k.period]
    BY DEF OutboxInvariant, RangesDisjoint, Keys
  <2>2. \A i \in k.from..k.through : i \in Pos BY <2>1, OverageAssumption DEF Pos
  <2>3. \A i \in k.from..k.through : billed[k.period][i] <= MaxForgets
    <3> SUFFICES ASSUME NEW i \in k.from..k.through PROVE billed[k.period][i] <= MaxForgets OBVIOUS
    <3>1. i \in Pos /\ Covers(k, i) BY <2>2 DEF Covers
    <3>2. billed[k.period][i] \in Nat /\ spent["forget"] \in Nat
      BY <2>1, <3>1 DEF TypeOK, StripeOK, SpentOK, Faults
    <3>3. billed[k.period][i] <= spent["forget"] BY <1>2, <3>1, <3>2 DEF OutboxInvariant, MeterBounded
    <3> QED BY <3>2, <3>3, OverageAssumption DEF Frugal
  <2>4. billed' = [billed EXCEPT ![k.period] =
                    [i \in Pos |-> IF i \in k.from..k.through THEN @[i] + 1 ELSE @[i]]]
    BY <1>2 DEF Count
  <2>5. Ledger!Meter(k.period, k.from, k.through)
    BY <2>1, <2>3, <2>4 DEF Ledger!Meter, Ledger!Pos, Pos
  <2> QED BY <2>1, <2>5 DEF Ledger!LedgerNext, Ledger!Pos, Pos
<1> QED BY <1>1, <1>2

\* Overage reporting implements the ledger: the claimed cursor only moves up,
\* and every claimed email reaches the meter once, plus at most once for every
\* identifier that leaves Stripe's deduplication window.
THEOREM RefinesLedger == Spec => ImplementsLedger
<1>1. Init => Ledger!LedgerInit
  BY DEF Init, Ledger!LedgerInit, Ledger!Pos, Pos
<1>2. TypeOK /\ OutboxInvariant /\ Frugal /\ [Next]_vars
      => [Ledger!LedgerNext]_<<claimed, billed>>
  <2> SUFFICES ASSUME TypeOK, OutboxInvariant, Frugal, [Next]_vars
               PROVE  Ledger!LedgerNext \/ UNCHANGED <<claimed, billed>>
    OBVIOUS
  <2>2. ASSUME NEW r \in Reporters, Submitting(r)
        PROVE  work[r] \in Keys /\ Registered(work[r])
    BY <2>2 DEF TypeOK, ReportersOK, OutboxInvariant, OnlyRegistered
  <2>3. ASSUME NEW r \in Reporters, ClaimRange(r) PROVE Ledger!LedgerNext
    BY <2>3, ClaimIsLedgerClaim
  <2>4. ASSUME NEW r \in Reporters, SubmitReport(r) \/ SubmitFails(r)
        PROVE  Ledger!LedgerNext \/ UNCHANGED <<claimed, billed>>
    <3>1. Submitting(r) /\ UNCHANGED claimed /\ (Count(work[r]) \/ UNCHANGED <<billed, seen>>)
      BY <2>4 DEF SubmitReport, SubmitFails, Submitting
    <3> QED BY <2>2, <3>1, CountIsLedgerMeter
  <2>5. ASSUME NEW r \in Reporters, Report(r) \/ ReportFault(r)
        PROVE  Ledger!LedgerNext \/ UNCHANGED <<claimed, billed>>
    BY <2>3, <2>4, <2>5 DEF Report, ReportFault, LoadPeriods, FindNoReport, SkipLeased, Reclaim,
       NothingToClaim, MarkReported, MarkFailed, MarkReportedFails, ScanFails, Crash
  <2>6. CASE \/ \E p \in Periods : Reserve(p) \/ Release(p) \/ Close(p)
             \/ \E k \in Keys : LeaseExpires(k) \/ LeaseOverrun(k) \/ Forget(k)
    BY <2>6 DEF Reserve, Release, Close, LeaseExpires, LeaseOverrun, RunOut, Forget
  <2> QED BY <2>5, <2>6 DEF Next, vars
<1> QED BY <1>1, <1>2, TypeCorrect, OutboxHolds, FrugalKept, PTL
     DEF Spec, ImplementsLedger, Ledger!LedgerSpec

-----------------------------------------------------------------------------
(* StripeSync: types *)

EventType == [type: Lifecycle \cup Invoices, sub: Subs, status: Statuses]

\* Whoever is not idle has an event that happened, and an invoice is written
\* only where a row was found.
EventsInHand ==
  \A h \in Handlers :
    /\ at[h] # "idle" => job[h] \in Happened
    /\ at[h] = "write" /\ log[job[h]].type \in Invoices => row # NoRow

\* What happens in Stripe is one event of a subscription, its first one "created".
LEMMA Happening ==
  ASSUME SyncTypeOK, NEW s \in Subs,
         Subscribe(s) \/ Pay(s) \/ MissPayment(s) \/ Edit(s) \/ Cancel(s)
  PROVE  \E t \in Lifecycle \cup Invoices, u \in Statuses :
           Emit(s, t, u) /\ (stripe[s] = "none" => t = "created")
<1> USE DEF SyncTypeOK, Statuses, Lifecycle, Invoices
<1>1. stripe[s] \in Statuses \/ stripe[s] = "none" OBVIOUS
<1>2. CASE Subscribe(s) BY <1>2 DEF Subscribe
<1>3. CASE Pay(s) BY <1>3 DEF Pay
<1>4. CASE MissPayment(s) BY <1>4 DEF MissPayment
<1>5. CASE Edit(s) BY <1>5 DEF Edit
<1>6. CASE Cancel(s) BY <1>6 DEF Cancel
<1> QED BY <1>2, <1>3, <1>4, <1>5, <1>6

\* The new event comes last, and the earlier ones stay what they were.
LEMMA Emitted ==
  ASSUME SyncTypeOK, NEW s \in Subs, NEW t \in Lifecycle \cup Invoices, NEW u \in Statuses,
         Emit(s, t, u)
  PROVE  /\ Len(log) \in Nat /\ Happened = 1..Len(log) /\ Happened' = 1..(Len(log) + 1)
         /\ log' \in Seq(EventType)
         /\ \A e \in Happened : log'[e] = log[e]
         /\ log'[Len(log) + 1] = [type |-> t, sub |-> s, status |-> u]
<1> DEFINE new == [type |-> t, sub |-> s, status |-> u]
<1>1. log \in Seq(EventType) BY DEF SyncTypeOK, EventType
<1>2. new \in EventType BY DEF EventType
<1>3. log' = Append(log, new) BY DEF Emit
<1> HIDE DEF new
<1>4. Len(log) \in Nat /\ DOMAIN log = 1..Len(log) BY <1>1
<1>5. /\ log' \in Seq(EventType) /\ DOMAIN log' = 1..(Len(log) + 1)
      /\ \A e \in 1..Len(log) : log'[e] = log[e]
      /\ log'[Len(log) + 1] = new
  BY <1>1, <1>2, <1>3
<1> QED BY <1>4, <1>5 DEF Happened, new

LEMMA SyncTypeEmit ==
  ASSUME SyncTypeOK, EventsInHand, NEW s \in Subs, NEW t \in Lifecycle \cup Invoices,
         NEW u \in Statuses, Emit(s, t, u)
  PROVE  SyncTypeOK' /\ EventsInHand'
<1>1. Happened \subseteq Happened' /\ Len(log) + 1 \in Happened'
  <2>1. Len(log) \in Nat /\ Happened = 1..Len(log) /\ Happened' = 1..(Len(log) + 1) BY Emitted
  <2> QED BY <2>1
<1>2. SyncTypeOK'
  <2>1. log' \in Seq([type : Lifecycle \cup Invoices, sub : Subs, status : Statuses])
    BY Emitted DEF EventType
  <2>2. stripe' \in [Subs -> Statuses \cup {"none"}] BY DEF SyncTypeOK, Emit
  <2>3. unanswered' \subseteq Happened' BY <1>1 DEF SyncTypeOK, Emit
  <2> HIDE DEF Happened
  <2> QED BY <1>1, <2>1, <2>2, <2>3 DEF SyncTypeOK, Emit, past
<1>3. EventsInHand'
  <2>1. \A e \in Happened : log'[e] = log[e] BY Emitted
  <2>2. at' = at /\ job' = job /\ row' = row BY DEF Emit
  <2> HIDE DEF Happened
  <2> QED BY <1>1, <2>1, <2>2 DEF EventsInHand
<1> QED BY <1>2, <1>3

LEMMA EventsTyped ==
  ASSUME SyncTypeOK
  PROVE  \A e \in Happened : log[e] \in EventType
<1>1. log \in Seq(EventType) BY DEF SyncTypeOK, EventType
<1> QED BY <1>1 DEF Happened

LEMMA SyncTypeHandlers ==
  ASSUME SyncTypeOK, EventsInHand, NEW h \in Handlers,
         (\E e \in Happened : Receive(h, e)) \/ Handle(h) \/ HandleFails(h) \/ Die(h)
  PROVE  SyncTypeOK' /\ EventsInHand' /\ log' = log /\ stripe' = stripe /\ (row # NoRow => row' # NoRow)
<1> USE DEF SyncTypeOK, EventsInHand, past, outside, AtWork
<1>0. log' = log /\ stripe' = stripe
  BY DEF Receive, Handle, Find, Write, Undo, Answer, HandleFails, Die
<1>1. \A e \in Happened : log[e] \in EventType BY EventsTyped
<1>2. Happened' = Happened BY <1>0 DEF Happened
<1>3. ASSUME WriteRow(h), at[h] = "write"
      PROVE  row' \in [sub : Subs, status : Statuses] /\ row' # NoRow
  <2>1. log[job[h]] \in EventType BY <1>1, <1>3
  <2>2. CASE log[job[h]].type \in Invoices
    <3>1. row \in [sub : Subs, status : Statuses] BY <1>3, <2>2
    <3>2. row' = [row EXCEPT !.status = log[job[h]].status] BY <1>3, <2>2 DEF WriteRow
    <3>3. log[job[h]].status \in Statuses BY <2>1 DEF EventType
    <3>4. row' \in [sub : Subs, status : Statuses] BY <3>1, <3>2, <3>3
    <3> QED BY <3>4, SyncAssumption DEF NoRow
  <2>3. CASE log[job[h]].type \notin Invoices
    BY <1>3, <2>1, <2>3, SyncAssumption DEF WriteRow, EventType, NoRow
  <2> QED BY <2>2, <2>3
<1> HIDE DEF Happened
<1> USE <1>0, <1>2
<1>4. ASSUME NEW e \in Happened, Receive(h, e)
      PROVE  SyncTypeOK' /\ EventsInHand' /\ (row # NoRow => row' # NoRow)
  BY <1>4 DEF Receive, Took, Go
<1>5. CASE Find(h)
  <2>1. log[job[h]].type \in Invoices /\ at'[h] = "write" => row # NoRow
    <3>1. at[h] = "find" /\ job[h] \in Happened BY <1>5 DEF Find
    <3>2. log[job[h]] \in EventType BY <1>1, <3>1
    <3>3. CASE log[job[h]].type \in Lifecycle
      BY <3>3 DEF Lifecycle, Invoices
    <3>4. CASE log[job[h]].type \notin Lifecycle
      <4>1. at'[h] = "write" => row.sub = log[job[h]].sub BY <1>5, <3>1, <3>4 DEF Find, Go
      <4> QED BY <3>2, <4>1, SyncAssumption DEF EventType, NoRow
    <3> QED BY <3>3, <3>4
  <2>2. row' = row /\ job' = job /\ \A i \in Handlers \ {h} : at'[i] = at[i]
    BY <1>5 DEF Find, Go
  <2>3. SyncTypeOK' BY <1>5 DEF Find, Go
  <2>4. EventsInHand' BY <1>5, <2>1, <2>2 DEF Find
  <2> QED BY <2>2, <2>3, <2>4
<1>6. CASE Write(h)
  <2>1. CASE Refused(h) BY <1>6, <2>1 DEF Write, Go
  <2>2. CASE ~Refused(h)
    <3>1. row' \in [sub : Subs, status : Statuses] /\ row' # NoRow BY <1>3, <1>6, <2>2 DEF Write
    <3> QED BY <1>6, <2>2, <3>1 DEF Write, Go
  <2> QED BY <2>1, <2>2
<1>7. CASE Undo(h) BY <1>7 DEF Undo, Rest, Go
<1>8. CASE Answer(h) BY <1>8 DEF Answer, Rest, Go
<1>9. CASE HandleFails(h)
  <2>1. CASE UNCHANGED row BY <1>9, <2>1 DEF HandleFails, Go, Mishap
  <2>2. CASE at[h] = "write" /\ WriteRow(h)
    <3>1. row' \in [sub : Subs, status : Statuses] /\ row' # NoRow BY <1>3, <2>2
    <3> QED BY <1>9, <3>1 DEF HandleFails, Go, Mishap
  <2> QED BY <1>9, <2>1, <2>2 DEF HandleFails
<1>10. CASE Die(h) BY <1>10 DEF Die, Rest, Go, Mishap
<1> QED BY <1>4, <1>5, <1>6, <1>7, <1>8, <1>9, <1>10 DEF Handle

\* Subscriptions, events and the row keep their types: an event in hand is one
\* that happened, and an update finds the row it was meant for.
THEOREM SyncTypeCorrect == SyncSpec => [](SyncTypeOK /\ EventsInHand)
<1>1. SyncInit => SyncTypeOK /\ EventsInHand
  <2> SUFFICES ASSUME SyncInit PROVE SyncTypeOK /\ EventsInHand OBVIOUS
  <2>1. log = <<>> /\ DOMAIN log = {} BY DEF SyncInit
  <2>2. log \in Seq([type : Lifecycle \cup Invoices, sub : Subs, status : Statuses]) BY <2>1
  <2> QED BY <2>1, <2>2 DEF SyncInit, SyncTypeOK, EventsInHand, AtWork, Happened
<1>2. SyncTypeOK /\ EventsInHand /\ [SyncNext]_syncVars => SyncTypeOK' /\ EventsInHand'
  <2> SUFFICES ASSUME SyncTypeOK, EventsInHand, [SyncNext]_syncVars
               PROVE  SyncTypeOK' /\ EventsInHand'
    OBVIOUS
  <2>1. CASE SyncNext BY <2>1, Happening, SyncTypeEmit, SyncTypeHandlers DEF SyncNext
  <2>2. CASE UNCHANGED syncVars
    BY <2>2 DEF syncVars, outside, past, SyncTypeOK, EventsInHand, Happened
  <2> QED BY <2>1, <2>2
<1> QED BY <1>1, <1>2, PTL DEF SyncSpec

-----------------------------------------------------------------------------
(* StripeSync: the mark is a lock, and no event is forgotten *)

\* An event in a handler's hands is marked, and not yet handled.
EventsAreMarked ==
  /\ handled \subseteq processed
  /\ \A h \in Handlers : at[h] \in AtWork => job[h] \in processed \ handled

\* A success answer is about an event that has been handled, or was given early
\* or to an event that a crash has struck.
AnswersAreEarned == \A h \in Handlers : at[h] = "answer" => job[h] \in handled \cup early \cup struck

MarkInvariant == OneHandler /\ EventsAreMarked /\ NothingForgotten /\ AnswersAreEarned

LEMMA EmitKeepsMarks ==
  ASSUME SyncTypeOK, EventsInHand, MarkInvariant, NEW s \in Subs, NEW t \in Lifecycle \cup Invoices,
         NEW u \in Statuses, Emit(s, t, u)
  PROVE  MarkInvariant'
<1>1. Len(log) \in Nat /\ Happened = 1..Len(log) /\ Happened' = 1..(Len(log) + 1) BY Emitted
<1>2. Happened' = Happened \cup {Len(log) + 1} /\ Len(log) + 1 \notin Happened BY <1>1
<1>3. UNCHANGED <<processed, at, job, handled, struck, early>>
      /\ unanswered' = unanswered \cup {Len(log) + 1}
  BY DEF Emit, past
<1>4. Len(log) + 1 \notin processed BY <1>2 DEF SyncTypeOK
<1> HIDE DEF Happened
<1>5. NothingForgotten' BY <1>2, <1>3, <1>4 DEF MarkInvariant, NothingForgotten, InHand
<1> QED BY <1>3, <1>5 DEF MarkInvariant, OneHandler, EventsAreMarked, AnswersAreEarned

LEMMA HandlersKeepMarks ==
  ASSUME SyncTypeOK, EventsInHand, MarkInvariant, NEW h \in Handlers,
         (\E e \in Happened : Receive(h, e)) \/ Handle(h) \/ HandleFails(h) \/ Die(h)
  PROVE  MarkInvariant'
<1> DEFINE e == job[h]
<1>0. Happened' = Happened BY SyncTypeHandlers DEF Happened
<1>1. /\ OneHandler /\ EventsAreMarked /\ NothingForgotten /\ AnswersAreEarned
      /\ at \in [Handlers -> {"idle", "answer"} \cup AtWork] /\ job \in [Handlers -> Happened \cup {0}]
  BY DEF MarkInvariant, SyncTypeOK
<1> HIDE DEF Happened
<1> USE <1>0, <1>1 DEF AtWork
<1>2. ASSUME NEW f \in Happened, Receive(h, f) PROVE MarkInvariant'
  <2>1. at[h] = "idle" /\ job' = [job EXCEPT ![h] = f]
        /\ UNCHANGED <<unanswered, handled, struck>>
    BY <1>2 DEF Receive
  <2>2. CASE f \in processed
    <3>1. at' = [at EXCEPT ![h] = "answer"] /\ processed' = processed
          /\ early' = IF InHand(f) THEN early \cup {f} ELSE early
      BY <1>2, <2>2 DEF Receive, Go
    <3>2. f \in handled \cup early' \cup struck BY <2>2, <3>1 DEF NothingForgotten
    <3>3. \A d \in Happened : InHand(d) => InHand(d)' BY <2>1, <3>1 DEF InHand
    <3>4. early \subseteq early' BY <3>1
    <3>5. OneHandler' BY <2>1, <3>1 DEF OneHandler
    <3>6. EventsAreMarked' BY <2>1, <3>1 DEF EventsAreMarked
    <3>7. NothingForgotten' BY <2>1, <3>1, <3>3, <3>4 DEF NothingForgotten
    <3>8. AnswersAreEarned' BY <2>1, <3>1, <3>2, <3>4 DEF AnswersAreEarned
    <3> QED BY <3>5, <3>6, <3>7, <3>8 DEF MarkInvariant
  <2>3. CASE f \notin processed
    <3>1. at' = [at EXCEPT ![h] = "find"] /\ processed' = processed \cup {f} /\ early' = early
      BY <1>2, <2>3 DEF Receive, Go, Took
    <3>2. InHand(f)' BY <2>1, <3>1 DEF InHand
    <3>3. \A d \in Happened : InHand(d) => InHand(d)' BY <2>1, <3>1 DEF InHand
    <3>4. OneHandler' BY <2>1, <2>3, <3>1 DEF OneHandler, EventsAreMarked
    <3>5. EventsAreMarked' BY <2>1, <2>3, <3>1 DEF EventsAreMarked
    <3>6. NothingForgotten' BY <2>1, <3>1, <3>2, <3>3 DEF NothingForgotten
    <3>7. AnswersAreEarned' BY <2>1, <3>1 DEF AnswersAreEarned
    <3> QED BY <3>4, <3>5, <3>6, <3>7 DEF MarkInvariant
  <2> QED BY <2>2, <2>3
\* The event is handled: it leaves the hand for good.
<1>3. ASSUME at[h] \in AtWork, at' = [at EXCEPT ![h] = "answer"], handled' = handled \cup {e},
             UNCHANGED <<unanswered, processed, job, struck, early>>
      PROVE  MarkInvariant'
  <2>1. \A d \in Happened : InHand(d) => InHand(d)' \/ d \in handled' BY <1>3 DEF InHand
  <2>2. OneHandler' BY <1>3 DEF OneHandler
  <2>3. EventsAreMarked' BY <1>3 DEF EventsAreMarked, OneHandler
  <2>4. NothingForgotten' BY <1>3, <2>1 DEF NothingForgotten
  <2>5. AnswersAreEarned' BY <1>3 DEF AnswersAreEarned
  <2> QED BY <2>2, <2>3, <2>4, <2>5 DEF MarkInvariant
\* The event stays in hand.
<1>4. ASSUME NEW place \in {"write", "undo"}, at[h] \in AtWork, at' = [at EXCEPT ![h] = place],
             UNCHANGED <<unanswered, processed, handled, job, struck, early>>
      PROVE  MarkInvariant'
  <2>1. \A d \in Happened : InHand(d) => InHand(d)' BY <1>4 DEF InHand
  <2>2. OneHandler' BY <1>4 DEF OneHandler
  <2>3. EventsAreMarked' BY <1>4 DEF EventsAreMarked
  <2>4. NothingForgotten' BY <1>4, <2>1 DEF NothingForgotten
  <2>5. AnswersAreEarned' BY <1>4 DEF AnswersAreEarned
  <2> QED BY <2>2, <2>3, <2>4, <2>5 DEF MarkInvariant
<1>5. CASE Find(h) BY <1>5, <1>3, <1>4 DEF Find, Go
<1>6. CASE Write(h) BY <1>6, <1>3, <1>4 DEF Write, Go
<1>7. CASE HandleFails(h) BY <1>7, <1>4 DEF HandleFails, Go, past
<1>8. CASE Undo(h)
  <2>1. /\ at[h] = "undo" /\ at' = [at EXCEPT ![h] = "idle"] /\ job' = [job EXCEPT ![h] = 0]
        /\ processed' = processed \ {e} /\ UNCHANGED <<unanswered, handled, struck, early>>
    BY <1>8 DEF Undo, Rest, Go, past
  <2>2. \A d \in Happened \ {e} : InHand(d) => InHand(d)' BY <2>1 DEF InHand
  <2>3. OneHandler' BY <2>1 DEF OneHandler
  <2>4. EventsAreMarked' BY <2>1 DEF EventsAreMarked, OneHandler
  <2>5. NothingForgotten' BY <2>1, <2>2 DEF NothingForgotten
  <2>6. AnswersAreEarned' BY <2>1 DEF AnswersAreEarned
  <2> QED BY <2>3, <2>4, <2>5, <2>6 DEF MarkInvariant
<1>9. CASE Answer(h)
  <2>1. /\ at[h] = "answer" /\ at' = [at EXCEPT ![h] = "idle"] /\ job' = [job EXCEPT ![h] = 0]
        /\ unanswered' = unanswered \ {e} /\ UNCHANGED <<processed, handled, struck, early>>
    BY <1>9 DEF Answer, Rest, Go, past
  <2>2. \A d \in Happened : InHand(d) => InHand(d)' BY <2>1 DEF InHand
  <2>3. OneHandler' BY <2>1 DEF OneHandler
  <2>4. EventsAreMarked' BY <2>1 DEF EventsAreMarked
  <2>5. e \in handled \cup early \cup struck BY <2>1 DEF AnswersAreEarned
  <2>6. NothingForgotten' BY <2>1, <2>2, <2>5 DEF NothingForgotten
  <2>7. AnswersAreEarned' BY <2>1 DEF AnswersAreEarned
  <2> QED BY <2>3, <2>4, <2>6, <2>7 DEF MarkInvariant
<1>10. CASE Die(h)
  <2>1. /\ at' = [at EXCEPT ![h] = "idle"] /\ job' = [job EXCEPT ![h] = 0]
        /\ struck' = IF at[h] \in AtWork THEN struck \cup {e} ELSE struck
        /\ UNCHANGED <<unanswered, processed, handled, early>>
    BY <1>10 DEF Die, Rest, Go
  <2>2. \A d \in Happened \ struck' : InHand(d) => InHand(d)' BY <2>1 DEF InHand
  <2>3. OneHandler' BY <2>1 DEF OneHandler
  <2>4. EventsAreMarked' BY <2>1 DEF EventsAreMarked
  <2>5. NothingForgotten' BY <2>1, <2>2 DEF NothingForgotten
  <2>6. AnswersAreEarned' BY <2>1 DEF AnswersAreEarned
  <2> QED BY <2>3, <2>4, <2>5, <2>6 DEF MarkInvariant
<1> QED BY <1>2, <1>5, <1>6, <1>7, <1>8, <1>9, <1>10 DEF Handle

\* The inductive invariant of the mark: an event in hand is marked and not yet
\* handled, and every success answer is earned but for the two exceptions.
THEOREM MarksHold == SyncSpec => []MarkInvariant
<1>1. SyncInit => MarkInvariant
  <2> SUFFICES ASSUME SyncInit PROVE MarkInvariant OBVIOUS
  <2>1. Happened = {} BY DEF SyncInit, Happened
  <2> QED BY <2>1 DEF SyncInit, MarkInvariant, OneHandler, EventsAreMarked, NothingForgotten,
                      AnswersAreEarned, AtWork
<1>2. SyncTypeOK /\ EventsInHand /\ MarkInvariant /\ [SyncNext]_syncVars => MarkInvariant'
  <2> SUFFICES ASSUME SyncTypeOK, EventsInHand, MarkInvariant, [SyncNext]_syncVars
               PROVE  MarkInvariant'
    OBVIOUS
  <2>1. CASE SyncNext BY <2>1, Happening, EmitKeepsMarks, HandlersKeepMarks DEF SyncNext
  <2>2. CASE UNCHANGED syncVars
    BY <2>2 DEF syncVars, outside, past, MarkInvariant, OneHandler, EventsAreMarked, NothingForgotten,
                AnswersAreEarned, InHand, Happened
  <2> QED BY <2>1, <2>2
<1> QED BY <1>1, <1>2, SyncTypeCorrect, PTL DEF SyncSpec

\* However often and beside each other Stripe posts an event, one handler has it.
THEOREM LockedByMark == SyncSpec => []OneHandler
<1>1. MarkInvariant => OneHandler BY DEF MarkInvariant
<1> QED BY <1>1, MarksHold, PTL

\* A marked event has been or is being handled, an answered one has been
\* handled, but for a crash that leaves the mark and an early duplicate's answer.
THEOREM Remembered == SyncSpec => []NothingForgotten
<1>1. MarkInvariant => NothingForgotten BY DEF MarkInvariant
<1> QED BY <1>1, MarksHold, PTL

-----------------------------------------------------------------------------
(* StripeSync: the row follows Stripe *)

\* What Stripe says of a subscription is what its last event says, and before
\* any event it says nothing.
LastOf(s, e) == log[e].sub = s /\ \A f \in Happened : f > e => log[f].sub # s
LogTellsAll ==
  \A s \in Subs :
    \/ stripe[s] = "none" /\ \A e \in Happened : log[e].sub # s
    \/ \E e \in Happened : LastOf(s, e) /\ log[e].status = stripe[s]

\* The first event makes a row.
FirstMakesRow == 1 \in Happened => log[1].type = "created" /\ (1 \in handled => row # NoRow)

\* As long as events are handled one at a time and in order, the row has its
\* status from an event of its subscription after which none has been handled.
\* Failed writes and events that were undone are included: they are why the
\* event need not itself be handled.
RowFrom(e) ==
  /\ log[e].sub = row.sub /\ log[e].status = row.status
  /\ \A f \in Happened : f > e /\ log[f].sub = row.sub => f \notin handled
OneAtATime ==
  /\ \A h, i \in Handlers : at[h] \in AtWork /\ at[i] \in AtWork => h = i
  /\ \A h \in Handlers : at[h] \in AtWork => \A f \in Happened : f > job[h] => f \notin handled
RowHasSource ==
  /\ \A h \in Handlers : at[h] = "write" /\ log[job[h]].type \in Invoices => row.sub = log[job[h]].sub
  /\ row # NoRow => \E e \in Happened : RowFrom(e)

RowInvariant ==
  /\ LogTellsAll /\ FirstMakesRow
  /\ ~disordered => OneAtATime /\ RowHasSource

LEMMA EmitKeepsRow ==
  ASSUME SyncTypeOK, EventsInHand, RowInvariant, NEW s \in Subs, NEW t \in Lifecycle \cup Invoices,
         NEW u \in Statuses, Emit(s, t, u), stripe[s] = "none" => t = "created"
  PROVE  RowInvariant'
<1> DEFINE n == Len(log) + 1
<1>1. Len(log) \in Nat /\ Happened = 1..Len(log) /\ Happened' = 1..n BY Emitted
<1>2. /\ n \in Nat /\ Happened' = Happened \cup {n} /\ n \notin Happened
      /\ \A e \in Happened : e \in Nat /\ n > e /\ ~(e > n)
  BY <1>1
<1>3. /\ \A e \in Happened : log'[e] = log[e]
      /\ log'[n].type = t /\ log'[n].sub = s /\ log'[n].status = u
  <2>1. /\ \A e \in Happened : log'[e] = log[e]
        /\ log'[n] = [type |-> t, sub |-> s, status |-> u]
    BY Emitted
  <2> QED BY <2>1
<1>4. /\ stripe' = [stripe EXCEPT ![s] = u]
      /\ UNCHANGED <<row, at, job, handled, disordered>>
  BY DEF Emit, past
<1>5. n \notin handled BY <1>2 DEF SyncTypeOK
<1>6. 1 \in Happened \/ n = 1 BY <1>1
<1>7. stripe \in [Subs -> Statuses \cup {"none"}] BY DEF SyncTypeOK
<1> HIDE DEF n, Happened
<1>9. LogTellsAll'
  <2> SUFFICES ASSUME NEW r \in Subs
               PROVE  \/ stripe'[r] = "none" /\ \A e \in Happened' : log'[e].sub # r
                      \/ \E e \in Happened' : LastOf(r, e)' /\ log'[e].status = stripe'[r]
    BY DEF LogTellsAll
  <2>1. CASE r = s
    <3>1. PICK e \in Happened' : e = n BY <1>2
    <3>2. LastOf(s, e)'
      <4>1. log'[e].sub = s BY <1>3, <3>1
      <4>2. \A f \in Happened' : ~(f > e) BY <1>2, <3>1
      <4> QED BY <4>1, <4>2 DEF LastOf
    <3>3. log'[e].status = stripe'[s] BY <1>3, <1>4, <1>7, <3>1
    <3> QED BY <2>1, <3>2, <3>3
  <2>2. CASE r # s
    <3>1. stripe'[r] = stripe[r] BY <1>4, <1>7, <2>2
    <3>2. CASE stripe[r] = "none" /\ \A e \in Happened : log[e].sub # r
      BY <1>2, <1>3, <2>2, <3>1, <3>2
    <3>3. CASE \E e \in Happened : LastOf(r, e) /\ log[e].status = stripe[r]
      <4>1. PICK e \in Happened : LastOf(r, e) /\ log[e].status = stripe[r] BY <3>3
      <4>2. LastOf(r, e)' BY <1>2, <1>3, <2>2, <4>1 DEF LastOf
      <4> QED BY <1>2, <1>3, <3>1, <4>1, <4>2
    <3> QED BY <3>2, <3>3 DEF RowInvariant, LogTellsAll
  <2> QED BY <2>1, <2>2
<1>10. FirstMakesRow'
  <2>1. CASE 1 \in Happened BY <1>3, <1>4, <2>1 DEF RowInvariant, FirstMakesRow
  <2>2. CASE 1 \notin Happened
    <3>1. n = 1 BY <1>6, <2>2
    <3>2. Happened = {} BY <1>1, <3>1 DEF n
    <3>3. stripe[s] = "none" BY <3>2 DEF RowInvariant, LogTellsAll
    <3> QED BY <1>3, <1>4, <1>5, <3>1, <3>3 DEF FirstMakesRow
  <2> QED BY <2>1, <2>2
<1>11. ASSUME ~disordered PROVE OneAtATime' /\ RowHasSource'
  <2>1. OneAtATime /\ RowHasSource BY <1>11 DEF RowInvariant
  <2>2. OneAtATime' BY <1>2, <1>4, <1>5, <2>1 DEF OneAtATime
  <2>3. \A h \in Handlers : at[h] = "write" => job[h] \in Happened BY DEF EventsInHand
  <2>4. ASSUME NEW e \in Happened, RowFrom(e) PROVE RowFrom(e)'
    BY <1>2, <1>3, <1>4, <1>5, <2>4 DEF RowFrom
  <2>5. RowHasSource' BY <1>2, <1>3, <1>4, <2>1, <2>3, <2>4 DEF RowHasSource
  <2> QED BY <2>2, <2>5
<1> QED BY <1>4, <1>9, <1>10, <1>11 DEF RowInvariant

\* The post that marks an event is the only one that can disorder, and says so.
LEMMA ReceiveKeepsRow ==
  ASSUME SyncTypeOK, EventsInHand, MarkInvariant, RowInvariant, NEW h \in Handlers,
         NEW e \in Happened, Receive(h, e)
  PROVE  RowInvariant'
<1>1. log' = log /\ stripe' = stripe BY SyncTypeHandlers
<1>2. at[h] = "idle" /\ job' = [job EXCEPT ![h] = e] /\ UNCHANGED <<row, handled>>
  BY DEF Receive
<1>3. Happened' = Happened BY <1>1 DEF Happened
<1>4. /\ at \in [Handlers -> {"idle", "answer"} \cup AtWork] /\ job \in [Handlers -> Happened \cup {0}]
      /\ disordered \in BOOLEAN
  BY DEF SyncTypeOK
<1> HIDE DEF Happened
<1>5. LogTellsAll' BY <1>1, <1>3 DEF RowInvariant, LogTellsAll, LastOf
<1>6. FirstMakesRow' BY <1>1, <1>2, <1>3 DEF RowInvariant, FirstMakesRow
<1>7. ASSUME ~disordered' PROVE OneAtATime' /\ RowHasSource'
  <2>1. CASE e \in processed
    <3>1. at' = [at EXCEPT ![h] = "answer"] /\ ~disordered BY <1>7, <2>1 DEF Receive, Go
    <3>2. OneAtATime /\ RowHasSource BY <3>1 DEF RowInvariant
    <3>3. OneAtATime' BY <1>1, <1>2, <1>3, <1>4, <3>1, <3>2 DEF OneAtATime, AtWork
    <3>4. RowHasSource' BY <1>1, <1>2, <1>3, <1>4, <3>1, <3>2 DEF RowHasSource, RowFrom
    <3> QED BY <3>3, <3>4
  <2>2. CASE e \notin processed
    <3>1. at' = [at EXCEPT ![h] = "find"] /\ ~disordered /\ ~Beside(e)
      BY <1>7, <2>2 DEF Receive, Go
    <3>2. OneAtATime /\ RowHasSource BY <3>1 DEF RowInvariant
    <3>3. \A i \in Handlers : at[i] \notin AtWork
      <4> SUFFICES ASSUME NEW i \in Handlers, at[i] \in AtWork PROVE FALSE OBVIOUS
      <4>1. job[i] \in Happened /\ job[i] \in processed
        BY DEF EventsInHand, MarkInvariant, EventsAreMarked, AtWork
      <4>2. job[i] # e BY <2>2, <4>1
      <4>3. InHand(job[i]) BY DEF InHand
      <4> QED BY <3>1, <4>1, <4>2, <4>3 DEF Beside
    <3>4. \A f \in Happened : f > e => f \notin handled
      <4>1. \A f \in Happened : f \in Nat BY DEF SyncTypeOK, Happened
      <4> QED BY <3>1, <4>1 DEF Beside
    <3>5. OneAtATime' BY <1>1, <1>2, <1>3, <1>4, <3>1, <3>3, <3>4 DEF OneAtATime, AtWork
    <3>6. RowHasSource' BY <1>1, <1>2, <1>3, <1>4, <3>1, <3>2 DEF RowHasSource, RowFrom
    <3> QED BY <3>5, <3>6
  <2> QED BY <2>1, <2>2
<1> QED BY <1>5, <1>6, <1>7 DEF RowInvariant

\* With one handler at work at a time, what it writes, or finds written, comes
\* from the event in its hand, after which none has been handled.
LEMMA HandlersKeepRow ==
  ASSUME SyncTypeOK, EventsInHand, RowInvariant, NEW h \in Handlers,
         Handle(h) \/ HandleFails(h) \/ Die(h)
  PROVE  RowInvariant'
<1> DEFINE e == job[h]
<1>1. log' = log /\ stripe' = stripe /\ (row # NoRow => row' # NoRow) BY SyncTypeHandlers
<1>2. Happened' = Happened BY <1>1 DEF Happened
<1>3. /\ at \in [Handlers -> {"idle", "answer"} \cup AtWork] /\ job \in [Handlers -> Happened \cup {0}]
      /\ disordered \in BOOLEAN /\ (\A f \in Happened : f \in Nat)
  BY DEF SyncTypeOK, Happened
<1>4. disordered' = disordered
  BY DEF Handle, Find, Write, Undo, Answer, HandleFails, Die, past
<1>5. \A f \in Happened : log[f] \in EventType BY EventsTyped
<1> HIDE DEF Happened
<1>6. /\ \A i \in Handlers : at'[i] \in AtWork => at[i] \in AtWork /\ job'[i] = job[i]
      /\ \A i \in Handlers \ {h} : at'[i] = at[i]
      /\ at'[h] \in AtWork => handled' = handled
  <2> USE <1>3 DEF AtWork, Go, Rest, past
  <2>1. CASE Find(h) BY <2>1 DEF Find
  <2>2. CASE Write(h) BY <2>2 DEF Write
  <2>3. CASE Undo(h) BY <2>3 DEF Undo
  <2>4. CASE Answer(h) BY <2>4 DEF Answer
  <2>5. CASE HandleFails(h) BY <2>5 DEF HandleFails
  <2>6. CASE Die(h) BY <2>6 DEF Die
  <2> QED BY <2>1, <2>2, <2>3, <2>4, <2>5, <2>6 DEF Handle
<1>7. handled' = handled \/ (handled' = handled \cup {e} /\ at[h] \in AtWork)
  BY DEF Handle, Find, Write, Undo, Answer, HandleFails, Die, past, AtWork
<1>8. at[h] \in AtWork => e \in Happened BY DEF EventsInHand, AtWork
<1>9. LogTellsAll' BY <1>1, <1>2 DEF RowInvariant, LogTellsAll, LastOf
<1>10. FirstMakesRow'
  <2> SUFFICES ASSUME 1 \in Happened, 1 \in handled', 1 \notin handled PROVE row' # NoRow
    BY <1>1, <1>2 DEF RowInvariant, FirstMakesRow
  <2>1. e = 1 /\ at[h] \in AtWork BY <1>7
  <2>2. log[e].type = "created" BY <2>1 DEF RowInvariant, FirstMakesRow
  <2>3. log[e].sub \in Subs BY <1>5, <2>1 DEF EventType
  <2>4. Write(h) /\ ~Refused(h)
    BY <2>1, <2>2 DEF Handle, Find, Write, Undo, Answer, HandleFails, Die, past, Lifecycle, Invoices
  <2>5. row'.sub = log[e].sub BY <2>2, <2>4 DEF Write, WriteRow, Invoices
  <2> QED BY <2>3, <2>5, SyncAssumption DEF NoRow
<1>11. ASSUME ~disordered PROVE OneAtATime' /\ RowHasSource'
  <2>1. OneAtATime /\ RowHasSource BY <1>11 DEF RowInvariant
  <2>2. OneAtATime'
    <3>1. \A i \in Handlers : at'[i] \in AtWork => handled' = handled
      BY <1>6, <1>7, <2>1 DEF OneAtATime
    <3> QED BY <1>2, <1>6, <2>1, <3>1 DEF OneAtATime
  <2>3. \A f \in Happened : at[h] \in AtWork /\ f > e => f \notin handled'
    BY <1>3, <1>7, <1>8, <2>1 DEF OneAtATime
  \* The row is left alone, and no event of its subscription is newly handled.
  <2>4. ASSUME row' = row, \A f \in Happened : log[f].sub = row.sub /\ f \in handled' => f \in handled
        PROVE  row' # NoRow => \E f \in Happened : RowFrom(f)'
    BY <1>1, <1>2, <2>1, <2>4 DEF RowHasSource, RowFrom
  \* The row says what the event in hand says.
  <2>5. ASSUME at[h] \in AtWork, row'.sub = log[e].sub, row'.status = log[e].status
        PROVE  \E f \in Happened : RowFrom(f)'
    <3>1. PICK f \in Happened : f = e BY <1>8, <2>5
    <3>2. \A d \in Happened : d > f => d \notin handled' BY <2>3, <2>5, <3>1
    <3>3. RowFrom(f)' BY <1>1, <1>2, <2>5, <3>1, <3>2 DEF RowFrom
    <3> QED BY <3>3
  <2>6. ASSUME at[h] = "write", WriteRow(h) PROVE row'.sub = log[e].sub /\ row'.status = log[e].status
    <3>1. CASE log[e].type \in Invoices
      <4>1. row # NoRow /\ row.sub = log[e].sub BY <2>1, <2>6, <3>1 DEF RowHasSource, EventsInHand
      <4>2. row \in [sub : Subs, status : Statuses] BY <4>1 DEF SyncTypeOK
      <4> QED BY <2>6, <3>1, <4>1, <4>2 DEF WriteRow
    <3>2. CASE log[e].type \notin Invoices BY <2>6, <3>2 DEF WriteRow
    <3> QED BY <3>1, <3>2
  <2>7. row' # NoRow => \E f \in Happened : RowFrom(f)'
    <3>1. CASE Find(h)
      <4>1. row' = row /\ at[h] \in AtWork BY <3>1 DEF Find, AtWork
      <4>2. CASE handled' = handled BY <2>4, <4>1, <4>2
      <4>3. CASE handled' # handled
        <5>1. row.sub # log[e].sub \/ row.status = log[e].status
          BY <3>1, <4>3 DEF Find
        <5>2. CASE row.sub # log[e].sub
          BY <1>7, <2>4, <4>1, <5>2
        <5>3. CASE row.sub = log[e].sub /\ row.status = log[e].status
          BY <2>5, <4>1, <5>3
        <5> QED BY <5>1, <5>2, <5>3
      <4> QED BY <4>2, <4>3
    <3>2. CASE Write(h)
      <4>1. at[h] = "write" /\ at[h] \in AtWork BY <3>2 DEF Write, AtWork
      <4>2. CASE Refused(h) BY <3>2, <2>4, <4>2 DEF Write
      <4>3. CASE ~Refused(h)
        <5>1. WriteRow(h) BY <3>2, <4>3 DEF Write
        <5> QED BY <2>5, <2>6, <4>1, <5>1
      <4> QED BY <4>2, <4>3
    <3>3. CASE HandleFails(h)
      <4>1. handled' = handled BY <3>3 DEF HandleFails, past
      <4>2. CASE row' = row BY <2>4, <4>1, <4>2
      <4>3. CASE at[h] = "write" /\ WriteRow(h)
        <5>1. at[h] \in AtWork BY <4>3 DEF AtWork
        <5> QED BY <2>5, <2>6, <4>3, <5>1
      <4> QED BY <3>3, <4>2, <4>3 DEF HandleFails
    <3>4. CASE Undo(h) \/ Answer(h) \/ Die(h)
      <4>1. row' = row /\ handled' = handled BY <3>4 DEF Undo, Answer, Die, past
      <4> QED BY <2>4, <4>1
    <3> QED BY <3>1, <3>2, <3>3, <3>4 DEF Handle
  <2>8. ASSUME NEW i \in Handlers, at'[i] = "write", log'[job'[i]].type \in Invoices
        PROVE  row'.sub = log'[job'[i]].sub
    <3>1. at[i] \in AtWork /\ job'[i] = job[i] BY <1>6, <2>8 DEF AtWork
    <3>2. CASE i = h
      <4>1. Find(h)
        BY <1>3, <2>8, <3>2 DEF Handle, Write, Undo, Answer, HandleFails, Die, Go, Rest
      <4>2. log[e].type \notin Lifecycle BY <1>1, <2>8, <3>1, <3>2 DEF Lifecycle, Invoices
      <4>3. row.sub = log[e].sub /\ row' = row BY <1>3, <2>8, <3>2, <4>1, <4>2 DEF Find, Go
      <4> QED BY <1>1, <3>1, <3>2, <4>3
    <3>3. CASE i # h
      <4>1. at[i] = "write" BY <1>6, <2>8, <3>3
      <4>2. at[h] \notin AtWork BY <2>1, <3>1, <3>3 DEF OneAtATime
      <4>3. row' = row
        BY <4>2 DEF Handle, Find, Write, Undo, Answer, HandleFails, Die, AtWork, past
      <4> QED BY <1>1, <2>1, <2>8, <3>1, <4>1, <4>3 DEF RowHasSource
    <3> QED BY <3>2, <3>3
  <2>9. RowHasSource' BY <1>2, <2>7, <2>8 DEF RowHasSource
  <2> QED BY <2>2, <2>9
<1> QED BY <1>4, <1>9, <1>10, <1>11 DEF RowInvariant

\* The inductive invariant of the row: it says what some event of its
\* subscription said, and no later one has been handled.
THEOREM RowHolds == SyncSpec => []RowInvariant
<1>1. SyncInit => RowInvariant
  <2> SUFFICES ASSUME SyncInit PROVE RowInvariant OBVIOUS
  <2>1. Happened = {} BY DEF SyncInit, Happened
  <2> QED BY <2>1 DEF SyncInit, RowInvariant, LogTellsAll, FirstMakesRow, OneAtATime, RowHasSource, AtWork
<1>2. SyncTypeOK /\ EventsInHand /\ MarkInvariant /\ RowInvariant /\ [SyncNext]_syncVars => RowInvariant'
  <2> SUFFICES ASSUME SyncTypeOK, EventsInHand, MarkInvariant, RowInvariant, [SyncNext]_syncVars
               PROVE  RowInvariant'
    OBVIOUS
  <2>1. CASE SyncNext
    BY <2>1, Happening, EmitKeepsRow, ReceiveKeepsRow, HandlersKeepRow DEF SyncNext
  <2>2. CASE UNCHANGED syncVars
    BY <2>2 DEF syncVars, outside, past, RowInvariant, LogTellsAll, LastOf, FirstMakesRow, OneAtATime,
                RowHasSource, RowFrom, Happened
  <2> QED BY <2>1, <2>2
<1> QED BY <1>1, <1>2, SyncTypeCorrect, MarksHold, PTL DEF SyncSpec

\* While events are handled one at a time and in order, the row says what Stripe
\* says of its subscription whenever every event has been handled.
THEOREM RowFollows == SyncSpec => []RowFollowsStripe
<1>1. SyncTypeOK /\ RowInvariant => RowFollowsStripe
  <2> SUFFICES ASSUME SyncTypeOK, RowInvariant, ~disordered, handled = Happened, log # <<>>
               PROVE  row # NoRow /\ row.status = stripe[row.sub]
    BY DEF RowFollowsStripe, Settled
  <2>1. Len(log) \in Nat /\ Happened = 1..Len(log) /\ Len(log) # 0
    <3>1. log \in Seq(EventType) BY DEF SyncTypeOK, EventType
    <3> QED BY <3>1 DEF Happened
  <2>2. row # NoRow BY <2>1 DEF RowInvariant, FirstMakesRow
  <2>3. row.sub \in Subs BY <2>2 DEF SyncTypeOK
  <2>4. PICK e \in Happened : RowFrom(e) BY <2>2 DEF RowInvariant, RowHasSource
  <2>5. PICK f \in Happened : LastOf(row.sub, f) /\ log[f].status = stripe[row.sub]
    BY <2>3, <2>4 DEF RowInvariant, LogTellsAll, RowFrom
  <2>6. e = f BY <2>1, <2>4, <2>5 DEF RowFrom, LastOf
  <2> QED BY <2>2, <2>4, <2>5, <2>6 DEF RowFrom
<1> QED BY <1>1, RowHolds, SyncTypeCorrect, PTL
=============================================================================
