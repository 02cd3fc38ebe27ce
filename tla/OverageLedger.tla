----------------------------- MODULE OverageLedger -----------------------------
(***************************************************************************)
(* What overage reporting promises, without reports, leases or schedulers: *)
(* each usage period has a cursor of overage emails claimed for billing,   *)
(* which only moves up, and Stripe's meter counts every claimed email once *)
(* and at most MaxRepeats times more, and no email that was never claimed. *)
(***************************************************************************)
EXTENDS Integers

CONSTANTS
  Periods,    \* usage periods
  Top,        \* bound on the overage emails of a period
  MaxRepeats  \* how often an email may be counted again

VARIABLES
  cursor,   \* per period: overage emails claimed for billing so far
  meter     \* per period and overage email: how often it was metered

Pos == 1..Top

LedgerInit ==
  /\ cursor = [p \in Periods |-> 0]
  /\ meter = [p \in Periods |-> [i \in Pos |-> 0]]

Claim(p) ==
  /\ \E n \in Pos : n > cursor[p] /\ cursor' = [cursor EXCEPT ![p] = n]
  /\ UNCHANGED meter

\* A range of claimed emails, none of them metered too often yet, reaches the
\* meter.
Meter(p, from, through) ==
  /\ from <= through /\ through <= cursor[p]
  /\ \A i \in from..through : meter[p][i] <= MaxRepeats
  /\ meter' = [meter EXCEPT ![p] = [i \in Pos |-> IF i \in from..through THEN @[i] + 1 ELSE @[i]]]
  /\ UNCHANGED cursor

LedgerNext ==
  \E p \in Periods : Claim(p) \/ \E from, through \in Pos : Meter(p, from, through)

LedgerSpec == LedgerInit /\ [][LedgerNext]_<<cursor, meter>>

=============================================================================
