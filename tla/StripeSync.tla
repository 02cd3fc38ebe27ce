------------------------------- MODULE StripeSync -------------------------------
(***************************************************************************)
(* One user's subscription row, kept by Stripe's webhook events: Stripe    *)
(* posts an event until it is answered with success, in any order; the     *)
(* ingester marks it processed, handles it, and removes the mark again if  *)
(* that fails.                                                             *)
(*                                                                         *)
(* An action is one statement or one answer, or one event in Stripe.  The  *)
(* plan, the billing period and the warning mailed about a failed payment  *)
(* (whose failure is swallowed) are left out; the user and the plan of     *)
(* every subscription are known.                                           *)
(*                                                                         *)
(* Names that BillingOverage has too are qualified here (SyncInit, at,     *)
(* mishaps, ...), so that one module can state theorems about both.        *)
(***************************************************************************)
EXTENDS Integers, Sequences

CONSTANTS
  Subs,       \* the user's subscriptions in Stripe, numbers
  Handlers,   \* concurrent requests the ingester serves
  MaxEvents,  \* bound on what happens in Stripe
  MaxMishaps,  \* bound on crashes, failing calls and lost answers
  NoSub        \* no subscription, no event

ASSUME SyncAssumption ==
  /\ Subs \subseteq Nat /\ NoSub \notin Subs
  /\ MaxEvents \in Nat /\ MaxMishaps \in Nat

VARIABLES
  stripe,      \* per subscription: its status in Stripe
  log,         \* Stripe's events, in the order they happened
  unanswered,  \* events Stripe has no success answer for
  processed,   \* events with a stripe_events_processed row
  row,         \* the user's subscriptions row
  at, job,     \* per handler: where it stands, and its event
  found,       \* per handler: the lookup found a row
  handled,     \* history: events handled to the end
  struck,      \* history: events left marked by a crash or a failing removal
  early,       \* history: events answered as duplicates while in a handler's hands
  disordered,  \* history: an event was marked beside another or after a later one
  mishaps      \* crashes, failing calls and lost answers so far

outside == <<stripe, log>>
past == <<handled, struck, early, disordered>>
syncVars == <<outside, unanswered, processed, row, at, job, found, past, mishaps>>

Statuses == {"incomplete", "active", "past_due", "canceled"}
Lifecycle == {"created", "updated", "deleted"}
Invoices  == {"paid", "payment_failed"}
NoRow     == [sub |-> NoSub, status |-> "none"]
AtWork    == {"find", "write", "undo"}
Happened  == DOMAIN log

SyncTypeOK ==
  /\ stripe \in [Subs -> Statuses \cup {"none"}]
  /\ log \in Seq([type : Lifecycle \cup Invoices, sub : Subs, status : Statuses])
  /\ unanswered \subseteq Happened /\ processed \subseteq Happened
  /\ row \in [sub : Subs, status : Statuses] \cup {NoRow}
  /\ at \in [Handlers -> {"idle", "answer"} \cup AtWork]
  /\ job \in [Handlers -> Happened \cup {0}]
  /\ found \in [Handlers -> BOOLEAN]
  /\ handled \subseteq Happened /\ struck \subseteq Happened /\ early \subseteq Happened
  /\ disordered \in BOOLEAN /\ mishaps \in Nat

SyncInit ==
  /\ stripe = [s \in Subs |-> "none"] /\ log = <<>> /\ unanswered = {}
  /\ processed = {} /\ row = NoRow
  /\ at = [h \in Handlers |-> "idle"] /\ job = [h \in Handlers |-> 0]
  /\ found = [h \in Handlers |-> FALSE]
  /\ handled = {} /\ struck = {} /\ early = {} /\ disordered = FALSE /\ mishaps = 0

-----------------------------------------------------------------------------
(* Stripe (external): what happens there, and the event that tells of it *)

Emit(s, type, status) ==
  /\ Len(log) < MaxEvents
  /\ stripe' = [stripe EXCEPT ![s] = status]
  /\ log' = Append(log, [type |-> type, sub |-> s, status |-> status])
  /\ unanswered' = unanswered \cup {Len(log) + 1}
  /\ UNCHANGED <<processed, row, at, job, found, past, mishaps>>

\* Subscriptions are numbered as they are made.
Subscribe(s) ==
  /\ stripe[s] = "none" /\ \A r \in Subs : r < s => stripe[r] # "none"
  /\ Emit(s, "created", "incomplete")

Pay(s)       == stripe[s] \in Statuses \ {"canceled"} /\ Emit(s, "paid", "active")
MissPayment(s) == stripe[s] = "active" /\ Emit(s, "payment_failed", "past_due")
Edit(s)      == stripe[s] \in Statuses \ {"canceled"} /\ Emit(s, "updated", stripe[s])
Cancel(s)    == stripe[s] \in Statuses \ {"canceled"} /\ Emit(s, "deleted", "canceled")

-----------------------------------------------------------------------------
(* The event is posted and marked: one step, as nothing is read before *)

Go(h, place) == at' = [at EXCEPT ![h] = place]
Mishap == mishaps < MaxMishaps /\ mishaps' = mishaps + 1
Rest(h) == Go(h, "idle") /\ job' = [job EXCEPT ![h] = 0] /\ found' = [found EXCEPT ![h] = FALSE]
InHand(e) == \E h \in Handlers : job[h] = e /\ at[h] \in AtWork

Took(e) == processed' = processed \cup {e} /\ UNCHANGED early
Beside(e) == \E o \in Happened \ {e} : InHand(o) \/ (o > e /\ o \in handled)

\* Mutated forms, each a bug this code could plausibly have, stand right before
\* the definition they are forms of; no specification uses them.
Receive_ReadFirst(h, e) ==
  /\ at[h] = "idle" /\ e \in unanswered /\ job' = [job EXCEPT ![h] = e]
  /\ IF e \in handled
     THEN Go(h, "answer") /\ UNCHANGED <<processed, early, disordered>>
     ELSE Go(h, "find") /\ Took(e) /\ disordered' = (disordered \/ Beside(e))
  /\ UNCHANGED <<outside, unanswered, row, found, handled, struck, mishaps>>

\* Stripe posts what it has no answer for, while an earlier post is handled
\* too.  markProcessed is the insert that does nothing on a conflict; a duplicate
\* is answered at once.
Receive(h, e) ==
  /\ at[h] = "idle" /\ e \in unanswered /\ job' = [job EXCEPT ![h] = e]
  /\ IF e \in processed
     THEN /\ Go(h, "answer") /\ UNCHANGED <<processed, disordered>>
          /\ early' = IF InHand(e) THEN early \cup {e} ELSE early
     ELSE Go(h, "find") /\ Took(e) /\ disordered' = (disordered \/ Beside(e))
  /\ UNCHANGED <<outside, unanswered, row, found, handled, struck, mishaps>>

-----------------------------------------------------------------------------
(* handleEvent *)

Find_ByUser(h) ==
  LET e == job[h] IN
  /\ at[h] = "find"
  /\ \/ log[e].type \in Lifecycle /\ Go(h, "write") /\ UNCHANGED handled
        /\ found' = [found EXCEPT ![h] = row # NoRow]
     \/ /\ log[e].type \in Invoices /\ UNCHANGED found
        /\ IF row = NoRow \/ row.status = log[e].status
           THEN Go(h, "answer") /\ handled' = handled \cup {e}
           ELSE Go(h, "write") /\ UNCHANGED handled
  /\ UNCHANGED <<outside, unanswered, processed, row, job, struck, early, disordered, mishaps>>

\* A lifecycle event looks for the subscription's row, then for the user's.  An
\* invoice looks for the subscription's, and is over if there is none or its
\* status is right.
Find(h) ==
  LET e == job[h] IN
  /\ at[h] = "find"
  /\ \/ log[e].type \in Lifecycle /\ Go(h, "write") /\ UNCHANGED handled
        /\ found' = [found EXCEPT ![h] = row # NoRow]
     \/ /\ log[e].type \in Invoices /\ UNCHANGED found
        /\ IF row.sub # log[e].sub \/ row.status = log[e].status
           THEN Go(h, "answer") /\ handled' = handled \cup {e}
           ELSE Go(h, "write") /\ UNCHANGED handled
  /\ UNCHANGED <<outside, unanswered, processed, row, job, struck, early, disordered, mishaps>>

\* The row that was found is updated whatever it has become; the insert of a
\* second row for the user is refused.
WriteRow(h) ==
  LET new == log[job[h]] IN
  IF new.type \in Invoices THEN row' = [row EXCEPT !.status = new.status]
                           ELSE row' = [sub |-> new.sub, status |-> new.status]

Refused(h) == log[job[h]].type \in Lifecycle /\ ~found[h] /\ row # NoRow

Write_Tolerant(h) ==
  /\ at[h] = "write" /\ Go(h, "answer")
  /\ IF Refused(h) THEN UNCHANGED row ELSE WriteRow(h)
  /\ handled' = IF Refused(h) THEN handled ELSE handled \cup {job[h]}
  /\ UNCHANGED <<outside, unanswered, processed, job, found, struck, early, disordered, mishaps>>

Write(h) ==
  /\ at[h] = "write"
  /\ IF Refused(h) THEN Go(h, "undo") /\ UNCHANGED <<row, handled>>
                   ELSE Go(h, "answer") /\ WriteRow(h) /\ handled' = handled \cup {job[h]}
  /\ UNCHANGED <<outside, unanswered, processed, job, found, struck, early, disordered, mishaps>>

\* A statement fails, the write perhaps after it committed.
HandleFails(h) ==
  /\ at[h] \in {"find", "write"} /\ Mishap /\ Go(h, "undo")
  /\ \/ UNCHANGED row
     \/ at[h] = "write" /\ ~Refused(h) /\ WriteRow(h)
  /\ UNCHANGED <<outside, unanswered, processed, job, found, past>>

Undo_Skipped(h) ==
  /\ at[h] = "undo" /\ Rest(h)
  /\ UNCHANGED <<outside, unanswered, processed, row, past, mishaps>>

\* deleteProcessed; the answer is 500.
Undo(h) ==
  /\ at[h] = "undo" /\ Rest(h)
  /\ processed' = processed \ {job[h]}
  /\ UNCHANGED <<outside, unanswered, row, past, mishaps>>

\* A crash anywhere, a deleteProcessed that fails, an answer that gets lost.
Die(h) ==
  /\ at[h] # "idle" /\ Mishap /\ Rest(h)
  /\ struck' = IF at[h] \in AtWork THEN struck \cup {job[h]} ELSE struck
  /\ UNCHANGED <<outside, unanswered, processed, row, handled, early, disordered>>

\* A success answer.
Answer(h) ==
  /\ at[h] = "answer" /\ Rest(h)
  /\ unanswered' = unanswered \ {job[h]}
  /\ UNCHANGED <<outside, processed, row, past, mishaps>>

-----------------------------------------------------------------------------
Handle(h) == Find(h) \/ Write(h) \/ Undo(h) \/ Answer(h)

SyncNext ==
  \/ \E s \in Subs : Subscribe(s) \/ Pay(s) \/ MissPayment(s) \/ Edit(s) \/ Cancel(s)
  \/ \E h \in Handlers, e \in Happened : Receive(h, e)
  \/ \E h \in Handlers : Handle(h) \/ HandleFails(h) \/ Die(h)

SyncSpec == SyncInit /\ [][SyncNext]_syncVars

\* Stripe posts what is unanswered, and requests run on.
SyncFairness ==
  /\ \A e \in 1..MaxEvents : WF_syncVars(\E h \in Handlers : e \in Happened /\ Receive(h, e))
  /\ \A h \in Handlers : WF_syncVars(Handle(h))

SyncFairSpec == SyncSpec /\ SyncFairness

-----------------------------------------------------------------------------
(* Properties *)

\* The mark is a lock: an event is in one handler's hands at a time.
OneHandler ==
  \A h, i \in Handlers : at[h] \in AtWork /\ at[i] \in AtWork /\ job[h] = job[i] => h = i

\* No event is forgotten: one that is marked has been handled or is being
\* handled, and one that Stripe will not post again has been handled.  Two
\* things make an exception: a crash or a failing removal leaves the mark behind,
\* and a duplicate is answered while the event's handler may still fail.
NothingForgotten ==
  \A e \in Happened \ struck :
    /\ e \in processed => e \in handled \/ InHand(e)
    /\ e \notin unanswered => e \in handled \/ e \in early

\* As long as events are handled one at a time in the order they happened, and
\* none was lost, the row says what Stripe says of its subscription whenever no
\* event is outstanding.
Settled == handled = Happened /\ \A h \in Handlers : at[h] \notin AtWork

RowFollowsStripe ==
  ~disordered /\ Settled /\ log # <<>> => row # NoRow /\ row.status = stripe[row.sub]

\* A user with an active subscription has an active row.  It does not hold: a
\* user may have two, and the row is the one the last event was about; the
\* README says how to see it.
PaidIsEntitled ==
  ~disordered /\ Settled /\ (\E s \in Subs : stripe[s] = "active") => row.status = "active"

\* Every event is eventually handled, with the same two exceptions.
EventsAreHandled ==
  \A e \in 1..MaxEvents : e \in Happened ~> e \in handled \cup struck \cup early

=============================================================================
