------------------------------ MODULE SesFeedback ------------------------------
(***************************************************************************)
(* Feedback from SES: SNS posts a notification until it is answered with   *)
(* success; the ingester commits its event, which makes every later post a *)
(* duplicate, and only then suppresses recipients and fans the event out   *)
(* to the user's webhook endpoints.  The user edits suppressions and       *)
(* endpoints meanwhile.                                                    *)
(*                                                                         *)
(* An action is one statement, one publish or one answer.  All             *)
(* notifications are about one email of one user, whose recipients they    *)
(* name; every endpoint subscribes to every event.  The email's status,    *)
(* which the event's transaction sets, is in EmailDelivery; types that     *)
(* suppress nobody (deliveries, opens, clicks) behave like transient       *)
(* bounces.                                                                *)
(*                                                                         *)
(* An endpoint is its id.  One listing returns the HookLimit highest ids,  *)
(* and the handler asks for no more of them.                               *)
(***************************************************************************)
EXTENDS Integers, FiniteSets

CONSTANTS
  Notes,       \* SNS message ids
  Recipients,  \* recipients of the email
  Hooks,       \* ids of the user's webhook endpoints
  HookLimit,   \* how many endpoints one listing returns; 100 in the code
  Handlers,    \* concurrent requests the ingester serves
  MaxPosts,    \* bound on how often SNS posts one notification
  MaxEdits,    \* bound on what the user does
  MaxFaults,   \* bound on crashes, failing calls and lost answers
  None         \* no notification, no endpoint

ASSUME FeedbackAssumption ==
  /\ HookLimit \in Nat \ {0} /\ Hooks \subseteq Nat /\ IsFiniteSet(Hooks)
  /\ MaxPosts \in Nat /\ MaxEdits \in Nat /\ MaxFaults \in Nat
  /\ None \notin Notes /\ None \notin Hooks

VARIABLES
  kind,        \* per notification: its SES type, none until it is first posted
  posts,       \* per notification: how often SNS has posted it
  unanswered,  \* notifications SNS has no success answer for
  events,      \* notifications whose email_events row is committed
  suppressed,  \* per recipient: reason and source of its email_suppressions row
  active,      \* endpoints that are active
  rows,        \* per notification and endpoint: webhook_deliveries rows
  jobs,        \* published webhook.dispatch jobs
  pc, job,     \* per handler: where it stands, and its notification
  left,        \* per handler: recipients and endpoints it has not come to, and
               \* the endpoint in hand
  times,       \* history: how often a notification suppressed a recipient
  listed,      \* history: endpoints the listing for a notification returned
  missed,      \* history: endpoints that were active then and not returned
  removed,     \* history: recipients whose suppression the user removed last
  cut,         \* history: committed notifications whose handler ended midway
  spent        \* how much of each bound is used up

world == <<kind, posts, unanswered>>
store == <<events, suppressed, active, rows, jobs>>
past  == <<times, listed, missed, removed, cut>>
vars  == <<world, store, pc, job, left, past, spent>>

Kinds == {"TransientBounce", "PermanentBounce", "Complaint"}
Reason == [PermanentBounce |-> "bounced", Complaint |-> "complained"]
Working == {"suppress", "list", "fan", "publish"}
Absent  == [reason |-> "none", by |-> None]
Nothing == [recipients |-> {}, hooks |-> {}, this |-> None]

TypeOK ==
  /\ kind \in [Notes -> Kinds \cup {"none"}] /\ posts \in [Notes -> Nat]
  /\ unanswered \subseteq Notes /\ events \subseteq Notes
  /\ suppressed \in [Recipients -> [reason : {"none", "bounced", "complained", "manual"},
                                    by : Notes \cup {None}]]
  /\ active \subseteq Hooks /\ rows \in [Notes -> [Hooks -> Nat]]
  /\ jobs \subseteq Notes \X Hooks
  /\ pc \in [Handlers -> {"idle", "commit", "answer"} \cup Working]
  /\ job \in [Handlers -> Notes \cup {None}]
  /\ left \in [Handlers -> [recipients : SUBSET Recipients, hooks : SUBSET Hooks,
                            this : Hooks \cup {None}]]
  /\ times \in [Notes -> [Recipients -> Nat]]
  /\ listed \in [Notes -> SUBSET Hooks] /\ missed \in [Notes -> SUBSET Hooks]
  /\ removed \subseteq Recipients /\ cut \subseteq Notes
  /\ spent \in [{"edit", "fault"} -> Nat]

Init ==
  /\ kind = [n \in Notes |-> "none"] /\ posts = [n \in Notes |-> 0] /\ unanswered = Notes
  /\ events = {}
  /\ suppressed = [r \in Recipients |-> Absent]
  /\ active = Hooks /\ rows = [n \in Notes |-> [k \in Hooks |-> 0]] /\ jobs = {}
  /\ pc = [h \in Handlers |-> "idle"] /\ job = [h \in Handlers |-> None]
  /\ left = [h \in Handlers |-> Nothing]
  /\ times = [n \in Notes |-> [r \in Recipients |-> 0]]
  /\ listed = [n \in Notes |-> {}] /\ missed = [n \in Notes |-> {}] /\ removed = {} /\ cut = {}
  /\ spent = [f \in {"edit", "fault"} |-> 0]

-----------------------------------------------------------------------------
Limit(f) == IF f = "edit" THEN MaxEdits ELSE MaxFaults
Spend(f) == spent[f] < Limit(f) /\ spent' = [spent EXCEPT ![f] = @ + 1]

Go(h, place) == pc' = [pc EXCEPT ![h] = place]
Rest(h) == Go(h, "idle") /\ job' = [job EXCEPT ![h] = None] /\ left' = [left EXCEPT ![h] = Nothing]

\* getSesSuppressionOutcome: permanent bounces and complaints.
Suppresses(n) == kind[n] \in DOMAIN Reason

-----------------------------------------------------------------------------
(* The notification and its event *)

\* SNS posts until it has an answer, while an earlier post is still handled too.
Post(h, n) ==
  /\ pc[h] = "idle" /\ n \in unanswered /\ posts[n] < MaxPosts
  /\ posts' = [posts EXCEPT ![n] = @ + 1]
  /\ IF posts[n] = 0 THEN \E k \in Kinds : kind' = [kind EXCEPT ![n] = k] ELSE UNCHANGED kind
  /\ job' = [job EXCEPT ![h] = n] /\ Go(h, "commit")
  /\ UNCHANGED <<unanswered, store, left, past, spent>>

\* The transaction.
Record(n) == events' = events \cup {n} /\ UNCHANGED <<suppressed, active, rows, jobs>>

\* Mutated forms, each a bug this code could plausibly have, stand right before
\* the definition they are forms of; no specification uses them.
Commit_Again(h) ==
  LET n == job[h] IN
  /\ pc[h] = "commit" /\ Record(n)
  /\ Go(h, IF Suppresses(n) THEN "suppress" ELSE "list")
  /\ left' = [left EXCEPT ![h].recipients = IF Suppresses(n) THEN Recipients ELSE {}]
  /\ UNCHANGED <<world, job, past, spent>>

\* createOrIgnoreDuplicate: nothing more is done for an event already there.
Commit(h) ==
  LET n == job[h] IN
  /\ pc[h] = "commit"
  /\ IF n \in events
     THEN Go(h, "answer") /\ UNCHANGED <<store, left>>
     ELSE /\ Record(n)
          /\ Go(h, IF Suppresses(n) THEN "suppress" ELSE "list")
          /\ left' = [left EXCEPT ![h].recipients = IF Suppresses(n) THEN Recipients ELSE {}]
  /\ UNCHANGED <<world, job, past, spent>>

-----------------------------------------------------------------------------
(* Suppressions and the fan-out *)

Suppress_First(h, r) ==
  LET n == job[h] IN
  /\ pc[h] = "suppress" /\ r \in left[h].recipients
  /\ suppressed' = IF suppressed[r] = Absent
                   THEN [suppressed EXCEPT ![r] = [reason |-> Reason[kind[n]], by |-> n]] ELSE suppressed
  /\ times' = [times EXCEPT ![n][r] = @ + 1] /\ removed' = removed \ {r}
  /\ left' = [left EXCEPT ![h].recipients = {}] /\ Go(h, "list")
  /\ UNCHANGED <<world, events, active, rows, jobs, job, listed, missed, cut, spent>>

\* suppressFromSesEvent, one upsert per recipient.
Suppress(h, r) ==
  LET n == job[h] IN
  /\ pc[h] = "suppress" /\ r \in left[h].recipients
  /\ suppressed' = [suppressed EXCEPT ![r] = [reason |-> Reason[kind[n]], by |-> n]]
  /\ times' = [times EXCEPT ![n][r] = @ + 1] /\ removed' = removed \ {r}
  /\ left' = [left EXCEPT ![h].recipients = @ \ {r}]
  /\ Go(h, IF left[h].recipients = {r} THEN "list" ELSE "suppress")
  /\ UNCHANGED <<world, events, active, rows, jobs, job, listed, missed, cut, spent>>

\* What listForUserDispatch may return of the endpoints that are active.
Page(batch) ==
  /\ batch \subseteq active
  /\ batch = active \/ Cardinality(batch) = HookLimit
  /\ Cardinality(batch) <= HookLimit
  /\ \A k \in batch, j \in active \ batch : k > j

\* listForUserDispatch, of endpoints that all subscribe to the event.
List(h) ==
  /\ pc[h] = "list"
  /\ \E batch \in SUBSET active :
       /\ Page(batch)
       /\ listed' = [listed EXCEPT ![job[h]] = batch]
       /\ missed' = [missed EXCEPT ![job[h]] = active \ batch]
       /\ left' = [left EXCEPT ![h].hooks = batch]
       /\ Go(h, IF batch = {} THEN "answer" ELSE "fan")
  /\ UNCHANGED <<world, store, job, times, removed, cut, spent>>

EnqueueDelivery(h, k) ==
  LET n == job[h] IN
  /\ pc[h] = "fan" /\ k \in left[h].hooks /\ \A j \in left[h].hooks : j <= k
  /\ rows' = [rows EXCEPT ![n][k] = @ + 1]
  /\ left' = [left EXCEPT ![h].hooks = @ \ {k}, ![h].this = k]
  /\ Go(h, "publish")
  /\ UNCHANGED <<world, events, suppressed, active, jobs, job, past, spent>>

Publish_Early(h) ==
  /\ pc[h] = "publish"
  /\ jobs' = jobs \cup {<<job[h], left[h].this>>}
  /\ Go(h, "answer") /\ left' = [left EXCEPT ![h].this = None]
  /\ UNCHANGED <<world, events, suppressed, active, rows, job, past, spent>>

Publish(h) ==
  /\ pc[h] = "publish"
  /\ jobs' = jobs \cup {<<job[h], left[h].this>>}
  /\ Go(h, IF left[h].hooks = {} THEN "answer" ELSE "fan")
  /\ left' = [left EXCEPT ![h].this = None]
  /\ UNCHANGED <<world, events, suppressed, active, rows, job, past, spent>>

\* 200 OK, which may get lost.
Answer(h) ==
  /\ pc[h] = "answer" /\ Rest(h)
  /\ \/ unanswered' = unanswered \ {job[h]} /\ UNCHANGED spent
     \/ Spend("fault") /\ UNCHANGED unanswered
  /\ UNCHANGED <<kind, posts, store, past>>

Fail_AnswersOk(h) ==
  LET n == job[h] IN
  /\ pc[h] # "idle" /\ Spend("fault") /\ Rest(h)
  /\ cut' = (IF pc[h] \in Working THEN cut \cup {n} ELSE cut) /\ unanswered' = unanswered \ {n}
  /\ UNCHANGED <<kind, posts, store, times, listed, missed, removed>>

\* A statement or a publish fails, which is answered with 500, or the process
\* ends.  The transaction may have committed all the same.
Fail(h) ==
  LET n == job[h] IN
  /\ pc[h] # "idle" /\ Spend("fault") /\ Rest(h)
  /\ \/ /\ cut' = IF pc[h] \in Working THEN cut \cup {n} ELSE cut
        /\ UNCHANGED store
     \/ pc[h] = "commit" /\ n \notin events /\ Record(n) /\ cut' = cut \cup {n}
  /\ UNCHANGED <<world, times, listed, missed, removed>>

-----------------------------------------------------------------------------
(* The user *)

\* createSuppression, and importSuppressions row by row; whatever reason the
\* user gives stands as "manual".
SuppressByHand(r) ==
  /\ Spend("edit")
  /\ suppressed' = [suppressed EXCEPT ![r] = [reason |-> "manual", by |-> None]]
  /\ removed' = removed \ {r}
  /\ UNCHANGED <<world, events, active, rows, jobs, pc, job, left, times, listed, missed, cut>>

RemoveSuppression(r) ==
  /\ suppressed[r] # Absent /\ Spend("edit")
  /\ suppressed' = [suppressed EXCEPT ![r] = Absent] /\ removed' = removed \cup {r}
  /\ UNCHANGED <<world, events, active, rows, jobs, pc, job, left, times, listed, missed, cut>>

SwitchHook(k) ==
  /\ Spend("edit")
  /\ active' = IF k \in active THEN active \ {k} ELSE active \cup {k}
  /\ UNCHANGED <<world, events, suppressed, rows, jobs, pc, job, left, past>>

-----------------------------------------------------------------------------
Handle(h) ==
  \/ Commit(h) \/ List(h) \/ Publish(h) \/ Answer(h)
  \/ \E r \in Recipients : Suppress(h, r)
  \/ \E k \in Hooks : EnqueueDelivery(h, k)

Next ==
  \/ \E h \in Handlers, n \in Notes : Post(h, n)
  \/ \E h \in Handlers : Handle(h) \/ Fail(h)
  \/ \E r \in Recipients : SuppressByHand(r) \/ RemoveSuppression(r)
  \/ \E k \in Hooks : SwitchHook(k)

Spec == Init /\ [][Next]_vars

\* SNS posts what is unanswered, and requests run on.
Fairness ==
  /\ \A n \in Notes : WF_vars(\E h \in Handlers : Post(h, n))
  /\ \A h \in Handlers : WF_vars(Handle(h))

FairSpec == Spec /\ Fairness

-----------------------------------------------------------------------------
(* Properties *)

AtWork(n) == \E h \in Handlers : job[h] = n /\ pc[h] \in Working

\* However often a notification is posted, and to however many handlers at
\* once, it suppresses a recipient at most once, so that a removal sticks, and
\* makes at most one delivery for an endpoint.
OncePerNote ==
  \A n \in Notes :
    /\ \A r \in Recipients : times[n][r] <= 1
    /\ \A k \in Hooks : rows[n][k] <= 1

\* A committed event that nobody works on any more and whose handler was not
\* cut short is in everybody's hands: it has a delivery and a job for every
\* endpoint the listing returned, and for no other; and the listing left out no
\* active endpoint unless HookLimit others fill it.
FannedOut ==
  \A n \in events \ cut : ~AtWork(n) =>
    /\ \A k \in Hooks :
         /\ rows[n][k] = IF k \in listed[n] THEN 1 ELSE 0
         /\ <<n, k>> \in jobs <=> k \in listed[n]
    /\ missed[n] # {} => Cardinality({k \in Hooks : <<n, k>> \in jobs}) = HookLimit

\* Its recipients are suppressed if it is a permanent bounce or a complaint,
\* until the user removes that; and a suppression that names a notification as
\* its source rests on one of that kind.
BouncesSuppress ==
  /\ \A n \in events \ cut : Suppresses(n) /\ ~AtWork(n) =>
       \A r \in Recipients : suppressed[r] # Absent \/ r \in removed
  /\ \A r \in Recipients : suppressed[r].by \in Notes =>
       LET n == suppressed[r].by IN
       n \in events /\ Suppresses(n) /\ suppressed[r].reason = Reason[kind[n]] /\ times[n][r] > 0

\* Every notification is eventually recorded, and its handling ends: as long as
\* SNS posts it more often than calls fail.
NotesAreHandled == \A n \in Notes : <>[](n \in events /\ ~AtWork(n))

=============================================================================
