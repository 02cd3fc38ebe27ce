---------------------------- MODULE BroadcastFanout ----------------------------
(***************************************************************************)
(* Broadcasts: the API that creates, sends, edits and deletes them, and    *)
(* processScheduledBroadcasts, which the cron route runs and which turns a *)
(* due broadcast into one email per contact.  Nothing keeps two runs from  *)
(* overlapping.                                                            *)
(*                                                                         *)
(* Every action is one statement or one transaction.  A scheduled time is  *)
(* unset ("none"), ahead ("future") or reached ("due").  Whom a broadcast  *)
(* goes to is left out: a fan-out is one copy of the broadcast.            *)
(***************************************************************************)
EXTENDS Integers, FiniteSets

CONSTANTS
  Broadcasts,   \* broadcasts rows
  Ownerless,    \* rows without user_id, queued before owners existed
  Runs,         \* overlapping runs of processScheduledBroadcasts
  Calls,        \* send and delete requests of the API
  BatchLimit,   \* rows one run loads
  Edits,        \* statuses an edit writes
  MaxUpdates,   \* bound on edits of a broadcast
  MaxFaults,    \* bound on failing database calls
  MaxCrashes,   \* bound on crashes of a run
  None          \* no broadcast

Statuses == {"absent", "draft", "scheduled", "queued", "sending", "sent",
             "failed", "blocked_billing", "deleted"}

ASSUME FanoutAssumption ==
  /\ IsFiniteSet(Runs) /\ Ownerless \subseteq Broadcasts /\ None \notin Broadcasts
  /\ BatchLimit \in Nat \ {0} /\ Edits \subseteq Statuses \ {"absent", "deleted"}
  /\ MaxUpdates \in Nat /\ MaxFaults \in Nat /\ MaxCrashes \in Nat

VARIABLES
  broadcast,  \* broadcasts: status and scheduled_at
  run,        \* per run: where it is, rows left of its batch, row in hand
  call,       \* per request: what it does, to which broadcast
  copies,     \* history: committed fan-outs of a broadcast
  grounds,    \* history: what a fan-out of a broadcast may rest on
  dropped,    \* history: runs that ended with a broadcast in hand, edits to "sending"
  spent       \* how much of each bound is used up

vars == <<broadcast, run, call, copies, grounds, dropped, spent>>

Accepted == {"queued", "scheduled"}
Times    == {"none", "future", "due"}
Steps    == {"mark", "resolve", "fanout", "blocked"}
Idle     == [pc |-> "idle", batch |-> {}, held |-> None]
NoCall   == [op |-> "none", on |-> None]

TypeOK ==
  /\ broadcast \in [Broadcasts -> [status : Statuses, at : Times]]
  /\ run \in [Runs -> [pc : {"idle", "next", "requeue"} \cup Steps,
                       batch : SUBSET Broadcasts, held : Broadcasts \cup {None}]]
  /\ call \in [Calls -> [op : {"none", "send", "delete"}, on : Broadcasts \cup {None}]]
  /\ \A r \in Runs : run[r].held # None <=> run[r].pc \in Steps \cup {"requeue"}
  /\ \A c \in Calls : call[c].on # None <=> call[c].op # "none"
  /\ copies \in [Broadcasts -> Nat] /\ grounds \in [Broadcasts -> Nat]
  /\ dropped \in [Broadcasts -> Nat]
  /\ spent \in [{"update", "fault", "crash"} -> Nat]

Init ==
  /\ broadcast = [b \in Broadcasts |-> IF b \in Ownerless THEN [status |-> "queued", at |-> "due"]
                                       ELSE [status |-> "absent", at |-> "none"]]
  /\ run = [r \in Runs |-> Idle]
  /\ call = [c \in Calls |-> NoCall]
  /\ copies = [b \in Broadcasts |-> 0]
  /\ grounds = [b \in Broadcasts |-> 0]
  /\ dropped = [b \in Broadcasts |-> 0]
  /\ spent = [k \in {"update", "fault", "crash"} |-> 0]

-----------------------------------------------------------------------------
Limit(k) == CASE k = "update" -> MaxUpdates [] k = "fault" -> MaxFaults [] k = "crash" -> MaxCrashes
Spend(k) == spent[k] < Limit(k) /\ spent' = [spent EXCEPT ![k] = @ + 1]

Exists(b) == broadcast[b].status \notin {"absent", "deleted"}

\* Mutated forms, each a bug this code could plausibly have, stand right before
\* the definition they are forms of; no specification uses them.
Pending_AnyStatus(b)  == Exists(b) /\ broadcast[b].at = "due"
Pending_QueuedOnly(b) == broadcast[b].status = "queued" /\ broadcast[b].at = "due"

\* What a run selects: a time that is unset compares as unknown in SQL.
Pending(b) ==
  /\ broadcast[b].status \in Accepted /\ broadcast[b].at = "due"

\* An unconditional update, which finds no row once the broadcast is deleted.
SetStatus(b, status) ==
  broadcast' = IF Exists(b) THEN [broadcast EXCEPT ![b].status = status] ELSE broadcast

\* What a run has of a broadcast, and whether it has yet to mark it or to put
\* it back.
Holds(r, b)    == b \in run[r].batch \/ run[r].held = b
Unmarked(r, b) == b \in run[r].batch \/ (run[r].held = b /\ run[r].pc \in {"mark", "requeue"})

\* A send accepted, an edit to an accepted status, a commit whose answer is
\* lost, a selection of what another run has selected and not marked: each is
\* one ground for a fan-out.
Grant(b) == grounds' = [grounds EXCEPT ![b] = @ + 1]

\* No run will finish what this broadcast's status says is under way.
Strand(b) == dropped' = [dropped EXCEPT ![b] = @ + 1]

GoTo(r, pc) == run' = [run EXCEPT ![r].pc = pc]

\* On to the next row of the batch, or out of the loop.
NextRow(r) ==
  run' = [run EXCEPT ![r] = [pc    |-> IF @.batch = {} THEN "idle" ELSE "next",
                             batch |-> @.batch,
                             held  |-> None]]

\* The run ends where it stands.
Drop(r) ==
  /\ run' = [run EXCEPT ![r] = Idle]
  /\ IF run[r].held = None THEN UNCHANGED dropped ELSE Strand(run[r].held)

-----------------------------------------------------------------------------
(* The broadcast service *)

\* createBroadcast: a draft, or sent at once or later.
Create(b) ==
  /\ broadcast[b].status = "absent"
  /\ \E time \in {"none", "future"}, send \in BOOLEAN :
       /\ broadcast' = [broadcast EXCEPT ![b] =
            [status |-> IF ~send THEN "draft" ELSE IF time = "none" THEN "queued" ELSE "scheduled",
             at     |-> time]]
       /\ IF send THEN Grant(b) ELSE UNCHANGED grounds
  /\ UNCHANGED <<run, call, copies, dropped, spent>>

\* sendBroadcast and deleteBroadcast read the status first.
SendRead(c, b) ==
  /\ call[c] = NoCall /\ b \notin Ownerless
  /\ broadcast[b].status = "draft"
  /\ call' = [call EXCEPT ![c] = [op |-> "send", on |-> b]]
  /\ UNCHANGED <<broadcast, run, copies, grounds, dropped, spent>>

DeleteRead(c, b) ==
  /\ call[c] = NoCall /\ b \notin Ownerless
  /\ broadcast[b].status \in {"draft", "scheduled"}
  /\ call' = [call EXCEPT ![c] = [op |-> "delete", on |-> b]]
  /\ UNCHANGED <<broadcast, run, copies, grounds, dropped, spent>>

\* And then write, whatever the status has become.
SendWrite(c) ==
  LET b == call[c].on IN
  /\ call[c].op = "send"
  /\ \E time \in {"none", "future"} :
       broadcast' = IF Exists(b)
                    THEN [broadcast EXCEPT ![b] = [status |-> IF time = "none" THEN "queued" ELSE "scheduled",
                                                   at     |-> time]]
                    ELSE broadcast
  /\ Grant(b)
  /\ call' = [call EXCEPT ![c] = NoCall]
  /\ UNCHANGED <<run, copies, dropped, spent>>

DeleteWrite(c) ==
  /\ call[c].op = "delete"
  /\ SetStatus(call[c].on, "deleted")
  /\ call' = [call EXCEPT ![c] = NoCall]
  /\ UNCHANGED <<run, copies, grounds, dropped, spent>>

\* updateBroadcast writes the fields the request names, status and scheduled_at
\* among them: any value (Edits holds those told apart), in any state.
Update(b) ==
  /\ Exists(b) /\ b \notin Ownerless /\ Spend("update")
  /\ \E status \in Edits, time \in Times :
       /\ broadcast' = [broadcast EXCEPT ![b] = [status |-> status, at |-> time]]
       /\ IF status \in Accepted /\ broadcast[b].status \notin Accepted THEN Grant(b) ELSE UNCHANGED grounds
       /\ IF status = "sending" THEN Strand(b) ELSE UNCHANGED dropped
  /\ UNCHANGED <<run, call, copies>>

TimeArrives(b) ==
  /\ broadcast[b].at = "future"
  /\ broadcast' = [broadcast EXCEPT ![b].at = "due"]
  /\ UNCHANGED <<run, call, copies, grounds, dropped, spent>>

-----------------------------------------------------------------------------
(* processScheduledBroadcasts *)

Select(r) ==
  LET pending == {b \in Broadcasts : Pending(b)} IN
  /\ run[r] = Idle
  /\ \E batch \in SUBSET pending :
       /\ batch # {} /\ Cardinality(batch) <= BatchLimit
       /\ Cardinality(batch) < BatchLimit => batch = pending
       /\ run' = [run EXCEPT ![r] = [pc |-> "next", batch |-> batch, held |-> None]]
       /\ grounds' = [b \in Broadcasts |->
            grounds[b] + IF b \in batch /\ \E q \in Runs : Unmarked(q, b) THEN 1 ELSE 0]
  /\ UNCHANGED <<broadcast, call, copies, dropped, spent>>

TakeRow(r, b) ==
  /\ run[r].pc = "next" /\ b \in run[r].batch
  /\ run' = [run EXCEPT ![r] = [pc |-> "mark", batch |-> @.batch \ {b}, held |-> b]]
  /\ UNCHANGED <<broadcast, call, copies, grounds, dropped, spent>>

MarkSending(r) ==
  /\ run[r].pc = "mark"
  /\ SetStatus(run[r].held, "sending")
  /\ GoTo(r, "resolve")
  /\ UNCHANGED <<call, copies, grounds, dropped, spent>>

\* A broadcast of nobody fails; otherwise the contacts are read.
FailOwnerless(r) ==
  /\ run[r].pc = "resolve" /\ run[r].held \in Ownerless
  /\ SetStatus(run[r].held, "failed")
  /\ NextRow(r)
  /\ UNCHANGED <<call, copies, grounds, dropped, spent>>

ResolveAudience(r) ==
  /\ run[r].pc = "resolve" /\ run[r].held \notin Ownerless
  /\ GoTo(r, "fanout")
  /\ UNCHANGED <<broadcast, call, copies, grounds, dropped, spent>>

\* The transaction: quota, one row per contact and the status, or nothing.
FanOut(r) ==
  /\ run[r].pc = "fanout"
  /\ copies' = [copies EXCEPT ![run[r].held] = @ + 1]
  /\ SetStatus(run[r].held, "sent")
  /\ NextRow(r)
  /\ UNCHANGED <<call, grounds, dropped, spent>>

\* It commits, but the run only sees the connection fail.
FanOutUnacknowledged(r) ==
  /\ run[r].pc = "fanout" /\ Spend("fault")
  /\ copies' = [copies EXCEPT ![run[r].held] = @ + 1]
  /\ SetStatus(run[r].held, "sent")
  /\ Grant(run[r].held)
  /\ GoTo(r, "requeue")
  /\ UNCHANGED <<call, dropped>>

\* The quota is refused: the transaction rolls back, and then the broadcast is
\* blocked.
RefuseQuota(r) ==
  /\ run[r].pc = "fanout"
  /\ GoTo(r, "blocked")
  /\ UNCHANGED <<broadcast, call, copies, grounds, dropped, spent>>

MarkBlocked(r) ==
  /\ run[r].pc = "blocked"
  /\ SetStatus(run[r].held, "blocked_billing")
  /\ NextRow(r)
  /\ UNCHANGED <<call, copies, grounds, dropped, spent>>

Requeue_Forgotten(r) ==
  /\ run[r].pc = "requeue"
  /\ SetStatus(run[r].held, "sending")
  /\ NextRow(r)
  /\ UNCHANGED <<call, copies, grounds, dropped, spent>>

\* The catch block of the loop body.
Requeue(r) ==
  /\ run[r].pc = "requeue"
  /\ SetStatus(run[r].held, "queued")
  /\ NextRow(r)
  /\ UNCHANGED <<call, copies, grounds, dropped, spent>>

StepFails(r) ==
  /\ run[r].pc \in Steps /\ Spend("fault")
  /\ GoTo(r, "requeue")
  /\ UNCHANGED <<broadcast, call, copies, grounds, dropped>>

\* The update of the status was made and its answer is lost.
StepUnanswered(r) ==
  LET b == run[r].held IN
  /\ Spend("fault") /\ GoTo(r, "requeue")
  /\ \/ run[r].pc = "mark" /\ SetStatus(b, "sending")
     \/ run[r].pc = "resolve" /\ b \in Ownerless /\ SetStatus(b, "failed")
     \/ run[r].pc = "blocked" /\ SetStatus(b, "blocked_billing")
  /\ UNCHANGED <<call, copies, grounds, dropped>>

\* A failing requeue leaves the loop, and the rest of the batch with it.  The
\* failure of the step before it may have the same cause and is counted once.
RequeueFails(r) ==
  /\ run[r].pc = "requeue" /\ Drop(r)
  /\ UNCHANGED <<broadcast, call, copies, grounds, spent>>

Crash(r) ==
  /\ run[r].pc # "idle" /\ Spend("crash") /\ Drop(r)
  /\ UNCHANGED <<broadcast, call, copies, grounds>>

-----------------------------------------------------------------------------
Work(r) ==
  \/ Select(r) \/ \E b \in Broadcasts : TakeRow(r, b)
  \/ MarkSending(r) \/ FailOwnerless(r) \/ ResolveAudience(r) \/ FanOut(r)
  \/ RefuseQuota(r) \/ MarkBlocked(r) \/ Requeue(r)

Next ==
  \/ \E b \in Broadcasts : Create(b) \/ Update(b) \/ TimeArrives(b)
  \/ \E c \in Calls : SendWrite(c) \/ DeleteWrite(c) \/ \E b \in Broadcasts : SendRead(c, b) \/ DeleteRead(c, b)
  \/ \E r \in Runs : \/ Work(r) \/ FanOutUnacknowledged(r) \/ StepFails(r) \/ StepUnanswered(r)
                    \/ RequeueFails(r) \/ Crash(r)

Spec == Init /\ [][Next]_vars

\* The cron route is called again and again, its runs go on, and time passes.
Fairness ==
  /\ \A r \in Runs : WF_vars(Work(r))
  /\ \A b \in Broadcasts : WF_vars(TimeArrives(b))

FairSpec == Spec /\ Fairness

-----------------------------------------------------------------------------
(* Properties *)

\* A broadcast goes out at most once for every send the API accepted, once
\* for every edit that puts it back, once for every commit whose answer was
\* lost and once for every selection beside another.
CopiesHaveGrounds == \A b \in Broadcasts : copies[b] <= grounds[b]

\* Why, as an inductive statement: a fan-out still in store has a ground of its
\* own.  In store is one for each run that has the broadcast, and one if it may
\* be selected and nobody has.
Holders(b)   == {r \in Runs : Holds(r, b)}
Available(b) == broadcast[b].status \in Accepted /\ ~\E r \in Runs : Unmarked(r, b)
InStore(b)   == Cardinality(Holders(b)) + IF Available(b) THEN 1 ELSE 0

FanOutsAreGranted ==
  /\ CopiesHaveGrounds
  /\ \A b \in Broadcasts \ Ownerless : copies[b] + InStore(b) <= grounds[b]
  /\ \A r \in Runs : /\ run[r].pc \in {"fanout", "blocked"} => run[r].held \notin Ownerless
                     /\ run[r].held \notin run[r].batch

\* A broadcast in "sending" is in a run's hands, unless a run has crashed, or
\* failed to requeue, with it in hand or an edit wrote that status.
SendingIsAttended ==
  \A b \in Broadcasts :
    broadcast[b].status = "sending" => dropped[b] > 0 \/ \E r \in Runs : run[r].held = b

Done(b) == broadcast[b].status \in {"sent", "failed", "blocked_billing", "draft", "deleted"}

\* A scheduled broadcast eventually goes out or is given up, unless a run drops
\* it or an edit takes its time away.
ScheduledSettles ==
  \A b \in Broadcasts : (broadcast[b].status = "scheduled" /\ broadcast[b].at # "none")
                          ~> Done(b) \/ dropped[b] > 0 \/ broadcast[b].at = "none"

\* So does every broadcast whose sending was accepted, at once or later.
EverySendSettles ==
  \A b \in Broadcasts : broadcast[b].status \in Accepted ~> Done(b) \/ dropped[b] > 0

=============================================================================
