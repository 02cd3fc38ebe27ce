----------------------------- MODULE AutomationRun -----------------------------
(***************************************************************************)
(* The runs of one automation: events enrol and wake them, the cron runner *)
(* walks them through the automation's steps, users cancel them, and the   *)
(* automation is edited, stopped and deleted underneath.                   *)
(*                                                                         *)
(* Everybody lists rows of automation_runs first and writes them later by  *)
(* id, with no claim and no version.  An action is one database statement, *)
(* or the reads that come before the statement it decides on.              *)
(***************************************************************************)
EXTENDS Integers, FiniteSets

CONSTANTS
  Starts,      \* events named like the automation's trigger; each enrols one run
  Wakes,       \* events named like its wait_for_event steps
  Runners,     \* concurrent calls of processScheduledAutomations
  Users,       \* requests to cancel a run
  Steps,       \* step keys, in the order of their positions
  Kind,        \* the type of each step; a key keeps its type when steps are replaced
  Timed,       \* wait_for_event steps that have a timeout
  ListLimit,   \* rows listWaitingByContact returns at most
  Flows,       \* step lists and connections the automation may be given
  MaxFaults,   \* bound on crashes and on failing database statements
  MaxChanges,  \* bound on changes to the automation and the contact by others
  None         \* no run

Kinds == {"trigger", "delay", "condition", "wait_for_event", "contact_update",
          "add_to_segment", "contact_delete", "send_email", "end"}
Branches == {"default", "condition_met", "condition_not_met"}

\* A flow has the keys of its steps and, per branch, the step an edge leads to,
\* 0 when there is no such edge.
FlowType == [live: SUBSET Steps, edge: [Steps -> [Branches -> Steps \cup {0}]]]

Runs   == Starts
Events == Starts \cup Wakes
Actors == Runners \cup Events \cup Users

ASSUME AutomationAssumption ==
  /\ Steps \subseteq Nat \ {0} /\ IsFiniteSet(Steps) /\ 1 \in Steps
  /\ Kind \in [Steps -> Kinds] /\ Timed \subseteq Steps
  /\ Flows \subseteq FlowType
  /\ ListLimit \in Nat \ {0} /\ MaxFaults \in Nat /\ MaxChanges \in Nat
  /\ None \notin Runs
  /\ Runners \cap Events = {} /\ Users \cap (Runners \cup Events) = {}

VARIABLES
  auto,       \* the automation's status
  flow,       \* its steps and connections
  desk,       \* an edit or deletion under way, with the status it has read
  contact,    \* the contact all events and runs are about
  row,        \* automation_runs: one row per starting event
  emails,     \* emails accepted under the idempotency key of a run and a step
  pc,         \* per actor: where it stands
  held,       \* per actor: the rows it has listed and not yet dealt with
  plan,       \* per actor: the run in hand and the update it is about to make;
              \* keep leaves the step states alone, again overwrites its own update
  known,      \* per event: its delivery was recorded with a contact
  happened,   \* history: whether a run's delay passed or its event came, per step
  unheard,    \* history: per event, runs that waited for it when it was recorded
  crowded,    \* history: per event, waiting runs a full list left out when it listed
  contended,  \* history: runs two actors have held at the same time
  spent       \* how much of each bound is used up

automation == <<auto, flow, desk>>
actors     == <<pc, held, plan>>
vars == <<automation, contact, row, emails, actors, known, happened, unheard, crowded, contended, spent>>

Marks   == {"none", "waiting", "completed", "failed", "skipped", "cancelled"}
RowType == [status: {"absent", "queued", "waiting", "completed", "failed", "cancelled", "deleted"},
            step: Steps \cup {0}, state: [Steps -> Marks],
            due: {"now", "later", "never"}, contact: BOOLEAN]
Absent  == [status |-> "absent", step |-> 0, state |-> [s \in Steps |-> "none"],
            due |-> "never", contact |-> FALSE]
NoPlan  == [run |-> None, row |-> Absent, keep |-> FALSE, again |-> FALSE]
\* Mutated forms, each a bug this code could plausibly have, stand right before
\* the definition they are forms of; no specification uses them.
Live_WithFailed == {"queued", "waiting", "failed"}
Live    == {"queued", "waiting"}
Ended   == {"completed", "failed", "cancelled"}

TypeOK ==
  /\ auto \in {"enabled", "disabled", "deleted"} /\ flow \in Flows
  /\ desk \in [op: {"none", "edit", "delete"}, seen: {"enabled", "disabled"}]
  /\ contact \in {"subscribed", "unsubscribed", "gone"}
  /\ row \in [Runs -> RowType] /\ emails \in [Runs -> [Steps -> Nat]]
  /\ pc \in [Actors -> {"new", "idle", "list", "next", "change", "lookup", "insert", "write",
                        "find", "check", "create", "done", "failed"}]
  /\ held \in [Actors -> [Runs -> RowType]]
  /\ plan \in [Actors -> [run: Runs \cup {None}, row: RowType, keep: BOOLEAN, again: BOOLEAN]]
  /\ known \in [Events -> BOOLEAN]
  /\ happened \in [Runs -> [Steps -> {"never", "before", "now"}]]
  /\ unheard \in [Events -> SUBSET Runs] /\ crowded \in [Events -> SUBSET Runs]
  /\ contended \subseteq Runs
  /\ spent \in [{"fault", "change"} -> Nat]

Init ==
  /\ auto = "enabled" /\ flow \in Flows /\ desk = [op |-> "none", seen |-> "enabled"]
  /\ contact = "subscribed"
  /\ row = [r \in Runs |-> Absent] /\ emails = [r \in Runs |-> [s \in Steps |-> 0]]
  /\ pc = [a \in Actors |-> IF a \in Runners THEN "idle" ELSE "new"]
  /\ held = [a \in Actors |-> [r \in Runs |-> Absent]]
  /\ plan = [a \in Actors |-> NoPlan]
  /\ known = [e \in Events |-> FALSE]
  /\ happened = [r \in Runs |-> [s \in Steps |-> "never"]]
  /\ unheard = [e \in Events |-> {}] /\ crowded = [e \in Events |-> {}] /\ contended = {}
  /\ spent = [f \in {"fault", "change"} |-> 0]

-----------------------------------------------------------------------------
(* Helpers *)

Limit(f) == IF f = "fault" THEN MaxFaults ELSE MaxChanges
Spend(f) == spent[f] < Limit(f) /\ spent' = [spent EXCEPT ![f] = @ + 1]

Go(a, where) == pc' = [pc EXCEPT ![a] = where]
Holds(a, r)  == held[a][r] # Absent

\* Actor a lists the rows of batch; whoever holds one of them too contends.
Take(a, batch) ==
  /\ held' = [held EXCEPT ![a] = [r \in Runs |-> IF r \in batch THEN row[r] ELSE Absent]]
  /\ contended' = contended \cup {r \in batch : \E b \in Actors \ {a} : Holds(b, r)}

\* On to the next listed row: an event goes on to enrol after the last one.
Resting(a) == IF a \in Runners THEN "idle" ELSE IF a \in Users THEN "done" ELSE "find"
Release(a, r) ==
  /\ held' = [held EXCEPT ![a][r] = Absent]
  /\ plan' = [plan EXCEPT ![a] = NoPlan]
  /\ Go(a, IF \E q \in Runs \ {r} : Holds(a, q) THEN "next" ELSE Resting(a))

\* An exception or a crash drops what was listed; a request ends with it.
Abandon(a) ==
  /\ held' = [held EXCEPT ![a] = [r \in Runs |-> Absent]]
  /\ plan' = [plan EXCEPT ![a] = NoPlan]
  /\ Go(a, IF a \in Runners THEN "idle" ELSE "failed")

\* nextStepKey: the branch's edge, else the default edge, else the next position.
NextStep(s, branch) ==
  LET edge  == flow.edge[s]
      to    == IF edge[branch] # 0 THEN edge[branch] ELSE edge["default"]
      later == {t \in flow.live : t > s}
  IN IF to \in flow.live THEN to
     ELSE IF later = {} THEN 0
     ELSE CHOOSE t \in later : \A u \in later : t <= u

After_KeepsTime(h, s, mark, branch) ==
  LET n == NextStep(s, branch) IN
  IF n = 0 THEN [h EXCEPT !.status = "completed", !.step = 0, !.state[s] = mark, !.due = "never"]
           ELSE [h EXCEPT !.status = "queued", !.step = n, !.state[s] = mark]

\* The updates of a run: marked at step s and moved on, stopped or paused there.
After(h, s, mark, branch) ==
  LET n == NextStep(s, branch) IN
  IF n = 0 THEN [h EXCEPT !.status = "completed", !.step = 0, !.state[s] = mark, !.due = "never"]
           ELSE [h EXCEPT !.status = "queued", !.step = n, !.state[s] = mark, !.due = "now"]

Complete(h, s, mark) ==
  [h EXCEPT !.status = "completed", !.step = 0, !.state[s] = mark, !.due = "never"]
Fail(h, s) == [h EXCEPT !.status = "failed", !.state[s] = "failed", !.due = "never"]
Pause(h, s, due) == [h EXCEPT !.status = "waiting", !.state[s] = "waiting", !.due = due]

Decide(a, r, where, update) ==
  /\ plan' = [plan EXCEPT ![a] = [run |-> r, row |-> update, keep |-> FALSE, again |-> FALSE]]
  /\ Go(a, where)

-----------------------------------------------------------------------------
(* processScheduledAutomations: list the due runs, take a step of each *)

StartCron_QueuedOnly(a) ==
  LET due == {r \in Runs : row[r].status = "queued" /\ row[r].due = "now"} IN
  /\ pc[a] = "idle" /\ due # {}
  /\ Take(a, due) /\ Go(a, "next")
  /\ UNCHANGED <<automation, contact, row, emails, plan, known, happened, unheard, crowded, spent>>

StartCron(a) ==
  LET due == {r \in Runs : row[r].status \in Live /\ row[r].due = "now"} IN
  /\ pc[a] = "idle" /\ due # {}
  /\ Take(a, due) /\ Go(a, "next")
  /\ UNCHANGED <<automation, contact, row, emails, plan, known, happened, unheard, crowded, spent>>

\* A run whose automation is gone fails, one whose step is gone is complete;
\* neither update writes the step states.
SkipMissing(a, r) ==
  LET h == held[a][r] IN
  /\ pc[a] = "next" /\ Holds(a, r)
  /\ \/ /\ auto = "deleted"
        /\ plan' = [plan EXCEPT ![a] = [run |-> r, keep |-> TRUE, again |-> FALSE,
                      row |-> [h EXCEPT !.status = "failed", !.due = "never"]]]
     \/ /\ auto # "deleted" /\ h.step \notin flow.live
        /\ plan' = [plan EXCEPT ![a] = [run |-> r, keep |-> TRUE, again |-> FALSE,
                      row |-> [h EXCEPT !.status = "completed", !.step = 0, !.due = "never"]]]
  /\ Go(a, "write")
  /\ UNCHANGED <<held>>

At(a, r, kinds) ==
  /\ pc[a] = "next" /\ Holds(a, r) /\ auto # "deleted"
  /\ held[a][r].step \in flow.live /\ Kind[held[a][r].step] \in kinds
  /\ UNCHANGED held

Reachable(h) == h.contact /\ contact # "gone"

StepTrigger(a, r) ==
  LET h == held[a][r] s == h.step IN
  At(a, r, {"trigger"}) /\ Decide(a, r, "write", After(h, s, "completed", "default"))

StepDelay_OncePerRun(a, r) ==
  LET h == held[a][r] s == h.step IN
  /\ At(a, r, {"delay"})
  /\ IF h.state[s] # "none" THEN Decide(a, r, "write", After(h, s, "completed", "default"))
     ELSE \E x \in {Pause(h, s, "later"), Fail(h, s)} : Decide(a, r, "write", x)

\* A run that comes due while it waits has waited; a delay without a duration
\* that can be read fails.
StepDelay(a, r) ==
  LET h == held[a][r] s == h.step IN
  /\ At(a, r, {"delay"})
  /\ IF h.state[s] = "waiting" THEN Decide(a, r, "write", After(h, s, "completed", "default"))
     ELSE \E x \in {Pause(h, s, "later"), Fail(h, s)} : Decide(a, r, "write", x)

\* The predicate holds, does not hold, or cannot be evaluated.
StepCondition(a, r) ==
  LET h == held[a][r] s == h.step IN
  /\ At(a, r, {"condition"})
  /\ \/ \E branch \in {"condition_met", "condition_not_met"} :
          Decide(a, r, "write", After(h, s, "completed", branch))
     \/ Decide(a, r, "write", Fail(h, s))

\* A run that comes due while it waits for its event has timed out; a step
\* without a contact or with a config that does not hold up fails.
StepWait(a, r) ==
  LET h == held[a][r] s == h.step IN
  /\ At(a, r, {"wait_for_event"})
  /\ \/ Decide(a, r, "write", Fail(h, s))
     \/ /\ h.state[s] # "waiting" /\ h.contact
        /\ Decide(a, r, "write", Pause(h, s, IF s \in Timed THEN "later" ELSE "never"))

\* contact_update and add_to_segment; the segment may be missing.
StepContact(a, r) ==
  LET h == held[a][r] s == h.step IN
  /\ At(a, r, {"contact_update", "add_to_segment"})
  /\ \/ Reachable(h) /\ Decide(a, r, "change", After(h, s, "completed", "default"))
     \/ Decide(a, r, "write", Fail(h, s))

StepDelete(a, r) ==
  LET h == held[a][r] s == h.step IN
  /\ At(a, r, {"contact_delete"})
  /\ IF ~h.contact THEN Decide(a, r, "write", Complete(h, s, "skipped"))
     ELSE IF contact = "gone" THEN Decide(a, r, "write", Fail(h, s))
     ELSE Decide(a, r, "change", [Complete(h, s, "completed") EXCEPT !.contact = FALSE])

\* No email to an unsubscribed contact; a missing template or field fails.
StepSend(a, r) ==
  LET h == held[a][r] s == h.step IN
  /\ At(a, r, {"send_email"})
  /\ \/ Decide(a, r, "write", Fail(h, s))
     \/ /\ Reachable(h) /\ contact = "unsubscribed"
        /\ Decide(a, r, "write", After(h, s, "skipped", "default"))
     \/ /\ Reachable(h) /\ contact = "subscribed"
        /\ Decide(a, r, "lookup", After(h, s, "completed", "default"))

StepEnd(a, r) ==
  LET h == held[a][r] s == h.step IN
  At(a, r, {"end"}) /\ Decide(a, r, "write", Complete(h, s, "completed"))

Step(a, r) ==
  /\ \/ SkipMissing(a, r) \/ StepTrigger(a, r) \/ StepDelay(a, r) \/ StepCondition(a, r)
     \/ StepWait(a, r) \/ StepContact(a, r) \/ StepDelete(a, r) \/ StepSend(a, r)
     \/ StepEnd(a, r)
  /\ UNCHANGED <<automation, contact, row, emails, known, happened, unheard, crowded, contended, spent>>

\* The step in hand throws: the run is to fail at it.
Throw(a) ==
  LET r == plan[a].run h == held[a][r] IN Decide(a, r, "write", Fail(h, h.step))

\* The contact is written, or the call fails: it may have gone since it was
\* read, and the answer of a write that was made may get lost.
Change(a) ==
  LET r == plan[a].run s == held[a][r].step IN
  /\ pc[a] = "change" /\ UNCHANGED held
  /\ \/ Throw(a) /\ UNCHANGED contact
     \/ /\ Throw(a) \/ (Go(a, "write") /\ UNCHANGED plan)
        /\ \/ Kind[s] = "contact_update" /\ UNCHANGED contact
           \/ Kind[s] = "contact_update" /\ contact # "gone" /\ contact' \in {"subscribed", "unsubscribed"}
           \/ Kind[s] = "add_to_segment" /\ contact # "gone" /\ UNCHANGED contact
           \/ Kind[s] = "contact_delete" /\ contact # "gone" /\ contact' = "gone"
  /\ UNCHANGED <<automation, row, emails, known, happened, unheard, crowded, contended, spent>>

Lookup_AsSent(a) ==
  /\ pc[a] = "lookup" /\ UNCHANGED held
  /\ Go(a, "write") /\ UNCHANGED plan
  /\ UNCHANGED <<automation, contact, row, emails, known, happened, unheard, crowded, contended, spent>>

\* emailService.send: an email of this run and step is found and returned, or
\* the recipient is suppressed, or a new one is to be inserted.
Lookup(a) ==
  LET r == plan[a].run s == held[a][r].step IN
  /\ pc[a] = "lookup" /\ UNCHANGED held
  /\ IF emails[r][s] > 0 THEN Go(a, "write") /\ UNCHANGED plan
     ELSE Throw(a) \/ (Go(a, "insert") /\ UNCHANGED plan)
  /\ UNCHANGED <<automation, contact, row, emails, known, happened, unheard, crowded, contended, spent>>

Insert_NotUnique(a) ==
  LET r == plan[a].run s == held[a][r].step IN
  /\ pc[a] = "insert" /\ UNCHANGED held
  /\ emails' = [emails EXCEPT ![r][s] = @ + 1]
  /\ Throw(a) \/ (Go(a, "write") /\ UNCHANGED plan)
  /\ UNCHANGED <<automation, contact, row, known, happened, unheard, crowded, contended, spent>>

\* The idempotency key is unique: the second insert throws.  The first may
\* throw as well, after the insert, when its job cannot be published.
Insert(a) ==
  LET r == plan[a].run s == held[a][r].step IN
  /\ pc[a] = "insert" /\ UNCHANGED held
  /\ IF emails[r][s] > 0 THEN Throw(a) /\ UNCHANGED emails
     ELSE /\ emails' = [emails EXCEPT ![r][s] = @ + 1]
          /\ Throw(a) \/ (Go(a, "write") /\ UNCHANGED plan)
  /\ UNCHANGED <<automation, contact, row, known, happened, unheard, crowded, contended, spent>>

\* updateRun, whatever the row holds by now.
Update(a) ==
  LET r == plan[a].run
      u == plan[a].row
      new == [u EXCEPT !.state = IF plan[a].keep THEN row[r].state ELSE @,
                       !.contact = @ /\ row[r].contact]
  IN
  /\ IF row[r].status = "deleted" THEN UNCHANGED <<row, happened>>
     ELSE /\ row' = [row EXCEPT ![r] = new]
          /\ happened' = IF u.status = "queued" /\ happened[r][u.step] = "now"
                         THEN [happened EXCEPT ![r][u.step] = "before"] ELSE happened
  /\ unheard' = [e \in Events |-> unheard[e] \ {r}]

Write(a) ==
  /\ a \notin Users /\ pc[a] = "write"
  /\ Update(a) /\ Release(a, plan[a].run)
  /\ UNCHANGED <<automation, contact, emails, known, crowded, contended, spent>>

\* An update of a step that went well throws: it was not made, or it was and the
\* answer is lost.  Either way the catch block fails the run next.
WriteFails(a) ==
  LET r == plan[a].run h == held[a][r] IN
  /\ a \in Runners /\ pc[a] = "write" /\ ~plan[a].keep /\ plan[a].row.status # "failed"
  /\ Spend("fault")
  /\ \E made \in BOOLEAN :
       /\ IF made THEN Update(a) ELSE UNCHANGED <<row, happened, unheard>>
       /\ plan' = [plan EXCEPT ![a] = [run |-> r, row |-> Fail(h, h.step), keep |-> FALSE, again |-> made]]
  /\ UNCHANGED <<automation, contact, emails, pc, held, known, crowded, contended>>

\* A crash, or an exception nothing catches.
Interrupt(a) ==
  /\ pc[a] \notin {"new", "idle", "done", "failed"}
  /\ Spend("fault") /\ Abandon(a)
  /\ UNCHANGED <<automation, contact, row, emails, known, happened, unheard, crowded, contended>>

-----------------------------------------------------------------------------
(* sendCustomEvent: record the event, resume the runs it matches, enrol *)

AwaitsEvent(h) ==
  /\ auto # "deleted" /\ h.step \in flow.live
  /\ Kind[h.step] = "wait_for_event" /\ h.state[h.step] = "waiting"

Record(e) ==
  LET resolved == contact # "gone" IN
  /\ pc[e] = "new"
  /\ known' = [known EXCEPT ![e] = resolved]
  /\ unheard' = [unheard EXCEPT ![e] =
       {r \in Runs : /\ resolved /\ e \in Wakes /\ row[r].contact
                     /\ row[r].status = "waiting" /\ AwaitsEvent(row[r])}]
  /\ Go(e, IF resolved THEN "list" ELSE "find")
  /\ UNCHANGED <<automation, contact, row, emails, held, plan, happened, crowded, contended, spent>>

\* The runs an event lists: all that wait, or as many as the list takes.
Fits(batch, waiting) ==
  batch \subseteq waiting /\ (batch = waiting \/ Cardinality(batch) = ListLimit) /\ Cardinality(batch) <= ListLimit

ListWaiting_DueOnly(e) ==
  LET waiting == {r \in Runs : row[r].status = "waiting" /\ row[r].contact /\ row[r].due = "now"} IN
  /\ pc[e] = "list"
  /\ \E batch \in SUBSET waiting :
       /\ Fits(batch, waiting)
       /\ Take(e, batch) /\ Go(e, IF batch = {} THEN "find" ELSE "next")
       /\ crowded' = [crowded EXCEPT ![e] = waiting \ batch]
  /\ UNCHANGED <<automation, contact, row, emails, plan, known, happened, unheard, spent>>

\* Which runs a full list leaves out is left open; the code takes those updated
\* longest ago.  Nobody lists the others for this event again.
ListWaiting(e) ==
  LET waiting == {r \in Runs : row[r].status = "waiting" /\ row[r].contact} IN
  /\ pc[e] = "list"
  /\ \E batch \in SUBSET waiting :
       /\ Fits(batch, waiting)
       /\ Take(e, batch) /\ Go(e, IF batch = {} THEN "find" ELSE "next")
       /\ crowded' = [crowded EXCEPT ![e] = waiting \ batch]
  /\ UNCHANGED <<automation, contact, row, emails, plan, known, happened, unheard, spent>>

Resume(e, r) ==
  LET h == held[e][r] s == h.step IN
  /\ pc[e] = "next" /\ Holds(e, r)
  /\ IF e \in Wakes /\ AwaitsEvent(h)
     THEN /\ Decide(e, r, "write", After(h, s, "completed", "default"))
          /\ happened' = [happened EXCEPT ![r][s] = "now"]
          /\ UNCHANGED held
     ELSE Release(e, r) /\ UNCHANGED happened
  /\ UNCHANGED <<automation, contact, row, emails, known, unheard, crowded, contended, spent>>

FindEnabled(e) ==
  /\ pc[e] = "find"
  /\ Go(e, IF e \in Starts /\ auto = "enabled" THEN "check" ELSE "done")
  /\ UNCHANGED <<automation, contact, row, emails, held, plan, known, happened, unheard, crowded, contended, spent>>

\* createFromTrigger looks at the automation again and throws if it is no
\* longer enabled, then inserts the run at the step named "trigger".
CheckEnabled(e) ==
  /\ pc[e] = "check"
  /\ Go(e, IF auto = "enabled" THEN "create" ELSE "failed")
  /\ UNCHANGED <<automation, contact, row, emails, held, plan, known, happened, unheard, crowded, contended, spent>>

Create(e) ==
  /\ pc[e] = "create"
  /\ IF auto = "deleted" THEN Go(e, "failed") /\ UNCHANGED row
     ELSE /\ row' = [row EXCEPT ![e] = [Absent EXCEPT !.status = "queued", !.step = 1,
                                                      !.due = "now", !.contact = known[e]]]
          /\ Go(e, "done")
  /\ UNCHANGED <<automation, contact, emails, held, plan, known, happened, unheard, crowded, contended, spent>>

-----------------------------------------------------------------------------
(* cancelRun: read the run, then update it if it can still be cancelled *)

FindRun(u, r) ==
  /\ pc[u] = "new" /\ row[r].status \in Live
  /\ Take(u, {r})
  /\ Decide(u, r, "write", [row[r] EXCEPT !.status = "cancelled",
                              !.state[row[r].step] = "cancelled", !.due = "never"])
  /\ UNCHANGED <<automation, contact, row, emails, known, happened, unheard, crowded, spent>>

CancelRun(u) ==
  LET r == plan[u].run c == plan[u].row IN
  /\ u \in Users /\ pc[u] = "write"
  /\ IF row[r].status \in Live
     THEN /\ row' = [row EXCEPT ![r].status = c.status, ![r].state = c.state, ![r].due = c.due]
          /\ unheard' = [e \in Events |-> unheard[e] \ {r}]
     ELSE UNCHANGED <<row, unheard>>
  /\ Release(u, r)
  /\ UNCHANGED <<automation, contact, emails, known, happened, crowded, contended, spent>>

-----------------------------------------------------------------------------
(* The automation, the contact and the clock *)

SwitchAutomation ==
  /\ auto # "deleted" /\ Spend("change")
  /\ auto' = IF auto = "enabled" THEN "disabled" ELSE "enabled"
  /\ UNCHANGED <<flow, desk, contact, row, emails, actors, known, happened, unheard, crowded, contended>>

\* updateAutomation and deleteAutomation read the automation first.
OpenRequest ==
  /\ desk.op = "none"
  /\ \/ auto # "deleted" /\ Spend("change") /\ desk' = [op |-> "edit", seen |-> auto]
     \/ auto = "disabled" /\ UNCHANGED spent /\ desk' = [op |-> "delete", seen |-> auto]
  /\ UNCHANGED <<auto, flow, contact, row, emails, actors, known, happened, unheard, crowded, contended>>

\* The steps are replaced together with the status that was read.
CommitEdit ==
  /\ desk.op = "edit" /\ auto # "deleted"
  /\ flow' \in Flows /\ auto' = desk.seen
  /\ desk' = [desk EXCEPT !.op = "none"]
  /\ unheard' = [e \in Events |-> {r \in unheard[e] : row[r].step \in flow'.live}]
  /\ UNCHANGED <<contact, row, emails, actors, known, happened, crowded, contended, spent>>

\* Its runs are deleted with it.
CommitDelete ==
  /\ desk.op = "delete"
  /\ auto' = "deleted" /\ desk' = [desk EXCEPT !.op = "none"]
  /\ row' = [r \in Runs |-> IF row[r].status = "absent" THEN Absent
                             ELSE [Absent EXCEPT !.status = "deleted"]]
  /\ unheard' = [e \in Events |-> {}]
  /\ UNCHANGED <<flow, contact, emails, actors, known, happened, crowded, contended, spent>>

ChangeContact ==
  /\ contact # "gone" /\ Spend("change")
  /\ contact' \in {"subscribed", "unsubscribed", "gone"} \ {contact}
  /\ UNCHANGED <<automation, row, emails, actors, known, happened, unheard, crowded, contended>>

DueArrives(r) ==
  LET s == row[r].step IN
  /\ row[r].due = "later"
  /\ row' = [row EXCEPT ![r].due = "now"]
  /\ happened' = IF Kind[s] = "delay" THEN [happened EXCEPT ![r][s] = "now"] ELSE happened
  /\ UNCHANGED <<automation, contact, emails, actors, known, unheard, crowded, contended, spent>>

-----------------------------------------------------------------------------
Run(a) ==
  \/ StartCron(a)
  \/ \E r \in Runs : Step(a, r)
  \/ Change(a) \/ Lookup(a) \/ Insert(a) \/ Write(a)

Send(e) ==
  \/ ListWaiting(e)
  \/ \E r \in Runs : Resume(e, r)
  \/ Write(e) \/ FindEnabled(e) \/ CheckEnabled(e) \/ Create(e)

Next ==
  \/ \E a \in Runners : Run(a) \/ WriteFails(a) \/ Interrupt(a)
  \/ \E e \in Events : Record(e) \/ Send(e) \/ Interrupt(e)
  \/ \E u \in Users : CancelRun(u) \/ Interrupt(u) \/ \E r \in Runs : FindRun(u, r)
  \/ SwitchAutomation \/ OpenRequest \/ CommitEdit \/ CommitDelete \/ ChangeContact
  \/ \E r \in Runs : DueArrives(r)

Spec == Init /\ [][Next]_vars

\* The cron comes back every minute, requests run on, and time passes.
Fairness ==
  /\ \A a \in Runners : WF_vars(Run(a))
  /\ \A e \in Events : WF_vars(Send(e))
  /\ \A r \in Runs : WF_vars(DueArrives(r))

FairSpec == Spec /\ Fairness

-----------------------------------------------------------------------------
(* Properties *)

\* A row that claims a step done is right: the email was accepted, the delay
\* has passed, a matching event has come.  Stale updates may set a run back,
\* but never make it claim more than was done.
HonestSteps(r, x) ==
  \A s \in Steps : x.state[s] = "completed" =>
    /\ Kind[s] = "send_email" => emails[r][s] > 0
    /\ Kind[s] \in {"delay", "wait_for_event"} => happened[r][s] # "never"

\* No run is lost: one that is neither over nor waiting for an event without
\* timeout has a time at which the cron will list it.
Listed(x) ==
  /\ x.status = "queued" => x.step \in Steps /\ x.due = "now"
  /\ x.status = "waiting" =>
       /\ x.step \in Steps /\ x.state[x.step] = "waiting"
       /\ x.due = "never" => Kind[x.step] = "wait_for_event" /\ x.step \notin Timed
  /\ x.status \notin Live => x.due = "never"

RowsAreHonest == \A r \in Runs : HonestSteps(r, row[r]) /\ Listed(row[r])

\* However often a step is repeated, at most one email of it is accepted.
OneEmailPerStep == \A r \in Runs, s \in Steps : emails[r][s] <= 1

\* Why: every row listed, and every update about to be made, was honest when it
\* was read or decided on and what it claims cannot be undone.
SnapshotsAreHonest ==
  \A a \in Actors :
    /\ \A r \in Runs : HonestSteps(r, held[a][r]) /\ (Holds(a, r) => held[a][r].status \in Live)
    /\ pc[a] \in {"change", "lookup", "insert", "write"} =>
         LET r == plan[a].run IN
         /\ r \in Runs /\ Holds(a, r)
         /\ pc[a] = "write" => HonestSteps(r, plan[a].row) /\ Listed(plan[a].row)

\* An event that got past resuming has woken every run that waited for it when
\* it was recorded and that nobody wrote, and no edit stranded, in between, but
\* for those its list was too full for: a contact's runs beyond the limit miss
\* the event, which is not delivered again.
EventsWakeRuns ==
  \A e \in Events : pc[e] \in {"find", "check", "create", "done"} => unheard[e] \subseteq crowded[e]

\* What a run nobody contends for was cancelled, failed or completed as stays
\* so, and from then on no email is accepted for it.  Only a runner whose own
\* update was made, and its answer lost, turns it into a failed one.
Redoes(a, r) == pc[a] = "write" /\ plan[a].run = r /\ plan[a].again

LoneRunsStayEnded ==
  [][\A r \in Runs : row[r].status \in Ended /\ r \notin contended' =>
       /\ \/ row'[r].status \in {row[r].status, "deleted"}
          \/ row'[r].status = "failed" /\ \E a \in Runners : Redoes(a, r)
       /\ emails'[r] = emails[r]]_vars

\* A lone run goes on from a delay or a wait only if the delay has passed, or
\* the event has come, since it last came to that step.
LoneRunsWait ==
  [][\A r \in Runs \ contended' :
       LET s == row[r].step x == row[r] y == row'[r] IN
       /\ x.status \in Live /\ Kind[s] \in {"delay", "wait_for_event"}
       /\ \/ y.status = "queued" /\ y.step # s
          \/ y.state[s] = "completed" /\ x.state[s] # "completed"
       => happened[r][s] = "now"]_vars

\* While the automation has no cycle, a run eventually comes to rest for good:
\* it is over, or it waits for an event without timeout that does not come.
RunsSettle ==
  \A r \in Runs : row[r].status \in Live ~> [](row[r].status \in Live => row[r].due = "never")

=============================================================================
