-------------------------- MODULE AutomationRun_proofs --------------------------
(***************************************************************************)
(* Proofs about AutomationRun, for any number of events, runners and       *)
(* cancelling users and any automation.                                    *)
(*                                                                         *)
(* Nobody claims a run, and every write may be stale.  What saves the rows *)
(* is that emails and passed delays are never taken back: a row that was   *)
(* honest when it was listed, and an update decided on it, stay honest     *)
(* however late the update is made.                                        *)
(***************************************************************************)
EXTENDS AutomationRun, WellFoundedInduction, TLAPS

-----------------------------------------------------------------------------
(* The invariant *)

\* A run that goes on waits at its own step or at none, and comes due at a
\* delay only because the delay has passed.
Shape(r, x) ==
  x.status \in Live =>
    /\ \A s \in Steps : x.state[s] = "waiting" => x.status = "waiting" /\ s = x.step
    /\ x.status = "waiting" /\ x.due = "now" /\ Kind[x.step] = "delay" => happened[r][x.step] # "never"

Good(r, x) == HonestSteps(r, x) /\ Listed(x) /\ Shape(r, x)

\* The update of a send_email step is right but for the email not sent yet.
GoodBut(r, x, t) ==
  /\ \A s \in Steps \ {t} : x.state[s] = "completed" =>
       /\ Kind[s] = "send_email" => emails[r][s] > 0
       /\ Kind[s] \in {"delay", "wait_for_event"} => happened[r][s] # "never"
  /\ Kind[t] = "send_email" /\ Listed(x) /\ Shape(r, x)

\* A cron runner lists rows that are due.
Snapshots(a) ==
  \A r \in Runs :
    /\ Good(r, held[a][r])
    /\ Holds(a, r) => held[a][r].status \in Live /\ (a \in Runners => held[a][r].due = "now")

InPlan == {"change", "lookup", "insert", "write"}

Planned(a) ==
  pc[a] \in InPlan =>
    LET r == plan[a].run IN
    /\ r \in Runs /\ Holds(a, r)
    /\ pc[a] \in {"change", "write"} => Good(r, plan[a].row)
    /\ pc[a] \in {"lookup", "insert"} => GoodBut(r, plan[a].row, held[a][r].step)
    /\ plan[a].keep => pc[a] = "write" /\ plan[a].row.status \notin Live
    /\ plan[a].again => pc[a] = "write" /\ a \in Runners /\ plan[a].row.status = "failed"
    /\ a \in Users => plan[a].row.status \notin Live

Actor(a) == Snapshots(a) /\ Planned(a)

\* Where the runs an event is still to wake are: waiting until it lists them, then
\* in its hands, and nowhere once it has gone through its list.  Those a full
\* list leaves out it is not to wake.
Missing(e) == unheard[e] \ crowded[e]

Awake(e) ==
  /\ pc[e] \in {"new", "list"} => crowded[e] = {}
  /\ pc[e] \in {"new", "find", "check", "create", "done"} => Missing(e) = {}
  /\ pc[e] = "list" => \A r \in Missing(e) :
       e \in Wakes /\ row[r].status = "waiting" /\ row[r].contact /\ AwaitsEvent(row[r])
  /\ pc[e] \in {"next", "write"} => \A r \in Missing(e) :
       e \in Wakes /\ Holds(e, r) /\ AwaitsEvent(held[e][r]) /\ row[r].step = held[e][r].step
  /\ pc[e] \in {"change", "lookup", "insert", "idle"} => e \notin Events

Rows == \A r \in Runs : Good(r, row[r])

\* The run of an event that is not through has no row yet, and nobody lists it.
Born == \A r \in Runs : pc[r] # "done" => row[r] = Absent /\ \A a \in Actors : ~Holds(a, r)

Inv ==
  /\ TypeOK /\ Rows /\ OneEmailPerStep /\ Born
  /\ \A a \in Actors : Actor(a)
  /\ \A e \in Events : Awake(e)

LEMMA InvSafe == Inv => RowsAreHonest /\ OneEmailPerStep /\ SnapshotsAreHonest /\ EventsWakeRuns
<1> SUFFICES ASSUME Inv PROVE RowsAreHonest /\ OneEmailPerStep /\ SnapshotsAreHonest /\ EventsWakeRuns
  OBVIOUS
<1>1. RowsAreHonest /\ OneEmailPerStep
  BY DEF Inv, Rows, Good, RowsAreHonest
<1>2. SnapshotsAreHonest
  BY DEF Inv, Actor, Snapshots, Planned, InPlan, Good, SnapshotsAreHonest
<1>3. EventsWakeRuns
  BY DEF Inv, Awake, Missing, EventsWakeRuns
<1> QED
  BY <1>1, <1>2, <1>3

-----------------------------------------------------------------------------
(* The automation's steps *)

\* The lowest of some step keys.
LEMMA Lowest ==
  ASSUME NEW T \in SUBSET Nat, T # {}
  PROVE  \E t \in T : \A u \in T : t <= u
<1>1. PICK t \in T : \A u \in T : ~ (<<u, t>> \in OpToRel(<, Nat))
  BY NatLessThanWellFounded, WFMin
<1>2. \A u \in T : ~ (u < t)
  BY <1>1 DEF OpToRel
<1> QED
  BY <1>2

LEMMA NextIsStep ==
  ASSUME TypeOK, NEW s \in Steps, NEW branch \in Branches
  PROVE  NextStep(s, branch) \in Steps \cup {0}
<1> DEFINE edge == flow.edge[s]
           to == IF edge[branch] # 0 THEN edge[branch] ELSE edge["default"]
           later == {t \in flow.live : t > s}
<1>1. flow.live \subseteq Steps /\ Steps \subseteq Nat
  BY AutomationAssumption DEF TypeOK, FlowType
<1>2. CASE to \in flow.live
  BY <1>1, <1>2 DEF NextStep
<1>3. CASE to \notin flow.live /\ later = {}
  BY <1>3 DEF NextStep
<1>4. CASE to \notin flow.live /\ later # {}
  <2>1. \E t \in later : \A u \in later : t <= u
    BY <1>1, <1>4, Lowest
  <2>2. (CHOOSE t \in later : \A u \in later : t <= u) \in later
    BY <2>1
  <2> QED
    BY <1>1, <1>4, <2>2 DEF NextStep
<1> QED
  BY <1>2, <1>3, <1>4

-----------------------------------------------------------------------------
(* The updates *)

LEMMA AfterIs ==
  ASSUME TypeOK, NEW h \in RowType, NEW s \in Steps, NEW mark \in Marks, NEW branch \in Branches
  PROVE  LET x == After(h, s, mark, branch) IN
         /\ x \in RowType /\ x.state = [h.state EXCEPT ![s] = mark] /\ x.contact = h.contact
         /\ \/ x.status = "completed" /\ x.due = "never"
            \/ x.status = "queued" /\ x.due = "now" /\ x.step \in Steps
<1> DEFINE n == NextStep(s, branch)
<1>1. n \in Steps \cup {0}
  BY NextIsStep
<1>2. [h.state EXCEPT ![s] = mark] \in [Steps -> Marks]
  BY DEF RowType
<1>3. CASE n = 0
  BY <1>2, <1>3 DEF After, RowType
<1>4. CASE n # 0
  BY <1>1, <1>2, <1>4 DEF After, RowType
<1> QED
  BY <1>3, <1>4

LEMMA CompleteIs ==
  ASSUME NEW h \in RowType, NEW s \in Steps, NEW mark \in Marks
  PROVE  LET x == Complete(h, s, mark) IN
         /\ x \in RowType /\ x.state = [h.state EXCEPT ![s] = mark] /\ x.contact = h.contact
         /\ x.status = "completed" /\ x.due = "never"
<1>1. [h.state EXCEPT ![s] = mark] \in [Steps -> Marks]
  BY DEF RowType
<1> QED
  BY <1>1 DEF Complete, RowType

LEMMA FailIs ==
  ASSUME NEW h \in RowType, NEW s \in Steps
  PROVE  LET x == Fail(h, s) IN
         /\ x \in RowType /\ x.state = [h.state EXCEPT ![s] = "failed"] /\ x.contact = h.contact
         /\ x.status = "failed" /\ x.due = "never"
<1>1. [h.state EXCEPT ![s] = "failed"] \in [Steps -> Marks]
  BY DEF RowType, Marks
<1> QED
  BY <1>1 DEF Fail, RowType

LEMMA PauseIs ==
  ASSUME NEW h \in RowType, NEW s \in Steps, NEW due \in {"later", "never"}
  PROVE  LET x == Pause(h, s, due) IN
         /\ x \in RowType /\ x.state = [h.state EXCEPT ![s] = "waiting"] /\ x.contact = h.contact
         /\ x.status = "waiting" /\ x.due = due /\ x.step = h.step
<1>1. [h.state EXCEPT ![s] = "waiting"] \in [Steps -> Marks]
  BY DEF RowType, Marks
<1> QED
  BY <1>1 DEF Pause, RowType

\* What a mark at a step rests on.
Earned(r, s, mark) ==
  /\ mark # "waiting"
  /\ mark = "completed" =>
       /\ Kind[s] = "send_email" => emails[r][s] > 0
       /\ Kind[s] \in {"delay", "wait_for_event"} => happened[r][s] # "never"

\* A live row stays good when its step gets a mark that was earned.
LEMMA GoodMoves ==
  ASSUME NEW r \in Runs, NEW h \in RowType, Good(r, h), h.status \in Live, NEW mark \in Marks,
         Earned(r, h.step, mark), NEW x \in RowType, x.state = [h.state EXCEPT ![h.step] = mark],
         \/ x.status \notin Live /\ x.due = "never"
         \/ x.status = "queued" /\ x.due = "now" /\ x.step \in Steps
  PROVE  Good(r, x)
<1>1. h.step \in Steps /\ h.state \in [Steps -> Marks]
  BY DEF Good, Listed, Live, RowType
<1>2. \A s \in Steps : x.state[s] = IF s = h.step THEN mark ELSE h.state[s]
  BY <1>1
<1>3. HonestSteps(r, x)
  BY <1>1, <1>2 DEF Good, HonestSteps, Earned
<1>4. Listed(x)
  BY DEF Listed, Live
<1>5. Shape(r, x)
  BY <1>1, <1>2 DEF Good, Shape, Earned, Live
<1> QED
  BY <1>3, <1>4, <1>5 DEF Good

LEMMA GoodMovesBut ==
  ASSUME NEW r \in Runs, NEW h \in RowType, Good(r, h), h.status \in Live, Kind[h.step] = "send_email",
         NEW x \in RowType, x.state = [h.state EXCEPT ![h.step] = "completed"],
         \/ x.status \notin Live /\ x.due = "never"
         \/ x.status = "queued" /\ x.due = "now" /\ x.step \in Steps
  PROVE  GoodBut(r, x, h.step)
<1>1. h.step \in Steps /\ h.state \in [Steps -> Marks]
  BY DEF Good, Listed, Live, RowType
<1>2. \A s \in Steps : x.state[s] = IF s = h.step THEN "completed" ELSE h.state[s]
  BY <1>1
<1>3. Listed(x)
  BY DEF Listed, Live
<1>4. Shape(r, x)
  BY <1>1, <1>2 DEF Good, Shape, Live
<1> QED
  BY <1>1, <1>2, <1>3, <1>4 DEF Good, HonestSteps, GoodBut

LEMMA GoodPauses ==
  ASSUME NEW r \in Runs, NEW h \in RowType, Good(r, h), h.status \in Live,
         NEW due \in {"later", "never"},
         due = "never" => Kind[h.step] = "wait_for_event" /\ h.step \notin Timed
  PROVE  Good(r, Pause(h, h.step, due))
<1> DEFINE x == Pause(h, h.step, due)
<1>1. h.step \in Steps /\ h.state \in [Steps -> Marks]
  BY DEF Good, Listed, Live, RowType
<1>2. /\ x \in RowType /\ x.state = [h.state EXCEPT ![h.step] = "waiting"]
      /\ x.status = "waiting" /\ x.due = due /\ x.step = h.step
  BY <1>1, PauseIs
<1> HIDE DEF x
<1>3. \A s \in Steps : x.state[s] = IF s = h.step THEN "waiting" ELSE h.state[s]
  BY <1>1, <1>2
<1>4. HonestSteps(r, x)
  BY <1>1, <1>3 DEF Good, HonestSteps
<1>5. Listed(x)
  BY <1>1, <1>2, <1>3 DEF Listed, Live
<1>6. Shape(r, x)
  BY <1>1, <1>2, <1>3 DEF Good, Shape, Live
<1>7. Good(r, x)
  BY <1>4, <1>5, <1>6 DEF Good
<1> QED
  BY <1>7 DEF x

-----------------------------------------------------------------------------
(* What is never taken back *)

Grows ==
  \A r \in Runs, s \in Steps :
    /\ emails[r][s] > 0 => emails'[r][s] > 0
    /\ happened[r][s] # "never" => happened'[r][s] # "never"

LEMMA GoodStays ==
  ASSUME NEW r \in Runs, NEW x, x.step \in Steps \cup {0}, Good(r, x), Grows
  PROVE  Good(r, x)'
<1>1. HonestSteps(r, x)'
  BY DEF Good, Grows, HonestSteps
<1>2. Listed(x)' /\ (x.status = "waiting" => x.step \in Steps)
  BY DEF Good, Listed, Live
<1>3. Shape(r, x)'
  BY <1>2 DEF Good, Grows, Shape
<1> QED
  BY <1>1, <1>2, <1>3 DEF Good

LEMMA GoodButStays ==
  ASSUME NEW r \in Runs, NEW x, NEW t, GoodBut(r, x, t), Grows
  PROVE  GoodBut(r, x, t)'
<1>1. Listed(x)' /\ (x.status = "waiting" => x.step \in Steps)
  BY DEF GoodBut, Listed, Live
<1>2. Shape(r, x)'
  BY <1>1 DEF GoodBut, Grows, Shape
<1> QED
  BY <1>1, <1>2 DEF GoodBut, Grows

\* A row in hand stays in order.
LEMMA SnapshotsStay ==
  ASSUME TypeOK, Grows, NEW a \in Actors, Snapshots(a), held'[a] = held[a]
  PROVE  Snapshots(a)'
<1>1. \A r \in Runs : held[a][r].step \in Steps \cup {0}
  BY DEF TypeOK, RowType
<1> SUFFICES ASSUME NEW r \in Runs
             PROVE  /\ Good(r, held[a][r])'
                    /\ Holds(a, r)' => held'[a][r].status \in Live /\ (a \in Runners => held'[a][r].due = "now")
  BY DEF Snapshots
<1> DEFINE x == held[a][r]
<1>2. Good(r, x) /\ (x # Absent => x.status \in Live /\ (a \in Runners => x.due = "now"))
  BY DEF Snapshots, Holds
<1>3. PICK y : y = held[a][r]
  OBVIOUS
<1>4. Good(r, y)'
  BY <1>1, <1>2, <1>3, GoodStays
<1> QED
  BY <1>2, <1>3, <1>4 DEF Holds, Good, HonestSteps, Listed, Shape

\* An actor that does not move keeps its hands in order.
LEMMA ActorStays ==
  ASSUME TypeOK, Grows, NEW a \in Actors, Actor(a), pc'[a] = pc[a], held'[a] = held[a], plan'[a] = plan[a]
  PROVE  Actor(a)'
<1>2. plan[a].row.step \in Steps \cup {0}
  BY DEF TypeOK, RowType
<1>3. Snapshots(a)'
  BY SnapshotsStay DEF Actor
<1>4. Planned(a)'
  <2> SUFFICES ASSUME pc[a] \in InPlan PROVE Planned(a)'
    BY DEF Planned
  <2>1. PICK r \in Runs : r = plan[a].run
    BY DEF Actor, Planned
  <2>2. PICK u : u = plan[a].row
    OBVIOUS
  <2>3. PICK t : t = held[a][r].step
    OBVIOUS
  <2>4. pc[a] \in {"change", "write"} => Good(r, u)'
    BY <1>2, <2>1, <2>2, GoodStays DEF Actor, Planned
  <2>5. pc[a] \in {"lookup", "insert"} => GoodBut(r, u, t)'
    BY <2>1, <2>2, <2>3, GoodButStays DEF Actor, Planned
  <2> QED
    BY <2>1, <2>2, <2>3, <2>4, <2>5 DEF Actor, Planned, Holds, Good, GoodBut, HonestSteps, Listed, Shape
<1> QED
  BY <1>3, <1>4 DEF Actor

LEMMA AwakeStays ==
  ASSUME NEW e \in Events, Awake(e), pc'[e] = pc[e], held'[e] = held[e], unheard'[e] \subseteq unheard[e],
         crowded'[e] = crowded[e],
         pc'[e] # "failed" => \A r \in Missing(e)' :
           /\ row'[r].status = row[r].status /\ row'[r].contact = row[r].contact
           /\ row'[r].step = row[r].step /\ row'[r].state = row[r].state
           /\ auto # "deleted" => auto' # "deleted"
           /\ row[r].step \in flow.live => row[r].step \in flow'.live
  PROVE  Awake(e)'
BY DEF Awake, Missing, AwaitsEvent, Holds

\* What a mover leaves alone: runs not created yet, but for its own.
Unborn(a) ==
  /\ pc[a] # "done"
  /\ \A r \in Runs : row[r] = Absent /\ ~Holds(a, r) =>
       /\ row'[r] = Absent \/ (r = a /\ pc'[a] = "done")
       /\ held'[a][r] = Absent

\* A step of one actor: all there is to show is about what it holds, what it
\* writes, and the events that are still to be heard.
LEMMA Moves ==
  ASSUME Inv, TypeOK', NEW a \in Actors, Grows, Rows', OneEmailPerStep',
         \A b \in Actors \ {a} : pc'[b] = pc[b] /\ held'[b] = held[b] /\ plan'[b] = plan[b],
         Actor(a)', a \in Events => Awake(a)',
         UNCHANGED <<auto, flow>>,
         \A e \in Events : e # a => unheard'[e] \subseteq unheard[e] /\ crowded'[e] = crowded[e],
         \A e \in Events, r \in Runs : pc'[e] # "failed" /\ r \in unheard'[e] /\ r \notin crowded'[e] =>
           /\ row'[r].status = row[r].status /\ row'[r].contact = row[r].contact
           /\ row'[r].step = row[r].step /\ row'[r].state = row[r].state,
         Unborn(a)
  PROVE  Inv'
<1>1. ASSUME NEW b \in Actors, b # a PROVE Actor(b)'
  BY <1>1, ActorStays DEF Inv
<1>2. ASSUME NEW e \in Events, e # a PROVE Awake(e)'
  <2>1. e \in Actors \ {a} /\ unheard'[e] \subseteq Runs
    BY <1>2 DEF Actors, TypeOK
  <2> QED
    BY <1>2, <2>1, AwakeStays DEF Inv, Awake, Missing
<1>3. Born'
  <2> SUFFICES ASSUME NEW r \in Runs, pc'[r] # "done"
               PROVE  row'[r] = Absent /\ \A b \in Actors : held'[b][r] = Absent
    BY DEF Born, Holds
  <2>1. pc[r] # "done" /\ row[r] = Absent /\ \A b \in Actors : held[b][r] = Absent
    BY DEF Inv, Born, Unborn, Actors, Runs, Events, Holds
  <2> QED
    BY <2>1 DEF Unborn, Holds
<1> QED
  BY <1>1, <1>2, <1>3 DEF Inv

-----------------------------------------------------------------------------
(* Types of what the helpers write *)

Place == {"new", "idle", "list", "next", "change", "lookup", "insert", "write",
          "find", "check", "create", "done", "failed"}
PlanType == [run: Runs \cup {None}, row: RowType, keep: BOOLEAN, again: BOOLEAN]

LEMMA AbsentTyped == Absent \in RowType /\ NoPlan \in PlanType
BY DEF Absent, RowType, Marks, NoPlan, PlanType

LEMMA DecideTyped ==
  ASSUME TypeOK, NEW a \in Actors, NEW r \in Runs, NEW where \in InPlan, NEW update \in RowType,
         Decide(a, r, where, update)
  PROVE  /\ plan' \in [Actors -> PlanType] /\ pc' \in [Actors -> Place]
         /\ plan'[a] = [run |-> r, row |-> update, keep |-> FALSE, again |-> FALSE] /\ pc'[a] = where
         /\ \A b \in Actors \ {a} : plan'[b] = plan[b] /\ pc'[b] = pc[b]
<1>1. plan \in [Actors -> PlanType] /\ pc \in [Actors -> Place] /\ where \in Place
  BY DEF TypeOK, PlanType, Place, InPlan
<1>2. [run |-> r, row |-> update, keep |-> FALSE, again |-> FALSE] \in PlanType
  BY DEF PlanType
<1> QED
  BY <1>1, <1>2 DEF Decide, Go

LEMMA TakeTyped ==
  ASSUME TypeOK, NEW a \in Actors, NEW batch \in SUBSET Runs, Take(a, batch)
  PROVE  /\ held' \in [Actors -> [Runs -> RowType]] /\ contended' \subseteq Runs
         /\ \A r \in Runs : held'[a][r] = IF r \in batch THEN row[r] ELSE Absent
         /\ \A b \in Actors \ {a} : held'[b] = held[b]
<1>1. [r \in Runs |-> IF r \in batch THEN row[r] ELSE Absent] \in [Runs -> RowType]
  BY AbsentTyped DEF TypeOK
<1> QED
  BY <1>1 DEF Take, TypeOK

LEMMA ReleaseTyped ==
  ASSUME TypeOK, NEW a \in Actors, NEW r \in Runs, Release(a, r)
  PROVE  /\ held' \in [Actors -> [Runs -> RowType]] /\ plan' \in [Actors -> PlanType]
         /\ pc' \in [Actors -> Place] /\ pc'[a] \in {"next", "idle", "done", "find"}
         /\ pc'[a] = "next" \/ (pc'[a] = Resting(a) /\ \A q \in Runs \ {r} : ~Holds(a, q))
         /\ held'[a][r] = Absent /\ \A q \in Runs \ {r} : held'[a][q] = held[a][q]
         /\ \A b \in Actors \ {a} : pc'[b] = pc[b] /\ held'[b] = held[b] /\ plan'[b] = plan[b]
<1>1. held' \in [Actors -> [Runs -> RowType]]
  <2>1. held \in [Actors -> [Runs -> RowType]] /\ held' = [held EXCEPT ![a][r] = Absent]
    BY DEF TypeOK, Release
  <2> QED
    BY <2>1, AbsentTyped
<1>2. plan' \in [Actors -> PlanType] /\ \A b \in Actors \ {a} : plan'[b] = plan[b]
  BY AbsentTyped DEF TypeOK, Release, PlanType
<1>3. Resting(a) \in {"idle", "done", "find"}
  BY DEF Resting
<1>4. pc \in [Actors -> Place]
  BY DEF TypeOK, Place
<1>5. /\ pc' \in [Actors -> Place] /\ pc'[a] \in {"next", "idle", "done", "find"}
      /\ pc'[a] = "next" \/ (pc'[a] = Resting(a) /\ \A q \in Runs \ {r} : ~Holds(a, q))
      /\ \A b \in Actors \ {a} : pc'[b] = pc[b]
  BY <1>3, <1>4 DEF Release, Go, Place
<1>6. held'[a][r] = Absent /\ \A q \in Runs \ {r} : held'[a][q] = held[a][q]
  BY DEF TypeOK, Release
<1>7. \A b \in Actors \ {a} : held'[b] = held[b]
  BY DEF TypeOK, Release
<1> QED
  BY <1>1, <1>2, <1>5, <1>6, <1>7

LEMMA AbandonTyped ==
  ASSUME TypeOK, NEW a \in Actors, Abandon(a)
  PROVE  /\ held' \in [Actors -> [Runs -> RowType]] /\ plan' \in [Actors -> PlanType]
         /\ pc' \in [Actors -> Place] /\ pc'[a] \in {"idle", "failed"} /\ (pc'[a] = "idle" => a \in Runners)
         /\ \A r \in Runs : held'[a][r] = Absent
         /\ \A b \in Actors \ {a} : pc'[b] = pc[b] /\ held'[b] = held[b] /\ plan'[b] = plan[b]
<1>1. [r \in Runs |-> Absent] \in [Runs -> RowType]
  BY AbsentTyped
<1>2. held' \in [Actors -> [Runs -> RowType]] /\ \A r \in Runs : held'[a][r] = Absent
  BY <1>1 DEF TypeOK, Abandon
<1>3. plan' \in [Actors -> PlanType]
  BY AbsentTyped DEF TypeOK, Abandon, PlanType
<1>4. pc \in [Actors -> Place]
  BY DEF TypeOK, Place
<1>5. pc' \in [Actors -> Place] /\ pc'[a] \in {"idle", "failed"} /\ (pc'[a] = "idle" => a \in Runners)
  BY <1>4 DEF Abandon, Go, Place
<1> QED
  BY <1>2, <1>3, <1>5 DEF Abandon, Go, TypeOK

\* An actor with nothing in hand.
LEMMA NothingGood ==
  ASSUME NEW r \in Runs PROVE Good(r, Absent)
BY AutomationAssumption DEF Good, HonestSteps, Listed, Shape, Absent, Live

-----------------------------------------------------------------------------
(* A step of a runner *)

\* A step that only moves actor a.
Quiet(a) ==
  /\ UNCHANGED <<auto, flow, row, emails, happened, unheard>>
  /\ \A e \in Events : e # a => crowded'[e] = crowded[e]
  /\ \A b \in Actors \ {a} : pc'[b] = pc[b] /\ held'[b] = held[b] /\ plan'[b] = plan[b]

LEMMA QuietMoves ==
  ASSUME Inv, TypeOK', NEW a \in Actors, Quiet(a), Actor(a)', a \in Events => Awake(a)',
         pc[a] # "done", \A r \in Runs : row[r] = Absent /\ ~Holds(a, r) => held'[a][r] = Absent
  PROVE  Inv'
<1>1. Grows
  BY DEF Quiet, Grows
<1>2. Rows'
  BY DEF Quiet, Inv, Rows, Good, HonestSteps, Listed, Shape
<1>3. OneEmailPerStep'
  BY DEF Quiet, Inv, OneEmailPerStep
<1>4. \A e \in Events : unheard'[e] \subseteq unheard[e] /\ (e # a => crowded'[e] = crowded[e])
  BY DEF Quiet
<1>5. UNCHANGED <<auto, flow, row>> /\ \A b \in Actors \ {a} : pc'[b] = pc[b] /\ held'[b] = held[b] /\ plan'[b] = plan[b]
  BY DEF Quiet
<1>6. Unborn(a)
  BY <1>5 DEF Unborn
<1> QED
  BY <1>1, <1>2, <1>3, <1>4, <1>5, <1>6, Moves DEF Quiet

LEMMA InHand ==
  ASSUME Inv, NEW a \in Actors, NEW r \in Runs, Holds(a, r)
  PROVE  LET h == held[a][r] IN
         h \in RowType /\ Good(r, h) /\ h.status \in Live /\ h.step \in Steps /\ (a \in Runners => h.due = "now")
<1>1. held[a][r] \in RowType
  BY DEF Inv, TypeOK
<1>2. Good(r, held[a][r]) /\ held[a][r].status \in Live /\ (a \in Runners => held[a][r].due = "now")
  BY DEF Inv, Actor, Snapshots
<1> QED
  BY <1>1, <1>2 DEF Good, Listed, Live

\* An update that is decided on and does no harm.
Sound(a, r, where, x) ==
  /\ x \in RowType
  /\ where \in {"change", "write"} => Good(r, x)
  /\ where \in {"lookup", "insert"} => GoodBut(r, x, held[a][r].step)

LEMMA Decided ==
  ASSUME Inv, NEW a \in Actors, NEW r \in Runs, Holds(a, r), NEW where \in InPlan, NEW x, Sound(a, r, where, x),
         Decide(a, r, where, x), UNCHANGED <<held, emails, happened>>,
         a \in Users => x.status \notin Live
  PROVE  Actor(a)'
<1>1. /\ plan'[a] = [run |-> r, row |-> x, keep |-> FALSE, again |-> FALSE] /\ pc'[a] = where
  BY DecideTyped DEF Inv, Sound
<1>2. Snapshots(a)'
  BY DEF Inv, Actor, Snapshots, Good, HonestSteps, Listed, Shape, Holds
<1>3. Planned(a)'
  <2>1. Good(r, x) => Good(r, x)'
    BY DEF Good, HonestSteps, Listed, Shape
  <2>2. PICK t : t = held[a][r].step
    OBVIOUS
  <2>3. GoodBut(r, x, t) => GoodBut(r, x, t)'
    BY DEF GoodBut, Listed, Shape
  <2>4. plan'[a].run = r /\ plan'[a].row = x /\ ~plan'[a].keep /\ ~plan'[a].again /\ held'[a][r].step = t /\ Holds(a, r)'
    BY <1>1, <2>2 DEF Holds
  <2>5. where \in {"change", "write"} => Good(r, plan[a].row)'
    BY <2>1, <2>4 DEF Sound, Good, HonestSteps, Listed, Shape
  <2>6. where \in {"lookup", "insert"} => GoodBut(r, plan[a].row, t)'
    BY <2>2, <2>3, <2>4 DEF Sound, GoodBut, Listed, Shape
  <2>7. where \in {"lookup", "insert"} => GoodBut(r, plan[a].row, held[a][r].step)'
    BY <2>4, <2>6 DEF GoodBut
  <2> QED
    BY <1>1, <2>4, <2>5, <2>7 DEF Planned
<1> QED
  BY <1>2, <1>3 DEF Actor

\* Every step decides on a sound update.
LEMMA StepDecides ==
  ASSUME Inv, NEW a \in Actors, a \in Runners, NEW r \in Runs,
         \/ StepTrigger(a, r) \/ StepDelay(a, r) \/ StepCondition(a, r) \/ StepWait(a, r)
         \/ StepContact(a, r) \/ StepDelete(a, r) \/ StepSend(a, r) \/ StepEnd(a, r)
  PROVE  /\ Holds(a, r) /\ UNCHANGED held
         /\ \E where \in InPlan : \E x : Decide(a, r, where, x) /\ Sound(a, r, where, x)
<1> DEFINE h == held[a][r]
           s == h.step
           Goal == \E where \in InPlan : \E x : Decide(a, r, where, x) /\ Sound(a, r, where, x)
<1>1. Holds(a, r) /\ UNCHANGED held
  BY DEF At, StepTrigger, StepDelay, StepCondition, StepWait, StepContact, StepDelete, StepSend, StepEnd
<1>2. h \in RowType /\ Good(r, h) /\ h.status \in Live /\ s \in Steps /\ h.due = "now"
  BY <1>1, InHand
<1>3. TypeOK /\ {"completed", "skipped", "failed"} \subseteq Marks /\ {"change", "lookup", "write"} \subseteq InPlan
  BY DEF Inv, Marks, InPlan
<1> HIDE DEF h, s
<1>4. ASSUME NEW mark \in {"completed", "skipped"}, Earned(r, s, mark), NEW branch \in Branches
      PROVE  After(h, s, mark, branch) \in RowType /\ Good(r, After(h, s, mark, branch))
  <2>1. PICK x : x = After(h, s, mark, branch)
    OBVIOUS
  <2>2. mark \in Marks
    BY DEF Marks
  <2>3. /\ x \in RowType /\ x.state = [h.state EXCEPT ![s] = mark]
        /\ \/ x.status = "completed" /\ x.due = "never"
           \/ x.status = "queued" /\ x.due = "now" /\ x.step \in Steps
    BY <1>2, <1>3, <2>1, <2>2, AfterIs
  <2>4. Good(r, x)
    BY <1>2, <1>4, <2>2, <2>3, GoodMoves DEF s, Live
  <2> QED
    BY <2>1, <2>3, <2>4
<1>5. ASSUME NEW mark \in {"completed", "skipped"}, Earned(r, s, mark)
      PROVE  Complete(h, s, mark) \in RowType /\ Good(r, Complete(h, s, mark))
  <2>1. PICK x : x = Complete(h, s, mark)
    OBVIOUS
  <2>2. mark \in Marks
    BY DEF Marks
  <2>3. x \in RowType /\ x.state = [h.state EXCEPT ![s] = mark] /\ x.status = "completed" /\ x.due = "never"
    BY <1>2, <2>1, <2>2, CompleteIs
  <2>4. Good(r, x)
    BY <1>2, <1>5, <2>2, <2>3, GoodMoves DEF s, Live
  <2> QED
    BY <2>1, <2>3, <2>4
<1>6. Fail(h, s) \in RowType /\ Good(r, Fail(h, s))
  <2>1. PICK x : x = Fail(h, s)
    OBVIOUS
  <2>2. x \in RowType /\ x.state = [h.state EXCEPT ![s] = "failed"] /\ x.status = "failed" /\ x.due = "never"
    BY <1>2, <2>1, FailIs
  <2>3. Good(r, x)
    BY <1>2, <1>3, <2>2, GoodMoves DEF s, Live, Earned
  <2> QED
    BY <2>1, <2>2, <2>3
<1>7. ASSUME NEW due \in {"later", "never"}, due = "never" => Kind[s] = "wait_for_event" /\ s \notin Timed
      PROVE  Pause(h, s, due) \in RowType /\ Good(r, Pause(h, s, due))
  BY <1>2, <1>7, PauseIs, GoodPauses DEF s
<1>8. ASSUME StepTrigger(a, r) PROVE Goal
  <2>1. Kind[s] = "trigger" /\ Decide(a, r, "write", After(h, s, "completed", "default"))
    BY <1>8 DEF StepTrigger, At, h, s
  <2>2. Earned(r, s, "completed")
    BY <2>1 DEF Earned
  <2> QED
    BY <1>3, <1>4, <2>1, <2>2 DEF Sound, Branches
<1>9. ASSUME StepDelay(a, r) PROVE Goal
  <2>1. Kind[s] = "delay"
    BY <1>9 DEF StepDelay, At, h, s
  <2>2. CASE h.state[s] = "waiting" /\ Decide(a, r, "write", After(h, s, "completed", "default"))
    <3>1. h.status = "waiting"
      BY <1>2, <2>2 DEF Good, Shape
    <3> QED
      <4>1. Earned(r, s, "completed")
        BY <1>2, <2>1, <3>1 DEF Good, Shape, Earned, s
      <4> QED
        BY <1>3, <1>4, <2>2, <4>1 DEF Sound, Branches
  <2>3. CASE Decide(a, r, "write", Pause(h, s, "later"))
    BY <1>3, <1>7, <2>3 DEF Sound
  <2>4. CASE Decide(a, r, "write", Fail(h, s))
    BY <1>3, <1>6, <2>4 DEF Sound
  <2> QED
    BY <1>9, <2>2, <2>3, <2>4 DEF StepDelay, h, s
<1>10. ASSUME StepCondition(a, r) PROVE Goal
  <2>1. Kind[s] = "condition"
    BY <1>10 DEF StepCondition, At, h, s
  <2>2. Earned(r, s, "completed")
    BY <2>1 DEF Earned
  <2>3. ASSUME NEW branch \in {"condition_met", "condition_not_met"},
               Decide(a, r, "write", After(h, s, "completed", branch)) PROVE Goal
    BY <1>3, <1>4, <2>2, <2>3 DEF Sound, Branches
  <2>4. CASE Decide(a, r, "write", Fail(h, s))
    BY <1>3, <1>6, <2>4 DEF Sound
  <2> QED
    BY <1>10, <2>3, <2>4 DEF StepCondition, h, s
<1>11. ASSUME StepWait(a, r) PROVE Goal
  <2>1. Kind[s] = "wait_for_event"
    BY <1>11 DEF StepWait, At, h, s
  <2>2. CASE Decide(a, r, "write", Fail(h, s))
    BY <1>3, <1>6, <2>2 DEF Sound
  <2>3. CASE Decide(a, r, "write", Pause(h, s, IF s \in Timed THEN "later" ELSE "never"))
    BY <1>3, <1>7, <2>1, <2>3 DEF Sound
  <2> QED
    BY <1>11, <2>2, <2>3 DEF StepWait, h, s
<1>12. ASSUME StepContact(a, r) PROVE Goal
  <2>1. Kind[s] \in {"contact_update", "add_to_segment"}
    BY <1>12 DEF StepContact, At, h, s
  <2>2. Earned(r, s, "completed")
    BY <2>1 DEF Earned
  <2>3. CASE Decide(a, r, "change", After(h, s, "completed", "default"))
    BY <1>3, <1>4, <2>2, <2>3 DEF Sound, Branches
  <2>4. CASE Decide(a, r, "write", Fail(h, s))
    BY <1>3, <1>6, <2>4 DEF Sound
  <2> QED
    BY <1>12, <2>3, <2>4 DEF StepContact, h, s
<1>13. ASSUME StepDelete(a, r) PROVE Goal
  <2>1. Kind[s] = "contact_delete"
    BY <1>13 DEF StepDelete, At, h, s
  <2>2. Earned(r, s, "completed") /\ Earned(r, s, "skipped")
    BY <2>1 DEF Earned
  <2>3. CASE Decide(a, r, "write", Complete(h, s, "skipped"))
    BY <1>3, <1>5, <2>2, <2>3 DEF Sound
  <2>4. CASE Decide(a, r, "write", Fail(h, s))
    BY <1>3, <1>6, <2>4 DEF Sound
  <2>5. CASE Decide(a, r, "change", [Complete(h, s, "completed") EXCEPT !.contact = FALSE])
    <3>1. PICK x : x = Complete(h, s, "completed")
      OBVIOUS
    <3>2. x \in RowType /\ Good(r, x)
      BY <1>5, <2>2, <3>1
    <3>3. PICK y : y = [x EXCEPT !.contact = FALSE]
      OBVIOUS
    <3>4. y \in RowType /\ y.status = x.status /\ y.step = x.step /\ y.state = x.state /\ y.due = x.due
      BY <3>2, <3>3 DEF RowType
    <3>5. Good(r, y)
      BY <3>2, <3>4 DEF Good, HonestSteps, Listed, Shape
    <3> QED
      BY <1>3, <2>5, <3>1, <3>3, <3>4, <3>5 DEF Sound
  <2> QED
    BY <1>13, <2>3, <2>4, <2>5 DEF StepDelete, h, s
<1>14. ASSUME StepSend(a, r) PROVE Goal
  <2>1. Kind[s] = "send_email"
    BY <1>14 DEF StepSend, At, h, s
  <2>2. Earned(r, s, "skipped")
    BY DEF Earned
  <2>3. CASE Decide(a, r, "write", Fail(h, s))
    BY <1>3, <1>6, <2>3 DEF Sound
  <2>4. CASE Decide(a, r, "write", After(h, s, "skipped", "default"))
    BY <1>3, <1>4, <2>2, <2>4 DEF Sound, Branches
  <2>5. CASE Decide(a, r, "lookup", After(h, s, "completed", "default"))
    <3>1. PICK x : x = After(h, s, "completed", "default")
      OBVIOUS
    <3>2. /\ x \in RowType /\ x.state = [h.state EXCEPT ![s] = "completed"]
          /\ \/ x.status = "completed" /\ x.due = "never"
             \/ x.status = "queued" /\ x.due = "now" /\ x.step \in Steps
      BY <1>2, <1>3, <3>1, AfterIs DEF Branches
    <3>3. GoodBut(r, x, s)
      BY <1>2, <2>1, <3>2, GoodMovesBut DEF s, Live
    <3> QED
      BY <1>3, <2>5, <3>1, <3>2, <3>3 DEF Sound, h, s
  <2> QED
    BY <1>14, <2>3, <2>4, <2>5 DEF StepSend, h, s
<1>15. ASSUME StepEnd(a, r) PROVE Goal
  <2>1. Kind[s] = "end" /\ Decide(a, r, "write", Complete(h, s, "completed"))
    BY <1>15 DEF StepEnd, At, h, s
  <2>2. Earned(r, s, "completed")
    BY <2>1 DEF Earned
  <2> QED
    BY <1>3, <1>5, <2>1, <2>2 DEF Sound
<1> QED
  BY <1>1, <1>8, <1>9, <1>10, <1>11, <1>12, <1>13, <1>14, <1>15

\* An actor about to write a good update.
LEMMA Ready ==
  ASSUME Inv, Grows, NEW a \in Actors, NEW r \in Runs, Holds(a, r), held'[a] = held[a], pc'[a] = "write",
         NEW x, plan'[a].run = r, plan'[a].row = x, ~plan'[a].again, Good(r, x)',
         plan'[a].keep => x.status \notin Live, a \in Users => x.status \notin Live
  PROVE  Actor(a)'
<1>1. Snapshots(a)'
  BY SnapshotsStay DEF Inv, Actor
<1>2. Holds(a, r)'
  BY DEF Holds
<1>3. Good(r, plan[a].row)'
  BY DEF Good, HonestSteps, Listed, Shape
<1>4. Planned(a)'
  BY <1>2, <1>3 DEF Planned
<1> QED
  BY <1>1, <1>4 DEF Actor

LEMMA RunnerIs ==
  ASSUME NEW a \in Runners
  PROVE  a \in Actors /\ a \notin Events /\ a \notin Users /\ a \notin Runs
BY AutomationAssumption DEF Actors, Events, Runs

LEMMA StepKeeps ==
  ASSUME Inv, NEW a \in Runners, NEW r \in Runs, Step(a, r)
  PROVE  Inv'
<1>1. a \in Actors /\ a \notin Events /\ a \notin Users
  BY RunnerIs
<1>2. UNCHANGED <<auto, flow, desk, contact, row, emails, known, happened, unheard, crowded, contended, spent>>
  BY DEF Step, automation
<1>3. Grows
  BY <1>2 DEF Grows
<1>4. /\ pc[a] = "next" /\ UNCHANGED held /\ plan' \in [Actors -> PlanType] /\ pc' \in [Actors -> Place]
      /\ Actor(a)' /\ \A b \in Actors \ {a} : pc'[b] = pc[b] /\ plan'[b] = plan[b]
  <2>1. CASE SkipMissing(a, r)
    <3> DEFINE h == held[a][r]
    <3>1. /\ pc[a] = "next" /\ Holds(a, r) /\ UNCHANGED held /\ Go(a, "write")
          /\ \E x : /\ \/ x = [h EXCEPT !.status = "failed", !.due = "never"]
                       \/ x = [h EXCEPT !.status = "completed", !.step = 0, !.due = "never"]
                    /\ plan' = [plan EXCEPT ![a] = [run |-> r, keep |-> TRUE, again |-> FALSE, row |-> x]]
      BY <2>1 DEF SkipMissing
    <3>2. h \in RowType /\ Good(r, h)
      BY <1>1, <3>1, InHand
    <3>3. PICK x : /\ \/ x = [h EXCEPT !.status = "failed", !.due = "never"]
                      \/ x = [h EXCEPT !.status = "completed", !.step = 0, !.due = "never"]
                   /\ plan' = [plan EXCEPT ![a] = [run |-> r, keep |-> TRUE, again |-> FALSE, row |-> x]]
      BY <3>1
    <3>4. x \in RowType /\ x.status \notin Live /\ x.due = "never" /\ x.state = h.state
      BY <3>2, <3>3 DEF RowType, Live
    <3>5. Good(r, x)
      BY <3>2, <3>4 DEF Good, HonestSteps, Listed, Shape, Live
    <3>6. Good(r, x)'
      BY <1>3, <3>4, <3>5, GoodStays DEF RowType
    <3>7. [run |-> r, keep |-> TRUE, again |-> FALSE, row |-> x] \in PlanType /\ "write" \in Place
      BY <3>4 DEF PlanType, Place
    <3>8. plan \in [Actors -> PlanType] /\ pc \in [Actors -> Place]
      BY DEF Inv, TypeOK, PlanType, Place
    <3>9. /\ plan' \in [Actors -> PlanType] /\ plan'[a] = [run |-> r, keep |-> TRUE, again |-> FALSE, row |-> x]
          /\ \A b \in Actors \ {a} : plan'[b] = plan[b]
      BY <1>1, <3>3, <3>7, <3>8
    <3>10. pc' \in [Actors -> Place] /\ pc'[a] = "write" /\ \A b \in Actors \ {a} : pc'[b] = pc[b]
      BY <1>1, <3>1, <3>7, <3>8 DEF Go
    <3>11. Actor(a)'
      BY <1>1, <1>3, <3>1, <3>4, <3>6, <3>9, <3>10, Ready
    <3> QED
      BY <3>1, <3>9, <3>10, <3>11
  <2>2. CASE \/ StepTrigger(a, r) \/ StepDelay(a, r) \/ StepCondition(a, r) \/ StepWait(a, r)
            \/ StepContact(a, r) \/ StepDelete(a, r) \/ StepSend(a, r) \/ StepEnd(a, r)
    <3>1. pc[a] = "next"
      BY <2>2 DEF At, StepTrigger, StepDelay, StepCondition, StepWait, StepContact, StepDelete, StepSend, StepEnd
    <3>2. /\ Holds(a, r) /\ UNCHANGED held
          /\ \E where \in InPlan : \E x : Decide(a, r, where, x) /\ Sound(a, r, where, x)
      BY <1>1, <2>2, StepDecides
    <3>3. PICK where \in InPlan : \E x : Decide(a, r, where, x) /\ Sound(a, r, where, x)
      BY <3>2
    <3>3b. PICK x : Decide(a, r, where, x) /\ Sound(a, r, where, x)
      BY <3>3
    <3>4. Actor(a)'
      BY <1>1, <1>2, <3>2, <3>3b, Decided
    <3> QED
      BY <1>1, <3>1, <3>2, <3>3b, <3>4, DecideTyped DEF Inv, Sound
  <2> QED
    BY <2>1, <2>2 DEF Step
<1>5. TypeOK'
  BY <1>2, <1>4 DEF Inv, TypeOK, PlanType, Place
<1>6. Quiet(a)
  BY <1>2, <1>4 DEF Quiet
<1>7. \A q \in Runs : ~Holds(a, q) => held'[a][q] = Absent
  BY <1>4 DEF Holds
<1> QED
  BY <1>1, <1>4, <1>5, <1>6, <1>7, QuietMoves

\* Listing rows: each was good.
LEMMA Listing ==
  ASSUME Inv, NEW a \in Actors, NEW batch \in SUBSET Runs, Take(a, batch), UNCHANGED <<emails, happened>>,
         \A r \in batch : row[r].status \in Live /\ (a \in Runners => row[r].due = "now")
  PROVE  /\ Snapshots(a)'
         /\ \A r \in Runs : row[r] = Absent => held'[a][r] = Absent
         /\ \A r \in batch : Holds(a, r)' /\ held'[a][r] = row[r]
<1>1. \A r \in Runs : held'[a][r] = IF r \in batch THEN row[r] ELSE Absent
  BY TakeTyped DEF Inv
<1>2. Grows
  BY DEF Grows
<1>3. \A r \in batch : row[r] # Absent
  BY DEF Absent, Live
<1>4. ASSUME NEW r \in Runs
      PROVE  /\ Good(r, held[a][r])'
             /\ Holds(a, r)' => held'[a][r].status \in Live /\ (a \in Runners => held'[a][r].due = "now")
  <2>1. PICK x : x = held'[a][r]
    OBVIOUS
  <2>2. x = row[r] \/ x = Absent
    BY <1>1, <2>1
  <2>3. Good(r, x) /\ x \in RowType
    BY <2>2, NothingGood, AbsentTyped DEF Inv, Rows, TypeOK
  <2>4. Good(r, x)'
    BY <1>2, <2>3, GoodStays DEF RowType
  <2> QED
    BY <1>1, <2>1, <2>4 DEF Holds, Good, HonestSteps, Listed, Shape
<1> QED
  BY <1>1, <1>3, <1>4 DEF Snapshots, Holds

LEMMA StartCronKeeps ==
  ASSUME Inv, NEW a \in Runners, StartCron(a)
  PROVE  Inv'
<1> DEFINE due == {r \in Runs : row[r].status \in Live /\ row[r].due = "now"}
<1>1. a \in Actors /\ a \notin Events /\ a \notin Users
  BY RunnerIs
<1>2. /\ UNCHANGED <<auto, flow, desk, contact, row, emails, plan, known, happened, unheard, crowded, spent>>
      /\ pc[a] = "idle" /\ Take(a, due) /\ Go(a, "next")
  BY DEF StartCron, automation
<1>3. /\ held' \in [Actors -> [Runs -> RowType]] /\ contended' \subseteq Runs
      /\ \A b \in Actors \ {a} : held'[b] = held[b]
  BY <1>1, <1>2, TakeTyped DEF Inv
<1>4. Snapshots(a)' /\ \A r \in Runs : row[r] = Absent => held'[a][r] = Absent
  BY <1>1, <1>2, Listing
<1>5. pc' \in [Actors -> Place] /\ pc'[a] = "next" /\ \A b \in Actors \ {a} : pc'[b] = pc[b]
  BY <1>1, <1>2 DEF Go, Inv, TypeOK, Place
<1>6. Actor(a)'
  BY <1>4, <1>5 DEF Actor, Planned, InPlan
<1>7. TypeOK'
  BY <1>2, <1>3, <1>5 DEF Inv, TypeOK, Place
<1>8. Quiet(a)
  BY <1>2, <1>3, <1>5 DEF Quiet
<1> QED
  BY <1>1, <1>2, <1>4, <1>6, <1>7, <1>8, QuietMoves

\* A runner in the middle of a step, with the run it has in hand.
LEMMA InTheStep ==
  ASSUME Inv, NEW a \in Runners, pc[a] \in InPlan
  PROVE  LET r == plan[a].run h == held[a][r] x == plan[a].row IN
         /\ a \in Actors /\ a \notin Events /\ a \notin Users
         /\ r \in Runs /\ Holds(a, r) /\ h \in RowType /\ Good(r, h) /\ h.status \in Live /\ h.step \in Steps
         /\ x \in RowType /\ pc[a] # "done"
         /\ pc[a] \in {"change", "write"} => Good(r, x)
         /\ pc[a] \in {"lookup", "insert"} => GoodBut(r, x, h.step)
         /\ plan[a].keep => pc[a] = "write" /\ x.status \notin Live
         /\ plan[a].again => pc[a] = "write"
<1>1. a \in Actors /\ a \notin Events /\ a \notin Users
  BY RunnerIs
<1>2. Actor(a) /\ plan[a].row \in RowType
  BY <1>1 DEF Inv, TypeOK
<1>3. plan[a].run \in Runs /\ Holds(a, plan[a].run)
  BY <1>2 DEF Actor, Planned
<1>4. /\ pc[a] \in {"change", "write"} => Good(plan[a].run, plan[a].row)
      /\ pc[a] \in {"lookup", "insert"} => GoodBut(plan[a].run, plan[a].row, held[a][plan[a].run].step)
      /\ plan[a].keep => pc[a] = "write" /\ plan[a].row.status \notin Live
      /\ plan[a].again => pc[a] = "write"
  BY <1>2 DEF Actor, Planned
<1> QED
  BY <1>1, <1>2, <1>3, <1>4, InHand DEF InPlan

\* What a step in the middle changes: the mover's place and plan.
Middle(a) ==
  /\ plan' \in [Actors -> PlanType] /\ pc' \in [Actors -> Place]
  /\ \A b \in Actors \ {a} : pc'[b] = pc[b] /\ plan'[b] = plan[b]

LEMMA Thrown ==
  ASSUME Inv, NEW a \in Runners, pc[a] \in InPlan, Throw(a), held' = held, Grows
  PROVE  Middle(a) /\ Actor(a)'
<1> DEFINE r == plan[a].run
           h == held[a][r]
<1>1. /\ a \in Actors /\ a \notin Users /\ r \in Runs /\ Holds(a, r)
      /\ h \in RowType /\ Good(r, h) /\ h.status \in Live /\ h.step \in Steps
  BY InTheStep
<1>2. PICK q : q = r
  OBVIOUS
<1>3. PICK x : x = Fail(h, h.step)
  OBVIOUS
<1>4. x \in RowType /\ x.state = [h.state EXCEPT ![h.step] = "failed"] /\ x.status = "failed" /\ x.due = "never"
  BY <1>1, <1>3, FailIs
<1>5. Good(q, x)
  BY <1>1, <1>2, <1>4, GoodMoves DEF Earned, Marks, Live
<1>6. Good(q, x)'
  BY <1>1, <1>2, <1>4, <1>5, GoodStays DEF RowType
<1>7. Decide(a, q, "write", x)
  BY <1>2, <1>3 DEF Throw
<1>8. /\ Middle(a) /\ pc'[a] = "write" /\ plan'[a] = [run |-> q, row |-> x, keep |-> FALSE, again |-> FALSE]
  BY <1>1, <1>2, <1>4, <1>7, DecideTyped DEF Middle, InPlan, Inv
<1>9. Actor(a)'
  BY <1>1, <1>2, <1>4, <1>6, <1>8, Ready
<1> QED
  BY <1>8, <1>9

LEMMA Readied ==
  ASSUME Inv, NEW a \in Runners, pc[a] \in {"change", "lookup", "insert"}, Go(a, "write"),
         UNCHANGED <<held, plan>>, Grows,
         pc[a] # "change" => emails'[plan[a].run][held[a][plan[a].run].step] > 0
  PROVE  Middle(a) /\ Actor(a)'
<1> DEFINE h == held[a][plan[a].run]
<1>1. PICK r : r = plan[a].run
  OBVIOUS
<1>2. PICK x : x = plan[a].row
  OBVIOUS
<1>3. PICK t : t = held[a][r].step
  OBVIOUS
<1>4. /\ a \in Actors /\ a \notin Users /\ r \in Runs /\ Holds(a, r) /\ t \in Steps /\ x \in RowType
      /\ pc[a] = "change" => Good(r, x)
      /\ pc[a] \in {"lookup", "insert"} => GoodBut(r, x, t)
      /\ ~plan[a].keep /\ ~plan[a].again
  BY <1>1, <1>2, <1>3, InTheStep DEF InPlan
<1>5. Good(r, x)'
  <2>1. CASE pc[a] = "change"
    BY <1>4, <2>1, GoodStays DEF RowType
  <2>2. CASE pc[a] \in {"lookup", "insert"}
    <3>1. GoodBut(r, x, t)'
      BY <1>4, <2>2, GoodButStays
    <3>2. emails'[r][t] > 0
      BY <1>1, <1>3, <2>2
    <3> QED
      BY <3>1, <3>2 DEF GoodBut, Good, HonestSteps
  <2> QED
    BY <2>1, <2>2
<1>6. Middle(a) /\ pc'[a] = "write"
  BY <1>4 DEF Inv, TypeOK, Middle, PlanType, Place, Go
<1>7. Actor(a)'
  BY <1>1, <1>2, <1>4, <1>5, <1>6, Ready
<1> QED
  BY <1>6, <1>7

\* A step in the middle that touches no row, email or event.
LEMMA MiddleKeeps ==
  ASSUME Inv, NEW a \in Runners, pc[a] \in InPlan, Middle(a), Actor(a)',
         UNCHANGED <<automation, row, emails, held, known, happened, unheard, crowded, contended>>,
         contact' \in {"subscribed", "unsubscribed", "gone"}, spent' \in [{"fault", "change"} -> Nat]
  PROVE  Inv'
<1>1. a \in Actors /\ a \notin Events /\ pc[a] # "done"
  BY InTheStep
<1>2. UNCHANGED <<auto, flow, desk>>
  BY DEF automation
<1>3. TypeOK'
  BY <1>2 DEF Middle, Inv, TypeOK, PlanType, Place
<1>4. Quiet(a) /\ \A r \in Runs : ~Holds(a, r) => held'[a][r] = Absent
  BY <1>2 DEF Quiet, Middle, Holds
<1> QED
  BY <1>1, <1>3, <1>4, QuietMoves

LEMMA ChangeKeeps ==
  ASSUME Inv, NEW a \in Runners, Change(a)
  PROVE  Inv'
<1>1. /\ pc[a] = "change" /\ held' = held
      /\ UNCHANGED <<automation, row, emails, known, happened, unheard, crowded, contended, spent>>
      /\ Throw(a) \/ (Go(a, "write") /\ UNCHANGED plan)
  BY DEF Change
<1>2. contact' \in {"subscribed", "unsubscribed", "gone"}
  BY DEF Change, Inv, TypeOK
<1>3. Grows
  BY <1>1 DEF Grows
<1>4. Middle(a) /\ Actor(a)'
  BY <1>1, <1>3, Thrown, Readied DEF InPlan
<1> QED
  BY <1>1, <1>2, <1>4, MiddleKeeps DEF InPlan, Inv, TypeOK

LEMMA LookupKeeps ==
  ASSUME Inv, NEW a \in Runners, Lookup(a)
  PROVE  Inv'
<1> DEFINE r == plan[a].run
           t == held[a][r].step
<1>1. /\ pc[a] = "lookup" /\ held' = held
      /\ UNCHANGED <<automation, contact, row, emails, known, happened, unheard, crowded, contended, spent>>
      /\ \/ emails[r][t] > 0 /\ Go(a, "write") /\ UNCHANGED plan
         \/ Throw(a)
         \/ Go(a, "insert") /\ UNCHANGED plan
  BY DEF Lookup
<1>2. Grows
  BY <1>1 DEF Grows
<1>3. Middle(a) /\ Actor(a)'
  <2>1. CASE emails[r][t] > 0 /\ Go(a, "write") /\ UNCHANGED plan
    <3>1. emails'[r][t] > 0
      BY <1>1, <2>1
    <3> QED
      BY <1>1, <1>2, <2>1, <3>1, Readied
  <2>2. CASE Throw(a)
    BY <1>1, <1>2, <2>2, Thrown DEF InPlan
  <2>3. CASE Go(a, "insert") /\ UNCHANGED plan
    <3>1. Middle(a) /\ pc'[a] = "insert"
      BY <1>1, <2>3, RunnerIs DEF Inv, TypeOK, Middle, PlanType, Place, Go
    <3>2. PICK q : q = r
      OBVIOUS
    <3>3. PICK x : x = plan[a].row
      OBVIOUS
    <3>4. PICK u : u = t
      OBVIOUS
    <3>5. /\ a \in Actors /\ a \notin Users /\ q \in Runs /\ Holds(a, q) /\ GoodBut(q, x, u)
           /\ ~plan[a].keep /\ ~plan[a].again
      BY <1>1, <3>2, <3>3, <3>4, InTheStep DEF InPlan
    <3>6. Snapshots(a)'
      BY <1>1, <1>2, <3>5, SnapshotsStay DEF Inv, Actor
    <3>7. GoodBut(q, x, u)'
      BY <1>2, <3>5, GoodButStays
    <3>8. plan'[a].run = q /\ plan'[a].row = x /\ held'[a][q].step = u
           /\ ~plan'[a].keep /\ ~plan'[a].again /\ Holds(a, q)'
      BY <1>1, <2>3, <3>2, <3>3, <3>4, <3>5 DEF Holds
    <3>9. GoodBut(q, plan[a].row, held[a][q].step)'
      BY <3>7, <3>8 DEF GoodBut, Listed, Shape
    <3>10. Planned(a)'
      BY <3>1, <3>5, <3>8, <3>9 DEF Planned
    <3> QED
      BY <3>1, <3>6, <3>10 DEF Actor
  <2> QED
    BY <1>1, <2>1, <2>2, <2>3
<1> QED
  BY <1>1, <1>3, MiddleKeeps DEF InPlan, Inv, TypeOK

LEMMA InsertKeeps ==
  ASSUME Inv, NEW a \in Runners, Insert(a)
  PROVE  Inv'
<1> DEFINE r == plan[a].run
           t == held[a][r].step
<1>1. /\ pc[a] = "insert" /\ held' = held
      /\ UNCHANGED <<automation, contact, row, known, happened, unheard, crowded, contended, spent>>
  BY DEF Insert
<1>2. /\ a \in Actors /\ a \notin Events /\ r \in Runs /\ t \in Steps /\ pc[a] # "done"
  BY <1>1, InTheStep DEF InPlan
<1>3. CASE emails[r][t] > 0
  <2>1. Throw(a) /\ UNCHANGED emails
    BY <1>3 DEF Insert
  <2>2. Grows
    BY <1>1, <2>1 DEF Grows
  <2> QED
    BY <1>1, <2>1, <2>2, Thrown, MiddleKeeps DEF InPlan, Inv, TypeOK
<1>4. CASE ~ (emails[r][t] > 0)
  <2>1. /\ emails' = [emails EXCEPT ![r][t] = @ + 1]
        /\ Throw(a) \/ (Go(a, "write") /\ UNCHANGED plan)
    BY <1>4 DEF Insert
  <2>2. emails \in [Runs -> [Steps -> Nat]]
    BY DEF Inv, TypeOK
  <2>3. /\ emails' \in [Runs -> [Steps -> Nat]]
        /\ \A q \in Runs, s \in Steps :
             emails'[q][s] = IF q = r /\ s = t THEN emails[q][s] + 1 ELSE emails[q][s]
    BY <1>2, <2>1, <2>2
  <2>4. Grows
    <3> SUFFICES ASSUME NEW q \in Runs, NEW s \in Steps
                 PROVE  /\ emails[q][s] > 0 => emails'[q][s] > 0
                        /\ happened[q][s] # "never" => happened'[q][s] # "never"
      BY DEF Grows
    <3>1. emails[q][s] \in Nat
      BY ONLY <2>2
    <3>2. emails'[q][s] = emails[q][s] \/ emails'[q][s] = emails[q][s] + 1
      BY ONLY <2>3
    <3>3. happened' = happened
      BY <1>1
    <3> QED
      BY ONLY <3>1, <3>2, <3>3
  <2>5. emails[r][t] = 0 /\ emails'[r][t] = 1
    BY <1>2, <1>4, <2>2, <2>3
  <2>6. OneEmailPerStep'
    BY <1>2, <2>3, <2>5 DEF Inv, OneEmailPerStep
  <2>7. Middle(a) /\ Actor(a)'
    <3>1. CASE Throw(a)
      BY <1>1, <2>4, <3>1, Thrown DEF InPlan
    <3>2. CASE Go(a, "write") /\ UNCHANGED plan
      <4>1. emails'[r][t] > 0
        BY <2>5
      <4> QED
        BY <1>1, <2>4, <3>2, <4>1, Readied
    <3> QED
      BY <2>1, <3>1, <3>2
  <2>8. TypeOK'
    BY <1>1, <2>3, <2>7 DEF Middle, Inv, TypeOK, PlanType, Place, automation
  <2>9. Rows'
    <3> SUFFICES ASSUME NEW q \in Runs PROVE Good(q, row[q])'
      BY DEF Rows
    <3>1. PICK x : x = row[q]
      OBVIOUS
    <3>2. x \in RowType /\ Good(q, x)
      BY <3>1 DEF Inv, TypeOK, Rows
    <3>3. Good(q, x)'
      BY <2>4, <3>2, GoodStays DEF RowType
    <3> QED
      BY <1>1, <3>1, <3>3 DEF Good, HonestSteps, Listed, Shape
  <2>10. UNCHANGED <<auto, flow>> /\ \A b \in Actors \ {a} : pc'[b] = pc[b] /\ held'[b] = held[b] /\ plan'[b] = plan[b]
    BY <1>1, <2>7 DEF Middle, automation
  <2>11. Unborn(a)
    BY <1>1, <1>2 DEF Unborn, Holds
  <2> QED
    BY <1>1, <1>2, <2>4, <2>6, <2>7, <2>8, <2>9, <2>10, <2>11, Moves
<1> QED
  BY <1>3, <1>4

LEMMA InterruptKeeps ==
  ASSUME Inv, NEW a \in Actors, Interrupt(a)
  PROVE  Inv'
<1>1. /\ pc[a] # "done" /\ Abandon(a) /\ Spend("fault")
      /\ UNCHANGED <<automation, contact, row, emails, known, happened, unheard, crowded, contended>>
  BY DEF Interrupt
<1>2. /\ held' \in [Actors -> [Runs -> RowType]] /\ plan' \in [Actors -> PlanType]
      /\ pc' \in [Actors -> Place] /\ pc'[a] \in {"idle", "failed"} /\ (pc'[a] = "idle" => a \in Runners)
      /\ \A r \in Runs : held'[a][r] = Absent
      /\ \A b \in Actors \ {a} : pc'[b] = pc[b] /\ held'[b] = held[b] /\ plan'[b] = plan[b]
  BY <1>1, AbandonTyped DEF Inv
<1>3. spent' \in [{"fault", "change"} -> Nat]
  BY <1>1 DEF Spend, Inv, TypeOK
<1>4. TypeOK'
  BY <1>1, <1>2, <1>3 DEF Inv, TypeOK, PlanType, Place, automation
<1>5. Snapshots(a)'
  <2> SUFFICES ASSUME NEW r \in Runs PROVE Good(r, held[a][r])'
    BY <1>2 DEF Snapshots, Holds
  <2> QED
    BY <1>1, <1>2, NothingGood DEF Good, HonestSteps, Listed, Shape
<1>6. Actor(a)'
  BY <1>2, <1>5 DEF Actor, Planned, InPlan
<1>7. a \in Events => Awake(a)'
  BY <1>2, AutomationAssumption DEF Awake, Missing
<1>8. Quiet(a)
  BY <1>1, <1>2 DEF Quiet, automation
<1> QED
  BY <1>1, <1>2, <1>4, <1>6, <1>7, <1>8, QuietMoves

-----------------------------------------------------------------------------
(* A step of an event *)

LEMMA EventIs ==
  ASSUME NEW e \in Events
  PROVE  e \in Actors /\ e \notin Runners /\ e \notin Users
BY AutomationAssumption DEF Actors

\* An event moves on without listing or deciding anything.
LEMMA Strolls ==
  ASSUME Inv, NEW e \in Events, NEW where \in Place \ InPlan, Go(e, where), UNCHANGED <<held, plan>>
  PROVE  /\ pc' \in [Actors -> Place] /\ pc'[e] = where /\ \A b \in Actors \ {e} : pc'[b] = pc[b]
         /\ UNCHANGED <<emails, happened>> => Actor(e)'
<1>1. e \in Actors
  BY EventIs
<1>2. pc' \in [Actors -> Place] /\ pc'[e] = where /\ \A b \in Actors \ {e} : pc'[b] = pc[b]
  BY <1>1 DEF Go, Inv, TypeOK, Place
<1>3. ASSUME UNCHANGED <<emails, happened>> PROVE Actor(e)'
  <2>1. Grows
    BY <1>3 DEF Grows
  <2>2. Snapshots(e)'
    BY <1>1, <2>1, SnapshotsStay DEF Inv, Actor
  <2> QED
    BY <1>2, <2>2 DEF Actor, Planned
<1> QED
  BY <1>2, <1>3

LEMMA RecordKeeps ==
  ASSUME Inv, NEW e \in Events, Record(e)
  PROVE  Inv'
<1> DEFINE resolved == contact # "gone"
           waited == {r \in Runs : /\ resolved /\ e \in Wakes /\ row[r].contact
                                   /\ row[r].status = "waiting" /\ AwaitsEvent(row[r])}
<1>1. /\ e \in Actors /\ pc[e] = "new"
      /\ UNCHANGED <<automation, contact, row, emails, held, plan, happened, crowded, contended, spent>>
      /\ known' = [known EXCEPT ![e] = resolved] /\ unheard' = [unheard EXCEPT ![e] = waited]
      /\ Go(e, IF resolved THEN "list" ELSE "find")
  BY EventIs DEF Record
<1>2. unheard' \in [Events -> SUBSET Runs] /\ unheard'[e] = waited /\ \A d \in Events \ {e} : unheard'[d] = unheard[d]
  <2>1. unheard \in [Events -> SUBSET Runs] /\ waited \in SUBSET Runs
    BY DEF Inv, TypeOK
  <2> HIDE DEF waited
  <2> QED
    BY <1>1, <2>1
<1>3. PICK where \in {"list", "find"} : where = IF resolved THEN "list" ELSE "find"
  OBVIOUS
<1>4. /\ pc' \in [Actors -> Place] /\ pc'[e] = where /\ \A b \in Actors \ {e} : pc'[b] = pc[b]
      /\ Actor(e)'
  BY <1>1, <1>3, Strolls DEF Place, InPlan
<1>5. known' \in [Events -> BOOLEAN]
  BY <1>1 DEF Inv, TypeOK
<1>6. TypeOK'
  BY <1>1, <1>2, <1>4, <1>5 DEF Inv, TypeOK, Place, automation
<1>7. Awake(e)'
  BY <1>1, <1>2, <1>3, <1>4 DEF Inv, Awake, Missing, AwaitsEvent, automation
<1>8. Grows /\ OneEmailPerStep' /\ Unborn(e)
  BY <1>1 DEF Grows, Inv, OneEmailPerStep, Unborn, Holds
<1>9. Rows'
  BY <1>1 DEF Inv, Rows, Good, HonestSteps, Listed, Shape
<1>10. UNCHANGED <<auto, flow, row>> /\ \A b \in Actors \ {e} : pc'[b] = pc[b] /\ held'[b] = held[b] /\ plan'[b] = plan[b]
  BY <1>1, <1>4 DEF automation
<1> QED
  BY <1>1, <1>2, <1>4, <1>6, <1>7, <1>8, <1>9, <1>10, Moves

LEMMA ListWaitingKeeps ==
  ASSUME Inv, NEW e \in Events, ListWaiting(e)
  PROVE  Inv'
<1> DEFINE waiting == {r \in Runs : row[r].status = "waiting" /\ row[r].contact}
<1>0. PICK batch \in SUBSET waiting : /\ Take(e, batch) /\ Go(e, IF batch = {} THEN "find" ELSE "next")
                                      /\ crowded' = [crowded EXCEPT ![e] = waiting \ batch]
  BY DEF ListWaiting
<1>1. /\ e \in Actors /\ e \notin Runners /\ pc[e] = "list"
      /\ UNCHANGED <<auto, flow, desk, contact, row, emails, plan, known, happened, unheard, spent>>
  BY EventIs DEF ListWaiting, automation
<1>2. /\ held' \in [Actors -> [Runs -> RowType]] /\ contended' \subseteq Runs
      /\ \A b \in Actors \ {e} : held'[b] = held[b]
  BY <1>0, <1>1, TakeTyped DEF Inv
<1>3. /\ Snapshots(e)' /\ \A r \in Runs : row[r] = Absent => held'[e][r] = Absent
      /\ \A r \in batch : Holds(e, r)' /\ held'[e][r] = row[r]
  BY <1>0, <1>1, Listing DEF Live
<1>4. /\ pc' \in [Actors -> Place] /\ pc'[e] = (IF batch = {} THEN "find" ELSE "next")
      /\ \A b \in Actors \ {e} : pc'[b] = pc[b]
  BY <1>0, <1>1 DEF Go, Inv, TypeOK, Place
<1>5. Actor(e)'
  BY <1>3, <1>4 DEF Actor, Planned, InPlan
<1>6. /\ crowded' \in [Events -> SUBSET Runs] /\ crowded'[e] = waiting \ batch
      /\ \A d \in Events : d # e => crowded'[d] = crowded[d]
  BY <1>0 DEF Inv, TypeOK
<1>7. TypeOK'
  BY <1>1, <1>2, <1>4, <1>6 DEF Inv, TypeOK, Place
<1>8. Quiet(e)
  BY <1>1, <1>2, <1>4, <1>6 DEF Quiet
<1>9. \A r \in unheard[e] : e \in Wakes /\ r \in waiting /\ AwaitsEvent(row[r])
  BY <1>1 DEF Inv, Awake, Missing, TypeOK
<1>10. \A r \in Missing(e)' : e \in Wakes /\ r \in batch /\ AwaitsEvent(row[r])
  BY <1>1, <1>6, <1>9 DEF Missing
<1>11. Awake(e)'
  BY <1>1, <1>3, <1>4, <1>10 DEF Awake, AwaitsEvent
<1> QED
  BY <1>1, <1>3, <1>5, <1>7, <1>8, <1>11, QuietMoves

LEMMA FindEnabledKeeps ==
  ASSUME Inv, NEW e \in Events, FindEnabled(e) \/ CheckEnabled(e)
  PROVE  Inv'
<1>1. /\ e \in Actors /\ pc[e] \in {"find", "check"}
      /\ UNCHANGED <<automation, contact, row, emails, held, plan, known, happened, unheard, crowded, contended, spent>>
      /\ \E where \in {"check", "create", "done", "failed"} : Go(e, where)
  BY EventIs DEF FindEnabled, CheckEnabled
<1>2. PICK where \in {"check", "create", "done", "failed"} : Go(e, where)
  BY <1>1
<1>3. pc' \in [Actors -> Place] /\ pc'[e] = where /\ (\A b \in Actors \ {e} : pc'[b] = pc[b]) /\ Actor(e)'
  BY <1>1, <1>2, Strolls DEF Place, InPlan
<1>4. TypeOK'
  BY <1>1, <1>3 DEF Inv, TypeOK, Place, automation
<1>5. Awake(e)'
  BY <1>1, <1>3 DEF Inv, Awake, Missing
<1>6. Quiet(e) /\ \A r \in Runs : ~Holds(e, r) => held'[e][r] = Absent
  BY <1>1, <1>3 DEF Quiet, automation, Holds
<1> QED
  BY <1>1, <1>3, <1>4, <1>5, <1>6, QuietMoves

LEMMA CreateKeeps ==
  ASSUME Inv, NEW e \in Events, Create(e)
  PROVE  Inv'
<1>1. /\ e \in Actors /\ pc[e] = "create"
      /\ UNCHANGED <<auto, flow, desk, contact, emails, held, plan, known, happened, unheard, crowded, contended, spent>>
  BY EventIs DEF Create, automation
<1>2. Missing(e) = {}
  BY <1>1 DEF Inv, Awake
<1>3. CASE auto = "deleted"
  <2>1. Go(e, "failed") /\ UNCHANGED row
    BY <1>3 DEF Create
  <2>2. pc' \in [Actors -> Place] /\ pc'[e] = "failed" /\ (\A b \in Actors \ {e} : pc'[b] = pc[b]) /\ Actor(e)'
    BY <1>1, <2>1, Strolls DEF Place, InPlan
  <2>3. TypeOK'
    BY <1>1, <2>1, <2>2 DEF Inv, TypeOK, Place
  <2>4. Quiet(e) /\ Awake(e)' /\ \A r \in Runs : ~Holds(e, r) => held'[e][r] = Absent
    BY <1>1, <1>2, <2>1, <2>2 DEF Quiet, Awake, Holds
  <2> QED
    BY <1>1, <2>2, <2>3, <2>4, QuietMoves
<1>4. CASE auto # "deleted"
  <2> DEFINE new == [Absent EXCEPT !.status = "queued", !.step = 1, !.due = "now", !.contact = known[e]]
  <2>1. Go(e, "done") /\ row' = [row EXCEPT ![e] = new]
    BY <1>4 DEF Create
  <2>2. pc' \in [Actors -> Place] /\ pc'[e] = "done" /\ (\A b \in Actors \ {e} : pc'[b] = pc[b]) /\ Actor(e)'
    BY <1>1, <2>1, Strolls DEF Place, InPlan
  <2>3. /\ new \in RowType /\ new.status = "queued" /\ new.step = 1 /\ new.due = "now"
        /\ \A s \in Steps : new.state[s] = "none"
    BY AbsentTyped, AutomationAssumption DEF Absent, RowType, Inv, TypeOK
  <2> HIDE DEF new
  <2>4. row' \in [Runs -> RowType] /\ \A q \in Runs : row'[q] = IF q = e THEN new ELSE row[q]
    BY <2>1, <2>3 DEF Inv, TypeOK
  <2>5. Grows
    BY <1>1 DEF Grows
  <2>6. \A q \in Runs : Good(q, new)
    BY <2>3, AutomationAssumption DEF Good, HonestSteps, Listed, Shape, Live
  <2>7. Rows'
    <3> SUFFICES ASSUME NEW q \in Runs PROVE Good(q, row[q])'
      BY DEF Rows
    <3>1. PICK x : x = row'[q]
      OBVIOUS
    <3>2. x \in RowType /\ Good(q, x)
      BY <2>3, <2>4, <2>6, <3>1 DEF Inv, Rows, TypeOK
    <3>3. Good(q, x)'
      BY <2>5, <3>2, GoodStays DEF RowType
    <3> QED
      BY <3>1, <3>3 DEF Good, HonestSteps, Listed, Shape
  <2>8. TypeOK'
    BY <1>1, <2>2, <2>4 DEF Inv, TypeOK, Place
  <2>9. OneEmailPerStep' /\ Awake(e)'
    BY <1>1, <1>2, <2>2 DEF Inv, OneEmailPerStep, Awake, Missing
  <2>10. ASSUME NEW d \in Events, NEW r \in Runs, pc'[d] # "failed", r \in unheard'[d], r \notin crowded'[d]
         PROVE  row'[r] = row[r]
    <3>1. CASE r # e
      BY <2>4, <3>1
    <3>2. CASE r = e
      <4>1. row[r].status = "absent" /\ ~Holds(d, r)
        BY <1>1, <3>2, EventIs DEF Inv, Born, Absent
      <4>2. r \in Missing(d) /\ d # e /\ pc'[d] = pc[d] /\ pc[d] \in Place
        BY <1>1, <1>2, <2>2, <2>10, EventIs DEF Inv, TypeOK, Place, Missing
      <4> QED
        BY <2>10, <4>1, <4>2 DEF Inv, Awake, Place
    <3> QED
      BY <3>1, <3>2
  <2>11. Unborn(e)
    BY <1>1, <2>2, <2>4 DEF Unborn, Holds
  <2> QED
    BY <1>1, <2>2, <2>5, <2>7, <2>8, <2>9, <2>10, <2>11, Moves
<1> QED
  BY <1>3, <1>4

\* An actor lets go of the run it has dealt with.
LEMMA LetGo ==
  ASSUME Inv, Grows, NEW a \in Actors, NEW r \in Runs, Release(a, r)
  PROVE  Actor(a)' /\ \A q \in Runs : ~Holds(a, q) => held'[a][q] = Absent
<1>1. /\ held' \in [Actors -> [Runs -> RowType]] /\ pc'[a] \in {"next", "idle", "done", "find"}
      /\ held'[a][r] = Absent /\ \A q \in Runs \ {r} : held'[a][q] = held[a][q]
  BY ReleaseTyped DEF Inv
<1>2. ASSUME NEW q \in Runs
      PROVE  /\ Good(q, held[a][q])'
             /\ Holds(a, q)' => held'[a][q].status \in Live /\ (a \in Runners => held'[a][q].due = "now")
  <2>1. PICK x : x = held'[a][q]
    OBVIOUS
  <2>2. x = Absent \/ x = held[a][q]
    BY <1>1, <2>1
  <2>3. x \in RowType /\ Good(q, x) /\ (x # Absent => x.status \in Live /\ (a \in Runners => x.due = "now"))
    BY <1>1, <2>1, <2>2, NothingGood DEF Inv, Actor, Snapshots, Holds
  <2>4. Good(q, x)'
    BY <2>3, GoodStays DEF RowType
  <2> QED
    BY <2>1, <2>3, <2>4 DEF Holds, Good, HonestSteps, Listed, Shape
<1>3. Snapshots(a)'
  BY <1>2 DEF Snapshots
<1> QED
  BY <1>1, <1>3 DEF Actor, Planned, InPlan, Holds

LEMMA ResumeKeeps ==
  ASSUME Inv, NEW e \in Events, NEW r \in Runs, Resume(e, r)
  PROVE  Inv'
<1> DEFINE h == held[e][r]
           s == h.step
<1>1. /\ e \in Actors /\ e \notin Users /\ pc[e] = "next" /\ Holds(e, r)
      /\ UNCHANGED <<auto, flow, desk, contact, row, emails, known, unheard, crowded, contended, spent>>
  BY EventIs DEF Resume, automation
<1>2. h \in RowType /\ Good(r, h) /\ h.status \in Live /\ s \in Steps
  BY <1>1, InHand
<1>3. CASE e \in Wakes /\ AwaitsEvent(h)
  <2>1. /\ Decide(e, r, "write", After(h, s, "completed", "default"))
        /\ happened' = [happened EXCEPT ![r][s] = "now"] /\ held' = held
    BY <1>3 DEF Resume
  <2>2. Kind[s] = "wait_for_event"
    BY <1>3 DEF AwaitsEvent
  <2>3. /\ happened' \in [Runs -> [Steps -> {"never", "before", "now"}]]
        /\ \A q \in Runs, t \in Steps : happened'[q][t] = IF q = r /\ t = s THEN "now" ELSE happened[q][t]
    BY <1>2, <2>1 DEF Inv, TypeOK
  <2>4. Grows
    BY <1>1, <2>3 DEF Grows
  <2>5. PICK x : x = After(h, s, "completed", "default")
    OBVIOUS
  <2>6. /\ x \in RowType /\ x.state = [h.state EXCEPT ![s] = "completed"]
        /\ \/ x.status = "completed" /\ x.due = "never"
           \/ x.status = "queued" /\ x.due = "now" /\ x.step \in Steps
    <3>1. TypeOK /\ "completed" \in Marks /\ "default" \in Branches
      BY DEF Inv, Marks, Branches
    <3> QED
      BY <1>2, <2>5, <3>1, AfterIs
  <2>7. \A t \in Steps : x.state[t] = IF t = s THEN "completed" ELSE h.state[t]
    BY <1>2, <2>6 DEF RowType
  <2>8. HonestSteps(r, x)'
    BY <1>1, <1>2, <2>2, <2>3, <2>7 DEF Good, HonestSteps
  <2>9. Listed(x)' /\ Shape(r, x)'
    BY <1>2, <2>6, <2>7 DEF Good, Listed, Shape, Live
  <2>10. /\ plan' \in [Actors -> PlanType] /\ pc' \in [Actors -> Place]
         /\ plan'[e] = [run |-> r, row |-> x, keep |-> FALSE, again |-> FALSE] /\ pc'[e] = "write"
         /\ \A b \in Actors \ {e} : plan'[b] = plan[b] /\ pc'[b] = pc[b]
    BY <1>1, <2>1, <2>5, <2>6, DecideTyped DEF Inv, InPlan
  <2>11. Good(r, x)'
    BY <2>8, <2>9 DEF Good
  <2>12. Actor(e)'
    BY <1>1, <2>1, <2>4, <2>10, <2>11, Ready
  <2>13. TypeOK'
    BY <1>1, <2>1, <2>3, <2>10 DEF Inv, TypeOK, PlanType, Place
  <2>14. Awake(e)'
    BY <1>1, <2>1, <2>10 DEF Inv, Awake, Missing, AwaitsEvent, Holds
  <2>15. Rows'
    <3> SUFFICES ASSUME NEW q \in Runs PROVE Good(q, row[q])'
      BY DEF Rows
    <3>1. PICK y : y = row[q]
      OBVIOUS
    <3>2. y \in RowType /\ Good(q, y)
      BY <3>1 DEF Inv, TypeOK, Rows
    <3>3. Good(q, y)'
      BY <2>4, <3>2, GoodStays DEF RowType
    <3> QED
      BY <1>1, <3>1, <3>3 DEF Good, HonestSteps, Listed, Shape
  <2>16. OneEmailPerStep' /\ Unborn(e)
    BY <1>1, <2>1 DEF Inv, OneEmailPerStep, Unborn, Holds
  <2> QED
    BY <1>1, <2>1, <2>4, <2>10, <2>12, <2>13, <2>14, <2>15, <2>16, Moves
<1>4. CASE ~ (e \in Wakes /\ AwaitsEvent(h))
  <2>1. Release(e, r) /\ UNCHANGED happened
    BY <1>4 DEF Resume
  <2>2. /\ held' \in [Actors -> [Runs -> RowType]] /\ plan' \in [Actors -> PlanType] /\ pc' \in [Actors -> Place]
        /\ pc'[e] = "next" \/ (pc'[e] = Resting(e) /\ \A q \in Runs \ {r} : ~Holds(e, q))
        /\ held'[e][r] = Absent /\ \A q \in Runs \ {r} : held'[e][q] = held[e][q]
        /\ \A b \in Actors \ {e} : pc'[b] = pc[b] /\ held'[b] = held[b] /\ plan'[b] = plan[b]
    BY <1>1, <2>1, ReleaseTyped DEF Inv
  <2>3. Grows
    BY <1>1, <2>1 DEF Grows
  <2>4. Actor(e)' /\ \A q \in Runs : ~Holds(e, q) => held'[e][q] = Absent
    BY <1>1, <2>1, <2>3, LetGo
  <2>5. \A q \in Missing(e) : q # r /\ q \in Runs /\ e \in Wakes /\ Holds(e, q) /\ AwaitsEvent(held[e][q]) /\ row[q].step = held[e][q].step
    BY <1>1, <1>4 DEF Inv, Awake, Missing, TypeOK
  <2>6. Awake(e)'
    <3>1. CASE pc'[e] = "next"
      BY <1>1, <2>2, <2>5, <3>1 DEF Awake, Missing, AwaitsEvent, Holds
    <3>2. CASE pc'[e] = "find" /\ \A q \in Runs \ {r} : ~Holds(e, q)
      BY <1>1, <2>5, <3>2 DEF Awake, Missing
    <3> QED
      BY <2>2, <3>1, <3>2, EventIs DEF Resting
  <2>7. TypeOK'
    BY <1>1, <2>1, <2>2 DEF Inv, TypeOK, PlanType, Place
  <2>8. Quiet(e)
    BY <1>1, <2>1, <2>2 DEF Quiet
  <2> QED
    BY <1>1, <2>4, <2>6, <2>7, <2>8, QuietMoves
<1> QED
  BY <1>3, <1>4

-----------------------------------------------------------------------------
(* Writing, cancelling *)

LEMMA AtWrite ==
  ASSUME Inv, NEW a \in Actors, pc[a] = "write"
  PROVE  LET r == plan[a].run u == plan[a].row IN
         /\ r \in Runs /\ Holds(a, r) /\ u \in RowType /\ Good(r, u)
         /\ plan[a].keep \/ a \in Users => u.status \notin Live
<1>1. plan[a].row \in RowType /\ Actor(a)
  BY DEF Inv, TypeOK
<1> QED
  BY <1>1 DEF Actor, Planned, InPlan

\* Where a release leaves an event.
LEMMA EventLetsGo ==
  ASSUME Inv, NEW e \in Events, NEW r \in Runs, pc[e] \in {"next", "write"}, Release(e, r),
         UNCHANGED <<auto, flow, crowded>>, unheard'[e] = unheard[e] \ {r},
         \A q \in Runs \ {r} : row'[q] = row[q]
  PROVE  Awake(e)'
<1>1. /\ pc'[e] = "next" \/ (pc'[e] = Resting(e) /\ \A q \in Runs \ {r} : ~Holds(e, q))
      /\ \A q \in Runs \ {r} : held'[e][q] = held[e][q]
  BY EventIs, ReleaseTyped DEF Inv
<1>2. \A q \in Missing(e)' : /\ q # r /\ q \in Runs /\ e \in Wakes /\ Holds(e, q)
                              /\ AwaitsEvent(held[e][q]) /\ row[q].step = held[e][q].step
  BY DEF Inv, Awake, Missing, TypeOK
<1>3. CASE pc'[e] = "next"
  BY <1>1, <1>2, <1>3 DEF Awake, AwaitsEvent, Holds
<1>4. CASE pc'[e] = "find" /\ \A q \in Runs \ {r} : ~Holds(e, q)
  BY <1>2, <1>4 DEF Awake
<1> QED
  BY <1>1, <1>3, <1>4, EventIs DEF Resting

\* What an update leaves behind: a good row, unless the run is deleted.
\* What an update changes.
LEMMA UpdateIs ==
  ASSUME Inv, NEW a \in Actors, pc[a] = "write", Update(a),
         NEW r, r = plan[a].run, NEW u, u = plan[a].row
  PROVE  /\ \A q \in Runs \ {r} : row'[q] = row[q] /\ happened'[q] = happened[q]
         /\ row[r].status = "deleted" => row' = row /\ happened' = happened
         /\ row[r].status # "deleted" =>
              /\ row'[r].status = u.status /\ row'[r].due = u.due
              /\ row'[r].state = IF plan[a].keep THEN row[r].state ELSE u.state
<1>1. r \in Runs /\ u \in RowType /\ row \in [Runs -> RowType] /\ happened \in [Runs -> [Steps -> {"never", "before", "now"}]]
  BY AtWrite DEF Inv, TypeOK
<1>2. PICK new : new = [u EXCEPT !.state = IF plan[a].keep THEN row[r].state ELSE @, !.contact = @ /\ row[r].contact]
  OBVIOUS
<1>3. row' = row \/ row' = [row EXCEPT ![r] = new]
  BY <1>2 DEF Update
<1>4. happened' = happened \/ happened' = [happened EXCEPT ![r][u.step] = "before"]
  BY DEF Update
<1>5. row[r].status = "deleted" => row' = row /\ happened' = happened
  BY DEF Update
<1>6. row[r].status # "deleted" => row'[r] = new
  BY <1>1, <1>2 DEF Update
<1>7. new.status = u.status /\ new.due = u.due /\ new.state = IF plan[a].keep THEN row[r].state ELSE u.state
  BY <1>1, <1>2 DEF RowType
<1> QED
  BY <1>1, <1>3, <1>4, <1>5, <1>6, <1>7

LEMMA UpdateMakes ==
  ASSUME Inv, NEW a \in Actors, pc[a] = "write", Update(a), UNCHANGED emails
  PROVE  /\ row' \in [Runs -> RowType] /\ happened' \in [Runs -> [Steps -> {"never", "before", "now"}]]
         /\ unheard' \in [Events -> SUBSET Runs]
         /\ Grows /\ Rows' /\ \A q \in Runs \ {plan[a].run} : row'[q] = row[q]
<1> DEFINE r == plan[a].run
           u == plan[a].row
           new == [u EXCEPT !.state = IF plan[a].keep THEN row[r].state ELSE @,
                            !.contact = @ /\ row[r].contact]
<1>1. unheard' = [e \in Events |-> unheard[e] \ {r}]
  BY DEF Update
<1>2. /\ r \in Runs /\ Holds(a, r) /\ u \in RowType /\ Good(r, u)
      /\ plan[a].keep => u.status \notin Live
  BY AtWrite
<1>4. row[r] \in RowType /\ Good(r, row[r])
  BY <1>2 DEF Inv, TypeOK, Rows
<1>5. /\ new \in RowType /\ new.status = u.status /\ new.step = u.step /\ new.due = u.due
      /\ new.state = IF plan[a].keep THEN row[r].state ELSE u.state
  <2>1. plan[a].keep \in BOOLEAN
    BY DEF Inv, TypeOK
  <2>2. row[r].state \in [Steps -> Marks] /\ row[r].contact \in BOOLEAN /\ u.state \in [Steps -> Marks] /\ u.contact \in BOOLEAN
    BY <1>2, <1>4 DEF RowType
  <2>3. PICK st \in [Steps -> Marks] : st = IF plan[a].keep THEN row[r].state ELSE u.state
    BY <2>2
  <2>4. PICK c \in BOOLEAN : c = (u.contact /\ row[r].contact)
    OBVIOUS
  <2>5. new = [u EXCEPT !.state = st, !.contact = c]
    BY <1>2, <2>3, <2>4 DEF RowType
  <2> HIDE DEF new, u, r
  <2> QED
    BY <1>2, <2>3, <2>5 DEF RowType
<1>6. Good(r, new)
  <2>1. HonestSteps(r, new)
    BY <1>2, <1>4, <1>5 DEF Good, HonestSteps
  <2>2. Listed(new) /\ Shape(r, new)
    <3>1. CASE plan[a].keep
      BY <1>2, <1>5, <3>1 DEF Good, Listed, Shape, Live
    <3>2. CASE ~plan[a].keep
      BY <1>2, <1>5, <3>2 DEF Good, Listed, Shape, Live
    <3> QED
      BY <3>1, <3>2
  <2> QED
    BY <2>1, <2>2 DEF Good
<1>7. /\ happened' \in [Runs -> [Steps -> {"never", "before", "now"}]]
      /\ \A q \in Runs, t \in Steps : happened[q][t] # "never" => happened'[q][t] # "never"
  <2>1. happened \in [Runs -> [Steps -> {"never", "before", "now"}]]
    BY DEF Inv, TypeOK
  <2>2. CASE UNCHANGED happened
    BY <2>1, <2>2
  <2>3. CASE u.status = "queued" /\ happened' = [happened EXCEPT ![r][u.step] = "before"]
    <3>1. u.step \in Steps
      BY <1>2, <2>3 DEF Good, Listed
    <3> QED
      BY <1>2, <2>1, <2>3, <3>1
  <2> QED
    BY <2>2, <2>3 DEF Update
<1>3. row' = row \/ row' = [row EXCEPT ![r] = new]
  BY DEF Update
<1> HIDE DEF new, u, r
<1>8. row' \in [Runs -> RowType] /\ \A q \in Runs : row'[q] = row[q] \/ (q = r /\ row'[q] = new)
  BY <1>2, <1>5, <1>3 DEF Inv, TypeOK
<1>9. Grows
  BY <1>7 DEF Grows
<1>10. Rows'
  <2> SUFFICES ASSUME NEW q \in Runs PROVE Good(q, row[q])'
    BY DEF Rows
  <2>1. PICK y : y = row'[q]
    OBVIOUS
  <2>2. y \in RowType /\ Good(q, y)
    BY <1>5, <1>6, <1>8, <2>1 DEF Inv, TypeOK, Rows
  <2>3. Good(q, y)'
    BY <1>9, <2>2, GoodStays DEF RowType
  <2> QED
    BY <2>1, <2>3 DEF Good, HonestSteps, Listed, Shape
<1>11. unheard' \in [Events -> SUBSET Runs]
  BY <1>1 DEF Inv, TypeOK
<1> QED
  BY <1>7, <1>8, <1>9, <1>10, <1>11 DEF r

LEMMA WriteKeeps ==
  ASSUME Inv, NEW a \in Actors, Write(a)
  PROVE  Inv'
<1> DEFINE r == plan[a].run
<1>1. /\ a \notin Users /\ pc[a] = "write" /\ Update(a) /\ Release(a, r)
      /\ UNCHANGED <<auto, flow, desk, contact, emails, known, crowded, contended, spent>>
  BY DEF Write, automation
<1>2. r \in Runs /\ Holds(a, r)
  BY <1>1, AtWrite
<1>3. /\ held' \in [Actors -> [Runs -> RowType]] /\ plan' \in [Actors -> PlanType] /\ pc' \in [Actors -> Place]
      /\ \A b \in Actors \ {a} : pc'[b] = pc[b] /\ held'[b] = held[b] /\ plan'[b] = plan[b]
  BY <1>1, <1>2, ReleaseTyped DEF Inv
<1>4. /\ row' \in [Runs -> RowType] /\ happened' \in [Runs -> [Steps -> {"never", "before", "now"}]]
      /\ unheard' \in [Events -> SUBSET Runs]
      /\ Grows /\ Rows' /\ \A q \in Runs \ {r} : row'[q] = row[q]
  BY <1>1, UpdateMakes
<1>5. unheard' = [e \in Events |-> unheard[e] \ {r}]
  BY <1>1 DEF Update
<1>6. TypeOK'
  BY <1>1, <1>3, <1>4 DEF Inv, TypeOK, PlanType, Place
<1>7. Actor(a)' /\ \A q \in Runs : ~Holds(a, q) => held'[a][q] = Absent
  BY <1>1, <1>2, <1>4, LetGo
<1>8. ASSUME a \in Events PROVE Awake(a)'
  <2>1. PICK q \in Runs : q = r
    BY <1>2
  <2>2. Release(a, q) /\ unheard'[a] = unheard[a] \ {q} /\ \A p \in Runs \ {q} : row'[p] = row[p]
    BY <1>1, <1>4, <1>5, <1>8, <2>1
  <2> QED
    BY <1>1, <1>8, <2>2, EventLetsGo
<1>9. \A e \in Events : unheard'[e] \subseteq unheard[e] /\ \A q \in Runs : q \in unheard'[e] => q # r
  BY <1>5
<1>10. OneEmailPerStep'
  BY <1>1 DEF Inv, OneEmailPerStep
<1>11. Unborn(a)
  BY <1>1, <1>2, <1>4, <1>7 DEF Unborn
<1> QED
  BY <1>1, <1>3, <1>4, <1>6, <1>7, <1>8, <1>9, <1>10, <1>11, Moves

\* A runner whose update throws, whether it was made or not, fails the run next.
LEMMA WriteFailsKeeps ==
  ASSUME Inv, NEW a \in Runners, WriteFails(a)
  PROVE  Inv'
<1>1. /\ pc[a] = "write" /\ Spend("fault")
      /\ UNCHANGED <<auto, flow, desk, contact, emails, pc, held, known, crowded, contended>>
  BY DEF WriteFails, automation
<1>2. /\ a \in Actors /\ a \notin Events /\ a \notin Users
      /\ InPlan = {"change", "lookup", "insert", "write"}
  BY RunnerIs DEF InPlan
<1>3. PICK r \in Runs : r = plan[a].run /\ Holds(a, r)
  BY <1>1, <1>2, AtWrite
<1>4. PICK h \in RowType : h = held[a][r] /\ Good(r, h) /\ h.status \in Live /\ h.step \in Steps
  BY <1>2, <1>3, InHand
<1>5. PICK x : x = Fail(h, h.step)
  OBVIOUS
<1>6. x \in RowType /\ x.state = [h.state EXCEPT ![h.step] = "failed"] /\ x.status = "failed" /\ x.due = "never"
  BY <1>4, <1>5, FailIs
<1>7. Good(r, x)
  BY <1>4, <1>6, GoodMoves DEF Earned, Marks, Live
<1>8. PICK made \in BOOLEAN :
        /\ IF made THEN Update(a) ELSE UNCHANGED <<row, happened, unheard>>
        /\ plan' = [plan EXCEPT ![a] = [run |-> r, row |-> x, keep |-> FALSE, again |-> made]]
  BY <1>3, <1>4, <1>5 DEF WriteFails
<1>9. /\ plan' \in [Actors -> PlanType] /\ plan'[a] = [run |-> r, row |-> x, keep |-> FALSE, again |-> made]
      /\ \A b \in Actors \ {a} : plan'[b] = plan[b]
  <2>1. plan \in [Actors -> PlanType]
    BY DEF Inv, TypeOK, PlanType
  <2>2. [run |-> r, row |-> x, keep |-> FALSE, again |-> made] \in PlanType
    BY <1>6 DEF PlanType
  <2> QED
    BY <1>2, <1>8, <2>1, <2>2
<1>10. /\ row' \in [Runs -> RowType] /\ happened' \in [Runs -> [Steps -> {"never", "before", "now"}]]
       /\ unheard' \in [Events -> SUBSET Runs]
       /\ Grows /\ Rows' /\ \A q \in Runs \ {r} : row'[q] = row[q]
  <2>1. CASE Update(a)
    BY <1>1, <1>2, <1>3, <2>1, UpdateMakes
  <2>2. CASE UNCHANGED <<row, happened, unheard>>
    BY <1>1, <2>2 DEF Inv, TypeOK, Grows, Rows, Good, HonestSteps, Listed, Shape
  <2> QED
    BY <1>8, <2>1, <2>2
<1>11. /\ \A e \in Events : unheard'[e] \subseteq unheard[e]
       /\ \A e \in Events, q \in Runs : q \in unheard'[e] => row'[q] = row[q]
  <2>1. CASE Update(a)
    <3>1. unheard' = [e \in Events |-> unheard[e] \ {r}]
      BY <1>3, <2>1 DEF Update
    <3> QED
      BY <1>10, <3>1
  <2>2. CASE UNCHANGED <<row, happened, unheard>>
    BY <2>2
  <2> QED
    BY <1>8, <2>1, <2>2
<1>12. Good(r, x)'
  BY <1>6, <1>7, <1>10, GoodStays DEF RowType
<1>13. Snapshots(a)'
  BY <1>1, <1>2, <1>10, SnapshotsStay DEF Inv, Actor
<1>14. Planned(a)'
  <2>1. plan'[a].run = r /\ plan'[a].row = x /\ ~plan'[a].keep /\ pc'[a] = "write" /\ Holds(a, r)'
    BY <1>1, <1>3, <1>9 DEF Holds
  <2>2. Good(r, plan[a].row)'
    BY <1>12, <2>1 DEF Good, HonestSteps, Listed, Shape
  <2> QED
    BY <1>2, <1>6, <2>1, <2>2 DEF Planned
<1>15. spent' \in [{"fault", "change"} -> Nat]
  BY <1>1 DEF Spend, Inv, TypeOK
<1>16. TypeOK'
  BY <1>1, <1>9, <1>10, <1>15 DEF Inv, TypeOK, PlanType
<1>17. OneEmailPerStep'
  BY <1>1 DEF Inv, OneEmailPerStep
<1>18. Unborn(a)
  BY <1>1, <1>3, <1>10 DEF Unborn, Holds
<1> QED
  BY <1>1, <1>2, <1>9, <1>10, <1>11, <1>13, <1>14, <1>16, <1>17, <1>18, Moves DEF Actor

LEMMA FindRunKeeps ==
  ASSUME Inv, NEW a \in Users, NEW r \in Runs, FindRun(a, r)
  PROVE  Inv'
<1>0. PICK x : x = [row[r] EXCEPT !.status = "cancelled", !.state[row[r].step] = "cancelled", !.due = "never"]
  OBVIOUS
<1>1. /\ a \in Actors /\ a \notin Events /\ a \notin Runners
      /\ pc[a] = "new" /\ row[r].status \in Live /\ Take(a, {r}) /\ Decide(a, r, "write", x)
      /\ UNCHANGED <<auto, flow, desk, contact, row, emails, known, happened, unheard, crowded, spent>>
  BY <1>0, AutomationAssumption DEF FindRun, automation, Actors
<1>2. /\ held' \in [Actors -> [Runs -> RowType]] /\ contended' \subseteq Runs
      /\ \A b \in Actors \ {a} : held'[b] = held[b]
  BY <1>1, TakeTyped DEF Inv
<1>3. /\ Snapshots(a)' /\ Holds(a, r)' /\ \A q \in Runs : row[q] = Absent => held'[a][q] = Absent
  BY <1>1, Listing
<1>4. row[r] \in RowType /\ Good(r, row[r]) /\ row[r].step \in Steps
  BY <1>1 DEF Inv, TypeOK, Rows, Good, Listed, Live
<1>5. /\ x \in RowType /\ x.status = "cancelled" /\ x.due = "never"
      /\ \A s \in Steps : x.state[s] = IF s = row[r].step THEN "cancelled" ELSE row[r].state[s]
  <2>1. row[r].state \in [Steps -> Marks] /\ "cancelled" \in Marks
    BY <1>4 DEF RowType, Marks
  <2> QED
    BY <1>0, <1>4, <2>1 DEF RowType
<1>6. Good(r, x)
  BY <1>4, <1>5 DEF Good, HonestSteps, Listed, Shape, Live
<1>7. /\ plan' \in [Actors -> PlanType] /\ pc' \in [Actors -> Place]
      /\ plan'[a] = [run |-> r, row |-> x, keep |-> FALSE, again |-> FALSE] /\ pc'[a] = "write"
      /\ \A b \in Actors \ {a} : plan'[b] = plan[b] /\ pc'[b] = pc[b]
  BY <1>1, <1>5, DecideTyped DEF Inv, InPlan
<1>8. Grows
  BY <1>1 DEF Grows
<1>9. Good(r, x)'
  BY <1>5, <1>6, <1>8, GoodStays DEF RowType
<1>10. Good(r, plan[a].row)'
  BY <1>7, <1>9 DEF Good, HonestSteps, Listed, Shape
<1>11. Planned(a)'
  BY <1>3, <1>5, <1>7, <1>10 DEF Planned, Live
<1>12. TypeOK'
  BY <1>1, <1>2, <1>7 DEF Inv, TypeOK, PlanType, Place
<1>13. Quiet(a)
  BY <1>1, <1>2, <1>7 DEF Quiet
<1> QED
  BY <1>1, <1>3, <1>11, <1>12, <1>13, QuietMoves DEF Actor

LEMMA CancelRunKeeps ==
  ASSUME Inv, NEW a \in Users, CancelRun(a)
  PROVE  Inv'
<1> DEFINE r == plan[a].run
           c == plan[a].row
           new == [row[r] EXCEPT !.status = c.status, !.state = c.state, !.due = c.due]
<1>1. /\ a \in Actors /\ a \notin Events /\ a \notin Runners
      /\ pc[a] = "write" /\ Release(a, r)
      /\ UNCHANGED <<auto, flow, desk, contact, emails, known, happened, crowded, contended, spent>>
  BY AutomationAssumption DEF CancelRun, automation, Actors
<1>2. r \in Runs /\ Holds(a, r) /\ c \in RowType /\ Good(r, c) /\ c.status \notin Live
  BY <1>1, AtWrite
<1>3. /\ held' \in [Actors -> [Runs -> RowType]] /\ plan' \in [Actors -> PlanType] /\ pc' \in [Actors -> Place]
      /\ \A b \in Actors \ {a} : pc'[b] = pc[b] /\ held'[b] = held[b] /\ plan'[b] = plan[b]
  BY <1>1, <1>2, ReleaseTyped DEF Inv
<1>4. row[r] \in RowType
  BY <1>2 DEF Inv, TypeOK
<1>5. new \in RowType /\ new.status = c.status /\ new.state = c.state /\ new.due = c.due
  BY <1>2, <1>4 DEF RowType
<1>6. Good(r, new)
  BY <1>2, <1>5 DEF Good, HonestSteps, Listed, Shape, Live
<1>7. /\ row' \in [Runs -> RowType] /\ unheard' \in [Events -> SUBSET Runs]
      /\ \/ row' = row /\ unheard' = unheard
         \/ /\ row[r].status \in Live /\ row'[r] = new /\ \A q \in Runs \ {r} : row'[q] = row[q]
            /\ \A e \in Events : unheard'[e] = unheard[e] \ {r}
  <2>1. CASE row[r].status \in Live
    <3>1. /\ row' = [row EXCEPT ![r].status = c.status, ![r].state = c.state, ![r].due = c.due]
          /\ unheard' = [e \in Events |-> unheard[e] \ {r}]
      BY <2>1 DEF CancelRun
    <3>2. row' = [row EXCEPT ![r] = new]
      BY <1>2, <1>4, <3>1 DEF Inv, TypeOK, RowType
    <3>3. unheard' \in [Events -> SUBSET Runs] /\ \A e \in Events : unheard'[e] = unheard[e] \ {r}
      BY <3>1 DEF Inv, TypeOK
    <3> HIDE DEF new
    <3> QED
      BY <1>2, <1>5, <2>1, <3>2, <3>3 DEF Inv, TypeOK
  <2>2. CASE row[r].status \notin Live
    BY <2>2 DEF CancelRun, Inv, TypeOK
  <2> QED
    BY <2>1, <2>2
<1> HIDE DEF new, c
<1>8. Grows
  BY <1>1 DEF Grows
<1>9. Rows'
  <2> SUFFICES ASSUME NEW q \in Runs PROVE Good(q, row[q])'
    BY DEF Rows
  <2>1. PICK y : y = row'[q]
    OBVIOUS
  <2>2. y \in RowType /\ Good(q, y)
    BY <1>5, <1>6, <1>7, <2>1 DEF Inv, TypeOK, Rows
  <2>3. Good(q, y)'
    BY <1>8, <2>2, GoodStays DEF RowType
  <2> QED
    BY <2>1, <2>3 DEF Good, HonestSteps, Listed, Shape
<1>10. TypeOK'
  BY <1>1, <1>3, <1>7 DEF Inv, TypeOK, PlanType, Place
<1>11. Actor(a)' /\ \A q \in Runs : ~Holds(a, q) => held'[a][q] = Absent
  BY <1>1, <1>2, <1>8, LetGo
<1>12. /\ \A e \in Events : unheard'[e] \subseteq unheard[e]
       /\ \A e \in Events, q \in Runs : q \in unheard'[e] => row'[q] = row[q]
  BY <1>7
<1>13. OneEmailPerStep'
  BY <1>1 DEF Inv, OneEmailPerStep
<1>14. Unborn(a)
  <2>1. Absent.status \notin Live
    BY DEF Absent, Live
  <2>2. \A q \in Runs : row[q] = Absent => row'[q] = row[q]
    BY <1>7, <2>1
  <2> QED
    BY <1>1, <1>11, <2>2 DEF Unborn
<1> QED
  BY <1>1, <1>3, <1>8, <1>9, <1>10, <1>11, <1>12, <1>13, <1>14, Moves

-----------------------------------------------------------------------------
(* The automation, the contact and the clock *)

\* Steps that move no actor keep what each of them holds.
LEMMA NobodyMoves ==
  ASSUME Inv, TypeOK', Rows', Grows, UNCHANGED <<actors, emails>>,
         \A r \in Runs : row[r] = Absent => row'[r] = Absent,
         UNCHANGED crowded, \A e \in Events : unheard'[e] \subseteq unheard[e],
         \A e \in Events, r \in Runs : r \in unheard'[e] =>
           /\ row'[r].status = row[r].status /\ row'[r].contact = row[r].contact
           /\ row'[r].step = row[r].step /\ row'[r].state = row[r].state
           /\ auto # "deleted" => auto' # "deleted"
           /\ row[r].step \in flow.live => row[r].step \in flow'.live
  PROVE  Inv'
<1>1. UNCHANGED <<pc, held, plan, emails>>
  BY DEF actors
<1>2. \A a \in Actors : Actor(a)'
  BY <1>1, ActorStays DEF Inv
<1>3. ASSUME NEW e \in Events PROVE Awake(e)'
  <2>1. unheard'[e] \subseteq Runs
    BY DEF TypeOK
  <2> QED
    BY <1>1, <2>1, AwakeStays DEF Inv, Missing
<1>4. OneEmailPerStep' /\ Born'
  BY <1>1 DEF Inv, OneEmailPerStep, Born, Holds
<1> QED
  BY <1>2, <1>3, <1>4 DEF Inv

\* What happens to the automation or the contact but not to any run.
LEMMA OthersKeep ==
  ASSUME Inv, SwitchAutomation \/ OpenRequest \/ CommitEdit \/ ChangeContact
  PROVE  Inv'
<1>1. UNCHANGED <<actors, row, emails, known, happened, crowded, contended>>
  BY DEF SwitchAutomation, OpenRequest, CommitEdit, ChangeContact
<1>2. Grows /\ Rows'
  BY <1>1 DEF Grows, Inv, Rows, Good, HonestSteps, Listed, Shape
<1>3. /\ unheard' \in [Events -> SUBSET Runs] /\ \A e \in Events : unheard'[e] \subseteq unheard[e]
      /\ \A e \in Events, r \in Runs : r \in unheard'[e] /\ row[r].step \in flow.live => row[r].step \in flow'.live
  <2>1. unheard \in [Events -> SUBSET Runs]
    BY DEF Inv, TypeOK
  <2>2. CASE UNCHANGED <<unheard, crowded, flow>>
    BY <2>1, <2>2
  <2>3. CASE CommitEdit
    <3>1. unheard' = [e \in Events |-> {r \in unheard[e] : row[r].step \in flow'.live}]
      BY <2>3 DEF CommitEdit
    <3> QED
      BY <2>1, <3>1
  <2> QED
    BY <2>2, <2>3 DEF SwitchAutomation, OpenRequest, ChangeContact, automation
<1>4. /\ auto' \in {"enabled", "disabled", "deleted"} /\ (auto # "deleted" => auto' # "deleted") /\ flow' \in Flows
      /\ desk' \in [op: {"none", "edit", "delete"}, seen: {"enabled", "disabled"}]
      /\ contact' \in {"subscribed", "unsubscribed", "gone"} /\ spent' \in [{"fault", "change"} -> Nat]
  <2>1. TypeOK
    BY DEF Inv
  <2>2. CASE SwitchAutomation
    BY <2>1, <2>2 DEF SwitchAutomation, TypeOK, Spend
  <2>3. CASE OpenRequest
    <3>1. auto \in {"enabled", "disabled"} /\ \E op \in {"edit", "delete"} : desk' = [op |-> op, seen |-> auto]
      BY <2>1, <2>3 DEF OpenRequest, TypeOK
    <3> QED
      BY <2>1, <2>3, <3>1 DEF OpenRequest, TypeOK, Spend
  <2>4. CASE CommitEdit
    BY <2>1, <2>4 DEF CommitEdit, TypeOK
  <2>5. CASE ChangeContact
    BY <2>1, <2>5 DEF ChangeContact, TypeOK, Spend, automation
  <2> QED
    BY <2>2, <2>3, <2>4, <2>5
<1>5. TypeOK'
  BY <1>1, <1>3, <1>4 DEF Inv, TypeOK, actors
<1> QED
  BY <1>1, <1>2, <1>3, <1>4, <1>5, NobodyMoves

LEMMA CommitDeleteKeeps ==
  ASSUME Inv, CommitDelete
  PROVE  Inv'
<1>1. /\ auto' = "deleted" /\ desk' = [desk EXCEPT !.op = "none"] /\ unheard' = [e \in Events |-> {}]
      /\ row' = [r \in Runs |-> IF row[r].status = "absent" THEN Absent ELSE [Absent EXCEPT !.status = "deleted"]]
      /\ UNCHANGED <<flow, contact, emails, actors, known, happened, crowded, contended, spent>>
  BY DEF CommitDelete
<1>2. PICK gone : gone = [Absent EXCEPT !.status = "deleted"]
  OBVIOUS
<1>3. gone \in RowType /\ gone.status = "deleted" /\ gone.due = "never" /\ gone.state = Absent.state
  BY <1>2, AbsentTyped DEF RowType, Absent
<1>4. /\ row' \in [Runs -> RowType] /\ \A r \in Runs : row'[r] \in {Absent, gone}
      /\ \A r \in Runs : row[r] = Absent => row'[r] = Absent
  <2>1. Absent.status = "absent"
    BY DEF Absent
  <2>2. \A r \in Runs : row'[r] = IF row[r].status = "absent" THEN Absent ELSE gone
    BY <1>1, <1>2
  <2>3. row' = [r \in Runs |-> row'[r]]
    BY <1>1
  <2> QED
    BY <1>3, <2>1, <2>2, <2>3, AbsentTyped
<1>5. \A r \in Runs : Good(r, Absent) /\ Good(r, gone)
  BY <1>3, NothingGood DEF Good, HonestSteps, Listed, Shape, Live
<1>6. Rows'
  <2> SUFFICES ASSUME NEW r \in Runs PROVE Good(r, row[r])'
    BY DEF Rows
  <2>1. Good(r, row'[r])
    BY <1>4, <1>5
  <2> QED
    BY <1>1, <2>1 DEF Good, HonestSteps, Listed, Shape
<1>7. TypeOK'
  BY <1>1, <1>4 DEF Inv, TypeOK, actors
<1>8. Grows
  BY <1>1 DEF Grows
<1> QED
  BY <1>1, <1>4, <1>6, <1>7, <1>8, NobodyMoves

LEMMA DueArrivesKeeps ==
  ASSUME Inv, NEW r \in Runs, DueArrives(r)
  PROVE  Inv'
<1> DEFINE s == row[r].step
<1>1. /\ row[r].due = "later" /\ row' = [row EXCEPT ![r].due = "now"]
      /\ happened' = IF Kind[s] = "delay" THEN [happened EXCEPT ![r][s] = "now"] ELSE happened
      /\ UNCHANGED <<auto, flow, desk, contact, emails, actors, known, unheard, crowded, contended, spent>>
  BY DEF DueArrives, automation
<1>2. row[r] \in RowType /\ Good(r, row[r])
  BY DEF Inv, TypeOK, Rows
<1>3. row[r].status = "waiting" /\ s \in Steps
  BY <1>1, <1>2 DEF Good, Listed, Live
<1>4. PICK new : new = [row[r] EXCEPT !.due = "now"]
  OBVIOUS
<1>5. /\ new \in RowType /\ new.status = row[r].status /\ new.step = s /\ new.state = row[r].state
      /\ new.contact = row[r].contact /\ new.due = "now"
  BY <1>2, <1>4 DEF RowType
<1>6. row' \in [Runs -> RowType] /\ row'[r] = new /\ \A q \in Runs \ {r} : row'[q] = row[q]
  BY <1>1, <1>4, <1>5 DEF Inv, TypeOK
<1>7. /\ happened' \in [Runs -> [Steps -> {"never", "before", "now"}]]
      /\ \A q \in Runs, t \in Steps : happened[q][t] # "never" => happened'[q][t] # "never"
      /\ Kind[s] = "delay" => happened'[r][s] # "never"
  <2>1. happened \in [Runs -> [Steps -> {"never", "before", "now"}]]
    BY DEF Inv, TypeOK
  <2>2. CASE Kind[s] = "delay"
    BY <1>1, <1>3, <2>1, <2>2
  <2>3. CASE Kind[s] # "delay"
    BY <1>1, <2>1, <2>3
  <2> QED
    BY <2>2, <2>3
<1>8. Grows
  BY <1>1, <1>7 DEF Grows
<1>9. Good(r, new)'
  <2>1. HonestSteps(r, new)'
    BY <1>2, <1>5, <1>8 DEF Good, HonestSteps, Grows
  <2>2. Listed(new)' /\ Shape(r, new)'
    BY <1>2, <1>3, <1>5, <1>7 DEF Good, Listed, Shape, Live
  <2> QED
    BY <2>1, <2>2 DEF Good
<1>10. Rows'
  <2> SUFFICES ASSUME NEW q \in Runs PROVE Good(q, row[q])'
    BY DEF Rows
  <2>1. CASE q = r
    BY <1>6, <1>9, <2>1 DEF Good, HonestSteps, Listed, Shape
  <2>2. CASE q # r
    <3>1. PICK y : y = row[q]
      OBVIOUS
    <3>2. y \in RowType /\ Good(q, y)
      BY <3>1 DEF Inv, TypeOK, Rows
    <3>3. Good(q, y)'
      BY <1>8, <3>2, GoodStays DEF RowType
    <3> QED
      BY <1>6, <2>2, <3>1, <3>3 DEF Good, HonestSteps, Listed, Shape
  <2> QED
    BY <2>1, <2>2
<1>11. TypeOK'
  BY <1>1, <1>6, <1>7 DEF Inv, TypeOK, actors
<1>12. \A q \in Runs : /\ row[q] = Absent => row'[q] = Absent
                       /\ row'[q].status = row[q].status /\ row'[q].contact = row[q].contact
                       /\ row'[q].step = row[q].step /\ row'[q].state = row[q].state
  <2>1. row[r] # Absent
    BY <1>3 DEF Absent
  <2> QED
    BY <1>5, <1>6, <2>1
<1> QED
  BY <1>1, <1>8, <1>10, <1>11, <1>12, NobodyMoves

-----------------------------------------------------------------------------
(* The invariant holds *)

LEMMA InitInv ==
  ASSUME Init PROVE Inv
<1>1. 1 \in Steps /\ Absent \in RowType /\ NoPlan \in PlanType /\ \A a \in Runners : a \notin Events
  BY AbsentTyped, AutomationAssumption
<1>2. TypeOK
  BY <1>1 DEF Init, TypeOK, PlanType
<1>3. Rows /\ OneEmailPerStep
  BY NothingGood DEF Init, Rows, OneEmailPerStep
<1>4. Born
  BY <1>1 DEF Init, Born, Holds, Runs, Events, Actors
<1>5. \A a \in Actors : Actor(a)
  BY NothingGood DEF Init, Actor, Snapshots, Planned, InPlan, Holds
<1>6. \A e \in Events : Awake(e)
  BY <1>1 DEF Init, Awake, Missing, Actors
<1> QED
  BY <1>2, <1>3, <1>4, <1>5, <1>6 DEF Inv

LEMMA StutterInv ==
  ASSUME Inv, UNCHANGED vars PROVE Inv'
<1>1. UNCHANGED <<automation, row, emails, actors, happened, unheard, crowded>>
  BY DEF vars
<1>2. TypeOK'
  BY DEF Inv, TypeOK, vars, automation, actors
<1>3. Grows /\ Rows'
  BY <1>1 DEF Grows, Inv, Rows, Good, HonestSteps, Listed, Shape
<1> QED
  BY <1>1, <1>2, <1>3, NobodyMoves DEF automation

LEMMA NextInv ==
  ASSUME Inv, Next PROVE Inv'
<1>1. Runners \subseteq Actors /\ Events \subseteq Actors /\ Users \subseteq Actors
  BY DEF Actors
<1>2. ASSUME NEW a \in Runners, Run(a) \/ WriteFails(a) \/ Interrupt(a) PROVE Inv'
  BY <1>1, <1>2, StartCronKeeps, StepKeeps, ChangeKeeps, LookupKeeps, InsertKeeps, WriteKeeps,
     WriteFailsKeeps, InterruptKeeps DEF Run
<1>3. ASSUME NEW e \in Events, Record(e) \/ Send(e) \/ Interrupt(e) PROVE Inv'
  BY <1>1, <1>3, RecordKeeps, ListWaitingKeeps, ResumeKeeps, WriteKeeps, FindEnabledKeeps, CreateKeeps,
     InterruptKeeps DEF Send
<1>4. ASSUME NEW u \in Users, CancelRun(u) \/ Interrupt(u) \/ \E r \in Runs : FindRun(u, r) PROVE Inv'
  BY <1>1, <1>4, CancelRunKeeps, FindRunKeeps, InterruptKeeps
<1> QED
  BY <1>2, <1>3, <1>4, OthersKeep, CommitDeleteKeeps, DueArrivesKeeps DEF Next

LEMMA Invariance == Spec => []Inv
<1>1. Init => Inv
  BY InitInv
<1>2. Inv /\ [Next]_vars => Inv'
  BY NextInv, StutterInv
<1> QED
  BY <1>1, <1>2, PTL DEF Spec

\* Rows, lists and plans stay well-formed through every handler and cron run.
THEOREM TypeCorrect == Spec => []TypeOK
<1>1. Inv => TypeOK
  BY DEF Inv
<1> QED
  BY <1>1, Invariance, PTL

\* No stale update makes a run claim a step that was not done, or hides it from
\* the cron.
THEOREM HonestRows == Spec => []RowsAreHonest
BY InvSafe, Invariance, PTL

\* However many cron runs repeat a step, the unique key lets one email through.
THEOREM OneEmail == Spec => []OneEmailPerStep
BY InvSafe, Invariance, PTL

\* What was listed is stale, never wrong about what was done.
THEOREM HonestSnapshots == Spec => []SnapshotsAreHonest
BY InvSafe, Invariance, PTL

\* An event that got past resuming has woken the runs that waited for it, but
\* for those its full list left out.
THEOREM Woken == Spec => []EventsWakeRuns
BY InvSafe, Invariance, PTL

-----------------------------------------------------------------------------
(* Runs nobody contends for *)

\* What an actor lists of a run nobody contends for stays true until it lets go
\* of it, unless the run is deleted; only its time may come.  A runner whose
\* update was made while its answer was lost is the exception: its list is older
\* than the row, and the failure it is about to write completes no step.
Solo(r) == \A a, b \in Actors : Holds(a, r) /\ Holds(b, r) => a = b

Fresh(a, r) ==
  Holds(a, r) /\ row[r].status # "deleted" /\ ~Redoes(a, r) =>
    /\ held[a][r].status = row[r].status /\ held[a][r].step = row[r].step
    /\ held[a][r].state = row[r].state
    /\ a \in Runners => held[a][r].due = row[r].due

Overwrites(a, r) ==
  Redoes(a, r) /\ row[r].status # "deleted" =>
    /\ row[r].status # "absent"
    /\ \A s \in Steps : plan[a].row.state[s] = "completed" => row[r].state[s] = "completed"

\* It comes due at a delay because the delay has passed since it got there.
DueInTime(r) ==
  LET x == row[r] IN
  x.status = "waiting" /\ x.due = "now" /\ Kind[x.step] = "delay" => happened[r][x.step] = "now"

\* An update changes the mark of the step in hand only, and one that takes the
\* run on from a delay or a wait was decided on in time.
Carries(u, h) == \A t \in Steps \ {h.step} : u.state[t] = h.state[t]
TakesOn(u, h) == u.status = "queued" \/ (u.state[h.step] = "completed" /\ h.state[h.step] # "completed")
Owed(a, r) ==
  LET h == held[a][r] u == plan[a].row IN
  pc[a] \in InPlan /\ plan[a].run = r /\ row[r].status # "deleted" =>
    /\ u.status # "absent" /\ Carries(u, h)
    /\ u.status = "waiting" => u.due # "now"
    /\ Kind[h.step] \in {"delay", "wait_for_event"} /\ TakesOn(u, h) => happened[r][h.step] = "now"

Lone(r) == Solo(r) /\ DueInTime(r) /\ \A a \in Actors : Fresh(a, r) /\ Owed(a, r) /\ Overwrites(a, r)
LoneInv == \A r \in Runs \ contended : Lone(r)

\* A step in which actor a at most lets go of the run, or decides on an update
\* of it that is owed.
LEMMA LoneMoves ==
  ASSUME Inv, NEW r \in Runs, NEW a \in Actors, Lone(r),
         \A b \in Actors \ {a} : pc'[b] = pc[b] /\ held'[b] = held[b] /\ plan'[b] = plan[b],
         row'[r] = row[r], \A t \in Steps : happened[r][t] = "now" => happened'[r][t] = "now",
         held'[a][r] = held[a][r] \/ held'[a][r] = Absent,
         Owed(a, r)', ~Redoes(a, r) \/ held'[a][r] = Absent, ~Redoes(a, r)'
  PROVE  Lone(r)'
<1>1. Solo(r)'
  BY DEF Lone, Solo, Holds
<1>2. DueInTime(r)'
  BY DEF Lone, DueInTime, Inv, Rows, Good, Listed, Live
<1>3. ASSUME NEW b \in Actors PROVE Fresh(b, r)' /\ Overwrites(b, r)'
  <2>1. b # a => Redoes(b, r)' = Redoes(b, r)
    BY <1>3 DEF Redoes
  <2> QED
    BY <1>3, <2>1 DEF Lone, Fresh, Overwrites, Holds
<1>4. ASSUME NEW b \in Actors, b # a PROVE Owed(b, r)'
  <2>1. pc[b] \in InPlan /\ plan[b].run = r => held[b][r].step \in Steps
    BY InHand DEF Inv, Actor, Planned
  <2> QED
    BY <1>4, <2>1 DEF Lone, Owed, Carries
<1> QED
  BY <1>1, <1>2, <1>3, <1>4 DEF Lone

\* The update in hand, or none of this run, or none that takes it on.
LEMMA OwedStays ==
  ASSUME Inv, NEW r \in Runs, NEW a \in Actors, Lone(r), row'[r] = row[r],
         \A t \in Steps : happened[r][t] = "now" => happened'[r][t] = "now",
         \/ pc'[a] \notin InPlan \/ plan'[a].run # r
         \/ pc[a] \in InPlan /\ plan'[a] = plan[a] /\ held'[a] = held[a]
  PROVE  Owed(a, r)'
<1>1. pc[a] \in InPlan /\ plan[a].run = r => held[a][r].step \in Steps
  BY InHand DEF Inv, Actor, Planned
<1> QED
  BY <1>1 DEF Lone, Owed, Carries

LEMMA OwedNothing ==
  ASSUME Inv, NEW r \in Runs, NEW a \in Actors, held'[a] = held[a],
         LET h == held[a][r] u == plan'[a].row IN
         /\ u.status \notin {"absent", "waiting"} /\ Carries(u, h)
         /\ Kind[h.step] \in {"delay", "wait_for_event"} => ~TakesOn(u, h)
  PROVE  Owed(a, r)'
BY DEF Owed, TakesOn, Carries

\* Nobody holds the run any more.
LEMMA LetLone ==
  ASSUME Inv', NEW r \in Runs, \A a \in Actors : ~Holds(a, r)', DueInTime(r)'
  PROVE  Lone(r)'
<1>1. \A a \in Actors : Owed(a, r)'
  BY DEF Owed, Inv, Actor, Planned
<1>2. \A a \in Actors : ~Redoes(a, r)'
  BY DEF Redoes, Inv, Actor, Planned, InPlan
<1> QED
  BY <1>1, <1>2 DEF Lone, Solo, Fresh, Overwrites

\* Listing: whoever lists a run that stays uncontended is its only holder.
LEMMA LoneTaken ==
  ASSUME Inv, NEW r \in Runs, NEW a \in Actors, Lone(r), NEW batch \in SUBSET Runs, Take(a, batch),
         r \notin contended', UNCHANGED <<row, happened>>,
         \A b \in Actors \ {a} : pc'[b] = pc[b] /\ plan'[b] = plan[b],
         Owed(a, r)', ~Redoes(a, r)'
  PROVE  Lone(r)'
<1>1. /\ held'[a][r] = IF r \in batch THEN row[r] ELSE Absent
      /\ \A b \in Actors \ {a} : held'[b] = held[b]
  BY TakeTyped DEF Inv
<1>2. r \in batch => \A b \in Actors \ {a} : ~Holds(b, r)
  BY DEF Take
<1>3. Solo(r)'
  BY <1>1, <1>2 DEF Lone, Solo, Holds
<1>4. DueInTime(r)'
  BY DEF Lone, DueInTime
<1>5. ASSUME NEW b \in Actors PROVE Fresh(b, r)' /\ Overwrites(b, r)'
  <2>1. b # a => Redoes(b, r)' = Redoes(b, r)
    BY <1>5 DEF Redoes
  <2> QED
    BY <1>1, <1>5, <2>1 DEF Lone, Fresh, Overwrites, Holds
<1>6. ASSUME NEW b \in Actors, b # a PROVE Owed(b, r)'
  BY <1>1, <1>6 DEF Lone, Owed, Carries
<1> QED
  BY <1>3, <1>4, <1>5, <1>6 DEF Lone

LEMMA StartCronLone ==
  ASSUME Inv, NEW r \in Runs, NEW a \in Runners, Lone(r), StartCron(a), r \notin contended'
  PROVE  Lone(r)'
<1> DEFINE due == {q \in Runs : row[q].status \in Live /\ row[q].due = "now"}
<1>1. a \in Actors
  BY RunnerIs
<1>2. UNCHANGED <<row, plan, happened>> /\ Take(a, due) /\ Go(a, "next")
  BY DEF StartCron
<1>3. pc'[a] = "next" /\ \A b \in Actors \ {a} : pc'[b] = pc[b]
  BY <1>1, <1>2 DEF Go, Inv, TypeOK
<1>4. Owed(a, r)' /\ ~Redoes(a, r)'
  BY <1>3 DEF Owed, InPlan, Redoes
<1> QED
  BY <1>1, <1>2, <1>3, <1>4, LoneTaken

\* Only a delay that has passed lets a runner take a run on from a delay.
LEMMA StepOwes ==
  ASSUME Inv, NEW r \in Runs, NEW a \in Runners, Lone(r), Step(a, r)
  PROVE  Owed(a, r)'
<1> DEFINE h == held[a][r]
           s == h.step
<1>1. a \in Actors /\ Holds(a, r) /\ UNCHANGED <<held, row, happened>>
  BY RunnerIs DEF Step, SkipMissing, At, StepTrigger, StepDelay, StepCondition, StepWait,
     StepContact, StepDelete, StepSend, StepEnd
<1>2. h \in RowType /\ Good(r, h) /\ h.status \in Live /\ s \in Steps /\ h.due = "now"
  BY <1>1, InHand
<1>3. TypeOK /\ {"completed", "skipped", "failed"} \subseteq Marks
  BY DEF Inv, Marks
<1>4. plan \in [Actors -> PlanType]
  BY DEF Inv, TypeOK, PlanType
<1> HIDE DEF h, s
<1> DEFINE Plain(x) == x.status \notin {"absent", "waiting"} /\ \A t \in Steps \ {s} : x.state[t] = h.state[t]
<1>5. ASSUME NEW where, NEW x, Decide(a, r, where, x),
             Plain(x), Kind[s] \in {"delay", "wait_for_event"} => ~TakesOn(x, h)
      PROVE  Owed(a, r)'
  <2>1. plan'[a].row = x
    BY <1>1, <1>4, <1>5 DEF Decide
  <2> QED
    BY <1>1, <1>5, <2>1, OwedNothing DEF Carries, h, s
<1>6. ASSUME NEW mark \in {"completed", "skipped"}, NEW branch \in Branches
      PROVE  Plain(After(h, s, mark, branch))
  <2>1. PICK x : x = After(h, s, mark, branch)
    OBVIOUS
  <2>2. x.state = [h.state EXCEPT ![s] = mark] /\ x.status \in {"completed", "queued"}
    BY <1>2, <1>3, <2>1, AfterIs
  <2> QED
    BY <1>2, <2>1, <2>2 DEF RowType
<1>7. ASSUME NEW mark \in Marks PROVE Plain(Complete(h, s, mark))
  <2>1. PICK x : x = Complete(h, s, mark)
    OBVIOUS
  <2>2. x.state = [h.state EXCEPT ![s] = mark] /\ x.status = "completed"
    BY <1>2, <2>1, CompleteIs
  <2> QED
    BY <1>2, <2>1, <2>2 DEF RowType
<1>8. Plain(Fail(h, s)) /\ ~TakesOn(Fail(h, s), h)
  <2>1. Fail(h, s).state = [h.state EXCEPT ![s] = "failed"] /\ Fail(h, s).status = "failed"
    BY <1>2, FailIs
  <2> QED
    BY <1>2, <2>1 DEF TakesOn, s, RowType
<1>9. ASSUME SkipMissing(a, r) PROVE Owed(a, r)'
  <2>1. PICK x : /\ \/ x = [h EXCEPT !.status = "failed", !.due = "never"]
                    \/ x = [h EXCEPT !.status = "completed", !.step = 0, !.due = "never"]
                 /\ plan' = [plan EXCEPT ![a] = [run |-> r, keep |-> TRUE, again |-> FALSE, row |-> x]]
    BY <1>9 DEF SkipMissing, h
  <2>2. x.status \in {"completed", "failed"} /\ x.state = h.state
    BY <1>2, <2>1 DEF RowType
  <2>3. plan'[a].row = x
    BY <1>1, <1>4, <2>1
  <2> QED
    BY <1>1, <2>2, <2>3, OwedNothing DEF h, TakesOn, Carries
<1>10. ASSUME StepTrigger(a, r) \/ StepCondition(a, r) \/ StepContact(a, r) \/ StepSend(a, r)
       PROVE  Owed(a, r)'
  <2>1. Kind[s] \notin {"delay", "wait_for_event"}
    BY <1>10 DEF StepTrigger, StepCondition, StepContact, StepSend, At, h, s
  <2>2. \E where \in InPlan : \E x : Decide(a, r, where, x) /\ Plain(x)
    <3>1. PICK x : x = Fail(h, s)
      OBVIOUS
    <3>2. \A where : Decide(a, r, where, Fail(h, s)) => Decide(a, r, where, x) /\ Plain(x)
      BY <1>8, <3>1
    <3>3. \A where \in InPlan, mark \in {"completed", "skipped"}, branch \in Branches :
            Decide(a, r, where, After(h, s, mark, branch)) =>
              \E y : Decide(a, r, where, y) /\ Plain(y)
      BY <1>6
    <3> HIDE DEF Plain
    <3> QED
      BY <1>10, <3>2, <3>3 DEF StepTrigger, StepCondition, StepContact, StepSend, InPlan, Branches, h, s
  <2> HIDE DEF Plain
  <2> QED
    BY <1>5, <2>1, <2>2
<1>11. ASSUME StepDelete(a, r) \/ StepEnd(a, r) PROVE Owed(a, r)'
  <2>1. Kind[s] \notin {"delay", "wait_for_event"}
    BY <1>11 DEF StepDelete, StepEnd, At, h, s
  <2>2. Plain([Complete(h, s, "completed") EXCEPT !.contact = FALSE])
    <3>1. PICK x : x = Complete(h, s, "completed")
      OBVIOUS
    <3>2. x \in RowType /\ Plain(x)
      BY <1>2, <1>3, <1>7, <3>1, CompleteIs
    <3>3. [x EXCEPT !.contact = FALSE].status = x.status /\ [x EXCEPT !.contact = FALSE].state = x.state
      BY <3>2 DEF RowType
    <3> QED
      BY <3>1, <3>2, <3>3
  <2>3. CASE Decide(a, r, "write", Complete(h, s, "skipped"))
    BY <1>3, <1>5, <1>7, <2>1, <2>3
  <2>4. CASE Decide(a, r, "write", Fail(h, s))
    BY <1>5, <1>8, <2>4
  <2>5. CASE Decide(a, r, "change", [Complete(h, s, "completed") EXCEPT !.contact = FALSE])
    BY <1>5, <2>1, <2>2, <2>5
  <2>6. CASE Decide(a, r, "write", Complete(h, s, "completed"))
    BY <1>3, <1>5, <1>7, <2>1, <2>6
  <2> QED
    BY <1>11, <2>3, <2>4, <2>5, <2>6 DEF StepDelete, StepEnd, h, s
<1>12. ASSUME NEW due \in {"later", "never"}, Decide(a, r, "write", Pause(h, s, due)) PROVE Owed(a, r)'
  <2>1. PICK x : x = Pause(h, s, due)
    OBVIOUS
  <2>2. x.status = "waiting" /\ x.due = due /\ x.state = [h.state EXCEPT ![s] = "waiting"]
    BY <1>2, <2>1, PauseIs
  <2>3. plan'[a].row = x
    BY <1>1, <1>4, <1>12, <2>1 DEF Decide
  <2>4. ~TakesOn(x, h) /\ Carries(x, h)
    BY <1>2, <2>2 DEF TakesOn, Carries, s, RowType
  <2> QED
    BY <1>1, <1>12, <2>2, <2>3, <2>4 DEF Owed, TakesOn, Carries, h
<1>13. ASSUME StepDelay(a, r) PROVE Owed(a, r)'
  <2>1. Kind[s] = "delay"
    BY <1>13 DEF StepDelay, At, h, s
  <2>2. CASE h.state[s] = "waiting" /\ Decide(a, r, "write", After(h, s, "completed", "default"))
    <3>1. h.status = "waiting"
      BY <1>2, <2>2 DEF Good, Shape
    <3>2. ~Redoes(a, r)
      BY <1>13 DEF Redoes, StepDelay, At
    <3>3. row[r].status # "deleted" => happened[r][s] = "now"
      BY <1>1, <1>2, <2>1, <3>1, <3>2 DEF Lone, Fresh, DueInTime, h, s
    <3>4. PICK x : x = After(h, s, "completed", "default")
      OBVIOUS
    <3>5. plan'[a].row = x
      BY <1>1, <1>4, <2>2, <3>4 DEF Decide
    <3>6. Plain(x)
      BY <1>6, <3>4 DEF Branches
    <3> QED
      BY <1>1, <3>3, <3>5, <3>6 DEF Owed, Carries, h, s
  <2>3. CASE Decide(a, r, "write", Pause(h, s, "later"))
    BY <1>12, <2>3
  <2>4. CASE Decide(a, r, "write", Fail(h, s))
    BY <1>5, <1>8, <2>4
  <2> QED
    BY <1>13, <2>2, <2>3, <2>4 DEF StepDelay, h, s
<1>14. ASSUME StepWait(a, r) PROVE Owed(a, r)'
  <2>1. CASE Decide(a, r, "write", Fail(h, s))
    BY <1>5, <1>8, <2>1
  <2>2. CASE Decide(a, r, "write", Pause(h, s, IF s \in Timed THEN "later" ELSE "never"))
    BY <1>12, <2>2
  <2> QED
    BY <1>14, <2>1, <2>2 DEF StepWait, h, s
<1> QED
  BY <1>9, <1>10, <1>11, <1>13, <1>14 DEF Step

LEMMA StepLone ==
  ASSUME Inv, NEW r \in Runs, NEW a \in Runners, NEW q \in Runs, Lone(r), Step(a, q)
  PROVE  Lone(r)'
<1>1. a \in Actors /\ UNCHANGED <<held, row, happened>>
  BY RunnerIs DEF Step, SkipMissing, At, StepTrigger, StepDelay, StepCondition, StepWait,
     StepContact, StepDelete, StepSend, StepEnd
<1>2. pc \in [Actors -> Place] /\ plan \in [Actors -> PlanType]
  BY DEF Inv, TypeOK, Place, PlanType
<1>3. /\ \A b \in Actors \ {a} : pc'[b] = pc[b] /\ plan'[b] = plan[b]
      /\ plan'[a].run = q /\ ~plan'[a].again
  <2>1. CASE SkipMissing(a, q)
    BY <1>1, <1>2, <2>1 DEF SkipMissing, Go
  <2>2. ASSUME NEW where, NEW x, Decide(a, q, where, x)
        PROVE  /\ \A b \in Actors \ {a} : pc'[b] = pc[b] /\ plan'[b] = plan[b]
               /\ plan'[a].run = q /\ ~plan'[a].again
    BY <1>1, <1>2, <2>2 DEF Decide, Go
  <2>3. SkipMissing(a, q) \/ \E where, x : Decide(a, q, where, x)
    BY DEF Step, StepTrigger, StepDelay, StepCondition, StepWait, StepContact, StepDelete, StepSend, StepEnd
  <2> QED
    BY <2>1, <2>2, <2>3
<1>4. Owed(a, r)'
  <2>1. CASE q = r
    BY <2>1, StepOwes
  <2>2. CASE q # r
    BY <1>1, <1>3, <2>2 DEF Owed
  <2> QED
    BY <2>1, <2>2
<1>5. ~Redoes(a, r) /\ ~Redoes(a, r)'
  <2>1. pc[a] = "next"
    BY DEF Step, SkipMissing, At, StepTrigger, StepDelay, StepCondition, StepWait, StepContact, StepDelete,
       StepSend, StepEnd
  <2> QED
    BY <1>3, <2>1 DEF Redoes
<1> QED
  BY <1>1, <1>3, <1>4, <1>5, LoneMoves

\* In the middle of a step the update in hand stays, or becomes a failure.
LEMMA MiddleLone ==
  ASSUME Inv, NEW r \in Runs, NEW a \in Runners, Lone(r), pc[a] \in InPlan \ {"write"},
         UNCHANGED <<held, row, happened>>,
         Throw(a) \/ (UNCHANGED plan /\ \E where : Go(a, where))
  PROVE  Lone(r)'
<1>1. a \in Actors
  BY RunnerIs
<1>2. pc \in [Actors -> Place] /\ plan \in [Actors -> PlanType]
  BY DEF Inv, TypeOK, Place, PlanType
<1>3. \A b \in Actors \ {a} : pc'[b] = pc[b] /\ plan'[b] = plan[b]
  BY <1>1, <1>2 DEF Throw, Decide, Go
<1>4. CASE UNCHANGED plan
  <2>1. ~Redoes(a, r) /\ ~Redoes(a, r)'
    BY <1>1, <1>4 DEF Redoes, Inv, Actor, Planned
  <2> QED
    BY <1>1, <1>3, <1>4, <2>1, OwedStays, LoneMoves
<1>5. CASE Throw(a)
  <2>1. PICK q \in Runs : q = plan[a].run /\ Holds(a, q)
    BY <1>1 DEF Inv, Actor, Planned
  <2>2. PICK x : x = Fail(held[a][q], held[a][q].step)
    OBVIOUS
  <2>3. plan'[a].run = q /\ plan'[a].row = x /\ ~plan'[a].again
    BY <1>1, <1>2, <1>5, <2>1, <2>2 DEF Throw, Decide
  <2>4. /\ held[a][q] \in RowType /\ held[a][q].step \in Steps
        /\ x.state = [held[a][q].state EXCEPT ![held[a][q].step] = "failed"] /\ x.status = "failed"
    <3>1. held[a][q] \in RowType /\ held[a][q].step \in Steps
      BY <1>1, <2>1, InHand
    <3> QED
      BY <2>2, <3>1, FailIs
  <2>5. Owed(a, r)'
    <3>1. CASE q = r
      BY <1>1, <2>3, <2>4, <3>1, OwedNothing DEF TakesOn, Carries, RowType
    <3>2. CASE q # r
      BY <2>3, <3>2 DEF Owed
    <3> QED
      BY <3>1, <3>2
  <2>6. ~Redoes(a, r) /\ ~Redoes(a, r)'
    BY <2>3 DEF Redoes
  <2> QED
    BY <1>1, <1>3, <2>5, <2>6, LoneMoves
<1> QED
  BY <1>4, <1>5

\* A step of one actor that decides on nothing.
LEMMA StrollLone ==
  ASSUME Inv, NEW r \in Runs, NEW a \in Actors, Lone(r), UNCHANGED <<row, happened>>,
         pc'[a] \notin InPlan, pc[a] # "write" \/ held'[a][r] = Absent, held'[a][r] = held[a][r] \/ held'[a][r] = Absent,
         \A b \in Actors \ {a} : pc'[b] = pc[b] /\ held'[b] = held[b] /\ plan'[b] = plan[b]
  PROVE  Lone(r)'
BY OwedStays, LoneMoves DEF Redoes, InPlan

LEMMA InterruptLone ==
  ASSUME Inv, NEW r \in Runs, NEW a \in Actors, Lone(r), Interrupt(a)
  PROVE  Lone(r)'
<1>1. /\ pc'[a] \in {"idle", "failed"} /\ held'[a][r] = Absent
      /\ \A b \in Actors \ {a} : pc'[b] = pc[b] /\ held'[b] = held[b] /\ plan'[b] = plan[b]
  BY AbandonTyped DEF Interrupt, Inv
<1> QED
  BY <1>1, StrollLone DEF Interrupt, InPlan

LEMMA ListWaitingLone ==
  ASSUME Inv, NEW r \in Runs, NEW e \in Events, Lone(r), ListWaiting(e), r \notin contended'
  PROVE  Lone(r)'
<1> DEFINE waiting == {q \in Runs : row[q].status = "waiting" /\ row[q].contact}
<1>1. /\ UNCHANGED <<row, plan, happened>>
      /\ \E batch \in SUBSET waiting : Take(e, batch) /\ Go(e, IF batch = {} THEN "find" ELSE "next")
  BY DEF ListWaiting
<1>2. pc'[e] \in {"find", "next"} /\ \A b \in Actors \ {e} : pc'[b] = pc[b]
  BY <1>1, EventIs DEF Go, Inv, TypeOK
<1>3. Owed(e, r)' /\ ~Redoes(e, r)'
  BY <1>2 DEF Owed, InPlan, Redoes
<1> QED
  BY <1>1, <1>2, <1>3, EventIs, LoneTaken

LEMMA FindRunLone ==
  ASSUME Inv, NEW r \in Runs, NEW u \in Users, NEW q \in Runs, Lone(r), FindRun(u, q), r \notin contended'
  PROVE  Lone(r)'
<1>1. PICK x : x = [row[q] EXCEPT !.status = "cancelled", !.state[row[q].step] = "cancelled", !.due = "never"]
  OBVIOUS
<1>2. /\ u \in Actors /\ UNCHANGED <<row, happened>> /\ row[q].status \in Live
      /\ Take(u, {q}) /\ Decide(u, q, "write", x)
  BY <1>1 DEF FindRun, Actors
<1>3. row[q] \in RowType /\ row[q].step \in Steps
  BY <1>2 DEF Inv, TypeOK, Rows, Good, Listed, Live
<1>4. /\ x.status = "cancelled" /\ x.state[row[q].step] = "cancelled"
      /\ \A t \in Steps \ {row[q].step} : x.state[t] = row[q].state[t]
  BY <1>1, <1>3 DEF RowType
<1>5. /\ plan'[u].run = q /\ plan'[u].row = x /\ ~plan'[u].again
      /\ \A b \in Actors \ {u} : pc'[b] = pc[b] /\ plan'[b] = plan[b]
  BY <1>2 DEF Decide, Go, Inv, TypeOK
<1>6. held'[u][q] = row[q]
  BY <1>2, TakeTyped DEF Inv
<1>7. Owed(u, r)' /\ ~Redoes(u, r)'
  BY <1>4, <1>5, <1>6 DEF Owed, TakesOn, Carries, Redoes
<1> QED
  BY <1>2, <1>5, <1>7, LoneTaken

\* An event that resumes a run has come.
LEMMA ResumeLone ==
  ASSUME Inv, NEW r \in Runs, NEW e \in Events, NEW q \in Runs, Lone(r), Resume(e, q)
  PROVE  Lone(r)'
<1> DEFINE h == held[e][q]
           s == h.step
<1>1. e \in Actors /\ Holds(e, q) /\ pc[e] = "next" /\ UNCHANGED row
  BY EventIs DEF Resume
<1>2. h \in RowType /\ s \in Steps
  BY <1>1, InHand
<1>3. CASE Release(e, q) /\ UNCHANGED happened
  <2>1. /\ pc'[e] \in {"next", "idle", "done", "find"}
        /\ held'[e][q] = Absent /\ \A p \in Runs \ {q} : held'[e][p] = held[e][p]
        /\ \A b \in Actors \ {e} : pc'[b] = pc[b] /\ held'[b] = held[b] /\ plan'[b] = plan[b]
    BY <1>1, <1>3, ReleaseTyped DEF Inv
  <2>2. held'[e][r] = held[e][r] \/ held'[e][r] = Absent
    BY <2>1
  <2> QED
    BY <1>1, <1>3, <2>1, <2>2, StrollLone DEF InPlan
<1>4. CASE /\ Decide(e, q, "write", After(h, s, "completed", "default")) /\ UNCHANGED held
           /\ happened' = [happened EXCEPT ![q][s] = "now"]
  <2>1. PICK x : x = After(h, s, "completed", "default")
    OBVIOUS
  <2>2. x.status \notin {"absent", "waiting"} /\ \A t \in Steps \ {s} : x.state[t] = h.state[t]
    <3>1. TypeOK /\ "completed" \in Marks /\ "default" \in Branches
      BY DEF Inv, Marks, Branches
    <3>2. x.state = [h.state EXCEPT ![s] = "completed"] /\ x.status \in {"completed", "queued"}
      BY <1>2, <2>1, <3>1, AfterIs
    <3> QED
      BY <1>2, <3>2 DEF RowType
  <2>3. /\ plan'[e].run = q /\ plan'[e].row = x /\ ~plan'[e].again
        /\ \A b \in Actors \ {e} : pc'[b] = pc[b] /\ plan'[b] = plan[b]
    BY <1>1, <1>4, <2>1 DEF Decide, Go, Inv, TypeOK
  <2>4. happened'[q][s] = "now" /\ \A t \in Steps : happened[r][t] = "now" => happened'[r][t] = "now"
    BY <1>2, <1>4 DEF Inv, TypeOK
  <2>5. Owed(e, r)' /\ ~Redoes(e, r) /\ ~Redoes(e, r)'
    BY <1>1, <1>4, <2>2, <2>3, <2>4 DEF Owed, Carries, Redoes
  <2> QED
    BY <1>1, <1>4, <2>3, <2>4, <2>5, LoneMoves
<1> QED
  BY <1>3, <1>4 DEF Resume

\* Once its only holder has written it, nobody holds it.
LEMMA LetGoLone ==
  ASSUME Inv, Inv', NEW r \in Runs, NEW a \in Actors, NEW q \in Runs, Lone(r), Holds(a, q), Release(a, q),
         r # q => row'[r] = row[r] /\ happened'[r] = happened[r] /\ ~Redoes(a, r),
         r = q => DueInTime(r)'
  PROVE  Lone(r)'
<1>1. /\ pc'[a] \in {"next", "idle", "done", "find"}
      /\ held'[a][q] = Absent /\ \A p \in Runs \ {q} : held'[a][p] = held[a][p]
      /\ \A b \in Actors \ {a} : pc'[b] = pc[b] /\ held'[b] = held[b] /\ plan'[b] = plan[b]
  BY ReleaseTyped DEF Inv
<1>2. CASE r = q
  <2>1. \A b \in Actors : ~Holds(b, r)'
    BY <1>1, <1>2 DEF Lone, Solo, Holds
  <2> QED
    BY <1>2, <2>1, LetLone
<1>3. CASE r # q
  <2>1. Owed(a, r)' /\ ~Redoes(a, r)'
    BY <1>1 DEF Owed, InPlan, Redoes
  <2> QED
    BY <1>1, <1>3, <2>1, LoneMoves
<1> QED
  BY <1>2, <1>3

\* A row is due once it is written only if its time comes later.
LEMMA UpdateInTime ==
  ASSUME Inv, NEW r \in Runs, NEW a \in Actors, Lone(r), pc[a] = "write", Update(a), r = plan[a].run
  PROVE  DueInTime(r)'
<1>1. PICK u : u = plan[a].row
  OBVIOUS
<1>2. CASE row[r].status = "deleted"
  <2>1. row'[r] = row[r]
    BY <1>2, UpdateIs
  <2> QED
    BY <1>2, <2>1 DEF DueInTime
<1>3. CASE row[r].status # "deleted"
  <2>1. row'[r].status = u.status /\ row'[r].due = u.due
    BY <1>1, <1>3, UpdateIs
  <2>2. u.status = "waiting" => u.due # "now"
    BY <1>1, <1>3 DEF Lone, Owed, InPlan
  <2> QED
    BY <2>1, <2>2 DEF DueInTime
<1> QED
  BY <1>2, <1>3

LEMMA WriteLone ==
  ASSUME Inv, Inv', NEW r \in Runs, NEW a \in Actors, Lone(r), Write(a)
  PROVE  Lone(r)'
<1>1. PICK q \in Runs : q = plan[a].run /\ Holds(a, q) /\ Release(a, q) /\ pc[a] = "write" /\ Update(a)
  BY AtWrite DEF Write
<1>2. r # q => row'[r] = row[r] /\ happened'[r] = happened[r] /\ ~Redoes(a, r)
  BY <1>1, UpdateIs DEF Redoes
<1>3. r = q => DueInTime(r)'
  BY <1>1, UpdateInTime
<1> QED
  BY <1>1, <1>2, <1>3, LetGoLone

\* A runner that gets no answer holds on to the run and fails it next: its list
\* is older than the row if the update was made.
LEMMA WriteFailsLone ==
  ASSUME Inv, Inv', NEW r \in Runs, NEW a \in Runners, Lone(r), WriteFails(a)
  PROVE  Lone(r)'
<1>1. /\ a \in Actors /\ pc[a] = "write" /\ plan[a].row.status # "failed" /\ ~plan[a].keep
      /\ UNCHANGED <<pc, held>>
  BY RunnerIs DEF WriteFails
<1>2. PICK q \in Runs : q = plan[a].run /\ Holds(a, q)
  BY <1>1, AtWrite
<1>3. PICK h \in RowType : h = held[a][q] /\ h.step \in Steps
  BY <1>1, <1>2, InHand
<1>4. PICK x : x = Fail(h, h.step)
  OBVIOUS
<1>5. /\ x.status = "failed" /\ x.state[h.step] = "failed"
      /\ \A t \in Steps \ {h.step} : x.state[t] = h.state[t]
  <2>1. x.state = [h.state EXCEPT ![h.step] = "failed"] /\ x.status = "failed"
    BY <1>3, <1>4, FailIs
  <2> QED
    BY <1>3, <2>1 DEF RowType
<1>6. PICK made \in BOOLEAN :
        /\ IF made THEN Update(a) ELSE UNCHANGED <<row, happened, unheard>>
        /\ plan' = [plan EXCEPT ![a] = [run |-> q, row |-> x, keep |-> FALSE, again |-> made]]
  BY <1>2, <1>3, <1>4 DEF WriteFails
<1>7. /\ plan'[a].run = q /\ plan'[a].row = x /\ plan'[a].again = made
      /\ \A b \in Actors \ {a} : plan'[b] = plan[b]
  BY <1>1, <1>6 DEF Inv, TypeOK
<1>8. Owed(a, r)'
  <2>1. CASE r = q
    <3>1. plan'[a].row.status \notin {"absent", "waiting"} /\ Carries(plan'[a].row, held[a][r])
      BY <1>3, <1>5, <1>7, <2>1 DEF Carries
    <3>2. ~TakesOn(plan'[a].row, held[a][r])
      BY <1>3, <1>5, <1>7, <2>1 DEF TakesOn
    <3> QED
      BY <1>1, <3>1, <3>2, OwedNothing
  <2>2. CASE r # q
    BY <1>7, <2>2 DEF Owed
  <2> QED
    BY <2>1, <2>2
<1>9. ~Redoes(a, r)
  <2>1. ~plan[a].again
    BY <1>1 DEF Inv, Actor, Planned, InPlan
  <2> QED
    BY <2>1 DEF Redoes
<1>10. CASE r # q \/ ~made
  <2>1. row'[r] = row[r] /\ happened'[r] = happened[r]
    <3>1. CASE ~made
      BY <1>6, <3>1
    <3>2. CASE made /\ r # q
      BY <1>1, <1>2, <1>6, <3>2, UpdateIs
    <3> QED
      BY <1>10, <3>1, <3>2
  <2>2. ~Redoes(a, r)'
    BY <1>7, <1>10 DEF Redoes
  <2>3. held'[a][r] = held[a][r] /\ \A b \in Actors \ {a} : pc'[b] = pc[b] /\ held'[b] = held[b] /\ plan'[b] = plan[b]
    BY <1>1, <1>7
  <2> QED
    BY <1>1, <1>8, <1>9, <2>1, <2>2, <2>3, LoneMoves
<1>11. CASE r = q /\ made
  <2>1. Update(a)
    BY <1>6, <1>11
  <2>2. Solo(r)' /\ DueInTime(r)'
    BY <1>1, <1>2, <1>11, <2>1, UpdateInTime DEF Lone, Solo, Holds
  <2>3. ASSUME NEW b \in Actors, b # a PROVE Fresh(b, r)' /\ Owed(b, r)' /\ Overwrites(b, r)'
    <3>1. ~Holds(b, r)'
      BY <1>1, <1>2, <1>11, <2>3 DEF Lone, Solo, Holds
    <3>2. ~ (pc'[b] \in InPlan /\ plan'[b].run = r)
      BY <3>1 DEF Inv, Actor, Planned
    <3> QED
      BY <3>1, <3>2 DEF Fresh, Owed, Overwrites, Redoes, InPlan
  <2>4. Redoes(a, r)'
    BY <1>1, <1>7, <1>11 DEF Redoes
  <2>5. Overwrites(a, r)'
    <3>1. CASE row[r].status = "deleted"
      <4>1. row'[r] = row[r]
        BY <1>1, <1>2, <1>11, <2>1, <3>1, UpdateIs
      <4> QED
        BY <3>1, <4>1 DEF Overwrites
    <3>2. CASE row[r].status # "deleted"
      <4>1. PICK u : u = plan[a].row
        OBVIOUS
      <4>2. row'[r].status = u.status /\ row'[r].state = u.state
        BY <1>1, <1>2, <1>11, <2>1, <3>2, <4>1, UpdateIs
      <4>3. u.status # "absent" /\ \A t \in Steps \ {h.step} : u.state[t] = h.state[t]
        BY <1>1, <1>2, <1>3, <1>11, <3>2, <4>1 DEF Lone, Owed, Carries, InPlan
      <4> QED
        BY <1>3, <1>5, <1>7, <4>2, <4>3 DEF Overwrites
    <3> QED
      BY <3>1, <3>2
  <2>6. Fresh(a, r)'
    BY <2>4 DEF Fresh
  <2> QED
    BY <1>8, <2>2, <2>3, <2>5, <2>6 DEF Lone
<1> QED
  BY <1>10, <1>11

LEMMA CancelRunLone ==
  ASSUME Inv, Inv', NEW r \in Runs, NEW u \in Users, Lone(r), CancelRun(u)
  PROVE  Lone(r)'
<1>1. u \in Actors /\ pc[u] = "write" /\ UNCHANGED happened
  BY DEF CancelRun, Actors
<1>2. PICK q \in Runs : q = plan[u].run /\ Holds(u, q) /\ Release(u, q)
  BY <1>1, AtWrite DEF CancelRun
<1>3. PICK c : c = plan[u].row /\ c.status \notin Live
  BY <1>1, AtWrite
<1>4. /\ row \in [Runs -> RowType]
      /\ \/ UNCHANGED row
         \/ row' = [row EXCEPT ![q].status = c.status, ![q].state = c.state, ![q].due = c.due]
  BY <1>2, <1>3 DEF CancelRun, Inv, TypeOK
<1>5. r # q => row'[r] = row[r] /\ ~Redoes(u, r)
  BY <1>2, <1>4 DEF Redoes
<1>6. DueInTime(r)'
  <2>1. CASE row'[r] = row[r]
    BY <1>1, <2>1 DEF Lone, DueInTime
  <2>2. CASE r = q /\ row' = [row EXCEPT ![q].status = c.status, ![q].state = c.state, ![q].due = c.due]
    <3>1. row'[r].status = c.status
      BY <1>4, <2>2 DEF RowType
    <3> QED
      BY <1>3, <3>1 DEF DueInTime, Live
  <2> QED
    BY <1>4, <1>5, <2>1, <2>2
<1> QED
  BY <1>1, <1>2, <1>5, <1>6, LetGoLone

LEMMA CreateLone ==
  ASSUME Inv, Inv', NEW r \in Runs, NEW e \in Events, Lone(r), Create(e)
  PROVE  Lone(r)'
<1>1. e \in Actors /\ pc[e] = "create" /\ UNCHANGED <<held, plan, happened>>
  BY EventIs DEF Create
<1>2. pc'[e] \in {"failed", "done"} /\ \A b \in Actors \ {e} : pc'[b] = pc[b]
  BY <1>1 DEF Create, Go, Inv, TypeOK
<1>3. CASE r = e /\ row'[r] # row[r]
  <2>1. \A a \in Actors : ~Holds(a, r)'
    BY <1>1, <1>3 DEF Inv, Born, Holds
  <2>2. row'[r].status = "queued"
    <3>1. row'[r] = [Absent EXCEPT !.status = "queued", !.step = 1, !.due = "now", !.contact = known[e]]
      BY <1>3 DEF Create, Inv, TypeOK
    <3> QED
      BY <3>1, AbsentTyped DEF RowType
  <2> QED
    BY <2>1, <2>2, LetLone DEF DueInTime
<1>4. CASE row'[r] = row[r]
  <2>1. Owed(e, r)' /\ ~Redoes(e, r) /\ ~Redoes(e, r)'
    BY <1>1, <1>2 DEF Owed, InPlan, Redoes
  <2> QED
    BY <1>1, <1>2, <1>4, <2>1, LoneMoves
<1>5. r # e => row'[r] = row[r]
  BY DEF Create, Inv, TypeOK
<1> QED
  BY <1>3, <1>4, <1>5

\* A deleted run is nobody's business any more.
LEMMA CommitDeleteLone ==
  ASSUME Inv, Inv', NEW r \in Runs, Lone(r), CommitDelete
  PROVE  Lone(r)'
<1>1. /\ UNCHANGED <<pc, held, plan, happened>>
      /\ row'[r] = IF row[r].status = "absent" THEN Absent ELSE [Absent EXCEPT !.status = "deleted"]
  BY DEF CommitDelete, actors
<1>2. CASE row[r].status = "absent"
  <2>1. \A a \in Actors : ~Holds(a, r)
    <3> SUFFICES ASSUME NEW a \in Actors, Holds(a, r) PROVE FALSE
      OBVIOUS
    <3>1. held[a][r].status \in Live
      BY InHand
    <3>2. ~Redoes(a, r)
      BY <1>2 DEF Lone, Overwrites
    <3> QED
      BY <1>2, <3>1, <3>2 DEF Lone, Fresh, Live
  <2> QED
    <3>1. row'[r].status = "absent"
      BY <1>1, <1>2 DEF Absent
    <3>2. DueInTime(r)'
      BY <3>1 DEF DueInTime
    <3>3. \A a \in Actors : ~Holds(a, r)'
      BY <1>1, <2>1 DEF Holds
    <3> QED
      BY <3>2, <3>3, LetLone
<1>3. CASE row'[r].status = "deleted"
  BY <1>1, <1>3 DEF Lone, Solo, Fresh, Owed, Overwrites, DueInTime, Holds
<1> QED
  BY <1>1, <1>2, <1>3 DEF Absent

\* The time of a run comes while it is listed by those who do not look at it.
LEMMA DueArrivesLone ==
  ASSUME Inv, Inv', NEW r \in Runs, NEW q \in Runs, Lone(r), DueArrives(q)
  PROVE  Lone(r)'
<1> DEFINE s == row[q].step
<1>1. /\ row[q].due = "later" /\ row' = [row EXCEPT ![q].due = "now"] /\ UNCHANGED <<pc, held, plan>>
      /\ happened' = IF Kind[s] = "delay" THEN [happened EXCEPT ![q][s] = "now"] ELSE happened
  BY DEF DueArrives, actors
<1>2. row[q] \in RowType /\ s \in Steps /\ row[q].status = "waiting"
  BY <1>1 DEF Inv, TypeOK, Rows, Good, Listed, Live
<1>3. /\ \A t \in Steps : happened[r][t] = "now" => happened'[r][t] = "now"
      /\ Kind[s] = "delay" => happened'[q][s] = "now"
  BY <1>1, <1>2 DEF Inv, TypeOK
<1>4. /\ row'[q].status = row[q].status /\ row'[q].step = s /\ row'[q].state = row[q].state
      /\ row'[q].due = "now" /\ (r # q => row'[r] = row[r])
  BY <1>1, <1>2 DEF Inv, TypeOK, RowType
<1>5. Solo(r)'
  BY <1>1 DEF Lone, Solo, Holds
<1>6. DueInTime(r)'
  <2>1. CASE r = q
    BY <1>3, <1>4, <2>1 DEF DueInTime
  <2>2. CASE r # q
    BY <1>3, <1>4, <2>2 DEF Lone, DueInTime, Inv, Rows, Good, Listed, Live
  <2> QED
    BY <2>1, <2>2
<1>7. ASSUME NEW a \in Actors PROVE Fresh(a, r)' /\ Owed(a, r)' /\ Overwrites(a, r)'
  <2>0. Redoes(a, r)' = Redoes(a, r)
    BY <1>1 DEF Redoes
  <2>1. Fresh(a, r)'
    <3>1. CASE r # q
      BY <1>1, <1>4, <2>0, <3>1 DEF Lone, Fresh, Holds
    <3>2. CASE r = q /\ Holds(a, r) /\ ~Redoes(a, r)
      <4>1. a \notin Runners
        BY <1>1, <1>2, <3>2, InHand DEF Lone, Fresh
      <4> QED
        BY <1>1, <1>2, <1>4, <3>2, <4>1 DEF Lone, Fresh
    <3>3. CASE ~Holds(a, r) \/ Redoes(a, r)
      BY <1>1, <2>0, <3>3 DEF Fresh, Holds
    <3> QED
      BY <3>1, <3>2, <3>3
  <2>2. Owed(a, r)'
    <3>1. pc[a] \in InPlan /\ plan[a].run = r => held[a][r].step \in Steps
      BY InHand DEF Inv, Actor, Planned
    <3>2. row'[r].status = row[r].status
      BY <1>4
    <3> QED
      BY <1>1, <1>3, <3>1, <3>2 DEF Lone, Owed, Carries
  <2>3. Overwrites(a, r)'
    <3>1. row'[r].status = row[r].status /\ row'[r].state = row[r].state
      BY <1>4
    <3> QED
      BY <1>1, <2>0, <3>1 DEF Lone, Overwrites
  <2> QED
    BY <2>1, <2>2, <2>3
<1> QED
  BY <1>5, <1>6, <1>7 DEF Lone

LEMMA ContendedGrows == ASSUME Next PROVE contended \subseteq contended'
<1>1. ASSUME NEW a, NEW batch, Take(a, batch) PROVE contended \subseteq contended'
  BY <1>1 DEF Take
<1>2. ASSUME NEW a, Interrupt(a) \/ Write(a) PROVE UNCHANGED contended
  BY <1>2 DEF Interrupt, Write
<1>3. ASSUME NEW a, Run(a) \/ WriteFails(a) PROVE contended \subseteq contended'
  BY <1>1, <1>2, <1>3 DEF Run, StartCron, Step, Change, Lookup, Insert, WriteFails
<1>4. ASSUME NEW e, Record(e) \/ Send(e) PROVE contended \subseteq contended'
  BY <1>1, <1>2, <1>4 DEF Record, Send, ListWaiting, Resume, FindEnabled, CheckEnabled, Create
<1>5. ASSUME NEW u, CancelRun(u) \/ \E q \in Runs : FindRun(u, q) PROVE contended \subseteq contended'
  BY <1>1, <1>5 DEF CancelRun, FindRun
<1>6. ASSUME \/ SwitchAutomation \/ OpenRequest \/ CommitEdit \/ CommitDelete \/ ChangeContact
             \/ \E r \in Runs : DueArrives(r)
      PROVE  UNCHANGED contended
  BY <1>6 DEF SwitchAutomation, OpenRequest, CommitEdit, CommitDelete, ChangeContact, DueArrives
<1> QED
  BY <1>2, <1>3, <1>4, <1>5, <1>6 DEF Next

LEMMA NextLone ==
  ASSUME Inv, Inv', LoneInv, Next PROVE LoneInv'
<1> SUFFICES ASSUME NEW r \in Runs, r \notin contended' PROVE Lone(r)'
  BY DEF LoneInv
<1>1. Runners \subseteq Actors /\ Events \subseteq Actors /\ Users \subseteq Actors
  BY DEF Actors
<1>2. Lone(r)
  BY ContendedGrows DEF LoneInv
<1>3. ASSUME NEW a \in Runners, Run(a) \/ WriteFails(a) \/ Interrupt(a) PROVE Lone(r)'
  <2>1. ASSUME NEW q \in Runs, Step(a, q) PROVE Lone(r)'
    BY <1>2, <2>1, StepLone
  <2>2. ASSUME Change(a) \/ Lookup(a) \/ Insert(a) PROVE Lone(r)'
    <3>1. pc[a] \in InPlan \ {"write"} /\ UNCHANGED <<held, row, happened>>
      BY <2>2 DEF Change, Lookup, Insert, InPlan
    <3>2. Throw(a) \/ (UNCHANGED plan /\ \E where : Go(a, where))
      BY <2>2 DEF Change, Lookup, Insert
    <3> QED
      BY <1>2, <3>1, <3>2, MiddleLone
  <2> QED
    BY <1>1, <1>2, <1>3, <2>1, <2>2, StartCronLone, WriteLone, WriteFailsLone, InterruptLone DEF Run
<1>4. ASSUME NEW e \in Events, Record(e) \/ Send(e) \/ Interrupt(e) PROVE Lone(r)'
  <2>1. ASSUME Record(e) \/ FindEnabled(e) \/ CheckEnabled(e) PROVE Lone(r)'
    <3>1. pc[e] # "write" /\ UNCHANGED <<row, happened, held, plan>>
      BY <2>1 DEF Record, FindEnabled, CheckEnabled
    <3>2. pc'[e] \notin InPlan /\ \A b \in Actors \ {e} : pc'[b] = pc[b]
      BY <1>1, <2>1 DEF Record, FindEnabled, CheckEnabled, Go, Inv, TypeOK, InPlan
    <3> QED
      BY <1>1, <1>2, <3>1, <3>2, StrollLone
  <2> QED
    BY <1>1, <1>2, <1>4, <2>1, ListWaitingLone, ResumeLone, WriteLone, CreateLone, InterruptLone DEF Send
<1>5. ASSUME NEW u \in Users, CancelRun(u) \/ Interrupt(u) \/ \E q \in Runs : FindRun(u, q) PROVE Lone(r)'
  BY <1>1, <1>2, <1>5, CancelRunLone, FindRunLone, InterruptLone
<1>6. ASSUME SwitchAutomation \/ OpenRequest \/ CommitEdit \/ ChangeContact PROVE Lone(r)'
  <2>1. UNCHANGED <<pc, held, plan, row, happened>>
    BY <1>6 DEF SwitchAutomation, OpenRequest, CommitEdit, ChangeContact, actors
  <2> QED
    BY <1>2, <2>1 DEF Lone, Solo, Fresh, Owed, Overwrites, Redoes, DueInTime, Holds
<1> QED
  BY <1>2, <1>3, <1>4, <1>5, <1>6, CommitDeleteLone, DueArrivesLone DEF Next

\* What the actors hold of runs nobody contends for is true, unless their own
\* update of it was made and its answer lost, and the updates that take them on
\* from a delay or a wait are owed.
THEOREM LoneHolds == Spec => []LoneInv
<1>1. Init => LoneInv
  <2> SUFFICES ASSUME Init, NEW r \in Runs PROVE Lone(r)
    BY DEF LoneInv
  <2>1. row[r].status = "absent"
    BY DEF Init, Absent
  <2>2. \A a \in Actors : ~Holds(a, r) /\ pc[a] \notin InPlan
    BY DEF Init, Holds, InPlan
  <2> QED
    BY <2>1, <2>2 DEF Lone, Solo, Fresh, Owed, Overwrites, Redoes, DueInTime, InPlan
<1>2. Inv /\ Inv' /\ LoneInv /\ [Next]_vars => LoneInv'
  <2>1. ASSUME LoneInv, UNCHANGED vars PROVE LoneInv'
    BY <2>1 DEF vars, actors, LoneInv, Lone, Solo, Fresh, Owed, Overwrites, Redoes, DueInTime, Holds
  <2> QED
    BY <2>1, NextLone
<1> QED
  BY <1>1, <1>2, Invariance, PTL DEF Spec

-----------------------------------------------------------------------------
(* What no step does to a run nobody contends for *)

\* A row is written by an actor that holds it, created, deleted with the
\* automation, or comes due.
LEMMA RowSteps ==
  ASSUME Inv, Next, NEW r \in Runs, row'[r] # row[r]
  PROVE  \/ \E a \in Actors : pc[a] = "write" /\ plan[a].run = r /\ Holds(a, r) /\ (Write(a) \/ WriteFails(a) \/ CancelRun(a))
         \/ row[r].status = "absent"
         \/ row'[r].status = "deleted" /\ row'[r].state = Absent.state
         \/ DueArrives(r)
<1>1. ASSUME NEW a \in Actors, Write(a) \/ WriteFails(a) \/ CancelRun(a)
      PROVE  pc[a] = "write" /\ plan[a].run = r /\ Holds(a, r)
  <2>1. pc[a] = "write"
    BY <1>1 DEF Write, WriteFails, CancelRun
  <2>2. plan[a].run \in Runs /\ Holds(a, plan[a].run)
    BY <2>1, AtWrite
  <2>3. plan[a].run = r
    <3>1. Update(a) \/ UNCHANGED row \/ CancelRun(a)
      BY <1>1 DEF Write, WriteFails
    <3>2. CASE Update(a)
      BY <2>1, <3>2, UpdateIs
    <3>3. CASE CancelRun(a)
      BY <2>2, <3>3 DEF CancelRun, Inv, TypeOK
    <3> QED
      BY <3>1, <3>2, <3>3
  <2> QED
    BY <2>1, <2>2, <2>3
<1>2. ASSUME NEW e \in Events, Create(e) PROVE row[r].status = "absent"
  <2>1. pc[e] = "create" /\ r = e
    BY <1>2 DEF Create, Inv, TypeOK
  <2> QED
    BY <2>1 DEF Inv, Born, Absent
<1>3. ASSUME CommitDelete
      PROVE  row[r].status = "absent" \/ (row'[r].status = "deleted" /\ row'[r].state = Absent.state)
  <2>1. row'[r] = IF row[r].status = "absent" THEN Absent ELSE [Absent EXCEPT !.status = "deleted"]
    BY <1>3 DEF CommitDelete
  <2> QED
    BY <2>1 DEF Absent
<1>4. ASSUME NEW q \in Runs, DueArrives(q) PROVE q = r
  BY <1>4 DEF DueArrives, Inv, TypeOK
<1>5. ASSUME NEW a \in Actors, Interrupt(a) PROVE UNCHANGED row
  BY <1>5 DEF Interrupt
<1>6. ASSUME NEW a \in Runners, Run(a) PROVE UNCHANGED row \/ Write(a)
  BY <1>6 DEF Run, StartCron, Step, Change, Lookup, Insert
<1>7. ASSUME NEW e \in Events, Record(e) \/ Send(e) PROVE UNCHANGED row \/ Write(e) \/ Create(e)
  BY <1>7 DEF Record, Send, ListWaiting, Resume, FindEnabled, CheckEnabled
<1>8. ASSUME NEW u \in Users, \E q \in Runs : FindRun(u, q) PROVE UNCHANGED row
  BY <1>8 DEF FindRun
<1>9. ASSUME SwitchAutomation \/ OpenRequest \/ CommitEdit \/ ChangeContact PROVE UNCHANGED row
  BY <1>9 DEF SwitchAutomation, OpenRequest, CommitEdit, ChangeContact
<1>10. Runners \subseteq Actors /\ Events \subseteq Actors /\ Users \subseteq Actors
  BY DEF Actors
<1> QED
  BY <1>1, <1>2, <1>3, <1>4, <1>5, <1>6, <1>7, <1>8, <1>9, <1>10 DEF Next

\* Nobody holds a run that is over and that nobody contends for, but a runner
\* that is about to overwrite its own update.
LEMMA EndedUnheld ==
  ASSUME Inv, NEW r \in Runs, Lone(r), row[r].status \in Ended, NEW a \in Actors, Holds(a, r)
  PROVE  Redoes(a, r) /\ a \in Runners /\ plan[a].row.status = "failed"
<1>1. held[a][r].status \in Live
  BY InHand
<1>2. Redoes(a, r)
  BY <1>1 DEF Lone, Fresh, Live, Ended
<1> QED
  BY <1>2 DEF Redoes, Inv, Actor, Planned, InPlan

\* A run nobody contends for stays what it ended as, and mails nothing more:
\* whoever could write it or mail for it would have to hold it.  Only a runner
\* that lost the answer to its own update holds it still, and fails it.
THEOREM LoneEnded == Spec => LoneRunsStayEnded
<1> DEFINE Stays(r) == /\ \/ row'[r].status \in {row[r].status, "deleted"}
                          \/ row'[r].status = "failed" /\ \E a \in Runners : Redoes(a, r)
                       /\ emails'[r] = emails[r]
<1>1. ASSUME Inv, LoneInv, Next, NEW r \in Runs, row[r].status \in Ended, r \notin contended'
      PROVE  Stays(r)
  <2>1. Lone(r)
    BY <1>1, ContendedGrows DEF LoneInv
  <2>2. \/ row'[r].status \in {row[r].status, "deleted"}
        \/ row'[r].status = "failed" /\ \E a \in Runners : Redoes(a, r)
    <3>1. ~DueArrives(r)
      BY <1>1 DEF DueArrives, Inv, Rows, Good, Listed, Ended, Live
    <3>2. row[r].status \notin {"absent", "deleted"}
      BY <1>1 DEF Ended
    <3>3. ASSUME NEW a \in Actors, pc[a] = "write", plan[a].run = r, Holds(a, r),
                 Write(a) \/ WriteFails(a) \/ CancelRun(a)
          PROVE  row'[r].status = "failed" /\ \E b \in Runners : Redoes(b, r)
      <4>1. Redoes(a, r) /\ a \in Runners /\ plan[a].row.status = "failed"
        BY <1>1, <2>1, <3>3, EndedUnheld
      <4>2. Write(a)
        BY <3>3, <4>1, RunnerIs DEF WriteFails, CancelRun
      <4>3. Update(a)
        BY <4>2 DEF Write
      <4>4. row'[r].status = "failed"
        BY <1>1, <3>2, <3>3, <4>1, <4>3, UpdateIs
      <4> QED
        BY <4>1, <4>4
    <3>4. CASE row'[r] # row[r]
      BY <1>1, <3>1, <3>2, <3>3, <3>4, RowSteps
    <3> QED
      BY <3>4
  <2>3. ASSUME NEW a \in Runners, Insert(a) PROVE emails'[r] = emails[r]
    <3>1. a \in Actors /\ pc[a] = "insert"
      BY <2>3, RunnerIs DEF Insert
    <3>2. plan[a].run # r
      <4>1. ~Holds(a, r)
        BY <1>1, <2>1, <3>1, EndedUnheld DEF Redoes
      <4> QED
        BY <1>1, <3>1, <4>1 DEF Inv, Actor, Planned, InPlan
    <3> QED
      BY <1>1, <2>3, <3>2 DEF Insert, Inv, TypeOK
  <2>4. UNCHANGED emails \/ \E a \in Runners : Insert(a)
    BY <1>1 DEF Next, Run, Send, StartCron, Step, Change, Lookup, Write, WriteFails, Interrupt, Record,
       ListWaiting, Resume, FindEnabled, CheckEnabled, Create, CancelRun, FindRun, SwitchAutomation,
       OpenRequest, CommitEdit, CommitDelete, ChangeContact, DueArrives
  <2> QED
    BY <2>2, <2>3, <2>4
<1>2. Inv /\ LoneInv /\ [Next]_vars =>
        [\A r \in Runs : row[r].status \in Ended /\ r \notin contended' =>
           /\ \/ row'[r].status \in {row[r].status, "deleted"}
              \/ row'[r].status = "failed" /\ \E a \in Runners : Redoes(a, r)
           /\ emails'[r] = emails[r]]_vars
  BY <1>1
<1> QED
  BY <1>2, Invariance, LoneHolds, PTL DEF Spec, LoneRunsStayEnded

\* A run nobody contends for goes on from a delay or a wait only once the delay
\* has passed, or its event has come, since it last came to that step.
THEOREM LoneWaits == Spec => LoneRunsWait
<1> DEFINE Moved(r) ==
      LET s == row[r].step x == row[r] y == row'[r] IN
      /\ x.status \in Live /\ Kind[s] \in {"delay", "wait_for_event"}
      /\ \/ y.status = "queued" /\ y.step # s
         \/ y.state[s] = "completed" /\ x.state[s] # "completed"
<1>1. ASSUME Inv, LoneInv, Next, NEW r \in Runs, r \notin contended', Moved(r)
      PROVE  happened[r][row[r].step] = "now"
  <2>1. Lone(r) /\ row[r] \in RowType /\ row[r].step \in Steps
    BY <1>1, ContendedGrows DEF LoneInv, Inv, TypeOK, Rows, Good, Listed, Live
  <2>2. row'[r] # row[r]
    BY <1>1
  <2>3. CASE DueArrives(r)
    <3>1. row'[r].step = row[r].step /\ row'[r].state = row[r].state
      BY <1>1, <2>1, <2>3 DEF DueArrives, Inv, TypeOK, RowType, actors
    <3> QED
      BY <1>1, <3>1
  <2>4. CASE row'[r].status = "deleted" /\ row'[r].state = Absent.state
    BY <1>1, <2>1, <2>4 DEF Absent
  <2>5. ASSUME NEW a \in Actors, pc[a] = "write", plan[a].run = r, Holds(a, r),
               Write(a) \/ WriteFails(a) \/ CancelRun(a),
               row[r].status # "deleted"
        PROVE  happened[r][row[r].step] = "now"
    <3>1. PICK u \in RowType : u = plan[a].row
      BY <1>1, <2>5, AtWrite
    <3>2. \/ row'[r].status = u.status /\ (row'[r].state = u.state \/ row'[r].state = row[r].state)
          \/ row'[r] = row[r]
      <4>1. CASE Update(a)
        BY <1>1, <2>5, <3>1, <4>1, UpdateIs
      <4>2. CASE CancelRun(a)
        <5>1. row' = [row EXCEPT ![r].status = u.status, ![r].state = u.state, ![r].due = u.due]
          BY <2>2, <2>5, <3>1, <4>2 DEF CancelRun
        <5> QED
          BY <1>1, <2>1, <5>1 DEF Inv, TypeOK, RowType
      <4> QED
        BY <2>5, <4>1, <4>2 DEF Write, WriteFails
    <3>3. CASE Redoes(a, r)
      <4>1. /\ u.status = "failed"
            /\ \A s \in Steps : u.state[s] = "completed" => row[r].state[s] = "completed"
        <5>1. u.status = "failed"
          BY <1>1, <2>5, <3>1, <3>3 DEF Redoes, Inv, Actor, Planned, InPlan
        <5> QED
          BY <2>1, <2>5, <3>1, <3>3, <5>1 DEF Lone, Overwrites
      <4> QED
        BY <1>1, <2>1, <2>2, <3>2, <4>1
    <3>4. CASE ~Redoes(a, r)
      <4>1. PICK h \in RowType : h = held[a][r] /\ h.step = row[r].step /\ h.state = row[r].state
        BY <1>1, <2>1, <2>5, <3>4, InHand DEF Lone, Fresh
      <4>2. TakesOn(u, h)
        BY <1>1, <2>2, <3>2, <4>1 DEF TakesOn
      <4> QED
        BY <1>1, <2>1, <2>5, <3>1, <4>1, <4>2 DEF Lone, Owed, InPlan
    <3> QED
      BY <3>3, <3>4
  <2>6. row[r].status \notin {"absent", "deleted"}
    BY <1>1 DEF Live
  <2> QED
    BY <1>1, <2>2, <2>3, <2>4, <2>5, <2>6, RowSteps
<1>2. Inv /\ LoneInv /\ [Next]_vars =>
        [\A r \in Runs \ contended' :
           LET s == row[r].step x == row[r] y == row'[r] IN
           /\ x.status \in Live /\ Kind[s] \in {"delay", "wait_for_event"}
           /\ \/ y.status = "queued" /\ y.step # s
              \/ y.state[s] = "completed" /\ x.state[s] # "completed"
           => happened[r][s] = "now"]_vars
  BY <1>1
<1> QED
  BY <1>2, Invariance, LoneHolds, PTL DEF Spec, LoneRunsWait

=============================================================================
