------------------------ MODULE InboundIngestion_proofs ------------------------
(***************************************************************************)
(* Proofs about InboundIngestion, for any number of events, handlers,      *)
(* attachments, rules, posts and faults.                                   *)
(*                                                                         *)
(* The primary row is a claim: whoever inserts it owns the event until it  *)
(* gives the row its last status.  What has been reserved, stored and      *)
(* committed for an event is therefore a function of where its one owner   *)
(* stands, and that is what the invariant says, place by place.            *)
(***************************************************************************)
EXTENDS InboundIngestion, TLAPS

-----------------------------------------------------------------------------
(* The invariant *)

\* What a handler has in hand fits the place it stands at.
HandsOK ==
  \A h \in Handlers :
    /\ pc[h] # "idle" => job[h] \in Events
    /\ pc[h] \in {"record", "recordFailed"} => rules[h].this \in Rules
    /\ pc[h] \in {"release", "cleanup", "terminal"} => verdict[h] \in Terminal

Typed == TypeOK /\ HandsOK

\* A handler owns its event from the insert of the row until its last status,
\* and while it forwards the email.
Owns(h) == pc[h] \in AtWork \cup Forwarding

Claim(h) ==
  /\ pc[h] \in AtWork =>
       \/ primary[job[h]] = "processing"
       \/ /\ primary[job[h]] = "processed" /\ job[h] \in misjudged
          /\ pc[h] \in {"release", "cleanup", "terminal"}
  /\ pc[h] \in Forwarding => primary[job[h]] = "processed"

\* What the owner has done for the event, place by place.
Charge(e) == Billed => e \in charged

Stage(h) ==
  LET e == job[h] IN
  /\ pc[h] \in {"idle", "insert"} => keys[h] = {}
  /\ pc[h] \in {"parse", "reserve"} => Nothing(e) /\ keys[h] = {}
  /\ pc[h] = "upload" => received[e] = 0 /\ Charge(e) /\ objects[e] = keys[h]
  /\ pc[h] = "commit" => received[e] = 0 /\ Charge(e) /\ objects[e] = Attachments /\ keys[h] = Attachments
  /\ pc[h] = "mark" => Complete(e) /\ keys[h] = Attachments
  /\ pc[h] = "release" /\ e \notin hurt => received[e] = 0 /\ objects[e] = keys[h]
  /\ pc[h] = "cleanup" /\ e \notin hurt =>
       received[e] = 0 /\ e \notin charged /\ objects[e] = keys[h]
  /\ pc[h] = "terminal" /\ e \notin hurt => Nothing(e)

\* How far the forwarding of the event has come.
Unsent(e, r) == sent[e][r] = 0 /\ attempt[e][r] = {}

Progress(h) ==
  LET e == job[h] IN
  /\ pc[h] \in AtWork => \A r \in Rules : Unsent(e, r)
  /\ pc[h] \in Forwarding =>
       /\ \A r \in rules[h].left : Unsent(e, r)
       /\ pc[h] \in {"record", "recordFailed"} => rules[h].this \notin rules[h].left
       /\ pc[h] = "record" => sent[e][rules[h].this] = 1
       /\ pc[h] = "recordFailed" /\ e \notin hurt => sent[e][rules[h].this] = 0 /\ attempt[e][rules[h].this] = {}

Hand(h) == Claim(h) /\ Stage(h) /\ Progress(h)

\* What an event has, by the status of its row.
Worked(e) == \E h \in Handlers : job[h] = e /\ pc[h] \in AtWork

Outcome(e) ==
  /\ received[e] \in {0, 1}
  /\ primary[e] = "absent" => Nothing(e)
  /\ primary[e] = "processed" => received[e] = 1 /\ (e \notin misjudged => Complete(e))
  /\ primary[e] \in Terminal /\ e \notin hurt => Nothing(e)
  /\ primary[e] = "processing" /\ e \notin hurt => Worked(e)

\* Nothing is forwarded before the event is processed, and an attempt's row
\* tells what was done.
Forwarded(e) ==
  \A r \in Rules :
    /\ sent[e][r] \in {0, 1}
    /\ primary[e] # "processed" => Unsent(e, r)
    /\ "queued" \in attempt[e][r] => sent[e][r] = 1
    /\ attempt[e][r] \cap {"skipped", "failed"} # {} /\ e \notin hurt => sent[e][r] = 0

Inv ==
  /\ Typed
  /\ \A h, i \in Handlers : Owns(h) /\ Owns(i) /\ job[h] = job[i] => h = i
  /\ \A h \in Handlers : Hand(h)
  /\ \A e \in Events : Outcome(e) /\ Forwarded(e)

LEMMA InvSafe == Inv => OneOwner /\ IngestedOnce /\ AllOrNothing /\ AttemptsAreHonest
<1> SUFFICES ASSUME Inv PROVE OneOwner /\ IngestedOnce /\ AllOrNothing /\ AttemptsAreHonest
  OBVIOUS
<1>1. OneOwner
  BY DEF Inv, Hand, Claim, Owns, OneOwner
<1>2. IngestedOnce
  BY DEF Inv, Outcome, Forwarded, Unsent, IngestedOnce
<1>3. AllOrNothing
  <2>1. \A e \in Events : primary[e] \in {"absent", "processing", "processed"} \cup Terminal
    BY DEF Inv, Typed, TypeOK
  <2> QED
    BY <2>1 DEF Inv, Outcome, Worked, AllOrNothing, Terminal, Refusals
<1>4. AttemptsAreHonest
  BY DEF Inv, Forwarded, Unsent, AttemptsAreHonest
<1> QED
  BY <1>1, <1>2, <1>3, <1>4

-----------------------------------------------------------------------------
(* Types *)

LEMMA InitTyped == Init => Typed
BY DEF Init, Typed, TypeOK, HandsOK, Places, AtWork, Forwarding

\* The steps that write into a record or a table.
HandsRules == [left: SUBSET Rules, this: Rules \cup {None}]
Status == {"queued", "skipped", "failed"}

LEMMA Cell ==
  ASSUME NEW S, NEW T, NEW V, NEW f \in [S -> [T -> V]], NEW s \in S, NEW t \in T, NEW v \in V
  PROVE  [f EXCEPT ![s][t] = v] \in [S -> [T -> V]]
OBVIOUS

LEMMA MarkProcessedTyped == ASSUME Typed, NEW h \in Handlers, MarkProcessed(h) PROVE Typed'
<1>1. rules \in [Handlers -> HandsRules] /\ rules' = [rules EXCEPT ![h].left = Rules]
  BY DEF Typed, TypeOK, HandsRules, MarkProcessed
<1>2. rules' \in [Handlers -> HandsRules]
  BY <1>1 DEF HandsRules
<1>3. pc \in [Handlers -> Places] /\ pc' = [pc EXCEPT ![h] = "forward"]
  BY DEF Typed, TypeOK, MarkProcessed, Go
<1>4. pc' \in [Handlers -> Places] /\ pc'[h] = "forward" /\ \A i \in Handlers : i # h => pc'[i] = pc[i]
  BY <1>3 DEF Places, Forwarding
<1>5. \A i \in Handlers : i # h => rules'[i] = rules[i]
  BY <1>1
<1>6. TypeOK'
  BY <1>2, <1>4 DEF Typed, TypeOK, MarkProcessed, Calm, HandsRules
<1>7. pc[h] # "idle" /\ UNCHANGED <<job, verdict>>
  BY DEF MarkProcessed
<1>8. HandsOK'
  BY <1>4, <1>5, <1>7 DEF Typed, HandsOK
<1> QED
  BY <1>6, <1>8 DEF Typed

LEMMA CleanupTyped == ASSUME Typed, NEW h \in Handlers, Cleanup(h) PROVE Typed'
<1>1. pc[h] = "cleanup" /\ job[h] \in Events
  BY DEF Typed, HandsOK, Cleanup
<1>2. pc' \in [Handlers -> Places] /\ \A i \in Handlers : pc'[i] = pc[i] \/ (i = h /\ pc'[h] = "terminal")
  <2>1. pc \in [Handlers -> Places] /\ "terminal" \in Places
    BY DEF Typed, TypeOK, Places, AtWork
  <2>2. pc' = pc \/ pc' = [pc EXCEPT ![h] = "terminal"]
    BY DEF Cleanup, Go
  <2> QED
    BY <2>1, <2>2
<1>3. keys' \in [Handlers -> SUBSET Attachments]
  BY DEF Typed, TypeOK, Cleanup
<1>4. hurt' \subseteq Events /\ misjudged' \subseteq hurt' /\ faults' \in Nat
  BY <1>1 DEF Typed, TypeOK, Cleanup, Hurt, Fault, Calm
<1>5. objects \in [Events -> SUBSET Attachments]
  BY DEF Typed, TypeOK
<1>6. objects' \in [Events -> SUBSET Attachments]
  BY <1>1, <1>5 DEF Cleanup
<1>7. UNCHANGED <<posts, unanswered, primary, received, charged, sent, attempt, job, rules, verdict>>
  BY DEF Cleanup
<1>8. TypeOK'
  BY <1>2, <1>3, <1>4, <1>6, <1>7 DEF Typed, TypeOK
<1>9. HandsOK'
  BY <1>1, <1>2, <1>7 DEF Typed, HandsOK
<1> QED
  BY <1>8, <1>9 DEF Typed

LEMMA ForwardTyped == ASSUME Typed, NEW h \in Handlers, Forward(h) PROVE Typed'
<1>1. pc[h] = "forward" /\ job[h] \in Events
  BY DEF Typed, HandsOK, Forward
<1>2. CASE rules[h].left = {} /\ Go(h, "answer") /\ UNCHANGED <<sent, attempt, rules>>
  BY <1>1, <1>2 DEF Forward, Typed, TypeOK, HandsOK, Go, Places, Calm
<1>3. ASSUME NEW r \in rules[h].left,
             rules' = [rules EXCEPT ![h] = [left |-> @.left \ {r}, this |-> r]],
             \/ attempt' = [attempt EXCEPT ![job[h]][r] = @ \cup {"skipped"}] /\ UNCHANGED <<pc, sent>>
             \/ sent' = [sent EXCEPT ![job[h]][r] = @ + 1] /\ Go(h, "record") /\ UNCHANGED attempt
      PROVE  Typed'
  <2>1. rules \in [Handlers -> HandsRules] /\ r \in Rules
    BY <1>3 DEF Typed, TypeOK, HandsRules
  <2>2. rules' \in [Handlers -> HandsRules] /\ rules'[h].this = r
        /\ \A i \in Handlers : i # h => rules'[i] = rules[i]
    BY <1>3, <2>1 DEF HandsRules
  <2>3. attempt' \in [Events -> [Rules -> SUBSET Status]]
    <3>1. attempt \in [Events -> [Rules -> SUBSET Status]]
      BY DEF Typed, TypeOK, Status
    <3>2. attempt[job[h]][r] \cup {"skipped"} \in SUBSET Status
      BY <1>1, <2>1, <3>1 DEF Status
    <3>3. [attempt EXCEPT ![job[h]][r] = attempt[job[h]][r] \cup {"skipped"}] \in [Events -> [Rules -> SUBSET Status]]
      BY <1>1, <2>1, <3>1, <3>2, Cell
    <3> QED
      BY <1>1, <1>3, <2>1, <3>1, <3>3
  <2>4. sent[job[h]][r] + 1 \in Nat /\ sent \in [Events -> [Rules -> Nat]]
    BY <1>1, <2>1 DEF Typed, TypeOK
  <2>5. sent' \in [Events -> [Rules -> Nat]]
    <3>1. [sent EXCEPT ![job[h]][r] = sent[job[h]][r] + 1] \in [Events -> [Rules -> Nat]]
      BY <1>1, <2>1, <2>4, Cell
    <3> QED
      BY <1>1, <1>3, <2>4, <3>1
  <2>6. pc' \in [Handlers -> Places] /\ \A i \in Handlers : pc'[i] = pc[i] \/ (i = h /\ pc'[h] = "record")
    <3>1. pc \in [Handlers -> Places] /\ "record" \in Places
      BY DEF Typed, TypeOK, Places, Forwarding
    <3>2. pc' = pc \/ pc' = [pc EXCEPT ![h] = "record"]
      BY <1>3 DEF Go
    <3> QED
      BY <3>1, <3>2
  <2>7. UNCHANGED <<posts, unanswered, misjudged, primary, received, charged, objects, job, keys, verdict, hurt, faults>>
    BY DEF Forward, Calm
  <2>8. TypeOK'
    BY <2>2, <2>3, <2>5, <2>6, <2>7 DEF Typed, TypeOK, HandsRules, Status
  <2>9. HandsOK'
    BY <1>1, <2>1, <2>2, <2>6, <2>7 DEF Typed, HandsOK
  <2> QED
    BY <2>8, <2>9 DEF Typed
<1> QED
  BY <1>2, <1>3 DEF Forward

\* A step that turns to markTerminal, whatever else it changes in the store.
LEMMA RefuseTyped ==
  ASSUME Typed, NEW h \in Handlers, NEW status \in Terminal, NEW place \in {"release", "cleanup", "terminal"},
         pc[h] # "idle", Refuse(h, status, place)
  PROVE  /\ pc' \in [Handlers -> Places] /\ verdict' \in [Handlers -> Terminal \cup {"none"}]
         /\ UNCHANGED <<job, keys, rules>> /\ HandsOK'
BY DEF Typed, TypeOK, HandsOK, Refuse, Go, Places, AtWork

LEMMA UploadFailsTyped == ASSUME Typed, NEW h \in Handlers, UploadFails(h) PROVE Typed'
<1>1. pc[h] # "idle" /\ job[h] \in Events /\ Refuse(h, "storage_failure", "release")
  BY DEF Typed, HandsOK, UploadFails
<1>2. objects \in [Events -> SUBSET Attachments]
  BY DEF Typed, TypeOK
<1>3. objects' \in [Events -> SUBSET Attachments]
  BY <1>1, <1>2 DEF UploadFails
<1>4. hurt' \subseteq Events /\ misjudged' \subseteq hurt' /\ faults' \in Nat
  BY <1>1 DEF Typed, TypeOK, UploadFails, Hurt, Fault
<1>5. "storage_failure" \in Terminal
  BY DEF Terminal
<1>6. /\ pc' \in [Handlers -> Places] /\ verdict' \in [Handlers -> Terminal \cup {"none"}]
      /\ UNCHANGED <<job, keys, rules>> /\ HandsOK'
  BY <1>1, <1>5, RefuseTyped
<1> QED
  BY <1>3, <1>4, <1>6 DEF UploadFails, Typed, TypeOK

LEMMA CommitFailsTyped == ASSUME Typed, NEW h \in Handlers, CommitFails(h) PROVE Typed'
<1>1. pc[h] # "idle" /\ job[h] \in Events /\ Refuse(h, "storage_failure", "release")
  BY DEF Typed, HandsOK, CommitFails
<1>2. received \in [Events -> Nat]
  BY DEF Typed, TypeOK
<1>3. received' \in [Events -> Nat]
  BY <1>1, <1>2 DEF CommitFails
<1>4. hurt' \subseteq Events /\ misjudged' \subseteq hurt' /\ faults' \in Nat
  BY <1>1 DEF Typed, TypeOK, CommitFails, Hurt, Fault
<1>5. "storage_failure" \in Terminal
  BY DEF Terminal
<1>6. /\ pc' \in [Handlers -> Places] /\ verdict' \in [Handlers -> Terminal \cup {"none"}]
      /\ UNCHANGED <<job, keys, rules>> /\ HandsOK'
  BY <1>1, <1>5, RefuseTyped
<1> QED
  BY <1>3, <1>4, <1>6 DEF CommitFails, Typed, TypeOK

LEMMA ForwardFailsTyped == ASSUME Typed, NEW h \in Handlers, ForwardFails(h) PROVE Typed'
<1>1. pc[h] = "forward" /\ job[h] \in Events
  BY DEF Typed, HandsOK, ForwardFails
<1>2. CASE Fault /\ Go(h, "answer") /\ UNCHANGED <<sent, rules, hurt>>
  BY <1>1, <1>2 DEF ForwardFails, Typed, TypeOK, HandsOK, Go, Places, Fault
<1>3. ASSUME NEW r \in rules[h].left,
             rules' = [rules EXCEPT ![h] = [left |-> @.left \ {r}, this |-> r]],
             Go(h, "recordFailed"),
             \/ Fault /\ UNCHANGED <<sent, hurt>>
             \/ Hurt(job[h]) /\ sent' = [sent EXCEPT ![job[h]][r] = @ + 1]
      PROVE  Typed'
  <2>1. rules \in [Handlers -> HandsRules] /\ r \in Rules
    BY <1>3 DEF Typed, TypeOK, HandsRules
  <2>2. rules' \in [Handlers -> HandsRules] /\ rules'[h].this = r
        /\ \A i \in Handlers : i # h => rules'[i] = rules[i]
    BY <1>3, <2>1 DEF HandsRules
  <2>3. sent[job[h]][r] + 1 \in Nat /\ sent \in [Events -> [Rules -> Nat]]
    BY <1>1, <2>1 DEF Typed, TypeOK
  <2>4. sent' \in [Events -> [Rules -> Nat]]
    <3>1. [sent EXCEPT ![job[h]][r] = sent[job[h]][r] + 1] \in [Events -> [Rules -> Nat]]
      BY <1>1, <2>1, <2>3, Cell
    <3> QED
      BY <1>1, <1>3, <2>3, <3>1
  <2>5. pc' \in [Handlers -> Places] /\ pc'[h] = "recordFailed" /\ \A i \in Handlers : i # h => pc'[i] = pc[i]
    BY <1>3 DEF Typed, TypeOK, Go, Places, Forwarding
  <2>6. hurt' \subseteq Events /\ misjudged' \subseteq hurt' /\ faults' \in Nat
    BY <1>1, <1>3 DEF Typed, TypeOK, ForwardFails, Hurt, Fault
  <2>7. UNCHANGED <<posts, unanswered, primary, received, charged, objects, attempt, job, keys, verdict>>
    BY DEF ForwardFails
  <2>8. TypeOK'
    BY <2>2, <2>4, <2>5, <2>6, <2>7 DEF Typed, TypeOK, HandsRules
  <2>9. HandsOK'
    BY <1>1, <2>1, <2>2, <2>5, <2>7 DEF Typed, HandsOK
  <2> QED
    BY <2>8, <2>9 DEF Typed
<1> QED
  BY <1>2, <1>3 DEF ForwardFails

LEMMA RecordFailsTyped == ASSUME Typed, NEW h \in Handlers, RecordFails(h) PROVE Typed'
<1>1. job[h] \in Events /\ rules[h].this \in Rules
      /\ pc[h] \in {"record", "recordFailed"} /\ (pc'[h] = "recordFailed" => pc[h] = "record")
  BY DEF Typed, TypeOK, HandsOK, RecordFails, Go
<1>2. attempt \in [Events -> [Rules -> SUBSET Status]]
  BY DEF Typed, TypeOK, Status
<1>3. attempt[job[h]][rules[h].this] \cup {"queued"} \in SUBSET Status
  BY <1>1, <1>2 DEF Status
<1>4. [attempt EXCEPT ![job[h]][rules[h].this] = attempt[job[h]][rules[h].this] \cup {"queued"}]
        \in [Events -> [Rules -> SUBSET Status]]
  BY <1>1, <1>2, <1>3, Cell
<1>5. attempt' \in [Events -> [Rules -> SUBSET Status]]
  BY <1>1, <1>2, <1>4 DEF RecordFails
<1>6. pc' \in [Handlers -> Places] /\ \A i \in Handlers : pc'[i] = pc[i] \/ (i = h /\ pc'[h] \in {"recordFailed", "answer"})
  BY DEF Typed, TypeOK, RecordFails, Go, Places, Forwarding
<1>7. hurt' \subseteq Events /\ misjudged' \subseteq hurt' /\ faults' \in Nat
  BY <1>1 DEF Typed, TypeOK, RecordFails, Hurt, Fault
<1>8. UNCHANGED <<posts, unanswered, primary, received, charged, objects, sent, hands>>
  BY DEF RecordFails
<1>9. TypeOK'
  BY <1>5, <1>6, <1>7, <1>8 DEF Typed, TypeOK, Status, hands
<1>10. HandsOK'
  BY <1>1, <1>6, <1>8 DEF Typed, HandsOK, hands
<1> QED
  BY <1>9, <1>10 DEF Typed

\* Every action keeps the types.
LEMMA TypedKept == ASSUME Typed, [Next]_vars PROVE Typed'
<1> USE DEF Typed, TypeOK, HandsOK, Go, Calm, hands
<1>1. ASSUME NEW h \in Handlers, NEW e \in Events, Post(h, e) PROVE Typed'
  BY <1>1, InboundAssumption DEF Post, store, Fault, Places
<1>2. ASSUME NEW h \in Handlers, InsertPrimary(h) PROVE Typed'
  <2>1. /\ UNCHANGED <<posts, unanswered, misjudged, received, charged, objects, sent, attempt, hurt, faults>>
        /\ primary' = primary \/ primary' = [primary EXCEPT ![job[h]] = "processing"]
    BY <1>2 DEF InsertPrimary
  <2>2. CASE Go(h, "parse") /\ UNCHANGED hands
    <3>1. primary' \in [Events -> {"absent", "processing", "processed"} \cup Terminal]
      BY <2>1
    <3>2. pc[h] = "insert" /\ job[h] \in Events /\ "parse" \in Places
      BY <1>2 DEF InsertPrimary, Places, AtWork
    <3>3. pc' \in [Handlers -> Places] /\ pc'[h] = "parse" /\ \A i \in Handlers : i # h => pc'[i] = pc[i]
      BY <2>2, <3>2
    <3>4. TypeOK'
      BY <2>1, <2>2, <3>1, <3>3
    <3>5. HandsOK'
      BY <2>2, <3>2, <3>3
    <3> QED
      BY <3>4, <3>5
  <2>3. CASE Go(h, "duplicate") /\ UNCHANGED hands
    BY <1>2, <2>1, <2>3 DEF InsertPrimary, Places
  <2>4. CASE Drop(h)
    BY <1>2, <2>1, <2>4 DEF Drop, Places
  <2> QED
    BY <1>2, <2>2, <2>3, <2>4 DEF InsertPrimary
<1>3. ASSUME NEW h \in Handlers, RecordDuplicate(h) PROVE Typed'
  BY <1>3 DEF RecordDuplicate, store, Places
<1>4. ASSUME NEW h \in Handlers, Answer(h) PROVE Typed'
  BY <1>4 DEF Answer, store, Drop, Fault, Places
<1>5. ASSUME NEW h \in Handlers, Parse(h) PROVE Typed'
  BY <1>5 DEF Parse, store, Refuse, Places, AtWork, Terminal, Refusals
<1>6. ASSUME NEW h \in Handlers, Reserve(h) PROVE Typed'
  BY <1>6 DEF Reserve, Refuse, Places, AtWork, Terminal, Refusals
<1>7. ASSUME NEW h \in Handlers, NEW a \in Attachments, Upload(h, a) PROVE Typed'
  BY <1>7 DEF Upload, Places, AtWork
<1>8. ASSUME NEW h \in Handlers, Commit(h) PROVE Typed'
  BY <1>8 DEF Commit, Places, AtWork
<1>9. ASSUME NEW h \in Handlers, MarkProcessed(h) PROVE Typed'
  BY <1>9, MarkProcessedTyped
<1>10. ASSUME NEW h \in Handlers, Release(h) PROVE Typed'
  BY <1>10 DEF Release, Places, AtWork, Hurt, Fault
<1>11. ASSUME NEW h \in Handlers, Cleanup(h) PROVE Typed'
  BY <1>11, CleanupTyped
<1>12. ASSUME NEW h \in Handlers, MarkTerminal(h) PROVE Typed'
  BY <1>12 DEF MarkTerminal, Places
<1>13. ASSUME NEW h \in Handlers, Forward(h) PROVE Typed'
  BY <1>13, ForwardTyped
<1>14. ASSUME NEW h \in Handlers, RecordAttempt(h) PROVE Typed'
  BY <1>14 DEF RecordAttempt, Places, Forwarding
<1>15. ASSUME NEW h \in Handlers, UploadFails(h) PROVE Typed'
  BY <1>15, UploadFailsTyped
<1>16. ASSUME NEW h \in Handlers, CommitFails(h) PROVE Typed'
  BY <1>16, CommitFailsTyped
<1>17. ASSUME NEW h \in Handlers, MarkFails(h) PROVE Typed'
  BY <1>17 DEF MarkFails, store, Refuse, Places, AtWork, Hurt, Fault, Terminal
<1>18. ASSUME NEW h \in Handlers, ForwardFails(h) PROVE Typed'
  BY <1>18, ForwardFailsTyped
<1>19. ASSUME NEW h \in Handlers, RecordFails(h) PROVE Typed'
  BY <1>19, RecordFailsTyped
<1>20. ASSUME NEW h \in Handlers, Die(h) PROVE Typed'
  BY <1>20 DEF Die, store, Drop, Places, Hurt, Fault
<1>21. CASE UNCHANGED vars
  BY <1>21 DEF vars, store
<1> QED
  BY <1>1, <1>2, <1>3, <1>4, <1>5, <1>6, <1>7, <1>8, <1>9, <1>10, <1>11, <1>12, <1>13,
     <1>14, <1>15, <1>16, <1>17, <1>18, <1>19, <1>20, <1>21 DEF Next, Handle, Fail

\* The variables keep their types, and a handler's hands fit its place.
THEOREM TypeCorrect == Spec => []TypeOK
<1>1. Typed /\ [Next]_vars => Typed'
  BY TypedKept
<1>2. Typed => TypeOK
  BY DEF Typed
<1> QED
  BY InitTyped, <1>1, <1>2, PTL DEF Spec

-----------------------------------------------------------------------------
(* A step concerns one handler and one event *)

\* All that step of h on e leaves alone: the other handlers and events.
Apart(h, e) ==
  /\ \A i \in Handlers \ {h} :
       pc'[i] = pc[i] /\ job'[i] = job[i] /\ keys'[i] = keys[i] /\ rules'[i] = rules[i]
  /\ \A d \in Events \ {e} :
       /\ primary'[d] = primary[d] /\ received'[d] = received[d] /\ objects'[d] = objects[d]
       /\ sent'[d] = sent[d] /\ attempt'[d] = attempt[d]
       /\ (d \in charged' <=> d \in charged) /\ (d \in hurt' <=> d \in hurt)
       /\ (d \in misjudged' <=> d \in misjudged)
  /\ hurt \subseteq hurt' /\ misjudged \subseteq misjudged'

\* A step that leaves the store alone.
Kept == UNCHANGED <<primary, received, charged, objects, sent, attempt>>

\* Another owner of the same event can only be there if h owns nothing and
\* changes nothing: all there is to show of a step is about h and e.
LEMMA Locally ==
  ASSUME Inv, Typed', NEW h \in Handlers, NEW e \in Events,
         Apart(h, e),
         pc[h] = "idle" \/ job[h] = e,
         pc'[h] = "idle" \/ job'[h] = e,
         Kept \/ primary[e] = "absent" \/ Owns(h),
         Owns(h)' => job[h] = e /\ (Owns(h) \/ primary[e] = "absent"),
         Hand(h)', Outcome(e)', Forwarded(e)'
  PROVE  Inv'
<1>1. \A i \in Handlers \ {h} : Owns(i)' <=> Owns(i)
  BY DEF Apart, Owns
<1>2. \A i \in Handlers : Owns(i) => primary[job[i]] # "absent"
  BY DEF Inv, Hand, Claim, Owns
<1>3. ASSUME NEW i \in Handlers \ {h}, Owns(i), job[i] = e, Owns(h)' PROVE FALSE
  BY <1>2, <1>3 DEF Inv
<1>4. \A i, k \in Handlers : Owns(i)' /\ Owns(k)' /\ job'[i] = job'[k] => i = k
  <2> SUFFICES ASSUME NEW i \in Handlers, NEW k \in Handlers, Owns(i)', Owns(k)', job'[i] = job'[k], i # k
               PROVE  FALSE
    OBVIOUS
  <2>1. CASE i # h /\ k # h
    BY <2>1, <1>1 DEF Inv, Apart
  <2>2. CASE i = h
    <3>1. job'[h] = e
      BY <2>2 DEF Owns, AtWork, Forwarding
    <3> QED
      BY <2>2, <3>1, <1>1, <1>3 DEF Apart
  <2>3. CASE k = h
    <3>1. job'[h] = e
      BY <2>3 DEF Owns, AtWork, Forwarding
    <3> QED
      BY <2>3, <3>1, <1>1, <1>3 DEF Apart
  <2> QED
    BY <2>1, <2>2, <2>3
<1>5. ASSUME NEW i \in Handlers \ {h} PROVE Hand(i)'
  <2>1. Hand(i)
    BY DEF Inv
  <2>2. pc'[i] = pc[i] /\ job'[i] = job[i] /\ keys'[i] = keys[i] /\ rules'[i] = rules[i]
        /\ hurt \subseteq hurt' /\ misjudged \subseteq misjudged'
    BY DEF Apart
  <2>3. CASE ~Owns(i)
    BY <2>1, <2>2, <2>3 DEF Hand, Claim, Stage, Progress, Unsent, Owns, AtWork, Forwarding
  <2>4. CASE Owns(i)
    <3>1. job[i] \in Events
      BY <2>4 DEF Inv, Typed, HandsOK, Owns, AtWork, Forwarding
    <3>2. job[i] = e => Kept
      BY <2>4, <1>2 DEF Inv, Owns, AtWork, Forwarding
    <3>3. LET d == job[i] IN
          /\ primary'[d] = primary[d] /\ received'[d] = received[d] /\ objects'[d] = objects[d]
          /\ sent'[d] = sent[d] /\ attempt'[d] = attempt[d] /\ (d \in charged' <=> d \in charged)
      BY <3>1, <3>2 DEF Kept, Apart
    <3>4. Claim(i)'
      BY <2>1, <2>2, <3>3 DEF Hand, Claim
    <3>5. Stage(i)'
      BY <2>1, <2>2, <3>3 DEF Hand, Stage, Nothing, Complete, Charge
    <3>6. Progress(i)'
      BY <2>1, <2>2, <3>3 DEF Hand, Progress, Unsent
    <3> QED
      BY <3>4, <3>5, <3>6 DEF Hand
  <2> QED
    BY <2>3, <2>4
<1>6. ASSUME NEW d \in Events, d # e PROVE Outcome(d)' /\ Forwarded(d)'
  <2>1. Outcome(d) /\ Forwarded(d)
    BY DEF Inv
  <2>2. /\ primary'[d] = primary[d] /\ received'[d] = received[d] /\ objects'[d] = objects[d]
        /\ sent'[d] = sent[d] /\ attempt'[d] = attempt[d]
        /\ (d \in charged' <=> d \in charged) /\ (d \in hurt' <=> d \in hurt)
        /\ (d \in misjudged' <=> d \in misjudged)
    BY <1>6 DEF Apart
  <2>3. Worked(d) => Worked(d)'
    BY <1>6 DEF Worked, Apart, AtWork
  <2> QED
    BY <2>1, <2>2, <2>3 DEF Outcome, Forwarded, Unsent, Nothing, Complete
<1> QED
  BY <1>4, <1>5, <1>6 DEF Inv

-----------------------------------------------------------------------------
(* The actions *)

LEMMA InsertPrimaryKeeps == ASSUME Inv, Typed', NEW h \in Handlers, InsertPrimary(h) PROVE Inv'
<1>1. PICK e \in Events : e = job[h]
  BY DEF Inv, Typed, HandsOK, InsertPrimary, AtWork, Forwarding
<1>2. Hand(h) /\ Outcome(e) /\ Forwarded(e)
  BY DEF Inv
<1>3. Apart(h, e)
  BY <1>1 DEF Inv, Typed, TypeOK, Apart, InsertPrimary, Go, Drop, Calm, hands
<1>4. Hand(h)'
  <2>1. Claim(h)'
    BY <1>1, <1>2 DEF Inv, Typed, TypeOK, Hand, Claim, AtWork, Forwarding, InsertPrimary, Go, Drop, Calm, hands
  <2>2. Stage(h)'
    BY <1>1, <1>2 DEF Inv, Typed, TypeOK, Hand, Claim, Stage, Outcome, Nothing, Complete, Charge, AtWork, Forwarding, InsertPrimary, Go, Drop, Calm, hands
  <2>3. Progress(h)'
    <3>1. job[h] = e /\ pc'[h] \in {"parse", "duplicate", "idle"} /\ UNCHANGED <<sent, attempt>>
      BY <1>1 DEF Inv, Typed, TypeOK, InsertPrimary, Go, Drop
    <3>2. pc'[h] = "parse" => primary[e] = "absent" /\ job'[h] = e
      BY <1>1 DEF Inv, Typed, TypeOK, InsertPrimary, Go, Drop, hands
    <3> QED
      BY <1>2, <3>1, <3>2 DEF Progress, Forwarded, Unsent, AtWork, Forwarding
  <2> QED
    BY <2>1, <2>2, <2>3 DEF Hand
<1>5. Outcome(e)'
  BY <1>1, <1>2 DEF Inv, Typed, TypeOK, Hand, Claim, Stage, Outcome, Worked, Nothing, Complete, Charge, AtWork, Forwarding, Terminal, Refusals, InsertPrimary, Go, Drop, Calm, hands
<1>6. Forwarded(e)'
  BY <1>1, <1>2 DEF Inv, Typed, TypeOK, Hand, Claim, Progress, Unsent, Forwarded, AtWork, Forwarding, InsertPrimary, Go, Drop, Calm, hands
<1>7. /\ pc'[h] = "idle" \/ job'[h] = e
      /\ Kept \/ primary[e] = "absent" \/ Owns(h)
      /\ Owns(h)' => job[h] = e /\ (Owns(h) \/ primary[e] = "absent")
  BY <1>1 DEF Inv, Typed, TypeOK, Kept, Owns, AtWork, Forwarding, InsertPrimary, Go, Drop, Calm, hands
<1> QED
  BY <1>1, <1>3, <1>4, <1>5, <1>6, <1>7, Locally

LEMMA RecordDuplicateKeeps == ASSUME Inv, Typed', NEW h \in Handlers, RecordDuplicate(h) PROVE Inv'
<1>1. PICK e \in Events : e = job[h]
  BY DEF Inv, Typed, HandsOK, RecordDuplicate, AtWork, Forwarding
<1>2. Hand(h) /\ Outcome(e) /\ Forwarded(e)
  BY DEF Inv
<1>3. Apart(h, e)
  BY <1>1 DEF Inv, Typed, TypeOK, Apart, RecordDuplicate, Go, Calm, hands, store
<1>4. Hand(h)'
  BY <1>1, <1>2 DEF Inv, Typed, TypeOK, Hand, Claim, Stage, Progress, Unsent, Nothing, Complete, Charge, AtWork, Forwarding, RecordDuplicate, Go, Calm, hands, store
<1>5. Outcome(e)'
  BY <1>1, <1>2 DEF Inv, Typed, TypeOK, Hand, Claim, Stage, Outcome, Worked, Nothing, Complete, Charge, AtWork, Forwarding, Terminal, Refusals, RecordDuplicate, Go, Calm, hands, store
<1>6. Forwarded(e)'
  BY <1>1, <1>2 DEF Inv, Typed, TypeOK, Hand, Claim, Progress, Unsent, Forwarded, AtWork, Forwarding, RecordDuplicate, Go, Calm, hands, store
<1>7. /\ pc'[h] = "idle" \/ job'[h] = e
      /\ Kept \/ primary[e] = "absent" \/ Owns(h)
      /\ Owns(h)' => job[h] = e /\ (Owns(h) \/ primary[e] = "absent")
  BY <1>1 DEF Inv, Typed, TypeOK, Kept, Owns, AtWork, Forwarding, RecordDuplicate, Go, Calm, hands, store
<1> QED
  BY <1>1, <1>3, <1>4, <1>5, <1>6, <1>7, Locally

LEMMA AnswerKeeps == ASSUME Inv, Typed', NEW h \in Handlers, Answer(h) PROVE Inv'
<1>1. PICK e \in Events : e = job[h]
  BY DEF Inv, Typed, HandsOK, Answer, AtWork, Forwarding
<1>2. Hand(h) /\ Outcome(e) /\ Forwarded(e)
  BY DEF Inv
<1>3. Apart(h, e)
  BY <1>1 DEF Inv, Typed, TypeOK, Apart, Answer, Go, Drop, Fault, store
<1>4. Hand(h)'
  BY <1>1, <1>2 DEF Inv, Typed, TypeOK, Hand, Claim, Stage, Progress, Unsent, Nothing, Complete, Charge, AtWork, Forwarding, Answer, Go, Drop, Fault, store
<1>5. Outcome(e)'
  BY <1>1, <1>2 DEF Inv, Typed, TypeOK, Hand, Claim, Stage, Outcome, Worked, Nothing, Complete, Charge, AtWork, Forwarding, Terminal, Refusals, Answer, Go, Drop, Fault, store
<1>6. Forwarded(e)'
  BY <1>1, <1>2 DEF Inv, Typed, TypeOK, Hand, Claim, Progress, Unsent, Forwarded, AtWork, Forwarding, Answer, Go, Drop, Fault, store
<1>7. /\ pc'[h] = "idle" \/ job'[h] = e
      /\ Kept \/ primary[e] = "absent" \/ Owns(h)
      /\ Owns(h)' => job[h] = e /\ (Owns(h) \/ primary[e] = "absent")
  BY <1>1 DEF Inv, Typed, TypeOK, Kept, Owns, AtWork, Forwarding, Answer, Go, Drop, Fault, store
<1> QED
  BY <1>1, <1>3, <1>4, <1>5, <1>6, <1>7, Locally

LEMMA ParseKeeps == ASSUME Inv, Typed', NEW h \in Handlers, Parse(h) PROVE Inv'
<1>1. PICK e \in Events : e = job[h]
  BY DEF Inv, Typed, HandsOK, Parse, AtWork, Forwarding
<1>2. Hand(h) /\ Outcome(e) /\ Forwarded(e)
  BY DEF Inv
<1>3. Apart(h, e)
  BY <1>1 DEF Inv, Typed, TypeOK, Apart, Parse, Go, Calm, hands, store, Refuse
<1>4. Hand(h)'
  BY <1>1, <1>2 DEF Inv, Typed, TypeOK, Hand, Claim, Stage, Progress, Unsent, Nothing, Complete, Charge, AtWork, Forwarding, Parse, Go, Calm, hands, store, Refuse
<1>5. Outcome(e)'
  BY <1>1, <1>2 DEF Inv, Typed, TypeOK, Hand, Claim, Stage, Outcome, Worked, Nothing, Complete, Charge, AtWork, Forwarding, Terminal, Refusals, Parse, Go, Calm, hands, store, Refuse
<1>6. Forwarded(e)'
  BY <1>1, <1>2 DEF Inv, Typed, TypeOK, Hand, Claim, Progress, Unsent, Forwarded, AtWork, Forwarding, Parse, Go, Calm, hands, store, Refuse
<1>7. /\ pc'[h] = "idle" \/ job'[h] = e
      /\ Kept \/ primary[e] = "absent" \/ Owns(h)
      /\ Owns(h)' => job[h] = e /\ (Owns(h) \/ primary[e] = "absent")
  BY <1>1 DEF Inv, Typed, TypeOK, Kept, Owns, AtWork, Forwarding, Parse, Go, Calm, hands, store, Refuse
<1> QED
  BY <1>1, <1>3, <1>4, <1>5, <1>6, <1>7, Locally

LEMMA ReserveKeeps == ASSUME Inv, Typed', NEW h \in Handlers, Reserve(h) PROVE Inv'
<1>1. PICK e \in Events : e = job[h]
  BY DEF Inv, Typed, HandsOK, Reserve, AtWork, Forwarding
<1>2. Hand(h) /\ Outcome(e) /\ Forwarded(e)
  BY DEF Inv
<1>3. Apart(h, e)
  BY <1>1 DEF Inv, Typed, TypeOK, Apart, Reserve, Go, Calm, hands, Refuse
<1>4. Hand(h)'
  <2>1. Claim(h)'
    BY <1>1, <1>2 DEF Inv, Typed, TypeOK, Hand, Claim, AtWork, Forwarding, Reserve, Go, Calm, hands, Refuse
  <2>2. Stage(h)'
    <3>1. pc[h] = "reserve" /\ job'[h] = e /\ UNCHANGED <<received, objects, keys, hurt>>
      BY <1>1 DEF Reserve, Calm, Refuse, hands
    <3>2. received[e] = 0 /\ objects[e] = {} /\ e \notin charged /\ keys[h] = {}
      BY <1>1, <1>2, <3>1 DEF Hand, Stage, Nothing
    <3>3. CASE pc'[h] \in {"upload", "commit"} /\ Charge(e)' /\ (pc'[h] = "commit" => Attachments = {})
      BY <3>1, <3>2, <3>3 DEF Stage
    <3>4. CASE pc'[h] = "terminal" /\ UNCHANGED charged
      BY <3>1, <3>2, <3>4 DEF Stage, Nothing
    <3> QED
      BY <1>1, <3>3, <3>4 DEF Reserve, Charge, Go, Refuse, Inv, Typed, TypeOK
  <2>3. Progress(h)'
    BY <1>1, <1>2 DEF Inv, Typed, TypeOK, Hand, Claim, Progress, Unsent, Forwarded, AtWork, Forwarding, Reserve, Go, Calm, hands, Refuse
  <2> QED
    BY <2>1, <2>2, <2>3 DEF Hand
<1>5. Outcome(e)'
  BY <1>1, <1>2 DEF Inv, Typed, TypeOK, Hand, Claim, Stage, Outcome, Worked, Nothing, Complete, Charge, AtWork, Forwarding, Terminal, Refusals, Reserve, Go, Calm, hands, Refuse
<1>6. Forwarded(e)'
  BY <1>1, <1>2 DEF Inv, Typed, TypeOK, Hand, Claim, Progress, Unsent, Forwarded, AtWork, Forwarding, Reserve, Go, Calm, hands, Refuse
<1>7. /\ pc'[h] = "idle" \/ job'[h] = e
      /\ Kept \/ primary[e] = "absent" \/ Owns(h)
      /\ Owns(h)' => job[h] = e /\ (Owns(h) \/ primary[e] = "absent")
  BY <1>1 DEF Inv, Typed, TypeOK, Kept, Owns, AtWork, Forwarding, Reserve, Go, Calm, hands, Refuse
<1> QED
  BY <1>1, <1>3, <1>4, <1>5, <1>6, <1>7, Locally

LEMMA UploadKeeps == ASSUME Inv, Typed', NEW h \in Handlers, NEW a \in Attachments, Upload(h, a) PROVE Inv'
<1>1. PICK e \in Events : e = job[h]
  BY DEF Inv, Typed, HandsOK, Upload, AtWork, Forwarding
<1>2. Hand(h) /\ Outcome(e) /\ Forwarded(e)
  BY DEF Inv
<1>3. Apart(h, e)
  BY <1>1 DEF Inv, Typed, TypeOK, Apart, Upload, Go, Calm
<1>4. Hand(h)'
  BY <1>1, <1>2 DEF Inv, Typed, TypeOK, Hand, Claim, Stage, Progress, Unsent, Nothing, Complete, Charge, AtWork, Forwarding, Upload, Go, Calm
<1>5. Outcome(e)'
  BY <1>1, <1>2 DEF Inv, Typed, TypeOK, Hand, Claim, Stage, Outcome, Worked, Nothing, Complete, Charge, AtWork, Forwarding, Terminal, Refusals, Upload, Go, Calm
<1>6. Forwarded(e)'
  BY <1>1, <1>2 DEF Inv, Typed, TypeOK, Hand, Claim, Progress, Unsent, Forwarded, AtWork, Forwarding, Upload, Go, Calm
<1>7. /\ pc'[h] = "idle" \/ job'[h] = e
      /\ Kept \/ primary[e] = "absent" \/ Owns(h)
      /\ Owns(h)' => job[h] = e /\ (Owns(h) \/ primary[e] = "absent")
  BY <1>1 DEF Inv, Typed, TypeOK, Kept, Owns, AtWork, Forwarding, Upload, Go, Calm
<1> QED
  BY <1>1, <1>3, <1>4, <1>5, <1>6, <1>7, Locally

LEMMA CommitKeeps == ASSUME Inv, Typed', NEW h \in Handlers, Commit(h) PROVE Inv'
<1>1. PICK e \in Events : e = job[h]
  BY DEF Inv, Typed, HandsOK, Commit, AtWork, Forwarding
<1>2. Hand(h) /\ Outcome(e) /\ Forwarded(e)
  BY DEF Inv
<1>3. Apart(h, e)
  BY <1>1 DEF Inv, Typed, TypeOK, Apart, Commit, Go, Calm, hands
<1>4. Hand(h)'
  BY <1>1, <1>2 DEF Inv, Typed, TypeOK, Hand, Claim, Stage, Progress, Unsent, Nothing, Complete, Charge, AtWork, Forwarding, Commit, Go, Calm, hands
<1>5. Outcome(e)'
  BY <1>1, <1>2 DEF Inv, Typed, TypeOK, Hand, Claim, Stage, Outcome, Worked, Nothing, Complete, Charge, AtWork, Forwarding, Terminal, Refusals, Commit, Go, Calm, hands
<1>6. Forwarded(e)'
  BY <1>1, <1>2 DEF Inv, Typed, TypeOK, Hand, Claim, Progress, Unsent, Forwarded, AtWork, Forwarding, Commit, Go, Calm, hands
<1>7. /\ pc'[h] = "idle" \/ job'[h] = e
      /\ Kept \/ primary[e] = "absent" \/ Owns(h)
      /\ Owns(h)' => job[h] = e /\ (Owns(h) \/ primary[e] = "absent")
  BY <1>1 DEF Inv, Typed, TypeOK, Kept, Owns, AtWork, Forwarding, Commit, Go, Calm, hands
<1> QED
  BY <1>1, <1>3, <1>4, <1>5, <1>6, <1>7, Locally

LEMMA MarkProcessedKeeps == ASSUME Inv, Typed', NEW h \in Handlers, MarkProcessed(h) PROVE Inv'
<1>1. PICK e \in Events : e = job[h]
  BY DEF Inv, Typed, HandsOK, MarkProcessed, AtWork, Forwarding
<1>2. Hand(h) /\ Outcome(e) /\ Forwarded(e)
  BY DEF Inv
<1>3. Apart(h, e)
  BY <1>1 DEF Inv, Typed, TypeOK, Apart, MarkProcessed, Go, Calm
<1>4. Hand(h)'
  <2>1. Claim(h)'
    BY <1>1, <1>2 DEF Inv, Typed, TypeOK, Hand, Claim, AtWork, Forwarding, MarkProcessed, Go, Calm
  <2>2. Stage(h)'
    BY <1>1, <1>2 DEF Inv, Typed, TypeOK, Hand, Claim, Stage, Outcome, Nothing, Complete, Charge, AtWork, Forwarding, MarkProcessed, Go, Calm
  <2>3. Progress(h)'
    BY <1>1, <1>2 DEF Inv, Typed, TypeOK, Hand, Claim, Progress, Unsent, Forwarded, AtWork, Forwarding, MarkProcessed, Go, Calm
  <2> QED
    BY <2>1, <2>2, <2>3 DEF Hand
<1>5. Outcome(e)'
  BY <1>1, <1>2 DEF Inv, Typed, TypeOK, Hand, Claim, Stage, Outcome, Worked, Nothing, Complete, Charge, AtWork, Forwarding, Terminal, Refusals, MarkProcessed, Go, Calm
<1>6. Forwarded(e)'
  BY <1>1, <1>2 DEF Inv, Typed, TypeOK, Hand, Claim, Progress, Unsent, Forwarded, AtWork, Forwarding, MarkProcessed, Go, Calm
<1>7. /\ pc'[h] = "idle" \/ job'[h] = e
      /\ Kept \/ primary[e] = "absent" \/ Owns(h)
      /\ Owns(h)' => job[h] = e /\ (Owns(h) \/ primary[e] = "absent")
  BY <1>1 DEF Inv, Typed, TypeOK, Kept, Owns, AtWork, Forwarding, MarkProcessed, Go, Calm
<1> QED
  BY <1>1, <1>3, <1>4, <1>5, <1>6, <1>7, Locally

LEMMA ReleaseKeeps == ASSUME Inv, Typed', NEW h \in Handlers, Release(h) PROVE Inv'
<1>1. PICK e \in Events : e = job[h]
  BY DEF Inv, Typed, HandsOK, Release, AtWork, Forwarding
<1>2. Hand(h) /\ Outcome(e) /\ Forwarded(e)
  BY DEF Inv
<1>3. Apart(h, e)
  BY <1>1 DEF Inv, Typed, TypeOK, Apart, Release, Go, Calm, hands, Hurt, Fault
<1>4. Hand(h)'
  BY <1>1, <1>2 DEF Inv, Typed, TypeOK, Hand, Claim, Stage, Progress, Unsent, Nothing, Complete, Charge, AtWork, Forwarding, Release, Go, Calm, hands, Hurt, Fault
<1>5. Outcome(e)'
  BY <1>1, <1>2 DEF Inv, Typed, TypeOK, Hand, Claim, Stage, Outcome, Worked, Nothing, Complete, Charge, AtWork, Forwarding, Terminal, Refusals, Release, Go, Calm, hands, Hurt, Fault
<1>6. Forwarded(e)'
  BY <1>1, <1>2 DEF Inv, Typed, TypeOK, Hand, Claim, Progress, Unsent, Forwarded, AtWork, Forwarding, Release, Go, Calm, hands, Hurt, Fault
<1>7. /\ pc'[h] = "idle" \/ job'[h] = e
      /\ Kept \/ primary[e] = "absent" \/ Owns(h)
      /\ Owns(h)' => job[h] = e /\ (Owns(h) \/ primary[e] = "absent")
  BY <1>1 DEF Inv, Typed, TypeOK, Kept, Owns, AtWork, Forwarding, Release, Go, Calm, hands, Hurt, Fault
<1> QED
  BY <1>1, <1>3, <1>4, <1>5, <1>6, <1>7, Locally

LEMMA CleanupKeeps == ASSUME Inv, Typed', NEW h \in Handlers, Cleanup(h) PROVE Inv'
<1>1. PICK e \in Events : e = job[h]
  BY DEF Inv, Typed, HandsOK, Cleanup, AtWork, Forwarding
<1>2. Hand(h) /\ Outcome(e) /\ Forwarded(e)
  BY DEF Inv
<1>3. Apart(h, e)
  BY <1>1 DEF Inv, Typed, TypeOK, Apart, Cleanup, Go, Calm, Hurt, Fault
<1>4. Hand(h)'
  <2>1. Claim(h)'
    BY <1>1, <1>2 DEF Inv, Typed, TypeOK, Hand, Claim, AtWork, Forwarding, Cleanup, Go, Calm, Hurt, Fault
  <2>2. Stage(h)'
    <3>1. pc[h] = "cleanup" /\ job'[h] = e /\ received'[e] = received[e] /\ (e \in charged' <=> e \in charged)
          /\ hurt \subseteq hurt'
      BY <1>1 DEF Cleanup, Hurt, Calm
    <3>2. e \notin hurt => received[e] = 0 /\ e \notin charged /\ objects[e] = keys[h]
      BY <1>1, <1>2, <3>1 DEF Hand, Stage
    <3>3. CASE pc'[h] = "terminal" /\ keys[h] = {} /\ UNCHANGED objects
      BY <3>1, <3>2, <3>3 DEF Stage, Nothing
    <3>4. CASE UNCHANGED pc /\ (e \notin hurt' => objects'[e] = keys'[h])
      BY <3>1, <3>2, <3>4 DEF Stage
    <3>5. ASSUME NEW a \in keys[h], keys' = [keys EXCEPT ![h] = @ \ {a}], UNCHANGED pc,
                 (objects' = [objects EXCEPT ![e] = @ \ {a}] /\ Calm) \/ (Hurt(e) /\ UNCHANGED objects)
          PROVE  Stage(h)'
      <4>1. keys'[h] = keys[h] \ {a}
        BY <3>5 DEF Inv, Typed, TypeOK
      <4>2. e \notin hurt' => objects'[e] = objects[e] \ {a}
        BY <3>5 DEF Inv, Typed, TypeOK, Hurt
      <4> QED
        BY <3>1, <3>2, <3>4, <3>5, <4>1, <4>2
    <3> QED
      BY <1>1, <3>1, <3>3, <3>5 DEF Cleanup, Go, Inv, Typed, TypeOK
  <2>3. Progress(h)'
    BY <1>1, <1>2 DEF Inv, Typed, TypeOK, Hand, Claim, Progress, Unsent, Forwarded, AtWork, Forwarding, Cleanup, Go, Calm, Hurt, Fault
  <2> QED
    BY <2>1, <2>2, <2>3 DEF Hand
<1>5. Outcome(e)'
  BY <1>1, <1>2 DEF Inv, Typed, TypeOK, Hand, Claim, Stage, Outcome, Worked, Nothing, Complete, Charge, AtWork, Forwarding, Terminal, Refusals, Cleanup, Go, Calm, Hurt, Fault
<1>6. Forwarded(e)'
  BY <1>1, <1>2 DEF Inv, Typed, TypeOK, Hand, Claim, Progress, Unsent, Forwarded, AtWork, Forwarding, Cleanup, Go, Calm, Hurt, Fault
<1>7. /\ pc'[h] = "idle" \/ job'[h] = e
      /\ Kept \/ primary[e] = "absent" \/ Owns(h)
      /\ Owns(h)' => job[h] = e /\ (Owns(h) \/ primary[e] = "absent")
  BY <1>1 DEF Inv, Typed, TypeOK, Kept, Owns, AtWork, Forwarding, Cleanup, Go, Calm, Hurt, Fault
<1> QED
  BY <1>1, <1>3, <1>4, <1>5, <1>6, <1>7, Locally

LEMMA MarkTerminalKeeps == ASSUME Inv, Typed', NEW h \in Handlers, MarkTerminal(h) PROVE Inv'
<1>1. PICK e \in Events : e = job[h]
  BY DEF Inv, Typed, HandsOK, MarkTerminal, AtWork, Forwarding
<1>2. Hand(h) /\ Outcome(e) /\ Forwarded(e)
  BY DEF Inv
<1>3. Apart(h, e)
  BY <1>1 DEF Inv, Typed, TypeOK, Apart, MarkTerminal, Go, Calm, hands
<1>4. Hand(h)'
  BY <1>1, <1>2 DEF Inv, Typed, TypeOK, Hand, Claim, Stage, Progress, Unsent, Nothing, Complete, Charge, AtWork, Forwarding, MarkTerminal, Go, Calm, hands
<1>5. Outcome(e)'
  BY <1>1, <1>2 DEF Inv, Typed, TypeOK, Hand, Claim, Stage, Outcome, Worked, Nothing, Complete, Charge, AtWork, Forwarding, Terminal, Refusals, MarkTerminal, Go, Calm, hands
<1>6. Forwarded(e)'
  BY <1>1, <1>2 DEF Inv, Typed, TypeOK, Hand, Claim, Progress, Unsent, Forwarded, AtWork, Forwarding, MarkTerminal, Go, Calm, hands
<1>7. /\ pc'[h] = "idle" \/ job'[h] = e
      /\ Kept \/ primary[e] = "absent" \/ Owns(h)
      /\ Owns(h)' => job[h] = e /\ (Owns(h) \/ primary[e] = "absent")
  BY <1>1 DEF Inv, Typed, TypeOK, Kept, Owns, AtWork, Forwarding, MarkTerminal, Go, Calm, hands
<1> QED
  BY <1>1, <1>3, <1>4, <1>5, <1>6, <1>7, Locally

LEMMA ForwardKeeps == ASSUME Inv, Typed', NEW h \in Handlers, Forward(h) PROVE Inv'
<1>1. PICK e \in Events : e = job[h]
  BY DEF Inv, Typed, HandsOK, Forward, AtWork, Forwarding
<1>2. Hand(h) /\ Outcome(e) /\ Forwarded(e)
  BY DEF Inv
<1>3. Apart(h, e)
  BY <1>1 DEF Inv, Typed, TypeOK, Apart, Forward, Go, Calm
<1>4. Hand(h)'
  BY <1>1, <1>2 DEF Inv, Typed, TypeOK, Hand, Claim, Stage, Progress, Unsent, Nothing, Complete, Charge, AtWork, Forwarding, Forward, Go, Calm
<1>5. Outcome(e)'
  BY <1>1, <1>2 DEF Inv, Typed, TypeOK, Hand, Claim, Stage, Outcome, Worked, Nothing, Complete, Charge, AtWork, Forwarding, Terminal, Refusals, Forward, Go, Calm
<1>6. Forwarded(e)'
  <2>1. UNCHANGED <<primary, hurt>> /\ primary[e] = "processed"
    BY <1>1, <1>2 DEF Forward, Calm, Hand, Claim, Forwarding
  <2>2. CASE UNCHANGED <<sent, attempt>>
    BY <1>2, <2>1, <2>2 DEF Forwarded, Unsent
  <2>3. ASSUME NEW r \in rules[h].left,
               \/ attempt' = [attempt EXCEPT ![e][r] = @ \cup {"skipped"}] /\ UNCHANGED sent
               \/ sent' = [sent EXCEPT ![e][r] = @ + 1] /\ UNCHANGED attempt
        PROVE  Forwarded(e)'
    <3>1. r \in Rules /\ sent[e][r] = 0 /\ attempt[e][r] = {}
      BY <1>1, <1>2 DEF Inv, Typed, TypeOK, Forward, Hand, Progress, Unsent, Forwarding
    <3>2. ASSUME NEW q \in Rules
          PROVE  \/ sent'[e][q] = sent[e][q] /\ attempt'[e][q] = attempt[e][q]
                 \/ sent'[e][q] = 0 /\ attempt'[e][q] = {"skipped"}
                 \/ sent'[e][q] = 1 /\ attempt'[e][q] = {}
      BY <2>3, <3>1 DEF Inv, Typed, TypeOK
    <3> QED
      BY <1>2, <2>1, <3>2 DEF Forwarded, Unsent
  <2> QED
    BY <1>1, <2>2, <2>3 DEF Forward
<1>7. /\ pc'[h] = "idle" \/ job'[h] = e
      /\ Kept \/ primary[e] = "absent" \/ Owns(h)
      /\ Owns(h)' => job[h] = e /\ (Owns(h) \/ primary[e] = "absent")
  BY <1>1 DEF Inv, Typed, TypeOK, Kept, Owns, AtWork, Forwarding, Forward, Go, Calm
<1> QED
  BY <1>1, <1>3, <1>4, <1>5, <1>6, <1>7, Locally

LEMMA RecordAttemptKeeps == ASSUME Inv, Typed', NEW h \in Handlers, RecordAttempt(h) PROVE Inv'
<1>1. PICK e \in Events : e = job[h]
  BY DEF Inv, Typed, HandsOK, RecordAttempt, AtWork, Forwarding
<1>2. Hand(h) /\ Outcome(e) /\ Forwarded(e)
  BY DEF Inv
<1>3. Apart(h, e)
  BY <1>1 DEF Inv, Typed, TypeOK, Apart, RecordAttempt, Go, Calm, hands
<1>4. Hand(h)'
  BY <1>1, <1>2 DEF Inv, Typed, TypeOK, Hand, Claim, Stage, Progress, Unsent, Nothing, Complete, Charge, AtWork, Forwarding, RecordAttempt, Go, Calm, hands
<1>5. Outcome(e)'
  BY <1>1, <1>2 DEF Inv, Typed, TypeOK, Hand, Claim, Stage, Outcome, Worked, Nothing, Complete, Charge, AtWork, Forwarding, Terminal, Refusals, RecordAttempt, Go, Calm, hands
<1>6. Forwarded(e)'
  BY <1>1, <1>2 DEF Inv, Typed, TypeOK, Hand, Claim, Progress, Unsent, Forwarded, AtWork, Forwarding, RecordAttempt, Go, Calm, hands
<1>7. /\ pc'[h] = "idle" \/ job'[h] = e
      /\ Kept \/ primary[e] = "absent" \/ Owns(h)
      /\ Owns(h)' => job[h] = e /\ (Owns(h) \/ primary[e] = "absent")
  BY <1>1 DEF Inv, Typed, TypeOK, Kept, Owns, AtWork, Forwarding, RecordAttempt, Go, Calm, hands
<1> QED
  BY <1>1, <1>3, <1>4, <1>5, <1>6, <1>7, Locally

LEMMA UploadFailsKeeps == ASSUME Inv, Typed', NEW h \in Handlers, UploadFails(h) PROVE Inv'
<1>1. PICK e \in Events : e = job[h]
  BY DEF Inv, Typed, HandsOK, UploadFails, AtWork, Forwarding
<1>2. Hand(h) /\ Outcome(e) /\ Forwarded(e)
  BY DEF Inv
<1>3. Apart(h, e)
  BY <1>1 DEF Inv, Typed, TypeOK, Apart, UploadFails, Go, Refuse, Hurt, Fault
<1>4. Hand(h)'
  BY <1>1, <1>2 DEF Inv, Typed, TypeOK, Hand, Claim, Stage, Progress, Unsent, Nothing, Complete, Charge, AtWork, Forwarding, UploadFails, Go, Refuse, Hurt, Fault
<1>5. Outcome(e)'
  BY <1>1, <1>2 DEF Inv, Typed, TypeOK, Hand, Claim, Stage, Outcome, Worked, Nothing, Complete, Charge, AtWork, Forwarding, Terminal, Refusals, UploadFails, Go, Refuse, Hurt, Fault
<1>6. Forwarded(e)'
  BY <1>1, <1>2 DEF Inv, Typed, TypeOK, Hand, Claim, Progress, Unsent, Forwarded, AtWork, Forwarding, UploadFails, Go, Refuse, Hurt, Fault
<1>7. /\ pc'[h] = "idle" \/ job'[h] = e
      /\ Kept \/ primary[e] = "absent" \/ Owns(h)
      /\ Owns(h)' => job[h] = e /\ (Owns(h) \/ primary[e] = "absent")
  BY <1>1 DEF Inv, Typed, TypeOK, Kept, Owns, AtWork, Forwarding, UploadFails, Go, Refuse, Hurt, Fault
<1> QED
  BY <1>1, <1>3, <1>4, <1>5, <1>6, <1>7, Locally

LEMMA CommitFailsKeeps == ASSUME Inv, Typed', NEW h \in Handlers, CommitFails(h) PROVE Inv'
<1>1. PICK e \in Events : e = job[h]
  BY DEF Inv, Typed, HandsOK, CommitFails, AtWork, Forwarding
<1>2. Hand(h) /\ Outcome(e) /\ Forwarded(e)
  BY DEF Inv
<1>3. Apart(h, e)
  BY <1>1 DEF Inv, Typed, TypeOK, Apart, CommitFails, Go, Refuse, Hurt, Fault
<1>4. Hand(h)'
  BY <1>1, <1>2 DEF Inv, Typed, TypeOK, Hand, Claim, Stage, Progress, Unsent, Nothing, Complete, Charge, AtWork, Forwarding, CommitFails, Go, Refuse, Hurt, Fault
<1>5. Outcome(e)'
  BY <1>1, <1>2 DEF Inv, Typed, TypeOK, Hand, Claim, Stage, Outcome, Worked, Nothing, Complete, Charge, AtWork, Forwarding, Terminal, Refusals, CommitFails, Go, Refuse, Hurt, Fault
<1>6. Forwarded(e)'
  BY <1>1, <1>2 DEF Inv, Typed, TypeOK, Hand, Claim, Progress, Unsent, Forwarded, AtWork, Forwarding, CommitFails, Go, Refuse, Hurt, Fault
<1>7. /\ pc'[h] = "idle" \/ job'[h] = e
      /\ Kept \/ primary[e] = "absent" \/ Owns(h)
      /\ Owns(h)' => job[h] = e /\ (Owns(h) \/ primary[e] = "absent")
  BY <1>1 DEF Inv, Typed, TypeOK, Kept, Owns, AtWork, Forwarding, CommitFails, Go, Refuse, Hurt, Fault
<1> QED
  BY <1>1, <1>3, <1>4, <1>5, <1>6, <1>7, Locally

LEMMA MarkFailsKeeps == ASSUME Inv, Typed', NEW h \in Handlers, MarkFails(h) PROVE Inv'
<1>1. PICK e \in Events : e = job[h]
  BY DEF Inv, Typed, HandsOK, MarkFails, AtWork, Forwarding
<1>2. Hand(h) /\ Outcome(e) /\ Forwarded(e)
  BY DEF Inv
<1>3. Apart(h, e)
  BY <1>1 DEF Inv, Typed, TypeOK, Apart, MarkFails, Go, Refuse, Hurt, Fault, store
<1>4. Hand(h)'
  BY <1>1, <1>2 DEF Inv, Typed, TypeOK, Hand, Claim, Stage, Progress, Unsent, Nothing, Complete, Charge, AtWork, Forwarding, MarkFails, Go, Refuse, Hurt, Fault, store
<1>5. Outcome(e)'
  BY <1>1, <1>2 DEF Inv, Typed, TypeOK, Hand, Claim, Stage, Outcome, Worked, Nothing, Complete, Charge, AtWork, Forwarding, Terminal, Refusals, MarkFails, Go, Refuse, Hurt, Fault, store
<1>6. Forwarded(e)'
  BY <1>1, <1>2 DEF Inv, Typed, TypeOK, Hand, Claim, Progress, Unsent, Forwarded, AtWork, Forwarding, MarkFails, Go, Refuse, Hurt, Fault, store
<1>7. /\ pc'[h] = "idle" \/ job'[h] = e
      /\ Kept \/ primary[e] = "absent" \/ Owns(h)
      /\ Owns(h)' => job[h] = e /\ (Owns(h) \/ primary[e] = "absent")
  BY <1>1 DEF Inv, Typed, TypeOK, Kept, Owns, AtWork, Forwarding, MarkFails, Go, Refuse, Hurt, Fault, store
<1> QED
  BY <1>1, <1>3, <1>4, <1>5, <1>6, <1>7, Locally

LEMMA ForwardFailsKeeps == ASSUME Inv, Typed', NEW h \in Handlers, ForwardFails(h) PROVE Inv'
<1>1. PICK e \in Events : e = job[h]
  BY DEF Inv, Typed, HandsOK, ForwardFails, AtWork, Forwarding
<1>2. Hand(h) /\ Outcome(e) /\ Forwarded(e)
  BY DEF Inv
<1>3. Apart(h, e)
  BY <1>1 DEF Inv, Typed, TypeOK, Apart, ForwardFails, Go, Hurt, Fault
<1>4. Hand(h)'
  BY <1>1, <1>2 DEF Inv, Typed, TypeOK, Hand, Claim, Stage, Progress, Unsent, Nothing, Complete, Charge, AtWork, Forwarding, ForwardFails, Go, Hurt, Fault
<1>5. Outcome(e)'
  BY <1>1, <1>2 DEF Inv, Typed, TypeOK, Hand, Claim, Stage, Outcome, Worked, Nothing, Complete, Charge, AtWork, Forwarding, Terminal, Refusals, ForwardFails, Go, Hurt, Fault
<1>6. Forwarded(e)'
  BY <1>1, <1>2 DEF Inv, Typed, TypeOK, Hand, Claim, Progress, Unsent, Forwarded, AtWork, Forwarding, ForwardFails, Go, Hurt, Fault
<1>7. /\ pc'[h] = "idle" \/ job'[h] = e
      /\ Kept \/ primary[e] = "absent" \/ Owns(h)
      /\ Owns(h)' => job[h] = e /\ (Owns(h) \/ primary[e] = "absent")
  BY <1>1 DEF Inv, Typed, TypeOK, Kept, Owns, AtWork, Forwarding, ForwardFails, Go, Hurt, Fault
<1> QED
  BY <1>1, <1>3, <1>4, <1>5, <1>6, <1>7, Locally

LEMMA RecordFailsKeeps == ASSUME Inv, Typed', NEW h \in Handlers, RecordFails(h) PROVE Inv'
<1>1. PICK e \in Events : e = job[h]
  BY DEF Inv, Typed, HandsOK, RecordFails, AtWork, Forwarding
<1>2. Hand(h) /\ Outcome(e) /\ Forwarded(e)
  BY DEF Inv
<1>3. Apart(h, e)
  BY <1>1 DEF Inv, Typed, TypeOK, Apart, RecordFails, Go, Hurt, Fault, hands, store
<1>4. Hand(h)'
  BY <1>1, <1>2 DEF Inv, Typed, TypeOK, Hand, Claim, Stage, Progress, Unsent, Nothing, Complete, Charge, AtWork, Forwarding, RecordFails, Go, Hurt, Fault, hands, store
<1>5. Outcome(e)'
  BY <1>1, <1>2 DEF Inv, Typed, TypeOK, Hand, Claim, Stage, Outcome, Worked, Nothing, Complete, Charge, AtWork, Forwarding, Terminal, Refusals, RecordFails, Go, Hurt, Fault, hands, store
<1>6. Forwarded(e)'
  <2>1. UNCHANGED <<primary, sent>> /\ e \in hurt' /\ primary[e] = "processed"
    BY <1>1, <1>2 DEF RecordFails, Hurt, Hand, Claim, Forwarding
  <2>2. CASE UNCHANGED attempt
    BY <1>2, <2>1, <2>2 DEF Forwarded, Unsent
  <2>3. CASE pc[h] = "record" /\ attempt' = [attempt EXCEPT ![e][rules[h].this] = @ \cup {"queued"}]
    <3>1. rules[h].this \in Rules /\ sent[e][rules[h].this] = 1
      BY <1>1, <1>2, <2>3 DEF Inv, Typed, HandsOK, Hand, Progress, Forwarding
    <3>2. \A q \in Rules : q # rules[h].this => attempt'[e][q] = attempt[e][q]
      BY <2>3 DEF Inv, Typed, TypeOK
    <3> QED
      BY <1>2, <2>1, <3>1, <3>2 DEF Forwarded, Unsent
  <2> QED
    BY <1>1, <2>2, <2>3 DEF RecordFails
<1>7. /\ pc'[h] = "idle" \/ job'[h] = e
      /\ Kept \/ primary[e] = "absent" \/ Owns(h)
      /\ Owns(h)' => job[h] = e /\ (Owns(h) \/ primary[e] = "absent")
  BY <1>1 DEF Inv, Typed, TypeOK, Kept, Owns, AtWork, Forwarding, RecordFails, Go, Hurt, Fault, hands, store
<1> QED
  BY <1>1, <1>3, <1>4, <1>5, <1>6, <1>7, Locally

LEMMA DieKeeps == ASSUME Inv, Typed', NEW h \in Handlers, Die(h) PROVE Inv'
<1>1. PICK e \in Events : e = job[h]
  BY DEF Inv, Typed, HandsOK, Die, AtWork, Forwarding
<1>2. Hand(h) /\ Outcome(e) /\ Forwarded(e)
  BY DEF Inv
<1>3. Apart(h, e)
  BY <1>1 DEF Inv, Typed, TypeOK, Apart, Die, Go, Drop, Hurt, Fault, store
<1>4. Hand(h)'
  BY <1>1, <1>2 DEF Inv, Typed, TypeOK, Hand, Claim, Stage, Progress, Unsent, Nothing, Complete, Charge, AtWork, Forwarding, Die, Go, Drop, Hurt, Fault, store
<1>5. Outcome(e)'
  BY <1>1, <1>2 DEF Inv, Typed, TypeOK, Hand, Claim, Stage, Outcome, Worked, Nothing, Complete, Charge, AtWork, Forwarding, Terminal, Refusals, Die, Go, Drop, Hurt, Fault, store
<1>6. Forwarded(e)'
  BY <1>1, <1>2 DEF Inv, Typed, TypeOK, Hand, Claim, Progress, Unsent, Forwarded, AtWork, Forwarding, Die, Go, Drop, Hurt, Fault, store
<1>7. /\ pc'[h] = "idle" \/ job'[h] = e
      /\ Kept \/ primary[e] = "absent" \/ Owns(h)
      /\ Owns(h)' => job[h] = e /\ (Owns(h) \/ primary[e] = "absent")
  BY <1>1 DEF Inv, Typed, TypeOK, Kept, Owns, AtWork, Forwarding, Die, Go, Drop, Hurt, Fault, store
<1> QED
  BY <1>1, <1>3, <1>4, <1>5, <1>6, <1>7, Locally

\* A post finds the row or does not, and changes nothing that is stored.
LEMMA PostKeeps == ASSUME Inv, Typed', NEW h \in Handlers, NEW e \in Events, Post(h, e) PROVE Inv'
<1>1. pc[h] = "idle" /\ job'[h] = e /\ pc'[h] \in {"insert", "duplicate"}
  BY DEF Post, Go, Inv, Typed, TypeOK
<1>2. Outcome(e) /\ Forwarded(e)
  BY DEF Inv
<1>3. Apart(h, e)
  BY DEF Apart, Post, Go, store, Inv, Typed, TypeOK
<1>4. Hand(h)'
  <2>1. keys[h] = {}
    BY <1>1 DEF Inv, Hand, Stage
  <2> QED
    BY <1>1, <2>1 DEF Hand, Claim, Stage, Progress, Unsent, AtWork, Forwarding, Post
<1>5. Outcome(e)'
  <2>1. Worked(e) => Worked(e)'
    BY <1>1 DEF Worked, AtWork, Post, Go, Inv, Typed, TypeOK
  <2> QED
    BY <1>2, <2>1 DEF Outcome, Nothing, Complete, Post, store
<1>6. Forwarded(e)'
  BY <1>2 DEF Forwarded, Unsent, Post, store
<1>7. Kept /\ ~Owns(h)'
  BY <1>1 DEF Kept, Owns, AtWork, Forwarding, Post, store
<1> QED
  BY <1>1, <1>3, <1>4, <1>5, <1>6, <1>7, Locally

LEMMA InitInv == Init => Inv
BY InitTyped DEF Init, Inv, Owns, Hand, Claim, Stage, Progress, Unsent, Outcome, Forwarded, Nothing, AtWork,
   Forwarding, Terminal, Refusals

\* Every step keeps the invariant.
LEMMA InvKept == ASSUME Inv, [Next]_vars PROVE Inv'
<1>1. Typed'
  BY TypedKept DEF Inv
<1>2. CASE UNCHANGED vars
  <2>1. UNCHANGED <<primary, received, charged, objects, sent, attempt, pc, job, keys, rules, hurt, misjudged>>
    BY <1>2 DEF vars, store, hands
  <2>2. \A h \in Handlers : Hand(h)' /\ (Owns(h)' <=> Owns(h))
    BY <2>1 DEF Inv, Hand, Claim, Stage, Progress, Unsent, Owns, Nothing, Complete, Charge
  <2>3. \A e \in Events : Outcome(e)' /\ Forwarded(e)'
    BY <2>1 DEF Inv, Outcome, Worked, Forwarded, Unsent, Nothing, Complete
  <2> QED
    BY <1>1, <2>1, <2>2, <2>3 DEF Inv
<1>3. ASSUME NEW h \in Handlers, Handle(h) PROVE Inv'
  BY <1>1, <1>3, InsertPrimaryKeeps, RecordDuplicateKeeps, AnswerKeeps, ParseKeeps, ReserveKeeps, UploadKeeps,
     CommitKeeps, MarkProcessedKeeps, ReleaseKeeps, CleanupKeeps, MarkTerminalKeeps, ForwardKeeps,
     RecordAttemptKeeps DEF Handle
<1>4. ASSUME NEW h \in Handlers, Fail(h) PROVE Inv'
  BY <1>1, <1>4, UploadFailsKeeps, CommitFailsKeeps, MarkFailsKeeps, ForwardFailsKeeps, RecordFailsKeeps, DieKeeps
     DEF Fail
<1> QED
  BY <1>1, <1>2, <1>3, <1>4, PostKeeps DEF Next

LEMMA Invariance == Spec => []Inv
<1>1. Inv /\ [Next]_vars => Inv'
  BY InvKept
<1> QED
  BY InitInv, <1>1, PTL DEF Spec

\* However often and however concurrently a notification is posted, one email
\* is received for it at most, and every rule forwards that at most once.
THEOREM Once == Spec => []IngestedOnce
BY Invariance, InvSafe, PTL

\* The primary row is a claim: one handler at a time owns an event, and while it
\* works the row says "processing", or "processed" where the mark was made and
\* taken for a failed commit.
THEOREM Claimed == Spec => []OneOwner
BY Invariance, InvSafe, PTL

\* Email, charge, attachments and status go together: a processed event has its
\* email, and the rest too unless its mark was taken for a failed commit; and an
\* event only compensated failures struck has all of them or none.
THEOREM Atomic == Spec => []AllOrNothing
BY Invariance, InvSafe, PTL

\* What a forwarding attempt says was done to the email was done.
THEOREM HonestAttempts == Spec => []AttemptsAreHonest
BY Invariance, InvSafe, PTL

=============================================================================
