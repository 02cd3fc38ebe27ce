---------------------------- MODULE InboundIngestion ----------------------------
(***************************************************************************)
(* Ingestion of inbound email: the provider posts a notification until it  *)
(* is answered with success, handlers record it, reserve quota, store the  *)
(* attachments, commit the received email, mark the provider event and     *)
(* forward the email; a failure after the reservation is compensated.      *)
(*                                                                         *)
(* An action is one database statement or transaction, one storage call or *)
(* one answer.  All events belong to one tenant and have the same          *)
(* attachments; webhook_deliveries are inserted by the transaction that    *)
(* commits the email and are not kept apart from it.                       *)
(***************************************************************************)
EXTENDS Integers, FiniteSets

CONSTANTS
  Events,         \* provider event ids
  Handlers,       \* concurrent requests the ingester serves
  Attachments,    \* attachments of every message
  Rules,          \* forwarding rules of the routes the messages match
  Billed,         \* billing is enabled: quota is reserved, not bypassed
  MaxDeliveries,  \* bound on how often the provider posts one event
  MaxFaults,      \* bound on crashes and failing calls
  None            \* no event, no rule

ASSUME InboundAssumption ==
  /\ Billed \in BOOLEAN /\ MaxDeliveries \in Nat /\ MaxFaults \in Nat
  /\ None \notin Events /\ None \notin Rules

VARIABLES
  posts,      \* per event: how often the provider has posted it
  unanswered, \* events the provider has no success answer for
  primary,    \* per event: status of its inbound_provider_events row
  received,   \* per event: received_emails rows committed for it
  charged,    \* events whose reservation counts in emails_sent
  objects,    \* per event: attachments in storage
  sent,       \* per event and rule: forwarded emails accepted
  attempt,    \* per event and rule: the statuses its forwarding_attempts rows have
  pc,         \* per handler: where process stands
  job,        \* per handler: the event it processes
  keys,       \* per handler: uploadedKeys
  rules,      \* per handler: forwarding rules left, and the one in hand
  verdict,    \* per handler: the terminal status it is about to record
  hurt,       \* history: events a crash or an uncompensated failure struck
  misjudged,  \* history: events whose mark was made and taken for a failed commit
  faults      \* crashes and failing calls so far

store == <<primary, received, charged, objects, sent, attempt>>
hands == <<job, keys, rules, verdict>>
vars  == <<posts, unanswered, store, pc, hands, hurt, misjudged, faults>>

Refusals == {"malformed_mime", "oversized_message", "missing_domain", "quota_exceeded"}
Terminal == Refusals \cup {"storage_failure"}
AtWork   == {"parse", "reserve", "upload", "commit", "mark", "release", "cleanup", "terminal"}
Forwarding == {"forward", "record", "recordFailed"}
Places   == {"idle", "insert", "duplicate", "answer"} \cup AtWork \cup Forwarding

TypeOK ==
  /\ posts \in [Events -> Nat] /\ unanswered \subseteq Events
  /\ primary \in [Events -> {"absent", "processing", "processed"} \cup Terminal]
  /\ received \in [Events -> Nat] /\ charged \subseteq Events
  /\ objects \in [Events -> SUBSET Attachments]
  /\ sent \in [Events -> [Rules -> Nat]]
  /\ attempt \in [Events -> [Rules -> SUBSET {"queued", "skipped", "failed"}]]
  /\ pc \in [Handlers -> Places]
  /\ job \in [Handlers -> Events \cup {None}]
  /\ keys \in [Handlers -> SUBSET Attachments]
  /\ rules \in [Handlers -> [left: SUBSET Rules, this: Rules \cup {None}]]
  /\ verdict \in [Handlers -> Terminal \cup {"none"}]
  /\ hurt \subseteq Events /\ misjudged \subseteq hurt /\ faults \in Nat

Init ==
  /\ posts = [e \in Events |-> 0] /\ unanswered = Events
  /\ primary = [e \in Events |-> "absent"] /\ received = [e \in Events |-> 0]
  /\ charged = {} /\ objects = [e \in Events |-> {}]
  /\ sent = [e \in Events |-> [r \in Rules |-> 0]]
  /\ attempt = [e \in Events |-> [r \in Rules |-> {}]]
  /\ pc = [h \in Handlers |-> "idle"] /\ job = [h \in Handlers |-> None]
  /\ keys = [h \in Handlers |-> {}]
  /\ rules = [h \in Handlers |-> [left |-> {}, this |-> None]]
  /\ verdict = [h \in Handlers |-> "none"]
  /\ hurt = {} /\ misjudged = {} /\ faults = 0

-----------------------------------------------------------------------------
(* Helpers *)

Go(h, place) == pc' = [pc EXCEPT ![h] = place]
Fault == faults < MaxFaults /\ faults' = faults + 1
Hurt(e) == Fault /\ hurt' = hurt \cup {e}
Calm == UNCHANGED <<hurt, faults>>

\* An exception nothing catches, or a crash: no success answer.
Drop(h) ==
  /\ Go(h, "idle")
  /\ job' = [job EXCEPT ![h] = None] /\ keys' = [keys EXCEPT ![h] = {}]
  /\ rules' = [rules EXCEPT ![h] = [left |-> {}, this |-> None]]
  /\ verdict' = [verdict EXCEPT ![h] = "none"]

\* On the way to markTerminal.
Refuse(h, status, place) ==
  verdict' = [verdict EXCEPT ![h] = status] /\ Go(h, place) /\ UNCHANGED <<job, keys, rules>>

-----------------------------------------------------------------------------
(* The notification and its primary row *)

\* The provider posts while it has no success answer, and now and then again.
\* findPrimary looks for an earlier row of the event.
Post(h, e) ==
  /\ pc[h] = "idle" /\ posts[e] < MaxDeliveries
  /\ IF e \in unanswered THEN UNCHANGED faults ELSE Fault
  /\ posts' = [posts EXCEPT ![e] = @ + 1]
  /\ job' = [job EXCEPT ![h] = e]
  /\ Go(h, IF primary[e] = "absent" THEN "insert" ELSE "duplicate")
  /\ UNCHANGED <<unanswered, store, keys, rules, verdict, hurt, misjudged>>

\* Mutated forms, each a bug this code could plausibly have, stand right before
\* the definition they are forms of; no specification uses them.
InsertPrimary_NotUnique(h) ==
  LET e == job[h] IN
  /\ pc[h] = "insert"
  /\ primary' = [primary EXCEPT ![e] = "processing"] /\ Go(h, "parse")
  /\ UNCHANGED <<posts, unanswered, misjudged, received, charged, objects, sent, attempt, hands>> /\ Calm

\* The partial unique index lets one primary row in.  The loser looks the row
\* up and is a duplicate, if isUniqueViolation sees the violation: it looks at
\* the error's own code, and where the driver's error comes wrapped the request
\* fails and is posted again.
InsertPrimary(h) ==
  LET e == job[h] IN
  /\ pc[h] = "insert"
  /\ \/ /\ primary[e] = "absent" /\ primary' = [primary EXCEPT ![e] = "processing"]
        /\ Go(h, "parse") /\ UNCHANGED hands
     \/ /\ primary[e] # "absent" /\ UNCHANGED primary
        /\ (Go(h, "duplicate") /\ UNCHANGED hands) \/ Drop(h)
  /\ UNCHANGED <<posts, unanswered, misjudged, received, charged, objects, sent, attempt>> /\ Calm

RecordDuplicate_Resumes(h) ==
  /\ pc[h] = "duplicate" /\ Go(h, IF primary[job[h]] = "processing" THEN "parse" ELSE "answer")
  /\ UNCHANGED <<posts, unanswered, misjudged, store, hands>> /\ Calm

\* createDuplicate; nothing else is done for a duplicate.
RecordDuplicate(h) ==
  /\ pc[h] = "duplicate" /\ Go(h, "answer")
  /\ UNCHANGED <<posts, unanswered, misjudged, store, hands>> /\ Calm

\* A 2xx answer; it may get lost.
Answer(h) ==
  /\ pc[h] = "answer" /\ Drop(h)
  /\ \/ unanswered' = unanswered \ {job[h]} /\ UNCHANGED faults
     \/ Fault /\ UNCHANGED unanswered
  /\ UNCHANGED <<posts, store, hurt, misjudged>>

-----------------------------------------------------------------------------
(* process, from the message to the received email *)

Parse_NotMarked(h) ==
  /\ pc[h] = "parse"
  /\ \/ Go(h, "reserve") /\ UNCHANGED hands
     \/ \E status \in Refusals \ {"quota_exceeded"} : Refuse(h, status, "answer")
  /\ UNCHANGED <<posts, unanswered, misjudged, store>> /\ Calm

\* The message is fetched and parsed and its recipients are routed.
Parse(h) ==
  /\ pc[h] = "parse"
  /\ \/ Go(h, "reserve") /\ UNCHANGED hands
     \/ \E status \in Refusals \ {"quota_exceeded"} : Refuse(h, status, "terminal")
  /\ UNCHANGED <<posts, unanswered, misjudged, store>> /\ Calm

Reserve(h) ==
  LET e == job[h] IN
  /\ pc[h] = "reserve"
  /\ \/ /\ charged' = IF Billed THEN charged \cup {e} ELSE charged
        /\ Go(h, IF Attachments = {} THEN "commit" ELSE "upload") /\ UNCHANGED hands
     \/ Billed /\ Refuse(h, "quota_exceeded", "terminal") /\ UNCHANGED charged
  /\ UNCHANGED <<posts, unanswered, misjudged, primary, received, objects, sent, attempt>> /\ Calm

Upload(h, a) ==
  LET e == job[h] IN
  /\ pc[h] = "upload" /\ a \notin keys[h]
  /\ objects' = [objects EXCEPT ![e] = @ \cup {a}]
  /\ keys' = [keys EXCEPT ![h] = @ \cup {a}]
  /\ Go(h, IF keys'[h] = Attachments THEN "commit" ELSE "upload")
  /\ UNCHANGED <<posts, unanswered, misjudged, primary, received, charged, sent, attempt, job, rules, verdict>>
  /\ Calm

UploadFails_KeepsCharge(h) ==
  LET e == job[h] IN
  /\ pc[h] = "upload" /\ Refuse(h, "storage_failure", "cleanup")
  /\ \/ Fault /\ UNCHANGED <<objects, hurt>>
     \/ Hurt(e) /\ \E a \in Attachments \ keys[h] : objects' = [objects EXCEPT ![e] = @ \cup {a}]
  /\ UNCHANGED <<posts, unanswered, misjudged, primary, received, charged, sent, attempt>>

\* It fails, or it stores the object and the answer is lost.
UploadFails(h) ==
  LET e == job[h] IN
  /\ pc[h] = "upload" /\ Refuse(h, "storage_failure", "release")
  /\ \/ Fault /\ UNCHANGED <<objects, hurt>>
     \/ Hurt(e) /\ \E a \in Attachments \ keys[h] : objects' = [objects EXCEPT ![e] = @ \cup {a}]
  /\ UNCHANGED <<posts, unanswered, misjudged, primary, received, charged, sent, attempt>>

\* One transaction: the email, its event and a delivery for every active webhook.
Commit(h) ==
  LET e == job[h] IN
  /\ pc[h] = "commit" /\ Go(h, "mark")
  /\ received' = [received EXCEPT ![e] = @ + 1]
  /\ UNCHANGED <<posts, unanswered, misjudged, primary, charged, objects, sent, attempt, hands>> /\ Calm

\* It fails, or it commits and the answer is lost.
CommitFails(h) ==
  LET e == job[h] IN
  /\ pc[h] = "commit" /\ Refuse(h, "storage_failure", "release")
  /\ \/ Fault /\ UNCHANGED <<received, hurt>>
     \/ Hurt(e) /\ received' = [received EXCEPT ![e] = @ + 1]
  /\ UNCHANGED <<posts, unanswered, misjudged, primary, charged, objects, sent, attempt>>

MarkProcessed(h) ==
  LET e == job[h] IN
  /\ pc[h] = "mark"
  /\ primary' = [primary EXCEPT ![e] = "processed"]
  /\ Go(h, "forward") /\ rules' = [rules EXCEPT ![h].left = Rules]
  /\ UNCHANGED <<posts, unanswered, misjudged, received, charged, objects, sent, attempt, job, keys, verdict>>
  /\ Calm

\* It fails, or the row is marked and the answer lost: the catch block takes
\* either for a failed commit.
MarkFails(h) ==
  LET e == job[h] IN
  /\ pc[h] = "mark" /\ Hurt(e) /\ Refuse(h, "storage_failure", "release")
  /\ \/ UNCHANGED <<primary, misjudged>>
     \/ primary' = [primary EXCEPT ![e] = "processed"] /\ misjudged' = misjudged \cup {e}
  /\ UNCHANGED <<posts, unanswered, received, charged, objects, sent, attempt>>

\* releaseTransactionalEmailQuota swallows its own failures.
Release(h) ==
  LET e == job[h] IN
  /\ pc[h] = "release" /\ Go(h, "cleanup")
  /\ \/ charged' = charged \ {e} /\ Calm
     \/ Billed /\ Hurt(e) /\ UNCHANGED charged
  /\ UNCHANGED <<posts, unanswered, misjudged, primary, received, objects, sent, attempt, hands>>

\* cleanupStoredAttachments, one key at a time, ignoring failures.
Cleanup(h) ==
  LET e == job[h] IN
  /\ pc[h] = "cleanup"
  /\ \/ /\ keys[h] = {} /\ Go(h, "terminal") /\ UNCHANGED <<objects, keys>> /\ Calm
     \/ \E a \in keys[h] :
          /\ keys' = [keys EXCEPT ![h] = @ \ {a}] /\ UNCHANGED pc
          /\ \/ objects' = [objects EXCEPT ![e] = @ \ {a}] /\ Calm
             \/ Hurt(e) /\ UNCHANGED objects
  /\ UNCHANGED <<posts, unanswered, misjudged, primary, received, charged, sent, attempt, job, rules, verdict>>

MarkTerminal(h) ==
  LET e == job[h] IN
  /\ pc[h] = "terminal" /\ Go(h, "answer")
  /\ primary' = [primary EXCEPT ![e] = verdict[h]]
  /\ UNCHANGED <<posts, unanswered, misjudged, received, charged, objects, sent, attempt, hands>> /\ Calm

-----------------------------------------------------------------------------
(* forwardingRuleService.processReceivedEmail *)

\* A rule that is disabled, invalid or loops is skipped; after the last rule
\* the event is answered.
Forward(h) ==
  LET e == job[h] IN
  /\ pc[h] = "forward"
  /\ \/ /\ rules[h].left = {} /\ Go(h, "answer") /\ UNCHANGED <<sent, attempt, rules>>
     \/ \E r \in rules[h].left :
          /\ rules' = [rules EXCEPT ![h] = [left |-> @.left \ {r}, this |-> r]]
          /\ \/ attempt' = [attempt EXCEPT ![e][r] = @ \cup {"skipped"}] /\ UNCHANGED <<pc, sent>>
             \/ sent' = [sent EXCEPT ![e][r] = @ + 1] /\ Go(h, "record") /\ UNCHANGED attempt
  /\ UNCHANGED <<posts, unanswered, misjudged, primary, received, charged, objects, job, keys, verdict>> /\ Calm

ForwardFails_AsQueued(h) ==
  LET e == job[h] IN
  /\ pc[h] = "forward"
  /\ \E r \in rules[h].left :
       /\ rules' = [rules EXCEPT ![h] = [left |-> @.left \ {r}, this |-> r]]
       /\ Go(h, "record") /\ Fault /\ UNCHANGED <<sent, hurt>>
  /\ UNCHANGED <<posts, unanswered, misjudged, primary, received, charged, objects, attempt, job, keys, verdict>>

\* Sending fails, or the email is accepted and the answer lost; or listing the
\* rules or recording a skipped one fails, which ends the forwarding.
ForwardFails(h) ==
  LET e == job[h] IN
  /\ pc[h] = "forward"
  /\ \/ Fault /\ Go(h, "answer") /\ UNCHANGED <<sent, rules, hurt>>
     \/ \E r \in rules[h].left :
          /\ rules' = [rules EXCEPT ![h] = [left |-> @.left \ {r}, this |-> r]]
          /\ Go(h, "recordFailed")
          /\ \/ Fault /\ UNCHANGED <<sent, hurt>>
             \/ Hurt(e) /\ sent' = [sent EXCEPT ![e][r] = @ + 1]
  /\ UNCHANGED <<posts, unanswered, misjudged, primary, received, charged, objects, attempt, job, keys, verdict>>

\* The attempt's row: queued after a send, failed after an exception, the
\* insert of the queued row included.
RecordAttempt(h) ==
  LET e == job[h] r == rules[h].this IN
  /\ pc[h] \in {"record", "recordFailed"}
  /\ attempt' = [attempt EXCEPT ![e][r] = @ \cup {IF pc[h] = "record" THEN "queued" ELSE "failed"}]
  /\ Go(h, "forward")
  /\ UNCHANGED <<posts, unanswered, misjudged, primary, received, charged, objects, sent, hands>> /\ Calm

\* A queued row whose insert answers nothing may be there, and a failed one
\* comes on top of it.
RecordFails(h) ==
  LET e == job[h] r == rules[h].this IN
  /\ Hurt(e)
  /\ \/ /\ pc[h] = "record" /\ Go(h, "recordFailed")
        /\ UNCHANGED attempt \/ attempt' = [attempt EXCEPT ![e][r] = @ \cup {"queued"}]
     \/ pc[h] = "recordFailed" /\ Go(h, "answer") /\ UNCHANGED attempt
  /\ UNCHANGED <<posts, unanswered, misjudged, primary, received, charged, objects, sent, hands>>

-----------------------------------------------------------------------------
\* A crash at any point; an exception where none is caught: the insert of the
\* row or of a duplicate's, fetching and routing, the reservation, markTerminal.
Die(h) ==
  /\ pc[h] # "idle" /\ Hurt(job[h]) /\ Drop(h)
  /\ UNCHANGED <<posts, unanswered, misjudged, store>>

Handle(h) ==
  \/ InsertPrimary(h) \/ RecordDuplicate(h) \/ Answer(h)
  \/ Parse(h) \/ Reserve(h) \/ (\E a \in Attachments : Upload(h, a)) \/ Commit(h)
  \/ MarkProcessed(h) \/ Release(h) \/ Cleanup(h) \/ MarkTerminal(h)
  \/ Forward(h) \/ RecordAttempt(h)

Fail(h) == UploadFails(h) \/ CommitFails(h) \/ MarkFails(h) \/ ForwardFails(h) \/ RecordFails(h) \/ Die(h)

Next ==
  \/ \E h \in Handlers, e \in Events : Post(h, e)
  \/ \E h \in Handlers : Handle(h) \/ Fail(h)

Spec == Init /\ [][Next]_vars

\* The provider posts every event, and requests run on.
Fairness ==
  /\ \A e \in Events : WF_vars(\E h \in Handlers : Post(h, e))
  /\ \A h \in Handlers : WF_vars(Handle(h))

FairSpec == Spec /\ Fairness

-----------------------------------------------------------------------------
(* Properties *)

\* However often and however concurrently a notification is posted, at most
\* one email is received for it, and every rule forwards that at most once.
IngestedOnce ==
  \A e \in Events : received[e] <= 1 /\ \A r \in Rules : sent[e][r] <= 1

\* Why: the primary row is a claim that is never given back.  While its owner
\* works it says "processing"; only a mark that was made and taken for a failed
\* commit lets it say "processed" while the owner undoes its work.
OneOwner ==
  \A h, i \in Handlers :
    /\ pc[h] \in AtWork =>
         \/ primary[job[h]] = "processing"
         \/ /\ primary[job[h]] = "processed" /\ job[h] \in misjudged
            /\ pc[h] \in {"release", "cleanup", "terminal"}
    /\ pc[h] \in AtWork \cup Forwarding /\ pc[i] \in AtWork \cup Forwarding /\ job[h] = job[i] => h = i

\* An event's email, its charge, its attachments and its status go together.
\* One marked processed has all of them, whatever else struck it on the way,
\* unless the mark itself was made and its answer lost: the catch block then
\* releases the charge and deletes the attachments under a row that says
\* "processed", for good if markTerminal fails too.  And once nobody works on an
\* event that only compensated failures struck, it has all of them or none.
Complete(e) == received[e] = 1 /\ objects[e] = Attachments /\ (Billed => e \in charged)
Nothing(e)  == received[e] = 0 /\ objects[e] = {} /\ e \notin charged

AllOrNothing ==
  \A e \in Events :
    /\ primary[e] = "processed" => received[e] = 1 /\ (e \notin misjudged => Complete(e))
    /\ e \notin hurt /\ (\A h \in Handlers : job[h] = e => pc[h] \notin AtWork) =>
         \/ primary[e] = "processed"
         \/ primary[e] # "processing" /\ Nothing(e)

\* What a forwarding attempt says was done to the email was done.
AttemptsAreHonest ==
  \A e \in Events, r \in Rules :
    /\ "queued" \in attempt[e][r] => sent[e][r] = 1
    /\ attempt[e][r] \cap {"skipped", "failed"} # {} /\ e \notin hurt => sent[e][r] = 0

\* Every event the provider posts is eventually settled, unless its handler was
\* struck: what a crash leaves "processing" is never taken up again.
EventSettles ==
  \A e \in Events : posts[e] > 0 ~> (primary[e] \notin {"absent", "processing"} \/ e \in hurt)

=============================================================================
