------------------------ MODULE EmailAcceptance_proofs ------------------------
(***************************************************************************)
(* Machine-checked proofs about EmailAcceptance, for any number of         *)
(* requests, keys and emails, any batch and chunk size, and any number of  *)
(* faults, crashes, periods, days and changes of the subscription.         *)
(***************************************************************************)
EXTENDS EmailAcceptance, FiniteSetTheorems, TLAPS

-----------------------------------------------------------------------------
(* The inductive invariant *)

\* A request inserts rows once, at the end of its acceptance.
InsertedOnce ==
  \A r \in Requests, e \in Emails : req[r].pc \in {"new", "lookup", "accept"} => row[e].by # r

\* The rows of a request are made on one day, which is not in the future.
OneDay ==
  /\ \A e \in Emails : row[e].day <= world.day
  /\ \A e, f \in Emails : row[e].by = row[f].by /\ row[e].by # None => row[e].day = row[f].day

\* Within the window, one of the rows a keyed request made still has its key.
KeyIsKept ==
  \A e \in Emails :
    row[e].by # None /\ row[e].day = world.day /\ req[row[e].by].key # None =>
      \E a \in Emails : row[a].by = row[e].by /\ row[a].key = req[row[e].by].key

KeyInv == InsertedOnce /\ OneDay /\ KeyIsKept /\ KeyAcceptedOnce

\* Emails of a period that are paid for: the sendable ones, and the failed ones
\* of a request that has yet to release its reservation.
PaidFor(p) ==
  {e \in Emails : /\ row[e].period = p
                  /\ \/ row[e].status \in {"queued", "scheduled"}
                     \/ row[e].status = "failed" /\ req[row[e].by].pc \in {"publish", "release"}}

Accepted(p) == {e \in Emails : row[e].period = p /\ row[e].status \in {"queued", "scheduled", "failed"}}

ChargeInv ==
  \A p \in Periods :
    /\ quota[p] <= Cardinality(Accepted(p))
    /\ Cardinality(PaidFor(p)) <= quota[p] + unearned[p]

\* Nothing of a request that is publishing or was accepted has been lost.
Intact(r) ==
  /\ req[r].pc \in {"publish", "accepted"} =>
       \A e \in Made(r) : \/ row[e].status = "scheduled"
                          \/ row[e].status = "queued" /\ e \in Pending(r) \cup jobs
  /\ req[r].pc = "accepted" => Pending(r) = {}

PublishInv == \A r \in Requests : Intact(r)

-----------------------------------------------------------------------------
(* What the transaction does to the rows *)

\* Taking keys off rows changes nothing else, and spares the rows of today.
LEMMA ExpireKeeps ==
  ASSUME RowsOK, NEW r \in Requests
  PROVE  /\ Expire(r) \in [Emails -> RowType]
         /\ \A e \in Emails :
              /\ Expire(r)[e].status = row[e].status /\ Expire(r)[e].day = row[e].day
              /\ Expire(r)[e].by = row[e].by /\ Expire(r)[e].period = row[e].period
              /\ row[e].day = world.day => Expire(r)[e] = row[e]
              /\ row[e].status = "absent" => Expire(r)[e] = row[e]
<1> DEFINE unkey(e) == [row[e] EXCEPT !.key = None]
<1>1. ASSUME NEW e \in Emails
      PROVE  /\ unkey(e) \in RowType /\ unkey(e).status = row[e].status
             /\ unkey(e).day = row[e].day /\ unkey(e).by = row[e].by
             /\ unkey(e).period = row[e].period
  BY DEF RowsOK, RowType
<1>2. \A e \in Stale(r) : row[e].day # world.day /\ row[e].status # "absent"
  BY DEF Stale, Holders, Fresh, Exists
<1>3. Expire(r) = [e \in Emails |-> IF e \in Stale(r) THEN unkey(e) ELSE row[e]]
  BY DEF Expire
<1> HIDE DEF unkey
<1> QED BY <1>1, <1>2, <1>3 DEF RowsOK

\* What a committed transaction does: it inserts rows of the request, made now,
\* one of them with its key; no row of today held the key before.
Inserted(r, new, later) ==
  /\ row' \in [Emails -> RowType]
  /\ \A e \in new :
       /\ row[e] = NoRow
       /\ row'[e].by = r /\ row'[e].day = world.day /\ row'[e].period = world.period
       /\ row'[e].status = IF e \in later THEN "scheduled" ELSE "queued"
  /\ \A e \in Emails \ new :
       /\ row'[e].status = row[e].status /\ row'[e].day = row[e].day
       /\ row'[e].by = row[e].by /\ row'[e].period = row[e].period
       /\ row[e].day = world.day => row'[e] = row[e]
       /\ row[e].status = "absent" => row'[e] = row[e]
  /\ \E a \in new : row'[a].key = req[r].key
  /\ \A e \in Emails : req[r].key # None /\ row[e].day = world.day => row[e].key # req[r].key
  /\ later \subseteq new /\ Cardinality(new) = Size(req[r].kind)
  /\ quota' = [quota EXCEPT ![world.period] = @ + Size(req[r].kind)]

LEMMA CommitShape ==
  ASSUME TypeOK, NEW r \in Requests, NEW new \in SUBSET Emails, NEW later \in SUBSET Emails,
         Commit(r, new, later)
  PROVE  Inserted(r, new, later)
<1> USE DEF TypeOK
<1>1. PICK a \in new : Insert(r, new, later, a) BY DEF Commit
<1> DEFINE made(e) == [status |-> IF e \in later THEN "scheduled" ELSE "queued",
                       key |-> IF e = a THEN req[r].key ELSE None,
                       day |-> world.day, by |-> r, period |-> world.period]
<1>2. \A e \in new : made(e) \in RowType
  BY DEF AccountsOK, RequestsOK, ReqType, RowType, Statuses
<1>3. row' = [e \in Emails |-> IF e \in new THEN made(e) ELSE Expire(r)[e]] BY <1>1 DEF Insert
<1>4. \A e \in Emails : req[r].key # None /\ row[e].day = world.day => row[e].key # req[r].key
  BY ExpireKeeps DEF Commit, Taken
<1>5. \A e \in new : row[e] = NoRow BY DEF Commit, Exists, RowsOK
<1>6. \A e \in new : /\ made(e).by = r /\ made(e).day = world.day /\ made(e).period = world.period
                    /\ made(e).status = IF e \in later THEN "scheduled" ELSE "queued"
  OBVIOUS
<1>7. made(a).key = req[r].key OBVIOUS
<1>8. Expire(r) \in [Emails -> RowType] BY ExpireKeeps
<1> HIDE DEF made
<1>9. row' \in [Emails -> RowType] BY <1>2, <1>3, <1>8
<1>10. \A e \in new : row'[e] = made(e) BY <1>3
<1>11. \A e \in Emails \ new : row'[e] = Expire(r)[e] BY <1>3
<1>12. later \subseteq new /\ Cardinality(new) = Size(req[r].kind)
       /\ quota' = [quota EXCEPT ![world.period] = @ + Size(req[r].kind)]
  BY DEF Commit, Reserve
<1> QED BY <1>4, <1>5, <1>6, <1>7, <1>9, <1>10, <1>11, <1>12, ExpireKeeps DEF Inserted

-----------------------------------------------------------------------------
(* Type correctness, one part of the state at a time *)

SpentOK == spent \in [{"switch", "fault", "crash"} -> Nat]

\* What an action leaves alone keeps its type.
LEMMA Frame ==
  ASSUME TypeOK
  PROVE  /\ UNCHANGED <<row, jobs>> => RowsOK'
         /\ UNCHANGED <<quota, unearned, world>> => AccountsOK'
         /\ UNCHANGED spent => SpentOK'
         /\ \A k \in {"switch", "fault", "crash"} : Spend(k) => SpentOK'
         /\ \A r \in Requests, step \in Steps \cup Answers :
              Goto(r, step) /\ UNCHANGED <<row, todo, chunk, failing>> => RequestsOK'
<1> USE DEF TypeOK
<1>1. UNCHANGED <<row, jobs>> => RowsOK' BY DEF RowsOK
<1>2. UNCHANGED <<quota, unearned, world>> => AccountsOK' BY DEF AccountsOK
<1>3. UNCHANGED spent => SpentOK' BY DEF SpentOK
<1>4. ASSUME NEW k \in {"switch", "fault", "crash"}, Spend(k) PROVE SpentOK'
  BY <1>4 DEF SpentOK, Spend
<1>5. ASSUME NEW r \in Requests, NEW step \in Steps \cup Answers,
             Goto(r, step), UNCHANGED <<row, todo, chunk, failing>>
      PROVE  RequestsOK'
  <2>1. [req[r] EXCEPT !.pc = step] \in ReqType BY DEF RequestsOK, ReqType
  <2>2. req' \in [Requests -> ReqType] BY <1>5, <2>1 DEF Goto, RequestsOK
  <2> QED BY <1>5, <2>2 DEF RequestsOK, Pending
<1> QED BY <1>1, <1>2, <1>3, <1>4, <1>5

\* Keys that are taken off leave the rows and what requests work on well typed.
LEMMA TypeExpire ==
  ASSUME TypeOK, NEW r \in Requests, row' = Expire(r), UNCHANGED jobs
  PROVE  RowsOK'
  BY ExpireKeeps DEF TypeOK, RowsOK

\* A committed transaction.
LEMMA TypeCommit ==
  ASSUME TypeOK, NEW r \in Requests, NEW new \in SUBSET Emails, NEW later \in SUBSET Emails,
         Commit(r, new, later), UNCHANGED <<world, jobs, unearned>>
  PROVE  /\ RowsOK' /\ AccountsOK'
         /\ \A q \in Requests : \A e \in Pending(q) : row'[e].by = q
         /\ \A e \in new : row'[e].by = r
<1> USE DEF TypeOK
<1>0. Inserted(r, new, later) BY CommitShape
<1>1. RowsOK'
  <2>1. \A e \in Emails \ new : row'[e].status = "absent" => row'[e] = NoRow
    BY <1>0 DEF RowsOK, Inserted
  <2>2. \A e \in Emails \ new : row'[e].status # "absent" => row'[e].by \in Requests
    BY <1>0 DEF RowsOK, Inserted
  <2>3. \A e \in new : row'[e].by \in Requests /\ row'[e].status # "absent" BY <1>0 DEF Inserted
  <2> QED BY <2>1, <2>2, <2>3, <1>0 DEF RowsOK, Inserted
<1>2. AccountsOK'
  <2>1. Size(req[r].kind) \in Nat
    BY AcceptanceAssumption DEF Size, RequestsOK, ReqType
  <2>2. quota[world.period] + Size(req[r].kind) \in Nat BY <2>1 DEF AccountsOK
  <2>3. quota' = [quota EXCEPT ![world.period] = @ + Size(req[r].kind)] BY <1>0 DEF Inserted
  <2> QED BY <2>2, <2>3 DEF AccountsOK
<1>3. ASSUME NEW q \in Requests, NEW e \in Pending(q) PROVE row'[e].by = q
  <2>1. e \in Emails /\ row[e].by = q BY DEF RequestsOK, Pending
  <2>2. e \notin new
    <3>1. ASSUME e \in new PROVE FALSE
      <4>1. row[e] = NoRow BY <1>0, <3>1 DEF Inserted
      <4>2. NoRow.by = None BY DEF NoRow
      <4> QED BY <2>1, <4>1, <4>2, AcceptanceAssumption
    <3> QED BY <3>1
  <2> QED BY <2>1, <2>2, <1>0 DEF Inserted
<1> QED BY <1>1, <1>2, <1>3, <1>0 DEF Inserted

\* Before the transaction, and the transaction itself.
LEMMA TypeAcceptance ==
  ASSUME TypeOK, NEW r \in Requests,
         Start(r) \/ Lookup(r) \/ Accept(r) \/ RefuseQuota(r) \/ Conflict(r) \/ AcceptFails(r)
  PROVE  TypeOK'
<1> USE DEF TypeOK
<1>0. AfterRollback(r) \in Steps \cup Answers BY DEF AfterRollback, Steps, Answers
<1>1. CASE Start(r)
  <2>1. req' \in [Requests -> ReqType]
    <3>1. PICK kind \in Kinds, key \in Keys \cup {None} :
            req' = [req EXCEPT ![r] = [pc |-> IF key = None THEN "accept" ELSE "lookup",
                                       kind |-> kind, key |-> key]]
      BY <1>1 DEF Start
    <3>2. [pc |-> IF key = None THEN "accept" ELSE "lookup", kind |-> kind, key |-> key] \in ReqType
      BY DEF ReqType, Steps
    <3> QED BY <3>1, <3>2 DEF RequestsOK
  <2>2. RequestsOK' BY <1>1, <2>1 DEF Start, RequestsOK, Pending
  <2> QED BY <1>1, <2>2, Frame DEF Start, SpentOK
<1>2. CASE Lookup(r)
  <2>1. RequestsOK' BY <1>2, Frame DEF Lookup, Steps, Answers
  <2> QED BY <1>2, <2>1, Frame DEF Lookup, SpentOK
<1>3. CASE Accept(r)
  <2>1. PICK new \in SUBSET Emails, later \in SUBSET Emails :
          Commit(r, new, later) /\ todo' = [todo EXCEPT ![r] = new \ later]
    BY <1>3 DEF Accept
  <2>2. RowsOK' /\ AccountsOK'
        /\ (\A q \in Requests : \A e \in Pending(q) : row'[e].by = q)
        /\ (\A e \in new : row'[e].by = r)
    BY <1>3, <2>1, TypeCommit DEF Accept
  <2>3. req' \in [Requests -> ReqType]
    <3>1. [req[r] EXCEPT !.pc = "publish"] \in ReqType BY DEF RequestsOK, ReqType, Steps
    <3> QED BY <1>3, <3>1 DEF Accept, Goto, RequestsOK
  <2>4. \A q \in Requests : \A e \in Pending(q)' : row'[e].by = q
    BY <1>3, <2>1, <2>2 DEF Accept, Pending, RequestsOK
  <2>5. RequestsOK' BY <1>3, <2>1, <2>3, <2>4 DEF Accept, RequestsOK
  <2> QED BY <1>3, <2>2, <2>5, Frame DEF Accept, SpentOK
<1>4. CASE RefuseQuota(r)
  <2>1. RowsOK' BY <1>4, TypeExpire DEF RefuseQuota
  <2>2. req' \in [Requests -> ReqType]
    <3>1. [req[r] EXCEPT !.pc = "refused"] \in ReqType BY DEF RequestsOK, ReqType, Answers
    <3> QED BY <1>4, <3>1 DEF RefuseQuota, Goto, RequestsOK
  <2>3. \A e \in Emails : row'[e].by = row[e].by BY <1>4, ExpireKeeps DEF RefuseQuota
  <2>4. RequestsOK' BY <1>4, <2>2, <2>3 DEF RefuseQuota, RequestsOK, Pending
  <2> QED BY <1>4, <2>1, <2>4, Frame DEF RefuseQuota, SpentOK
<1>5. CASE Conflict(r)
  <2>1. RequestsOK' BY <1>0, <1>5, Frame DEF Conflict
  <2> QED BY <1>5, <2>1, Frame DEF Conflict, SpentOK
<1>6. CASE AcceptFails(r)
  <2>1. SpentOK' /\ UNCHANGED <<world, todo, chunk, failing, jobs, unearned>>
    BY <1>6, Frame DEF AcceptFails
  <2>2. CASE UNCHANGED <<row, quota>> /\ (Goto(r, "error") \/ Goto(r, AfterRollback(r)))
    <3>1. RequestsOK' BY <1>0, <2>1, <2>2, Frame DEF Answers
    <3> QED BY <2>1, <2>2, <3>1, Frame DEF SpentOK
  <2>3. CASE (\E new, later \in SUBSET Emails : Commit(r, new, later)) /\ Goto(r, AfterRollback(r))
    <3>1. PICK new \in SUBSET Emails, later \in SUBSET Emails : Commit(r, new, later) BY <2>3
    <3>2. RowsOK' /\ AccountsOK' /\ (\A q \in Requests : \A e \in Pending(q) : row'[e].by = q)
      BY <2>1, <3>1, TypeCommit
    <3>3. req' \in [Requests -> ReqType]
      <4>1. [req[r] EXCEPT !.pc = AfterRollback(r)] \in ReqType BY <1>0 DEF RequestsOK, ReqType
      <4> QED BY <2>3, <4>1 DEF Goto, RequestsOK
    <3>4. RequestsOK' BY <2>1, <3>2, <3>3 DEF RequestsOK, Pending
    <3> QED BY <2>1, <3>2, <3>4 DEF SpentOK
  <2> QED BY <1>6, <2>2, <2>3 DEF AcceptFails
<1> QED BY <1>1, <1>2, <1>3, <1>4, <1>5, <1>6

\* Publishing, auditing and answering.
LEMMA TypePublishing ==
  ASSUME TypeOK, NEW r \in Requests,
         \/ NextChunk(r) \/ Answer(r)
         \/ \E e \in Emails : Publish(r, e) \/ PublishFails(r, e) \/ Audit(r, e) \/ AuditFails(r, e)
  PROVE  TypeOK'
<1> USE DEF TypeOK
<1>1. CASE NextChunk(r)
  <2>1. PICK next \in SUBSET todo[r] :
          /\ chunk' = [chunk EXCEPT ![r] = next]
          /\ todo' = [todo EXCEPT ![r] = @ \ next]
    BY <1>1 DEF NextChunk, AtMost
  <2>2. RequestsOK' BY <1>1, <2>1 DEF NextChunk, RequestsOK, Pending
  <2> QED BY <1>1, <2>2, Frame DEF NextChunk, SpentOK
<1>2. CASE Answer(r)
  <2>1. RequestsOK' BY <1>2, Frame DEF Answer, Answers
  <2>2. SpentOK' BY <1>2, Frame DEF Answer
  <2> QED BY <1>2, <2>1, <2>2, Frame DEF Answer, SpentOK
<1>3. ASSUME NEW e \in Emails, Publish(r, e) PROVE TypeOK'
  <2>1. RowsOK' BY <1>3 DEF Publish, RowsOK
  <2>2. RequestsOK' BY <1>3 DEF Publish, RequestsOK, Pending
  <2> QED BY <1>3, <2>1, <2>2, Frame DEF Publish, SpentOK
<1>4. ASSUME NEW e \in Emails, PublishFails(r, e) PROVE TypeOK'
  <2>1. RowsOK' BY <1>4 DEF PublishFails, RowsOK
  <2>2. RequestsOK' BY <1>4 DEF PublishFails, RequestsOK, Pending
  <2> QED BY <1>4, <2>1, <2>2, Frame DEF PublishFails, SpentOK
<1>5. ASSUME NEW e \in Emails, Reject(r), failing' = [failing EXCEPT ![r] = @ \ {e}],
             UNCHANGED <<todo, chunk>>, \A f \in Emails : row'[f].by = row[f].by
      PROVE  RequestsOK'
  <2>1. [req[r] EXCEPT !.pc = IF @ = "publish" THEN "release" ELSE @] \in ReqType
    BY DEF RequestsOK, ReqType, Steps
  <2>2. req' = [req EXCEPT ![r] = [req[r] EXCEPT !.pc = IF @ = "publish" THEN "release" ELSE @]]
    BY <1>5 DEF Reject, Goto
  <2>3. req' \in [Requests -> ReqType] BY <2>1, <2>2 DEF RequestsOK
  <2> QED BY <1>5, <2>3 DEF RequestsOK, Pending
<1>6. ASSUME NEW e \in Emails, Audit(r, e) PROVE TypeOK'
  <2>1. row[e].by = r BY <1>6 DEF Audit, RequestsOK, Pending
  <2>2. [row[e] EXCEPT !.status = "failed"] \in RowType BY DEF RowsOK, RowType, Statuses
  <2>3. row' = [row EXCEPT ![e] = [row[e] EXCEPT !.status = "failed"]] BY <1>6 DEF Audit
  <2>4. [row[e] EXCEPT !.status = "failed"].status # "absent"
        /\ [row[e] EXCEPT !.status = "failed"].by = row[e].by
    BY DEF RowsOK, RowType
  <2>5. RowsOK' BY <1>6, <2>1, <2>2, <2>3, <2>4 DEF RowsOK, Audit
  <2>6. \A f \in Emails : row'[f].by = row[f].by BY <2>3, <2>4 DEF RowsOK
  <2>7. RequestsOK' BY <1>5, <1>6, <2>6 DEF Audit
  <2> QED BY <1>6, <2>5, <2>7, Frame DEF Audit, SpentOK
<1>7. ASSUME NEW e \in Emails, AuditFails(r, e) PROVE TypeOK'
  <2>1. RequestsOK' BY <1>5, <1>7 DEF AuditFails
  <2> QED BY <1>7, <2>1, Frame DEF AuditFails, SpentOK
<1> QED BY <1>1, <1>2, <1>3, <1>4, <1>6, <1>7

\* The units a release takes are there to be taken.
LEMMA ReleaseAmounts ==
  ASSUME TypeOK, NEW r \in Requests, NEW p \in Periods
  PROVE  LET back == Least(Size(req[r].kind), quota[p])
             due == Cardinality({e \in Made(r) : row[e].status = "failed" /\ row[e].period = p})
         IN  /\ Size(req[r].kind) \in Nat /\ quota[p] \in Nat /\ unearned[p] \in Nat
             /\ back \in Nat /\ back <= quota[p] /\ due \in Nat
<1> DEFINE failed == {e \in Made(r) : row[e].status = "failed" /\ row[e].period = p}
<1>1. Size(req[r].kind) \in Nat
  BY AcceptanceAssumption DEF TypeOK, Size, RequestsOK, ReqType
<1>2. quota[p] \in Nat /\ unearned[p] \in Nat BY DEF TypeOK, AccountsOK
<1>3. failed \in SUBSET Emails BY DEF Made
<1>4. IsFiniteSet(failed) BY <1>3, FS_Subset, AcceptanceAssumption
<1>5. Cardinality(failed) \in Nat BY <1>4, FS_CardinalityType
<1> QED BY <1>1, <1>2, <1>5 DEF Least

\* Releasing, dying, and the world outside.
LEMMA TypeRest ==
  ASSUME TypeOK,
         \/ \E r \in Requests : Release(r) \/ ReleaseFails(r) \/ Crash(r)
         \/ DayPasses \/ PeriodBegins \/ SubscriptionSwitches
  PROVE  TypeOK'
<1> USE DEF TypeOK
<1>1. ASSUME NEW r \in Requests, Release(r) PROVE TypeOK'
  <2> DEFINE p == world.period
             back == Least(Size(req[r].kind), quota[p])
             due == Cardinality({e \in Made(r) : row[e].status = "failed" /\ row[e].period = p})
  <2>1. p \in Periods BY DEF AccountsOK
  <2>2. back \in Nat /\ back <= quota[p] /\ due \in Nat /\ unearned[p] \in Nat /\ quota[p] \in Nat
    BY <2>1, ReleaseAmounts
  <2>3. \/ /\ quota' = [quota EXCEPT ![p] = @ - back]
           /\ unearned' = [unearned EXCEPT ![p] = IF back > due THEN @ + (back - due) ELSE @]
        \/ UNCHANGED <<quota, unearned>>
    BY <1>1 DEF Release
  <2> HIDE DEF back, due
  <2>4. quota[p] - back \in Nat /\ (back > due => unearned[p] + (back - due) \in Nat) BY <2>2
  <2> HIDE DEF p
  <2>5. quota' \in [Periods -> Nat] /\ unearned' \in [Periods -> Nat]
    BY <2>1, <2>2, <2>3, <2>4 DEF AccountsOK
  <2>6. AccountsOK' BY <1>1, <2>5 DEF Release, AccountsOK
  <2>7. RequestsOK' BY <1>1, Frame DEF Release, Answers
  <2> QED BY <1>1, <2>6, <2>7, Frame DEF Release, SpentOK
<1>2. ASSUME NEW r \in Requests, ReleaseFails(r) PROVE TypeOK'
  <2>1. RequestsOK' BY <1>2, Frame DEF ReleaseFails, Answers
  <2> QED BY <1>2, <2>1, Frame DEF ReleaseFails, SpentOK
<1>3. ASSUME NEW r \in Requests, Crash(r) PROVE TypeOK'
  <2>1. [req[r] EXCEPT !.pc = "crashed"] \in ReqType BY DEF RequestsOK, ReqType, Answers
  <2>2. req' \in [Requests -> ReqType] BY <1>3, <2>1 DEF Crash, Goto, RequestsOK
  <2>3. RequestsOK' BY <1>3, <2>2 DEF Crash, RequestsOK, Pending
  <2> QED BY <1>3, <2>3, Frame DEF Crash, SpentOK
<1>4. CASE DayPasses \/ PeriodBegins \/ SubscriptionSwitches
  <2>1. AccountsOK'
    <3>1. CASE DayPasses
      <4>1. [world EXCEPT !.day = @ + 1] \in [day: Nat, period: Periods, active: BOOLEAN]
        BY DEF AccountsOK
      <4> QED BY <3>1, <4>1 DEF DayPasses, AccountsOK
    <3>2. CASE PeriodBegins
      <4>1. world.period + 1 \in Periods
        BY <3>2, AcceptanceAssumption DEF PeriodBegins, AccountsOK, Periods
      <4>2. [world EXCEPT !.period = @ + 1] \in [day: Nat, period: Periods, active: BOOLEAN]
        BY <4>1 DEF AccountsOK
      <4> QED BY <3>2, <4>2 DEF PeriodBegins, AccountsOK
    <3>3. CASE SubscriptionSwitches
      <4>1. [world EXCEPT !.active = ~@] \in [day: Nat, period: Periods, active: BOOLEAN]
        BY DEF AccountsOK
      <4> QED BY <3>3, <4>1 DEF SubscriptionSwitches, AccountsOK
    <3> QED BY <1>4, <3>1, <3>2, <3>3
  <2>2. RequestsOK' BY <1>4 DEF DayPasses, PeriodBegins, SubscriptionSwitches, RequestsOK, Pending
  <2>3. SpentOK' BY <1>4, Frame DEF DayPasses, PeriodBegins, SubscriptionSwitches
  <2>4. RowsOK' BY <1>4, Frame DEF DayPasses, PeriodBegins, SubscriptionSwitches
  <2> QED BY <2>1, <2>2, <2>3, <2>4 DEF SpentOK
<1> QED BY <1>1, <1>2, <1>3, <1>4

LEMMA TypeInit == Init => TypeOK
<1> SUFFICES ASSUME Init PROVE TypeOK OBVIOUS
<1>1. NoRow \in RowType BY AcceptanceAssumption DEF NoRow, RowType, Statuses, Periods
<1>2. 0 \in Periods BY AcceptanceAssumption DEF Periods
<1>3. [pc |-> "new", kind |-> "single", key |-> None] \in ReqType BY DEF ReqType, Kinds
<1>4. RowsOK BY <1>1 DEF Init, RowsOK, NoRow
<1>5. AccountsOK BY <1>2 DEF Init, AccountsOK
<1>6. RequestsOK BY <1>3 DEF Init, RequestsOK, Pending
<1> QED BY <1>4, <1>5, <1>6 DEF Init, TypeOK

LEMMA TypeStep == TypeOK /\ [Next]_vars => TypeOK'
<1> SUFFICES ASSUME TypeOK, [Next]_vars PROVE TypeOK' OBVIOUS
<1>1. CASE UNCHANGED vars
  BY <1>1 DEF vars, TypeOK, RowsOK, AccountsOK, RequestsOK, Pending
<1>2. CASE Next BY <1>2, TypeAcceptance, TypePublishing, TypeRest DEF Next, Serve, ServeFault
<1> QED BY <1>1, <1>2

\* Rows, accounts and requests keep their types: no account goes below zero,
\* and a request publishes and audits only the rows it inserted.
THEOREM TypeCorrect == Spec => []TypeOK
BY TypeInit, TypeStep, PTL DEF Spec


-----------------------------------------------------------------------------
(* A key is accepted once in its window *)

Before == {"new", "lookup", "accept"}

\* Most steps leave alone who made which row, when, and with what key, and send
\* no request back to before its transaction.
RowsStand ==
  \A e \in Emails :
    /\ row'[e].by = row[e].by /\ row'[e].day = row[e].day /\ row'[e].key = row[e].key
    /\ row'[e].status = "absent" <=> row[e].status = "absent"

KeysStand ==
  /\ world'.day = world.day
  /\ \A r \in Requests : req'[r].key = req[r].key /\ (req'[r].pc \in Before => req[r].pc \in Before)

LEMMA KeyFrame ==
  ASSUME TypeOK, KeyInv, RowsStand, KeysStand
  PROVE  KeyInv'
<1>1. \A e \in Emails : row[e].by # None => row[e].by \in Requests
  BY DEF TypeOK, RowsOK, NoRow
<1>2. \A e \in Emails : row[e].status # "absent" => row[e].by \in Requests
  BY DEF TypeOK, RowsOK
<1>3. InsertedOnce' BY DEF KeyInv, InsertedOnce, RowsStand, KeysStand, Before
<1>4. OneDay' BY DEF KeyInv, OneDay, RowsStand, KeysStand
<1>5. KeyIsKept'
  <2> SUFFICES ASSUME NEW e \in Emails, row'[e].by # None, row'[e].day = world'.day,
                      req'[row'[e].by].key # None
               PROVE  \E a \in Emails : row'[a].by = row'[e].by /\ row'[a].key = req'[row'[e].by].key
    BY DEF KeyIsKept
  <2>1. row[e].by \in Requests /\ row'[e].by = row[e].by BY <1>1 DEF RowsStand
  <2>2. row[e].day = world.day /\ req[row[e].by].key # None BY <2>1 DEF RowsStand, KeysStand
  <2>3. PICK a \in Emails : row[a].by = row[e].by /\ row[a].key = req[row[e].by].key
    BY <2>1, <2>2, AcceptanceAssumption DEF KeyInv, KeyIsKept
  <2> QED BY <2>1, <2>3 DEF RowsStand, KeysStand
<1>6. KeyAcceptedOnce'
  BY <1>2 DEF KeyInv, KeyAcceptedOnce, Exists, RowsStand, KeysStand
<1> QED BY <1>3, <1>4, <1>5, <1>6 DEF KeyInv

\* Where a request goes on, no key changes.
LEMMA GotoStands ==
  ASSUME TypeOK, NEW r \in Requests, NEW step,
         Goto(r, step), step \in Before => req[r].pc \in Before, UNCHANGED world
  PROVE  KeysStand
BY DEF TypeOK, RequestsOK, ReqType, Goto, KeysStand

\* A committed transaction: the requests with this key that inserted rows today
\* would have left a row that holds it.
LEMMA KeyCommit ==
  ASSUME TypeOK, KeyInv, NEW r \in Requests, req[r].pc = "accept",
         NEW new \in SUBSET Emails, NEW later \in SUBSET Emails, Commit(r, new, later),
         KeysStand, req'[r].pc \notin Before
  PROVE  KeyInv'
<1>0. Inserted(r, new, later) BY CommitShape
<1>1. \A e \in Emails : row[e].by # r BY DEF KeyInv, InsertedOnce
<1>2. \A e \in new : row'[e].by = r /\ row'[e].day = world.day /\ row[e].by = None /\ row[e].status = "absent"
  BY <1>0 DEF Inserted, NoRow
<1>3. \A e \in Emails \ new :
        /\ row'[e].by = row[e].by /\ row'[e].day = row[e].day /\ row'[e].status = row[e].status
        /\ row[e].day = world.day => row'[e].key = row[e].key
  BY <1>0 DEF Inserted
<1>4. \A e \in Emails : row[e].by # None => row[e].by \in Requests
  BY DEF TypeOK, RowsOK, NoRow
<1>5. \A e \in Emails : row[e].status # "absent" => row[e].by \in Requests
  BY DEF TypeOK, RowsOK
<1>6. InsertedOnce'
  BY <1>2, <1>3 DEF KeyInv, InsertedOnce, KeysStand, Before
<1>7. OneDay'
  <2>1. \A e \in Emails : row'[e].day <= world'.day
    BY <1>2, <1>3 DEF KeyInv, OneDay, KeysStand, TypeOK, AccountsOK
  <2>2. ASSUME NEW e \in Emails, NEW f \in Emails, row'[e].by = row'[f].by, row'[e].by # None
        PROVE  row'[e].day = row'[f].day
    <3>1. CASE row'[e].by = r
      <4>1. e \in new /\ f \in new BY <1>1, <1>3, <2>2, <3>1
      <4> QED BY <1>2, <4>1
    <3>2. CASE row'[e].by # r
      <4>1. e \notin new /\ f \notin new BY <1>2, <2>2, <3>2
      <4> QED BY <1>3, <2>2, <4>1 DEF KeyInv, OneDay
    <3> QED BY <3>1, <3>2
  <2> QED BY <2>1, <2>2 DEF OneDay
<1>8. KeyIsKept'
  <2> SUFFICES ASSUME NEW e \in Emails, row'[e].by # None, row'[e].day = world'.day,
                      req'[row'[e].by].key # None
               PROVE  \E a \in Emails : row'[a].by = row'[e].by /\ row'[a].key = req'[row'[e].by].key
    BY DEF KeyIsKept
  <2>1. CASE e \in new
    <3>1. PICK a \in new : row'[a].key = req[r].key BY <1>0 DEF Inserted
    <3> QED BY <1>2, <2>1, <3>1 DEF KeysStand
  <2>2. CASE e \notin new
    <3>1. row[e].by \in Requests /\ row'[e].by = row[e].by /\ row[e].day = world.day
          /\ req[row[e].by].key # None
      BY <1>3, <1>4, <2>2 DEF KeysStand
    <3>2. PICK a \in Emails : row[a].by = row[e].by /\ row[a].key = req[row[e].by].key
      BY <3>1, AcceptanceAssumption DEF KeyInv, KeyIsKept
    <3>3. row[a].by # None BY <3>1, <3>2, AcceptanceAssumption
    <3>4. a \notin new /\ row[a].day = world.day
      BY <1>2, <3>1, <3>2, <3>3 DEF KeyInv, OneDay
    <3> QED BY <1>3, <3>1, <3>2, <3>4 DEF KeysStand
  <2> QED BY <2>1, <2>2
<1>9. ASSUME NEW e \in Emails \ new, row[e].status # "absent",
             req[row[e].by].key = req[r].key, req[r].key # None
      PROVE  row[e].day # world.day
  <2>1. ASSUME row[e].day = world.day PROVE FALSE
    <3>1. row[e].by \in Requests /\ row[e].by # None BY <1>5, <1>9, AcceptanceAssumption
    <3>2. PICK a \in Emails : row[a].by = row[e].by /\ row[a].key = req[r].key
      BY <1>9, <2>1, <3>1 DEF KeyInv, KeyIsKept
    <3>3. row[a].day = world.day BY <2>1, <3>1, <3>2 DEF KeyInv, OneDay
    <3> QED BY <1>0, <1>9, <3>2, <3>3 DEF Inserted
  <2> QED BY <2>1
<1>10. KeyAcceptedOnce'
  <2> SUFFICES ASSUME NEW e \in Emails, NEW f \in Emails, Exists(e)', Exists(f)',
                      row'[e].by # row'[f].by, req'[row'[e].by].key = req'[row'[f].by].key,
                      req'[row'[e].by].key # None
               PROVE  row'[e].day # row'[f].day
    BY DEF KeyAcceptedOnce
  <2>1. CASE e \in new
    <3>1. f \notin new BY <1>2, <2>1
    <3>2. row[f].status # "absent" BY <1>3, <3>1 DEF Exists
    <3>3. row[f].by \in Requests /\ row'[f].by = row[f].by BY <1>3, <1>5, <3>1, <3>2
    <3>4. req[row[f].by].key = req[r].key /\ req[r].key # None BY <1>2, <2>1, <3>3 DEF KeysStand
    <3> QED BY <1>2, <1>3, <1>9, <2>1, <3>1, <3>2, <3>4
  <2>2. CASE f \in new
    <3>1. e \notin new BY <1>2, <2>2
    <3>2. row[e].status # "absent" BY <1>3, <3>1 DEF Exists
    <3>3. row[e].by \in Requests /\ row'[e].by = row[e].by BY <1>3, <1>5, <3>1, <3>2
    <3>4. req[row[e].by].key = req[r].key /\ req[r].key # None BY <1>2, <2>2, <3>3 DEF KeysStand
    <3> QED BY <1>2, <1>3, <1>9, <2>2, <3>1, <3>2, <3>4
  <2>3. CASE e \notin new /\ f \notin new
    <3>1. row[e].status # "absent" /\ row[f].status # "absent" BY <1>3, <2>3 DEF Exists
    <3>2. row[e].by \in Requests /\ row[f].by \in Requests BY <1>5, <3>1
    <3> QED BY <1>3, <2>3, <3>1, <3>2 DEF KeyInv, KeyAcceptedOnce, Exists, KeysStand
  <2> QED BY <2>1, <2>2, <2>3
<1> QED BY <1>6, <1>7, <1>8, <1>10 DEF KeyInv

\* A refusal takes the key off rows of other days only.
LEMMA KeyRefuse ==
  ASSUME TypeOK, KeyInv, NEW r \in Requests, RefuseQuota(r)
  PROVE  KeyInv'
<1>1. KeysStand BY GotoStands DEF RefuseQuota, Before
<1>2. row' = Expire(r) BY DEF RefuseQuota
<1>3. \A e \in Emails :
        /\ row'[e].by = row[e].by /\ row'[e].day = row[e].day /\ row'[e].status = row[e].status
        /\ row[e].day = world.day => row'[e].key = row[e].key
  BY <1>2, ExpireKeeps DEF TypeOK
<1>4. \A e \in Emails : row[e].by # None => row[e].by \in Requests
  BY DEF TypeOK, RowsOK, NoRow
<1>5. \A e \in Emails : row[e].status # "absent" => row[e].by \in Requests
  BY DEF TypeOK, RowsOK
<1>6. InsertedOnce' BY <1>1, <1>3 DEF KeyInv, InsertedOnce, KeysStand, Before
<1>7. OneDay' BY <1>1, <1>3 DEF KeyInv, OneDay, KeysStand
<1>8. KeyIsKept'
  <2> SUFFICES ASSUME NEW e \in Emails, row'[e].by # None, row'[e].day = world'.day,
                      req'[row'[e].by].key # None
               PROVE  \E a \in Emails : row'[a].by = row'[e].by /\ row'[a].key = req'[row'[e].by].key
    BY DEF KeyIsKept
  <2>1. row[e].by \in Requests /\ row'[e].by = row[e].by /\ row[e].day = world.day
        /\ req[row[e].by].key # None
    BY <1>1, <1>3, <1>4 DEF KeysStand
  <2>2. PICK a \in Emails : row[a].by = row[e].by /\ row[a].key = req[row[e].by].key
    BY <2>1, AcceptanceAssumption DEF KeyInv, KeyIsKept
  <2>3. row[a].day = world.day BY <2>1, <2>2, AcceptanceAssumption DEF KeyInv, OneDay
  <2> QED BY <1>1, <1>3, <2>1, <2>2, <2>3 DEF KeysStand
<1>9. KeyAcceptedOnce' BY <1>1, <1>3, <1>5 DEF KeyInv, KeyAcceptedOnce, Exists, KeysStand
<1> QED BY <1>6, <1>7, <1>8, <1>9 DEF KeyInv


\* A new request has no rows yet.
LEMMA KeyStart ==
  ASSUME TypeOK, KeyInv, NEW r \in Requests, Start(r)
  PROVE  KeyInv'
<1>1. PICK kind \in Kinds, key \in Keys \cup {None} :
        req' = [req EXCEPT ![r] = [pc |-> IF key = None THEN "accept" ELSE "lookup",
                                   kind |-> kind, key |-> key]]
  BY DEF Start
<1>2. \A q \in Requests : q # r => req'[q] = req[q] BY <1>1 DEF TypeOK, RequestsOK
<1>3. \A e \in Emails : row[e].by # r BY DEF KeyInv, InsertedOnce, Start
<1>4. UNCHANGED <<row, world>> BY DEF Start
<1>5. \A e \in Emails : row[e].by # None => row[e].by \in Requests
  BY DEF TypeOK, RowsOK, NoRow
<1>6. \A e \in Emails : row[e].status # "absent" => row[e].by \in Requests
  BY DEF TypeOK, RowsOK
<1>7. InsertedOnce' BY <1>2, <1>3, <1>4 DEF KeyInv, InsertedOnce
<1>8. OneDay' BY <1>4 DEF KeyInv, OneDay
<1>9. KeyIsKept' BY <1>2, <1>3, <1>4, <1>5 DEF KeyInv, KeyIsKept
<1>10. KeyAcceptedOnce' BY <1>2, <1>3, <1>4, <1>6 DEF KeyInv, KeyAcceptedOnce, Exists
<1> QED BY <1>7, <1>8, <1>9, <1>10 DEF KeyInv

\* When the day is over every row is of an earlier one.
LEMMA KeyDay ==
  ASSUME TypeOK, KeyInv, DayPasses
  PROVE  KeyInv'
<1>1. UNCHANGED <<row, req>> /\ world'.day = world.day + 1 /\ world.day \in Nat
  BY DEF DayPasses, TypeOK, AccountsOK
<1>2. \A e \in Emails : row[e].day \in Nat BY DEF TypeOK, RowsOK, RowType
<1>3. \A e \in Emails : row'[e].day # world'.day /\ row'[e].day <= world'.day
  BY <1>1, <1>2 DEF KeyInv, OneDay
<1>4. InsertedOnce' BY <1>1 DEF KeyInv, InsertedOnce
<1>5. OneDay' BY <1>1, <1>3 DEF KeyInv, OneDay
<1>6. KeyIsKept' BY <1>1, <1>3 DEF KeyIsKept
<1>7. KeyAcceptedOnce' BY <1>1 DEF KeyInv, KeyAcceptedOnce, Exists
<1> QED BY <1>4, <1>5, <1>6, <1>7 DEF KeyInv

LEMMA KeyStep == TypeOK /\ KeyInv /\ [Next]_vars => KeyInv'
<1> SUFFICES ASSUME TypeOK, KeyInv, [Next]_vars PROVE KeyInv' OBVIOUS
<1>1. UNCHANGED row => RowsStand BY DEF RowsStand
<1>2. UNCHANGED <<req, world>> => KeysStand BY DEF KeysStand
<1>3. ASSUME UNCHANGED <<row, req>>, world'.day = world.day PROVE KeyInv'
  BY <1>1, <1>3, KeyFrame DEF KeysStand
<1>4. CASE UNCHANGED vars BY <1>3, <1>4 DEF vars
<1>5. ASSUME NEW r \in Requests, NEW step, Goto(r, step), UNCHANGED <<row, world>>,
             step \in Before => req[r].pc \in Before
      PROVE  KeyInv'
  BY <1>1, <1>5, GotoStands, KeyFrame
<1>6. ASSUME NEW r \in Requests, AfterRollback(r) \in Before PROVE FALSE
  BY <1>6 DEF AfterRollback, Before
<1>7. ASSUME NEW r \in Requests, Serve(r) PROVE KeyInv'
  <2>1. CASE Start(r) BY <2>1, KeyStart
  <2>2. CASE Lookup(r) BY <1>5, <2>2 DEF Lookup, Before
  <2>3. CASE Accept(r)
    <3>1. KeysStand BY <2>3, GotoStands DEF Accept, Before
    <3>2. req'[r].pc = "publish" BY <2>3 DEF Accept, Goto, TypeOK, RequestsOK, ReqType
    <3> QED BY <2>3, <3>1, <3>2, KeyCommit DEF Accept, Before
  <2>4. CASE RefuseQuota(r) BY <2>4, KeyRefuse
  <2>5. CASE Conflict(r) BY <1>5, <1>6, <2>5 DEF Conflict
  <2>6. CASE NextChunk(r) BY <1>3, <2>6 DEF NextChunk
  <2>7. CASE Answer(r) BY <1>5, <2>7 DEF Answer, Before
  <2>8. CASE Release(r) BY <1>5, <2>8 DEF Release, Before
  <2>9. ASSUME NEW e \in Emails, Publish(r, e) PROVE KeyInv' BY <1>3, <2>9 DEF Publish
  <2>10. ASSUME NEW e \in Emails, Audit(r, e) PROVE KeyInv'
    <3>1. RowsStand
      <4>1. row[e].status # "absent"
        BY <2>10, AcceptanceAssumption DEF Audit, Pending, TypeOK, RowsOK, RequestsOK, NoRow
      <4> QED BY <2>10, <4>1 DEF Audit, RowsStand, TypeOK, RowsOK, RowType
    <3>2. KeysStand BY <2>10, GotoStands DEF Audit, Reject, Before
    <3> QED BY <3>1, <3>2, KeyFrame
  <2> QED BY <1>7, <2>1, <2>2, <2>3, <2>4, <2>5, <2>6, <2>7, <2>8, <2>9, <2>10 DEF Serve
<1>8. ASSUME NEW r \in Requests, ServeFault(r) PROVE KeyInv'
  <2>1. CASE AcceptFails(r)
    <3>1. CASE UNCHANGED <<row, quota>> /\ (Goto(r, "error") \/ Goto(r, AfterRollback(r)))
      BY <1>5, <1>6, <2>1, <3>1 DEF AcceptFails, Before
    <3>2. CASE (\E new, later \in SUBSET Emails : Commit(r, new, later)) /\ Goto(r, AfterRollback(r))
      <4>1. KeysStand BY <1>6, <2>1, <3>2, GotoStands DEF AcceptFails
      <4>2. req'[r].pc \notin Before
        BY <1>6, <3>2 DEF Goto, TypeOK, RequestsOK, ReqType
      <4> QED BY <2>1, <3>2, <4>1, <4>2, KeyCommit DEF AcceptFails
    <3> QED BY <2>1, <3>1, <3>2 DEF AcceptFails
  <2>2. CASE ReleaseFails(r) BY <1>5, <2>2 DEF ReleaseFails, Before
  <2>3. CASE Crash(r) BY <1>5, <2>3 DEF Crash, Before
  <2>4. ASSUME NEW e \in Emails, PublishFails(r, e) PROVE KeyInv' BY <1>3, <2>4 DEF PublishFails
  <2>5. ASSUME NEW e \in Emails, AuditFails(r, e) PROVE KeyInv'
    BY <1>5, <2>5 DEF AuditFails, Reject, Before
  <2> QED BY <1>8, <2>1, <2>2, <2>3, <2>4, <2>5 DEF ServeFault
<1>9. CASE DayPasses BY <1>9, KeyDay
<1>10. CASE PeriodBegins \/ SubscriptionSwitches
  BY <1>3, <1>10 DEF PeriodBegins, SubscriptionSwitches, TypeOK, AccountsOK
<1> QED BY <1>4, <1>7, <1>8, <1>9, <1>10 DEF Next

\* KeyAcceptedOnce: two requests that were both accepted with one idempotency
\* key are a window apart, however their lookups and transactions interleave.
THEOREM AcceptedOnce == Spec => []KeyAcceptedOnce
<1>1. Init => KeyInv
  BY AcceptanceAssumption DEF Init, NoRow, KeyInv, InsertedOnce, OneDay, KeyIsKept, KeyAcceptedOnce, Exists
<1>2. KeyInv => KeyAcceptedOnce BY DEF KeyInv
<1> QED BY <1>1, <1>2, TypeCorrect, KeyStep, PTL DEF Spec


-----------------------------------------------------------------------------
(* What a period is charged for *)

LEMMA DisjointUnion ==
  ASSUME NEW S, NEW T, IsFiniteSet(S), IsFiniteSet(T), S \cap T = {}
  PROVE  /\ IsFiniteSet(S \cup T)
         /\ Cardinality(S \cup T) = Cardinality(S) + Cardinality(T)
<1>1. Cardinality(S) \in Nat /\ Cardinality(T) \in Nat BY FS_CardinalityType
<1>2. Cardinality(S \cap T) = 0 BY FS_EmptySet
<1>3. IsFiniteSet(S \cup T)
      /\ Cardinality(S \cup T) = Cardinality(S) + Cardinality(T) - Cardinality(S \cap T)
  BY FS_Union
<1> QED BY <1>1, <1>2, <1>3

LEMMA SetsAreFinite ==
  ASSUME NEW p
  PROVE  /\ IsFiniteSet(Accepted(p)) /\ IsFiniteSet(PaidFor(p))
         /\ Cardinality(Accepted(p)) \in Nat /\ Cardinality(PaidFor(p)) \in Nat
<1>1. Accepted(p) \in SUBSET Emails BY DEF Accepted
<1>2. PaidFor(p) \in SUBSET Emails BY DEF PaidFor
<1>3. IsFiniteSet(Accepted(p)) BY <1>1, FS_Subset, AcceptanceAssumption
<1>4. IsFiniteSet(PaidFor(p)) BY <1>2, FS_Subset, AcceptanceAssumption
<1> QED BY <1>3, <1>4, FS_CardinalityType

LEMMA SetsStayFinite ==
  ASSUME NEW p
  PROVE  /\ IsFiniteSet(Accepted(p)') /\ IsFiniteSet(PaidFor(p)')
         /\ Cardinality(Accepted(p)') \in Nat /\ Cardinality(PaidFor(p)') \in Nat
<1>1. Accepted(p)' \in SUBSET Emails BY DEF Accepted
<1>2. PaidFor(p)' \in SUBSET Emails BY DEF PaidFor
<1>3. IsFiniteSet(Accepted(p)') BY <1>1, FS_Subset, AcceptanceAssumption
<1>4. IsFiniteSet(PaidFor(p)') BY <1>2, FS_Subset, AcceptanceAssumption
<1> QED BY <1>3, <1>4, FS_CardinalityType

\* The accounts stand, no accepted email is lost, and none becomes paid for.
LEMMA ChargeFrame ==
  ASSUME TypeOK, ChargeInv, UNCHANGED <<quota, unearned>>,
         \A p \in Periods : Accepted(p) \subseteq Accepted(p)' /\ PaidFor(p)' \subseteq PaidFor(p)
  PROVE  ChargeInv'
<1> SUFFICES ASSUME NEW p \in Periods
             PROVE  /\ quota[p] <= Cardinality(Accepted(p)')
                    /\ Cardinality(PaidFor(p)') <= quota[p] + unearned[p]
  BY DEF ChargeInv
<1>1. quota[p] <= Cardinality(Accepted(p)) /\ Cardinality(PaidFor(p)) <= quota[p] + unearned[p]
  BY DEF ChargeInv
<1>2. Cardinality(Accepted(p)) <= Cardinality(Accepted(p)') BY SetsStayFinite, FS_Subset
<1>3. Cardinality(PaidFor(p)') <= Cardinality(PaidFor(p)) BY SetsAreFinite, FS_Subset
<1>4. quota[p] \in Nat /\ unearned[p] \in Nat BY DEF TypeOK, AccountsOK
<1> QED BY <1>1, <1>2, <1>3, <1>4, SetsAreFinite, SetsStayFinite

Paying == {"publish", "release"}

\* Steps that neither make rows nor settle one, and that hold no request to be
\* paying that was not, unless it has made no rows.
LEMMA ChargeStands ==
  ASSUME TypeOK, ChargeInv, UNCHANGED <<quota, unearned>>,
         \A e \in Emails : row'[e].status = row[e].status /\ row'[e].period = row[e].period
                           /\ row'[e].by = row[e].by,
         \A q \in Requests : req'[q].pc \in Paying =>
           req[q].pc \in Paying \/ \A e \in Emails : row[e].by # q
  PROVE  ChargeInv'
<1>1. \A p \in Periods : Accepted(p) \subseteq Accepted(p)' BY DEF Accepted
<1>2. \A p \in Periods : PaidFor(p)' \subseteq PaidFor(p)
  BY DEF PaidFor, Paying, TypeOK, RowsOK
<1> QED BY <1>1, <1>2, ChargeFrame

\* A committed transaction charges its period with the rows it inserts.
LEMMA ChargeCommit ==
  ASSUME TypeOK, ChargeInv, NEW r \in Requests, \A e \in Emails : row[e].by # r,
         NEW new \in SUBSET Emails, NEW later \in SUBSET Emails, Commit(r, new, later),
         UNCHANGED <<world, unearned>>, \A q \in Requests \ {r} : req'[q] = req[q]
  PROVE  ChargeInv'
<1>0. Inserted(r, new, later) BY CommitShape
<1> SUFFICES ASSUME NEW p \in Periods
             PROVE  /\ quota'[p] <= Cardinality(Accepted(p)')
                    /\ Cardinality(PaidFor(p)') <= quota'[p] + unearned[p]
  BY DEF ChargeInv
<1>1. quota[p] <= Cardinality(Accepted(p)) /\ Cardinality(PaidFor(p)) <= quota[p] + unearned[p]
  BY DEF ChargeInv
<1>2. quota[p] \in Nat /\ unearned[p] \in Nat BY DEF TypeOK, AccountsOK
<1>3. \A e \in new : row[e].status = "absent" /\ row'[e].status \in {"queued", "scheduled"}
                     /\ row'[e].period = world.period
  BY <1>0 DEF Inserted, NoRow
<1>4. \A e \in Emails \ new :
        row'[e].status = row[e].status /\ row'[e].period = row[e].period /\ row'[e].by = row[e].by
  BY <1>0 DEF Inserted
<1>5. \A e \in Emails \ new : row[e].status # "absent" => row[e].by \in Requests \ {r}
  BY DEF TypeOK, RowsOK
<1>6. CASE p # world.period
  <2>1. quota'[p] = quota[p] BY <1>0, <1>6 DEF Inserted, TypeOK, AccountsOK
  <2>2. Accepted(p) \subseteq Accepted(p)' BY <1>3, <1>4 DEF Accepted
  <2>3. PaidFor(p)' \subseteq PaidFor(p) BY <1>3, <1>4, <1>5, <1>6 DEF PaidFor
  <2>4. Cardinality(Accepted(p)) <= Cardinality(Accepted(p)') BY <2>2, SetsStayFinite, FS_Subset
  <2>5. Cardinality(PaidFor(p)') <= Cardinality(PaidFor(p)) BY <2>3, SetsAreFinite, FS_Subset
  <2> QED BY <1>1, <1>2, <2>1, <2>4, <2>5, SetsAreFinite, SetsStayFinite
<1>7. CASE p = world.period
  <2>1. IsFiniteSet(new) /\ Cardinality(new) \in Nat
    BY FS_Subset, FS_CardinalityType, AcceptanceAssumption
  <2>2. quota'[p] = quota[p] + Cardinality(new) BY <1>0, <1>7 DEF Inserted, TypeOK, AccountsOK
  <2>3. Accepted(p) \cup new \subseteq Accepted(p)' BY <1>3, <1>4, <1>7 DEF Accepted
  <2>4. Accepted(p) \cap new = {} /\ PaidFor(p) \cap new = {} BY <1>3 DEF Accepted, PaidFor
  <2>5. PaidFor(p)' \subseteq PaidFor(p) \cup new BY <1>4, <1>5 DEF PaidFor
  <2>6. IsFiniteSet(Accepted(p) \cup new)
        /\ Cardinality(Accepted(p) \cup new) = Cardinality(Accepted(p)) + Cardinality(new)
    BY <2>1, <2>4, SetsAreFinite, DisjointUnion
  <2>7. IsFiniteSet(PaidFor(p) \cup new)
        /\ Cardinality(PaidFor(p) \cup new) = Cardinality(PaidFor(p)) + Cardinality(new)
    BY <2>1, <2>4, SetsAreFinite, DisjointUnion
  <2>8. Cardinality(Accepted(p) \cup new) <= Cardinality(Accepted(p)')
    BY <2>3, SetsStayFinite, FS_Subset
  <2>9. Cardinality(PaidFor(p)') <= Cardinality(PaidFor(p) \cup new) BY <2>5, <2>7, FS_Subset
  <2> QED BY <1>1, <1>2, <2>1, <2>2, <2>6, <2>7, <2>8, <2>9, SetsAreFinite, SetsStayFinite
<1> QED BY <1>6, <1>7

\* A release gives back the units of the request's failed emails, and what it
\* gives back beyond them is recorded.
LEMMA ChargeRelease ==
  ASSUME TypeOK, ChargeInv, NEW r \in Requests, Release(r)
  PROVE  ChargeInv'
<1> DEFINE now == world.period
           back == Least(Size(req[r].kind), quota[now])
           failed == {e \in Made(r) : row[e].status = "failed" /\ row[e].period = now}
           due == Cardinality(failed)
<1>0. now \in Periods BY DEF TypeOK, AccountsOK
<1>1. back \in Nat /\ back <= quota[now] /\ due \in Nat BY <1>0, ReleaseAmounts
<1>2. req[r].pc = "release" /\ req'[r].pc = "error" /\ (\A q \in Requests \ {r} : req'[q] = req[q])
      /\ UNCHANGED row
  BY DEF Release, Goto, TypeOK, RequestsOK, ReqType
<1>3. \/ /\ quota' = [quota EXCEPT ![now] = @ - back]
         /\ unearned' = [unearned EXCEPT ![now] = IF back > due THEN @ + (back - due) ELSE @]
      \/ UNCHANGED <<quota, unearned>>
  BY DEF Release
<1>4. CASE UNCHANGED <<quota, unearned>>
  <2>1. \A q \in Requests : req'[q].pc \in Paying => req[q].pc \in Paying BY <1>2 DEF Paying
  <2> QED BY <1>2, <1>4, <2>1, ChargeStands
<1>5. CASE /\ quota' = [quota EXCEPT ![now] = @ - back]
           /\ unearned' = [unearned EXCEPT ![now] = IF back > due THEN @ + (back - due) ELSE @]
  <2> SUFFICES ASSUME NEW p \in Periods
               PROVE  /\ quota'[p] <= Cardinality(Accepted(p)')
                      /\ Cardinality(PaidFor(p)') <= quota'[p] + unearned'[p]
    BY DEF ChargeInv
  <2>1. quota[p] <= Cardinality(Accepted(p)) /\ Cardinality(PaidFor(p)) <= quota[p] + unearned[p]
    BY DEF ChargeInv
  <2>2. quota[p] \in Nat /\ unearned[p] \in Nat BY DEF TypeOK, AccountsOK
  <2>3. Accepted(p)' = Accepted(p) BY <1>2 DEF Accepted
  <2>4. \A e \in Emails : row[e].status = "failed" => row[e].by \in Requests
    BY DEF TypeOK, RowsOK
  <2>5. CASE p # now
    <3>1. quota'[p] = quota[p] /\ unearned'[p] = unearned[p]
      BY <1>0, <1>5, <2>5 DEF TypeOK, AccountsOK
    <3>2. PaidFor(p)' \subseteq PaidFor(p) BY <1>2, <2>4 DEF PaidFor
    <3>3. Cardinality(PaidFor(p)') <= Cardinality(PaidFor(p)) BY <3>2, SetsAreFinite, FS_Subset
    <3> QED BY <2>1, <2>2, <2>3, <3>1, <3>3, SetsAreFinite, SetsStayFinite
  <2>6. CASE p = now
    <3>1. failed \subseteq PaidFor(p) /\ PaidFor(p)' \cap failed = {}
      BY <1>2, <2>6 DEF PaidFor, Made
    <3>2. PaidFor(p)' \cup failed \subseteq PaidFor(p) BY <1>2, <2>4, <3>1 DEF PaidFor
    <3>3. IsFiniteSet(failed) BY <3>1, SetsAreFinite, FS_Subset
    <3>4. Cardinality(PaidFor(p)' \cup failed) = Cardinality(PaidFor(p)') + due
          /\ IsFiniteSet(PaidFor(p)' \cup failed)
      BY <3>1, <3>3, SetsStayFinite, DisjointUnion
    <3>5. Cardinality(PaidFor(p)' \cup failed) <= Cardinality(PaidFor(p))
      BY <3>2, SetsAreFinite, FS_Subset
    <3>6. quota'[p] = quota[p] - back
          /\ unearned'[p] = IF back > due THEN unearned[p] + (back - due) ELSE unearned[p]
      BY <1>0, <1>5, <2>6 DEF TypeOK, AccountsOK
    <3>7. back <= quota[p] BY <1>1, <2>6
    <3> HIDE DEF back, due, failed
    <3> QED BY <1>1, <2>1, <2>2, <2>3, <3>4, <3>5, <3>6, <3>7, SetsAreFinite, SetsStayFinite
  <2> QED BY <2>5, <2>6
<1> QED BY <1>3, <1>4, <1>5


\* A row that was published without success fails; it stays paid for if its
\* request has not released anything yet.
LEMMA ChargeAudit ==
  ASSUME TypeOK, ChargeInv, NEW r \in Requests, NEW e \in Emails, Audit(r, e)
  PROVE  ChargeInv'
<1>1. row[e].by = r /\ row[e].status # "absent"
  BY AcceptanceAssumption DEF Audit, Pending, TypeOK, RowsOK, RequestsOK, NoRow
<1>2. row[e].status \in {"queued", "scheduled", "failed"}
  BY <1>1 DEF TypeOK, RowsOK, RowType, Statuses
<1>3. /\ row'[e].status = "failed" /\ row'[e].period = row[e].period /\ row'[e].by = r
      /\ \A f \in Emails \ {e} : row'[f] = row[f]
  BY <1>1 DEF Audit, TypeOK, RowsOK, RowType
<1>4. \A q \in Requests : req'[q].pc \in Paying => req[q].pc \in Paying
  BY DEF Audit, Reject, Goto, Paying, TypeOK, RequestsOK, ReqType
<1>5. \A f \in Emails : row[f].status # "absent" => row[f].by \in Requests
  BY DEF TypeOK, RowsOK
<1>6. \A p \in Periods : Accepted(p) \subseteq Accepted(p)' BY <1>2, <1>3 DEF Accepted
<1>7. ASSUME NEW p \in Periods, NEW f \in PaidFor(p)' PROVE f \in PaidFor(p)
  <2>1. CASE f = e BY <1>1, <1>2, <1>3, <1>4, <1>7, <2>1 DEF PaidFor, Paying
  <2>2. CASE f # e BY <1>3, <1>4, <1>5, <1>7, <2>2 DEF PaidFor, Paying
  <2> QED BY <2>1, <2>2
<1>8. UNCHANGED <<quota, unearned>> BY DEF Audit
<1> QED BY <1>6, <1>7, <1>8, ChargeFrame

\* Keys are taken off rows without touching what they are charged for.
LEMMA ChargeRefuse ==
  ASSUME TypeOK, ChargeInv, NEW r \in Requests, RefuseQuota(r)
  PROVE  ChargeInv'
<1>1. \A e \in Emails : row'[e].status = row[e].status /\ row'[e].period = row[e].period
                        /\ row'[e].by = row[e].by
  BY ExpireKeeps DEF RefuseQuota, TypeOK
<1>2. \A q \in Requests : req'[q].pc \in Paying => req[q].pc \in Paying
  BY DEF RefuseQuota, Goto, Paying, TypeOK, RequestsOK, ReqType
<1> QED BY <1>1, <1>2, ChargeStands DEF RefuseQuota

LEMMA ChargeStep == TypeOK /\ KeyInv /\ ChargeInv /\ [Next]_vars => ChargeInv'
<1> SUFFICES ASSUME TypeOK, KeyInv, ChargeInv, [Next]_vars PROVE ChargeInv' OBVIOUS
<1>1. ASSUME UNCHANGED <<row, quota, unearned>>,
             \A q \in Requests : req'[q].pc \in Paying =>
               req[q].pc \in Paying \/ \A e \in Emails : row[e].by # q
      PROVE  ChargeInv'
  BY <1>1, ChargeStands
<1>2. ASSUME NEW r \in Requests, NEW step, Goto(r, step), UNCHANGED <<row, quota, unearned>>,
             step \in Paying => req[r].pc \in Paying \cup {"accept"}
      PROVE  ChargeInv'
  <2>1. \A q \in Requests : req'[q].pc \in Paying => req[q].pc \in Paying \/ \A e \in Emails : row[e].by # q
    BY <1>2 DEF Goto, TypeOK, RequestsOK, ReqType, KeyInv, InsertedOnce
  <2> QED BY <1>1, <1>2, <2>1
<1>3. ASSUME UNCHANGED <<row, req, quota, unearned>> PROVE ChargeInv' BY <1>1, <1>3
<1>4. ASSUME NEW r \in Requests, NEW step, Goto(r, step)
      PROVE  \A q \in Requests \ {r} : req'[q] = req[q]
  BY <1>4 DEF Goto, TypeOK, RequestsOK
<1>5. ASSUME NEW r \in Requests, req[r].pc = "accept" PROVE \A e \in Emails : row[e].by # r
  BY <1>5 DEF KeyInv, InsertedOnce
<1>6. CASE UNCHANGED vars BY <1>3, <1>6 DEF vars
<1>7. ASSUME NEW r \in Requests, Serve(r) PROVE ChargeInv'
  <2>1. CASE Start(r)
    <3>1. \A q \in Requests : req'[q].pc \in Paying => req[q].pc \in Paying
      BY <2>1 DEF Start, Paying, TypeOK, RequestsOK, ReqType
    <3> QED BY <1>1, <2>1, <3>1 DEF Start
  <2>2. CASE Lookup(r) BY <1>2, <2>2 DEF Lookup, Paying
  <2>3. CASE Accept(r) BY <1>4, <1>5, <2>3, ChargeCommit DEF Accept
  <2>4. CASE RefuseQuota(r) BY <2>4, ChargeRefuse
  <2>5. CASE Conflict(r) BY <1>2, <2>5 DEF Conflict
  <2>6. CASE NextChunk(r) BY <1>3, <2>6 DEF NextChunk
  <2>7. CASE Answer(r) BY <1>2, <2>7 DEF Answer, Paying
  <2>8. CASE Release(r) BY <2>8, ChargeRelease
  <2>9. ASSUME NEW e \in Emails, Publish(r, e) PROVE ChargeInv' BY <1>3, <2>9 DEF Publish
  <2>10. ASSUME NEW e \in Emails, Audit(r, e) PROVE ChargeInv' BY <2>10, ChargeAudit
  <2> QED BY <1>7, <2>1, <2>2, <2>3, <2>4, <2>5, <2>6, <2>7, <2>8, <2>9, <2>10 DEF Serve
<1>8. ASSUME NEW r \in Requests, ServeFault(r) PROVE ChargeInv'
  <2>1. CASE AcceptFails(r)
    <3>1. CASE UNCHANGED <<row, quota>> /\ (Goto(r, "error") \/ Goto(r, AfterRollback(r)))
      BY <1>2, <2>1, <3>1 DEF AcceptFails
    <3>2. CASE (\E new, later \in SUBSET Emails : Commit(r, new, later)) /\ Goto(r, AfterRollback(r))
      BY <1>4, <1>5, <2>1, <3>2, ChargeCommit DEF AcceptFails
    <3> QED BY <2>1, <3>1, <3>2 DEF AcceptFails
  <2>2. CASE ReleaseFails(r) BY <1>2, <2>2 DEF ReleaseFails, Paying
  <2>3. CASE Crash(r) BY <1>2, <2>3 DEF Crash, Paying
  <2>4. ASSUME NEW e \in Emails, PublishFails(r, e) PROVE ChargeInv' BY <1>3, <2>4 DEF PublishFails
  <2>5. ASSUME NEW e \in Emails, AuditFails(r, e) PROVE ChargeInv'
    BY <1>2, <2>5 DEF AuditFails, Reject, Paying
  <2> QED BY <1>8, <2>1, <2>2, <2>3, <2>4, <2>5 DEF ServeFault
<1>9. CASE DayPasses \/ PeriodBegins \/ SubscriptionSwitches
  BY <1>3, <1>9 DEF DayPasses, PeriodBegins, SubscriptionSwitches
<1> QED BY <1>6, <1>7, <1>8, <1>9 DEF Next

LEMMA ChargeAlways == Spec => []ChargeInv
<1>1. Init => ChargeInv
  <2> SUFFICES ASSUME Init, NEW p \in Periods
               PROVE  quota[p] <= Cardinality(Accepted(p))
                      /\ Cardinality(PaidFor(p)) <= quota[p] + unearned[p]
    BY DEF ChargeInv
  <2>1. Accepted(p) = {} /\ PaidFor(p) = {} BY DEF Init, NoRow, Accepted, PaidFor
  <2>2. quota[p] = 0 /\ unearned[p] = 0 BY DEF Init
  <2> QED BY <2>1, <2>2, FS_EmptySet
<1>2. Init => KeyInv
  BY AcceptanceAssumption DEF Init, NoRow, KeyInv, InsertedOnce, OneDay, KeyIsKept, KeyAcceptedOnce, Exists
<1> QED BY <1>1, <1>2, TypeCorrect, KeyStep, ChargeStep, PTL DEF Spec

\* NeverOvercharged: no period is charged for more emails than were accepted in
\* it, however requests fail, conflict and release.
THEOREM Undercharged == Spec => []NeverOvercharged
<1>1. ChargeInv => NeverOvercharged BY DEF ChargeInv, NeverOvercharged, In, Accepted
<1> QED BY <1>1, ChargeAlways, PTL

\* SendableIsCharged: an email that can still be sent goes unpaid only because
\* of units that were released for emails that had not failed.
THEOREM Charged == Spec => []SendableIsCharged
<1>1. TypeOK /\ ChargeInv => SendableIsCharged
  <2> SUFFICES ASSUME TypeOK, ChargeInv, NEW p \in Periods
               PROVE  In(p, {"queued", "scheduled"}) <= quota[p] + unearned[p]
    BY DEF SendableIsCharged
  <2> DEFINE sendable == {e \in Emails : row[e].period = p /\ row[e].status \in {"queued", "scheduled"}}
  <2>1. sendable \subseteq PaidFor(p) BY DEF PaidFor
  <2>2. IsFiniteSet(sendable) /\ Cardinality(sendable) <= Cardinality(PaidFor(p))
    BY <2>1, SetsAreFinite, FS_Subset
  <2>3. Cardinality(sendable) \in Nat BY <2>2, FS_CardinalityType
  <2>4. Cardinality(PaidFor(p)) <= quota[p] + unearned[p] BY DEF ChargeInv
  <2>5. quota[p] \in Nat /\ unearned[p] \in Nat BY DEF TypeOK, AccountsOK
  <2>6. In(p, {"queued", "scheduled"}) = Cardinality(sendable) BY DEF In
  <2> HIDE DEF sendable
  <2> QED BY <2>2, <2>3, <2>4, <2>5, <2>6, SetsAreFinite
<1> QED BY <1>1, ChargeAlways, TypeCorrect, PTL

-----------------------------------------------------------------------------
(* What an accepted answer promises *)

\* Steps of others: the rows of a request keep their status, and what was
\* pending or published stays so.
LEMMA PublishFrame ==
  ASSUME TypeOK, PublishInv, NEW q \in Requests,
         req'[q].pc \in {"publish", "accepted"} => req[q].pc = req'[q].pc,
         \A e \in Emails : row'[e].by = q => row[e].by = q /\ row'[e].status = row[e].status,
         Pending(q)' = Pending(q), jobs \subseteq jobs'
  PROVE  Intact(q)'
BY DEF PublishInv, Intact, Made


\* A transaction makes rows that are scheduled, or that are on the list to be
\* published when the request goes on to publish.
LEMMA PublishCommit ==
  ASSUME TypeOK, KeyInv, PublishInv, NEW r \in Requests, req[r].pc = "accept",
         NEW new \in SUBSET Emails, NEW later \in SUBSET Emails, Commit(r, new, later),
         NEW step, Goto(r, step), UNCHANGED <<chunk, failing, jobs>>,
         \/ step = "publish" /\ todo' = [todo EXCEPT ![r] = new \ later]
         \/ step \notin {"publish", "accepted"} /\ UNCHANGED todo
  PROVE  PublishInv'
<1>0. Inserted(r, new, later) BY CommitShape
<1>1. req'[r].pc = step /\ \A q \in Requests \ {r} : req'[q] = req[q]
  BY DEF Goto, TypeOK, RequestsOK, ReqType
<1>2. \A e \in Emails : row[e].by # r BY DEF KeyInv, InsertedOnce
<1>3. \A e \in new : row'[e].by = r
                     /\ row'[e].status = IF e \in later THEN "scheduled" ELSE "queued"
  BY <1>0 DEF Inserted
<1>4. \A e \in Emails \ new : row'[e].status = row[e].status /\ row'[e].by = row[e].by
  BY <1>0 DEF Inserted
<1>5. ASSUME NEW q \in Requests \ {r} PROVE Intact(q)'
  <2>1. todo'[q] = todo[q] BY DEF TypeOK, RequestsOK
  <2>2. Pending(q)' = Pending(q) BY <2>1 DEF Pending
  <2> QED BY <1>1, <1>3, <1>4, <2>2, PublishFrame
<1>6. Intact(r)'
  <2>1. CASE step = "publish"
    <3>1. new \ later \subseteq Pending(r)' BY <2>1 DEF Pending, TypeOK, RequestsOK
    <3>2. Made(r)' \subseteq new BY <1>2, <1>4 DEF Made
    <3> QED BY <1>1, <1>3, <2>1, <3>1, <3>2 DEF Intact
  <2>2. CASE step \notin {"publish", "accepted"} BY <1>1, <2>2 DEF Intact
  <2> QED BY <2>1, <2>2
<1> QED BY <1>5, <1>6 DEF PublishInv

\* The rows being published are passed on, to the queue or to the audit.
LEMMA PublishMoves ==
  ASSUME TypeOK, PublishInv, NEW r \in Requests, UNCHANGED <<row, req>>, jobs \subseteq jobs',
         \A q \in Requests \ {r} : Pending(q)' = Pending(q),
         Pending(r) \subseteq Pending(r)' \cup jobs', Pending(r)' \subseteq Pending(r)
  PROVE  PublishInv'
<1>1. ASSUME NEW q \in Requests \ {r} PROVE Intact(q)' BY PublishFrame
<1>2. Intact(r)' BY DEF PublishInv, Intact, Made
<1> QED BY <1>1, <1>2 DEF PublishInv

\* A step that takes a request to an end that promises nothing.
LEMMA PublishLeaves ==
  ASSUME TypeOK, PublishInv, NEW r \in Requests,
         req'[r].pc \notin {"publish", "accepted"}, \A q \in Requests \ {r} : req'[q] = req[q],
         \A q \in Requests \ {r} : \A e \in Emails :
           row'[e].by = q => row[e].by = q /\ row'[e].status = row[e].status,
         \A q \in Requests \ {r} : Pending(q)' = Pending(q), UNCHANGED jobs
  PROVE  PublishInv'
<1>1. ASSUME NEW q \in Requests \ {r} PROVE Intact(q)' BY PublishFrame
<1>2. Intact(r)' BY DEF Intact
<1> QED BY <1>1, <1>2 DEF PublishInv

LEMMA PublishStep == TypeOK /\ KeyInv /\ PublishInv /\ [Next]_vars => PublishInv'
<1> SUFFICES ASSUME TypeOK, KeyInv, PublishInv, [Next]_vars PROVE PublishInv' OBVIOUS
<1>1. ASSUME NEW r \in Requests, NEW step, Goto(r, step)
      PROVE  req'[r].pc = step /\ \A q \in Requests \ {r} : req'[q] = req[q]
  BY <1>1 DEF Goto, TypeOK, RequestsOK, ReqType
<1>2. ASSUME NEW r \in Requests, NEW step, Goto(r, step), step \notin {"publish", "accepted"},
             UNCHANGED <<row, todo, chunk, failing, jobs>>
      PROVE  PublishInv'
  BY <1>1, <1>2, PublishLeaves DEF Pending
<1>3. ASSUME UNCHANGED <<row, req, todo, chunk, failing, jobs>> PROVE PublishInv'
  BY <1>3 DEF PublishInv, Intact, Made, Pending
<1>4. CASE UNCHANGED vars BY <1>3, <1>4 DEF vars
<1>5. ASSUME NEW r \in Requests, NEW e \in failing[r], Reject(r),
             failing' = [failing EXCEPT ![r] = @ \ {e}], UNCHANGED <<todo, chunk, jobs>>,
             \A f \in Emails \ {e} : row'[f] = row[f], row'[e].by = r
      PROVE  PublishInv'
  <2>1. req[r].pc # "accepted" BY <1>5 DEF PublishInv, Intact, Pending
  <2>2. req'[r].pc \notin {"publish", "accepted"} /\ \A q \in Requests \ {r} : req'[q] = req[q]
    BY <1>1, <1>5, <2>1 DEF Reject
  <2>3. \A q \in Requests \ {r} : Pending(q)' = Pending(q)
    BY <1>5 DEF Pending, TypeOK, RequestsOK
  <2> QED BY <1>5, <2>2, <2>3, PublishLeaves
<1>6. ASSUME NEW r \in Requests, Serve(r) PROVE PublishInv'
  <2>1. CASE Start(r)
    <3>1. req'[r].pc \notin {"publish", "accepted"} /\ \A q \in Requests \ {r} : req'[q] = req[q]
      BY <2>1 DEF Start, TypeOK, RequestsOK, ReqType
    <3> QED BY <2>1, <3>1, PublishLeaves DEF Start, Pending
  <2>2. CASE Lookup(r) BY <1>2, <2>2 DEF Lookup
  <2>3. CASE Accept(r) BY <2>3, PublishCommit DEF Accept
  <2>4. CASE RefuseQuota(r)
    <3>1. \A f \in Emails : row'[f].by = row[f].by /\ row'[f].status = row[f].status
      BY <2>4, ExpireKeeps DEF RefuseQuota, TypeOK
    <3> QED BY <1>1, <2>4, <3>1, PublishLeaves DEF RefuseQuota, Pending
  <2>5. CASE Conflict(r) BY <1>2, <2>5 DEF Conflict, AfterRollback
  <2>6. CASE NextChunk(r)
    <3>1. PICK next \in SUBSET todo[r] :
            /\ chunk' = [chunk EXCEPT ![r] = next]
            /\ todo' = [todo EXCEPT ![r] = @ \ next]
      BY <2>6 DEF NextChunk, AtMost
    <3>2. Pending(r)' = Pending(r) /\ \A q \in Requests \ {r} : Pending(q)' = Pending(q)
      BY <2>6, <3>1 DEF NextChunk, Pending, TypeOK, RequestsOK
    <3> QED BY <2>6, <3>2, PublishMoves DEF NextChunk
  <2>7. CASE Answer(r)
    <3>1. CASE Goto(r, "accepted")
      <4>1. Intact(r)' BY <1>1, <2>7, <3>1 DEF Answer, PublishInv, Intact, Made, Pending
      <4>2. ASSUME NEW q \in Requests \ {r} PROVE Intact(q)'
        BY <1>1, <2>7, <3>1, PublishFrame DEF Answer, Pending
      <4> QED BY <4>1, <4>2 DEF PublishInv
    <3>2. CASE Goto(r, "error") BY <1>2, <2>7, <3>2 DEF Answer
    <3> QED BY <2>7, <3>1, <3>2 DEF Answer
  <2>8. CASE Release(r) BY <1>2, <2>8 DEF Release
  <2>9. ASSUME NEW e \in Emails, Publish(r, e) PROVE PublishInv'
    <3>1. /\ Pending(r) \subseteq Pending(r)' \cup jobs' /\ Pending(r)' \subseteq Pending(r)
          /\ \A q \in Requests \ {r} : Pending(q)' = Pending(q)
      BY <2>9 DEF Publish, Pending, TypeOK, RequestsOK
    <3> QED BY <2>9, <3>1, PublishMoves DEF Publish
  <2>10. ASSUME NEW e \in Emails, Audit(r, e) PROVE PublishInv'
    <3>1. row[e].by = r BY <2>10 DEF Audit, Pending, TypeOK, RequestsOK
    <3>2. row'[e].by = r /\ \A f \in Emails \ {e} : row'[f] = row[f]
      BY <2>10, <3>1 DEF Audit, TypeOK, RowsOK, RowType
    <3> QED BY <1>5, <2>10, <3>2 DEF Audit
  <2> QED BY <1>6, <2>1, <2>2, <2>3, <2>4, <2>5, <2>6, <2>7, <2>8, <2>9, <2>10 DEF Serve
<1>7. ASSUME NEW r \in Requests, ServeFault(r) PROVE PublishInv'
  <2>1. CASE AcceptFails(r)
    <3>1. AfterRollback(r) \notin {"publish", "accepted"} BY DEF AfterRollback
    <3>2. CASE UNCHANGED <<row, quota>> /\ (Goto(r, "error") \/ Goto(r, AfterRollback(r)))
      BY <1>2, <2>1, <3>1, <3>2 DEF AcceptFails
    <3>3. CASE (\E new, later \in SUBSET Emails : Commit(r, new, later)) /\ Goto(r, AfterRollback(r))
      BY <2>1, <3>1, <3>3, PublishCommit DEF AcceptFails
    <3> QED BY <2>1, <3>2, <3>3 DEF AcceptFails
  <2>2. CASE ReleaseFails(r) BY <1>2, <2>2 DEF ReleaseFails
  <2>3. CASE Crash(r)
    <3>1. \A q \in Requests \ {r} : Pending(q)' = Pending(q)
      BY <2>3 DEF Crash, Pending, TypeOK, RequestsOK
    <3> QED BY <1>1, <2>3, <3>1, PublishLeaves DEF Crash
  <2>4. ASSUME NEW e \in Emails, PublishFails(r, e) PROVE PublishInv'
    <3>1. /\ Pending(r)' = Pending(r)
          /\ \A q \in Requests \ {r} : Pending(q)' = Pending(q)
          /\ jobs \subseteq jobs'
      BY <2>4 DEF PublishFails, Pending, TypeOK, RequestsOK
    <3> QED BY <2>4, <3>1, PublishMoves DEF PublishFails
  <2>5. ASSUME NEW e \in Emails, AuditFails(r, e) PROVE PublishInv'
    <3>1. row[e].by = r BY <2>5 DEF AuditFails, Pending, TypeOK, RequestsOK
    <3> QED BY <1>5, <2>5, <3>1 DEF AuditFails
  <2> QED BY <1>7, <2>1, <2>2, <2>3, <2>4, <2>5 DEF ServeFault
<1>8. CASE DayPasses \/ PeriodBegins \/ SubscriptionSwitches
  BY <1>3, <1>8 DEF DayPasses, PeriodBegins, SubscriptionSwitches
<1> QED BY <1>4, <1>6, <1>7, <1>8 DEF Next

\* AcceptedIsPublished: a request answered as accepted left none of its emails
\* unpublished, whatever the sizes of batch and chunk.
THEOREM Published == Spec => []AcceptedIsPublished
<1>1. Init => PublishInv BY DEF Init, PublishInv, Intact
<1>2. Init => KeyInv
  BY AcceptanceAssumption DEF Init, NoRow, KeyInv, InsertedOnce, OneDay, KeyIsKept, KeyAcceptedOnce, Exists
<1>3. PublishInv => AcceptedIsPublished BY DEF PublishInv, Intact, AcceptedIsPublished
<1> QED BY <1>1, <1>2, <1>3, TypeCorrect, KeyStep, PublishStep, PTL DEF Spec


=============================================================================
