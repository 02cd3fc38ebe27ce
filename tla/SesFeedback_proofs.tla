--------------------------- MODULE SesFeedback_proofs ---------------------------
(***************************************************************************)
(* Proofs about SesFeedback, for any number of notifications, recipients,  *)
(* endpoints, handlers, posts, edits and faults.                           *)
(*                                                                         *)
(* The event's row makes one handler of the many that are posted a         *)
(* notification its worker.  The invariant says how far the worker has     *)
(* come, and what is left when it is done.                                 *)
(***************************************************************************)
EXTENDS SesFeedback, TLAPS

-----------------------------------------------------------------------------
(* The invariant *)

\* A handler that is busy has a notification that was posted, and so has a kind.
HandsOK ==
  \A h \in Handlers :
    /\ pc[h] # "idle" => job[h] \in Notes /\ posts[job[h]] > 0
    /\ pc[h] = "publish" => left[h].this \in Hooks

KindsOK == \A n \in Notes : posts[n] > 0 => kind[n] \in Kinds

Typed == TypeOK /\ HandsOK /\ KindsOK

Works(h) == pc[h] \in Working
Covered(r) == suppressed[r] # Absent \/ r \in removed
Untold(n) == \A k \in Hooks : rows[n][k] = 0 /\ <<n, k>> \notin jobs

\* How far a worker has come.
Hand(h) ==
  LET n == job[h] IN
  /\ Works(h) => n \in events \ cut
  /\ pc[h] = "suppress" =>
       /\ Suppresses(n)
       /\ \A r \in Recipients : IF r \in left[h].recipients THEN times[n][r] = 0 ELSE Covered(r)
  /\ pc[h] \in Working \ {"suppress"} /\ Suppresses(n) => \A r \in Recipients : Covered(r)
  /\ pc[h] \in {"suppress", "list"} => Untold(n)
  /\ pc[h] \in {"fan", "publish"} =>
       /\ left[h].hooks \subseteq listed[n]
       /\ \A k \in Hooks :
            /\ rows[n][k] = IF k \in listed[n] \ left[h].hooks THEN 1 ELSE 0
            /\ <<n, k>> \in jobs <=>
                 k \in listed[n] \ left[h].hooks /\ (pc[h] = "publish" => k # left[h].this)
       /\ pc[h] = "publish" => left[h].this \in listed[n] \ left[h].hooks

\* What a notification has done, before and after its worker.
Done(n) ==
  /\ \A k \in Hooks :
       /\ rows[n][k] = IF k \in listed[n] THEN 1 ELSE 0
       /\ <<n, k>> \in jobs <=> k \in listed[n]
  /\ Suppresses(n) => \A r \in Recipients : Covered(r)

Note(n) ==
  /\ \A r \in Recipients : times[n][r] \in {0, 1}
  /\ \A k \in Hooks : rows[n][k] \in {0, 1}
  /\ n \in events => posts[n] > 0
  /\ n \notin events => n \notin cut /\ Untold(n) /\ \A r \in Recipients : times[n][r] = 0
  /\ missed[n] # {} => Cardinality(listed[n]) = HookLimit
  /\ n \in events \ cut /\ ~AtWork(n) => Done(n)

\* What a suppression rests on.
Source(r) ==
  suppressed[r].by \in Notes =>
    LET n == suppressed[r].by IN
    n \in events /\ Suppresses(n) /\ suppressed[r].reason = Reason[kind[n]] /\ times[n][r] > 0

Inv ==
  /\ Typed
  /\ \A h, i \in Handlers : Works(h) /\ Works(i) /\ job[h] = job[i] => h = i
  /\ \A h \in Handlers : Hand(h)
  /\ \A n \in Notes : Note(n)
  /\ \A r \in Recipients : Source(r)

LEMMA InvSafe == Inv => OncePerNote /\ FannedOut /\ BouncesSuppress
<1> SUFFICES ASSUME Inv PROVE OncePerNote /\ FannedOut /\ BouncesSuppress
  OBVIOUS
<1>1. OncePerNote
  BY DEF Inv, Note, OncePerNote
<1>2. events \subseteq Notes
  BY DEF Inv, Typed, TypeOK
<1>3. FannedOut
  <2> SUFFICES ASSUME NEW n \in events \ cut, ~AtWork(n)
               PROVE  /\ \A k \in Hooks : /\ rows[n][k] = IF k \in listed[n] THEN 1 ELSE 0
                                          /\ <<n, k>> \in jobs <=> k \in listed[n]
                      /\ missed[n] # {} => Cardinality({k \in Hooks : <<n, k>> \in jobs}) = HookLimit
    BY DEF FannedOut
  <2>1. Note(n) /\ Done(n) /\ listed[n] \subseteq Hooks
    BY <1>2 DEF Inv, Note, Typed, TypeOK
  <2>2. {k \in Hooks : <<n, k>> \in jobs} = listed[n]
    BY <2>1 DEF Done
  <2> QED
    BY <2>1, <2>2 DEF Note, Done
<1>4. BouncesSuppress
  BY <1>2 DEF Inv, Note, Done, Covered, Source, BouncesSuppress
<1> QED
  BY <1>1, <1>3, <1>4

-----------------------------------------------------------------------------
(* Types *)

LEMMA InitTyped == Init => Typed
BY FeedbackAssumption DEF Init, Typed, TypeOK, HandsOK, KindsOK, Absent, Nothing, Working

LEMMA Cell ==
  ASSUME NEW S, NEW T, NEW V, NEW f \in [S -> [T -> V]], NEW s \in S, NEW t \in T, NEW v \in V
  PROVE  [f EXCEPT ![s][t] = v] \in [S -> [T -> V]]
OBVIOUS

LeftType == [recipients : SUBSET Recipients, hooks : SUBSET Hooks, this : Hooks \cup {None}]
Place == {"idle", "commit", "answer"} \cup Working

\* What most actions leave alone, and what they may do to a handler.
LEMMA Resting ==
  ASSUME Typed, NEW h \in Handlers, Rest(h)
  PROVE  /\ pc' \in [Handlers -> Place] /\ job' \in [Handlers -> Notes \cup {None}]
         /\ left' \in [Handlers -> LeftType]
         /\ pc'[h] = "idle"
         /\ \A i \in Handlers \ {h} : pc'[i] = pc[i] /\ job'[i] = job[i] /\ left'[i] = left[i]
BY DEF Typed, TypeOK, Rest, Go, Nothing, LeftType, Place

LEMMA Spending ==
  ASSUME Typed, NEW f \in {"edit", "fault"}, Spend(f)
  PROVE  spent' \in [{"edit", "fault"} -> Nat]
BY DEF Typed, TypeOK, Spend

LEMMA PostTyped == ASSUME Typed, NEW h \in Handlers, NEW n \in Notes, Post(h, n) PROVE Typed'
<1>1. posts' = [posts EXCEPT ![n] = @ + 1] /\ posts \in [Notes -> Nat]
  BY DEF Post, Typed, TypeOK
<1>2. posts' \in [Notes -> Nat] /\ posts'[n] = posts[n] + 1 /\ posts'[n] > 0
      /\ \A m \in Notes \ {n} : posts'[m] = posts[m]
  BY <1>1
<1>3. kind' \in [Notes -> Kinds \cup {"none"}] /\ kind'[n] \in Kinds
      /\ \A m \in Notes \ {n} : kind'[m] = kind[m]
  <2>1. CASE posts[n] = 0
    BY <2>1 DEF Post, Typed, TypeOK
  <2>2. CASE posts[n] # 0
    <3>1. posts[n] > 0
      BY <2>2, <1>1
    <3> QED
      BY <3>1, <2>2 DEF Post, Typed, TypeOK, KindsOK
  <2> QED
    BY <2>1, <2>2
<1>4. pc' \in [Handlers -> Place] /\ job' \in [Handlers -> Notes \cup {None}] /\ pc'[h] = "commit" /\ job'[h] = n
      /\ \A i \in Handlers \ {h} : pc'[i] = pc[i] /\ job'[i] = job[i]
  BY DEF Post, Go, Typed, TypeOK, Place
<1>5. TypeOK'
  BY <1>2, <1>3, <1>4 DEF Post, Typed, TypeOK, store, past, Place
<1>6. HandsOK'
  <2> SUFFICES ASSUME NEW i \in Handlers, pc'[i] # "idle"
               PROVE  job'[i] \in Notes /\ posts'[job'[i]] > 0 /\ (pc'[i] = "publish" => left'[i].this \in Hooks)
    BY DEF HandsOK
  <2>1. CASE i = h
    BY <2>1, <1>2, <1>4
  <2>2. CASE i # h
    <3>1. job[i] \in Notes /\ posts[job[i]] > 0 /\ pc'[i] = pc[i] /\ job'[i] = job[i] /\ left'[i] = left[i]
      BY <2>2, <1>4 DEF Typed, HandsOK, Post
    <3>2. posts'[job[i]] > 0
      BY <3>1, <1>2
    <3> QED
      BY <3>1, <3>2 DEF Typed, HandsOK
  <2> QED
    BY <2>1, <2>2
<1>7. KindsOK'
  BY <1>2, <1>3 DEF Typed, KindsOK
<1> QED
  BY <1>5, <1>6, <1>7 DEF Typed

LEMMA CommitTyped == ASSUME Typed, NEW h \in Handlers, Commit(h) PROVE Typed'
<1>1. pc[h] = "commit" /\ job[h] \in Notes
  BY DEF Commit, Typed, HandsOK
<1>2. left \in [Handlers -> LeftType] /\ pc \in [Handlers -> Place]
  BY DEF Typed, TypeOK, LeftType, Place
<1>3. left' \in [Handlers -> LeftType]
  BY <1>2 DEF Commit, LeftType
<1>4. pc' \in [Handlers -> Place] /\ pc'[h] # "publish" /\ \A i \in Handlers \ {h} : pc'[i] = pc[i] /\ left'[i] = left[i]
  BY <1>2 DEF Commit, Go, Place, Working
<1>5. TypeOK'
  BY <1>1, <1>3, <1>4 DEF Commit, Record, Typed, TypeOK, world, store, past, LeftType, Place
<1>6. UNCHANGED <<kind, posts, job>>
  BY DEF Commit, world
<1> QED
  BY <1>1, <1>4, <1>5, <1>6 DEF Typed, HandsOK, KindsOK

LEMMA SuppressTyped == ASSUME Typed, NEW h \in Handlers, NEW r \in Recipients, Suppress(h, r), Suppresses(job[h]) PROVE Typed'
<1>1. pc[h] = "suppress" /\ job[h] \in Notes
  BY DEF Suppress, Typed, HandsOK
<1>2. left \in [Handlers -> LeftType] /\ pc \in [Handlers -> Place]
  BY DEF Typed, TypeOK, LeftType, Place
<1>3. left' \in [Handlers -> LeftType]
  BY <1>2 DEF Suppress, LeftType
<1>4. pc' \in [Handlers -> Place] /\ pc'[h] # "publish" /\ \A i \in Handlers \ {h} : pc'[i] = pc[i] /\ left'[i] = left[i]
  BY <1>2 DEF Suppress, Go, Place, Working
<1>5. times \in [Notes -> [Recipients -> Nat]] /\ times[job[h]][r] + 1 \in Nat
  BY <1>1 DEF Typed, TypeOK
<1>6. times' = [times EXCEPT ![job[h]][r] = times[job[h]][r] + 1]
  BY DEF Suppress
<1>7. times' \in [Notes -> [Recipients -> Nat]]
  BY <1>1, <1>5, <1>6, Cell
<1>8. Reason[kind[job[h]]] \in {"bounced", "complained"}
  BY DEF Suppresses, Reason
<1>9. suppressed' \in [Recipients -> [reason : {"none", "bounced", "complained", "manual"}, by : Notes \cup {None}]]
  BY <1>1, <1>8 DEF Suppress, Typed, TypeOK
<1>10. TypeOK'
  BY <1>1, <1>3, <1>4, <1>7, <1>9 DEF Suppress, Typed, TypeOK, world, LeftType, Place
<1>11. UNCHANGED <<kind, posts, job>>
  BY DEF Suppress, world
<1> QED
  BY <1>1, <1>4, <1>10, <1>11 DEF Typed, HandsOK, KindsOK

LEMMA ListTyped == ASSUME Typed, NEW h \in Handlers, List(h) PROVE Typed'
<1>1. pc[h] = "list" /\ job[h] \in Notes
  BY DEF List, Typed, HandsOK
<1>2. left \in [Handlers -> LeftType] /\ pc \in [Handlers -> Place] /\ active \subseteq Hooks
  BY DEF Typed, TypeOK, LeftType, Place
<1>3. left' \in [Handlers -> LeftType] /\ listed' \in [Notes -> SUBSET Hooks] /\ missed' \in [Notes -> SUBSET Hooks]
  <2>1. PICK batch \in SUBSET active :
          /\ listed' = [listed EXCEPT ![job[h]] = batch]
          /\ missed' = [missed EXCEPT ![job[h]] = active \ batch]
          /\ left' = [left EXCEPT ![h].hooks = batch]
    BY DEF List
  <2>2. left' \in [Handlers -> LeftType]
    BY <1>2, <2>1 DEF LeftType
  <2> QED
    BY <1>1, <1>2, <2>1, <2>2 DEF Typed, TypeOK
<1>4. pc' \in [Handlers -> Place] /\ pc'[h] # "publish" /\ \A i \in Handlers \ {h} : pc'[i] = pc[i] /\ left'[i] = left[i]
  BY <1>2 DEF List, Go, Place, Working
<1>5. TypeOK'
  BY <1>1, <1>3, <1>4 DEF List, Typed, TypeOK, world, store, LeftType, Place
<1>6. UNCHANGED <<kind, posts, job>>
  BY DEF List, world
<1> QED
  BY <1>1, <1>4, <1>5, <1>6 DEF Typed, HandsOK, KindsOK

LEMMA EnqueueTyped == ASSUME Typed, NEW h \in Handlers, NEW k \in Hooks, EnqueueDelivery(h, k) PROVE Typed'
<1>1. pc[h] = "fan" /\ job[h] \in Notes
  BY DEF EnqueueDelivery, Typed, HandsOK
<1>2. left \in [Handlers -> LeftType] /\ pc \in [Handlers -> Place]
  BY DEF Typed, TypeOK, LeftType, Place
<1>3. left' = [left EXCEPT ![h].hooks = @ \ {k}, ![h].this = k]
  BY DEF EnqueueDelivery
<1>4. left' \in [Handlers -> LeftType] /\ left'[h].this = k
  BY <1>2, <1>3 DEF LeftType
<1>5. pc' \in [Handlers -> Place] /\ \A i \in Handlers \ {h} : pc'[i] = pc[i] /\ left'[i] = left[i]
  BY <1>2, <1>3 DEF EnqueueDelivery, Go, Place, Working
<1>6. rows \in [Notes -> [Hooks -> Nat]] /\ rows[job[h]][k] + 1 \in Nat
  BY <1>1 DEF Typed, TypeOK
<1>7. rows' = [rows EXCEPT ![job[h]][k] = rows[job[h]][k] + 1]
  BY DEF EnqueueDelivery
<1>8. rows' \in [Notes -> [Hooks -> Nat]]
  BY <1>1, <1>6, <1>7, Cell
<1>9. TypeOK'
  BY <1>4, <1>5, <1>8 DEF EnqueueDelivery, Typed, TypeOK, world, past, LeftType, Place
<1>10. UNCHANGED <<kind, posts, job>>
  BY DEF EnqueueDelivery, world
<1> QED
  BY <1>1, <1>4, <1>5, <1>9, <1>10 DEF Typed, HandsOK, KindsOK

LEMMA PublishTyped == ASSUME Typed, NEW h \in Handlers, Publish(h) PROVE Typed'
<1>1. pc[h] = "publish" /\ job[h] \in Notes /\ left[h].this \in Hooks
  BY DEF Publish, Typed, HandsOK
<1>2. left \in [Handlers -> LeftType] /\ pc \in [Handlers -> Place]
  BY DEF Typed, TypeOK, LeftType, Place
<1>3. left' \in [Handlers -> LeftType]
  BY <1>2 DEF Publish, LeftType
<1>4. pc' \in [Handlers -> Place] /\ pc'[h] # "publish" /\ \A i \in Handlers \ {h} : pc'[i] = pc[i] /\ left'[i] = left[i]
  BY <1>2 DEF Publish, Go, Place, Working
<1>5. jobs' \subseteq Notes \X Hooks
  BY <1>1 DEF Publish, Typed, TypeOK
<1>6. TypeOK'
  BY <1>3, <1>4, <1>5 DEF Publish, Typed, TypeOK, world, past, LeftType, Place
<1>7. UNCHANGED <<kind, posts, job>>
  BY DEF Publish, world
<1> QED
  BY <1>1, <1>4, <1>6, <1>7 DEF Typed, HandsOK, KindsOK

LEMMA AnswerTyped == ASSUME Typed, NEW h \in Handlers, Answer(h) PROVE Typed'
<1>1. spent' \in [{"edit", "fault"} -> Nat] /\ unanswered' \subseteq Notes
  BY Spending DEF Answer, Typed, TypeOK
<1>2. TypeOK'
  BY <1>1, Resting DEF Answer, Typed, TypeOK, store, past, LeftType, Place
<1>3. UNCHANGED <<kind, posts>>
  BY DEF Answer
<1> QED
  BY <1>2, <1>3, Resting DEF Answer, Typed, HandsOK, KindsOK

LEMMA FailTyped == ASSUME Typed, NEW h \in Handlers, Fail(h) PROVE Typed'
<1>1. Rest(h) /\ job[h] \in Notes /\ spent' \in [{"edit", "fault"} -> Nat]
  BY Spending DEF Fail, Typed, HandsOK
<1>2. cut' \subseteq Notes /\ events' \subseteq Notes
  BY <1>1 DEF Fail, Record, Typed, TypeOK, store
<1>3. UNCHANGED <<kind, posts, unanswered, suppressed, active, rows, jobs, times, listed, missed, removed>>
  BY DEF Fail, Record, world, store
<1>4. TypeOK'
  BY <1>1, <1>2, <1>3, Resting DEF Typed, TypeOK, LeftType, Place
<1> QED
  BY <1>1, <1>3, <1>4, Resting DEF Typed, HandsOK, KindsOK

LEMMA EditTyped ==
  ASSUME Typed, \/ \E r \in Recipients : SuppressByHand(r) \/ RemoveSuppression(r)
                \/ \E k \in Hooks : SwitchHook(k)
  PROVE  Typed'
<1>1. spent' \in [{"edit", "fault"} -> Nat]
  BY Spending DEF SuppressByHand, RemoveSuppression, SwitchHook
<1>2. UNCHANGED <<kind, posts, pc, job, left>>
  BY DEF SuppressByHand, RemoveSuppression, SwitchHook, world
<1>3. TypeOK'
  <2>1. ASSUME NEW r \in Recipients, SuppressByHand(r) PROVE TypeOK'
    BY <2>1, <1>1 DEF SuppressByHand, Typed, TypeOK, world
  <2>2. ASSUME NEW r \in Recipients, RemoveSuppression(r) PROVE TypeOK'
    BY <2>2, <1>1 DEF RemoveSuppression, Typed, TypeOK, world, Absent
  <2>3. ASSUME NEW k \in Hooks, SwitchHook(k) PROVE TypeOK'
    BY <2>3, <1>1 DEF SwitchHook, Typed, TypeOK, world, past
  <2> QED
    BY <2>1, <2>2, <2>3
<1> QED
  BY <1>2, <1>3 DEF Typed, HandsOK, KindsOK

-----------------------------------------------------------------------------
(* A step concerns one handler and its notification *)

Apart(h, n) ==
  /\ \A i \in Handlers \ {h} : pc'[i] = pc[i] /\ job'[i] = job[i] /\ left'[i] = left[i]
  /\ \A m \in Notes \ {n} :
       /\ m \in events' <=> m \in events
       /\ m \in cut' <=> m \in cut
       /\ rows'[m] = rows[m] /\ times'[m] = times[m] /\ listed'[m] = listed[m] /\ missed'[m] = missed[m]
       /\ \A k \in Hooks : <<m, k>> \in jobs' <=> <<m, k>> \in jobs
       /\ posts'[m] = posts[m] /\ kind'[m] = kind[m]

\* A step that leaves alone what is stored about the notification.
Kept == UNCHANGED <<events, cut, rows, times, listed, missed, jobs>>

\* What never goes away: a kind once posted, an event, a suppression that nobody
\* removed.
Stays(n) ==
  /\ posts'[n] >= posts[n] /\ (posts[n] > 0 => kind'[n] = kind[n])
  /\ n \in events => n \in events'
  /\ \A r \in Recipients : Covered(r) => Covered(r)'
  /\ \A r \in Recipients : times'[n][r] >= times[n][r]
  /\ \A r \in Recipients :
       suppressed'[r] = suppressed[r] \/ suppressed'[r].by \notin Notes
         \/ (suppressed'[r].by = n /\ n \in events' /\ Suppresses(n)' /\ times'[n][r] > 0
             /\ suppressed'[r].reason = Reason[kind'[n]])

\* All there is to show of a step is about h and n: another worker of n is only
\* there when h is none, and then the step changes nothing for it.
LEMMA Locally ==
  ASSUME Inv, Typed', NEW h \in Handlers, NEW n \in Notes,
         Apart(h, n), Stays(n),
         pc[h] = "idle" \/ job[h] = n,
         pc'[h] = "idle" \/ job'[h] = n,
         Kept \/ n \notin events \/ Works(h),
         Works(h)' => Works(h) \/ n \notin events,
         Hand(h)', Note(n)'
  PROVE  Inv'
<1>1. \A i \in Handlers \ {h} : Works(i)' <=> Works(i)
  BY DEF Apart, Works
<1>2. \A i \in Handlers : Works(i) => job[i] \in Notes /\ job[i] \in events /\ posts[job[i]] > 0
  BY DEF Inv, Typed, HandsOK, Hand, Works, Working
<1>3. ASSUME NEW i \in Handlers \ {h}, Works(i), job[i] = n, Works(h)' PROVE FALSE
  <2>1. CASE Works(h)
    <3>1. job[h] = n
      BY <2>1 DEF Works, Working
    <3> QED
      BY <1>3, <2>1, <3>1 DEF Inv
  <2> QED
    BY <2>1, <1>2, <1>3
<1>4. \A i, j \in Handlers : Works(i)' /\ Works(j)' /\ job'[i] = job'[j] => i = j
  <2> SUFFICES ASSUME NEW i \in Handlers, NEW j \in Handlers, Works(i)', Works(j)', job'[i] = job'[j], i # j
               PROVE  FALSE
    OBVIOUS
  <2>1. CASE i # h /\ j # h
    BY <2>1, <1>1 DEF Inv, Apart
  <2>2. CASE i = h
    <3>1. job'[h] = n
      BY <2>2 DEF Works, Working
    <3> QED
      BY <2>2, <3>1, <1>1, <1>3 DEF Apart
  <2>3. CASE j = h
    <3>1. job'[h] = n
      BY <2>3 DEF Works, Working
    <3> QED
      BY <2>3, <3>1, <1>1, <1>3 DEF Apart
  <2> QED
    BY <2>1, <2>2, <2>3
<1>5. \A r \in Recipients : Covered(r) => Covered(r)'
  BY DEF Stays
<1>6. ASSUME NEW i \in Handlers \ {h} PROVE Hand(i)'
  <2>1. Hand(i) /\ pc'[i] = pc[i] /\ job'[i] = job[i] /\ left'[i] = left[i]
    BY DEF Inv, Apart
  <2>2. CASE ~Works(i)
    BY <2>1, <2>2 DEF Hand, Works, Working
  <2>3. CASE Works(i)
    <3>1. job[i] = n => Kept
      <4> SUFFICES ASSUME job[i] = n PROVE Kept
        OBVIOUS
      <4>1. CASE Works(h)
        <5>1. job[h] = n
          BY <4>1 DEF Works, Working
        <5> QED
          BY <2>3, <4>1, <5>1 DEF Inv
      <4> QED
        BY <2>3, <4>1, <1>2
    <3> DEFINE m == job[i]
    <3>2. /\ m \in Notes
          /\ m \in events' <=> m \in events
          /\ m \in cut' <=> m \in cut
          /\ rows'[m] = rows[m] /\ times'[m] = times[m] /\ listed'[m] = listed[m] /\ missed'[m] = missed[m]
          /\ \A k \in Hooks : <<m, k>> \in jobs' <=> <<m, k>> \in jobs
          /\ kind'[m] = kind[m]
      BY <2>3, <3>1, <1>2 DEF Apart, Kept, Stays
    <3>3. Suppresses(job[i])' <=> Suppresses(job[i])
      BY <2>1, <3>2 DEF Suppresses
    <3> QED
      BY <2>1, <3>2, <3>3, <1>5 DEF Hand, Works, Untold
  <2> QED
    BY <2>2, <2>3
<1>7. ASSUME NEW m \in Notes, m # n PROVE Note(m)'
  <2>1. Note(m)
    BY DEF Inv
  <2>2. /\ m \in events' <=> m \in events
        /\ m \in cut' <=> m \in cut
        /\ rows'[m] = rows[m] /\ times'[m] = times[m] /\ listed'[m] = listed[m] /\ missed'[m] = missed[m]
        /\ \A k \in Hooks : <<m, k>> \in jobs' <=> <<m, k>> \in jobs
        /\ posts'[m] = posts[m] /\ kind'[m] = kind[m]
    BY <1>7 DEF Apart
  <2>3. AtWork(m) => AtWork(m)'
    BY <1>7 DEF AtWork, Apart, Working
  <2>4. Suppresses(m)' <=> Suppresses(m)
    BY <2>2 DEF Suppresses
  <2> QED
    BY <2>1, <2>2, <2>3, <2>4, <1>5 DEF Note, Done, Untold
<1>8. ASSUME NEW r \in Recipients PROVE Source(r)'
  <2>1. CASE suppressed'[r] = suppressed[r]
    <3> SUFFICES ASSUME suppressed[r].by \in Notes PROVE Source(r)'
      BY <2>1 DEF Source
    <3> DEFINE m == suppressed[r].by
    <3>1. m \in events /\ Suppresses(m) /\ suppressed[r].reason = Reason[kind[m]] /\ times[m][r] > 0
      BY DEF Inv, Source
    <3>2. posts[m] > 0
      BY <3>1 DEF Inv, Note
    <3>3. kind'[m] = kind[m] /\ m \in events'
      BY <3>1, <3>2 DEF Apart, Stays
    <3>4. times'[m][r] > 0
      <4>1. times[m][r] \in Nat /\ times'[m][r] \in Nat
        BY DEF Inv, Typed, TypeOK
      <4> QED
        BY <3>1, <4>1 DEF Apart, Stays
    <3> QED
      BY <2>1, <3>1, <3>3, <3>4 DEF Source, Suppresses
  <2>2. CASE suppressed'[r] # suppressed[r]
    BY <2>2 DEF Stays, Source
  <2> QED
    BY <2>1, <2>2
<1> QED
  BY <1>4, <1>6, <1>7, <1>8 DEF Inv

-----------------------------------------------------------------------------
(* The actions *)

LEMMA CommitKeeps == ASSUME Inv, Typed', NEW h \in Handlers, Commit(h) PROVE Inv'
<1>1. PICK n \in Notes : n = job[h] /\ posts[n] > 0
  BY DEF Inv, Typed, HandsOK, Commit, Working
<1>2. Hand(h) /\ Note(n)
  BY DEF Inv
<1>3. Apart(h, n)
  BY <1>1 DEF Inv, Typed, TypeOK, Apart, Commit, Go, Record, world, store, past
<1>4. Stays(n)
  BY <1>1, <1>2 DEF Inv, Typed, TypeOK, Stays, Covered, Hand, Suppresses, Absent, Commit, Go, Record, world, store, past
<1>5. Hand(h)'
  BY <1>1, <1>2, <1>4 DEF Inv, Typed, TypeOK, Hand, Note, Stays, Works, Working, Suppresses, Untold, Commit, Go, Record, world, store, past
<1>6. Note(n)'
  BY <1>1, <1>2, <1>4 DEF Inv, Typed, TypeOK, Hand, Note, Stays, Done, AtWork, Works, Working, Suppresses, Untold, Commit, Go, Record, world, store, past
<1>7. /\ pc'[h] = "idle" \/ job'[h] = n
      /\ Kept \/ n \notin events \/ Works(h)
      /\ Works(h)' => Works(h) \/ n \notin events
  BY <1>1 DEF Inv, Typed, TypeOK, Kept, Works, Working, Commit, Go, Record, world, store, past
<1> QED
  BY <1>1, <1>3, <1>4, <1>5, <1>6, <1>7, Locally

LEMMA SuppressKeeps == ASSUME Inv, Typed', NEW h \in Handlers, NEW r \in Recipients, Suppress(h, r) PROVE Inv'
<1>1. PICK n \in Notes : n = job[h] /\ posts[n] > 0
  BY DEF Inv, Typed, HandsOK, Suppress, Working
<1>2. Hand(h) /\ Note(n)
  BY DEF Inv
<1>3. Apart(h, n)
  BY <1>1 DEF Inv, Typed, TypeOK, Apart, Suppress, Go, world
<1>4. Stays(n)
  <2>1. /\ suppressed' = [suppressed EXCEPT ![r] = [reason |-> Reason[kind[n]], by |-> n]]
        /\ removed' = removed \ {r} /\ UNCHANGED <<kind, posts, events>>
        /\ times' = [times EXCEPT ![n][r] = @ + 1]
    BY <1>1 DEF Suppress, world
  <2>2. Suppresses(n) /\ n \in events /\ Reason[kind[n]] \in {"bounced", "complained"}
    BY <1>1, <1>2 DEF Hand, Suppress, Works, Working, Suppresses, Reason
  <2>3. /\ suppressed'[r] = [reason |-> Reason[kind[n]], by |-> n]
        /\ \A q \in Recipients \ {r} : suppressed'[q] = suppressed[q]
    BY <2>1 DEF Inv, Typed, TypeOK
  <2>4. /\ times'[n][r] = times[n][r] + 1 /\ times[n][r] \in Nat
        /\ \A q \in Recipients \ {r} : times'[n][q] = times[n][q] /\ times[n][q] \in Nat
    BY <2>1 DEF Inv, Typed, TypeOK
  <2>5. \A q \in Recipients : Covered(q) => Covered(q)'
    BY <2>1, <2>2, <2>3 DEF Covered, Absent
  <2>6. Suppresses(n)'
    BY <2>1, <2>2 DEF Suppresses
  <2>7. \A q \in Recipients : times'[n][q] >= times[n][q]
    BY <2>4
  <2>8. posts'[n] >= posts[n]
    BY <2>1 DEF Inv, Typed, TypeOK
  <2>9. suppressed'[r].by = n /\ times'[n][r] > 0 /\ suppressed'[r].reason = Reason[kind'[n]]
    BY <2>1, <2>3, <2>4
  <2> QED
    BY <2>1, <2>2, <2>3, <2>5, <2>6, <2>7, <2>8, <2>9 DEF Stays
<1>5. Hand(h)'
  <2>1. /\ pc[h] = "suppress" /\ UNCHANGED <<kind, events, cut, rows, jobs, listed, job>>
        /\ times' = [times EXCEPT ![n][r] = @ + 1] /\ r \in left[h].recipients
    BY <1>1 DEF Suppress, world
  <2>2. /\ left'[h].recipients = left[h].recipients \ {r} /\ left'[h].hooks = left[h].hooks
        /\ pc'[h] = IF left[h].recipients = {r} THEN "list" ELSE "suppress"
    BY DEF Suppress, Go, Inv, Typed, TypeOK
  <2>3. \A q \in Recipients \ {r} : times'[n][q] = times[n][q]
    BY <2>1 DEF Inv, Typed, TypeOK
  <2>4. Covered(r)' /\ \A q \in Recipients : Covered(q) => Covered(q)'
    <3>1. Suppresses(n) /\ suppressed'[r] = [reason |-> Reason[kind[n]], by |-> n]
      BY <1>1, <1>2, <2>1 DEF Suppress, Hand, Inv, Typed, TypeOK
    <3>2. Reason[kind[n]] # "none"
      BY <3>1 DEF Suppresses, Reason
    <3>3. suppressed'[r] # Absent
      BY <3>1, <3>2 DEF Absent
    <3> QED
      BY <1>4, <3>3 DEF Stays, Covered
  <2>5. Suppresses(n) /\ Suppresses(n)' /\ n \in events \ cut /\ Untold(n) /\ Untold(n)'
    BY <1>1, <1>2, <2>1 DEF Hand, Suppresses, Works, Working, Untold
  <2>6. \A q \in Recipients : IF q \in left'[h].recipients THEN times'[n][q] = 0 ELSE Covered(q)'
    BY <1>1, <1>2, <2>1, <2>2, <2>3, <2>4 DEF Hand
  <2> QED
    BY <1>1, <2>1, <2>2, <2>5, <2>6 DEF Hand, Works, Working
<1>6. Note(n)'
  BY <1>1, <1>2, <1>4 DEF Inv, Typed, TypeOK, Hand, Note, Stays, Done, AtWork, Works, Working, Suppresses, Untold, Suppress, Go, world
<1>7. /\ pc'[h] = "idle" \/ job'[h] = n
      /\ Kept \/ n \notin events \/ Works(h)
      /\ Works(h)' => Works(h) \/ n \notin events
  BY <1>1 DEF Inv, Typed, TypeOK, Kept, Works, Working, Suppress, Go, world
<1> QED
  BY <1>1, <1>3, <1>4, <1>5, <1>6, <1>7, Locally

LEMMA ListKeeps == ASSUME Inv, Typed', NEW h \in Handlers, List(h) PROVE Inv'
<1>1. PICK n \in Notes : n = job[h] /\ posts[n] > 0
  BY DEF Inv, Typed, HandsOK, List, Working
<1>2. Hand(h) /\ Note(n)
  BY DEF Inv
<1>3. Apart(h, n)
  BY <1>1 DEF Inv, Typed, TypeOK, Apart, List, Go, world, store
<1>4. Stays(n)
  BY <1>1, <1>2 DEF Inv, Typed, TypeOK, Stays, Covered, Hand, Suppresses, Absent, List, Go, world, store
<1>5. Hand(h)'
  BY <1>1, <1>2, <1>4 DEF Inv, Typed, TypeOK, Hand, Note, Stays, Works, Working, Suppresses, Untold, List, Go, world, store
<1>6. Note(n)'
  <2>1. PICK batch \in SUBSET active :
          /\ Page(batch)
          /\ listed' = [listed EXCEPT ![n] = batch]
          /\ missed' = [missed EXCEPT ![n] = active \ batch]
          /\ Go(h, IF batch = {} THEN "answer" ELSE "fan")
    BY <1>1 DEF List
  <2>2. listed'[n] = batch /\ missed'[n] = active \ batch
    BY <2>1 DEF Inv, Typed, TypeOK
  <2>3. missed'[n] # {} => Cardinality(listed'[n]) = HookLimit
    BY <2>1, <2>2 DEF Page
  <2>4. /\ pc[h] = "list" /\ n \in events \ cut /\ Untold(n) /\ (Suppresses(n) => \A r \in Recipients : Covered(r))
        /\ UNCHANGED <<kind, posts, events, cut, rows, jobs, times, job, suppressed, removed>>
    BY <1>1, <1>2 DEF List, Hand, Works, Working, world, store
  <2>5. ~AtWork(n)' => Done(n)'
    <3> SUFFICES ASSUME ~AtWork(n)' PROVE Done(n)'
      OBVIOUS
    <3>1. pc'[h] \notin Working
      BY <1>1, <2>4 DEF AtWork
    <3>2. batch = {}
      BY <2>1, <3>1 DEF Go, Working, Inv, Typed, TypeOK
    <3> QED
      BY <2>2, <2>4, <3>2 DEF Done, Untold, Suppresses, Covered
  <2> QED
    BY <1>2, <2>3, <2>4, <2>5 DEF Note
<1>7. /\ pc'[h] = "idle" \/ job'[h] = n
      /\ Kept \/ n \notin events \/ Works(h)
      /\ Works(h)' => Works(h) \/ n \notin events
  BY <1>1 DEF Inv, Typed, TypeOK, Kept, Works, Working, List, Go, world, store
<1> QED
  BY <1>1, <1>3, <1>4, <1>5, <1>6, <1>7, Locally

LEMMA EnqueueDeliveryKeeps == ASSUME Inv, Typed', NEW h \in Handlers, NEW k \in Hooks, EnqueueDelivery(h, k) PROVE Inv'
<1>1. PICK n \in Notes : n = job[h] /\ posts[n] > 0
  BY DEF Inv, Typed, HandsOK, EnqueueDelivery, Working
<1>2. Hand(h) /\ Note(n)
  BY DEF Inv
<1>3. Apart(h, n)
  BY <1>1 DEF Inv, Typed, TypeOK, Apart, EnqueueDelivery, Go, world, past
<1>4. Stays(n)
  BY <1>1, <1>2 DEF Inv, Typed, TypeOK, Stays, Covered, Hand, Suppresses, Absent, EnqueueDelivery, Go, world, past
<1>5. Hand(h)'
  BY <1>1, <1>2, <1>4 DEF Inv, Typed, TypeOK, Hand, Note, Stays, Works, Working, Suppresses, Untold, EnqueueDelivery, Go, world, past
<1>6. Note(n)'
  <2>1. /\ pc[h] = "fan" /\ n \in events /\ k \in left[h].hooks /\ rows' = [rows EXCEPT ![n][k] = @ + 1]
        /\ UNCHANGED <<events, cut, times, posts, listed, missed>>
    BY <1>1, <1>2 DEF EnqueueDelivery, Hand, Works, Working, world, past
  <2>2. rows[n][k] = 0
    BY <1>1, <1>2, <2>1 DEF Hand
  <2>3. \A q \in Hooks : rows'[n][q] \in {0, 1}
    BY <1>2, <2>1, <2>2 DEF Note, Inv, Typed, TypeOK
  <2>4. AtWork(n)'
    BY <1>1 DEF EnqueueDelivery, Go, AtWork, Working, Inv, Typed, TypeOK
  <2> QED
    BY <1>2, <2>1, <2>3, <2>4 DEF Note
<1>7. /\ pc'[h] = "idle" \/ job'[h] = n
      /\ Kept \/ n \notin events \/ Works(h)
      /\ Works(h)' => Works(h) \/ n \notin events
  BY <1>1 DEF Inv, Typed, TypeOK, Kept, Works, Working, EnqueueDelivery, Go, world, past
<1> QED
  BY <1>1, <1>3, <1>4, <1>5, <1>6, <1>7, Locally

LEMMA PublishKeeps == ASSUME Inv, Typed', NEW h \in Handlers, Publish(h) PROVE Inv'
<1>1. PICK n \in Notes : n = job[h] /\ posts[n] > 0
  BY DEF Inv, Typed, HandsOK, Publish, Working
<1>2. Hand(h) /\ Note(n)
  BY DEF Inv
<1>3. Apart(h, n)
  BY <1>1 DEF Inv, Typed, TypeOK, Apart, Publish, Go, world, past
<1>4. Stays(n)
  BY <1>1, <1>2 DEF Inv, Typed, TypeOK, Stays, Covered, Hand, Suppresses, Absent, Publish, Go, world, past
<1>5. Hand(h)'
  BY <1>1, <1>2, <1>4 DEF Inv, Typed, TypeOK, Hand, Note, Stays, Works, Working, Suppresses, Untold, Publish, Go, world, past
<1>6. Note(n)'
  BY <1>1, <1>2, <1>4 DEF Inv, Typed, TypeOK, Hand, Note, Stays, Done, AtWork, Works, Working, Suppresses, Untold, Publish, Go, world, past
<1>7. /\ pc'[h] = "idle" \/ job'[h] = n
      /\ Kept \/ n \notin events \/ Works(h)
      /\ Works(h)' => Works(h) \/ n \notin events
  BY <1>1 DEF Inv, Typed, TypeOK, Kept, Works, Working, Publish, Go, world, past
<1> QED
  BY <1>1, <1>3, <1>4, <1>5, <1>6, <1>7, Locally

LEMMA AnswerKeeps == ASSUME Inv, Typed', NEW h \in Handlers, Answer(h) PROVE Inv'
<1>1. PICK n \in Notes : n = job[h] /\ posts[n] > 0
  BY DEF Inv, Typed, HandsOK, Answer, Working
<1>2. Hand(h) /\ Note(n)
  BY DEF Inv
<1>3. Apart(h, n)
  BY <1>1 DEF Inv, Typed, TypeOK, Apart, Answer, Go, Rest, Nothing, store, past
<1>4. Stays(n)
  BY <1>1, <1>2 DEF Inv, Typed, TypeOK, Stays, Covered, Hand, Suppresses, Absent, Answer, Go, Rest, Nothing, store, past
<1>5. Hand(h)'
  BY <1>1, <1>2, <1>4 DEF Inv, Typed, TypeOK, Hand, Note, Stays, Works, Working, Suppresses, Untold, Answer, Go, Rest, Nothing, store, past
<1>6. Note(n)'
  BY <1>1, <1>2, <1>4 DEF Inv, Typed, TypeOK, Hand, Note, Stays, Done, AtWork, Works, Working, Suppresses, Untold, Answer, Go, Rest, Nothing, store, past
<1>7. /\ pc'[h] = "idle" \/ job'[h] = n
      /\ Kept \/ n \notin events \/ Works(h)
      /\ Works(h)' => Works(h) \/ n \notin events
  BY <1>1 DEF Inv, Typed, TypeOK, Kept, Works, Working, Answer, Go, Rest, Nothing, store, past
<1> QED
  BY <1>1, <1>3, <1>4, <1>5, <1>6, <1>7, Locally

LEMMA FailKeeps == ASSUME Inv, Typed', NEW h \in Handlers, Fail(h) PROVE Inv'
<1>1. PICK n \in Notes : n = job[h] /\ posts[n] > 0
  BY DEF Inv, Typed, HandsOK, Fail, Working
<1>2. Hand(h) /\ Note(n)
  BY DEF Inv
<1>3. Apart(h, n)
  BY <1>1 DEF Inv, Typed, TypeOK, Apart, Fail, Go, Rest, Nothing, Record, world, store
<1>4. Stays(n)
  BY <1>1, <1>2 DEF Inv, Typed, TypeOK, Stays, Covered, Hand, Suppresses, Absent, Fail, Go, Rest, Nothing, Record, world, store
<1>5. Hand(h)'
  BY <1>1, <1>2, <1>4 DEF Inv, Typed, TypeOK, Hand, Note, Stays, Works, Working, Suppresses, Untold, Fail, Go, Rest, Nothing, Record, world, store
<1>6. Note(n)'
  BY <1>1, <1>2, <1>4 DEF Inv, Typed, TypeOK, Hand, Note, Stays, Done, AtWork, Works, Working, Suppresses, Untold, Fail, Go, Rest, Nothing, Record, world, store
<1>7. /\ pc'[h] = "idle" \/ job'[h] = n
      /\ Kept \/ n \notin events \/ Works(h)
      /\ Works(h)' => Works(h) \/ n \notin events
  BY <1>1 DEF Inv, Typed, TypeOK, Kept, Works, Working, Fail, Go, Rest, Nothing, Record, world, store
<1> QED
  BY <1>1, <1>3, <1>4, <1>5, <1>6, <1>7, Locally

LEMMA PostKeeps == ASSUME Inv, Typed', NEW h \in Handlers, NEW n \in Notes, Post(h, n) PROVE Inv'
<1>1. pc[h] = "idle" /\ job'[h] = n /\ pc'[h] = "commit" /\ ~Works(h)'
  BY DEF Post, Go, Works, Working, Inv, Typed, TypeOK
<1>2. Note(n)
  BY DEF Inv
<1>3. Apart(h, n)
  BY DEF Apart, Post, Go, store, past, Inv, Typed, TypeOK
<1>4. posts[n] \in Nat /\ posts'[n] = posts[n] + 1 /\ (posts[n] > 0 => kind'[n] = kind[n])
  BY DEF Post, Inv, Typed, TypeOK
<1>5. UNCHANGED <<store, past>>
  BY DEF Post
<1>6. Stays(n)
  BY <1>4, <1>5 DEF Stays, Covered, store, past, Inv, Typed, TypeOK
<1>7. Hand(h)'
  BY <1>1 DEF Hand, Works, Working
<1>8. Note(n)'
  <2>1. AtWork(n) => AtWork(n)'
    BY <1>1 DEF AtWork, Working, Post, Go, Inv, Typed, TypeOK
  <2>2. n \in events => (Suppresses(n)' <=> Suppresses(n))
    BY <1>2, <1>4 DEF Note, Suppresses
  <2> QED
    BY <1>2, <1>4, <1>5, <2>1, <2>2 DEF Note, Done, Untold, Covered, store, past
<1>9. Kept
  BY <1>5 DEF Kept, store, past
<1> QED
  BY <1>1, <1>3, <1>6, <1>7, <1>8, <1>9, Locally

\* What the user does: nobody's work is touched, and what he removes is known.
LEMMA EditKeeps ==
  ASSUME Inv, Typed',
         \/ \E r \in Recipients : SuppressByHand(r) \/ RemoveSuppression(r)
         \/ \E k \in Hooks : SwitchHook(k)
  PROVE  Inv'
<1>1. UNCHANGED <<world, events, rows, jobs, pc, job, left, times, listed, missed, cut>>
  BY DEF SuppressByHand, RemoveSuppression, SwitchHook, past
<1> DEFINE Moves == \A r \in Recipients :
                      /\ Covered(r) => Covered(r)'
                      /\ suppressed'[r] = suppressed[r] \/ suppressed'[r].by = None
<1>2. Moves
  <2>1. ASSUME NEW q \in Recipients, SuppressByHand(q) PROVE Moves
    BY <2>1 DEF SuppressByHand, Covered, Absent, Inv, Typed, TypeOK
  <2>2. ASSUME NEW q \in Recipients, RemoveSuppression(q) PROVE Moves
    BY <2>2 DEF RemoveSuppression, Covered, Absent, Inv, Typed, TypeOK
  <2>3. ASSUME NEW k \in Hooks, SwitchHook(k) PROVE Moves
    BY <2>3 DEF SwitchHook, Covered, past
  <2> QED
    BY <2>1, <2>2, <2>3
<1>3. ASSUME NEW h \in Handlers PROVE Hand(h)'
  <2>1. Hand(h)
    BY DEF Inv
  <2> QED
    BY <1>1, <1>2, <2>1 DEF world, Hand, Works, Suppresses, Untold
<1>4. ASSUME NEW n \in Notes PROVE Note(n)'
  <2>1. Note(n)
    BY DEF Inv
  <2> QED
    BY <1>1, <1>2, <2>1 DEF world, Note, Done, Untold, AtWork, Suppresses
<1>5. ASSUME NEW r \in Recipients PROVE Source(r)'
  <2>1. Source(r)
    BY DEF Inv
  <2> QED
    BY <1>1, <1>2, <2>1, FeedbackAssumption DEF world, Source, Suppresses
<1> QED
  BY <1>1, <1>3, <1>4, <1>5 DEF Inv, Works

LEMMA InitInv == Init => Inv
<1> SUFFICES ASSUME Init PROVE Inv
  OBVIOUS
<1>1. \A h \in Handlers : ~Works(h) /\ Hand(h)
  BY DEF Init, Works, Working, Hand
<1>2. \A n \in Notes : Note(n)
  BY DEF Init, Note, Untold
<1>3. \A r \in Recipients : Source(r)
  BY FeedbackAssumption DEF Init, Source, Absent
<1> QED
  BY <1>1, <1>2, <1>3, InitTyped DEF Inv

LEMMA StepTyped == ASSUME Inv, [Next]_vars PROVE Typed'
<1>1. Typed
  BY DEF Inv
<1>2. ASSUME NEW h \in Handlers, Handle(h) PROVE Typed'
  <2>1. ASSUME NEW r \in Recipients, Suppress(h, r) PROVE Suppresses(job[h])
    BY <2>1 DEF Suppress, Inv, Hand
  <2> QED
    BY <1>1, <1>2, <2>1, CommitTyped, ListTyped, PublishTyped, AnswerTyped, SuppressTyped, EnqueueTyped DEF Handle
<1>3. CASE UNCHANGED vars
  BY <1>1, <1>3 DEF vars, world, store, past, Typed, TypeOK, HandsOK, KindsOK
<1> QED
  BY <1>1, <1>2, <1>3, PostTyped, FailTyped, EditTyped DEF Next

\* Every step keeps the invariant.
LEMMA InvKept == ASSUME Inv, [Next]_vars PROVE Inv'
<1>1. Typed'
  BY StepTyped
<1>2. CASE UNCHANGED vars
  BY <1>1, <1>2 DEF vars, world, store, past, Inv, Works, Hand, Note, Done, Source, Covered, Untold, AtWork, Suppresses
<1>3. ASSUME NEW h \in Handlers, Handle(h) PROVE Inv'
  BY <1>1, <1>3, CommitKeeps, ListKeeps, PublishKeeps, AnswerKeeps, SuppressKeeps, EnqueueDeliveryKeeps DEF Handle
<1> QED
  BY <1>1, <1>2, <1>3, PostKeeps, FailKeeps, EditKeeps DEF Next

LEMMA Invariance == Spec => []Inv
<1>1. Inv /\ [Next]_vars => Inv'
  BY InvKept
<1> QED
  BY InitInv, <1>1, PTL DEF Spec

\* The variables keep their types.
THEOREM TypeCorrect == Spec => []TypeOK
<1>1. Inv => TypeOK
  BY DEF Inv, Typed
<1> QED
  BY <1>1, Invariance, PTL

\* However often and however concurrently it is posted, a notification suppresses
\* a recipient at most once and makes at most one delivery for an endpoint.
THEOREM Once == Spec => []OncePerNote
BY Invariance, InvSafe, PTL

\* A committed event whose handler was not cut short has, once it is done, a
\* delivery and a job for every endpoint the listing returned, and for no other,
\* and only a listing that is full has left out an active endpoint.
THEOREM Complete == Spec => []FannedOut
BY Invariance, InvSafe, PTL

\* Its recipients are suppressed, if it is of that kind, until the user removes
\* that, and a suppression names a notification that made it.
THEOREM Suppressed == Spec => []BouncesSuppress
BY Invariance, InvSafe, PTL

=============================================================================
