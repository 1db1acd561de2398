---------------------------- MODULE OutboxProofs ----------------------------
(***************************************************************************)
(* Theorems about Outbox, for any number of items, workers and scripts:    *)
(* types, the row lock, the ledger against the channel, dry runs, how      *)
(* often a cluster may be posted and how many similar ones published; and, *)
(* for a single publisher, that it implements PublishOnce, what a repeated *)
(* post costs, and that a sent row is final.                               *)
(***************************************************************************)
EXTENDS Outbox, SetSums

(***************************************************************************)
(* Type correctness.                                                       *)
(***************************************************************************)
SessionsOK ==
  /\ pc \in [Publishers -> Places]
  /\ todo \in [Publishers -> SUBSET Items]
  /\ cur \in [Publishers -> Items \union {None}]
  /\ copy \in [Publishers -> Statuses]
  /\ seen \in [Publishers -> {"none", "other", "published", "routed"}]

LockOK == lock \in [Items -> Publishers \union {None}]

\* A session about to lock has an item to lock.
LoadedHasItem ==
  \A p \in Publishers : pc[p] = "loaded" => cur[p] \in Items

TypeInv == TypeOK /\ LoadedHasItem

LEMMA InitType == ASSUME OutboxAssumption, Init PROVE TypeOK
  BY DEF OutboxAssumption, Init, TypeOK, Statuses, Tracks, Places, Publishers

\* A session dies or is the victim of a deadlock: what both have in common.
Abort(p) ==
  /\ pc[p] # "idle"
  /\ Rollback(p)
  /\ faults' = faults + 1
  /\ UNCHANGED <<rows, posts>>

LEMMA CrashAborts == ASSUME NEW p, Crash(p) PROVE Abort(p)
  BY DEF Crash, Abort

LEMMA DeadlockIsAbort == ASSUME DeadlockAborts PROVE \E p \in Publishers : Abort(p)
  BY DEF DeadlockAborts, Deadlocked, Abort

\* What the rest of the program does to a published cluster is only that.
LEMMA OnlyTheCluster ==
  ASSUME NEW i \in Items, StatusRewritten(i)
  PROVE  /\ cluster' = [cluster EXCEPT ![i] = "other"]
         /\ UNCHANGED <<mode, status, track, created, pubs, posts, lock, pc, todo, cur, copy,
                       seen, faults>>
  BY DEF StatusRewritten, sessions

\* The steps the proofs below go through one by one.
LEMMA NextCases ==
  ASSUME [Next]_vars
  PROVE  \/ \E w \in Workers, i \in Items, t \in Tracks : EnqueueInitial(w, i, t)
         \/ \E w \in Workers : PublishBatchQueue(w)
         \/ \E w \in Workers, i \in Items : FastRouting(w, i)
         \/ \E s \in Scripts : RetryPublish(s)
         \/ \E p \in Publishers : ItemStep(p)
         \/ \E p \in Publishers : Abort(p)
         \/ \E i \in Items : StatusRewritten(i)
         \/ ReconcileUnknownOutbox
         \/ SwitchMode
         \/ UNCHANGED vars
  BY CrashAborts, DeadlockIsAbort DEF Next

\* The pieces the actions share keep the session variables well typed.
LEMMA RollbackType ==
  ASSUME TypeOK, NEW p \in Publishers, Rollback(p)
  PROVE  SessionsOK' /\ LockOK'
  BY DEF TypeOK, Rollback, Places, Statuses, SessionsOK, LockOK

LEMMA CommitItemType ==
  ASSUME TypeOK, NEW p \in Publishers, CommitItem(p)
  PROVE  SessionsOK' /\ LockOK'
  BY DEF TypeOK, CommitItem, Places, Statuses, SessionsOK, LockOK

LEMMA BeginLoopType ==
  ASSUME TypeOK, NEW p \in Publishers, NEW S \in SUBSET Items,
         NEW loaded \in [Items -> Statuses],
         NEW known \in {"none", "routed"}, BeginLoop(p, S, loaded, known)
  PROVE  SessionsOK'
  BY DEF TypeOK, BeginLoop, Places, SessionsOK

\* What a commit makes of the cluster is a status.
LEMMA ClusterType ==
  ASSUME TypeOK, NEW p \in Publishers
  PROVE  /\ RoutedOrKept(p) \in [Items -> {"other", "published"}]
         /\ PublishedIfChanged(p) \in [Items -> {"other", "published"}]
  BY DEF RoutedOrKept, PublishedIfChanged, TypeOK

\* Counting up one entry (of an item, or of no item) keeps a counter typed.
LEMMA BumpType ==
  ASSUME NEW f \in [Items -> Nat], NEW x \in Items \union {None}
  PROVE  [f EXCEPT ![x] = f[x] + 1] \in [Items -> Nat]
<1>1. CASE x \in Items
  BY <1>1
<1>2. CASE x \notin Items
  BY <1>2
<1>3. QED BY <1>1, <1>2

LEMMA ItemStepType ==
  ASSUME OutboxAssumption, TypeInv, NEW p \in Publishers, ItemStep(p)
  PROVE  TypeOK'
<1> USE DEF rows, sessions, SessionsOK, LockOK, TypeInv
<1>1. CASE LoadNext(p)
  <2>1. todo[p] \in SUBSET Items /\ status \in [Items -> Statuses]
    BY DEF TypeOK
  <2>2. SessionsOK'
    BY <1>1, <2>1, BeginLoopType DEF LoadNext
  <2>3. QED BY <1>1, <2>2 DEF LoadNext, TypeOK
<1>2. CASE EndLoop(p)
  BY <1>2, RollbackType DEF EndLoop, TypeOK
<1>3. CASE SkipItem(p)
  BY <1>3, CommitItemType, ClusterType DEF SkipItem, TypeOK
<1>4. CASE CancelDuplicate(p)
  BY <1>4, CommitItemType DEF CancelDuplicate, TypeOK, Statuses
<1>5. CASE StartSending(p)
  <2>1. seen' \in [Publishers -> {"none", "other", "published", "routed"}]
    <3>1. cur[p] \in Items => cluster[cur[p]] \in {"other", "published"}
      BY DEF TypeOK
    <3>2. QED BY <1>5, <3>1 DEF StartSending, OutboxLock, TypeOK, LoadedHasItem
  <2>2. QED BY <1>5, <2>1 DEF StartSending, TypeOK, Places
<1>6. CASE SendDelivered(p)
  BY <1>6, BumpType DEF SendDelivered, TypeOK, Places
<1>7. CASE SendRefused(p)
  BY <1>7 DEF SendRefused, TypeOK, Places
<1>8. CASE SendAnswerLost(p)
  BY <1>8, BumpType DEF SendAnswerLost, TypeOK, Places
<1>9. CASE CommitSent(p)
  BY <1>9, CommitItemType, BumpType, ClusterType DEF CommitSent, TypeOK, Statuses
<1>10. CASE CommitFailed(p)
  BY <1>10, CommitItemType, ClusterType DEF CommitFailed, TypeOK, Statuses
<1>11. QED
  BY <1>1, <1>2, <1>3, <1>4, <1>5, <1>6, <1>7, <1>8, <1>9, <1>10 DEF ItemStep

LEMMA NextType ==
  ASSUME OutboxAssumption, TypeInv, [Next]_vars
  PROVE  TypeOK'
<1> USE DEF rows, sessions, SessionsOK, LockOK, TypeInv
<1>1. ASSUME NEW w \in Workers, NEW i \in Items, NEW t \in Tracks, EnqueueInitial(w, i, t)
      PROVE  TypeOK'
  <2>1. Cardinality({j \in Items : status[j] # "none"}) \in Nat
    BY FS_Subset, FS_CardinalityType DEF OutboxAssumption
  <2>2. QED BY <1>1, <2>1 DEF EnqueueInitial, TypeOK, Statuses, NewStatus
<1>2. ASSUME NEW w \in Workers, PublishBatchQueue(w)
      PROVE  TypeOK'
  <2>1. PICK old \in SUBSET Items :
          LET cleaned == CleanupStuckOutbox(old)
              batch   == {i \in Items : cleaned[i] = "pending" /\ track[i] = "batch"}
          IN  /\ status' = cleaned
              /\ \/ BeginLoop(w, OldestOf(batch, BatchLimit), cleaned, "none")
                 \/ UNCHANGED sessions
    BY <1>2 DEF PublishBatchQueue
  <2>2. CleanupStuckOutbox(old) \in [Items -> Statuses]
    BY DEF CleanupStuckOutbox, TypeOK, Statuses
  <2>3. \A S \in SUBSET Items : OldestOf(S, BatchLimit) \in SUBSET Items
    BY DEF OldestOf
  <2>4. w \in Publishers
    BY DEF Publishers
  <2>5. SessionsOK'
    BY <2>1, <2>2, <2>3, <2>4, BeginLoopType DEF TypeOK
  <2>6. QED BY <1>2, <2>1, <2>2, <2>5 DEF PublishBatchQueue, TypeOK
<1>3. ASSUME NEW w \in Workers, NEW i \in Items, FastRouting(w, i)
      PROVE  TypeOK'
  <2>1. SessionsOK'
    BY <1>3, BeginLoopType DEF FastRouting, TypeOK, Publishers
  <2>2. QED BY <1>3, <2>1 DEF FastRouting, TypeOK
<1>4. ASSUME NEW s \in Scripts, RetryPublish(s)
      PROVE  TypeOK'
  <2> DEFINE retried == {i \in Items : status[i] \in {"failed", "dry_run"}}
             reset   == [i \in Items |-> IF i \in retried THEN "pending" ELSE status[i]]
             S       == {i \in Items : reset[i] = "pending"}
  <2>1. reset \in [Items -> Statuses]
    BY DEF TypeOK, Statuses
  <2>2. status' = reset /\ (BeginLoop(s, S, reset, "none") \/ UNCHANGED sessions)
    BY <1>4 DEF RetryPublish
  <2>3. S \in SUBSET Items /\ s \in Publishers
    BY DEF Publishers
  <2> HIDE DEF reset, S
  <2>4. SessionsOK'
    BY <2>1, <2>2, <2>3, BeginLoopType DEF TypeOK
  <2>5. QED BY <1>4, <2>1, <2>2, <2>4 DEF RetryPublish, TypeOK
<1>5. ASSUME NEW p \in Publishers, Abort(p)
      PROVE  TypeOK'
  BY <1>5, RollbackType DEF Abort, TypeOK
<1>6. CASE ReconcileUnknownOutbox
  BY <1>6 DEF ReconcileUnknownOutbox, TypeOK, Statuses
<1>7. CASE SwitchMode
  BY <1>7 DEF SwitchMode, TypeOK
<1>10. ASSUME NEW i \in Items, StatusRewritten(i)
       PROVE  TypeOK'
  BY <1>10, OnlyTheCluster DEF TypeOK
<1>8. CASE UNCHANGED vars
  BY <1>8 DEF vars, TypeOK
<1>9. QED
  BY <1>1, <1>2, <1>3, <1>4, <1>5, <1>6, <1>7, <1>8, <1>10, ItemStepType, NextCases

\* Only BeginLoop loads, and it loads an item.
LEMMA NextLoaded ==
  ASSUME TypeInv, [Next]_vars
  PROVE  LoadedHasItem'
<1> USE DEF TypeInv, TypeOK, LoadedHasItem, sessions
<1>1. ASSUME NEW p \in Publishers, NEW S, NEW loaded, NEW known, BeginLoop(p, S, loaded, known),
             S \subseteq Items
      PROVE  LoadedHasItem'
  BY <1>1 DEF BeginLoop
<1>2. ASSUME NEW p \in Publishers, CommitItem(p) \/ Rollback(p)
      PROVE  LoadedHasItem'
  BY <1>2 DEF CommitItem, Rollback
<1>3. ASSUME NEW w \in Workers, PublishBatchQueue(w)
      PROVE  LoadedHasItem'
  <2>1. \A S \in SUBSET Items : OldestOf(S, BatchLimit) \in SUBSET Items
    BY DEF OldestOf
  <2>2. (\E S \in SUBSET Items : \E loaded, known : BeginLoop(w, S, loaded, known)) \/ UNCHANGED sessions
    BY <1>3, <2>1 DEF PublishBatchQueue
  <2>3. QED BY <1>1, <2>2 DEF Publishers
<1>4. ASSUME NEW w \in Workers, NEW i \in Items, FastRouting(w, i)
      PROVE  LoadedHasItem'
  BY <1>1, <1>4 DEF FastRouting, Publishers
<1>5. ASSUME NEW s \in Scripts, RetryPublish(s)
      PROVE  LoadedHasItem'
  <2>1. (\E S \in SUBSET Items : \E loaded, known : BeginLoop(s, S, loaded, known)) \/ UNCHANGED sessions
    BY <1>5 DEF RetryPublish
  <2>2. QED BY <1>1, <2>1 DEF Publishers
<1>6. ASSUME NEW p \in Publishers, ItemStep(p)
      PROVE  LoadedHasItem'
  <2>1. CASE LoadNext(p)
    BY <1>1, <2>1 DEF LoadNext
  <2>2. CASE EndLoop(p) \/ SkipItem(p) \/ CancelDuplicate(p) \/ CommitSent(p) \/ CommitFailed(p)
    BY <1>2, <2>2 DEF EndLoop, SkipItem, CancelDuplicate, CommitSent, CommitFailed
  <2>3. CASE StartSending(p) \/ SendDelivered(p) \/ SendRefused(p) \/ SendAnswerLost(p)
    BY <2>3 DEF StartSending, SendDelivered, SendRefused, SendAnswerLost
  <2>4. QED BY <1>6, <2>1, <2>2, <2>3 DEF ItemStep
<1>7. ASSUME NEW p \in Publishers, Abort(p) PROVE LoadedHasItem'
  BY <1>2, <1>7 DEF Abort
<1>8. CASE \/ \E w \in Workers, i \in Items, t \in Tracks : EnqueueInitial(w, i, t)
           \/ \E i \in Items : StatusRewritten(i)
           \/ ReconcileUnknownOutbox \/ SwitchMode \/ UNCHANGED vars
  BY <1>8 DEF EnqueueInitial, StatusRewritten, ReconcileUnknownOutbox, SwitchMode, vars
<1>9. QED BY <1>3, <1>4, <1>5, <1>6, <1>7, <1>8, NextCases

LEMMA TypeInvariant == ASSUME OutboxAssumption PROVE Spec => []TypeInv
<1>1. Init => TypeInv
  BY InitType, OutboxAssumption DEF Init, TypeInv, LoadedHasItem
<1>2. TypeInv /\ [Next]_vars => TypeInv'
  BY NextType, NextLoaded, OutboxAssumption DEF TypeInv
<1>3. QED BY <1>1, <1>2, PTL DEF Spec

\* Every variable keeps its type.
THEOREM TypeCorrect == ASSUME OutboxAssumption PROVE Spec => []TypeOK
<1>1. TypeInv => TypeOK
  BY DEF TypeInv
<1>2. QED BY <1>1, TypeInvariant, OutboxAssumption, PTL

(***************************************************************************)
(* The row lock spans the send.                                            *)
(***************************************************************************)
LockInv == SendsSerialised /\ LoadedHasItem

LEMMA RollbackLock ==
  ASSUME TypeOK, LockInv, NEW p \in Publishers, Rollback(p)
  PROVE  LockInv'
<1> SUFFICES ASSUME NEW q \in Publishers, pc'[q] \in Locked \union {"loaded"}
             PROVE  cur'[q] \in Items /\ (pc'[q] \in Locked => lock'[cur'[q]] = q)
  BY DEF LockInv, LoadedHasItem, SendsSerialised, Locked
<1>1. q # p /\ pc'[q] = pc[q] /\ cur'[q] = cur[q]
  BY DEF Rollback, TypeOK, Locked
<1>2. QED BY <1>1 DEF Rollback, TypeOK, LockInv, LoadedHasItem, SendsSerialised, Locked

LEMMA BeginLoopLock ==
  ASSUME TypeOK, LockInv, NEW p \in Publishers, NEW S \in SUBSET Items, NEW loaded,
         NEW known, BeginLoop(p, S, loaded, known), lock' = lock
  PROVE  LockInv'
<1> SUFFICES ASSUME NEW q \in Publishers, pc'[q] \in Locked \union {"loaded"}
             PROVE  cur'[q] \in Items /\ (pc'[q] \in Locked => lock'[cur'[q]] = q)
  BY DEF LockInv, LoadedHasItem, SendsSerialised, Locked
<1>1. CASE q = p
  BY <1>1 DEF BeginLoop, TypeOK, Locked
<1>2. CASE q # p
  BY <1>2 DEF BeginLoop, TypeOK, LockInv, LoadedHasItem, SendsSerialised, Locked
<1>3. QED BY <1>1, <1>2

\* A commit frees only a lock that was the committing session's, or free.
LEMMA CommitItemLock ==
  ASSUME OutboxAssumption, TypeOK, LockInv, NEW p \in Publishers, CommitItem(p),
         pc[p] \in Locked \/ lock[cur[p]] = None
  PROVE  LockInv'
<1> SUFFICES ASSUME NEW q \in Publishers, pc'[q] \in Locked \union {"loaded"}
             PROVE  cur'[q] \in Items /\ (pc'[q] \in Locked => lock'[cur'[q]] = q)
  BY DEF LockInv, LoadedHasItem, SendsSerialised, Locked
<1>1. q # p /\ pc'[q] = pc[q] /\ cur'[q] = cur[q]
  BY DEF CommitItem, TypeOK, Locked
<1>2. cur[q] \in Items /\ (pc[q] \in Locked => lock[cur[q]] = q)
  BY <1>1 DEF LockInv, LoadedHasItem, SendsSerialised, Locked
<1>3. pc[q] \in Locked => cur[q] # cur[p]
  BY <1>1, <1>2 DEF LockInv, SendsSerialised, Locked, OutboxAssumption
<1>4. QED BY <1>1, <1>2, <1>3 DEF CommitItem, TypeOK

LEMMA ItemStepLock ==
  ASSUME OutboxAssumption, TypeOK, LockInv, NEW p \in Publishers, ItemStep(p)
  PROVE  LockInv'
<1> USE DEF Locked
<1>1. CASE LoadNext(p)
  BY <1>1, BeginLoopLock DEF LoadNext, TypeOK
<1>2. CASE EndLoop(p)
  BY <1>2, RollbackLock DEF EndLoop
<1>3. CASE SkipItem(p)
  BY <1>3, CommitItemLock DEF SkipItem, OutboxLock
<1>4. CASE CancelDuplicate(p)
  BY <1>4, CommitItemLock DEF CancelDuplicate, OutboxLock
<1>5. CASE StartSending(p)
  <2> SUFFICES ASSUME NEW q \in Publishers, pc'[q] \in Locked \union {"loaded"}
               PROVE  cur'[q] \in Items /\ (pc'[q] \in Locked => lock'[cur'[q]] = q)
    BY DEF LockInv, LoadedHasItem, SendsSerialised
  <2>1. cur' = cur /\ lock[cur[p]] = None /\ lock' = [lock EXCEPT ![cur[p]] = p]
    BY <1>5 DEF StartSending, OutboxLock
  <2>2. CASE q = p
    BY <2>1, <2>2, <1>5 DEF TypeOK, StartSending, OutboxLock, LockInv, LoadedHasItem
  <2>3. CASE q # p
    BY <2>1, <2>3, <1>5 DEF TypeOK, StartSending, LockInv, LoadedHasItem, SendsSerialised, OutboxAssumption
  <2>4. QED BY <2>2, <2>3
<1>6. CASE SendDelivered(p)
  BY <1>6 DEF SendDelivered, TypeOK, LockInv, LoadedHasItem, SendsSerialised
<1>7. CASE SendRefused(p)
  BY <1>7 DEF SendRefused, TypeOK, LockInv, LoadedHasItem, SendsSerialised
<1>8. CASE SendAnswerLost(p)
  BY <1>8 DEF SendAnswerLost, TypeOK, LockInv, LoadedHasItem, SendsSerialised
<1>9. CASE CommitSent(p)
  BY <1>9, CommitItemLock DEF CommitSent
<1>10. CASE CommitFailed(p)
  BY <1>10, CommitItemLock DEF CommitFailed
<1>11. QED
  BY <1>1, <1>2, <1>3, <1>4, <1>5, <1>6, <1>7, <1>8, <1>9, <1>10 DEF ItemStep

LEMMA NextLock ==
  ASSUME OutboxAssumption, TypeOK, LockInv, [Next]_vars
  PROVE  LockInv'
<1> USE DEF sessions
<1>1. ASSUME NEW w \in Workers, NEW i \in Items, NEW t \in Tracks, EnqueueInitial(w, i, t)
      PROVE  LockInv'
  BY <1>1 DEF EnqueueInitial, LockInv, LoadedHasItem, SendsSerialised
<1>2. ASSUME NEW w \in Workers, PublishBatchQueue(w)
      PROVE  LockInv'
  <2>1. PICK old \in SUBSET Items :
          LET cleaned == CleanupStuckOutbox(old)
              batch   == {i \in Items : cleaned[i] = "pending" /\ track[i] = "batch"}
          IN  \/ BeginLoop(w, OldestOf(batch, BatchLimit), cleaned, "none")
              \/ UNCHANGED sessions
    BY <1>2 DEF PublishBatchQueue
  <2>2. \A S \in SUBSET Items : OldestOf(S, BatchLimit) \in SUBSET Items
    BY DEF OldestOf
  <2>3. lock' = lock /\ w \in Publishers
    BY <1>2 DEF PublishBatchQueue, Publishers
  <2>4. CASE UNCHANGED sessions
    BY <2>3, <2>4 DEF LockInv, LoadedHasItem, SendsSerialised
  <2>5. QED BY <2>1, <2>2, <2>3, <2>4, BeginLoopLock
<1>3. ASSUME NEW w \in Workers, NEW i \in Items, FastRouting(w, i)
      PROVE  LockInv'
  BY <1>3, BeginLoopLock DEF FastRouting, Publishers
<1>4. ASSUME NEW s \in Scripts, RetryPublish(s)
      PROVE  LockInv'
  <2>1. lock' = lock /\ s \in Publishers
    BY <1>4 DEF RetryPublish, Publishers
  <2>2. CASE UNCHANGED sessions
    BY <2>1, <2>2 DEF LockInv, LoadedHasItem, SendsSerialised
  <2>3. QED BY <1>4, <2>1, <2>2, BeginLoopLock DEF RetryPublish
<1>5. ASSUME NEW p \in Publishers, Abort(p)
      PROVE  LockInv'
  BY <1>5, RollbackLock DEF Abort
<1>6. CASE ReconcileUnknownOutbox
  BY <1>6 DEF ReconcileUnknownOutbox, LockInv, LoadedHasItem, SendsSerialised
<1>7. CASE SwitchMode
  BY <1>7 DEF SwitchMode, LockInv, LoadedHasItem, SendsSerialised
<1>10. ASSUME NEW i \in Items, StatusRewritten(i)
       PROVE  LockInv'
  BY <1>10, OnlyTheCluster DEF LockInv, LoadedHasItem, SendsSerialised
<1>8. CASE UNCHANGED vars
  BY <1>8 DEF vars, LockInv, LoadedHasItem, SendsSerialised
<1>9. QED
  BY <1>1, <1>2, <1>3, <1>4, <1>5, <1>6, <1>7, <1>8, <1>10, ItemStepLock, NextCases

LEMMA LockInvariant == ASSUME OutboxAssumption PROVE Spec => []LockInv
<1>1. Init => LockInv
  BY DEF Init, LockInv, LoadedHasItem, SendsSerialised, Locked
<1>2. TypeOK /\ LockInv /\ [Next]_vars => LockInv'
  BY NextLock, OutboxAssumption
<1>3. QED BY <1>1, <1>2, TypeCorrect, OutboxAssumption, PTL DEF Spec

\* Two sends of one row never overlap: whoever is sending holds the row lock.
THEOREM SendsAreSerialised == ASSUME OutboxAssumption PROVE Spec => []SendsSerialised
<1>1. LockInv => SendsSerialised
  BY DEF LockInv, SendsSerialised
<1>2. QED BY <1>1, LockInvariant, OutboxAssumption, PTL

(***************************************************************************)
(* The ledger.  Two facts support each other: rows are never left in       *)
(* sending or unknown (so cleanup and reconcile change nothing), and the   *)
(* publications of an item are backed by its posts.                        *)
(***************************************************************************)
PubsBacked == \A i \in Items : pubs[i] + InFlight(i) <= posts[i]

LedgerInv == NeverLeftSending /\ PubsBacked

\* At most one session has an unrecorded post of an item: the lock holder.
LEMMA PostedHoldsLock ==
  ASSUME OutboxAssumption, LockInv, NEW p \in Publishers, NEW q \in Publishers,
         pc[p] \in Locked, pc[q] \in Locked, cur[p] = cur[q]
  PROVE  p = q
  BY DEF LockInv, SendsSerialised

\* A step that moves no session into or out of "posted" keeps what is in flight.
LEMMA SameFlight ==
  ASSUME NEW i \in Items,
         \A p \in Publishers : (pc'[p] = "posted" /\ cur'[p] = i) => (pc[p] = "posted" /\ cur[p] = i)
  PROVE  InFlight(i)' <= InFlight(i)
  BY DEF InFlight

LEMMA RollbackFlight ==
  ASSUME TypeOK, NEW p \in Publishers, Rollback(p), NEW i \in Items
  PROVE  InFlight(i)' <= InFlight(i)
  BY SameFlight DEF Rollback, TypeOK

LEMMA CommitItemFlight ==
  ASSUME TypeOK, NEW p \in Publishers, CommitItem(p), NEW i \in Items
  PROVE  InFlight(i)' <= InFlight(i)
  BY SameFlight DEF CommitItem, TypeOK

LEMMA BeginLoopFlight ==
  ASSUME TypeOK, NEW p \in Publishers, NEW S, NEW loaded, NEW known,
         BeginLoop(p, S, loaded, known), NEW i \in Items
  PROVE  InFlight(i)' <= InFlight(i)
  BY SameFlight DEF BeginLoop, TypeOK

\* A step that writes no publication keeps the ledger when posts do not shrink
\* and nothing new is in flight.
LEMMA QuietLedger ==
  ASSUME TypeOK, TypeOK', PubsBacked, pubs' = pubs, posts' = posts,
         \A i \in Items : InFlight(i)' <= InFlight(i)
  PROVE  PubsBacked'
<1> SUFFICES ASSUME NEW i \in Items PROVE pubs'[i] + InFlight(i)' <= posts'[i]
  BY DEF PubsBacked
<1>1. pubs[i] \in Nat /\ posts[i] \in Nat /\ InFlight(i) \in Nat /\ InFlight(i)' \in Nat
  BY DEF TypeOK, InFlight
<1>2. QED BY <1>1 DEF PubsBacked

LEMMA ItemStepLedger ==
  ASSUME OutboxAssumption, TypeOK, TypeOK', LockInv, LedgerInv, NEW p \in Publishers, ItemStep(p)
  PROVE  LedgerInv'
<1> USE DEF rows
<1>1. CASE LoadNext(p)
  <2>1. PubsBacked'
    BY <1>1, BeginLoopFlight, QuietLedger DEF LoadNext, LedgerInv
  <2>2. QED BY <1>1, <2>1 DEF LoadNext, LedgerInv, NeverLeftSending
<1>2. CASE EndLoop(p)
  <2>1. PubsBacked'
    BY <1>2, RollbackFlight, QuietLedger DEF EndLoop, LedgerInv
  <2>2. QED BY <1>2, <2>1 DEF EndLoop, LedgerInv, NeverLeftSending
<1>3. CASE SkipItem(p)
  <2>1. PubsBacked'
    BY <1>3, CommitItemFlight, QuietLedger DEF SkipItem, LedgerInv
  <2>2. QED BY <1>3, <2>1 DEF SkipItem, LedgerInv, NeverLeftSending
<1>4. CASE CancelDuplicate(p)
  <2>1. PubsBacked'
    BY <1>4, CommitItemFlight, QuietLedger DEF CancelDuplicate, LedgerInv
  <2>2. NeverLeftSending'
    BY <1>4 DEF CancelDuplicate, LedgerInv, NeverLeftSending, TypeOK
  <2>3. QED BY <2>1, <2>2 DEF LedgerInv
<1>5. CASE StartSending(p)
  <2>1. \A i \in Items : InFlight(i)' <= InFlight(i)
    BY <1>5, SameFlight DEF StartSending, TypeOK
  <2>2. PubsBacked'
    BY <1>5, <2>1, QuietLedger DEF StartSending, LedgerInv
  <2>3. QED BY <1>5, <2>2 DEF StartSending, LedgerInv, NeverLeftSending
<1>6. CASE SendDelivered(p)
  <2>1. ASSUME NEW i \in Items PROVE pubs'[i] + InFlight(i)' <= posts'[i]
    <3>1. pubs[i] + InFlight(i) <= posts[i] /\ pubs' = pubs /\ pubs[i] \in Nat /\ posts[i] \in Nat
      BY <1>6 DEF SendDelivered, LedgerInv, PubsBacked, TypeOK
    <3>2. CASE cur[p] = i
      <4>1. InFlight(i) = 0
        BY <1>6, <3>2, PostedHoldsLock DEF InFlight, SendDelivered, Locked
      <4>2. posts'[i] = posts[i] + 1
        BY <1>6, <3>2 DEF SendDelivered, TypeOK
      <4>3. InFlight(i)' \in {0, 1}
        BY DEF InFlight
      <4>4. QED BY <3>1, <4>1, <4>2, <4>3
    <3>3. CASE cur[p] # i
      <4>1. InFlight(i)' <= InFlight(i)
        BY <1>6, <3>3, SameFlight DEF SendDelivered, TypeOK
      <4>2. posts'[i] = posts[i] /\ InFlight(i) \in {0, 1} /\ InFlight(i)' \in {0, 1}
        BY <1>6, <3>3 DEF SendDelivered, TypeOK, InFlight
      <4>3. QED BY <3>1, <4>1, <4>2
    <3>4. QED BY <3>2, <3>3
  <2>2. QED BY <1>6, <2>1 DEF SendDelivered, LedgerInv, PubsBacked, NeverLeftSending
<1>7. CASE SendRefused(p)
  <2>1. \A i \in Items : InFlight(i)' <= InFlight(i)
    BY <1>7, SameFlight DEF SendRefused, TypeOK
  <2>2. PubsBacked'
    BY <1>7, <2>1, QuietLedger DEF SendRefused, LedgerInv
  <2>3. QED BY <1>7, <2>2 DEF SendRefused, LedgerInv, NeverLeftSending
<1>8. CASE SendAnswerLost(p)
  <2>1. ASSUME NEW i \in Items PROVE pubs'[i] + InFlight(i)' <= posts'[i]
    <3>1. pubs[i] + InFlight(i) <= posts[i] /\ pubs' = pubs /\ pubs[i] \in Nat /\ posts[i] \in Nat
      BY <1>8 DEF SendAnswerLost, LedgerInv, PubsBacked, TypeOK
    <3>2. InFlight(i)' <= InFlight(i)
      BY <1>8, SameFlight DEF SendAnswerLost, TypeOK
    <3>3. posts'[i] >= posts[i] /\ posts'[i] \in Nat
      BY <1>8, <3>1 DEF SendAnswerLost, TypeOK
    <3>4. InFlight(i) \in {0, 1} /\ InFlight(i)' \in {0, 1}
      BY DEF InFlight
    <3>5. QED BY <3>1, <3>2, <3>3, <3>4
  <2>2. QED BY <1>8, <2>1 DEF SendAnswerLost, LedgerInv, PubsBacked, NeverLeftSending
<1>9. CASE CommitSent(p)
  <2>1. cur[p] \in Items
    BY <1>9 DEF CommitSent, LockInv, SendsSerialised, Locked
  <2>2. ASSUME NEW i \in Items PROVE pubs'[i] + InFlight(i)' <= posts'[i]
    <3>1. pubs[i] + InFlight(i) <= posts[i] /\ posts' = posts /\ pubs[i] \in Nat /\ posts[i] \in Nat
      BY <1>9 DEF CommitSent, LedgerInv, PubsBacked, TypeOK
    <3>2. CASE cur[p] = i
      <4>1. InFlight(i) = 1
        BY <1>9, <3>2 DEF InFlight, CommitSent
      <4>2. InFlight(i)' = 0
        BY <1>9, <3>2, PostedHoldsLock DEF InFlight, CommitSent, CommitItem, TypeOK, Locked, OutboxAssumption
      <4>3. pubs'[i] = pubs[i] + 1
        BY <1>9, <3>2 DEF CommitSent, TypeOK
      <4>4. QED BY <3>1, <4>1, <4>2, <4>3
    <3>3. CASE cur[p] # i
      <4>1. InFlight(i)' <= InFlight(i)
        BY <1>9, CommitItemFlight DEF CommitSent
      <4>2. pubs'[i] = pubs[i] /\ InFlight(i) \in {0, 1} /\ InFlight(i)' \in {0, 1}
        BY <1>9, <3>3 DEF CommitSent, TypeOK, InFlight
      <4>3. QED BY <3>1, <4>1, <4>2
    <3>4. QED BY <3>2, <3>3
  <2>3. NeverLeftSending'
    BY <1>9 DEF CommitSent, LedgerInv, NeverLeftSending, TypeOK
  <2>4. QED BY <2>2, <2>3 DEF LedgerInv, PubsBacked
<1>10. CASE CommitFailed(p)
  <2>1. PubsBacked'
    BY <1>10, CommitItemFlight, QuietLedger DEF CommitFailed, LedgerInv
  <2>2. NeverLeftSending'
    BY <1>10 DEF CommitFailed, LedgerInv, NeverLeftSending, TypeOK
  <2>3. QED BY <2>1, <2>2 DEF LedgerInv
<1>11. QED
  BY <1>1, <1>2, <1>3, <1>4, <1>5, <1>6, <1>7, <1>8, <1>9, <1>10 DEF ItemStep

\* No row is ever in sending or unknown, so the cleanup changes no status.
LEMMA CleanupIsQuiet ==
  ASSUME TypeOK, NeverLeftSending,
         NEW old \in SUBSET {i \in Items : status[i] = "sending" /\ lock[i] = None}
  PROVE  CleanupStuckOutbox(old) = status
<1>1. old = {}
  BY DEF NeverLeftSending
<1>2. QED BY <1>1 DEF CleanupStuckOutbox, TypeOK

LEMMA NextLedger ==
  ASSUME OutboxAssumption, TypeOK, TypeOK', LockInv, LedgerInv, [Next]_vars
  PROVE  LedgerInv'
<1> USE DEF rows, sessions
<1>1. ASSUME NEW w \in Workers, NEW i \in Items, NEW t \in Tracks, EnqueueInitial(w, i, t)
      PROVE  LedgerInv'
  <2>1. PubsBacked'
    BY <1>1 DEF EnqueueInitial, LedgerInv, PubsBacked, InFlight
  <2>2. NeverLeftSending'
    BY <1>1 DEF EnqueueInitial, LedgerInv, NeverLeftSending, TypeOK,
                NewStatus, NoRow
  <2>3. QED BY <2>1, <2>2 DEF LedgerInv
<1>2. ASSUME NEW w \in Workers, PublishBatchQueue(w)
      PROVE  LedgerInv'
  <2>1. PICK old \in SUBSET {i \in Items : status[i] = "sending" /\ lock[i] = None} :
          LET cleaned == CleanupStuckOutbox(old)
              batch   == {i \in Items : cleaned[i] = "pending" /\ track[i] = "batch"}
          IN  /\ status' = cleaned
              /\ \/ BeginLoop(w, OldestOf(batch, BatchLimit), cleaned, "none")
                 \/ UNCHANGED sessions
    BY <1>2 DEF PublishBatchQueue
  <2>2. status' = status
    BY <2>1, CleanupIsQuiet DEF LedgerInv
  <2>3. w \in Publishers
    BY DEF Publishers
  <2>4. \A i \in Items : InFlight(i)' <= InFlight(i)
    <3>1. CASE UNCHANGED sessions
      BY <3>1, SameFlight
    <3>2. QED BY <2>1, <2>3, <3>1, BeginLoopFlight
  <2>5. PubsBacked'
    BY <1>2, <2>4, QuietLedger DEF PublishBatchQueue, LedgerInv
  <2>6. QED BY <1>2, <2>2, <2>5
         DEF PublishBatchQueue, LedgerInv, NeverLeftSending
<1>3. ASSUME NEW w \in Workers, NEW i \in Items, FastRouting(w, i)
      PROVE  LedgerInv'
  <2>1. PubsBacked'
    BY <1>3, BeginLoopFlight, QuietLedger DEF FastRouting, LedgerInv, Publishers
  <2>2. QED BY <1>3, <2>1 DEF FastRouting, LedgerInv, NeverLeftSending
<1>4. ASSUME NEW s \in Scripts, RetryPublish(s)
      PROVE  LedgerInv'
  <2>1. s \in Publishers
    BY DEF Publishers
  <2>2. \A i \in Items : InFlight(i)' <= InFlight(i)
    <3>1. CASE UNCHANGED sessions
      BY <3>1, SameFlight
    <3>2. QED BY <1>4, <2>1, <3>1, BeginLoopFlight DEF RetryPublish
  <2>3. PubsBacked'
    BY <1>4, <2>2, QuietLedger DEF RetryPublish, LedgerInv
  <2>4. NeverLeftSending'
    BY <1>4 DEF RetryPublish, LedgerInv, NeverLeftSending, TypeOK
  <2>5. QED BY <2>3, <2>4 DEF LedgerInv
<1>5. ASSUME NEW p \in Publishers, Abort(p)
      PROVE  LedgerInv'
  <2>1. PubsBacked'
    BY <1>5, RollbackFlight, QuietLedger DEF Abort, LedgerInv
  <2>2. QED BY <1>5, <2>1 DEF Abort, LedgerInv, NeverLeftSending
<1>6. CASE ReconcileUnknownOutbox
  <2>1. PICK matched \in SUBSET {i \in Items : status[i] = "unknown" /\ posts[i] > 0 /\ lock[i] = None} :
          /\ status' = [i \in Items |-> IF i \in matched THEN "sent" ELSE status[i]]
          /\ pubs'   = [i \in Items |-> IF i \in matched THEN pubs[i] + 1 ELSE pubs[i]]
          /\ UNCHANGED <<mode, track, created, cluster, posts, lock, sessions, faults>>
    BY <1>6 DEF ReconcileUnknownOutbox
  <2>2. matched = {}
    BY DEF LedgerInv, NeverLeftSending
  <2>3. status' = status /\ pubs' = pubs
    BY <2>1, <2>2 DEF TypeOK
  <2>4. QED BY <2>1, <2>3
         DEF LedgerInv, PubsBacked, NeverLeftSending, InFlight
<1>7. CASE SwitchMode
  BY <1>7 DEF SwitchMode, LedgerInv, PubsBacked, NeverLeftSending, InFlight
<1>10. ASSUME NEW i \in Items, StatusRewritten(i)
       PROVE  LedgerInv'
  BY <1>10, OnlyTheCluster DEF LedgerInv, PubsBacked, NeverLeftSending, InFlight
<1>8. CASE UNCHANGED vars
  BY <1>8 DEF vars, LedgerInv, PubsBacked, NeverLeftSending, InFlight
<1>9. QED
  BY <1>1, <1>2, <1>3, <1>4, <1>5, <1>6, <1>7, <1>8, <1>10, ItemStepLedger, NextCases

LEMMA LedgerInvariant == ASSUME OutboxAssumption PROVE Spec => []LedgerInv
<1>1. Init => LedgerInv
  BY DEF Init, LedgerInv, PubsBacked, NeverLeftSending, InFlight
<1>2. TypeOK /\ TypeOK' /\ LockInv /\ LedgerInv /\ [Next]_vars => LedgerInv'
  BY NextLedger, OutboxAssumption
<1>3. QED BY <1>1, <1>2, TypeCorrect, LockInvariant, OutboxAssumption, PTL DEF Spec

(***************************************************************************)
(* The other direction: what the channel shows and the ledger does not.    *)
(***************************************************************************)
LossesNeedFaults == Total(Unrecorded, Items) <= faults

\* A step that changes one session, which has no unrecorded post of i: what is
\* in flight stays.
LEMMA OthersFlight ==
  ASSUME TypeOK, NEW p \in Publishers, NEW i \in Items,
         \A q \in Publishers \ {p} : pc'[q] = pc[q] /\ cur'[q] = cur[q],
         pc[p] # "posted" \/ cur[p] # i
  PROVE  InFlight(i)' >= InFlight(i)
<1>1. CASE \E q \in Publishers : pc[q] = "posted" /\ cur[q] = i
  <2>1. \E q \in Publishers : pc'[q] = "posted" /\ cur'[q] = i
    BY <1>1
  <2>2. InFlight(i) = 1 /\ InFlight(i)' = 1
    BY <1>1, <2>1 DEF InFlight
  <2>3. QED BY <2>2
<1>2. CASE ~ \E q \in Publishers : pc[q] = "posted" /\ cur[q] = i
  <2>1. InFlight(i) = 0 /\ InFlight(i)' \in {0, 1}
    BY <1>2 DEF InFlight
  <2>2. QED BY <2>1
<1>3. QED BY <1>1, <1>2

\* A step that loses at most d posts of item k and counts d faults.
LEMMA LossStep ==
  ASSUME OutboxAssumption, TypeOK, TypeOK', LossesNeedFaults, NEW k, NEW d \in Nat,
         \A i \in Items :
           posts'[i] - pubs'[i] - InFlight(i)' <=
             posts[i] - pubs[i] - InFlight(i) + (IF i = k THEN d ELSE 0),
         faults + d <= faults'
  PROVE  LossesNeedFaults'
<1>1. PICK f, g : f = Unrecorded /\ g = Unrecorded'
  OBVIOUS
<1>2. \A i \in Items : f[i] \in Int /\ g[i] \in Int
  BY <1>1 DEF Unrecorded, TypeOK, InFlight
<1>3. \A i \in Items : g[i] <= f[i] + (IF i = k THEN d ELSE 0)
  BY <1>1 DEF Unrecorded
<1>4. IsFiniteSet(Items)
  BY DEF OutboxAssumption
<1>5. Total(g, Items) <= Total(f, Items) + d
  BY <1>2, <1>3, <1>4, TotalGrows
<1>6. Total(f, Items) \in Int /\ Total(g, Items) \in Int
  BY <1>2, <1>4, TotalType
<1>7. Total(f, Items) <= faults /\ faults \in Nat /\ faults' \in Nat
  BY <1>1 DEF LossesNeedFaults, TypeOK
<1>8. Total(g, Items) <= faults'
  BY <1>5, <1>6, <1>7
<1>9. QED BY <1>1, <1>8 DEF LossesNeedFaults

\* A step of a session that has nothing in flight, and posts and records nothing.
LEMMA QuietLoss ==
  ASSUME OutboxAssumption, TypeOK, TypeOK', LossesNeedFaults, NEW p \in Publishers,
         pc[p] # "posted", \A q \in Publishers \ {p} : pc'[q] = pc[q] /\ cur'[q] = cur[q],
         posts' = posts, pubs' = pubs, faults <= faults'
  PROVE  LossesNeedFaults'
<1>1. ASSUME NEW i \in Items
      PROVE  posts'[i] - pubs'[i] - InFlight(i)' <=
               posts[i] - pubs[i] - InFlight(i) + (IF i = None THEN 0 ELSE 0)
  <2>1. InFlight(i)' >= InFlight(i)
    BY OthersFlight
  <2>2. InFlight(i) \in {0, 1} /\ InFlight(i)' \in {0, 1}
    BY DEF InFlight
  <2>3. QED BY <2>1, <2>2 DEF TypeOK
<1>2. faults + 0 <= faults'
  BY DEF TypeOK
<1>3. QED BY <1>1, <1>2, LossStep

LEMMA ItemStepLoss ==
  ASSUME OutboxAssumption, TypeOK, TypeOK', LockInv, LossesNeedFaults,
         NEW p \in Publishers, ItemStep(p)
  PROVE  LossesNeedFaults'
<1> USE DEF rows
<1>1. \A q \in Publishers \ {p} : pc'[q] = pc[q] /\ cur'[q] = cur[q]
  BY DEF ItemStep, LoadNext, EndLoop, SkipItem, CancelDuplicate, StartSending, SendDelivered,
         SendRefused, SendAnswerLost, CommitSent, CommitFailed, BeginLoop, Rollback, CommitItem,
         TypeOK
<1>2. ASSUME NEW i \in Items
      PROVE  /\ InFlight(i) \in {0, 1} /\ InFlight(i)' \in {0, 1}
             /\ posts[i] \in Nat /\ pubs[i] \in Nat
             /\ (pc[p] # "posted" \/ cur[p] # i) => InFlight(i)' >= InFlight(i)
  BY <1>1, OthersFlight DEF InFlight, TypeOK
<1>3. CASE \/ LoadNext(p) \/ EndLoop(p) \/ SkipItem(p) \/ CancelDuplicate(p)
           \/ StartSending(p) \/ SendRefused(p) \/ CommitFailed(p)
  <2>1. pc[p] # "posted" /\ posts' = posts /\ pubs' = pubs /\ faults <= faults'
    BY <1>3 DEF LoadNext, EndLoop, SkipItem, CancelDuplicate, StartSending, SendRefused,
                CommitFailed, OutboxLock, TypeOK
  <2>2. QED BY <1>1, <2>1, QuietLoss
<1>4. CASE SendDelivered(p)
  <2>1. cur[p] \in Items /\ pc[p] = "sending" /\ pubs' = pubs /\ faults' = faults
    BY <1>4 DEF SendDelivered, LockInv, SendsSerialised, Locked
  <2>2. ASSUME NEW i \in Items, i = cur[p] PROVE InFlight(i) = 0
    BY <2>1, <2>2, PostedHoldsLock DEF InFlight, Locked
  <2>3. ASSUME NEW i \in Items, i = cur[p] PROVE InFlight(i)' = 1
    BY <1>4, <2>1, <2>3 DEF SendDelivered, InFlight, TypeOK
  <2>4. ASSUME NEW i \in Items
        PROVE  posts'[i] - pubs'[i] - InFlight(i)' <=
                 posts[i] - pubs[i] - InFlight(i) + (IF i = None THEN 0 ELSE 0)
    <3>1. CASE i = cur[p]
      <4>1. posts'[i] = posts[i] + 1
        BY <1>4, <3>1 DEF SendDelivered, TypeOK
      <4>2. InFlight(i) = 0 /\ InFlight(i)' = 1
        BY <2>2, <2>3, <3>1
      <4>3. QED BY <1>2, <2>1, <4>1, <4>2
    <3>2. CASE i # cur[p]
      <4>1. posts'[i] = posts[i]
        BY <1>4, <3>2 DEF SendDelivered, TypeOK
      <4>2. QED BY <1>2, <2>1, <3>2, <4>1
    <3>3. QED BY <3>1, <3>2
  <2>5. faults + 0 <= faults'
    BY <2>1 DEF TypeOK
  <2>6. QED BY <2>4, <2>5, LossStep
<1>5. CASE SendAnswerLost(p)
  <2>1. pc[p] = "sending" /\ pubs' = pubs /\ faults' = faults + 1
    BY <1>5 DEF SendAnswerLost
  <2>2. ASSUME NEW i \in Items
        PROVE  posts'[i] - pubs'[i] - InFlight(i)' <=
                 posts[i] - pubs[i] - InFlight(i) + (IF i = cur[p] THEN 1 ELSE 0)
    <3>1. posts'[i] = posts[i] + (IF i = cur[p] THEN 1 ELSE 0)
      BY <1>5 DEF SendAnswerLost, TypeOK
    <3>2. QED BY <1>2, <2>1, <3>1
  <2>3. faults + 1 <= faults'
    BY <2>1 DEF TypeOK
  <2>4. QED BY <2>2, <2>3, LossStep
<1>6. CASE CommitSent(p)
  <2>1. cur[p] \in Items /\ pc[p] = "posted" /\ posts' = posts /\ faults' = faults
    BY <1>6 DEF CommitSent, LockInv, SendsSerialised, Locked
  <2>2. InFlight(cur[p]) = 1
    BY <2>1 DEF InFlight
  <2>3. ASSUME NEW i \in Items
        PROVE  posts'[i] - pubs'[i] - InFlight(i)' <=
                 posts[i] - pubs[i] - InFlight(i) + (IF i = None THEN 0 ELSE 0)
    <3>1. CASE i = cur[p]
      <4>1. pubs'[i] = pubs[i] + 1 /\ InFlight(i) = 1
        BY <1>6, <2>2, <3>1 DEF CommitSent, TypeOK
      <4>2. QED BY <1>2, <2>1, <4>1
    <3>2. CASE i # cur[p]
      <4>1. pubs'[i] = pubs[i]
        BY <1>6, <3>2 DEF CommitSent, TypeOK
      <4>2. QED BY <1>2, <2>1, <3>2, <4>1
    <3>3. QED BY <3>1, <3>2
  <2>4. faults + 0 <= faults'
    BY <2>1 DEF TypeOK
  <2>5. QED BY <2>3, <2>4, LossStep
<1>7. QED BY <1>3, <1>4, <1>5, <1>6 DEF ItemStep

LEMMA NextLoss ==
  ASSUME OutboxAssumption, TypeOK, TypeOK', LockInv, LedgerInv, LossesNeedFaults, [Next]_vars
  PROVE  LossesNeedFaults'
<1> USE DEF rows, sessions
<1>1. ASSUME NEW w \in Workers, NEW i \in Items, NEW t \in Tracks, EnqueueInitial(w, i, t)
      PROVE  LossesNeedFaults'
  BY <1>1, QuietLoss DEF EnqueueInitial, Publishers, TypeOK
<1>2. ASSUME NEW w \in Workers, PublishBatchQueue(w)
      PROVE  LossesNeedFaults'
  <2>1. w \in Publishers /\ pc[w] = "idle" /\ posts' = posts /\ pubs' = pubs /\ faults' = faults
    BY <1>2 DEF PublishBatchQueue, Publishers
  <2>2. UNCHANGED sessions \/ \E S, loaded, known : BeginLoop(w, S, loaded, known)
    BY <1>2 DEF PublishBatchQueue
  <2>3. \A q \in Publishers \ {w} : pc'[q] = pc[q] /\ cur'[q] = cur[q]
    BY <2>1, <2>2 DEF BeginLoop, TypeOK
  <2>4. QED BY <2>1, <2>3, QuietLoss DEF TypeOK
<1>3. ASSUME NEW w \in Workers, NEW i \in Items, FastRouting(w, i)
      PROVE  LossesNeedFaults'
  BY <1>3, QuietLoss DEF FastRouting, BeginLoop, Publishers, TypeOK
<1>4. ASSUME NEW s \in Scripts, RetryPublish(s)
      PROVE  LossesNeedFaults'
  <2>1. s \in Publishers /\ pc[s] = "idle" /\ posts' = posts /\ pubs' = pubs /\ faults' = faults
    BY <1>4 DEF RetryPublish, Publishers
  <2>2. UNCHANGED sessions \/ \E S, loaded, known : BeginLoop(s, S, loaded, known)
    BY <1>4 DEF RetryPublish
  <2>3. \A q \in Publishers \ {s} : pc'[q] = pc[q] /\ cur'[q] = cur[q]
    BY <2>1, <2>2 DEF BeginLoop, TypeOK
  <2>4. QED BY <2>1, <2>3, QuietLoss DEF TypeOK
<1>5. ASSUME NEW p \in Publishers, Abort(p)
      PROVE  LossesNeedFaults'
  <2>1. posts' = posts /\ pubs' = pubs /\ faults' = faults + 1
    BY <1>5 DEF Abort
  <2>2. \A q \in Publishers \ {p} : pc'[q] = pc[q] /\ cur'[q] = cur[q]
    BY <1>5 DEF Abort, Rollback, TypeOK
  <2>3. ASSUME NEW i \in Items
        PROVE  posts'[i] - pubs'[i] - InFlight(i)' <=
                 posts[i] - pubs[i] - InFlight(i) + (IF i = cur[p] THEN 1 ELSE 0)
    <3>1. InFlight(i) \in {0, 1} /\ InFlight(i)' \in {0, 1} /\ posts[i] \in Nat /\ pubs[i] \in Nat
      BY DEF InFlight, TypeOK
    <3>2. cur[p] # i => InFlight(i)' >= InFlight(i)
      BY <2>2, OthersFlight
    <3>3. QED BY <2>1, <3>1, <3>2
  <2>4. faults + 1 <= faults'
    BY <2>1 DEF TypeOK
  <2>5. QED BY <2>3, <2>4, LossStep
<1>6. ASSUME UNCHANGED <<pc, cur, posts, pubs, faults>>
      PROVE  LossesNeedFaults'
  <2>1. Unrecorded' = Unrecorded
    BY <1>6 DEF Unrecorded, InFlight
  <2>2. PICK f : f = Unrecorded /\ f = Unrecorded'
    BY <2>1
  <2>3. QED BY <1>6, <2>2 DEF LossesNeedFaults
<1>7. CASE ReconcileUnknownOutbox
  <2>1. PICK matched \in SUBSET {i \in Items : status[i] = "unknown" /\ posts[i] > 0 /\ lock[i] = None} :
          /\ pubs' = [i \in Items |-> IF i \in matched THEN pubs[i] + 1 ELSE pubs[i]]
          /\ UNCHANGED <<posts, sessions, faults>>
    BY <1>7 DEF ReconcileUnknownOutbox
  <2>2. matched = {}
    BY DEF LedgerInv, NeverLeftSending
  <2>3. pubs' = pubs
    BY <2>1, <2>2 DEF TypeOK
  <2>4. QED BY <1>6, <2>1, <2>3
<1>8. ASSUME SwitchMode \/ (\E i \in Items : StatusRewritten(i)) \/ UNCHANGED vars
      PROVE  LossesNeedFaults'
  BY <1>6, <1>8, OnlyTheCluster DEF SwitchMode, vars
<1>9. QED BY <1>1, <1>2, <1>3, <1>4, <1>5, <1>7, <1>8, ItemStepLoss, NextCases

\* The ledger never claims a post the channel does not show, every post about to
\* be recorded is one more than those recorded, and of the posts no publication
\* records each took a fault of its own: for any number of sessions, however
\* they overlap, a record is lost only by a crash or a lost answer.
THEOREM LedgerIsBacked == ASSUME OutboxAssumption PROVE Spec => []LedgerBacked
<1>1. Init => LossesNeedFaults
  <2> SUFFICES ASSUME Init PROVE LossesNeedFaults
    OBVIOUS
  <2> DEFINE f == Unrecorded
  <2>1. PICK lo \in Int : lo = 0
    OBVIOUS
  <2>2. \A i \in Items : f[i] \in Int /\ lo <= f[i] /\ f[i] <= lo
    BY <2>1 DEF Init, Unrecorded, InFlight
  <2> HIDE DEF f
  <2>3. IsFiniteSet(Items) /\ Cardinality(Items) \in Nat
    BY FS_CardinalityType, OutboxAssumption DEF OutboxAssumption
  <2>4. Total(f, Items) \in Int /\ Total(f, Items) <= lo * Cardinality(Items)
    BY <2>2, <2>3, TotalBounds
  <2>5. Total(f, Items) <= 0
    BY <2>1, <2>3, <2>4
  <2>6. QED BY <2>5 DEF f, Init, LossesNeedFaults
<1>2. TypeOK /\ TypeOK' /\ LockInv /\ LedgerInv /\ LossesNeedFaults /\ [Next]_vars
        => LossesNeedFaults'
  BY NextLoss, OutboxAssumption
<1>3. LedgerInv /\ LossesNeedFaults => LedgerBacked
  BY DEF LedgerInv, PubsBacked, LossesNeedFaults, Total, LedgerBacked
<1>4. QED
  BY <1>1, <1>2, <1>3, TypeCorrect, LockInvariant, LedgerInvariant, OutboxAssumption, PTL DEF Spec

\* No crash, refusal or retry ever leaves a row in sending or unknown: the
\* cleanup and the reconcile script have nothing to work on.
THEOREM RecoveryNeverEngages == ASSUME OutboxAssumption PROVE Spec => []NeverLeftSending
<1>1. LedgerInv => NeverLeftSending
  BY DEF LedgerInv
<1>2. QED BY <1>1, LedgerInvariant, OutboxAssumption, PTL

(***************************************************************************)
(* Dry run: sessions begin in live mode only and the mode changes between  *)
(* sessions only, so in a dry run every session is idle.                   *)
(***************************************************************************)
DryRunIsIdle == mode = "dry_run" => \A p \in Publishers : pc[p] = "idle"

LEMMA DryRunInit == ASSUME Init PROVE DryRunIsIdle
  BY DEF Init, DryRunIsIdle

\* A session that is not idle shows that the mode is live.
LEMMA RunningIsLive ==
  ASSUME TypeOK, DryRunIsIdle, NEW p \in Publishers, pc[p] # "idle"
  PROVE  mode = "live"
  BY DEF TypeOK, DryRunIsIdle

LEMMA DryRunStep ==
  ASSUME TypeOK, DryRunIsIdle, [Next]_vars
  PROVE  DryRunIsIdle' /\ (mode = "dry_run" => UNCHANGED <<posts, pubs>>)
<1>1. ASSUME NEW w \in Workers, NEW i \in Items, NEW t \in Tracks, EnqueueInitial(w, i, t)
      PROVE  UNCHANGED <<mode, pc, posts, pubs>>
  BY <1>1 DEF EnqueueInitial, sessions
<1>2. ASSUME NEW w \in Workers, PublishBatchQueue(w)
      PROVE  mode = "live" /\ mode' = mode
  BY <1>2 DEF PublishBatchQueue
<1>3. ASSUME NEW w \in Workers, NEW i \in Items, FastRouting(w, i)
      PROVE  mode = "live" /\ mode' = mode
  BY <1>3 DEF FastRouting, rows
<1>4. ASSUME NEW s \in Scripts, RetryPublish(s)
      PROVE  mode' = mode /\ (mode = "live" \/ UNCHANGED <<pc, posts, pubs>>)
  BY <1>4 DEF RetryPublish, sessions
<1>5. ASSUME NEW p \in Publishers, ItemStep(p)
      PROVE  pc[p] # "idle" /\ mode' = mode
  BY <1>5 DEF ItemStep, LoadNext, EndLoop, SkipItem, CancelDuplicate, StartSending, OutboxLock,
       SendDelivered, SendRefused, SendAnswerLost, CommitSent, CommitFailed, rows
<1>6. ASSUME NEW p \in Publishers, Abort(p)
      PROVE  pc[p] # "idle" /\ mode' = mode
  BY <1>6 DEF Abort, rows
<1>7. ASSUME ReconcileUnknownOutbox
      PROVE  mode = "live" /\ mode' = mode
  BY <1>7 DEF ReconcileUnknownOutbox
<1>8. ASSUME SwitchMode
      PROVE  UNCHANGED <<pc, posts, pubs>> /\ \A p \in Publishers : pc[p] = "idle"
  BY <1>8 DEF SwitchMode, sessions
<1>13. ASSUME NEW i \in Items, StatusRewritten(i)
       PROVE  UNCHANGED <<mode, pc, posts, pubs>>
  BY <1>13, OnlyTheCluster
<1>9. CASE UNCHANGED vars
  BY <1>9 DEF vars, DryRunIsIdle
<1>10. CASE mode = "live" /\ mode' = mode
  BY <1>10 DEF DryRunIsIdle
<1>11. CASE UNCHANGED <<pc, posts, pubs>> /\ (mode' = mode \/ \A p \in Publishers : pc[p] = "idle")
  BY <1>11 DEF DryRunIsIdle
<1>12. QED
  BY <1>1, <1>2, <1>3, <1>4, <1>5, <1>6, <1>7, <1>8, <1>9, <1>10, <1>11, <1>13,
     RunningIsLive, NextCases

\* In dry-run mode no step of any worker, script or operator posts to the
\* channel or writes a publication.
THEOREM DryRunIsSilent == ASSUME OutboxAssumption PROVE Spec => DryRunNeverSends
<1>1. TypeOK /\ DryRunIsIdle /\ [Next]_vars =>
        DryRunIsIdle' /\ [mode = "dry_run" => UNCHANGED <<posts, pubs>>]_vars
  BY DryRunStep
<1>2. QED
  BY <1>1, DryRunInit, TypeCorrect, OutboxAssumption, PTL DEF Spec, DryRunNeverSends

(***************************************************************************)
(* Outbox implements PublishOnce when one session publishes, no session    *)
(* dies and Telegram's answers arrive: each cluster is then posted at most *)
(* once and each post recorded once, however many sends are refused and    *)
(* retried.  The run OutboxTwoSessions shows that the first of these       *)
(* hypotheses cannot be dropped.                                           *)
(***************************************************************************)
Alone == /\ \E p : Publishers = {p}
         /\ ~ Crashes
         /\ ~ LostAnswers

\* Posts and publications follow the row's status; the only session's copy of
\* the row is fresh, and it never sends a row that is already sent.
PostsFollowStatus ==
  \A i \in Items : posts[i] = IF status[i] = "sent" THEN 1 ELSE InFlight(i)

PubsFollowStatus ==
  \A i \in Items : pubs[i] = IF status[i] = "sent" THEN 1 ELSE 0

CopyIsFresh ==
  \A p \in Publishers :
    /\ pc[p] = "loaded" => copy[p] = status[cur[p]]
    /\ pc[p] \in Locked => status[cur[p]] # "sent"

AloneInv == PostsFollowStatus /\ PubsFollowStatus /\ CopyIsFresh

\* The facts about a reachable state that the induction step may use.
Known == TypeOK /\ LockInv /\ LedgerInv

LEMMA BeginLoopAlone ==
  ASSUME OutboxAssumption, Alone, Known, AloneInv, NEW p \in Publishers,
         NEW S \in SUBSET Items, NEW known, BeginLoop(p, S, status', known), pc[p] \in {"idle", "next"},
         status' \in [Items -> Statuses],
         \A i \in Items : status'[i] = "sent" <=> status[i] = "sent",
         posts' = posts, pubs' = pubs
  PROVE  AloneInv'
<1>1. Publishers = {p}
  BY DEF Alone
<1>2. CopyIsFresh'
  BY <1>1 DEF BeginLoop, CopyIsFresh, Known, TypeOK, Locked
<1>3. \A i \in Items : InFlight(i) = 0 /\ InFlight(i)' = 0
  BY <1>1 DEF BeginLoop, InFlight, Known, TypeOK
<1>4. QED BY <1>2, <1>3 DEF AloneInv, PostsFollowStatus, PubsFollowStatus

\* A commit after which the item is sent exactly when it was.
LEMMA CommitItemAlone ==
  ASSUME OutboxAssumption, Alone, Known, AloneInv, NEW p \in Publishers, CommitItem(p),
         pc[p] # "posted", posts' = posts, pubs' = pubs,
         \A i \in Items : status'[i] = "sent" <=> status[i] = "sent"
  PROVE  AloneInv'
<1>1. Publishers = {p}
  BY DEF Alone
<1>2. CopyIsFresh'
  BY <1>1 DEF CommitItem, CopyIsFresh, Known, TypeOK, Locked
<1>3. \A i \in Items : InFlight(i) = 0 /\ InFlight(i)' = 0
  BY <1>1 DEF CommitItem, InFlight, Known, TypeOK
<1>4. QED BY <1>2, <1>3 DEF AloneInv, PostsFollowStatus, PubsFollowStatus

LEMMA ItemStepAlone ==
  ASSUME OutboxAssumption, Alone, Known, AloneInv, NEW p \in Publishers, ItemStep(p)
  PROVE  AloneInv' /\ [Once!Next]_<<posts, pubs>>
<1> USE DEF rows
<1>0. Publishers = {p}
  BY DEF Alone
<1>1. CASE LoadNext(p)
  BY <1>1, BeginLoopAlone DEF LoadNext, Known, TypeOK
<1>2. CASE EndLoop(p)
  <2>1. CopyIsFresh'
    BY <1>0, <1>2 DEF EndLoop, Rollback, CopyIsFresh, Known, TypeOK, Locked
  <2>2. \A i \in Items : InFlight(i) = 0 /\ InFlight(i)' = 0
    BY <1>0, <1>2 DEF EndLoop, Rollback, InFlight, Known, TypeOK
  <2>3. QED BY <1>2, <2>1, <2>2 DEF EndLoop, AloneInv, PostsFollowStatus, PubsFollowStatus
<1>3. CASE SkipItem(p)
  BY <1>3, CommitItemAlone DEF SkipItem, OutboxLock
<1>4. CASE CancelDuplicate(p)
  <2>1. status[cur[p]] # "sent"
    BY <1>4 DEF CancelDuplicate, OutboxLock, Sendable, AloneInv, CopyIsFresh
  <2>2. \A i \in Items : status'[i] = "sent" <=> status[i] = "sent"
    BY <1>4, <2>1 DEF CancelDuplicate, Known, TypeOK
  <2>3. QED BY <1>4, <2>2, CommitItemAlone DEF CancelDuplicate, OutboxLock
<1>5. CASE StartSending(p)
  <2>1. CopyIsFresh'
    BY <1>0, <1>5 DEF StartSending, OutboxLock, Sendable, AloneInv, CopyIsFresh, Known, TypeOK,
                      Locked
  <2>2. \A i \in Items : InFlight(i) = 0 /\ InFlight(i)' = 0
    BY <1>0, <1>5 DEF StartSending, OutboxLock, InFlight, Known, TypeOK
  <2>3. QED BY <1>5, <2>1, <2>2 DEF StartSending, AloneInv, PostsFollowStatus, PubsFollowStatus
<1>6. CASE SendDelivered(p)
  <2>1. cur[p] \in Items /\ status[cur[p]] # "sent" /\ status' = status /\ pubs' = pubs
    BY <1>6 DEF SendDelivered, Known, LockInv, SendsSerialised, AloneInv, CopyIsFresh, Locked
  <2>2. InFlight(cur[p]) = 0 /\ InFlight(cur[p])' = 1
    BY <1>0, <1>6 DEF SendDelivered, InFlight, Known, TypeOK
  <2>3. posts[cur[p]] = 0 /\ posts' = [posts EXCEPT ![cur[p]] = 1]
    <3>1. posts[cur[p]] = 0
      BY <2>1, <2>2 DEF AloneInv, PostsFollowStatus
    <3>2. posts' = [posts EXCEPT ![cur[p]] = posts[cur[p]] + 1]
      BY <1>6 DEF SendDelivered
    <3>3. posts[cur[p]] + 1 = 1
      BY <3>1
    <3>4. QED BY <3>1, <3>2, <3>3, Zenon
  <2>4. \A i \in Items : i # cur[p] => InFlight(i)' = InFlight(i)
    BY <1>0, <1>6 DEF SendDelivered, InFlight, Known, TypeOK
  <2>5. CopyIsFresh'
    BY <1>0, <1>6, <2>1 DEF SendDelivered, CopyIsFresh, Known, TypeOK, Locked
  <2>6. PostsFollowStatus'
    <3> SUFFICES ASSUME NEW i \in Items
                 PROVE  posts'[i] = IF status'[i] = "sent" THEN 1 ELSE InFlight(i)'
      BY DEF PostsFollowStatus
    <3>1. posts[i] = IF status[i] = "sent" THEN 1 ELSE InFlight(i)
      BY DEF AloneInv, PostsFollowStatus
    <3>2. CASE i = cur[p]
      <4>1. posts'[cur[p]] = 1 /\ status'[cur[p]] # "sent"
        BY <2>1, <2>3 DEF Known, TypeOK
      <4>2. InFlight(i)' = 1
        BY <1>0, <1>6, <3>2 DEF SendDelivered, InFlight, Known, TypeOK
      <4>3. QED BY <3>2, <4>1, <4>2
    <3>3. CASE i # cur[p]
      <4>1. posts'[i] = posts[i] /\ status'[i] = status[i]
        BY <2>1, <2>3, <3>3 DEF Known, TypeOK
      <4>2. InFlight(i)' = InFlight(i)
        BY <2>4, <3>3
      <4>3. QED BY <3>1, <4>1, <4>2, Zenon
    <3>4. QED BY <3>2, <3>3
  <2>7. PubsFollowStatus'
    BY <2>1 DEF AloneInv, PubsFollowStatus
  <2>8. Once!Post(cur[p])
    BY <2>1, <2>3 DEF Once!Post
  <2>9. QED BY <2>1, <2>5, <2>6, <2>7, <2>8 DEF AloneInv, Once!Next
<1>7. CASE SendRefused(p)
  <2>1. CopyIsFresh'
    BY <1>0, <1>7 DEF SendRefused, AloneInv, CopyIsFresh, Known, TypeOK, Locked
  <2>2. \A i \in Items : InFlight(i) = 0 /\ InFlight(i)' = 0
    BY <1>0, <1>7 DEF SendRefused, InFlight, Known, TypeOK
  <2>3. QED BY <1>7, <2>1, <2>2 DEF SendRefused, AloneInv, PostsFollowStatus, PubsFollowStatus
<1>8. CASE SendAnswerLost(p)
  BY <1>8 DEF SendAnswerLost, Alone
<1>9. CASE CommitSent(p)
  <2>1. cur[p] \in Items /\ status[cur[p]] # "sent" /\ posts' = posts
    BY <1>9 DEF CommitSent, Known, LockInv, SendsSerialised, AloneInv, CopyIsFresh, Locked
  <2>2. InFlight(cur[p]) = 1
    BY <1>9 DEF CommitSent, InFlight
  <2>3. posts[cur[p]] = 1 /\ pubs[cur[p]] = 0 /\ pubs' = [pubs EXCEPT ![cur[p]] = 1]
    <3>1. posts[cur[p]] = 1 /\ pubs[cur[p]] = 0
      BY <2>1, <2>2 DEF AloneInv, PostsFollowStatus, PubsFollowStatus
    <3>2. pubs' = [pubs EXCEPT ![cur[p]] = pubs[cur[p]] + 1]
      BY <1>9 DEF CommitSent
    <3>3. pubs[cur[p]] + 1 = 1
      BY <3>1
    <3>4. QED BY <3>1, <3>2, <3>3, Zenon
  <2>4. \A i \in Items : i # cur[p] => InFlight(i) = 0 /\ InFlight(i)' = 0
    BY <1>0, <1>9 DEF CommitSent, CommitItem, InFlight, Known, TypeOK
  <2>5. CopyIsFresh'
    BY <1>0, <1>9 DEF CommitSent, CommitItem, CopyIsFresh, Known, TypeOK, Locked
  <2>6. status' = [status EXCEPT ![cur[p]] = "sent"]
    BY <1>9 DEF CommitSent
  <2>7. PostsFollowStatus' /\ PubsFollowStatus'
    BY <2>1, <2>3, <2>4, <2>6 DEF AloneInv, PostsFollowStatus, PubsFollowStatus, Known, TypeOK
  <2>8. Once!Record(cur[p])
    BY <2>1, <2>3 DEF Once!Record
  <2>9. QED BY <2>1, <2>5, <2>7, <2>8 DEF AloneInv, Once!Next
<1>10. CASE CommitFailed(p)
  <2>1. status[cur[p]] # "sent"
    BY <1>10 DEF CommitFailed, AloneInv, CopyIsFresh, Locked
  <2>2. \A i \in Items : status'[i] = "sent" <=> status[i] = "sent"
    BY <1>10, <2>1 DEF CommitFailed, Known, TypeOK
  <2>3. QED BY <1>10, <2>2, CommitItemAlone DEF CommitFailed
<1>11. QED
  BY <1>1, <1>2, <1>3, <1>4, <1>5, <1>6, <1>7, <1>8, <1>9, <1>10 DEF ItemStep

LEMMA NextAlone ==
  ASSUME OutboxAssumption, Alone, Known, AloneInv, [Next]_vars
  PROVE  AloneInv' /\ [Once!Next]_<<posts, pubs>>
<1> USE DEF rows, sessions
<1>1. ASSUME NEW w \in Workers, NEW i \in Items, NEW t \in Tracks, EnqueueInitial(w, i, t)
      PROVE  AloneInv' /\ [Once!Next]_<<posts, pubs>>
  <2>1. Publishers = {w} /\ pc[w] = "idle" /\ pc' = pc /\ posts' = posts /\ pubs' = pubs
    BY <1>1 DEF EnqueueInitial, Alone, Publishers
  <2>2. \A j \in Items : status'[j] = "sent" <=> status[j] = "sent"
    BY <1>1 DEF EnqueueInitial, Known, TypeOK, NewStatus, NoRow
  <2>3. CopyIsFresh'
    BY <2>1 DEF CopyIsFresh, Locked
  <2>4. QED BY <1>1, <2>1, <2>2, <2>3
         DEF EnqueueInitial, AloneInv, PostsFollowStatus, PubsFollowStatus, InFlight
<1>2. ASSUME NEW w \in Workers, PublishBatchQueue(w)
      PROVE  AloneInv' /\ [Once!Next]_<<posts, pubs>>
  <2>1. PICK old \in SUBSET {i \in Items : status[i] = "sending" /\ lock[i] = None} :
          LET cleaned == CleanupStuckOutbox(old)
              batch   == {i \in Items : cleaned[i] = "pending" /\ track[i] = "batch"}
          IN  /\ status' = cleaned
              /\ \/ BeginLoop(w, OldestOf(batch, BatchLimit), cleaned, "none")
                 \/ UNCHANGED sessions
    BY <1>2 DEF PublishBatchQueue
  <2>2. status' = status /\ status \in [Items -> Statuses] /\ CleanupStuckOutbox(old) = status
    BY <2>1, CleanupIsQuiet DEF Known, LedgerInv, TypeOK
  <2>3. w \in Publishers /\ pc[w] = "idle" /\ posts' = posts /\ pubs' = pubs
    BY <1>2 DEF PublishBatchQueue, Publishers
  <2>4. CASE UNCHANGED sessions
    BY <2>2, <2>3, <2>4
       DEF AloneInv, PostsFollowStatus, PubsFollowStatus, CopyIsFresh, InFlight
  <2>5. \A S \in SUBSET Items : OldestOf(S, BatchLimit) \in SUBSET Items
    BY DEF OldestOf
  <2>6. CASE \E S \in SUBSET Items : BeginLoop(w, S, status', "none")
    BY <2>2, <2>3, <2>6, BeginLoopAlone
  <2>7. QED BY <2>1, <2>2, <2>4, <2>5, <2>6
<1>3. ASSUME NEW w \in Workers, NEW i \in Items, FastRouting(w, i)
      PROVE  AloneInv' /\ [Once!Next]_<<posts, pubs>>
  BY <1>3, BeginLoopAlone DEF FastRouting, Publishers, Known, TypeOK
<1>4. ASSUME NEW s \in Scripts, RetryPublish(s)
      PROVE  AloneInv' /\ [Once!Next]_<<posts, pubs>>
  <2> DEFINE S == {i \in Items : status'[i] = "pending"}
  <2>1. Publishers = {s} /\ pc[s] = "idle" /\ posts' = posts /\ pubs' = pubs
    BY <1>4 DEF RetryPublish, Alone, Publishers
  <2>2. /\ \A j \in Items : status'[j] = "sent" <=> status[j] = "sent"
        /\ status' \in [Items -> Statuses]
    BY <1>4 DEF RetryPublish, Known, TypeOK, Statuses
  <2>3. CASE UNCHANGED sessions
    <3>1. CopyIsFresh'
      BY <2>1, <2>3 DEF CopyIsFresh, Locked
    <3>2. QED BY <2>1, <2>2, <2>3, <3>1
           DEF AloneInv, PostsFollowStatus, PubsFollowStatus, InFlight
  <2>4. CASE BeginLoop(s, S, status', "none")
    BY <2>1, <2>2, <2>4, BeginLoopAlone
  <2>5. QED BY <1>4, <2>3, <2>4 DEF RetryPublish
<1>5. ASSUME NEW p \in Publishers, Crash(p) \/ DeadlockAborts
      PROVE  AloneInv' /\ [Once!Next]_<<posts, pubs>>
  BY <1>5 DEF Crash, DeadlockAborts, Deadlocked, Alone
<1>6. CASE ReconcileUnknownOutbox
  <2>1. PICK matched \in SUBSET {i \in Items : status[i] = "unknown" /\ posts[i] > 0 /\ lock[i] = None} :
          /\ status' = [i \in Items |-> IF i \in matched THEN "sent" ELSE status[i]]
          /\ pubs'   = [i \in Items |-> IF i \in matched THEN pubs[i] + 1 ELSE pubs[i]]
          /\ UNCHANGED <<mode, track, created, cluster, posts, lock, sessions, faults>>
    BY <1>6 DEF ReconcileUnknownOutbox
  <2>2. matched = {}
    BY DEF Known, LedgerInv, NeverLeftSending
  <2>3. status' = status /\ pubs' = pubs
    BY <2>1, <2>2 DEF Known, TypeOK
  <2>4. QED BY <2>1, <2>3
         DEF AloneInv, PostsFollowStatus, PubsFollowStatus, CopyIsFresh, InFlight
<1>7. CASE SwitchMode
  BY <1>7 DEF SwitchMode, AloneInv, PostsFollowStatus, PubsFollowStatus, CopyIsFresh, InFlight
<1>10. ASSUME NEW i \in Items, StatusRewritten(i)
       PROVE  AloneInv' /\ [Once!Next]_<<posts, pubs>>
  BY <1>10, OnlyTheCluster DEF AloneInv, PostsFollowStatus, PubsFollowStatus, CopyIsFresh, InFlight
<1>8. CASE UNCHANGED vars
  BY <1>8 DEF vars, AloneInv, PostsFollowStatus, PubsFollowStatus, CopyIsFresh, InFlight
<1>9. QED
  BY <1>1, <1>2, <1>3, <1>4, <1>5, <1>6, <1>7, <1>8, <1>10, ItemStepAlone
     DEF Next, DeadlockAborts

\* One session, no crash, no lost answer: every behaviour of the outbox is one
\* of PublishOnce.
THEOREM OutboxPublishesOnce ==
  ASSUME OutboxAssumption, Alone PROVE Spec => PublishesOnce
<1>1. Init => AloneInv /\ Once!Init
  BY DEF Init, AloneInv, PostsFollowStatus, PubsFollowStatus, CopyIsFresh, InFlight, Locked,
         Once!Init
<1>2. Known /\ AloneInv /\ [Next]_vars => AloneInv' /\ [Once!Next]_<<posts, pubs>>
  BY NextAlone, OutboxAssumption, Alone
<1>3. Spec => []Known
  BY TypeCorrect, LockInvariant, LedgerInvariant, OutboxAssumption, PTL DEF Known
<1>4. QED BY <1>1, <1>2, <1>3, PTL DEF Spec, PublishesOnce, Once!Spec

SinglePublisher == \E p : Publishers = {p}

-----------------------------------------------------------------------------
(* Repeated posts.  With a single publisher the copy is fresh, crashes or   *)
(* not, so a row that is sent is not sent again: a cluster is posted twice  *)
(* only when a post went unrecorded, which takes a fault.                   *)
SingleInv == PubsFollowStatus /\ CopyIsFresh

\* Posts of each cluster beyond the first.
Repeated == [i \in Items |-> IF posts[i] > 0 THEN posts[i] - 1 ELSE 0]

\* A step that sends nothing and records nothing.
LEMMA QuietSingle ==
  ASSUME SingleInv, CopyIsFresh', pubs' = pubs,
         \A i \in Items : status'[i] = "sent" <=> status[i] = "sent"
  PROVE  SingleInv'
  BY DEF SingleInv, PubsFollowStatus

LEMMA BeginLoopSingle ==
  ASSUME SinglePublisher, TypeOK, NEW p \in Publishers, NEW S \in SUBSET Items,
         NEW known, BeginLoop(p, S, status', known)
  PROVE  CopyIsFresh'
<1>1. Publishers = {p}
  BY DEF SinglePublisher
<1>2. QED BY <1>1 DEF BeginLoop, CopyIsFresh, TypeOK, Locked

\* A session that is neither loaded nor sending has no copy to be stale.
LEMMA AwayIsFresh ==
  ASSUME SinglePublisher, NEW p \in Publishers, pc'[p] \in {"idle", "next"}
  PROVE  CopyIsFresh'
<1>1. Publishers = {p}
  BY DEF SinglePublisher
<1>2. QED BY <1>1 DEF CopyIsFresh, Locked

LEMMA ItemStepSingle ==
  ASSUME OutboxAssumption, SinglePublisher, Known, SingleInv, NEW p \in Publishers, ItemStep(p)
  PROVE  SingleInv'
<1> USE DEF rows
<1>0. Publishers = {p}
  BY DEF SinglePublisher
<1>1. CASE LoadNext(p)
  BY <1>1, BeginLoopSingle, QuietSingle DEF LoadNext, Known, TypeOK
<1>2. CASE EndLoop(p) \/ SkipItem(p)
  <2>1. pc'[p] \in {"idle", "next"}
    BY <1>2 DEF EndLoop, SkipItem, Rollback, CommitItem, Known, TypeOK
  <2>2. QED BY <1>2, <2>1, AwayIsFresh, QuietSingle DEF EndLoop, SkipItem
<1>3. CASE CancelDuplicate(p) \/ CommitFailed(p)
  <2>1. pc'[p] \in {"idle", "next"} /\ pubs' = pubs
    BY <1>3 DEF CancelDuplicate, CommitFailed, CommitItem, Known, TypeOK
  <2>2. status[cur[p]] # "sent"
    BY <1>3 DEF CancelDuplicate, CommitFailed, OutboxLock, Sendable, SingleInv, CopyIsFresh, Locked
  <2>3. \A i \in Items : status'[i] = "sent" <=> status[i] = "sent"
    BY <1>3, <2>2 DEF CancelDuplicate, CommitFailed, Known, TypeOK
  <2>4. QED BY <2>1, <2>3, AwayIsFresh, QuietSingle
<1>4. CASE StartSending(p)
  <2>1. CopyIsFresh'
    BY <1>0, <1>4 DEF StartSending, OutboxLock, Sendable, SingleInv, CopyIsFresh, Known, TypeOK,
                      Locked
  <2>2. QED BY <1>4, <2>1, QuietSingle DEF StartSending
<1>5. CASE SendDelivered(p) \/ SendRefused(p) \/ SendAnswerLost(p)
  <2>1. CopyIsFresh'
    BY <1>0, <1>5 DEF SendDelivered, SendRefused, SendAnswerLost, SingleInv, CopyIsFresh, Known,
                      TypeOK, Locked
  <2>2. status' = status /\ pubs' = pubs
    BY <1>5 DEF SendDelivered, SendRefused, SendAnswerLost
  <2>3. QED BY <2>1, <2>2, QuietSingle
<1>6. CASE CommitSent(p)
  <2>1. pc'[p] \in {"idle", "next"}
    BY <1>6 DEF CommitSent, CommitItem, Known, TypeOK
  <2>2. status[cur[p]] # "sent" /\ cur[p] \in Items
    BY <1>6 DEF CommitSent, SingleInv, CopyIsFresh, Known, LockInv, SendsSerialised, Locked
  <2>3. PubsFollowStatus'
    BY <1>6, <2>2 DEF CommitSent, SingleInv, PubsFollowStatus, Known, TypeOK
  <2>4. QED BY <2>1, <2>3, AwayIsFresh DEF SingleInv
<1>7. QED
  BY <1>1, <1>2, <1>3, <1>4, <1>5, <1>6 DEF ItemStep

LEMMA NextSingle ==
  ASSUME OutboxAssumption, SinglePublisher, Known, SingleInv, [Next]_vars
  PROVE  SingleInv'
<1> USE DEF rows, sessions
<1>1. ASSUME NEW w \in Workers, NEW i \in Items, NEW t \in Tracks, EnqueueInitial(w, i, t)
      PROVE  SingleInv'
  <2>1. w \in Publishers /\ pc'[w] = "idle" /\ pubs' = pubs
    BY <1>1 DEF EnqueueInitial, Publishers
  <2>2. \A j \in Items : status'[j] = "sent" <=> status[j] = "sent"
    BY <1>1 DEF EnqueueInitial, Known, TypeOK, NewStatus, NoRow
  <2>3. QED BY <2>1, <2>2, AwayIsFresh, QuietSingle
<1>2. ASSUME NEW w \in Workers, PublishBatchQueue(w)
      PROVE  SingleInv'
  <2>1. PICK old \in SUBSET {i \in Items : status[i] = "sending" /\ lock[i] = None} :
          LET cleaned == CleanupStuckOutbox(old)
              batch   == {i \in Items : cleaned[i] = "pending" /\ track[i] = "batch"}
          IN  /\ status' = cleaned
              /\ \/ BeginLoop(w, OldestOf(batch, BatchLimit), cleaned, "none")
                 \/ UNCHANGED sessions
    BY <1>2 DEF PublishBatchQueue
  <2>2. status' = status /\ CleanupStuckOutbox(old) = status
    BY <2>1, CleanupIsQuiet DEF Known, LedgerInv
  <2>3. w \in Publishers /\ pc[w] = "idle" /\ pubs' = pubs
    BY <1>2 DEF PublishBatchQueue, Publishers
  <2>4. CopyIsFresh'
    <3>1. CASE UNCHANGED sessions
      BY <2>3, <3>1, AwayIsFresh
    <3>2. \A S \in SUBSET Items : OldestOf(S, BatchLimit) \in SUBSET Items
      BY DEF OldestOf
    <3>3. CASE \E S \in SUBSET Items : BeginLoop(w, S, status', "none")
      BY <2>3, <3>3, BeginLoopSingle DEF Known
    <3>4. QED BY <2>1, <2>2, <3>1, <3>2, <3>3
  <2>5. QED BY <2>2, <2>3, <2>4, QuietSingle
<1>3. ASSUME NEW w \in Workers, NEW i \in Items, FastRouting(w, i)
      PROVE  SingleInv'
  BY <1>3, BeginLoopSingle, QuietSingle DEF FastRouting, Publishers, Known
<1>4. ASSUME NEW s \in Scripts, RetryPublish(s)
      PROVE  SingleInv'
  <2> DEFINE S == {i \in Items : status'[i] = "pending"}
  <2>1. s \in Publishers /\ pc[s] = "idle" /\ pubs' = pubs
    BY <1>4 DEF RetryPublish, Publishers
  <2>2. \A j \in Items : status'[j] = "sent" <=> status[j] = "sent"
    BY <1>4 DEF RetryPublish, Known, TypeOK
  <2>3. UNCHANGED sessions \/ BeginLoop(s, S, status', "none")
    BY <1>4 DEF RetryPublish
  <2>4. CopyIsFresh'
    <3>1. CASE UNCHANGED sessions
      BY <2>1, <3>1, AwayIsFresh
    <3>2. CASE BeginLoop(s, S, status', "none")
      BY <2>1, <3>2, BeginLoopSingle DEF Known
    <3>3. QED BY <2>3, <3>1, <3>2
  <2>5. QED BY <2>1, <2>2, <2>4, QuietSingle
<1>5. ASSUME NEW p \in Publishers, Abort(p)
      PROVE  SingleInv'
  <2>1. pc'[p] = "idle"
    BY <1>5 DEF Abort, Rollback, Known, TypeOK
  <2>2. QED BY <1>5, <2>1, AwayIsFresh, QuietSingle DEF Abort
<1>6. CASE ReconcileUnknownOutbox
  <2>1. PICK matched \in SUBSET {i \in Items : status[i] = "unknown" /\ posts[i] > 0 /\ lock[i] = None} :
          /\ status' = [i \in Items |-> IF i \in matched THEN "sent" ELSE status[i]]
          /\ pubs'   = [i \in Items |-> IF i \in matched THEN pubs[i] + 1 ELSE pubs[i]]
          /\ UNCHANGED sessions
    BY <1>6 DEF ReconcileUnknownOutbox
  <2>2. matched = {}
    BY DEF Known, LedgerInv, NeverLeftSending
  <2>3. status' = status /\ pubs' = pubs
    BY <2>1, <2>2 DEF Known, TypeOK
  <2>4. QED BY <2>1, <2>3 DEF SingleInv, PubsFollowStatus, CopyIsFresh
<1>7. CASE SwitchMode \/ (\E i \in Items : StatusRewritten(i)) \/ UNCHANGED vars
  BY <1>7, OnlyTheCluster DEF SwitchMode, vars, SingleInv, PubsFollowStatus, CopyIsFresh
<1>8. QED
  BY <1>1, <1>2, <1>3, <1>4, <1>5, <1>6, <1>7, ItemStepSingle, NextCases

\* With a single publisher the posts beyond the first of every cluster are,
\* together, at most the faults so far: outbox.py repeats a post only when a
\* crash or a lost answer kept the row from being marked.  (Two publishers need
\* no fault, as the run of OutboxTwoSessions shows.)
THEOREM RepeatsTakeFaults ==
  ASSUME OutboxAssumption, SinglePublisher
  PROVE  Spec => [](MapThenSumSet(LAMBDA i : Repeated[i], Items) <= faults)
<1>1. Init => SingleInv
  BY DEF Init, SingleInv, PubsFollowStatus, CopyIsFresh, Locked
<1>2. Known /\ SingleInv /\ [Next]_vars => SingleInv'
  BY NextSingle, OutboxAssumption, SinglePublisher
<1>3. TypeOK /\ SingleInv /\ LedgerBacked => Total(Repeated, Items) <= faults
  <2> SUFFICES ASSUME TypeOK, SingleInv, LedgerBacked PROVE Total(Repeated, Items) <= faults
    OBVIOUS
  <2> DEFINE f == Unrecorded
             g == Repeated
  <2>1. ASSUME NEW i \in Items PROVE f[i] \in Int /\ g[i] \in Int /\ g[i] <= f[i]
    <3>1. posts[i] \in Nat /\ pubs[i] \in Nat /\ InFlight(i) \in {0, 1}
      BY DEF TypeOK, InFlight
    <3>2. pubs[i] + InFlight(i) <= posts[i]
      BY DEF LedgerBacked
    <3>3. InFlight(i) = 1 => pubs[i] = 0
      BY DEF InFlight, SingleInv, CopyIsFresh, PubsFollowStatus, Locked
    <3>4. pubs[i] \in {0, 1}
      BY DEF SingleInv, PubsFollowStatus
    <3>5. f[i] = posts[i] - pubs[i] - InFlight(i)
      BY DEF Unrecorded
    <3>6. g[i] = IF posts[i] > 0 THEN posts[i] - 1 ELSE 0
      BY DEF Repeated
    <3> HIDE DEF f, g
    <3>7. QED BY <3>1, <3>2, <3>3, <3>4, <3>5, <3>6
  <2>2. Total(f, Items) <= faults
    BY DEF LedgerBacked, Total
  <2>3. IsFiniteSet(Items)
    BY OutboxAssumption DEF OutboxAssumption
  <2> HIDE DEF f, g
  <2>4. Total(g, Items) <= Total(f, Items)
    BY <2>1, <2>3, TotalMonotone
  <2>5. Total(f, Items) \in Int /\ Total(g, Items) \in Int
    BY <2>1, <2>3, TotalType
  <2>6. Total(g, Items) <= faults
    BY <2>2, <2>4, <2>5 DEF TypeOK
  <2>7. QED BY <2>6 DEF g
<1>4. TypeOK /\ SingleInv /\ LedgerBacked => MapThenSumSet(LAMBDA i : Repeated[i], Items) <= faults
  BY <1>3 DEF Total
<1>5. Spec => []Known
  BY TypeCorrect, LockInvariant, LedgerInvariant, OutboxAssumption, PTL DEF Known
<1>6. Spec => []TypeOK /\ []LedgerBacked
  BY TypeCorrect, LedgerIsBacked, OutboxAssumption, PTL
<1>7. QED BY <1>1, <1>2, <1>4, <1>5, <1>6, PTL DEF Spec

\* With a single publisher a sent row is final: neither a later batch, nor a
\* retry, nor a failing send takes it back, so what the admin panel and the
\* clustering tasks read as published stays published.  (A second publisher with
\* an old copy may write failed over sent.)
THEOREM SentRowsAreFinal ==
  ASSUME OutboxAssumption, SinglePublisher
  PROVE  Spec => [][\A i \in Items : status[i] = "sent" => status'[i] = "sent"]_status
<1> USE DEF rows, sessions
<1>1. ASSUME Known, SingleInv, [Next]_vars, NEW i \in Items, status[i] = "sent"
      PROVE  status'[i] = "sent"
  <2>1. ASSUME NEW p \in Publishers, ItemStep(p) PROVE status'[i] = "sent"
    <3>1. CASE CancelDuplicate(p) \/ CommitFailed(p)
      <4>1. status[cur[p]] # "sent"
        BY <1>1, <3>1 DEF CancelDuplicate, CommitFailed, OutboxLock, Sendable, SingleInv, CopyIsFresh,
                    Locked
      <4>2. QED BY <1>1, <3>1, <4>1 DEF CancelDuplicate, CommitFailed, Known, TypeOK
    <3>2. CASE CommitSent(p)
      BY <1>1, <3>2 DEF CommitSent, Known, TypeOK
    <3>3. CASE \/ LoadNext(p) \/ EndLoop(p) \/ SkipItem(p) \/ StartSending(p)
               \/ SendDelivered(p) \/ SendRefused(p) \/ SendAnswerLost(p)
      BY <1>1, <3>3 DEF LoadNext, EndLoop, SkipItem, StartSending, SendDelivered, SendRefused,
                        SendAnswerLost
    <3>4. QED BY <2>1, <3>1, <3>2, <3>3 DEF ItemStep
  <2>2. ASSUME NEW w \in Workers, NEW j \in Items, NEW t \in Tracks, EnqueueInitial(w, j, t)
        PROVE  status'[i] = "sent"
    BY <1>1, <2>2 DEF EnqueueInitial, NoRow, Known, TypeOK
  <2>3. ASSUME NEW w \in Workers, PublishBatchQueue(w) PROVE status'[i] = "sent"
    BY <1>1, <2>3 DEF PublishBatchQueue, CleanupStuckOutbox
  <2>4. ASSUME NEW s \in Scripts, RetryPublish(s) PROVE status'[i] = "sent"
    BY <1>1, <2>4 DEF RetryPublish
  <2>5. ASSUME \/ \E w \in Workers, j \in Items : FastRouting(w, j)
               \/ \E p \in Publishers : Abort(p)
               \/ \E j \in Items : StatusRewritten(j)
               \/ SwitchMode \/ UNCHANGED vars
        PROVE  status'[i] = "sent"
    BY <1>1, <2>5, OnlyTheCluster DEF FastRouting, Abort, SwitchMode, vars
  <2>6. CASE ReconcileUnknownOutbox
    BY <1>1, <2>6 DEF ReconcileUnknownOutbox
  <2>7. QED BY <1>1, <2>1, <2>2, <2>3, <2>4, <2>5, <2>6, NextCases
<1>2. Known /\ SingleInv /\ [Next]_vars =>
        [\A i \in Items : status[i] = "sent" => status'[i] = "sent"]_status
  BY <1>1
<1>3. Init => SingleInv
  BY DEF Init, SingleInv, PubsFollowStatus, CopyIsFresh, Locked
<1>4. Known /\ SingleInv /\ [Next]_vars => SingleInv'
  BY NextSingle, OutboxAssumption, SinglePublisher
<1>5. Spec => []Known
  BY TypeCorrect, LockInvariant, LedgerInvariant, OutboxAssumption, PTL DEF Known
<1>6. QED BY <1>2, <1>3, <1>4, <1>5, PTL DEF Spec

-----------------------------------------------------------------------------
(* Repeated posts with any number of publishers.  Once a row is sent or      *)
(* cancelled, only the sessions that loaded it before can still post it, and *)
(* each at most once; a refused send, a crash or a deadlock may open the row *)
(* for all of them again.                                                    *)
RowOpen(i) ==
  \/ status[i] \notin {"sent", "cancelled"}
  \/ \E p \in Publishers : pc[p] = "refused" /\ cur[p] = i

Holders(i) ==
  {p \in Publishers : cur[p] = i /\ pc[p] \in {"loaded", "sending"} /\ Sendable(p)}

\* The posts of i that can still follow without a fault.
Future(i) ==
  IF RowOpen(i) THEN Cardinality(Publishers) - InFlight(i) ELSE Cardinality(Holders(i))

WithinBudget(i) == posts[i] + Future(i) <= Cardinality(Publishers) * (faults + 1)

SendingIsSendable == \A p \in Publishers : pc[p] = "sending" => Sendable(p)

RepeatsInv == SendingIsSendable /\ \A i \in Items : WithinBudget(i)

LEMMA PublishersCount ==
  ASSUME OutboxAssumption
  PROVE  IsFiniteSet(Publishers) /\ Cardinality(Publishers) \in Nat
  BY FS_CardinalityType DEF OutboxAssumption

LEMMA HoldersBound ==
  ASSUME OutboxAssumption, NEW i
  PROVE  /\ IsFiniteSet(Holders(i)) /\ Cardinality(Holders(i)) \in Nat
         /\ Cardinality(Holders(i)) <= Cardinality(Publishers)
<1>1. Holders(i) \in SUBSET Publishers
  BY DEF Holders
<1>2. QED BY <1>1, PublishersCount, FS_Subset, FS_CardinalityType

LEMMA FutureBound ==
  ASSUME OutboxAssumption, NEW i
  PROVE  Future(i) \in Nat /\ Future(i) <= Cardinality(Publishers)
<1>1. InFlight(i) \in {0, 1}
  BY DEF InFlight
<1>2. InFlight(i) = 1 => Cardinality(Publishers) >= 1
  <2>1. Publishers = {} => InFlight(i) = 0
    BY DEF InFlight
  <2>2. Cardinality(Publishers) = 0 => Publishers = {}
    BY PublishersCount, FS_EmptySet
  <2>3. QED BY <2>1, <2>2, PublishersCount
<1>3. CASE RowOpen(i)
  BY <1>1, <1>2, <1>3, PublishersCount DEF Future
<1>4. CASE ~ RowOpen(i)
  BY <1>4, HoldersBound DEF Future
<1>5. QED BY <1>3, <1>4

LEMMA MoreBudget ==
  ASSUME NEW n \in Nat, NEW f \in Nat
  PROVE  n * (f + 1) \in Nat /\ n * ((f + 1) + 1) = n * (f + 1) + n
  OBVIOUS

\* What a fault allows.
LEMMA FaultBudget ==
  ASSUME OutboxAssumption, TypeOK, TypeOK', NEW i \in Items, WithinBudget(i),
         NEW d \in Nat, d <= Future(i), posts'[i] <= posts[i] + d, faults' = faults + 1
  PROVE  WithinBudget(i)'
<1> DEFINE n == Cardinality(Publishers)
<1>1. PICK g : g = Future(i)'
  OBVIOUS
<1>2. g \in Nat /\ g <= n
  <2>1. (Future(i) \in Nat /\ Future(i) <= Cardinality(Publishers))'
    BY FutureBound, OutboxAssumption, PTL
  <2>2. QED BY <1>1, <2>1
<1>3. Future(i) \in Nat /\ n \in Nat /\ posts[i] \in Nat /\ posts'[i] \in Nat /\ faults \in Nat
  BY FutureBound, PublishersCount DEF TypeOK
<1>4. posts[i] + Future(i) <= n * (faults + 1)
  BY DEF WithinBudget
<1>5. n * (faults + 1) \in Nat /\ n * ((faults + 1) + 1) = n * (faults + 1) + n
  BY <1>3, MoreBudget
<1> HIDE DEF n
<1>6. posts'[i] + g <= n * ((faults + 1) + 1)
  BY <1>2, <1>3, <1>4, <1>5
<1>7. posts'[i] + g <= n * (faults' + 1)
  BY <1>6
<1>8. QED BY <1>1, <1>7 DEF n, WithinBudget

\* A step of p that leaves the row of i open or shut, sends nothing of it and
\* does not take it up again when it is shut.
LEMMA QuietItem ==
  ASSUME OutboxAssumption, TypeOK, TypeOK', NEW i \in Items, WithinBudget(i), NEW p \in Publishers,
         \A q \in Publishers \ {p} : pc'[q] = pc[q] /\ cur'[q] = cur[q] /\ copy'[q] = copy[q],
         pc[p] # "posted" \/ cur[p] # i,
         RowOpen(i)' <=> RowOpen(i), ~ RowOpen(i) /\ p \in Holders(i)' => p \in Holders(i),
         posts'[i] = posts[i], faults' = faults
  PROVE  WithinBudget(i)'
<1>1. PICK g : g = Future(i)'
  OBVIOUS
<1>2. g <= Future(i) /\ g \in Int
  <2>1. CASE RowOpen(i)
    <3>1. InFlight(i)' >= InFlight(i) /\ InFlight(i) \in {0, 1} /\ InFlight(i)' \in {0, 1}
      BY OthersFlight DEF InFlight
    <3>2. g = Cardinality(Publishers) - InFlight(i)' /\ Future(i) = Cardinality(Publishers) - InFlight(i)
      BY <1>1, <2>1 DEF Future
    <3>3. QED BY <3>1, <3>2, PublishersCount
  <2>2. CASE ~ RowOpen(i)
    <3>1. PICK H : H = Holders(i)'
      OBVIOUS
    <3>2. H \in SUBSET Holders(i)
      BY <2>2, <3>1 DEF Holders, Sendable
    <3>3. Cardinality(H) <= Cardinality(Holders(i)) /\ Cardinality(H) \in Nat
      BY <3>2, HoldersBound, FS_Subset, FS_CardinalityType
    <3>4. g = Cardinality(H) /\ Future(i) = Cardinality(Holders(i))
      BY <1>1, <2>2, <3>1 DEF Future
    <3>5. QED BY <3>3, <3>4
  <2>3. QED BY <2>1, <2>2
<1>3. Future(i) \in Nat /\ posts[i] \in Nat
  BY FutureBound DEF TypeOK
<1>4. Cardinality(Publishers) * (faults + 1) \in Nat
  BY PublishersCount, MoreBudget DEF TypeOK
<1>5. posts[i] + Future(i) <= Cardinality(Publishers) * (faults + 1)
  BY DEF WithinBudget
<1>6. posts'[i] + g <= Cardinality(Publishers) * (faults' + 1)
  BY <1>2, <1>3, <1>4, <1>5
<1>7. QED BY <1>1, <1>6 DEF WithinBudget

\* A step that neither opens nor shuts a row, by a session that works on none of
\* its items, or finds them closed for itself.
LEMMA QuietRepeats ==
  ASSUME OutboxAssumption, TypeOK, TypeOK', RepeatsInv, SendingIsSendable', NEW p \in Publishers,
         \A q \in Publishers \ {p} : pc'[q] = pc[q] /\ cur'[q] = cur[q] /\ copy'[q] = copy[q],
         pc[p] # "posted", \A i \in Items : RowOpen(i)' <=> RowOpen(i),
         \A i \in Items : ~ RowOpen(i) /\ p \in Holders(i)' => p \in Holders(i),
         posts' = posts, faults' = faults
  PROVE  RepeatsInv'
<1>1. ASSUME NEW i \in Items PROVE WithinBudget(i)'
  BY QuietItem DEF RepeatsInv
<1>2. QED BY <1>1 DEF RepeatsInv

\* A session that takes up items in the status their rows have now.
LEMMA BeginLoopRepeats ==
  ASSUME OutboxAssumption, TypeOK, TypeOK', RepeatsInv, NEW p \in Publishers,
         NEW S \in SUBSET Items, NEW known, BeginLoop(p, S, status', known),
         pc[p] \in {"idle", "next"}, posts' = posts, faults' = faults,
         \A i \in Items : status'[i] \in {"sent", "cancelled"} <=> status[i] \in {"sent", "cancelled"}
  PROVE  RepeatsInv'
<1>1. \A q \in Publishers \ {p} : pc'[q] = pc[q] /\ cur'[q] = cur[q] /\ copy'[q] = copy[q]
  BY DEF BeginLoop, TypeOK
<1>2. pc'[p] = "loaded" /\ copy'[p] = status'[cur'[p]] /\ cur'[p] \in Items
  BY DEF BeginLoop, TypeOK
<1>3. SendingIsSendable'
  BY <1>1, <1>2 DEF RepeatsInv, SendingIsSendable, Sendable
<1>4. \A i \in Items : RowOpen(i)' <=> RowOpen(i)
  BY <1>1, <1>2 DEF RowOpen
<1>5. ASSUME NEW i \in Items, p \in Holders(i)' PROVE RowOpen(i)
  <2>1. status'[i] \in {"pending", "failed"}
    BY <1>2, <1>5 DEF Holders, Sendable
  <2>2. QED BY <2>1 DEF RowOpen
<1>6. QED BY <1>1, <1>3, <1>4, <1>5, QuietRepeats

LEMMA ItemStepRepeats ==
  ASSUME OutboxAssumption, Known, TypeOK', RepeatsInv, NEW p \in Publishers, ItemStep(p)
  PROVE  RepeatsInv'
<1> USE DEF rows, Known
<1>0. \A q \in Publishers \ {p} : pc'[q] = pc[q] /\ cur'[q] = cur[q] /\ copy'[q] = copy[q]
  BY DEF ItemStep, LoadNext, EndLoop, SkipItem, CancelDuplicate, StartSending, SendDelivered,
         SendRefused, SendAnswerLost, CommitSent, CommitFailed, BeginLoop, Rollback, CommitItem,
         TypeOK
<1>1. SendingIsSendable'
  <2>1. pc'[p] = "sending" => copy'[p] \in {"pending", "failed"}
    BY DEF ItemStep, LoadNext, EndLoop, SkipItem, CancelDuplicate, StartSending, SendDelivered,
           SendRefused, SendAnswerLost, CommitSent, CommitFailed, BeginLoop, Rollback, CommitItem,
           TypeOK, Sendable
  <2>2. QED BY <1>0, <2>1 DEF RepeatsInv, SendingIsSendable, Sendable
<1>2. ASSUME NEW q \in Publishers, pc[q] \in Locked, lock[cur[p]] = None, cur[p] \in Items
      PROVE  cur[q] # cur[p]
  BY <1>2 DEF LockInv, SendsSerialised, OutboxAssumption
<1>3. CASE LoadNext(p)
  <2>1. todo[p] \in SUBSET Items
    BY DEF TypeOK
  <2>2. QED BY <1>3, <2>1, BeginLoopRepeats DEF LoadNext
<1>4. CASE EndLoop(p) \/ SkipItem(p)
  <2>1. pc[p] \notin {"posted", "refused"} /\ pc'[p] \in {"idle", "next"} /\ status' = status
    BY <1>4 DEF EndLoop, SkipItem, OutboxLock, Rollback, CommitItem, TypeOK
  <2>2. \A i \in Items : RowOpen(i)' <=> RowOpen(i)
    BY <1>0, <2>1 DEF RowOpen
  <2>3. \A i \in Items : p \notin Holders(i)'
    BY <2>1 DEF Holders
  <2>4. QED BY <1>0, <1>1, <1>4, <2>1, <2>2, <2>3, QuietRepeats DEF EndLoop, SkipItem
<1>5. CASE StartSending(p)
  <2>1. pc[p] = "loaded" /\ pc'[p] = "sending" /\ status' = status /\ cur' = cur /\ copy' = copy
    BY <1>5 DEF StartSending, OutboxLock, TypeOK
  <2>2. \A i \in Items : RowOpen(i)' <=> RowOpen(i)
    BY <1>0, <2>1 DEF RowOpen
  <2>3. \A i \in Items : p \in Holders(i)' => p \in Holders(i)
    BY <2>1 DEF Holders, Sendable
  <2>4. QED BY <1>0, <1>1, <1>5, <2>1, <2>2, <2>3, QuietRepeats DEF StartSending
<1>6. CASE CommitFailed(p)
  <2>1. pc[p] = "refused" /\ pc'[p] = "next" /\ cur[p] \in Items
    BY <1>6 DEF CommitFailed, CommitItem, TypeOK, LockInv, SendsSerialised, Locked
  <2>2. status' = [status EXCEPT ![cur[p]] = "failed"]
    BY <1>6 DEF CommitFailed
  <2>3. ASSUME NEW i \in Items PROVE RowOpen(i)' <=> RowOpen(i)
    <3>1. CASE i = cur[p]
      BY <2>1, <2>2, <3>1 DEF RowOpen, TypeOK
    <3>2. CASE i # cur[p]
      BY <1>0, <2>1, <2>2, <3>2 DEF RowOpen, TypeOK
    <3>3. QED BY <3>1, <3>2
  <2>4. \A i \in Items : p \notin Holders(i)'
    BY <2>1 DEF Holders
  <2>5. QED BY <1>0, <1>1, <1>6, <2>1, <2>3, <2>4, QuietRepeats DEF CommitFailed
<1>7. CASE SendRefused(p)
  <2>1. ASSUME NEW i \in Items PROVE WithinBudget(i)'
    <3>1. posts'[i] <= posts[i] + 0 /\ faults' = faults + 1
      BY <1>7 DEF SendRefused, TypeOK
    <3>2. QED BY <3>1, FutureBound, FaultBudget DEF RepeatsInv
  <2>2. QED BY <1>1, <2>1 DEF RepeatsInv
<1>8. CASE SendAnswerLost(p)
  <2>1. pc[p] = "sending" /\ cur[p] \in Items /\ p \in Holders(cur[p])
    BY <1>8 DEF SendAnswerLost, LockInv, SendsSerialised, Locked, RepeatsInv, SendingIsSendable,
                Holders
  <2>2. Future(cur[p]) >= 1
    <3>1. CASE RowOpen(cur[p])
      <4>1. InFlight(cur[p]) = 0
        BY <2>1, PostedHoldsLock DEF InFlight, Locked
      <4>2. Cardinality(Publishers) # 0
        BY PublishersCount, FS_EmptySet
      <4>3. QED BY <3>1, <4>1, <4>2, PublishersCount DEF Future
    <3>2. CASE ~ RowOpen(cur[p])
      <4>1. Cardinality(Holders(cur[p])) # 0
        BY <2>1, HoldersBound, FS_EmptySet
      <4>2. QED BY <3>2, <4>1, HoldersBound DEF Future
    <3>3. QED BY <3>1, <3>2
  <2>3. ASSUME NEW i \in Items PROVE WithinBudget(i)'
    <3>1. faults' = faults + 1
      BY <1>8 DEF SendAnswerLost
    <3>2. CASE i = cur[p]
      <4>1. posts'[i] <= posts[i] + 1
        BY <1>8, <3>2 DEF SendAnswerLost, TypeOK
      <4>2. QED BY <2>2, <3>1, <3>2, <4>1, FaultBudget DEF RepeatsInv
    <3>3. CASE i # cur[p]
      <4>1. posts'[i] <= posts[i] + 0
        BY <1>8, <3>3 DEF SendAnswerLost, TypeOK
      <4>2. QED BY <3>1, <4>1, FutureBound, FaultBudget DEF RepeatsInv
    <3>4. QED BY <3>2, <3>3
  <2>4. QED BY <1>1, <2>3 DEF RepeatsInv
<1>9. CASE SendDelivered(p)
  <2>1. pc[p] = "sending" /\ pc'[p] = "posted" /\ cur[p] \in Items /\ p \in Holders(cur[p])
    BY <1>9 DEF SendDelivered, LockInv, SendsSerialised, Locked, RepeatsInv, SendingIsSendable,
                Holders, TypeOK
  <2>2. status' = status /\ cur' = cur /\ copy' = copy /\ faults' = faults
    BY <1>9 DEF SendDelivered
  <2>3. \A i \in Items : RowOpen(i)' <=> RowOpen(i)
    BY <1>0, <2>1, <2>2 DEF RowOpen
  <2>4. ASSUME NEW i \in Items, i # cur[p] PROVE WithinBudget(i)'
    <3>1. posts'[i] = posts[i] /\ p \notin Holders(i)'
      BY <1>9, <2>1, <2>4 DEF SendDelivered, TypeOK, Holders
    <3>2. QED BY <1>0, <2>2, <2>3, <2>4, <3>1, QuietItem DEF RepeatsInv
  <2>5. ASSUME NEW i \in Items, i = cur[p] PROVE WithinBudget(i)'
    <3>1. PICK g : g = Future(i)'
      OBVIOUS
    <3>2. g = Future(i) - 1
      <4>1. CASE RowOpen(i)
        <5>1. InFlight(i) = 0
          BY <2>1, <2>5, PostedHoldsLock DEF InFlight, Locked
        <5>2. InFlight(i)' = 1
          BY <2>1, <2>2, <2>5 DEF InFlight
        <5>3. RowOpen(i)'
          BY <2>3, <4>1
        <5>4. g = Cardinality(Publishers) - 1 /\ Future(i) = Cardinality(Publishers) - 0
          BY <3>1, <4>1, <5>1, <5>2, <5>3 DEF Future
        <5>5. QED BY <5>4, PublishersCount
      <4>2. CASE ~ RowOpen(i)
        <5>1. Holders(i)' = Holders(i) \ {p}
          BY <1>0, <2>1, <2>2 DEF Holders, Sendable
        <5>2. Cardinality(Holders(i) \ {p}) = Cardinality(Holders(i)) - 1
          BY <2>1, <2>5, HoldersBound, FS_RemoveElement
        <5>3. ~ RowOpen(i)'
          BY <2>3, <4>2
        <5>4. QED BY <3>1, <4>2, <5>1, <5>2, <5>3 DEF Future
      <4>3. QED BY <4>1, <4>2
    <3>3. posts'[i] = posts[i] + 1
      BY <1>9, <2>5 DEF SendDelivered, TypeOK
    <3>4. posts[i] + Future(i) <= Cardinality(Publishers) * (faults + 1)
      BY DEF RepeatsInv, WithinBudget
    <3>5. Future(i) \in Nat /\ posts[i] \in Nat /\ Cardinality(Publishers) * (faults + 1) \in Nat
      BY FutureBound, PublishersCount, MoreBudget DEF TypeOK
    <3>6. posts'[i] + g <= Cardinality(Publishers) * (faults' + 1)
      BY <2>2, <3>2, <3>3, <3>4, <3>5
    <3>7. QED BY <3>1, <3>6 DEF WithinBudget
  <2>6. QED BY <1>1, <2>4, <2>5 DEF RepeatsInv
<1>10. CASE CommitSent(p) \/ CancelDuplicate(p)
  <2>1. /\ pc[p] # "refused" /\ pc'[p] = "next" /\ cur[p] \in Items
        /\ posts' = posts /\ faults' = faults
        /\ pc[p] = "posted" \/ (pc[p] = "loaded" /\ lock[cur[p]] = None)
    BY <1>10 DEF CommitSent, CancelDuplicate, OutboxLock, CommitItem, TypeOK, LockInv,
                 LoadedHasItem, SendsSerialised, Locked
  <2>2. /\ \A i \in Items : i # cur[p] => status'[i] = status[i]
        /\ status'[cur[p]] \in {"sent", "cancelled"}
    BY <1>10, <2>1 DEF CommitSent, CancelDuplicate, TypeOK
  <2>3. \A i \in Items : p \notin Holders(i)'
    BY <2>1 DEF Holders
  <2>4. ASSUME NEW i \in Items, i # cur[p] PROVE WithinBudget(i)'
    <3>1. RowOpen(i)' <=> RowOpen(i)
      BY <1>0, <2>1, <2>2, <2>4 DEF RowOpen
    <3>2. QED BY <1>0, <2>1, <2>3, <2>4, <3>1, QuietItem DEF RepeatsInv
  <2>5. ASSUME NEW i \in Items, i = cur[p] PROVE WithinBudget(i)'
    <3>1. \A q \in Publishers \ {p} : ~ (pc[q] = "refused" /\ cur[q] = i)
      BY <1>2, <2>1, <2>5, PostedHoldsLock DEF Locked
    <3>2. ~ RowOpen(i)'
      BY <1>0, <2>1, <2>2, <2>5, <3>1 DEF RowOpen
    <3>3. PICK H : H = Holders(i)'
      OBVIOUS
    <3>4. H \in SUBSET (Publishers \ {p})
      BY <2>3, <3>3 DEF Holders
    <3>5. Cardinality(Publishers \ {p}) = Cardinality(Publishers) - 1 /\ IsFiniteSet(Publishers \ {p})
      BY PublishersCount, FS_RemoveElement
    <3>6. Cardinality(H) <= Cardinality(Publishers) - 1 /\ Cardinality(H) \in Nat
      BY <3>4, <3>5, FS_Subset, FS_CardinalityType
    <3>7. Cardinality(H) <= Future(i)
      <4>1. CASE RowOpen(i)
        <5>1. InFlight(i) \in {0, 1}
          BY DEF InFlight
        <5>2. QED BY <3>6, <4>1, <5>1, PublishersCount DEF Future
      <4>2. CASE ~ RowOpen(i)
        <5>1. H \in SUBSET Holders(i)
          BY <1>0, <2>3, <3>3 DEF Holders, Sendable
        <5>2. QED BY <4>2, <5>1, HoldersBound, FS_Subset DEF Future
      <4>3. QED BY <4>1, <4>2
    <3>8. posts[i] + Future(i) <= Cardinality(Publishers) * (faults + 1)
      BY DEF RepeatsInv, WithinBudget
    <3>9. Future(i) \in Nat /\ posts[i] \in Nat /\ Cardinality(Publishers) * (faults + 1) \in Nat
      BY FutureBound, PublishersCount, MoreBudget DEF TypeOK
    <3>10. posts'[i] + Cardinality(H) <= Cardinality(Publishers) * (faults' + 1)
      BY <2>1, <3>6, <3>7, <3>8, <3>9
    <3>11. Future(i)' = Cardinality(H)
      BY <3>2, <3>3 DEF Future
    <3>12. QED BY <3>10, <3>11 DEF WithinBudget
  <2>6. QED BY <1>1, <2>4, <2>5 DEF RepeatsInv
<1>11. QED
  BY <1>3, <1>4, <1>5, <1>6, <1>7, <1>8, <1>9, <1>10 DEF ItemStep

LEMMA NextRepeats ==
  ASSUME OutboxAssumption, Known, TypeOK', RepeatsInv, [Next]_vars
  PROVE  RepeatsInv'
<1> USE DEF rows, sessions, Known
<1>1. ASSUME NEW w \in Workers, NEW i \in Items, NEW t \in Tracks, EnqueueInitial(w, i, t)
      PROVE  RepeatsInv'
  <2>1. w \in Publishers /\ pc[w] = "idle" /\ UNCHANGED <<pc, cur, copy, posts, faults>>
    BY <1>1 DEF EnqueueInitial, Publishers
  <2>2. \A j \in Items : status'[j] \in {"sent", "cancelled"} <=> status[j] \in {"sent", "cancelled"}
    BY <1>1 DEF EnqueueInitial, TypeOK, NewStatus, NoRow
  <2>3. \A j \in Items : RowOpen(j)' <=> RowOpen(j)
    BY <2>1, <2>2 DEF RowOpen
  <2>4. \A j \in Items : w \notin Holders(j)'
    BY <2>1 DEF Holders
  <2>5. SendingIsSendable'
    BY <2>1 DEF RepeatsInv, SendingIsSendable, Sendable
  <2>6. QED BY <2>1, <2>3, <2>4, <2>5, QuietRepeats
<1>2. ASSUME UNCHANGED <<status, posts, faults, pc, cur, copy>>
      PROVE  RepeatsInv'
  <2>1. ASSUME NEW i \in Items PROVE WithinBudget(i)'
    <3>1. Future(i)' = Future(i)
      BY <1>2 DEF Future, RowOpen, InFlight, Holders, Sendable
    <3>2. QED BY <1>2, <3>1 DEF RepeatsInv, WithinBudget
  <2>2. QED BY <1>2, <2>1 DEF RepeatsInv, SendingIsSendable, Sendable
<1>3. ASSUME NEW w \in Workers, PublishBatchQueue(w)
      PROVE  RepeatsInv'
  <2>1. PICK old \in SUBSET {i \in Items : status[i] = "sending" /\ lock[i] = None} :
          LET cleaned == CleanupStuckOutbox(old)
              batch   == {i \in Items : cleaned[i] = "pending" /\ track[i] = "batch"}
          IN  /\ status' = cleaned
              /\ \/ BeginLoop(w, OldestOf(batch, BatchLimit), cleaned, "none")
                 \/ UNCHANGED sessions
    BY <1>3 DEF PublishBatchQueue
  <2>2. status' = status /\ CleanupStuckOutbox(old) = status
    BY <2>1, CleanupIsQuiet DEF LedgerInv
  <2>3. w \in Publishers /\ pc[w] = "idle" /\ posts' = posts /\ faults' = faults
    BY <1>3 DEF PublishBatchQueue, Publishers
  <2>4. CASE UNCHANGED sessions
    BY <1>2, <2>2, <2>3, <2>4
  <2>5. \A S \in SUBSET Items : OldestOf(S, BatchLimit) \in SUBSET Items
    BY DEF OldestOf
  <2>6. CASE \E S \in SUBSET Items : BeginLoop(w, S, status', "none")
    BY <2>2, <2>3, <2>6, BeginLoopRepeats
  <2>7. QED BY <2>1, <2>2, <2>4, <2>5, <2>6
<1>4. ASSUME NEW w \in Workers, NEW i \in Items, FastRouting(w, i)
      PROVE  RepeatsInv'
  BY <1>4, BeginLoopRepeats DEF FastRouting, Publishers
<1>5. ASSUME NEW s \in Scripts, RetryPublish(s)
      PROVE  RepeatsInv'
  <2> DEFINE S == {i \in Items : status'[i] = "pending"}
  <2>1. s \in Publishers /\ pc[s] = "idle" /\ posts' = posts /\ faults' = faults
    BY <1>5 DEF RetryPublish, Publishers
  <2>2. \A j \in Items : status'[j] \in {"sent", "cancelled"} <=> status[j] \in {"sent", "cancelled"}
    BY <1>5 DEF RetryPublish, TypeOK
  <2>3. CASE UNCHANGED sessions
    <3>1. \A j \in Items : RowOpen(j)' <=> RowOpen(j)
      BY <2>2, <2>3 DEF RowOpen
    <3>2. \A j \in Items : s \notin Holders(j)'
      BY <2>1, <2>3 DEF Holders
    <3>3. SendingIsSendable'
      BY <2>3 DEF RepeatsInv, SendingIsSendable, Sendable
    <3>4. QED BY <2>1, <2>3, <3>1, <3>2, <3>3, QuietRepeats
  <2>4. CASE BeginLoop(s, S, status', "none")
    BY <2>1, <2>2, <2>4, BeginLoopRepeats
  <2>5. QED BY <1>5, <2>3, <2>4 DEF RetryPublish
<1>6. ASSUME NEW p \in Publishers, Abort(p)
      PROVE  RepeatsInv'
  <2>1. ASSUME NEW i \in Items PROVE WithinBudget(i)'
    <3>1. posts'[i] <= posts[i] + 0 /\ faults' = faults + 1
      BY <1>6 DEF Abort, TypeOK
    <3>2. QED BY <3>1, FutureBound, FaultBudget DEF RepeatsInv
  <2>2. SendingIsSendable'
    BY <1>6 DEF Abort, Rollback, TypeOK, RepeatsInv, SendingIsSendable, Sendable
  <2>3. QED BY <2>1, <2>2 DEF RepeatsInv
<1>7. CASE ReconcileUnknownOutbox
  <2>1. PICK matched \in SUBSET {i \in Items : status[i] = "unknown" /\ posts[i] > 0 /\ lock[i] = None} :
          /\ status' = [i \in Items |-> IF i \in matched THEN "sent" ELSE status[i]]
          /\ UNCHANGED <<posts, sessions, faults>>
    BY <1>7 DEF ReconcileUnknownOutbox
  <2>2. matched = {}
    BY DEF LedgerInv, NeverLeftSending
  <2>3. status' = status
    BY <2>1, <2>2 DEF TypeOK
  <2>4. QED BY <1>2, <2>1, <2>3
<1>8. CASE SwitchMode \/ (\E i \in Items : StatusRewritten(i)) \/ UNCHANGED vars
  BY <1>2, <1>8, OnlyTheCluster DEF SwitchMode, vars
<1>9. QED
  BY <1>1, <1>3, <1>4, <1>5, <1>6, <1>7, <1>8, ItemStepRepeats, NextCases

\* A cluster is posted at most once for every session, and again as often for
\* every fault, for any number of sessions: what the stale copies that outbox_lock
\* hands out can cost is bounded by the sessions that overlap.
THEOREM RepeatsStayBounded == ASSUME OutboxAssumption PROVE Spec => []RepeatsAreBounded
<1>1. Init => RepeatsInv
  <2> SUFFICES ASSUME Init PROVE RepeatsInv
    OBVIOUS
  <2>1. ASSUME NEW i \in Items PROVE WithinBudget(i)
    <3>1. posts[i] = 0 /\ faults = 0 /\ RowOpen(i)
      BY DEF Init, RowOpen
    <3>2. Future(i) \in Nat /\ Future(i) <= Cardinality(Publishers)
      BY FutureBound, OutboxAssumption
    <3>3. Cardinality(Publishers) * (0 + 1) = Cardinality(Publishers)
      BY PublishersCount, OutboxAssumption
    <3>4. QED BY <3>1, <3>2, <3>3 DEF WithinBudget
  <2>2. QED BY <2>1 DEF Init, RepeatsInv, SendingIsSendable
<1>2. Known /\ TypeOK' /\ RepeatsInv /\ [Next]_vars => RepeatsInv'
  BY NextRepeats, OutboxAssumption
<1>3. TypeOK /\ RepeatsInv => RepeatsAreBounded
  <2> SUFFICES ASSUME TypeOK, RepeatsInv, NEW i \in Items
               PROVE  posts[i] <= Cardinality(Publishers) * (faults + 1)
    BY DEF RepeatsAreBounded
  <2>1. Future(i) \in Nat /\ posts[i] \in Nat /\ Cardinality(Publishers) * (faults + 1) \in Nat
    BY FutureBound, PublishersCount, MoreBudget, OutboxAssumption DEF TypeOK
  <2>2. posts[i] + Future(i) <= Cardinality(Publishers) * (faults + 1)
    BY DEF RepeatsInv, WithinBudget
  <2>3. QED BY <2>1, <2>2
<1>4. Spec => []Known
  BY TypeCorrect, LockInvariant, LedgerInvariant, OutboxAssumption, PTL DEF Known
<1>5. Spec => []TypeOK
  BY TypeCorrect, OutboxAssumption
<1>6. QED BY <1>1, <1>2, <1>3, <1>4, <1>5, PTL DEF Spec

-----------------------------------------------------------------------------
(* Similar stories.  The duplicate guard reads rows it does not lock, so the  *)
(* clusters of one story that are published, or may become so without another *)
(* look at the guard, are counted together.                                   *)
SameStories(S) == \A i, j \in S : i # j => <<i, j>> \in Similar

OnShow(S) ==
  {i \in S : \/ cluster[i] = "published"
             \/ \E p \in Publishers : pc[p] \in Locked /\ cur[p] = i}

SimilarInv ==
  \A S \in SUBSET Items : SameStories(S) => Cardinality(OnShow(S)) <= Cardinality(Publishers)

\* The values of a function on a finite set are no more than its arguments.
LEMMA ImageBound ==
  ASSUME NEW P, IsFiniteSet(P), NEW f
  PROVE  IsFiniteSet({f[q] : q \in P}) /\ Cardinality({f[q] : q \in P}) <= Cardinality(P)
<1> DEFINE g == [q \in P |-> f[q]]
           T == {f[q] : q \in P}
<1>1. g \in Surjection(P, T)
  BY DEF Surjection
<1>2. IsFiniteSet(T) /\ Cardinality(T) <= Cardinality(P)
  BY <1>1, FS_Surjection
<1>3. QED BY <1>2

LEMMA SubsetCount ==
  ASSUME OutboxAssumption, NEW S \in SUBSET Items, NEW A \in SUBSET S, NEW B \in SUBSET S,
         A \subseteq B, NEW n \in Nat, Cardinality(B) <= n
  PROVE  Cardinality(A) <= n
<1>1. IsFiniteSet(B)
  BY FS_Subset DEF OutboxAssumption
<1>2. Cardinality(A) <= Cardinality(B) /\ Cardinality(A) \in Nat /\ Cardinality(B) \in Nat
  BY <1>1, FS_Subset, FS_CardinalityType
<1>3. QED BY <1>2

\* No cluster becomes published and no session passes the guard.
LEMMA QuietSimilar ==
  ASSUME OutboxAssumption, SimilarInv,
         \A i \in Items : cluster'[i] = "published" =>
           cluster[i] = "published" \/ \E p \in Publishers : pc[p] \in Locked /\ cur[p] = i,
         \A p \in Publishers : pc'[p] \in Locked => pc[p] \in Locked /\ cur'[p] = cur[p]
  PROVE  SimilarInv'
<1> SUFFICES ASSUME NEW S \in SUBSET Items, SameStories(S)
             PROVE  Cardinality(OnShow(S)') <= Cardinality(Publishers)
  BY DEF SimilarInv, SameStories
<1>1. PICK A : A = OnShow(S)'
  OBVIOUS
<1>2. A \subseteq OnShow(S) /\ OnShow(S) \subseteq S
  BY <1>1 DEF OnShow
<1>3. Cardinality(A) <= Cardinality(Publishers)
  BY <1>2, SubsetCount, PublishersCount DEF SimilarInv
<1>4. QED BY <1>1, <1>3

LEMMA ItemStepSimilar ==
  ASSUME OutboxAssumption, TypeOK, LockInv, SimilarInv, NEW p \in Publishers, ItemStep(p)
  PROVE  SimilarInv'
<1> USE DEF rows, sessions
<1>1. CASE StartSending(p)
  <2> SUFFICES ASSUME NEW S \in SUBSET Items, SameStories(S)
               PROVE  Cardinality(OnShow(S)') <= Cardinality(Publishers)
    BY DEF SimilarInv, SameStories
  <2>1. /\ cluster' = cluster /\ cur' = cur /\ ~ FindPublishDuplicate(cur[p])
        /\ \A q \in Publishers \ {p} : pc'[q] = pc[q]
    BY <1>1 DEF StartSending, TypeOK
  <2>2. PICK A : A = OnShow(S)'
    OBVIOUS
  <2>3. CASE cur[p] \in S
    <3>1. \A i \in S : i # cur[p] => cluster[i] # "published"
      BY <2>1, <2>3 DEF FindPublishDuplicate, SameStories
    <3>2. A \in SUBSET {cur[q] : q \in Publishers}
      BY <2>1, <2>2, <3>1 DEF OnShow
    <3>3. /\ IsFiniteSet({cur[q] : q \in Publishers})
          /\ Cardinality({cur[q] : q \in Publishers}) <= Cardinality(Publishers)
      BY ImageBound, PublishersCount
    <3>4. /\ Cardinality(A) <= Cardinality({cur[q] : q \in Publishers})
          /\ Cardinality(A) \in Nat /\ Cardinality({cur[q] : q \in Publishers}) \in Nat
      BY <3>2, <3>3, FS_Subset, FS_CardinalityType
    <3>5. QED BY <2>2, <3>3, <3>4, PublishersCount
  <2>4. CASE cur[p] \notin S
    <3>1. A \subseteq OnShow(S) /\ OnShow(S) \subseteq S
      BY <2>1, <2>2, <2>4 DEF OnShow
    <3>2. Cardinality(A) <= Cardinality(Publishers)
      BY <3>1, SubsetCount, PublishersCount DEF SimilarInv
    <3>3. QED BY <2>2, <3>2
  <2>5. QED BY <2>3, <2>4
<1>2. CASE ~ StartSending(p)
  <2>1. \A q \in Publishers : pc'[q] \in Locked => pc[q] \in Locked /\ cur'[q] = cur[q]
    BY <1>2 DEF ItemStep, LoadNext, EndLoop, SkipItem, CancelDuplicate, SendDelivered,
         SendRefused, SendAnswerLost, CommitSent, CommitFailed, BeginLoop, Rollback, CommitItem,
         TypeOK, Locked
  <2>2. ASSUME NEW i \in Items, cluster'[i] = "published"
        PROVE  cluster[i] = "published" \/ \E q \in Publishers : pc[q] \in Locked /\ cur[q] = i
    <3>1. CASE CommitSent(p)
      BY <2>2, <3>1 DEF CommitSent, PublishedIfChanged, TypeOK, Locked
    <3>2. CASE ~ CommitSent(p)
      BY <1>2, <2>2, <3>2 DEF ItemStep, LoadNext, EndLoop, SkipItem, CancelDuplicate,
         SendDelivered, SendRefused, SendAnswerLost, CommitFailed, RoutedOrKept, TypeOK
    <3>3. QED BY <3>1, <3>2
  <2>3. QED BY <2>1, <2>2, QuietSimilar
<1>3. QED BY <1>1, <1>2

LEMMA NextSimilar ==
  ASSUME OutboxAssumption, TypeOK, LockInv, SimilarInv, [Next]_vars
  PROVE  SimilarInv'
<1> USE DEF rows, sessions
<1>1. CASE \E p \in Publishers : ItemStep(p)
  BY <1>1, ItemStepSimilar
<1>2. CASE ~ \E p \in Publishers : ItemStep(p)
  <2>1. \A q \in Publishers : pc'[q] \in Locked => pc[q] \in Locked /\ cur'[q] = cur[q]
    <3>1. ASSUME NEW q \in Publishers, NEW S, NEW loaded, NEW known, BeginLoop(q, S, loaded, known)
          PROVE  \A r \in Publishers : pc'[r] \in Locked => pc[r] \in Locked /\ cur'[r] = cur[r]
      BY <3>1 DEF BeginLoop, TypeOK, Locked
    <3>2. ASSUME NEW q \in Publishers, Abort(q)
          PROVE  \A r \in Publishers : pc'[r] \in Locked => pc[r] \in Locked /\ cur'[r] = cur[r]
      BY <3>2 DEF Abort, Rollback, TypeOK, Locked
    <3>3. CASE \E w \in Workers : PublishBatchQueue(w)
      BY <3>1, <3>3 DEF PublishBatchQueue, Publishers
    <3>4. CASE \E w \in Workers, i \in Items : FastRouting(w, i)
      BY <3>1, <3>4 DEF FastRouting, Publishers
    <3>5. CASE \E s \in Scripts : RetryPublish(s)
      BY <3>1, <3>5 DEF RetryPublish, Publishers
    <3>6. CASE \/ \E w \in Workers, i \in Items, t \in Tracks : EnqueueInitial(w, i, t)
               \/ \E i \in Items : StatusRewritten(i)
               \/ ReconcileUnknownOutbox \/ SwitchMode \/ UNCHANGED vars
      BY <3>6 DEF EnqueueInitial, StatusRewritten, ReconcileUnknownOutbox, SwitchMode, vars
    <3>7. QED BY <1>2, <3>2, <3>3, <3>4, <3>5, <3>6, NextCases
  <2>2. \A i \in Items : cluster'[i] = "published" => cluster[i] = "published"
    <3>1. CASE \/ \E w \in Workers, i \in Items, t \in Tracks : EnqueueInitial(w, i, t)
               \/ \E i \in Items : StatusRewritten(i)
      BY <3>1 DEF EnqueueInitial, StatusRewritten, TypeOK
    <3>2. CASE \/ \E w \in Workers : PublishBatchQueue(w)
               \/ \E w \in Workers, i \in Items : FastRouting(w, i)
               \/ \E s \in Scripts : RetryPublish(s)
               \/ \E p \in Publishers : Abort(p)
               \/ ReconcileUnknownOutbox \/ SwitchMode \/ UNCHANGED vars
      BY <3>2 DEF PublishBatchQueue, FastRouting, RetryPublish, Abort, ReconcileUnknownOutbox,
                  SwitchMode, vars
    <3>3. QED BY <1>2, <3>1, <3>2, NextCases
  <2>3. QED BY <2>1, <2>2, QuietSimilar
<1>3. QED BY <1>1, <1>2

\* duplicate_guard.find_publish_duplicate, which locks none of the rows it reads,
\* keeps similar clusters that are published at the same time down to one for every
\* session that publishes: one for the worker alone, crashes, lost answers, retries
\* and clusters put on hold and routed again included.
THEOREM SimilarStoriesBounded ==
  ASSUME OutboxAssumption PROVE Spec => []SimilarPublishedBounded
<1>1. Init => SimilarInv
  <2> SUFFICES ASSUME Init, NEW S \in SUBSET Items PROVE Cardinality(OnShow(S)) <= Cardinality(Publishers)
    BY DEF SimilarInv
  <2>1. OnShow(S) = {}
    BY DEF Init, OnShow, Locked
  <2>2. QED BY <2>1, FS_EmptySet, PublishersCount, OutboxAssumption
<1>2. TypeOK /\ LockInv /\ SimilarInv /\ [Next]_vars => SimilarInv'
  BY NextSimilar, OutboxAssumption
<1>3. SimilarInv => SimilarPublishedBounded
  <2> SUFFICES ASSUME SimilarInv, NEW S \in SUBSET Items,
                      \A i, j \in S : i # j => <<i, j>> \in Similar
               PROVE  Cardinality({i \in S : cluster[i] = "published"}) <= Cardinality(Publishers)
    BY DEF SimilarPublishedBounded
  <2>1. Cardinality(OnShow(S)) <= Cardinality(Publishers)
    BY DEF SimilarInv, SameStories
  <2>2. {i \in S : cluster[i] = "published"} \subseteq OnShow(S) /\ OnShow(S) \subseteq S
    BY DEF OnShow
  <2>3. QED BY <2>1, <2>2, SubsetCount, PublishersCount, OutboxAssumption
<1>4. QED
  BY <1>1, <1>2, <1>3, TypeCorrect, LockInvariant, OutboxAssumption, PTL DEF Spec

=============================================================================
