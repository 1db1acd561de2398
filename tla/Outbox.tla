------------------------------- MODULE Outbox -------------------------------
(***************************************************************************)
(* The publication outbox: how one initial outbox row per cluster is       *)
(* enqueued, picked by a publisher, posted to the Telegram channel and     *)
(* recorded.                                                               *)
(*                                                                         *)
(* Publishers are database sessions.  The Celery worker has concurrency 1, *)
(* so its tasks (batch publish, and the fast routing inside the AI task)   *)
(* share one member of Workers; each run of scripts/retry_publish.py is a  *)
(* member of Scripts.  A step of a publisher is one stretch of code        *)
(* between two points where another session can be noticed: loading the    *)
(* ORM object, obtaining the row lock, the Telegram call, the commit.      *)
(*                                                                         *)
(* A row is named by its cluster: the partial unique index of migration    *)
(* 001 allows one initial row per cluster.  The rows `status', `cluster'   *)
(* and `pubs' hold COMMITTED values; what a session has flushed but not    *)
(* committed lives in pc and seen and is lost when the session dies.       *)
(*                                                                         *)
(* The status of a cluster is written by the whole program, and most of it *)
(* does not look at the outbox: StatusRewritten stands for all of that.    *)
(*                                                                         *)
(* A definition that no other one uses and that precedes its near-namesake *)
(* (NewStatusQueued before NewStatus) is a faulty variant of it: put in    *)
(* its place, it must break the property PROJECT.json lists it for.        *)
(***************************************************************************)
EXTENDS Integers, FiniteSetsExt

CONSTANTS
  Items,          (* outbox rows, one per cluster                          *)
  Workers,        (* sessions of the Celery worker                         *)
  Scripts,        (* sessions of scripts/retry_publish.py                  *)
  None,           (* no item / no session                                  *)
  Similar,        (* symmetric relation: should_block_duplicate_publish    *)
  BatchLimit,     (* .limit(5) of publish_batch_queue                      *)
  Crashes,        (* TRUE: a session may die, or its commit may fail       *)
  LostAnswers,    (* TRUE: Telegram may deliver and the call still raise   *)
  MaxFaults       (* bound on crashes, lost answers and refused sends      *)

Publishers == Workers \union Scripts

ASSUME OutboxAssumption ==
  /\ Workers \intersect Scripts = {}
  /\ IsFiniteSet(Items) /\ IsFiniteSet(Publishers)
  /\ None \notin Items \union Publishers
  /\ Similar \subseteq Items \X Items
  /\ \A i, j \in Items : <<i, j>> \in Similar => <<j, i>> \in Similar /\ i # j
  /\ BatchLimit \in Nat \ {0}
  /\ Crashes \in BOOLEAN
  /\ LostAnswers \in BOOLEAN
  /\ MaxFaults \in Nat

VARIABLES
  mode,       (* PUBLISH_MODE: "live" stands for test and production       *)
  status,     (* publication_outbox.status, "none" before the row exists   *)
  track,      (* publication_outbox.track                                  *)
  created,    (* publication_outbox.created_at, as a rank                  *)
  cluster,    (* clusters.status: "published", or "other" for all the rest *)
  pubs,       (* number of publications rows of the item                   *)
  posts,      (* number of posts of the item on the Telegram channel       *)
  lock,       (* holder of the row lock (SELECT ... FOR UPDATE)            *)
  pc,         (* where each session is                                     *)
  todo,       (* items the session's loop has still to visit               *)
  cur,        (* the item being processed                                  *)
  copy,       (* its status in the session's identity map                  *)
  seen,       (* its cluster's status there: "none" before it is loaded,   *)
              (* "routed" if the session has set and flushed ai_done: the  *)
              (* cluster's row is locked until the session's commit        *)
  faults      (* faults so far                                             *)

rows     == <<mode, status, track, created, cluster, pubs>>
sessions == <<pc, todo, cur, copy, seen>>
vars     == <<mode, status, track, created, cluster, pubs, posts, lock,
              pc, todo, cur, copy, seen, faults>>

Statuses == {"none", "pending", "dry_run", "sending", "sent", "failed",
             "unknown", "cancelled"}
Tracks   == {"batch", "fast"}
Places   == {"idle", "next", "loaded", "sending", "posted", "refused"}

\* The places where the session holds the row lock of its item.
Locked == {"sending", "posted", "refused"}

-----------------------------------------------------------------------------
(* Helpers *)

\* The rows of S the query orders first: the limit oldest.
OldestOf(S, limit) ==
  {i \in S : Cardinality({j \in S : created[j] < created[i]}) < limit}

\* enqueue_initial: the status of a new row, and its idempotency check.
NewStatusQueued == "queued"
NewStatus == IF mode = "live" THEN "pending" ELSE "dry_run"

NoOpenRow(i) == status[i] \notin {"pending", "dry_run"}
NoRow(i) == status[i] = "none"

\* The status test of process_outbox_item, on the session's own copy.
Sendable(p) == copy[p] \in {"pending", "failed"}

FindOlderDuplicate(i) ==
  \E j \in Items : <<i, j>> \in Similar /\ cluster[j] = "published" /\ created[j] < created[i]

\* duplicate_guard.find_publish_duplicate: a similar cluster is published (within
\* DUPLICATE_PUBLISH_HOURS, and not retracted: all the model's are).  It reads
\* committed rows of other clusters and locks none of them.
FindPublishDuplicate(i) ==
  \E j \in Items : <<i, j>> \in Similar /\ cluster[j] = "published"

RollbackKeepsLock(p) ==
  /\ pc'    = [pc EXCEPT ![p] = "idle"]
  /\ todo'  = [todo EXCEPT ![p] = {}]
  /\ cur'   = [cur EXCEPT ![p] = None]
  /\ copy'  = [copy EXCEPT ![p] = "none"]
  /\ seen'  = [seen EXCEPT ![p] = "none"]
  /\ UNCHANGED lock

\* session.close(), or the connection's death: rollback frees the lock.
Rollback(p) ==
  /\ lock'  = [i \in Items |-> IF lock[i] = p THEN None ELSE lock[i]]
  /\ pc'    = [pc EXCEPT ![p] = "idle"]
  /\ todo'  = [todo EXCEPT ![p] = {}]
  /\ cur'   = [cur EXCEPT ![p] = None]
  /\ copy'  = [copy EXCEPT ![p] = "none"]
  /\ seen'  = [seen EXCEPT ![p] = "none"]

\* The session starts its loop over S.  The SELECT that found S loaded every
\* object, so the first item's attributes are those of the SELECT.
BeginLoop(p, S, loaded, known) ==
  \E i \in S :
    /\ \A j \in S : created[i] <= created[j]
    /\ todo' = [todo EXCEPT ![p] = S \ {i}]
    /\ cur'  = [cur EXCEPT ![p] = i]
    /\ copy' = [copy EXCEPT ![p] = loaded[i]]
    /\ seen' = [seen EXCEPT ![p] = known]
    /\ pc'   = [pc EXCEPT ![p] = "loaded"]

\* session.commit() after an item: its lock is released and every object of
\* the session expires.
CommitItem(p) ==
  /\ lock' = [lock EXCEPT ![cur[p]] = None]
  /\ pc'   = [pc EXCEPT ![p] = "next"]
  /\ cur'  = [cur EXCEPT ![p] = None]
  /\ copy' = [copy EXCEPT ![p] = "none"]
  /\ seen' = [seen EXCEPT ![p] = "none"]
  /\ UNCHANGED todo

\* No session but p has written the row of i's cluster without committing.
ClusterRowFree(i, p) ==
  \A q \in Publishers \ {p} : ~ (seen[q] = "routed" /\ cur[q] = i)

\* What p's commit does to its cluster if the item did not set the status.
RoutedOrKept(p) ==
  IF seen[p] = "routed" THEN [cluster EXCEPT ![cur[p]] = "other"] ELSE cluster

\* The ORM writes `published' only if the session loaded something else.
PublishedIfChanged(p) ==
  IF seen[p] = "published" THEN cluster ELSE [cluster EXCEPT ![cur[p]] = "published"]

-----------------------------------------------------------------------------
Init ==
  /\ mode \in {"live", "dry_run"}
  /\ status  = [i \in Items |-> "none"]
  /\ track   = [i \in Items |-> "batch"]
  /\ created = [i \in Items |-> 0]
  /\ cluster = [i \in Items |-> "other"]
  /\ pubs    = [i \in Items |-> 0]
  /\ posts   = [i \in Items |-> 0]
  /\ lock    = [i \in Items |-> None]
  /\ pc      = [p \in Publishers |-> "idle"]
  /\ todo    = [p \in Publishers |-> {}]
  /\ cur     = [p \in Publishers |-> None]
  /\ copy    = [p \in Publishers |-> "none"]
  /\ seen    = [p \in Publishers |-> "none"]
  /\ faults  = 0

\* apply_publish_routing with enqueue_initial for a cluster that has no row,
\* one transaction of the worker.  In live mode a NEW row routed to the fast
\* track never commits: its id is not assigned before process_outbox_item
\* asks for it, .one() raises and the task's transaction rolls back.
EnqueueInitial(w, i, t) ==
  /\ pc[w] = "idle"
  /\ NoRow(i)
  /\ mode = "live" => t = "batch"
  /\ status'  = [status EXCEPT ![i] = NewStatus]
  /\ track'   = [track EXCEPT ![i] = t]
  /\ created' = [created EXCEPT ![i] = Cardinality({j \in Items : status[j] # "none"})]
  /\ cluster' = [cluster EXCEPT ![i] = "other"]      \* ai_done
  /\ UNCHANGED <<mode, pubs, posts, lock, sessions, faults>>

\* publish_batch_queue up to its loop: cleanup_stuck_outbox and its commit,
\* then, when the batch interval has passed, the oldest pending batch rows.
\* old is the set of rows locked_at finds older than the timeout.
CleanupStuckOutbox(old) ==
  [i \in Items |-> IF i \notin old THEN status[i]
                   ELSE IF pubs[i] = 0 THEN "unknown" ELSE "pending"]

PublishBatchQueue(w) ==
  /\ pc[w] = "idle"
  /\ mode = "live"
  /\ \E old \in SUBSET {i \in Items : status[i] = "sending" /\ lock[i] = None} :
       LET cleaned == CleanupStuckOutbox(old)
           batch   == {i \in Items : cleaned[i] = "pending" /\ track[i] = "batch"}
       IN  /\ status' = cleaned
           /\ \/ BeginLoop(w, OldestOf(batch, BatchLimit), cleaned, "none")
              \/ UNCHANGED sessions      \* interval not elapsed, or no row
  /\ UNCHANGED <<mode, track, created, cluster, pubs, posts, lock, faults>>

\* apply_publish_routing of a cluster analysed again, whatever became of it
\* before, on the fast track: it sets ai_done, enqueue_initial flushes that, loads
\* the existing row and returns it, and process_outbox_item follows in the same
\* transaction.  The bound on faults here bounds the deadlocks.
FastRouting(w, i) ==
  /\ pc[w] = "idle"
  /\ mode = "live"
  /\ ~ NoRow(i)
  /\ ClusterRowFree(i, w)
  /\ faults < MaxFaults
  /\ BeginLoop(w, {i}, status, "routed")
  /\ UNCHANGED <<rows, posts, lock, faults>>

\* scripts/retry_publish.py up to its loop: the bulk UPDATE (which waits for
\* the locks of the rows it matches) and its commit, then every pending row,
\* whatever its track.  In dry-run mode process_outbox_item does nothing.
RetryPublish(s) ==
  LET retried == {i \in Items : status[i] \in {"failed", "dry_run"}}
      reset   == [i \in Items |-> IF i \in retried THEN "pending" ELSE status[i]]
  IN  /\ pc[s] = "idle"
      /\ \A i \in retried : lock[i] = None
      /\ status' = reset
      /\ IF mode = "live"
         THEN BeginLoop(s, {i \in Items : reset[i] = "pending"}, reset, "none")
         ELSE UNCHANGED sessions
      /\ UNCHANGED <<mode, track, created, cluster, pubs, posts, lock, faults>>

-----------------------------------------------------------------------------
(* The loop and process_outbox_item *)

\* `item.id' of the next item of the loop: the commit expired the object, so
\* reading its id reloads the whole row -- before the row is locked.
LoadNext(p) ==
  /\ pc[p] = "next"
  /\ BeginLoop(p, todo[p], status, "none")
  /\ UNCHANGED <<rows, posts, lock, faults>>

EndLoop(p) ==
  /\ pc[p] = "next"
  /\ todo[p] = {}
  /\ Rollback(p)
  /\ UNCHANGED <<rows, posts, faults>>

OutboxLockNoWait(p) == pc[p] = "loaded"

\* outbox_lock, then the status test.  The query has no populate_existing:
\* the object it returns keeps the attributes loaded before the wait, and the
\* test reads those.
OutboxLock(p) ==
  /\ pc[p] = "loaded"
  /\ lock[cur[p]] = None

SkipItem(p) ==
  /\ OutboxLock(p)
  /\ ~ Sendable(p)
  /\ cluster' = RoutedOrKept(p)
  /\ CommitItem(p)
  /\ UNCHANGED <<mode, status, track, created, pubs, posts, faults>>

\* A similar cluster is already published: cancel and reject.
CancelDuplicate(p) ==
  /\ OutboxLock(p)
  /\ ClusterRowFree(cur[p], p)
  /\ Sendable(p)
  /\ FindPublishDuplicate(cur[p])
  /\ status'  = [status EXCEPT ![cur[p]] = "cancelled"]
  /\ cluster' = [cluster EXCEPT ![cur[p]] = "other"]     \* rejected
  /\ CommitItem(p)
  /\ UNCHANGED <<mode, track, created, pubs, posts, faults>>

\* status := sending is flushed, not committed; the cluster is loaded.
StartSending(p) ==
  /\ OutboxLock(p)
  /\ Sendable(p)
  /\ ~ FindPublishDuplicate(cur[p])
  /\ lock' = [lock EXCEPT ![cur[p]] = p]
  /\ pc'   = [pc EXCEPT ![p] = "sending"]
  /\ seen' = [seen EXCEPT ![p] = IF @ = "routed" THEN @ ELSE cluster[cur[p]]]
  /\ UNCHANGED <<rows, posts, todo, cur, copy, faults>>

\* send_message_html returns the id of the new post.
SendDelivered(p) ==
  /\ pc[p] = "sending"
  /\ posts' = [posts EXCEPT ![cur[p]] = @ + 1]
  /\ pc'    = [pc EXCEPT ![p] = "posted"]
  /\ UNCHANGED <<rows, lock, todo, cur, copy, seen, faults>>

RefusalTakenForPost(p) ==
  /\ pc[p] = "sending"
  /\ pc' = [pc EXCEPT ![p] = "posted"]
  /\ UNCHANGED <<rows, posts, lock, todo, cur, copy, seen, faults>>

\* send_message_html raises and nothing was posted.
SendRefused(p) ==
  /\ pc[p] = "sending"
  /\ faults < MaxFaults
  /\ faults' = faults + 1
  /\ pc'     = [pc EXCEPT ![p] = "refused"]
  /\ UNCHANGED <<rows, posts, lock, todo, cur, copy, seen>>

\* The post is on the channel but the call raises (a timed-out answer).
SendAnswerLost(p) ==
  /\ pc[p] = "sending"
  /\ LostAnswers
  /\ faults < MaxFaults
  /\ faults' = faults + 1
  /\ posts'  = [posts EXCEPT ![cur[p]] = @ + 1]
  /\ pc'     = [pc EXCEPT ![p] = "refused"]
  /\ UNCHANGED <<rows, lock, todo, cur, copy, seen>>

CommitSentRowOpen(p) ==
  /\ pc[p] = "posted"
  /\ pubs'    = [pubs EXCEPT ![cur[p]] = @ + 1]
  /\ cluster' = PublishedIfChanged(p)
  /\ CommitItem(p)
  /\ UNCHANGED <<mode, status, track, created, posts, faults>>

CommitSent(p) ==
  /\ pc[p] = "posted"
  /\ seen[p] = "published" \/ ClusterRowFree(cur[p], p)
  /\ status'  = [status EXCEPT ![cur[p]] = "sent"]
  /\ pubs'    = [pubs EXCEPT ![cur[p]] = @ + 1]
  /\ cluster' = PublishedIfChanged(p)
  /\ CommitItem(p)
  /\ UNCHANGED <<mode, track, created, posts, faults>>

CommitFailed(p) ==
  /\ pc[p] = "refused"
  /\ status'  = [status EXCEPT ![cur[p]] = "failed"]
  /\ cluster' = RoutedOrKept(p)
  /\ CommitItem(p)
  /\ UNCHANGED <<mode, track, created, pubs, posts, faults>>

\* p has posted and waits, to commit, for the cluster's row that q's routing has
\* locked; q waits for the outbox row that p has locked.
Deadlocked(p, q) ==
  /\ p # q
  /\ pc[p] = "posted" /\ seen[p] # "published"
  /\ pc[q] = "loaded" /\ seen[q] = "routed"
  /\ cur[p] = cur[q]

\* PostgreSQL aborts one of the two transactions (the routing's when the bound on
\* faults is reached, which bounds how often the other one posts in vain).
DeadlockAborts ==
  \E p, q \in Publishers :
    /\ Deadlocked(p, q)
    /\ \/ faults < MaxFaults /\ Rollback(p)
       \/ Rollback(q)
    /\ faults' = faults + 1
    /\ UNCHANGED <<rows, posts>>

\* The process dies, its commit fails, or formatting or resolving the chat
\* raises outside the try block: the transaction rolls back.
Crash(p) ==
  /\ Crashes
  /\ pc[p] # "idle"
  /\ faults < MaxFaults
  /\ faults' = faults + 1
  /\ Rollback(p)
  /\ UNCHANGED <<rows, posts>>

-----------------------------------------------------------------------------
(* Beside the publishers *)

\* The rest of the program gives a published cluster another status: a hold for
\* a numeric contradiction, a review, a request to analyse it again, and what
\* that analysis ends in.  The row of the outbox stays as it is.
StatusRewritten(i) ==
  /\ cluster[i] = "published"
  /\ ClusterRowFree(i, None)
  /\ cluster' = [cluster EXCEPT ![i] = "other"]
  /\ UNCHANGED <<mode, status, track, created, pubs, posts, lock, sessions, faults>>

\* scripts/reconcile_outbox.py --apply: an unknown row whose text is found
\* among the bot's recent updates gets its publication; the others stay.
\* It takes no row lock of its own, but its UPDATE waits for one.
ReconcileUnknownOutbox ==
  \E matched \in SUBSET {i \in Items : status[i] = "unknown" /\ posts[i] > 0 /\ lock[i] = None} :
    /\ mode = "live"
    /\ status' = [i \in Items |-> IF i \in matched THEN "sent" ELSE status[i]]
    /\ pubs'   = [i \in Items |-> IF i \in matched THEN pubs[i] + 1 ELSE pubs[i]]
    /\ UNCHANGED <<mode, track, created, cluster, posts, lock, sessions, faults>>

SwitchModeMidSend ==
  /\ mode' = IF mode = "live" THEN "dry_run" ELSE "live"
  /\ UNCHANGED <<status, track, created, cluster, pubs, posts, lock, sessions, faults>>

\* The deployment restarts with another PUBLISH_MODE.
SwitchMode ==
  /\ \A p \in Publishers : pc[p] = "idle"
  /\ mode' = IF mode = "live" THEN "dry_run" ELSE "live"
  /\ UNCHANGED <<status, track, created, cluster, pubs, posts, lock, sessions, faults>>

ItemStep(p) ==
  \/ LoadNext(p) \/ EndLoop(p)
  \/ SkipItem(p) \/ CancelDuplicate(p) \/ StartSending(p)
  \/ SendDelivered(p) \/ SendRefused(p) \/ SendAnswerLost(p)
  \/ CommitSent(p) \/ CommitFailed(p)

Next ==
  \/ \E w \in Workers, i \in Items, t \in Tracks : EnqueueInitial(w, i, t)
  \/ \E w \in Workers : PublishBatchQueue(w)
  \/ \E w \in Workers, i \in Items : FastRouting(w, i)
  \/ \E s \in Scripts : RetryPublish(s)
  \/ \E p \in Publishers : ItemStep(p)
  \/ \E p \in Publishers : Crash(p)
  \/ DeadlockAborts
  \/ \E i \in Items : StatusRewritten(i)
  \/ ReconcileUnknownOutbox
  \/ SwitchMode

Spec == Init /\ [][Next]_vars

\* Beat enqueues publish_batch_queue every 300 s and the worker takes its
\* queue in order, so the batch task keeps coming (strong: between two of its
\* turns the worker is busy).  A running session keeps running, and Postgres
\* grants a row lock in request order and ends a deadlock after a second.  Nothing
\* is promised about the operator.
Fairness ==
  /\ \A w \in Workers : SF_vars(PublishBatchQueue(w))
  /\ \A p \in Publishers :
       /\ WF_vars(LoadNext(p) \/ EndLoop(p))
       /\ SF_vars(SkipItem(p) \/ CancelDuplicate(p) \/ StartSending(p))
       /\ WF_vars(SendDelivered(p) \/ SendRefused(p))
       /\ WF_vars(CommitSent(p) \/ CommitFailed(p))
  /\ WF_vars(DeadlockAborts)

LiveSpec == Spec /\ Fairness

-----------------------------------------------------------------------------
(* Properties *)

TypeOK ==
  /\ mode \in {"live", "dry_run"}
  /\ status \in [Items -> Statuses]
  /\ track \in [Items -> Tracks]
  /\ created \in [Items -> Nat]
  /\ cluster \in [Items -> {"other", "published"}]
  /\ pubs \in [Items -> Nat]
  /\ posts \in [Items -> Nat]
  /\ lock \in [Items -> Publishers \union {None}]
  /\ pc \in [Publishers -> Places]
  /\ todo \in [Publishers -> SUBSET Items]
  /\ cur \in [Publishers -> Items \union {None}]
  /\ copy \in [Publishers -> Statuses]
  /\ seen \in [Publishers -> {"none", "other", "published", "routed"}]
  /\ faults \in Nat

\* 1 when a session's post of item i is on the channel but not yet recorded.
InFlight(i) == IF \E p \in Publishers : pc[p] = "posted" /\ cur[p] = i THEN 1 ELSE 0

\* The lock of process_outbox_item spans the whole send: a session that is
\* sending an item holds its row lock, so two sends of one row never overlap.
SendsSerialised ==
  \A p \in Publishers : pc[p] \in Locked => cur[p] \in Items /\ lock[cur[p]] = p

\* Posts on the channel that nothing records or is about to record.
Unrecorded == [i \in Items |-> posts[i] - pubs[i] - InFlight(i)]

\* The ledger and the channel, whatever crashed or was retried.  Every
\* publications row, and every post about to be recorded, stands for a post of
\* its own; and the posts that nobody records are at most the faults so far, so
\* each lost record took a crash or a lost answer of its own.
LedgerBacked ==
  /\ \A i \in Items : pubs[i] + InFlight(i) <= posts[i]
  /\ MapThenSumSet(LAMBDA i : Unrecorded[i], Items) <= faults

\* How often a cluster may be posted, when sessions overlap and each works on
\* the status it loaded before it waited for the lock: at most once for every
\* session, and again as often for every fault.  A session that loads the row
\* after it was sent does not send it, however often it was retried.
RepeatsAreBounded ==
  \A i \in Items : posts[i] <= Cardinality(Publishers) * (faults + 1)

\* `sending' is flushed and never committed before the send, so no row is ever
\* found stuck in it and the unknown/reconcile protocol never engages.
NeverLeftSending ==
  \A i \in Items : status[i] \notin {"sending", "unknown"}

\* A cluster is posted at most once.
AtMostOncePost == \A i \in Items : posts[i] <= 1

\* Of clusters that are all similar, no more are published at the same time than
\* there are sessions to publish them, so one when the worker is alone: the
\* duplicate guard reads rows it does not lock, but a session that finds one of
\* them published sends no other.  A posted cluster that lost the status
\* `published' is not counted: the guard does not see it either.
SimilarPublishedBounded ==
  \A S \in SUBSET Items :
    (\A i, j \in S : i # j => <<i, j>> \in Similar) =>
      Cardinality({i \in S : cluster[i] = "published"}) <= Cardinality(Publishers)

\* In dry-run mode nothing reaches the channel and no publication is written.
DryRunNeverSends ==
  [][mode = "dry_run" => UNCHANGED <<posts, pubs>>]_vars

\* With a single publisher and no crash or lost answer the outbox keeps the
\* promise of PublishOnce: one post per cluster, each post recorded once.
Once == INSTANCE PublishOnce WITH Items <- Items, posts <- posts, pubs <- pubs
PublishesOnce == Once!Spec

\* While the deployment stays live, a pending batch row does not stay pending:
\* it is sent, failed, or cancelled, however often sessions die.
PendingIsProcessed ==
  <>[](mode = "live") =>
    \A i \in Items :
      (status[i] = "pending" /\ track[i] = "batch") ~> status[i] # "pending"

=============================================================================
