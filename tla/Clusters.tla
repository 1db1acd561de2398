------------------------------ MODULE Clusters ------------------------------
(***************************************************************************)
(* The life of a cluster, from its first message to the channel: the       *)
(* clustering task, the threshold, the AI task, the hold queue, the        *)
(* publication, the human reviewer and the operator's scripts, all writing *)
(* one row of the table clusters.                                          *)
(*                                                                         *)
(* The Celery worker has concurrency 1: its tasks run one at a time, and   *)
(* `job' says which one is running and where it is.  The admin panel and   *)
(* the scripts run beside it.  The variables hold COMMITTED rows; a step   *)
(* of a task is the code between two points where another process can      *)
(* change the rows it works on.  What a task loaded before such a point is *)
(* in `seen': the ORM writes an attribute only when the new value differs  *)
(* from the loaded one, whatever the row has become in between.            *)
(*                                                                         *)
(* How a row of publication_outbox is sent is the subject of Outbox.  Here *)
(* a sender's turn with a row is one step, but the status it acts on may   *)
(* be the one it loaded before another sender's turn.  Similarity and the  *)
(* model's answers are choices.                                            *)
(*                                                                         *)
(* A definition that no other one uses and that precedes its near-namesake *)
(* is a faulty variant of it; PROJECT.json names the property it breaks.   *)
(***************************************************************************)
EXTENDS Gating, Lineage

CONSTANTS
  Clusters,       (* the clusters followed; the others are `elsewhere'     *)
  Answers,        (* answers the model may give                            *)
  Nothing,        (* no cluster / no answer / no count                     *)
  AiLimit,        (* .limit(20) of process_cloud_ai                        *)
  Live,           (* PUBLISH_MODE is test or production, not dry_run       *)
  Operated,       (* TRUE: the reviewer and the scripts act                *)
  MaxFaults       (* bound on tasks that die or raise                      *)

ASSUME ClustersAssumption ==
  /\ IsFiniteSet(Clusters)
  /\ {"absent", "pending", "elsewhere"} \intersect Clusters = {}
  /\ Nothing \notin Clusters \union Answers \union Nat
  /\ Answers \subseteq AIClusterOutput
  /\ AiLimit \in Nat \ {0}
  /\ Live \in BOOLEAN
  /\ Operated \in BOOLEAN
  /\ MaxFaults \in Nat

VARIABLES
  home,      (* messages.cluster_id: "absent", "pending" (NULL), "elsewhere" *)
             (* (a cluster not followed) or the cluster                    *)
  status,    (* clusters.status, "none" before the row exists               *)
  locked,    (* clusters.locked_for_hold                                    *)
  indep,     (* clusters.independent_source_count                           *)
  analysed,  (* clusters.last_ai_processed_at is set                        *)
  aiCount,   (* clusters.ai_independent_source_count_at_run                 *)
  answer,    (* the latest ai_results row                                   *)
  hold,      (* hold_queue has a row                                        *)
  expired,   (* ... whose expires_at has passed                             *)
  outbox,    (* status of the initial publication_outbox row                *)
  pub,       (* publications row: "none", "posted", "retracted"             *)
  loaded,    (* clusters whose outbox row a sender has loaded as pending    *)
             (* and then waits for, while another one works on it           *)
  overwritten, (* history: clusters whose sent row was marked as failed     *)
  job,       (* the worker's task                                           *)
  inbox,     (* messages the clustering task has still to place             *)
  queue,     (* clusters the task has still to visit                        *)
  at,        (* the cluster it is working on                                *)
  msg,       (* the message it is placing                                   *)
  seen,      (* status and lock as loaded by the task                       *)
  faults

messages == <<home>>
row      == <<status, locked, indep, analysed, aiCount>>
others   == <<answer, hold, expired, outbox, pub, loaded, overwritten>>
task     == <<job, inbox, queue, at, msg, seen>>
vars     == <<home, status, locked, indep, analysed, aiCount, answer, hold,
              expired, outbox, pub, loaded, overwritten, job, inbox, queue, at,
              msg, seen, faults>>

Statuses == {"none", "pending", "scored", "below_threshold", "ai_ready", "ai_failed",
             "ai_done", "hold", "rejected", "published"}
Jobs     == {"idle", "clustering", "attaching", "judging", "analysing",
             "calling", "holds"}
OutboxStatuses == {"none", "pending", "dry_run", "sent", "failed", "cancelled"}

OpenStatuses == {"pending", "scored", "ai_done"}

Members(c) == {m \in Messages : home[m] = c}

\* The value an attribute has after the flush of a task that loaded `old' and
\* assigned `new' while the row came to hold `now'.
Flushed(old, new, now) == IF new = old THEN now ELSE new

NewOutboxQueued == "queued"

NewOutbox == IF Live THEN "pending" ELSE "dry_run"

\* What a task remembers of the rows it loaded.
Snapshot(S) ==
  [status |-> [c \in Clusters |-> IF c \in S THEN status[c] ELSE "none"],
   locked |-> [c \in Clusters |-> c \in S /\ locked[c]]]

NeedsAiRerun(c) == indep[c] # aiCount[c]

-----------------------------------------------------------------------------
Init ==
  /\ home     = [m \in Messages |-> "absent"]
  /\ status   = [c \in Clusters |-> "none"]
  /\ locked   = [c \in Clusters |-> FALSE]
  /\ indep    = [c \in Clusters |-> 0]
  /\ analysed = [c \in Clusters |-> FALSE]
  /\ aiCount  = [c \in Clusters |-> Nothing]
  /\ answer   = [c \in Clusters |-> Nothing]
  /\ hold     = [c \in Clusters |-> FALSE]
  /\ expired  = [c \in Clusters |-> FALSE]
  /\ outbox   = [c \in Clusters |-> "none"]
  /\ pub      = [c \in Clusters |-> "none"]
  /\ loaded   = {}
  /\ overwritten = {}
  /\ job      = "idle"
  /\ inbox    = {}
  /\ queue    = {}
  /\ at       = Nothing
  /\ msg      = Nothing
  /\ seen     = Snapshot({})
  /\ faults   = 0

(* fetch commits a new message *)
Arrive(m) ==
  /\ home[m] = "absent"
  /\ home' = [home EXCEPT ![m] = "pending"]
  /\ UNCHANGED <<row, others, task, faults>>

FinishTask ==
  /\ job'   = "idle"
  /\ inbox' = {}
  /\ queue' = {}
  /\ at'    = Nothing
  /\ msg'   = Nothing
  /\ seen'  = [status |-> [c \in Clusters |-> "none"], locked |-> [c \in Clusters |-> FALSE]]

-----------------------------------------------------------------------------
(* cluster_pending_messages *)

StartClusteringWarm ==
  /\ job = "idle"
  /\ \E m \in Messages : home[m] \notin {"absent", "pending"}
  /\ job'   = "clustering"
  /\ inbox' = {m \in Messages : home[m] = "pending"}
  /\ UNCHANGED <<messages, row, others, queue, at, msg, seen, faults>>

\* should_skip_clustering has ended its warm-up, and CLUSTER_BATCH_SIZE holds
\* every pending message.
StartClustering ==
  /\ job = "idle"
  /\ job'   = "clustering"
  /\ inbox' = {m \in Messages : home[m] = "pending"}
  /\ UNCHANGED <<messages, row, others, queue, at, msg, seen, faults>>

\* search_merge_target or find_published_merge_target chose c for m; the
\* reranker runs between loading c's row and locking it.
SearchTarget(m, c) ==
  /\ job = "clustering"
  /\ m \in inbox
  /\ status[c] \in OpenStatuses \/ (status[c] = "published" /\ pub[c] = "posted")
  /\ job'  = "attaching"
  /\ at'   = c
  /\ msg'  = m
  /\ seen' = Snapshot({c})
  /\ UNCHANGED <<messages, row, others, inbox, queue, faults>>

\* The commit that ends _process_message: m is in cluster c and the task goes
\* on with the other messages.  The session does not autoflush, so the count
\* is recalculated by queries that do not see m in c yet.
Place(m, c, count) ==
  /\ home'  = [home EXCEPT ![m] = c]
  /\ indep' = [indep EXCEPT ![c] = count]
  /\ job'   = "clustering"
  /\ inbox' = inbox \ {m}
  /\ at'    = Nothing
  /\ msg'   = Nothing
  /\ seen'  = Snapshot({})
  /\ UNCHANGED <<analysed, aiCount, answer, hold, expired, outbox, loaded, overwritten,
                 queue, faults>>

CountUnplaced(c) == indep[c]

CountBeforeFlush(c) == RecalculateIndependentSources(Members(c))

\* attach_message_to_cluster and score_cluster, under the row lock of c.
AttachOpen ==
  /\ job = "attaching"
  /\ seen.status[at] \in OpenStatuses
  /\ Place(msg, at, CountBeforeFlush(at))
  /\ status' = [status EXCEPT ![at] = Flushed(seen.status[at], "scored", @)]
  /\ UNCHANGED <<locked, pub>>

\* attach_message_to_cluster, process_supplemental, process_retraction_candidate:
\* a critical numeric change holds the cluster; otherwise a supplement may be
\* posted.  The message may then retract the story it joined, unless that was
\* just held, and the published story it replies to.
AttachPublished ==
  /\ job = "attaching"
  /\ seen.status[at] = "published"
  /\ Place(msg, at, CountBeforeFlush(at))
  /\ \E numeric \in BOOLEAN :
       /\ numeric => pub[at] = "posted" /\ answer[at] # Nothing
       /\ status' = [status EXCEPT ![at] = IF numeric THEN "hold" ELSE @]
       /\ locked' = [locked EXCEPT ![at] =
                       IF numeric THEN Flushed(seen.locked[at], TRUE, @) ELSE @]
       /\ \E replied \in Clusters :
            \E R \in SUBSET {c \in {at, replied} :
                            IF c = at THEN ~ numeric ELSE status[c] = "published"} :
              pub' = [c \in Clusters |->
                        IF c \in R /\ pub[c] # "none" THEN "retracted" ELSE pub[c]]

\* create_cluster_for_message and score_cluster.
CreateCluster(m, c) ==
  /\ job = "clustering"
  /\ m \in inbox
  /\ status[c] = "none"
  /\ Place(m, c, CountBeforeFlush(c))
  /\ status' = [status EXCEPT ![c] = "scored"]
  /\ UNCHANGED <<locked, pub>>

\* The same, into a cluster that is not one of Clusters.
PlaceElsewhere(m) ==
  /\ job = "clustering"
  /\ m \in inbox
  /\ home'  = [home EXCEPT ![m] = "elsewhere"]
  /\ inbox' = inbox \ {m}
  /\ UNCHANGED <<row, others, job, queue, at, msg, seen, faults>>

JudgeScored ==
  /\ job = "clustering"
  /\ inbox = {}
  /\ job'   = "judging"
  /\ queue' = {c \in Clusters : status[c] = "scored"}
  /\ UNCHANGED <<messages, row, others, inbox, at, msg, seen, faults>>

ThresholdPassedOnly ==
  /\ job = "judging"
  /\ \E passed \in SUBSET queue :
       status' = [c \in Clusters |-> IF c \in passed THEN "ai_ready" ELSE status[c]]
  /\ FinishTask
  /\ UNCHANGED <<messages, locked, indep, analysed, aiCount, others, faults>>

\* Each loaded cluster passes the threshold or does not.
CommitThreshold ==
  /\ job = "judging"
  /\ \E passed \in SUBSET queue :
       status' = [c \in Clusters |-> IF c \in passed THEN "ai_ready"
                                     ELSE IF c \in queue THEN "below_threshold"
                                     ELSE status[c]]
  /\ FinishTask
  /\ UNCHANGED <<messages, locked, indep, analysed, aiCount, others, faults>>

-----------------------------------------------------------------------------
\* reconcile_open_clusters, one transaction: in an open cluster the messages
\* outside the largest component of the similarity graph leave it, each into a
\* cluster of its own (one of Clusters, or "elsewhere").  The new cluster is
\* not scored, and its count is taken before its message is flushed.
ReconcileOpenClusters ==
  /\ job = "idle"
  /\ \E moved \in SUBSET {m \in Messages : home[m] \in Clusters /\ status[home[m]] \in OpenStatuses} :
     \E to \in [moved -> {c \in Clusters : status[c] = "none"} \union {"elsewhere"}] :
       LET split == {home[m] : m \in moved}
           new   == {to[m] : m \in moved} \intersect Clusters
       IN  /\ moved # {}
           /\ \A c \in split : ~ Members(c) \subseteq moved
           /\ \A m, n \in moved : m # n /\ to[m] = to[n] => to[m] = "elsewhere"
           /\ home'   = [m \in Messages |-> IF m \in moved THEN to[m] ELSE home[m]]
           /\ status' = [c \in Clusters |-> IF c \in new THEN "pending" ELSE status[c]]
           /\ indep'  = [c \in Clusters |->
                          IF c \in split
                          THEN RecalculateIndependentSources(Members(c) \ moved)
                          ELSE indep[c]]
  /\ UNCHANGED <<locked, analysed, aiCount, others, task, faults>>

-----------------------------------------------------------------------------
(* apply_publish_routing of an answer on cluster c; o is what becomes of the *)
(* item when it is sent at once                                              *)

Outcomes == {"sent", "failed", "cancelled"}

\* The fast track sends a row that exists.
SendsNow(c, track) == track = "fast" /\ Live /\ outbox[c] \in {"pending", "failed"}

\* A new row has no id yet when process_outbox_item looks for it: it raises.
Raises(c, track) == track = "fast" /\ Live /\ outbox[c] = "none"

RoutedStatusUnchecked(c, track, o) ==
  IF SendsNow(c, track) /\ o = "sent" THEN "published"
  ELSE IF SendsNow(c, track) /\ o = "cancelled" THEN "rejected"
  ELSE Flushed(seen.status[c], "ai_done", status[c])

RoutedStatus(c, track, o) ==
  IF track = "reject" THEN Flushed(seen.status[c], "rejected", status[c])
  ELSE IF SendsNow(c, track) /\ o = "sent" THEN "published"
  ELSE IF SendsNow(c, track) /\ o = "cancelled" THEN "rejected"
  ELSE Flushed(seen.status[c], "ai_done", status[c])

RoutedOutboxKept(c, track, o) ==
  IF track = "reject" \/ outbox[c] # "none" THEN outbox[c] ELSE NewOutbox

RoutedOutbox(c, track, o) ==
  IF track = "reject" THEN outbox[c]
  ELSE IF SendsNow(c, track) THEN o
  ELSE IF outbox[c] = "none" THEN NewOutbox
  ELSE outbox[c]

RoutedPub(c, track, o) ==
  IF SendsNow(c, track) /\ o = "sent" THEN "posted" ELSE pub[c]

(* process_cloud_ai *)

StartAnalysis ==
  LET ready == {c \in Clusters : status[c] = "ai_ready"}
  IN  /\ job = "idle"
      /\ \E S \in SUBSET ready :
           /\ Cardinality(S) = AiLimit \/ (S = ready /\ Cardinality(S) < AiLimit)
           /\ queue' = S
      /\ job' = "analysing"
      /\ UNCHANGED <<messages, row, others, inbox, at, msg, seen, faults>>

\* Held, or nothing new since the last analysis.  The status is not read again;
\* the rest is taken as it is when the loop reaches the cluster.
Skipped(c) == locked[c] \/ hold[c] \/ (analysed[c] /\ ~ NeedsAiRerun(c))

SkipCluster(c) ==
  /\ job = "analysing"
  /\ c \in queue
  /\ Skipped(c)
  /\ queue' = queue \ {c}
  /\ UNCHANGED <<messages, row, others, job, inbox, at, msg, seen, faults>>

CallModel(c) ==
  /\ job = "analysing"
  /\ c \in queue
  /\ ~ Skipped(c)
  /\ job'   = "calling"
  /\ queue' = queue \ {c}
  /\ at'    = c
  /\ seen'  = Snapshot({c})
  /\ UNCHANGED <<messages, row, others, inbox, msg, faults>>

BackToQueue ==
  /\ job'  = "analysing"
  /\ at'   = Nothing
  /\ seen' = Snapshot({})
  /\ UNCHANGED <<messages, expired, loaded, overwritten, indep, inbox, queue, msg, faults>>

ModelFailsUnmarked ==
  /\ job = "calling"
  /\ BackToQueue
  /\ UNCHANGED <<status, locked, analysed, aiCount, answer, hold, outbox, pub>>

ModelFails ==
  /\ job = "calling"
  /\ status' = [status EXCEPT ![at] = Flushed(seen.status[at], "ai_failed", @)]
  /\ BackToQueue
  /\ UNCHANGED <<locked, analysed, aiCount, answer, hold, outbox, pub>>

RecordAnswerOnly(a) ==
  /\ answer'   = [answer EXCEPT ![at] = a]
  /\ analysed' = [analysed EXCEPT ![at] = TRUE]
  /\ UNCHANGED aiCount

RecordAnswer(a) ==
  /\ answer'   = [answer EXCEPT ![at] = a]
  /\ analysed' = [analysed EXCEPT ![at] = TRUE]
  /\ aiCount'  = [aiCount EXCEPT ![at] = indep[at]]

LockWithoutHold ==
  /\ locked' = [locked EXCEPT ![at] = TRUE]
  /\ UNCHANGED hold

\* enqueue_hold: a new hold_queue row, whose expiry lies ahead.
EnqueueHold ==
  /\ hold'   = [hold EXCEPT ![at] = TRUE]
  /\ locked' = [locked EXCEPT ![at] = TRUE]

HoldAnswer(a) ==
  /\ job = "calling"
  /\ \E doubtful \in BOOLEAN : ShouldHoldForCluster(a, indep[at], doubtful)
  /\ RecordAnswer(a)
  /\ EnqueueHold
  /\ status' = [status EXCEPT ![at] = Flushed(seen.status[at], "hold", @)]
  /\ BackToQueue
  /\ UNCHANGED <<outbox, pub>>

RouteAnswer(a) ==
  LET track == RouteTrack(a, indep[at])
  IN  /\ job = "calling"
      /\ \E doubtful \in BOOLEAN : ~ ShouldHoldForCluster(a, indep[at], doubtful)
      /\ ~ Raises(at, track)
      /\ RecordAnswer(a)
      /\ \E o \in Outcomes :
           /\ status' = [status EXCEPT ![at] = RoutedStatus(at, track, o)]
           /\ outbox' = [outbox EXCEPT ![at] = RoutedOutbox(at, track, o)]
           /\ pub'    = [pub EXCEPT ![at] = RoutedPub(at, track, o)]
      /\ BackToQueue
      /\ UNCHANGED <<locked, hold>>

\* The exception leaves the task: its transaction, and the rest of its queue,
\* are gone.
RoutingRaises(a) ==
  /\ job = "calling"
  /\ \E doubtful \in BOOLEAN : ~ ShouldHoldForCluster(a, indep[at], doubtful)
  /\ Raises(at, RouteTrack(a, indep[at]))
  /\ FinishTask
  /\ UNCHANGED <<messages, row, others, faults>>

EndAnalysis ==
  /\ job = "analysing"
  /\ queue = {}
  /\ FinishTask
  /\ UNCHANGED <<messages, row, others, faults>>

-----------------------------------------------------------------------------
(* check_hold_confirmations: one transaction for every row of hold_queue *)

\* expires_at passes.
Expire(c) ==
  /\ hold[c]
  /\ expired' = [expired EXCEPT ![c] = TRUE]
  /\ UNCHANGED <<messages, row, answer, hold, outbox, pub, loaded, overwritten, task, faults>>

StartHoldCheck ==
  LET held == {c \in Clusters : hold[c]}
  IN  /\ job = "idle"
      /\ job'   = "holds"
      /\ queue' = held
      /\ seen'  = Snapshot(held)
      /\ UNCHANGED <<messages, row, others, inbox, at, msg, faults>>

Confirmed(c) == indep[c] >= HoldMinSources

\* promote_hold_cluster routes on the old answer: no new source since.
RoutedAgain(c) == Confirmed(c) /\ ~ NeedsAiRerun(c)

TrackAgain(c) == RouteTrack(answer[c], indep[c])

ReleasedConfirmed(c) == Confirmed(c)

Released(c) == Confirmed(c) \/ expired[c]

ReleasedStatus(c, o) ==
  IF RoutedAgain(c) THEN RoutedStatus(c, TrackAgain(c), o)
  ELSE Flushed(seen.status[c], IF Confirmed(c) THEN "ai_ready" ELSE "rejected", status[c])

\* Confirmed holds are promoted, the others rejected once expired; their rows
\* are deleted.
CheckHoldConfirmations ==
  LET released == {c \in queue : Released(c)}
  IN  /\ job = "holds"
      /\ \A c \in released : RoutedAgain(c) => ~ Raises(c, TrackAgain(c))
      /\ \E o \in [released -> Outcomes] :
           /\ status' = [c \in Clusters |->
                           IF c \in released THEN ReleasedStatus(c, o[c]) ELSE status[c]]
           /\ outbox' = [c \in Clusters |->
                           IF c \in released /\ RoutedAgain(c)
                           THEN RoutedOutbox(c, TrackAgain(c), o[c]) ELSE outbox[c]]
           /\ pub' = [c \in Clusters |->
                           IF c \in released /\ RoutedAgain(c)
                           THEN RoutedPub(c, TrackAgain(c), o[c]) ELSE pub[c]]
      /\ locked' = [c \in Clusters |->
                      IF c \in released THEN Flushed(seen.locked[c], FALSE, locked[c])
                      ELSE locked[c]]
      /\ analysed' = [c \in Clusters |->
                        analysed[c] /\ ~ (c \in released /\ Confirmed(c) /\ NeedsAiRerun(c))]
      /\ hold'    = [c \in Clusters |-> hold[c] /\ c \notin released]
      /\ expired' = [c \in Clusters |-> expired[c] /\ c \notin released]
      /\ FinishTask
      /\ UNCHANGED <<messages, indep, aiCount, answer, loaded, overwritten, faults>>

\* One hold whose fast row is new makes the task raise: no hold is released.
HoldCheckRaises ==
  /\ job = "holds"
  /\ \E c \in queue : RoutedAgain(c) /\ Raises(c, TrackAgain(c))
  /\ FinishTask
  /\ UNCHANGED <<messages, row, others, faults>>

-----------------------------------------------------------------------------
(* Beside the worker *)

\* process_outbox_item and its commit; it does not read the cluster's status.
ItemSent(c, o) ==
  /\ outbox' = [outbox EXCEPT ![c] = o]
  /\ status' = [status EXCEPT ![c] = CASE o = "sent" -> "published"
                                       [] o = "cancelled" -> "rejected"
                                       [] o = "failed" -> @]
  /\ pub' = [pub EXCEPT ![c] = IF o = "sent" THEN "posted" ELSE @]
  /\ overwritten' = overwritten \union {d \in {c} : outbox[d] = "sent" /\ o = "failed"}
  /\ UNCHANGED <<messages, locked, indep, analysed, aiCount, answer, hold, expired,
                 task, faults>>

Sendable(c) == outbox[c] = "pending" \/ (outbox[c] = "failed" /\ Operated)

\* publish_batch_queue between the worker's other tasks, or retry_publish.py
\* at any time, on a row nobody else works on.
Publish(c, o) ==
  /\ Live
  /\ job = "idle" \/ Operated
  /\ Sendable(c)
  /\ ItemSent(c, o)
  /\ UNCHANGED loaded

\* One of the two loads the row and waits for its lock ...
LoadRow(c) ==
  /\ Live /\ Operated
  /\ Sendable(c)
  /\ loaded' = loaded \union {c}
  /\ UNCHANGED <<messages, row, answer, hold, expired, outbox, pub, overwritten, task, faults>>

\* ... and decides on what it loaded, whatever the other one has committed.
PublishLoaded(c, o) ==
  /\ c \in loaded
  /\ ItemSent(c, o)
  /\ loaded' = loaded \ {c}

\* submit_review with one of REJECT_ACTIONS.
SubmitReview(c) ==
  /\ Operated
  /\ status[c] # "none"
  /\ status' = [status EXCEPT ![c] = "rejected"]
  /\ locked' = [locked EXCEPT ![c] = FALSE]
  /\ UNCHANGED <<messages, indep, analysed, aiCount, others, task, faults>>

\* scripts/reprocess_cluster.py; retry_ai_failed.py does it to every failed one.
Reprocess(S) ==
  /\ Operated
  /\ S # {}
  /\ status'   = [c \in Clusters |-> IF c \in S THEN "ai_ready" ELSE status[c]]
  /\ analysed' = [c \in Clusters |-> analysed[c] /\ c \notin S]
  /\ UNCHANGED <<messages, locked, indep, aiCount, others, task, faults>>

ReprocessCluster(c) == status[c] # "none" /\ Reprocess({c})

RetryAiFailed == Reprocess({c \in Clusters : status[c] = "ai_failed"})

\* The worker dies, or a task raises: its transaction rolls back.
TaskDies ==
  /\ job # "idle"
  /\ faults < MaxFaults
  /\ faults' = faults + 1
  /\ FinishTask
  /\ UNCHANGED <<messages, row, others>>

-----------------------------------------------------------------------------
ClusteringStep ==
  \/ \E m \in Messages, c \in Clusters : SearchTarget(m, c) \/ CreateCluster(m, c)
  \/ \E m \in Messages : PlaceElsewhere(m)
  \/ AttachOpen \/ AttachPublished \/ JudgeScored \/ CommitThreshold

AnalysisStep ==
  \/ \E c \in Clusters : SkipCluster(c) \/ CallModel(c)
  \/ \E a \in Answers : HoldAnswer(a) \/ RouteAnswer(a) \/ RoutingRaises(a)
  \/ ModelFails \/ EndAnalysis

HoldStep == CheckHoldConfirmations \/ HoldCheckRaises

Next ==
  \/ \E m \in Messages : Arrive(m)
  \/ StartClustering \/ ClusteringStep
  \/ StartAnalysis \/ AnalysisStep
  \/ StartHoldCheck \/ HoldStep
  \/ ReconcileOpenClusters
  \/ \E c \in Clusters : Expire(c) \/ SubmitReview(c) \/ ReprocessCluster(c)
  \/ \E c \in Clusters, o \in Outcomes : Publish(c, o) \/ PublishLoaded(c, o)
  \/ \E c \in Clusters : LoadRow(c)
  \/ RetryAiFailed
  \/ TaskDies

Spec == Init /\ [][Next]_vars

\* Beat keeps enqueueing every task and the worker takes them in turn; a
\* running task goes on; time passes.  The operator promises nothing.
Fairness ==
  /\ SF_vars(StartClustering) /\ WF_vars(ClusteringStep)
  /\ SF_vars(StartAnalysis)   /\ WF_vars(AnalysisStep)
  /\ SF_vars(StartHoldCheck)  /\ WF_vars(HoldStep)
  /\ \A c \in Clusters : WF_vars(Expire(c))

LiveSpec == Spec /\ Fairness

-----------------------------------------------------------------------------
(* Properties *)

TypeOK ==
  /\ home \in [Messages -> Clusters \union {"absent", "pending", "elsewhere"}]
  /\ status \in [Clusters -> Statuses]
  /\ locked \in [Clusters -> BOOLEAN]
  /\ indep \in [Clusters -> Nat]
  /\ analysed \in [Clusters -> BOOLEAN]
  /\ aiCount \in [Clusters -> Nat \union {Nothing}]
  /\ answer \in [Clusters -> Answers \union {Nothing}]
  /\ hold \in [Clusters -> BOOLEAN]
  /\ expired \in [Clusters -> BOOLEAN]
  /\ outbox \in [Clusters -> OutboxStatuses]
  /\ pub \in [Clusters -> {"none", "posted", "retracted"}]
  /\ loaded \subseteq Clusters
  /\ overwritten \subseteq Clusters
  /\ job \in Jobs
  /\ inbox \subseteq Messages
  /\ queue \subseteq Clusters
  /\ at \in Clusters \union {Nothing}
  /\ msg \in Messages \union {Nothing}
  /\ seen \in [status : [Clusters -> Statuses], locked : [Clusters -> BOOLEAN]]
  /\ faults \in Nat

\* A cluster marked ai_done is accounted for: its row waits to be sent or tried
\* again, or the story was cancelled as a duplicate or posted before, and then
\* nothing more goes out, because enqueue_initial gives the old row back.  No task
\* that writes back what it loaded earlier brings ai_done about alone.
DoneIsQueued ==
  \A c \in Clusters : status[c] = "ai_done" =>
    outbox[c] \in {"pending", "dry_run", "failed", "cancelled"} \/ pub[c] # "none"

\* A published cluster has been posted, and its row is closed unless a sender that
\* acted on an older copy of the row marked it as failed over sent: no review,
\* re-analysis, hold or split takes the two apart.
PublishedIsSent ==
  \A c \in Clusters : status[c] = "published" =>
    pub[c] # "none" /\ (outbox[c] = "sent" \/ c \in overwritten)

\* Every hold_queue row is for a cluster that was analysed, so promoting it
\* finds an answer to route and the count it was given for.
HoldIsAnswered ==
  \A c \in Clusters : hold[c] => answer[c] # Nothing /\ aiCount[c] # Nothing

\* A cluster locked without a hold_queue row was posted before: only a critical
\* numeric change in a story on the channel locks that way.
LockIsExplained ==
  \A c \in Clusters : locked[c] /\ ~ hold[c] => pub[c] # "none"

\* The count a cluster is judged by trails its messages by at most one: it is
\* the number of independent sources of all of them, or of all but one.
CountLagsByOne ==
  \A c \in Clusters : status[c] # "none" =>
    \E late \in SUBSET Members(c) :
      /\ Cardinality(late) <= 1
      /\ indep[c] = RecalculateIndependentSources(Members(c) \ late)

\* While a cluster is held, neither the batch nor the fast track posts it.
HeldIsNotPosted ==
  [][\A c \in Clusters : pub'[c] # pub[c] /\ pub'[c] = "posted" => ~ hold[c] /\ ~ locked[c]]_vars

\* Every message fetched finds its cluster, however often the tasks die.
MessageIsClustered ==
  \A m \in Messages : home[m] = "pending" ~> home[m] # "pending"

\* A scored cluster is judged against the threshold.
ScoredIsJudged ==
  \A c \in Clusters : status[c] = "scored" ~> status[c] # "scored"

\* A cluster ready for analysis with something new is analysed, or marked as
\* failed, unless ready clusters that are skipped fill the whole limit of the
\* task's query: those stay ready for ever and are selected again and again.
ReadyIsAnalysed ==
  \A c \in Clusters :
    status[c] = "ai_ready" /\ ~ Skipped(c) ~>
      \/ status[c] # "ai_ready" \/ Skipped(c)
      \/ Cardinality({d \in Clusters : status[d] = "ai_ready" /\ Skipped(d)}) >= AiLimit

\* A hold ends: it is confirmed or it expires.
HoldIsReleased ==
  \A c \in Clusters : hold[c] ~> ~ hold[c]

=============================================================================
