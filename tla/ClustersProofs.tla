----------------------------- MODULE ClustersProofs -----------------------------
(***************************************************************************)
(* Theorems about Clusters, for any number of messages and clusters, any   *)
(* thresholds and answers, with and without the reviewer and the scripts.  *)
(* What a task does to a row between two of its steps is not visible in    *)
(* the committed rows, so the invariants about status, lock and count need *)
(* the facts of WorkInv about the task that is running.                    *)
(***************************************************************************)
EXTENDS Clusters, LineageProofs

-----------------------------------------------------------------------------
(* Types. *)

Assumptions == LineageAssumption /\ ClustersAssumption

\* Where the task is.
WorkInv ==
  /\ job \in {"attaching", "calling"} => at \in Clusters
  /\ job = "attaching" => msg \in Messages

Typed == TypeOK /\ WorkInv

LEMMA SnapshotType ==
  ASSUME TypeOK, NEW S
  PROVE  Snapshot(S) \in [status : [Clusters -> Statuses], locked : [Clusters -> BOOLEAN]]
  BY DEF Snapshot, TypeOK, Statuses

LEMMA FlushedType ==
  ASSUME NEW T, NEW old, NEW new \in T, NEW now \in T
  PROVE  Flushed(old, new, now) \in T
  BY DEF Flushed

LEMMA MembersType == \A c : Members(c) \in SUBSET Messages
  BY DEF Members

LEMMA FinishTyped ==
  ASSUME FinishTask
  PROVE  /\ job' \in Jobs /\ job' = "idle" /\ inbox' \subseteq Messages /\ queue' \subseteq Clusters
         /\ at' \in Clusters \union {Nothing} /\ msg' \in Messages \union {Nothing}
         /\ seen' \in [status : [Clusters -> Statuses], locked : [Clusters -> BOOLEAN]]
  BY DEF FinishTask, Jobs, Statuses

LEMMA PlaceTyped ==
  ASSUME Assumptions, TypeOK, NEW m \in Messages, NEW c \in Clusters, NEW n \in Nat, Place(m, c, n)
  PROVE  /\ home' \in [Messages -> Clusters \union {"absent", "pending", "elsewhere"}]
         /\ indep' \in [Clusters -> Nat]
         /\ job' = "clustering" /\ job' \in Jobs /\ inbox' \subseteq Messages
         /\ at' = Nothing /\ msg' = Nothing
         /\ seen' \in [status : [Clusters -> Statuses], locked : [Clusters -> BOOLEAN]]
         /\ analysed' = analysed /\ aiCount' = aiCount /\ answer' = answer /\ hold' = hold
         /\ expired' = expired /\ outbox' = outbox /\ queue' = queue /\ faults' = faults
         /\ loaded' = loaded /\ overwritten' = overwritten
<1>1. seen' \in [status : [Clusters -> Statuses], locked : [Clusters -> BOOLEAN]]
  BY SnapshotType DEF Place
<1>2. QED BY <1>1 DEF Place, TypeOK, Jobs

\* A published cluster gets a message: whether its numbers contradict the story,
\* and the stories R that it retracts.
Attached(numeric, R) ==
  /\ numeric => pub[at] = "posted"
  /\ status' = [status EXCEPT ![at] = IF numeric THEN "hold" ELSE @]
  /\ locked' = [locked EXCEPT ![at] =
                  IF numeric THEN Flushed(seen.locked[at], TRUE, @) ELSE @]
  /\ pub' = [c \in Clusters |->
               IF c \in R /\ pub[c] # "none" THEN "retracted" ELSE pub[c]]

LEMMA AttachPublishedShape ==
  ASSUME AttachPublished
  PROVE  \E numeric, R : numeric \in BOOLEAN /\ Attached(numeric, R)
<1>1. \E numeric \in BOOLEAN : \E R : Attached(numeric, R)
  BY Zenon DEF AttachPublished, Attached
<1>2. QED BY <1>1

LEMMA ClusteringTyped ==
  ASSUME Assumptions, Typed, ClusteringStep
  PROVE  Typed'
<1> USE DEF messages, row, others, task
<1>0. TypeOK /\ WorkInv
  BY DEF Typed
<1>1. ASSUME NEW m \in Messages, NEW c \in Clusters, SearchTarget(m, c)
      PROVE  Typed'
  <2>1. seen' \in [status : [Clusters -> Statuses], locked : [Clusters -> BOOLEAN]]
    BY <1>0, <1>1, SnapshotType DEF SearchTarget
  <2>2. QED BY <1>0, <1>1, <2>1 DEF SearchTarget, Typed, TypeOK, WorkInv, Jobs
<1>2. \A c \in Clusters : CountBeforeFlush(c) \in Nat
  BY CountIsNat, MembersType DEF CountBeforeFlush, Assumptions
<1>3. ASSUME NEW m \in Messages, NEW c \in Clusters, CreateCluster(m, c)
      PROVE  Typed'
  <2>1. status' \in [Clusters -> Statuses]
    BY <1>0, <1>3 DEF CreateCluster, TypeOK, Statuses
  <2>2. Place(m, c, CountBeforeFlush(c))
    BY <1>3 DEF CreateCluster
  <2>3. QED BY <1>0, <1>2, <1>3, <2>1, <2>2, PlaceTyped DEF CreateCluster, Typed, TypeOK, WorkInv
<1>4. ASSUME NEW m \in Messages, PlaceElsewhere(m)
      PROVE  Typed'
  BY <1>0, <1>4 DEF PlaceElsewhere, Typed, TypeOK, WorkInv
<1>5. CASE AttachOpen
  <2>1. at \in Clusters /\ msg \in Messages /\ Place(msg, at, CountBeforeFlush(at))
    BY <1>0, <1>5 DEF AttachOpen, WorkInv
  <2>2. status' \in [Clusters -> Statuses]
    BY <1>0, <1>5, <2>1 DEF AttachOpen, TypeOK, Flushed, Statuses
  <2>3. QED BY <1>0, <1>2, <1>5, <2>1, <2>2, PlaceTyped DEF AttachOpen, Typed, TypeOK, WorkInv
<1>6. CASE AttachPublished
  <2>1. at \in Clusters /\ msg \in Messages /\ Place(msg, at, CountBeforeFlush(at))
    BY <1>0, <1>6 DEF AttachPublished, WorkInv
  <2>2. PICK numeric, R : numeric \in BOOLEAN /\ Attached(numeric, R)
    BY <1>6, AttachPublishedShape, Zenon
  <2>3. status' \in [Clusters -> Statuses] /\ locked' \in [Clusters -> BOOLEAN]
        /\ pub' \in [Clusters -> {"none", "posted", "retracted"}]
    BY <1>0, <2>1, <2>2 DEF Attached, TypeOK, Flushed, Statuses
  <2>4. QED BY <1>0, <1>2, <2>1, <2>3, PlaceTyped DEF Typed, TypeOK, WorkInv
<1>7. CASE JudgeScored
  BY <1>0, <1>7 DEF JudgeScored, Typed, TypeOK, WorkInv, Jobs
<1>8. CASE CommitThreshold
  <2>1. status' \in [Clusters -> Statuses]
    BY <1>0, <1>8 DEF CommitThreshold, TypeOK, Statuses
  <2>2. FinishTask
    BY <1>8 DEF CommitThreshold
  <2>3. QED BY <1>0, <1>8, <2>1, <2>2, FinishTyped DEF CommitThreshold, Typed, TypeOK, WorkInv
<1>9. QED BY <1>1, <1>3, <1>4, <1>5, <1>6, <1>7, <1>8 DEF ClusteringStep

LEMMA BackTyped ==
  ASSUME TypeOK, BackToQueue
  PROVE  /\ job' = "analysing" /\ job' \in Jobs /\ at' = Nothing
         /\ seen' \in [status : [Clusters -> Statuses], locked : [Clusters -> BOOLEAN]]
  BY SnapshotType DEF BackToQueue, Jobs

LEMMA RoutedTyped ==
  ASSUME TypeOK, NEW c \in Clusters, NEW track, NEW o \in Outcomes
  PROVE  /\ RoutedStatus(c, track, o) \in Statuses
         /\ RoutedOutbox(c, track, o) \in OutboxStatuses
         /\ RoutedPub(c, track, o) \in {"none", "posted", "retracted"}
<1>1. RoutedStatus(c, track, o) \in Statuses
  BY DEF RoutedStatus, TypeOK, Flushed, Statuses
<1>2. RoutedOutbox(c, track, o) \in OutboxStatuses
  BY DEF RoutedOutbox, NewOutbox, TypeOK, Outcomes, OutboxStatuses
<1>3. RoutedPub(c, track, o) \in {"none", "posted", "retracted"}
  BY DEF RoutedPub, TypeOK
<1>4. QED BY <1>1, <1>2, <1>3

LEMMA AnswerTyped ==
  ASSUME TypeOK, at \in Clusters, NEW a \in Answers, RecordAnswer(a)
  PROVE  /\ answer' \in [Clusters -> Answers \union {Nothing}]
         /\ analysed' \in [Clusters -> BOOLEAN]
         /\ aiCount' \in [Clusters -> Nat \union {Nothing}]
  BY DEF RecordAnswer, TypeOK

LEMMA AnalysisTyped ==
  ASSUME Assumptions, Typed, AnalysisStep
  PROVE  Typed'
<1> USE DEF messages, row, others, task
<1>0. TypeOK /\ WorkInv
  BY DEF Typed
<1>1. ASSUME NEW c \in Clusters, SkipCluster(c)
      PROVE  Typed'
  BY <1>0, <1>1 DEF SkipCluster, Typed, TypeOK, WorkInv
<1>2. ASSUME NEW c \in Clusters, CallModel(c)
      PROVE  Typed'
  <2>1. seen' \in [status : [Clusters -> Statuses], locked : [Clusters -> BOOLEAN]]
    BY <1>0, <1>2, SnapshotType DEF CallModel
  <2>2. QED BY <1>0, <1>2, <2>1 DEF CallModel, Typed, TypeOK, WorkInv, Jobs
<1>3. CASE ModelFails
  <2>1. BackToQueue /\ at \in Clusters
    BY <1>0, <1>3 DEF ModelFails, WorkInv
  <2>2. status' \in [Clusters -> Statuses]
    BY <1>0, <1>3, <2>1 DEF ModelFails, TypeOK, Flushed, Statuses
  <2>3. QED BY <1>0, <1>3, <2>1, <2>2, BackTyped
            DEF ModelFails, BackToQueue, Typed, TypeOK, WorkInv
<1>4. ASSUME NEW a \in Answers, HoldAnswer(a)
      PROVE  Typed'
  <2>1. BackToQueue /\ at \in Clusters /\ RecordAnswer(a)
    BY <1>0, <1>4 DEF HoldAnswer, WorkInv
  <2>2. status' \in [Clusters -> Statuses] /\ hold' \in [Clusters -> BOOLEAN]
        /\ locked' \in [Clusters -> BOOLEAN]
    BY <1>0, <1>4, <2>1 DEF HoldAnswer, EnqueueHold, TypeOK, Flushed, Statuses
  <2>3. QED BY <1>0, <1>4, <2>1, <2>2, BackTyped, AnswerTyped
            DEF HoldAnswer, BackToQueue, Typed, TypeOK, WorkInv
<1>5. ASSUME NEW a \in Answers, RouteAnswer(a)
      PROVE  Typed'
  <2> DEFINE track == RouteTrack(a, indep[at])
  <2>1. BackToQueue /\ at \in Clusters /\ RecordAnswer(a)
    BY <1>0, <1>5 DEF RouteAnswer, WorkInv
  <2>2. PICK o \in Outcomes :
          /\ status' = [status EXCEPT ![at] = RoutedStatus(at, track, o)]
          /\ outbox' = [outbox EXCEPT ![at] = RoutedOutbox(at, track, o)]
          /\ pub'    = [pub EXCEPT ![at] = RoutedPub(at, track, o)]
    BY <1>5 DEF RouteAnswer
  <2>3. /\ RoutedStatus(at, track, o) \in Statuses
        /\ RoutedOutbox(at, track, o) \in OutboxStatuses
        /\ RoutedPub(at, track, o) \in {"none", "posted", "retracted"}
    BY <1>0, <2>1, RoutedTyped
  <2> HIDE DEF track
  <2>4. /\ status' \in [Clusters -> Statuses] /\ outbox' \in [Clusters -> OutboxStatuses]
        /\ pub' \in [Clusters -> {"none", "posted", "retracted"}]
    BY <1>0, <2>2, <2>3 DEF TypeOK
  <2>5. QED BY <1>0, <1>5, <2>1, <2>4, BackTyped, AnswerTyped
            DEF RouteAnswer, BackToQueue, Typed, TypeOK, WorkInv
<1>6. ASSUME NEW a \in Answers, RoutingRaises(a)
      PROVE  Typed'
  BY <1>0, <1>6, FinishTyped DEF RoutingRaises, Typed, TypeOK, WorkInv
<1>7. CASE EndAnalysis
  BY <1>0, <1>7, FinishTyped DEF EndAnalysis, Typed, TypeOK, WorkInv
<1>8. QED BY <1>1, <1>2, <1>3, <1>4, <1>5, <1>6, <1>7 DEF AnalysisStep

LEMMA HoldsTyped ==
  ASSUME Assumptions, Typed, HoldStep
  PROVE  Typed'
<1> USE DEF messages, row, others, task
<1>0. TypeOK /\ WorkInv
  BY DEF Typed
<1>1. CASE CheckHoldConfirmations
  <2> DEFINE released == {c \in queue : Released(c)}
  <2>1. PICK o \in [released -> Outcomes] :
           /\ status' = [c \in Clusters |->
                           IF c \in released THEN ReleasedStatus(c, o[c]) ELSE status[c]]
           /\ outbox' = [c \in Clusters |->
                           IF c \in released /\ RoutedAgain(c)
                           THEN RoutedOutbox(c, TrackAgain(c), o[c]) ELSE outbox[c]]
           /\ pub' = [c \in Clusters |->
                           IF c \in released /\ RoutedAgain(c)
                           THEN RoutedPub(c, TrackAgain(c), o[c]) ELSE pub[c]]
    BY <1>1, Zenon DEF CheckHoldConfirmations
  <2>2. ASSUME NEW c \in Clusters, c \in released
        PROVE  /\ ReleasedStatus(c, o[c]) \in Statuses
               /\ RoutedOutbox(c, TrackAgain(c), o[c]) \in OutboxStatuses
               /\ RoutedPub(c, TrackAgain(c), o[c]) \in {"none", "posted", "retracted"}
    <3>1. o[c] \in Outcomes
      BY <2>1, <2>2
    <3>2. /\ RoutedStatus(c, TrackAgain(c), o[c]) \in Statuses
          /\ RoutedOutbox(c, TrackAgain(c), o[c]) \in OutboxStatuses
          /\ RoutedPub(c, TrackAgain(c), o[c]) \in {"none", "posted", "retracted"}
      BY <1>0, <3>1, RoutedTyped
    <3>3. Flushed(seen.status[c], IF Confirmed(c) THEN "ai_ready" ELSE "rejected", status[c]) \in Statuses
      BY <1>0 DEF Flushed, TypeOK, Statuses
    <3>4. QED BY <3>2, <3>3 DEF ReleasedStatus
  <2> HIDE DEF released
  <2>3. /\ status' \in [Clusters -> Statuses] /\ outbox' \in [Clusters -> OutboxStatuses]
        /\ pub' \in [Clusters -> {"none", "posted", "retracted"}]
    BY <1>0, <2>1, <2>2 DEF TypeOK
  <2>4. /\ locked' \in [Clusters -> BOOLEAN] /\ analysed' \in [Clusters -> BOOLEAN]
        /\ hold' \in [Clusters -> BOOLEAN] /\ expired' \in [Clusters -> BOOLEAN]
    BY <1>0, <1>1 DEF CheckHoldConfirmations, TypeOK, Flushed
  <2>5. FinishTask /\ UNCHANGED <<messages, indep, aiCount, answer, loaded, overwritten, faults>>
    BY <1>1 DEF CheckHoldConfirmations
  <2>6. QED BY <1>0, <2>3, <2>4, <2>5, FinishTyped DEF Typed, TypeOK, WorkInv
<1>2. CASE HoldCheckRaises
  BY <1>0, <1>2, FinishTyped DEF HoldCheckRaises, Typed, TypeOK, WorkInv
<1>3. QED BY <1>1, <1>2 DEF HoldStep

Movable == {m \in Messages : home[m] \in Clusters /\ status[home[m]] \in OpenStatuses}

NewHomes == {c \in Clusters : status[c] = "none"} \union {"elsewhere"}

\* What the reconciliation does when it moves some messages to some clusters.
Reconciled(moved, to) ==
  /\ \A m, n \in moved : m # n /\ to[m] = to[n] => to[m] = "elsewhere"
  /\ home'   = [m \in Messages |-> IF m \in moved THEN to[m] ELSE home[m]]
  /\ status' = [c \in Clusters |-> IF c \in {to[m] : m \in moved} \intersect Clusters
                                   THEN "pending" ELSE status[c]]
  /\ indep'  = [c \in Clusters |->
                 IF c \in {home[m] : m \in moved}
                 THEN RecalculateIndependentSources(Members(c) \ moved)
                 ELSE indep[c]]

LEMMA ReconcileShape ==
  ASSUME ReconcileOpenClusters
  PROVE  \E moved \in SUBSET Movable : \E to \in [moved -> NewHomes] : Reconciled(moved, to)
  BY Zenon DEF ReconcileOpenClusters, Movable, NewHomes, Reconciled

LEMMA ReconcileTyped ==
  ASSUME Assumptions, Typed, ReconcileOpenClusters
  PROVE  Typed'
<1> USE DEF messages, row, others, task
<1>0. TypeOK /\ WorkInv
  BY DEF Typed
<1>a. PICK moved \in SUBSET Movable : \E to \in [moved -> NewHomes] : Reconciled(moved, to)
  BY ReconcileShape, Zenon
<1>1. PICK to \in [moved -> NewHomes] : Reconciled(moved, to)
  BY <1>a
<1>2. /\ home'   = [m \in Messages |-> IF m \in moved THEN to[m] ELSE home[m]]
      /\ status' = [c \in Clusters |-> IF c \in {to[m] : m \in moved} \intersect Clusters
                                       THEN "pending" ELSE status[c]]
      /\ indep'  = [c \in Clusters |->
                     IF c \in {home[m] : m \in moved}
                     THEN RecalculateIndependentSources(Members(c) \ moved)
                     ELSE indep[c]]
      /\ NewHomes \subseteq Clusters \union {"elsewhere"}
  BY <1>1, Zenon DEF Reconciled, NewHomes
<1>3. home' \in [Messages -> Clusters \union {"absent", "pending", "elsewhere"}]
  BY <1>0, <1>2 DEF TypeOK
<1>4. status' \in [Clusters -> Statuses]
  BY <1>0, <1>2 DEF TypeOK, Statuses
<1>5. \A c \in Clusters : RecalculateIndependentSources(Members(c) \ moved) \in Nat
  BY CountIsNat, MembersType DEF Assumptions
<1>6. indep' \in [Clusters -> Nat]
  BY <1>0, <1>2, <1>5 DEF TypeOK
<1>7. QED BY <1>0, <1>3, <1>4, <1>6 DEF ReconcileOpenClusters, Typed, TypeOK, WorkInv

LEMMA NextTyped ==
  ASSUME Assumptions, Typed, [Next]_vars
  PROVE  Typed'
<1> USE DEF messages, row, others, task
<1>0. TypeOK /\ WorkInv
  BY DEF Typed
<1>1. ASSUME NEW m \in Messages, Arrive(m)
      PROVE  Typed'
  BY <1>0, <1>1 DEF Arrive, Typed, TypeOK, WorkInv
<1>2. CASE StartClustering
  BY <1>0, <1>2 DEF StartClustering, Typed, TypeOK, WorkInv, Jobs
<1>3. CASE StartAnalysis
  BY <1>0, <1>3 DEF StartAnalysis, Typed, TypeOK, WorkInv, Jobs
<1>4. CASE StartHoldCheck
  <2>1. seen' \in [status : [Clusters -> Statuses], locked : [Clusters -> BOOLEAN]]
    BY <1>0, <1>4, SnapshotType DEF StartHoldCheck
  <2>2. QED BY <1>0, <1>4, <2>1 DEF StartHoldCheck, Typed, TypeOK, WorkInv, Jobs
<1>5. ASSUME NEW c \in Clusters, Expire(c)
      PROVE  Typed'
  BY <1>0, <1>5 DEF Expire, Typed, TypeOK, WorkInv
<1>6. ASSUME NEW c \in Clusters, SubmitReview(c)
      PROVE  Typed'
  BY <1>0, <1>6 DEF SubmitReview, Typed, TypeOK, WorkInv, Statuses
<1>7. ASSUME NEW S, Reprocess(S)
      PROVE  Typed'
  BY <1>0, <1>7 DEF Reprocess, Typed, TypeOK, WorkInv, Statuses
<1>8. ASSUME NEW c \in Clusters, LoadRow(c) \/ \E o \in Outcomes : Publish(c, o) \/ PublishLoaded(c, o)
      PROVE  Typed'
  <2>1. CASE LoadRow(c)
    BY <1>0, <2>1 DEF LoadRow, Typed, TypeOK, WorkInv
  <2>2. ASSUME NEW o \in Outcomes, ItemSent(c, o), loaded' \subseteq loaded
        PROVE  Typed'
    BY <1>0, <2>2 DEF ItemSent, Typed, TypeOK, WorkInv, Statuses, Outcomes, OutboxStatuses
  <2>3. QED BY <1>8, <2>1, <2>2 DEF Publish, PublishLoaded
<1>9. CASE TaskDies
  BY <1>0, <1>9, FinishTyped DEF TaskDies, Typed, TypeOK, WorkInv
<1>10. CASE UNCHANGED vars
  BY <1>0, <1>10 DEF vars, Typed, TypeOK, WorkInv
<1>11. QED
  BY <1>1, <1>2, <1>3, <1>4, <1>5, <1>6, <1>7, <1>8, <1>9, <1>10, ClusteringTyped, AnalysisTyped,
     HoldsTyped, ReconcileTyped
  DEF Next, ReprocessCluster, RetryAiFailed

-----------------------------------------------------------------------------
(* The steps that write to the followed clusters. *)

Still ==
  UNCHANGED <<status, locked, indep, analysed, aiCount, answer, hold, outbox, pub, overwritten>>

Writes ==
  \/ \E m \in Messages, c \in Clusters : CreateCluster(m, c)
  \/ AttachOpen \/ AttachPublished \/ CommitThreshold \/ ModelFails
  \/ \E a \in Answers : HoldAnswer(a) \/ RouteAnswer(a)
  \/ CheckHoldConfirmations \/ ReconcileOpenClusters
  \/ \E c \in Clusters : SubmitReview(c)
  \/ \E S : Reprocess(S)
  \/ \E c \in Clusters, o \in Outcomes : ItemSent(c, o)

LEMMA StillOrWrites ==
  ASSUME [Next]_vars PROVE Still \/ Writes
<1> USE DEF Still, messages, row, others, task
<1>1. ClusteringStep => Still \/ Writes
  BY DEF ClusteringStep, SearchTarget, PlaceElsewhere, JudgeScored, Writes
<1>2. AnalysisStep => Still \/ Writes
  BY DEF AnalysisStep, SkipCluster, CallModel, RoutingRaises, EndAnalysis, Writes
<1>3. HoldStep => Still \/ Writes
  BY DEF HoldStep, HoldCheckRaises, Writes
<1>4. (\E m \in Messages : Arrive(m)) \/ StartClustering \/ StartAnalysis \/ StartHoldCheck
        \/ (\E c \in Clusters : Expire(c) \/ LoadRow(c)) \/ TaskDies \/ UNCHANGED vars => Still
  BY DEF Arrive, StartClustering, StartAnalysis, StartHoldCheck, Expire, LoadRow, TaskDies, vars
<1>5. (\E c \in Clusters : SubmitReview(c) \/ ReprocessCluster(c)) \/ RetryAiFailed
        \/ (\E c \in Clusters, o \in Outcomes : Publish(c, o) \/ PublishLoaded(c, o)) => Writes
  BY DEF Writes, ReprocessCluster, RetryAiFailed, Publish, PublishLoaded
<1>6. QED BY <1>1, <1>2, <1>3, <1>4, <1>5 DEF Next, Writes

\* Each hold of the check is released with some outcome of sending it, or kept.
HoldsChecked(released, o) ==
  /\ status' = [c \in Clusters |->
                  IF c \in released THEN ReleasedStatus(c, o[c]) ELSE status[c]]
  /\ outbox' = [c \in Clusters |->
                  IF c \in released /\ RoutedAgain(c)
                  THEN RoutedOutbox(c, TrackAgain(c), o[c]) ELSE outbox[c]]
  /\ pub' = [c \in Clusters |->
                  IF c \in released /\ RoutedAgain(c)
                  THEN RoutedPub(c, TrackAgain(c), o[c]) ELSE pub[c]]
  /\ locked' = [c \in Clusters |->
                  IF c \in released THEN Flushed(seen.locked[c], FALSE, locked[c])
                  ELSE locked[c]]

LEMMA HoldCheckShape ==
  ASSUME CheckHoldConfirmations
  PROVE  \E released \in SUBSET queue : \E o \in [released -> Outcomes] : HoldsChecked(released, o)
<1> DEFINE released == {c \in queue : Released(c)}
<1>1. released \in SUBSET queue
  OBVIOUS
<1>2. \E o \in [released -> Outcomes] : HoldsChecked(released, o)
  BY Zenon DEF CheckHoldConfirmations, HoldsChecked
<1>3. QED BY <1>1, <1>2, Zenon

-----------------------------------------------------------------------------
(* Done clusters are queued, published ones are sent. *)

\* A row that is sent was posted, so a done cluster's row may be sent; a published
\* cluster's row is sent unless a stale sender marked it as failed.
Sound(s, box, p, over) ==
  /\ s = "ai_done" => box \in {"pending", "dry_run", "failed", "cancelled"} \/ p # "none"
  /\ s = "published" => p # "none" /\ (box = "sent" \/ over)
  /\ box = "sent" => p # "none"

RowsSound == \A c \in Clusters : Sound(status[c], outbox[c], pub[c], c \in overwritten)

LEMMA RowsSoundMeans == RowsSound => DoneIsQueued /\ PublishedIsSent
  BY DEF RowsSound, Sound, DoneIsQueued, PublishedIsSent

LEMMA RoutedSound ==
  ASSUME TypeOK, NEW c \in Clusters, NEW track, NEW o \in Outcomes, NEW over,
         Sound(status[c], outbox[c], pub[c], over)
  PROVE  Sound(RoutedStatus(c, track, o), RoutedOutbox(c, track, o), RoutedPub(c, track, o), over)
<1>0. outbox[c] \in OutboxStatuses
  BY DEF TypeOK
<1>1. CASE track = "reject"
  BY <1>1 DEF Sound, RoutedStatus, RoutedOutbox, RoutedPub, SendsNow, Flushed
<1>2. CASE SendsNow(c, track)
  BY <1>2 DEF Sound, RoutedStatus, RoutedOutbox, RoutedPub, SendsNow, Flushed, Outcomes
<1>3. CASE track # "reject" /\ ~ SendsNow(c, track)
  BY <1>0, <1>3 DEF Sound, RoutedStatus, RoutedOutbox, RoutedPub, Flushed, NewOutbox, OutboxStatuses
<1>4. QED BY <1>1, <1>2, <1>3

\* A step that sends nothing and makes no cluster done or published.
LEMMA QuietSound ==
  ASSUME RowsSound, outbox' = outbox, overwritten' = overwritten,
         \A c \in Clusters : pub[c] # "none" => pub'[c] # "none",
         \A c \in Clusters : status'[c] \in {"ai_done", "published"} => status'[c] = status[c]
  PROVE  RowsSound'
  BY DEF RowsSound, Sound

LEMMA NextSound ==
  ASSUME Assumptions, Typed, RowsSound, [Next]_vars
  PROVE  RowsSound'
<1> USE DEF messages, row, others, task
<1>0. TypeOK /\ WorkInv
  BY DEF Typed
<1>1. CASE Still
  BY <1>1 DEF Still, RowsSound
<1>2. ASSUME NEW m \in Messages, NEW c \in Clusters, CreateCluster(m, c)
      PROVE  RowsSound'
  BY <1>0, <1>2, QuietSound DEF CreateCluster, Place, TypeOK
<1>3. CASE AttachOpen
  BY <1>0, <1>3, QuietSound DEF AttachOpen, Place, TypeOK, Flushed
<1>4. CASE AttachPublished
  <2>1. PICK numeric, R : numeric \in BOOLEAN /\ Attached(numeric, R)
    BY <1>4, AttachPublishedShape, Zenon
  <2>2. outbox' = outbox /\ overwritten' = overwritten
    BY <1>4 DEF AttachPublished, Place
  <2>3. QED BY <1>0, <2>1, <2>2, QuietSound DEF Attached, TypeOK
<1>5. CASE CommitThreshold
  <2>1. outbox' = outbox /\ pub' = pub /\ overwritten' = overwritten
        /\ \A c \in Clusters : status'[c] \in {"ai_ready", "below_threshold", status[c]}
    BY <1>5 DEF CommitThreshold
  <2>2. QED BY <2>1, QuietSound
<1>6. CASE ModelFails
  BY <1>0, <1>6, QuietSound DEF ModelFails, BackToQueue, Flushed, TypeOK
<1>7. ASSUME NEW a \in Answers, HoldAnswer(a)
      PROVE  RowsSound'
  BY <1>0, <1>7, QuietSound DEF HoldAnswer, BackToQueue, Flushed, TypeOK
<1>8. ASSUME NEW a \in Answers, RouteAnswer(a)
      PROVE  RowsSound'
  <2> DEFINE track == RouteTrack(a, indep[at])
  <2>1. at \in Clusters
    BY <1>0, <1>8 DEF RouteAnswer, WorkInv
  <2>2. PICK o \in Outcomes :
          /\ status' = [status EXCEPT ![at] = RoutedStatus(at, track, o)]
          /\ outbox' = [outbox EXCEPT ![at] = RoutedOutbox(at, track, o)]
          /\ pub'    = [pub EXCEPT ![at] = RoutedPub(at, track, o)]
    BY <1>8 DEF RouteAnswer
  <2>3. Sound(status[at], outbox[at], pub[at], at \in overwritten)
    BY <2>1 DEF RowsSound
  <2>4. Sound(RoutedStatus(at, track, o), RoutedOutbox(at, track, o), RoutedPub(at, track, o),
              at \in overwritten)
    BY <1>0, <2>1, <2>3, RoutedSound
  <2>5. overwritten' = overwritten
    BY <1>8 DEF RouteAnswer, BackToQueue
  <2> HIDE DEF track
  <2>6. QED BY <1>0, <2>1, <2>2, <2>4, <2>5 DEF RowsSound, TypeOK
<1>9. CASE CheckHoldConfirmations
  <2>1. PICK released \in SUBSET queue : \E o \in [released -> Outcomes] : HoldsChecked(released, o)
    BY <1>9, HoldCheckShape, Zenon
  <2>2. PICK o \in [released -> Outcomes] : HoldsChecked(released, o)
    BY <2>1
  <2>3. ASSUME NEW c \in Clusters
        PROVE  Sound(status'[c], outbox'[c], pub'[c], c \in overwritten)
    <3>1. Sound(status[c], outbox[c], pub[c], c \in overwritten)
      BY DEF RowsSound
    <3>2. CASE c \in released /\ RoutedAgain(c)
      <4>1. o[c] \in Outcomes
        BY <3>2
      <4>2. /\ status'[c] = RoutedStatus(c, TrackAgain(c), o[c])
            /\ outbox'[c] = RoutedOutbox(c, TrackAgain(c), o[c])
            /\ pub'[c] = RoutedPub(c, TrackAgain(c), o[c])
        BY <2>2, <3>2 DEF HoldsChecked, ReleasedStatus
      <4>3. QED BY <1>0, <3>1, <4>1, <4>2, RoutedSound
    <3>3. CASE c \in released /\ ~ RoutedAgain(c)
      <4>1. /\ status'[c] \in {"ai_ready", "rejected", status[c]}
            /\ outbox'[c] = outbox[c] /\ pub'[c] = pub[c]
        BY <2>2, <3>3 DEF HoldsChecked, ReleasedStatus, Flushed
      <4>2. QED BY <3>1, <4>1 DEF Sound
    <3>4. CASE c \notin released
      BY <2>2, <3>1, <3>4 DEF HoldsChecked
    <3>5. QED BY <3>2, <3>3, <3>4
  <2>4. overwritten' = overwritten
    BY <1>9 DEF CheckHoldConfirmations
  <2>5. QED BY <2>3, <2>4 DEF RowsSound
<1>10. CASE ReconcileOpenClusters
  <2>1. PICK moved, to : Reconciled(moved, to)
    BY <1>10, ReconcileShape, Zenon
  <2>2. outbox' = outbox /\ pub' = pub /\ overwritten' = overwritten
    BY <1>10 DEF ReconcileOpenClusters
  <2>3. \A c \in Clusters : status'[c] \in {"pending", status[c]}
    BY <2>1 DEF Reconciled
  <2>4. QED BY <2>2, <2>3, QuietSound
<1>11. ASSUME NEW c \in Clusters, SubmitReview(c)
       PROVE  RowsSound'
  BY <1>0, <1>11, QuietSound DEF SubmitReview, TypeOK
<1>12. ASSUME NEW S, Reprocess(S)
       PROVE  RowsSound'
  BY <1>12, QuietSound DEF Reprocess
<1>13. ASSUME NEW c \in Clusters, NEW o \in Outcomes, ItemSent(c, o)
       PROVE  RowsSound'
  BY <1>0, <1>13 DEF ItemSent, RowsSound, Sound, Outcomes, TypeOK
<1>14. QED
  BY <1>1, <1>2, <1>3, <1>4, <1>5, <1>6, <1>7, <1>8, <1>9, <1>10, <1>11, <1>12, <1>13, StillOrWrites
  DEF Writes

-----------------------------------------------------------------------------
(* Holds have an answer; locks have a hold or a post. *)

\* What the hold check loaded is not staler than the row: nothing locks a held
\* cluster while it runs.
HoldsSeen == job = "holds" => \A c \in queue : locked[c] => seen.locked[c]

HoldInv == HoldIsAnswered /\ LockIsExplained /\ HoldsSeen

\* A step that records no answer, opens no hold and keeps the posts.
LEMMA QuietHold ==
  ASSUME HoldIsAnswered, LockIsExplained, answer' = answer, aiCount' = aiCount, hold' = hold,
         \A c \in Clusters : pub[c] # "none" => pub'[c] # "none",
         \A c \in Clusters : locked'[c] => locked[c] \/ pub'[c] # "none"
  PROVE  HoldIsAnswered' /\ LockIsExplained'
  BY DEF HoldIsAnswered, LockIsExplained

LEMMA NextHolds ==
  ASSUME Assumptions, Typed, HoldInv, [Next]_vars
  PROVE  HoldIsAnswered' /\ LockIsExplained'
<1> USE DEF messages, row, others, task
<1>0. TypeOK /\ WorkInv /\ HoldIsAnswered /\ LockIsExplained /\ HoldsSeen
  BY DEF Typed, HoldInv
<1>1. CASE Still
  BY <1>0, <1>1, QuietHold DEF Still
<1>2. ASSUME NEW m \in Messages, NEW c \in Clusters, CreateCluster(m, c)
      PROVE  HoldIsAnswered' /\ LockIsExplained'
  BY <1>0, <1>2, QuietHold DEF CreateCluster, Place
<1>3. CASE AttachOpen
  BY <1>0, <1>3, QuietHold DEF AttachOpen, Place
<1>4. CASE AttachPublished
  <2>1. PICK numeric, R : numeric \in BOOLEAN /\ Attached(numeric, R)
    BY <1>4, AttachPublishedShape, Zenon
  <2>2. answer' = answer /\ aiCount' = aiCount /\ hold' = hold
    BY <1>4 DEF AttachPublished, Place
  <2>3. QED BY <1>0, <2>1, <2>2, QuietHold DEF Attached, TypeOK
<1>5. CASE CommitThreshold
  BY <1>0, <1>5, QuietHold DEF CommitThreshold
<1>6. CASE ModelFails
  BY <1>0, <1>6, QuietHold DEF ModelFails
<1>7. ASSUME NEW a \in Answers, RecordAnswer(a), at \in Clusters
      PROVE  \A c \in Clusters : hold[c] \/ c = at => answer'[c] # Nothing /\ aiCount'[c] # Nothing
  BY <1>0, <1>7 DEF RecordAnswer, HoldIsAnswered, TypeOK, Assumptions, ClustersAssumption
<1>8. ASSUME NEW a \in Answers, HoldAnswer(a)
      PROVE  HoldIsAnswered' /\ LockIsExplained'
  <2>1. at \in Clusters /\ RecordAnswer(a) /\ EnqueueHold /\ pub' = pub
    BY <1>0, <1>8 DEF HoldAnswer, WorkInv
  <2>2. HoldIsAnswered'
    BY <1>0, <1>7, <2>1 DEF EnqueueHold, HoldIsAnswered, TypeOK
  <2>3. LockIsExplained'
    BY <1>0, <2>1 DEF EnqueueHold, LockIsExplained, TypeOK
  <2>4. QED BY <2>2, <2>3
<1>9. ASSUME NEW a \in Answers, RouteAnswer(a)
      PROVE  HoldIsAnswered' /\ LockIsExplained'
  <2>1. at \in Clusters /\ RecordAnswer(a) /\ hold' = hold /\ locked' = locked
    BY <1>0, <1>9 DEF RouteAnswer, WorkInv
  <2>2. PICK p : pub' = [pub EXCEPT ![at] = p] /\ p \in {"posted", pub[at]}
    BY <1>9 DEF RouteAnswer, RoutedPub
  <2>3. HoldIsAnswered'
    BY <1>7, <2>1 DEF HoldIsAnswered
  <2>4. LockIsExplained'
    BY <1>0, <2>1, <2>2 DEF LockIsExplained, TypeOK
  <2>5. QED BY <2>3, <2>4
<1>10. CASE CheckHoldConfirmations
  <2>1. PICK released, o : released \in SUBSET queue /\ HoldsChecked(released, o)
    BY <1>10, HoldCheckShape, Zenon
  <2>2. answer' = answer /\ aiCount' = aiCount /\ job = "holds"
        /\ \A c \in Clusters : hold'[c] => hold[c]
    BY <1>10 DEF CheckHoldConfirmations
  <2>3. \A c \in Clusters : locked'[c] => locked[c] /\ (c \notin {d \in queue : Released(d)})
    BY <1>0, <1>10, <2>2 DEF CheckHoldConfirmations, Flushed, HoldsSeen, TypeOK
  <2>4. \A c \in Clusters : pub[c] # "none" => pub'[c] # "none"
    BY <2>1 DEF HoldsChecked, RoutedPub
  <2>5. \A c \in Clusters : c \notin {d \in queue : Released(d)} => hold'[c] = hold[c]
    BY <1>0, <1>10 DEF CheckHoldConfirmations, TypeOK
  <2>6. HoldIsAnswered'
    BY <1>0, <2>2 DEF HoldIsAnswered
  <2>7. LockIsExplained'
    BY <1>0, <2>3, <2>4, <2>5 DEF LockIsExplained
  <2>8. QED BY <2>6, <2>7
<1>11. CASE ReconcileOpenClusters
  BY <1>0, <1>11, QuietHold DEF ReconcileOpenClusters
<1>12. ASSUME NEW c \in Clusters, SubmitReview(c)
       PROVE  HoldIsAnswered' /\ LockIsExplained'
  BY <1>0, <1>12, QuietHold DEF SubmitReview, TypeOK
<1>13. ASSUME NEW S, Reprocess(S)
       PROVE  HoldIsAnswered' /\ LockIsExplained'
  BY <1>0, <1>13, QuietHold DEF Reprocess
<1>14. ASSUME NEW c \in Clusters, NEW o \in Outcomes, ItemSent(c, o)
       PROVE  HoldIsAnswered' /\ LockIsExplained'
  BY <1>0, <1>14, QuietHold DEF ItemSent, TypeOK
<1>15. QED
  BY <1>1, <1>2, <1>3, <1>4, <1>5, <1>6, <1>8, <1>9, <1>10, <1>11, <1>12, <1>13, <1>14, StillOrWrites
  DEF Writes

\* Beside the hold check only the reviewer, a script and the publication act,
\* and none of them locks.
LEMMA NextHoldsSeen ==
  ASSUME Typed, HoldsSeen, [Next]_vars
  PROVE  HoldsSeen'
<1> USE DEF messages, row, others, task
<1>0. TypeOK
  BY DEF Typed
<1>1. CASE StartHoldCheck
  BY <1>0, <1>1 DEF StartHoldCheck, HoldsSeen, Snapshot, TypeOK
<1>2. ASSUME UNCHANGED <<job, queue, seen>>, \A c \in Clusters : locked'[c] => locked[c]
      PROVE  HoldsSeen'
  BY <1>0, <1>2 DEF HoldsSeen, TypeOK
<1>3. CASE ClusteringStep \/ AnalysisStep
  <2>1. job' \in {"idle", "clustering", "attaching", "judging", "analysing", "calling"}
    BY <1>3
    DEF ClusteringStep, SearchTarget, CreateCluster, PlaceElsewhere, AttachOpen, AttachPublished,
        JudgeScored, CommitThreshold, Place, FinishTask, AnalysisStep, SkipCluster, CallModel,
        HoldAnswer, RouteAnswer, RoutingRaises, ModelFails, EndAnalysis, BackToQueue
  <2>2. QED BY <2>1 DEF HoldsSeen
<1>4. CASE HoldStep \/ TaskDies \/ StartClustering \/ StartAnalysis
  <2>1. job' # "holds"
    BY <1>4
    DEF HoldStep, CheckHoldConfirmations, HoldCheckRaises, TaskDies, StartClustering,
        StartAnalysis, FinishTask
  <2>2. QED BY <2>1 DEF HoldsSeen
<1>5. CASE (\E m \in Messages : Arrive(m)) \/ (\E c \in Clusters : Expire(c) \/ LoadRow(c))
             \/ ReconcileOpenClusters \/ UNCHANGED vars
  BY <1>2, <1>5 DEF Arrive, Expire, LoadRow, ReconcileOpenClusters, vars
<1>6. ASSUME NEW c \in Clusters, SubmitReview(c)
      PROVE  HoldsSeen'
  BY <1>0, <1>2, <1>6 DEF SubmitReview, TypeOK
<1>7. ASSUME NEW S, Reprocess(S)
      PROVE  HoldsSeen'
  BY <1>2, <1>7 DEF Reprocess
<1>8. ASSUME NEW c \in Clusters, NEW o \in Outcomes, ItemSent(c, o)
      PROVE  HoldsSeen'
  BY <1>2, <1>8 DEF ItemSent
<1>9. QED
  BY <1>1, <1>3, <1>4, <1>5, <1>6, <1>7, <1>8
  DEF Next, ReprocessCluster, RetryAiFailed, Publish, PublishLoaded

-----------------------------------------------------------------------------
(* The count trails the messages by at most one. *)

\* indep[c] is the count of all messages of c, or of all but one.
Counted(c) ==
  \E late \in SUBSET Members(c) :
    /\ Cardinality(late) <= 1
    /\ indep[c] = RecalculateIndependentSources(Members(c) \ late)

\* What the clustering task still has to place is pending, and the row it
\* attaches to exists.
PlacingInv ==
  /\ \A m \in inbox : home[m] = "pending"
  /\ job = "attaching" => msg \in inbox /\ status[at] # "none"

\* A cluster without a row has no messages and no count.
EmptyInv == \A c \in Clusters : status[c] = "none" => Members(c) = {} /\ indep[c] = 0

CountInv == PlacingInv /\ EmptyInv /\ CountLagsByOne

LEMMA AtMostOne ==
  ASSUME NEW S, \A x, y \in S : x = y
  PROVE  Cardinality(S) <= 1
<1>1. CASE S = {}
  BY <1>1, FS_EmptySet
<1>2. CASE S # {}
  <2>1. PICK x : S = {x}
    BY <1>2
  <2>2. QED BY <2>1, FS_Singleton
<1>3. QED BY <1>1, <1>2

LEMMA PlaceCounts ==
  ASSUME Assumptions, Typed, NEW m \in Messages, NEW c \in Clusters, home[m] = "pending",
         Place(m, c, CountBeforeFlush(c))
  PROVE  /\ Counted(c)'
         /\ \A d \in Clusters \ {c} : Members(d)' = Members(d) /\ indep'[d] = indep[d]
         /\ \A n \in inbox' : n \in inbox /\ home'[n] = home[n]
<1>0. TypeOK /\ m \notin Members(c)
  BY DEF Typed, Members, Assumptions, ClustersAssumption
<1>1. home' = [home EXCEPT ![m] = c] /\ indep' = [indep EXCEPT ![c] = CountBeforeFlush(c)]
      /\ inbox' = inbox \ {m}
  BY DEF Place
<1>2. Members(c)' = Members(c) \union {m}
  BY <1>0, <1>1 DEF Members, TypeOK
<1>3. Members(c)' \ {m} = Members(c) /\ {m} \in SUBSET Members(c)'
  BY <1>0, <1>2
<1>4. Cardinality({m}) <= 1
  BY FS_Singleton
<1>5. indep'[c] = RecalculateIndependentSources(Members(c))
  BY <1>0, <1>1 DEF CountBeforeFlush, TypeOK
<1>6. Counted(c)'
  BY <1>3, <1>4, <1>5, Zenon DEF Counted
<1>7. ASSUME NEW d \in Clusters \ {c}
      PROVE  Members(d)' = Members(d) /\ indep'[d] = indep[d]
  <2>1. home[m] # d
    BY DEF Assumptions, ClustersAssumption
  <2>2. QED BY <1>0, <1>1, <2>1 DEF Members, TypeOK
<1>8. \A n \in inbox' : n \in inbox /\ home'[n] = home[n]
  BY <1>0, <1>1 DEF TypeOK
<1>9. QED BY <1>6, <1>7, <1>8

\* The step of the clustering task that places a message.
LEMMA PlaceKeeps ==
  ASSUME Assumptions, Typed, CountInv, NEW m \in Messages, NEW c \in Clusters,
         home[m] = "pending", Place(m, c, CountBeforeFlush(c)),
         status'[c] # "none", \A d \in Clusters \ {c} : status'[d] = status[d]
  PROVE  CountInv'
<1>1. job' = "clustering"
  BY DEF Place
<1>2. PlacingInv'
  BY <1>1, PlaceCounts DEF CountInv, PlacingInv
<1>3. EmptyInv'
  BY PlaceCounts DEF CountInv, EmptyInv
<1>4. CountLagsByOne'
  <2>1. SUFFICES ASSUME NEW d \in Clusters, status'[d] # "none"
                 PROVE  Counted(d)'
    BY Zenon DEF CountLagsByOne, Counted
  <2>2. CASE d = c
    BY <2>2, PlaceCounts
  <2>3. CASE d # c
    <3>1. Counted(d)
      BY <2>1, <2>3, Zenon DEF CountInv, CountLagsByOne, Counted
    <3>2. Members(d)' = Members(d) /\ indep'[d] = indep[d]
      BY <2>3, PlaceCounts
    <3>3. QED BY <3>1, <3>2, Zenon DEF Counted
  <2>4. QED BY <2>2, <2>3
<1>5. QED BY <1>2, <1>3, <1>4 DEF CountInv

LEMMA ReconcileKeeps ==
  ASSUME Assumptions, Typed, CountInv, ReconcileOpenClusters
  PROVE  CountInv'
<1> USE DEF messages, row, others, task
<1>0. TypeOK /\ PlacingInv /\ EmptyInv /\ CountLagsByOne
  BY DEF Typed, CountInv
<1>a. PICK moved \in SUBSET Movable : \E to \in [moved -> NewHomes] : Reconciled(moved, to)
  BY ReconcileShape, Zenon
<1>1. PICK to \in [moved -> NewHomes] : Reconciled(moved, to)
  BY <1>a
<1>2. /\ home'   = [m \in Messages |-> IF m \in moved THEN to[m] ELSE home[m]]
      /\ status' = [c \in Clusters |-> IF c \in {to[m] : m \in moved} \intersect Clusters
                                       THEN "pending" ELSE status[c]]
      /\ indep'  = [c \in Clusters |->
                     IF c \in {home[m] : m \in moved}
                     THEN RecalculateIndependentSources(Members(c) \ moved)
                     ELSE indep[c]]
      /\ \A m, n \in moved : m # n /\ to[m] = to[n] => to[m] = "elsewhere"
  BY <1>1, Zenon DEF Reconciled
<1>3. \A m \in moved : /\ m \in Messages /\ home[m] \in Clusters /\ status[home[m]] # "none"
                       /\ to[m] \in NewHomes
  BY DEF Movable, OpenStatuses
<1>4. "elsewhere" \notin Clusters /\ "pending" \notin Clusters
  BY DEF Assumptions, ClustersAssumption
<1>5. PlacingInv'
  <2>1. job = "idle" /\ job' = job /\ inbox' = inbox
    BY DEF ReconcileOpenClusters
  <2>2. \A m \in inbox : home'[m] = home[m]
    BY <1>0, <1>2, <1>3, <1>4 DEF PlacingInv, TypeOK
  <2>3. QED BY <1>0, <2>1, <2>2 DEF PlacingInv
\* c opened for a message, c lost messages, or c was left alone.
<1>6. ASSUME NEW c \in Clusters
      PROVE  Counted(c)' \/ (status'[c] = "none" /\ Members(c)' = {} /\ indep'[c] = 0)
  <2>1. CASE c \in {to[m] : m \in moved}
    <3>1. status[c] = "none" /\ Members(c) = {} /\ indep[c] = 0
      BY <1>0, <1>3, <1>4, <2>1 DEF NewHomes, EmptyInv
    <3>2. c \notin {home[m] : m \in moved}
      BY <1>3, <3>1
    <3>3. indep'[c] = 0
      BY <1>2, <3>1, <3>2
    <3>4. Members(c)' = {m \in moved : to[m] = c}
      BY <1>2, <1>3, <3>1 DEF Members
    <3>5. \A x, y \in Members(c)' : x = y
      BY <1>2, <1>4, <3>4
    <3>6. Cardinality(Members(c)') <= 1
      BY <3>5, AtMostOne
    <3>7. Members(c)' \ Members(c)' = {}
      OBVIOUS
    <3>8. indep'[c] = RecalculateIndependentSources(Members(c)' \ Members(c)')
      BY <3>3, <3>7, CountOfNone
    <3>9. QED BY <3>6, <3>8, Zenon DEF Counted
  <2>2. CASE c \notin {to[m] : m \in moved} /\ c \in {home[m] : m \in moved}
    <3>1. Members(c)' = Members(c) \ moved
      BY <1>2, <2>2 DEF Members
    <3>2. indep'[c] = RecalculateIndependentSources(Members(c)' \ {})
      BY <1>2, <2>2, <3>1
    <3>3. Cardinality({}) <= 1
      BY FS_EmptySet
    <3>4. QED BY <3>2, <3>3, Zenon DEF Counted
  <2>3. CASE c \notin {to[m] : m \in moved} /\ c \notin {home[m] : m \in moved}
    <3>1. Members(c)' = Members(c) /\ indep'[c] = indep[c] /\ status'[c] = status[c]
      BY <1>2, <2>3 DEF Members
    <3>2. CASE status[c] = "none"
      BY <1>0, <3>1, <3>2 DEF EmptyInv
    <3>3. CASE status[c] # "none"
      <4>1. Counted(c)
        BY <1>0, <3>3, Zenon DEF CountLagsByOne, Counted
      <4>2. QED BY <3>1, <4>1, Zenon DEF Counted
    <3>4. QED BY <3>2, <3>3
  <2>4. QED BY <2>1, <2>2, <2>3
<1>7. ASSUME NEW c \in Clusters, status'[c] = "none"
      PROVE  Members(c)' = {} /\ indep'[c] = 0
  <2>1. c \notin {to[m] : m \in moved} /\ status[c] = "none"
    BY <1>2, <1>7
  <2>2. c \notin {home[m] : m \in moved}
    BY <1>3, <2>1
  <2>3. Members(c)' = Members(c) /\ indep'[c] = indep[c]
    BY <1>2, <2>1, <2>2 DEF Members
  <2>4. QED BY <1>0, <2>1, <2>3 DEF EmptyInv
<1>8. EmptyInv'
  BY <1>7 DEF EmptyInv
<1>9. CountLagsByOne'
  BY <1>6, Zenon DEF CountLagsByOne, Counted
<1>10. QED BY <1>5, <1>8, <1>9 DEF CountInv

\* Also a cluster without a row is counted.
LEMMA NoneIsCounted ==
  ASSUME EmptyInv, NEW c \in Clusters, status[c] = "none"
  PROVE  Counted(c)
<1>1. Members(c) = {} /\ indep[c] = 0 /\ {} \ {} = {}
  BY DEF EmptyInv
<1>2. Cardinality({}) <= 1
  BY FS_EmptySet
<1>3. indep[c] = RecalculateIndependentSources(Members(c) \ {})
  BY <1>1, CountOfNone
<1>4. {} \in SUBSET Members(c)
  OBVIOUS
<1>5. QED BY <1>2, <1>3, <1>4, Zenon DEF Counted

\* A step that places no message and takes no row away.
LEMMA QuietCounts ==
  ASSUME EmptyInv, CountLagsByOne, indep' = indep,
         \A c \in Clusters : Members(c)' = Members(c),
         \A c \in Clusters : status'[c] = "none" => status[c] = "none"
  PROVE  EmptyInv' /\ CountLagsByOne'
<1>1. \A c \in Clusters : Members(c)' = Members(c)
  OBVIOUS
<1>2. EmptyInv'
  BY <1>1 DEF EmptyInv
<1>3. CountLagsByOne'
  <2>1. SUFFICES ASSUME NEW c \in Clusters PROVE Counted(c)'
    BY Zenon DEF CountLagsByOne, Counted
  <2>2. Counted(c)
    <3>1. CASE status[c] = "none"
      BY <3>1, NoneIsCounted
    <3>2. CASE status[c] # "none"
      BY <3>2, Zenon DEF CountLagsByOne, Counted
    <3>3. QED BY <3>1, <3>2
  <2>3. Members(c)' = Members(c) /\ indep'[c] = indep[c]
    BY <1>1
  <2>4. QED BY <2>2, <2>3, Zenon DEF Counted
<1>4. QED BY <1>2, <1>3

\* A routed or flushed status is never "none" unless the row was missing.
LEMMA StatusStays ==
  ASSUME NEW c \in Clusters, NEW track, NEW o
  PROVE  RoutedStatus(c, track, o) = "none" => status[c] = "none"
  BY DEF RoutedStatus, Flushed

\* The worker's steps that leave the messages where they are.
LEMMA NoPlacing ==
  ASSUME JudgeScored \/ CommitThreshold \/ AnalysisStep \/ HoldStep \/ TaskDies
           \/ StartAnalysis \/ StartHoldCheck
  PROVE  job' # "attaching" /\ inbox' \subseteq inbox /\ home' = home /\ indep' = indep
<1>1. job' # "attaching" /\ inbox' \in {inbox, {}}
  BY DEF JudgeScored, CommitThreshold, FinishTask, AnalysisStep, SkipCluster, CallModel,
         HoldAnswer, RouteAnswer, RoutingRaises, ModelFails, EndAnalysis, BackToQueue, HoldStep,
         CheckHoldConfirmations, HoldCheckRaises, TaskDies, StartAnalysis, StartHoldCheck
<1>2. home' = home /\ indep' = indep
  BY DEF JudgeScored, CommitThreshold, AnalysisStep, SkipCluster, CallModel, HoldAnswer,
         RouteAnswer, RoutingRaises, ModelFails, EndAnalysis, BackToQueue, HoldStep,
         CheckHoldConfirmations, HoldCheckRaises, TaskDies, StartAnalysis, StartHoldCheck,
         messages, row
<1>3. QED BY <1>1, <1>2

\* None of them takes a row away.
LEMMA RowsStay ==
  ASSUME Typed,
         JudgeScored \/ CommitThreshold \/ AnalysisStep \/ HoldStep \/ TaskDies
           \/ StartAnalysis \/ StartHoldCheck
  PROVE  \A c \in Clusters : status'[c] = "none" => status[c] = "none"
<1> USE DEF messages, row, others, task
<1>0. TypeOK /\ WorkInv
  BY DEF Typed
<1>1. ASSUME status' = status
      PROVE  \A c \in Clusters : status'[c] = "none" => status[c] = "none"
  BY <1>1
<1>2. CASE JudgeScored \/ HoldCheckRaises \/ TaskDies \/ StartAnalysis \/ StartHoldCheck
             \/ EndAnalysis \/ (\E c \in Clusters : SkipCluster(c) \/ CallModel(c))
             \/ (\E a \in Answers : RoutingRaises(a))
  BY <1>1, <1>2
  DEF JudgeScored, HoldCheckRaises, TaskDies, StartAnalysis, StartHoldCheck, EndAnalysis,
      SkipCluster, CallModel, RoutingRaises
<1>3. CASE CommitThreshold
  BY <1>3 DEF CommitThreshold
<1>4. CASE ModelFails
  BY <1>0, <1>4 DEF ModelFails, Flushed, TypeOK
<1>5. ASSUME NEW a \in Answers, HoldAnswer(a)
      PROVE  \A c \in Clusters : status'[c] = "none" => status[c] = "none"
  BY <1>0, <1>5 DEF HoldAnswer, Flushed, TypeOK
<1>6. ASSUME NEW a \in Answers, RouteAnswer(a)
      PROVE  \A c \in Clusters : status'[c] = "none" => status[c] = "none"
  <2>1. PICK o \in Outcomes :
          status' = [status EXCEPT ![at] = RoutedStatus(at, RouteTrack(a, indep[at]), o)]
    BY <1>6 DEF RouteAnswer
  <2>2. at \in Clusters
    BY <1>0, <1>6 DEF RouteAnswer, WorkInv
  <2>3. RoutedStatus(at, RouteTrack(a, indep[at]), o) = "none" => status[at] = "none"
    BY <2>2, StatusStays
  <2>4. QED BY <1>0, <2>1, <2>2, <2>3 DEF TypeOK
<1>7. CASE CheckHoldConfirmations
  <2>1. PICK released, o : HoldsChecked(released, o)
    BY <1>7, HoldCheckShape, Zenon
  <2>2. \A c \in Clusters : ReleasedStatus(c, o[c]) = "none" => status[c] = "none"
    BY StatusStays DEF ReleasedStatus, Flushed
  <2>3. QED BY <2>1, <2>2 DEF HoldsChecked
<1>8. QED BY <1>2, <1>3, <1>4, <1>5, <1>6, <1>7 DEF AnalysisStep, HoldStep

LEMMA NextCounts ==
  ASSUME Assumptions, Typed, CountInv, [Next]_vars
  PROVE  CountInv'
<1> USE DEF messages, row, others, task
<1>0. TypeOK /\ WorkInv /\ PlacingInv /\ EmptyInv /\ CountLagsByOne
  BY DEF Typed, CountInv
<1>1. ASSUME PlacingInv', indep' = indep, \A c \in Clusters : Members(c)' = Members(c),
             \A c \in Clusters : status'[c] = "none" => status[c] = "none"
      PROVE  CountInv'
  BY <1>0, <1>1, QuietCounts DEF CountInv
<1>2. ASSUME home' = home PROVE \A c \in Clusters : Members(c)' = Members(c)
  BY <1>2 DEF Members
<1>3. ASSUME NEW m \in Messages, NEW c \in Clusters, CreateCluster(m, c)
      PROVE  CountInv'
  <2>1. home[m] = "pending" /\ Place(m, c, CountBeforeFlush(c))
        /\ status' = [status EXCEPT ![c] = "scored"]
    BY <1>0, <1>3 DEF CreateCluster, PlacingInv
  <2>2. status'[c] # "none" /\ \A d \in Clusters \ {c} : status'[d] = status[d]
    BY <1>0, <2>1 DEF TypeOK
  <2>3. QED BY <2>1, <2>2, PlaceKeeps
<1>4. CASE AttachOpen \/ AttachPublished
  <2>1. /\ at \in Clusters /\ msg \in Messages /\ home[msg] = "pending" /\ status[at] # "none"
        /\ Place(msg, at, CountBeforeFlush(at))
    BY <1>0, <1>4 DEF AttachOpen, AttachPublished, PlacingInv, WorkInv
  <2>2. PICK s : status' = [status EXCEPT ![at] = s] /\ s \in {"scored", "hold", status[at]}
    <3>1. CASE AttachOpen
      BY <1>0, <2>1, <3>1 DEF AttachOpen, Flushed, TypeOK
    <3>2. CASE AttachPublished
      <4>1. PICK numeric \in BOOLEAN :
              status' = [status EXCEPT ![at] = IF numeric THEN "hold" ELSE @]
        BY <3>2, Zenon DEF AttachPublished
      <4>2. QED BY <1>0, <2>1, <4>1 DEF TypeOK
    <3>3. QED BY <1>4, <3>1, <3>2
  <2>3. status'[at] # "none" /\ \A d \in Clusters \ {at} : status'[d] = status[d]
    BY <1>0, <2>1, <2>2 DEF TypeOK
  <2>4. QED BY <2>1, <2>3, PlaceKeeps
<1>5. CASE ReconcileOpenClusters
  BY <1>5, ReconcileKeeps
<1>6. ASSUME NEW m \in Messages, Arrive(m) \/ PlaceElsewhere(m)
      PROVE  CountInv'
  <2>1. PICK h \in {"pending", "elsewhere"} : home' = [home EXCEPT ![m] = h]
    BY <1>6 DEF Arrive, PlaceElsewhere
  <2>2. home[m] \in {"absent", "pending"}
    BY <1>0, <1>6 DEF Arrive, PlaceElsewhere, PlacingInv
  <2>3. \A c \in Clusters : Members(c)' = Members(c)
    BY <1>0, <2>1, <2>2 DEF Members, TypeOK, Assumptions, ClustersAssumption
  <2>4. PlacingInv'
    BY <1>0, <1>6 DEF Arrive, PlaceElsewhere, PlacingInv, TypeOK, WorkInv
  <2>5. QED BY <1>1, <1>6, <2>3, <2>4 DEF Arrive, PlaceElsewhere
<1>7. CASE StartClustering
  <2>1. PlacingInv'
    BY <1>7 DEF StartClustering, PlacingInv
  <2>2. QED BY <1>1, <1>2, <1>7, <2>1 DEF StartClustering
<1>8. ASSUME NEW m \in Messages, NEW c \in Clusters, SearchTarget(m, c)
      PROVE  CountInv'
  <2>1. PlacingInv'
    BY <1>0, <1>8 DEF SearchTarget, PlacingInv, OpenStatuses
  <2>2. QED BY <1>1, <1>2, <1>8, <2>1 DEF SearchTarget
<1>9. CASE JudgeScored \/ CommitThreshold \/ AnalysisStep \/ HoldStep \/ TaskDies
             \/ StartAnalysis \/ StartHoldCheck
  <2>1. job' # "attaching" /\ inbox' \subseteq inbox /\ home' = home /\ indep' = indep
    BY <1>9, NoPlacing
  <2>2. PlacingInv'
    BY <1>0, <2>1 DEF PlacingInv
  <2>3. QED BY <1>1, <1>2, <1>9, <2>1, <2>2, RowsStay
<1>10. ASSUME UNCHANGED <<job, inbox, at, msg, home, indep>>,
              \A d \in Clusters : status'[d] = "none" => status[d] = "none"
       PROVE  CountInv'
  <2>1. PlacingInv'
    BY <1>0, <1>10 DEF PlacingInv, WorkInv
  <2>2. QED BY <1>1, <1>2, <1>10, <2>1
<1>11. CASE UNCHANGED vars
  BY <1>10, <1>11 DEF vars
<1>12. ASSUME NEW c \in Clusters, Expire(c) \/ LoadRow(c) \/ SubmitReview(c)
       PROVE  CountInv'
  BY <1>0, <1>10, <1>12 DEF Expire, LoadRow, SubmitReview, TypeOK
<1>13. ASSUME NEW S, Reprocess(S)
       PROVE  CountInv'
  BY <1>10, <1>13 DEF Reprocess
<1>14. ASSUME NEW c \in Clusters, NEW o \in Outcomes, ItemSent(c, o)
       PROVE  CountInv'
  BY <1>0, <1>10, <1>14 DEF ItemSent, TypeOK, Outcomes
<1>15. QED
  BY <1>3, <1>4, <1>5, <1>6, <1>7, <1>8, <1>9, <1>11, <1>12, <1>13, <1>14
  DEF Next, ClusteringStep, ReprocessCluster, RetryAiFailed, Publish, PublishLoaded

-----------------------------------------------------------------------------
IInv == Typed /\ RowsSound /\ HoldInv /\ CountInv

LEMMA InitIInv == Assumptions /\ Init => IInv
<1> SUFFICES ASSUME Assumptions, Init PROVE IInv
  OBVIOUS
<1>1. Typed
  BY DEF Init, Typed, TypeOK, WorkInv, Snapshot, Statuses, Jobs, OutboxStatuses
<1>2. RowsSound
  BY DEF Init, RowsSound, Sound
<1>3. HoldInv
  BY DEF Init, HoldInv, HoldIsAnswered, LockIsExplained, HoldsSeen
<1>4. CountInv
  <2>1. \A c \in Clusters : Members(c) = {}
    BY DEF Init, Members, Assumptions, ClustersAssumption
  <2>2. QED BY <2>1 DEF Init, CountInv, PlacingInv, EmptyInv, CountLagsByOne
<1>5. QED BY <1>1, <1>2, <1>3, <1>4 DEF IInv

LEMMA NextIInv ==
  ASSUME Assumptions, IInv, [Next]_vars
  PROVE  IInv'
  BY NextTyped, NextSound, NextHolds, NextHoldsSeen, NextCounts DEF IInv, HoldInv

LEMMA SpecIInv == Spec => []IInv
<1>1. Assumptions
  BY LineageAssumption, ClustersAssumption DEF Assumptions
<1>2. QED BY <1>1, InitIInv, NextIInv, PTL DEF Spec

\* Every variable of the pipeline keeps its type.
THEOREM SpecTypeOK == Spec => []TypeOK
  BY SpecIInv, PTL DEF IInv, Typed

\* No writer of a cluster, not even one that flushes what it loaded before
\* another one's commit, leaves it done without a row that waits, was cancelled
\* or was posted.
THEOREM DoneClustersAreQueued == Spec => []DoneIsQueued
<1>1. IInv => DoneIsQueued
  BY RowsSoundMeans DEF IInv
<1>2. QED BY <1>1, SpecIInv, PTL

\* Fast track, batch, hold check and scripts publish a cluster together with its
\* publication, and only a sender that acts on an older copy of the row takes the
\* row back from sent.
THEOREM PublishedClustersAreSent == Spec => []PublishedIsSent
<1>1. IInv => PublishedIsSent
  BY RowsSoundMeans DEF IInv
<1>2. QED BY <1>1, SpecIInv, PTL

\* promote_hold_cluster always finds the answer and the count of the hold.
THEOREM HoldsAreAnswered == Spec => []HoldIsAnswered
  BY SpecIInv, PTL DEF IInv, HoldInv

\* A lock outlives its hold only on a story that was posted.
THEOREM LocksAreExplained == Spec => []LockIsExplained
  BY SpecIInv, PTL DEF IInv, HoldInv

\* recalculate_independent_sources before the flush and the moves of the
\* reconciliation never leave the count more than one message behind.
THEOREM CountsTrailByOne == Spec => []CountLagsByOne
  BY SpecIInv, PTL DEF IInv, CountInv

=============================================================================
