------------------------------ MODULE Judging ------------------------------
(***************************************************************************)
(* Which stories the AI gets to see: the cold start, the score of a        *)
(* cluster, the threshold it is judged by, and the confidence metrics the  *)
(* hold gate reads later.                                                  *)
(*                                                                         *)
(* The database session does not autoflush.  Score and metrics of the      *)
(* cluster that a message joins are computed by queries that do not find   *)
(* the message there yet: of a new cluster they see no message at all.     *)
(*                                                                         *)
(* Which open cluster a message joins, and how similar it is, are choices. *)
(* Scores are in ten-thousandths of a point; similarities, confidence and  *)
(* stability in hundredths.  Divisions round down where the code has       *)
(* floating-point numbers.  What the AI task, the hold check, the          *)
(* publisher, the reviewer and a script make of a cluster is one step each *)
(* here; how these steps interleave is the subject of Clusters.            *)
(*                                                                         *)
(* A definition that no other one uses and that precedes its near-namesake *)
(* is a faulty variant of it; PROJECT.json names the property it breaks.   *)
(***************************************************************************)
EXTENDS Lineage, FiniteSetsExt, Functions

CONSTANTS
  Clusters,
  Nothing,
  Weight,         (* sources.credibility_weight, in tenths                 *)
  Keywords,       (* the urgency keywords in each message                  *)
  PublishedAt,    (* messages.published_at, in minutes                     *)
  Similarities,   (* values of best_similarity and best_rerank             *)
  Baselines,      (* messages in half an hour that are full speed, by topic *)
  MinMessages,    (* COLD_START_MIN_MESSAGES             50                *)
  MinClusters,    (* MIN_CLUSTERS_FOR_PERCENTILE         20                *)
  Percentile,     (* CLUSTER_PERCENTILE                  75                *)
  Fallback,       (* CLUSTER_SCORE_FALLBACK_THRESHOLD    60000             *)
  MinThreshold,   (* MIN_AI_SCORE_THRESHOLD              55000             *)
  MaxThreshold,   (* MAX_AI_SCORE_THRESHOLD              80000             *)
  MaxActs         (* bound on what the reviewer and the scripts do         *)

ASSUME JudgingAssumption ==
  /\ IsFiniteSet(Clusters)
  /\ Nothing \notin Messages \union Clusters \union Nat
  /\ {"absent", "pending"} \intersect Clusters = {}
  /\ Weight \in [Sources -> 1..15]
  /\ \A m \in Messages : IsFiniteSet(Keywords[m])
  /\ PublishedAt \in [Messages -> Nat]
  /\ Similarities \subseteq 1..100
  /\ Baselines \subseteq Nat \ {0}
  /\ MinMessages \in Nat /\ MinClusters \in Nat \ {0}
  /\ Percentile \in 0..100
  /\ Fallback \in Nat /\ MinThreshold \in Nat /\ MaxThreshold \in Nat
  /\ MaxActs \in Nat
  /\ MinThreshold <= Fallback /\ Fallback <= MaxThreshold

VARIABLES
  home,        (* messages.cluster_id, "absent" or "pending"               *)
  status,      (* clusters.status, "none" before the row exists            *)
  score,       (* clusters.cluster_score                                   *)
  confidence,  (* clusters.cluster_confidence                              *)
  stability,   (* clusters.cluster_stability                               *)
  debug,       (* clusters.cluster_debug: the similarities of the last match *)
  developing,  (* clusters whose story_phase is no longer "breaking"       *)
  queued,      (* clusters with a row of publication_outbox                *)
  held,        (* clusters with a row of hold_queue                        *)
  joined,      (* history: the messages a cluster ever had                 *)
  audit,       (* audit_log rows of merges and new clusters, last 6 hours  *)
  acts,        (* acts of the reviewer and the scripts                     *)
  uptime,      (* "warmup", "day" (the first), "steady"                    *)
  job,         (* the clustering task: "idle", "placing"                   *)
  inbox,       (* messages it loaded and has not placed                    *)
  threshold    (* what it took effective_threshold to be when it began     *)

metrics  == <<score, confidence, stability, debug, developing>>
clusters == <<status, metrics, queued, held, joined>>
task     == <<job, inbox, threshold>>
vars     == <<home, status, score, confidence, stability, debug, developing, queued, held,
              joined, audit, acts, uptime, job, inbox, threshold>>

Statuses == {"none", "pending", "scored", "below_threshold", "ai_ready", "ai_done", "published",
             "hold", "rejected", "ai_failed"}

OpenStatuses == {"pending", "scored", "ai_done"}

Members(c) == {m \in Messages : home[m] = c}

Least(x, y)    == IF x <= y THEN x ELSE y
Greatest(x, y) == IF x >= y THEN x ELSE y

-----------------------------------------------------------------------------
(* compute_cluster_score of the messages S the query finds *)

SourcesOf(S) == {SourceOf[m] : m \in S}

SourceScore(S) == 875 * Least(RecalculateIndependentSources(S), 4)

CredibilityScore(S) ==
  IF S = {} THEN 0
  ELSE Least(3000, (200 * MapThenSumSet(LAMBDA s : Weight[s], SourcesOf(S)))
                     \div Cardinality(SourcesOf(S)))

Span(S) == Max({PublishedAt[m] : m \in S}) - Min({PublishedAt[m] : m \in S})

SpeedScore(S) ==
  IF Cardinality(S) < 2 THEN 2000
  ELSE (2000 * Greatest(0, 60 - Span(S))) \div 60

UrgencyScore(S) == 500 * Least(Cardinality(UNION {Keywords[m] : m \in S}), 3)

\* Scores go from one to ten.
LeastScore    == 10000
GreatestScore == 100000

ComputeClusterScore(S) ==
  LeastScore + 9 * (SourceScore(S) + CredibilityScore(S) + SpeedScore(S) + UrgencyScore(S))

-----------------------------------------------------------------------------
(* effective_threshold *)

Scored == {c \in Clusters : score[c] # Nothing}

\* The element at index int(n * P / 100), at most n - 1, of the sorted scores.
\* The instance has fewer clusters than the 200 last scored ones of the code.
PercentileValue ==
  LET idx == Least((Cardinality(Scored) * Percentile) \div 100, Cardinality(Scored) - 1)
  IN  CHOOSE v \in {score[c] : c \in Scored} :
        /\ Cardinality({c \in Scored : score[c] < v}) <= idx
        /\ Cardinality({c \in Scored : score[c] <= v}) > idx

ClampAbove(v) == Greatest(v, MaxThreshold)

Clamp(v) == Greatest(MinThreshold, Least(v, MaxThreshold))

Active == {c \in Scored : status[c] \in {"scored", "ai_done", "published"}}

Fetched == {m \in Messages : home[m] # "absent"}

EffectiveThreshold ==
  IF \/ Cardinality(Fetched) < MinMessages
     \/ uptime # "steady"
     \/ Cardinality(Active) < MinClusters
  THEN Fallback
  ELSE Clamp(PercentileValue)

-----------------------------------------------------------------------------
(* update_cluster_confidence_metrics of the messages S the query finds *)

\* A merge is audited under the message's id, not the cluster's.
AuditRow(m, c) == [entity_type |-> "message", entity_id |-> m, message |-> m]

ComputeClusterStability(c) ==
  Greatest(0, 100 - 8 * Cardinality({r \in audit : /\ r.entity_type = "cluster"
                                                   /\ r.entity_id = c}))

\* independent_lineage_diversity
Diversity(S) ==
  IF S = {} THEN 0
  ELSE Least(100, (100 * RecalculateIndependentSources(S)) \div Cardinality(SourcesOf(S)))

\* avg_source_credibility: the average of the DISTINCT weights.
AvgCredibility(S) ==
  LET weights == {Weight[s] : s \in SourcesOf(S)}
  IN  IF S = {} THEN 50
      ELSE Least(100, (100 * SumSet(weights)) \div (15 * Cardinality(weights)))

\* message_velocity_score: the messages of the last half hour, three or for
\* some topics five of them being full speed.
Velocities(S) ==
  {Least(100, (100 * n) \div base) : n \in 0..Cardinality(S), base \in Baselines}

\* compute_cluster_confidence: while a story is breaking, speed counts at the
\* expense of stability.
StabilityWeight(c) == IF c \in developing THEN 15 ELSE 5

ConfidenceUnweighted(S, hybrid, rerank, weight, stable, velocity) ==
  (25 * hybrid + 20 * rerank + 15 * 80 + 10 * AvgCredibility(S) + weight * stable
    + (15 - weight) * velocity + 50) \div 100

ConfidenceUndivided(S, hybrid, rerank, weight, stable, velocity) ==
  25 * hybrid + 20 * rerank + 15 * 80 + 15 * Diversity(S) + 10 * AvgCredibility(S)
    + weight * stable + (15 - weight) * velocity

ComputeClusterConfidence(S, hybrid, rerank, weight, stable, velocity) ==
  (25 * hybrid + 20 * rerank + 15 * 80 + 15 * Diversity(S) + 10 * AvgCredibility(S)
    + weight * stable + (15 - weight) * velocity + 50) \div 100

\* The gate of should_hold_for_cluster on the confidence.
Doubtful(c) == confidence[c] < 65

-----------------------------------------------------------------------------
Init ==
  /\ home       = [m \in Messages |-> "absent"]
  /\ status     = [c \in Clusters |-> "none"]
  /\ score      = [c \in Clusters |-> Nothing]
  /\ confidence = [c \in Clusters |-> Nothing]
  /\ stability  = [c \in Clusters |-> Nothing]
  /\ debug      = [c \in Clusters |-> Nothing]
  /\ developing = {}
  /\ queued     = {}
  /\ held       = {}
  /\ joined     = [c \in Clusters |-> {}]
  /\ audit      = {}
  /\ acts       = 0
  /\ uptime     = "warmup"
  /\ job        = "idle"
  /\ inbox      = {}
  /\ threshold  = Nothing

Arrive(m) ==
  /\ home[m] = "absent"
  /\ home' = [home EXCEPT ![m] = "pending"]
  /\ UNCHANGED <<clusters, audit, acts, uptime, task>>

TimePasses ==
  /\ uptime # "steady"
  /\ uptime' = IF uptime = "warmup" THEN "day" ELSE "steady"
  /\ UNCHANGED <<home, clusters, audit, acts, task>>

EndTask ==
  /\ job'       = "idle"
  /\ inbox'     = {}
  /\ threshold' = Nothing

\* APP_START_TIME is when the process read its settings.
Restart ==
  /\ uptime' = "warmup"
  /\ EndTask
  /\ UNCHANGED <<home, clusters, audit, acts>>

\* cluster_pending_messages begins: not in the warm-up.
StartTask ==
  /\ job = "idle"
  /\ uptime # "warmup"
  /\ job'       = "placing"
  /\ inbox'     = {m \in Messages : home[m] = "pending"}
  /\ threshold' = EffectiveThreshold
  /\ UNCHANGED <<home, clusters, audit, acts, uptime>>

\* The oldest first.
NextMessage(m) ==
  /\ job = "placing"
  /\ m \in inbox
  /\ \A n \in inbox : PublishedAt[m] <= PublishedAt[n]

VisibleWithIt(m, c) == Members(c) \union {m}

\* What the queries find in c while m is joining it.
Visible(m, c) == Members(c)

ScoreCluster(c, S) ==
  /\ score'  = [score EXCEPT ![c] = ComputeClusterScore(S)]
  /\ status' = [status EXCEPT ![c] = "scored"]

\* m is in c: the audit row and the metrics, by one commit.
Place(m, c, hybrid, rerank) ==
  LET S == Visible(m, c)
  IN  /\ home'      = [home EXCEPT ![m] = c]
      /\ joined'    = [joined EXCEPT ![c] = @ \union {m}]
      /\ inbox'     = inbox \ {m}
      /\ audit'     = audit \union {AuditRow(m, c)}
      /\ stability' = [stability EXCEPT ![c] = ComputeClusterStability(c)]
      /\ \E v \in Velocities(S) :
           confidence' = [confidence EXCEPT ![c] =
             ComputeClusterConfidence(S, hybrid, rerank, StabilityWeight(c), stability'[c], v)]
      /\ UNCHANGED <<queued, held, acts, uptime, job, threshold>>

\* search_merge_target found c.
MergeIntoCluster(m, c) ==
  /\ NextMessage(m)
  /\ status[c] \in OpenStatuses
  /\ ScoreCluster(c, Visible(m, c))
  /\ \E hybrid, rerank \in Similarities :
       /\ Place(m, c, hybrid, rerank)
       /\ debug' = [debug EXCEPT ![c] = [hybrid |-> hybrid, rerank |-> rerank]]
  /\ UNCHANGED developing

\* find_published_merge_target did: the metrics are those of the default
\* similarities, nothing is scored, and numbers that contradict the published
\* story put it on hold and end its breaking phase.
MergeIntoPublished(m, c) ==
  /\ NextMessage(m)
  /\ status[c] = "published"
  /\ Place(m, c, 70, 70)
  /\ \E s \in {"published", "hold"} :
       /\ status' = [status EXCEPT ![c] = s]
       /\ developing' = IF s = "hold" THEN developing \union {c} ELSE developing
  /\ UNCHANGED <<score, debug>>

\* Neither did: create_cluster_for_message.
NewCluster(m, c) ==
  /\ NextMessage(m)
  /\ status[c] = "none"
  /\ ScoreCluster(c, Visible(m, c))
  /\ Place(m, c, 70, 70)
  /\ UNCHANGED <<debug, developing>>

\* Every scored cluster is judged by the threshold of the task's beginning.
JudgeScored ==
  /\ job = "placing"
  /\ inbox = {}
  /\ status' = [c \in Clusters |->
                  IF status[c] # "scored" THEN status[c]
                  ELSE IF score[c] >= threshold THEN "ai_ready" ELSE "below_threshold"]
  /\ EndTask
  /\ UNCHANGED <<home, metrics, queued, held, joined, audit, acts, uptime>>

\* reconcile_open_clusters, one transaction: the messages outside the largest
\* component of an open cluster leave it, each into a cluster of its own.  That
\* one is not scored, and its metrics do not see its message; those of the old
\* cluster are taken again, with the default similarities.
ReconcileOpenClusters ==
  /\ job = "idle"
  /\ \E moved \in SUBSET {m \in Messages : home[m] \in Clusters /\ status[home[m]] \in OpenStatuses} :
     \E to \in [moved -> {c \in Clusters : status[c] = "none"}] :
       LET split   == {home[m] : m \in moved}
           new     == {to[m] : m \in moved}
           Left(c) == Members(c) \ moved
       IN  /\ moved # {} /\ IsInjective(to)
           /\ \A c \in split : Left(c) # {}
           /\ home'   = [m \in Messages |-> IF m \in moved THEN to[m] ELSE home[m]]
           /\ joined' = [c \in Clusters |-> joined[c] \union {m \in moved : to[m] = c}]
           /\ status' = [c \in Clusters |-> IF c \in new THEN "pending" ELSE status[c]]
           /\ stability' = [c \in Clusters |-> IF c \in split \union new
                                               THEN ComputeClusterStability(c) ELSE stability[c]]
           /\ \E speed \in [split \union new -> UNION {Velocities(Left(c)) : c \in split}] :
                /\ \A c \in split \union new : speed[c] \in Velocities(Left(c))
                /\ confidence' = [c \in Clusters |->
                     IF c \in split \union new
                     THEN ComputeClusterConfidence(Left(c), 70, 70, StabilityWeight(c),
                                                   stability'[c], speed[c])
                     ELSE confidence[c]]
  /\ UNCHANGED <<score, debug, developing, queued, held, audit, acts, uptime, task>>

\* The AI task's answer on c is held, rejected or queued, or there is none.
Analyse(c) ==
  /\ status[c] = "ai_ready"
  /\ c \notin held
  /\ \E s \in {"ai_done", "hold", "rejected", "ai_failed"} :
       /\ status' = [status EXCEPT ![c] = s]
       /\ queued' = IF s = "ai_done" THEN queued \union {c} ELSE queued
       /\ held'   = IF s = "hold" THEN held \union {c} ELSE held
  /\ UNCHANGED <<home, metrics, joined, audit, acts, uptime, task>>

\* A row of hold_queue ends, whatever the status is, with a new analysis, the
\* old answer's routing, or a rejection.
CheckHold(c) ==
  /\ c \in held
  /\ held' = held \ {c}
  /\ \E s \in {"ai_ready", "ai_done", "rejected"} :
       /\ status' = [status EXCEPT ![c] = s]
       /\ queued' = IF s = "ai_done" THEN queued \union {c} ELSE queued
  /\ UNCHANGED <<home, metrics, joined, audit, acts, uptime, task>>

\* A queued row is sent, or cancelled as a duplicate, whatever the status is;
\* with an overlapping session and retry_publish, also a second time.
Publish(c) ==
  /\ c \in queued
  /\ \E s \in {"published", "rejected"} : status' = [status EXCEPT ![c] = s]
  /\ UNCHANGED <<home, metrics, queued, held, joined, audit, acts, uptime, task>>

\* submit_review, and scripts/reprocess_cluster.py or retry_ai_failed.py: any
\* cluster, at any time.
Act(c, s) ==
  /\ acts < MaxActs
  /\ acts' = acts + 1
  /\ status[c] # "none"
  /\ status' = [status EXCEPT ![c] = s]
  /\ UNCHANGED <<home, metrics, queued, held, joined, audit, uptime, task>>

SubmitReview(c) == Act(c, "rejected")

ReprocessCluster(c) == Act(c, "ai_ready")

Next ==
  \/ \E m \in Messages : Arrive(m)
  \/ TimePasses \/ Restart \/ StartTask \/ JudgeScored \/ ReconcileOpenClusters
  \/ \E m \in Messages, c \in Clusters :
       MergeIntoCluster(m, c) \/ MergeIntoPublished(m, c) \/ NewCluster(m, c)
  \/ \E c \in Clusters : Analyse(c) \/ CheckHold(c) \/ Publish(c)
  \/ \E c \in Clusters : SubmitReview(c) \/ ReprocessCluster(c)

Spec == Init /\ [][Next]_vars

-----------------------------------------------------------------------------
(* Properties *)

TypeOK ==
  /\ home \in [Messages -> Clusters \union {"absent", "pending"}]
  /\ status \in [Clusters -> Statuses]
  /\ score \in [Clusters -> LeastScore..GreatestScore \union {Nothing}]
  /\ confidence \in [Clusters -> 0..100 \union {Nothing}]
  /\ stability \in [Clusters -> 0..100 \union {Nothing}]
  /\ debug \in [Clusters -> [hybrid : Similarities, rerank : Similarities] \union {Nothing}]
  /\ developing \subseteq Clusters
  /\ queued \subseteq Clusters
  /\ held \subseteq Clusters
  /\ joined \in [Clusters -> SUBSET Messages]
  /\ audit \subseteq [entity_type : {"message", "cluster"},
                      entity_id : Messages \union Clusters, message : Messages]
  /\ acts \in Nat
  /\ uptime \in {"warmup", "day", "steady"}
  /\ job \in {"idle", "placing"}
  /\ inbox \subseteq Messages
  /\ threshold \in Nat \union {Nothing}

\* The percentile never shuts everyone out: unless it is the fixed or the
\* lowest threshold, some cluster's score reaches it when it is computed.
TopStoryPasses ==
  [][threshold = Nothing /\ threshold' # Nothing =>
       \/ threshold' \in {Fallback, MinThreshold}
       \/ \E c \in Scored : score[c] >= threshold']_vars

\* The threshold lets no story pass that had one message only, however credible
\* its source and however urgent its words: a new cluster is scored empty.  What
\* the reconciliation leaves of a larger story may pass, and a script may bring
\* any cluster to the AI.
LoneStoryDoesNotPass ==
  [][\A c \in Clusters :
       job # job' /\ status[c] = "scored" /\ status'[c] = "ai_ready" =>
         Cardinality(joined[c]) >= 2]_vars

\* A cluster that is to be analysed, whose last match was at least of the default
\* similarity and none of whose messages repeats another source, is not held for
\* its confidence: the two gates agree on what is well corroborated, although the
\* metrics miss the last message or are those after a split.
CorroboratedIsTrusted ==
  \A c \in Clusters :
    /\ status[c] = "ai_ready"
    /\ debug[c] # Nothing
    /\ debug[c].hybrid >= 70 /\ debug[c].rerank >= 70
    /\ Diversity(Members(c)) = 100
    /\ \A m \in Members(c) : Diversity(Members(c) \ {m}) = 100
    => ~ Doubtful(c)

=============================================================================
