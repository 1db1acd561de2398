------------------------------ MODULE Analysis ------------------------------
(***************************************************************************)
(* The AI task run by several processes: the worker, and the shells of the *)
(* admin guide.  The Redis lock of TaskLock is all that keeps them apart,  *)
(* and a batch of twenty clusters, with up to three attempts of 30 s each, *)
(* outlives its TTL of 120 s.  The rows are the committed ones; a process  *)
(* asks the model between loading a cluster and writing it.                *)
(*                                                                         *)
(* The task stops when the monthly budget is spent.  What counts as spent  *)
(* is the sum of cost_estimate_usd over ai_results, so a call that ends in *)
(* an exception or a rollback costs nothing.  The model covers one month   *)
(* and one attempt costs one unit.                                         *)
(***************************************************************************)
EXTENDS Parser, TaskLock

CONSTANTS
  Clusters,
  Answers,       (* raw answers the model may give                          *)
  Nothing,       (* no cluster / no answer / no count                       *)
  Budget,        (* OPENAI_MONTHLY_BUDGET_USD, in attempts                  *)
  MaxRetries,    (* AI_JSON_MAX_RETRIES                                     *)
  AiLimit,       (* .limit(20) of process_cloud_ai                          *)
  Live,          (* PUBLISH_MODE is not dry_run                             *)
  MaxSources     (* bound on the independent sources of a cluster           *)

ASSUME AnalysisAssumption ==
  /\ IsFiniteSet(Procs) /\ IsFiniteSet(Clusters)
  /\ Nothing \notin Clusters \union Answers \union Nat
  /\ Answers \subseteq RawAnswer
  /\ Budget \in Nat \ {0} /\ AiLimit \in Nat \ {0}
  /\ MaxRetries \in Nat /\ MaxSources \in Nat
  /\ Live \in BOOLEAN

VARIABLES
  status,    (* clusters.status                                             *)
  indep,     (* clusters.independent_source_count                           *)
  analysed,  (* clusters.last_ai_processed_at is set                        *)
  aiCount,   (* clusters.ai_independent_source_count_at_run                 *)
  answer,    (* the latest ai_results row, as the text it was parsed from   *)
  held,      (* hold_queue has a row and the cluster is locked              *)
  queued,    (* publication_outbox has an initial row                       *)
  recorded,  (* the sum of cost_estimate_usd this month                     *)
  todo,      (* per process: clusters it loaded and has not visited         *)
  at,        (* ... the cluster it asks the model about                     *)
  paid,      (* ... the attempts made for it                                *)
  seen       (* ... its row as loaded before the first attempt              *)

row  == <<status, indep, analysed, aiCount, answer, held, queued, recorded>>
loop == <<todo, at, paid, seen>>
vars == <<lockVars, row, loop>>

Statuses == {"ai_ready", "below_threshold", "ai_failed", "hold", "ai_done", "rejected",
             "published"}

Loaded == [status : Statuses, indep : Nat, aiCount : Nat \union {Nothing}]

Row(c) == [status |-> status[c], indep |-> indep[c], aiCount |-> aiCount[c]]

\* The ORM writes an attribute that differs from what was loaded.
Flushed(old, new, now) == IF new = old THEN now ELSE new

Init ==
  /\ LockInit
  /\ status   = [c \in Clusters |-> "ai_ready"]
  /\ indep    \in [Clusters -> 1..MaxSources]
  /\ analysed = [c \in Clusters |-> FALSE]
  /\ aiCount  = [c \in Clusters |-> Nothing]
  /\ answer   = [c \in Clusters |-> Nothing]
  /\ held     = [c \in Clusters |-> FALSE]
  /\ queued   = [c \in Clusters |-> FALSE]
  /\ recorded = 0
  /\ todo = [p \in Procs |-> {}]
  /\ at   = [p \in Procs |-> Nothing]
  /\ paid = [p \in Procs |-> 0]
  /\ seen = [p \in Procs |-> Nothing]

-----------------------------------------------------------------------------
(* The loop of process_cloud_ai *)

CircuitBreakerLate == recorded > Budget

CircuitBreakerOpen == recorded >= Budget

Idle(p) == p \in inside /\ at[p] = Nothing

\* With the breaker open the task has nothing to do.
StartTask(p) ==
  /\ Acquire(p)
  /\ LET ready == {c \in Clusters : status[c] = "ai_ready"}
     IN  \E S \in SUBSET ready :
           /\ IF CircuitBreakerOpen THEN S = {}
              ELSE Cardinality(S) = AiLimit \/ (S = ready /\ Cardinality(S) < AiLimit)
           /\ todo' = [todo EXCEPT ![p] = S]
  /\ UNCHANGED <<row, at, paid, seen>>

\* Held, or nothing new since the last analysis.  The status is not looked at.
Skipped(c) == held[c] \/ (analysed[c] /\ indep[c] = aiCount[c])

SkipCluster(p, c) ==
  /\ Idle(p)
  /\ c \in todo[p]
  /\ Skipped(c)
  /\ todo' = [todo EXCEPT ![p] = @ \ {c}]
  /\ UNCHANGED <<lockVars, row, at, paid, seen>>

\* The breaker opened since the task began: analyze_cluster raises, and that
\* is a failure of the cluster like any other.
BreakerTrips(p, c) ==
  /\ Idle(p)
  /\ c \in todo[p]
  /\ ~ Skipped(c)
  /\ CircuitBreakerOpen
  /\ status' = [status EXCEPT ![c] = "ai_failed"]
  /\ todo'   = [todo EXCEPT ![p] = @ \ {c}]
  /\ UNCHANGED <<lockVars, indep, analysed, aiCount, answer, held, queued, recorded,
                 at, paid, seen>>

AnalyzeCluster(p, c) ==
  /\ Idle(p)
  /\ c \in todo[p]
  /\ ~ Skipped(c)
  /\ ~ CircuitBreakerOpen
  /\ todo' = [todo EXCEPT ![p] = @ \ {c}]
  /\ at'   = [at EXCEPT ![p] = c]
  /\ seen' = [seen EXCEPT ![p] = Row(c)]
  /\ UNCHANGED <<lockVars, row, paid>>

Asking(p) == p \in inside /\ at[p] # Nothing

\* An answer that cannot be parsed is asked for again.
AskAgain(p) ==
  /\ Asking(p)
  /\ \E raw \in Answers : ~ Parsable(raw)
  /\ paid[p] < MaxRetries
  /\ paid' = [paid EXCEPT ![p] = @ + 1]
  /\ UNCHANGED <<lockVars, row, todo, at, seen>>

NextClusterUnread(p) ==
  /\ at'   = [at EXCEPT ![p] = Nothing]
  /\ paid' = [paid EXCEPT ![p] = 0]
  /\ UNCHANGED seen

NextCluster(p) ==
  /\ at'   = [at EXCEPT ![p] = Nothing]
  /\ paid' = [paid EXCEPT ![p] = 0]
  /\ seen' = [seen EXCEPT ![p] = Nothing]

\* The last attempt cannot be parsed either, or a request raises: the attempts
\* made are not recorded.
AnalysisFails(p) ==
  /\ Asking(p)
  /\ status' = [status EXCEPT ![at[p]] = Flushed(seen[p].status, "ai_failed", @)]
  /\ NextCluster(p)
  /\ UNCHANGED <<lockVars, indep, analysed, aiCount, answer, held, queued, recorded, todo>>

-----------------------------------------------------------------------------
(* The answer is parsed, recorded and routed by one commit *)

RecordedWith(p) == recorded + paid[p] + 1

\* The parse, the row of ai_results and the cluster's bookkeeping.
RecordAnswer(p, raw) ==
  /\ Asking(p)
  /\ Parsable(raw)
  /\ answer'   = [answer EXCEPT ![at[p]] = raw]
  /\ analysed' = [analysed EXCEPT ![at[p]] = TRUE]
  /\ aiCount'  = [aiCount EXCEPT ![at[p]] = Flushed(seen[p].aiCount, seen[p].indep, @)]
  /\ recorded' = RecordedWith(p)
  /\ NextCluster(p)

HoldAnswer(p, raw) ==
  /\ RecordAnswer(p, raw)
  /\ \E doubtful \in BOOLEAN :
       ShouldHoldForCluster(ParseClusterOutput(raw), seen[p].indep, doubtful)
  /\ held'   = [held EXCEPT ![at[p]] = TRUE]
  /\ status' = [status EXCEPT ![at[p]] = Flushed(seen[p].status, "hold", @)]
  /\ UNCHANGED <<lockVars, indep, queued, todo>>

TrackOf(p, raw) == RouteTrack(ParseClusterOutput(raw), seen[p].indep)

\* A fast answer whose outbox row is new raises when it is sent.
Raises(p, raw) == TrackOf(p, raw) = "fast" /\ Live /\ ~ queued[at[p]]

DoneUnqueued(p, raw) == queued[at[p]]

\* enqueue_initial, which leaves an existing row alone.
Enqueued(p, raw) == queued[at[p]] \/ TrackOf(p, raw) # "reject"

\* What a fast item becomes when it is sent is the subject of Outbox.
RoutedStatuses(p, raw) ==
  CASE TrackOf(p, raw) = "reject"        -> {"rejected"}
    [] TrackOf(p, raw) = "fast" /\ Live  -> {"published", "ai_done", "rejected"}
    [] OTHER                             -> {"ai_done"}

\* apply_publish_routing
RouteAnswer(p, raw) ==
  /\ RecordAnswer(p, raw)
  /\ \E doubtful \in BOOLEAN :
       ~ ShouldHoldForCluster(ParseClusterOutput(raw), seen[p].indep, doubtful)
  /\ ~ Raises(p, raw)
  /\ \E s \in RoutedStatuses(p, raw) :
       status' = [status EXCEPT ![at[p]] = Flushed(seen[p].status, s, @)]
  /\ queued' = [queued EXCEPT ![at[p]] = Enqueued(p, raw)]
  /\ UNCHANGED <<lockVars, indep, held, todo>>

\* The process leaves the loop: its clusters, and its attempts, are forgotten.
Forget(p) ==
  /\ todo' = [todo EXCEPT ![p] = {}]
  /\ NextCluster(p)

\* The exception leaves the task: the transaction rolls back, the lock is
\* released.
RoutingRaises(p, raw) ==
  /\ Asking(p)
  /\ Parsable(raw)
  /\ \E doubtful \in BOOLEAN :
       ~ ShouldHoldForCluster(ParseClusterOutput(raw), seen[p].indep, doubtful)
  /\ Raises(p, raw)
  /\ Release(p)
  /\ Forget(p)
  /\ UNCHANGED row

EndTask(p) ==
  /\ Idle(p)
  /\ todo[p] = {}
  /\ Release(p)
  /\ UNCHANGED <<row, loop>>

Killed(p) ==
  /\ Die(p)
  /\ Forget(p)
  /\ UNCHANGED row

-----------------------------------------------------------------------------
(* Beside the task *)

Expire == KeyExpires /\ UNCHANGED <<row, loop>>

\* A message joins a cluster that is done: it is scored and judged anew.
SourceJoins(c) ==
  /\ status[c] = "ai_done"
  /\ \E n \in {indep[c], indep[c] + 1} :
       /\ n <= MaxSources
       /\ indep' = [indep EXCEPT ![c] = n]
  /\ \E s \in {"ai_ready", "below_threshold"} : status' = [status EXCEPT ![c] = s]
  /\ UNCHANGED <<lockVars, analysed, aiCount, answer, held, queued, recorded, loop>>

\* scripts/retry_ai_failed.py
RetryAiFailed ==
  LET failed == {c \in Clusters : status[c] = "ai_failed"}
  IN  /\ failed # {}
      /\ status'   = [c \in Clusters |-> IF c \in failed THEN "ai_ready" ELSE status[c]]
      /\ analysed' = [c \in Clusters |-> analysed[c] /\ c \notin failed]
      /\ UNCHANGED <<lockVars, indep, aiCount, answer, held, queued, recorded, loop>>

Next ==
  \/ \E p \in Procs : StartTask(p) \/ AskAgain(p) \/ AnalysisFails(p) \/ EndTask(p) \/ Killed(p)
  \/ \E p \in Procs, c \in Clusters :
       SkipCluster(p, c) \/ BreakerTrips(p, c) \/ AnalyzeCluster(p, c)
  \/ \E p \in Procs, raw \in Answers :
       HoldAnswer(p, raw) \/ RouteAnswer(p, raw) \/ RoutingRaises(p, raw)
  \/ \E c \in Clusters : SourceJoins(c)
  \/ Expire
  \/ RetryAiFailed

Spec == Init /\ [][Next]_vars

-----------------------------------------------------------------------------
(* Properties *)

TypeOK ==
  /\ key \in Procs \union {NoProc} /\ inside \subseteq Procs /\ lost \subseteq inside
  /\ status \in [Clusters -> Statuses]
  /\ indep \in [Clusters -> Nat]
  /\ analysed \in [Clusters -> BOOLEAN]
  /\ aiCount \in [Clusters -> Nat \union {Nothing}]
  /\ answer \in [Clusters -> Answers \union {Nothing}]
  /\ held \in [Clusters -> BOOLEAN] /\ queued \in [Clusters -> BOOLEAN]
  /\ recorded \in Nat
  /\ todo \in [Procs -> SUBSET Clusters]
  /\ at \in [Procs -> Clusters \union {Nothing}]
  /\ paid \in [Procs -> 0..MaxRetries]
  /\ seen \in [Procs -> Loaded \union {Nothing}]
  /\ \A p \in Procs : seen[p] \in IF at[p] = Nothing THEN {Nothing} ELSE Loaded

\* The recorded cost passes the budget by what the processes had under way when
\* it was reached, every one of them at its last attempt, and no further, with
\* tasks that overlap because a lock expired.
BreakerOvershoot ==
  recorded <= (Budget - 1) + Cardinality(Procs) * (MaxRetries + 1)

\* A cluster marked ai_done or published has an outbox row, and one in the hold queue has an
\* answer and the count it was given for, although two tasks that both loaded
\* the cluster as ai_ready write it one after the other.
WritersAgree ==
  \A c \in Clusters :
    /\ status[c] \in {"ai_done", "published"} => queued[c]
    /\ held[c] => answer[c] # Nothing /\ aiCount[c] # Nothing

Judged(c) == ParseClusterOutput(answer[c])

\* A half-broken answer whose fields are all defaults is never sent at once.
FragmentIsNeverFast ==
  \A c \in Clusters : answer[c] # Nothing /\ ~ Whole(answer[c]) =>
    RouteTrack(Judged(c), indep[c]) # "fast"

\* What route_track would post at once, should_hold does not want to keep back.
FastIsNeverHeld ==
  \A c \in Clusters : answer[c] # Nothing /\ RouteTrack(Judged(c), indep[c]) = "fast" =>
    ~ ShouldHold(Judged(c), indep[c])

Rank == [reject |-> 0, batch |-> 1, fast |-> 2]

NoWorse(r, n, l, k) ==
  /\ Rank[RouteTrack(r, n)] <= Rank[RouteTrack([r EXCEPT !.confidence = l], k)]
  /\ ~ ShouldHold(r, n) => ~ ShouldHold([r EXCEPT !.confidence = l], k)

\* More evidence never hurts an answer: with the thresholds spread over
\* check_guardrails, route_track and should_hold, further sources or a higher
\* confidence keep its track or improve it, and do not send it to the hold
\* queue when it needed no hold.
EvidenceNeverHurts ==
  \A c \in Clusters : answer[c] # Nothing =>
    \A k \in indep[c]..MaxSources, l \in Judged(c).confidence..100 :
      NoWorse(Judged(c), indep[c], l, k)

=============================================================================
