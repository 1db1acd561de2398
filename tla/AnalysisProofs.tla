----------------------------- MODULE AnalysisProofs -----------------------------
(***************************************************************************)
(* Theorems about Analysis, for any number of processes and clusters, any  *)
(* budget, retries, limit and thresholds.  The gates need the values of    *)
(* GatingAssumption only.  The overshoot of the budget follows from an     *)
(* invariant that charges every process at work for all the attempts it    *)
(* may still make.                                                         *)
(***************************************************************************)
EXTENDS Analysis, FiniteSetTheorems, TLAPS

(***************************************************************************)
(* The task lock, for any number of processes: at most one of those that   *)
(* still have their key is inside, and the lock implements the abstract    *)
(* lease.  Both rest on one invariant: a process that is inside and has    *)
(* not lost its key is the one that set it.                                *)
(***************************************************************************)
LockInv ==
  /\ lost \subseteq inside
  /\ inside \subseteq Procs
  /\ key \in Procs \union {NoProc}
  /\ \A p \in inside \ lost : key = p

LEMMA LockInitInv == LockInit => LockInv
  BY DEF LockInit, LockInv

\* Without a key nobody inside has one.
LEMMA NoKeyNoHolder ==
  ASSUME TaskLockAssumption, LockInv, key = NoProc
  PROVE  inside \ lost = {}
  BY DEF TaskLockAssumption, LockInv

LEMMA AcquireInv ==
  ASSUME TaskLockAssumption, LockInv, NEW p \in Procs, Acquire(p)
  PROVE  LockInv' /\ inside \ lost = {} /\ inside' \ lost' = {p}
<1>1. inside \ lost = {}
  BY NoKeyNoHolder DEF Acquire
<1>2. key' = p /\ inside' = inside \union {p} /\ lost' = lost /\ p \notin inside
  BY DEF Acquire
<1>3. p \notin lost
  BY <1>2 DEF LockInv
<1>4. inside' \ lost' = {p}
  BY <1>1, <1>2, <1>3
<1>5. LockInv'
  BY <1>2, <1>4 DEF LockInv
<1>6. QED BY <1>1, <1>4, <1>5

\* Whoever's key a release deletes, nobody inside has one afterwards.
LEMMA ReleaseInv ==
  ASSUME LockInv, NEW p \in Procs, Release(p)
  PROVE  LockInv' /\ inside' \ lost' = {}
<1>1. inside' \ lost' = {}
  BY DEF LockInv, Release
<1>2. QED BY <1>1 DEF LockInv, Release

LEMMA KeyExpiresInv ==
  ASSUME LockInv, KeyExpires
  PROVE  LockInv' /\ inside' \ lost' = {}
<1>1. inside' \ lost' = {}
  BY DEF LockInv, KeyExpires
<1>2. QED BY <1>1 DEF LockInv, KeyExpires

LEMMA DieInv ==
  ASSUME LockInv, NEW p \in Procs, Die(p)
  PROVE  LockInv' /\ inside' \ lost' = (inside \ lost) \ {p}
<1>1. inside' \ lost' = (inside \ lost) \ {p}
  BY DEF LockInv, Die
<1>2. QED BY <1>1 DEF LockInv, Die

LEMMA LockStepInv ==
  ASSUME TaskLockAssumption, LockInv, [LockNext]_lockVars
  PROVE  LockInv'
<1>1. CASE KeyExpires
  BY <1>1, KeyExpiresInv
<1>2. ASSUME NEW p \in Procs, Acquire(p) \/ Release(p) \/ Die(p)
      PROVE  LockInv'
  BY <1>2, AcquireInv, ReleaseInv, DieInv
<1>3. CASE UNCHANGED lockVars
  BY <1>3 DEF lockVars, LockInv
<1>4. QED BY <1>1, <1>2, <1>3 DEF LockNext

LEMMA AtMostTheHolder ==
  ASSUME LockInv PROVE HolderIsAlone
<1>1. inside \ lost \subseteq {key}
  BY DEF LockInv
<1>2. IsFiniteSet({key}) /\ Cardinality({key}) = 1
  BY FS_Singleton
<1>3. Cardinality(inside \ lost) <= 1
  BY <1>1, <1>2, FS_Subset
<1>4. QED BY <1>3 DEF HolderIsAlone

\* A task overlaps another only after one of them outlived its TTL or had its
\* key deleted, for any number of processes.
THEOREM HoldersAreAlone ==
  ASSUME TaskLockAssumption PROVE LockSpec => []HolderIsAlone
<1>1. LockInit => LockInv
  BY LockInitInv
<1>2. LockInv /\ [LockNext]_lockVars => LockInv'
  BY LockStepInv
<1>3. LockInv => HolderIsAlone
  BY AtMostTheHolder
<1>4. QED BY <1>1, <1>2, <1>3, PTL DEF LockSpec

\* Each step of the lock is a step of the lease, or leaves it alone.
LEMMA LockStepLeases ==
  ASSUME TaskLockAssumption, LockInv, [LockNext]_lockVars
  PROVE  [Leased!Next]_<<inside \ lost, inside>>
<1>1. CASE KeyExpires
  <2>1. Leased!TimeOut
    BY <1>1, KeyExpiresInv DEF KeyExpires, Leased!TimeOut
  <2>2. QED BY <2>1 DEF Leased!Next
<1>2. ASSUME NEW p \in Procs, Acquire(p)
      PROVE  Leased!Next
  <2>1. Leased!Grant(p)
    BY <1>2, AcquireInv DEF Acquire, Leased!Grant
  <2>2. QED BY <2>1 DEF Leased!Next
<1>3. ASSUME NEW p \in Procs, Release(p)
      PROVE  Leased!Next
  <2>1. Leased!Leave(p)
    BY <1>3, ReleaseInv DEF Release, Leased!Leave
  <2>2. QED BY <2>1 DEF Leased!Next
<1>4. ASSUME NEW p \in Procs, Die(p)
      PROVE  Leased!Next
  <2>1. Leased!Leave(p)
    BY <1>4, DieInv DEF Die, Leased!Leave
  <2>2. QED BY <2>1 DEF Leased!Next
<1>5. CASE UNCHANGED lockVars
  BY <1>5 DEF lockVars
<1>6. QED BY <1>1, <1>2, <1>3, <1>4, <1>5 DEF LockNext

\* The Redis lock implements the lease, although a process may delete the key
\* of another one.
THEOREM LockImplementsLease ==
  ASSUME TaskLockAssumption PROVE LockSpec => LeaseKept
<1>1. LockInit => LockInv /\ Leased!Init
  BY LockInitInv DEF LockInit, Leased!Init
<1>2. LockInv /\ [LockNext]_lockVars => LockInv' /\ [Leased!Next]_<<inside \ lost, inside>>
  BY LockStepInv, LockStepLeases
<1>3. QED BY <1>1, <1>2, PTL DEF LockSpec, LeaseKept, Leased!Spec

-----------------------------------------------------------------------------
(* The gates, of any answer. *)

\* Whatever was missing or broken in the text, the result has every field.
LEMMA ParsedOutput ==
  ASSUME NEW raw \in RawAnswer
  PROVE  ParseClusterOutput(raw) \in AIClusterOutput
<1>1. Defaults(raw) \in AIClusterOutput
  BY DEF Defaults, AIClusterOutput, RawAnswer
<1>2. NormalizeClusterData(raw) \in AIClusterOutput
  BY <1>1 DEF NormalizeClusterData, AIClusterOutput, RawAnswer, Fields
<1>3. QED BY <1>1, <1>2 DEF ParseClusterOutput

LEMMA FastNeedsNoHold ==
  ASSUME GatingAssumption, NEW r \in AIClusterOutput, NEW n \in Nat, RouteTrack(r, n) = "fast"
  PROVE  ~ ShouldHold(r, n)
<1>1. IsFast(r, n)
  BY DEF RouteTrack
<1>2. QED BY <1>1 DEF IsFast, ShouldHold, GatingAssumption, AIClusterOutput

LEMMA MoreEvidence ==
  ASSUME GatingAssumption, NEW r \in AIClusterOutput, NEW n \in Nat, NEW k \in Nat,
         NEW l \in 0..100, n <= k, r.confidence <= l
  PROVE  NoWorse(r, n, l, k)
<1> DEFINE s == [r EXCEPT !.confidence = l]
<1>1. /\ s.confidence = l /\ s.status = r.status /\ s.priority = r.priority
      /\ s.sensitive = r.sensitive /\ s.conflicts = r.conflicts
      /\ r.confidence \in Nat /\ l \in Nat
  BY DEF AIClusterOutput
<1> HIDE DEF s
<1>2. CheckGuardrails(r, n) => CheckGuardrails(s, k)
  BY <1>1 DEF CheckGuardrails, GatingAssumption
<1>3. IsFast(r, n) => IsFast(s, k)
  BY <1>1 DEF IsFast, GatingAssumption
<1>4. r.confidence >= BatchMinConfidence => s.confidence >= BatchMinConfidence
  BY <1>1 DEF GatingAssumption
<1>5. r.confidence >= RejectConfidence => s.confidence >= RejectConfidence
  BY <1>1 DEF GatingAssumption
<1>6. ~ ShouldHold(r, n) => ~ ShouldHold(s, k)
  BY <1>1 DEF ShouldHold, GatingAssumption
<1>7. Rank[RouteTrack(r, n)] <= Rank[RouteTrack(s, k)]
  <2>1. CASE RouteTrack(r, n) = "reject"
    BY <2>1 DEF Rank, RouteTrack
  <2>2. CASE RouteTrack(r, n) # "reject"
    <3>1. r.status = "publish" /\ ~ r.confidence < RejectConfidence /\ CheckGuardrails(r, n)
      BY <2>2 DEF RouteTrack
    <3>2. s.status = "publish" /\ ~ s.confidence < RejectConfidence /\ CheckGuardrails(s, k)
      BY <1>1, <1>2, <1>5, <3>1 DEF GatingAssumption
    <3>3. CASE IsFast(r, n)
      BY <1>3, <3>2, <3>3 DEF Rank, RouteTrack
    <3>4. CASE ~ IsFast(r, n)
      <4>1. RouteTrack(r, n) = "batch" /\ r.confidence >= BatchMinConfidence
        BY <2>2, <3>4 DEF RouteTrack
      <4>2. RouteTrack(s, k) \in {"batch", "fast"}
        BY <1>4, <3>2, <4>1 DEF RouteTrack
      <4>3. QED BY <4>1, <4>2 DEF Rank
    <3>5. QED BY <3>3, <3>4
  <2>3. QED BY <2>1, <2>2
<1>8. QED BY <1>6, <1>7 DEF NoWorse, s

-----------------------------------------------------------------------------
(* Types. *)

Busy == {p \in Procs : at[p] # Nothing}

\* What the type of the rows is, without the lock.
Typed == TypeOK /\ LockInv

LEMMA NextLocks ==
  ASSUME [Next]_vars PROVE [LockNext]_lockVars
<1>1. CASE UNCHANGED vars
  BY <1>1 DEF vars
<1>2. CASE Next
  BY <1>2
  DEF Next, LockNext, StartTask, AskAgain, AnalysisFails, EndTask, Killed, SkipCluster,
      BreakerTrips, AnalyzeCluster, HoldAnswer, RouteAnswer, RoutingRaises, SourceJoins,
      Expire, RetryAiFailed
<1>3. QED BY <1>1, <1>2

LEMMA NextClusterTypeOK ==
  ASSUME AnalysisAssumption, TypeOK, NEW p \in Procs, NextCluster(p)
  PROVE  /\ at' \in [Procs -> Clusters \union {Nothing}]
         /\ paid' \in [Procs -> 0..MaxRetries]
         /\ seen' \in [Procs -> Loaded \union {Nothing}]
         /\ \A q \in Procs : seen'[q] \in IF at'[q] = Nothing THEN {Nothing} ELSE Loaded
<1>1. 0 \in 0..MaxRetries
  BY DEF AnalysisAssumption
<1>2. QED BY <1>1 DEF NextCluster, TypeOK

LEMMA AskingType ==
  ASSUME TypeOK, NEW p \in Procs, Asking(p)
  PROVE  at[p] \in Clusters /\ seen[p] \in Loaded /\ paid[p] \in 0..MaxRetries
  BY DEF Asking, TypeOK

LEMMA RecordAnswerTypeOK ==
  ASSUME AnalysisAssumption, TypeOK, NEW p \in Procs, NEW raw \in Answers, RecordAnswer(p, raw)
  PROVE  /\ at' \in [Procs -> Clusters \union {Nothing}]
         /\ paid' \in [Procs -> 0..MaxRetries]
         /\ seen' \in [Procs -> Loaded \union {Nothing}]
         /\ \A q \in Procs : seen'[q] \in IF at'[q] = Nothing THEN {Nothing} ELSE Loaded
         /\ answer' \in [Clusters -> Answers \union {Nothing}]
         /\ analysed' \in [Clusters -> BOOLEAN]
         /\ aiCount' \in [Clusters -> Nat \union {Nothing}]
         /\ recorded' \in Nat
<1>1. at[p] \in Clusters /\ seen[p] \in Loaded /\ paid[p] \in 0..MaxRetries
  BY AskingType DEF RecordAnswer
<1>2. NextCluster(p)
  BY DEF RecordAnswer
<1>3. recorded' \in Nat
  BY <1>1 DEF RecordAnswer, RecordedWith, TypeOK, AnalysisAssumption
<1>4. aiCount' \in [Clusters -> Nat \union {Nothing}]
  BY <1>1 DEF RecordAnswer, Flushed, TypeOK, Loaded
<1>5. answer' \in [Clusters -> Answers \union {Nothing}] /\ analysed' \in [Clusters -> BOOLEAN]
  BY <1>1 DEF RecordAnswer, TypeOK
<1>6. QED BY <1>2, <1>3, <1>4, <1>5, NextClusterTypeOK

LEMMA FlushedStatus ==
  ASSUME TypeOK, NEW c \in Clusters, NEW old, NEW new \in Statuses
  PROVE  [status EXCEPT ![c] = Flushed(old, new, @)] \in [Clusters -> Statuses]
  BY DEF TypeOK, Flushed

LEMMA NextTypeOK ==
  ASSUME AnalysisAssumption, TypeOK, LockInv', [Next]_vars
  PROVE  TypeOK'
<1> USE DEF row, loop
<1>0. key' \in Procs \union {NoProc} /\ inside' \subseteq Procs /\ lost' \subseteq inside'
  BY DEF LockInv
<1>1. ASSUME NEW p \in Procs, StartTask(p)
      PROVE  TypeOK'
  <2>1. todo' \in [Procs -> SUBSET Clusters]
    BY <1>1 DEF StartTask, TypeOK
  <2>2. QED BY <1>0, <1>1, <2>1 DEF StartTask, TypeOK
<1>2. ASSUME NEW p \in Procs, AskAgain(p)
      PROVE  TypeOK'
  <2>1. paid' \in [Procs -> 0..MaxRetries]
    BY <1>2 DEF AskAgain, TypeOK, AnalysisAssumption
  <2>2. QED BY <1>0, <1>2, <2>1 DEF AskAgain, TypeOK
<1>3. ASSUME NEW p \in Procs, AnalysisFails(p)
      PROVE  TypeOK'
  <2>1. at[p] \in Clusters
    BY <1>3, AskingType DEF AnalysisFails
  <2>2. status' \in [Clusters -> Statuses]
    BY <1>3, <2>1, FlushedStatus DEF AnalysisFails, Statuses
  <2>3. NextCluster(p)
    BY <1>3 DEF AnalysisFails
  <2>4. QED BY <1>0, <1>3, <2>2, <2>3, NextClusterTypeOK DEF AnalysisFails, TypeOK
<1>4. ASSUME NEW p \in Procs, EndTask(p)
      PROVE  TypeOK'
  BY <1>0, <1>4 DEF EndTask, TypeOK
<1>5. ASSUME NEW p \in Procs, Forget(p), UNCHANGED row
      PROVE  TypeOK'
  <2>1. NextCluster(p)
    BY <1>5 DEF Forget
  <2>2. todo' \in [Procs -> SUBSET Clusters]
    BY <1>5 DEF Forget, TypeOK
  <2>3. QED BY <1>0, <1>5, <2>1, <2>2, NextClusterTypeOK DEF TypeOK
<1>6. ASSUME NEW p \in Procs, NEW c \in Clusters,
             SkipCluster(p, c) \/ BreakerTrips(p, c) \/ AnalyzeCluster(p, c)
      PROVE  TypeOK'
  <2>1. todo' \in [Procs -> SUBSET Clusters]
    BY <1>6 DEF SkipCluster, BreakerTrips, AnalyzeCluster, TypeOK
  <2>2. CASE SkipCluster(p, c)
    BY <1>0, <2>1, <2>2 DEF SkipCluster, TypeOK
  <2>3. CASE BreakerTrips(p, c)
    BY <1>0, <2>1, <2>3 DEF BreakerTrips, TypeOK, Statuses
  <2>4. CASE AnalyzeCluster(p, c)
    <3>1. Row(c) \in Loaded /\ c # Nothing
      BY DEF Row, Loaded, TypeOK, AnalysisAssumption
    <3>2. /\ at' \in [Procs -> Clusters \union {Nothing}]
          /\ seen' \in [Procs -> Loaded \union {Nothing}]
          /\ \A q \in Procs : seen'[q] \in IF at'[q] = Nothing THEN {Nothing} ELSE Loaded
      BY <2>4, <3>1 DEF AnalyzeCluster, TypeOK
    <3>3. QED BY <1>0, <2>1, <2>4, <3>2 DEF AnalyzeCluster, TypeOK
  <2>5. QED BY <1>6, <2>2, <2>3, <2>4
<1>7. ASSUME NEW p \in Procs, NEW raw \in Answers, HoldAnswer(p, raw)
      PROVE  TypeOK'
  <2>1. RecordAnswer(p, raw) /\ at[p] \in Clusters
    BY <1>7, AskingType DEF HoldAnswer, RecordAnswer
  <2>2. status' \in [Clusters -> Statuses]
    BY <1>7, <2>1, FlushedStatus DEF HoldAnswer, Statuses
  <2>3. held' \in [Clusters -> BOOLEAN]
    BY <1>7, <2>1 DEF HoldAnswer, TypeOK
  <2>4. QED BY <1>0, <1>7, <2>1, <2>2, <2>3, RecordAnswerTypeOK DEF HoldAnswer, TypeOK
<1>8. ASSUME NEW p \in Procs, NEW raw \in Answers, RouteAnswer(p, raw)
      PROVE  TypeOK'
  <2>1. RecordAnswer(p, raw) /\ at[p] \in Clusters
    BY <1>8, AskingType DEF RouteAnswer, RecordAnswer
  <2>2. RoutedStatuses(p, raw) \subseteq Statuses
    BY DEF RoutedStatuses, Statuses
  <2>3. status' \in [Clusters -> Statuses]
    <3>1. PICK s \in RoutedStatuses(p, raw) :
            status' = [status EXCEPT ![at[p]] = Flushed(seen[p].status, s, @)]
      BY <1>8 DEF RouteAnswer
    <3>2. QED BY <2>1, <2>2, <3>1, FlushedStatus
  <2>4. queued' \in [Clusters -> BOOLEAN]
    BY <1>8, <2>1 DEF RouteAnswer, Enqueued, TypeOK
  <2>5. QED BY <1>0, <1>8, <2>1, <2>3, <2>4, RecordAnswerTypeOK DEF RouteAnswer, TypeOK
<1>9. ASSUME NEW c \in Clusters, SourceJoins(c)
      PROVE  TypeOK'
  <2>1. indep' \in [Clusters -> Nat] /\ status' \in [Clusters -> Statuses]
    BY <1>9 DEF SourceJoins, TypeOK, Statuses
  <2>2. QED BY <1>0, <1>9, <2>1 DEF SourceJoins, TypeOK
<1>10. CASE Expire
  BY <1>0, <1>10 DEF Expire, TypeOK
<1>11. CASE RetryAiFailed
  <2>1. status' \in [Clusters -> Statuses] /\ analysed' \in [Clusters -> BOOLEAN]
    BY <1>11 DEF RetryAiFailed, TypeOK, Statuses
  <2>2. QED BY <1>0, <1>11, <2>1 DEF RetryAiFailed, TypeOK
<1>12. CASE UNCHANGED vars
  BY <1>0, <1>12 DEF vars, TypeOK
<1>13. QED
  BY <1>1, <1>2, <1>3, <1>4, <1>5, <1>6, <1>7, <1>8, <1>9, <1>10, <1>11, <1>12
  DEF Next, Killed, RoutingRaises

-----------------------------------------------------------------------------
(* The budget. *)

\* What the processes at work may still add is charged in advance.
Charged ==
  recorded + Cardinality(Busy) * (MaxRetries + 1)
    <= (Budget - 1) + Cardinality(Procs) * (MaxRetries + 1)

LEMMA Multiples ==
  ASSUME NEW a \in Nat, NEW b \in Nat, NEW m \in Nat, a <= b
  PROVE  a * m <= b * m /\ a * m \in Nat /\ b * m \in Nat
  OBVIOUS

LEMMA BusyIsFinite ==
  ASSUME AnalysisAssumption
  PROVE  /\ IsFiniteSet(Busy) /\ Cardinality(Busy) \in Nat
         /\ Cardinality(Procs) \in Nat /\ Cardinality(Busy) <= Cardinality(Procs)
<1>1. Busy \subseteq Procs /\ IsFiniteSet(Procs)
  BY DEF Busy, AnalysisAssumption
<1>2. QED BY <1>1, FS_Subset, FS_CardinalityType

\* A process is done with its cluster.
LEMMA LessBusy ==
  ASSUME AnalysisAssumption, TypeOK, NEW p \in Procs, p \in Busy,
         at' = [at EXCEPT ![p] = Nothing]
  PROVE  Cardinality(Busy') = Cardinality(Busy) - 1
<1>1. Busy' = Busy \ {p}
  BY DEF Busy, TypeOK
<1>2. QED BY <1>1, BusyIsFinite, FS_RemoveElement

LEMMA LessCharged ==
  ASSUME AnalysisAssumption, TypeOK, Charged, NEW p \in Procs,
         at' = [at EXCEPT ![p] = Nothing],
         \/ recorded' = recorded
         \/ p \in Busy /\ recorded' \in Nat /\ recorded' <= recorded + MaxRetries + 1
  PROVE  Charged'
<1> DEFINE k == Cardinality(Busy)
<1>1. k \in Nat /\ MaxRetries \in Nat /\ recorded \in Nat /\ Budget \in Nat
      /\ Cardinality(Procs) \in Nat
  BY BusyIsFinite DEF TypeOK, AnalysisAssumption
<1>2. CASE p \in Busy
  <2>1. Cardinality(Busy') = k - 1 /\ k - 1 \in Nat
    <3>1. Cardinality(Busy') = k - 1
      BY <1>2, LessBusy
    <3>2. k # 0
      BY <1>2, BusyIsFinite, FS_EmptySet
    <3>3. QED BY <1>1, <3>1, <3>2
  <2> HIDE DEF k
  <2>2. (k - 1) * (MaxRetries + 1) = k * (MaxRetries + 1) - (MaxRetries + 1)
    BY <1>1
  <2>3. k * (MaxRetries + 1) \in Nat /\ Cardinality(Procs) * (MaxRetries + 1) \in Nat
    BY <1>1
  <2>4. recorded' + (k - 1) * (MaxRetries + 1) <= recorded + k * (MaxRetries + 1)
    BY <1>1, <2>2, <2>3
  <2>5. QED BY <1>1, <2>1, <2>2, <2>3, <2>4 DEF Charged, k
<1>3. CASE p \notin Busy
  <2>1. at' = at /\ Busy' = Busy
    BY <1>3 DEF Busy, TypeOK
  <2>2. QED BY <1>3, <2>1 DEF Charged
<1>4. QED BY <1>2, <1>3

LEMMA NextCharged ==
  ASSUME AnalysisAssumption, TypeOK, Charged, [Next]_vars
  PROVE  Charged'
<1> USE DEF row, loop
<1>1. ASSUME at' = at, recorded' = recorded
      PROVE  Charged'
  BY <1>1 DEF Charged, Busy
<1>2. ASSUME NEW p \in Procs, NextCluster(p), recorded' = recorded
      PROVE  Charged'
  BY <1>2, LessCharged DEF NextCluster
<1>3. ASSUME NEW p \in Procs, NEW raw \in Answers, RecordAnswer(p, raw)
      PROVE  Charged'
  <2>1. p \in Busy /\ paid[p] \in 0..MaxRetries
    BY <1>3, AskingType DEF RecordAnswer, Asking, Busy
  <2>2. recorded' \in Nat /\ recorded' <= recorded + MaxRetries + 1
    BY <1>3, <2>1 DEF RecordAnswer, RecordedWith, TypeOK, AnalysisAssumption
  <2>3. QED BY <1>3, <2>1, <2>2, LessCharged DEF RecordAnswer, NextCluster
<1>4. ASSUME NEW p \in Procs, NEW c \in Clusters, AnalyzeCluster(p, c)
      PROVE  Charged'
  <2>1. recorded \in Nat /\ recorded' = recorded /\ recorded <= Budget - 1
        /\ Budget \in Nat /\ MaxRetries + 1 \in Nat
    BY <1>4 DEF AnalyzeCluster, CircuitBreakerOpen, TypeOK, AnalysisAssumption
  <2>2. Cardinality(Busy') \in Nat /\ Cardinality(Procs) \in Nat
        /\ Cardinality(Busy') <= Cardinality(Procs)
    <3>1. Busy' \subseteq Procs /\ IsFiniteSet(Procs)
      BY DEF Busy, AnalysisAssumption
    <3>2. QED BY <3>1, FS_Subset, FS_CardinalityType
  <2>3. /\ Cardinality(Busy') * (MaxRetries + 1) <= Cardinality(Procs) * (MaxRetries + 1)
        /\ Cardinality(Busy') * (MaxRetries + 1) \in Nat
        /\ Cardinality(Procs) * (MaxRetries + 1) \in Nat
    BY <2>1, <2>2, Multiples
  <2>4. QED BY <2>1, <2>3 DEF Charged
<1>5. CASE UNCHANGED vars
  BY <1>1, <1>5 DEF vars
<1>6. CASE Next
  BY <1>1, <1>2, <1>3, <1>4, <1>6
  DEF Next, StartTask, AskAgain, AnalysisFails, EndTask, Killed, Forget, SkipCluster,
      BreakerTrips, HoldAnswer, RouteAnswer, RoutingRaises, SourceJoins, Expire, RetryAiFailed
<1>7. QED BY <1>5, <1>6

LEMMA ChargedBounds ==
  ASSUME AnalysisAssumption, TypeOK, Charged
  PROVE  BreakerOvershoot
<1>1. /\ recorded \in Nat /\ Budget \in Nat /\ MaxRetries + 1 \in Nat
      /\ Cardinality(Busy) \in Nat /\ Cardinality(Procs) \in Nat
  BY BusyIsFinite DEF TypeOK, AnalysisAssumption
<1>2. Cardinality(Busy) * (MaxRetries + 1) \in Nat /\ Cardinality(Procs) * (MaxRetries + 1) \in Nat
  BY <1>1, Multiples
<1>3. QED BY <1>1, <1>2 DEF Charged, BreakerOvershoot

-----------------------------------------------------------------------------
(* Two writers of one cluster. *)

\* A count that was there when a process loaded the row is still there.
CountStays ==
  \A p \in Busy : seen[p].aiCount # Nothing => aiCount[at[p]] # Nothing

LEMMA RecordAnswerAgrees ==
  ASSUME AnalysisAssumption, TypeOK, WritersAgree, CountStays,
         NEW p \in Procs, NEW raw \in Answers, RecordAnswer(p, raw)
  PROVE  /\ CountStays'
         /\ answer'[at[p]] # Nothing /\ aiCount'[at[p]] # Nothing
         /\ \A c \in Clusters : held[c] => answer'[c] # Nothing /\ aiCount'[c] # Nothing
<1>1. at[p] \in Clusters /\ seen[p] \in Loaded /\ p \in Busy
  BY AskingType DEF RecordAnswer, Asking, Busy
<1>2. answer'[at[p]] # Nothing
  BY <1>1 DEF RecordAnswer, TypeOK, AnalysisAssumption
<1>3. aiCount'[at[p]] # Nothing
  BY <1>1 DEF RecordAnswer, Flushed, CountStays, TypeOK, AnalysisAssumption, Loaded
<1>4. \A c \in Clusters \ {at[p]} : answer'[c] = answer[c] /\ aiCount'[c] = aiCount[c]
  BY <1>1 DEF RecordAnswer, TypeOK
<1>5. \A q \in Busy' : q \in Busy /\ at'[q] = at[q] /\ seen'[q] = seen[q] /\ at[q] \in Clusters
  BY <1>1 DEF RecordAnswer, NextCluster, Busy, TypeOK
<1>6. CountStays'
  BY <1>3, <1>4, <1>5 DEF CountStays
<1>7. QED BY <1>2, <1>3, <1>4, <1>6 DEF WritersAgree

LEMMA HoldAgrees ==
  ASSUME AnalysisAssumption, TypeOK, WritersAgree, CountStays,
         NEW p \in Procs, NEW raw \in Answers, HoldAnswer(p, raw)
  PROVE  WritersAgree' /\ CountStays'
<1>1. RecordAnswer(p, raw) /\ at[p] \in Clusters
  BY AskingType DEF HoldAnswer, RecordAnswer
<1>2. \A c \in Clusters : status'[c] \in {"ai_done", "published"} => status'[c] = status[c]
  BY <1>1 DEF HoldAnswer, Flushed, TypeOK
<1>3. \A c \in Clusters : held'[c] => held[c] \/ c = at[p]
  BY <1>1 DEF HoldAnswer, TypeOK
<1>4. QED BY <1>1, <1>2, <1>3, RecordAnswerAgrees DEF HoldAnswer, WritersAgree

LEMMA RouteAgrees ==
  ASSUME AnalysisAssumption, TypeOK, WritersAgree, CountStays,
         NEW p \in Procs, NEW raw \in Answers, RouteAnswer(p, raw)
  PROVE  WritersAgree' /\ CountStays'
<1>1. RecordAnswer(p, raw) /\ at[p] \in Clusters /\ held' = held
  BY AskingType DEF RouteAnswer, RecordAnswer
<1>2. PICK s \in RoutedStatuses(p, raw) :
        status' = [status EXCEPT ![at[p]] = Flushed(seen[p].status, s, @)]
  BY DEF RouteAnswer
<1>3. s \in {"ai_done", "published"} => TrackOf(p, raw) # "reject"
  BY <1>2 DEF RoutedStatuses
<1>4. queued' = [queued EXCEPT ![at[p]] = queued[at[p]] \/ TrackOf(p, raw) # "reject"]
  BY DEF RouteAnswer, Enqueued
<1>5. \A c \in Clusters : status'[c] \in {"ai_done", "published"} => queued'[c]
  BY <1>1, <1>2, <1>3, <1>4 DEF Flushed, TypeOK, WritersAgree
<1>6. QED BY <1>1, <1>5, RecordAnswerAgrees DEF WritersAgree

LEMMA NextAgrees ==
  ASSUME AnalysisAssumption, TypeOK, WritersAgree, CountStays, [Next]_vars
  PROVE  WritersAgree' /\ CountStays'
<1> USE DEF row, loop
<1>1. ASSUME UNCHANGED row, UNCHANGED <<at, seen>>
      PROVE  WritersAgree' /\ CountStays'
  BY <1>1 DEF WritersAgree, CountStays, Busy
<1>2. ASSUME NEW p \in Procs, NextCluster(p), UNCHANGED <<aiCount, answer, held, queued>>,
             \A c \in Clusters : status'[c] \in {"ai_done", "published"} => status'[c] = status[c]
      PROVE  WritersAgree' /\ CountStays'
  BY <1>2 DEF WritersAgree, CountStays, NextCluster, Busy, TypeOK
<1>3. ASSUME UNCHANGED <<aiCount, answer, held, queued, at, seen>>,
             \A c \in Clusters : status'[c] \in {"ai_done", "published"} => status'[c] = status[c]
      PROVE  WritersAgree' /\ CountStays'
  BY <1>3 DEF WritersAgree, CountStays, Busy
<1>4. ASSUME NEW p \in Procs, NEW c \in Clusters, AnalyzeCluster(p, c)
      PROVE  WritersAgree' /\ CountStays'
  BY <1>4 DEF AnalyzeCluster, WritersAgree, CountStays, Busy, Row, TypeOK
<1>5. ASSUME NEW p \in Procs, AnalysisFails(p)
      PROVE  WritersAgree' /\ CountStays'
  BY <1>2, <1>5 DEF AnalysisFails, Flushed, TypeOK
<1>6. ASSUME NEW p \in Procs, NEW c \in Clusters, BreakerTrips(p, c)
      PROVE  WritersAgree' /\ CountStays'
  BY <1>3, <1>6 DEF BreakerTrips, TypeOK
<1>7. ASSUME NEW c \in Clusters, SourceJoins(c)
      PROVE  WritersAgree' /\ CountStays'
  BY <1>3, <1>7 DEF SourceJoins, TypeOK
<1>8. CASE RetryAiFailed
  BY <1>3, <1>8 DEF RetryAiFailed
<1>9. ASSUME NEW p \in Procs, Forget(p), UNCHANGED row
      PROVE  WritersAgree' /\ CountStays'
  BY <1>2, <1>9 DEF Forget
<1>10. CASE UNCHANGED vars
  BY <1>1, <1>10 DEF vars
<1>11. ASSUME NEW p \in Procs, StartTask(p) \/ AskAgain(p) \/ EndTask(p)
       PROVE  WritersAgree' /\ CountStays'
  BY <1>1, <1>11 DEF StartTask, AskAgain, EndTask
<1>12. ASSUME NEW p \in Procs, NEW c \in Clusters, SkipCluster(p, c)
       PROVE  WritersAgree' /\ CountStays'
  BY <1>1, <1>12 DEF SkipCluster
<1>13. CASE Expire
  BY <1>1, <1>13 DEF Expire
<1>14. QED
  BY <1>4, <1>5, <1>6, <1>7, <1>8, <1>9, <1>10, <1>11, <1>12, <1>13, HoldAgrees, RouteAgrees
  DEF Next, Killed, RoutingRaises

-----------------------------------------------------------------------------
IInv == TypeOK /\ LockInv /\ Charged /\ WritersAgree /\ CountStays

LEMMA InitIInv == AnalysisAssumption /\ TaskLockAssumption /\ Init => IInv
<1> SUFFICES ASSUME AnalysisAssumption, TaskLockAssumption, Init PROVE IInv
  OBVIOUS
<1>1. LockInv
  BY LockInitInv DEF Init
<1>2. TypeOK
  BY <1>1 DEF Init, TypeOK, LockInv, Statuses, AnalysisAssumption
<1>3. Busy = {}
  BY DEF Init, Busy
<1>4. Charged
  <2>1. Cardinality(Busy) = 0
    BY <1>3, FS_EmptySet
  <2>2. Cardinality(Procs) \in Nat /\ MaxRetries + 1 \in Nat /\ Budget \in Nat \ {0}
    BY BusyIsFinite DEF AnalysisAssumption
  <2>3. Cardinality(Procs) * (MaxRetries + 1) \in Nat
    BY <2>2, Multiples
  <2>4. Cardinality(Busy) * (MaxRetries + 1) = 0
    BY <2>1, <2>2
  <2>5. QED BY <2>2, <2>3, <2>4 DEF Charged, Init
<1>5. WritersAgree
  BY DEF Init, WritersAgree
<1>6. CountStays
  BY <1>3 DEF CountStays
<1>7. QED BY <1>1, <1>2, <1>4, <1>5, <1>6 DEF IInv

LEMMA NextIInv ==
  ASSUME AnalysisAssumption, TaskLockAssumption, IInv, [Next]_vars
  PROVE  IInv'
<1>1. LockInv'
  BY NextLocks, LockStepInv DEF IInv
<1>2. QED BY <1>1, NextTypeOK, NextCharged, NextAgrees DEF IInv

LEMMA SpecIInv == Spec => []IInv
  BY InitIInv, NextIInv, AnalysisAssumption, TaskLockAssumption, PTL DEF Spec

\* Every variable of the AI task keeps its type.
THEOREM SpecTypeOK == Spec => []TypeOK
  BY SpecIInv, PTL DEF IInv

\* The tasks of any number of processes, whose locks may expire at any time,
\* spend at most one cluster's attempts each beyond the budget.
THEOREM BudgetIsBounded == Spec => []BreakerOvershoot
<1>1. IInv => BreakerOvershoot
  BY ChargedBounds, AnalysisAssumption DEF IInv
<1>2. QED BY <1>1, SpecIInv, PTL

\* Overlapping tasks leave no cluster done without its outbox row, and no hold
\* without an answer: process_cloud_ai and the flush of changed attributes.
THEOREM OverlappingWritersAgree == Spec => []WritersAgree
  BY SpecIInv, PTL DEF IInv

\* The tasks use the Redis lock as a lease.
THEOREM TasksKeepLease == Spec => LeaseKept
<1>1. Init => LockInit
  BY DEF Init
<1>2. [Next]_vars => [LockNext]_lockVars
  BY NextLocks
<1>3. Spec => LockSpec
  BY <1>1, <1>2, PTL DEF Spec, LockSpec
<1>4. QED BY <1>3, LockImplementsLease, TaskLockAssumption

\* The latest answer of an analysed cluster has every field.
LEMMA JudgedType ==
  ASSUME AnalysisAssumption, TypeOK, NEW c \in Clusters, answer[c] # Nothing
  PROVE  Judged(c) \in AIClusterOutput /\ indep[c] \in Nat /\ answer[c] \in RawAnswer
<1>1. answer[c] \in RawAnswer /\ indep[c] \in Nat
  BY DEF TypeOK, AnalysisAssumption
<1>2. ParseClusterOutput(answer[c]) \in AIClusterOutput
  BY <1>1, ParsedOutput
<1>3. QED BY <1>1, <1>2 DEF Judged

\* route_track and should_hold agree on what is good enough, for any thresholds
\* of GatingAssumption.
THEOREM FastNeedsNoReview == Spec => []FastIsNeverHeld
<1>1. AnalysisAssumption /\ GatingAssumption /\ TypeOK => FastIsNeverHeld
  BY JudgedType, FastNeedsNoHold DEF FastIsNeverHeld
<1>2. QED BY <1>1, SpecTypeOK, AnalysisAssumption, GatingAssumption, PTL

\* Defaults are never enough for the fast track.
THEOREM FragmentsWait == Spec => []FragmentIsNeverFast
<1>1. FragmentIsNeverFast
  BY DEF FragmentIsNeverFast, Judged, ParseClusterOutput, Defaults, RouteTrack, IsFast
<1>2. QED BY <1>1, PTL

\* The guardrails, the track and the hold gate are monotone in the sources and
\* in the confidence.
THEOREM EvidenceHelps == Spec => []EvidenceNeverHurts
<1>1. ASSUME AnalysisAssumption, GatingAssumption, TypeOK
      PROVE  EvidenceNeverHurts
  <2>1. SUFFICES ASSUME NEW c \in Clusters, answer[c] # Nothing,
                        NEW k \in indep[c]..MaxSources, NEW l \in Judged(c).confidence..100
                 PROVE  NoWorse(Judged(c), indep[c], l, k)
    BY DEF EvidenceNeverHurts
  <2>2. Judged(c) \in AIClusterOutput /\ indep[c] \in Nat
    BY <1>1, <2>1, JudgedType
  <2>3. Judged(c).confidence \in 0..100
    BY <2>2 DEF AIClusterOutput
  <2>4. k \in Nat /\ indep[c] <= k
    BY <2>1, <2>2, AnalysisAssumption DEF AnalysisAssumption
  <2>5. l \in 0..100 /\ Judged(c).confidence <= l
    BY <2>1, <2>3
  <2>6. QED BY <1>1, <2>2, <2>4, <2>5, MoreEvidence
<1>2. QED BY <1>1, SpecTypeOK, AnalysisAssumption, GatingAssumption, PTL

=============================================================================
