----------------------------- MODULE FetchProofs -----------------------------
(***************************************************************************)
(* Theorems about Fetch, for any number of sources and messages, any page  *)
(* size, page limit, overlap and lookback.                                 *)
(***************************************************************************)
EXTENDS Fetch, FiniteSetTheorems, SequenceTheorems, TLAPS

(***************************************************************************)
(* Type correctness.                                                       *)
(***************************************************************************)
Payloads == [msg : Messages, version : Nat]

LEMMA InitType == ASSUME FetchAssumption, Init PROVE TypeOK
<1>1. <<>> \in Seq(Payloads)
  OBVIOUS
<1>2. QED BY <1>1 DEF FetchAssumption, Init, TypeOK, Payloads

LEMMA UpsertedType ==
  ASSUME NEW row \in Nat, NEW v \in Nat
  PROVE  Upserted(row, v) \in Nat /\ Upserted(row, v) >= row /\ Upserted(row, v) >= v
  BY DEF Upserted

LEMMA TailType ==
  ASSUME NEW q \in Seq(Payloads), q # <<>>
  PROVE  Tail(q) \in Seq(Payloads) /\ Head(q).msg \in Messages /\ Head(q).version \in Nat
<1>1. Head(q) \in Payloads /\ Tail(q) \in Seq(Payloads)
  OBVIOUS
<1>2. QED BY <1>1 DEF Payloads

LEMMA AppendType ==
  ASSUME NEW q \in Seq(Payloads), NEW p \in Payloads
  PROVE  Append(q, p) \in Seq(Payloads)
  OBVIOUS

\* What a task that ends, well or badly, leaves in its variables.
LEMMA EndFetchType ==
  ASSUME EndFetch
  PROVE  /\ phase' \in {"idle", "asking", "storing"} \union Flushing
         /\ src' \in Sources \union {None}
         /\ started' \in Nat
         /\ listed' \subseteq Messages
         /\ batch' \in [Messages -> Nat]
         /\ complete' \in BOOLEAN
         /\ failed' \in BOOLEAN
  BY DEF EndFetch

LEMMA QueueType ==
  ASSUME TypeOK, NEW S \in SUBSET Sources, Queue(S)
  PROVE  TypeOK'
<1>1. buffer' \in Seq(Payloads)
  <2>1. buffer \in Seq(Payloads)
    BY DEF TypeOK, Payloads
  <2>2. buffer' = buffer \/ (buffer # <<>> /\ buffer' = Tail(buffer))
    BY DEF Queue, EndFlush
  <2>3. QED BY <2>1, <2>2, TailType
<1>2. /\ stored' \in [Messages -> Nat]
      /\ draft' \in [Messages -> Nat]
      /\ errors' \in Nat
  BY DEF Queue, EndFlush, TypeOK
<1>3. QED BY <1>1, <1>2 DEF Queue, channel, TypeOK, Payloads

LEMMA TaskStepType ==
  ASSUME FetchAssumption, TypeOK, TaskStep
  PROVE  TypeOK'
<1>1. CASE FlushPayload
  <2> DEFINE p == Head(buffer)
  <2>1. buffer \in Seq(Payloads) /\ buffer # <<>>
    BY <1>1 DEF FlushPayload, TypeOK, Payloads
  <2>2. p.msg \in Messages /\ p.version \in Nat /\ Tail(buffer) \in Seq(Payloads)
    BY <2>1, TailType
  <2>3. draft[p.msg] \in Nat
    BY <2>2 DEF TypeOK
  <2>4. Upserted(draft[p.msg], p.version) \in Nat
    BY <2>2, <2>3, UpsertedType
  <2>5. draft' \in [Messages -> Nat]
    BY <1>1, <2>2, <2>3, <2>4 DEF FlushPayload, TypeOK
  <2>6. buffer' \in Seq(Payloads)
    BY <1>1, <2>2 DEF FlushPayload
  <2>7. QED BY <1>1, <2>5, <2>6 DEF FlushPayload, channel, broker, TypeOK, Payloads
<1>2. CASE DispatchFetch
  <2>1. PICK S \in SUBSET Sources : Queue(S)
    BY <1>2 DEF DispatchFetch, Stalest, LongestAgo, TypeOK
  <2>2. QED BY <2>1, QueueType
<1>3. CASE FetchAllSources
  BY <1>3, QueueType DEF FetchAllSources, TypeOK
<1>4. CASE FetchMessages
  <2>1. /\ listed' \subseteq Messages
        /\ batch' \in [Messages -> Nat]
    BY <1>4 DEF FetchMessages, TypeOK
  <2>2. complete' \in BOOLEAN
    BY <1>4 DEF FetchMessages, BackfillComplete
  <2>3. QED BY <1>4, <2>1, <2>2 DEF FetchMessages, channel, broker, TypeOK
<1>5. ASSUME NEW m \in Messages, UpsertMessage(m)
      PROVE  TypeOK'
  <2>1. Upserted(draft[m], batch[m]) \in Nat
    BY UpsertedType DEF TypeOK
  <2>2. batch' \in [Messages -> Nat] /\ draft' \in [Messages -> Nat]
    BY <1>5, <2>1 DEF UpsertMessage, TakeNext, TypeOK
  <2>3. QED BY <1>5, <2>2 DEF UpsertMessage, TakeNext, channel, broker, TypeOK
<1>6. ASSUME NEW m \in Messages, BufferMessage(m)
      PROVE  TypeOK'
  <2>1. [msg |-> m, version |-> batch[m]] \in Payloads
    BY DEF Payloads, TypeOK
  <2>2. buffer' \in Seq(Payloads)
    BY <1>6, <2>1, AppendType DEF BufferMessage, TypeOK, Payloads
  <2>3. batch' \in [Messages -> Nat]
    BY <1>6 DEF BufferMessage, TakeNext, TypeOK
  <2>4. failed' \in BOOLEAN /\ errors' \in Nat /\ draft' \in [Messages -> Nat]
    BY <1>6 DEF BufferMessage, TypeOK
  <2>5. QED BY <1>6, <2>2, <2>3, <2>4 DEF BufferMessage, channel, broker, TypeOK, Payloads
<1>7. CASE CommitFetch
  <2>1. lastFetch' \in [Sources -> Nat \union {Never}]
    BY <1>7 DEF CommitFetch, TypeOK
  <2>2. QED BY <1>7, <2>1, EndFetchType DEF CommitFetch, channel, TypeOK
<1>8. CASE FetchRaises
  <2>1. stored' = draft \/ stored' = stored
    BY <1>8 DEF FetchRaises
  <2>2. draft' = stored' /\ (faults' = faults \/ faults' = faults + 1)
    BY <1>8 DEF FetchRaises
  <2>3. stored' \in [Messages -> Nat] /\ draft' \in [Messages -> Nat] /\ faults' \in Nat
    <3>1. stored \in [Messages -> Nat] /\ draft \in [Messages -> Nat] /\ faults \in Nat
      BY DEF TypeOK
    <3>2. stored' \in [Messages -> Nat]
      BY <3>1, <2>1, Zenon
    <3>3. draft' \in [Messages -> Nat]
      BY <3>2, <2>2, Zenon
    <3>4. faults' \in Nat
      BY <3>1, <2>2
    <3>5. QED BY <3>2, <3>3, <3>4
  <2>4. UNCHANGED <<now, published, version, buffer, lastFetch, active, queued, errors>>
    BY <1>8 DEF FetchRaises, channel
  <2>5. locked' \subseteq Sources /\ EndFetch
    BY <1>8 DEF FetchRaises, TypeOK
  <2>6. QED BY <2>3, <2>4, <2>5, EndFetchType DEF TypeOK
<1>9. QED BY <1>1, <1>2, <1>3, <1>4, <1>5, <1>6, <1>7, <1>8 DEF TaskStep

LEMMA NextType ==
  ASSUME FetchAssumption, TypeOK, [Next]_vars
  PROVE  TypeOK'
<1> USE DEF channel, broker, task
<1>1. CASE Tick
  BY <1>1 DEF Tick, TypeOK
<1>2. ASSUME NEW m \in Messages, Post(m)
      PROVE  TypeOK'
  <2>1. published' \in [Messages -> Nat] /\ version' \in [Messages -> Nat]
    BY <1>2 DEF Post, TypeOK, FetchAssumption
  <2>2. QED BY <1>2, <2>1 DEF Post, TypeOK
<1>3. ASSUME NEW m \in Messages, Edit(m)
      PROVE  TypeOK'
  <2>1. version' = [version EXCEPT ![m] = version[m] + 1]
    BY <1>3 DEF Edit
  <2>2. version' \in [Messages -> Nat]
    BY <2>1 DEF TypeOK
  <2>3. QED BY <1>3, <2>2 DEF Edit, TypeOK
<1>4. ASSUME NEW s \in Sources, ToggleSource(s)
      PROVE  TypeOK'
  BY <1>4 DEF ToggleSource, TypeOK
<1>5. ASSUME NEW s \in Sources, SkipFetch(s)
      PROVE  TypeOK'
  BY <1>5 DEF SkipFetch, TypeOK
<1>6. ASSUME NEW s \in Sources, StartFetch(s)
      PROVE  TypeOK'
  BY <1>6 DEF StartFetch, TypeOK
<1>7. ASSUME NEW s \in Sources, LockExpires(s)
      PROVE  TypeOK'
  BY <1>7 DEF LockExpires, TypeOK
<1>8. CASE StartDispatch \/ StartFetchAll
  BY <1>8 DEF StartDispatch, StartFetchAll, StartTask, TypeOK, Flushing
<1>9. CASE WorkerDies
  <2>1. queued' \subseteq Sources
    BY <1>9 DEF WorkerDies, TypeOK
  <2>2. QED BY <1>9, <2>1, EndFetchType DEF WorkerDies, TypeOK
<1>10. CASE UNCHANGED vars
  BY <1>10 DEF vars, TypeOK
<1>11. QED
  BY <1>1, <1>2, <1>3, <1>4, <1>5, <1>6, <1>7, <1>8, <1>9, <1>10, TaskStepType DEF Next

\* Every variable keeps its type.
THEOREM TypeCorrect == ASSUME FetchAssumption PROVE Spec => []TypeOK
<1>1. Init => TypeOK
  BY InitType
<1>2. TypeOK /\ [Next]_vars => TypeOK'
  BY NextType
<1>3. QED BY <1>1, <1>2, PTL DEF Spec

-----------------------------------------------------------------------------
(***************************************************************************)
(* Rows never regress.  What a session commits is never older than the     *)
(* committed rows, because the only writes to its view are upserts.        *)
(***************************************************************************)
DraftIsNewer == \A m \in Messages : draft[m] >= stored[m]

LEMMA UpsertKeepsNewer ==
  ASSUME TypeOK, DraftIsNewer, NEW m \in Messages, NEW v \in Nat, NEW accepted \in BOOLEAN,
         draft' = [draft EXCEPT ![m] = IF accepted THEN Upserted(draft[m], v) ELSE draft[m]],
         stored' = stored
  PROVE  DraftIsNewer'
<1>1. draft \in [Messages -> Nat] /\ stored \in [Messages -> Nat]
  BY DEF TypeOK
<1>2. Upserted(draft[m], v) >= draft[m] /\ Upserted(draft[m], v) \in Nat
  BY <1>1, UpsertedType
<1>3. SUFFICES ASSUME NEW n \in Messages PROVE draft'[n] >= stored[n]
  BY DEF DraftIsNewer
<1>4. draft[n] >= stored[n] /\ draft[n] \in Nat /\ stored[n] \in Nat
  BY <1>1 DEF DraftIsNewer
<1>5. CASE n = m
  BY <1>1, <1>2, <1>4, <1>5
<1>6. CASE n # m
  BY <1>1, <1>4, <1>6
<1>7. QED BY <1>5, <1>6

\* A step upserts, commits the session's view, gives it up, or touches neither.
LEMMA RowSteps ==
  ASSUME TypeOK, [Next]_vars
  PROVE  \/ stored' = stored /\ draft' = draft
         \/ stored' = draft /\ draft' = draft
         \/ stored' = stored /\ draft' = stored
         \/ /\ stored' = stored
            /\ \E m \in Messages, v \in Nat, accepted \in BOOLEAN :
                 draft' = [draft EXCEPT ![m] = IF accepted THEN Upserted(draft[m], v)
                                                          ELSE draft[m]]
<1> USE DEF channel, broker, task
<1>1. CASE FlushPayload
  <2>1. buffer \in Seq(Payloads) /\ buffer # <<>>
    BY <1>1 DEF FlushPayload, TypeOK, Payloads
  <2>2. Head(buffer).msg \in Messages /\ Head(buffer).version \in Nat
    BY <2>1, TailType
  <2>3. Fresh(Head(buffer).msg) \in BOOLEAN
    BY DEF Fresh
  <2>4. QED BY <1>1, <2>2, <2>3 DEF FlushPayload
<1>2. CASE DispatchFetch \/ FetchAllSources
  BY <1>2 DEF DispatchFetch, FetchAllSources, Queue, EndFlush
<1>3. ASSUME NEW m \in Messages, UpsertMessage(m)
      PROVE  stored' = stored /\ \E v \in Nat, accepted \in BOOLEAN :
               draft' = [draft EXCEPT ![m] = IF accepted THEN Upserted(draft[m], v) ELSE draft[m]]
  <2>1. batch[m] \in Nat /\ Fresh(m) \in BOOLEAN
    BY DEF TypeOK, Fresh
  <2>2. QED BY <1>3, <2>1 DEF UpsertMessage
<1>4. ASSUME NEW m \in Messages, BufferMessage(m)
      PROVE  stored' = stored /\ draft' = stored
  BY <1>4 DEF BufferMessage
<1>5. CASE FetchMessages
  BY <1>5 DEF FetchMessages
<1>6. CASE CommitFetch
  BY <1>6 DEF CommitFetch
<1>7. CASE FetchRaises
  BY <1>7 DEF FetchRaises
<1>8. CASE WorkerDies
  BY <1>8 DEF WorkerDies
<1>9. CASE Tick \/ StartDispatch \/ StartFetchAll \/ UNCHANGED vars
  BY <1>9 DEF Tick, StartDispatch, StartFetchAll, StartTask, vars
<1>10. ASSUME NEW m \in Messages, Post(m) \/ Edit(m)
       PROVE  stored' = stored /\ draft' = draft
  BY <1>10 DEF Post, Edit
<1>11. ASSUME NEW s \in Sources,
              ToggleSource(s) \/ SkipFetch(s) \/ StartFetch(s) \/ LockExpires(s)
       PROVE  stored' = stored /\ draft' = draft
  BY <1>11 DEF ToggleSource, SkipFetch, StartFetch, LockExpires
<1>12. QED
  BY <1>1, <1>2, <1>3, <1>4, <1>5, <1>6, <1>7, <1>8, <1>9, <1>10, <1>11 DEF Next, TaskStep

LEMMA NextKeepsNewer ==
  ASSUME FetchAssumption, TypeOK, DraftIsNewer, [Next]_vars
  PROVE  DraftIsNewer' /\ \A m \in Messages : stored'[m] >= stored[m]
<1>1. /\ stored \in [Messages -> Nat]
      /\ draft \in [Messages -> Nat]
  BY DEF TypeOK
<1>2. CASE stored' = stored /\ draft' = draft
  BY <1>1, <1>2 DEF DraftIsNewer
<1>3. CASE stored' = draft /\ draft' = draft
  BY <1>1, <1>3 DEF DraftIsNewer
<1>4. CASE stored' = stored /\ draft' = stored
  BY <1>1, <1>4 DEF DraftIsNewer
<1>5. ASSUME stored' = stored,
             NEW m \in Messages, NEW v \in Nat, NEW accepted \in BOOLEAN,
             draft' = [draft EXCEPT ![m] = IF accepted THEN Upserted(draft[m], v) ELSE draft[m]]
      PROVE  DraftIsNewer' /\ \A n \in Messages : stored'[n] >= stored[n]
  <2>1. DraftIsNewer'
    BY <1>5, UpsertKeepsNewer
  <2>2. QED BY <1>1, <1>5, <2>1
<1>6. QED BY <1>2, <1>3, <1>4, <1>5, RowSteps

\* A row of messages stays, and never returns to an older edit, through payloads
\* that waited in Redis, rollbacks, and workers that die.
THEOREM RowsAreMonotone == ASSUME FetchAssumption PROVE Spec => RowsNeverRegress
<1>1. Init => DraftIsNewer
  BY DEF Init, DraftIsNewer
<1>2. TypeOK /\ DraftIsNewer /\ [Next]_vars
        => DraftIsNewer' /\ [\A m \in Messages : stored'[m] >= stored[m]]_vars
  BY NextKeepsNewer
<1>3. QED BY <1>1, <1>2, TypeCorrect, PTL DEF Spec, RowsNeverRegress

-----------------------------------------------------------------------------
(***************************************************************************)
(* A clean fetch leaves nothing behind.  Three parts: a complete backfill  *)
(* collected every message in reach; while it is stored, each of them is   *)
(* waiting, in the session's view, or too old; and what is due is in reach.*)
(***************************************************************************)

\* The page limit cuts nothing off when the backfill is reported complete.
LEMMA CompleteCollects ==
  ASSUME FetchAssumption, TypeOK, NEW S \in SUBSET Messages, NEW from \in Int,
         BackfillComplete(S, from)
  PROVE  Collected(S, from) = Reachable(S, from)
<1> DEFINE R == Reachable(S, from)
<1>1. SUFFICES ASSUME NEW m \in R PROVE Rank(m, S) < PageSize * MaxPages
  BY DEF Collected, Reachable
<1> DEFINE newer == {n \in S : published[n] > published[m]}
<1>2. /\ PageSize \in Nat \ {0}
      /\ MaxPages \in Nat \ {0}
      /\ m \in S
      /\ published[m] >= from
      /\ \A n \in S : published[n] \in Nat
  BY DEF FetchAssumption, Reachable, TypeOK
<1>3. IsFiniteSet(S) /\ IsFiniteSet(R)
  BY FS_Subset DEF FetchAssumption, Reachable
<1>4. newer \subseteq R \ {m}
  BY <1>2 DEF Reachable
<1>5. newer \subseteq S \ {m}
  BY <1>2
<1>0. m \in R
  OBVIOUS
<1> HIDE DEF newer, R
<1>6. /\ Cardinality(newer) \in Nat
      /\ Cardinality(newer) <= Cardinality(R \ {m})
      /\ Cardinality(newer) <= Cardinality(S \ {m})
  BY <1>3, <1>4, <1>5, FS_Subset, FS_RemoveElement, FS_CardinalityType
<1>7. /\ Cardinality(R) \in Nat
      /\ Cardinality(S) \in Nat
      /\ Cardinality(R \ {m}) = Cardinality(R) - 1
      /\ Cardinality(S \ {m}) = Cardinality(S) - 1
  BY <1>0, <1>2, <1>3, FS_RemoveElement, FS_CardinalityType
<1>8. Cardinality(newer) < Cardinality(R) /\ Cardinality(newer) < Cardinality(S)
  BY <1>6, <1>7
<1>9. PageSize * (MaxPages - 2) <= PageSize * MaxPages /\ PageSize * MaxPages \in Nat
      /\ PageSize * (MaxPages - 2) \in Int
  BY <1>2
<1>10. \/ Cardinality(R) < PageSize * MaxPages
       \/ Cardinality(S) <= PageSize * (MaxPages - 2)
  BY DEF BackfillComplete, R
<1>11. Cardinality(newer) < PageSize * MaxPages
  BY <1>6, <1>7, <1>8, <1>9, <1>10
<1>12. QED BY <1>11 DEF Rank, newer

\* Where each message in reach is, while a clean and complete fetch is stored.
Accounted(m) == batch[m] > 0 \/ draft[m] > 0 \/ ~ Fresh(m)

FetchInv ==
  phase = "storing" =>
    /\ src \in Sources
    /\ \A m \in listed : version[m] > 0
    /\ complete /\ ~ failed =>
         \A m \in Reachable(listed, OverlapStart(src, started)) : Accounted(m)

\* A running fetch has a source.
AskingInv == phase = "asking" => src \in Sources

OverlapStartType == 
  \A s \in Sources, t \in Nat : OverlapStart(s, t) \in Int

LEMMA OverlapStartIsInt ==
  ASSUME FetchAssumption, TypeOK PROVE OverlapStartType
  BY DEF OverlapStartType, OverlapStart, OlderOf, TypeOK, FetchAssumption

LEMMA ListingIsAccounted ==
  ASSUME FetchAssumption, TypeOK, AskingInv, FetchMessages
  PROVE  FetchInv'
<1> DEFINE S    == {m \in Messages : SourceOf[m] = src /\ version[m] > 0}
           from == OverlapStart(src, started)
<1>1. src \in Sources /\ from \in Int
  BY OverlapStartIsInt DEF FetchMessages, AskingInv, OverlapStartType, TypeOK
<1>2. /\ listed' = S
      /\ batch' = [m \in Messages |-> IF m \in Collected(S, from) THEN version[m] ELSE 0]
      /\ complete' = BackfillComplete(S, from)
      /\ UNCHANGED <<published, version, lastFetch, src, started, draft, now>>
  BY DEF FetchMessages, channel
<1>3. OverlapStart(src, started)' = from
  BY <1>2 DEF OverlapStart
<1>4. Reachable(listed, OverlapStart(src, started))' = Reachable(S, from)
  BY <1>2, <1>3 DEF Reachable
<1>5. \A m \in S : m \in Messages /\ version[m] > 0
  OBVIOUS
<1>6. ASSUME complete', NEW m \in Reachable(S, from)
      PROVE  batch'[m] > 0
  <2>1. m \in S /\ m \in Messages /\ version[m] > 0
    BY <1>6, <1>5 DEF Reachable
  <2>2. m \in Collected(S, from)
    BY <1>1, <1>2, <1>6, CompleteCollects
  <2>3. QED BY <1>2, <2>1, <2>2
<1> HIDE DEF S, from
<1>7. QED BY <1>1, <1>2, <1>4, <1>5, <1>6 DEF FetchInv, Accounted

\* Upserting a message moves it from the batch to the session's view.
LEMMA UpsertAccounts ==
  ASSUME TypeOK, FetchInv, NEW n \in Messages, UpsertMessage(n)
  PROVE  FetchInv'
<1>1. /\ phase = "storing"
      /\ batch[n] > 0
      /\ batch' = [batch EXCEPT ![n] = 0]
      /\ draft' = [draft EXCEPT ![n] = IF Fresh(n) THEN Upserted(draft[n], batch[n]) ELSE draft[n]]
      /\ UNCHANGED <<now, published, version, lastFetch, src, started, listed, complete, failed>>
  BY DEF UpsertMessage, TakeNext, channel
<1>2. Reachable(listed, OverlapStart(src, started))' = Reachable(listed, OverlapStart(src, started))
  BY <1>1 DEF Reachable, OverlapStart
<1>3. ASSUME NEW m \in Messages, Accounted(m)
      PROVE  Accounted(m)'
  <2>1. Fresh(m)' = Fresh(m)
    BY <1>1 DEF Fresh
  <2>2. CASE m = n
    <3>1. draft[n] \in Nat /\ batch[n] \in Nat
      BY DEF TypeOK
    <3>2. Upserted(draft[n], batch[n]) > 0
      <4>1. Upserted(draft[n], batch[n]) \in Nat /\ Upserted(draft[n], batch[n]) >= batch[n]
        BY <3>1, UpsertedType
      <4>2. QED BY <1>1, <3>1, <4>1
    <3>3. Fresh(n) => draft'[n] > 0
      BY <1>1, <3>2 DEF TypeOK
    <3>4. QED BY <2>1, <2>2, <3>3 DEF Accounted
  <2>3. CASE m # n
    <3>1. batch'[m] = batch[m] /\ draft'[m] = draft[m]
      BY <1>1, <2>3 DEF TypeOK
    <3>2. QED BY <1>3, <2>1, <3>1 DEF Accounted
  <2>4. QED BY <2>2, <2>3
<1>4. Reachable(listed, OverlapStart(src, started)) \subseteq Messages
  BY DEF Reachable, TypeOK
<1>5. QED BY <1>1, <1>2, <1>3, <1>4 DEF FetchInv

\* A step that leaves the running fetch alone and only lets messages age, appear
\* or be edited keeps every message accounted for.
LEMMA ChannelStepKeeps ==
  ASSUME TypeOK, FetchInv,
         UNCHANGED <<phase, src, started, listed, batch, complete, draft, failed, lastFetch>>,
         now' \in Nat, now' >= now,
         \A m \in Messages : version[m] > 0 =>
            version'[m] > 0 /\ published'[m] = published[m],
         FetchAssumption
  PROVE  FetchInv'
<1>1. SUFFICES ASSUME phase = "storing" PROVE FetchInv'
  BY DEF FetchInv
<1>2. listed \subseteq Messages /\ \A m \in listed : version[m] > 0
  BY <1>1 DEF FetchInv, TypeOK
<1>3. \A m \in listed : version'[m] > 0 /\ published'[m] = published[m]
  BY <1>2
<1>4. OverlapStart(src, started)' = OverlapStart(src, started)
  BY DEF OverlapStart
<1>5. Reachable(listed, OverlapStart(src, started))' = Reachable(listed, OverlapStart(src, started))
  BY <1>3, <1>4 DEF Reachable
<1>6. ASSUME NEW m \in listed, Accounted(m)
      PROVE  Accounted(m)'
  <2>1. published[m] \in Nat /\ now \in Nat /\ Lookback \in Nat
    BY <1>2 DEF TypeOK, FetchAssumption
  <2>2. ~ Fresh(m) => ~ Fresh(m)'
    BY <1>3, <2>1 DEF Fresh
  <2>3. QED BY <1>6, <2>2 DEF Accounted
<1>7. \A m \in Reachable(listed, OverlapStart(src, started)) : m \in listed
  BY DEF Reachable
<1>8. QED BY <1>1, <1>2, <1>3, <1>5, <1>6, <1>7 DEF FetchInv

\* ... while the clock stands still.
LEMMA StillKeeps ==
  ASSUME FetchAssumption, TypeOK, FetchInv, AskingInv,
         UNCHANGED <<now, phase, src, started, listed, batch, complete, draft, failed, lastFetch>>,
         \A m \in Messages : version[m] > 0 =>
            version'[m] > 0 /\ published'[m] = published[m]
  PROVE  FetchInv' /\ AskingInv'
<1>1. now' \in Nat /\ now' >= now
  BY DEF TypeOK
<1>2. FetchInv'
  BY <1>1, ChannelStepKeeps
<1>3. QED BY <1>2 DEF AskingInv

LEMMA NextKeepsFetchInv ==
  ASSUME FetchAssumption, TypeOK, FetchInv, AskingInv, [Next]_vars
  PROVE  FetchInv' /\ AskingInv'
<1> USE DEF channel, broker, task
<1>1. CASE FetchMessages
  BY <1>1, ListingIsAccounted DEF FetchMessages, AskingInv
<1>2. ASSUME NEW m \in Messages, UpsertMessage(m)
      PROVE  FetchInv' /\ AskingInv'
  BY <1>2, UpsertAccounts DEF UpsertMessage, TakeNext, AskingInv
<1>3. ASSUME NEW m \in Messages, BufferMessage(m)
      PROVE  FetchInv' /\ AskingInv'
  BY <1>3 DEF BufferMessage, TakeNext, FetchInv, AskingInv
<1>4. CASE CommitFetch \/ FetchRaises \/ WorkerDies
  BY <1>4 DEF CommitFetch, FetchRaises, WorkerDies, EndFetch, FetchInv, AskingInv
<1>5. CASE FlushPayload
  BY <1>5 DEF FlushPayload, Flushing, FetchInv, AskingInv
<1>6. CASE DispatchFetch \/ FetchAllSources
  BY <1>6 DEF DispatchFetch, FetchAllSources, Queue, FetchInv, AskingInv
<1>7. CASE StartDispatch \/ StartFetchAll
  BY <1>7 DEF StartDispatch, StartFetchAll, StartTask, FetchInv, AskingInv
<1>8. ASSUME NEW s \in Sources, StartFetch(s)
      PROVE  FetchInv' /\ AskingInv'
  BY <1>8 DEF StartFetch, FetchInv, AskingInv
<1>9. CASE Tick
  BY <1>9, ChannelStepKeeps DEF Tick, TypeOK, AskingInv
<1>10. ASSUME NEW n \in Messages, Post(n)
       PROVE  FetchInv' /\ AskingInv'
  <2>1. /\ UNCHANGED <<now, phase, src, started, listed, batch, complete, draft, failed, lastFetch>>
        /\ version[n] = 0
        /\ version' = [version EXCEPT ![n] = 1]
        /\ \E t : published' = [published EXCEPT ![n] = t]
    BY <1>10 DEF Post
  <2>2. \A m \in Messages : version[m] > 0 => version'[m] > 0 /\ published'[m] = published[m]
    BY <2>1 DEF TypeOK
  <2>3. QED BY <2>1, <2>2, StillKeeps
<1>11. ASSUME NEW n \in Messages, Edit(n)
       PROVE  FetchInv' /\ AskingInv'
  <2>1. /\ UNCHANGED <<now, phase, src, started, listed, batch, complete, draft, failed, lastFetch>>
        /\ version' = [version EXCEPT ![n] = version[n] + 1]
        /\ published' = published
    BY <1>11 DEF Edit
  <2>2. \A m \in Messages : version[m] > 0 => version'[m] > 0 /\ published'[m] = published[m]
    BY <2>1 DEF TypeOK
  <2>3. QED BY <2>1, <2>2, StillKeeps
<1>12. ASSUME \/ \E s \in Sources : ToggleSource(s) \/ SkipFetch(s) \/ LockExpires(s)
              \/ UNCHANGED vars
       PROVE  FetchInv' /\ AskingInv'
  <2>1. /\ UNCHANGED <<now, phase, src, started, listed, batch, complete, draft, failed, lastFetch>>
        /\ UNCHANGED <<version, published>>
    BY <1>12 DEF ToggleSource, SkipFetch, LockExpires, vars
  <2>2. \A m \in Messages : version[m] > 0 => version'[m] > 0 /\ published'[m] = published[m]
    BY <2>1
  <2>3. QED BY <2>1, <2>2, StillKeeps
<1>13. QED
  BY <1>1, <1>2, <1>3, <1>4, <1>5, <1>6, <1>7, <1>8, <1>9, <1>10, <1>11, <1>12
     DEF Next, TaskStep

\* The overlap window reaches back to everything that is due.
LEMMA DueIsReachable ==
  ASSUME FetchAssumption, TypeOK, NEW s \in Sources
  PROVE  Due(s) \subseteq Reachable(listed, OverlapStart(s, started))
<1>1. /\ started \in Nat
      /\ Overlap \in Nat
      /\ Delay \in Nat
      /\ lastFetch[s] = Never \/ lastFetch[s] \in Nat
      /\ \A m \in listed : published[m] \in Nat
  BY DEF TypeOK, FetchAssumption
<1>2. CASE lastFetch[s] = Never
  BY <1>2 DEF Due, Reachable, OverlapStart
<1>3. CASE lastFetch[s] # Never
  <2>1. lastFetch[s] \in Nat
    BY <1>1, <1>3
  <2>2. ASSUME NEW m \in Due(s)
        PROVE  m \in listed /\ published[m] >= OlderOf(started - Overlap, lastFetch[s])
    BY <1>1, <1>3, <2>1, <2>2 DEF Due, OlderOf
  <2>3. QED BY <1>3, <2>2 DEF Reachable, OverlapStart
<1>4. QED BY <1>2, <1>3

LeavesNothing ==
  \A s \in Sources :
    lastFetch'[s] # lastFetch[s] /\ complete /\ ~ failed =>
      \A m \in Due(s) : Fresh(m) => Saved(m)

LEMMA CommitLeavesNothing ==
  ASSUME FetchAssumption, TypeOK, FetchInv, CommitFetch PROVE LeavesNothing
<1>1. SUFFICES ASSUME NEW s \in Sources, lastFetch'[s] # lastFetch[s], complete, ~ failed,
                      NEW m \in Due(s), Fresh(m)
               PROVE  Saved(m)
  BY DEF LeavesNothing
<1>2. s = src
  BY <1>1 DEF CommitFetch, TypeOK
<1>3. m \in Reachable(listed, OverlapStart(src, started))
  BY <1>1, <1>2, DueIsReachable
<1>4. m \in Messages
  BY <1>3 DEF Reachable, TypeOK
<1>5. Accounted(m) /\ batch[m] = 0
  BY <1>1, <1>3, <1>4 DEF FetchInv, CommitFetch
<1>6. draft[m] > 0
  BY <1>1, <1>5 DEF Accounted
<1>7. QED BY <1>6 DEF CommitFetch, Saved

LEMMA NextLeavesNothing ==
  ASSUME FetchAssumption, TypeOK, FetchInv, [Next]_vars
  PROVE  LeavesNothing
<1>1. CASE CommitFetch
  BY <1>1, CommitLeavesNothing
<1>2. CASE ~ CommitFetch
  <2>1. lastFetch' = lastFetch
    BY <1>2 DEF Next, TaskStep, Tick, Post, Edit, ToggleSource, SkipFetch, StartFetch,
         LockExpires, StartDispatch, StartFetchAll, StartTask, FlushPayload, DispatchFetch,
         FetchAllSources, Queue, FetchMessages, UpsertMessage, BufferMessage, FetchRaises,
         WorkerDies, vars
  <2>2. QED BY <2>1 DEF LeavesNothing
<1>3. QED BY <1>1, <1>2

\* A fetch that reports a complete backfill and saw no failing statement leaves
\* behind no message it owes: with any overlap, any page limit, and whatever
\* died or failed before.
THEOREM CleanFetchesLeaveNothing ==
  ASSUME FetchAssumption PROVE Spec => CleanFetchLeavesNothing
<1>1. Init => FetchInv /\ AskingInv
  BY DEF Init, FetchInv, AskingInv
<1>2. TypeOK /\ FetchInv /\ AskingInv /\ [Next]_vars
        => FetchInv' /\ AskingInv' /\ [LeavesNothing]_vars
  BY NextKeepsFetchInv, NextLeavesNothing
<1>3. QED BY <1>1, <1>2, TypeCorrect, PTL DEF Spec, CleanFetchLeavesNothing, LeavesNothing

=============================================================================
