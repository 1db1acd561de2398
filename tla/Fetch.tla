-------------------------------- MODULE Fetch --------------------------------
(***************************************************************************)
(* Fetching: which source is asked next, how far back it is read, and how  *)
(* its messages get into the table messages, through failing statements,   *)
(* failing requests, dying workers and the Redis buffer.                   *)
(*                                                                         *)
(* The Celery worker has concurrency 1: one fetch runs at a time.  A step  *)
(* of it is the code up to the next request or SQL statement.  `stored'    *)
(* holds committed rows; the session's own view of them, with what it has  *)
(* not committed yet, is `draft'.                                          *)
(*                                                                         *)
(* A message is what one source posts under one id.  Its version is 1 when *)
(* posted and grows with every edit, as edit_date does; 0 says that there  *)
(* is no such message, or no row of it.                                    *)
(*                                                                         *)
(* A definition that no other one uses and that precedes its near-namesake *)
(* is a faulty variant of it; PROJECT.json names the property it breaks.   *)
(***************************************************************************)
EXTENDS Integers, Sequences, FiniteSets

CONSTANTS
  Sources,
  Messages,
  SourceOf,       (* the source of each message                            *)
  None,           (* no source                                             *)
  Never,          (* last_successful_fetch_at is NULL                      *)
  Overlap,        (* FETCH_TIME_OVERLAP_MINUTES                            *)
  Lookback,       (* CLUSTER_LOOKBACK_HOURS                                *)
  PageSize,       (* FETCH_PAGE_SIZE                                       *)
  MaxPages,       (* FETCH_MAX_PAGES                                       *)
  Delay,          (* bound: a message shows up at the gateway this late    *)
  Failing,        (* sources whose every request fails                     *)
  MaxTime,        (* bound on the clock                                    *)
  MaxVersion,     (* bound on the version of each message                  *)
  MaxErrors,      (* bound on the statements that fail                     *)
  MaxFaults       (* bound on failing requests, deaths and toggled sources *)

ASSUME FetchAssumption ==
  /\ IsFiniteSet(Sources)
  /\ IsFiniteSet(Messages)
  /\ SourceOf \in [Messages -> Sources]
  /\ None \notin Sources
  /\ Never \notin Int
  /\ Failing \subseteq Sources
  /\ MaxVersion \in [Messages -> Nat]
  /\ {Overlap, Lookback, Delay, MaxTime, MaxErrors, MaxFaults} \subseteq Nat
  /\ {PageSize, MaxPages} \subseteq Nat \ {0}

VARIABLES
  now,         (* the clock                                                *)
  published,   (* published_at of each message the gateway shows           *)
  version,     (* its version on the channel, 0 while it is not shown      *)
  stored,      (* version of its row in the table messages, 0 for no row   *)
  buffer,      (* the Redis list khabargozin:pg_buffer                     *)
  lastFetch,   (* sources.last_successful_fetch_at                         *)
  active,      (* sources with is_active                                   *)
  queued,      (* sources with a fetch_source task in the broker           *)
  locked,      (* sources whose key task:fetch_source:<id> exists          *)
  phase,       (* place of the running task, "idle" without one            *)
  src,         (* the source it fetches                                    *)
  started,     (* its `now'                                                *)
  listed,      (* the messages the gateway had when it was asked           *)
  batch,       (* version of each message still to upsert, 0 for the rest  *)
  complete,    (* batch.backfill_complete                                  *)
  draft,       (* the session's view of `stored'                           *)
  failed,      (* a statement of this fetch failed                         *)
  errors, faults

channel == <<published, version>>
broker  == <<queued, locked>>
task    == <<phase, src, started, listed, batch, complete, draft, failed>>
vars    == <<now, published, version, stored, buffer, lastFetch, active, queued, locked,
             phase, src, started, listed, batch, complete, draft, failed, errors, faults>>

-----------------------------------------------------------------------------
(* Helpers *)

OlderOf(a, b) == IF a <= b THEN a ELSE b

OverlapStartRecent(s, t) ==
  IF lastFetch[s] = Never \/ lastFetch[s] <= t - Overlap THEN t - Overlap ELSE lastFetch[s]

\* _overlap_start
OverlapStart(s, t) ==
  IF lastFetch[s] = Never THEN t - Overlap ELSE OlderOf(t - Overlap, lastFetch[s])

UpsertedAnyEdit(row, v) == IF row = 0 \/ v > 1 THEN v ELSE row

\* _upsert_message of version v over a row: insert, or update on a newer edit.
Upserted(row, v) == IF v > row THEN v ELSE row

\* ... which rejects a message older than CLUSTER_LOOKBACK_HOURS.
Fresh(m) == published[m] >= now - Lookback

\* Position of m among the messages S of a listing, newest first.
Rank(m, S) == Cardinality({n \in S : published[n] > published[m]})

\* fetch_messages on the listing S: the messages collected before the first one
\* out of reach or the last page, and whether the backfill was complete.
Reachable(S, from) == {m \in S : published[m] >= from}

Collected(S, from) == {m \in Reachable(S, from) : Rank(m, S) < PageSize * MaxPages}

BackfillComplete(S, from) ==
  LET reachedOverlap == /\ Reachable(S, from) # S
                        /\ Cardinality(Reachable(S, from)) < PageSize * MaxPages
  IN  reachedOverlap \/ Cardinality(S) <= PageSize * (MaxPages - 2)

-----------------------------------------------------------------------------
Init ==
  /\ now       = 0
  /\ published = [m \in Messages |-> 0]
  /\ version   = [m \in Messages |-> 0]
  /\ stored    = [m \in Messages |-> 0]
  /\ buffer    = <<>>
  /\ lastFetch = [s \in Sources |-> Never]
  /\ active    = Sources
  /\ queued    = {}
  /\ locked    = {}
  /\ phase     = "idle"
  /\ src       = None
  /\ started   = 0
  /\ listed    = {}
  /\ batch     = [m \in Messages |-> 0]
  /\ complete  = TRUE
  /\ draft     = stored
  /\ failed    = FALSE
  /\ errors    = 0
  /\ faults    = 0

(* The channels *)

Tick ==
  /\ now < MaxTime
  /\ now' = now + 1
  /\ UNCHANGED <<channel, stored, buffer, lastFetch, active, broker, task, errors, faults>>

\* The gateway shows a message that was published up to Delay ago.
Post(m) ==
  /\ version[m] = 0
  /\ \E late \in 0..Delay :
       /\ late <= now
       /\ published' = [published EXCEPT ![m] = now - late]
  /\ version' = [version EXCEPT ![m] = 1]
  /\ UNCHANGED <<now, stored, buffer, lastFetch, active, broker, task, errors, faults>>

Edit(m) ==
  /\ version[m] \in 1..(MaxVersion[m] - 1)
  /\ version' = [version EXCEPT ![m] = @ + 1]
  /\ UNCHANGED <<now, published, stored, buffer, lastFetch, active, broker, task, errors, faults>>

(* The admin panel *)
ToggleSource(s) ==
  /\ faults < MaxFaults
  /\ faults' = faults + 1
  /\ active' = (active \ {s}) \union ({s} \ active)
  /\ UNCHANGED <<now, channel, stored, buffer, lastFetch, broker, task, errors>>

-----------------------------------------------------------------------------
(* dispatch_fetch and fetch_all_sources *)

Flushing == {"dispatching", "fetching all"}

StartTask(p) ==
  /\ phase = "idle"
  /\ phase' = p
  /\ UNCHANGED <<now, channel, stored, buffer, lastFetch, active, broker, src, started, listed,
                 batch, complete, draft, failed, errors, faults>>

\* A payload leaves Redis; what becomes of it in the table is not committed yet.
FlushPayload ==
  LET p == Head(buffer)
  IN  /\ phase \in Flushing
      /\ buffer # <<>>
      /\ buffer' = Tail(buffer)
      /\ draft'  = [draft EXCEPT ![p.msg] = IF Fresh(p.msg) THEN Upserted(@, p.version) ELSE @]
      /\ UNCHANGED <<now, channel, stored, lastFetch, active, broker, phase, src, started, listed,
                     batch, complete, failed, errors, faults>>

\* The buffer is empty and the payloads are committed, or the statement for the
\* next one, or the commit, fails: those popped so far are lost.
EndFlush ==
  \/ /\ buffer = <<>>
     /\ stored' = draft
     /\ UNCHANGED <<buffer, draft, errors>>
  \/ /\ errors < MaxErrors
     /\ errors' = errors + 1
     /\ buffer' = IF buffer = <<>> THEN buffer ELSE Tail(buffer)
     /\ draft'  = stored
     /\ UNCHANGED stored

Queue(S) ==
  /\ EndFlush
  /\ queued' = queued \union S
  /\ phase' = "idle"
  /\ UNCHANGED <<now, channel, lastFetch, active, locked, src, started, listed, batch, complete,
                 failed, faults>>

\* The sources of S fetched longest ago; those never fetched come first.
LongestAgo(S) ==
  LET new == {s \in S : lastFetch[s] = Never}
  IN  IF new # {} THEN new ELSE {s \in S : \A t \in S : lastFetch[s] <= lastFetch[t]}

StalestAny == active

StalestOrNone == IF active = {} THEN {None} ELSE LongestAgo(active)

Stalest == LongestAgo(active)

StartDispatch == StartTask("dispatching")

DispatchFetch ==
  /\ phase = "dispatching"
  /\ \/ \E s \in Stalest : Queue({s})
     \/ active = {} /\ Queue({})

StartFetchAll == StartTask("fetching all")

FetchAllSources == phase = "fetching all" /\ Queue(active)

-----------------------------------------------------------------------------
(* fetch_source *)

EndFetch ==
  /\ phase'    = "idle"
  /\ src'      = None
  /\ started'  = 0
  /\ listed'   = {}
  /\ batch'    = [m \in Messages |-> 0]
  /\ complete' = TRUE
  /\ failed'   = FALSE

\* Another fetch of s holds the lock, or s is inactive.
SkipFetch(s) ==
  /\ phase = "idle"
  /\ s \in queued
  /\ s \in locked \/ s \notin active
  /\ queued' = queued \ {s}
  /\ UNCHANGED <<now, channel, stored, buffer, lastFetch, active, locked, task, errors, faults>>

StartFetch(s) ==
  /\ phase = "idle"
  /\ s \in queued
  /\ s \notin locked /\ s \in active
  /\ queued'  = queued \ {s}
  /\ locked'  = locked \union {s}
  /\ phase'   = "asking"
  /\ src'     = s
  /\ started' = now
  /\ UNCHANGED <<now, channel, stored, buffer, lastFetch, active, listed, batch, complete,
                 draft, failed, errors, faults>>

\* fetch_messages
FetchMessages ==
  LET S    == {m \in Messages : SourceOf[m] = src /\ version[m] > 0}
      from == OverlapStart(src, started)
  IN  /\ phase = "asking"
      /\ src \notin Failing
      /\ phase'    = "storing"
      /\ listed'   = S
      /\ batch'    = [m \in Messages |-> IF m \in Collected(S, from) THEN version[m] ELSE 0]
      /\ complete' = BackfillComplete(S, from)
      /\ UNCHANGED <<now, channel, stored, buffer, lastFetch, active, broker, src, started,
                     draft, failed, errors, faults>>

\* The next message of the batch, newest first.
TakeNext(m) ==
  /\ phase = "storing"
  /\ batch[m] > 0
  /\ \A n \in Messages : batch[n] > 0 => published[n] <= published[m]
  /\ batch' = [batch EXCEPT ![m] = 0]

UpsertMessage(m) ==
  /\ TakeNext(m)
  /\ draft' = [draft EXCEPT ![m] = IF Fresh(m) THEN Upserted(@, batch[m]) ELSE @]
  /\ UNCHANGED <<now, channel, stored, buffer, lastFetch, active, broker, phase, src, started,
                 listed, complete, failed, errors, faults>>

\* SQLAlchemyError: the rollback takes the messages upserted before with it;
\* only this one goes to Redis.
BufferMessage(m) ==
  /\ errors < MaxErrors
  /\ TakeNext(m)
  /\ errors' = errors + 1
  /\ failed' = TRUE
  /\ draft'  = stored
  /\ buffer' = Append(buffer, [msg |-> m, version |-> batch[m]])
  /\ UNCHANGED <<now, channel, stored, lastFetch, active, broker, phase, src, started, listed,
                 complete, faults>>

CommitFetch ==
  /\ phase = "storing"
  /\ \A m \in Messages : batch[m] = 0
  /\ stored'    = draft
  /\ lastFetch' = [lastFetch EXCEPT ![src] = started]
  /\ locked'    = locked \ {src}
  /\ EndFetch
  /\ UNCHANGED <<now, channel, buffer, active, queued, draft, errors, faults>>

\* A request or anything but a statement raises: the handler commits what was
\* upserted so far with the error count, or cannot commit and loses it.
FetchRaises ==
  /\ phase \in {"asking", "storing"}
  /\ \/ src \in Failing /\ phase = "asking" /\ UNCHANGED faults
     \/ faults < MaxFaults /\ faults' = faults + 1
  /\ stored' \in {draft, stored}
  /\ draft'  = stored'
  /\ locked' = locked \ {src}
  /\ EndFetch
  /\ UNCHANGED <<now, channel, buffer, lastFetch, active, queued, errors>>

\* The process dies: the session rolls back, the lock stays, and the broker may
\* deliver the task again (acks_late), or the new worker purges the queue.
WorkerDies ==
  /\ phase # "idle"
  /\ faults < MaxFaults
  /\ faults' = faults + 1
  /\ queued' \in {queued, queued \union ({src} \ {None}), {}}
  /\ draft'  = stored
  /\ EndFetch
  /\ UNCHANGED <<now, channel, stored, buffer, lastFetch, active, locked, errors>>

\* The lock's TTL passes, or a restarted worker deletes it (bootstrap_pipeline).
LockExpires(s) ==
  /\ s \in locked
  /\ locked' = locked \ {s}
  /\ UNCHANGED <<now, channel, stored, buffer, lastFetch, active, queued, task, errors, faults>>

-----------------------------------------------------------------------------
TaskStep ==
  \/ FlushPayload \/ DispatchFetch \/ FetchAllSources
  \/ FetchMessages
  \/ \E m \in Messages : UpsertMessage(m) \/ BufferMessage(m)
  \/ CommitFetch
  \/ FetchRaises

Next ==
  \/ Tick
  \/ \E m \in Messages : Post(m) \/ Edit(m)
  \/ \E s \in Sources : ToggleSource(s) \/ SkipFetch(s) \/ StartFetch(s) \/ LockExpires(s)
  \/ StartDispatch \/ StartFetchAll
  \/ TaskStep
  \/ WorkerDies

Spec == Init /\ [][Next]_vars

\* Beat keeps dispatching, the worker takes queued tasks in turn, a running
\* task goes on, and a lock's TTL ends.
Fairness ==
  /\ SF_vars(StartDispatch)
  /\ \A s \in Sources : SF_vars(StartFetch(s) \/ SkipFetch(s)) /\ WF_vars(LockExpires(s))
  /\ WF_vars(TaskStep)

LiveSpec == Spec /\ Fairness

-----------------------------------------------------------------------------
(* Properties *)

TypeOK ==
  /\ now \in Nat
  /\ published \in [Messages -> Nat]
  /\ version \in [Messages -> Nat]
  /\ stored \in [Messages -> Nat]
  /\ buffer \in Seq([msg : Messages, version : Nat])
  /\ lastFetch \in [Sources -> Nat \union {Never}]
  /\ active \subseteq Sources
  /\ queued \subseteq Sources
  /\ locked \subseteq Sources
  /\ phase \in {"idle", "asking", "storing"} \union Flushing
  /\ src \in Sources \union {None}
  /\ started \in Nat
  /\ listed \subseteq Messages
  /\ batch \in [Messages -> Nat]
  /\ complete \in BOOLEAN
  /\ draft \in [Messages -> Nat]
  /\ failed \in BOOLEAN
  /\ errors \in Nat
  /\ faults \in Nat

\* What a fetch must bring back before it moves last_successful_fetch_at past
\* it: what was published since the last fetch and, when that was recent enough
\* for the overlap, what the gateway showed late.
Due(s) ==
  LET last     == lastFetch[s]
      punctual == started - last <= Overlap - Delay
      from     == IF punctual THEN last - Delay ELSE last
  IN  IF last = Never THEN {m \in listed : published[m] >= started - Overlap}
      ELSE {m \in listed : published[m] >= from}

Saved(m) == stored'[m] > 0 \/ \E k \in DOMAIN buffer : buffer[k].msg = m

\* A fetch that reports a complete backfill and saw no failing statement leaves
\* no message between two fetches behind, whatever died, failed or lagged
\* before: the promise of the dynamic overlap.
CleanFetchLeavesNothing ==
  [][\A s \in Sources :
       lastFetch'[s] # lastFetch[s] /\ complete /\ ~ failed =>
         \A m \in Due(s) : Fresh(m) => Saved(m)]_vars

\* A row stays, and never returns to an older edit, although payloads wait in
\* Redis while newer edits are fetched.
RowsNeverRegress ==
  [][\A m \in Messages : stored'[m] >= stored[m]]_vars

\* Every source that stays active and whose requests can succeed is fetched.
SourceIsFetched ==
  \A s \in Sources \ Failing :
    <>[](s \in active) => <>(lastFetch[s] # Never)

=============================================================================
