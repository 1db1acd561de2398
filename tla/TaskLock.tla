------------------------------ MODULE TaskLock ------------------------------
(***************************************************************************)
(* The Redis lock of a Celery task: SET key "1" NX EX ttl when the task    *)
(* begins, DELETE key when it ends, however it ends.  Every process stores *)
(* the same value, so the delete removes whatever key is there: the one of *)
(* another process too.  A process that dies leaves its key to the TTL.    *)
(*                                                                         *)
(* The processes are the worker and the shells in which the admin guide    *)
(* has the tasks called by hand.  The TTL is not tied to what a task does, *)
(* so the key may expire at any time.                                      *)
(*                                                                         *)
(* A definition that no other one uses and that precedes its near-namesake *)
(* is a faulty variant of it; PROJECT.json names the property it breaks.   *)
(***************************************************************************)
EXTENDS FiniteSets, Naturals

CONSTANTS Procs,    (* the processes that may run the task *)
          NoProc    (* the key is not there                *)

ASSUME TaskLockAssumption == NoProc \notin Procs

VARIABLES
  key,      (* who set the key; Redis stores the value "1" for everyone    *)
  inside,   (* the processes between acquire_redis_lock and the release    *)
  lost      (* history: those of `inside' whose key is gone                *)

lockVars == <<key, inside, lost>>

LockInit == key = NoProc /\ inside = {} /\ lost = {}

AcquireAnyway(p) ==
  /\ p \notin inside
  /\ key'    = p
  /\ inside' = inside \union {p}
  /\ UNCHANGED lost

\* A task that finds the key returns at once: no step of the model.
Acquire(p) ==
  /\ p \notin inside
  /\ key = NoProc
  /\ key'    = p
  /\ inside' = inside \union {p}
  /\ UNCHANGED lost

\* The `finally' of the task.
Release(p) ==
  /\ p \in inside
  /\ key'    = NoProc
  /\ inside' = inside \ {p}
  /\ lost'   = (lost \union (inside \intersect {key})) \ {p}

KeyExpires ==
  /\ key # NoProc
  /\ key'  = NoProc
  /\ lost' = lost \union (inside \intersect {key})
  /\ UNCHANGED inside

\* The process is killed: its `finally' does not run and its key stays.
Die(p) ==
  /\ p \in inside
  /\ inside' = inside \ {p}
  /\ lost'   = lost \ {p}
  /\ UNCHANGED key

LockNext == KeyExpires \/ \E p \in Procs : Acquire(p) \/ Release(p) \/ Die(p)

LockSpec == LockInit /\ [][LockNext]_lockVars

-----------------------------------------------------------------------------
Leased == INSTANCE Lease WITH Procs <- Procs, valid <- inside \ lost, running <- inside

\* The lock implements a lease: a task starts only while no process that still
\* has its key is inside, whoever deletes whose key.
LeaseKept == Leased!Spec

\* Of two processes inside, one has lost its key: a task overlaps another only
\* after one of them outlived its TTL or had its key deleted.
HolderIsAlone == Cardinality(inside \ lost) <= 1

=============================================================================
