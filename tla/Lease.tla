-------------------------------- MODULE Lease --------------------------------
(***************************************************************************)
(* What a lock with a time-out can promise: the right to run is granted    *)
(* only while nobody has it.  It may time out under a process, which then  *)
(* runs on without it; nothing is promised about such a process, except    *)
(* that it is running.                                                     *)
(***************************************************************************)
EXTENDS FiniteSets

CONSTANT Procs

VARIABLES valid,    (* the processes with the right to run *)
          running   (* the processes that run              *)

Init == valid = {} /\ running = {}

Grant(p) ==
  /\ valid = {}
  /\ p \notin running
  /\ valid'   = {p}
  /\ running' = running \union {p}

TimeOut ==
  /\ valid' = {}
  /\ UNCHANGED running

\* A process that runs without the right may end another one's when it leaves.
Leave(p) ==
  /\ p \in running
  /\ running' = running \ {p}
  /\ valid' \in {valid \ {p}, {}}

Next == TimeOut \/ \E p \in Procs : Grant(p) \/ Leave(p)

Spec == Init /\ [][Next]_<<valid, running>>

=============================================================================
