------------------------------- MODULE Gating -------------------------------
(***************************************************************************)
(* The gates an AI answer passes before a cluster is published: the        *)
(* sensitivity guardrails, the publish track, and the hold for a human or  *)
(* for a second source.  Pure operators on an answer r and a number n of   *)
(* independent sources.                                                    *)
(*                                                                         *)
(* An answer is a record of the fields the gates read.  Confidences are in *)
(* hundredths; `sensitive' says that the sensitivity is one of             *)
(* SENSITIVE_TYPES; `conflicts' that the list of conflicts is not empty.   *)
(***************************************************************************)
EXTENDS Naturals

CONSTANTS                  (* app/config.py, hundredths                    *)
  RejectConfidence,        (* REJECT_CONFIDENCE          40                *)
  BatchMinConfidence,      (* BATCH_MIN_CONFIDENCE       60                *)
  FastMinConfidence,       (* FAST_MIN_CONFIDENCE        75                *)
  SensitiveMinConfidence,  (* SENSITIVE_MIN_CONFIDENCE   75                *)
  HoldConfidence,          (* HOLD_CONFIDENCE_THRESHOLD  70                *)
  HoldMinSources           (* HOLD_MIN_SOURCES           2                 *)

\* Every threshold can be set in .env; the hold gate is not stricter than the
\* fast track in the delivered configuration.
ASSUME GatingAssumption ==
  /\ RejectConfidence \in Nat
  /\ BatchMinConfidence \in Nat
  /\ FastMinConfidence \in Nat
  /\ SensitiveMinConfidence \in Nat
  /\ HoldConfidence \in Nat
  /\ HoldMinSources \in Nat
  /\ HoldConfidence <= FastMinConfidence
  /\ HoldMinSources <= 2

AIClusterOutput ==
  [status : {"publish", "reject", "hold"}, priority : 1..5, confidence : 0..100,
   sensitive : BOOLEAN, conflicts : BOOLEAN, review : BOOLEAN]

GuardrailsInverted(r, n) ==
  r.sensitive => n < 2 /\ r.confidence >= SensitiveMinConfidence

\* A sensitive answer needs two independent sources and a high confidence.
CheckGuardrails(r, n) ==
  r.sensitive => n >= 2 /\ r.confidence >= SensitiveMinConfidence

FastIgnoringConflicts(r, n) ==
  /\ r.priority = 5
  /\ n >= 2
  /\ r.confidence >= FastMinConfidence

IsFast(r, n) ==
  /\ r.priority = 5
  /\ n >= 2
  /\ ~ r.conflicts
  /\ r.confidence >= FastMinConfidence

\* route_track, which no caller calls with locked_for_hold = True.
RouteTrack(r, n) ==
  IF \/ r.status # "publish"
     \/ r.confidence < RejectConfidence
     \/ ~ CheckGuardrails(r, n)
  THEN "reject"
  ELSE IF IsFast(r, n) THEN "fast"
  ELSE IF r.confidence >= BatchMinConfidence THEN "batch"
  ELSE "reject"

ShouldHold(r, n) ==
  /\ r.priority >= 4
  /\ n < HoldMinSources \/ r.conflicts \/ r.confidence < HoldConfidence

\* should_hold_for_cluster; `doubtful' stands for its gates on the cluster's
\* own metrics (confidence below 65, stability below 40 when not breaking,
\* conflicting sources), which the answer does not determine.
ShouldHoldForCluster(r, n, doubtful) ==
  ShouldHold(r, n) \/ r.review \/ doubtful

=============================================================================
