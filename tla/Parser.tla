------------------------------- MODULE Parser -------------------------------
(***************************************************************************)
(* What becomes of the text the model returns: it is read as JSON, missing *)
(* fields get defaults, the result is validated; if any of that fails, a   *)
(* headline and a summary found by a regular expression are enough, and    *)
(* every other field gets its default.                                     *)
(*                                                                         *)
(* A raw answer is a record:                                               *)
(*   json      the text holds one JSON object                              *)
(*   given     the fields of AIClusterOutput the object has                *)
(*   valid     each of them satisfies the schema                           *)
(*   out       their values                                                *)
(*   headline, summary   the text has them (or title, content) as strings  *)
(*   html      where < or > occurs: "none", "text" (headline or summary),  *)
(*             "body"                                                      *)
(* polish_cluster_text changes wording only and is left out.               *)
(***************************************************************************)
EXTENDS Gating

Fields == {"status", "priority", "confidence", "sensitive", "conflicts", "review"}

RawAnswer ==
  [json : BOOLEAN, given : SUBSET Fields, valid : BOOLEAN, out : AIClusterOutput,
   headline : BOOLEAN, summary : BOOLEAN, html : {"none", "text", "body"}]

DefaultsUrgent(raw) ==
  [status     |-> IF raw.headline THEN "publish" ELSE "reject",
   priority   |-> 5,
   confidence |-> FastMinConfidence,
   sensitive  |-> FALSE,
   conflicts  |-> FALSE,
   review     |-> FALSE]

\* The values normalize_cluster_data gives to fields that are missing.
Defaults(raw) ==
  [status     |-> IF raw.headline THEN "publish" ELSE "reject",
   priority   |-> 3,
   confidence |-> 70,
   sensitive  |-> FALSE,
   conflicts  |-> FALSE,
   review     |-> FALSE]

NormalizeClusterData(raw) ==
  [f \in Fields |-> IF f \in raw.given THEN raw.out[f] ELSE Defaults(raw)[f]]

\* json.loads succeeds and the model_validate of the normalised object too.
Whole(raw) == raw.json /\ raw.valid /\ raw.html = "none"

\* The regular expressions find a headline or a summary, and what they find
\* passes the validation.
Recoverable(raw) == (raw.headline \/ raw.summary) /\ raw.html # "text"

Parsable(raw) == Whole(raw) \/ Recoverable(raw)

\* parse_cluster_output, of a parsable answer.
ParseClusterOutput(raw) ==
  IF Whole(raw) THEN NormalizeClusterData(raw) ELSE Defaults(raw)

=============================================================================
