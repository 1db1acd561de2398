----------------------------- MODULE Supplements -----------------------------
(***************************************************************************)
(* What a message that joins a published story does to the post in the     *)
(* channel: a critical numeric change holds the story, a message with new  *)
(* details edits the post, and a denial marks it as retracted or is told   *)
(* apart in a correction.  All of it happens inside the one transaction    *)
(* in which the clustering task places the message; the calls of Telegram  *)
(* do not roll back with it.                                               *)
(*                                                                         *)
(* placed, status, retracted and rows are committed; what the task has     *)
(* staged is in `task'.  The similarity search and the model's answers are *)
(* choices, and so is every outcome of a call of Telegram: delivered,      *)
(* asked to wait, refused, or delivered with the answer lost.              *)
(*                                                                         *)
(* A definition that no other one uses and that precedes its near-namesake *)
(* is a faulty variant of it; PROJECT.json names the property it breaks.   *)
(***************************************************************************)
EXTENDS Integers, FiniteSetsExt, Sequences

CONSTANTS
  Stories,      (* clusters with a post in the channel and an ai_results row *)
  Messages,     (* the messages, numbered by published_at                  *)
  Prefixes,     (* new_text[:100], all that the event key keeps of a text  *)
  PrefixOf,     (* the prefix of each message                              *)
  Plain,        (* the text first posted                                   *)
  Marked,       (* the text with the mark of a retraction                  *)
  MaxRetries,   (* TELEGRAM_PUBLISH_MAX_RETRIES                            *)
  MaxFaults     (* bound on waits, refusals, lost answers and crashes      *)

ASSUME SupplementsAssumption ==
  /\ IsFiniteSet(Stories) /\ IsFiniteSet(Messages) /\ IsFiniteSet(Prefixes)
  /\ Messages \subseteq Nat \ {0}
  /\ PrefixOf \in [Messages -> Prefixes]
  /\ {Plain, Marked} \intersect Prefixes = {} /\ Plain # Marked
  /\ MaxRetries \in Nat \ {0}
  /\ MaxFaults \in Nat

VARIABLES
  placed,     (* messages.cluster_id: "pending", "elsewhere" or the story  *)
  status,     (* clusters.status: "published" or "hold"                    *)
  retracted,  (* publications.is_retracted                                 *)
  rows,       (* publication_outbox rows of type supplemental, by event key *)
  muted,      (* stories and event keys committed while nothing was sent   *)
  post,       (* the channel: what the post of a story shows               *)
  edits,      (* the channel: edits with a supplement, by event key        *)
  notices,    (* the channel: "details added" messages, by event key       *)
  mode,       (* PUBLISH_MODE of the running worker                        *)
  task,       (* the clustering task and its transaction                   *)
  faults

stored  == <<placed, status, retracted, rows, muted>>
channel == <<post, edits, notices>>
vars    == <<placed, status, retracted, rows, muted, post, edits, notices, mode, task, faults>>

EventKeys == Stories \X Prefixes

\* Where _process_message is.
Steps == {"idle", "next", "supplement", "calling", "detecting", "classifying"}

\* What the transaction may be calling Telegram for.
Purposes == {"supplement", "retraction", "correction"}

NoTask == [step |-> "idle", msg |-> 0, story |-> Plain, call |-> <<>>, for |-> "supplement",
           about |-> Plain, tries |-> 0, todo |-> {}, holds |-> FALSE, adds |-> FALSE,
           retracts |-> {}]

Task ==
  [step : Steps, msg : Messages \union {0}, story : Stories \union {Plain},
   call : {<<>>, <<"edit", "send">>, <<"send">>}, for : Purposes,
   about : Stories \union {Plain}, tries : 0..(MaxRetries - 1), todo : SUBSET Stories,
   holds : BOOLEAN, adds : BOOLEAN, retracts : SUBSET Stories]

TypeOK ==
  /\ placed    \in [Messages -> {"pending", "elsewhere"} \union Stories]
  /\ status    \in [Stories -> {"published", "hold"}]
  /\ retracted \in [Stories -> BOOLEAN]
  /\ rows      \subseteq EventKeys
  /\ muted     \subseteq Stories \union EventKeys
  /\ post      \in [Stories -> {Plain, Marked} \union Prefixes]
  /\ edits     \in [EventKeys -> Nat]
  /\ notices   \in [EventKeys -> Nat]
  /\ mode      \in {"production", "dry_run"}
  /\ task      \in Task
  /\ faults    \in Nat

Init ==
  /\ placed    = [m \in Messages |-> "pending"]
  /\ status    = [c \in Stories |-> "published"]
  /\ retracted = [c \in Stories |-> FALSE]
  /\ rows      = {}
  /\ muted     = {}
  /\ post      = [c \in Stories |-> Plain]
  /\ edits     = [k \in EventKeys |-> 0]
  /\ notices   = [k \in EventKeys |-> 0]
  /\ mode      \in {"production", "dry_run"}
  /\ task      = NoTask
  /\ faults    = 0

Pending == {m \in Messages : placed[m] = "pending"}
Oldest(M) == CHOOSE m \in M : \A n \in M : m <= n

Key == <<task.story, PrefixOf[task.msg]>>

\* resolve_chat_id: no channel in a dry run.
ChatId == mode = "production"

-----------------------------------------------------------------------------
(* cluster_pending_messages *)

StartTask ==
  /\ task.step = "idle"
  /\ Pending # {}
  /\ task' = [NoTask EXCEPT !.step = "next"]
  /\ UNCHANGED <<stored, channel, mode, faults>>

EndTask ==
  /\ task.step = "next"
  /\ Pending = {}
  /\ task' = NoTask
  /\ UNCHANGED <<stored, channel, mode, faults>>

PostableWhilePublished(c) == status[c] = "published"

\* A story the message can join: published, and neither the similarity search
\* nor process_supplemental takes a retracted one.
Postable(c) == status[c] = "published" /\ ~ retracted[c]

\* find_published_merge_target chose story c for the oldest message.
JoinStory(c) ==
  /\ task.step = "next"
  /\ Pending # {}
  /\ Postable(c)
  /\ task' = [NoTask EXCEPT !.step = "supplement", !.msg = Oldest(Pending), !.story = c]
  /\ UNCHANGED <<stored, channel, mode, faults>>

\* It joins an open cluster or opens one: no story is touched, and a denial in
\* it is not looked for.
JoinElsewhere ==
  /\ task.step = "next"
  /\ Pending # {}
  /\ placed' = [placed EXCEPT ![Oldest(Pending)] = "elsewhere"]
  /\ UNCHANGED <<status, retracted, rows, muted, channel, mode, task, faults>>

-----------------------------------------------------------------------------
(* process_supplemental *)

\* detect_critical_numeric_changes: the story is held and nothing is sent.
HoldNumeric ==
  /\ task.step = "supplement"
  /\ task' = [task EXCEPT !.holds = TRUE, !.step = "detecting"]
  /\ UNCHANGED <<stored, channel, mode, faults>>

\* delta_check raises, finds no value, or the event key is known.
DropSupplement ==
  /\ task.step = "supplement"
  /\ task' = [task EXCEPT !.step = "detecting"]
  /\ UNCHANGED <<stored, channel, mode, faults>>

\* The calls of Telegram for each purpose, in order.
Calls(p) == IF p = "correction" THEN <<"send">> ELSE <<"edit", "send">>

\* The task calls Telegram for c, or goes on at once where nothing is sent.
Calling(t, p, c, after) ==
  IF ChatId THEN [t EXCEPT !.step = "calling", !.call = Calls(p), !.for = p, !.about = c, !.tries = 0]
  ELSE [t EXCEPT !.step = after]

RecordedNever(k) == FALSE

Recorded(k) == k \in rows

AddSupplement ==
  /\ task.step = "supplement"
  /\ ~ Recorded(Key)
  /\ task' = Calling([task EXCEPT !.adds = TRUE], "supplement", task.story, "detecting")
  /\ UNCHANGED <<stored, channel, mode, faults>>

-----------------------------------------------------------------------------
(* edit_message_html, send_message_html and publish_with_retry *)

\* The text shown after an edit: the base text with the newest supplement, or
\* the mark.  An earlier supplement is gone either way.
Rendered == IF task.for = "supplement" THEN PrefixOf[task.msg] ELSE Marked

\* What Telegram does with the call when it accepts it.
Shown ==
  /\ post' = IF Head(task.call) = "edit" THEN [post EXCEPT ![task.about] = Rendered] ELSE post
  /\ edits' = IF Head(task.call) = "edit" /\ task.for = "supplement"
              THEN [edits EXCEPT ![Key] = @ + 1] ELSE edits
  /\ notices' = IF Head(task.call) = "send" /\ task.for = "supplement"
                THEN [notices EXCEPT ![Key] = @ + 1] ELSE notices

\* The call returned; the last one ends the purpose.
Returned ==
  IF Len(task.call) > 1 THEN [task EXCEPT !.call = Tail(@), !.tries = 0]
  ELSE [task EXCEPT !.call = <<>>, !.tries = 0, !.for = NoTask.for, !.about = NoTask.about,
          !.step = IF task.for = "supplement" THEN "detecting" ELSE "classifying",
          !.retracts = IF task.for = "retraction" THEN @ \union {task.about} ELSE @]

Deliver ==
  /\ task.step = "calling"
  /\ Shown
  /\ task' = Returned
  /\ UNCHANGED <<stored, mode, faults>>

RaisedSwallowed == Returned

\* An exception leaves the task: the transaction is rolled back, the lock is
\* released, and the message is still the oldest pending one.
Raised == NoTask

TriesLeftLate == task.tries < MaxRetries

TriesLeft == task.tries + 1 < MaxRetries

\* RetryAfter or 429: sleep and try again, at most MaxRetries times.
AskedToWait ==
  /\ task.step = "calling"
  /\ faults < MaxFaults
  /\ faults' = faults + 1
  /\ task' = IF TriesLeft THEN [task EXCEPT !.tries = @ + 1] ELSE Raised
  /\ UNCHANGED <<stored, channel, mode>>

\* Any other error is raised at once: refused, or accepted with the answer lost.
CallRaises ==
  /\ task.step = "calling"
  /\ faults < MaxFaults
  /\ faults' = faults + 1
  /\ Shown \/ UNCHANGED channel
  /\ task' = Raised
  /\ UNCHANGED <<stored, mode>>

-----------------------------------------------------------------------------
(* detect_retraction_candidates and process_retraction_candidate *)

PublishedRow(c) == status[c] = "published"

\* The status as the session sees it: a story held a moment ago is not published.
PublishedInSession(c) == status[c] = "published" /\ ~ (task.holds /\ c = task.story)

\* The message was edited or has a word of denial: its own story.  It replies to
\* a message: the story that one is in, retracted or not.
Detect ==
  /\ task.step = "detecting"
  /\ \E denies \in BOOLEAN, replied \in SUBSET Stories :
       /\ Cardinality(replied) <= 1
       /\ task' = [task EXCEPT !.step = "classifying",
                     !.todo = {c \in replied \union {d \in {task.story} : denies} :
                                 PublishedInSession(c)}]
  /\ UNCHANGED <<stored, channel, mode, faults>>

\* An error, a low confidence, noise, an update, or a correction without a text.
LeaveStory(c) ==
  /\ task.step = "classifying"
  /\ c \in task.todo
  /\ task' = [task EXCEPT !.todo = @ \ {c}]
  /\ UNCHANGED <<stored, channel, mode, faults>>

\* _apply_retraction: also without a channel, and for a retracted story again.
RetractStory(c) ==
  /\ task.step = "classifying"
  /\ c \in task.todo
  /\ LET rest == [task EXCEPT !.todo = @ \ {c}]
     IN  task' = IF ChatId THEN Calling(rest, "retraction", c, "classifying")
                 ELSE [rest EXCEPT !.retracts = @ \union {c}]
  /\ UNCHANGED <<stored, channel, mode, faults>>

\* _apply_correction: a message of its own; the post is not edited.
CorrectStory(c) ==
  /\ task.step = "classifying"
  /\ c \in task.todo
  /\ task' = Calling([task EXCEPT !.todo = @ \ {c}], "correction", c, "classifying")
  /\ UNCHANGED <<stored, channel, mode, faults>>

PlacedIfSent ==
  IF task.adds \/ task.holds THEN [placed EXCEPT ![task.msg] = task.story] ELSE placed

Placed == [placed EXCEPT ![task.msg] = task.story]

\* The commit that ends _process_message.
Commit ==
  /\ task.step = "classifying"
  /\ task.todo = {}
  /\ placed'    = Placed
  /\ status'    = IF task.holds THEN [status EXCEPT ![task.story] = "hold"] ELSE status
  /\ rows'      = IF task.adds THEN rows \union {Key} ELSE rows
  /\ retracted' = [c \in Stories |-> retracted[c] \/ c \in task.retracts]
  /\ muted'     = IF ChatId THEN muted
                  ELSE muted \union (IF task.adds THEN {Key} ELSE {})
                             \union {c \in task.retracts : ~ retracted[c]}
  /\ task'      = [NoTask EXCEPT !.step = "next"]
  /\ UNCHANGED <<channel, mode, faults>>

-----------------------------------------------------------------------------
\* The worker dies between two calls; its transaction is gone.
Crash ==
  /\ task.step # "idle"
  /\ faults < MaxFaults
  /\ faults' = faults + 1
  /\ task' = NoTask
  /\ UNCHANGED <<stored, channel, mode>>

\* The operator restarts the worker with another PUBLISH_MODE.
SwitchMode ==
  /\ task.step = "idle"
  /\ mode' = IF mode = "dry_run" THEN "production" ELSE "dry_run"
  /\ UNCHANGED <<stored, channel, task, faults>>

Work ==
  \/ StartTask \/ EndTask \/ JoinElsewhere
  \/ HoldNumeric \/ DropSupplement \/ AddSupplement
  \/ Deliver \/ Detect \/ Commit
  \/ \E c \in Stories : JoinStory(c) \/ LeaveStory(c) \/ RetractStory(c) \/ CorrectStory(c)

Next == Work \/ AskedToWait \/ CallRaises \/ Crash \/ SwitchMode

\* The beat queues the task again and again and the worker runs what is queued.
Spec == Init /\ [][Next]_vars /\ WF_vars(Work)

-----------------------------------------------------------------------------
\* A story recorded as retracted carries the mark in the channel, whatever
\* messages joined it before, with or after the denial: no supplement is edited
\* over it.  Excepted is a story retracted in a dry run.
RetractedIsMarked == \A c \in Stories : retracted[c] => post[c] = Marked \/ c \in muted

\* A supplement recorded as sent was shown in the post and announced, so an
\* error of either call leaves no row behind.
RecordedIsShown == \A k \in rows : (edits[k] > 0 /\ notices[k] > 0) \/ k \in muted

Repeats == [k \in EventKeys |-> IF edits[k] > 1 THEN edits[k] - 1 ELSE 0]

\* The post is edited a second time for the same details only after a call
\* failed or the worker died: at most one repetition for each of these.
RepeatsAreFaults == MapThenSumSet(LAMBDA k : Repeats[k], EventKeys) <= faults

\* A message whose numbers contradict the story holds it, and its denial is
\* then not applied: a held story is not also retracted.
HeldStands == \A c \in Stories : status[c] = "hold" => ~ retracted[c]

\* Every message finds its place once calls stop failing and the worker stops
\* dying, also the one whose edit failed and that blocked those behind it.
MessageIsPlaced == \A m \in Messages : placed[m] = "pending" ~> placed[m] # "pending"

=============================================================================
