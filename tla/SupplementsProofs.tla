--------------------------- MODULE SupplementsProofs ---------------------------
(***************************************************************************)
(* Theorems about Supplements, for any stories, messages and bounds on     *)
(* retries and faults: types, a held story is not retracted, a retracted   *)
(* story is marked, a recorded supplement was shown.  The last three hold  *)
(* only at the commit, and need to know what the open transaction has done *)
(* to the channel so far: TaskInv says which stories it may touch at each  *)
(* step and ShownInv which calls were answered.  That repeated edits are   *)
(* paid for by faults follows from a sum over the event keys, in which an  *)
(* edit that is not yet recorded counts in full unless the open            *)
(* transaction is about to record it.                                      *)
(***************************************************************************)
EXTENDS Supplements, SetSums

\* The task works on a message.
Placing == task.step \notin {"idle", "next"}

\* It calls Telegram for p.
CallingFor(p) == task.step = "calling" /\ task.for = p

\* No story has been looked at as retracted yet.
Early == task.step \in {"supplement", "detecting"} \/ CallingFor("supplement")

\* The calls of the supplement, if there are any, have returned.
Supplemented ==
  \/ task.step \in {"detecting", "classifying"}
  \/ CallingFor("retraction") \/ CallingFor("correction")

TaskInv ==
  /\ ~ Placing => ~ task.holds /\ ~ task.adds /\ task.todo = {} /\ task.retracts = {}
  /\ Placing => task.msg \in Messages /\ task.story \in Stories /\ Postable(task.story)
  /\ task.step = "supplement" => ~ task.holds /\ ~ task.adds
  /\ Early => task.todo = {} /\ task.retracts = {}
  /\ task.step = "calling" =>
       ChatId /\ task.about \in Stories /\ task.call \in {Calls(task.for), <<"send">>}
  /\ CallingFor("supplement") => task.about = task.story /\ task.adds
  /\ \A c \in task.todo \union task.retracts : PublishedInSession(c)
  /\ CallingFor("retraction") \/ CallingFor("correction") => PublishedInSession(task.about)

ShownInv ==
  /\ ChatId => \A c \in task.retracts : post[c] = Marked
  /\ CallingFor("retraction") /\ task.call = <<"send">> => post[task.about] = Marked
  /\ CallingFor("supplement") /\ task.call = <<"send">> => edits[Key] > 0
  /\ task.adds /\ ChatId /\ Supplemented => edits[Key] > 0 /\ notices[Key] > 0

Known == TypeOK /\ TaskInv

IInv == Known /\ ShownInv /\ HeldStands /\ RetractedIsMarked /\ RecordedIsShown

-----------------------------------------------------------------------------
(* Types. *)

LEMMA TaskTypeOK == SupplementsAssumption => NoTask \in Task
  BY DEF SupplementsAssumption, NoTask, Task, Steps, Purposes

\* Facts about the constants that the type of a step uses.
LEMMA KeyTypeOK ==
  ASSUME SupplementsAssumption, Known, Placing
  PROVE  Key \in EventKeys /\ PrefixOf[task.msg] \in Prefixes
  BY DEF SupplementsAssumption, Known, TaskInv, Key, EventKeys

LEMMA CallingTypeOK ==
  ASSUME SupplementsAssumption, NEW t \in Task, NEW p \in Purposes, NEW c \in Stories,
         NEW after \in Steps
  PROVE  Calling(t, p, c, after) \in Task
<1>1. 0 \in 0..(MaxRetries - 1)
  BY DEF SupplementsAssumption
<1>2. Calls(p) \in {<<"edit", "send">>, <<"send">>}
  BY DEF Calls
<1>3. CASE ChatId
  BY <1>1, <1>2, <1>3 DEF Calling, Task, Steps
<1>4. CASE ~ ChatId
  BY <1>4 DEF Calling, Task
<1>5. QED BY <1>3, <1>4

\* What is left of the calls after one of them.
LEMMA CallRest ==
  ASSUME TaskInv, task.step = "calling"
  PROVE  \/ /\ task.call = <<"edit", "send">> /\ task.for # "correction"
            /\ Head(task.call) = "edit" /\ Len(task.call) = 2 /\ Tail(task.call) = <<"send">>
         \/ task.call = <<"send">> /\ Head(task.call) = "send" /\ Len(task.call) = 1
<1>1. task.call \in {Calls(task.for), <<"send">>}
  BY DEF TaskInv
<1>2. CASE task.call = <<"edit", "send">> /\ task.for # "correction"
  BY <1>2
<1>3. CASE task.call = <<"send">>
  BY <1>3
<1>4. QED BY <1>1, <1>2, <1>3 DEF Calls

LEMMA ReturnedTypeOK ==
  ASSUME SupplementsAssumption, Known, task.step = "calling"
  PROVE  Returned \in Task
<1> DEFINE t == Returned
<1> HIDE DEF t
<1>1. 0 \in 0..(MaxRetries - 1) /\ task \in Task /\ task.about \in Stories
  BY DEF SupplementsAssumption, Known, TaskInv, TypeOK
<1>2. CASE Len(task.call) = 2 /\ Tail(task.call) = <<"send">>
  <2>1. t = [task EXCEPT !.call = <<"send">>, !.tries = 0]
    <3>1. Len(task.call) > 1
      BY <1>2
    <3>2. t = [task EXCEPT !.call = Tail(@), !.tries = 0]
      BY <3>1, Zenon DEF t, Returned
    <3>3. QED BY <1>2, <3>2
  <2>2. t \in Task
    BY <1>1, <2>1 DEF Task
  <2>3. QED BY <2>2 DEF t
<1>3. CASE Len(task.call) = 1
  <2>1. t = [task EXCEPT !.call = <<>>, !.tries = 0, !.for = NoTask.for, !.about = NoTask.about,
          !.step = IF task.for = "supplement" THEN "detecting" ELSE "classifying",
          !.retracts = IF task.for = "retraction" THEN @ \union {task.about} ELSE @]
    BY <1>3 DEF t, Returned
  <2>2. t \in Task
    BY <1>1, <2>1 DEF Task, Steps, Purposes, NoTask
  <2>3. QED BY <2>2 DEF t
<1>4. QED BY <1>2, <1>3, CallRest DEF Known

LEMMA ShownTypeOK ==
  ASSUME SupplementsAssumption, Known, task.step = "calling", Shown
  PROVE  /\ post'    \in [Stories -> {Plain, Marked} \union Prefixes]
         /\ edits'   \in [EventKeys -> Nat]
         /\ notices' \in [EventKeys -> Nat]
<1>1. Key \in EventKeys /\ PrefixOf[task.msg] \in Prefixes
  BY KeyTypeOK DEF Placing
<1>2. Rendered \in {Plain, Marked} \union Prefixes
  BY <1>1 DEF Rendered
<1>3. post \in [Stories -> {Plain, Marked} \union Prefixes] /\ edits \in [EventKeys -> Nat]
      /\ notices \in [EventKeys -> Nat]
  BY DEF Known, TypeOK
<1>4. post' \in [Stories -> {Plain, Marked} \union Prefixes]
  BY <1>2, <1>3 DEF Shown
<1>5. edits' \in [EventKeys -> Nat]
  BY <1>1, <1>3 DEF Shown
<1>6. notices' \in [EventKeys -> Nat]
  BY <1>1, <1>3 DEF Shown
<1>7. QED BY <1>4, <1>5, <1>6

\* The oldest of some messages is one of them.
LEMMA OldestPending ==
  ASSUME SupplementsAssumption, Pending # {}
  PROVE  Oldest(Pending) \in Pending
<1>1. Pending \subseteq Nat
  BY DEF SupplementsAssumption, Pending
<1>2. PICK m \in Pending : \A n \in Pending : <<n, m>> \notin OpToRel(<, Nat)
  BY <1>1, WFMin, NatLessThanWellFounded, Zenon
<1>3. \A n \in Pending : ~ (n < m)
  BY <1>1, <1>2, Zenon DEF OpToRel
<1>4. \A n \in Pending : m <= n
  BY <1>1, <1>3
<1>5. QED BY <1>4, Zenon DEF Oldest

LEMMA WorkTypeOK ==
  ASSUME SupplementsAssumption, Known, Work
  PROVE  TypeOK'
<1> USE DEF stored, channel
<1>1. TypeOK
  BY DEF Known
<1>2. NoTask \in Task
  BY TaskTypeOK
<1>3. CASE StartTask
  <2>1. task' \in Task
    BY <1>2, <1>3 DEF StartTask, Task, Steps
  <2>2. QED BY <1>1, <1>3, <2>1 DEF StartTask, TypeOK
<1>4. CASE EndTask
  BY <1>1, <1>2, <1>4 DEF EndTask, TypeOK
<1>5. CASE JoinElsewhere
  BY <1>1, <1>5 DEF JoinElsewhere, TypeOK
<1>6. CASE HoldNumeric
  <2>1. task' \in Task
    BY <1>1, <1>6 DEF HoldNumeric, TypeOK, Task, Steps
  <2>2. QED BY <1>1, <1>6, <2>1 DEF HoldNumeric, TypeOK
<1>7. CASE DropSupplement
  <2>1. task' \in Task
    BY <1>1, <1>7 DEF DropSupplement, TypeOK, Task, Steps
  <2>2. QED BY <1>1, <1>7, <2>1 DEF DropSupplement, TypeOK
<1>8. CASE AddSupplement
  <2>1. [task EXCEPT !.adds = TRUE] \in Task /\ task.story \in Stories
    BY <1>1, <1>8 DEF AddSupplement, Known, TaskInv, Placing, TypeOK, Task
  <2>2. task' \in Task
    BY <1>8, <2>1, CallingTypeOK DEF AddSupplement, Purposes, Steps
  <2>3. QED BY <1>1, <1>8, <2>2 DEF AddSupplement, TypeOK
<1>9. CASE Deliver
  BY <1>1, <1>9, ReturnedTypeOK, ShownTypeOK DEF Deliver, TypeOK
<1>10. CASE Detect
  <2>1. PICK denies \in BOOLEAN, replied \in SUBSET Stories :
          task' = [task EXCEPT !.step = "classifying",
                     !.todo = {c \in replied \union {d \in {task.story} : denies} :
                                 PublishedInSession(c)}]
    BY <1>10 DEF Detect
  <2>2. task.story \in Stories
    BY <1>10 DEF Detect, Known, TaskInv, Placing
  <2>3. {c \in replied \union {d \in {task.story} : denies} : PublishedInSession(c)} \in SUBSET Stories
    BY <2>2
  <2>4. task' \in Task
    BY <1>1, <2>1, <2>3 DEF TypeOK, Task, Steps
  <2>5. QED BY <1>1, <1>10, <2>4 DEF Detect, TypeOK
<1>11. CASE Commit
  <2>1. Key \in EventKeys /\ task.story \in Stories /\ task.retracts \subseteq Stories
    BY <1>1, <1>11, KeyTypeOK DEF Commit, Known, TaskInv, Placing, TypeOK, Task
  <2>2. task' \in Task
    BY <1>2, <1>11 DEF Commit, Task, Steps
  <2>3. placed' \in [Messages -> {"pending", "elsewhere"} \union Stories]
    BY <1>1, <1>11, <2>1 DEF Commit, Placed, TypeOK
  <2>4. status' \in [Stories -> {"published", "hold"}]
    BY <1>1, <1>11, <2>1 DEF Commit, TypeOK
  <2>5. retracted' \in [Stories -> BOOLEAN]
    BY <1>1, <1>11 DEF Commit, TypeOK
  <2>6. rows' \subseteq EventKeys /\ muted' \subseteq Stories \union EventKeys
    BY <1>1, <1>11, <2>1 DEF Commit, TypeOK
  <2>7. QED BY <1>1, <1>11, <2>2, <2>3, <2>4, <2>5, <2>6 DEF Commit, TypeOK
<1>12. ASSUME NEW c \in Stories, JoinStory(c)
       PROVE  TypeOK'
  <2>1. Oldest(Pending) \in Messages
    BY <1>12, OldestPending DEF JoinStory, Pending
  <2>2. task' \in Task
    BY <1>2, <1>12, <2>1 DEF JoinStory, Task, Steps
  <2>3. QED BY <1>1, <1>12, <2>2 DEF JoinStory, TypeOK
<1>13. ASSUME NEW c \in Stories, LeaveStory(c)
       PROVE  TypeOK'
  <2>1. task' \in Task
    BY <1>1, <1>13 DEF LeaveStory, TypeOK, Task
  <2>2. QED BY <1>1, <1>13, <2>1 DEF LeaveStory, TypeOK
<1>14. ASSUME NEW c \in Stories, RetractStory(c)
       PROVE  TypeOK'
  <2>1. [task EXCEPT !.todo = @ \ {c}] \in Task
    BY <1>1 DEF TypeOK, Task
  <2>2. [[task EXCEPT !.todo = @ \ {c}] EXCEPT !.retracts = @ \union {c}] \in Task
    BY <2>1 DEF Task
  <2>3. task' \in Task
    BY <1>14, <2>1, <2>2, CallingTypeOK DEF RetractStory, Calling, Purposes, Steps
  <2>4. QED BY <1>1, <1>14, <2>3 DEF RetractStory, TypeOK
<1>15. ASSUME NEW c \in Stories, CorrectStory(c)
       PROVE  TypeOK'
  <2>1. [task EXCEPT !.todo = @ \ {c}] \in Task
    BY <1>1 DEF TypeOK, Task
  <2>2. task' \in Task
    BY <1>15, <2>1, CallingTypeOK DEF CorrectStory, Purposes, Steps
  <2>3. QED BY <1>1, <1>15, <2>2 DEF CorrectStory, TypeOK
<1>16. QED
  BY <1>3, <1>4, <1>5, <1>6, <1>7, <1>8, <1>9, <1>10, <1>11, <1>12, <1>13, <1>14, <1>15 DEF Work

LEMMA NextTypeOK ==
  ASSUME SupplementsAssumption, Known, [Next]_vars
  PROVE  TypeOK'
<1> USE DEF stored, channel
<1>1. TypeOK /\ NoTask \in Task
  BY TaskTypeOK DEF Known
<1>2. CASE AskedToWait
  <2>1. CASE TriesLeft
    <3>1. task.tries + 1 \in 0..(MaxRetries - 1)
      BY <1>1, <2>1 DEF TriesLeft, TypeOK, Task, SupplementsAssumption
    <3>2. task' = [task EXCEPT !.tries = @ + 1]
      BY <1>2, <2>1 DEF AskedToWait
    <3>3. task' \in Task
      BY <1>1, <3>1, <3>2 DEF TypeOK, Task
    <3>4. QED BY <1>1, <1>2, <3>3 DEF AskedToWait, TypeOK
  <2>2. CASE ~ TriesLeft
    BY <1>1, <1>2, <2>2 DEF AskedToWait, Raised, TypeOK
  <2>3. QED BY <2>1, <2>2
<1>3. CASE CallRaises
  <2>1. CASE Shown
    BY <1>1, <1>3, <2>1, ShownTypeOK DEF CallRaises, Raised, TypeOK
  <2>2. CASE UNCHANGED channel
    BY <1>1, <1>3, <2>2 DEF CallRaises, Raised, TypeOK
  <2>3. QED BY <1>3, <2>1, <2>2 DEF CallRaises
<1>4. CASE Crash
  BY <1>1, <1>4 DEF Crash, TypeOK
<1>5. CASE SwitchMode
  BY <1>1, <1>5 DEF SwitchMode, TypeOK
<1>6. CASE UNCHANGED vars
  BY <1>1, <1>6 DEF vars, TypeOK
<1>7. QED BY <1>2, <1>3, <1>4, <1>5, <1>6, WorkTypeOK DEF Next

-----------------------------------------------------------------------------
(* What the open transaction may touch. *)

LEMMA WorkTaskInv ==
  ASSUME SupplementsAssumption, Known, Work
  PROVE  TaskInv'
<1> USE DEF stored, channel, ChatId, CallingFor, Early, Placing, Postable, PublishedInSession
<1>1. TypeOK /\ TaskInv
  BY DEF Known
<1>3. CASE StartTask
  BY <1>1, <1>3 DEF StartTask, NoTask, TaskInv
<1>4. CASE EndTask
  BY <1>1, <1>4 DEF EndTask, NoTask, TaskInv
<1>5. CASE JoinElsewhere
  BY <1>1, <1>5 DEF JoinElsewhere, TaskInv
<1>6. CASE HoldNumeric
  BY <1>1, <1>6 DEF HoldNumeric, TaskInv, TypeOK, Task
<1>7. CASE DropSupplement
  BY <1>1, <1>7 DEF DropSupplement, TaskInv, TypeOK, Task
<1>8. CASE AddSupplement
  BY <1>1, <1>8 DEF AddSupplement, Calling, TaskInv, TypeOK, Task
<1>9. CASE Deliver
  <2>1. task.step = "calling" /\ task' = Returned /\ mode' = mode /\ status' = status /\ retracted' = retracted
    BY <1>9 DEF Deliver
  <2>2. CASE task.call = <<"edit", "send">> /\ Len(task.call) = 2 /\ Tail(task.call) = <<"send">>
    <3>1. task' = [task EXCEPT !.call = <<"send">>, !.tries = 0]
      BY <2>1, <2>2 DEF Returned
    <3>2. QED BY <1>1, <2>1, <3>1 DEF TaskInv, TypeOK, Task
  <2>3. CASE Len(task.call) = 1
    <3>1. task' = [task EXCEPT !.call = <<>>, !.tries = 0, !.for = NoTask.for, !.about = NoTask.about,
            !.step = IF task.for = "supplement" THEN "detecting" ELSE "classifying",
            !.retracts = IF task.for = "retraction" THEN @ \union {task.about} ELSE @]
      BY <2>1, <2>3 DEF Returned
    <3>2. task.for \in Purposes
      BY <1>1 DEF TypeOK, Task
    <3>3. CASE task.for = "supplement"
      BY <1>1, <2>1, <3>1, <3>3 DEF TaskInv, TypeOK, Task
    <3>4. CASE task.for = "retraction"
      BY <1>1, <2>1, <3>1, <3>4 DEF TaskInv, TypeOK, Task
    <3>5. CASE task.for = "correction"
      BY <1>1, <2>1, <3>1, <3>5 DEF TaskInv, TypeOK, Task
    <3>6. QED BY <3>2, <3>3, <3>4, <3>5 DEF Purposes
  <2>4. QED BY <1>1, <2>1, <2>2, <2>3, CallRest
<1>10. CASE Detect
  <2>1. PICK denies \in BOOLEAN, replied \in SUBSET Stories :
          task' = [task EXCEPT !.step = "classifying",
                     !.todo = {c \in replied \union {d \in {task.story} : denies} :
                                 PublishedInSession(c)}]
    BY <1>10 DEF Detect
  <2>2. QED BY <1>1, <1>10, <2>1 DEF Detect, TaskInv, TypeOK, Task
<1>11. CASE Commit
  BY <1>1, <1>11 DEF Commit, NoTask, TaskInv
<1>12. ASSUME NEW c \in Stories, JoinStory(c)
       PROVE  TaskInv'
  <2>1. Oldest(Pending) \in Messages
    BY <1>12, OldestPending DEF JoinStory, Pending
  <2>2. QED BY <1>1, <1>12, <2>1 DEF JoinStory, NoTask, TaskInv
<1>13. ASSUME NEW c \in Stories, LeaveStory(c)
       PROVE  TaskInv'
  BY <1>1, <1>13 DEF LeaveStory, TaskInv, TypeOK, Task
<1>14. ASSUME NEW c \in Stories, RetractStory(c)
       PROVE  TaskInv'
  BY <1>1, <1>14 DEF RetractStory, Calling, TaskInv, TypeOK, Task
<1>15. ASSUME NEW c \in Stories, CorrectStory(c)
       PROVE  TaskInv'
  BY <1>1, <1>15 DEF CorrectStory, Calling, TaskInv, TypeOK, Task
<1>16. QED
  BY <1>3, <1>4, <1>5, <1>6, <1>7, <1>8, <1>9, <1>10, <1>11, <1>12, <1>13, <1>14, <1>15 DEF Work

LEMMA NextTaskInv ==
  ASSUME SupplementsAssumption, Known, [Next]_vars
  PROVE  TaskInv'
<1> USE DEF stored, channel, ChatId, CallingFor, Early, Placing, Postable, PublishedInSession
<1>1. TypeOK /\ TaskInv
  BY DEF Known
<1>2. CASE AskedToWait
  <2>1. CASE TriesLeft
    BY <1>1, <1>2, <2>1 DEF AskedToWait, TaskInv, TypeOK, Task
  <2>2. CASE ~ TriesLeft
    BY <1>1, <1>2, <2>2 DEF AskedToWait, Raised, NoTask, TaskInv
  <2>3. QED BY <2>1, <2>2
<1>3. CASE CallRaises
  BY <1>1, <1>3 DEF CallRaises, Raised, NoTask, TaskInv
<1>4. CASE Crash
  BY <1>1, <1>4 DEF Crash, NoTask, TaskInv
<1>5. CASE SwitchMode
  BY <1>1, <1>5 DEF SwitchMode, TaskInv
<1>6. CASE UNCHANGED vars
  BY <1>1, <1>6 DEF vars, TaskInv
<1>7. QED BY <1>2, <1>3, <1>4, <1>5, <1>6, WorkTaskInv DEF Next

-----------------------------------------------------------------------------
(* What the channel shows when the transaction commits. *)

Shows == ShownInv /\ RetractedIsMarked /\ RecordedIsShown

\* A call that Telegram accepts: a supplement is edited over no mark, and counts
\* and marks are only added.
LEMMA AcceptedCall ==
  ASSUME SupplementsAssumption, Known, Shows, task.step = "calling", Shown,
         UNCHANGED <<retracted, rows, muted>>
  PROVE  /\ \A k \in EventKeys : edits[k] > 0 => edits'[k] > 0
         /\ \A k \in EventKeys : notices[k] > 0 => notices'[k] > 0
         /\ RetractedIsMarked' /\ RecordedIsShown'
         /\ \A c \in task.retracts : post'[c] = Marked
         /\ Head(task.call) = "edit" /\ task.for = "supplement" => edits'[Key] > 0
         /\ Head(task.call) = "send" /\ task.for = "supplement" => notices'[Key] > 0
         /\ Head(task.call) = "edit" /\ task.for # "supplement" => post'[task.about] = Marked
         /\ Head(task.call) = "send" => post' = post
<1>1. TypeOK /\ TaskInv /\ ShownInv /\ RetractedIsMarked /\ RecordedIsShown
  BY DEF Known, Shows
<1>2. Key \in EventKeys
  BY KeyTypeOK DEF Placing
<1>3. /\ edits \in [EventKeys -> Nat] /\ notices \in [EventKeys -> Nat]
      /\ post \in [Stories -> {Plain, Marked} \union Prefixes]
      /\ task.about \in Stories /\ task.retracts \subseteq Stories /\ task.for \in Purposes
  BY <1>1 DEF TypeOK, TaskInv, Task
<1>4. \A k \in EventKeys : edits[k] > 0 => edits'[k] > 0
  BY <1>2, <1>3 DEF Shown
<1>5. \A k \in EventKeys : notices[k] > 0 => notices'[k] > 0
  BY <1>2, <1>3 DEF Shown
<1>6. Head(task.call) = "edit" /\ task.for = "supplement" => edits'[Key] > 0
  BY <1>2, <1>3 DEF Shown
<1>7. Head(task.call) = "send" /\ task.for = "supplement" => notices'[Key] > 0
  BY <1>2, <1>3 DEF Shown
<1>8. \A c \in Stories : post[c] = Marked /\ (task.for = "supplement" => c # task.about)
                           => post'[c] = Marked
  BY <1>3 DEF Shown, Rendered
<1>9. task.for = "supplement" => ~ retracted[task.about] /\ task.retracts = {}
  BY <1>1 DEF TaskInv, CallingFor, Early, Placing, Postable
<1>10. RetractedIsMarked'
  BY <1>1, <1>8, <1>9 DEF RetractedIsMarked
<1>11. RecordedIsShown'
  BY <1>1, <1>4, <1>5 DEF RecordedIsShown, TypeOK
<1>12. \A c \in task.retracts : post'[c] = Marked
  BY <1>1, <1>3, <1>8, <1>9 DEF ShownInv, TaskInv
<1>13. Head(task.call) = "edit" /\ task.for # "supplement" => post'[task.about] = Marked
  BY <1>3 DEF Shown, Rendered
<1>14. Head(task.call) = "send" => post' = post
  BY DEF Shown
<1>15. QED
  BY <1>4, <1>5, <1>6, <1>7, <1>10, <1>11, <1>12, <1>13, <1>14

LEMMA DeliverShows ==
  ASSUME SupplementsAssumption, Known, Shows, Deliver
  PROVE  Shows'
<1> USE DEF CallingFor, Supplemented, ChatId
<1>1. TypeOK /\ TaskInv /\ ShownInv
  BY DEF Known, Shows
<1>2. task.step = "calling" /\ Shown /\ task' = Returned /\ mode' = mode
      /\ UNCHANGED <<retracted, rows, muted>>
  BY DEF Deliver, stored
<1>3. RetractedIsMarked' /\ RecordedIsShown' /\ \A c \in task.retracts : post'[c] = Marked
  BY <1>2, AcceptedCall
<1>4. Key \in EventKeys
  BY <1>2, KeyTypeOK DEF Placing
<1>5. edits[Key] > 0 => edits'[Key] > 0
  BY <1>2, <1>4, AcceptedCall
<1>6. notices[Key] > 0 => notices'[Key] > 0
  BY <1>2, <1>4, AcceptedCall
<1>7. CASE task.call = <<"edit", "send">> /\ Len(task.call) = 2 /\ Tail(task.call) = <<"send">>
           /\ Head(task.call) = "edit"
  <2>1. task' = [task EXCEPT !.call = <<"send">>, !.tries = 0]
    BY <1>2, <1>7 DEF Returned
  <2>2. Key' = Key /\ task'.for = task.for /\ task'.step = "calling" /\ task'.about = task.about
        /\ task'.retracts = task.retracts /\ task'.adds = task.adds
    BY <1>1, <1>2, <2>1 DEF Key, TypeOK, Task
  <2>3. task.for = "supplement" => edits'[Key] > 0
    BY <1>2, <1>7, AcceptedCall
  <2>4. task.for # "supplement" => post'[task.about] = Marked
    BY <1>2, <1>7, AcceptedCall
  <2>5. ShownInv'
    BY <1>1, <1>2, <1>3, <1>5, <1>6, <2>2, <2>3, <2>4 DEF ShownInv
  <2>6. QED BY <1>3, <2>5 DEF Shows
<1>8. CASE task.call = <<"send">> /\ Len(task.call) = 1 /\ Head(task.call) = "send"
  <2>1. task' = [task EXCEPT !.call = <<>>, !.tries = 0, !.for = NoTask.for, !.about = NoTask.about,
          !.step = IF task.for = "supplement" THEN "detecting" ELSE "classifying",
          !.retracts = IF task.for = "retraction" THEN @ \union {task.about} ELSE @]
    BY <1>2, <1>8 DEF Returned
  <2>2. /\ Key' = Key /\ task'.adds = task.adds /\ task'.step \in {"detecting", "classifying"}
        /\ task'.retracts = IF task.for = "retraction" THEN task.retracts \union {task.about}
                            ELSE task.retracts
        /\ task.for \in Purposes
    BY <1>1, <2>1 DEF Key, TypeOK, Task
  <2>3. post' = post
    BY <1>2, <1>8, AcceptedCall
  <2>4. \A c \in task'.retracts : post'[c] = Marked
    BY <1>1, <1>2, <1>3, <1>8, <2>2, <2>3 DEF ShownInv
  <2>5. task.adds => edits'[Key] > 0 /\ notices'[Key] > 0
    <3>1. CASE task.for = "supplement"
      <4>1. notices'[Key] > 0
        BY <1>2, <1>8, <3>1, AcceptedCall
      <4>2. edits[Key] > 0
        BY <1>1, <1>2, <1>8, <3>1 DEF ShownInv
      <4>3. QED BY <1>5, <4>1, <4>2
    <3>2. CASE task.for # "supplement"
      BY <1>1, <1>2, <1>5, <1>6, <2>2, <3>2 DEF ShownInv, TaskInv, Purposes
    <3>3. QED BY <3>1, <3>2
  <2>6. ShownInv'
    BY <2>2, <2>4, <2>5 DEF ShownInv
  <2>7. QED BY <1>3, <2>6 DEF Shows
<1>9. QED BY <1>1, <1>2, <1>7, <1>8, CallRest

LEMMA CommitShows ==
  ASSUME SupplementsAssumption, Known, Shows, Commit
  PROVE  Shows'
<1>1. TypeOK /\ TaskInv /\ ShownInv /\ RetractedIsMarked /\ RecordedIsShown
  BY DEF Known, Shows
<1>2. ShownInv'
  BY DEF Commit, ShownInv, NoTask, CallingFor, Supplemented
<1>3. RetractedIsMarked'
  BY <1>1 DEF Commit, RetractedIsMarked, ShownInv, channel
<1>4. RecordedIsShown'
  BY <1>1 DEF Commit, RecordedIsShown, ShownInv, Supplemented, channel
<1>5. QED BY <1>2, <1>3, <1>4 DEF Shows

\* A step that leaves the channel and what is committed alone.
LEMMA QuietShows ==
  ASSUME Shows, ShownInv', UNCHANGED <<retracted, rows, muted>>, UNCHANGED channel
  PROVE  Shows'
  BY DEF Shows, RetractedIsMarked, RecordedIsShown, channel

LEMMA NoTaskShows ==
  ASSUME ~ task'.adds, task'.retracts = {}, task'.step \in {"idle", "next", "supplement"}
  PROVE  ShownInv'
  BY DEF ShownInv, CallingFor

LEMMA NextShows ==
  ASSUME SupplementsAssumption, Known, Shows, [Next]_vars
  PROVE  Shows'
<1> USE DEF stored
<1>1. TypeOK /\ TaskInv /\ ShownInv
  BY DEF Known, Shows
<1>2. CASE StartTask
  BY <1>2, QuietShows, NoTaskShows DEF StartTask, NoTask
<1>3. CASE EndTask
  BY <1>3, QuietShows, NoTaskShows DEF EndTask, NoTask
<1>4. CASE JoinElsewhere
  <2>1. ShownInv'
    BY <1>1, <1>4 DEF JoinElsewhere, channel, ShownInv, CallingFor, Supplemented, ChatId, Key
  <2>2. QED BY <1>4, <2>1, QuietShows DEF JoinElsewhere
<1>5. CASE HoldNumeric \/ DropSupplement
  <2>1. task'.adds = FALSE /\ task'.retracts = {} /\ task'.step = "detecting"
    BY <1>1, <1>5 DEF HoldNumeric, DropSupplement, TypeOK, Task, TaskInv, Early
  <2>2. ShownInv'
    BY <2>1 DEF ShownInv, CallingFor
  <2>3. QED BY <1>5, <2>2, QuietShows DEF HoldNumeric, DropSupplement
<1>6. CASE AddSupplement
  <2>1. /\ task'.retracts = {} /\ task.step = "supplement"
        /\ \/ /\ task'.step = "calling" /\ task'.for = "supplement"
              /\ task'.call = <<"edit", "send">>
           \/ ~ ChatId' /\ task'.step = "detecting"
    BY <1>1, <1>6
    DEF AddSupplement, Calling, Calls, TypeOK, Task, TaskInv, Early, ChatId
  <2>2. ShownInv'
    BY <2>1 DEF ShownInv, CallingFor, Supplemented
  <2>3. QED BY <1>6, <2>2, QuietShows DEF AddSupplement
<1>7. CASE Deliver
  BY <1>7, DeliverShows
<1>8. CASE Detect
  <2>1. PICK denies \in BOOLEAN, replied \in SUBSET Stories :
          task' = [task EXCEPT !.step = "classifying",
                     !.todo = {c \in replied \union {d \in {task.story} : denies} :
                                 PublishedInSession(c)}]
    BY <1>8 DEF Detect
  <2>2. /\ task'.retracts = task.retracts /\ task'.adds = task.adds /\ Key' = Key
        /\ task'.step = "classifying" /\ task.step = "detecting" /\ mode' = mode
    BY <1>1, <1>8, <2>1 DEF Detect, Key, TypeOK, Task
  <2>3. ShownInv'
    BY <1>1, <1>8, <2>2 DEF Detect, ShownInv, CallingFor, Supplemented, ChatId, channel
  <2>4. QED BY <1>8, <2>3, QuietShows DEF Detect
<1>9. CASE Commit
  BY <1>9, CommitShows
<1>10. ASSUME NEW c \in Stories, JoinStory(c)
       PROVE  Shows'
  BY <1>10, QuietShows, NoTaskShows DEF JoinStory, NoTask
<1>11. ASSUME NEW c \in Stories, LeaveStory(c)
       PROVE  Shows'
  <2>1. /\ task'.retracts = task.retracts /\ task'.adds = task.adds /\ Key' = Key
        /\ task'.step = "classifying" /\ task.step = "classifying" /\ mode' = mode
    BY <1>1, <1>11 DEF LeaveStory, Key, TypeOK, Task
  <2>2. ShownInv'
    BY <1>1, <1>11, <2>1 DEF LeaveStory, ShownInv, CallingFor, Supplemented, ChatId, channel
  <2>3. QED BY <1>11, <2>2, QuietShows DEF LeaveStory
<1>12. ASSUME NEW c \in Stories, RetractStory(c)
       PROVE  Shows'
  <2>1. /\ task'.adds = task.adds /\ Key' = Key /\ task.step = "classifying" /\ mode' = mode
        /\ \/ /\ task'.step = "calling" /\ task'.for = "retraction"
              /\ task'.call = <<"edit", "send">> /\ task'.retracts = task.retracts
           \/ ~ ChatId /\ task'.step = "classifying"
    BY <1>1, <1>12 DEF RetractStory, Calling, Calls, Key, TypeOK, Task
  <2>2. post' = post /\ edits' = edits /\ notices' = notices
    BY <1>12 DEF RetractStory, channel
  <2>3. <<"edit", "send">> # <<"send">>
    OBVIOUS
  <2>4. ShownInv'
    <3>1. CASE ChatId
      BY <1>1, <2>1, <2>2, <2>3, <3>1 DEF ShownInv, CallingFor, Supplemented, ChatId
    <3>2. CASE ~ ChatId
      BY <1>1, <2>1, <2>2, <3>2 DEF ShownInv, CallingFor, Supplemented, ChatId
    <3>3. QED BY <3>1, <3>2
  <2>5. QED BY <1>12, <2>4, QuietShows DEF RetractStory
<1>13. ASSUME NEW c \in Stories, CorrectStory(c)
       PROVE  Shows'
  <2>1. /\ task'.adds = task.adds /\ Key' = Key /\ task.step = "classifying" /\ mode' = mode
        /\ task'.retracts = task.retracts
        /\ \/ task'.step = "calling" /\ task'.for = "correction"
           \/ ~ ChatId /\ task'.step = "classifying"
    BY <1>1, <1>13 DEF CorrectStory, Calling, Calls, Key, TypeOK, Task
  <2>2. ShownInv'
    BY <1>1, <1>13, <2>1 DEF CorrectStory, ShownInv, CallingFor, Supplemented, ChatId, channel
  <2>3. QED BY <1>13, <2>2, QuietShows DEF CorrectStory
<1>14. CASE AskedToWait
  <2>1. CASE TriesLeft
    <3>1. /\ task'.retracts = task.retracts /\ task'.adds = task.adds /\ Key' = Key /\ mode' = mode
          /\ task'.step = task.step /\ task'.for = task.for /\ task'.call = task.call
          /\ task'.about = task.about
      BY <1>1, <1>14, <2>1 DEF AskedToWait, Key, TypeOK, Task
    <3>2. ShownInv'
      BY <1>1, <1>14, <3>1 DEF AskedToWait, ShownInv, CallingFor, Supplemented, ChatId, channel
    <3>3. QED BY <1>14, <3>2, QuietShows DEF AskedToWait
  <2>2. CASE ~ TriesLeft
    BY <1>14, <2>2, QuietShows, NoTaskShows DEF AskedToWait, Raised, NoTask
  <2>3. QED BY <2>1, <2>2
<1>15. CASE CallRaises
  <2>1. ShownInv'
    BY <1>15, NoTaskShows DEF CallRaises, Raised, NoTask
  <2>2. CASE Shown
    BY <1>15, <2>1, <2>2, AcceptedCall DEF CallRaises, Shows
  <2>3. CASE UNCHANGED channel
    BY <1>15, <2>1, <2>3, QuietShows DEF CallRaises
  <2>4. QED BY <1>15, <2>2, <2>3 DEF CallRaises
<1>16. CASE Crash
  BY <1>16, QuietShows, NoTaskShows DEF Crash, NoTask
<1>17. CASE SwitchMode
  <2>1. ~ task.adds /\ task.retracts = {} /\ task' = task /\ task.step = "idle"
    BY <1>1, <1>17 DEF SwitchMode, TaskInv, Placing
  <2>2. ShownInv'
    BY <2>1, NoTaskShows
  <2>3. QED BY <1>17, <2>2, QuietShows DEF SwitchMode
<1>18. CASE UNCHANGED vars
  <2>1. ShownInv'
    BY <1>1, <1>18 DEF vars, ShownInv, CallingFor, Supplemented, ChatId, Key
  <2>2. QED BY <1>18, <2>1, QuietShows DEF vars, channel
<1>19. QED
  BY <1>2, <1>3, <1>4, <1>5, <1>6, <1>7, <1>8, <1>9, <1>10, <1>11, <1>12, <1>13, <1>14, <1>15,
     <1>16, <1>17, <1>18
  DEF Next, Work

-----------------------------------------------------------------------------
LEMMA NextHeldStands ==
  ASSUME SupplementsAssumption, Known, HeldStands, [Next]_vars
  PROVE  HeldStands'
<1>1. TypeOK /\ TaskInv
  BY DEF Known
<1>2. CASE Commit
  <2>1. task.story \in Stories /\ Postable(task.story)
    BY <1>1, <1>2 DEF Commit, TaskInv, Placing
  <2>2. QED
    BY <1>1, <1>2, <2>1 DEF Commit, HeldStands, TypeOK, TaskInv, Postable, PublishedInSession
<1>3. CASE ~ Commit
  <2>1. UNCHANGED <<status, retracted>>
    BY <1>3
    DEF Next, Work, StartTask, EndTask, JoinElsewhere, HoldNumeric, DropSupplement, AddSupplement,
        Deliver, Detect, JoinStory, LeaveStory, RetractStory, CorrectStory, AskedToWait,
        CallRaises, Crash, SwitchMode, stored, vars
  <2>2. QED BY <2>1 DEF HeldStands
<1>4. QED BY <1>2, <1>3

LEMMA InitIInv == SupplementsAssumption /\ Init => IInv
<1> SUFFICES ASSUME SupplementsAssumption, Init PROVE IInv
  OBVIOUS
<1>1. TypeOK
  BY TaskTypeOK DEF Init, TypeOK, EventKeys
<1>2. TaskInv /\ ShownInv
  BY DEF Init, NoTask, TaskInv, ShownInv, Placing, CallingFor, Early, Supplemented
<1>3. HeldStands /\ RetractedIsMarked /\ RecordedIsShown
  BY DEF Init, HeldStands, RetractedIsMarked, RecordedIsShown
<1>4. QED BY <1>1, <1>2, <1>3 DEF IInv, Known

LEMMA NextIInv ==
  ASSUME SupplementsAssumption, IInv, [Next]_vars
  PROVE  IInv'
<1>1. Known'
  BY NextTypeOK, NextTaskInv DEF IInv, Known
<1>2. Shows'
  BY NextShows DEF IInv, Shows
<1>3. QED BY <1>1, <1>2, NextHeldStands DEF IInv, Shows

LEMMA SpecIInv == Spec => []IInv
<1>1. QED BY InitIInv, NextIInv, SupplementsAssumption, PTL DEF Spec

\* Every variable keeps its type, also the record of the open transaction.
THEOREM SpecTypeOK == Spec => []TypeOK
  BY SpecIInv, PTL DEF IInv, Known

\* A story that a message's numbers hold is not also retracted by its denial,
\* in process_supplemental and process_retraction_candidate.
THEOREM HeldIsNotRetracted == Spec => []HeldStands
  BY SpecIInv, PTL DEF IInv

\* _apply_retraction records what the channel shows, and no later supplement
\* takes the mark away.
THEOREM RetractionsAreMarked == Spec => []RetractedIsMarked
  BY SpecIInv, PTL DEF IInv

\* The row of a supplement commits only after both of its calls returned.
THEOREM RecordsAreShown == Spec => []RecordedIsShown
  BY SpecIInv, PTL DEF IInv

-----------------------------------------------------------------------------
(* Repeated edits. *)

\* The open transaction made the edit that its commit will record.
Edited == \/ CallingFor("supplement") /\ task.call = <<"send">>
          \/ task.adds /\ ChatId /\ Supplemented

Claimed(k) == k \in rows \/ (Edited /\ k = Key)

\* The edits with the supplement of k that some fault has to pay for.
Spent == [k \in EventKeys |-> IF Claimed(k) /\ edits[k] > 0 THEN edits[k] - 1 ELSE edits[k]]

\* What the transaction will record is not recorded yet.
FreshInv == task.adds => ~ Recorded(Key)

SpentInv == Total(Spent, EventKeys) <= faults

SpentBy(d) ==
  /\ faults' = faults + d
  /\ \A k \in EventKeys : Spent'[k] <= Spent[k] + (IF k = Key THEN d ELSE 0)

LEMMA KeysAreFinite == SupplementsAssumption => IsFiniteSet(EventKeys)
  BY FS_Product DEF SupplementsAssumption, EventKeys

LEMMA SpentType ==
  ASSUME TypeOK
  PROVE  \A k \in EventKeys : Spent[k] \in Int
  BY DEF TypeOK, Spent

\* At most one more is spent than before when the task forgets what it edited.
LEMMA ForgottenEdit ==
  ASSUME TypeOK, TypeOK', UNCHANGED <<edits, rows>>, faults' = faults + 1
  PROVE  SpentBy(1)
  BY DEF TypeOK, SpentBy, Spent, Claimed

\* Nothing is spent when the task remembers it.
LEMMA RememberedEdit ==
  ASSUME TypeOK, TypeOK', UNCHANGED <<edits, rows>>, Edited => Edited' /\ Key' = Key,
         NEW d \in 0..1, faults' = faults + d
  PROVE  SpentBy(d)
<1>1. \A k \in EventKeys : Claimed(k) => Claimed(k)'
  BY DEF Claimed
<1>2. QED BY <1>1 DEF TypeOK, SpentBy, Spent

LEMMA NextFresh ==
  ASSUME SupplementsAssumption, Known, FreshInv, [Next]_vars
  PROVE  FreshInv'
<1> USE DEF stored, channel
<1>1. TypeOK /\ TaskInv
  BY DEF Known
<1>2. ASSUME ~ task'.adds
      PROVE  FreshInv'
  BY <1>2 DEF FreshInv
<1>3. ASSUME UNCHANGED rows, task'.adds => task.adds, Key' = Key
      PROVE  FreshInv'
  BY <1>3 DEF FreshInv, Recorded
<1>4. CASE StartTask \/ EndTask \/ JoinElsewhere \/ SwitchMode \/ UNCHANGED vars
  <2>1. UNCHANGED rows
    BY <1>4 DEF StartTask, EndTask, JoinElsewhere, SwitchMode, vars
  <2>2. ~ task'.adds \/ task' = task
    BY <1>4 DEF StartTask, EndTask, JoinElsewhere, SwitchMode, vars, NoTask
  <2>3. QED BY <1>2, <1>3, <2>1, <2>2 DEF Key
<1>5. CASE HoldNumeric \/ DropSupplement
  <2>1. ~ task.adds /\ task'.adds = task.adds
    BY <1>1, <1>5 DEF HoldNumeric, DropSupplement, TaskInv, TypeOK, Task
  <2>2. QED BY <1>2, <2>1
<1>6. CASE AddSupplement
  <2>1. ~ Recorded(Key) /\ UNCHANGED rows
    BY <1>6 DEF AddSupplement
  <2>2. Key' = Key
    BY <1>1, <1>6 DEF AddSupplement, Calling, Key, TypeOK, Task
  <2>3. QED BY <2>1, <2>2 DEF FreshInv, Recorded
<1>7. CASE Deliver
  <2>1. task.step = "calling" /\ task' = Returned /\ UNCHANGED rows
    BY <1>7 DEF Deliver
  <2>2. task'.adds = task.adds /\ Key' = Key
    BY <1>1, <2>1 DEF Returned, Key, TypeOK, Task
  <2>3. QED BY <1>3, <2>1, <2>2
<1>8. CASE Detect
  <2>1. UNCHANGED rows /\ task'.adds = task.adds /\ Key' = Key
    BY <1>1, <1>8 DEF Detect, Key, TypeOK, Task
  <2>2. QED BY <1>3, <2>1
<1>9. CASE Commit \/ Crash
  <2>1. ~ task'.adds
    BY <1>9 DEF Commit, Crash, NoTask
  <2>2. QED BY <1>2, <2>1
<1>10. ASSUME NEW c \in Stories, JoinStory(c)
       PROVE  FreshInv'
  <2>1. ~ task'.adds
    BY <1>10 DEF JoinStory, NoTask
  <2>2. QED BY <1>2, <2>1
<1>11. ASSUME NEW c \in Stories, LeaveStory(c) \/ RetractStory(c) \/ CorrectStory(c)
       PROVE  UNCHANGED rows /\ task'.adds = task.adds /\ Key' = Key
  <2>1. CASE LeaveStory(c)
    BY <1>1, <2>1 DEF LeaveStory, Key, TypeOK, Task
  <2>2. CASE RetractStory(c)
    BY <1>1, <2>2 DEF RetractStory, Calling, Key, TypeOK, Task
  <2>3. CASE CorrectStory(c)
    BY <1>1, <2>3 DEF CorrectStory, Calling, Key, TypeOK, Task
  <2>4. QED BY <1>11, <2>1, <2>2, <2>3
<1>12. CASE AskedToWait
  <2>1. UNCHANGED rows /\ (~ task'.adds \/ (task'.adds = task.adds /\ Key' = Key))
    BY <1>1, <1>12 DEF AskedToWait, Raised, NoTask, Key, TypeOK, Task
  <2>2. QED BY <1>2, <1>3, <2>1
<1>13. CASE CallRaises
  <2>1. ~ task'.adds
    BY <1>13 DEF CallRaises, Raised, NoTask
  <2>2. QED BY <1>2, <2>1
<1>14. QED
  BY <1>3, <1>4, <1>5, <1>6, <1>7, <1>8, <1>9, <1>10, <1>11, <1>12, <1>13 DEF Next, Work

\* An edit with a supplement is made by a transaction that made none before.
LEMMA FirstEdit ==
  ASSUME SupplementsAssumption, Known, FreshInv, task.step = "calling",
         task.call = <<"edit", "send">>, task.for = "supplement"
  PROVE  ~ Claimed(Key)
<1>1. <<"edit", "send">> # <<"send">>
  OBVIOUS
<1>2. task.adds /\ ~ Edited
  BY <1>1 DEF Known, TaskInv, Edited, CallingFor, Supplemented
<1>3. QED BY <1>2 DEF FreshInv, Recorded, Claimed

LEMMA DeliverSpends ==
  ASSUME SupplementsAssumption, Known, TypeOK', FreshInv, Shows', Deliver
  PROVE  SpentBy(0)
<1>1. TypeOK /\ TaskInv
  BY DEF Known
<1>2. /\ task.step = "calling" /\ Shown /\ task' = Returned
      /\ mode' = mode /\ faults' = faults /\ rows' = rows
  BY DEF Deliver, stored
<1>3. faults' = faults + 0
  BY <1>1, <1>2 DEF TypeOK
<1>4. Key \in EventKeys
  BY <1>2, KeyTypeOK DEF Placing
<1>5. CASE task.call = <<"edit", "send">> /\ Len(task.call) = 2 /\ Tail(task.call) = <<"send">>
           /\ Head(task.call) = "edit"
  <2>1. task' = [task EXCEPT !.call = <<"send">>, !.tries = 0]
    BY <1>2, <1>5 DEF Returned
  <2>2. Key' = Key /\ task'.for = task.for /\ task'.step = "calling" /\ task'.adds = task.adds
        /\ task'.call = <<"send">>
    BY <1>1, <1>2, <2>1 DEF Key, TypeOK, Task
  <2>3. CASE task.for = "supplement"
    <3>1. edits' = [edits EXCEPT ![Key] = @ + 1]
      BY <1>2, <1>5, <2>3 DEF Shown
    <3>2. ~ Claimed(Key)
      BY <1>2, <1>5, <2>3, FirstEdit
    <3>3. Claimed(Key)'
      BY <2>2, <2>3 DEF Claimed, Edited, CallingFor
    <3>4. \A k \in EventKeys : k # Key => (Claimed(k)' <=> Claimed(k))
      BY <1>2, <2>2 DEF Claimed
    <3>5. edits \in [EventKeys -> Nat]
      BY <1>1 DEF TypeOK
    <3>6. Spent[Key] = edits[Key]
      BY <1>4, <3>2 DEF Spent
    <3>7. Spent'[Key] = edits[Key]
      BY <1>4, <2>2, <3>1, <3>3, <3>5 DEF Spent
    <3>8. \A k \in EventKeys : k # Key => Spent'[k] = Spent[k]
      BY <3>1, <3>4, <3>5 DEF Spent
    <3>9. \A k \in EventKeys : Spent[k] \in Int
      BY <1>1, SpentType
    <3>10. QED BY <1>3, <3>6, <3>7, <3>8, <3>9 DEF SpentBy
  <2>4. CASE task.for # "supplement"
    <3>1. edits' = edits
      BY <1>2, <2>4 DEF Shown
    <3>2. Edited => Edited'
      BY <1>1, <1>2, <2>2, <2>4 DEF Edited, CallingFor, Supplemented, ChatId
    <3>3. QED BY <1>1, <1>2, <1>3, <2>2, <3>1, <3>2, RememberedEdit
  <2>5. QED BY <2>3, <2>4
<1>6. CASE task.call = <<"send">> /\ Len(task.call) = 1 /\ Head(task.call) = "send"
  <2>1. task' = [task EXCEPT !.call = <<>>, !.tries = 0, !.for = NoTask.for, !.about = NoTask.about,
          !.step = IF task.for = "supplement" THEN "detecting" ELSE "classifying",
          !.retracts = IF task.for = "retraction" THEN @ \union {task.about} ELSE @]
    BY <1>2, <1>6 DEF Returned
  <2>2. Key' = Key /\ task'.adds = task.adds /\ task'.step \in {"detecting", "classifying"}
    BY <1>1, <2>1 DEF Key, TypeOK, Task
  <2>3. edits' = edits
    BY <1>2, <1>6 DEF Shown
  <2>4. Edited => task.adds /\ ChatId
    BY <1>1, <1>2 DEF TaskInv, Edited, CallingFor
  <2>5. Edited => Edited'
    BY <1>2, <2>2, <2>4 DEF Edited, Supplemented, ChatId
  <2>6. QED BY <1>1, <1>2, <1>3, <2>2, <2>3, <2>5, RememberedEdit
<1>7. QED BY <1>1, <1>2, <1>5, <1>6, CallRest

LEMMA RaiseSpends ==
  ASSUME SupplementsAssumption, Known, TypeOK', FreshInv, CallRaises
  PROVE  SpentBy(1)
<1>1. TypeOK /\ TaskInv
  BY DEF Known
<1>2. task.step = "calling" /\ faults' = faults + 1 /\ rows' = rows
  BY DEF CallRaises, stored
<1>3. CASE edits' = edits
  BY <1>1, <1>2, <1>3, ForgottenEdit
<1>4. CASE Shown /\ Head(task.call) = "edit" /\ task.for = "supplement"
  <2>1. edits' = [edits EXCEPT ![Key] = @ + 1] /\ Key \in EventKeys
    BY <1>2, <1>4, KeyTypeOK DEF Shown, Placing
  <2>2. task.call = <<"edit", "send">>
    BY <1>1, <1>2, <1>4, CallRest
  <2>3. ~ Claimed(Key)
    BY <1>2, <1>4, <2>2, FirstEdit
  <2>4. \A k \in EventKeys : k # Key => (Claimed(k) => Claimed(k)')
    BY <1>2 DEF Claimed
  <2>5. edits \in [EventKeys -> Nat]
    BY <1>1 DEF TypeOK
  <2>6. \A k \in EventKeys : Spent'[k] <= Spent[k] + (IF k = Key THEN 1 ELSE 0)
    BY <2>1, <2>3, <2>4, <2>5 DEF Spent
  <2>7. QED BY <1>2, <2>6 DEF SpentBy
<1>5. CASE Shown /\ ~ (Head(task.call) = "edit" /\ task.for = "supplement")
  BY <1>3, <1>5 DEF Shown
<1>6. QED BY <1>3, <1>4, <1>5 DEF CallRaises, channel

LEMMA CommitSpends ==
  ASSUME SupplementsAssumption, Known, TypeOK', Commit
  PROVE  SpentBy(0)
<1>1. TypeOK
  BY DEF Known
<1>2. edits' = edits /\ faults' = faults + 0 /\ rows \subseteq rows' /\ (task.adds => Key \in rows')
  BY <1>1 DEF Commit, channel, TypeOK
<1>3. Edited => task.adds
  BY DEF Commit, Edited, CallingFor
<1>4. \A k \in EventKeys : Claimed(k) => Claimed(k)'
  BY <1>2, <1>3 DEF Claimed
<1>5. QED BY <1>1, <1>2, <1>4 DEF SpentBy, Spent, TypeOK

LEMMA NextSpends ==
  ASSUME SupplementsAssumption, Known, TypeOK', FreshInv, Shows', [Next]_vars
  PROVE  \E d \in 0..1 : SpentBy(d)
<1> USE DEF stored, channel
<1>1. TypeOK /\ TaskInv
  BY DEF Known
<1>2. ASSUME UNCHANGED <<edits, rows, faults>>, Edited => Edited' /\ Key' = Key
      PROVE  SpentBy(0)
  <2>1. faults' = faults + 0
    BY <1>1, <1>2 DEF TypeOK
  <2>2. QED BY <1>1, <1>2, <2>1, RememberedEdit
<1>3. CASE StartTask \/ EndTask \/ SwitchMode \/ JoinElsewhere
  <2>1. UNCHANGED <<edits, rows, faults>>
    BY <1>3 DEF StartTask, EndTask, SwitchMode, JoinElsewhere
  <2>2. task.step \in {"idle", "next"}
    BY <1>1, <1>3 DEF StartTask, EndTask, SwitchMode, JoinElsewhere, TaskInv, Placing
  <2>3. QED BY <1>2, <2>1, <2>2 DEF Edited, CallingFor, Supplemented
<1>4. CASE HoldNumeric \/ DropSupplement \/ AddSupplement
  <2>1. UNCHANGED <<edits, rows, faults>> /\ task.step = "supplement"
    BY <1>4 DEF HoldNumeric, DropSupplement, AddSupplement
  <2>2. QED BY <1>2, <2>1 DEF Edited, CallingFor, Supplemented
<1>5. CASE Deliver
  BY <1>5, DeliverSpends
<1>6. CASE Detect
  <2>1. /\ UNCHANGED <<edits, rows, faults, mode>>
        /\ task'.adds = task.adds /\ Key' = Key /\ task.step = "detecting"
        /\ task'.step = "classifying"
    BY <1>1, <1>6 DEF Detect, Key, TypeOK, Task
  <2>2. QED BY <1>2, <2>1 DEF Edited, CallingFor, Supplemented, ChatId
<1>7. CASE Commit
  BY <1>7, CommitSpends
<1>8. ASSUME NEW c \in Stories, JoinStory(c)
      PROVE  SpentBy(0)
  <2>1. UNCHANGED <<edits, rows, faults>> /\ task.step = "next"
    BY <1>8 DEF JoinStory
  <2>2. QED BY <1>2, <2>1 DEF Edited, CallingFor, Supplemented
<1>9. ASSUME NEW c \in Stories, LeaveStory(c) \/ RetractStory(c) \/ CorrectStory(c)
      PROVE  SpentBy(0)
  <2>1. UNCHANGED <<edits, rows, faults, mode>> /\ task.step = "classifying"
    BY <1>9 DEF LeaveStory, RetractStory, CorrectStory
  <2>2. CASE LeaveStory(c)
    <3>1. task'.adds = task.adds /\ Key' = Key /\ task'.step = "classifying"
      BY <1>1, <2>1, <2>2 DEF LeaveStory, Key, TypeOK, Task
    <3>2. QED BY <1>2, <2>1, <3>1 DEF Edited, CallingFor, Supplemented, ChatId
  <2>3. CASE RetractStory(c)
    <3>1. /\ task'.adds = task.adds /\ Key' = Key
          /\ task'.step = "classifying" \/ (task'.step = "calling" /\ task'.for = "retraction")
      BY <1>1, <2>1, <2>3 DEF RetractStory, Calling, Key, TypeOK, Task
    <3>2. QED BY <1>2, <2>1, <3>1 DEF Edited, CallingFor, Supplemented, ChatId
  <2>4. CASE CorrectStory(c)
    <3>1. /\ task'.adds = task.adds /\ Key' = Key
          /\ task'.step = "classifying" \/ (task'.step = "calling" /\ task'.for = "correction")
      BY <1>1, <2>1, <2>4 DEF CorrectStory, Calling, Key, TypeOK, Task
    <3>2. QED BY <1>2, <2>1, <3>1 DEF Edited, CallingFor, Supplemented, ChatId
  <2>5. QED BY <1>9, <2>2, <2>3, <2>4
<1>10. CASE AskedToWait \/ Crash
  <2>1. UNCHANGED <<edits, rows>> /\ faults' = faults + 1
    BY <1>10 DEF AskedToWait, Crash
  <2>2. SpentBy(1)
    BY <1>1, <2>1, ForgottenEdit
  <2>3. QED BY <2>2
<1>11. CASE CallRaises
  <2>1. SpentBy(1)
    BY <1>11, RaiseSpends
  <2>2. QED BY <2>1
<1>12. CASE UNCHANGED vars
  <2>1. UNCHANGED <<edits, rows, faults>> /\ Edited' = Edited /\ Key' = Key
    BY <1>12 DEF vars, Edited, CallingFor, Supplemented, ChatId, Key
  <2>2. QED BY <1>2, <2>1
<1>13. 0 \in 0..1 /\ 1 \in 0..1
  OBVIOUS
<1>14. QED
  BY <1>3, <1>4, <1>5, <1>6, <1>7, <1>8, <1>9, <1>10, <1>11, <1>12, <1>13, <1>2 DEF Next, Work

LEMMA SpentStep ==
  ASSUME SupplementsAssumption, TypeOK, TypeOK', SpentInv, NEW d \in 0..1, SpentBy(d)
  PROVE  SpentInv'
<1>1. IsFiniteSet(EventKeys)
  BY KeysAreFinite
<1>2. PICK f, g, S, x : f = Spent /\ g = Spent' /\ S = EventKeys /\ x = Key
  OBVIOUS
<1>3. \A k \in S : f[k] \in Int /\ g[k] \in Int
  <2>1. \A k \in EventKeys : Spent'[k] \in Int
    BY DEF TypeOK, Spent
  <2>2. QED BY <1>2, <2>1, SpentType
<1>4. \A k \in S : g[k] <= f[k] + (IF k = x THEN d ELSE 0)
  BY <1>2 DEF SpentBy
<1>5. Total(g, S) <= Total(f, S) + d
  <2>1. IsFiniteSet(S) /\ d \in Nat
    BY <1>1, <1>2
  <2>2. QED BY <1>3, <1>4, <2>1, TotalGrows
<1>6. Total(f, S) \in Int /\ Total(g, S) \in Int /\ faults \in Nat
  BY <1>1, <1>2, <1>3, TotalType DEF TypeOK
<1>7. Total(f, S) <= faults /\ faults' = faults + d
  BY <1>2 DEF SpentInv, SpentBy
<1>8. Total(g, S) <= faults'
  BY <1>5, <1>6, <1>7
<1>9. QED BY <1>2, <1>8 DEF SpentInv

FaultInv == FreshInv /\ SpentInv

LEMMA InitFaultInv ==
  ASSUME SupplementsAssumption, Init
  PROVE  FaultInv
<1>1. FreshInv /\ faults = 0
  BY DEF Init, FreshInv, NoTask
<1>2. \A k \in EventKeys : Spent[k] = 0
  BY DEF Init, Spent
<1>3. Total(Spent, EventKeys) <= 0 * Cardinality(EventKeys)
  BY <1>2, KeysAreFinite, TotalBounds
<1>4. Cardinality(EventKeys) \in Nat
  BY KeysAreFinite, FS_CardinalityType
<1>5. QED BY <1>1, <1>3, <1>4 DEF FaultInv, SpentInv

LEMMA NextFaultInv ==
  ASSUME SupplementsAssumption, IInv, IInv', FaultInv, [Next]_vars
  PROVE  FaultInv'
<1>1. Known /\ TypeOK /\ TypeOK' /\ Shows'
  BY DEF IInv, Known, Shows
<1>2. FreshInv'
  BY <1>1, NextFresh DEF FaultInv
<1>3. PICK d \in 0..1 : SpentBy(d)
  BY <1>1, NextSpends DEF FaultInv
<1>4. SpentInv'
  BY <1>1, <1>3, SpentStep DEF FaultInv
<1>5. QED BY <1>2, <1>4 DEF FaultInv

LEMMA SpentCoversRepeats ==
  ASSUME SupplementsAssumption, TypeOK, SpentInv
  PROVE  RepeatsAreFaults
<1>1. IsFiniteSet(EventKeys)
  BY KeysAreFinite
<1>2. \A k \in EventKeys : Repeats[k] \in Int /\ Spent[k] \in Int
  BY SpentType DEF Repeats, TypeOK
<1>3. \A k \in EventKeys : Repeats[k] <= Spent[k]
  BY DEF Repeats, Spent, TypeOK
<1>4. Total(Repeats, EventKeys) <= Total(Spent, EventKeys)
  <2>1. PICK f, g, S : f = Spent /\ g = Repeats /\ S = EventKeys
    OBVIOUS
  <2>2. \A x \in S : f[x] \in Int /\ g[x] \in Int /\ g[x] <= f[x]
    BY <1>2, <1>3, <2>1
  <2>3. Total(g, S) <= Total(f, S)
    BY <1>1, <2>1, <2>2, TotalMonotone
  <2>4. QED BY <2>1, <2>3
<1>5. Total(Repeats, EventKeys) \in Int /\ Total(Spent, EventKeys) \in Int /\ faults \in Nat
  BY <1>1, <1>2, TotalType DEF TypeOK
<1>6. Total(Repeats, EventKeys) <= faults
  BY <1>4, <1>5 DEF SpentInv
<1>7. QED BY <1>6 DEF RepeatsAreFaults, Total

\* publish_with_retry, the roll-back and the event key: however many messages
\* tell the same details, each repetition of an edit is paid for by a call that
\* failed or a worker that died.
THEOREM RepeatsNeedFaults == Spec => []RepeatsAreFaults
<1>1. SupplementsAssumption /\ Init => FaultInv
  BY InitFaultInv
<1>2. SupplementsAssumption /\ IInv /\ IInv' /\ FaultInv /\ [Next]_vars => FaultInv'
  BY NextFaultInv
<1>3. SupplementsAssumption /\ IInv /\ FaultInv => RepeatsAreFaults
  BY SpentCoversRepeats DEF IInv, Known, FaultInv
<1>4. QED BY <1>1, <1>2, <1>3, SpecIInv, SupplementsAssumption, PTL DEF Spec

================================================================================
