---------------------------- MODULE QuestionsProof ----------------------------
(***************************************************************************)
(* Proofs about the ask_question server for any number of calls, any limit *)
(* on pending calls and any set of mishaps.                                *)
(***************************************************************************)
EXTENDS QuestionsContract, TLAPS

USE DEF NoReply, Replies, Payloads, NoPayload, FromInbox, Pending, PCs

-----------------------------------------------------------------------------
(* Types of what the actions are built from.                                *)

\* An inbox operation turns a record into a record.
LEMMA InboxTypes ==
  ASSUME NEW r \in Records
  PROVE  /\ Created(r) \in Records /\ Answered(r) \in Records
         /\ Delivered(r) \in Records /\ Cancelled(r) \in Records
BY DEF Created, Answered, Delivered, Cancelled, Records

\* A post keeps the inbox in its type, answered or not.
LEMMA PostTypes ==
  ASSUME TypeOK, NEW c \in Calls, NEW r \in Records, Serve(c, r) \/ Fail(c, r) \/ FailOrRefuse(c, r)
  PROVE  rec' \in [Calls -> Records] /\ faulty' \in BOOLEAN
BY DEF TypeOK, Serve, Fail, FailOrRefuse

\* Counting a failure stays within the limit.
LEMMA CountTypes ==
  /\ 0 \in Counts /\ FailureLimit \in Counts
  /\ \A c \in Calls : ask[c] \in Locals => OneMoreFailure(c) \in Counts
BY DEF Counts, FailureLimit, OneMoreFailure, Locals

\* Assigning to one local of `ask` gives locals again.
LEMMA LocalTypes ==
  ASSUME NEW a \in Locals
  PROVE  /\ \A p \in Payloads \cup {NoPayload} : [a EXCEPT !.payload = p] \in Locals
         /\ [a EXCEPT !.declined = TRUE] \in Locals
         /\ [a EXCEPT !.created = TRUE] \in Locals
         /\ [a EXCEPT !.finished = TRUE] \in Locals
         /\ \A n \in Counts : [a EXCEPT !.failures = n] \in Locals
BY DEF Locals

\* A poll that is answered resets the failures.
LEMMA ReachedTypes ==
  ASSUME TypeOK, NEW c \in Calls
  PROVE  Reached(c) \in Locals
<1>1. \A a \in Locals : [a EXCEPT !.created = TRUE, !.failures = 0,
                                  !.inbox_unavailable = FALSE] \in Locals
  BY CountTypes DEF Locals
<1> QED BY <1>1 DEF Reached, TypeOK

\* Closing a dialog keeps the dialog variables in their types.
LEMMA CloseTypes ==
  ASSUME TypeOK, NEW c \in Calls, NEW left \in {"none", "done"}, NEW tell \in BOOLEAN,
         CloseDialog(c, left, tell)
  PROVE  /\ dialog' \in [Calls -> {"none", "open", "done"}]
         /\ dialog_lock' \in BOOLEAN /\ screen' \in [Calls -> BOOLEAN]
BY DEF TypeOK, CloseDialog

\* The same for a close that happens only if the dialog is open.
LEMMA CloseIfOpenTypes ==
  ASSUME TypeOK, NEW c \in Calls, CloseIfOpen(c)
  PROVE  /\ dialog' \in [Calls -> {"none", "open", "done"}]
         /\ dialog_lock' \in BOOLEAN /\ screen' \in [Calls -> BOOLEAN]
         /\ response' \in [Calls -> Replies \cup {NoReply}]
<1>1. CASE dialog[c] = "open"
  BY <1>1, CloseTypes DEF CloseIfOpen, TypeOK
<1>2. CASE dialog[c] # "open"
  BY <1>2 DEF CloseIfOpen, TypeOK
<1> QED BY <1>1, <1>2

\* Putting a result on stdout keeps the types of what it counts and names.
LEMMA SentTypes ==
  ASSUME TypeOK, NEW c \in Calls
  PROVE  /\ [sent EXCEPT ![c] = @ + 1] \in [Calls -> Nat]
         /\ [ask EXCEPT ![c].finished = TRUE] \in [Calls -> Locals]
         /\ [ask EXCEPT ![c].payload = "error"] \in [Calls -> Locals]
<1>1. ask[c] \in Locals /\ ask \in [Calls -> Locals] /\ sent \in [Calls -> Nat]
  BY DEF TypeOK
<1>2. /\ [ask[c] EXCEPT !.finished = TRUE] \in Locals
      /\ [ask[c] EXCEPT !.payload = "error"] \in Locals
  BY <1>1, LocalTypes
<1> QED BY <1>1, <1>2

-----------------------------------------------------------------------------
(* Type correctness, one step per action.                                   *)

\* A step of a call's thread keeps every variable in its type.
LEMMA ThreadTypes ==
  ASSUME TypeOK, NEW c \in Calls, Thread(c)
  PROVE  TypeOK'
<1> USE DEF TypeOK, Goto, outerVars, dialogVars, inboxVars, threadVars, fixed
<1>r. /\ rec[c] \in Records /\ Created(rec[c]) \in Records
      /\ Answered(rec[c]) \in Records /\ Delivered(rec[c]) \in Records
      /\ Cancelled(rec[c]) \in Records /\ Asked(c) \in Records
  BY InboxTypes DEF Asked
<1>s. /\ [sent EXCEPT ![c] = @ + 1] \in [Calls -> Nat]
      /\ [ask EXCEPT ![c].payload = "error"] \in [Calls -> Locals]
  BY SentTypes
<1>a. Reached(c) \in Locals
  BY ReachedTypes
<1>1. CASE LoopEnds(c)             BY <1>1 DEF LoopEnds
<1>2. CASE LoopTurn(c)             BY <1>2 DEF LoopTurn, OpenDialog
<1>3. CASE NoReplyYet(c)           BY <1>3 DEF NoReplyYet
<1>4. CASE TakeReply(c)
  <2>1. /\ dialog' \in [Calls -> {"none", "open", "done"}]
        /\ dialog_lock' \in BOOLEAN /\ screen' \in [Calls -> BOOLEAN]
    BY <1>4, CloseTypes DEF TakeReply
  <2>2. ask' \in [Calls -> Locals]
    <3>1. /\ [ask[c] EXCEPT !.declined = TRUE] \in Locals
          /\ [ask[c] EXCEPT !.payload = "unavailable"] \in Locals
      BY LocalTypes
    <3> QED BY <1>4, <3>1 DEF TakeReply
  <2>3. pc' \in [Calls -> PCs]
    BY <1>4 DEF TakeReply
  <2> QED BY <1>4, <2>1, <2>2, <2>3 DEF TakeReply
<1>5. CASE PollPending(c)
  <2>1. rec' \in [Calls -> Records] /\ faulty' \in BOOLEAN
    BY <1>5, <1>r, PostTypes DEF PollPending
  <2> QED BY <1>5, <1>a, <2>1 DEF PollPending
<1>6. CASE PollAnswered(c)
  <2>1. rec' \in [Calls -> Records] /\ faulty' \in BOOLEAN
    BY <1>6, <1>r, PostTypes DEF PollAnswered
  <2>2. ask' \in [Calls -> Locals]
    <3>1. [Reached(c) EXCEPT !.payload = "inbox"] \in Locals
      BY <1>a, LocalTypes
    <3> QED BY <1>6, <1>a, <3>1 DEF PollAnswered
  <2>3. CASE cancel[c]
    BY <1>6, <2>1, <2>2, <2>3 DEF PollAnswered
  <2>4. CASE ~cancel[c]
    BY <1>6, <2>1, <2>2, <2>4, CloseIfOpenTypes DEF PollAnswered
  <2> QED BY <2>3, <2>4
<1>7. CASE PollClosed(c)
  <2>1. rec' \in [Calls -> Records] /\ faulty' \in BOOLEAN
    BY <1>7, <1>r, PostTypes DEF PollClosed
  <2> QED BY <1>7, <1>a, <2>1 DEF PollClosed
<1>8. CASE PollFailed(c)
  <2>1. rec' \in [Calls -> Records] /\ faulty' \in BOOLEAN
    BY <1>8, <1>r, PostTypes DEF PollFailed
  <2>2. ask' \in [Calls -> Locals]
    <3>1. PICK b \in BOOLEAN :
            ask' = [ask EXCEPT ![c].failures = OneMoreFailure(c),
                               ![c].inbox_unavailable =
                                 \/ ask[c].inbox_unavailable
                                 \/ ~ask[c].created /\ OneMoreFailure(c) >= FailureLimit
                                 \/ b]
      BY <1>8 DEF PollFailed
    <3>2. \A a \in Locals, n \in Counts, u \in BOOLEAN :
            [a EXCEPT !.failures = n, !.inbox_unavailable = u] \in Locals
      BY DEF Locals
    <3> QED BY <3>1, <3>2, CountTypes
  <2> QED BY <1>8, <2>1, <2>2 DEF PollFailed
<1>9. CASE Rejected(c)             BY <1>9 DEF Rejected
<1>10. CASE RecordCreate(c)
  <2>1. rec' \in [Calls -> Records] /\ faulty' \in BOOLEAN
    BY <1>10, <1>r, PostTypes DEF RecordCreate
  <2> QED BY <1>10, <2>1, LocalTypes DEF RecordCreate
<1>11. CASE RecordCreateSkipped(c) BY <1>11 DEF RecordCreateSkipped
<1>12. CASE RecordCreateFailed(c)
  <2>1. rec' \in [Calls -> Records] /\ faulty' \in BOOLEAN
    BY <1>12, <1>r, PostTypes DEF RecordCreateFailed
  <2>2. ask' \in [Calls -> Locals]
    <3>1. OneMoreFailure(c) \in Counts /\ FailureLimit \in Counts
      BY CountTypes
    <3>2. \A n \in Counts : [ask EXCEPT ![c].failures = n] \in [Calls -> Locals]
      BY LocalTypes
    <3>3. ASSUME NEW n \in Counts
          PROVE  [ask EXCEPT ![c].failures = n, ![c].payload = "unavailable"]
                   \in [Calls -> Locals]
      <4>1. [[ask[c] EXCEPT !.failures = n] EXCEPT !.payload = "unavailable"] \in Locals
        BY LocalTypes
      <4> QED BY <4>1
    <3>4. \/ ask' = [ask EXCEPT ![c].failures = FailureLimit, ![c].payload = "unavailable"]
          \/ ask' = [ask EXCEPT ![c].failures = OneMoreFailure(c)]
      BY <1>12 DEF RecordCreateFailed
    <3>5. [ask EXCEPT ![c].failures = FailureLimit, ![c].payload = "unavailable"]
            \in [Calls -> Locals]
      BY <3>1, <3>3
    <3>6. [ask EXCEPT ![c].failures = OneMoreFailure(c)] \in [Calls -> Locals]
      BY <3>1, <3>2
    <3> QED BY <3>4, <3>5, <3>6
  <2> QED BY <1>12, <2>1, <2>2 DEF RecordCreateFailed
<1>13. CASE RecordAnswer(c)
  <2>1. rec' \in [Calls -> Records] /\ faulty' \in BOOLEAN
    BY <1>13, <1>r, PostTypes DEF RecordAnswer
  <2>2. Verdict(Answered(rec[c])) \in Payloads \cup {NoPayload}
    BY DEF Verdict
  <2> QED BY <1>13, <2>1, <2>2, LocalTypes DEF RecordAnswer
<1>14. CASE RecordUnsupported(c)   BY <1>14 DEF RecordUnsupported
<1>15. CASE RecordCancel(c)
  <2>1. rec' \in [Calls -> Records] /\ faulty' \in BOOLEAN
    BY <1>15, <1>r, PostTypes DEF RecordCancel
  <2> QED BY <1>15, <2>1, LocalTypes DEF RecordCancel
<1>16. CASE RecordAnswerRetries(c)
  <2>1. rec' \in [Calls -> Records] /\ faulty' \in BOOLEAN
    BY <1>16, <1>r, PostTypes DEF RecordAnswerRetries, LostAnswer
  <2> QED BY <1>16, <2>1 DEF RecordAnswerRetries
<1>17. CASE RecordAnswerGivesUp(c)
  <2>1. rec' \in [Calls -> Records] /\ faulty' \in BOOLEAN
    BY <1>17, <1>r, PostTypes DEF RecordAnswerGivesUp, LostAnswer
  <2> QED BY <1>17, <2>1, LocalTypes DEF RecordAnswerGivesUp
<1>18. CASE Decide(c)              BY <1>18 DEF Decide
<1>19. CASE Send(c)
  <2>1. CASE broken                BY <1>19, <2>1 DEF Send
  <2>2. CASE ~broken
    <3>1. pc' \in [Calls -> PCs]
      BY <1>19, <2>2 DEF Send
    <3>2. /\ sent' = [sent EXCEPT ![c] = @ + 1]
          /\ ask' = [ask EXCEPT ![c].finished = TRUE]
      BY <1>19, <2>2 DEF Send
    <3>3. sent' \in [Calls -> Nat] /\ ask' \in [Calls -> Locals]
      BY <3>2, SentTypes
    <3> QED BY <1>19, <3>1, <3>3 DEF Send
  <2> QED BY <2>1, <2>2
<1>20. CASE Deliver(c)
  <2>1. rec' \in [Calls -> Records] /\ faulty' \in BOOLEAN
    BY <1>20, <1>r, PostTypes DEF Deliver
  <2> QED BY <1>20, <2>1 DEF Deliver
<1>21. CASE Except(c)              BY <1>21, CloseIfOpenTypes DEF Except
<1>22. CASE SendError(c)
  <2>1. pc' \in [Calls -> PCs]
    BY <1>22 DEF SendError
  <2>2. \/ UNCHANGED <<sent, ask>>
        \/ sent' = [sent EXCEPT ![c] = @ + 1] /\ ask' = [ask EXCEPT ![c].payload = "error"]
    BY <1>22 DEF SendError
  <2>3. sent' \in [Calls -> Nat] /\ ask' \in [Calls -> Locals]
    BY <1>s, <2>2
  <2>4. UNCHANGED <<outerVars, dialogVars, inboxVars>>
    BY <1>22 DEF SendError
  <2> QED BY <2>1, <2>3, <2>4
<1>23. CASE Finally(c)             BY <1>23, CloseIfOpenTypes DEF Finally
<1>24. CASE CancelPost(c)
  <2>1. rec' \in [Calls -> Records] /\ faulty' \in BOOLEAN
    BY <1>24, <1>r, PostTypes DEF CancelPost
  <2> QED BY <1>24, <2>1 DEF CancelPost
<1>25. CASE RejectCall(c)
  <2>1. pc' \in [Calls -> PCs]
    BY <1>25 DEF RejectCall
  <2>2. \/ UNCHANGED <<sent, ask>>
        \/ sent' = [sent EXCEPT ![c] = @ + 1] /\ ask' = [ask EXCEPT ![c].payload = "error"]
    BY <1>25 DEF RejectCall
  <2>3. sent' \in [Calls -> Nat] /\ ask' \in [Calls -> Locals]
    BY <1>s, <2>2
  <2>4. UNCHANGED <<outerVars, dialogVars, inboxVars>>
    BY <1>25 DEF RejectCall
  <2> QED BY <2>1, <2>3, <2>4
<1> QED
  BY <1>1, <1>2, <1>3, <1>4, <1>5, <1>6, <1>7, <1>8, <1>9, <1>10, <1>11, <1>12, <1>13,
     <1>14, <1>15, <1>16, <1>17, <1>18, <1>19, <1>20, <1>21, <1>22, <1>23, <1>24, <1>25
  DEF Thread

\* A step of the reader thread or of the surroundings keeps the types.
LEMMA OuterTypes ==
  ASSUME TypeOK,
         \/ Eof \/ BreakStdout
         \/ \E c \in Calls : \/ Call(c) \/ CancelCall(c) \/ LookUpReply(c) \/ StoreReply(c)
                             \/ DeadlinePasses(c) \/ InboxMoves(c)
                             \/ \E kind \in Replies : Reply(c, kind)
  PROVE  TypeOK'
<1> USE DEF TypeOK, Goto, outerVars, dialogVars, inboxVars, threadVars, fixed
<1>1. CASE Eof                     BY <1>1 DEF Eof
<1>2. CASE BreakStdout             BY <1>2 DEF BreakStdout
<1>3. ASSUME NEW c \in Calls, Call(c) PROVE TypeOK'
  BY <1>3 DEF Call
<1>4. ASSUME NEW c \in Calls, CancelCall(c) PROVE TypeOK'
  BY <1>4 DEF CancelCall
<1>5. ASSUME NEW c \in Calls, LookUpReply(c) PROVE TypeOK'
  BY <1>5 DEF LookUpReply
<1>9. ASSUME NEW c \in Calls, StoreReply(c) PROVE TypeOK'
  BY <1>9 DEF StoreReply
<1>6. ASSUME NEW c \in Calls, DeadlinePasses(c) PROVE TypeOK'
  BY <1>6 DEF DeadlinePasses
<1>7. ASSUME NEW c \in Calls, InboxMoves(c) PROVE TypeOK'
  <2>1. /\ [status |-> "answered", answer |-> "phone"] \in Records
        /\ [rec[c] EXCEPT !.status = "closed"] \in Records
    BY DEF Records
  <2> QED BY <1>7, <2>1 DEF InboxMoves
<1>8. ASSUME NEW c \in Calls, NEW kind \in Replies, Reply(c, kind) PROVE TypeOK'
  BY <1>8 DEF Reply
<1> QED BY <1>1, <1>2, <1>3, <1>4, <1>5, <1>6, <1>7, <1>8, <1>9

\* Every variable of the server keeps its type.
THEOREM TypeCorrect == QuestionsSpec => []TypeOK
<1>1. QuestionsInit => TypeOK
  <2>1. Fresh \in Locals
    BY CountTypes DEF Fresh, Locals
  <2>2. [status |-> "none", answer |-> "none"] \in Records
    BY DEF Records
  <2> SUFFICES ASSUME QuestionsInit PROVE TypeOK
    OBVIOUS
  <2>3. ask \in [Calls -> Locals] /\ rec \in [Calls -> Records]
    BY <2>1, <2>2 DEF QuestionsInit
  <2>4. eof \in BOOLEAN /\ broken \in BOOLEAN /\ elicitation \in BOOLEAN
        /\ old_inbox \in BOOLEAN /\ faulty \in BOOLEAN /\ dialog_lock \in BOOLEAN
    BY DEF QuestionsInit
  <2> QED BY <2>3, <2>4 DEF QuestionsInit, TypeOK
<1>2. TypeOK /\ [QuestionsNext]_questionVars => TypeOK'
  <2> SUFFICES ASSUME TypeOK, [QuestionsNext]_questionVars PROVE TypeOK'
    OBVIOUS
  <2>1. CASE UNCHANGED questionVars
    BY <2>1 DEF questionVars, TypeOK
  <2>2. ASSUME NEW c \in Calls, RefuseCall(c) PROVE TypeOK'
    BY <2>1, <2>2 DEF RefuseCall
  <2> QED BY <2>1, <2>2, ThreadTypes, OuterTypes DEF QuestionsNext
<1> QED BY <1>1, <1>2, PTL DEF QuestionsSpec

-----------------------------------------------------------------------------
(* One dialog at a time.                                                    *)

\* Where a dialog can be: a call has one open only inside its loop or on its
\* way out, and the operator's reply is in one place at a time, on screen, on
\* the wire, in the reader's hand or in the slot.
DialogPlace(c) ==
  /\ dialog[c] = "open" => pc[c] \in {"loop", "check", "poll", "except", "finally"}
  /\ dialog[c] = "none" => ~screen[c] /\ wire[c] = NoReply /\ response[c] = NoReply
  /\ screen[c] => wire[c] = NoReply /\ response[c] = NoReply
  /\ wire[c] # NoReply => response[c] = NoReply
  /\ found[c] # NoReply => /\ dialog[c] # "none" /\ ~screen[c]
                            /\ wire[c] = NoReply /\ response[c] = NoReply
  /\ screen[c] /\ ~broken => dialog[c] = "open"

DialogInv == LockMatchesDialogs /\ \A c \in Calls : DialogPlace(c)

\* Closing an open dialog frees the lock and leaves nothing on the screen.
LEMMA CloseKeepsDialogs ==
  ASSUME TypeOK, DialogInv, NEW c \in Calls, CloseIfOpen(c), UNCHANGED <<broken, wire, found>>,
         \A d \in Calls : dialog'[d] = "open" => pc'[d] = pc[d]
  PROVE  DialogInv'
BY DEF TypeOK, DialogInv, DialogPlace, LockMatchesDialogs, CloseIfOpen, CloseDialog

\* A step that only moves call c keeps the dialogs if c stays where a call may
\* have one open.
LEMMA MoveKeepsDialogs ==
  ASSUME TypeOK, DialogInv, NEW c \in Calls, UNCHANGED <<dialogVars, broken, wire, found>>,
         NEW p \in PCs, Goto(c, p),
         dialog[c] = "open" => p \in {"loop", "check", "poll", "except", "finally"}
  PROVE  DialogInv'
BY DEF TypeOK, DialogInv, DialogPlace, LockMatchesDialogs, Goto, dialogVars

\* A step of a call's thread keeps the dialogs in order.
LEMMA ThreadKeepsDialogs ==
  ASSUME TypeOK, DialogInv, NEW c \in Calls, Thread(c)
  PROVE  DialogInv'
<1> USE DEF outerVars
<1>d. /\ dialog[c] = "open" => pc[c] \in {"loop", "check", "poll", "except", "finally"}
      /\ pc[c] \in PCs
  BY DEF DialogInv, DialogPlace, TypeOK
<1>1. CASE LoopEnds(c)             BY <1>1, MoveKeepsDialogs DEF LoopEnds
<1>2. CASE LoopTurn(c)
  <2>1. CASE MayOpen(c) /\ ~broken
    BY <1>2, <2>1 DEF LoopTurn, OpenDialog, MayOpen, TypeOK, DialogInv, DialogPlace,
                     LockMatchesDialogs, Goto
  <2>2. CASE ~(MayOpen(c) /\ ~broken)
    BY <1>2, <2>2, MoveKeepsDialogs DEF LoopTurn, dialogVars
  <2> QED BY <2>1, <2>2
<1>3. CASE NoReplyYet(c)           BY <1>3, MoveKeepsDialogs DEF NoReplyYet
<1>4. CASE TakeReply(c)
  <2> USE DEF TypeOK, DialogInv, DialogPlace, LockMatchesDialogs, CloseDialog
  <2>1. /\ dialog' = [dialog EXCEPT ![c] = "none"] /\ dialog_lock' = FALSE
        /\ response' = [response EXCEPT ![c] = NoReply]
        /\ screen' = [screen EXCEPT ![c] = @ /\ ~(FALSE /\ response[c] = NoReply /\ ~broken)]
        /\ dialog[c] = "open" /\ response[c] # NoReply
        /\ UNCHANGED <<broken, wire, found>>
    BY <1>4 DEF TakeReply
  <2>2. ~screen[c] /\ wire[c] = NoReply /\ found[c] = NoReply
    BY <2>1
  <2>3. screen' = screen
    BY <2>1, <2>2
  <2>4. \A d \in Calls : d # c => pc'[d] = pc[d]
    BY <1>4 DEF TakeReply, Goto
  <2> QED BY <2>1, <2>2, <2>3, <2>4
<1>5. CASE PollPending(c)          BY <1>5, MoveKeepsDialogs DEF PollPending
<1>6. CASE PollAnswered(c)
  <2>1. CASE cancel[c]
    BY <1>6, <2>1, MoveKeepsDialogs DEF PollAnswered
  <2>2. CASE ~cancel[c]
    BY <1>6, <2>2, CloseKeepsDialogs DEF PollAnswered, Goto, TypeOK, CloseIfOpen,
                                        CloseDialog
  <2> QED BY <2>1, <2>2
<1>7. CASE PollClosed(c)           BY <1>7, MoveKeepsDialogs DEF PollClosed
<1>8. CASE PollFailed(c)           BY <1>8, MoveKeepsDialogs DEF PollFailed
<1>9. CASE Rejected(c)             BY <1>9, MoveKeepsDialogs DEF Rejected
<1>10. CASE RecordCreate(c)        BY <1>10, <1>d, MoveKeepsDialogs DEF RecordCreate
<1>11. CASE RecordCreateSkipped(c)
  BY <1>11, <1>d, MoveKeepsDialogs DEF RecordCreateSkipped
<1>12. CASE RecordCreateFailed(c)
  <2>1. CASE Goto(c, "decide")
    BY <1>12, <1>d, <2>1, MoveKeepsDialogs DEF RecordCreateFailed
  <2>2. CASE UNCHANGED pc
    BY <1>12, <2>2 DEF RecordCreateFailed, dialogVars, DialogInv, DialogPlace,
                      LockMatchesDialogs
  <2> QED BY <1>12, <2>1, <2>2 DEF RecordCreateFailed
<1>13. CASE RecordAnswer(c)        BY <1>13, <1>d, MoveKeepsDialogs DEF RecordAnswer
<1>14. CASE RecordUnsupported(c)   BY <1>14, <1>d, MoveKeepsDialogs DEF RecordUnsupported
<1>15. CASE RecordCancel(c)        BY <1>15, <1>d, MoveKeepsDialogs DEF RecordCancel
<1>16. CASE RecordAnswerRetries(c)
  BY <1>16, <1>d DEF RecordAnswerRetries, threadVars, dialogVars, DialogInv, DialogPlace,
                    LockMatchesDialogs
<1>17. CASE RecordAnswerGivesUp(c)
  BY <1>17, <1>d, MoveKeepsDialogs DEF RecordAnswerGivesUp
<1>18. CASE Decide(c)              BY <1>18, <1>d, MoveKeepsDialogs DEF Decide
<1>19. CASE Send(c)                BY <1>19, <1>d, MoveKeepsDialogs DEF Send
<1>20. CASE Deliver(c)             BY <1>20, <1>d, MoveKeepsDialogs DEF Deliver
<1>21. CASE Except(c)
  BY <1>21, CloseKeepsDialogs DEF Except, Goto, TypeOK, CloseIfOpen, CloseDialog
<1>22. CASE SendError(c)           BY <1>22, <1>d, MoveKeepsDialogs DEF SendError
<1>23. CASE Finally(c)
  BY <1>23, CloseKeepsDialogs DEF Finally, Goto, TypeOK, CloseIfOpen, CloseDialog
<1>24. CASE CancelPost(c)          BY <1>24, <1>d, MoveKeepsDialogs DEF CancelPost
<1>25. CASE RejectCall(c)          BY <1>25, <1>d, MoveKeepsDialogs DEF RejectCall
<1> QED
  BY <1>1, <1>2, <1>3, <1>4, <1>5, <1>6, <1>7, <1>8, <1>9, <1>10, <1>11, <1>12, <1>13,
     <1>14, <1>15, <1>16, <1>17, <1>18, <1>19, <1>20, <1>21, <1>22, <1>23, <1>24, <1>25
  DEF Thread

\* So does every other step.
LEMMA OuterKeepsDialogs ==
  ASSUME TypeOK, DialogInv,
         \/ Eof \/ BreakStdout
         \/ \E c \in Calls : \/ Call(c) \/ CancelCall(c) \/ LookUpReply(c) \/ StoreReply(c)
                             \/ DeadlinePasses(c) \/ InboxMoves(c)
                             \/ \E kind \in Replies : Reply(c, kind)
  PROVE  DialogInv'
<1> USE DEF TypeOK, DialogInv, DialogPlace, LockMatchesDialogs, dialogVars, threadVars,
            outerVars
<1>1. CASE Eof                     BY <1>1 DEF Eof
<1>2. CASE BreakStdout             BY <1>2 DEF BreakStdout
<1>3. ASSUME NEW c \in Calls, Call(c) PROVE DialogInv'
  BY <1>3 DEF Call, Goto
<1>4. ASSUME NEW c \in Calls, CancelCall(c) PROVE DialogInv'
  BY <1>4 DEF CancelCall
<1>5. ASSUME NEW c \in Calls, LookUpReply(c) PROVE DialogInv'
  BY <1>5 DEF LookUpReply
<1>9. ASSUME NEW c \in Calls, StoreReply(c) PROVE DialogInv'
  BY <1>9 DEF StoreReply
<1>6. ASSUME NEW c \in Calls, DeadlinePasses(c) PROVE DialogInv'
  BY <1>6 DEF DeadlinePasses
<1>7. ASSUME NEW c \in Calls, InboxMoves(c) PROVE DialogInv'
  BY <1>7 DEF InboxMoves
<1>8. ASSUME NEW c \in Calls, NEW kind \in Replies, Reply(c, kind) PROVE DialogInv'
  BY <1>8 DEF Reply
<1> QED BY <1>1, <1>2, <1>3, <1>4, <1>5, <1>6, <1>7, <1>8, <1>9

\* The dialogs are always in order.
THEOREM DialogsInOrder == QuestionsSpec => []DialogInv
<1>1. QuestionsInit => DialogInv
  BY DEF QuestionsInit, DialogInv, DialogPlace, LockMatchesDialogs
<1>2. TypeOK /\ DialogInv /\ [QuestionsNext]_questionVars => DialogInv'
  <2> SUFFICES ASSUME TypeOK, DialogInv, [QuestionsNext]_questionVars PROVE DialogInv'
    OBVIOUS
  <2>1. CASE UNCHANGED questionVars
    BY <2>1 DEF questionVars, DialogInv, DialogPlace, LockMatchesDialogs
  <2>2. ASSUME NEW c \in Calls, RefuseCall(c) PROVE DialogInv'
    BY <2>1, <2>2 DEF RefuseCall
  <2> QED BY <2>1, <2>2, ThreadKeepsDialogs, OuterKeepsDialogs DEF QuestionsNext
<1> QED BY <1>1, <1>2, TypeCorrect, PTL DEF QuestionsSpec

\* The dialog lock is held exactly while one call has an open dialog.
THEOREM LockIsSafe == QuestionsSpec => []LockMatchesDialogs
BY DialogsInOrder, PTL DEF DialogInv

\* While stdout works, at most one dialog shows, and of a pending call.
THEOREM OneDialogShown == QuestionsSpec => []OneLiveDialogShown
<1>1. TypeOK /\ DialogInv => OneLiveDialogShown
  BY DEF DialogInv, DialogPlace, LockMatchesDialogs, OneLiveDialogShown, active
<1> QED BY <1>1, TypeCorrect, DialogsInOrder, PTL

-----------------------------------------------------------------------------
(* One result per call, and the one the inbox keeps.                        *)

\* Before these places nothing was sent, and at "except" only what `finished`
\* remembers.
Silent == {"idle", "loop", "check", "poll", "recCreate", "recAnswer", "recCancel",
           "decide", "send", "error", "reject"}

ResultOnce(c) ==
  /\ sent[c] <= 1
  /\ pc[c] \in Silent => sent[c] = 0
  /\ pc[c] = "except" /\ ~ask[c].finished => sent[c] = 0
  /\ pc[c] = "deliver" => ask[c].finished /\ sent[c] = 1

\* What a call is about to return is what its record says: a terminal answer
\* was recorded, and only a call that returned the phone's answer marks it
\* delivered.
ResultAgrees(c) ==
  /\ ask[c].payload = "terminal" => rec[c] = [status |-> "delivered", answer |-> "terminal"]
  /\ ask[c].payload \in FromInbox => /\ rec[c].answer = "phone"
                                     /\ rec[c].status \in {"answered", "delivered"}
  /\ rec[c].status = "answered" => rec[c].answer = "phone"
  /\ rec[c].status = "delivered" => \/ rec[c].answer = "terminal"
                                    \/ rec[c].answer = "phone" /\ sent[c] = 1

ResultInv == \A c \in Calls : ResultOnce(c) /\ ResultAgrees(c)

\* A step that changes call c alone keeps the results in order if c stays so.
LEMMA OneCallSuffices ==
  ASSUME TypeOK, TypeOK', ResultInv, NEW c \in Calls,
         \A d \in Calls \ {c} : /\ pc'[d] = pc[d] /\ sent'[d] = sent[d]
                               /\ ask'[d] = ask[d] /\ rec'[d] = rec[d],
         ResultOnce(c)', ResultAgrees(c)'
  PROVE  ResultInv'
BY DEF ResultInv, ResultOnce, ResultAgrees

\* A step of a call's thread touches nothing of another call that matters here.
LEMMA OthersUntouched ==
  ASSUME TypeOK, NEW c \in Calls, Thread(c)
  PROVE  \A d \in Calls \ {c} : /\ pc'[d] = pc[d] /\ sent'[d] = sent[d]
                                /\ ask'[d] = ask[d] /\ rec'[d] = rec[d]
<1> USE DEF Goto, Serve, Fail, FailOrRefuse, threadVars, inboxVars
<1>t. /\ pc \in [Calls -> PCs] /\ sent \in [Calls -> Nat]
      /\ ask \in [Calls -> Locals] /\ rec \in [Calls -> Records]
  BY DEF TypeOK
<1>1. CASE LoopEnds(c) \/ LoopTurn(c) \/ NoReplyYet(c) \/ TakeReply(c)
  BY <1>1, <1>t DEF LoopEnds, LoopTurn, NoReplyYet, TakeReply
<1>2. CASE PollPending(c) \/ PollAnswered(c) \/ PollClosed(c) \/ Rejected(c)
  BY <1>2, <1>t DEF PollPending, PollAnswered, PollClosed, Rejected
<1>3. CASE PollFailed(c)
  BY <1>3, <1>t DEF PollFailed
<1>4. CASE RecordCreate(c) \/ RecordCreateSkipped(c)
  BY <1>4, <1>t DEF RecordCreate, RecordCreateSkipped
<1>5. CASE RecordCreateFailed(c)
  BY <1>5, <1>t DEF RecordCreateFailed
<1>6. CASE RecordAnswer(c) \/ RecordUnsupported(c) \/ RecordCancel(c)
  BY <1>6, <1>t DEF RecordAnswer, RecordUnsupported, RecordCancel
<1>7. CASE RecordAnswerRetries(c) \/ RecordAnswerGivesUp(c)
  BY <1>7, <1>t DEF RecordAnswerRetries, RecordAnswerGivesUp, LostAnswer
<1>8. CASE Decide(c) \/ Send(c) \/ Deliver(c) \/ Except(c) \/ SendError(c)
  BY <1>8, <1>t DEF Decide, Send, Deliver, Except, SendError
<1>9. CASE Finally(c) \/ CancelPost(c) \/ RejectCall(c)
  BY <1>9, <1>t DEF Finally, CancelPost, RejectCall
<1> QED
  BY <1>1, <1>2, <1>3, <1>4, <1>5, <1>6, <1>7, <1>8, <1>9 DEF Thread

\* A step of a call's thread keeps that call's result in order.
LEMMA ThreadKeepsResults ==
  ASSUME TypeOK, TypeOK', ResultInv, NEW c \in Calls, Thread(c)
  PROVE  ResultInv'
<1> SUFFICES ResultOnce(c)' /\ ResultAgrees(c)'
  BY OthersUntouched, OneCallSuffices
<1> USE DEF ResultOnce, ResultAgrees, Silent, Goto, Serve, Fail, FailOrRefuse, inboxVars, threadVars
<1>t. /\ pc[c] \in PCs /\ sent[c] \in Nat /\ ask[c] \in Locals /\ rec[c] \in Records
      /\ pc \in [Calls -> PCs] /\ sent \in [Calls -> Nat]
      /\ ask \in [Calls -> Locals] /\ rec \in [Calls -> Records]
  BY DEF TypeOK
<1>i. ResultOnce(c) /\ ResultAgrees(c)
  BY DEF ResultInv
<1>1. CASE LoopEnds(c)         BY <1>1, <1>t, <1>i DEF LoopEnds
<1>2. CASE LoopTurn(c)         BY <1>2, <1>t, <1>i DEF LoopTurn
<1>3. CASE NoReplyYet(c)       BY <1>3, <1>t, <1>i DEF NoReplyYet
<1>4. CASE TakeReply(c)        BY <1>4, <1>t, <1>i DEF TakeReply, Locals
<1>5. CASE PollPending(c)
  BY <1>5, <1>t, <1>i DEF PollPending, Asked, Created, Reached, Records, Locals
<1>6. CASE PollAnswered(c)
  <2>1. Asked(c) = rec[c] /\ rec[c].status = "answered" /\ rec[c].answer = "phone"
    BY <1>6, <1>t, <1>i DEF PollAnswered, Asked, Created, Records
  <2>2. rec'[c] = rec[c] /\ sent' = sent /\ sent[c] = 0 /\ pc'[c] \in {"finally", "send"}
    BY <1>6, <1>t, <1>i, <2>1 DEF PollAnswered
  <2>3. ask'[c].payload = ask[c].payload \/ ask'[c].payload = "inbox"
    <3>1. Reached(c).payload = ask[c].payload /\ Reached(c) \in Locals
      BY <1>t, ReachedTypes DEF Reached, Locals
    <3>2. [Reached(c) EXCEPT !.payload = "inbox"].payload = "inbox"
      BY <3>1 DEF Locals
    <3> QED BY <1>6, <1>t, <3>1, <3>2 DEF PollAnswered
  <2> QED BY <1>i, <2>1, <2>2, <2>3
<1>7. CASE PollClosed(c)
  BY <1>7, <1>t, <1>i DEF PollClosed, Asked, Created, Reached, Records, Locals
<1>8. CASE PollFailed(c)
  BY <1>8, <1>t, <1>i DEF PollFailed, Asked, Created, Records, Locals
<1>9. CASE Rejected(c)         BY <1>9, <1>t, <1>i DEF Rejected
<1>10. CASE RecordCreate(c)
  BY <1>10, <1>t, <1>i DEF RecordCreate, Created, Records, Locals
<1>11. CASE RecordCreateSkipped(c) BY <1>11, <1>t, <1>i DEF RecordCreateSkipped
<1>12. CASE RecordCreateFailed(c)
  BY <1>12, <1>t, <1>i DEF RecordCreateFailed, Created, Records, Locals
<1>13. CASE RecordAnswer(c)
  BY <1>13, <1>t, <1>i DEF RecordAnswer, Answered, Verdict, Records, Locals
<1>14. CASE RecordUnsupported(c) BY <1>14, <1>t, <1>i DEF RecordUnsupported
<1>15. CASE RecordCancel(c)
  BY <1>15, <1>t, <1>i DEF RecordCancel, Cancelled, Records, Locals
<1>16. CASE RecordAnswerRetries(c)
  BY <1>16, <1>t, <1>i DEF RecordAnswerRetries, LostAnswer, Answered, Records
<1>17. CASE RecordAnswerGivesUp(c)
  BY <1>17, <1>t, <1>i DEF RecordAnswerGivesUp, LostAnswer, Answered, Records, Locals
<1>18. CASE Decide(c)          BY <1>18, <1>t, <1>i DEF Decide
<1>19. CASE Send(c)            BY <1>19, <1>t, <1>i DEF Send, Locals
<1>20. CASE Deliver(c)         BY <1>20, <1>t, <1>i DEF Deliver, Delivered, Records
<1>21. CASE Except(c)          BY <1>21, <1>t, <1>i DEF Except
<1>22. CASE SendError(c)       BY <1>22, <1>t, <1>i DEF SendError, Locals
<1>23. CASE Finally(c)         BY <1>23, <1>t, <1>i DEF Finally
<1>24. CASE CancelPost(c)      BY <1>24, <1>t, <1>i DEF CancelPost, Cancelled, Records
<1>25. CASE RejectCall(c)      BY <1>25, <1>t, <1>i DEF RejectCall, Locals
<1> QED
  BY <1>1, <1>2, <1>3, <1>4, <1>5, <1>6, <1>7, <1>8, <1>9, <1>10, <1>11, <1>12, <1>13,
     <1>14, <1>15, <1>16, <1>17, <1>18, <1>19, <1>20, <1>21, <1>22, <1>23, <1>24, <1>25
  DEF Thread

\* So does every other step.
LEMMA OuterKeepsResults ==
  ASSUME TypeOK, ResultInv,
         \/ Eof \/ BreakStdout
         \/ \E c \in Calls : \/ Call(c) \/ CancelCall(c) \/ LookUpReply(c) \/ StoreReply(c)
                             \/ DeadlinePasses(c) \/ InboxMoves(c)
                             \/ \E kind \in Replies : Reply(c, kind)
  PROVE  ResultInv'
<1> USE DEF TypeOK, ResultInv, ResultOnce, ResultAgrees, Silent, inboxVars, threadVars
<1>1. CASE Eof                     BY <1>1 DEF Eof
<1>2. CASE BreakStdout             BY <1>2 DEF BreakStdout
<1>3. ASSUME NEW c \in Calls, Call(c) PROVE ResultInv'
  BY <1>3 DEF Call, Goto
<1>4. ASSUME NEW c \in Calls, CancelCall(c) PROVE ResultInv'
  BY <1>4 DEF CancelCall
<1>5. ASSUME NEW c \in Calls, LookUpReply(c) PROVE ResultInv'
  BY <1>5 DEF LookUpReply
<1>9. ASSUME NEW c \in Calls, StoreReply(c) PROVE ResultInv'
  BY <1>9 DEF StoreReply
<1>6. ASSUME NEW c \in Calls, DeadlinePasses(c) PROVE ResultInv'
  BY <1>6 DEF DeadlinePasses
<1>7. ASSUME NEW c \in Calls, InboxMoves(c) PROVE ResultInv'
  <2>1. \A d \in Calls \ {c} : rec'[d] = rec[d]
    BY <1>7 DEF InboxMoves
  <2>2. \/ rec'[c] = [status |-> "answered", answer |-> "phone"]
        \/ rec'[c] = [rec[c] EXCEPT !.status = "closed"]
    BY <1>7 DEF InboxMoves
  <2>3. rec[c] \in Records /\ rec[c].status = "pending"
    BY <1>7 DEF InboxMoves
  <2>4. ask[c].payload # "terminal" /\ ask[c].payload \notin FromInbox
    BY <2>3
  <2>5. rec'[c].status \in {"answered", "closed"}
        /\ (rec'[c].status = "answered" => rec'[c].answer = "phone")
    BY <2>2, <2>3 DEF Records
  <2> QED BY <1>7, <2>1, <2>4, <2>5 DEF InboxMoves
<1>8. ASSUME NEW c \in Calls, NEW kind \in Replies, Reply(c, kind) PROVE ResultInv'
  BY <1>8 DEF Reply
<1> QED BY <1>1, <1>2, <1>3, <1>4, <1>5, <1>6, <1>7, <1>8, <1>9

\* Results and records always agree.
THEOREM ResultsInOrder == QuestionsSpec => []ResultInv
<1>1. QuestionsInit => ResultInv
  BY DEF QuestionsInit, ResultInv, ResultOnce, ResultAgrees, Silent, Fresh
<1>2. TypeOK /\ TypeOK' /\ ResultInv /\ [QuestionsNext]_questionVars => ResultInv'
  <2> SUFFICES ASSUME TypeOK, TypeOK', ResultInv, [QuestionsNext]_questionVars PROVE ResultInv'
    OBVIOUS
  <2>1. CASE UNCHANGED questionVars
    BY <2>1 DEF questionVars, ResultInv, ResultOnce, ResultAgrees
  <2>2. ASSUME NEW c \in Calls, RefuseCall(c) PROVE ResultInv'
    BY <2>1, <2>2 DEF RefuseCall
  <2> QED BY <2>1, <2>2, ThreadKeepsResults, OuterKeepsResults DEF QuestionsNext
<1> QED BY <1>1, <1>2, TypeCorrect, PTL DEF QuestionsSpec

\* A call puts at most one result on stdout.
THEOREM OneResult == QuestionsSpec => []AtMostOneResult
<1>1. ResultInv => AtMostOneResult
  BY DEF ResultInv, ResultOnce, AtMostOneResult
<1> QED BY <1>1, ResultsInOrder, PTL

\* A result is the answer the inbox keeps.
THEOREM ResultIsRecorded == QuestionsSpec => []AnswerIsTheRecordedOne
<1>1. ResultInv => AnswerIsTheRecordedOne
  BY DEF ResultInv, ResultAgrees, AnswerIsTheRecordedOne
<1> QED BY <1>1, ResultsInOrder, PTL
-----------------------------------------------------------------------------
(* What a call leaves on the phone, and what its note says of the inbox.    *)

\* The places after the operator's words were posted, or the loop was left.
Leaving == {"decide", "send", "deliver", "except", "error", "finally", "cancelPost", "ended"}

\* A note of the inbox has its cause: "unavailable" a failed post; and while no
\* post failed, words the inbox has refused are not in its record.
NoteHasCause(c) ==
  /\ ask[c].inbox_unavailable \/ ask[c].payload = "unavailable" => faulty
  /\ pc[c] \in {"loop", "check", "poll", "recCreate", "recAnswer", "recCancel"} =>
       faulty \/ rec[c].answer # "terminal"
  /\ ask[c].payload = "unsupported" =>
       pc[c] \in Leaving /\ (faulty \/ rec[c].answer # "terminal")

\* A question stands on the phone only as long as its call can still answer or
\* cancel it, unless a post failed.
PushHasCall(c) ==
  /\ pc[c] \in {"idle", "reject"} => rec[c].status = "none"
  /\ rec[c].status \in {"none", "pending"} => rec[c].answer = "none"
  /\ pc[c] \in {"decide", "send"} => ask[c].payload \notin {NoPayload, "error"}
  /\ ask[c].finished => pc[c] \in {"deliver", "except", "finally", "ended"}
  /\ pc[c] = "ended" \/ ask[c].finished \/ ask[c].payload = "unsupported" =>
       faulty \/ rec[c].status # "pending"
  /\ sent[c] > 0 /\ ask[c].payload \in FromInbox /\ pc[c] # "deliver" =>
       faulty \/ rec[c].status = "delivered"

PhoneInv == \A c \in Calls : NoteHasCause(c) /\ PushHasCall(c)

\* A step that changes call c alone keeps the phone in order if c stays so.
LEMMA OnePhoneSuffices ==
  ASSUME TypeOK, TypeOK', PhoneInv, NEW c \in Calls, faulty => faulty', UNCHANGED <<old_inbox, cancel>>,
         \A d \in Calls \ {c} : /\ pc'[d] = pc[d] /\ sent'[d] = sent[d]
                               /\ ask'[d] = ask[d] /\ rec'[d] = rec[d],
         NoteHasCause(c)', PushHasCall(c)'
  PROVE  PhoneInv'
BY DEF PhoneInv, NoteHasCause, PushHasCall

\* A failed post is remembered, and a call's thread is not what cancels it.
LEMMA ThreadRemembers ==
  ASSUME TypeOK, NEW c \in Calls, Thread(c)
  PROVE  (faulty => faulty') /\ UNCHANGED <<old_inbox, cancel>>
BY DEF TypeOK, Thread, Serve, Fail, FailOrRefuse, LostAnswer, inboxVars, outerVars, fixed,
       LoopEnds, LoopTurn, NoReplyYet, TakeReply, PollPending, PollAnswered, PollClosed,
       PollFailed, Rejected, RecordCreate, RecordCreateSkipped, RecordCreateFailed,
       RecordAnswer, RecordUnsupported, RecordCancel, RecordAnswerRetries,
       RecordAnswerGivesUp, Decide, Send, Deliver, Except, SendError, Finally, CancelPost,
       RejectCall

\* A step of a call's thread keeps that call's note and record in order.
LEMMA ThreadKeepsPhone ==
  ASSUME TypeOK, TypeOK', ResultInv, PhoneInv, NEW c \in Calls, Thread(c)
  PROVE  PhoneInv'
<1> SUFFICES NoteHasCause(c)' /\ PushHasCall(c)'
  BY OthersUntouched, ThreadRemembers, OnePhoneSuffices
<1> USE DEF NoteHasCause, PushHasCall, Leaving, Goto, Serve, Fail, FailOrRefuse, inboxVars, threadVars, outerVars, fixed
<1>t. /\ pc[c] \in PCs /\ sent[c] \in Nat /\ ask[c] \in Locals /\ rec[c] \in Records
      /\ pc \in [Calls -> PCs] /\ sent \in [Calls -> Nat]
      /\ ask \in [Calls -> Locals] /\ rec \in [Calls -> Records]
  BY DEF TypeOK
<1>r. /\ sent[c] <= 1 /\ (pc[c] \in Silent => sent[c] = 0)
      /\ pc[c] = "except" /\ ~ask[c].finished => sent[c] = 0
      /\ ask[c].payload = "terminal" => rec[c].status = "delivered"
      /\ ask[c].payload \in FromInbox => rec[c].status \in {"answered", "delivered"}
  BY DEF ResultInv, ResultOnce, ResultAgrees
<1>i. NoteHasCause(c) /\ PushHasCall(c)
  BY DEF PhoneInv
<1> USE DEF Silent
<1>1. CASE LoopEnds(c)         BY <1>1, <1>t, <1>r, <1>i DEF LoopEnds
<1>2. CASE LoopTurn(c)         BY <1>2, <1>t, <1>r, <1>i DEF LoopTurn
<1>3. CASE NoReplyYet(c)       BY <1>3, <1>t, <1>r, <1>i DEF NoReplyYet
<1>4. CASE TakeReply(c)        BY <1>4, <1>t, <1>r, <1>i DEF TakeReply, Locals
<1>5. CASE PollPending(c)
  BY <1>5, <1>t, <1>r, <1>i DEF PollPending, Asked, Created, Reached, Records, Locals
<1>6. CASE PollAnswered(c)
  <2>1. Asked(c) = rec[c] /\ rec[c].status = "answered" /\ rec'[c] = rec[c]
    BY <1>6, <1>t DEF PollAnswered, Asked, Created, Records
  <2>2. sent' = sent /\ sent[c] = 0 /\ ~ask[c].finished /\ ask[c].payload # "unsupported"
    BY <1>6, <1>r, <1>i DEF PollAnswered
  <2>3. \/ pc'[c] = "finally" /\ ask'[c] = Reached(c)
        \/ pc'[c] = "send" /\ ask'[c] = [Reached(c) EXCEPT !.payload = "inbox"]
    BY <1>6, <1>t DEF PollAnswered
  <2>4. /\ Reached(c) \in Locals /\ Reached(c).payload = ask[c].payload
        /\ ~Reached(c).inbox_unavailable /\ Reached(c).finished = ask[c].finished
    BY <1>t, ReachedTypes DEF Reached, Locals
  <2>5. /\ ~ask'[c].inbox_unavailable /\ ~ask'[c].finished
        /\ ask'[c].payload = ask[c].payload \/ ask'[c].payload = "inbox"
        /\ pc'[c] = "send" => ask'[c].payload = "inbox"
    BY <2>2, <2>3, <2>4 DEF Locals
  <2>6. faulty' = faulty
    BY <1>6 DEF PollAnswered
  <2> QED BY <1>i, <2>1, <2>2, <2>3, <2>5, <2>6
<1>7. CASE PollClosed(c)
  BY <1>7, <1>t, <1>r, <1>i DEF PollClosed, Asked, Created, Reached, Records, Locals
<1>8. CASE PollFailed(c)
  BY <1>8, <1>t, <1>r, <1>i DEF PollFailed, Asked, Created, Records, Locals
<1>9. CASE Rejected(c)         BY <1>9, <1>t, <1>r, <1>i DEF Rejected
<1>10. CASE RecordCreate(c)
  BY <1>10, <1>t, <1>r, <1>i DEF RecordCreate, Created, Records, Locals
<1>11. CASE RecordCreateSkipped(c) BY <1>11, <1>t, <1>r, <1>i DEF RecordCreateSkipped
<1>12. CASE RecordCreateFailed(c)
  BY <1>12, <1>t, <1>r, <1>i DEF RecordCreateFailed, Created, Records, Locals
<1>13. CASE RecordAnswer(c)
  BY <1>13, <1>t, <1>r, <1>i DEF RecordAnswer, Answered, Verdict, Records, Locals
<1>14. CASE RecordUnsupported(c) BY <1>14, <1>t, <1>r, <1>i DEF RecordUnsupported
<1>15. CASE RecordCancel(c)
  BY <1>15, <1>t, <1>r, <1>i DEF RecordCancel, Cancelled, Records, Locals
<1>16. CASE RecordAnswerRetries(c)
  BY <1>16, <1>t, <1>r, <1>i DEF RecordAnswerRetries, LostAnswer, Answered, Records
<1>17. CASE RecordAnswerGivesUp(c)
  BY <1>17, <1>t, <1>r, <1>i DEF RecordAnswerGivesUp, LostAnswer, Answered, Records, Locals
<1>18. CASE Decide(c)          BY <1>18, <1>t, <1>r, <1>i DEF Decide
<1>19. CASE Send(c)            BY <1>19, <1>t, <1>r, <1>i DEF Send, Locals
<1>20. CASE Deliver(c)         BY <1>20, <1>t, <1>r, <1>i DEF Deliver, Delivered, Records
<1>21. CASE Except(c)          BY <1>21, <1>t, <1>r, <1>i DEF Except
<1>22. CASE SendError(c)       BY <1>22, <1>t, <1>r, <1>i, SMTT(20) DEF SendError, Locals
<1>23. CASE Finally(c)         BY <1>23, <1>t, <1>r, <1>i DEF Finally
<1>24. CASE CancelPost(c)      BY <1>24, <1>t, <1>r, <1>i DEF CancelPost, Cancelled, Records
<1>25. CASE RejectCall(c)      BY <1>25, <1>t, <1>r, <1>i DEF RejectCall, Locals
<1> QED
  BY <1>1, <1>2, <1>3, <1>4, <1>5, <1>6, <1>7, <1>8, <1>9, <1>10, <1>11, <1>12, <1>13,
     <1>14, <1>15, <1>16, <1>17, <1>18, <1>19, <1>20, <1>21, <1>22, <1>23, <1>24, <1>25
  DEF Thread

\* So does every other step.
LEMMA OuterKeepsPhone ==
  ASSUME TypeOK, ResultInv, PhoneInv,
         \/ Eof \/ BreakStdout
         \/ \E c \in Calls : \/ Call(c) \/ CancelCall(c) \/ LookUpReply(c) \/ StoreReply(c)
                             \/ DeadlinePasses(c) \/ InboxMoves(c)
                             \/ \E kind \in Replies : Reply(c, kind)
  PROVE  PhoneInv'
<1> USE DEF TypeOK, PhoneInv, NoteHasCause, PushHasCall, Leaving, inboxVars, threadVars, fixed, outerVars
<1>1. CASE Eof                     BY <1>1 DEF Eof
<1>2. CASE BreakStdout             BY <1>2 DEF BreakStdout
<1>3. ASSUME NEW c \in Calls, Call(c) PROVE PhoneInv'
  BY <1>3 DEF Call, Goto
<1>4. ASSUME NEW c \in Calls, CancelCall(c) PROVE PhoneInv'
  BY <1>4 DEF CancelCall
<1>5. ASSUME NEW c \in Calls, LookUpReply(c) PROVE PhoneInv'
  BY <1>5 DEF LookUpReply
<1>9. ASSUME NEW c \in Calls, StoreReply(c) PROVE PhoneInv'
  BY <1>9 DEF StoreReply
<1>6. ASSUME NEW c \in Calls, DeadlinePasses(c) PROVE PhoneInv'
  BY <1>6 DEF DeadlinePasses
<1>7. ASSUME NEW c \in Calls, InboxMoves(c) PROVE PhoneInv'
  <2>1. \A d \in Calls \ {c} : rec'[d] = rec[d]
    BY <1>7 DEF InboxMoves
  <2>2. \/ rec'[c] = [status |-> "answered", answer |-> "phone"]
        \/ rec'[c] = [rec[c] EXCEPT !.status = "closed"]
    BY <1>7 DEF InboxMoves
  <2>3. rec[c] \in Records /\ rec[c].status = "pending"
    BY <1>7 DEF InboxMoves
  <2>4. ask[c].payload \notin FromInbox
    BY <2>3 DEF ResultInv, ResultAgrees
  <2>5. rec'[c].status \in {"answered", "closed"} /\ rec'[c].answer # "terminal"
    BY <2>2, <2>3 DEF Records
  <2> QED BY <1>7, <2>1, <2>3, <2>4, <2>5 DEF InboxMoves
<1>8. ASSUME NEW c \in Calls, NEW kind \in Replies, Reply(c, kind) PROVE PhoneInv'
  BY <1>8 DEF Reply
<1> QED BY <1>1, <1>2, <1>3, <1>4, <1>5, <1>6, <1>7, <1>8, <1>9

\* Notes and records are always in order.
THEOREM PhoneInOrder == QuestionsSpec => []PhoneInv
<1>1. QuestionsInit => PhoneInv
  BY DEF QuestionsInit, PhoneInv, NoteHasCause, PushHasCall, Leaving, Fresh
<1>2. TypeOK /\ TypeOK' /\ ResultInv /\ PhoneInv /\ [QuestionsNext]_questionVars => PhoneInv'
  <2> SUFFICES ASSUME TypeOK, TypeOK', ResultInv, PhoneInv, [QuestionsNext]_questionVars PROVE PhoneInv'
    OBVIOUS
  <2>1. CASE UNCHANGED questionVars
    BY <2>1 DEF questionVars, PhoneInv, NoteHasCause, PushHasCall
  <2>2. ASSUME NEW c \in Calls, RefuseCall(c) PROVE PhoneInv'
    BY <2>1, <2>2 DEF RefuseCall
  <2> QED BY <2>1, <2>2, ThreadKeepsPhone, OuterKeepsPhone DEF QuestionsNext
<1> QED BY <1>1, <1>2, TypeCorrect, ResultsInOrder, PTL DEF QuestionsSpec

\* An inbox note says what happened.
THEOREM NotesHold == QuestionsSpec => []NotesAreTrue
<1>1. TypeOK /\ PhoneInv => NotesAreTrue
  BY DEF PhoneInv, NoteHasCause, PushHasCall, NotesAreTrue, TypeOK
<1> QED BY <1>1, TypeCorrect, PhoneInOrder, PTL

\* A call that is over leaves nothing standing on the phone.
THEOREM PhoneIsCleared == QuestionsSpec => []NoStandingPush
<1>1. TypeOK /\ PhoneInv => NoStandingPush
  BY DEF PhoneInv, PushHasCall, NoStandingPush, TypeOK
<1> QED BY <1>1, TypeCorrect, PhoneInOrder, PTL
-----------------------------------------------------------------------------
(* After a cancel.                                                          *)

\* A cancelled call that has not looked for the last time.
Quiet(c) == cancel[c] /\ sent[c] = 0 /\ pc[c] \notin {"send", "error"}

\* Nothing wakes it: every way from its place to a result looks at the cancel.
LEMMA QuietStays ==
  ASSUME TypeOK, ResultInv, NEW c \in Calls, Quiet(c), [QuestionsNext]_questionVars
  PROVE  Quiet(c)'
<1> USE DEF Quiet, Goto, outerVars, dialogVars, inboxVars, threadVars, fixed
<1>t. /\ pc \in [Calls -> PCs] /\ sent \in [Calls -> Nat] /\ cancel \in [Calls -> BOOLEAN]
      /\ pc[c] # "deliver"
  BY DEF TypeOK, ResultInv, ResultOnce
<1>1. CASE UNCHANGED questionVars
  BY <1>1 DEF questionVars
<1>2. CASE Thread(c)
  BY <1>2, <1>t
  DEF Thread, LoopEnds, LoopTurn, NoReplyYet, TakeReply, PollPending, PollAnswered, PollClosed,
      PollFailed, Rejected, RecordCreate, RecordCreateSkipped, RecordCreateFailed,
      RecordAnswer, RecordUnsupported, RecordCancel, RecordAnswerRetries,
      RecordAnswerGivesUp, Decide, Send, Deliver, Except, SendError, Finally, CancelPost,
      RejectCall
<1>3. ASSUME NEW d \in Calls, d # c, Thread(d) PROVE Quiet(c)'
  BY <1>3, <1>t, OthersUntouched, ThreadRemembers
<1>4. ASSUME NEW d \in Calls, RefuseCall(d) PROVE Quiet(c)'
  BY <1>4 DEF RefuseCall, questionVars
<1>5. CASE \/ Eof \/ BreakStdout
           \/ \E d \in Calls : \/ Call(d) \/ CancelCall(d) \/ LookUpReply(d) \/ StoreReply(d)
                               \/ DeadlinePasses(d) \/ InboxMoves(d)
                               \/ \E kind \in Replies : Reply(d, kind)
  BY <1>5, <1>t DEF Eof, BreakStdout, Call, CancelCall, LookUpReply, StoreReply, DeadlinePasses, InboxMoves, Reply
<1> QED BY <1>1, <1>2, <1>3, <1>4, <1>5 DEF QuestionsNext

\* A call that is cancelled before its last look at the event stays silent.
THEOREM CancelIsFinal == QuestionsSpec => SilentAfterCancel
<1> SUFFICES ASSUME NEW c \in Calls
             PROVE  QuestionsSpec => [](Quiet(c) => [](sent[c] = 0))
  BY DEF SilentAfterCancel, Quiet
<1>1. TypeOK /\ ResultInv /\ Quiet(c) /\ [QuestionsNext]_questionVars => Quiet(c)'
  BY QuietStays
<1>2. Quiet(c) => sent[c] = 0
  BY DEF Quiet
<1> QED BY <1>1, <1>2, TypeCorrect, ResultsInOrder, PTL DEF QuestionsSpec

-----------------------------------------------------------------------------
(* The contract.                                                            *)

Open(c) == dialog[c] = "open"

\* What a step does to one call as its caller sees it: nothing, or one of the
\* contract's four moves.
Unseen(c) == Decision(c)' = Decision(c) /\ Outcome(c)' = Outcome(c) /\ Open(c)' = Open(c)
Shows(c) ==
  /\ Decision(c)' = Decision(c) /\ Outcome(c)' = Outcome(c) /\ Outcome(c) = "none"
  /\ Open(c)' /\ \A d \in Calls : ~Open(d)
Hides(c) ==
  /\ Decision(c)' = Decision(c) /\ Outcome(c)' = Outcome(c)
  /\ ~Open(c)' /\ Open(c) /\ \A d \in Calls : Open(d) => d = c
Settles(c) ==
  /\ Outcome(c)' = Outcome(c) /\ Open(c)' = Open(c)
  /\ Decision(c) = "none" /\ Decision(c)' \in {"terminal", "phone", "closed"}
Returns(c) ==
  /\ Decision(c)' = Decision(c) /\ Open(c)' = Open(c) /\ ~Open(c)
  /\ Outcome(c) = "none" /\ Outcome(c)' \in {"terminal", "phone", "unconfirmed", "error"}
  /\ Outcome(c)' \in {"terminal", "phone"} => Decision(c) = Outcome(c)'

\* A move of one call with the others unseen is a step of the contract.
LEMMA MovesMap ==
  ASSUME NEW c \in Calls, \A d \in Calls \ {c} : Unseen(d),
         Unseen(c) \/ Shows(c) \/ Hides(c) \/ Settles(c) \/ Returns(c)
  PROVE  [Contract!Next]_Contract!vars
<1> DEFINE verdict == [d \in Calls |-> Decision(d)]
           outcome == [d \in Calls |-> Outcome(d)]
           asking == {d \in Calls : dialog[d] = "open"}
<1> USE DEF Unseen, Open
<1>v. Decision(c)' = Decision(c) => verdict' = verdict
  OBVIOUS
<1>o. Outcome(c)' = Outcome(c) => outcome' = outcome
  OBVIOUS
<1>a. Open(c)' = Open(c) => asking' = asking
  OBVIOUS
<1>1. CASE Unseen(c)
  BY <1>1, <1>v, <1>o, <1>a DEF Contract!vars
<1>2. CASE Shows(c)
  <2>1. asking = {} /\ asking' = {c}
    BY <1>2 DEF Shows
  <2>2. Contract!Ask(c)
    BY <1>2, <1>v, <1>o, <2>1 DEF Shows, Contract!Ask
  <2> QED BY <2>2 DEF Contract!Next
<1>3. CASE Hides(c)
  <2>1. c \in asking /\ asking' = {}
    BY <1>3 DEF Hides
  <2>2. Contract!Hide(c)
    BY <1>3, <1>v, <1>o, <2>1 DEF Hides, Contract!Hide
  <2> QED BY <2>2 DEF Contract!Next
<1>4. CASE Settles(c)
  <2>1. verdict' = [verdict EXCEPT ![c] = Decision(c)']
    OBVIOUS
  <2>2. Contract!Settle(c, Decision(c)')
    BY <1>4, <1>o, <1>a, <2>1 DEF Settles, Contract!Settle
  <2>3. Decision(c)' \in {"terminal", "phone", "closed"}
    BY <1>4 DEF Settles
  <2> QED BY <2>2, <2>3 DEF Contract!Next
<1>5. CASE Returns(c)
  <2>1. outcome' = [outcome EXCEPT ![c] = Outcome(c)']
    OBVIOUS
  <2>2. Contract!Return(c, Outcome(c)')
    BY <1>5, <1>v, <1>a, <2>1 DEF Returns, Contract!Return
  <2>3. Outcome(c)' \in {"terminal", "phone", "unconfirmed", "error"}
    BY <1>5 DEF Returns
  <2> QED BY <2>2, <2>3 DEF Contract!Next
<1> QED BY <1>1, <1>2, <1>3, <1>4, <1>5
\* What the operations of the inbox decide.
LEMMA InboxDecides ==
  ASSUME TypeOK, PhoneInv, NEW c \in Calls
  PROVE  /\ rec'[c] \in {rec[c], Created(rec[c]), Delivered(rec[c])} => Decision(c)' = Decision(c)
         /\ rec'[c] \in {Answered(rec[c]), Cancelled(rec[c])} =>
              \/ Decision(c)' = Decision(c)
              \/ Decision(c) = "none" /\ Decision(c)' \in {"terminal", "phone", "closed"}
<1> rec[c] \in Records /\ (rec[c].status \in {"none", "pending"} => rec[c].answer = "none")
  BY DEF TypeOK, PhoneInv, PushHasCall
<1> QED BY DEF Records, Created, Delivered, Answered, Cancelled, Decision

\* A step of a call's thread is a move of that call and of no other.
LEMMA ThreadMoves ==
  ASSUME TypeOK, TypeOK', DialogInv, ResultInv, PhoneInv, NEW c \in Calls, Thread(c)
  PROVE  [Contract!Next]_Contract!vars
<1>d. \A d \in Calls \ {c} : dialog'[d] = dialog[d]
  BY DEF TypeOK, Thread, dialogVars, CloseIfOpen, CloseDialog, OpenDialog,
       LoopEnds, LoopTurn, NoReplyYet, TakeReply, PollPending, PollAnswered, PollClosed,
       PollFailed, Rejected, RecordCreate, RecordCreateSkipped, RecordCreateFailed,
       RecordAnswer, RecordUnsupported, RecordCancel, RecordAnswerRetries,
       RecordAnswerGivesUp, Decide, Send, Deliver, Except, SendError, Finally, CancelPost,
       RejectCall
<1>o. \A d \in Calls \ {c} : Unseen(d)
  BY <1>d, OthersUntouched DEF Unseen, Decision, Outcome, Open
<1> SUFFICES Unseen(c) \/ Shows(c) \/ Hides(c) \/ Settles(c) \/ Returns(c)
  BY <1>o, MovesMap
<1> USE DEF Goto, inboxVars, threadVars, dialogVars, Open
<1>t. /\ pc[c] \in PCs /\ sent[c] \in Nat /\ ask[c] \in Locals /\ rec[c] \in Records
      /\ sent \in [Calls -> Nat] /\ ask \in [Calls -> Locals] /\ rec \in [Calls -> Records]
      /\ dialog \in [Calls -> {"none", "open", "done"}]
  BY DEF TypeOK
<1>r. /\ pc[c] \in Silent => sent[c] = 0
      /\ ask[c].payload = "terminal" => rec[c].answer = "terminal"
      /\ ask[c].payload \in FromInbox => rec[c].answer = "phone"
      /\ pc[c] \in {"decide", "send"} => ask[c].payload \notin {NoPayload, "error"}
      /\ rec[c].status \in {"none", "pending"} => rec[c].answer = "none"
  BY DEF ResultInv, ResultOnce, ResultAgrees, PhoneInv, PushHasCall
<1>l. /\ dialog[c] = "open" => pc[c] \in {"loop", "check", "poll", "except", "finally"}
      /\ dialog_lock <=> \E d \in Calls : dialog[d] = "open"
      /\ \A d \in Calls : dialog[c] = "open" /\ dialog[d] = "open" => d = c
  BY DEF DialogInv, DialogPlace, LockMatchesDialogs
\* The four kinds of step.
<1>quiet. ASSUME sent'[c] = sent[c], sent[c] = 0 \/ ask'[c].payload = ask[c].payload
          PROVE  Outcome(c)' = Outcome(c)
  BY <1>quiet DEF Outcome
<1>still. ASSUME dialog' = dialog, Outcome(c)' = Outcome(c),
                 rec'[c] \in {rec[c], Created(rec[c]), Delivered(rec[c]), Answered(rec[c]), Cancelled(rec[c])}
          PROVE  Unseen(c) \/ Settles(c)
  BY <1>still, InboxDecides DEF Unseen, Settles
<1>close. ASSUME CloseIfOpen(c), rec' = rec, Outcome(c)' = Outcome(c)
          PROVE  Unseen(c) \/ Hides(c)
  <2>1. Decision(c)' = Decision(c)
    BY <1>close DEF Decision
  <2>2. CASE dialog[c] = "open"
    BY <1>t, <1>l, <1>close, <2>1, <2>2 DEF CloseIfOpen, CloseDialog, Hides
  <2>3. CASE dialog[c] # "open"
    BY <1>close, <2>1, <2>3 DEF CloseIfOpen, Unseen
  <2> QED BY <2>2, <2>3
<1>1. CASE LoopEnds(c)         BY <1>1, <1>quiet, <1>still DEF LoopEnds
<1>2. CASE LoopTurn(c)
  <2>1. rec' = rec /\ ask' = ask /\ sent' = sent /\ sent[c] = 0
    BY <1>2, <1>r DEF LoopTurn, Silent
  <2>2. Decision(c)' = Decision(c) /\ Outcome(c)' = Outcome(c) /\ Outcome(c) = "none"
    BY <2>1 DEF Decision, Outcome
  <2>3. CASE MayOpen(c) /\ ~broken
    BY <1>2, <1>t, <1>l, <2>2, <2>3 DEF LoopTurn, MayOpen, OpenDialog, Shows
  <2>4. CASE ~(MayOpen(c) /\ ~broken)
    BY <1>2, <2>2, <2>4 DEF LoopTurn, Unseen
  <2> QED BY <2>3, <2>4
<1>3. CASE NoReplyYet(c)       BY <1>3, <1>quiet, <1>still DEF NoReplyYet
<1>4. CASE TakeReply(c)
  <2>1. rec' = rec /\ sent' = sent /\ sent[c] = 0 /\ dialog[c] = "open"
        /\ dialog' = [dialog EXCEPT ![c] = "none"]
    BY <1>4, <1>r DEF TakeReply, CloseDialog, Silent
  <2>2. Decision(c)' = Decision(c) /\ Outcome(c)' = Outcome(c)
    BY <2>1 DEF Decision, Outcome
  <2> QED BY <1>t, <1>l, <2>1, <2>2 DEF Hides
<1>5. CASE PollPending(c)
  <2>1. rec'[c] \in {rec[c], Created(rec[c])} /\ sent' = sent /\ sent[c] = 0
    BY <1>5, <1>t, <1>r DEF PollPending, Asked, Serve, Silent
  <2> QED BY <1>5, <1>quiet, <1>still, <2>1 DEF PollPending
<1>6. CASE PollAnswered(c)
  <2>1. rec' = rec /\ sent' = sent /\ sent[c] = 0
    <3>1. Asked(c) = rec[c]
      BY <1>6, <1>t DEF PollAnswered, Asked, Created, Records
    <3> QED BY <1>6, <1>t, <1>r, <3>1 DEF PollAnswered, Serve, Silent
  <2>2. Outcome(c)' = Outcome(c)
    BY <2>1 DEF Outcome
  <2>3. CASE cancel[c]
    BY <1>6, <1>still, <2>1, <2>2, <2>3 DEF PollAnswered
  <2>4. CASE ~cancel[c]
    BY <1>6, <1>close, <2>1, <2>2, <2>4 DEF PollAnswered
  <2> QED BY <2>3, <2>4
<1>7. CASE PollClosed(c)
  <2>1. rec'[c] \in {rec[c], Created(rec[c])} /\ sent' = sent /\ sent[c] = 0
    BY <1>7, <1>t, <1>r DEF PollClosed, Asked, Serve, Silent
  <2> QED BY <1>7, <1>quiet, <1>still, <2>1 DEF PollClosed
<1>8. CASE PollFailed(c)
  <2>1. rec'[c] \in {rec[c], Created(rec[c])} /\ sent' = sent /\ sent[c] = 0
    BY <1>8, <1>t, <1>r DEF PollFailed, Asked, Fail, Silent
  <2> QED BY <1>8, <1>quiet, <1>still, <2>1 DEF PollFailed
<1>9. CASE Rejected(c)         BY <1>9, <1>quiet, <1>still DEF Rejected
<1>10. CASE RecordCreate(c)
  <2>1. rec'[c] = Created(rec[c]) /\ sent' = sent /\ sent[c] = 0
    BY <1>10, <1>t, <1>r DEF RecordCreate, Serve, Silent
  <2> QED BY <1>10, <1>quiet, <1>still, <2>1 DEF RecordCreate
<1>11. CASE RecordCreateSkipped(c) BY <1>11, <1>quiet, <1>still DEF RecordCreateSkipped
<1>12. CASE RecordCreateFailed(c)
  <2>1. rec'[c] \in {rec[c], Created(rec[c])} /\ sent' = sent /\ sent[c] = 0
    BY <1>12, <1>t, <1>r DEF RecordCreateFailed, Fail, Silent
  <2> QED BY <1>12, <1>quiet, <1>still, <2>1 DEF RecordCreateFailed
<1>13. CASE RecordAnswer(c)
  <2>1. rec'[c] = Answered(rec[c]) /\ sent' = sent /\ sent[c] = 0
    BY <1>13, <1>t, <1>r DEF RecordAnswer, Serve, Silent
  <2> QED BY <1>13, <1>quiet, <1>still, <2>1 DEF RecordAnswer
<1>14. CASE RecordUnsupported(c) BY <1>14, <1>quiet, <1>still DEF RecordUnsupported
<1>15. CASE RecordCancel(c)
  <2>1. rec'[c] \in {rec[c], Cancelled(rec[c])} /\ sent' = sent /\ sent[c] = 0
    BY <1>15, <1>t, <1>r DEF RecordCancel, Serve, Fail, FailOrRefuse, Silent
  <2> QED BY <1>15, <1>quiet, <1>still, <2>1 DEF RecordCancel
<1>16. CASE RecordAnswerRetries(c)
  <2>1. rec'[c] \in {rec[c], Answered(rec[c])} /\ sent' = sent /\ ask' = ask
    BY <1>16, <1>t, <1>r DEF RecordAnswerRetries, LostAnswer, Fail
  <2> QED BY <1>16, <1>quiet, <1>still, <2>1 DEF RecordAnswerRetries
<1>17. CASE RecordAnswerGivesUp(c)
  <2>1. rec'[c] \in {rec[c], Answered(rec[c])} /\ sent' = sent /\ sent[c] = 0
    BY <1>17, <1>t, <1>r DEF RecordAnswerGivesUp, LostAnswer, Fail, Silent
  <2> QED BY <1>17, <1>quiet, <1>still, <2>1 DEF RecordAnswerGivesUp
<1>18. CASE Decide(c)          BY <1>18, <1>quiet, <1>still DEF Decide
<1>19. CASE Send(c)
  <2>1. CASE broken
    BY <1>19, <1>quiet, <1>still, <2>1 DEF Send
  <2>2. CASE ~broken
    <3>1. /\ sent[c] = 0 /\ sent'[c] = 1 /\ ask'[c].payload = ask[c].payload
          /\ rec' = rec /\ dialog' = dialog /\ dialog[c] # "open"
          /\ ask[c].payload \in Payloads \ {"error"}
      BY <1>19, <1>t, <1>r, <1>l, <2>2 DEF Send, Silent, Locals
    <3>2. Outcome(c) = "none" /\ Decision(c)' = Decision(c)
      BY <3>1 DEF Outcome, Decision
    <3>3. /\ Outcome(c)' \in {"terminal", "phone", "unconfirmed", "error"}
          /\ Outcome(c)' = "terminal" => ask[c].payload = "terminal"
          /\ Outcome(c)' = "phone" => ask[c].payload \in FromInbox
      BY <3>1 DEF Outcome, OutcomeOf
    <3>4. Outcome(c)' \in {"terminal", "phone"} => Decision(c) = Outcome(c)'
      BY <1>r, <3>3 DEF Decision
    <3> QED BY <3>1, <3>2, <3>3, <3>4 DEF Returns
  <2> QED BY <2>1, <2>2
<1>20. CASE Deliver(c)
  <2>1. rec'[c] \in {rec[c], Delivered(rec[c])} /\ sent' = sent /\ ask' = ask
    BY <1>20, <1>t DEF Deliver, Serve, Fail, FailOrRefuse
  <2> QED BY <1>20, <1>quiet, <1>still, <2>1 DEF Deliver
<1>21. CASE Except(c)          BY <1>21, <1>quiet, <1>close DEF Except
<1>22. CASE SendError(c)
  <2>1. CASE broken
    BY <1>22, <1>quiet, <1>still, <2>1 DEF SendError
  <2>2. CASE ~broken
    <3>1. /\ sent[c] = 0 /\ sent'[c] = 1 /\ ask'[c].payload = "error"
          /\ rec' = rec /\ dialog' = dialog /\ dialog[c] # "open"
      BY <1>22, <1>t, <1>r, <1>l, <2>2 DEF SendError, Silent, Locals
    <3> QED BY <3>1 DEF Returns, Outcome, OutcomeOf, Decision
  <2> QED BY <2>1, <2>2
<1>23. CASE Finally(c)         BY <1>23, <1>quiet, <1>close DEF Finally
<1>24. CASE CancelPost(c)
  <2>1. rec'[c] \in {rec[c], Cancelled(rec[c])} /\ sent' = sent /\ ask' = ask
    BY <1>24, <1>t DEF CancelPost, Serve, Fail, FailOrRefuse
  <2> QED BY <1>24, <1>quiet, <1>still, <2>1 DEF CancelPost
<1>25. CASE RejectCall(c)
  <2>1. CASE broken \/ cancel[c]
    BY <1>25, <1>quiet, <1>still, <2>1 DEF RejectCall
  <2>2. CASE ~(broken \/ cancel[c])
    <3>1. /\ sent[c] = 0 /\ sent'[c] = 1 /\ ask'[c].payload = "error"
          /\ rec' = rec /\ dialog' = dialog /\ dialog[c] # "open"
      BY <1>25, <1>t, <1>r, <1>l, <2>2 DEF RejectCall, Silent, Locals
    <3> QED BY <3>1 DEF Returns, Outcome, OutcomeOf, Decision
  <2> QED BY <2>1, <2>2
<1> QED
  BY <1>1, <1>2, <1>3, <1>4, <1>5, <1>6, <1>7, <1>8, <1>9, <1>10, <1>11, <1>12, <1>13,
     <1>14, <1>15, <1>16, <1>17, <1>18, <1>19, <1>20, <1>21, <1>22, <1>23, <1>24, <1>25
  DEF Thread

\* The phone and the panel settle a question; nobody else outside the threads
\* does anything the contract sees.
LEMMA OuterMoves ==
  ASSUME TypeOK, PhoneInv,
         \/ Eof \/ BreakStdout
         \/ \E c \in Calls : \/ Call(c) \/ CancelCall(c) \/ LookUpReply(c) \/ StoreReply(c)
                             \/ DeadlinePasses(c) \/ InboxMoves(c)
                             \/ \E kind \in Replies : Reply(c, kind)
  PROVE  [Contract!Next]_Contract!vars
<1>1. ASSUME UNCHANGED <<rec, sent, ask, dialog>>
      PROVE  [Contract!Next]_Contract!vars
  BY <1>1 DEF Contract!vars, Decision, Outcome
<1>2. ASSUME NEW c \in Calls, InboxMoves(c)
      PROVE  [Contract!Next]_Contract!vars
  <2>1. /\ UNCHANGED <<sent, ask, dialog>> /\ \A d \in Calls \ {c} : rec'[d] = rec[d]
        /\ \/ rec'[c] = [status |-> "answered", answer |-> "phone"]
           \/ rec'[c] = [rec[c] EXCEPT !.status = "closed"]
    BY <1>2 DEF InboxMoves, dialogVars, threadVars, TypeOK
  <2>2. rec[c] \in Records /\ rec[c].status = "pending" /\ rec[c].answer = "none"
    BY <1>2 DEF InboxMoves, TypeOK, PhoneInv, PushHasCall
  <2>3. Decision(c) = "none" /\ Decision(c)' \in {"terminal", "phone", "closed"}
    BY <2>1, <2>2 DEF Decision, Records
  <2>4. Settles(c) /\ \A d \in Calls \ {c} : Unseen(d)
    BY <2>1, <2>3 DEF Settles, Unseen, Open, Outcome, Decision
  <2> QED BY <2>4, MovesMap
<1> QED
  BY <1>1, <1>2 DEF Eof, BreakStdout, Call, CancelCall, LookUpReply, StoreReply, DeadlinePasses, Reply,
     outerVars, threadVars, dialogVars, inboxVars

\* The server implements FirstAnswerWins: opening and closing a dialog are the
\* contract's Ask and Hide, a result on stdout is its Return, what a post or
\* the phone does to a record its Settle, and every other step a stutter.
THEOREM ImplementsFirstAnswerWins == QuestionsSpec => KeepsContract
<1>1. QuestionsInit => Contract!Init
  BY DEF QuestionsInit, Contract!Init, Decision, Outcome
<1>2. TypeOK /\ TypeOK' /\ DialogInv /\ ResultInv /\ PhoneInv /\ [QuestionsNext]_questionVars
        => [Contract!Next]_Contract!vars
  <2> SUFFICES ASSUME TypeOK, TypeOK', DialogInv, ResultInv, PhoneInv, [QuestionsNext]_questionVars
               PROVE  [Contract!Next]_Contract!vars
    OBVIOUS
  <2>1. CASE UNCHANGED questionVars
    BY <2>1 DEF questionVars, Contract!vars, Decision, Outcome
  <2>2. ASSUME NEW c \in Calls, RefuseCall(c) PROVE [Contract!Next]_Contract!vars
    BY <2>1, <2>2 DEF RefuseCall
  <2> QED BY <2>1, <2>2, ThreadMoves, OuterMoves DEF QuestionsNext
<1> QED BY <1>1, <1>2, TypeCorrect, DialogsInOrder, ResultsInOrder, PhoneInOrder, PTL
     DEF QuestionsSpec, KeepsContract, Contract!Spec
=============================================================================
