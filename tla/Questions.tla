------------------------------ MODULE Questions ------------------------------
(***************************************************************************)
(* The ask_question MCP server, files/scripts/lib/questions.py.  One       *)
(* reader thread (run, handle) reads stdin; every accepted tools/call runs *)
(* `ask` in a thread of its own; the threads share stdout, one dialog lock *)
(* and the Home Assistant inbox.  A call asks in two places at once: a     *)
(* dialog in the terminal and a record in the inbox.                       *)
(*                                                                         *)
(* A post to the inbox is a step of its own, so everybody else moves while *)
(* it is under way.  Clocks are choices: the call's deadline may pass at   *)
(* any time, an outage may last over a minute as soon as two posts failed. *)
(* `wait` ends after its interval whatever happens, so it is part of the   *)
(* step that starts it.                                                    *)
(***************************************************************************)
EXTENDS Naturals, FiniteSets

CONSTANTS Calls,      \* the JSON-RPC ids of the tools/call requests
          MaxActive,  \* calls that may be pending at once (8 in the code)
          Mishaps     \* what may go wrong around the server

ASSUME QuestionsAssumption == /\ IsFiniteSet(Calls)
                              /\ MaxActive \in Nat \ {0}
                              /\ Mishaps \subseteq {"lost", "rejected", "broken", "eof", "old"}

VARIABLES
  eof,          \* stdin ended: the calls are cancelled, joined, then left behind
  broken,       \* stdout is gone: every emit raises
  elicitation,  \* Server.elicitation, fixed by initialize before the first call
  old_inbox,    \* the inbox (a hatyc) does not know the `answer` operation
  pc,           \* where the call's thread is in `ask`
  cancel,       \* the call's cancel event
  late,         \* the call's deadline has passed
  ask,          \* the local variables of `ask`
  dialog,       \* the local `dialog`: None, open (registered, not done) or done
  response,     \* dialog.response; its event is set once this is a reply
  dialog_lock,  \* Server.dialog_lock
  sent,         \* how many results the call has put on stdout
  screen,       \* the client shows the call's dialog
  wire,         \* the client's reply to that dialog, on its way on stdin
  found,        \* the reply the reader holds for a dialog it has looked up
  rec,          \* the call's record in the inbox
  faulty        \* some post failed, or a clean-up was refused (history)

fixed      == <<elicitation, old_inbox>>
inboxVars  == <<rec, faulty>>
dialogVars == <<dialog, response, dialog_lock, screen>>
threadVars == <<pc, ask, sent>>
outerVars  == <<eof, broken, fixed, cancel, late, wire, found>>
questionVars == <<eof, broken, elicitation, old_inbox, pc, cancel, late, ask, dialog, response,
          dialog_lock, sent, screen, wire, found, rec, faulty>>

NoReply == "none"
\* What an operator can do to a dialog: accept with words or a choice, accept
\* an empty form, or decline it (Esc and an error reply count as a decline).
Replies == {"text", "empty", "decline"}

\* What a call returns.  "terminal": the dialog's answer, recorded in the
\* inbox; "unavailable", "unsupported": the dialog's answer with that inbox
\* note; "inbox": the phone's answer; "discarded": the phone's answer with the
\* operator's text as discarded_terminal_answer; "error": isError.
Payloads == {"terminal", "unavailable", "unsupported", "inbox", "discarded", "error"}
NoPayload == "none"
FromInbox == {"inbox", "discarded"}      \* payload["source"] == "inbox"

FailureLimit == 3                         \* posts of `create` before giving up

Pending == {"loop", "check", "poll", "recCreate", "recAnswer", "recCancel",
            "decide", "send", "deliver", "except", "error", "finally", "cancelPost",
            "reject"}
PCs == Pending \cup {"idle", "ended"}

Records == [status : {"none", "pending", "answered", "delivered", "closed"},
            answer : {"none", "phone", "terminal"}]
Counts == 0..FailureLimit
Locals == [declined : BOOLEAN, created : BOOLEAN, inbox_unavailable : BOOLEAN,
           finished : BOOLEAN, failures : Counts,
           payload : Payloads \cup {NoPayload}]
Fresh == [declined |-> FALSE, created |-> FALSE, inbox_unavailable |-> FALSE,
          finished |-> FALSE, failures |-> 0, payload |-> NoPayload]

active == {c \in Calls : pc[c] \in Pending}

QuestionsInit ==
  /\ eof = FALSE /\ broken = FALSE /\ faulty = FALSE
  /\ elicitation \in BOOLEAN /\ old_inbox \in BOOLEAN /\ (old_inbox => "old" \in Mishaps)
  /\ pc = [c \in Calls |-> "idle"]
  /\ cancel = [c \in Calls |-> FALSE]
  /\ late = [c \in Calls |-> FALSE]
  /\ ask = [c \in Calls |-> Fresh]
  /\ dialog = [c \in Calls |-> "none"]
  /\ response = [c \in Calls |-> NoReply]
  /\ dialog_lock = FALSE
  /\ sent = [c \in Calls |-> 0]
  /\ screen = [c \in Calls |-> FALSE]
  /\ wire = [c \in Calls |-> NoReply] /\ found = [c \in Calls |-> NoReply]
  /\ rec = [c \in Calls |-> [status |-> "none", answer |-> "none"]]

-----------------------------------------------------------------------------
(* The inbox (the flakelab_questions integration, not in this repository):  *)
(* what each operation does to a record.  Cancelled and expired records are *)
(* alike to the server: "closed".                                           *)

Created(r) == IF r.status = "none" THEN [r EXCEPT !.status = "pending"] ELSE r
Answered(r) == IF r.status = "pending"
                 THEN [status |-> "delivered", answer |-> "terminal"] ELSE r
Delivered(r) == IF r.status = "answered" THEN [r EXCEPT !.status = "delivered"] ELSE r
Cancelled(r) == IF r.status = "pending" THEN [r EXCEPT !.status = "closed"] ELSE r

\* A post that is answered leaves record r.
Serve(c, r) == rec' = [rec EXCEPT ![c] = r] /\ UNCHANGED faulty

\* A post that raises ConnectionError: the request or only its reply was lost.
Fail(c, r) == "lost" \in Mishaps /\ faulty' = TRUE /\ rec' \in {rec, [rec EXCEPT ![c] = r]}

\* A clean-up post of which any failure, HTTP 400 included, means the same.
FailOrRefuse(c, r) ==
  \/ Fail(c, r)
  \/ "rejected" \in Mishaps /\ faulty' = TRUE /\ UNCHANGED rec

-----------------------------------------------------------------------------
(* Steps shared by the actions of a call's thread.                          *)

Goto(c, p) == pc' = [pc EXCEPT ![c] = p]

\* open_dialog under the lock just taken; it raises, unlocked again, if stdout
\* is broken.
OpenDialog(c) ==
  /\ dialog' = [dialog EXCEPT ![c] = "open"]
  /\ dialog_lock' = TRUE
  /\ screen' = [screen EXCEPT ![c] = TRUE]

\* Mutant: the release is not in a `finally`.
CloseDialogLeaky(c, left, tell) ==
  /\ dialog' = [dialog EXCEPT ![c] = left]
  /\ dialog_lock' = (tell /\ response[c] = NoReply /\ broken)
  /\ screen' = [screen EXCEPT ![c] = @ /\ ~(tell /\ response[c] = NoReply /\ ~broken)]

\* close_dialog: forget the dialog, tell the client unless it replied, unlock.
CloseDialog(c, left, tell) ==
  /\ dialog' = [dialog EXCEPT ![c] = left]
  /\ dialog_lock' = FALSE
  /\ screen' = [screen EXCEPT ![c] = @ /\ ~(tell /\ response[c] = NoReply /\ ~broken)]

CloseIfOpen(c) ==
  /\ IF dialog[c] = "open" THEN CloseDialog(c, "done", TRUE)
                           ELSE UNCHANGED <<dialog, dialog_lock, screen>>
  /\ UNCHANGED response

\* The record after this call's next poll, or create while none was answered.
Asked(c) == IF ask[c].created THEN rec[c] ELSE Created(rec[c])
Reached(c) == [ask[c] EXCEPT !.created = TRUE, !.failures = 0,
                             !.inbox_unavailable = FALSE]
OneMoreFailure(c) == IF ask[c].failures < FailureLimit
                       THEN ask[c].failures + 1 ELSE FailureLimit

-----------------------------------------------------------------------------
(* The poll loop of `ask`.                                                   *)

\* Mutant: the loop forgets its deadline.
LoopEndsOnCancel(c) ==
  /\ pc[c] = "loop" /\ cancel[c] /\ Goto(c, "finally")
  /\ UNCHANGED <<outerVars, ask, dialogVars, sent, inboxVars>>

LoopEnds(c) ==
  /\ pc[c] = "loop" /\ (cancel[c] \/ late[c])
  /\ Goto(c, IF cancel[c] THEN "finally" ELSE "except")
  /\ UNCHANGED <<outerVars, ask, dialogVars, sent, inboxVars>>

\* Mutant: the dialog is opened without the lock.
MayOpenUnlocked(c) == dialog[c] = "none" /\ ~ask[c].declined /\ elicitation

MayOpen(c) == dialog[c] = "none" /\ ~ask[c].declined /\ elicitation /\ ~dialog_lock

LoopTurn(c) ==
  /\ pc[c] = "loop" /\ ~cancel[c] /\ ~late[c]
  /\ IF MayOpen(c) /\ ~broken THEN OpenDialog(c)
                               ELSE UNCHANGED <<dialog, dialog_lock, screen>>
  /\ Goto(c, IF MayOpen(c) /\ broken THEN "except" ELSE "check")
  /\ UNCHANGED <<outerVars, ask, response, sent, inboxVars>>

NoReplyYet(c) ==
  /\ pc[c] = "check" /\ ~(dialog[c] = "open" /\ response[c] # NoReply)
  /\ Goto(c, "poll")
  /\ UNCHANGED <<outerVars, ask, dialogVars, sent, inboxVars>>

\* An empty accept shows the dialog again, a decline leaves the inbox, words
\* are recorded in the inbox unless it is known to be out of reach.
TakeReply(c) ==
  /\ pc[c] = "check" /\ dialog[c] = "open" /\ response[c] # NoReply
  /\ CloseDialog(c, "none", FALSE)
  /\ response' = [response EXCEPT ![c] = NoReply]
  /\ \/ /\ response[c] = "empty" /\ Goto(c, "loop") /\ UNCHANGED ask
     \/ /\ response[c] = "decline" /\ Goto(c, "poll")
        /\ ask' = [ask EXCEPT ![c].declined = TRUE]
     \/ /\ response[c] = "text" /\ ask[c].inbox_unavailable /\ Goto(c, "decide")
        /\ ask' = [ask EXCEPT ![c].payload = "unavailable"]
     \/ /\ response[c] = "text" /\ ~ask[c].inbox_unavailable /\ UNCHANGED ask
        /\ Goto(c, IF ask[c].created THEN "recAnswer" ELSE "recCreate")
  /\ UNCHANGED <<outerVars, sent, inboxVars>>

PollPending(c) ==
  /\ pc[c] = "poll" /\ Asked(c).status = "pending"
  /\ Serve(c, Asked(c)) /\ ask' = [ask EXCEPT ![c] = Reached(c)] /\ Goto(c, "loop")
  /\ UNCHANGED <<outerVars, dialogVars, sent>>

PollAnswered(c) ==
  /\ pc[c] = "poll" /\ Asked(c).status = "answered"
  /\ Serve(c, Asked(c))
  /\ IF cancel[c]
       THEN Goto(c, "finally") /\ UNCHANGED dialogVars
            /\ ask' = [ask EXCEPT ![c] = Reached(c)]
       ELSE Goto(c, "send") /\ CloseIfOpen(c)
            /\ ask' = [ask EXCEPT ![c] = [Reached(c) EXCEPT !.payload = "inbox"]]
  /\ UNCHANGED <<outerVars, sent>>

\* The panel cancelled the question or its lease ran out: ValueError.
PollClosed(c) ==
  /\ pc[c] = "poll" /\ Asked(c).status \in {"closed", "delivered"}
  /\ Serve(c, Asked(c)) /\ ask' = [ask EXCEPT ![c] = Reached(c)] /\ Goto(c, "except")
  /\ UNCHANGED <<outerVars, dialogVars, sent>>

\* HTTP 400 to a poll or to either create: ProtocolError, a ValueError.  To
\* `answer` it is RecordUnsupported, to a clean-up FailOrRefuse.
Rejected(c) ==
  /\ "rejected" \in Mishaps /\ pc[c] \in {"poll", "recCreate"} /\ Goto(c, "except")
  /\ pc[c] = "recCreate" => ~cancel[c]
  /\ UNCHANGED <<outerVars, ask, dialogVars, sent, inboxVars>>

\* An unreachable inbox is tolerated while a dialog can still answer; only the
\* second failure in a row can find the outage older than a minute.
PollFailed(c) ==
  /\ pc[c] = "poll" /\ Fail(c, Asked(c))
  /\ \E overAMinute \in BOOLEAN :
       LET given_up == \/ ask[c].inbox_unavailable
                       \/ ~ask[c].created /\ OneMoreFailure(c) >= FailureLimit
                       \/ overAMinute
       IN /\ overAMinute => ask[c].failures > 0
          /\ ask' = [ask EXCEPT ![c].failures = OneMoreFailure(c),
                                ![c].inbox_unavailable = given_up]
          /\ Goto(c, IF given_up /\ (~elicitation \/ ask[c].declined)
                       THEN "except" ELSE "loop")
  /\ UNCHANGED <<outerVars, dialogVars, sent>>

-----------------------------------------------------------------------------
(* record_terminal_answer: create the record if it is missing, then let the *)
(* inbox decide whose answer stands.                                        *)

RecordCreate(c) ==
  /\ pc[c] = "recCreate" /\ ~cancel[c]
  /\ Serve(c, Created(rec[c])) /\ ask' = [ask EXCEPT ![c].created = TRUE]
  /\ Goto(c, "recAnswer")
  /\ UNCHANGED <<outerVars, dialogVars, sent>>

RecordCreateSkipped(c) ==
  /\ pc[c] = "recCreate" /\ cancel[c] /\ Goto(c, "recAnswer")
  /\ UNCHANGED <<outerVars, ask, dialogVars, sent, inboxVars>>

RecordCreateFailed(c) ==
  /\ pc[c] = "recCreate" /\ ~cancel[c] /\ Fail(c, Created(rec[c]))
  /\ IF OneMoreFailure(c) >= FailureLimit
       THEN Goto(c, "decide") /\ ask' = [ask EXCEPT ![c].failures = FailureLimit,
                                                    ![c].payload = "unavailable"]
       ELSE UNCHANGED pc /\ ask' = [ask EXCEPT ![c].failures = OneMoreFailure(c)]
  /\ UNCHANGED <<outerVars, dialogVars, sent>>

\* Mutant: any answer the inbox holds is taken for the operator's.
VerdictOfTheTerminal(r) == IF r.status \in {"delivered", "answered"}
                             THEN "terminal" ELSE NoPayload

\* What the inbox's status makes of the operator's words.
Verdict(r) == CASE r.status = "delivered" -> "terminal"
                [] r.status = "answered" -> "discarded"
                [] OTHER -> NoPayload

RecordAnswer(c) ==
  /\ pc[c] = "recAnswer" /\ ~old_inbox /\ rec[c].status # "none"
  /\ LET r == Answered(rec[c])
     IN /\ Serve(c, r)
        /\ ask' = [ask EXCEPT ![c].payload = Verdict(r)]
        /\ Goto(c, IF Verdict(r) = NoPayload THEN "except" ELSE "decide")
  /\ UNCHANGED <<outerVars, dialogVars, sent>>

\* HTTP 400: an inbox without the operation or without the record, and any
\* other request the inbox does not accept.
RecordUnsupported(c) ==
  /\ pc[c] = "recAnswer" /\ (old_inbox \/ rec[c].status = "none" \/ "rejected" \in Mishaps)
  /\ Goto(c, "recCancel")
  /\ UNCHANGED <<outerVars, ask, dialogVars, sent, inboxVars>>

\* Mutant: the refused question stays on the phone.
RecordRefused(c) ==
  /\ pc[c] = "recCancel"
  /\ ask' = [ask EXCEPT ![c].payload = "unsupported"] /\ Goto(c, "decide")
  /\ UNCHANGED <<outerVars, dialogVars, sent, inboxVars>>

RecordCancel(c) ==
  /\ pc[c] = "recCancel"
  /\ Serve(c, Cancelled(rec[c])) \/ FailOrRefuse(c, Cancelled(rec[c]))
  /\ ask' = [ask EXCEPT ![c].payload = "unsupported"] /\ Goto(c, "decide")
  /\ UNCHANGED <<outerVars, dialogVars, sent>>

LostAnswer(c) == Fail(c, IF old_inbox THEN rec[c] ELSE Answered(rec[c]))

RecordAnswerRetries(c) ==
  /\ pc[c] = "recAnswer" /\ ~cancel[c] /\ LostAnswer(c)
  /\ UNCHANGED <<outerVars, threadVars, dialogVars>>

\* Mutant: the note about the inbox is forgotten.
RecordAnswerGivesUpSilently(c) ==
  /\ pc[c] = "recAnswer" /\ LostAnswer(c)
  /\ ask' = [ask EXCEPT ![c].payload = "terminal"] /\ Goto(c, "decide")
  /\ UNCHANGED <<outerVars, dialogVars, sent>>

\* The same failure once answer_retry seconds are over, or after a cancel.
RecordAnswerGivesUp(c) ==
  /\ pc[c] = "recAnswer" /\ LostAnswer(c)
  /\ ask' = [ask EXCEPT ![c].payload = "unavailable"] /\ Goto(c, "decide")
  /\ UNCHANGED <<outerVars, dialogVars, sent>>

-----------------------------------------------------------------------------
(* Returning: the last look at the cancel event, the result, the clean-up.  *)

\* Mutant: the result is sent without a last look at the cancel event.
DecideBlindly(c) ==
  /\ pc[c] = "decide" /\ Goto(c, "send")
  /\ UNCHANGED <<outerVars, ask, dialogVars, sent, inboxVars>>

Decide(c) ==
  /\ pc[c] = "decide" /\ Goto(c, IF cancel[c] THEN "finally" ELSE "send")
  /\ UNCHANGED <<outerVars, ask, dialogVars, sent, inboxVars>>

Send(c) ==
  /\ pc[c] = "send"
  /\ IF broken
       THEN Goto(c, "except") /\ UNCHANGED <<sent, ask>>
       ELSE /\ sent' = [sent EXCEPT ![c] = @ + 1]
            /\ ask' = [ask EXCEPT ![c].finished = TRUE]
            /\ Goto(c, IF ask[c].payload \in FromInbox THEN "deliver" ELSE "finally")
  /\ UNCHANGED <<outerVars, dialogVars, inboxVars>>

Deliver(c) ==
  /\ pc[c] = "deliver"
  /\ \/ Serve(c, Delivered(rec[c])) /\ Goto(c, "finally")
     \/ FailOrRefuse(c, Delivered(rec[c])) /\ Goto(c, "except")
  /\ UNCHANGED <<outerVars, ask, dialogVars, sent>>

\* Mutant: an error follows a result already sent.
ExceptAfterResult(c) ==
  /\ pc[c] = "except" /\ CloseIfOpen(c)
  /\ Goto(c, IF cancel[c] THEN "finally" ELSE "error")
  /\ UNCHANGED <<outerVars, ask, sent, inboxVars>>

Except(c) ==
  /\ pc[c] = "except" /\ CloseIfOpen(c)
  /\ Goto(c, IF ask[c].finished \/ cancel[c] THEN "finally" ELSE "error")
  /\ UNCHANGED <<outerVars, ask, sent, inboxVars>>

SendError(c) ==
  /\ pc[c] = "error" /\ Goto(c, "finally")
  /\ IF broken
       THEN UNCHANGED <<sent, ask>>
       ELSE sent' = [sent EXCEPT ![c] = @ + 1] /\ ask' = [ask EXCEPT ![c].payload = "error"]
  /\ UNCHANGED <<outerVars, dialogVars, inboxVars>>

\* Mutant: the call's question is not cancelled in the inbox.
FinallyLeavesPush(c) ==
  /\ pc[c] = "finally" /\ CloseIfOpen(c) /\ Goto(c, "ended")
  /\ UNCHANGED <<outerVars, ask, sent, inboxVars>>

Finally(c) ==
  /\ pc[c] = "finally" /\ CloseIfOpen(c)
  /\ Goto(c, IF ask[c].finished THEN "ended" ELSE "cancelPost")
  /\ UNCHANGED <<outerVars, ask, sent, inboxVars>>

CancelPost(c) ==
  /\ pc[c] = "cancelPost" /\ Goto(c, "ended")
  /\ Serve(c, Cancelled(rec[c])) \/ FailOrRefuse(c, Cancelled(rec[c]))
  /\ UNCHANGED <<outerVars, ask, dialogVars, sent>>

\* Bad arguments or no inbox configured: an error and no clean-up to post.
RejectCall(c) ==
  /\ pc[c] = "reject" /\ Goto(c, "ended")
  /\ IF broken \/ cancel[c]
       THEN UNCHANGED <<sent, ask>>
       ELSE sent' = [sent EXCEPT ![c] = @ + 1] /\ ask' = [ask EXCEPT ![c].payload = "error"]
  /\ UNCHANGED <<outerVars, dialogVars, inboxVars>>

Thread(c) ==
  \/ LoopEnds(c) \/ LoopTurn(c) \/ NoReplyYet(c) \/ TakeReply(c)
  \/ PollPending(c) \/ PollAnswered(c) \/ PollClosed(c) \/ PollFailed(c) \/ Rejected(c)
  \/ RecordCreate(c) \/ RecordCreateSkipped(c) \/ RecordCreateFailed(c)
  \/ RecordAnswer(c) \/ RecordUnsupported(c) \/ RecordCancel(c)
  \/ RecordAnswerRetries(c) \/ RecordAnswerGivesUp(c)
  \/ Decide(c) \/ Send(c) \/ Deliver(c) \/ Except(c) \/ SendError(c)
  \/ Finally(c) \/ CancelPost(c) \/ RejectCall(c)

-----------------------------------------------------------------------------
(* The reader thread: run and handle, one message after the other.          *)

Busy(c) == c \in active \/ Cardinality(active) >= MaxActive

\* It takes the next line unless it still holds a reply.
Reading == ~eof /\ \A c \in Calls : found[c] = NoReply

Call(c) ==
  /\ Reading /\ pc[c] = "idle" /\ ~Busy(c)
  /\ \E valid \in BOOLEAN : Goto(c, IF valid THEN "loop" ELSE "reject")
  /\ UNCHANGED <<outerVars, ask, dialogVars, sent, inboxVars>>

\* One call too many, or the id of a pending call: an error and nothing else.
RefuseCall(c) == Reading /\ ~broken /\ Busy(c) /\ UNCHANGED questionVars

CancelCall(c) ==
  /\ Reading /\ c \in active
  /\ cancel' = [cancel EXCEPT ![c] = TRUE]
  /\ UNCHANGED <<eof, broken, fixed, late, wire, found, threadVars, dialogVars, inboxVars>>

\* Under the lock: a reply to a dialog that is no longer registered is dropped.
LookUpReply(c) ==
  /\ Reading /\ wire[c] # NoReply
  /\ wire' = [wire EXCEPT ![c] = NoReply]
  /\ found' = IF dialog[c] = "open" THEN [found EXCEPT ![c] = wire[c]] ELSE found
  /\ UNCHANGED <<eof, broken, fixed, cancel, late, threadVars, dialogVars, inboxVars>>

\* After it: the dialog may have been closed meanwhile.
StoreReply(c) ==
  /\ found[c] # NoReply
  /\ response' = [response EXCEPT ![c] = found[c]]
  /\ found' = [found EXCEPT ![c] = NoReply]
  /\ UNCHANGED <<eof, broken, fixed, cancel, late, wire, threadVars, dialog, dialog_lock,
                 screen, inboxVars>>

\* End of input, or a refusal that cannot be written: every call is cancelled.
Eof ==
  /\ "eof" \in Mishaps /\ Reading /\ eof' = TRUE
  /\ cancel' = [c \in Calls |-> cancel[c] \/ c \in active]
  /\ UNCHANGED <<broken, fixed, late, wire, found, threadVars, dialogVars, inboxVars>>

-----------------------------------------------------------------------------
(* The surroundings: the client, the operator, the clock and the inbox.     *)

BreakStdout ==
  /\ "broken" \in Mishaps /\ ~broken /\ broken' = TRUE
  /\ UNCHANGED <<eof, fixed, cancel, late, wire, found, threadVars, dialogVars, inboxVars>>

Reply(c, kind) ==
  /\ ~eof /\ screen[c]
  /\ screen' = [screen EXCEPT ![c] = FALSE]
  /\ wire' = [wire EXCEPT ![c] = kind]
  /\ UNCHANGED <<eof, broken, fixed, cancel, late, found, threadVars, dialog, response,
                 dialog_lock, inboxVars>>

\* Only the poll loop looks at the deadline.
DeadlinePasses(c) ==
  /\ ~late[c] /\ pc[c] \in {"loop", "check", "poll"}
  /\ late' = [late EXCEPT ![c] = TRUE]
  /\ UNCHANGED <<eof, broken, fixed, cancel, wire, found, threadVars, dialogVars, inboxVars>>

\* The phone or the panel answers, the panel cancels, or the lease runs out.
InboxMoves(c) ==
  /\ rec[c].status = "pending"
  /\ rec' \in {[rec EXCEPT ![c] = [status |-> "answered", answer |-> "phone"]],
               [rec EXCEPT ![c].status = "closed"]}
  /\ UNCHANGED <<outerVars, threadVars, dialogVars, faulty>>

QuestionsNext ==
  \/ Eof \/ BreakStdout
  \/ \E c \in Calls :
       \/ Thread(c) \/ Call(c) \/ RefuseCall(c) \/ CancelCall(c)
       \/ LookUpReply(c) \/ StoreReply(c) \/ DeadlinePasses(c) \/ InboxMoves(c)
       \/ \E kind \in Replies : Reply(c, kind)

QuestionsSpec == QuestionsInit /\ [][QuestionsNext]_questionVars

\* Every thread is scheduled and every post ends (10 s socket timeout); the
\* deadline comes (1500 s), a failing `answer` is given up on (30 s).
Fairness ==
  /\ \A c \in Calls : /\ WF_questionVars(Thread(c))
                      /\ WF_questionVars(RecordAnswerGivesUp(c))
                      /\ WF_questionVars(DeadlinePasses(c))
QuestionsFairSpec == QuestionsSpec /\ Fairness

-----------------------------------------------------------------------------
(* What the server promises.                                                *)

TypeOK ==
  /\ eof \in BOOLEAN /\ broken \in BOOLEAN /\ elicitation \in BOOLEAN /\ old_inbox \in BOOLEAN /\ faulty \in BOOLEAN
  /\ dialog_lock \in BOOLEAN
  /\ pc \in [Calls -> PCs]
  /\ cancel \in [Calls -> BOOLEAN] /\ late \in [Calls -> BOOLEAN]
  /\ ask \in [Calls -> Locals]
  /\ dialog \in [Calls -> {"none", "open", "done"}]
  /\ response \in [Calls -> Replies \cup {NoReply}]
  /\ wire \in [Calls -> Replies \cup {NoReply}] /\ found \in [Calls -> Replies \cup {NoReply}]
  /\ screen \in [Calls -> BOOLEAN]
  /\ sent \in [Calls -> Nat]
  /\ rec \in [Calls -> Records]

\* The dialog lock is held exactly while one call has an open dialog: no path
\* out of a call leaks it (then no dialog would ever open again) or frees the
\* lock of another call.
LockMatchesDialogs ==
  /\ dialog_lock <=> \E c \in Calls : dialog[c] = "open"
  /\ \A c, d \in Calls : dialog[c] = "open" /\ dialog[d] = "open" => c = d

\* While stdout works the client shows at most one dialog, and only one of a
\* call that is still pending: neither an answer from the phone, a cancel, an
\* expiry nor the end of input leaves a dialog behind.
OneLiveDialogShown ==
  ~broken => \A c, d \in Calls :
               screen[c] => c \in active /\ (screen[d] => c = d)

\* A call puts at most one result on stdout, whatever fails after the result.
AtMostOneResult == \A c \in Calls : sent[c] <= 1

\* The answer returned is the one the inbox keeps: a terminal answer without a
\* note is the recorded one, an inbox answer is the phone's.  Never both.
AnswerIsTheRecordedOne ==
  \A c \in Calls : sent[c] > 0 =>
    /\ ask[c].payload = "terminal" => rec[c] = [status |-> "delivered", answer |-> "terminal"]
    /\ ask[c].payload \in FromInbox => /\ rec[c].answer = "phone"
                                       /\ rec[c].status \in {"answered", "delivered"}

\* An inbox note says what happened.  "unavailable": a post failed.
\* "unsupported": the inbox refused the words, so, unless a post failed or the
\* clean-up was refused, it has not kept them and the question no longer waits on
\* the phone (record_terminal_answer).
NotesAreTrue ==
  \A c \in Calls : sent[c] > 0 =>
    /\ ask[c].payload = "unavailable" => faulty
    /\ ask[c].payload = "unsupported" /\ ~faulty =>
         rec[c].answer # "terminal" /\ rec[c].status # "pending"

\* When no post failed, a call that is over leaves nothing standing on the
\* phone: its record is no longer pending, and an inbox answer it returned is
\* marked delivered.
NoStandingPush ==
  \A c \in Calls : pc[c] = "ended" /\ ~faulty =>
    /\ rec[c].status # "pending"
    /\ sent[c] > 0 /\ ask[c].payload \in FromInbox => rec[c].status = "delivered"

\* A call that is cancelled before its last look at the cancel event stays
\* silent for good.
SilentAfterCancel ==
  \A c \in Calls :
    [](cancel[c] /\ sent[c] = 0 /\ pc[c] \notin {"send", "error"} => [](sent[c] = 0))

\* Every pending call ends, or the process exits.
CallsEnd == \A c \in Calls : c \in active ~> (c \notin active \/ eof)
=============================================================================
