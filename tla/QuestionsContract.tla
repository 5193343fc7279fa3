-------------------------- MODULE QuestionsContract --------------------------
(***************************************************************************)
(* How the ask_question server implements FirstAnswerWins, and a sentence  *)
(* of its design document that the code does not keep.                     *)
(***************************************************************************)
EXTENDS Questions

Decision(c) == IF rec[c].answer # "none" THEN rec[c].answer
               ELSE IF rec[c].status = "closed" THEN "closed" ELSE "none"

OutcomeOf(payload) == IF payload \in FromInbox THEN "phone"
                      ELSE IF payload \in {"unavailable", "unsupported"} THEN "unconfirmed" ELSE payload
Outcome(c) == IF sent[c] = 0 THEN "none" ELSE OutcomeOf(ask[c].payload)

Contract == INSTANCE FirstAnswerWins
              WITH verdict <- [c \in Calls |-> Decision(c)],
                   outcome <- [c \in Calls |-> Outcome(c)],
                   asking <- {c \in Calls : dialog[c] = "open"}

\* Every behaviour of the server is one the contract allows.
KeepsContract == Contract!Spec

\* "... add `discarded_terminal_answer`: <text> so nothing typed is lost
\* silently" (design document, line 110): when the phone's answer is returned
\* alone, no words from the terminal were waiting in the dialog's slot.
NothingTypedIsLost ==
  \A c \in Calls :
    sent[c] > 0 /\ ask[c].payload = "inbox" => response[c] # "text"

=============================================================================
