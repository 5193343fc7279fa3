--------------------------- MODULE FirstAnswerWins ---------------------------
(***************************************************************************)
(* What ask_question promises a caller, whatever happens on the way: every *)
(* question is decided once, by the terminal, by the phone or by being     *)
(* closed; what the call returns is that decision, or the terminal's words *)
(* marked as unconfirmed, or an error; there is one dialog at a time, and  *)
(* it is off the screen before its call returns.                           *)
(***************************************************************************)
CONSTANT Calls

VARIABLES verdict,  \* whose answer the inbox keeps for a call
          outcome,  \* what the call returned
          asking    \* the calls with an open dialog

vars == <<verdict, outcome, asking>>

Init ==
  /\ verdict = [c \in Calls |-> "none"]
  /\ outcome = [c \in Calls |-> "none"]
  /\ asking = {}

Ask(c) ==
  /\ asking = {} /\ outcome[c] = "none"
  /\ asking' = {c} /\ UNCHANGED <<verdict, outcome>>

Hide(c) == c \in asking /\ asking' = {} /\ UNCHANGED <<verdict, outcome>>

Settle(c, v) ==
  /\ verdict[c] = "none" /\ verdict' = [verdict EXCEPT ![c] = v]
  /\ UNCHANGED <<asking, outcome>>

Return(c, o) ==
  /\ outcome[c] = "none" /\ c \notin asking
  /\ o \in {"terminal", "phone"} => verdict[c] = o
  /\ outcome' = [outcome EXCEPT ![c] = o] /\ UNCHANGED <<verdict, asking>>

Next == \E c \in Calls :
          \/ Ask(c) \/ Hide(c)
          \/ \E v \in {"terminal", "phone", "closed"} : Settle(c, v)
          \/ \E o \in {"terminal", "phone", "unconfirmed", "error"} : Return(c, o)

Spec == Init /\ [][Next]_vars
=============================================================================
