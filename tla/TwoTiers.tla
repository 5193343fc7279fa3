------------------------------- MODULE TwoTiers -------------------------------
(***************************************************************************)
(* What the session archive promises a reader, whatever stops it: archive  *)
(* copies only ever accumulate, a card names a copy that is in the archive *)
(* already, and a session counts as done only once both are there.         *)
(***************************************************************************)
CONSTANTS Sessions, Versions, Areas, None

VARIABLES archived,  \* the content of each session in the archive
          pinned,    \* the copy its card names, per library
          done       \* the content a session is recorded as done with

vars == <<archived, pinned, done>>

Init ==
  /\ archived = [s \in Sessions |-> {}]
  /\ pinned = [s \in Sessions |-> [a \in Areas |-> None]]
  /\ done = [s \in Sessions |-> None]

Archive(s, v) ==
  archived' = [archived EXCEPT ![s] = @ \cup {v}] /\ UNCHANGED <<pinned, done>>

Publish(s, a, v) ==
  /\ v \in archived[s]
  /\ pinned' = [pinned EXCEPT ![s][a] = v] /\ UNCHANGED <<archived, done>>

Finish(s, a) ==
  /\ pinned[s][a] \in archived[s]
  /\ done' = [done EXCEPT ![s] = pinned[s][a]] /\ UNCHANGED <<archived, pinned>>

Reopen(s) == done' = [done EXCEPT ![s] = None] /\ UNCHANGED <<archived, pinned>>

Next == \E s \in Sessions :
          \/ Reopen(s)
          \/ \E v \in Versions : Archive(s, v)
          \/ \E a \in Areas : Finish(s, a) \/ \E v \in Versions : Publish(s, a, v)

Spec == Init /\ [][Next]_vars
=============================================================================
