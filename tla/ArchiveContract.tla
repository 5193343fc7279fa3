--------------------------- MODULE ArchiveContract ---------------------------
(***************************************************************************)
(* How the session archive implements TwoTiers, and two sentences of its   *)
(* documentation that the code does not keep.                              *)
(***************************************************************************)
EXTENDS SessionArchive

Tiers == INSTANCE TwoTiers
              WITH archived <- [s \in Sessions |-> {v \in Versions : copies[s][v] = v}],
                   pinned <- [s \in Sessions |-> [a \in Areas |-> cards[s][a].pin]],
                   done <- [s \in Sessions |->
                              IF row[s].status = "done" THEN row[s].sha ELSE None]

\* Every behaviour of the archive is one the contract allows: with kills and
\* stops between any two steps, no card ever names a copy that is not there
\* and no session is done before it has both.
KeepsTwoTiers == Tiers!Spec

\* "... a gzipped copy of the whole transcript, which the card's Pointer block
\* names" (ARCHITECTURE.md, lines 716-717): the copy a card names is of the
\* transcript the card was written from.
CardMatchesCopy ==
  \A s \in Sessions, a \in Areas : cards[s][a].text = cards[s][a].pin

\* "an unreachable archive root or library takes no session" (ARCHITECTURE.md,
\* lines 755-756): a session that is done has its copy in the archive.
DoneIsArchived ==
  \A s \in Sessions : row[s].status = "done" => copies[s][row[s].sha] = row[s].sha
=============================================================================
