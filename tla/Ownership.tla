------------------------------ MODULE Ownership ------------------------------
(***************************************************************************)
(* The .owner markers that keep a second box out of the archive root and   *)
(* the libraries: refuse_foreign and claim (session_archive/cli.py),       *)
(* check_owner (archive.py), lost and the first lines of take              *)
(* (pipeline.py).  Every box has a run of its own at a time (its lock is   *)
(* local) and reads and writes the markers of one share, step by step; a   *)
(* box that has not mounted the share sees the folders on its own disk.    *)
(***************************************************************************)
EXTENDS Naturals

CONSTANTS Boxes, Last, Share, Nobody

ASSUME OwnershipAssumption ==
  /\ Last \in Nat \ {0} /\ Share \notin Boxes
  /\ Nobody \notin Boxes /\ Boxes \cap {"gone", "none", "empty"} = {}

\* The archive root is the first folder, the libraries follow.
Folders == 1..Last
Root == 1

VARIABLES
  mark,      \* .owner of each folder, on the share and on every box's disk
  sharing,   \* the boxes that have the share mounted
  claims,    \* the claims table of each box's state database
  place, folder,    \* a box's run: its place and the folder it is at
  foreign    \* history: the run found another box's marker when it began

ownerVars == <<mark, sharing, claims, place, folder, foreign>>
outside == <<mark, sharing, claims>>

Disks == Boxes \cup {Share}
Marks == {"gone", "none", "empty"} \cup Boxes  \* no folder, no marker, a bare one
RunPlaces == {"off", "refuse", "claim", "open", "write", "again", "settle", "work"}

Here(b) == IF b \in sharing THEN Share ELSE b
Owner(b, f) == LET m == mark[Here(b)][f] IN IF m \in Boxes THEN m ELSE Nobody
Foreign(b, f) == Owner(b, f) \notin {Nobody, b}
Lost(b, f) == f \in claims[b] /\ Owner(b, f) = Nobody

\* Between runs, and once a run has been through them, a box is at no folder.
Nowhere == Last + 1

OwnerInit ==
  /\ \E disk \in [Disks -> {"gone", "none"}] :
       disk[Share] = "none" /\ mark = [d \in Disks |-> [f \in Folders |-> disk[d]]]
  /\ sharing \in SUBSET Boxes
  /\ claims = [b \in Boxes |-> {}]
  /\ place = [b \in Boxes |-> "off"] /\ folder = [b \in Boxes |-> Nowhere]
  /\ foreign = [b \in Boxes |-> FALSE]

Advance(b, p) == place' = [place EXCEPT ![b] = p] /\ UNCHANGED <<folder, foreign>>

\* The run ends, refused, unreachable, through or killed.
RunOver(b) ==
  /\ place' = [place EXCEPT ![b] = "off"] /\ folder' = [folder EXCEPT ![b] = Nowhere]
  /\ foreign' = [foreign EXCEPT ![b] = FALSE]

-----------------------------------------------------------------------------
(* A run, up to its first session.                                          *)

Start(b) ==
  /\ place[b] = "off" /\ place' = [place EXCEPT ![b] = "refuse"]
  /\ folder' = [folder EXCEPT ![b] = Root]
  /\ foreign' = [foreign EXCEPT ![b] = \E f \in Folders : Foreign(b, f)]
  /\ UNCHANGED outside

\* Mutant: only the root's marker is read.
ReadRootOnly(b) ==
  /\ place[b] = "refuse" /\ ~Foreign(b, Root)
  /\ place' = [place EXCEPT ![b] = "claim"] /\ UNCHANGED <<outside, folder, foreign>>

\* Every marker is read before any is written.
ReadMarker(b) ==
  /\ place[b] = "refuse" /\ ~Foreign(b, folder[b])
  /\ IF folder[b] = Last
       THEN place' = [place EXCEPT ![b] = "claim"] /\ folder' = [folder EXCEPT ![b] = Root]
       ELSE folder' = [folder EXCEPT ![b] = @ + 1] /\ UNCHANGED place
  /\ UNCHANGED <<outside, foreign>>

\* Another box's marker, found by any of the reads.
Refused(b) ==
  /\ place[b] \in {"refuse", "claim", "again"} /\ folder[b] # Nowhere /\ Foreign(b, folder[b])
  /\ RunOver(b) /\ UNCHANGED outside

NextFolder(b) ==
  /\ place' = [place EXCEPT ![b] = "claim"]
  /\ folder' = [folder EXCEPT ![b] = @ + 1]
  /\ UNCHANGED foreign

\* A folder claimed before that has no marker is not claimed again.
SkipLost(b) ==
  /\ place[b] = "claim" /\ folder[b] # Nowhere /\ Lost(b, folder[b])
  /\ NextFolder(b) /\ UNCHANGED outside

Look(b) ==
  /\ place[b] = "claim" /\ folder[b] # Nowhere /\ ~Lost(b, folder[b]) /\ ~Foreign(b, folder[b])
  /\ Advance(b, IF Owner(b, folder[b]) = b THEN "settle" ELSE "open")
  /\ UNCHANGED outside

SetMark(b, m) == mark' = [mark EXCEPT ![Here(b)][folder[b]] = m]

\* Mutant: open("w").
OpenOver(b) ==
  /\ place[b] = "open"
  /\ LET m == mark[Here(b)][folder[b]]
     IN IF m = "gone" THEN Advance(b, "settle") /\ UNCHANGED mark
                      ELSE Advance(b, "write") /\ SetMark(b, "empty")
  /\ UNCHANGED <<sharing, claims>>

\* open("x"): the file is there, and empty, before anything is written to it.
Open(b) ==
  /\ place[b] = "open"
  /\ LET m == mark[Here(b)][folder[b]]
     IN CASE m = "none" -> Advance(b, "write") /\ SetMark(b, "empty")
          [] m = "gone" -> Advance(b, "settle") /\ UNCHANGED mark
          [] OTHER -> Advance(b, "again") /\ UNCHANGED mark
  /\ UNCHANGED <<sharing, claims>>

Write(b) ==
  /\ place[b] = "write" /\ Advance(b, "settle") /\ SetMark(b, b)
  /\ UNCHANGED <<sharing, claims>>

\* After FileExistsError: a marker that still names nobody is taken for ours.
Again(b) ==
  /\ place[b] = "again" /\ ~Foreign(b, folder[b])
  /\ Advance(b, "settle") /\ UNCHANGED outside

\* Mutant: a folder that may be used is recorded as claimed.
SettleAll(b) ==
  /\ place[b] = "settle"
  /\ claims' = [claims EXCEPT ![b] = @ \cup {folder[b]}]
  /\ NextFolder(b) /\ UNCHANGED <<mark, sharing>>

Settle(b) ==
  /\ place[b] = "settle"
  /\ claims' = IF Owner(b, folder[b]) = b THEN [claims EXCEPT ![b] = @ \cup {folder[b]}]
                                        ELSE claims
  /\ NextFolder(b) /\ UNCHANGED <<mark, sharing>>

Reachable(b) == mark[Here(b)][Root] # "gone" /\ \A f \in Folders : ~Lost(b, f)

\* The root and the libraries are looked at once more, then sessions follow.
Reach(b) ==
  /\ place[b] = "claim" /\ folder[b] = Nowhere
  /\ IF Reachable(b) THEN Advance(b, "work") ELSE RunOver(b)
  /\ UNCHANGED outside

End(b) == place[b] = "work" /\ RunOver(b) /\ UNCHANGED outside

-----------------------------------------------------------------------------

KillRun(b) == place[b] # "off" /\ RunOver(b) /\ UNCHANGED outside

\* Between its runs a box mounts the share, or loses it.
Remount(b) ==
  /\ place[b] = "off"
  /\ sharing' = IF b \in sharing THEN sharing \ {b} ELSE sharing \cup {b}
  /\ UNCHANGED <<mark, claims, place, folder, foreign>>

RunStep(b) ==
  \/ Start(b) \/ ReadMarker(b) \/ Refused(b) \/ SkipLost(b) \/ Look(b) \/ Open(b)
  \/ Write(b) \/ Again(b) \/ Settle(b) \/ Reach(b) \/ End(b)

OwnerNext == \E b \in Boxes : RunStep(b) \/ KillRun(b) \/ Remount(b)
OwnerSpec == OwnerInit /\ [][OwnerNext]_ownerVars

-----------------------------------------------------------------------------

OwnerTypeOK ==
  /\ mark \in [Disks -> [Folders -> Marks]] /\ sharing \subseteq Boxes
  /\ claims \in [Boxes -> SUBSET Folders]
  /\ place \in [Boxes -> RunPlaces] /\ folder \in [Boxes -> 1..Nowhere]
  /\ foreign \in [Boxes -> BOOLEAN]
  /\ \A b \in Boxes :
       /\ place[b] \notin {"off", "claim", "work"} => folder[b] \in Folders
       /\ place[b] \in {"off", "work"} => folder[b] = Nowhere

\* No step replaces or empties a marker that names a box, whatever boxes do at
\* the same time and wherever they are killed (check_owner).
MarkersStand ==
  [][\A d \in Disks, f \in Folders :
       mark[d][f] \in Boxes => mark'[d][f] = mark[d][f]]_ownerVars

\* A claim in the database stands for a marker of the box's own, on the share or
\* on its own disk (claim reads the marker again before it records it).
ClaimsAreMarked ==
  \A b \in Boxes : \A f \in claims[b] : mark[Share][f] = b \/ mark[b][f] = b

\* "... every marker is read before any is written, and one naming another box
\* exits 1" (ARCHITECTURE.md, lines 775-776): a run that finds such a marker
\* when it begins marks nothing, the folders before that one included.
RefusedRunMarksNothing ==
  \A b \in Boxes : foreign[b] => place[b] \notin {"open", "write"}

\* "... so two boxes never write the same archive" (ARCHITECTURE.md, line 776).
AloneAtWork ==
  \A a, b \in sharing : place[a] = "work" /\ place[b] = "work" => a = b
=============================================================================
