---------------------------- MODULE OwnershipProof ----------------------------
(***************************************************************************)
(* Proofs about the .owner markers for any set of boxes and any number of  *)
(* folders.                                                                *)
(***************************************************************************)
EXTENDS Ownership, TLAPS

USE DEF outside, Folders, Root, Nowhere

\* Type correctness, one step per action.
THEOREM TypeCorrect == OwnerSpec => []OwnerTypeOK
<1>1. OwnerInit => OwnerTypeOK
  BY OwnershipAssumption DEF OwnerInit, OwnerTypeOK, Disks, Marks, RunPlaces
<1>2. OwnerTypeOK /\ [OwnerNext]_ownerVars => OwnerTypeOK'
  <2> SUFFICES ASSUME OwnerTypeOK, [OwnerNext]_ownerVars PROVE OwnerTypeOK'
    OBVIOUS
  <2> USE OwnershipAssumption DEF OwnerTypeOK, Advance, RunOver, RunPlaces
  <2>h. \A b \in Boxes : Here(b) \in Disks
    BY DEF Here, Disks
  <2>m. \A b \in Boxes : b \in Marks /\ "empty" \in Marks
    BY DEF Marks
  <2>s. ASSUME NEW b \in Boxes, folder[b] \in Folders
        PROVE  /\ [folder EXCEPT ![b] = folder[b] + 1] \in [Boxes -> 1..Nowhere]
               /\ [folder EXCEPT ![b] = Root] \in [Boxes -> 1..Nowhere]
    <3>1. folder[b] + 1 \in 1..Nowhere /\ Root \in 1..Nowhere
      BY <2>s
    <3> QED BY <3>1
  <2>1. ASSUME NEW b \in Boxes, Start(b) PROVE OwnerTypeOK'
    BY <2>1 DEF Start
  <2>2. ASSUME NEW b \in Boxes, ReadMarker(b) PROVE OwnerTypeOK'
    <3>0. folder[b] \in Folders
      BY <2>2 DEF ReadMarker
    <3>1. folder' \in [Boxes -> 1..Nowhere] /\ place' \in [Boxes -> RunPlaces]
      <4>1. /\ folder' = folder \/ folder' = [folder EXCEPT ![b] = Root] \/ folder' = [folder EXCEPT ![b] = folder[b] + 1]
            /\ place' = place \/ place' = [place EXCEPT ![b] = "claim"]
        BY <2>2 DEF ReadMarker
      <4>2. folder' \in [Boxes -> 1..Nowhere]
        BY ONLY <4>1, <2>s, <3>0, OwnerTypeOK DEF OwnerTypeOK
      <4>3. place' \in [Boxes -> RunPlaces]
        BY <4>1
      <4> QED BY <4>2, <4>3
    <3>2. place[b] = "refuse" /\ (place' = place \/ place' = [place EXCEPT ![b] = "claim"])
      BY <2>2 DEF ReadMarker
    <3>3. folder' = [folder EXCEPT ![b] = folder'[b]] /\ folder'[b] \in Folders
      BY <2>2 DEF ReadMarker
    <3> QED BY <2>2, <3>1, <3>2, <3>3 DEF ReadMarker
  <2>3. ASSUME NEW b \in Boxes, Refused(b) PROVE OwnerTypeOK'
    BY <2>3 DEF Refused
  <2>4. ASSUME NEW b \in Boxes, SkipLost(b) PROVE OwnerTypeOK'
    BY <2>4 DEF SkipLost, NextFolder
  <2>5. ASSUME NEW b \in Boxes, Look(b) PROVE OwnerTypeOK'
    BY <2>5 DEF Look
  <2>6. ASSUME NEW b \in Boxes, Open(b) PROVE OwnerTypeOK'
    <3>0. folder[b] \in Folders
      BY <2>6 DEF Open
    <3>1. mark' \in [Disks -> [Folders -> Marks]]
      <4>1. UNCHANGED mark \/ SetMark(b, "empty")
        BY <2>6 DEF Open
      <4> HIDE DEF Folders
      <4>2. [mark[Here(b)] EXCEPT ![folder[b]] = "empty"] \in [Folders -> Marks]
        BY <2>h, <2>m, <3>0
      <4>3. SetMark(b, "empty") => mark' \in [Disks -> [Folders -> Marks]]
        BY <2>h, <4>2 DEF SetMark
      <4> QED BY <4>1, <4>3
    <3>2. PICK p \in {"write", "settle", "again"} : Advance(b, p)
      BY <2>6 DEF Open
    <3> QED BY <2>6, <3>0, <3>1, <3>2 DEF Open
  <2>7. ASSUME NEW b \in Boxes, Write(b) PROVE OwnerTypeOK'
    BY <2>7, <2>h, <2>m DEF Write, SetMark
  <2>8. ASSUME NEW b \in Boxes, Again(b) PROVE OwnerTypeOK'
    BY <2>8 DEF Again
  <2>9. ASSUME NEW b \in Boxes, Settle(b) PROVE OwnerTypeOK'
    <3>0. folder[b] \in Folders
      BY <2>9 DEF Settle
    <3>1. folder' \in [Boxes -> 1..Nowhere]
      BY <2>9, <2>s, <3>0 DEF Settle, NextFolder
    <3>2. claims' \in [Boxes -> SUBSET Folders]
      <4> HIDE DEF Folders
      <4> QED BY <2>9, <3>0 DEF Settle
    <3> QED BY <2>9, <3>1, <3>2 DEF Settle, NextFolder
  <2>10. ASSUME NEW b \in Boxes, Reach(b) PROVE OwnerTypeOK'
    BY <2>10 DEF Reach
  <2>11. ASSUME NEW b \in Boxes, End(b) \/ KillRun(b) PROVE OwnerTypeOK'
    <3>1. RunOver(b) /\ UNCHANGED outside
      BY <2>11 DEF End, KillRun
    <3> HIDE DEF Nowhere
    <3>2. Nowhere \in 1..Nowhere
      BY DEF Nowhere
    <3> QED BY <3>1, <3>2
  <2>12. ASSUME NEW b \in Boxes, Remount(b) PROVE OwnerTypeOK'
    BY <2>12 DEF Remount
  <2>13. CASE UNCHANGED ownerVars
    BY <2>13 DEF ownerVars
  <2> QED BY <2>1, <2>2, <2>3, <2>4, <2>5, <2>6, <2>7, <2>8, <2>9, <2>10, <2>11, <2>12,
             <2>13 DEF OwnerNext, RunStep
<1> QED BY <1>1, <1>2, PTL DEF OwnerSpec

-----------------------------------------------------------------------------
(* Who may write a marker: the one that created it, while it is empty.      *)

\* The marker a run has just created is empty, and no other run is about to
\* write it.
WriteInv ==
  \A a \in Boxes : place[a] = "write" =>
    /\ mark[Here(a)][folder[a]] = "empty"
    /\ \A b \in Boxes : place[b] = "write" /\ Here(b) = Here(a) /\ folder[b] = folder[a] => a = b

\* A marker changes in two ways: from none to empty, from empty to the box that
\* created it.
LEMMA MarkStep ==
  ASSUME OwnerTypeOK, WriteInv, [OwnerNext]_ownerVars
  PROVE  \/ UNCHANGED mark
         \/ \E b \in Boxes :
              /\ place[b] = "open" /\ place' = [place EXCEPT ![b] = "write"]
              /\ mark[Here(b)][folder[b]] = "none"
              /\ mark' = [mark EXCEPT ![Here(b)][folder[b]] = "empty"]
              /\ UNCHANGED <<sharing, claims, folder, foreign>>
         \/ \E b \in Boxes :
              /\ place[b] = "write" /\ place' = [place EXCEPT ![b] = "settle"]
              /\ mark[Here(b)][folder[b]] = "empty"
              /\ mark' = [mark EXCEPT ![Here(b)][folder[b]] = b]
              /\ UNCHANGED <<sharing, claims, folder, foreign>>
<1>1. ASSUME NEW b \in Boxes, Open(b), ~UNCHANGED mark
      PROVE  /\ place[b] = "open" /\ place' = [place EXCEPT ![b] = "write"]
             /\ mark[Here(b)][folder[b]] = "none"
             /\ mark' = [mark EXCEPT ![Here(b)][folder[b]] = "empty"]
             /\ UNCHANGED <<sharing, claims, folder, foreign>>
  BY <1>1 DEF Open, Advance, SetMark
<1>2. ASSUME NEW b \in Boxes, Write(b)
      PROVE  /\ place[b] = "write" /\ place' = [place EXCEPT ![b] = "settle"]
             /\ mark[Here(b)][folder[b]] = "empty"
             /\ mark' = [mark EXCEPT ![Here(b)][folder[b]] = b]
             /\ UNCHANGED <<sharing, claims, folder, foreign>>
  BY <1>2 DEF Write, Advance, SetMark, WriteInv
<1>3. UNCHANGED mark \/ \E b \in Boxes : Open(b) \/ Write(b)
  BY DEF OwnerNext, RunStep, Start, ReadMarker, Refused, SkipLost, Look, Again, Settle, Reach, End,
     KillRun, Remount, ownerVars
<1> QED BY <1>1, <1>2, <1>3

\* A marker that names a box is not the one that changes.
LEMMA NamedMarkStays ==
  ASSUME OwnerTypeOK, WriteInv, [OwnerNext]_ownerVars, NEW d \in Disks, NEW f \in Folders,
         mark[d][f] \in Boxes
  PROVE  mark'[d][f] = mark[d][f]
<1>1. mark[d][f] # "none" /\ mark[d][f] # "empty"
  BY OwnershipAssumption
<1>2. mark \in [Disks -> [Folders -> Marks]]
  BY DEF OwnerTypeOK
<1>3. ASSUME NEW b \in Boxes, NEW m, mark[Here(b)][folder[b]] # mark[d][f],
             mark' = [mark EXCEPT ![Here(b)][folder[b]] = m]
      PROVE  mark'[d][f] = mark[d][f]
  <2>1. CASE d = Here(b)
    <3>1. f # folder[b]
      BY <1>3, <2>1
    <3> QED BY <1>2, <1>3, <2>1, <3>1
  <2>2. CASE d # Here(b)
    BY <1>2, <1>3, <2>2
  <2> QED BY <2>1, <2>2
<1> QED BY <1>1, <1>3, MarkStep

\* A run that is about to write its marker only got there by creating it, and
\* stays where it is until it does.
LEMMA WriterStep ==
  ASSUME OwnerTypeOK, [OwnerNext]_ownerVars, NEW b \in Boxes, place'[b] = "write"
  PROVE  /\ folder'[b] = folder[b] /\ (b \in sharing' <=> b \in sharing)
         /\ place[b] = "write" \/ (Open(b) /\ place[b] = "open" /\ mark[Here(b)][folder[b]] = "none"
                                /\ mark' = [mark EXCEPT ![Here(b)][folder[b]] = "empty"])
<1>t. place \in [Boxes -> RunPlaces] /\ folder \in [Boxes -> 1..Nowhere]
  BY DEF OwnerTypeOK
<1>1. ASSUME NEW a \in Boxes, RunStep(a), a # b \/ ~Open(a)
      PROVE  place'[b] = place[b] /\ folder'[b] = folder[b] /\ sharing' = sharing
  BY <1>t, <1>1 DEF RunStep, Start, ReadMarker, Refused, SkipLost, Look, Open, Write, Again,
     Settle, Reach, End, Advance, RunOver, NextFolder
<1>2. ASSUME Open(b)
      PROVE  /\ folder'[b] = folder[b] /\ sharing' = sharing
             /\ place[b] = "open" /\ mark[Here(b)][folder[b]] = "none"
             /\ mark' = [mark EXCEPT ![Here(b)][folder[b]] = "empty"]
  BY <1>t, <1>2 DEF Open, Advance, SetMark
<1>3. ASSUME NEW a \in Boxes, KillRun(a) \/ Remount(a)
      PROVE  place'[b] = place[b] /\ folder'[b] = folder[b] /\ (b \in sharing' <=> b \in sharing)
  BY <1>t, <1>3 DEF KillRun, Remount, RunOver
<1>4. CASE UNCHANGED ownerVars
  BY <1>4 DEF ownerVars
<1> QED BY <1>1, <1>2, <1>3, <1>4 DEF OwnerNext

LEMMA WriteHolds == OwnerSpec => [](OwnerTypeOK /\ WriteInv)
<1>1. OwnerInit => WriteInv
  BY DEF OwnerInit, WriteInv
<1>2. OwnerTypeOK /\ WriteInv /\ [OwnerNext]_ownerVars => WriteInv'
  <2> SUFFICES ASSUME OwnerTypeOK, WriteInv, [OwnerNext]_ownerVars, NEW a \in Boxes, place'[a] = "write"
               PROVE  /\ mark'[Here(a)'][folder'[a]] = "empty"
                      /\ \A b \in Boxes : place'[b] = "write" /\ Here(b)' = Here(a)'
                                          /\ folder'[b] = folder[a]' => a = b
    BY DEF WriteInv
  <2>t. /\ mark \in [Disks -> [Folders -> Marks]] /\ place \in [Boxes -> RunPlaces]
        /\ \A b \in Boxes : Here(b) \in Disks
        /\ \A b \in Boxes : place[b] \in {"open", "write"} => folder[b] \in Folders
    BY DEF OwnerTypeOK, Here, Disks
  <2>h. \A b \in Boxes : place'[b] = "write" => Here(b)' = Here(b) /\ folder'[b] = folder[b]
    BY WriterStep DEF Here
  <2>1. CASE place[a] = "write"
    <3>1. mark[Here(a)][folder[a]] = "empty"
      BY <2>1 DEF WriteInv
    <3>2. mark'[Here(a)][folder[a]] = "empty"
      <4>1. CASE UNCHANGED mark
        BY <3>1, <4>1
      <4>2. ASSUME NEW b \in Boxes, mark[Here(b)][folder[b]] = "none", place[b] = "open",
                   mark' = [mark EXCEPT ![Here(b)][folder[b]] = "empty"]
            PROVE  mark'[Here(a)][folder[a]] = "empty"
        BY <2>t, <2>1, <3>1, <4>2
      <4>3. ASSUME NEW b \in Boxes, place[b] = "write", place' = [place EXCEPT ![b] = "settle"],
                   mark' = [mark EXCEPT ![Here(b)][folder[b]] = b]
            PROVE  mark'[Here(a)][folder[a]] = "empty"
        <5>1. a # b
          BY <2>t, <4>3
        <5>2. Here(b) # Here(a) \/ folder[b] # folder[a]
          BY <2>1, <4>3, <5>1 DEF WriteInv
        <5> QED BY <2>t, <2>1, <3>1, <4>3, <5>2
      <4> QED BY <4>1, <4>2, <4>3, MarkStep
    <3>3. ASSUME NEW b \in Boxes, place'[b] = "write", Here(b)' = Here(a)', folder'[b] = folder'[a]
          PROVE  a = b
      <4>1. Here(b) = Here(a) /\ folder[b] = folder[a]
        BY <2>h, <3>3
      <4>2. place[b] = "write"
        BY <3>1, <3>3, <4>1, WriterStep
      <4> QED BY <2>1, <4>1, <4>2 DEF WriteInv
    <3> QED BY <2>h, <3>2, <3>3
  <2>2. CASE place[a] # "write"
    <3>1. /\ Open(a) /\ place[a] = "open" /\ mark[Here(a)][folder[a]] = "none"
          /\ mark' = [mark EXCEPT ![Here(a)][folder[a]] = "empty"]
      BY <2>2, WriterStep
    <3>2. mark'[Here(a)][folder[a]] = "empty"
      BY <2>t, <3>1
    <3>3. ASSUME NEW b \in Boxes, place'[b] = "write", Here(b)' = Here(a)', folder'[b] = folder'[a]
          PROVE  a = b
      <4>1. Here(b) = Here(a) /\ folder[b] = folder[a]
        BY <2>h, <3>3
      <4>2. place[b] # "write"
        BY <3>1, <4>1 DEF WriteInv
      <4>3. Open(a) => a = b \/ place'[b] = place[b]
        BY <2>t DEF Open, Advance
      <4> QED BY <3>1, <3>3, <4>2, <4>3
    <3> QED BY <2>h, <3>2, <3>3
  <2> QED BY <2>1, <2>2
<1> QED BY <1>1, <1>2, TypeCorrect, PTL DEF OwnerSpec

\* No step replaces or empties a marker that names a box.
THEOREM MarkersNeverFall == OwnerSpec => MarkersStand
<1>1. OwnerTypeOK /\ WriteInv /\ [OwnerNext]_ownerVars
        => \A d \in Disks, f \in Folders : mark[d][f] \in Boxes => mark'[d][f] = mark[d][f]
  BY NamedMarkStays
<1> QED BY <1>1, WriteHolds, PTL DEF OwnerSpec, MarkersStand

-----------------------------------------------------------------------------

\* A claim in a box's database stands for a marker of its own.
THEOREM ClaimsHaveMarkers == OwnerSpec => []ClaimsAreMarked
<1>1. OwnerInit => ClaimsAreMarked
  BY DEF OwnerInit, ClaimsAreMarked
<1>2. OwnerTypeOK /\ WriteInv /\ ClaimsAreMarked /\ [OwnerNext]_ownerVars => ClaimsAreMarked'
  <2> SUFFICES ASSUME OwnerTypeOK, WriteInv, ClaimsAreMarked, [OwnerNext]_ownerVars,
                      NEW b \in Boxes, NEW f \in claims'[b]
               PROVE  mark'[Share][f] = b \/ mark'[b][f] = b
    BY DEF ClaimsAreMarked
  <2>t. /\ mark \in [Disks -> [Folders -> Marks]] /\ claims \in [Boxes -> SUBSET Folders]
        /\ Share \in Disks /\ b \in Disks /\ ~(Nobody \in Boxes)
    BY OwnershipAssumption DEF OwnerTypeOK, Disks
  <2>1. f \in claims[b] \/ (Settle(b) /\ f = folder[b] /\ Owner(b, f) = b /\ UNCHANGED mark)
    BY <2>t DEF OwnerNext, RunStep, Start, ReadMarker, Refused, SkipLost, Look, Open, Write, Again,
       Settle, Reach, End, KillRun, Remount, ownerVars
  <2>2. CASE f \in claims[b]
    <3>1. f \in Folders
      BY <2>t, <2>2
    <3>2. mark[Share][f] = b \/ mark[b][f] = b
      BY <2>2 DEF ClaimsAreMarked
    <3>3. mark[Share][f] = mark'[Share][f] \/ mark[Share][f] # b
      BY <2>t, <3>1, NamedMarkStays
    <3>4. mark[b][f] = mark'[b][f] \/ mark[b][f] # b
      BY <2>t, <3>1, NamedMarkStays
    <3> QED BY <3>2, <3>3, <3>4
  <2>3. CASE Owner(b, f) = b /\ UNCHANGED mark
    BY <2>t, <2>3 DEF Owner, Here
  <2> QED BY <2>1, <2>2, <2>3
<1> QED BY <1>1, <1>2, WriteHolds, PTL DEF OwnerSpec

-----------------------------------------------------------------------------

\* A run that found another box's marker when it began is still reading, and has
\* that marker before it.
RefuseInv ==
  \A b \in Boxes : foreign[b] =>
    place[b] = "refuse" /\ \E f \in Folders : folder[b] <= f /\ Foreign(b, f)

\* A marker of another box stays one.
LEMMA ForeignStays ==
  ASSUME OwnerTypeOK, WriteInv, [OwnerNext]_ownerVars, NEW b \in Boxes, NEW f \in Folders,
         Foreign(b, f), b \in sharing' <=> b \in sharing
  PROVE  Foreign(b, f)'
<1>1. /\ mark \in [Disks -> [Folders -> Marks]] /\ Here(b) \in Disks /\ Here(b)' = Here(b)
  BY DEF OwnerTypeOK, Here, Disks
<1>2. mark[Here(b)][f] \in Boxes \ {b}
  BY OwnershipAssumption DEF Foreign, Owner
<1>3. mark'[Here(b)][f] = mark[Here(b)][f]
  BY <1>1, <1>2, NamedMarkStays
<1> QED BY <1>1, <1>2, <1>3, OwnershipAssumption DEF Foreign, Owner

\* A run that finds another box's marker when it begins marks nothing.
THEOREM RefusedMarksNothing == OwnerSpec => []RefusedRunMarksNothing
<1>1. OwnerInit => RefuseInv
  BY DEF OwnerInit, RefuseInv
<1>2. OwnerTypeOK /\ WriteInv /\ RefuseInv /\ [OwnerNext]_ownerVars => RefuseInv'
  <2> SUFFICES ASSUME OwnerTypeOK, WriteInv, RefuseInv, [OwnerNext]_ownerVars, NEW b \in Boxes, foreign'[b]
               PROVE  place'[b] = "refuse" /\ \E f \in Folders : folder'[b] <= f /\ Foreign(b, f)'
    BY DEF RefuseInv
  <2>t. /\ place \in [Boxes -> RunPlaces] /\ folder \in [Boxes -> 1..Nowhere]
        /\ foreign \in [Boxes -> BOOLEAN] /\ Last \in Nat \ {0}
    BY OwnershipAssumption DEF OwnerTypeOK
  <2>1. CASE Start(b)
    <3>1. PICK f \in Folders : Foreign(b, f)
      BY <2>t, <2>1 DEF Start
    <3>2. Foreign(b, f)'
      BY <2>1, <3>1, ForeignStays DEF Start
    <3>3. place'[b] = "refuse" /\ folder'[b] = 1
      BY <2>t, <2>1 DEF Start
    <3> QED BY <2>t, <3>1, <3>2, <3>3
  <2>2. CASE ~Start(b)
    <3>1. foreign[b] /\ (b \in sharing' <=> b \in sharing)
      <4>1. ASSUME foreign[b] PROVE place[b] = "refuse"
        BY <4>1 DEF RefuseInv
      <4> QED BY <2>t, <2>2, <4>1
        DEF OwnerNext, RunStep, Start, ReadMarker, Refused, SkipLost, Look, Open, Write, Again, Settle,
            Reach, End, KillRun, Remount, Advance, RunOver, NextFolder, ownerVars
    <3>2. PICK f \in Folders : folder[b] <= f /\ Foreign(b, f)
      BY <3>1 DEF RefuseInv
    <3>3. Foreign(b, f)' /\ place[b] = "refuse"
      BY <3>1, <3>2, ForeignStays DEF RefuseInv
    <3>4. place'[b] = "refuse" /\ (folder'[b] = folder[b] \/ (folder'[b] = folder[b] + 1 /\ ~Foreign(b, folder[b])))
      BY <2>t, <2>2, <3>1, <3>2, <3>3
      DEF OwnerNext, RunStep, Start, ReadMarker, Refused, SkipLost, Look, Open, Write, Again, Settle,
          Reach, End, KillRun, Remount, Advance, RunOver, NextFolder, ownerVars
    <3> QED BY <2>t, <3>2, <3>3, <3>4
  <2> QED BY <2>1, <2>2
<1>3. RefuseInv => RefusedRunMarksNothing
  BY DEF RefuseInv, RefusedRunMarksNothing
<1> QED BY <1>1, <1>2, <1>3, WriteHolds, PTL DEF OwnerSpec
=============================================================================
