----------------------------- MODULE ArchiveProof -----------------------------
(***************************************************************************)
(* Proofs about the session archive for any set of transcripts, any number *)
(* of versions and areas, any limits of a run and any number of mishaps.   *)
(***************************************************************************)
EXTENDS ArchiveContract, TLAPS

USE DEF disk, db, share, plan, flight, purse

\* A session in flight is one the run may still take; outside a session nothing
\* is in flight.
IdleInv == IF at \in InFlight THEN left > 0 ELSE cur = None

TypeInv == ArchiveTypeOK /\ IdleInv

-----------------------------------------------------------------------------
(* Types of what the actions are built from.                                *)

\* What record_session writes is a row.
LEMMA RecordedTypes ==
  ASSUME NEW r \in Rows, NEW status \in {"done", "held", "review"},
         NEW v \in Versions, NEW seen \in Versions \cup {None},
         NEW a \in Areas \cup {None}, NEW copy \in Versions \cup {None}
  PROVE  Recorded(r, status, v, seen, a, copy) \in Rows
<1>1. r.holds \in 0..MaxHolds
  BY DEF Rows
<1> DEFINE one == IF status = "held" THEN 1 ELSE 0
           sum == IF r.sha = v THEN r.holds + one ELSE one
           holds == IF status = "done" THEN 0
                    ELSE IF sum > MaxHolds THEN MaxHolds ELSE sum
<1>2. holds \in 0..MaxHolds
  BY <1>1 DEF MaxHolds
<1> QED BY <1>2 DEF Recorded, Rows

\* The session in flight is a queued one, with the SHA of the scan.
LEMMA CurIsQueued ==
  ASSUME ArchiveTypeOK, at \in InFlight
  PROVE  cur \in Sessions /\ cur # None /\ sha[cur] \in Versions
BY ArchiveAssumption DEF ArchiveTypeOK, Candidates, None

\* Recording the session in flight keeps the rows in their type.
LEMMA PutTypes ==
  ASSUME ArchiveTypeOK, at \in InFlight, NEW status \in {"done", "held", "review"},
         NEW a \in Areas \cup {None}, NEW copy \in Versions \cup {None},
         Put(status, a, copy)
  PROVE  row' \in [Sessions -> Rows]
<1>1. cur \in Sessions /\ sha[cur] \in Versions /\ stat[cur] \in Versions \cup {None}
  BY CurIsQueued DEF ArchiveTypeOK
<1>2. row \in [Sessions -> Rows]
  BY DEF ArchiveTypeOK
<1>3. Recorded(row[cur], status, sha[cur], stat[cur], a, copy) \in Rows
  BY <1>1, <1>2, RecordedTypes
<1> QED BY <1>2, <1>3 DEF Put

\* The ledger never shows more than the cap.
LEMMA ChargeTypes ==
  ASSUME ArchiveTypeOK, Charge PROVE spent' \in 0..Cap
BY ArchiveAssumption DEF ArchiveTypeOK, Charge

\* A run that ends leaves its variables empty.
LEMMA OffTypes ==
  ASSUME Off
  PROVE  /\ at' = "off" /\ cur' = None /\ only' \in Sessions \cup {Everything}
         /\ left' \in 0..Limit /\ spent' \in 0..Cap
         /\ stat' \in [Sessions -> Versions \cup {None}] /\ live' \subseteq Sessions
         /\ unjudged' \subseteq Sessions /\ sha' \in [Sessions -> Versions \cup {None}]
         /\ text' \in Versions \cup {None} /\ area' \in Areas \cup {None}
         /\ repeat' \in Stops
         /\ ~(at' \in InFlight) /\ ~(cur' \in Candidates')
BY ArchiveAssumption DEF Off, None, NoStop, Stops, InFlight, Candidates, Everything

\* The rows know only versions.
LEMMA ContentTypes ==
  ASSUME ArchiveTypeOK, NEW s \in Sessions
  PROVE  Content(s) \in Versions \cup {None}
<1>1. row[s] \in Rows /\ file[s] \in Versions
  BY DEF ArchiveTypeOK
<1> QED BY <1>1 DEF Content, Rows
-----------------------------------------------------------------------------
(* Type correctness, one step per action.                                   *)

LEMMA StepTypes ==
  ASSUME TypeInv, Step
  PROVE  TypeInv'
<1> USE ArchiveAssumption DEF TypeInv, ArchiveTypeOK, IdleInv, Proceed, Places
<1>0. ~(None \in Sessions) /\ ("judge" \notin InFlight) /\ ("take" \notin InFlight)
  BY DEF None, InFlight
<1>q. at \in InFlight => cur \in Sessions /\ cur # None /\ sha[cur] \in Versions
  BY CurIsQueued
<1>1. ASSUME NEW s \in Sessions, Judge(s) PROVE TypeInv'
  <2>1. sha' \in [Sessions -> Versions \cup {None}]
    BY <1>1, ContentTypes DEF Judge
  <2> QED BY <1>0, <1>1, <2>1 DEF Judge, Candidates
<1>2. ASSUME NEW s \in Sessions, Take(s) PROVE TypeInv'
  BY <1>2 DEF Take, Candidates, InFlight
<1>3. CASE BeginQueue
  <2>1. CASE mounted
    BY <1>0, <1>3, <2>1 DEF BeginQueue, Stops, Candidates
  <2>2. CASE ~mounted
    BY <1>3, <2>2, OffTypes DEF BeginQueue, Stops
  <2> QED BY <2>1, <2>2
<1>4. CASE NothingToForce  BY <1>4, OffTypes DEF NothingToForce
<1>5. CASE EndRun          BY <1>5, OffTypes DEF EndRun
<1>6. CASE Render          BY <1>6, <1>q DEF Render, Candidates, InFlight
<1>7. CASE Capped          BY <1>7, OffTypes DEF Capped
<1>8. ASSUME NEW a \in Areas, Summarized(a) PROVE TypeInv'
  BY <1>8, <1>q, ChargeTypes DEF Summarized, Candidates, InFlight
<1>9. CASE Unclear
  <2>1. row' \in [Sessions -> Rows]
    BY <1>9, PutTypes DEF Unclear, InFlight
  <2> QED BY <1>9, <1>q, <2>1, ChargeTypes DEF Unclear, Candidates, InFlight
<1>10. CASE Unavailable
  <2>1. stopped' \in Stops
    BY <1>10, <1>q DEF Unavailable, Stops, InFlight
  <2> QED BY <1>10, <2>1, OffTypes DEF Unavailable
<1>11. CASE Hold
  <2>1. row' \in [Sessions -> Rows]
    BY <1>11, PutTypes DEF Hold, PutHeld, InFlight
  <2>2. spent' \in 0..Cap
    BY <1>11, ChargeTypes DEF Hold
  <2> QED BY <1>11, <1>q, <2>1, <2>2 DEF Hold, Candidates, InFlight
<1>12. CASE Copy
  <2>1. copies' \in [Sessions -> [Versions -> Versions \cup {None}]]
    BY <1>12, <1>q DEF Copy, InFlight
  <2> QED BY <1>12, <1>q, <2>1 DEF Copy, Candidates, InFlight
<1>13. CASE WriteCard
  <2>1. cards' \in [Sessions -> [Areas -> Cards]]
    <3>1. [text |-> text, pin |-> sha[cur]] \in Cards /\ cur \in Sessions
      BY <1>13, <1>q DEF WriteCard, Cards, InFlight
    <3>2. cards' = cards \/ cards' = [cards EXCEPT ![cur][area] = [text |-> text, pin |-> sha[cur]]]
      BY <1>13 DEF WriteCard
    <3> HIDE DEF Cards
    <3> QED BY <3>1, <3>2
  <2>2. UNCHANGED <<disk, db, copies, mounted, flight, spent, mishaps, plan, sha, left, cur, repeat>> /\ at' = "record"
    BY <1>13 DEF WriteCard
  <2> QED BY <1>13, <1>q, <2>1, <2>2 DEF WriteCard, Candidates, InFlight
<1>14. CASE RecordDone
  <2>1. row' \in [Sessions -> Rows]
    BY <1>14, <1>q, PutTypes DEF RecordDone, InFlight
  <2> QED BY <1>14, <1>q, <2>1 DEF RecordDone, Candidates, InFlight
<1>15. CASE Leave
  <2>1. left' \in 0..Limit
    BY <1>15 DEF Leave, InFlight
  <2>2. sha' \in [Sessions -> Versions \cup {None}]
    BY <1>15, <1>q DEF Leave, InFlight
  <2>3. cur' \notin Candidates' /\ at' \notin InFlight' /\ cur' = None
    BY <1>0, <1>15 DEF Leave, InFlight, Candidates
  <2> QED BY <1>15, <2>1, <2>2, <2>3 DEF Leave
<1> QED BY <1>1, <1>2, <1>3, <1>4, <1>5, <1>6, <1>7, <1>8, <1>9, <1>10, <1>11,
           <1>12, <1>13, <1>14, <1>15 DEF Step

LEMMA AroundTypes ==
  ASSUME TypeInv, Next, ~Step
  PROVE  TypeInv'
<1> USE ArchiveAssumption DEF TypeInv, ArchiveTypeOK, IdleInv, Places
<1>0. ~(None \in Sessions) /\ ("judge" \notin InFlight) /\ ("off" \notin InFlight)
  BY DEF None, InFlight
<1>q. at \in InFlight => cur \in Sessions /\ cur # None /\ sha[cur] \in Versions
  BY CurIsQueued
<1>1. ASSUME NEW o \in Sessions \cup {Everything}, StartRun(o), mishaps' \in 0..MaxMishaps
      PROVE  TypeInv'
  BY <1>0, <1>1 DEF StartRun, Candidates
<1>m. ASSUME Mishap PROVE mishaps' \in 0..MaxMishaps
  BY <1>m DEF Mishap
<1>2. CASE RunAll
  BY <1>1, <1>2 DEF RunAll
<1>3. ASSUME NEW s \in Sessions, RunOne(s) PROVE TypeInv'
  BY <1>1, <1>3, <1>m DEF RunOne
<1>4. CASE Stop
  <2>1. row' \in [Sessions -> Rows]
    BY <1>4, PutTypes DEF Stop, PutHeld
  <2> QED BY <1>4, <1>m, <2>1, OffTypes DEF Stop
<1>5. CASE Kill     BY <1>5, <1>m, OffTypes DEF Kill
<1>6. CASE Unmount  BY <1>6, <1>m DEF Unmount, runVars, Candidates
<1>7. CASE Mount    BY <1>7 DEF Mount, runVars, Candidates
<1>8. ASSUME NEW s \in Sessions, Change(s) PROVE TypeInv'
  <2>1. file' \in [Sessions -> Versions]
    BY <1>8 DEF Change, Versions
  <2>2. age' \in [Sessions -> {"live", "quiet", "old"}]
    BY <1>8 DEF Change
  <2> QED BY <1>8, <1>m, <2>1, <2>2 DEF Change, runVars, Candidates
<1>9. ASSUME NEW s \in Sessions, Rest(s) PROVE TypeInv'
  BY <1>9 DEF Rest, runVars, Candidates
<1> QED BY <1>2, <1>3, <1>4, <1>5, <1>6, <1>7, <1>8, <1>9 DEF Next

\* TypeInv is inductive.
LEMMA TypesHold == Spec => []TypeInv
<1>1. Init => TypeInv
  BY ArchiveAssumption DEF Init, TypeInv, ArchiveTypeOK, IdleInv, Places, InFlight, Candidates,
     Versions, Rows, NoRow, Stops, NoStop, Cards, NoCard, None, Everything, MaxHolds
<1>2. TypeInv /\ [Next]_vars => TypeInv'
  <2>1. CASE Next
    BY <2>1, StepTypes, AroundTypes
  <2>2. CASE UNCHANGED vars
    BY <2>2 DEF vars, TypeInv, ArchiveTypeOK, IdleInv, Candidates
  <2> QED BY <2>1, <2>2
<1> QED BY <1>1, <1>2, PTL DEF Spec

\* Every variable of the archive keeps its type, whatever stops the run.
THEOREM TypeCorrect == Spec => []ArchiveTypeOK
<1>1. TypeInv => ArchiveTypeOK
  BY DEF TypeInv
<1> QED BY <1>1, TypesHold, PTL

-----------------------------------------------------------------------------
(* The copies.                                                              *)

\* A step writes no copy, or one of the content its name says.
LEMMA CopyStep ==
  ASSUME TypeInv, [Next]_vars
  PROVE  \/ UNCHANGED copies
         \/ /\ at = "copy" /\ mounted /\ copies[cur][sha[cur]] = None
            /\ copies' = [copies EXCEPT ![cur][sha[cur]] = sha[cur]]
<1>1. CASE Copy
  BY <1>1 DEF Copy, Packed
<1>2. CASE ~Copy
  BY <1>2 DEF Next, Step, Judge, Take, BeginQueue, NothingToForce, EndRun, Render, Capped,
     Summarized, Unclear, Unavailable, Hold, WriteCard, RecordDone, Leave, RunAll, RunOne,
     StartRun, Stop, Kill, Unmount, Mount, Change, Rest, vars
<1> QED BY <1>1, <1>2

\* A copy in the archive holds the content its name says (pack_session compares
\* the SHA of what it packed with the scan's).
THEOREM TrueCopies == Spec => []CopiesAreTrue
<1>1. Init => CopiesAreTrue
  BY DEF Init, CopiesAreTrue
<1>2. TypeInv /\ CopiesAreTrue /\ [Next]_vars => CopiesAreTrue'
  <2> SUFFICES ASSUME TypeInv, CopiesAreTrue, [Next]_vars PROVE CopiesAreTrue'
    OBVIOUS
  <2>1. copies \in [Sessions -> [Versions -> Versions \cup {None}]]
    BY DEF TypeInv, ArchiveTypeOK
  <2>2. CASE UNCHANGED copies
    BY <2>2 DEF CopiesAreTrue
  <2>3. CASE copies' = [copies EXCEPT ![cur][sha[cur]] = sha[cur]]
    BY <2>1, <2>3 DEF CopiesAreTrue
  <2> QED BY <2>2, <2>3, CopyStep
<1> QED BY <1>1, <1>2, TypesHold, PTL DEF Spec

-----------------------------------------------------------------------------
(* The order of what is known of a transcript: the stat of the scan is      *)
(* taken before its SHA, and its SHA before whatever the file is now.       *)

InOrder(older, old, new) ==
  older \in Nat /\ old \in Nat /\ new \in Nat /\ older <= old /\ old <= new

RowInv == \A s \in Sessions : InOrder(row[s].stat, row[s].sha, file[s])

ScanInv ==
  /\ at = "off" => Candidates = {}
  /\ at = "judge" => \A s \in Sessions : InOrder(stat[s], stat[s], file[s])
  /\ \A s \in Candidates : InOrder(stat[s], sha[s], file[s])

OrderInv == TypeInv /\ RowInv /\ ScanInv

\* A transcript only ever gets later versions, so the order stays.
LEMMA OrderStays ==
  ASSUME ArchiveTypeOK, [Next]_vars, NEW s \in Sessions
  PROVE  \A x, y : InOrder(x, y, file[s]) => InOrder(x, y, file'[s])
<1>1. file \in [Sessions -> Nat]
  BY ArchiveAssumption DEF ArchiveTypeOK, Versions
<1>2. ASSUME NEW t \in Sessions, file' = [file EXCEPT ![t] = @ + 1]
      PROVE  file'[s] \in Nat /\ file[s] <= file'[s]
  <2>1. CASE s = t
    BY <1>1, <1>2, <2>1
  <2>2. CASE s # t
    BY <1>1, <1>2, <2>2
  <2> QED BY <2>1, <2>2
<1>3. (\E t \in Sessions : file' = [file EXCEPT ![t] = @ + 1]) \/ UNCHANGED file
  BY DEF Next, Step, Judge, Take, BeginQueue, NothingToForce, EndRun, Render, Capped,
     Summarized, Unclear, Unavailable, Hold, Copy, WriteCard, RecordDone, Leave, RunAll,
     RunOne, StartRun, Stop, Kill, Unmount, Mount, Change, Rest, vars
<1>4. file[s] \in Nat /\ file'[s] \in Nat /\ file[s] <= file'[s]
  BY <1>1, <1>2, <1>3
<1> QED BY <1>4 DEF InOrder

\* A step that writes a row writes it for the session in flight, with the SHA
\* and the stat of the scan.
LEMMA RowStep ==
  ASSUME TypeInv, [Next]_vars
  PROVE  \/ UNCHANGED row
         \/ /\ at \in InFlight
            /\ \E r \in Rows :
                 /\ r.sha = sha[cur] /\ r.stat = stat[cur] /\ row' = [row EXCEPT ![cur] = r]
                 /\ r.status = "done" => RecordDone
<1>p. ASSUME at \in InFlight, NEW status \in {"done", "held", "review"},
             NEW a \in Areas \cup {None}, NEW copy \in Versions \cup {None},
             Put(status, a, copy)
      PROVE  \E r \in Rows :
               /\ r.sha = sha[cur] /\ r.stat = stat[cur] /\ row' = [row EXCEPT ![cur] = r]
               /\ r.status = status
  <2>1. /\ cur \in Sessions /\ sha[cur] \in Versions /\ stat[cur] \in Versions \cup {None}
        /\ row[cur] \in Rows
    BY <1>p, CurIsQueued DEF TypeInv, ArchiveTypeOK
  <2> DEFINE r == Recorded(row[cur], status, sha[cur], stat[cur], a, copy)
  <2>2. r \in Rows
    BY <2>1, RecordedTypes
  <2>3. r.sha = sha[cur] /\ r.stat = stat[cur] /\ r.status = status
    BY DEF Recorded
  <2>4. row' = [row EXCEPT ![cur] = r]
    BY <1>p DEF Put
  <2> HIDE DEF r
  <2> QED BY <2>2, <2>3, <2>4
<1>1. CASE Unclear
  BY <1>1, <1>p DEF Unclear, InFlight
<1>2. CASE Hold
  BY <1>2, <1>p DEF Hold, PutHeld, InFlight
<1>3. CASE Stop
  BY <1>3, <1>p DEF Stop, PutHeld
<1>4. CASE RecordDone
  <2>1. area \in Areas \cup {None} /\ sha[cur] \in Versions
    BY <1>4, CurIsQueued DEF RecordDone, TypeInv, ArchiveTypeOK, InFlight
  <2> QED BY <1>4, <1>p, <2>1 DEF RecordDone, InFlight
<1>5. UNCHANGED row \/ Unclear \/ Hold \/ Stop \/ RecordDone
  BY DEF Next, Step, Judge, Take, BeginQueue, NothingToForce, EndRun, Render, Capped,
     Summarized, Unavailable, Copy, WriteCard, Leave, RunAll, RunOne,
     StartRun, Kill, Unmount, Mount, Change, Rest, vars
<1> QED BY <1>1, <1>2, <1>3, <1>4, <1>5

\* OrderInv is inductive.
LEMMA OrderHolds == Spec => []OrderInv
<1>1. Init => RowInv /\ ScanInv
  BY ArchiveAssumption DEF Init, RowInv, ScanInv, Candidates, NoRow, None, InOrder
<1>2. OrderInv /\ [Next]_vars => RowInv' /\ ScanInv'
  <2> SUFFICES ASSUME OrderInv, [Next]_vars PROVE RowInv' /\ ScanInv'
    OBVIOUS
  <2>t. ArchiveTypeOK /\ TypeInv /\ RowInv /\ ScanInv
    BY DEF OrderInv, TypeInv
  <2>f. \A s \in Sessions :
          \A x, y : InOrder(x, y, file[s]) => InOrder(x, y, file'[s])
    BY <2>t, OrderStays
  <2>c. at \in InFlight => cur \in Candidates /\ cur \in Sessions
    BY <2>t, CurIsQueued DEF ArchiveTypeOK
  <2>1. RowInv'
    <3>1. CASE UNCHANGED row
      BY <2>t, <2>f, <3>1 DEF RowInv
    <3>2. ASSUME at \in InFlight, NEW r \in Rows, r.sha = sha[cur], r.stat = stat[cur],
                 row' = [row EXCEPT ![cur] = r]
          PROVE  RowInv'
      <4>1. InOrder(r.stat, r.sha, file[cur])
        BY <2>t, <2>c, <3>2 DEF ScanInv
      <4>2. row \in [Sessions -> Rows]
        BY <2>t DEF ArchiveTypeOK
      <4>3. ASSUME NEW s \in Sessions PROVE InOrder(row'[s].stat, row'[s].sha, file[s])
        <5>1. CASE s = cur
          BY <3>2, <4>1, <4>2, <5>1
        <5>2. CASE s # cur
          <6>1. row'[s] = row[s]
            BY <3>2, <4>2, <5>2
          <6> QED BY <2>t, <6>1 DEF RowInv
        <5> QED BY <5>1, <5>2
      <4> QED BY <2>f, <4>3 DEF RowInv
    <3> QED BY <2>t, <3>1, <3>2, RowStep
  <2>2. ScanInv'
    <3>1. ASSUME UNCHANGED <<at, stat, sha>> PROVE ScanInv'
      <4>1. Candidates' = Candidates
        BY <3>1 DEF Candidates
      <4> QED BY <2>t, <2>f, <3>1, <4>1 DEF ScanInv, Candidates
    <3>2. ASSUME at' \notin {"off", "judge"}, stat' = stat,
                 \A s \in Sessions : sha'[s] \in {sha[s], None}
          PROVE  ScanInv'
      <4>1. ASSUME NEW s \in Candidates' PROVE s \in Candidates /\ sha'[s] = sha[s]
        BY <3>2, <4>1 DEF Candidates
      <4> QED BY <2>t, <2>f, <3>2, <4>1 DEF ScanInv, Candidates
    <3>3. ASSUME Off PROVE ScanInv'
      BY <3>3 DEF Off, ScanInv, Candidates
    <3>4. ASSUME NEW o, StartRun(o) PROVE ScanInv'
      <4>1. Candidates = {} /\ Candidates' = Candidates
        BY <2>t, <3>4 DEF StartRun, ScanInv, Candidates
      <4>2. \A s \in Sessions : InOrder(file[s], file[s], file[s])
        BY <2>t, ArchiveAssumption DEF ArchiveTypeOK, Versions, InOrder
      <4> QED BY <3>4, <4>1, <4>2 DEF StartRun, ScanInv
    <3>5. ASSUME NEW s \in Sessions, Judge(s) PROVE ScanInv'
      <4>1. InOrder(stat[s], Content(s), file[s])
        <5>1. InOrder(stat[s], stat[s], file[s]) /\ InOrder(row[s].stat, row[s].sha, file[s])
          BY <2>t, <3>5 DEF Judge, ScanInv, RowInv
        <5> QED BY <5>1 DEF Content, Known, InOrder
      <4>2. sha' = [sha EXCEPT ![s] = IF Eligible(s) THEN Content(s) ELSE None]
        BY <3>5 DEF Judge
      <4>3. sha \in [Sessions -> Versions \cup {None}]
        BY <2>t DEF ArchiveTypeOK
      <4>4. ASSUME NEW t \in Candidates' PROVE InOrder(stat[t], sha'[t], file[t])
        <5>1. CASE t = s
          BY <4>1, <4>2, <4>3, <4>4, <5>1 DEF Candidates
        <5>2. CASE t # s
          BY <2>t, <4>2, <4>3, <4>4, <5>2 DEF Candidates, ScanInv
        <5> QED BY <5>1, <5>2
      <4> QED BY <2>t, <3>5, <4>4 DEF Judge, ScanInv
    <3>6. ASSUME Leave PROVE ScanInv'
      <4>1. sha \in [Sessions -> Versions \cup {None}]
        BY <2>t DEF ArchiveTypeOK
      <4> QED BY <3>2, <3>6, <4>1 DEF Leave
    <3>7. CASE Step
      BY <3>1, <3>2, <3>3, <3>5, <3>6, <3>7
      DEF Step, Take, BeginQueue, NothingToForce, EndRun, Render, Capped, Summarized,
          Unclear, Unavailable, Hold, Copy, WriteCard, RecordDone, Proceed
    <3>8. CASE Next /\ ~Step
      BY <3>1, <3>3, <3>4, <3>8
      DEF Next, RunAll, RunOne, Stop, Kill, Unmount, Mount, Change, Rest, runVars
    <3> QED BY <3>1, <3>7, <3>8 DEF vars
  <2> QED BY <2>1, <2>2
<1> QED BY <1>1, <1>2, TypesHold, PTL DEF Spec, OrderInv

\* A transcript that looks as it did when its row was written has the row's SHA,
\* so the scan's shortcut by size and mtime never hides a resumed session.
THEOREM NothingPassedOver == Spec => []NothingIsPassedOver
<1>1. OrderInv => NothingIsPassedOver
  <2>1. ASSUME OrderInv, NEW s \in Sessions, row[s].stat = file[s]
        PROVE  row[s].sha = file[s]
    <3>1. InOrder(row[s].stat, row[s].sha, file[s])
      BY <2>1 DEF OrderInv, RowInv
    <3> QED BY <2>1, <3>1 DEF InOrder
  <2> QED BY <2>1 DEF NothingIsPassedOver
<1> QED BY <1>1, OrderHolds, PTL

-----------------------------------------------------------------------------
(* The two tiers, when the share does not go away in the middle of a run:   *)
(* what the session in flight has written already.                          *)

PipeInv ==
  /\ at \notin {"off", "judge"} => mounted
  /\ at \in {"copy", "card", "record"} => area \in Areas
  /\ at \in {"card", "record"} => copies[cur][sha[cur]] = sha[cur]
  /\ at = "record" => cards[cur][area].pin = sha[cur]

TierInv == TypeInv /\ PipeInv

\* A step that writes a card writes the one of the session in flight.
LEMMA CardStep ==
  ASSUME [Next]_vars, ~WriteCard
  PROVE  UNCHANGED cards
BY DEF Next, Step, Judge, Take, BeginQueue, NothingToForce, EndRun, Render, Capped,
   Summarized, Unclear, Unavailable, Hold, Copy, RecordDone, Leave, RunAll, RunOne,
   StartRun, Stop, Kill, Unmount, Mount, Change, Rest, vars

\* TierInv is inductive.
LEMMA TiersHold ==
  ASSUME MidRun = FALSE
  PROVE  Spec => []TierInv
<1>1. Init => PipeInv
  BY DEF Init, PipeInv
<1>2. TierInv /\ [Next]_vars => PipeInv'
  <2> SUFFICES ASSUME TierInv, [Next]_vars PROVE PipeInv'
    OBVIOUS
  <2> USE DEF PipeInv, Proceed
  <2>t. ArchiveTypeOK /\ PipeInv
    BY DEF TierInv, TypeInv
  <2>c. at \in InFlight => cur \in Sessions /\ sha[cur] \in Versions
    BY <2>t, CurIsQueued
  <2>1. ASSUME at' \in {"off", "judge"} PROVE PipeInv'
    BY <2>1
  <2>2. ASSUME at' \in {"take", "render", "model", "leave"}, at \notin {"off", "judge"},
               mounted' = mounted
        PROVE  PipeInv'
    BY <2>t, <2>2
  <2>3. ASSUME NEW a \in Areas, Summarized(a) PROVE PipeInv'
    BY <2>t, <2>3 DEF Summarized
  <2>4. CASE Copy
    <3>1. copies \in [Sessions -> [Versions -> Versions \cup {None}]]
      BY <2>t DEF ArchiveTypeOK
    <3>2. copies'[cur][sha[cur]] = sha[cur]
      BY <2>t, <2>c, <2>4, <3>1 DEF Copy, Packed, InFlight
    <3> QED BY <2>t, <2>4, <3>2 DEF Copy
  <2>5. CASE WriteCard
    <3>1. cards \in [Sessions -> [Areas -> Cards]]
      BY <2>t DEF ArchiveTypeOK
    <3>2. cards'[cur][area].pin = sha[cur]
      BY <2>t, <2>c, <2>5, <3>1 DEF WriteCard, InFlight
    <3> QED BY <2>t, <2>5, <3>2 DEF WriteCard
  <2>6. CASE BeginQueue
    BY <2>6 DEF BeginQueue, Off
  <2>7. CASE Step
    BY <2>1, <2>2, <2>3, <2>4, <2>5, <2>6, <2>7
    DEF Step, Judge, Take, NothingToForce, EndRun, Render, Capped, Unclear, Unavailable,
        Hold, RecordDone, Leave, Off
  <2>8. ASSUME UNCHANGED <<at, copies, cards, runVars>>,
               mounted' = mounted \/ mounted' \/ at \in {"off", "judge"}
        PROVE  PipeInv'
    BY <2>t, <2>8 DEF runVars
  <2>9. CASE Next /\ ~Step
    BY <2>1, <2>8, <2>9
    DEF Next, RunAll, RunOne, StartRun, Stop, Kill, Off, Unmount, Mount, Change, Rest, runVars
  <2>10. CASE UNCHANGED vars
    BY <2>8, <2>10 DEF vars, runVars
  <2> QED BY <2>7, <2>9, <2>10
<1> QED BY <1>1, <1>2, TypesHold, PTL DEF Spec, TierInv

DoneInv == \A s \in Sessions :
  row[s].status = "done" => row[s].sha \in Versions /\ copies[s][row[s].sha] = row[s].sha

\* As long as the share stays for a run, a session that is done has its copy in
\* the archive; with MidRun the share may go away during one.
THEOREM DoneNeedsTheShare ==
  ASSUME MidRun = FALSE
  PROVE  Spec => []DoneIsArchived
<1>1. Init => DoneInv
  BY DEF Init, DoneInv, NoRow
<1>2. TierInv /\ DoneInv /\ [Next]_vars => DoneInv'
  <2> SUFFICES ASSUME TierInv, DoneInv, [Next]_vars,
                      NEW s \in Sessions, row'[s].status = "done"
               PROVE  row'[s].sha \in Versions /\ copies'[s][row'[s].sha] = row'[s].sha
    BY DEF DoneInv
  <2>t. ArchiveTypeOK /\ PipeInv /\ TypeInv
    BY DEF TierInv, TypeInv
  <2>1. row'[s].sha \in Versions /\ copies[s][row'[s].sha] = row'[s].sha
    <3>1. CASE row'[s] = row[s]
      BY <3>1 DEF DoneInv
    <3>2. CASE row'[s] # row[s]
      <4>1. PICK r \in Rows : /\ r.sha = sha[cur] /\ row' = [row EXCEPT ![cur] = r]
                              /\ r.status = "done" => RecordDone
        BY <2>t, <3>2, RowStep
      <4>2. row \in [Sessions -> Rows]
        BY <2>t DEF ArchiveTypeOK
      <4>3. s = cur /\ row'[s] = r
        BY <3>2, <4>1, <4>2
      <4>4. at = "record" /\ sha[cur] \in Versions
        BY <2>t, <4>1, <4>3, CurIsQueued DEF RecordDone, InFlight
      <4> QED BY <2>t, <4>1, <4>3, <4>4 DEF PipeInv
    <3> QED BY <3>1, <3>2
  <2>2. copies \in [Sessions -> [Versions -> Versions \cup {None}]]
    BY <2>t DEF ArchiveTypeOK
  <2> QED BY <2>t, <2>1, <2>2, CopyStep
<1>3. DoneInv => DoneIsArchived
  BY DEF DoneInv, DoneIsArchived
<1> QED BY <1>1, <1>2, <1>3, TiersHold, PTL DEF Spec

\* The archive implements the two tiers: a card only names a copy that is in the
\* archive, and a session is done only with both.  Writing the copy, the card
\* and the row are the contract's Archive, Publish and Finish, a row that says
\* otherwise is its Reopen, every other step is none of its business.
THEOREM ImplementsTwoTiers ==
  ASSUME MidRun = FALSE
  PROVE  Spec => KeepsTwoTiers
<1>1. Init => Tiers!Init
  BY DEF Init, Tiers!Init, NoRow, NoCard, Versions, None
<1>2. TierInv /\ [Next]_vars => [Tiers!Next]_Tiers!vars
  <2> SUFFICES ASSUME TierInv, [Next]_vars PROVE [Tiers!Next]_Tiers!vars
    OBVIOUS
  <2> DEFINE archived == [s \in Sessions |-> {v \in Versions : copies[s][v] = v}]
             pinned == [s \in Sessions |-> [a \in Areas |-> cards[s][a].pin]]
             done == [s \in Sessions |->
                        IF row[s].status = "done" THEN row[s].sha ELSE None]
  <2>t. /\ PipeInv /\ ArchiveTypeOK /\ TypeInv
        /\ copies \in [Sessions -> [Versions -> Versions \cup {None}]]
        /\ cards \in [Sessions -> [Areas -> Cards]] /\ row \in [Sessions -> Rows]
    BY DEF TierInv, TypeInv, ArchiveTypeOK
  <2>c. at \in InFlight => cur \in Sessions /\ sha[cur] \in Versions /\ sha[cur] # None
    BY <2>t, CurIsQueued DEF None, Versions
  <2>1. UNCHANGED copies => UNCHANGED archived
    OBVIOUS
  <2>2. UNCHANGED cards => UNCHANGED pinned
    OBVIOUS
  <2>3. UNCHANGED row => UNCHANGED done
    OBVIOUS
  <2>4. CASE ~UNCHANGED copies
    <3>1. /\ at = "copy" /\ copies' = [copies EXCEPT ![cur][sha[cur]] = sha[cur]]
          /\ cur \in Sessions /\ sha[cur] \in Versions
      BY <2>t, <2>c, <2>4, CopyStep DEF InFlight
    <3>2. archived' = [archived EXCEPT ![cur] = @ \cup {sha[cur]}]
      BY <2>t, <3>1
    <3>3. UNCHANGED <<cards, row>>
      BY <2>4
      DEF Next, Step, Judge, Take, BeginQueue, NothingToForce, EndRun, Render, Capped,
          Summarized, Unclear, Unavailable, Hold, Copy, WriteCard, RecordDone, Leave,
          RunAll, RunOne, StartRun, Stop, Kill, Unmount, Mount, Change, Rest, vars
    <3> QED BY <2>2, <2>3, <3>1, <3>2, <3>3 DEF Tiers!Next, Tiers!Archive
  <2>5. CASE UNCHANGED copies /\ WriteCard
    <3>1. /\ cur \in Sessions /\ sha[cur] \in Versions /\ area \in Areas /\ UNCHANGED row
          /\ copies[cur][sha[cur]] = sha[cur]
          /\ cards' = [cards EXCEPT ![cur][area] = [text |-> text, pin |-> sha[cur]]]
      BY <2>t, <2>c, <2>5 DEF WriteCard, PipeInv, InFlight
    <3>2. pinned' = [pinned EXCEPT ![cur][area] = sha[cur]]
      BY <2>t, <3>1
    <3>3. sha[cur] \in archived[cur]
      BY <3>1
    <3> QED BY <2>1, <2>3, <2>5, <3>1, <3>2, <3>3 DEF Tiers!Next, Tiers!Publish
  <2>6. CASE UNCHANGED copies /\ ~WriteCard /\ ~UNCHANGED row
    <3>1. UNCHANGED cards
      BY <2>6, CardStep
    <3>2. PICK r \in Rows : /\ at \in InFlight /\ r.sha = sha[cur]
                            /\ row' = [row EXCEPT ![cur] = r]
                            /\ r.status = "done" => RecordDone
      BY <2>t, <2>6, RowStep
    <3>3. done' = [done EXCEPT ![cur] = IF r.status = "done" THEN sha[cur] ELSE None]
      BY <2>t, <2>c, <3>2
    <3>4. CASE r.status = "done"
      <4>1. at = "record" /\ area \in Areas /\ cards[cur][area].pin = sha[cur]
            /\ copies[cur][sha[cur]] = sha[cur]
        BY <2>t, <3>2, <3>4 DEF RecordDone, PipeInv
      <4>2. pinned[cur][area] = sha[cur] /\ sha[cur] \in archived[cur]
        BY <2>c, <3>2, <4>1
      <4>3. done' = [done EXCEPT ![cur] = pinned[cur][area]]
        BY <3>3, <3>4, <4>2
      <4>4. UNCHANGED archived /\ UNCHANGED pinned
        BY <2>1, <2>2, <2>6, <3>1
      <4>5. \E s \in Sessions : \E a \in Areas : Tiers!Finish(s, a)
        BY <2>c, <3>2, <4>1, <4>2, <4>3, <4>4 DEF Tiers!Finish
      <4> QED BY <4>5 DEF Tiers!Next
    <3>5. CASE r.status # "done"
      BY <2>c, <2>1, <2>2, <2>6, <3>1, <3>2, <3>3, <3>5 DEF Tiers!Next, Tiers!Reopen
    <3> QED BY <3>4, <3>5
  <2>7. CASE UNCHANGED copies /\ ~WriteCard /\ UNCHANGED row
    BY <2>1, <2>2, <2>3, <2>7, CardStep DEF Tiers!vars
  <2> QED BY <2>4, <2>5, <2>6, <2>7
<1> QED BY <1>1, <1>2, TiersHold, PTL DEF Spec, KeepsTwoTiers, Tiers!Spec
=============================================================================
