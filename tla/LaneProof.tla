------------------------------- MODULE LaneProof -------------------------------
(***************************************************************************)
(* Proofs about the lane's commands for any counts and any number of runs, *)
(* about the cut of a record for any sizes, about the gate's ledger for    *)
(* any boxes, about any record's texts and about any card.                 *)
(***************************************************************************)
EXTENDS LaneCommand, SessionText, SessionCard, Decisions, SequenceFacts

\* Only the process that has the lock is past it, and the run that takes
\* sessions started the newest row, which has no count yet.
Past == {"open", "scan", "take", "leave"}
SerialInv ==
  \A p \in Procs :
    /\ proc[p].step \in Past => lock = {p}
    /\ proc[p].step = "take" =>
         proc[p].row = Len(db.rows) /\ db.rows # <<>> /\ db.rows[proc[p].row].eligible = {}

\* The newest of the counts is the last full run's.
NewestCount(rows, count) ==
  \/ count = {} /\ \A i \in DOMAIN rows : rows[i].eligible = {}
  \/ /\ count # {}
     /\ \E top \in DOMAIN rows :
          rows[top].eligible = count /\ \A i \in DOMAIN rows : i > top => rows[i].eligible = {}
CountInv == NewestCount(db.rows, lastFull)

RowType == [over : BOOLEAN, eligible : SUBSET Nat]
LaneInv == LaneTypeOK /\ SerialInv /\ CountInv

-----------------------------------------------------------------------------
(* The newest count.                                                        *)

LEMMA NewestIsLast ==
  ASSUME NEW rows \in Seq(RowType), NEW count, NewestCount(rows, count)
  PROVE  LastCount(rows) = count
<1> DEFINE counted == {i \in DOMAIN rows : rows[i].eligible # {}}
<1>1. CASE count = {}
  <2>1. counted = {}
    BY <1>1 DEF NewestCount
  <2> QED BY <1>1, <2>1 DEF LastCount
<1>2. CASE count # {}
  <2>1. PICK top \in DOMAIN rows :
          rows[top].eligible = count /\ \A i \in DOMAIN rows : i > top => rows[i].eligible = {}
    BY <1>2 DEF NewestCount
  <2>2. DOMAIN rows = 1..Len(rows)
    OBVIOUS
  <2>3. top \in counted /\ \A j \in counted : j <= top
    BY <1>2, <2>1, <2>2
  <2>4. \A i \in counted : (\A j \in counted : j <= i) => i = top
    BY <2>2, <2>3
  <2>5. (CHOOSE i \in counted : \A j \in counted : j <= i) = top
    BY <2>3, <2>4
  <2> QED BY <2>1, <2>3, <2>5 DEF LastCount
<1> QED BY <1>1, <1>2

-----------------------------------------------------------------------------
(* The invariant.                                                           *)

LEMMA LaneInitially == LaneInit => LaneInv
BY LaneAssumption DEF LaneInit, LaneInv, LaneTypeOK, SerialInv, CountInv, NewestCount, Idle, Environments,
   Commands, Steps, Past, Procs, Writers

ProcType == [cmd : Commands, step : Steps, env : Environments, row : Nat, found : Nat]

LEMMA StartedRecord ==
  ASSUME NEW r \in ProcType, NEW n, NEW f
  PROVE  [[[r EXCEPT !.step = "take"] EXCEPT !.row = n] EXCEPT !.found = f]
           = [cmd |-> r.cmd, step |-> "take", env |-> r.env, row |-> n, found |-> f]
<1>1. [r EXCEPT !.step = "take"] = [cmd |-> r.cmd, step |-> "take", env |-> r.env, row |-> r.row, found |-> r.found]
  BY DEF ProcType
<1>2. [[cmd |-> r.cmd, step |-> "take", env |-> r.env, row |-> r.row, found |-> r.found] EXCEPT !.row = n]
        = [cmd |-> r.cmd, step |-> "take", env |-> r.env, row |-> n, found |-> r.found]
  OBVIOUS
<1>3. [[cmd |-> r.cmd, step |-> "take", env |-> r.env, row |-> n, found |-> r.found] EXCEPT !.found = f]
        = [cmd |-> r.cmd, step |-> "take", env |-> r.env, row |-> n, found |-> f]
  OBVIOUS
<1> QED BY <1>1, <1>2, <1>3

LEMMA LaneKeeps == LaneInv /\ [LaneNext]_laneVars => LaneInv'
<1> SUFFICES ASSUME LaneInv, [LaneNext]_laneVars PROVE LaneInv'
  OBVIOUS
<1> USE DEF Commands, Steps, Writers, At, Go
<1>t. LaneTypeOK /\ SerialInv /\ CountInv
  BY DEF LaneInv
<1>g. Good \in Environments /\ Idle \in [cmd : Commands, step : Steps, env : Environments, row : Nat, found : Nat]
  BY DEF Environments, Idle
\* What the ends of a process have in common.
<1>e. ASSUME NEW p \in Procs, Exit(p), UNCHANGED <<db, lastFull>> PROVE LaneInv'
  <2>1. LaneTypeOK'
    BY <1>t, <1>g, <1>e DEF LaneTypeOK, Exit
  <2>2. SerialInv'
    BY <1>t, <1>e DEF LaneTypeOK, SerialInv, Exit, Idle, Past
  <2>3. CountInv'
    BY <1>t, <1>e DEF CountInv
  <2> QED BY <2>1, <2>2, <2>3 DEF LaneInv
<1>1. ASSUME NEW p \in Procs, NEW cmd \in {"run", "session", "dry", "status"}, NEW env \in Environments, Begin(p, cmd, env)
      PROVE  LaneInv'
  <2>1. LaneTypeOK'
    BY <1>t, <1>g, <1>1 DEF LaneTypeOK, Begin, Idle
  <2>2. SerialInv'
    BY <1>t, <1>1 DEF LaneTypeOK, SerialInv, Begin, Idle, Past
  <2>3. CountInv'
    BY <1>t, <1>1 DEF CountInv, Begin
  <2> QED BY <2>1, <2>2, <2>3 DEF LaneInv
<1>2. ASSUME NEW p \in Procs, Load(p) PROVE LaneInv'
  <2>1. CASE Exit(p)
    BY <1>2, <1>e, <2>1 DEF Load
  <2>2. CASE ~Exit(p)
    <3>1. /\ UNCHANGED <<lock, db, lastFull>>
          /\ \E s \in {"lock", "peek", "status"} : proc' = [proc EXCEPT ![p].step = s]
      BY <1>2, <2>2 DEF Load
    <3>2. LaneTypeOK'
      <4>1. PICK s \in {"lock", "peek", "status"} : proc' = [proc EXCEPT ![p].step = s]
        BY <3>1
      <4>2. s \in Steps
        BY <4>1 DEF Steps
      <4>3. proc' \in [Procs -> [cmd : Commands, step : Steps, env : Environments, row : Nat, found : Nat]]
        BY <1>t, <4>1, <4>2, ZenonT(30) DEF LaneTypeOK
      <4> QED BY <1>t, <3>1, <4>3 DEF LaneTypeOK
    <3>3. SerialInv'
      BY <1>t, <3>1 DEF LaneTypeOK, SerialInv, Past
    <3>4. CountInv'
      BY <1>t, <3>1 DEF CountInv
    <3> QED BY <3>2, <3>3, <3>4 DEF LaneInv
  <2> QED BY <2>1, <2>2
<1>3. ASSUME NEW p \in Procs, Single(p) PROVE LaneInv'
  <2>1. CASE lock # {}
    BY <1>3, <1>e, <2>1 DEF Single
  <2>2. CASE lock = {}
    <3>1. lock' = {p} /\ proc' = [proc EXCEPT ![p].step = "open"] /\ UNCHANGED <<db, lastFull>>
      BY <1>3, <2>2 DEF Single
    <3>2. LaneTypeOK'
      BY <1>t, <3>1, ZenonT(30) DEF LaneTypeOK
    <3>3. SerialInv'
      BY <1>t, <2>2, <3>1 DEF LaneTypeOK, SerialInv, Past
    <3>4. CountInv'
      BY <1>t, <3>1 DEF CountInv
    <3> QED BY <3>2, <3>3, <3>4 DEF LaneInv
  <2> QED BY <2>1, <2>2
<1>4. ASSUME NEW p \in Procs, Opened(p) PROVE LaneInv'
  <2>1. /\ proc[p].step = "open" /\ lastFull' = lastFull
        /\ db' = db \/ db' = [db EXCEPT !.made = TRUE]
        /\ Exit(p) \/ (proc' = [proc EXCEPT ![p].step = "scan"] /\ lock' = lock)
    BY <1>4 DEF Opened
  <2>2. db'.rows = db.rows
    BY <1>t, <2>1 DEF LaneTypeOK
  <2>3. LaneTypeOK'
    <3>1. db'.made \in BOOLEAN /\ db' = [made |-> db'.made, rows |-> db'.rows]
      BY <1>t, <2>1 DEF LaneTypeOK
    <3>2. lock' \subseteq Procs /\ proc' \in [Procs -> [cmd : Commands, step : Steps, env : Environments, row : Nat, found : Nat]]
      <4>1. CASE Exit(p)
        BY <1>t, <1>g, <4>1 DEF LaneTypeOK, Exit
      <4>2. CASE proc' = [proc EXCEPT ![p].step = "scan"] /\ lock' = lock
        BY <1>t, <4>2, ZenonT(30) DEF LaneTypeOK
      <4> QED BY <2>1, <4>1, <4>2
    <3> QED BY <1>t, <2>1, <2>2, <3>1, <3>2 DEF LaneTypeOK
  <2>4. SerialInv'
    BY <1>t, <2>1, <2>2 DEF LaneTypeOK, SerialInv, Exit, Idle, Past
  <2>5. CountInv'
    BY <1>t, <2>1, <2>2 DEF CountInv
  <2> QED BY <2>3, <2>4, <2>5 DEF LaneInv
<1>5. ASSUME NEW p \in Procs, NEW found \in Counts \cup {1}, StartRun(p, found) PROVE LaneInv'
  <2> DEFINE row == [over |-> FALSE, eligible |-> {}]
  <2>1. /\ proc[p].step = "scan" /\ Len(db.rows) < MaxRuns /\ UNCHANGED <<lock, lastFull>>
        /\ db' = [db EXCEPT !.rows = Append(db.rows, row)]
        /\ proc' = [proc EXCEPT ![p].step = "take", ![p].row = Len(db.rows) + 1, ![p].found = found]
    BY <1>5 DEF StartRun
  <2>2. /\ db'.rows = Append(db.rows, row) /\ db'.made = db.made /\ db' = [made |-> db'.made, rows |-> db'.rows]
        /\ db.rows \in Seq(RowType) /\ row \in RowType
    BY <1>t, <2>1 DEF LaneTypeOK, RowType
  <2> HIDE DEF row
  <2>p. proc' = [proc EXCEPT ![p] = [cmd |-> proc[p].cmd, step |-> "take", env |-> proc[p].env,
                                     row |-> Len(db.rows) + 1, found |-> found]]
    <3>1. proc \in [Procs -> [cmd : Commands, step : Steps, env : Environments, row : Nat, found : Nat]]
      BY <1>t DEF LaneTypeOK
    <3>2. proc[p] \in ProcType
      BY <3>1 DEF ProcType
    <3>3. [[[proc[p] EXCEPT !.step = "take"] EXCEPT !.row = Len(db.rows) + 1] EXCEPT !.found = found]
            = [cmd |-> proc[p].cmd, step |-> "take", env |-> proc[p].env, row |-> Len(db.rows) + 1, found |-> found]
      BY <3>2, StartedRecord
    <3>4. \A q \in Procs : proc'[q] = IF q = p THEN [[[proc[p] EXCEPT !.step = "take"] EXCEPT !.row = Len(db.rows) + 1]
                                                   EXCEPT !.found = found] ELSE proc[q]
      BY <2>1, <3>1
    <3>5. DOMAIN proc' = Procs /\ proc' = [q \in Procs |-> proc'[q]]
      BY <2>1, <3>1
    <3> QED BY <3>1, <3>3, <3>4, <3>5
  <2>3. /\ Len(db'.rows) = Len(db.rows) + 1 /\ db'.rows[Len(db.rows) + 1] = row
        /\ DOMAIN db'.rows = 1..(Len(db.rows) + 1) /\ DOMAIN db.rows = 1..Len(db.rows)
        /\ \A i \in 1..Len(db.rows) : db'.rows[i] = db.rows[i]
        /\ db'.rows \in Seq(RowType)
    BY <2>2
  <2>4. LaneTypeOK'
    <3>1. found \in Nat /\ Len(db.rows) + 1 \in Nat /\ Len(db'.rows) <= MaxRuns
      BY <2>1, <2>2, <2>3, LaneAssumption
    <3>2. proc' \in [Procs -> [cmd : Commands, step : Steps, env : Environments, row : Nat, found : Nat]]
      BY <1>t, <3>1, <2>p DEF LaneTypeOK
    <3> QED BY <1>t, <2>1, <2>2, <2>3, <3>1, <3>2 DEF LaneTypeOK, RowType
  <2>5. SerialInv'
    <3>1. row.eligible = {}
      BY DEF row
    <3>2. lock = {p} /\ \A q \in Procs : q # p => proc[q].step \notin Past /\ proc'[q] = proc[q]
      BY <1>t, <2>1 DEF LaneTypeOK, SerialInv, Past
    <3>3. proc'[p].row = Len(db'.rows) /\ db'.rows # <<>> /\ db'.rows[proc'[p].row].eligible = {}
      <4>1. proc'[p].row = Len(db.rows) + 1
        BY <1>t, <2>p DEF LaneTypeOK
      <4> QED BY <2>3, <3>1, <4>1
    <3> QED BY <2>1, <3>2, <3>3 DEF SerialInv, Past
  <2>6. CountInv'
    <3>1. row.eligible = {} /\ Len(db.rows) \in Nat
      BY <2>2 DEF row
    <3>2. \A i \in DOMAIN db'.rows : i \in DOMAIN db.rows \/ db'.rows[i].eligible = {}
      BY <2>3, <3>1
    <3>3. \A i \in DOMAIN db.rows : i \in DOMAIN db'.rows /\ db'.rows[i] = db.rows[i]
      BY <2>3, <3>1
    <3> QED BY <1>t, <2>1, <3>2, <3>3 DEF CountInv, NewestCount
  <2> QED BY <2>4, <2>5, <2>6 DEF LaneInv
<1>6. ASSUME NEW p \in Procs, TakeAll(p) PROVE LaneInv'
  <2> DEFINE last == Len(db.rows)
             row == Row(proc[p].cmd, proc[p].found)
  <2>1. /\ proc[p].step = "take" /\ lock' = lock /\ proc' = [proc EXCEPT ![p].step = "leave"]
        /\ db' = [db EXCEPT !.rows[proc[p].row] = row]
        /\ lastFull' = IF proc[p].cmd = "run" THEN {proc[p].found} ELSE lastFull
    BY <1>6 DEF TakeAll, FinishRun
  <2>2. proc[p].row = last /\ lock = {p} /\ db.rows \in Seq(RowType) /\ last \in 1..last
        /\ db.rows[last].eligible = {} /\ row \in RowType /\ proc[p].found \in Nat
    BY <1>t, <2>1 DEF LaneTypeOK, SerialInv, Past, RowType, Row
  <2>3. /\ db'.rows = [db.rows EXCEPT ![last] = row] /\ db'.made = db.made
        /\ db' = [made |-> db'.made, rows |-> db'.rows]
    BY <1>t, <2>1, <2>2 DEF LaneTypeOK
  <2>4. /\ Len(db'.rows) = last /\ db'.rows \in Seq(RowType) /\ DOMAIN db'.rows = 1..last
        /\ DOMAIN db.rows = 1..last
        /\ db'.rows[last] = row /\ \A i \in 1..last : i # last => db'.rows[i] = db.rows[i]
    BY <2>2, <2>3
  <2>5. LaneTypeOK'
    <3>1. proc' \in [Procs -> [cmd : Commands, step : Steps, env : Environments, row : Nat, found : Nat]]
      BY <1>t, <2>1 DEF LaneTypeOK
    <3>2. lastFull' \subseteq Nat
      BY <1>t, <2>1, <2>2 DEF LaneTypeOK
    <3> QED BY <1>t, <2>1, <2>3, <2>4, <3>1, <3>2 DEF LaneTypeOK, RowType
  <2>6. SerialInv'
    <3>1. proc'[p].step = "leave" /\ \A q \in Procs : q # p => proc[q].step \notin Past /\ proc'[q] = proc[q]
      BY <1>t, <2>1 DEF LaneTypeOK, SerialInv, Past
    <3> QED BY <2>1, <2>2, <3>1 DEF SerialInv, Past
  <2>7. CountInv'
    <3>1. CASE proc[p].cmd = "run"
      <4>1. row.eligible = {proc[p].found} /\ lastFull' = {proc[p].found}
        BY <2>1, <3>1 DEF Row
      <4>2. \A i \in 1..last : ~(i > last)
        BY <2>2
      <4> HIDE DEF row, last
      <4> QED BY <2>2, <2>4, <4>1, <4>2 DEF CountInv, NewestCount
    <3>2. CASE proc[p].cmd # "run"
      <4>1. row.eligible = {} /\ lastFull' = lastFull
        BY <2>1, <3>2 DEF Row
      <4> HIDE DEF row
      <4>2. \A i \in 1..last : db'.rows[i].eligible = db.rows[i].eligible
        BY <2>2, <2>4, <4>1
      <4> QED BY <1>t, <2>4, <4>1, <4>2 DEF CountInv, NewestCount
    <3> QED BY <3>1, <3>2
  <2> QED BY <2>5, <2>6, <2>7 DEF LaneInv
<1>7. CASE UNCHANGED laneVars
  BY <1>t, <1>7 DEF laneVars, LaneInv, LaneTypeOK, SerialInv, CountInv
<1> QED
  BY <1>e, <1>1, <1>2, <1>3, <1>4, <1>5, <1>6, <1>7
  DEF LaneNext, Own, NotTaken, Leave, DryRun, Status, Kill

LEMMA LaneHolds == LaneSpec => []LaneInv
BY LaneInitially, LaneKeeps, PTL DEF LaneSpec

-----------------------------------------------------------------------------

\* Every variable of the commands keeps its type.
THEOREM LaneTypes == LaneSpec => []LaneTypeOK
<1>1. LaneInv => LaneTypeOK
  BY DEF LaneInv
<1> QED BY <1>1, LaneHolds, PTL

\* Runs never overlap, however they begin, end and are killed: the one that
\* takes sessions has the newest row and the lock, and no other is past it.
THEOREM RunsNeverOverlap == LaneSpec => []RunsAreSerial
<1>1. LaneInv => RunsAreSerial
  BY DEF LaneInv, SerialInv, RunsAreSerial, Past, At
<1> QED BY <1>1, LaneHolds, PTL

\* `status' tells what the last full run counted.
THEOREM StatusIsRight == LaneSpec => []StatusTellsLastFullRun
<1>1. LaneInv => StatusTellsLastFullRun
  BY NewestIsLast DEF LaneInv, CountInv, LaneTypeOK, StatusTellsLastFullRun, RowType
<1> QED BY <1>1, LaneHolds, PTL

-----------------------------------------------------------------------------
(* A record cut to fit.                                                     *)

Counted(f, n) == f = [m \in 0..n |-> IF m < 10 THEN 1 ELSE 1 + f[m \div 10]]

\* The digits of every number up to the longest text's length can be counted.
LEMMA DigitsCounted == Counted(Digits, MaxChars)
<1> DEFINE S == {n \in Nat : \E f : Counted(f, n)}
<1>1. 0 \in S
  <2> DEFINE f == [m \in 0..0 |-> 1]
  <2>1. f = [m \in 0..0 |-> IF m < 10 THEN 1 ELSE 1 + f[m \div 10]]
    OBVIOUS
  <2> QED BY <2>1 DEF Counted
<1>2. ASSUME NEW n \in Nat, n \in S PROVE n + 1 \in S
  <2>1. PICK f : Counted(f, n)
    BY <1>2
  <2> DEFINE g == [m \in 0..(n + 1) |-> IF m < 10 THEN 1 ELSE 1 + f[m \div 10]]
  <2>2. ASSUME NEW m \in 0..n PROVE g[m] = f[m]
    <3>1. m \in 0..(n + 1)
      OBVIOUS
    <3> QED BY <2>1, <3>1 DEF Counted
  <2>3. ASSUME NEW m \in 0..(n + 1), ~(m < 10) PROVE m \div 10 \in 0..n
    BY <2>3
  <2>4. \A m \in 0..(n + 1) : g[m] = IF m < 10 THEN 1 ELSE 1 + g[m \div 10]
    BY <2>2, <2>3
  <2>5. DOMAIN g = 0..(n + 1) /\ g = [m \in DOMAIN g |-> g[m]]
    OBVIOUS
  <2> HIDE DEF g
  <2>6. g = [m \in 0..(n + 1) |-> IF m < 10 THEN 1 ELSE 1 + g[m \div 10]]
    BY <2>4, <2>5
  <2> QED BY <2>6 DEF Counted
<1>3. MaxChars \in S
  <2> HIDE DEF S
  <2>1. Nat \subseteq S
    BY <1>1, <1>2, NatInductive
  <2> QED BY <2>1, TextAssumption
<1>4. \E f : Counted(f, MaxChars)
  BY <1>3
<1>5. Digits = CHOOSE f : f = [m \in 0..MaxChars |-> IF m < 10 THEN 1 ELSE 1 + f[m \div 10]]
  BY DEF Digits
<1> QED BY <1>4, <1>5 DEF Counted

\* A longer text's length has no fewer digits.
LEMMA DigitsGrow ==
  ASSUME NEW n \in 0..MaxChars
  PROVE  Digits[n] \in Nat \ {0} /\ \A k \in 0..n : Digits[k] <= Digits[n]
<1> DEFINE Grown(m) == Digits[m] \in Nat \ {0} /\ \A k \in 0..m : Digits[k] <= Digits[m]
           S == {m \in Nat : \A j \in 0..m : j <= MaxChars => Grown(j)}
<1>1. MaxChars \in Nat /\ \A m \in 0..MaxChars : Digits[m] = IF m < 10 THEN 1 ELSE 1 + Digits[m \div 10]
  BY DigitsCounted, TextAssumption DEF Counted
<1>2. 0 \in S
  BY <1>1
<1>3. ASSUME NEW m \in Nat, m \in S PROVE m + 1 \in S
  <2> DEFINE j == m + 1
  <2>1. SUFFICES ASSUME j <= MaxChars PROVE Grown(j)
    BY <1>3
  <2>2. j \in 0..MaxChars /\ \A k \in 0..m : k \in 0..MaxChars /\ Grown(k)
    BY <1>1, <1>3, <2>1
  <2>3. CASE j < 10
    <3>1. \A k \in 0..j : k \in 0..MaxChars /\ k < 10
      BY <1>1, <2>1, <2>3
    <3> QED BY <1>1, <2>2, <2>3, <3>1
  <2>4. CASE ~(j < 10)
    <3>1. j \div 10 \in 0..m /\ Digits[j] = 1 + Digits[j \div 10]
      BY <1>1, <2>2, <2>4
    <3>2. Digits[j \div 10] \in Nat \ {0} /\ \A k \in 0..(j \div 10) : Digits[k] <= Digits[j \div 10]
      BY <2>2, <3>1
    <3>3. ASSUME NEW k \in 0..j PROVE Digits[k] <= Digits[j]
      <4>1. k \in 0..MaxChars
        BY <1>1, <2>1
      <4>2. CASE k < 10
        BY <1>1, <3>1, <3>2, <4>1, <4>2
      <4>3. CASE ~(k < 10)
        <5>1. k \div 10 \in 0..(j \div 10) /\ k \div 10 \in 0..m
          BY <3>1, <4>3
        <5>2. Digits[k] = 1 + Digits[k \div 10] /\ Digits[k \div 10] \in Nat
          BY <1>1, <2>2, <4>1, <4>3, <5>1
        <5> QED BY <3>1, <3>2, <5>1, <5>2
      <4> QED BY <4>2, <4>3
    <3> QED BY <3>1, <3>2, <3>3
  <2> QED BY <2>3, <2>4
<1>4. n \in S
  <2> HIDE DEF S
  <2> QED BY <1>1, <1>2, <1>3, NatInductive
<1> QED BY <1>1, <1>4

\* What is cut of a text has a mark no longer than the one reckoned with.
LEMMA MarkTypes ==
  ASSUME NEW n \in 0..MaxChars
  PROVE  Mark(n) \in Nat \ {0} /\ \A k \in 0..n : Mark(k) \in Nat \ {0} /\ Mark(k) <= Mark(n)
<1>1. \A k \in 0..n : k \in 0..MaxChars
  BY TextAssumption
<1> QED BY <1>1, DigitsGrow DEF Mark

\* Cut or whole, a record fits, and no more characters would have.
LEMMA FitFits ==
  ASSUME NEW chars \in 0..MaxChars, NEW width \in {1, 3}, NEW head \in Heads
  PROVE  LET f == Fit(chars, width, head)
         IN /\ f.bytes <= MaxRecord
            /\ f.kept < chars => MaxRecord < head + (f.kept + 1) * width + Mark(chars)
<1> DEFINE room == MaxRecord - head - Mark(chars)
           kept == room \div width
           f == Fit(chars, width, head)
<1>1. MaxRecord \in Nat /\ head \in Nat /\ room \in Nat /\ chars \in Nat
  <2>1. MaxRecord \in Nat /\ head \in Nat /\ chars \in Nat /\ MaxChars \in 0..MaxChars /\ chars <= MaxChars
    BY TextAssumption
  <2>2. Mark(chars) \in Nat /\ Mark(MaxChars) \in Nat /\ Mark(chars) <= Mark(MaxChars)
    BY <2>1, MarkTypes
  <2> QED BY <2>1, <2>2, RoomAssumption
<1>2. CASE head + chars * width <= MaxRecord
  BY <1>2 DEF Fit
<1>3. CASE ~(head + chars * width <= MaxRecord)
  <2>1. f.bytes = head + kept * width + Mark(chars - kept) /\ f.kept = kept
    BY <1>3 DEF Fit
  <2>2. kept \in Nat /\ kept * width <= room /\ room < (kept + 1) * width
    <3>1. CASE width = 1  BY <1>1, <3>1
    <3>2. CASE width = 3  BY <1>1, <3>2
    <3> QED BY <3>1, <3>2
  <2> HIDE DEF kept
  <2>3. Mark(chars) \in Nat \ {0} /\ room = MaxRecord - head - Mark(chars)
    BY MarkTypes
  <2> HIDE DEF room
  <2>4. kept <= chars
    <3>1. CASE width = 1  BY <1>1, <1>3, <2>2, <2>3, <3>1
    <3>2. CASE width = 3  BY <1>1, <1>3, <2>2, <2>3, <3>2
    <3> QED BY <3>1, <3>2
  <2>5. Mark(chars - kept) <= Mark(chars) /\ Mark(chars - kept) \in Nat
    <3>1. chars - kept \in 0..chars
      BY <1>1, <2>2, <2>4
    <3> QED BY <3>1, MarkTypes
  <2>7. CASE width = 1  BY <1>1, <2>1, <2>2, <2>3, <2>5, <2>7
  <2>8. CASE width = 3  BY <1>1, <2>1, <2>2, <2>3, <2>5, <2>8
  <2> QED BY <2>7, <2>8
<1> QED BY <1>2, <1>3

\* fit: a record that is cut is no longer than a window may be, and loses no
\* more than that takes.
THEOREM CutsFit == TextSpec => []CutRecordsFit
<1>1. TextInit => CutRecordsFit
  BY TextAssumption DEF TextInit, CutRecordsFit, NoFit
<1>2. CutRecordsFit /\ [TextNext]_textVars => CutRecordsFit'
  <2> SUFFICES ASSUME CutRecordsFit, [TextNext]_textVars PROVE CutRecordsFit'
    OBVIOUS
  <2>1. CASE UNCHANGED textVars
    BY <2>1 DEF textVars, CutRecordsFit
  <2>2. ASSUME NEW r \in Records, Read(r) PROVE CutRecordsFit'
    BY <2>2 DEF Read, CutRecordsFit
  <2>3. ASSUME NEW chars \in 1..MaxChars, NEW width \in {1, 3}, NEW head \in Heads, Cut(chars, width, head)
        PROVE  CutRecordsFit'
    <3> DEFINE f == Fit(chars, width, head)
    <3>1. fitted' = [chars |-> chars, width |-> width, head |-> head, bytes |-> f.bytes, kept |-> f.kept]
      BY <2>3 DEF Cut
    <3>2. /\ f.bytes <= MaxRecord
          /\ f.kept < chars => MaxRecord < head + (f.kept + 1) * width + Mark(chars)
      <4>1. chars \in 0..MaxChars
        OBVIOUS
      <4> QED BY <4>1, FitFits
    <3> HIDE DEF f
    <3> QED BY <3>1, <3>2 DEF CutRecordsFit
  <2> QED BY <2>1, <2>2, <2>3 DEF TextNext
<1> QED BY <1>1, <1>2, PTL DEF TextSpec

-----------------------------------------------------------------------------
(* What a record renders.                                                   *)

Speakers == {"OPERATOR", "ASSISTANT", "CALL", "RESULT", "HANDBACK", "SYSTEM"}
Notes == {"", "peer", "pasted", "relayed", "summary"}
WordsRead == {Reminder, Task, Long, "<bash-stdout>", "<result>", "<pasted_content>", "[image]", "input", "w"}
Entries == [speaker : Speakers, note : Notes, text : Seq(WordsRead)]

\* A text of a text block.
OfText(r, text) == \E k \in DOMAIN r.blocks : r.blocks[k].kind = "text" /\ r.blocks[k].text = text

\* What a record may render: no text of a machine as the operator's.
FairTo(r) ==
  {e \in Entries :
     e.speaker = "OPERATOR" =>
       /\ r.type \in {"user", "attachment"} /\ FromAPerson(r)
       /\ ~Starts(e.text, SystemTags \cup {Task})
       /\ r.type = "user" => r.flag \notin {"meta", "compact"} /\ (Results(r) => OfText(r, e.text))}

LEMMA RecordTyped ==
  ASSUME NEW r \in Records
  PROVE  /\ r.type \in {"user", "attachment", "assistant"} /\ r.origin \in Origins /\ r.flag \in Flags
         /\ r.blocks \in Seq(Blocks)
<1>1. \A n \in Nat : BoundedSeq(Blocks, n) \subseteq Seq(Blocks)
  <2>1. ASSUME NEW n \in Nat, NEW s \in BoundedSeq(Blocks, n) PROVE s \in Seq(Blocks)
    <3>1. PICK m \in 0..n : s \in [1..m -> Blocks]
      BY <2>1 DEF BoundedSeq, SeqOf
    <3> HIDE DEF Blocks
    <3> QED BY <3>1
  <2> QED BY <2>1
<1>2. BoundedSeq(Blocks, 1) \subseteq Seq(Blocks) /\ BoundedSeq(Blocks, 2) \subseteq Seq(Blocks)
  BY <1>1
<1>3. "none" \in Origins /\ "none" \in Flags
  BY DEF Origins, Flags
<1> QED BY <1>2, <1>3 DEF Records

LEMMA BlockTyped ==
  ASSUME NEW b \in Blocks
  PROVE  b.text \in Seq(WordsRead) /\ b.kind \in {"text", "tool_result", "image", "tool_use"}
<1> DEFINE S == Seq(WordsRead)
<1>1. Reminder \in WordsRead /\ Task \in WordsRead /\ Long \in WordsRead
      /\ \A x \in {"<bash-stdout>", "<result>", "<pasted_content>", "[image]", "input", "w"} : x \in WordsRead
  BY DEF WordsRead
<1>2. /\ <<>> \in S /\ <<"w">> \in S /\ <<"[image]">> \in S /\ <<"input">> \in S
      /\ <<Reminder>> \in S /\ <<"<bash-stdout>">> \in S /\ <<Long>> \in S
      /\ <<Task>> \in S /\ <<Task, "<result>">> \in S /\ <<"w", "<pasted_content>">> \in S
  BY <1>1
<1> HIDE DEF S
<1>3. TextsRead \subseteq S
  BY <1>2 DEF TextsRead
<1>4. b.text \in S
  BY <1>2, <1>3 DEF Blocks
<1> QED BY <1>4 DEF Blocks, S

LEMMA EntryTyped ==
  ASSUME NEW speaker \in Speakers, NEW note \in Notes, NEW text \in Seq(WordsRead)
  PROVE  LET e == Entry(speaker, note, text)
         IN e \in Entries /\ e.speaker = speaker /\ e.text = text
BY DEF Entry, Entries

\* The operator's only when it came from a person, into this session, untagged.
Personal(e, origin, flag) ==
  e.speaker = "OPERATOR" =>
    /\ origin \in {"none", "human"} /\ flag \notin {"internal", "sidechain"}
    /\ ~Starts(e.text, SystemTags \cup {Task})

LEMMA PromptFair ==
  ASSUME NEW text \in Seq(WordsRead), NEW origin \in Origins, NEW flag \in Flags
  PROVE  /\ Prompt(text, origin, flag) \in Entries /\ Prompt(text, origin, flag).text = text
         /\ Personal(Prompt(text, origin, flag), origin, flag)
<1> DEFINE e == Prompt(text, origin, flag)
           Machines == {"HANDBACK", "SYSTEM"}
<1>1. ASSUME NEW speaker \in Machines, NEW note \in Notes, e = Entry(speaker, note, text)
      PROVE  e \in Entries /\ e.text = text /\ e.speaker # "OPERATOR"
  <2>1. speaker \in Speakers /\ speaker # "OPERATOR"
    BY DEF Speakers
  <2> HIDE DEF e
  <2> QED BY <1>1, <2>1, EntryTyped
<1>2. "" \in Notes /\ "peer" \in Notes /\ "pasted" \in Notes /\ "relayed" \in Notes
  BY DEF Notes
<1>3. CASE origin \in {"handback", "peer"} \/ origin = "task-notification" \/ Starts(text, {Task})
  <2>1. \E speaker \in Machines, note \in Notes : e = Entry(speaker, note, text)
    <3>1. CASE origin = "handback"
      BY <1>2, <3>1 DEF Prompt
    <3>2. CASE origin = "peer"
      BY <1>2, <3>2 DEF Prompt
    <3>3. CASE origin \notin {"handback", "peer"}
      <4>1. e = Entry(IF Has(text, "<result>") THEN "HANDBACK" ELSE "SYSTEM", "", text)
        BY <1>3, <3>3 DEF Prompt
      <4> QED BY <1>2, <4>1
    <3> QED BY <3>1, <3>2, <3>3
  <2> HIDE DEF e, Machines
  <2>2. e \in Entries /\ e.text = text /\ e.speaker # "OPERATOR"
    BY <1>1, <2>1
  <2> QED BY <2>2 DEF Personal, e
<1>4. CASE ~(origin \in {"handback", "peer"} \/ origin = "task-notification" \/ Starts(text, {Task}))
  <2>1. e = IF Starts(text, SystemTags) \/ origin = "other" \/ flag \in {"internal", "sidechain"}
              THEN Entry("SYSTEM", "", text)
              ELSE Entry("OPERATOR", IF Has(text, "<pasted_content>") \/ flag = "pasted" THEN "pasted"
                                     ELSE IF Has(text, Long) THEN "relayed" ELSE "", text)
    BY <1>4 DEF Prompt
  <2> HIDE DEF e
  <2>2. CASE Starts(text, SystemTags) \/ origin = "other" \/ flag \in {"internal", "sidechain"}
    <3>1. e \in Entries /\ e.text = text /\ e.speaker # "OPERATOR"
      BY <1>1, <1>2, <2>1, <2>2
    <3> QED BY <3>1 DEF Personal, e
  <2>3. CASE ~(Starts(text, SystemTags) \/ origin = "other" \/ flag \in {"internal", "sidechain"})
    <3>1. origin \in {"none", "human"} /\ ~Starts(text, SystemTags \cup {Task})
      BY <1>4, <2>3 DEF Origins, Starts
    <3>2. PICK note \in Notes : e = Entry("OPERATOR", note, text)
      BY <1>2, <2>1, <2>3
    <3>3. "OPERATOR" \in Speakers
      BY DEF Speakers
    <3>4. e \in Entries /\ e.text = text
      BY <3>2, <3>3, EntryTyped
    <3> QED BY <2>3, <3>1, <3>4 DEF Personal, e
  <2> QED BY <2>2, <2>3
<1> QED BY <1>3, <1>4

\* An entry of another speaker.
LEMMA OtherFair ==
  ASSUME NEW r, NEW speaker \in Speakers \ {"OPERATOR"}, NEW note \in Notes, NEW text \in Seq(WordsRead)
  PROVE  << Entry(speaker, note, text) >> \in Seq(FairTo(r))
<1>1. Entry(speaker, note, text) \in FairTo(r)
  BY EntryTyped DEF FairTo
<1> QED BY <1>1

LEMMA PromptOfRecord ==
  ASSUME NEW r \in Records, NEW text \in Seq(WordsRead), r.type \in {"user", "attachment"},
         r.type = "user" => /\ r.flag # "compact" /\ (r.flag # "meta" \/ r.origin \in {"peer", "handback"})
                            /\ Results(r) => OfText(r, text)
  PROVE  << Prompt(text, r.origin, r.flag) >> \in Seq(FairTo(r))
<1> DEFINE e == Prompt(text, r.origin, r.flag)
<1>1. r.origin \in Origins /\ r.flag \in Flags
  BY RecordTyped
<1>2. e \in Entries /\ Personal(e, r.origin, r.flag) /\ e.text = text
  BY <1>1, PromptFair
<1> HIDE DEF e
<1>3. e \in FairTo(r)
  BY <1>2 DEF FairTo, FromAPerson, Personal
<1> QED BY <1>3 DEF e

LEMMA FlatTyped ==
  ASSUME NEW bs \in Seq(Blocks)
  PROVE  Flat(bs) \in Seq(WordsRead)
<1> DEFINE ss == [i \in DOMAIN bs |-> IF bs[i].kind = "tool_use" THEN <<>> ELSE bs[i].text]
<1>1. ASSUME NEW i \in 1..Len(bs) PROVE bs[i].text \in Seq(WordsRead)
  BY ElementOfSeq, BlockTyped
<1>2. ss \in [1..Len(bs) -> Seq(WordsRead)] /\ Len(bs) \in Nat
  BY <1>1
<1>3. ss \in Seq(Seq(WordsRead))
  <2> HIDE DEF ss
  <2> QED BY <1>2
<1> HIDE DEF ss
<1>4. FlattenSeq(ss) \in Seq(WordsRead)
  BY <1>3, FlattenTyped
<1> QED BY <1>4 DEF Flat, ss

\* What a block of a record renders, where blocks are read for themselves.
LEMMA PartFair ==
  ASSUME NEW r \in Records, NEW b \in Blocks, b.kind = "text" => OfText(r, b.text),
         r.type = "assistant" \/ (r.type = "user" /\ r.flag # "compact"),
         r.type = "user" => r.flag # "meta" \/ r.origin \in {"peer", "handback"}
  PROVE  Part(r, b) \in Seq(FairTo(r))
<1>1. b.text \in Seq(WordsRead) /\ "" \in Notes
  BY BlockTyped DEF Notes
<1>2. CASE r.type = "assistant" /\ b.kind = "text"
  BY <1>1, <1>2, OtherFair DEF Part, Speakers
<1>3. CASE r.type = "assistant" /\ b.kind = "tool_use"
  BY <1>1, <1>3, OtherFair DEF Part, Speakers
<1>4. CASE r.type = "user" /\ b.kind = "tool_result"
  BY <1>1, <1>4, OtherFair DEF Part, Speakers
<1>5. CASE r.type = "user" /\ b.kind = "text" /\ ~Starts(b.text, {Reminder})
  <2>1. Part(r, b) = << Prompt(b.text, r.origin, r.flag) >>
    BY <1>5 DEF Part
  <2> QED BY <1>1, <1>5, <2>1, PromptOfRecord
<1>6. CASE /\ ~(r.type = "assistant" /\ b.kind = "text") /\ ~(r.type = "assistant" /\ b.kind = "tool_use")
           /\ ~(r.type = "user" /\ b.kind = "tool_result")
           /\ ~(r.type = "user" /\ b.kind = "text" /\ ~Starts(b.text, {Reminder}))
  <2>1. Part(r, b) = <<>>
    BY <1>6 DEF Part
  <2> QED BY <2>1
<1> QED BY <1>2, <1>3, <1>4, <1>5, <1>6

LEMMA EachFair ==
  ASSUME NEW r \in Records, r.type = "assistant" \/ (r.type = "user" /\ r.flag # "compact"),
         r.type = "user" => r.flag # "meta" \/ r.origin \in {"peer", "handback"}
  PROVE  /\ [i \in DOMAIN r.blocks |-> Part(r, r.blocks[i])] \in Seq(Seq(FairTo(r)))
         /\ Len([i \in DOMAIN r.blocks |-> Part(r, r.blocks[i])]) = Len(r.blocks)
         /\ FlattenSeq([i \in DOMAIN r.blocks |-> Part(r, r.blocks[i])]) \in Seq(FairTo(r))
<1> DEFINE bs == r.blocks  ss == [i \in DOMAIN bs |-> Part(r, bs[i])]
<1>1. bs \in Seq(Blocks)
  BY RecordTyped
<1> HIDE DEF bs
<1>2. ASSUME NEW i \in 1..Len(bs) PROVE Part(r, bs[i]) \in Seq(FairTo(r))
  <2>1. bs[i] \in Blocks /\ i \in DOMAIN bs
    BY <1>1, ElementOfSeq
  <2>2. bs[i].kind = "text" => OfText(r, bs[i].text)
    BY <2>1 DEF OfText, bs
  <2> QED BY <2>1, <2>2, PartFair
<1>3. ss \in [1..Len(bs) -> Seq(FairTo(r))] /\ Len(bs) \in Nat /\ DOMAIN bs = 1..Len(bs)
  <2>1. DOMAIN bs = 1..Len(bs) /\ Len(bs) \in Nat
    BY <1>1
  <2> QED BY <1>2, <2>1
<1>4. ss \in Seq(Seq(FairTo(r))) /\ Len(ss) = Len(bs)
  <2> HIDE DEF ss
  <2> QED BY <1>3
<1> HIDE DEF ss
<1>5. FlattenSeq(ss) \in Seq(FairTo(r))
  BY <1>4, FlattenTyped
<1> QED BY <1>4, <1>5 DEF ss, bs

LEMMA SaidFair ==
  ASSUME NEW r \in Records
  PROVE  Said(r) \in Seq(FairTo(r))
<1> DEFINE each == FlattenSeq([i \in DOMAIN r.blocks |-> Part(r, r.blocks[i])])
           whole == Flat(r.blocks)
<1>1. r.type \in {"user", "attachment", "assistant"} /\ whole \in Seq(WordsRead) /\ <<>> \in Seq(FairTo(r))
  BY RecordTyped, FlatTyped
<1>2. CASE r.type = "assistant"
  <2>1. Said(r) = each
    BY <1>2 DEF Said
  <2>2. r.type # "user"
    BY <1>2
  <2>3. each \in Seq(FairTo(r))
    <3>1. r.type = "assistant" \/ (r.type = "user" /\ r.flag # "compact")
      BY <1>2
    <3>2. r.type = "user" => r.flag # "meta" \/ r.origin \in {"peer", "handback"}
      BY <2>2
    <3> QED BY <3>1, <3>2, EachFair
  <2> QED BY <2>1, <2>3
<1>3. CASE r.type = "attachment"
  <2>1. << Prompt(whole, r.origin, r.flag) >> \in Seq(FairTo(r))
    BY <1>1, <1>3, PromptOfRecord
  <2>2. Said(r) = IF r.blocks = <<>> THEN <<>> ELSE << Prompt(whole, r.origin, r.flag) >>
    BY <1>3 DEF Said
  <2> QED BY <1>1, <2>1, <2>2
<1>4. CASE r.type = "user"
  <2>1. CASE r.flag = "compact"
    <3>1. Said(r) = << Entry("SYSTEM", "summary", whole) >>
      BY <1>4, <2>1 DEF Said
    <3>2. "summary" \in Notes /\ "SYSTEM" \in Speakers \ {"OPERATOR"}
      BY DEF Speakers, Notes
    <3> QED BY <1>1, <3>1, <3>2, OtherFair
  <2>2. CASE r.flag # "compact" /\ r.flag = "meta" /\ r.origin \notin {"peer", "handback"}
    BY <1>1, <1>4, <2>2 DEF Said
  <2>3. CASE r.flag # "compact" /\ ~(r.flag = "meta" /\ r.origin \notin {"peer", "handback"})
    <3>1. Said(r) = IF Results(r) THEN each ELSE << Prompt(whole, r.origin, r.flag) >>
      BY <1>4, <2>3 DEF Said
    <3>2. each \in Seq(FairTo(r))
      BY <1>4, <2>3, EachFair
    <3>3. ~Results(r) => << Prompt(whole, r.origin, r.flag) >> \in Seq(FairTo(r))
      BY <1>1, <1>4, <2>3, PromptOfRecord
    <3> QED BY <3>1, <3>2, <3>3
  <2> QED BY <2>1, <2>2, <2>3
<1> QED BY <1>1, <1>2, <1>3, <1>4

\* A record that was read rendered what its parts say.
TextInv ==
  \/ record = NoRecord /\ heard = <<>>
  \/ record \in Records /\ heard = Rendered(record)

LEMMA TextHolds == TextSpec => []TextInv
<1>1. TextInit => TextInv
  BY DEF TextInit, TextInv
<1>2. TextInv /\ [TextNext]_textVars => TextInv'
  <2> SUFFICES ASSUME TextInv, [TextNext]_textVars PROVE TextInv'
    OBVIOUS
  <2>1. CASE UNCHANGED textVars
    BY <2>1 DEF textVars, TextInv
  <2>2. ASSUME NEW r \in Records, Read(r) PROVE TextInv'
    BY <2>2 DEF Read, TextInv
  <2>3. ASSUME NEW chars, NEW width, NEW head, Cut(chars, width, head) PROVE TextInv'
    BY <2>3 DEF Cut, TextInv
  <2> QED BY <2>1, <2>2, <2>3 DEF TextNext
<1> QED BY <1>1, <1>2, PTL DEF TextSpec

\* The operator is named as the speaker only of what a person sent, from its first
\* word on, and beside tool results only of one text block alone (render.prompt,
\* said, render).
THEOREM OperatorIsQuoted == TextSpec => []OperatorWordsAreTheOperators
<1>1. TextInv => OperatorWordsAreTheOperators
  <2> SUFFICES ASSUME TextInv, NEW i \in DOMAIN heard, heard[i].speaker = "OPERATOR"
               PROVE  /\ record.type \in {"user", "attachment"} /\ FromAPerson(record)
                      /\ ~Starts(heard[i].text, SystemTags \cup {Task})
                      /\ record.type = "user" =>
                           record.flag \notin {"meta", "compact"} /\ (Results(record) => OfText(record, heard[i].text))
    BY DEF OperatorWordsAreTheOperators, OfText
  <2>1. record \in Records /\ heard = Rendered(record)
    BY DEF TextInv
  <2> DEFINE A == FairTo(record)  said == Said(record)  S == {e \in ToSet(said) : e.text # <<>>}
  <2>2. said \in Seq(A)
    BY <2>1, SaidFair
  <2>3. heard = Only(said, S)
    BY <2>1 DEF Rendered
  <2> HIDE DEF A, S, said
  <2>4. heard \in Seq(A \cap S)
    BY <2>2, <2>3, OnlyTyped
  <2>5. heard[i] \in A \cap S
    BY <2>4
  <2>6. heard[i] \in A
    BY <2>5
  <2> QED BY <2>6 DEF A, FairTo
<1> QED BY <1>1, TextHolds, PTL

\* Where a sequence is found in another it is one of its subsequences.
LEMMA FoundIsSub ==
  ASSUME NEW S, NEW s \in Seq(S), NEW w \in Seq(S), NEW d \in Nat, d + Len(w) <= Len(s),
         \A m \in 1..Len(w) : s[d + m] = w[m]
  PROVE  w \in SubSeqs(s)
<1> DEFINE j == d + Len(w)  u == SubSeq(s, d + 1, j)
<1>1. Len(w) \in Nat /\ Len(s) \in Nat /\ j \in 0..Len(s) /\ d \in 0..Len(s)
  OBVIOUS
<1>2. \A i \in (d + 1)..j : s[i] \in S
  BY <1>1
<1>3. /\ u \in Seq(S) /\ Len(u) = IF d + 1 <= j THEN j - (d + 1) + 1 ELSE 0
      /\ \A i \in 1..(j - (d + 1) + 1) : u[i] = s[(d + 1) + i - 1]
  BY <1>1, <1>2, SubSeqProperties
<1>4. u \in SubSeqs(s)
  BY <1>1 DEF SubSeqs
<1> HIDE DEF u
<1>5. Len(u) = Len(w)
  BY <1>1, <1>3
<1>6. \A i \in 1..Len(w) : u[i] = w[i]
  <2> TAKE i \in 1..Len(w)
  <2>1. i \in 1..(j - (d + 1) + 1) /\ (d + 1) + i - 1 = d + i
    BY <1>1
  <2> QED BY <1>3, <2>1
<1>7. u = w
  <2>1. u \in Seq(S) /\ Len(u) = Len(w) /\ \A i \in 1..Len(u) : u[i] = w[i]
    BY <1>3, <1>5, <1>6
  <2> QED BY <2>1, SeqEqual
<1> QED BY <1>4, <1>7

\* The text of all blocks has each block's.
LEMMA FlatHas ==
  ASSUME NEW bs \in Seq(Blocks), NEW k \in 1..Len(bs), bs[k].kind = "text"
  PROVE  bs[k].text \in SubSeqs(Flat(bs))
<1> DEFINE ss == [i \in DOMAIN bs |-> IF bs[i].kind = "tool_use" THEN <<>> ELSE bs[i].text]
<1>1. ASSUME NEW i \in 1..Len(bs) PROVE bs[i].text \in Seq(WordsRead)
  BY ElementOfSeq, BlockTyped
<1>2. ss \in [1..Len(bs) -> Seq(WordsRead)] /\ Len(bs) \in Nat /\ ss[k] = bs[k].text
  BY <1>1
<1>3. ss \in Seq(Seq(WordsRead)) /\ Len(ss) = Len(bs)
  <2> HIDE DEF ss
  <2> QED BY <1>2
<1> HIDE DEF ss
<1>4. k \in 1..Len(ss)
  BY <1>3
<1>5. PICK d \in Nat : /\ d + Len(ss[k]) <= Len(FlattenSeq(ss))
                       /\ \A m \in 1..Len(ss[k]) : FlattenSeq(ss)[d + m] = ss[k][m]
  <2> DEFINE T == WordsRead
  <2>1. ss \in Seq(Seq(T)) /\ k \in 1..Len(ss)
    BY <1>3, <1>4
  <2> HIDE DEF T
  <2> QED BY <2>1, FlattenPlace
<1>6. FlattenSeq(ss) \in Seq(WordsRead) /\ ss[k] \in Seq(WordsRead)
  BY <1>1, <1>2, <1>3, FlattenTyped
<1> DEFINE s == FlattenSeq(ss)  w == ss[k]
<1> HIDE DEF s, w
<1>7. s \in Seq(WordsRead) /\ w \in Seq(WordsRead) /\ d + Len(w) <= Len(s) /\ \A m \in 1..Len(w) : s[d + m] = w[m]
  BY <1>5, <1>6 DEF s, w
<1>8. w \in SubSeqs(s)
  BY <1>7, FoundIsSub
<1> QED BY <1>2, <1>8 DEF Flat, ss, s, w

\* Only the empty sequence is a part of the empty one.
LEMMA EmptySubs ==
  ASSUME NEW w \in SubSeqs(<<>>)
  PROVE  w = <<>>
<1>1. PICK i \in 0..0, j \in 0..0 : w = SubSeq(<<>>, i + 1, j)
  BY DEF SubSeqs
<1> QED BY <1>1, SubSeqEmpty

\* A sequence is a part of itself.
LEMMA SelfIsSub ==
  ASSUME NEW S, NEW s \in Seq(S)
  PROVE  s \in SubSeqs(s)
<1>1. 0 + Len(s) <= Len(s) /\ \A m \in 1..Len(s) : s[0 + m] = s[m]
  OBVIOUS
<1> QED BY <1>1, FoundIsSub

\* Every text for which the scan takes a session is rendered, word for word, but
\* for those of a record marked as meta (sources.operator_text, render).
THEOREM TakenRenders == TextSpec => []TakenWordsRender
<1>1. TextInv => TakenWordsRender
  <2> SUFFICES ASSUME TextInv, OperatorText(record), record.flag # "meta" \/ record.origin \in {"peer", "handback"},
                      NEW k \in DOMAIN record.blocks, OperatorBlock(record.blocks[k])
               PROVE  \E i \in DOMAIN heard : record.blocks[k].text \in SubSeqs(heard[i].text)
    BY DEF TakenWordsRender
  <2> DEFINE r == record  said == Said(r)  S == {e \in ToSet(said) : e.text # <<>>}
             each == FlattenSeq([i \in DOMAIN r.blocks |-> Part(r, r.blocks[i])])
             whole == Flat(r.blocks)  text == r.blocks[k].text
  <2>1. r \in Records /\ heard = Only(said, S) /\ r.type = "user"
    <3>1. record # NoRecord
      BY DEF OperatorText, NoRecord
    <3> QED BY <3>1 DEF TextInv, OperatorText, Rendered
  <2>2. r.blocks \in Seq(Blocks) /\ DOMAIN r.blocks = 1..Len(r.blocks) /\ said \in Seq(FairTo(r))
    BY <2>1, RecordTyped, SaidFair
  <2>3. /\ k \in 1..Len(r.blocks) /\ r.blocks[k].kind = "text"
        /\ text # <<>> /\ ~Starts(text, {Reminder}) /\ text \in Seq(WordsRead)
    <3>1. r.blocks[k] \in Blocks /\ k \in 1..Len(r.blocks)
      BY <2>2, ElementOfSeq
    <3> QED BY <3>1, BlockTyped DEF OperatorBlock
  <2> HIDE DEF r
  <2>4. text \in SubSeqs(whole) /\ whole \in Seq(WordsRead)
    BY <2>2, <2>3, FlatHas, FlatTyped
  <2> HIDE DEF text
  <2>5. SUFFICES \E j \in 1..Len(said) : said[j].text \in Seq(WordsRead) /\ text \in SubSeqs(said[j].text)
    <3>1. ASSUME NEW j \in 1..Len(said), said[j].text \in Seq(WordsRead), text \in SubSeqs(said[j].text)
          PROVE  \E i \in DOMAIN heard : text \in SubSeqs(heard[i].text)
      <4>1. said[j].text # <<>>
        <5> DEFINE w == said[j].text
        <5> HIDE DEF w
        <5>1. w \in Seq(WordsRead) /\ text \in SubSeqs(w)
          BY <3>1 DEF w
        <5>2. w # <<>>
          BY <2>3, <5>1, EmptySubs
        <5> QED BY <5>2 DEF w
      <4>2. said[j] \in S
        BY <2>2, <3>1, <4>1 DEF ToSet
      <4> HIDE DEF S, said
      <4>3. PICK i \in 1..Len(Only(said, S)) : Only(said, S)[i] = said[j]
        BY <2>2, <3>1, <4>2, OnlyHas
      <4>4. heard \in Seq(FairTo(r) \cap S)
        BY <2>1, <2>2, OnlyTyped
      <4>5. i \in DOMAIN heard /\ heard[i] = said[j]
        BY <2>1, <4>3, <4>4
      <4> QED BY <3>1, <4>5
    <3> HIDE DEF said
    <3> QED BY <3>1 DEF text, r
  <2>6. CASE r.flag = "compact"
    <3>1. said = << Entry("SYSTEM", "summary", whole) >>
      BY <2>1, <2>6 DEF Said
    <3>2. said[1].text = whole /\ 1 \in 1..Len(said)
      BY <3>1 DEF Entry
    <3> QED BY <2>4, <3>2
  <2>7. CASE r.flag # "compact"
    <3>1. said = IF Results(r) THEN each ELSE << Prompt(whole, r.origin, r.flag) >>
      BY <2>1, <2>7 DEF Said, r
    <3>2. CASE Results(r)
      <4> DEFINE ss == [i \in DOMAIN r.blocks |-> Part(r, r.blocks[i])]
      <4>1. ss \in Seq(Seq(FairTo(r))) /\ Len(ss) = Len(r.blocks)
        BY <2>1, <2>7, EachFair DEF r
      <4>2. ss[k] = << Prompt(text, r.origin, r.flag) >>
        BY <2>1, <2>2, <2>3 DEF Part, text
      <4>3. Prompt(text, r.origin, r.flag).text = text
        <5>1. r.origin \in Origins /\ r.flag \in Flags
          BY <2>1, RecordTyped
        <5> QED BY <2>3, <5>1, PromptFair
      <4>4. Len(ss[k]) = 1 /\ ss[k][1] = Prompt(text, r.origin, r.flag)
        <5> DEFINE p == Prompt(text, r.origin, r.flag)  s == ss[k]
        <5>1. s = <<p>>
          BY <4>2
        <5> HIDE DEF p, s
        <5>2. Len(s) = 1 /\ s[1] = p
          BY <5>1
        <5> QED BY <5>2 DEF p, s
      <4>5. k \in 1..Len(ss) /\ 1 \in 1..Len(ss[k])
        BY <2>3, <4>1, <4>4
      <4> HIDE DEF ss
      <4>6. PICK j \in 1..Len(FlattenSeq(ss)) : FlattenSeq(ss)[j] = ss[k][1]
        <5> DEFINE T == FairTo(r)
        <5>1. ss \in Seq(Seq(T)) /\ k \in 1..Len(ss) /\ 1 \in 1..Len(ss[k])
          BY <4>1, <4>5
        <5> HIDE DEF T
        <5> QED BY <5>1, FlattenHas
      <4>7. said = FlattenSeq(ss)
        BY <3>1, <3>2 DEF ss
      <4>8. text \in SubSeqs(text)
        BY <2>3, SelfIsSub
      <4> HIDE DEF said
      <4> QED BY <2>3, <4>3, <4>4, <4>6, <4>7, <4>8
    <3>3. CASE ~Results(r)
      <4>1. r.origin \in Origins /\ r.flag \in Flags
        BY <2>1, RecordTyped
      <4>2. Prompt(whole, r.origin, r.flag).text = whole
        BY <2>4, <4>1, PromptFair
      <4>3. said = << Prompt(whole, r.origin, r.flag) >>
        BY <3>1, <3>3
      <4>4. said[1].text = whole /\ 1 \in 1..Len(said)
        BY <4>2, <4>3
      <4> QED BY <2>4, <4>4
    <3> QED BY <3>2, <3>3
  <2> QED BY <2>6, <2>7
<1> QED BY <1>1, TextHolds, PTL

-----------------------------------------------------------------------------
(* The card.                                                                *)

CardWords ==
  STRING \cup Lines \cup Dates
  \cup {"-", "  >", "\\#", "#", Marker, "Session", "What", "Why", "Pointer", "None.", "Archive:", DateWord, Unverified}
CardLines == Seq(CardWords)

\* A line that is no heading.
PlainLines == {l \in CardLines : l # <<>> /\ l[1] \notin Headings}

LEMMA SeqWiden ==
  ASSUME NEW S, NEW T, S \subseteq T, NEW s \in Seq(S)
  PROVE  s \in Seq(T)
OBVIOUS

\* What begins with a word that is no marker is a plain line.
LEMMA BeginsPlain ==
  ASSUME NEW w \in CardWords, w \notin Headings, NEW s \in CardLines
  PROVE  <<w>> \o s \in PlainLines
<1>1. <<w>> \in CardLines
  BY DEF CardLines
<1>2. <<w>> \o s \in CardLines /\ Len(<<w>> \o s) = 1 + Len(s) /\ (<<w>> \o s)[1] = w
  <2> DEFINE u == <<w>>
  <2>1. u \in Seq(CardWords) /\ s \in Seq(CardWords) /\ Len(u) = 1 /\ u[1] = w
    BY <1>1 DEF CardLines
  <2> HIDE DEF u
  <2>2. /\ u \o s \in Seq(CardWords) /\ Len(u \o s) = Len(u) + Len(s)
        /\ \A i \in 1..(Len(u) + Len(s)) : (u \o s)[i] = IF i <= Len(u) THEN u[i] ELSE s[i - Len(u)]
    BY <2>1, ConcatProperties
  <2>3. 1 \in 1..(Len(u) + Len(s)) /\ 1 <= Len(u)
    BY <2>1
  <2> QED BY <2>1, <2>2, <2>3 DEF CardLines, u
<1>3. <<w>> \o s # <<>>
  <2> DEFINE u == <<w>> \o s
  <2>1. u \in Seq(CardWords) /\ Len(u) # 0
    BY <1>2 DEF CardLines
  <2> HIDE DEF u
  <2>2. u # <<>>
    BY <2>1
  <2> QED BY <2>2 DEF u
<1> QED BY <1>2, <1>3 DEF PlainLines

\* No text of the model's opens a heading (inline).
LEMMA InlinePlain ==
  ASSUME NEW text \in Seq(STRING)
  PROVE  Inline(text) \in CardLines /\ (Inline(text) # <<>> => Inline(text) \in PlainLines)
<1> DEFINE line == OneLine(text)
<1>1. line \in CardLines
  <2>1. line \in Seq(STRING \cap (ToSet(text) \ {Break}))
    BY OnlyTyped DEF OneLine
  <2>2. STRING \cap (ToSet(text) \ {Break}) \subseteq CardWords
    BY DEF CardWords
  <2> HIDE DEF line
  <2> QED BY <2>1, <2>2, SeqWiden DEF CardLines
<1> HIDE DEF line
<1>2. CASE line # <<>> /\ line[1] \in Headings
  <2>1. Inline(text) = <<"\\#">> \o Tail(line)
    BY <1>2 DEF Inline, line
  <2>2. Tail(line) \in CardLines
    BY <1>1, <1>2, HeadTailProperties DEF CardLines
  <2>3. "\\#" \in CardWords /\ "\\#" \notin Headings
    BY DEF CardWords, Headings, Marker
  <2>4. <<"\\#">> \o Tail(line) \in PlainLines
    BY <2>2, <2>3, BeginsPlain
  <2> QED BY <2>1, <2>4 DEF PlainLines
<1>3. CASE ~(line # <<>> /\ line[1] \in Headings)
  <2>1. Inline(text) = line
    BY <1>3 DEF Inline, line
  <2> QED BY <1>1, <1>3, <2>1 DEF PlainLines
<1> QED BY <1>2, <1>3

\* The lines of a quote.
LEMMA QuoteLinesTyped ==
  ASSUME NEW quote \in Seq(STRING)
  PROVE  QuoteLines(quote) \in Seq(CardLines)
<1> DEFINE n == Len(quote)
           A == {acc \in Seq(CardLines) : acc # <<>>}
           base == << <<>> >>
           Next1(acc, w) == IF w = Break THEN Append(acc, <<>>) ELSE [acc EXCEPT ![Len(acc)] = Append(@, w)]
           step == [p \in A \X (1..n) |-> Next1(p[1], quote[p[2]])]
           Grows(f) == f = [i \in 0..n |-> IF i = 0 THEN base ELSE Next1(f[i - 1], quote[i])]
           at == CHOOSE f : Grows(f)
<1>1. n \in Nat /\ <<>> \in CardLines /\ \A i \in 1..n : quote[i] \in CardWords
  <2>1. ASSUME NEW i \in 1..n PROVE quote[i] \in CardWords
    <3>1. quote[i] \in STRING
      BY ElementOfSeq
    <3> QED BY <3>1 DEF CardWords
  <2>2. <<>> \in CardLines
    BY DEF CardLines
  <2> QED BY <2>1, <2>2
<1>2. base \in A
  BY <1>1
<1>3. ASSUME NEW acc \in A, NEW w \in CardWords PROVE Next1(acc, w) \in A
  <2>1. acc \in Seq(CardLines) /\ acc # <<>>
    OBVIOUS
  <2>2. Append(acc, <<>>) \in A
    BY <1>1, <2>1, AppendProperties
  <2>3. [acc EXCEPT ![Len(acc)] = Append(@, w)] \in A
    <3>1. Len(acc) \in 1..Len(acc)
      BY <2>1
    <3>2. acc[Len(acc)] \in CardLines
      BY <2>1, <3>1, ElementOfSeq
    <3>3. Append(acc[Len(acc)], w) \in CardLines
      BY <3>2, AppendProperties DEF CardLines
    <3> DEFINE x == Append(acc[Len(acc)], w)  r == [acc EXCEPT ![Len(acc)] = x]
    <3>4. x \in CardLines
      BY <3>3
    <3> HIDE DEF x, A
    <3>5. r \in Seq(CardLines) /\ Len(r) = Len(acc)
      BY <2>1, <3>1, <3>4, ExceptSeq
    <3>6. r # <<>>
      <4>1. Len(r) # 0 /\ r \in Seq(CardLines)
        BY <3>1, <3>5
      <4> HIDE DEF r
      <4> QED BY <4>1
    <3> QED BY <3>5, <3>6 DEF A, x
  <2> HIDE DEF A
  <2> QED BY <2>2, <2>3
<1> HIDE DEF A, base, Next1
<1>4. step \in [A \X (1..n) -> A]
  BY <1>1, <1>3
<1>5. \E f : Grows(f)
  <2> HIDE DEF step, n
  <2>1. PICK f \in [0..n -> A] : Proceeds(f, base, step, n)
    BY <1>1, <1>2, <1>4, StepsExist
  <2>2. ASSUME NEW i \in 1..n PROVE f[i] = Next1(f[i - 1], quote[i])
    <3>1. f[i - 1] \in A
      BY <1>1
    <3>2. f[i] = step[<<f[i - 1], i>>]
      BY <2>1 DEF Proceeds
    <3> QED BY <3>1, <3>2 DEF step
  <2>3. Grows(f)
    BY <1>1, <2>1, <2>2 DEF Proceeds
  <2> QED BY <2>3
<1>6. Grows(at)
  BY <1>5
<1>7. QuoteLines(quote) = at[n]
  BY DEF QuoteLines, at, Next1, base
<1> HIDE DEF at
<1>8. at[0] = base /\ \A i \in 1..n : at[i] = Next1(at[i - 1], quote[i])
  BY <1>1, <1>6
<1>9. \A i \in 0..n : at[i] \in A
  <2>1. \A i \in 1..n : at[i - 1] \in A => at[i] = step[<<at[i - 1], i>>]
    BY <1>8
  <2>2. at[0] = base
    BY <1>8
  <2> HIDE DEF step, n
  <2> QED BY <1>1, <1>2, <1>4, <2>1, <2>2, StepsTyped
<1>10. at[n] \in A
  BY <1>1, <1>9
<1> QED BY <1>7, <1>10 DEF A

\* A plain line with more words at its end is one.
LEMMA PlainLonger ==
  ASSUME NEW l \in PlainLines, NEW s \in CardLines
  PROVE  l \o s \in PlainLines
<1>1. l \in Seq(CardWords) /\ s \in Seq(CardWords) /\ l # <<>> /\ l[1] \notin Headings
  BY DEF PlainLines, CardLines
<1>2. Len(l) \in Nat \ {0} /\ Len(s) \in Nat
  BY <1>1
<1>3. /\ l \o s \in Seq(CardWords) /\ Len(l \o s) = Len(l) + Len(s)
      /\ \A i \in 1..(Len(l) + Len(s)) : (l \o s)[i] = IF i <= Len(l) THEN l[i] ELSE s[i - Len(l)]
  BY <1>1, ConcatProperties
<1>4. (l \o s)[1] = l[1]
  BY <1>2, <1>3
<1> DEFINE u == l \o s
<1>5. u \in Seq(CardWords) /\ Len(u) # 0 /\ u[1] \notin Headings
  BY <1>1, <1>2, <1>3, <1>4
<1> HIDE DEF u
<1>6. u # <<>>
  BY <1>5
<1> QED BY <1>5, <1>6 DEF u, PlainLines, CardLines

\* What the citation check leaves: anchors that name a line, and the quotes.
LEMMA CitedTyped ==
  ASSUME NEW anchors \in Seq(Lines), NEW quotes, NEW lines \in SUBSET Lines, NEW voices
  PROVE  Cited(anchors, quotes, lines, voices).anchors \in Seq(Lines)
         /\ Cited(anchors, quotes, lines, voices).quotes = quotes
<1> DEFINE pairs == [i \in DOMAIN anchors |-> <<anchors[i], \A j \in 1..(i - 1) : anchors[j] # anchors[i]>>]
           B == Lines \X BOOLEAN
           once == Only(pairs, lines \X {TRUE})
           kept == [i \in DOMAIN once |-> once[i][1]]
<1>1. pairs \in Seq(B)
  <2>1. DOMAIN anchors = 1..Len(anchors) /\ Len(anchors) \in Nat
    BY LenProperties
  <2>2. ASSUME NEW i \in 1..Len(anchors)
        PROVE  <<anchors[i], \A j \in 1..(i - 1) : anchors[j] # anchors[i]>> \in B
    <3>1. anchors[i] \in Lines
      BY ElementOfSeq
    <3>2. (\A j \in 1..(i - 1) : anchors[j] # anchors[i]) \in BOOLEAN
      OBVIOUS
    <3> QED BY <3>1, <3>2, Zenon
  <2>3. pairs \in [1..Len(anchors) -> B]
    BY <2>1, <2>2, Zenon
  <2> HIDE DEF pairs, B
  <2> QED BY <2>1, <2>3, SeqDef
<1> HIDE DEF pairs
<1>2. once \in Seq(B \cap (lines \X {TRUE}))
  BY <1>1, OnlyTyped
<1> HIDE DEF once
<1>3. kept \in Seq(Lines)
  <2>1. DOMAIN once = 1..Len(once) /\ Len(once) \in Nat
    BY <1>2, LenProperties
  <2>2. ASSUME NEW i \in 1..Len(once) PROVE once[i][1] \in Lines
    <3>1. once[i] \in B \cap (lines \X {TRUE})
      BY <1>2, ElementOfSeq
    <3> QED BY <3>1
  <2>3. kept \in [1..Len(once) -> Lines]
    BY <2>1, <2>2
  <2> HIDE DEF kept
  <2> QED BY <2>1, <2>3, SeqDef
<1>4. Cited(anchors, quotes, lines, voices).anchors = kept /\ Cited(anchors, quotes, lines, voices).quotes = quotes
  BY DEF Cited, kept, once, pairs
<1> QED BY <1>3, <1>4

\* Every line of a bullet is a plain line, whatever the quotes say.
LEMMA BulletPlain ==
  ASSUME NEW item, item.anchors \in Seq(Lines), item.quotes \in Seq(Seq(STRING)), NEW text \in Seq(STRING)
  PROVE  Bullet(item, text) \in Seq(PlainLines)
<1> DEFINE mark == IF item.verified THEN << >> ELSE <<Unverified>>
           first == <<"-">> \o Inline(text) \o mark \o item.anchors
           quotes == item.quotes
           Under(q) == LET lines == QuoteLines(q) IN [j \in DOMAIN lines |-> <<"  >">> \o lines[j]]
           ss == [i \in DOMAIN quotes |-> Under(quotes[i])]
<1>1. first \in PlainLines
  <2>1. mark \in CardLines
    <3>1. <<>> \in CardLines
      BY DEF CardLines
    <3>2. Unverified \in CardWords
      BY DEF CardWords
    <3>3. <<Unverified>> \in CardLines
      BY <3>2 DEF CardLines
    <3> QED BY <3>1, <3>3
  <2>2. item.anchors \in CardLines
    <3>1. Lines \subseteq CardWords
      BY DEF CardWords
    <3> QED BY <3>1, SeqWiden DEF CardLines
  <2>3. "-" \in CardWords /\ "-" \notin Headings
    BY DEF CardWords, Headings, Marker
  <2>4. <<"-">> \o Inline(text) \in PlainLines
    BY <2>3, InlinePlain, BeginsPlain
  <2> DEFINE a == <<"-">> \o Inline(text)
  <2>5. a \in PlainLines
    BY <2>4
  <2> HIDE DEF a, mark
  <2>6. a \o mark \in PlainLines
    BY <2>1, <2>5, PlainLonger
  <2>7. (a \o mark) \o item.anchors \in PlainLines
    BY <2>2, <2>6, PlainLonger
  <2> QED BY <2>7 DEF a
<1>2. ASSUME NEW q \in Seq(STRING) PROVE Under(q) \in Seq(PlainLines)
  <2> DEFINE lines == QuoteLines(q)
             w == [j \in DOMAIN lines |-> <<"  >">> \o lines[j]]
  <2>1. lines \in Seq(CardLines)
    BY QuoteLinesTyped
  <2> HIDE DEF lines
  <2>2. DOMAIN lines = 1..Len(lines) /\ Len(lines) \in Nat
    BY <2>1, LenProperties
  <2>3. ASSUME NEW j \in 1..Len(lines) PROVE <<"  >">> \o lines[j] \in PlainLines
    <3>1. lines[j] \in CardLines
      BY <2>1, ElementOfSeq
    <3>2. "  >" \in CardWords /\ "  >" \notin Headings
      BY DEF CardWords, Headings, Marker
    <3> QED BY <3>1, <3>2, BeginsPlain
  <2>4. w \in [1..Len(lines) -> PlainLines]
    BY <2>2, <2>3
  <2>5. Under(q) = w
    BY DEF lines
  <2> HIDE DEF w, Under
  <2> QED BY <2>2, <2>4, <2>5, SeqDef
<1> HIDE DEF Under
<1>3. ss \in Seq(Seq(PlainLines))
  <2>1. quotes \in Seq(Seq(STRING))
    OBVIOUS
  <2> HIDE DEF quotes
  <2>2. DOMAIN quotes = 1..Len(quotes) /\ Len(quotes) \in Nat
    BY <2>1, LenProperties
  <2>3. ASSUME NEW i \in 1..Len(quotes) PROVE Under(quotes[i]) \in Seq(PlainLines)
    <3>1. quotes[i] \in Seq(STRING)
      BY <2>1, ElementOfSeq
    <3> QED BY <1>2, <3>1
  <2> DEFINE B == Seq(PlainLines)
  <2>4. ss \in [1..Len(quotes) -> B]
    BY <2>2, <2>3
  <2> HIDE DEF ss, B
  <2> DEFINE k == Len(quotes)
  <2>5. k \in Nat /\ ss \in [1..k -> B]
    BY <2>2, <2>4
  <2> HIDE DEF k
  <2>6. ss \in Seq(B)
    BY <2>5, SeqDef
  <2> QED BY <2>6 DEF B
<1>4. FlattenSeq(ss) \in Seq(PlainLines)
  <2> HIDE DEF ss
  <2> QED BY <1>3, FlattenTyped
<1>5. <<first>> \o FlattenSeq(ss) \in Seq(PlainLines)
  <2> DEFINE f == FlattenSeq(ss)  h == <<first>>
  <2>1. f \in Seq(PlainLines) /\ h \in Seq(PlainLines)
    <3> HIDE DEF first, f
    <3>1. h \in Seq(PlainLines)
      BY <1>1
    <3> QED BY <1>4, <3>1 DEF f
  <2> HIDE DEF f, h
  <2>2. h \o f \in Seq(PlainLines)
    BY <2>1, ConcatProperties
  <2> QED BY <2>2 DEF f, h
<1>6. Bullet(item, text) = <<first>> \o FlattenSeq(ss)
  BY DEF Bullet, Under
<1> QED BY <1>5, <1>6

\* The lines of a card but its list and its pointer block.
Opening(line) == << <<"#", "Session">>, <<Marker, "What">>, line, <<Marker, "Why">> >>

\* A card with every section: nothing but its headings opens with a marker.
Whole(c) ==
  \E line \in PlainLines, body \in Seq(PlainLines), date \in Dates : c = Opening(line) \o body \o Pointer(date)

LEMMA OpeningTyped ==
  ASSUME NEW line \in PlainLines, NEW date \in Dates
  PROVE  Opening(line) \in Seq(CardLines) /\ Pointer(date) \in Seq(CardLines)
<1>1. {"#", Marker, "Session", "What", "Why", "Pointer", "Archive:", DateWord, date} \subseteq CardWords
  BY DEF CardWords
<1>2. <<"#", "Session">> \in CardLines
  BY <1>1 DEF CardLines
<1>3. <<Marker, "What">> \in CardLines /\ <<Marker, "Why">> \in CardLines /\ PointerLine \in CardLines
  BY <1>1 DEF CardLines, PointerLine
<1>4. <<"Archive:">> \in CardLines /\ <<DateWord, date>> \in CardLines
  BY <1>1 DEF CardLines
<1>5. line \in CardLines
  BY DEF PlainLines
<1> QED BY <1>2, <1>3, <1>4, <1>5 DEF Opening, Pointer

\* Where the lines of a whole card stand.
LEMMA WholePlaces ==
  ASSUME NEW line \in PlainLines, NEW body \in Seq(PlainLines), NEW date \in Dates,
         NEW c, c = Opening(line) \o body \o Pointer(date)
  PROVE  /\ c \in Seq(CardLines) /\ Len(c) \in Nat /\ Len(c) >= 7
         /\ c[1] = <<"#", "Session">> /\ c[2] = <<Marker, "What">> /\ c[4] = <<Marker, "Why">>
         /\ c[Len(c) - 2] = PointerLine /\ c[Len(c) - 1] = <<"Archive:">> /\ c[Len(c)] = <<DateWord, date>>
<1> DEFINE h == Opening(line)  q == Pointer(date)  a == h \o body
<1>1. h \in Seq(CardLines) /\ q \in Seq(CardLines)
  BY OpeningTyped
<1>2. body \in Seq(CardLines)
  <2>1. PlainLines \subseteq CardLines
    BY DEF PlainLines
  <2> QED BY <2>1, SeqWiden
<1>3. Len(h) = 4 /\ h[1] = <<"#", "Session">> /\ h[2] = <<Marker, "What">> /\ h[4] = <<Marker, "Why">>
  BY DEF Opening
<1>4. Len(q) = 3 /\ q[1] = PointerLine /\ q[2] = <<"Archive:">> /\ q[3] = <<DateWord, date>>
  BY DEF Pointer
<1> HIDE DEF h, q
<1>5. /\ a \in Seq(CardLines) /\ Len(a) = Len(h) + Len(body)
      /\ \A i \in 1..(Len(h) + Len(body)) : a[i] = IF i <= Len(h) THEN h[i] ELSE body[i - Len(h)]
  BY <1>1, <1>2, ConcatProperties
<1> HIDE DEF a
<1>6. /\ a \o q \in Seq(CardLines) /\ Len(a \o q) = Len(a) + Len(q)
      /\ \A i \in 1..(Len(a) + Len(q)) : (a \o q)[i] = IF i <= Len(a) THEN a[i] ELSE q[i - Len(a)]
  <2>1. a \in Seq(CardLines) /\ q \in Seq(CardLines)
    BY <1>1, <1>5
  <2> QED BY <2>1, ConcatProperties
<1>7. c = a \o q
  BY DEF a, h, q
<1> DEFINE k == Len(a)
<1>8. k \in Nat /\ Len(a) = k /\ k >= 4 /\ Len(c) = k + 3
  BY <1>1, <1>2, <1>3, <1>4, <1>5, <1>6, <1>7
<1> HIDE DEF k
<1>9. c[1] = h[1] /\ c[2] = h[2] /\ c[4] = h[4]
  <2>1. ASSUME NEW i \in 1..4 PROVE c[i] = h[i]
    <3>1. i \in 1..(Len(a) + Len(q)) /\ i <= Len(a) /\ i \in 1..(Len(h) + Len(body)) /\ i <= Len(h)
      BY <1>2, <1>3, <1>4, <1>8
    <3> QED BY <1>5, <1>6, <1>7, <3>1
  <2>2. 1 \in 1..4 /\ 2 \in 1..4 /\ 4 \in 1..4
    OBVIOUS
  <2> HIDE DEF h
  <2> QED BY <2>1, <2>2
<1>10. c[k + 1] = q[1] /\ c[k + 2] = q[2] /\ c[k + 3] = q[3]
  <2>1. ASSUME NEW i \in 1..3 PROVE c[k + i] = q[i]
    <3>1. k + i \in 1..(Len(a) + Len(q)) /\ ~(k + i <= Len(a)) /\ (k + i) - Len(a) = i
      BY <1>4, <1>8
    <3> QED BY <1>6, <1>7, <3>1
  <2>2. 1 \in 1..3 /\ 2 \in 1..3 /\ 3 \in 1..3
    OBVIOUS
  <2> QED BY <2>1, <2>2
<1>11. Len(c) - 2 = k + 1 /\ Len(c) - 1 = k + 2 /\ Len(c) >= 7 /\ Len(c) \in Nat
  BY <1>8
<1> QED BY <1>3, <1>4, <1>6, <1>7, <1>8, <1>9, <1>10, <1>11

\* The last pointer line is the block's own: the content of a whole card is
\* all of it but its last line.
LEMMA ContentIsFront ==
  ASSUME NEW c, Whole(c)
  PROVE  ContentHash(c) = Front(c)
<1>1. PICK line \in PlainLines, body \in Seq(PlainLines), date \in Dates : c = Opening(line) \o body \o Pointer(date)
  BY DEF Whole
<1> DEFINE n == Len(c)
           marks == {i \in DOMAIN c : c[i] = PointerLine}
           mark == IF marks = {} THEN 0 ELSE CHOOSE i \in marks : \A j \in marks : j <= i
           rest == SubSeq(c, mark + 1, Len(c))
           day == <<DateWord, date>>
           first == <<"Archive:">>
<1>2. /\ c \in Seq(CardLines) /\ n \in Nat /\ Len(c) = n /\ n >= 7 /\ DOMAIN c = 1..n
      /\ c[n - 2] = PointerLine /\ c[n - 1] = first /\ c[n] = day
  <2>1. /\ c \in Seq(CardLines) /\ Len(c) \in Nat /\ Len(c) >= 7
        /\ c[Len(c) - 2] = PointerLine /\ c[Len(c) - 1] = first /\ c[Len(c)] = day
    BY <1>1, WholePlaces, ZenonT(30)
  <2>2. DOMAIN c = 1..Len(c)
    BY <2>1, LenProperties
  <2> QED BY <2>1, <2>2
<1> HIDE DEF n
<1>3. first # PointerLine /\ day # PointerLine
  BY DEF PointerLine, Marker, DateWord
<1> HIDE DEF first, day
<1>4. n - 2 \in marks /\ \A j \in marks : j \in 1..n /\ j <= n - 2
  <2>1. n - 2 \in marks
    BY <1>2
  <2>2. ASSUME NEW j \in marks PROVE j \in 1..n /\ j <= n - 2
    <3>1. j \in 1..n /\ j # n /\ j # n - 1
      BY <1>2, <1>3
    <3> QED BY <1>2, <3>1
  <2> QED BY <2>1, <2>2
<1>5. mark = n - 2
  <2> HIDE DEF marks
  <2> DEFINE i == CHOOSE i \in marks : \A j \in marks : j <= i
  <2>1. i \in marks /\ \A j \in marks : j <= i
    BY <1>4
  <2>2. mark = i
    BY <1>4
  <2> HIDE DEF i, mark
  <2>3. i <= n - 2 /\ n - 2 <= i /\ i \in 1..n
    BY <1>4, <2>1
  <2> QED BY <1>2, <2>2, <2>3
<1> HIDE DEF marks, mark
<1>6. rest = <<first, day>>
  <2>1. n - 1 \in Int /\ n \in Int /\ n - 1 <= n /\ n - (n - 1) + 1 = 2
    BY <1>2
  <2>2. \A i \in (n - 1)..n : c[i] \in CardLines
    BY <1>2, ElementOfSeq
  <2> DEFINE r == SubSeq(c, n - 1, n)
  <2>3. r \in Seq(CardLines) /\ Len(r) = 2 /\ r[1] = c[n - 1] /\ r[2] = c[n]
    <3>1. /\ r \in Seq(CardLines) /\ Len(r) = (IF n - 1 <= n THEN n - (n - 1) + 1 ELSE 0)
          /\ \A i \in 1..(n - (n - 1) + 1) : r[i] = c[(n - 1) + i - 1]
      BY <2>1, <2>2, SubSeqProperties
    <3> HIDE DEF r
    <3>2. 1 \in 1..2 /\ 2 \in 1..2 /\ (n - 1) + 1 - 1 = n - 1 /\ (n - 1) + 2 - 1 = n
      BY <1>2
    <3> QED BY <2>1, <3>1, <3>2
  <2>4. rest = r
    BY <1>2, <1>5
  <2> HIDE DEF r, rest
  <2>5. r = <<first, day>>
    BY <1>2, <2>3
  <2> QED BY <2>4, <2>5
<1>7. Only(rest, ToSet(rest) \ DateLines(rest)) = <<first>>
  <2> DEFINE S == ToSet(rest) \ DateLines(rest)
  <2>1. ToSet(rest) = {first, day}
    <3> HIDE DEF rest
    <3>1. DOMAIN <<first, day>> = {1, 2}
      OBVIOUS
    <3> QED BY <1>6, <3>1 DEF ToSet
  <2>2. first \in S /\ day \notin S
    <3>1. day # <<>> /\ day[1] = DateWord /\ first[1] # DateWord
      BY DEF day, first, DateWord
    <3> QED BY <2>1, <3>1 DEF DateLines
  <2> HIDE DEF S, rest
  <2>3. first \in CardLines /\ day \in CardLines
    <3>1. n - 1 \in 1..Len(c) /\ n \in 1..Len(c)
      BY <1>2
    <3>2. c[n - 1] \in CardLines /\ c[n] \in CardLines
      BY <1>2, <3>1, ElementOfSeq
    <3> QED BY <1>2, <3>2
  <2>4. Only(<<first, day>>, S) = <<first>>
    BY <2>2, <2>3, OnlyTwo
  <2> QED BY <1>6, <2>4 DEF S
<1> HIDE DEF rest
<1>8. ContentHash(c) = SubSeq(c, 1, mark) \o <<first>>
  <2>1. ContentHash(c) = SubSeq(c, 1, mark) \o Only(rest, ToSet(rest) \ DateLines(rest))
    BY DEF ContentHash, rest, mark, marks
  <2> QED BY <1>7, <2>1
<1>9. SubSeq(c, 1, n - 1) = SubSeq(c, 1, n - 2) \o << c[n - 1] >>
  <2>1. 1 \in 1..Len(c) /\ n - 1 \in 1..Len(c) /\ (n - 1) - 1 = n - 2
    BY <1>2
  <2> QED BY <1>2, <2>1, SubSeqRecursiveSecond
<1> QED BY <1>2, <1>5, <1>8, <1>9 DEF Front

\* The headings of a whole card are its four and no other line.
LEMMA WholeIsWhole ==
  ASSUME NEW c, Whole(c)
  PROVE  /\ c # <<>>
         /\ Only(c, Headed(c)) = << <<"#", "Session">>, <<Marker, "What">>, <<Marker, "Why">>, PointerLine >>
         /\ c[Len(c)][1] = DateWord
<1>1. PICK line \in PlainLines, body \in Seq(PlainLines), date \in Dates :
        c = Opening(line) \o body \o Pointer(date)
  BY DEF Whole
<1> DEFINE n == Len(c)  S == Headed(c)  h == Opening(line)  q == Pointer(date)
           t == <<"#", "Session">>  w == <<Marker, "What">>  y == <<Marker, "Why">>
           first == <<"Archive:">>  day == <<DateWord, date>>
<1>2. /\ c \in Seq(CardLines) /\ n \in Nat /\ Len(c) = n /\ n >= 7 /\ DOMAIN c = 1..n
      /\ c[1] = t /\ c[2] = w /\ c[4] = y /\ c[n - 2] = PointerLine /\ c[n - 1] = first /\ c[n] = day
  <2>1. /\ c \in Seq(CardLines) /\ Len(c) \in Nat /\ Len(c) >= 7
        /\ c[1] = t /\ c[2] = w /\ c[4] = y
        /\ c[Len(c) - 2] = PointerLine /\ c[Len(c) - 1] = first /\ c[Len(c)] = day
    BY <1>1, WholePlaces, ZenonT(30)
  <2>2. DOMAIN c = 1..Len(c)
    BY <2>1, LenProperties
  <2> QED BY <2>1, <2>2
<1> HIDE DEF n
<1>3. t \in ToSet(c) /\ w \in ToSet(c) /\ y \in ToSet(c) /\ PointerLine \in ToSet(c)
  <2>1. 1 \in DOMAIN c /\ 2 \in DOMAIN c /\ 4 \in DOMAIN c /\ n - 2 \in DOMAIN c
    BY <1>2
  <2> HIDE DEF t, w, y
  <2> QED BY <1>2, <2>1 DEF ToSet
<1>4. t \in S /\ w \in S /\ y \in S /\ PointerLine \in S
  <2>1. t[1] \in Headings /\ w[1] \in Headings /\ y[1] \in Headings /\ PointerLine[1] \in Headings
    BY DEF Headings, PointerLine
  <2>2. t # <<>> /\ w # <<>> /\ y # <<>> /\ PointerLine # <<>>
    BY DEF PointerLine
  <2> HIDE DEF t, w, y
  <2> QED BY <1>3, <2>1, <2>2 DEF Headed
<1>5. first \notin S /\ day \notin S
  <2>1. first[1] \notin Headings /\ day[1] \notin Headings
    BY DEF Headings, Marker, DateWord
  <2> HIDE DEF first, day
  <2> QED BY <2>1 DEF Headed
<1>6. PlainLines \cap S = {}
  BY DEF PlainLines, Headed
<1>7. t \in CardLines /\ w \in CardLines /\ y \in CardLines /\ line \in CardLines
      /\ PointerLine \in CardLines /\ first \in CardLines /\ day \in CardLines
  <2>1. \A i \in 1..n : c[i] \in CardLines
    BY <1>2, ElementOfSeq
  <2>2. 1 \in 1..n /\ 2 \in 1..n /\ 4 \in 1..n /\ n - 2 \in 1..n /\ n - 1 \in 1..n /\ n \in 1..n
    BY <1>2
  <2>3. line \in CardLines
    BY DEF PlainLines
  <2> HIDE DEF t, w, y, first, day
  <2> QED BY <1>2, <2>1, <2>2, <2>3
<1>8. h = <<t, w, line, y>> /\ q = <<PointerLine, first, day>> /\ line \notin S
  BY <1>6 DEF Opening, Pointer
<1>9. h \in Seq(CardLines) /\ q \in Seq(CardLines)
  BY OpeningTyped
<1>10. body \in Seq(CardLines)
  <2>1. PlainLines \subseteq CardLines
    BY DEF PlainLines
  <2> QED BY <2>1, SeqWiden
<1>11. day[1] = DateWord
  OBVIOUS
<1> HIDE DEF S, h, q, t, w, y, first, day
<1>12. Only(h, S) = <<t, w, y>>
  BY <1>4, <1>7, <1>8, OnlyFour
<1>13. Only(body, S) = <<>>
  BY <1>6, OnlyNone
<1>14. Only(q, S) = <<PointerLine>>
  BY <1>4, <1>5, <1>7, <1>8, OnlyThree
<1>15. Only(c, S) = (Only(h, S) \o Only(body, S)) \o Only(q, S)
  <2> DEFINE a == h \o body
  <2>1. a \in Seq(CardLines)
    BY <1>9, <1>10, ConcatProperties
  <2>2. Only(a, S) = Only(h, S) \o Only(body, S)
    BY <1>9, <1>10, OnlyConcat
  <2> HIDE DEF a
  <2>3. Only(a \o q, S) = Only(a, S) \o Only(q, S)
    BY <1>9, <2>1, OnlyConcat
  <2>4. c = a \o q
    BY <1>1 DEF a, h, q
  <2> QED BY <2>2, <2>3, <2>4
<1>16. Only(c, S) = <<t, w, y, PointerLine>>
  <2> DEFINE u == <<t, w, y>>
  <2>1. u \in Seq(CardLines)
    BY <1>7
  <2>2. Append(u, PointerLine) = <<t, w, y, PointerLine>>
    BY <1>7, AppendThree
  <2>3. Only(h, S) = u
    BY <1>12
  <2> HIDE DEF u
  <2>4. u \o <<>> = u
    BY <2>1, ConcatEmptySeq
  <2>5. u \o <<PointerLine>> = Append(u, PointerLine)
    BY <1>7, <2>1, AppendIsConcat
  <2> QED BY <1>13, <1>14, <1>15, <2>2, <2>3, <2>4, <2>5
<1>17. c # <<>>
  BY <1>2
<1> QED BY <1>2, <1>11, <1>16, <1>17 DEF S, t, w, y

\* What a run renders is a whole card, whatever the model wrote and cited.
LEMMA RendersWhole ==
  ASSUME NEW what \in Whats, NEW text \in Quotes, NEW anchors \in BoundedSeq(Lines, 2),
         NEW quotes \in BoundedSeq(Quotes, 1), NEW lines \in SUBSET Lines, NEW date \in Dates, NEW seen
  PROVE  Whole(RenderCard(what, Cited(anchors, quotes, lines, seen), text, date))
<1> DEFINE item == Cited(anchors, quotes, lines, seen)
           line == IF Inline(what) = <<>> THEN NoneLine ELSE Inline(what)
<1>1. what \in Seq(STRING) /\ text \in Seq(STRING)
  BY CardAssumption
<1>2. anchors \in Seq(Lines) /\ quotes \in Seq(Seq(STRING))
  <2>1. anchors \in UNION {[1..m -> Lines] : m \in 0..2}
    BY DEF BoundedSeq, SeqOf
  <2>2. quotes \in UNION {[1..m -> Quotes] : m \in 0..1}
    BY DEF BoundedSeq, SeqOf
  <2>3. anchors \in Seq(Lines)
    <3>1. PICK m \in 0..2 : anchors \in [1..m -> Lines]
      BY <2>1
    <3>2. m \in Nat
      OBVIOUS
    <3> QED BY <3>1, <3>2, SeqDef
  <2>4. quotes \in Seq(Quotes)
    <3>1. PICK m \in 0..1 : quotes \in [1..m -> Quotes]
      BY <2>2
    <3>2. m \in Nat
      OBVIOUS
    <3> QED BY <3>1, <3>2, SeqDef
  <2>5. quotes \in Seq(Seq(STRING))
    <3> DEFINE T == Seq(STRING)
    <3>1. Quotes \subseteq T
      BY CardAssumption
    <3> HIDE DEF T
    <3>2. quotes \in Seq(T)
      BY <2>4, <3>1, SeqWiden
    <3> QED BY <3>2 DEF T
  <2> QED BY <2>3, <2>5
<1>3. item.anchors \in Seq(Lines) /\ item.quotes = quotes
  BY <1>2, CitedTyped
<1> HIDE DEF item
<1>4. Bullet(item, text) \in Seq(PlainLines)
  BY <1>1, <1>2, <1>3, BulletPlain
<1>5. line \in PlainLines
  <2>1. CASE Inline(what) = <<>>
    <3>1. "None." \in CardWords /\ "None." \notin Headings
      BY DEF CardWords, Headings, Marker
    <3>2. NoneLine \in CardLines /\ NoneLine # <<>> /\ NoneLine[1] = "None."
      BY <3>1 DEF CardLines, NoneLine
    <3> QED BY <2>1, <3>1, <3>2 DEF PlainLines
  <2>2. CASE Inline(what) # <<>>
    BY <1>1, <2>2, InlinePlain
  <2> QED BY <2>1, <2>2
<1>6. RenderCard(what, item, text, date) = Opening(line) \o Bullet(item, text) \o Pointer(date)
  BY DEF RenderCard, Opening
<1> HIDE DEF line
<1>7. Whole(RenderCard(what, item, text, date))
  BY <1>4, <1>5, <1>6 DEF Whole
<1> QED BY <1>7 DEF item

\* The card and the run's are whole; what was compared is what is written.
CardInv ==
  /\ card = <<>> \/ Whole(card)
  /\ cardStep \in {"idle", "compare", "write", "kept"}
  /\ cardStep # "idle" => Whole(draft)
  /\ cardStep = "kept" => Front(card) = Front(draft)
  /\ (cardStep = "write" /\ card # <<>>) => Front(card) # Front(draft)

LEMMA CardInitially == CardInit => CardInv
BY DEF CardInit, CardInv

LEMMA CardKept == CardInv /\ [CardNext]_cardVars => CardInv'
<1> SUFFICES ASSUME CardInv, [CardNext]_cardVars PROVE CardInv'
  OBVIOUS
<1>1. ASSUME cardStep = "idle", NEW what \in Whats, NEW text \in Quotes, NEW anchors \in BoundedSeq(Lines, 2),
             NEW quotes \in BoundedSeq(Quotes, 1), NEW lines \in SUBSET Lines, NEW date \in Dates, NEW seen,
             RunHas(what, text, anchors, quotes, lines, seen, date)
      PROVE  CardInv'
  <2>1. Whole(draft')
    BY <1>1, RendersWhole DEF RunHas
  <2> QED BY <1>1, <2>1 DEF RunHas, CardInv, Whole
<1>2. CASE Compare
  <2>1. Whole(draft) /\ ContentHash(draft) = Front(draft)
    BY <1>2, ContentIsFront DEF Compare, CardInv
  <2>2. card # <<>> => ContentHash(card) = Front(card)
    BY ContentIsFront DEF CardInv
  <2> QED BY <1>2, <2>1, <2>2 DEF Compare, CardInv
<1>3. CASE Fill
  BY <1>3 DEF Fill, CardInv
<1>4. CASE Replace
  BY <1>4 DEF Replace, CardInv
<1>5. CASE CutOff
  BY <1>5 DEF CutOff, Forget, CardInv
<1>6. CASE UNCHANGED cardVars
  BY <1>6 DEF cardVars, CardInv
<1> QED BY <1>1, <1>2, <1>3, <1>4, <1>5, <1>6 DEF CardNext

LEMMA CardHolds == CardSpec => []CardInv
<1>1. CardInit => CardInv
  BY CardInitially
<1>2. CardInv /\ [CardNext]_cardVars => CardInv'
  BY CardKept
<1> QED BY <1>1, <1>2, PTL DEF CardSpec

\* Whatever words the model uses (headings, dates, line breaks among them) and
\* wherever a write is cut off, the card has its sections once and in order and
\* ends with its day (render_card, write_card).
THEOREM CardWhole == CardSpec => []CardIsWhole
<1>1. CardInv => CardIsWhole
  BY WholeIsWhole DEF CardInv, CardIsWhole
<1> QED BY <1>1, CardHolds, PTL

\* Of two cards only the day in the pointer block is left out of the
\* comparison, for every text that looks like a pointer block or a date
\* (content_hash).
THEOREM DateIgnored == CardSpec => []OnlyTheDateIsIgnored
<1>1. CardInv => OnlyTheDateIsIgnored
  BY DEF CardInv, OnlyTheDateIsIgnored
<1> QED BY <1>1, CardHolds, PTL

-----------------------------------------------------------------------------
(* The gate's ledger.                                                       *)

\* A line of the ledger is in the log of the box that ruled it.
Rooted(lines) == \A r \in lines : r.host \in Desks /\ r \in log[r.host]

LedgerInv ==
  /\ DOMAIN log = Desks /\ DOMAIN review = Desks /\ DOMAIN decisions = Desks \cup {"hub"}
  /\ \A b \in Desks : Rooted(log[b]) /\ Rooted(review[b].build)
  /\ \A r \in Desks \cup {"hub"} : Rooted(decisions[r])
  /\ \A c \in beside : Rooted(c)

\* Every ruling that is read anywhere was made by an operator and is still in
\* the log of the box it was made on, so that a run that overwrites another
\* box's shared file, or removes a conflict copy, takes nothing away for good
\* (gate_decision_record, gate_decisions_sync).
RulingsAreRooted == \A b \in Desks : Rooted(Known(b))

\* What is read on a box is what was ruled.
LEMMA ReadIsRuled ==
  ASSUME LedgerInv, NEW b \in Desks
  PROVE  Rooted(Known(b))
BY DEF LedgerInv, Rooted, Known

\* A step of a run that rules nothing adds no line to its work file but what
\* it reads.
LEMMA RunsAddNothing ==
  ASSUME LedgerInv, UNCHANGED <<log, replicas>>, NEW b \in Desks, NEW run,
         review' = [review EXCEPT ![b] = run],
         run.build \in {{}, review[b].build, Known(b)}
  PROVE  LedgerInv'
<1>1. Rooted(run.build)
  BY ReadIsRuled DEF LedgerInv, Rooted
<1> QED
  BY <1>1 DEF LedgerInv, Rooted, replicas

\* A ruling goes to its own box's log; every other line stays where it was.
LEMMA RuleIsLogged ==
  ASSUME LedgerInv, NEW b \in Desks, NEW decision, NEW now, NEW next, Rule(b, decision, now, next)
  PROVE  LedgerInv'
<1> DEFINE r == [host |-> b, decision |-> decision, epoch |-> Dated(review[b].known, decision, now)]
<1>1. log' = [log EXCEPT ![b] = @ \cup {r}] /\ r.host = b
  BY DEF Rule
<1> DEFINE ruled == [NoRun EXCEPT !.next = next, !.known = r]
           run == IF b \in rooted THEN [ruled EXCEPT !.at = "gather"]
                  ELSE IF next = "off" THEN NoRun ELSE [ruled EXCEPT !.at = next]
<1>2. review' = [review EXCEPT ![b] = run]
  BY DEF Rule
<1>2a. run.build = {}
  BY DEF NoRun
<1> HIDE DEF r, ruled, run
<1>3. \A d \in Desks : log[d] \subseteq log'[d]
  BY <1>1 DEF LedgerInv
<1>4. \A d \in Desks : \A q \in log'[d] : q \in log[d] \/ q = r
  BY <1>1 DEF LedgerInv
<1>5. r \in log'[b]
  BY <1>1 DEF LedgerInv
<1>6. ASSUME NEW lines, Rooted(lines) PROVE Rooted(lines)'
  BY <1>3, <1>6 DEF Rooted
<1>7. \A d \in Desks : \A q \in log'[d] : q.host \in Desks /\ q \in log'[q.host]
  BY <1>1, <1>3, <1>4, <1>5 DEF LedgerInv, Rooted
<1>8. \A d \in Desks : review'[d].build = {} \/ review'[d].build = review[d].build
  BY <1>2, <1>2a DEF LedgerInv
<1>9. UNCHANGED <<decisions, beside>>
  BY DEF Rule, replicas
<1>10. DOMAIN log' = Desks /\ DOMAIN review' = Desks
  BY <1>1, <1>2 DEF LedgerInv
<1> QED
  BY <1>3, <1>7, <1>8, <1>9, <1>10 DEF LedgerInv, Rooted

\* A run that is over keeps no work file.
LEMMA EndsEmpty ==
  ASSUME NEW b \in Desks
  PROVE  SyncEnds(b).build = {}
BY DEF SyncEnds, NoRun

\* What a run places was ruled, and a removed copy takes no line with it.
LEMMA SyncKeepsRulings ==
  ASSUME LedgerInv, NEW b \in Desks, Runs(b)
  PROVE  LedgerInv'
<1>1. CASE Replay(b)
  BY <1>1 DEF Replay, Goto, LedgerInv, Rooted, replicas
<1>2. CASE Gather(b)
  <2> DEFINE run == IF Unreadable(b) THEN SyncEnds(b)
        ELSE [at |-> "place", next |-> review[b].next, known |-> review[b].known,
              build |-> Known(b), listed |-> beside]
  <2>1. review' = [review EXCEPT ![b] = run]
    BY <1>2 DEF Gather, LedgerInv
  <2>2. run.build \in {{}, Known(b)}
    BY EndsEmpty
  <2> QED BY <1>2, <2>1, <2>2, RunsAddNothing DEF Gather
<1>3. CASE Place(b)
  BY <1>3 DEF Place, Goto, LedgerInv, Rooted
<1>4. CASE Fold(b)
  <2>1. review' = [review EXCEPT ![b] = SyncEnds(b)] /\ SyncEnds(b).build = {}
    BY <1>4, EndsEmpty DEF Fold
  <2>2. beside' \subseteq beside /\ UNCHANGED <<log, decisions>>
    BY <1>4 DEF Fold
  <2> QED BY <2>1, <2>2 DEF LedgerInv, Rooted
<1>5. CASE ReviewEnds(b)
  BY <1>5, RunsAddNothing DEF ReviewEnds, NoRun
<1> QED
  BY <1>1, <1>2, <1>3, <1>4, <1>5 DEF Runs

\* The client only moves files about.
LEMMA ClientMovesFiles ==
  ASSUME LedgerInv, NEW b \in Desks, Client(b)
  PROVE  LedgerInv'
BY DEF Client, Send, Arrive, Arrived, Conflict, LedgerInv, Rooted

\* Every ruling that is read anywhere was made on some box and is still in that
\* box's log, whatever runs overwrite, remove or leave half done.
THEOREM RulingsStayRooted == GateSpec => []RulingsAreRooted
<1>1. GateInit => LedgerInv
  BY DEF GateInit, NoRun, LedgerInv, Rooted
<1>2. LedgerInv /\ [GateNext]_gateVars => LedgerInv'
  <2> SUFFICES ASSUME LedgerInv, [GateNext]_gateVars PROVE LedgerInv'
    OBVIOUS
  <2>1. CASE UNCHANGED gateVars
    BY <2>1 DEF gateVars, LedgerInv, Rooted
  <2>2. ASSUME NEW b \in Desks, ReviewBegins(b) PROVE LedgerInv'
    BY <2>2, RunsAddNothing DEF ReviewBegins, NoRun
  <2>3. ASSUME NEW b \in Desks, Ruled(b) \/ Settle(b) PROVE LedgerInv'
    BY <2>3, RuleIsLogged DEF Ruled, Settle
  <2>4. ASSUME NEW b \in Desks, RunKilled(b) PROVE LedgerInv'
    BY <2>4, RunsAddNothing DEF RunKilled, NoRun
  <2>5. ASSUME NEW b \in Desks, Unmount(b) \/ Mount(b) PROVE LedgerInv'
    BY <2>5 DEF Unmount, Mount, replicas, LedgerInv, Rooted
  <2> QED
    BY <2>1, <2>2, <2>3, <2>4, <2>5, SyncKeepsRulings, ClientMovesFiles DEF GateNext
<1>3. LedgerInv => RulingsAreRooted
  BY ReadIsRuled DEF RulingsAreRooted
<1> QED
  BY <1>1, <1>2, <1>3, PTL DEF GateSpec
=============================================================================
