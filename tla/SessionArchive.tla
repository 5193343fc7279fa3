---------------------------- MODULE SessionArchive ----------------------------
(***************************************************************************)
(* The session archive, files/scripts/lib/session_archive: a run scans the *)
(* transcripts (sources.py), takes the eligible ones oldest first, and for *)
(* each renders the text, has a model summarize it, copies the transcript  *)
(* into the archive, writes its card into a library and records the        *)
(* session in a sqlite row (pipeline.py, archive.py, cards.py, store.py).  *)
(*                                                                         *)
(* Runs exclude each other by a lock (cli.py, single), so there is one at  *)
(* a time here.  Meanwhile transcripts are resumed or replaced by the      *)
(* synchronisation, the run is stopped (SIGTERM) or killed, and the share  *)
(* that holds the archive and the libraries is unmounted.  Content, its    *)
(* SHA-256 and the size and mtime that stand for it are a version number.  *)
(***************************************************************************)
EXTENDS Naturals, FiniteSets

CONSTANTS Sessions,    \* transcripts, numbered
          MaxVersion,  \* how often a transcript's content may change, plus 1
          Areas,       \* the areas of the configuration, each with its library
          Limit,       \* run_sessions
          Cap,         \* run_cap_usd, in units of cost
          MaxMishaps,  \* kills, stops, unmounts, --session runs, changes, together
          MidRun       \* the share may also go away in the middle of a run

ASSUME ArchiveAssumption ==
  /\ Sessions \subseteq Nat \ {0} /\ IsFiniteSet(Sessions)
  /\ MaxVersion \in Nat \ {0} /\ Limit \in Nat \ {0} /\ Cap \in Nat \ {0}
  /\ MaxMishaps \in Nat /\ MidRun \in BOOLEAN

VARIABLES
  file, age,           \* the transcripts: content; how old its last entry is
  row, stopped,        \* the state database: sessions; the last run's stop
  copies, cards,       \* the share: archive copies by name; cards by library
  mounted,             \* the share is there (else: a bare mount point)
  at,                  \* where the run is
  only,                \* the --session of the run, if any
  stat, live,          \* the scan's stat of each file; those written just now
  unjudged,            \* files the scan has not judged yet
  sha,                 \* the SHA of each queued candidate, 0 for the others
  left,                \* how many sessions the run may still take
  cur, text, area,     \* the session in flight, what was rendered, its area
  repeat, spent,       \* what the run before stopped on; the run's ledger
  mishaps

disk == <<file, age>>
db == <<row, stopped>>
share == <<copies, cards, mounted>>
plan == <<only, stat, live, unjudged>>
flight == <<text, area>>
purse == <<repeat, spent>>
vars == <<disk, db, share, at, plan, sha, left, cur, flight, purse, mishaps>>

Versions == 1..MaxVersion
None == 0                                \* no version, no area, no stop
Everything == 0                          \* a run without --session
MaxHolds == 3

Candidates == {s \in Sessions : sha[s] # None}
InFlight == {"render", "model", "copy", "card", "record", "leave"}
Places == {"off", "judge", "take"} \cup InFlight

NoRow == [status |-> "none", sha |-> None, stat |-> None, holds |-> 0,
          area |-> None, copy |-> None]
NoStop == <<None, None>>
NoCard == [text |-> None, pin |-> None]

runVars == <<at, only, stat, live, unjudged, sha, left, cur, text, area, repeat, spent>>

Init ==
  /\ file = [s \in Sessions |-> 1] /\ age = [s \in Sessions |-> "old"]
  /\ row = [s \in Sessions |-> NoRow] /\ stopped = NoStop
  /\ copies = [s \in Sessions |-> [v \in Versions |-> None]]
  /\ cards = [s \in Sessions |-> [a \in Areas |-> NoCard]]
  /\ mounted = TRUE /\ mishaps = 0
  /\ at = "off" /\ only = Everything /\ left = 0 /\ spent = 0
  /\ stat = [s \in Sessions |-> None] /\ live = {} /\ unjudged = {}
  /\ sha = [s \in Sessions |-> None] /\ repeat = NoStop
  /\ cur = None /\ text = None /\ area = None

-----------------------------------------------------------------------------
(* The state database.                                                      *)

\* record_session: a done row forgets its holds, a new SHA starts the count
\* again (it stops at three here, the code only asks for three); area and
\* archive path are kept when the new row has none.
Recorded(r, status, v, seen, a, copy) ==
  [status |-> status, sha |-> v, stat |-> seen,
   holds |-> LET one == IF status = "held" THEN 1 ELSE 0
                 sum == IF r.sha = v THEN r.holds + one ELSE one
             IN IF status = "done" THEN 0 ELSE IF sum > MaxHolds THEN MaxHolds ELSE sum,
   area |-> IF a = None THEN r.area ELSE a,
   copy |-> IF copy = None THEN r.copy ELSE copy]

\* Mutant: the row remembers the file as it is when the row is written.
PutLate(status, a, copy) ==
  row' = [row EXCEPT ![cur] = Recorded(row[cur], status, sha[cur], file[cur], a, copy)]

\* The row of the session in flight, with the SHA and the stat of the scan.
Put(status, a, copy) ==
  row' = [row EXCEPT ![cur] = Recorded(row[cur], status, sha[cur], stat[cur], a, copy)]

PutHeld == Put("held", None, None)

-----------------------------------------------------------------------------
(* The scan.                                                                *)

Judgement(r, v) ==
  CASE r.status = "none" \/ r.sha # v -> "eligible"
    [] r.status = "held" -> IF r.holds >= MaxHolds THEN "held" ELSE "eligible"
    [] r.status = "done" -> "unchanged"
    [] OTHER -> "review"

\* At the size and mtime recorded the file is not read.
Known(s) == row[s].status # "none" /\ row[s].stat = stat[s]
Content(s) == IF Known(s) THEN row[s].sha ELSE file[s]

Reason(s) ==
  CASE s \in live -> "live"
    [] Known(s) -> Judgement(row[s], row[s].sha)
    [] age[s] # "old" -> "quiet"
    [] OTHER -> Judgement(row[s], file[s])

\* --session: past its quiet days, its holds and a review.
Forced(s) ==
  LET reason == IF Reason(s) = "quiet" THEN Judgement(row[s], file[s]) ELSE Reason(s)
  IN s = only /\ reason \in {"eligible", "held", "review"}

Eligible(s) == IF only = Everything THEN Reason(s) = "eligible" ELSE Forced(s)

StartRun(o) ==
  /\ at = "off" /\ at' = "judge"
  /\ only' = o /\ stat' = file /\ live' = {s \in Sessions : age[s] = "live"}
  /\ unjudged' = Sessions /\ left' = Limit
  /\ UNCHANGED <<disk, db, share, sha, cur, flight, purse>>

Judge(s) ==
  /\ at = "judge" /\ s \in unjudged /\ \A t \in unjudged : s <= t
  /\ unjudged' = unjudged \ {s}
  /\ sha' = [sha EXCEPT ![s] = IF Eligible(s) THEN Content(s) ELSE None]
  /\ UNCHANGED <<disk, db, share, at, only, stat, live, left, cur, flight, purse, mishaps>>

-----------------------------------------------------------------------------
(* The queue.                                                               *)

\* The run is over and leaves nothing behind but what it wrote.
Off ==
  /\ at' = "off" /\ only' = Everything /\ left' = 0 /\ spent' = 0
  /\ stat' = [s \in Sessions |-> None] /\ live' = {} /\ unjudged' = {}
  /\ sha' = [s \in Sessions |-> None] /\ repeat' = NoStop
  /\ cur' = None /\ text' = None /\ area' = None

\* A --session run without its session writes no row for the run; any other
\* forgets what the run before it stopped on.
BeginQueue ==
  /\ at = "judge" /\ unjudged = {}
  /\ only = Everything \/ Candidates # {}
  /\ stopped' = NoStop
  /\ IF mounted
       THEN /\ at' = "take" /\ repeat' = stopped
            /\ UNCHANGED <<plan, sha, left, cur, flight, spent>>
       ELSE Off
  /\ UNCHANGED <<disk, row, share, mishaps>>

NothingToForce ==
  /\ at = "judge" /\ unjudged = {} /\ only # Everything /\ Candidates = {}
  /\ Off /\ UNCHANGED <<disk, db, share, mishaps>>

\* A later version's last entry is later than any earlier version's.
Older(s, t) == sha[s] < sha[t] \/ (sha[s] = sha[t] /\ s < t)

Take(s) ==
  /\ at = "take" /\ left > 0 /\ spent < Cap
  /\ s \in Candidates /\ \A t \in Candidates \ {s} : Older(s, t)
  /\ cur' = s /\ at' = "render"
  /\ UNCHANGED <<disk, db, share, plan, sha, left, flight, purse, mishaps>>

EndRun ==
  /\ at = "take" /\ (left = 0 \/ Candidates = {} \/ spent >= Cap)
  /\ Off /\ UNCHANGED <<disk, db, share, mishaps>>

-----------------------------------------------------------------------------
(* One session.                                                             *)

Proceed(p) == at' = p /\ UNCHANGED <<plan, sha, left, cur, repeat>>

\* The text is read now, the SHA was taken by the scan.
Render ==
  /\ at = "render" /\ Proceed("model")
  /\ text' = file[cur]
  /\ UNCHANGED <<disk, db, share, area, spent, mishaps>>

\* It fits the cap, but not what this run has left of it: the run ends.
Capped ==
  /\ at = "render" /\ spent > 0
  /\ Off /\ UNCHANGED <<disk, db, share, mishaps>>

\* What the calls of a session add to the ledger.
Charge == \E cost \in 0..Cap : spent' = IF spent + cost > Cap THEN Cap ELSE spent + cost

\* Mutant: the card is written without a copy.
SummarizedStraightToCard(a) ==
  /\ at = "model" /\ Proceed("card")
  /\ area' = a /\ Charge
  /\ UNCHANGED <<disk, db, share, text, mishaps>>

Summarized(a) ==
  /\ at = "model" /\ Proceed("copy")
  /\ area' = a /\ Charge
  /\ UNCHANGED <<disk, db, share, text, mishaps>>

Unclear ==
  /\ at = "model" /\ Proceed("leave")
  /\ Put("review", None, None) /\ Charge
  /\ UNCHANGED <<disk, stopped, share, flight, mishaps>>

\* Mutant: the run before is not asked.
UnavailableEveryTime ==
  /\ at = "model" /\ stopped' = <<cur, sha[cur]>>
  /\ Off /\ UNCHANGED <<disk, row, share, mishaps>>

\* The model API is out of reach: the run stops and holds nothing, unless the
\* run before stopped on the same content (then it is a Hold).
Unavailable ==
  /\ at = "model" /\ repeat # <<cur, sha[cur]>>
  /\ stopped' = <<cur, sha[cur]>>
  /\ Off /\ UNCHANGED <<disk, row, share, mishaps>>

\* Unreadable, too large, a model error, an answer that does not parse, a copy
\* or a card that cannot be written.
Hold ==
  /\ at \in {"render", "model", "copy", "card"} /\ Proceed("leave")
  /\ PutHeld
  /\ IF at = "model" THEN Charge ELSE UNCHANGED spent
  /\ UNCHANGED <<disk, stopped, share, flight, mishaps>>

\* Mutant: the packed bytes are not compared with the scan's SHA.
PackUnchecked(bytes) == TRUE

Packed(bytes) == bytes = sha[cur]

\* The copy that holds the name stands if it has the content; a new one must
\* have the SHA of the scan.  On a bare mount point it goes astray.
Copy ==
  /\ at = "copy" /\ Proceed("card")
  /\ LET name == sha[cur] old == copies[cur][name]
     IN IF mounted /\ old # None
          THEN old = name /\ UNCHANGED copies
          ELSE /\ Packed(file[cur])
               /\ IF mounted THEN copies' = [copies EXCEPT ![cur][name] = file[cur]]
                             ELSE UNCHANGED copies
  /\ UNCHANGED <<disk, db, cards, mounted, flight, spent, mishaps>>

WriteCard ==
  /\ at = "card" /\ Proceed("record")
  /\ IF mounted
       THEN cards' = [cards EXCEPT ![cur][area] = [text |-> text, pin |-> sha[cur]]]
       ELSE UNCHANGED cards
  /\ UNCHANGED <<disk, db, copies, mounted, flight, spent, mishaps>>

RecordDone ==
  /\ at = "record" /\ Proceed("leave")
  /\ Put("done", area, sha[cur])
  /\ UNCHANGED <<disk, stopped, share, flight, spent, mishaps>>

Leave ==
  /\ at = "leave" /\ at' = "take"
  /\ sha' = [sha EXCEPT ![cur] = None] /\ left' = left - 1
  /\ cur' = None /\ text' = None /\ area' = None
  /\ UNCHANGED <<disk, db, share, plan, purse, mishaps>>

Step ==
  \/ \E s \in Sessions : Judge(s) \/ Take(s)
  \/ BeginQueue \/ NothingToForce \/ EndRun \/ Render \/ Capped
  \/ \E a \in Areas : Summarized(a)
  \/ Unclear \/ Unavailable \/ Hold \/ Copy \/ WriteCard \/ RecordDone \/ Leave

-----------------------------------------------------------------------------
(* What happens around a run.                                               *)

Mishap == mishaps < MaxMishaps /\ mishaps' = mishaps + 1

RunAll == StartRun(Everything) /\ UNCHANGED mishaps
RunOne(s) == Mishap /\ StartRun(s)

\* SIGTERM or Ctrl-C: the session in flight, even one just recorded, is held.
Stop ==
  /\ Mishap /\ at # "off" /\ Off
  /\ IF at \in InFlight THEN PutHeld ELSE UNCHANGED row
  /\ UNCHANGED <<disk, stopped, share>>

\* A crash, or an error the run does not catch.
Kill == Mishap /\ at # "off" /\ Off /\ UNCHANGED <<disk, db, share>>

Unmount ==
  /\ Mishap /\ mounted /\ (MidRun \/ at \in {"off", "judge"})
  /\ mounted' = FALSE
  /\ UNCHANGED <<disk, db, copies, cards, runVars>>

Mount ==
  /\ ~mounted /\ mounted' = TRUE
  /\ UNCHANGED <<disk, db, copies, cards, runVars, mishaps>>

\* The session is resumed (its last entry is new), or the synchronisation puts
\* another box's copy in its place (its last entry may be old).
Change(s) ==
  /\ Mishap /\ file[s] < MaxVersion
  /\ file' = [file EXCEPT ![s] = @ + 1]
  /\ \E a \in {"live", "quiet", "old"} : age' = [age EXCEPT ![s] = a]
  /\ UNCHANGED <<db, share, runVars>>

Rest(s) ==
  /\ age[s] # "old"
  /\ age' = [age EXCEPT ![s] = IF @ = "live" THEN "quiet" ELSE "old"]
  /\ UNCHANGED <<file, db, share, runVars, mishaps>>

Next ==
  \/ Step \/ RunAll \/ Stop \/ Kill \/ Unmount \/ Mount
  \/ \E s \in Sessions : RunOne(s) \/ Change(s) \/ Rest(s)

Spec == Init /\ [][Next]_vars

\* The timer starts a run again and again, a run goes on until it ends (every
\* call has a timeout), transcripts come to rest and the share comes back.
ArchiveFairness == /\ WF_vars(Step) /\ WF_vars(RunAll) /\ WF_vars(Mount)
                   /\ \A s \in Sessions : WF_vars(Rest(s))
FairSpec == Spec /\ ArchiveFairness

-----------------------------------------------------------------------------
(* What the archive promises.                                               *)

Rows == [status : {"none", "done", "held", "review"}, sha : Versions \cup {None},
         stat : Versions \cup {None}, holds : 0..MaxHolds,
         area : Areas \cup {None}, copy : Versions \cup {None}]
Cards == [text : Versions \cup {None}, pin : Versions \cup {None}]
Stops == (Sessions \X Versions) \cup {NoStop}

ArchiveTypeOK ==
  /\ file \in [Sessions -> Versions] /\ age \in [Sessions -> {"live", "quiet", "old"}]
  /\ row \in [Sessions -> Rows] /\ stopped \in Stops
  /\ copies \in [Sessions -> [Versions -> Versions \cup {None}]]
  /\ cards \in [Sessions -> [Areas -> Cards]]
  /\ mounted \in BOOLEAN /\ mishaps \in 0..MaxMishaps
  /\ at \in Places /\ only \in Sessions \cup {Everything}
  /\ stat \in [Sessions -> Versions \cup {None}] /\ live \subseteq Sessions
  /\ unjudged \subseteq Sessions /\ sha \in [Sessions -> Versions \cup {None}]
  /\ left \in 0..Limit /\ cur \in Sessions \cup {None}
  /\ text \in Versions \cup {None} /\ area \in Areas \cup {None}
  /\ repeat \in Stops /\ spent \in 0..Cap
  /\ at \in InFlight <=> cur \in Candidates

\* A copy in the archive holds the content its name says, whatever happens to
\* the transcript between the scan and the copy.
CopiesAreTrue ==
  \A s \in Sessions, v \in Versions : copies[s][v] \in {None, v}

\* A transcript that is as it was when its row was written has the row's SHA:
\* no resumed session is passed over because it looks unchanged.
NothingIsPassedOver ==
  \A s \in Sessions : row[s].status # "none" /\ row[s].stat = file[s] => row[s].sha = file[s]

\* Once the runs have begun, every transcript is in the end archived, waits for
\* the operator's review or has been held three times, and no session, nor the
\* model API failing on it, keeps the others from it.
Settled(s) ==
  /\ row[s].sha = file[s]
  /\ row[s].status \in {"done", "review"} \/ (row[s].status = "held" /\ row[s].holds = MaxHolds)
EverySessionSettles == at # "off" ~> [](\A s \in Sessions : Settled(s))
=============================================================================
