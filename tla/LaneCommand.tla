------------------------------ MODULE LaneCommand ------------------------------
(***************************************************************************)
(* The commands of `flakelab session-archive` side by side: the nightly    *)
(* timer's run and the operator's run, run --session, run --dry-run and    *)
(* status (cli.py), the settings and the key they read first (config.py,   *)
(* secrets.py), the lock, and the run rows of the state database           *)
(* (store.py).  What a run does to its sessions is SessionArchive's.       *)
(*                                                                         *)
(* A number that may be None is a set of at most one.  The clock that      *)
(* stamps the rows does not run back, so the newest row is the last.       *)
(***************************************************************************)
EXTENDS Naturals, Sequences, FiniteSets

CONSTANTS Timer, Operator,     \* the two processes
          Counts,              \* how many sessions a full run may find eligible
          MaxRuns              \* bound: run rows

ASSUME LaneAssumption == Timer # Operator /\ Counts \subseteq Nat /\ MaxRuns \in Nat

VARIABLES
  lock,       \* the set of the process that holds the lane's lock
  db,         \* the state database: made or not, and its run rows
  proc,       \* each process: its command, its step, what it knows
  lastFull    \* what the last full run to finish counted (history)

laneVars == <<lock, db, proc, lastFull>>

Procs == {Timer, Operator}
Writers == {"run", "session"}

-----------------------------------------------------------------------------
(* What a command is given: good settings, or those with one fault.         *)

Num(n) == [kind |-> "number", value |-> n]
Blank == [kind |-> "blank", value |-> 0]
Word == [kind |-> "word", value |-> 0]           \* not a number, or not finite
Area == [name |-> "area", description |-> TRUE, library |-> "absolute", project |-> "slug"]

Good == [json |-> TRUE, areas |-> {Area}, root |-> "absolute", stateRoot |-> "absolute",
         quiet |-> Num(3), cap |-> Blank, sessions |-> Num(1), machine |-> TRUE,
         files |-> << <<>>, <<"key">> >>, foreign |-> "no", schema |-> 3, priced |-> TRUE, projects |-> TRUE]

Environments ==
  {Good}
  \cup {[Good EXCEPT !.areas = {a}] : a \in {[Area EXCEPT !.name = "unclear"], [Area EXCEPT !.library = "relative"],
                                             [Area EXCEPT !.project = ".."]}}
  \cup {[Good EXCEPT !.root = path] : path \in {"", "relative"}}
  \cup {[Good EXCEPT !.sessions = Num(0)], [Good EXCEPT !.cap = Word], [Good EXCEPT !.json = FALSE],
        [Good EXCEPT !.machine = FALSE], [Good EXCEPT !.schema = 2], [Good EXCEPT !.priced = FALSE],
        [Good EXCEPT !.projects = FALSE], [Good EXCEPT !.stateRoot = ""]}
  \cup {[Good EXCEPT !.files = f] : f \in {<<>>, << <<"key", "empty">>, <<"key">> >>, << <<"empty", "key">> >>}}
  \cup {[Good EXCEPT !.foreign = f] : f \in {"marked", "while claiming"}}

\* config.py: a setting that cannot be used refuses every command.
AbsoluteOK(path) == path \in {"", "absolute"}
NumberOK(n, least) == n = Blank \/ (n.kind = "number" /\ n.value >= least)
AreaOK(a) ==
  a.name # "unclear" /\ a.description /\ a.library = "absolute" /\ a.project \notin {"", ".", "..", "a/b"}
LoadOK(env) ==
  /\ env.json /\ \A a \in env.areas : AreaOK(a)
  /\ AbsoluteOK(env.root) /\ AbsoluteOK(env.stateRoot)
  /\ NumberOK(env.quiet, 0) /\ NumberOK(env.cap, 0) /\ NumberOK(env.sessions, 1)

\* secrets.py: the first file that can be read decides, and its last line
\* that names the key; `files' leaves out the ones that cannot.
ValueIn(file) ==
  LET named == SelectSeq(file, LAMBDA l : l \in {"key", "empty"})
  IN IF named = <<>> THEN "empty" ELSE named[Len(named)]
ApiKey(files) == IF files = <<>> THEN "empty" ELSE ValueIn(Head(files))

-----------------------------------------------------------------------------
Idle == [cmd |-> "none", step |-> "idle", env |-> Good, row |-> 0, found |-> 0]

LaneInit ==
  /\ lock = {} /\ db = [made |-> FALSE, rows |-> <<>>]
  /\ proc = [p \in Procs |-> Idle]
  /\ lastFull = {}

At(p, step) == proc[p].step = step
Go(p, step) == proc' = [proc EXCEPT ![p].step = step]

\* The process ends; its lock goes with it, however it ended.
Exit(p) == proc' = [proc EXCEPT ![p] = Idle] /\ lock' = lock \ {p}

\* The timer's run has the settings the operator's commands have, but the
\* faulty ones are the operator's to find.
Begin(p, cmd, env) ==
  /\ At(p, "idle") /\ (p = Timer => cmd = "run" /\ env = Good)
  /\ proc' = [proc EXCEPT ![p] = [Idle EXCEPT !.cmd = cmd, !.step = "load", !.env = env]]
  /\ UNCHANGED <<lock, db, lastFull>>

\* Settings, root and machine id, before anything is touched.
Load(p) ==
  /\ At(p, "load")
  /\ LET env == proc[p].env IN
       IF ~LoadOK(env) \/ (proc[p].cmd \in Writers /\ env.root = "") \/ ~env.machine
         THEN Exit(p)
         ELSE /\ Go(p, CASE proc[p].cmd \in Writers -> "lock" [] proc[p].cmd = "dry" -> "peek"
                         [] OTHER -> "status")
              /\ UNCHANGED lock
  /\ UNCHANGED <<db, lastFull>>

\* Mutant: the lock another process holds does not stop a run.
SingleAnyway(p) ==
  /\ At(p, "lock")
  /\ lock' = {p} /\ Go(p, "open")
  /\ UNCHANGED <<db, lastFull>>

\* single: a second instance says so and exits 0.
Single(p) ==
  /\ At(p, "lock")
  /\ IF lock # {} THEN Exit(p) ELSE lock' = {p} /\ Go(p, "open")
  /\ UNCHANGED <<db, lastFull>>

\* The key and the markers, then the database, which is made here, then the
\* claims.
Opened(p) ==
  /\ At(p, "open")
  /\ LET env == proc[p].env IN
       IF ApiKey(env.files) = "empty" \/ env.foreign = "marked" \/ env.schema # 3
         THEN Exit(p) /\ UNCHANGED db
         ELSE /\ db' = [db EXCEPT !.made = TRUE]
              /\ IF env.foreign = "while claiming" THEN Exit(p) ELSE Go(p, "scan") /\ UNCHANGED lock
  /\ UNCHANGED lastFull

\* pipeline.run up to its row: how many sessions it found eligible; --session
\* finds its one, or leaves with no row.
ScanOK(env) == env.priced /\ env.stateRoot # "" /\ env.projects
NotTaken(p) ==
  /\ At(p, "scan") /\ (~ScanOK(proc[p].env) \/ proc[p].cmd = "session")
  /\ Exit(p) /\ UNCHANGED <<db, lastFull>>

StartRun(p, found) ==
  /\ At(p, "scan") /\ ScanOK(proc[p].env) /\ Len(db.rows) < MaxRuns
  /\ proc[p].cmd = "session" => found = 1
  /\ db' = [db EXCEPT !.rows = Append(@, [over |-> FALSE, eligible |-> {}])]
  /\ proc' = [proc EXCEPT ![p].step = "take", ![p].row = Len(db.rows) + 1, ![p].found = found]
  /\ UNCHANGED <<lock, lastFull>>

\* Mutant: a --session run records the one session it saw as the backlog.
RowAnyway(cmd, found) == [over |-> TRUE, eligible |-> {found}]

\* The row finish_run writes, whatever the result: of a full run, the count.
Row(cmd, found) == [over |-> TRUE, eligible |-> IF cmd = "run" THEN {found} ELSE {}]

FinishRun(p) ==
  /\ db' = [db EXCEPT !.rows[proc[p].row] = Row(proc[p].cmd, proc[p].found)]
  /\ lastFull' = IF proc[p].cmd = "run" THEN {proc[p].found} ELSE lastFull
  /\ Go(p, "leave") /\ UNCHANGED lock

\* take is over, with a result or an error; SIGTERM, which a run turns into
\* SystemExit, finishes its row as well.
TakeAll(p) == At(p, "take") /\ FinishRun(p)

\* SIGTERM before the row, or the way out after it.
Leave(p) ==
  /\ proc[p].cmd \in Writers /\ proc[p].step \in {"lock", "open", "scan", "leave"}
  /\ Exit(p) /\ UNCHANGED <<db, lastFull>>

\* A dry run counts, and writes nothing: no lock, no database, no row.
DryRun(p) ==
  /\ At(p, "peek")
  /\ Exit(p) /\ UNCHANGED <<db, lastFull>>

\* Mutant: the lock is a file that stays when its process is killed.
KillKeepsLock(p) ==
  /\ ~At(p, "idle") /\ proc' = [proc EXCEPT ![p] = Idle]
  /\ UNCHANGED <<lock, db, lastFull>>

\* Killed, or the power fails: a row it started stays without a result.
Kill(p) == ~At(p, "idle") /\ Exit(p) /\ UNCHANGED <<db, lastFull>>

\* store.py: the newest row, then the newest count there is.
LastCount(rows) ==
  LET counted == {i \in DOMAIN rows : rows[i].eligible # {}}
  IN IF counted = {} THEN {} ELSE rows[CHOOSE i \in counted : \A j \in counted : j <= i].eligible

Status(p) == At(p, "status") /\ Exit(p) /\ UNCHANGED <<db, lastFull>>

Own(p) ==
  \/ Load(p) \/ Single(p) \/ Opened(p) \/ NotTaken(p) \/ TakeAll(p) \/ Leave(p) \/ DryRun(p) \/ Status(p)
  \/ \E found \in Counts \cup {1} : StartRun(p, found)

LaneNext ==
  \E p \in Procs :
    \/ \E cmd \in {"run", "session", "dry", "status"}, env \in Environments : Begin(p, cmd, env)
    \/ Own(p) \/ Kill(p)

\* A command goes on: systemd ends a run that does not within its timeout.
LaneFairness == \A p \in Procs : WF_laneVars(Own(p) \/ Kill(p))
LaneSpec == LaneInit /\ [][LaneNext]_laneVars /\ LaneFairness

-----------------------------------------------------------------------------
(* What the commands promise.                                               *)

Commands == Writers \cup {"none", "dry", "status"}
Steps == {"idle", "load", "lock", "open", "scan", "take", "leave", "peek", "status"}
LaneTypeOK ==
  /\ lock \subseteq Procs
  /\ db.made \in BOOLEAN /\ db.rows \in Seq([over : BOOLEAN, eligible : SUBSET Nat])
  /\ db = [made |-> db.made, rows |-> db.rows] /\ Len(db.rows) <= MaxRuns
  /\ proc \in [Procs -> [cmd : Commands, step : Steps, env : Environments, row : Nat, found : Nat]]
  /\ lastFull \subseteq Nat

\* Runs never overlap: the run that is taking sessions is the newest, and the
\* ones before it are over.  The budget and the session the run before stopped
\* on (store.py, stopped_before) are read on that ground.
RunsAreSerial ==
  \A p \in Procs : At(p, "take") =>
    /\ lock = {p} /\ proc[p].row = Len(db.rows)
    /\ \A q \in Procs \ {p} : proc[q].step \notin {"open", "scan", "take", "leave"}

\* What status reports as eligible is what the last full run counted, whatever
\* ran since or beside it: sessions one by one, runs that were killed.
StatusTellsLastFullRun == LastCount(db.rows) = lastFull

\* However a run ends, the next one can have the lock.
LockIsFreed == \A p \in Procs : p \in lock ~> p \notin lock
=============================================================================
