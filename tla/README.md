# flakelab in TLA+

A verification project kept beside the flakelab repository: TLA+ modules that
model its concurrent and failure-prone parts, TLC runs that check them on small
instances, and TLAPS proofs for every value of the constants. `PROJECT.json`
lists the components, the runs, the source lines behind every definition, the
hazards and the theorems.

    cd tla
    tlc -config questions_two_calls.cfg MCQuestions     # any run
    tlapm QuestionsProof.tla                            # any proof module

## The system

flakelab is a NixOS/WSL configuration with a set of command-line tools. Most of
it is declarative (Nix) or sequential shell around git and the installer; the
parts with state, concurrency and failure are these.

| component | state it keeps | operations | what is hard | correct when |
|---|---|---|---|---|
| `ask_question` MCP server (`lib/questions.py`) | pending calls, one dialog lock, open dialogs; a record per call in the Home Assistant inbox | tools/call, cancel, dialog reply, poll, record, end of input | a thread per call, two places that may answer, lost posts, cancel races, broken stdout | one result per call, the recorded answer, one dialog, nothing left on the phone, every call ends |
| session archive, the nightly run (`pipeline.py`, `store.py`, `sources.py`, `cli.py`) | sqlite rows for sessions and runs, ledger, archive copies, cards | nightly run, `run --session`, `--dry-run`, `status`, SIGTERM | transcripts change under the run, kills between three writes, model outages, two commands at once | a card names a true copy, every session settles, runs never overlap |
| session archive, below the run (`summarize.py`, `windows.py`, `cards.py`, `cite.py`, `render.py`, `config.py`, `secrets.py`) | windows, summaries, the card and its temp file | split, price, call, halve, merge, cite, render, write, cut | retries and halvings in mid-merge, a price before the first call, words that look like the card's own | every window in the summary once, no session dearer than its price, a whole card |
| folder ownership (`archive.py`, `cli.py`) | a `.owner` file per folder, claims in sqlite | check, claim, refuse | two boxes on one share, a bare mount point | two boxes never write one archive |
| memory sync (`lib/state-sync.zsh`, `nix-backup`) | a copy per box, the state root's replica, seen lists, tombstones | push leg, pull leg, propagate a deletion, apply tombstones | no lock between boxes, a sync client that reorders and conflicts, kills between two writes | no edit lost, a deletion stands, everybody ends with the same |
| history and transcript sync (`lib/state-sync.zsh`) | merged history, grow-only transcripts, manifests | merge, fold, park a fork, collect | conflict copies, forks | nothing shrinks |
| state gate (`lib/state-gate.zsh`) | decisions ledger: a log per box, one shared file and its conflict copies; held findings | scan, hold, review, replay | several boxes rewrite one file without a lock, half-written files | every ruling reaches every box, all go by the same one |
| backup (`nix-backup`) | lock, payload, snapshots | snapshot, prune, place | two runs, a stop half-way | the newest snapshot is whole |
| web terminal gate (`lib/web.py`) | token file, sessions in memory, one lock | request, login to the terminal, rotation, restart | rotation between two reads, a missing file made twice, threads | a running server follows the file, but for a rotation while it makes a missing one; the token's lock is freed. That a rotation ends every session does not hold (below) |
| MCP logins (`lib/mcp.py`) | credential folders, backup file | import, login, status | a worker with a deadline, a crash in the middle of an import, a login beside it | no grant lost, every login's worker ends. That an import overwrites no login does not hold (below) |
| MCP doctor (`lib/mcp_native.py`) | a probe process and its pipe | doctor, `--live` | an endpoint that answers wrongly, late or never | ends, and calls authenticated only what answered |
| git tools, update, doctor, router, installer, Nix modules | the machine and its clones | sequential | none | not modelled |

They interact through files and processes, not calls. The state-sync timer and
the operator's `flakelab backup` both run `nix-backup`, which takes one lock per
box, asks the gate what may leave, and mirrors into the state root, which a sync
client carries to the other boxes. The session archive reads the transcripts
that sync pulls in (a transcript replaced under it is one of its hazards) and
writes to a share that other boxes mount too. The question server shares nothing
with the rest but the inbox and the terminal's client.

## The modules

| module | what it is |
|---|---|
| `Questions` | the `ask_question` server: reader, call threads, dialog lock, inbox |
| `FirstAnswerWins` | what a caller is promised: one decision, one outcome, one dialog |
| `QuestionsContract` | the refinement of `FirstAnswerWins` by `Questions`, and a sentence of the design document |
| `SessionArchive` | the nightly run, from scan to row |
| `TwoTiers` | what the archive promises: copies accumulate, a card names an existing copy, done needs both |
| `ArchiveContract` | the refinement of `TwoTiers` by `SessionArchive`, and two sentences of ARCHITECTURE.md |
| `SessionCalls` | `SessionArchive`'s model step, call by call: windows, price, retries, merge rounds |
| `SessionCard` | citation check, the card's text, its atomic write |
| `SessionText` | what of a transcript is taken and rendered, who speaks, how a record is cut |
| `LaneCommand` | the commands side by side: settings, key, lock, run rows, `status` |
| `Ownership` | several boxes marking the folders of one share |
| `MemorySync` | one memory file on several boxes with a sync client between them |
| `Decisions` | the gate's ledger on several boxes: rulings, the shared file, its conflict copies |
| `WebDesk` | the dashboard's server: token, sessions, routes |
| `McpLogins` | the store of MCP logins: import, login, status |
| `NativeCheck` | the MCP doctor and its probe |
| `Words` | selection from a sequence by a set, for the modules that are proved about |
| `QuestionsProof`, `ArchiveProof`, `CallsProof`, `LaneProof`, `OwnershipProof`, `MemoryProof`, `ServicesProof` | theorems and proofs about the modules above |
| `SequenceFacts` | lemmas about functions that go through a sequence step by step |
| `MCQuestions`, `MCSessionArchive`, `MCMemorySync` | constants and symmetry for TLC |
| `MCArchive`, `MCLane`, `MCServices` | parts that share no state with each other, one beside the other: the first step chooses a part and only that part moves, so one run checks each in turn |

In the state machines a definition named as the mutated form of another
(commented "Mutant:") is not part of the specification: it is the plausible bug
with which the property it is listed under must fail.

### Questions

`pc[c]` is the place of call c's thread in `Server.ask`; `ask[c]` its local
variables; `dialog`, `response` and `dialog_lock` the shared dialog; `rec[c]` the
inbox's record of the call; `screen` and `wire` what the client shows and what it
has sent but the reader has not handled. Every exchange with the inbox
(`Transport.post`) is a step of its own, so all other threads and the phone move
between the look at a variable and its use. `Fail` covers a post that never
arrived and one whose reply was lost. `Rejected` is HTTP 400 as the reply to any
post: the code reads it as an inbox that cannot do what it is asked, and an inbox
of today says it of input it will not take, which is how `answer` comes to be
"unsupported" there too.

Decisions: clocks are choices (the deadline may pass at any time, an outage
counts as long as soon as two posts failed); `wait` belongs to the step that
starts it; a per-call slot replaces the `q-<n>` ids, which are never reused;
writing to stdout is synchronous and the dialog's replies are in flight; the
reader looks a reply's dialog up under the lock (`LookUpReply`) and stores the
reply after it (`StoreReply`, from `found`), so a dialog may be closed in between;
cancelled and expired records are both "closed"; whether the client can show dialogs and whether the
inbox is old are fixed before the first call. Failed creates are counted up to
three as in the code. A refused call (duplicate id, too many) changes nothing.
A create that reaches the inbox long after the client gave up on it is left out.

### SessionArchive

`file`, `age` are the transcripts, `row` and `stopped` the database, `copies` and
`cards` the share, `at` the place of the run in the pipeline. A content, its
SHA-256 and the size and mtime that stand for it are one version number; that
several contents share a size and mtime is thus excluded, as the code assumes. A
run stats all files first and judges them one by one (`Judge`), hashing those
whose stat is new; then sessions are taken oldest first, within the run's budget
(`Charge` is any cost up to the cap) and limit. A model call ends in a summary
for an area, an unclear one (review), an outage that ends the run, or a failure
that holds the session (three holds at most). `Kill` is a crash or an uncaught
error anywhere; `Stop` is SIGTERM, which holds the session in flight even when
its row has just been written. `MaxMishaps` bounds kills, stops, unmounts,
`--session` runs and content changes together.

### Ownership

Each box reads all markers (`ReadMarker`), then claims folder by folder: read,
`open("x")`, write, read again, record. Reading, making and writing a marker are
steps of their own, because the file exists empty in between. A box that has not
mounted the share sees the bare mount point, modelled as a disk of its own
(`Here`). Mounts change between the runs of a box. The operator who edits
`.owner` by hand is left out.

### MemorySync

One topic file: files do not affect each other but for "is the directory empty",
which is `kept`. A copy is its mtime. `Start` and `Again` are the tombstones
applied at the beginning of each leg; `NothingGone`, `Remove`, `Mark` propagate a
deletion with its two writes apart; `Push`, `Pull`, `Record` are the mirror legs
and the seen list. A timer's run has both legs, a backup only the first and never
records what it saw, a restore only the second. The sync client keeps a replica
of the state root per box and a hub: it sends and receives per path in any order,
the newer side of a conflict wins, a deletion loses, and what loses becomes a
conflict copy, which no run reads for a topic file.

Decisions: clocks agree and edits have distinct times; comparing and removing in
`apply_memory_tombstones` is one step, a tombstone and its date are written in
one; runs exclude each other per box, as the lock does. `fate` follows what
became of the file and is no variable of the code: a deletion is "deleted" when
its box had recorded the newest copy and is to look for deletions yet, "unsure"
when the code may bring it back: made in a run that has looked already and whose
pull or record is to come, preceded by a restore, or noticed by a run that is
killed between its two writes. The merge of `MEMORY.md`
is not modelled.

### Decisions

The rulings on one finding. `log` is each box's local log, which only grows;
`decisions` the shared file in each replica; `beside` its conflict copies. A file
is the set of its lines: their order matters only for rulings of one second, and
there the model leaves open which wins (but that the local log is read last).
`Gather`, `Place` and `Fold` are `gate_decisions_sync` with its three effects
apart: the union, the rename, the removal of the conflict copies; `Replay` starts
it from a backup when the local log has a line the shared file lacks.
`ReviewBegins` loads the ledger once; `Ruled` and `Settle` go by what was loaded,
whatever has arrived since. `Arrive` and `Arrived` let the client write a file
piece by piece: read in between, it is unreadable, nothing is decided and nothing
rewritten. Conflict copies appear and go in every replica at once. A single
command that fails (a log that cannot be written, a full disk) is left out, and a
kill does not cut the one line a box appends to its own log.

### SessionCalls

`SessionArchive` takes the model's part of a session as one step; here are its
calls. `windows` are intervals of records, `parts` the summaries so far (of
windows, or of the merge round), `queue` the groups of the round that wait.
`Plan` splits, prices and decides (held, capped, on); `Ask`, `Fails`, `Answered`
are a call with its retries; `Halve` repeats a cut merge as two halves; `Charge`
sees every answer before it is judged. One unit stands for bytes and tokens. The
price of a session leaves out the prompt around a window's text, which
`ProjectionIsConservative` therefore allows for; the "PART n of m" lines around
merged summaries are left out of a merge's input.

### SessionCard, SessionText

`Cited` keeps the anchors that name a record; `RenderCard` builds the lines;
`Compare`, `Fill`, `Replace` are the hash that ignores the date, the temp file and
the rename; `CutOff` a failure or a kill at any of them. Texts are sequences of
words chosen to look like the card's own: its pointer heading, its date line, a
line break. In `SessionText` a transcript record is its type, origin, flag and
blocks, each of its own kind. `OperatorText` is what the scan counts as the
operator's words, `heard` what the record renders to, entry by entry. `Fit` cuts
with characters of one or three bytes, and the mark it leaves grows with the
number it names (`Digits`).

### LaneCommand

`proc[p]` is a command with its step and settings; `lock` the lane's lock;
`db.rows` the run rows. `Load` refuses faulty settings, `Single` exits 0 when the
lock is held, `Opened` checks key and markers and makes the database, `StartRun`
and `FinishRun` write the row, `Kill` is a kill at any step: the kernel drops the
lock, the row stays without a result.

### WebDesk

A thread per request. `Look`, `Make`, `Restat`, `Notice` are `Token.current` step
by step under its lock: the stamp first, the text only when the stamp is new, a
missing file made (opened and written in one step, an empty file counting as
missing) and then looked at again. `Open` and `Add` are the two lock
sections of opening a session, `Lookup` and `Expire` those of finding one.
`Rotate` and `FileGone` come from outside at any time, `Restart` forgets the
sessions. Tokens and stamps are numbers; two files never share a stamp.

### McpLogins, NativeCheck

The import writes backup, then per account client and tokens, then the source
file; `MoveCut` is a crash at any of them. A login drops the client file, then
the tokens, starts the adapter, and ends by its worker, by the `Deadline` or with
the desktop that asked (`DeskGone`); it may run beside the import. The doctor goes
through the stages of a row; files and endpoint are any at all; the probe's
answer is read in one body or line by line, and `ProbeDeadline` bounds it
whatever it waits for.

## The runs

Twelve runs; the bounds are small because every hazard below needs only that
many actors.

| run | instance | distinct states | question and answer |
|---|---|---|---|
| `questions_one_call` | 1 call, all five mishaps | 134,978 | exactly-once result, recorded answer, true notes, nothing left on the phone, silence after a cancel, the contract, and the call ends: holds |
| `questions_two_calls` | 2 calls (symmetric), broken stdout, end of input | 2,915,356 | lock and dialogs agree, no dialog outlives its call: holds |
| `questions_lost_text` | 1 call, no mishap | 1,270 until found | **violated**: text typed while the poll with the phone's answer is under way is dropped |
| `archive_one_session` | 1 session, 3 contents, 2 areas, 4 mishaps; 2 boxes, root and one library | 2,272,782 | copies true, nothing passed over, `TwoTiers` implemented; markers stand, claims are marked, a refused run marks nothing: holds |
| `archive_other_text` | 1 session, 2 contents, 1 mishap | 2,017 until found | **violated**: a card from newer text names an older copy |
| `archive_lane` | up to 4 records of 3 sizes, 3 answer sizes, 2 attempts; 3 headings and 1 quote, 2 anchors, 2 days; records of up to 2 blocks, cuts of up to 1,010 characters; 2 commands, 3 rows; 2 boxes with one review each, a kill and an unmount | 270,280 | windows and summaries cover the session, the price bounds it, cards are whole, words have their speaker and are not dropped, runs are serial, `status` is right; calls end, the lock is freed, every ruling reaches every box: holds |
| `owner_two_boxes` | as `archive_one_session` | about 330,000 until found | **violated**: an empty marker lets both boxes work |
| `memory_settles` | 2 boxes, 1 later edit, a deletion with a kill, or a reset; the timer's runs | 571,081 | everything converges, a deletion stands, no edit lost without a removal: holds |
| `memory_lost_edit` | 2 boxes, 1 later edit, 1 deletion; all kinds of run | 419,081 until found | **violated**: a file written again after its deletion vanishes everywhere |
| `services_and_runs` | 2 threads, 2 tokens, 1 session; 2 accounts; 2 servers, answers of 3 lines; 2 transcripts, 2 contents, budget 1, 1 mishap | 264,197 | the server follows the file, the token's lock is freed; no grant lost, a login's worker ends; the doctor ends and says "authenticated" rightly; every transcript's session settles: holds |
| `web_old_session` | as `services_and_runs` | about 29,500 until found | **violated**: a login with the old token leaves a session after the rotation |
| `mcp_lost_login` | as `services_and_runs` | about 13,400 until found | **violated**: an import overwrites the tokens of a login that began beside it |

Why the bounds are enough. Calls of the question server meet only at the dialog
lock and at stdout: two calls make every pair of steps on the lock meet. A
session of the archive has three writes on the share and in the database; three
contents and four mishaps put a change or a kill in each gap, and a repeat after
it. Sessions meet in the budget, the outage and the order, for which two suffice; a
session costs nothing or the whole of a budget of 1, which ends the run or not.
Four records make windows that overlap, that cannot overlap and that hold one
record alone, and enough summaries for two merge rounds and a halving of three
or four. Texts of 1,010 characters pass the changes of the mark's length at 10, 100
and 1,000. Two commands and three rows put a killed run, a
`--session` run and a full one in any order. Two boxes and two folders give a box
that is first on one folder and second on the other. In `MemorySync` the deletion,
the edit after it and the box that has seen neither are the three roles; two
boxes suffice because roles change between runs. In `Decisions` one review per box makes up to
two rulings each, which put a sync of one box between any two steps of the other's
and make conflict copies that hold one, some or all of them; a ruled deletion is
dated after what it answers, so rulings of one and of different seconds meet
though the clock stands still. An `allow` is left out of the instance: it differs
from `keep` only in that it is not offered again. Two requests and two tokens
put a rotation between any two steps of one and beside another; two accounts
leave one moved and one not; an answer of three lines holds another's event and
the end of its own.

Deadlock is checked for `MemorySync`, whose boxes never stop. A question server
with every call ended, an archive with no mishaps left and everything settled
(the boxes of `Ownership` share a run with one), a card or a record that has been
read, a doctor at its end may stop, so those runs turn the check off.

### Fairness

- `Questions`: each call's thread is scheduled, and its posts end because sockets
  time out after 10 s: `WF(Thread(c))`. The wall clock brings the 1500 s deadline
  (`WF(DeadlinePasses(c))`) and the 30 s after which an unanswered `answer` is
  given up (`WF(RecordAnswerGivesUp(c))`). Nothing is assumed of the operator,
  the phone or the reader.
- `SessionArchive`: a run goes on (every call it makes has a timeout), the timer
  starts runs again, transcripts come to rest and the share is mounted again.
- `SessionCalls`: the session goes on: a call has a timeout, and a bound of
  attempts. Nothing is assumed of what the service answers.
- `LaneCommand`: a command goes on or is ended, since systemd kills a run that
  exceeds its time: `WF(Own(p) \/ Kill(p))`.
- `MemorySync`: the timer starts one run after another on each box, and the sync
  client carries every path: `WF` per box and path. One fairness condition for
  all paths of a box would let the file travel for ever while the tombstone
  waits.
- `Decisions`: a box's runs go on, its timer starts them, the sync client carries
  the file, and the state root is mounted again: `WF` per box for each of the
  three. The operator leaves a review: the model gives each box a bounded number.
- `WebDesk`: threads are scheduled and CLI calls have a timeout: `WF(Work(t))`.
  `McpLogins`: the worker's poll and its deadline (`LoginStep`), not the adapter.
  `NativeCheck`: the doctor's steps and its deadline (`DoctorStep`), not the
  endpoint or the worker.

## What is proved

All theorems hold for every value of the constants under the named assumptions
in the modules (finite set of calls, natural bounds, a non-empty set of boxes,
names that are a sequence of strings). Each module's type invariant is proved and
not run.

- **QuestionsProof.** `LockIsSafe` and `OneDialogShown` follow from `DialogInv`,
  which adds to the property where a call's thread may be while its dialog is open
  and what the screen shows then; without it, a thread could be past its last
  `close_dialog` with the lock held. `OneResult` and `ResultIsRecorded` follow from
  `ResultInv`: for each place of the thread, how many results are out, which
  payload is chosen and what the record holds. `NotesHold` and `PhoneIsCleared`
  need `PhoneInv` as well: a note has its cause from the moment it is chosen (an
  unavailable inbox: a post that failed; words refused: HTTP 400 to an `answer`
  that the inbox therefore has not kept), and a question stands on the phone only
  while its call can still clear it.
  `CancelIsFinal`: once a cancel is seen before the last look at the event, every
  way to a result is closed, which each step keeps. `ImplementsFirstAnswerWins`
  is the refinement: every step is one of the contract's four moves of one call
  (`MovesMap`), or none of its business.
- **ArchiveProof.** `TrueCopies`; `NothingPassedOver` from `OrderInv`, the order
  stat <= SHA <= file that rows and scans keep, since a file only moves forward
  and is statted before it is hashed. `DoneNeedsTheShare` and `ImplementsTwoTiers`
  (every step of the lane is a step of `TwoTiers` or a stutter) from `PipeInv`,
  which says at each place of a session what is on the share already. Both assume
  `MidRun = FALSE`: when the share goes away during a run, the code writes to the
  bare mount point and records the session as done.
- **OwnershipProof.** `MarkersNeverFall` from `WriteInv` (a box about to write
  stands before the empty marker it made, and no other box does);
  `ClaimsHaveMarkers` from the same; `RefusedMarksNothing` from `RefuseInv`.
- **MemoryProof.** `NewestIsSafe` from `KeptInv`: while nobody has removed the file
  there is no tombstone, no run is about to write one, and every home has some
  copy, so the mirror legs only raise what a home holds.
- **LaneProof.** `RunsNeverOverlap` and `StatusIsRight` from `LaneInv`: whoever is
  past the lock holds it, and the newest row with a count is the last full run's,
  whatever runs without a count were filed after it. `CutsFit`: a record cut to
  the window is no longer than the window, and loses no more than its mark needs,
  with all the mark's digits and for every bound on the text, if a window has room
  for a record's head and the longest mark (`RoomAssumption`). `RulingsStayRooted` from `LedgerInv`: a line of a shared file, of
  a conflict copy or of a run's work file is in the log of the box it was made on,
  so a run that overwrites the shared file or removes a copy takes nothing away
  for good, for any number of boxes.
  `OperatorIsQuoted` and `TakenRenders` hold of every record there can be, with any
  number of blocks: an entry marked as the operator's comes from a record of a
  person, no tag at its beginning says that the client wrote it, and beside tool
  results it is one block of text alone (a reminder behind his words in a record
  without results renders with them); and each text for which the scan takes a
  session is found in what its record renders, unless the client marked the record
  as meta.
  `CardWhole` and `DateIgnored` from `CardInv`: what is written, in the temp file
  or under the card's name, is always a front part or the whole of a rendering of
  some summary, and each compare is of two whole cards. That a rendering has the
  card's headings and no others rests on the form of its other lines: the line
  under "What" is escaped, a bullet opens with `-` and its quotes with `>`
  (`BulletPlain`), so the pointer section found from the end is the card's own
  (`WholePlaces`).
- **CallsProof.** For any sizes and any number of records. `WindowsCover`: `split`
  goes from record to record with windows that hold what it has passed
  (`HoldUpTo`). `SummaryCovers` from `CoverInv`: the summaries and the waiting
  groups, one behind the other, speak of each window once and in order (`InLine`),
  which an answer, a group passed on, a halving and a round each keep.
  `RoundsShrink`: a round has fewer groups than it had summaries.
  `ProjectionHolds` from `CostInv`: while the answers keep the size asked for,
  the summaries in hand and those still to come are no more, and none larger, than
  the summaries of one of the projection's rounds (`Awaited`), and what is spent
  together with the merges due in this round stays within that round's price
  (`Within`). It needs a fact about the greedy grouping that is not obvious
  (`GroupedAhead`, `RoundBelow`): from summaries that are no more and no larger,
  place by place, it never makes more groups, and as many only when the last of
  them begins no earlier, so a round takes no more calls and leaves nothing larger
  than the projected one. It uses of the constants only what
  `CallsAssumption` says: two summaries of the size asked for fit into one merge.
- **SequenceFacts.** A function given by recursion on the place in a sequence
  exists and has the type of its steps (`StepsExist`, `StepsTyped`); from these,
  what `FlattenSeq` and `Only` have in them. The induction is over a set:
  a set that has 0, and with each number the next, has all (`NatInductive`), shown
  by the least number outside it. `Only` selects by a set, where `SelectSeq`
  would select by an operator, of which no lemma can speak.
- **ServicesProof.** `ServerFollows` from `WebInv`: what each thread has read under
  which lock, and which token the stamp the server keeps belongs to.
  `GrantsAreKept` from `McpInv`: at each step of the import, which of the two homes
  still holds the grant being moved.
  `AuthenticatedIsEarned` from `ProbeInv`: how far the exchange has come is what
  the endpoint has answered; no check of a file (`NoneAuthenticates`) ever says
  "authenticated".

Every safety property that a passing run checks is a theorem. Only model-checked are the
liveness properties (`CallsEnd`, `EverySessionSettles`, `Settles`,
`DeletionsStand`, `SessionEnds`, `LockIsFreed`, `LoginEnds`, `DoctorEnds`,
`TokenLockIsFreed`, `RulingsReachAll`), which TLAPS cannot treat under fairness.

## Where the code and its documents differ

Six runs end in a counterexample; each is a finding in `PROJECT.json` with the
line of the code and the sentence it departs from:

- the text typed in the dialog that is dropped when the phone answers
  (`questions_lost_text`);
- the card that describes a later text than the copy beside it
  (`archive_other_text`);
- the empty `.owner` marker that lets two boxes write into one folder
  (`owner_two_boxes`);
- the memory that is written again after its deletion and lost
  (`memory_lost_edit`): the box that applies a tombstone keeps the file on its
  seen list until its next pull is recorded; the author's new copy that arrives in
  this window looks like a deletion made here, and its tombstone carries the date
  of the seen list, which is later than the copy;
- the terminal session that outlives its token (`web_old_session`): a request
  authorized by the old token adds its session after another thread has noticed
  the rotation and dropped the sessions, though "a token rotation ends every
  session" (`web.py`, 23; `remote-sessions.md`, 236-238);
- the login overwritten by an import (`mcp_lost_login`): the import looks at an
  account once (`mcp.py`, 247, "refusing to overwrite it") and writes its tokens
  later (269) without a second look.

Four more were met while modelling. A property excepts the case and says so; they
have no run of their own:

- a rotation between the making of a missing token file and the second look at it
  is not followed until the next one (`web.py`, `_make` and the `stat` after it),
  though lines 12-14 say the server follows: `ServerFollowsTheFile` excepts it
  (`raced`);
- a record the client marked as meta counts as operator text for the scan
  (`sources.py`, 80-95, reads neither `isMeta` nor the tags) and is dropped by the
  rendering (`render.py`, 165-166), so a session may be taken although "one with no
  operator text" is to be left out (ARCHITECTURE.md, 725): `TakenWordsRender`
  excepts it;
- the text blocks of a record without tool results render as one entry, so a
  reminder the client appended behind the operator's words stands under OPERATOR
  (`render.py`, 102-116 and 179), though lines 5-6 give any text that is not the
  operator's to SYSTEM: `OperatorWordsAreTheOperators` asks for no more of such a
  record than that no tag stands at its beginning;
- "no backup writes a deleted memory back" (`state-sync.zsh`, 309), but a deletion
  made after a run has looked for deletions is undone by that run's own pull, and
  so is one that a restore precedes; a kill between the removal from the root and
  the tombstone may undo it too: `DeletionsStand` excepts the three.

## Hazards without a property

One listed hazard has none: the share that goes away during a run
(`pipeline.py`, 235). The theorems state the assumption; the code's behaviour
without it is the one described above. Two are covered in part: `LoginEnds`
speaks of a login's worker, while the desktop's call that opens the browser
(`mcp.py`, 212) has no timeout; of a kill between the two writes of a deletion
`Settles` notices only that the boxes do not come to agree, not which way they do.
The following were met while reading and
are not on the list, because the outcome is a matter of choice and no line says
what is right:

- the dialog lock is not FIFO (`questions.py`, 346): which waiting call is asked
  next is the scheduler's choice, and the model leaves it open;
- the limit of eight calls and the refusal of an id in use (`questions.py`, 449)
  are modelled; the refusal is a guard read and set on one thread;
- at the end of input daemon threads get 12 s and may be cut in a post
  (`questions.py`, 478): the process ends, nobody waits for the result any more,
  and what the post left in the inbox runs out with its lease;
- a stop that comes after a session was recorded overwrites its row, and the
  session is summarised again (`pipeline.py`, 202); a card stays in its old
  library when its session moves to another (`pipeline.py`, 187); two boxes that
  start together may each mark one folder and are both refused from then on
  (`cli.py`, 98): the models take these steps, and none of the properties forbids
  them;
- a tombstone is written without reading the one there (`state-sync.zsh`, 393):
  covered by `Settles` and `DeletionsStand` as far as an effect can be seen;
- rulings of one second are ordered by the file they are read from, and each box
  reads its own log last (`state-gate.zsh`, 257): two boxes may go by different
  ones for good, which `RulingsReachAll` excepts;
- a `keep` revised into an `allow` is dated by the clock alone, unlike a deletion
  (`state-gate.zsh`, 1484 and 1488): on a box whose clock is behind the one that
  ruled `keep`, the later answer loses.

## Not modelled, and why

- Of the modelled components: form layout and prompt text, the journal's counts
  and `review` (it writes nothing), redaction patterns, the comparison of quotes
  that are not exact, the addresses the web server refuses to bind, the gateway's
  SSH commands (the same operations on the other host), failures of single shell
  commands, the line merge of `MEMORY.md`.
- State gate: the scan, the filter of history and the redaction of transcripts
  are text; the held list is a file of one box that the review alone rewrites.
- History and transcript sync: the history is a union with its conflict copies,
  the shape `Decisions` has over rulings; transcripts are copied whole, and what
  could go wrong is how their lines are compared.
- Backup: one run per box under a lock. What boxes share of it is `MemorySync` and
  `Decisions`; snapshots and their pruning are files of one box.
- git tools, update, `flakelab doctor`, router, menu, session browser, provisioning:
  one process, no state of their own, effects on the machine and on git.
- Nix modules: declarative; nothing runs.

## What could come next

1. `Backup`: snapshot, prune, placement by rename, with a stop between any two
   steps.
2. The transcript fold: grow-only copies, forks parked, the manifest and its
   collection.
3. The union of histories and the line merge of `MEMORY.md` against reference
   definitions over bounded inputs.
