------------------------------- MODULE McpLogins -------------------------------
(***************************************************************************)
(* The shared store of MCP logins (mcp.py) on the host that keeps it: the  *)
(* one-time import of the grants Codex holds, a login from the desktop,    *)
(* with its worker and its adapter, and what status and connect make of    *)
(* the store.  Every file is written to a temp file and renamed.           *)
(*                                                                         *)
(* The adapter is mcp-remote: it may connect, fail or hang, and stores the *)
(* tokens before it says that it is connected.                             *)
(***************************************************************************)
EXTENDS Naturals, Sequences, FiniteSets

CONSTANTS Names            \* the configured accounts, in their order

ASSUME McpAssumption == Names \in Seq(STRING)

VARIABLES
  codex,      \* the accounts whose grant is in Codex' own file
  backup,     \* the copy made before the import is there
  dirs,       \* accounts with a directory of their own in the store
  clients,    \* accounts with an imported registration
  tokens,     \* per account: "none", "imported", "login", "lapsed"
  move,       \* the import under way: its step and the accounts still to move
  login,      \* the login under way: [name, step, adapter, connected]
  outcome,    \* what the last login told
  grants      \* accounts whose imported grant a login replaced or dropped (history)

store == <<codex, backup, dirs, clients, tokens>>
mcpVars == <<store, move, login, outcome, grants>>

All == {Names[i] : i \in 1..Len(Names)}
NoMove == [step |-> "idle", left |-> <<>>]
NoLogin == [name |-> "", step |-> "none", adapter |-> "off", connected |-> FALSE]

McpInit ==
  /\ codex = {} /\ backup = FALSE /\ dirs = {} /\ clients = {} /\ tokens = [n \in All |-> "none"]
  /\ move = NoMove /\ login = NoLogin /\ outcome = "none" /\ grants = {}

-----------------------------------------------------------------------------
(* Codex signs in by itself, until its grants have been moved.              *)

CodexLogin(n) ==
  /\ ~backup /\ n \notin codex /\ codex' = codex \cup {n}
  /\ UNCHANGED <<backup, dirs, clients, tokens, move, login, outcome, grants>>

\* Usable: the adapter will not send its caller to a browser.  A grant with a
\* refresh token is, an imported one always; one without lapses.
Usable(n) == tokens[n] \in {"imported", "login"}
Lapse(n) ==
  /\ tokens[n] = "login" /\ tokens' = [tokens EXCEPT ![n] = "lapsed"]
  /\ UNCHANGED <<codex, backup, dirs, clients, move, login, outcome, grants>>

-----------------------------------------------------------------------------
(* import_codex.                                                            *)

\* Every account has its grant and no directory yet, and no copy is left of an
\* import before; else nothing is changed.
MayMove == codex = All /\ dirs = {} /\ ~backup

Check ==
  /\ move.step = "idle" /\ MayMove
  /\ move' = [step |-> "backup", left |-> Names]
  /\ UNCHANGED <<store, login, outcome, grants>>

WriteBackup ==
  /\ move.step = "backup" /\ backup' = TRUE /\ move' = [move EXCEPT !.step = "client"]
  /\ UNCHANGED <<codex, dirs, clients, tokens, login, outcome, grants>>

WriteClient ==
  /\ move.step = "client" /\ move.left # <<>>
  /\ dirs' = dirs \cup {Head(move.left)} /\ clients' = clients \cup {Head(move.left)}
  /\ move' = [move EXCEPT !.step = "tokens"]
  /\ UNCHANGED <<codex, backup, tokens, login, outcome, grants>>

\* Mutant: the grant leaves Codex' file as it is read, before it is stored.
WriteTokensAndSource ==
  /\ move.step = "tokens"
  /\ tokens' = [tokens EXCEPT ![Head(move.left)] = "imported"] /\ codex' = {}
  /\ move' = [step |-> "client", left |-> Tail(move.left)]
  /\ UNCHANGED <<backup, dirs, clients, login, outcome, grants>>

WriteTokens ==
  /\ move.step = "tokens"
  /\ tokens' = [tokens EXCEPT ![Head(move.left)] = "imported"]
  /\ move' = [step |-> "client", left |-> Tail(move.left)]
  /\ UNCHANGED <<codex, backup, dirs, clients, login, outcome, grants>>

\* Codex' file, last, without what was moved.
WriteSource ==
  /\ move.step = "client" /\ move.left = <<>>
  /\ codex' = {} /\ move' = NoMove
  /\ UNCHANGED <<backup, dirs, clients, tokens, login, outcome, grants>>

\* The import is killed, or one of its writes fails.
MoveCut == move.step # "idle" /\ move' = NoMove /\ UNCHANGED <<store, login, outcome, grants>>

-----------------------------------------------------------------------------
(* login on the desktop, login_local on the host.                           *)

\* The worker's directory; --fresh drops what the store has, file by file.
Login(n, fresh) ==
  /\ login.step = "none"
  /\ login' = [name |-> n, step |-> IF fresh THEN "drop client" ELSE "start", adapter |-> "off", connected |-> FALSE]
  /\ dirs' = dirs \cup {n} /\ outcome' = "none"
  /\ UNCHANGED <<codex, backup, clients, tokens, move, grants>>

DropClient ==
  /\ login.step = "drop client" /\ clients' = clients \ {login.name}
  /\ login' = [login EXCEPT !.step = "drop tokens"]
  /\ UNCHANGED <<codex, backup, dirs, tokens, move, outcome, grants>>

DropTokens ==
  /\ login.step = "drop tokens" /\ tokens' = [tokens EXCEPT ![login.name] = "none"]
  /\ grants' = IF tokens[login.name] = "imported" THEN grants \cup {login.name} ELSE grants
  /\ login' = [login EXCEPT !.step = "start"]
  /\ UNCHANGED <<codex, backup, dirs, clients, move, outcome>>

Start ==
  /\ login.step = "start" /\ login' = [login EXCEPT !.step = "worker", !.adapter = "running"]
  /\ UNCHANGED <<store, move, outcome, grants>>

\* The adapter connects, with the tokens there are or after the browser's
\* consent; it may end without a word, or hang.
AdapterConnects ==
  /\ login.adapter = "running"
  /\ IF Usable(login.name) THEN UNCHANGED <<tokens, grants>>
     ELSE tokens' = [tokens EXCEPT ![login.name] = "login"] /\ grants' = grants \cup {login.name}
  /\ login' = [login EXCEPT !.connected = TRUE]
  /\ UNCHANGED <<codex, backup, dirs, clients, move, outcome>>

AdapterEnds ==
  /\ login.adapter = "running" /\ \E end \in {"ended 0", "ended 1"} : login' = [login EXCEPT !.adapter = end]
  /\ UNCHANGED <<store, move, outcome, grants>>

\* The desktop has its word from the worker, unless it is gone.
Tell(told) ==
  /\ login' = NoLogin /\ outcome' = IF outcome = "none" THEN told ELSE outcome
  /\ UNCHANGED <<store, move, grants>>

\* The adapter's output is at its end.
WorkerDone ==
  /\ login.step = "worker" /\ login.adapter \in {"ended 0", "ended 1"}
  /\ Tell(IF login.adapter = "ended 0" /\ login.connected THEN "ready" ELSE "failed")

\* Mutant: a worker waits for its adapter.
DeadlineNever == FALSE /\ Tell("failed")

\* AUTH_TIMEOUT_S and half a minute more: the adapter is killed.
Deadline == login.step = "worker" /\ login.adapter = "running" /\ Tell("failed")

\* A file cannot be dropped.
DropFails == login.step \in {"drop client", "drop tokens"} /\ Tell("failed")

\* The connection to the host breaks, or the worker asks the desktop for a
\* callback that is not ours: the worker goes on without it.
DeskGone ==
  /\ login.step # "none" /\ outcome = "none" /\ outcome' = "failed"
  /\ UNCHANGED <<store, move, login, grants>>

-----------------------------------------------------------------------------
LoginStep == DropClient \/ DropTokens \/ Start \/ WorkerDone \/ Deadline

McpNext ==
  \/ \E n \in All : CodexLogin(n) \/ Lapse(n) \/ Login(n, TRUE) \/ Login(n, FALSE)
  \/ Check \/ WriteBackup \/ WriteClient \/ WriteTokens \/ WriteSource \/ MoveCut
  \/ AdapterConnects \/ AdapterEnds \/ LoginStep \/ DropFails \/ DeskGone

McpSpec == McpInit /\ [][McpNext]_mcpVars /\ WF_mcpVars(LoginStep)

-----------------------------------------------------------------------------
(* What the store promises.                                                 *)

\* import_codex: a grant is nowhere lost, wherever the import is cut: Codex has
\* it still, or the store has it, or a login of that account took its place or,
\* asked for a fresh start, dropped it and may have failed since.
NoGrantIsLost ==
  backup => \A n \in All : n \in codex \/ tokens[n] = "imported" \/ n \in grants

\* "... shared auth directory already exists; refusing to overwrite it."
\* (import_codex, line 248): an import never puts its tokens over those of a
\* login.
LoginsAreKept ==
  [][\A n \in All : tokens[n] \in {"login", "lapsed"} => tokens'[n] # "imported"]_mcpVars

\* A login ends, whatever its adapter does.
LoginEnds == login.step # "none" ~> login.step = "none"
=============================================================================
