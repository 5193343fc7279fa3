------------------------------ MODULE NativeCheck ------------------------------
(***************************************************************************)
(* `flakelab mcp doctor` (mcp_native.py): one row for every native server, *)
(* from the configuration Claude and Codex would read, the credential a    *)
(* fresh process would have and, live, a probe in a worker of its own that *)
(* asks the endpoint to initialize and to list its tools.                  *)
(*                                                                         *)
(* The files and the endpoint are any at all.                              *)
(***************************************************************************)
EXTENDS Naturals, Sequences, TLC

CONSTANTS Servers,         \* how many are configured
          MaxResponse      \* the lines an answer may have

ASSUME NativeAssumption == Servers \in Nat /\ MaxResponse \in Nat

VARIABLES
  live_check, \* the endpoints are asked
  stage,      \* of the row at hand: "config", "claude", "codex", "credential", "probe"; or "end"
  rows,       \* the rows done: how many, what the last one says, whether one failed
  worker,     \* the probe's process
  answered    \* the requests the endpoint answered well in this probe (history)

nativeVars == <<live_check, stage, rows, worker, answered>>

NoWorker == [step |-> "none", sent |-> "nothing", lines |-> 0, data |-> "nothing"]

NativeInit ==
  /\ live_check \in BOOLEAN /\ stage = IF Servers = 0 THEN "end" ELSE "config"
  /\ rows = [done |-> 0, last |-> "", failed |-> FALSE] /\ worker = NoWorker /\ answered = {}

Row(status) ==
  /\ rows' = [done |-> rows.done + 1, last |-> status,
              failed |-> rows.failed \/ status \notin {"configured", "authenticated"}]
  /\ stage' = IF rows.done + 1 = Servers THEN "end" ELSE "config"
  /\ UNCHANGED live_check

GoOn(next) == stage' = next /\ UNCHANGED <<live_check, rows>>
Probeless == worker' = NoWorker /\ answered' = {}

-----------------------------------------------------------------------------
(* The configuration.  A client's entry for the server is what it says of   *)
(* the fields "url", "auth" (bearer variable or helper) and, for Codex,     *)
(* "enabled", a command of its own counting the same; a field is "ours"     *)
(* when it is as configured.                                                *)

Values == {"ours", "other"}
Entries(fields) == UNION {[f -> Values] : f \in SUBSET fields}
Empty == [f \in {} |-> "ours"]
Ours(entry, fields) == \A f \in fields : f \in DOMAIN entry /\ entry[f] = "ours"

\* The checks of a stage in their order: the status of the first that hits.
First(ladder) ==
  LET hits == {i \in DOMAIN ladder : ladder[i][1]}
  IN IF hits = {} THEN "" ELSE ladder[CHOOSE i \in hits : \A j \in hits : i <= j][2]

Config ==
  /\ stage = "config"
  /\ \/ Row("configuration-invalid") \/ Row("client-config-mismatch")
     \/ GoOn("claude") \/ GoOn("credential")       \* no client files are named
  /\ Probeless

\* What Claude is to do with the server, and what its file says.
ClaudeCases ==
  [wanted : {"enabled", "disabled", "either"}, elsewhere : BOOLEAN, file : {"missing", "broken", "without", "with"},
   entry : Entries({"url", "auth"}), off : BOOLEAN]

ClaudeStatus(c) ==
  LET there == c.file = "with"
  IN First(<<<<c.elsewhere, "claude-config-dir-unverified">>,
             <<c.file = "broken", "client-config-unreadable-or-invalid">>,
             <<there /\ c.wanted = "disabled", "claude-disabled-server-still-activated">>,
             <<c.wanted = "enabled" /\ (~there \/ c.entry = Empty), "claude-activation-missing">>,
             <<there /\ ~Ours(c.entry, {"url", "auth"}), "claude-client-config-mismatch">>,
             <<there /\ c.off, "claude-server-disabled">>>>)

Claude ==
  /\ stage = "claude"
  /\ \/ \E c \in ClaudeCases : IF ClaudeStatus(c) = "" THEN GoOn("codex") ELSE Row(ClaudeStatus(c))
     \/ GoOn("codex")                                    \* Claude is not installed
  /\ Probeless

Layers ==
  [is : {"table"}, entry : Entries({"url", "auth", "enabled"})]
  \cup [is : {"missing", "broken", "no table"}, entry : {Empty}]

\* The system's file, then the user's over it, field by field.
Effective(system, user) == user.entry @@ system.entry

CodexStatus(system, user) ==
  LET entry == Effective(system, user)
      on == "enabled" \in DOMAIN entry => entry["enabled"] = "ours"
  IN First(<<<<system.is = "broken", "client-config-unreadable-or-invalid">>,
             <<system.is = "no table", "codex-client-config-invalid">>,
             <<user.is = "broken", "client-config-unreadable-or-invalid">>,
             <<user.is = "no table", "codex-client-config-invalid">>,
             <<entry = Empty, "codex-activation-missing">>,
             <<~on \/ ~Ours(entry, {"url", "auth"}), "codex-client-config-mismatch">>>>)

Codex ==
  /\ stage = "codex"
  /\ \/ \E system, user \in Layers :
          IF CodexStatus(system, user) = "" THEN GoOn("credential") ELSE Row(CodexStatus(system, user))
     \/ GoOn("credential")                               \* Codex does not use it
  /\ Probeless

-----------------------------------------------------------------------------
(* The credential: from the helper both clients run, or from the            *)
(* environment, where it must be the one its source holds.                  *)

HelperCredentials == [from : {"helper"}, env : {"", "t"}, file : {""}, line : {""}]
SourceCredentials ==
  [from : {"env"}, env : {"", "${", "t", "u"},
   file : {"", "secret-source-missing", "secret-source-unreadable", "secret-source-invalid"},
   line : {"", "no plain value", "t"}]

CredentialStatus(c) ==
  IF c.from = "helper" THEN First(<<<<c.env = "", "credential-helper-failed">>>>) ELSE
  First(<<<<c.env \in {"", "${"}, "credential-missing-from-environment">>,
          <<c.file # "", c.file>>,
          <<c.line = "no plain value", "secret-source-invalid">>,
          <<c.line = "", "credential-missing-from-source">>,
          <<c.line # c.env, "fresh-environment-source-mismatch">>>>)

Credential ==
  /\ stage = "credential"
  /\ \E c \in HelperCredentials \cup SourceCredentials :
       /\ IF CredentialStatus(c) # "" THEN Row(CredentialStatus(c)) ELSE
          IF live_check THEN GoOn("probe") ELSE Row("configured")
       /\ worker' = IF CredentialStatus(c) = "" /\ live_check THEN [NoWorker EXCEPT !.step = "initialize"] ELSE NoWorker
  /\ answered' = {}

-----------------------------------------------------------------------------
(* The probe's process: _probe and rpc.                                     *)

Asks == {"initialize", "tools/list"}
Says(step) == worker' = [NoWorker EXCEPT !.step = step] /\ UNCHANGED <<live_check, stage, rows>>
Sends(status) == worker' = [NoWorker EXCEPT !.step = "sent", !.sent = status] /\ UNCHANGED <<live_check, stage, rows>>

\* An answer with its own id: good, or an error, an unknown protocol, no tools.
Result(good) ==
  IF ~good THEN Sends("endpoint-unavailable") /\ UNCHANGED answered ELSE
  /\ answered' = answered \cup {worker.step}
  /\ IF worker.step = "initialize" THEN Says("initialized") ELSE Sends("authenticated")

\* The whole answer in one body.
Body ==
  /\ worker.step \in Asks /\ worker.lines = 0
  /\ \/ \E good \in BOOLEAN : Result(good)
     \/ Sends("endpoint-unavailable") /\ UNCHANGED answered    \* another id, too long, no JSON

\* Mutant: an event of another id is the answer.
EventOfAnyId(data) ==
  CASE data \in {"good", "bad"} -> Result(data = "good")
    [] data = "another" ->
         IF worker.step = "initialize" THEN Says("initialized") /\ UNCHANGED answered
                                       ELSE Sends("authenticated") /\ UNCHANGED answered
    [] data \in {"torn", "nothing"} -> Sends("endpoint-unavailable") /\ UNCHANGED answered

\* An event of the stream is at its end: the answer when it has the id.
Event(data) ==
  CASE data \in {"good", "bad"} -> Result(data = "good")
    [] data = "torn" -> Sends("endpoint-unavailable") /\ UNCHANGED answered
    [] data \in {"another", "nothing"} ->
         worker' = [worker EXCEPT !.lines = @ + 1, !.data = "nothing"] /\ UNCHANGED <<live_check, stage, rows, answered>>

\* A stream, line by line: data, with what the event's lines make together, or the
\* empty line that ends it.
Stream ==
  /\ worker.step \in Asks /\ worker.lines < MaxResponse
  /\ \/ \E data \in {"good", "bad", "another", "torn"} :
          /\ worker' = [worker EXCEPT !.lines = @ + 1, !.data = data]
          /\ UNCHANGED <<live_check, stage, rows, answered>>
     \/ Event(worker.data)

StreamEnds == worker.step \in Asks /\ worker.lines > 0 /\ Sends("endpoint-unavailable") /\ UNCHANGED answered

\* The note that it is initialized has no answer.
Initialized == worker.step = "initialized" /\ Says("tools/list") /\ UNCHANGED answered

\* An HTTP error at any of the requests, a redirect, a socket's ten seconds.
Refused ==
  /\ worker.step \in Asks \cup {"initialized"} /\ UNCHANGED answered
  /\ \E status \in {"unauthorized", "endpoint-unavailable"} : Sends(status)

\* The process dies, or is stuck in a lookup or an endless header.
Dies == worker.step \in Asks \cup {"initialized"} /\ Says("dead") /\ UNCHANGED answered

-----------------------------------------------------------------------------
(* probe.                                                                   *)

\* terminate, 0.2 s, kill, 0.2 s.
KillWorker == worker' = NoWorker /\ answered' = {}

\* The pipe has a status, or its end.
Received ==
  /\ stage = "probe" /\ worker.step \in {"sent", "dead"}
  /\ Row(IF worker.step = "sent" THEN worker.sent ELSE "endpoint-unavailable") /\ KillWorker

\* Mutant: what bounds the probe is the timeout of its sockets.
NoDeadline == FALSE /\ Row("endpoint-timeout") /\ KillWorker

\* Fifteen seconds.
ProbeDeadline == stage = "probe" /\ worker.step \notin {"sent", "dead"} /\ Row("endpoint-timeout") /\ KillWorker

-----------------------------------------------------------------------------
DoctorStep == Config \/ Claude \/ Codex \/ Credential \/ Received \/ ProbeDeadline
WorkerStep == Body \/ Stream \/ StreamEnds \/ Initialized \/ Refused \/ Dies
NativeNext == DoctorStep \/ WorkerStep

\* The doctor's own steps are fair; the endpoint's are not.
NativeSpec == NativeInit /\ [][NativeNext]_nativeVars /\ WF_nativeVars(DoctorStep)

-----------------------------------------------------------------------------
(* What a row says.                                                         *)

\* doctor --live: "authenticated" is said of an endpoint that answered both the
\* initialization and the list of tools, each with its own id and well.
AuthenticatedAnswered ==
  [][rows' # rows /\ rows'.last = "authenticated" => answered = Asks]_nativeVars

\* doctor: begun, it ends, with a row for every server.
DoctorEnds == stage # "config" ~> stage = "end" /\ rows.done = Servers
=============================================================================
