-------------------------------- MODULE WebDesk --------------------------------
(***************************************************************************)
(* The dashboard's server (web.py): the bearer token it reads from a file  *)
(* and follows when `flakelab web --rotate-token` renames a new one over   *)
(* it, the terminal sessions it issues against that token, and the routes  *)
(* of its requests, one thread each, down to the CLI calls they make.      *)
(*                                                                         *)
(* A token, and the stamp of the file (mtime, inode, size), is a number; 0 *)
(* is none.  Every write makes a new one of each.                          *)
(***************************************************************************)
EXTENDS Naturals, Sequences, FiniteSets

CONSTANTS Threads,        \* requests served at once
          MaxTokens,      \* bound: tokens ever written
          MaxSessions     \* bound: terminal sessions ever opened

ASSUME WebAssumption == MaxTokens \in Nat /\ MaxSessions \in Nat

VARIABLES
  token_file,  \* the token file: its token and its stamp
  made,        \* tokens ever written
  token,       \* Token: what was read, the stamp it was read at, the lock
  sessions,    \* Token.sessions: pairs of a session's number and the token it was opened with
  opened,      \* sessions ever opened
  thread,      \* each request: what it asks, its step, what current() read
  raced        \* a file was renamed over the one the server had just made: "no", "coming",
               \* or "yes" when it is that stamp the server holds (history)

webVars == <<token_file, made, token, sessions, opened, thread, raced>>
shared == <<token_file, made, token, sessions, opened, raced>>

NoRequest == [route |-> "none", host |-> TRUE, bearer |-> 0, cookie |-> 0, body |-> "good"]
Quiet == [request |-> NoRequest, step |-> "idle", next |-> "", read |-> 0, stamp |-> 0]
NoToken == [value |-> 0, stamp |-> 0, lock |-> {}]

WebInit ==
  /\ token_file = [token |-> 0, stamp |-> 0] /\ made = 0
  /\ token = NoToken /\ sessions = {} /\ opened = 0
  /\ thread = [t \in Threads |-> Quiet]
  /\ raced = "no"

Numbers == {s[1] : s \in sessions}
Is(t, step) == thread[t].step = step
To(t, step) == thread' = [thread EXCEPT ![t].step = step]
\* The request is settled; a call or a tunnel may still run.  Whether its answer
\* arrives changes nothing.
Quieted(t, step) == thread' = [thread EXCEPT ![t] = [Quiet EXCEPT !.step = step]]
Answer(t) == thread' = [thread EXCEPT ![t] = Quiet]

-----------------------------------------------------------------------------
(* The requests: do_GET and do_POST down to what needs the token.           *)

Static == {"/", "/api/health", "/logo"}
Changes == {"/api/switch"}               \* and /api/sessions/start
Apis == {"/api/state", "/api/terminal"} \cup Changes

Requests ==
  {[NoRequest EXCEPT !.route = r] : r \in Static}
  \cup {[NoRequest EXCEPT !.route = "/terminal", !.cookie = c] : c \in 0..opened}
  \cup {[NoRequest EXCEPT !.route = "/api/terminal", !.bearer = b] : b \in 0..made}
  \cup {[NoRequest EXCEPT !.route = r, !.bearer = made] : r \in Apis}
  \cup {[NoRequest EXCEPT !.route = "/api/state", !.bearer = made, !.host = FALSE],
        [NoRequest EXCEPT !.route = "/api/switch", !.bearer = made, !.body = "bad"]}

\* A Host that is not this server's gets nothing; the page, its logo and health
\* ask for nothing; the terminal wants a session and every other call the token.
Route(r) ==
  CASE ~r.host -> "idle"
    [] r.host /\ r.route = "/terminal" -> "session"
    [] r.host /\ r.route \in Static -> "idle"
    [] OTHER -> "auth"

\* What an authorized request comes to: a call, a session, or an error code.
Authorized(r) ==
  CASE r.route = "/api/state" -> "call"
    [] r.route = "/api/terminal" -> "open"
    [] r.route \in Changes /\ r.body = "good" -> "call"
    [] OTHER -> "idle"

Receive(t, r) ==
  /\ Is(t, "idle")
  /\ thread' = [thread EXCEPT ![t] = [Quiet EXCEPT !.step = Route(r),
                                                    !.request = IF Route(r) \in {"idle", "call"} THEN NoRequest ELSE r]]
  /\ UNCHANGED shared

\* The CLI calls of a request: each ends, with a code, by itself or by TIMEOUT.
CallEnds(t) == Is(t, "call") /\ Quieted(t, "idle") /\ UNCHANGED shared

-----------------------------------------------------------------------------
(* Token.current, under its lock.                                           *)

\* Mutant: the file is read before it is looked at.
StatLast(t) ==
  /\ \/ Is(t, "stat") /\ token_file.token # 0 /\ token_file.stamp # token.stamp
        /\ thread' = [thread EXCEPT ![t].read = token_file.token, ![t].step = "read"]
     \/ Is(t, "stat") /\ token_file.token # 0 /\ token_file.stamp = token.stamp
        /\ thread' = [thread EXCEPT ![t].read = token.value, ![t].stamp = token_file.stamp, ![t].step = "notice"]
     \/ Is(t, "stat") /\ token_file.token = 0 /\ To(t, "make")
     \/ Is(t, "read") /\ thread' = [thread EXCEPT ![t].stamp = token_file.stamp, ![t].step = "notice"]
  /\ UNCHANGED shared

\* The stamp is taken first, then the text: read only when the stamp is new.
\* A file that is gone or empty is made.
Look(t) ==
  /\ \/ Is(t, "stat") /\ token_file.stamp # 0 /\ token_file.stamp # token.stamp
        /\ thread' = [thread EXCEPT ![t].stamp = token_file.stamp, ![t].step = "read"]
     \/ Is(t, "stat") /\ token_file.stamp # 0 /\ token_file.stamp = token.stamp
        /\ thread' = [thread EXCEPT ![t].read = token.value, ![t].stamp = token_file.stamp, ![t].step = "notice"]
     \/ Is(t, "stat") /\ token_file.stamp = 0 /\ To(t, "make")
     \/ Is(t, "read") /\ thread' = [thread EXCEPT ![t].read = token_file.token,
                                                  ![t].step = IF token_file.token = 0 THEN "make" ELSE "notice"]
  /\ UNCHANGED shared

Enter(t, next) ==
  /\ token.lock = {} /\ token' = [token EXCEPT !.lock = {t}]
  /\ thread' = [thread EXCEPT ![t].step = "stat", ![t].next = next]
  /\ UNCHANGED <<token_file, made, sessions, opened, raced>>

Auth(t) == Is(t, "auth") /\ Enter(t, "check")
Session(t) == Is(t, "session") /\ Enter(t, "lookup")

\* Mutant: current() is called with the lock held, and it is not reentrant.
OpenHolding(t) ==
  /\ Is(t, "open") /\ token.lock = {} /\ token' = [token EXCEPT !.lock = {t}]
  /\ thread' = [thread EXCEPT ![t].step = "auth"]
  /\ UNCHANGED <<token_file, made, sessions, opened, raced>>

Open(t) == Is(t, "open") /\ Enter(t, "add")

\* _make, then the stamp of what is there now.
Make(t) ==
  /\ Is(t, "make") /\ made < MaxTokens
  /\ made' = made + 1 /\ token_file' = [token |-> made', stamp |-> made']
  /\ thread' = [thread EXCEPT ![t].read = made', ![t].step = "restat"]
  /\ UNCHANGED <<token, sessions, opened, raced>>

Restat(t) ==
  /\ Is(t, "restat") /\ token_file.stamp # 0
  /\ thread' = [thread EXCEPT ![t].stamp = token_file.stamp, ![t].step = "notice"]
  /\ UNCHANGED shared

\* An OSError, or a file that is gone again: the request dies, the lock is freed.
MakeFails(t) ==
  /\ \/ Is(t, "make")
     \/ Is(t, "restat") /\ token_file.stamp = 0
  /\ Answer(t) /\ token' = [token EXCEPT !.lock = {}]
  /\ raced' = IF raced = "coming" THEN "no" ELSE raced
  /\ UNCHANGED <<token_file, made, sessions, opened>>

\* Every session goes with the old token.
SessionsAfter(new) == IF new THEN {} ELSE sessions

\* The new stamp and token are kept; then the check of a bearer, the add of
\* open_session or the lookup of has_session.
Notice(t) ==
  /\ Is(t, "notice")
  /\ LET new == thread[t].stamp # token.stamp
         value == IF new THEN thread[t].read ELSE token.value
         r == thread[t].request
         next == IF thread[t].next # "check" THEN thread[t].next
                 ELSE IF r.bearer = value THEN Authorized(r) ELSE "idle"
     IN /\ token' = [value |-> value, stamp |-> thread[t].stamp, lock |-> {}]
        /\ sessions' = SessionsAfter(new)
        /\ raced' = IF ~new THEN raced ELSE IF raced = "coming" THEN "yes" ELSE "no"
        /\ thread' = [thread EXCEPT ![t] = [Quiet EXCEPT !.step = next,
                                                          !.request = IF next \in {"idle", "call"} THEN NoRequest ELSE r]]
  /\ UNCHANGED <<token_file, made, opened>>

Add(t) ==
  /\ Is(t, "add") /\ token.lock = {} /\ opened < MaxSessions
  /\ opened' = opened + 1
  /\ sessions' = sessions \cup {<<opened', thread[t].request.bearer>>}
  /\ Quieted(t, "idle") /\ UNCHANGED <<token_file, made, token, raced>>

Lookup(t) ==
  /\ Is(t, "lookup") /\ token.lock = {}
  /\ Quieted(t, IF thread[t].request.cookie \in Numbers THEN "tunnel" ELSE "idle")
  /\ UNCHANGED shared

\* A tunnel lasts until one of its ends closes; a rotation does not end it.
TunnelEnds(t) == Is(t, "tunnel") /\ Answer(t) /\ UNCHANGED shared

-----------------------------------------------------------------------------
(* Around the server.                                                       *)

\* --rotate-token: a temp file, renamed.
Rotate ==
  /\ made < MaxTokens
  /\ made' = made + 1 /\ token_file' = [token |-> made', stamp |-> made']
  /\ raced' = IF \E t \in Threads : Is(t, "restat") THEN "coming" ELSE raced
  /\ UNCHANGED <<token, sessions, opened, thread>>

\* The file is removed.
FileGone ==
  /\ token_file.stamp # 0 /\ token_file' = [token |-> 0, stamp |-> 0]
  /\ UNCHANGED <<made, token, sessions, opened, thread, raced>>

\* A session's twelve hours are over.
Expire ==
  /\ \E s \in sessions : sessions' = sessions \ {s}
  /\ UNCHANGED <<token_file, made, token, opened, thread, raced>>

\* The unit restarts: nothing the server knew is kept.
Restart ==
  /\ token' = NoToken /\ sessions' = {} /\ thread' = [t \in Threads |-> Quiet] /\ raced' = "no"
  /\ UNCHANGED <<token_file, made, opened>>

Work(t) ==
  \/ CallEnds(t) \/ Auth(t) \/ Session(t) \/ Open(t) \/ Look(t) \/ Make(t) \/ Restat(t)
  \/ MakeFails(t) \/ Notice(t) \/ Add(t) \/ Lookup(t)

WebNext ==
  \/ \E t \in Threads : Work(t) \/ TunnelEnds(t) \/ \E r \in Requests : Receive(t, r)
  \/ Rotate \/ FileGone \/ Expire \/ Restart

WebSpec == WebInit /\ [][WebNext]_webVars /\ \A t \in Threads : WF_webVars(Work(t))

-----------------------------------------------------------------------------
(* What the server promises.                                                *)

\* --rotate-token: a running server follows.  What it holds for the file's
\* stamp is what the file holds, unless the rotation came between its own write
\* of a missing file and the look it took at it.
ServerFollowsTheFile ==
  token.stamp = token_file.stamp /\ token_file.stamp # 0 /\ raced # "yes" => token.value = token_file.token

\* "A token rotation ends every session." (web.py, lines 23-24): a session that
\* is good was opened with the token the server holds.
SessionsEndWithTheToken == \A s \in sessions : s[2] = token.value

\* No request keeps the others from the token.
TokenLockIsFreed == token.lock # {} ~> token.lock = {}
=============================================================================
