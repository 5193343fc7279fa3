---------------------------- MODULE ServicesProof ----------------------------
(***************************************************************************)
(* Proofs about the services: the dashboard's token for any number of      *)
(* requests, tokens and sessions; the store of MCP logins for any list of  *)
(* accounts; and the MCP doctor for any number of servers and any bound on *)
(* an answer's lines.                                                      *)
(***************************************************************************)
EXTENDS WebDesk, McpLogins, NativeCheck, TLAPS

(* The dashboard's token.                                                   *)

Routes == Static \cup Apis \cup {"none", "/terminal"}
RequestType == [route : Routes, host : BOOLEAN, bearer : Nat, cookie : Nat, body : {"good", "bad"}]
WebSteps == {"idle", "auth", "session", "open", "stat", "read", "make", "restat", "notice", "add", "lookup", "call", "tunnel"}
ThreadType == [request : RequestType, step : WebSteps, next : {"", "check", "lookup", "add"}, read : Nat, stamp : Nat]
TokenType == [value : Nat, stamp : Nat, lock : SUBSET Threads]

WebTypeOK ==
  /\ token_file \in [token : Nat, stamp : Nat] /\ made \in Nat
  /\ token \in TokenType /\ opened \in Nat
  /\ thread \in [Threads -> ThreadType]
  /\ raced \in {"no", "coming", "yes"}

\* The requests inside current(), of which there is one at most.
Inside == {"stat", "read", "make", "restat", "notice"}
LockInv == \A t \in Threads : thread[t].step \in Inside => token.lock = {t} /\ thread[t].next # ""

\* The file is the last one written, or none.
FileInv == token_file.token = token_file.stamp /\ token_file.stamp \in {0, made} /\ token.stamp <= made

\* What the server holds, or is about to, for the last stamp.
HeldInv == token.stamp = made /\ made # 0 /\ raced # "yes" => token.value = made
ReadInv ==
  \A t \in Threads :
    /\ thread[t].step = "read" => thread[t].stamp <= made
    /\ thread[t].step = "restat" => token.stamp < made /\ (thread[t].read = made \/ raced = "coming")
    /\ thread[t].step = "notice" =>
         /\ thread[t].stamp <= made
         /\ thread[t].stamp # token.stamp /\ thread[t].stamp = made => thread[t].read = made \/ raced = "coming"

WebInv == WebTypeOK /\ LockInv /\ FileInv /\ HeldInv /\ ReadInv

-----------------------------------------------------------------------------
(* What a request's steps do to its record.                                 *)

LEMMA QuietType == Quiet \in ThreadType /\ Quiet.step = "idle" /\ NoRequest \in RequestType
<1>1. NoRequest \in RequestType
  BY DEF NoRequest, RequestType, Routes
<1>2. "idle" \in WebSteps /\ "" \in {"", "check", "lookup", "add"} /\ 0 \in Nat
  BY DEF WebSteps
<1>3. Quiet = [request |-> NoRequest, step |-> "idle", next |-> "", read |-> 0, stamp |-> 0]
  BY DEF Quiet
<1> QED BY <1>1, <1>2, <1>3 DEF ThreadType

LEMMA RequestsTyped == ASSUME WebTypeOK, NEW r \in Requests PROVE r \in RequestType
<1> DEFINE Fields(route, host, bearer, cookie, body) ==
             [route |-> route, host |-> host, bearer |-> bearer, cookie |-> cookie, body |-> body]
<1>1. NoRequest = Fields("none", TRUE, 0, 0, "good") /\ opened \in Nat /\ made \in Nat
  BY DEF NoRequest, WebTypeOK
<1>2. ASSUME NEW route \in Routes, NEW host \in BOOLEAN, NEW bearer \in Nat, NEW cookie \in Nat, NEW body \in {"good", "bad"}
      PROVE  Fields(route, host, bearer, cookie, body) \in RequestType
  BY DEF RequestType
<1>3. CASE r \in {[NoRequest EXCEPT !.route = s] : s \in Static}
  <2>1. PICK s \in Static : r = Fields(s, TRUE, 0, 0, "good")
    BY <1>1, <1>3
  <2> QED BY <1>2, <2>1 DEF Routes
<1>4. CASE r \in {[NoRequest EXCEPT !.route = "/terminal", !.cookie = c] : c \in 0..opened}
  <2>1. PICK c \in 0..opened : r = Fields("/terminal", TRUE, 0, c, "good")
    BY <1>1, <1>4
  <2>2. "/terminal" \in Routes /\ TRUE \in BOOLEAN /\ c \in Nat /\ 0 \in Nat /\ "good" \in {"good", "bad"}
    BY <1>1 DEF Routes
  <2> HIDE DEF Fields
  <2> QED BY <1>2, <2>1, <2>2
<1>5. CASE r \in {[NoRequest EXCEPT !.route = "/api/terminal", !.bearer = b] : b \in 0..made}
  <2>1. PICK b \in 0..made : r = Fields("/api/terminal", TRUE, b, 0, "good")
    BY <1>1, <1>5
  <2>2. "/api/terminal" \in Routes /\ TRUE \in BOOLEAN /\ b \in Nat /\ 0 \in Nat /\ "good" \in {"good", "bad"}
    BY <1>1 DEF Routes, Apis
  <2> HIDE DEF Fields
  <2> QED BY <1>2, <2>1, <2>2
<1>6. CASE r \in {[NoRequest EXCEPT !.route = s, !.bearer = made] : s \in Apis}
  <2>1. PICK s \in Apis : r = Fields(s, TRUE, made, 0, "good")
    BY <1>1, <1>6
  <2> QED BY <1>1, <1>2, <2>1 DEF Routes
<1>7. CASE r \in {[NoRequest EXCEPT !.route = "/api/state", !.bearer = made, !.host = FALSE],
                  [NoRequest EXCEPT !.route = "/api/switch", !.bearer = made, !.body = "bad"]}
  <2>1. r = Fields("/api/state", FALSE, made, 0, "good") \/ r = Fields("/api/switch", TRUE, made, 0, "bad")
    BY <1>1, <1>7
  <2> QED BY <1>1, <1>2, <2>1 DEF Routes, Apis, Changes
<1> QED BY <1>3, <1>4, <1>5, <1>6, <1>7 DEF Requests

\* The record a step leaves behind.
LEMMA Stepped ==
  ASSUME NEW r \in ThreadType, NEW step \in WebSteps, NEW n \in {"", "check", "lookup", "add"}
  PROVE  /\ [r EXCEPT !.step = step] \in ThreadType
         /\ [r EXCEPT !.step = step].step = step /\ [r EXCEPT !.step = step].next = r.next
         /\ [[r EXCEPT !.step = step] EXCEPT !.next = n] \in ThreadType
BY DEF ThreadType

Stamped(r, k, step) == [[r EXCEPT !.stamp = k] EXCEPT !.step = step]
LEMMA SteppedStamp ==
  ASSUME NEW r \in ThreadType, NEW step \in WebSteps, NEW k \in Nat
  PROVE  /\ Stamped(r, k, step) \in ThreadType /\ Stamped(r, k, step).step = step /\ Stamped(r, k, step).stamp = k
         /\ Stamped(r, k, step).read = r.read /\ Stamped(r, k, step).next = r.next
BY DEF Stamped, ThreadType

Having(r, k, step) == [[r EXCEPT !.read = k] EXCEPT !.step = step]
LEMMA SteppedRead ==
  ASSUME NEW r \in ThreadType, NEW step \in WebSteps, NEW k \in Nat
  PROVE  /\ Having(r, k, step) \in ThreadType /\ Having(r, k, step).step = step /\ Having(r, k, step).read = k
         /\ Having(r, k, step).stamp = r.stamp /\ Having(r, k, step).next = r.next
BY DEF Having, ThreadType

LEMMA Rested ==
  ASSUME NEW q \in RequestType, NEW step \in WebSteps
  PROVE  /\ [Quiet EXCEPT !.step = step] \in ThreadType
         /\ [[Quiet EXCEPT !.step = step] EXCEPT !.request = q] \in ThreadType
<1>1. Quiet = [request |-> NoRequest, step |-> "idle", next |-> "", read |-> 0, stamp |-> 0]
  BY DEF Quiet
<1> QED BY <1>1, QuietType DEF ThreadType

-----------------------------------------------------------------------------
(* The invariant.                                                           *)

LEMMA WebInitially == WebInit => WebInv
<1> SUFFICES ASSUME WebInit PROVE WebInv
  OBVIOUS
<1>1. \A t \in Threads : thread[t] = Quiet
  BY DEF WebInit
<1>2. WebTypeOK
  BY QuietType DEF WebInit, WebTypeOK, TokenType, NoToken
<1>3. LockInv /\ ReadInv
  BY <1>1, QuietType DEF LockInv, ReadInv, Inside
<1>4. FileInv /\ HeldInv
  BY DEF WebInit, FileInv, HeldInv, NoToken
<1> QED BY <1>2, <1>3, <1>4 DEF WebInv

\* A request outside current() moves on, or leaves it with the token as it was.
LEMMA StepsOut ==
  ASSUME WebInv, NEW t \in Threads, NEW r \in ThreadType, r.step \notin Inside,
         thread' = [thread EXCEPT ![t] = r], UNCHANGED <<token_file, made, token, raced>>, opened' \in Nat
  PROVE  WebInv'
<1>t. WebTypeOK /\ LockInv /\ FileInv /\ HeldInv /\ ReadInv
  BY DEF WebInv
<1>1. thread'[t] = r /\ \A u \in Threads : u # t => thread'[u] = thread[u]
  BY <1>t DEF WebTypeOK
<1>2. WebTypeOK'
  BY <1>t DEF WebTypeOK
<1>3. LockInv'
  BY <1>t, <1>1 DEF LockInv
<1>4. FileInv' /\ HeldInv'
  BY <1>t DEF FileInv, HeldInv
<1>5. ReadInv'
  BY <1>t, <1>1 DEF ReadInv, Inside
<1> QED BY <1>2, <1>3, <1>4, <1>5 DEF WebInv

\* A request enters current().
LEMMA Enters ==
  ASSUME WebInv, NEW t \in Threads, NEW next \in {"check", "lookup", "add"}, Enter(t, next)
  PROVE  WebInv'
<1>t. WebTypeOK /\ LockInv /\ FileInv /\ HeldInv /\ ReadInv
  BY DEF WebInv
<1>1. /\ token.lock = {} /\ token' = [token EXCEPT !.lock = {t}] /\ UNCHANGED <<token_file, made, opened, raced>>
      /\ thread' = [thread EXCEPT ![t] = [[thread[t] EXCEPT !.step = "stat"] EXCEPT !.next = next]]
  BY <1>t DEF Enter, WebTypeOK
<1>2. thread[t] \in ThreadType /\ token \in TokenType
  BY <1>t DEF WebTypeOK
<1>3. [[thread[t] EXCEPT !.step = "stat"] EXCEPT !.next = next] \in ThreadType /\ token' \in TokenType
  BY <1>1, <1>2, Stepped, ZenonT(30) DEF WebSteps, TokenType
<1>4. /\ thread'[t].step = "stat" /\ \A u \in Threads : u # t => thread'[u] = thread[u]
      /\ token'.value = token.value /\ token'.stamp = token.stamp /\ token'.lock = {t}
  BY <1>t, <1>1, <1>2 DEF WebTypeOK, TokenType, ThreadType
<1>n. thread'[t].next = next
  BY <1>t, <1>1, <1>2 DEF WebTypeOK, ThreadType
<1>5. \A u \in Threads : thread[u].step \notin Inside
  BY <1>t, <1>1 DEF LockInv
<1>6. WebTypeOK'
  BY <1>t, <1>1, <1>3 DEF WebTypeOK
<1>7. LockInv'
  BY <1>4, <1>5, <1>n DEF LockInv
<1>8. FileInv' /\ HeldInv'
  BY <1>t, <1>1, <1>4 DEF FileInv, HeldInv
<1>9. ReadInv'
  BY <1>4, <1>5 DEF ReadInv, Inside
<1> QED BY <1>6, <1>7, <1>8, <1>9 DEF WebInv

\* A step inside that leaves the file and the token as they are.
LEMMA StepsInside ==
  ASSUME WebInv, NEW t \in Threads, NEW r \in ThreadType,
         thread[t].step \in Inside, thread' = [thread EXCEPT ![t] = r],
         UNCHANGED <<token_file, made, token, raced, opened>>,
         r.step = "read" => r.stamp <= made,
         r.step # "restat", r.next = thread[t].next,
         r.step = "notice" =>
           /\ r.stamp <= made
           /\ r.stamp # token.stamp /\ r.stamp = made => r.read = made \/ raced = "coming"
  PROVE  WebInv'
<1>t. WebTypeOK /\ LockInv /\ FileInv /\ HeldInv /\ ReadInv
  BY DEF WebInv
<1>1. thread'[t] = r /\ \A u \in Threads : u # t => thread'[u] = thread[u]
  BY <1>t DEF WebTypeOK
<1>2. WebTypeOK'
  BY <1>t DEF WebTypeOK
<1>3. LockInv'
  BY <1>t, <1>1 DEF LockInv
<1>4. FileInv' /\ HeldInv'
  BY <1>t DEF FileInv, HeldInv
<1>5. ReadInv'
  BY <1>t, <1>1 DEF ReadInv
<1> QED BY <1>2, <1>3, <1>4, <1>5 DEF WebInv

LEMMA Looks == ASSUME WebInv, NEW t \in Threads, Look(t) PROVE WebInv'
<1>t. WebTypeOK /\ FileInv /\ thread[t] \in ThreadType
  BY DEF WebInv, WebTypeOK
<1>0. /\ UNCHANGED <<token_file, made, token, raced, opened>> /\ token.value \in Nat /\ made \in Nat
      /\ token_file.stamp \in Nat /\ token_file.token \in Nat /\ thread[t].stamp \in Nat
  BY <1>t DEF Look, shared, WebTypeOK, TokenType, ThreadType
<1>1. CASE /\ thread[t].step = "stat" /\ token_file.stamp # 0 /\ token_file.stamp # token.stamp
           /\ thread' = [thread EXCEPT ![t].stamp = token_file.stamp, ![t].step = "read"]
  <2> DEFINE r == Stamped(thread[t], token_file.stamp, "read")
  <2>1. thread' = [thread EXCEPT ![t] = r]
    BY <1>1, <1>t DEF WebTypeOK, Stamped
  <2>2. r \in ThreadType /\ r.step = "read" /\ r.stamp = token_file.stamp /\ r.next = thread[t].next
    <3>1. "read" \in WebSteps
      BY DEF WebSteps
    <3> QED BY <1>t, <1>0, <3>1, SteppedStamp, SMTT(20)
  <2>3. r.stamp <= made
    BY <1>t, <1>0, <2>2 DEF FileInv
  <2> HIDE DEF r
  <2> QED BY <1>0, <1>1, <2>1, <2>2, <2>3, StepsInside DEF Inside
<1>2. CASE /\ thread[t].step = "stat" /\ token_file.stamp # 0 /\ token_file.stamp = token.stamp
           /\ thread' = [thread EXCEPT ![t].read = token.value, ![t].stamp = token_file.stamp, ![t].step = "notice"]
  <2> DEFINE held == [thread[t] EXCEPT !.read = token.value]
             r == Stamped(held, token_file.stamp, "notice")
  <2>1. thread' = [thread EXCEPT ![t] = r]
    BY <1>2, <1>t DEF WebTypeOK, Stamped
  <2>2. held \in ThreadType /\ held.next = thread[t].next
    BY <1>t, <1>0 DEF ThreadType
  <2>3. r \in ThreadType /\ r.step = "notice" /\ r.stamp = token_file.stamp /\ r.next = thread[t].next
    <3>1. "notice" \in WebSteps
      BY DEF WebSteps
    <3> HIDE DEF held
    <3> QED BY <1>0, <2>2, <3>1, SteppedStamp
  <2>4. r.stamp <= made
    BY <1>t, <1>0, <2>3 DEF FileInv
  <2> HIDE DEF r
  <2> QED BY <1>0, <1>2, <2>1, <2>3, <2>4, StepsInside DEF Inside
<1>3. CASE thread[t].step = "stat" /\ thread' = [thread EXCEPT ![t].step = "make"]
  <2> DEFINE r == [thread[t] EXCEPT !.step = "make"]
  <2>1. thread' = [thread EXCEPT ![t] = r]
    BY <1>3, <1>t DEF WebTypeOK
  <2>2. r \in ThreadType /\ r.step = "make" /\ r.next = thread[t].next
    <3>1. "make" \in WebSteps
      BY DEF WebSteps
    <3> QED BY <1>t, <3>1, Stepped
  <2> HIDE DEF r
  <2> QED BY <1>0, <1>3, <2>1, <2>2, StepsInside DEF Inside
<1>4. CASE /\ thread[t].step = "read"
           /\ thread' = [thread EXCEPT ![t].read = token_file.token, ![t].step = IF token_file.token = 0 THEN "make" ELSE "notice"]
  <2> DEFINE step == IF token_file.token = 0 THEN "make" ELSE "notice"
             r == Having(thread[t], token_file.token, step)
  <2>1. thread' = [thread EXCEPT ![t] = r]
    BY <1>4, <1>t DEF WebTypeOK, Having
  <2>2. step \in WebSteps
    BY DEF WebSteps
  <2>3. r \in ThreadType /\ r.step = step /\ r.read = token_file.token /\ r.stamp = thread[t].stamp /\ r.next = thread[t].next
    <3> HIDE DEF step
    <3> QED BY <1>t, <1>0, <2>2, SteppedRead, SMTT(20)
  <2>4. thread[t].stamp <= made
    BY <1>4 DEF WebInv, ReadInv
  <2>5. r.step = "notice" => r.read = made
    BY <1>t, <2>3 DEF FileInv
  <2>6. r.step \notin {"read", "restat"}
    BY <2>3
  <2> HIDE DEF r, step
  <2> QED BY <1>0, <1>4, <2>1, <2>3, <2>4, <2>5, <2>6, StepsInside DEF Inside
<1> QED BY <1>1, <1>2, <1>3, <1>4 DEF Look, Is, To

LEMMA Makes == ASSUME WebInv, NEW t \in Threads, Make(t) PROVE WebInv'
<1>t. WebTypeOK /\ LockInv /\ FileInv /\ HeldInv /\ ReadInv
  BY DEF WebInv
<1> DEFINE r == Having(thread[t], made + 1, "restat")
<1>1. /\ thread[t].step = "make" /\ made' = made + 1 /\ token_file' = [token |-> made + 1, stamp |-> made + 1]
      /\ thread' = [thread EXCEPT ![t] = r] /\ UNCHANGED <<token, opened, raced>>
  BY <1>t DEF Make, Is, WebTypeOK, Having
<1>2. made \in Nat /\ thread[t] \in ThreadType /\ token.stamp \in Nat /\ token.stamp <= made
  BY <1>t DEF WebTypeOK, FileInv, TokenType
<1>3. r \in ThreadType /\ r.step = "restat" /\ r.read = made + 1 /\ r.next = thread[t].next
  <2>1. "restat" \in WebSteps /\ made + 1 \in Nat
    BY <1>2 DEF WebSteps
  <2> QED BY <1>2, <2>1, SteppedRead
<1> HIDE DEF r
<1>4. thread'[t] = r /\ \A u \in Threads : u # t => thread'[u] = thread[u] /\ thread[u].step \notin Inside
  BY <1>t, <1>1 DEF WebTypeOK, LockInv, Inside
<1>5. WebTypeOK'
  BY <1>t, <1>1, <1>2, <1>3 DEF WebTypeOK
<1>6. LockInv'
  BY <1>t, <1>1, <1>3, <1>4, ZenonT(30) DEF LockInv, Inside
<1>7. FileInv' /\ HeldInv'
  BY <1>1, <1>2 DEF FileInv, HeldInv
<1>8. ReadInv'
  BY <1>1, <1>2, <1>3, <1>4 DEF ReadInv, Inside
<1> QED BY <1>5, <1>6, <1>7, <1>8 DEF WebInv

LEMMA Restats == ASSUME WebInv, NEW t \in Threads, Restat(t) PROVE WebInv'
<1>t. WebTypeOK /\ FileInv /\ ReadInv /\ thread[t] \in ThreadType /\ token_file.stamp \in Nat
  BY DEF WebInv, WebTypeOK
<1> DEFINE r == Stamped(thread[t], token_file.stamp, "notice")
<1>1. /\ thread[t].step = "restat" /\ token_file.stamp # 0 /\ thread' = [thread EXCEPT ![t] = r]
      /\ UNCHANGED <<token_file, made, token, raced, opened>>
  BY <1>t DEF Restat, Is, shared, WebTypeOK, Stamped
<1>2. r \in ThreadType /\ r.step = "notice" /\ r.stamp = token_file.stamp /\ r.read = thread[t].read /\ r.next = thread[t].next
  <2>1. "notice" \in WebSteps
    BY DEF WebSteps
  <2> QED BY <1>t, <2>1, SteppedStamp
<1>3. r.stamp = made /\ made \in Nat /\ (r.read = made \/ raced = "coming")
  BY <1>t, <1>1, <1>2 DEF FileInv, ReadInv, WebTypeOK
<1> HIDE DEF r
<1>4. thread[t].step \in Inside /\ r.stamp <= made /\ r.step # "restat" /\ r.step # "read"
  BY <1>1, <1>2, <1>3 DEF Inside
<1> QED BY <1>1, <1>2, <1>3, <1>4, StepsInside

LEMMA Fails == ASSUME WebInv, NEW t \in Threads, MakeFails(t) PROVE WebInv'
<1>t. WebTypeOK /\ LockInv /\ FileInv /\ HeldInv /\ ReadInv
  BY DEF WebInv
<1>1. /\ thread[t].step \in {"make", "restat"} /\ thread' = [thread EXCEPT ![t] = Quiet]
      /\ token' = [token EXCEPT !.lock = {}] /\ UNCHANGED <<token_file, made, opened>>
      /\ raced' = IF raced = "coming" THEN "no" ELSE raced
  BY DEF MakeFails, Is, Answer
<1>2. token'.value = token.value /\ token'.stamp = token.stamp /\ token' \in TokenType
  BY <1>t, <1>1 DEF WebTypeOK, TokenType
<1>4. thread'[t].step = "idle" /\ \A u \in Threads : u # t => thread'[u] = thread[u] /\ thread[u].step \notin Inside
  BY <1>t, <1>1, QuietType DEF WebTypeOK, LockInv, Inside
<1>5. WebTypeOK'
  BY <1>t, <1>1, <1>2, QuietType DEF WebTypeOK
<1>6. LockInv' /\ ReadInv'
  BY <1>4 DEF LockInv, ReadInv, Inside
<1>7. FileInv' /\ HeldInv'
  BY <1>t, <1>1, <1>2 DEF FileInv, HeldInv
<1> QED BY <1>5, <1>6, <1>7 DEF WebInv

LEMMA Notices == ASSUME WebInv, NEW t \in Threads, Notice(t) PROVE WebInv'
<1>t. WebTypeOK /\ LockInv /\ FileInv /\ HeldInv /\ ReadInv
  BY DEF WebInv
<1>r. /\ thread[t] \in ThreadType /\ thread[t].stamp \in Nat /\ thread[t].read \in Nat /\ thread[t].request \in RequestType
      /\ token.stamp \in Nat /\ token.value \in Nat /\ made \in Nat
      /\ thread[t].next \in {"", "check", "lookup", "add"}
  BY <1>t DEF WebTypeOK, ThreadType, TokenType
<1> DEFINE new == thread[t].stamp # token.stamp
           value == IF new THEN thread[t].read ELSE token.value
           next == IF thread[t].next # "check" THEN thread[t].next
                   ELSE IF thread[t].request.bearer = value THEN Authorized(thread[t].request) ELSE "idle"
           q == IF next \in {"idle", "call"} THEN NoRequest ELSE thread[t].request
           r == [[Quiet EXCEPT !.step = next] EXCEPT !.request = q]
<1>1. /\ thread[t].step = "notice" /\ UNCHANGED <<token_file, made, opened>>
      /\ token' = [value |-> value, stamp |-> thread[t].stamp, lock |-> {}]
      /\ raced' = IF ~new THEN raced ELSE IF raced = "coming" THEN "yes" ELSE "no"
      /\ thread' = [thread EXCEPT ![t] = [Quiet EXCEPT !.step = next, !.request = q]]
  BY DEF Notice, Is
<1>2. next \in {"lookup", "add", "call", "open", "idle"}
  <2>1. thread[t].next # ""
    BY <1>t, <1>1 DEF LockInv, Inside
  <2> QED BY <1>r, <2>1 DEF Authorized
<1>3. q \in RequestType /\ value \in Nat
  BY <1>r, QuietType
<1> HIDE DEF next, q
<1>4. r \in ThreadType /\ thread' = [thread EXCEPT ![t] = r] /\ r.step = next
  <2>1. next \in WebSteps
    BY <1>2 DEF WebSteps
  <2>2. r \in ThreadType
    BY <1>3, <2>1, Rested
  <2>3. r.step = next
    BY DEF Quiet
  <2> QED BY <1>1, <2>2, <2>3
<1> HIDE DEF r
<1>5. thread'[t].step \notin Inside /\ \A u \in Threads : u # t => thread'[u] = thread[u] /\ thread[u].step \notin Inside
  <2>1. \A u \in Threads : u # t => thread[u].step \notin Inside
    BY <1>t, <1>1 DEF LockInv, Inside
  <2>2. thread'[t] = r /\ \A u \in Threads : u # t => thread'[u] = thread[u]
    BY <1>t, <1>4 DEF WebTypeOK
  <2>3. r.step \notin Inside
    BY <1>2, <1>4 DEF Inside
  <2> QED BY <2>1, <2>2, <2>3
<1>6. token'.value = value /\ token'.stamp = thread[t].stamp /\ token' \in TokenType
  BY <1>1, <1>3, <1>r DEF TokenType
<1>7. WebTypeOK'
  BY <1>t, <1>1, <1>4, <1>6 DEF WebTypeOK
<1>8. LockInv' /\ ReadInv'
  BY <1>5 DEF LockInv, ReadInv, Inside
<1>9. FileInv'
  BY <1>t, <1>1, <1>6 DEF FileInv, ReadInv
<1>10. HeldInv'
  <2>1. CASE new
    <3>1. raced' = IF raced = "coming" THEN "yes" ELSE "no"
      BY <1>1, <2>1
    <3>2. thread[t].stamp = made => thread[t].read = made \/ raced = "coming"
      BY <1>t, <1>1, <2>1 DEF ReadInv
    <3> QED BY <1>1, <1>6, <2>1, <3>1, <3>2 DEF HeldInv
  <2>2. CASE ~new
    BY <1>t, <1>1, <1>6, <2>2 DEF HeldInv
  <2> QED BY <2>1, <2>2
<1> QED BY <1>7, <1>8, <1>9, <1>10 DEF WebInv

\* What others do to the file, and the server's end.
LEMMA Rotates == ASSUME WebInv, Rotate PROVE WebInv'
<1>t. WebTypeOK /\ LockInv /\ FileInv /\ HeldInv /\ ReadInv
  BY DEF WebInv
<1>1. /\ made' = made + 1 /\ token_file' = [token |-> made + 1, stamp |-> made + 1] /\ UNCHANGED <<token, opened, thread>>
      /\ raced' = IF \E t \in Threads : thread[t].step = "restat" THEN "coming" ELSE raced
  BY DEF Rotate, Is
<1>2. made \in Nat /\ token.stamp \in Nat /\ token.stamp <= made /\ \A t \in Threads : thread[t].stamp \in Nat
  BY <1>t DEF WebTypeOK, FileInv, TokenType, ThreadType
<1>3. WebTypeOK' /\ LockInv'
  <2>1. raced' \in {"no", "coming", "yes"}
    BY <1>t, <1>1 DEF WebTypeOK
  <2>2. made' \in Nat /\ token_file' \in [token : Nat, stamp : Nat]
    BY <1>1, <1>2
  <2> QED BY <1>t, <1>1, <2>1, <2>2 DEF WebTypeOK, LockInv
<1>4. FileInv' /\ HeldInv'
  BY <1>t, <1>1, <1>2 DEF FileInv, HeldInv
<1>5. ReadInv'
  <2> SUFFICES ASSUME NEW t \in Threads
      PROVE /\ thread[t].step = "read" => thread[t].stamp <= made + 1
            /\ thread[t].step = "restat" => token.stamp < made + 1 /\ raced' = "coming"
            /\ thread[t].step = "notice" => thread[t].stamp <= made + 1 /\ thread[t].stamp # made + 1
    BY <1>1 DEF ReadInv
  <2> QED BY <1>t, <1>1, <1>2 DEF ReadInv
<1> QED BY <1>3, <1>4, <1>5 DEF WebInv

LEMMA Others == ASSUME WebInv, FileGone \/ Expire \/ Restart \/ UNCHANGED webVars PROVE WebInv'
<1>t. WebTypeOK /\ LockInv /\ FileInv /\ HeldInv /\ ReadInv
  BY DEF WebInv
<1>1. CASE FileGone
  <2>1. token_file' = [token |-> 0, stamp |-> 0] /\ UNCHANGED <<made, token, opened, thread, raced>>
    BY <1>1 DEF FileGone
  <2>2. WebTypeOK' /\ LockInv' /\ FileInv' /\ HeldInv'
    BY <1>t, <2>1 DEF WebTypeOK, LockInv, FileInv, HeldInv
  <2>3. ReadInv'
    BY <1>t, <2>1 DEF ReadInv
  <2> QED BY <2>2, <2>3 DEF WebInv
<1>2. CASE Expire \/ UNCHANGED webVars
  <2>1. UNCHANGED <<token_file, made, token, opened, thread, raced>>
    BY <1>2 DEF Expire, webVars
  <2> QED BY <1>t, <2>1 DEF WebInv, WebTypeOK, LockInv, FileInv, HeldInv, ReadInv
<1>3. CASE Restart
  <2>1. token' = NoToken /\ thread' = [t \in Threads |-> Quiet] /\ raced' = "no" /\ UNCHANGED <<token_file, made, opened>>
    BY <1>3 DEF Restart
  <2>2. NoToken.value = 0 /\ NoToken.stamp = 0 /\ NoToken.lock = {} /\ NoToken \in TokenType
    BY DEF NoToken, TokenType
  <2>3. \A t \in Threads : thread'[t].step = "idle"
    BY <2>1, QuietType
  <2>4. WebTypeOK'
    BY <1>t, <2>1, <2>2, QuietType DEF WebTypeOK
  <2>5. LockInv' /\ ReadInv'
    BY <2>3 DEF LockInv, ReadInv, Inside
  <2>6. FileInv' /\ HeldInv'
    BY <1>t, <2>1, <2>2 DEF FileInv, HeldInv, WebTypeOK
  <2> QED BY <2>4, <2>5, <2>6 DEF WebInv
<1> QED BY <1>1, <1>2, <1>3

LEMMA Works ==
  ASSUME WebInv, NEW t \in Threads, Work(t) \/ TunnelEnds(t) \/ (\E r \in Requests : Receive(t, r))
  PROVE  WebInv'
<1>t. WebTypeOK /\ thread[t] \in ThreadType /\ opened \in Nat
  BY DEF WebInv, WebTypeOK
<1>i. \A s \in {"auth", "session", "open", "call", "tunnel", "idle"} : s \in WebSteps /\ s \notin Inside
  BY DEF WebSteps, Inside
<1>1. ASSUME NEW r \in Requests, Receive(t, r) PROVE WebInv'
  <2> DEFINE q == IF Route(r) \in {"idle", "call"} THEN NoRequest ELSE r
             step == Route(r)
             next == [[Quiet EXCEPT !.step = step] EXCEPT !.request = q]
  <2>1. thread' = [thread EXCEPT ![t] = next] /\ UNCHANGED <<token_file, made, token, raced, opened>>
    BY <1>1 DEF Receive, shared
  <2>2. step \in {"idle", "session", "auth"}
    BY DEF Route
  <2>3. q \in RequestType
    BY <1>t, RequestsTyped, QuietType
  <2> HIDE DEF step, q
  <2>4. next \in ThreadType
    BY <1>i, <2>2, <2>3, Rested
  <2>5. next.step = step
    BY DEF Quiet
  <2> HIDE DEF next
  <2> QED BY <1>t, <1>i, <2>1, <2>2, <2>4, <2>5, StepsOut
<1>2. ASSUME NEW step \in {"tunnel", "idle"}, Quieted(t, step), UNCHANGED <<token_file, made, token, raced>>, opened' \in Nat
      PROVE  WebInv'
  <2> DEFINE next == [Quiet EXCEPT !.step = step]
  <2>0. step \in WebSteps
    BY <1>i
  <2>1. next \in ThreadType /\ next.step = step
    <3>1. next \in ThreadType
      BY <2>0, Rested, QuietType
    <3>2. next.step = step
      BY DEF Quiet
    <3> QED BY <3>1, <3>2
  <2>2. thread' = [thread EXCEPT ![t] = next]
    BY <1>2 DEF Quieted
  <2> HIDE DEF next
  <2> QED BY <1>2, <1>i, <2>1, <2>2, StepsOut
<1>3. CASE CallEnds(t) \/ Add(t) \/ Lookup(t)
  <2>1. UNCHANGED <<token_file, made, token, raced>> /\ opened' \in Nat /\ \E step \in {"tunnel", "idle"} : Quieted(t, step)
    BY <1>t, <1>3 DEF CallEnds, Add, Lookup, shared
  <2> QED BY <1>2, <2>1
<1>4. CASE TunnelEnds(t)
  BY <1>4, <1>t, <1>i, QuietType, StepsOut DEF TunnelEnds, Answer, shared
<1>5. CASE Auth(t) \/ Session(t) \/ Open(t)
  BY <1>5, Enters DEF Auth, Session, Open
<1> QED BY <1>1, <1>3, <1>4, <1>5, Looks, Makes, Restats, Fails, Notices DEF Work

LEMMA WebHolds == WebSpec => []WebInv
<1>1. WebInv /\ [WebNext]_webVars => WebInv'
  BY Works, Rotates, Others DEF WebNext
<1> QED BY <1>1, WebInitially, PTL DEF WebSpec

-----------------------------------------------------------------------------

\* Whatever renames, removes and makes the file, and in whatever order requests
\* read it: what the server holds for the stamp of the file is its token, but
\* for the rotation between its own write and the look it took at it.
THEOREM ServerFollows == WebSpec => []ServerFollowsTheFile
<1>1. WebInv => ServerFollowsTheFile
  BY DEF WebInv, WebTypeOK, FileInv, HeldInv, ServerFollowsTheFile
<1> QED BY <1>1, WebHolds, PTL

-----------------------------------------------------------------------------
(* The store of MCP logins.                                                 *)

Held == {"none", "imported", "login", "lapsed"}
MoveSteps == {"idle", "backup", "client", "tokens"}
Adapters == {"off", "running", "ended 0", "ended 1"}
LoginSteps == {"none", "drop client", "drop tokens", "start", "worker"}

MoveType == [step : MoveSteps, left : Seq(All)]
LoginType == [name : All \cup {""}, step : LoginSteps, adapter : Adapters, connected : BOOLEAN]

McpTypeOK ==
  /\ codex \subseteq All /\ dirs \subseteq All
  /\ tokens \in [All -> Held]
  /\ move \in MoveType
  /\ login \in LoginType
  /\ login.step # "none" => login.name \in All
  /\ login.adapter = "running" => login.step # "none"

\* While an import moves grants Codex has them all, and those it is through
\* with are in the store or were given up for a login.
Left == {move.left[i] : i \in 1..Len(move.left)}
MoveInv ==
  /\ move.step # "idle" => codex = All
  /\ move.step \in {"client", "tokens"} =>
       backup /\ \A n \in All \ Left : tokens[n] = "imported" \/ n \in grants
  /\ move.step = "backup" => move.left = Names
  /\ move.step = "tokens" => move.left # <<>>

McpInv == McpTypeOK /\ MoveInv /\ NoGrantIsLost

-----------------------------------------------------------------------------
LEMMA NoLoginType ==
  /\ NoLogin \in LoginType
  /\ NoLogin.step = "none" /\ NoLogin.adapter = "off"
<1>1. "" \in All \cup {""} /\ "none" \in LoginSteps /\ "off" \in Adapters /\ FALSE \in BOOLEAN
  BY DEF LoginSteps, Adapters
<1> HIDE DEF LoginSteps, Adapters
<1> QED BY <1>1 DEF NoLogin, LoginType

LEMMA MoveTypes ==
  ASSUME NEW step \in MoveSteps, NEW left \in Seq(All)
  PROVE  [step |-> step, left |-> left] \in MoveType
BY DEF MoveType

LEMMA NoMoveType == NoMove \in MoveType /\ NoMove.step = "idle" /\ NoMove.left = <<>>
<1>1. <<>> \in Seq(All) /\ "idle" \in MoveSteps
  BY DEF MoveSteps
<1> QED BY <1>1, MoveTypes DEF NoMove

LEMMA McpInitially == McpInit => McpInv
<1> SUFFICES ASSUME McpInit PROVE McpInv
  OBVIOUS
<1> USE DEF McpInit, NoMove, NoLogin
<1>1. McpTypeOK
  <2>1. tokens \in [All -> Held] /\ codex \subseteq All /\ dirs \subseteq All
    BY DEF Held
  <2>2. move \in MoveType
    BY NoMoveType
  <2>3. login \in LoginType
    BY NoLoginType
  <2> QED BY <2>1, <2>2, <2>3 DEF McpTypeOK
<1>2. MoveInv
  BY DEF MoveInv
<1>4. NoGrantIsLost
  BY DEF NoGrantIsLost
<1> QED BY <1>1, <1>2, <1>4 DEF McpInv

\* The list of accounts, as what an import has yet to move.
LEMMA NamesAreLeft == Names \in Seq(All) /\ \A n \in All : \E i \in 1..Len(Names) : Names[i] = n
BY McpAssumption DEF All

LEMMA TailOfLeft ==
  ASSUME NEW left \in Seq(All), left # <<>>
  PROVE  /\ Head(left) \in All /\ Tail(left) \in Seq(All)
         /\ \A n \in All : (\A i \in 1..Len(Tail(left)) : Tail(left)[i] # n)
              => n = Head(left) \/ \A i \in 1..Len(left) : left[i] # n
<1>1. Head(left) = left[1] /\ Len(Tail(left)) = Len(left) - 1 /\ Len(left) \in Nat \ {0}
  OBVIOUS
<1>2. \A i \in 1..(Len(left) - 1) : Tail(left)[i] = left[i + 1]
  OBVIOUS
<1>3. \A i \in 2..Len(left) : i - 1 \in 1..(Len(left) - 1) /\ left[i] = Tail(left)[i - 1]
  BY <1>1, <1>2
<1>4. \A i \in 1..Len(left) : i = 1 \/ i \in 2..Len(left)
  BY <1>1
<1> QED BY <1>1, <1>3, <1>4

LEMMA McpKeeps == McpInv /\ [McpNext]_mcpVars => McpInv'
<1> SUFFICES ASSUME McpInv, [McpNext]_mcpVars PROVE McpInv'
  OBVIOUS
<1> USE DEF store
<1>t. McpTypeOK /\ MoveInv /\ NoGrantIsLost
  BY DEF McpInv
<1>m. move \in MoveType
  BY <1>t DEF McpTypeOK
\* Codex' own login, the lapse of a grant, the import.
<1>1. ASSUME NEW n \in All, CodexLogin(n) PROVE McpInv'
  <2>1. McpTypeOK'
    BY <1>t, <1>1 DEF McpTypeOK, CodexLogin
  <2>2. MoveInv' /\ NoGrantIsLost'
    BY <1>t, <1>1 DEF McpTypeOK, MoveInv, NoGrantIsLost, CodexLogin, Left
  <2> QED BY <2>1, <2>2 DEF McpInv
<1>2. ASSUME NEW n \in All, Lapse(n) PROVE McpInv'
  <2>1. McpTypeOK'
    BY <1>t, <1>2 DEF McpTypeOK, Lapse, Held
  <2>2. \A m \in All : tokens'[m] = IF m = n THEN "lapsed" ELSE tokens[m]
    BY <1>t, <1>2 DEF McpTypeOK, Lapse
  <2>3. MoveInv'
    BY <1>t, <1>2, <2>2 DEF MoveInv, Lapse, Left
  <2>5. NoGrantIsLost'
    BY <1>t, <1>2, <2>2 DEF NoGrantIsLost, Lapse
  <2> QED BY <2>1, <2>3, <2>5 DEF McpInv
<1>3. CASE Check
  <2>1. McpTypeOK'
    <3>1. move' \in MoveType
      BY <1>3, NamesAreLeft, MoveTypes DEF Check, MoveSteps
    <3> QED BY <1>t, <1>3, <3>1 DEF McpTypeOK, Check
  <2>2. MoveInv'
    BY <1>t, <1>3 DEF MoveInv, Check, MayMove
  <2>4. NoGrantIsLost'
    BY <1>t, <1>3 DEF NoGrantIsLost, Check
  <2> QED BY <2>1, <2>2, <2>4 DEF McpInv
<1>4. CASE WriteBackup
  <2>1. McpTypeOK'
    <3>1. move' \in MoveType
      BY <1>4, <1>m DEF WriteBackup, MoveType, MoveSteps
    <3> QED BY <1>t, <1>4, <3>1 DEF McpTypeOK, WriteBackup
  <2>2. move'.step = "client" /\ move'.left = Names
    BY <1>t, <1>m, <1>4 DEF MoveType, MoveInv, WriteBackup
  <2>3. MoveInv'
    BY <1>t, <1>4, <2>2, NamesAreLeft DEF MoveInv, WriteBackup, Left
  <2>5. NoGrantIsLost'
    BY <1>t, <1>4 DEF NoGrantIsLost, WriteBackup, MoveInv
  <2> QED BY <2>1, <2>3, <2>5 DEF McpInv
<1>5. CASE WriteClient
  <2>0. move.left \in Seq(All) /\ move.left # <<>> /\ Head(move.left) \in All
    BY <1>m, <1>5, TailOfLeft DEF MoveType, WriteClient
  <2>1. McpTypeOK'
    <3>1. move' \in MoveType
      BY <1>5, <1>m DEF WriteClient, MoveType, MoveSteps
    <3> QED BY <1>t, <1>5, <2>0, <3>1 DEF McpTypeOK, WriteClient
  <2>2. move'.step = "tokens" /\ move'.left = move.left
    BY <1>m, <1>5 DEF MoveType, WriteClient
  <2>3. MoveInv'
    BY <1>t, <1>5, <2>2 DEF MoveInv, WriteClient, Left
  <2>5. NoGrantIsLost'
    BY <1>t, <1>5 DEF NoGrantIsLost, WriteClient
  <2> QED BY <2>1, <2>3, <2>5 DEF McpInv
<1>6. CASE WriteTokens
  <2>0. move.left \in Seq(All) /\ move.left # <<>> /\ move.step = "tokens"
    BY <1>t, <1>m, <1>6 DEF MoveType, MoveInv, WriteTokens
  <2> DEFINE head == Head(move.left)
  <2>1. head \in All /\ move' = [step |-> "client", left |-> Tail(move.left)] /\ Tail(move.left) \in Seq(All)
    BY <1>6, <2>0, TailOfLeft DEF WriteTokens
  <2>2. \A m \in All : tokens'[m] = IF m = head THEN "imported" ELSE tokens[m]
    BY <1>t, <1>6 DEF McpTypeOK, WriteTokens
  <2>3. McpTypeOK'
    <3>1. move' \in MoveType
      BY <2>1, MoveTypes DEF MoveSteps
    <3>2. tokens' \in [All -> Held]
      BY <1>t, <1>6 DEF McpTypeOK, WriteTokens, Held
    <3> QED BY <1>t, <1>6, <3>1, <3>2 DEF McpTypeOK, WriteTokens
  <2>4. \A n \in All \ Left' : n = head \/ n \in All \ Left
    BY <2>0, <2>1, TailOfLeft DEF Left
  <2>5. MoveInv'
    BY <1>t, <1>6, <2>0, <2>1, <2>2, <2>4 DEF MoveInv, WriteTokens
  <2>7. NoGrantIsLost'
    BY <1>t, <1>6, <2>2 DEF NoGrantIsLost, WriteTokens
  <2> QED BY <2>3, <2>5, <2>7 DEF McpInv
<1>7. CASE WriteSource
  <2>1. McpTypeOK'
    BY <1>t, <1>7, NoMoveType DEF McpTypeOK, WriteSource
  <2>2. Left = {} /\ move'.step = "idle"
    BY <1>7 DEF Left, WriteSource, NoMove
  <2>3. NoGrantIsLost'
    BY <1>t, <1>7, <2>2 DEF NoGrantIsLost, WriteSource, MoveInv
  <2>4. MoveInv'
    BY <1>t, <1>7, <2>2 DEF MoveInv, WriteSource
  <2> QED BY <2>1, <2>3, <2>4 DEF McpInv
<1>8. CASE MoveCut
  BY <1>t, <1>8, NoMoveType DEF McpInv, McpTypeOK, MoveInv, NoGrantIsLost, MoveCut
\* The logins.
<1>9. ASSUME NEW n \in All, NEW fresh \in BOOLEAN, Login(n, fresh) PROVE McpInv'
  <2>1. /\ login.step = "none" /\ login'.name = n /\ login'.step \in {"drop client", "start"}
        /\ login'.adapter = "off" /\ dirs' = dirs \cup {n}
        /\ UNCHANGED <<codex, backup, tokens, move, grants>>
    BY <1>9 DEF Login
  <2>2. McpTypeOK'
    <3>1. login' \in LoginType
      <4>1. PICK s \in LoginSteps : login' = [name |-> n, step |-> s, adapter |-> "off", connected |-> FALSE]
        BY <1>9 DEF Login, LoginSteps
      <4>2. "off" \in Adapters
        BY DEF Adapters
      <4> QED BY <4>1, <4>2 DEF LoginType
    <3> QED BY <1>t, <2>1, <3>1 DEF McpTypeOK
  <2>3. MoveInv' /\ NoGrantIsLost'
    BY <1>t, <2>1 DEF MoveInv, NoGrantIsLost, Left
  <2> QED BY <2>2, <2>3 DEF McpInv
\* What the steps of a login have in common that leave the store alone.
<1>q. ASSUME UNCHANGED <<store, move, grants>>,
             login' \in LoginType,
             login'.step # "none" => login.step # "none" /\ login'.name = login.name,
             login'.adapter = "running" => login'.step # "none"
      PROVE  McpInv'
  <2>1. McpTypeOK'
    BY <1>t, <1>q DEF McpTypeOK
  <2>2. MoveInv' /\ NoGrantIsLost'
    BY <1>t, <1>q DEF MoveInv, NoGrantIsLost, Left
  <2> QED BY <2>1, <2>2 DEF McpInv
<1>r. login \in LoginType
  BY <1>t DEF McpTypeOK
<1>10. CASE DropClient
  <2>1. /\ login.step = "drop client" /\ login' = [login EXCEPT !.step = "drop tokens"]
        /\ UNCHANGED <<codex, backup, dirs, tokens, move, grants>>
    BY <1>10 DEF DropClient
  <2>2. login'.name = login.name /\ login'.step = "drop tokens" /\ login'.adapter = login.adapter
        /\ login' \in LoginType
    BY <1>r, <2>1 DEF LoginType, LoginSteps
  <2>3. McpTypeOK'
    BY <1>t, <2>1, <2>2 DEF McpTypeOK
  <2>4. MoveInv' /\ NoGrantIsLost'
    BY <1>t, <2>1 DEF MoveInv, NoGrantIsLost, Left
  <2> QED BY <2>3, <2>4 DEF McpInv
<1>11. CASE DropTokens
  <2>1. /\ login.step = "drop tokens" /\ login.name \in All /\ login' = [login EXCEPT !.step = "start"]
        /\ tokens' = [tokens EXCEPT ![login.name] = "none"]
        /\ grants' = IF tokens[login.name] = "imported" THEN grants \cup {login.name} ELSE grants
        /\ UNCHANGED <<codex, backup, dirs, move>>
    BY <1>t, <1>11 DEF McpTypeOK, DropTokens
  <2>2. login'.name = login.name /\ login'.step = "start" /\ login'.adapter = login.adapter
        /\ login' \in LoginType
    BY <1>r, <2>1 DEF LoginType, LoginSteps
  <2>3. \A m \in All : tokens'[m] = IF m = login.name THEN "none" ELSE tokens[m]
    BY <1>t, <2>1 DEF McpTypeOK
  <2>4. \A m \in All : tokens[m] = "imported" \/ m \in grants => tokens'[m] = "imported" \/ m \in grants'
    BY <2>1, <2>3
  <2>5. McpTypeOK'
    BY <1>t, <2>1, <2>2 DEF McpTypeOK, Held
  <2>6. MoveInv' /\ NoGrantIsLost'
    BY <1>t, <2>1, <2>4 DEF MoveInv, NoGrantIsLost, Left
  <2> QED BY <2>5, <2>6 DEF McpInv
<1>12. CASE Start
  <2>1. login.step = "start" /\ login' = [login EXCEPT !.step = "worker", !.adapter = "running"]
        /\ UNCHANGED <<store, move, grants>>
    BY <1>12 DEF Start
  <2>2. login'.name = login.name /\ login'.step = "worker"
        /\ login' \in LoginType
    BY <1>r, <2>1 DEF LoginType, LoginSteps, Adapters
  <2> QED BY <1>q, <2>1, <2>2
<1>13. CASE AdapterConnects
  <2>1. /\ login.adapter = "running" /\ login.step # "none" /\ login.name \in All
        /\ login' = [login EXCEPT !.connected = TRUE] /\ UNCHANGED <<codex, backup, dirs, move>>
    BY <1>t, <1>13 DEF McpTypeOK, AdapterConnects
  <2>2. login'.name = login.name /\ login'.step = login.step /\ login'.adapter = login.adapter
        /\ login' \in LoginType
    BY <1>r, <2>1 DEF LoginType
  <2>3. \/ UNCHANGED <<tokens, grants>>
        \/ tokens' = [tokens EXCEPT ![login.name] = "login"] /\ grants' = grants \cup {login.name}
    BY <1>13 DEF AdapterConnects
  <2>4. CASE UNCHANGED <<tokens, grants>>
    <3>1. McpTypeOK'
      BY <1>t, <2>1, <2>2, <2>4 DEF McpTypeOK
    <3>2. MoveInv' /\ NoGrantIsLost'
      BY <1>t, <2>1, <2>4 DEF MoveInv, NoGrantIsLost, Left
    <3> QED BY <3>1, <3>2 DEF McpInv
  <2>5. CASE tokens' = [tokens EXCEPT ![login.name] = "login"] /\ grants' = grants \cup {login.name}
    <3>1. \A m \in All : tokens'[m] = IF m = login.name THEN "login" ELSE tokens[m]
      BY <1>t, <2>5 DEF McpTypeOK
    <3>2. \A m \in All : tokens[m] = "imported" \/ m \in grants => tokens'[m] = "imported" \/ m \in grants'
      BY <2>5, <3>1
    <3>3. McpTypeOK'
      BY <1>t, <2>1, <2>2, <2>5 DEF McpTypeOK, Held
    <3>4. MoveInv' /\ NoGrantIsLost'
      BY <1>t, <2>1, <3>2 DEF MoveInv, NoGrantIsLost, Left
    <3> QED BY <3>3, <3>4 DEF McpInv
  <2> QED BY <2>3, <2>4, <2>5
<1>14. CASE AdapterEnds
  <2>1. PICK end \in {"ended 0", "ended 1"} :
          login.adapter = "running" /\ login' = [login EXCEPT !.adapter = end] /\ UNCHANGED <<store, move, grants>>
    BY <1>14 DEF AdapterEnds
  <2>2. login'.name = login.name /\ login'.step = login.step /\ login'.adapter = end
        /\ login' \in LoginType
    BY <1>r, <2>1 DEF LoginType, Adapters
  <2> QED BY <1>q, <2>1, <2>2
<1>15. ASSUME NEW told, Tell(told) PROVE McpInv'
  <2>1. login' = NoLogin /\ UNCHANGED <<store, move, grants>>
    BY <1>15 DEF Tell
  <2>2. login'.step = "none" /\ login'.adapter = "off"
        /\ login' \in LoginType
    BY <2>1, NoLoginType
  <2> QED BY <1>q, <2>1, <2>2
<1>16. CASE DeskGone
  <2>1. UNCHANGED <<store, move, grants, login>>
    BY <1>16 DEF DeskGone
  <2>2. login.adapter = "running" => login.step # "none"
    BY <1>t DEF McpTypeOK
  <2> QED BY <1>q, <1>r, <2>1, <2>2
<1>17. CASE UNCHANGED mcpVars
  <2>1. UNCHANGED <<store, move, grants, login>>
    BY <1>17 DEF mcpVars
  <2>2. login.adapter = "running" => login.step # "none"
    BY <1>t DEF McpTypeOK
  <2> QED BY <1>q, <1>r, <2>1, <2>2
<1> QED
  BY <1>1, <1>2, <1>3, <1>4, <1>5, <1>6, <1>7, <1>8, <1>9, <1>10, <1>11, <1>12, <1>13, <1>14, <1>15, <1>16, <1>17
  DEF McpNext, LoginStep, WorkerDone, Deadline, DropFails

LEMMA McpHolds == McpSpec => []McpInv
BY McpInitially, McpKeeps, PTL DEF McpSpec

-----------------------------------------------------------------------------

\* Wherever an import is cut, and whatever logins run beside it, each grant is
\* with Codex or in the store, or a login of that account replaced or dropped it.
THEOREM GrantsAreKept == McpSpec => []NoGrantIsLost
<1>1. McpInv => NoGrantIsLost
  BY DEF McpInv
<1> QED BY <1>1, McpHolds, PTL

-----------------------------------------------------------------------------
(* The MCP doctor.                                                          *)

Stages == {"config", "claude", "codex", "credential", "probe", "end"}
Steps == Asks \cup {"none", "initialized", "sent", "dead"}
Events == {"nothing", "good", "bad", "another", "torn"}
Statuses == {"nothing", "authenticated", "unauthorized", "endpoint-unavailable"}
WorkerType == [step : Steps, sent : Statuses, lines : Nat, data : Events]

NativeTypeOK ==
  /\ live_check \in BOOLEAN /\ stage \in Stages
  /\ rows.done \in Nat /\ rows.failed \in BOOLEAN
  /\ worker \in WorkerType
  /\ answered \subseteq Asks

\* What the endpoint has answered at each place of the probe.
ProbeInv ==
  /\ worker.step = "initialize" => answered = {}
  /\ worker.step \in {"initialized", "tools/list"} => answered = {"initialize"}
  /\ worker.step = "sent" /\ worker.sent = "authenticated" => answered = Asks

-----------------------------------------------------------------------------
(* What the checks before the probe can say.                                *)

\* Some check is the first that hits.
LEMMA SomeFirst ==
  ASSUME NEW hits, hits \subseteq 1..6, hits # {}
  PROVE  \E i \in hits : \A j \in hits : i <= j
<1>1. CASE 1 \in hits  BY <1>1
<1>2. CASE 1 \notin hits /\ 2 \in hits  BY <1>2
<1>3. CASE 1 \notin hits /\ 2 \notin hits /\ 3 \in hits  BY <1>3
<1>4. CASE 1 \notin hits /\ 2 \notin hits /\ 3 \notin hits /\ 4 \in hits  BY <1>4
<1>5. CASE 1 \notin hits /\ 2 \notin hits /\ 3 \notin hits /\ 4 \notin hits /\ 5 \in hits  BY <1>5
<1>6. CASE 1 \notin hits /\ 2 \notin hits /\ 3 \notin hits /\ 4 \notin hits /\ 5 \notin hits
  <2>1. PICK k \in hits : TRUE
    OBVIOUS
  <2>2. \A j \in hits : j = 6
    BY <1>6
  <2> QED BY <2>1, <2>2
<1> QED BY <1>1, <1>2, <1>3, <1>4, <1>5, <1>6

\* A stage says nothing, or what one of its checks says.
LEMMA FirstIsOfTheLadder ==
  ASSUME NEW ladder, DOMAIN ladder \subseteq 1..6, First(ladder) # ""
  PROVE  \E i \in DOMAIN ladder : First(ladder) = ladder[i][2]
<1> DEFINE hits == {i \in DOMAIN ladder : ladder[i][1]}
<1>1. hits # {} /\ First(ladder) = ladder[CHOOSE i \in hits : \A j \in hits : i <= j][2]
  BY DEF First
<1>2. (CHOOSE i \in hits : \A j \in hits : i <= j) \in hits
  BY <1>1, SomeFirst
<1> QED BY <1>1, <1>2

\* No check of a file or of a credential says "authenticated".
LEMMA NoneAuthenticates ==
  /\ \A c \in ClaudeCases : ClaudeStatus(c) # "authenticated"
  /\ \A system, user \in Layers : CodexStatus(system, user) # "authenticated"
  /\ \A c \in HelperCredentials \cup SourceCredentials : CredentialStatus(c) # "authenticated"
<1>1. ASSUME NEW c \in ClaudeCases PROVE ClaudeStatus(c) # "authenticated"
  <2> DEFINE there == c.file = "with"
             ladder ==
               <<<<c.elsewhere, "claude-config-dir-unverified">>,
                 <<c.file = "broken", "client-config-unreadable-or-invalid">>,
                 <<there /\ c.wanted = "disabled", "claude-disabled-server-still-activated">>,
                 <<c.wanted = "enabled" /\ (~there \/ c.entry = Empty), "claude-activation-missing">>,
                 <<there /\ ~Ours(c.entry, {"url", "auth"}), "claude-client-config-mismatch">>,
                 <<there /\ c.off, "claude-server-disabled">>>>
  <2>1. ClaudeStatus(c) = First(ladder)
    BY DEF ClaudeStatus
  <2>2. DOMAIN ladder = 1..6 /\ \A i \in 1..6 : ladder[i][2] # "authenticated"
    OBVIOUS
  <2> HIDE DEF ladder
  <2> QED BY <2>1, <2>2, FirstIsOfTheLadder
<1>2. ASSUME NEW system \in Layers, NEW user \in Layers
      PROVE  CodexStatus(system, user) # "authenticated"
  <2> DEFINE entry == Effective(system, user)
             on == "enabled" \in DOMAIN entry => entry["enabled"] = "ours"
             ladder ==
               <<<<system.is = "broken", "client-config-unreadable-or-invalid">>,
                 <<system.is = "no table", "codex-client-config-invalid">>,
                 <<user.is = "broken", "client-config-unreadable-or-invalid">>,
                 <<user.is = "no table", "codex-client-config-invalid">>,
                 <<entry = Empty, "codex-activation-missing">>,
                 <<~on \/ ~Ours(entry, {"url", "auth"}), "codex-client-config-mismatch">>>>
  <2>1. CodexStatus(system, user) = First(ladder)
    BY DEF CodexStatus
  <2>2. DOMAIN ladder = 1..6 /\ \A i \in 1..6 : ladder[i][2] # "authenticated"
    OBVIOUS
  <2> HIDE DEF ladder
  <2> QED BY <2>1, <2>2, FirstIsOfTheLadder
<1>3. ASSUME NEW c \in HelperCredentials \cup SourceCredentials
      PROVE  CredentialStatus(c) # "authenticated"
  <2> DEFINE helped == <<<<c.env = "", "credential-helper-failed">>>>
             sourced ==
               <<<<c.env \in {"", "${"}, "credential-missing-from-environment">>,
                 <<c.file # "", c.file>>,
                 <<c.line = "no plain value", "secret-source-invalid">>,
                 <<c.line = "", "credential-missing-from-source">>,
                 <<c.line # c.env, "fresh-environment-source-mismatch">>>>
  <2>1. CredentialStatus(c) = First(helped) \/ CredentialStatus(c) = First(sourced)
    BY DEF CredentialStatus
  <2>2. c.file # "authenticated"
    BY DEF HelperCredentials, SourceCredentials
  <2>3. DOMAIN helped = 1..1 /\ \A i \in 1..1 : helped[i][2] # "authenticated"
    OBVIOUS
  <2>4. DOMAIN sourced = 1..5 /\ \A i \in 1..5 : sourced[i][2] # "authenticated"
    BY <2>2
  <2>5. 1..1 \subseteq 1..6 /\ 1..5 \subseteq 1..6
    OBVIOUS
  <2> HIDE DEF helped, sourced
  <2> QED BY <2>1, <2>3, <2>4, <2>5, FirstIsOfTheLadder
<1> QED BY <1>1, <1>2, <1>3

-----------------------------------------------------------------------------
(* The probe.                                                               *)

\* A worker in any of its steps, with or without something sent.
LEMMA WorkerTypes ==
  /\ \A step \in Steps : /\ [NoWorker EXCEPT !.step = step] \in WorkerType
                         /\ [NoWorker EXCEPT !.step = step].step = step
                         /\ [NoWorker EXCEPT !.step = step].sent = "nothing"
  /\ \A status \in Statuses :
       /\ [NoWorker EXCEPT !.step = "sent", !.sent = status] \in WorkerType
       /\ [NoWorker EXCEPT !.step = "sent", !.sent = status].step = "sent"
       /\ [NoWorker EXCEPT !.step = "sent", !.sent = status].sent = status
  /\ NoWorker \in WorkerType /\ NoWorker.step = "none"
BY DEF WorkerType, NoWorker, Steps, Asks, Statuses, Events

\* One more line of the answer was read.
OneLineMore(w) == [w EXCEPT !.lines = @ + 1]
Holding(w, data) == [w EXCEPT !.data = data]

LEMMA LineTypes ==
  ASSUME NEW w \in WorkerType, NEW data \in Events
  PROVE  LET read == Holding(OneLineMore(w), data)
         IN read \in WorkerType /\ read.step = w.step /\ read.sent = w.sent
<1>1. OneLineMore(w) \in WorkerType /\ OneLineMore(w).step = w.step /\ OneLineMore(w).sent = w.sent
  BY DEF OneLineMore, WorkerType
<1>2. ASSUME NEW m \in WorkerType
      PROVE  Holding(m, data) \in WorkerType /\ Holding(m, data).step = m.step /\ Holding(m, data).sent = m.sent
  BY DEF Holding, WorkerType
<1> QED BY <1>1, <1>2

\* The row is done, or its next stage begins.
LEMMA RowTypes ==
  ASSUME NativeTypeOK
  PROVE  /\ \A status : Row(status) => /\ live_check' = live_check /\ stage' \in Stages
                                       /\ rows'.done \in Nat /\ rows'.failed \in BOOLEAN
         /\ \A next \in Stages : GoOn(next) => /\ live_check' = live_check /\ stage' \in Stages
                                               /\ rows'.done \in Nat /\ rows'.failed \in BOOLEAN
<1>1. ASSUME NEW status, Row(status)
      PROVE  /\ live_check' = live_check /\ stage' \in Stages
             /\ rows'.done \in Nat /\ rows'.failed \in BOOLEAN
  <2>1. rows'.done = rows.done + 1 /\ live_check' = live_check /\ stage' \in Stages
    BY <1>1 DEF Row, Stages
  <2>2. rows'.failed = (rows.failed \/ status \notin {"configured", "authenticated"})
    BY <1>1 DEF Row
  <2>3. rows'.failed \in BOOLEAN
    BY <2>2, Zenon DEF NativeTypeOK
  <2> QED BY <2>1, <2>3 DEF NativeTypeOK
<1> QED BY <1>1 DEF GoOn, NativeTypeOK

\* Forgetting the worker, or starting one, begins the probe anew.
LEMMA DoctorKeeps ==
  ASSUME NativeTypeOK, ProbeInv, DoctorStep
  PROVE  NativeTypeOK' /\ ProbeInv'
<1>1. /\ live_check' = live_check /\ stage' \in Stages
      /\ rows'.done \in Nat /\ rows'.failed \in BOOLEAN
  <2>1. {"claude", "codex", "credential", "probe"} \subseteq Stages
    BY DEF Stages
  <2> QED BY <2>1, RowTypes DEF DoctorStep, Config, Claude, Codex, Credential, Received, ProbeDeadline
<1>2. answered' = {} /\ worker' \in {NoWorker, [NoWorker EXCEPT !.step = "initialize"]}
  BY DEF DoctorStep, Config, Claude, Codex, Credential, Received, ProbeDeadline, Probeless, KillWorker
<1>3. /\ [NoWorker EXCEPT !.step = "initialize"] \in WorkerType
      /\ [NoWorker EXCEPT !.step = "initialize"].step = "initialize"
  <2>1. "initialize" \in Steps
    BY DEF Steps, Asks
  <2> QED BY <2>1, WorkerTypes
<1>4. worker' \in WorkerType /\ worker'.step \in {"none", "initialize"}
  BY <1>2, <1>3, WorkerTypes
<1> QED BY <1>1, <1>2, <1>4 DEF NativeTypeOK, ProbeInv

\* A step of the worker asks for nothing before what was asked for is answered.
LEMMA WorkerKeeps ==
  ASSUME NativeTypeOK, ProbeInv, WorkerStep
  PROVE  NativeTypeOK' /\ ProbeInv' /\ rows' = rows
<1>s. /\ Asks \subseteq Steps /\ "initialized" \in Steps /\ "dead" \in Steps
      /\ "endpoint-unavailable" \in Statuses /\ "unauthorized" \in Statuses /\ "authenticated" \in Statuses
      /\ Asks = {"initialize", "tools/list"}
  BY DEF Steps, Asks, Statuses
<1>1. ASSUME NEW status \in Statuses, status # "authenticated", Sends(status), UNCHANGED answered
      PROVE  NativeTypeOK' /\ ProbeInv' /\ rows' = rows
  BY <1>1, WorkerTypes DEF Sends, NativeTypeOK, ProbeInv
<1>2. ASSUME NEW good \in BOOLEAN, worker.step \in Asks, Result(good)
      PROVE  NativeTypeOK' /\ ProbeInv' /\ rows' = rows
  <2>1. CASE ~good
    BY <1>1, <1>2, <1>s, <2>1 DEF Result
  <2>2. CASE good /\ worker.step = "initialize"
    <3>1. answered' = {"initialize"} /\ Says("initialized")
      BY <1>2, <2>2 DEF Result, ProbeInv
    <3> QED BY <1>s, <3>1, WorkerTypes DEF Says, NativeTypeOK, ProbeInv
  <2>3. CASE good /\ worker.step = "tools/list"
    <3>1. answered' = Asks /\ Sends("authenticated")
      BY <1>2, <1>s, <2>3 DEF Result, ProbeInv
    <3> QED BY <1>s, <3>1, WorkerTypes DEF Sends, NativeTypeOK, ProbeInv
  <2> QED BY <1>2, <1>s, <2>1, <2>2, <2>3
<1>3. ASSUME NEW data \in Events, UNCHANGED <<live_check, stage, rows, answered>>,
             worker' = [worker EXCEPT !.lines = @ + 1, !.data = data]
      PROVE  NativeTypeOK' /\ ProbeInv' /\ rows' = rows
  <2>1. worker' \in WorkerType /\ worker'.step = worker.step /\ worker'.sent = worker.sent
    <3>1. worker' = Holding(OneLineMore(worker), data)
      BY <1>3 DEF Holding, OneLineMore, NativeTypeOK, WorkerType
    <3> QED BY <3>1, LineTypes DEF NativeTypeOK
  <2> QED BY <1>3, <2>1 DEF NativeTypeOK, ProbeInv
<1>4. CASE Body
  BY <1>1, <1>2, <1>4, <1>s DEF Body
<1>5. CASE Stream
  <2>1. worker.data \in Events /\ "nothing" \in Events /\ {"good", "bad", "another", "torn"} \subseteq Events
    BY DEF NativeTypeOK, WorkerType, Events
  <2>2. CASE Event(worker.data)
    <3>1. CASE worker.data \in {"good", "bad"}
      <4>1. Result(worker.data = "good")
        BY <2>2, <3>1 DEF Event
      <4> QED BY <1>2, <1>5, <4>1 DEF Stream
    <3>2. CASE worker.data = "torn"
      BY <1>1, <1>s, <2>2, <3>2 DEF Event
    <3>3. CASE worker.data \in {"another", "nothing"}
      BY <1>3, <2>1, <2>2, <3>3 DEF Event
    <3> QED BY <2>1, <3>1, <3>2, <3>3 DEF Events
  <2> QED BY <1>3, <1>5, <2>1, <2>2 DEF Stream
<1>6. CASE StreamEnds
  BY <1>1, <1>6, <1>s DEF StreamEnds
<1>7. CASE Initialized
  <2>1. "tools/list" \in Steps
    BY <1>s
  <2> QED BY <1>7, <2>1, WorkerTypes DEF Initialized, Says, NativeTypeOK, ProbeInv
<1>8. CASE Refused
  BY <1>1, <1>8, <1>s DEF Refused
<1>9. CASE Dies
  BY <1>9, <1>s, WorkerTypes DEF Dies, Says, NativeTypeOK, ProbeInv
<1> QED BY <1>4, <1>5, <1>6, <1>7, <1>8, <1>9 DEF WorkerStep

\* The doctor's variables keep their types, and the probe its order.
THEOREM ProbeInOrder == NativeSpec => [](NativeTypeOK /\ ProbeInv)
<1>1. NativeInit => NativeTypeOK /\ ProbeInv
  <2> SUFFICES ASSUME NativeInit PROVE NativeTypeOK /\ ProbeInv
    OBVIOUS
  <2>1. live_check \in BOOLEAN /\ stage \in Stages /\ rows.done \in Nat /\ answered = {}
    BY DEF NativeInit, Stages
  <2>3. rows.failed \in BOOLEAN
    BY DEF NativeInit
  <2>2. worker \in WorkerType /\ worker.step = "none"
    BY WorkerTypes DEF NativeInit
  <2> QED BY <2>1, <2>2, <2>3 DEF NativeTypeOK, ProbeInv
<1>2. NativeTypeOK /\ ProbeInv /\ [NativeNext]_nativeVars => (NativeTypeOK /\ ProbeInv)'
  <2>1. CASE UNCHANGED nativeVars
    BY <2>1 DEF nativeVars, NativeTypeOK, ProbeInv
  <2> QED BY <2>1, DoctorKeeps, WorkerKeeps DEF NativeNext
<1> QED BY <1>1, <1>2, PTL DEF NativeSpec

\* doctor --live: "authenticated" is said only of an endpoint that answered the
\* initialization and the list of tools.
THEOREM AuthenticatedIsEarned == NativeSpec => AuthenticatedAnswered
<1>1. NativeTypeOK /\ ProbeInv /\ [NativeNext]_nativeVars
        => [rows' # rows /\ rows'.last = "authenticated" => answered = Asks]_nativeVars
  <2> SUFFICES ASSUME NativeTypeOK, ProbeInv, NativeNext, rows' # rows, rows'.last = "authenticated"
               PROVE  answered = Asks
    BY DEF nativeVars
  <2>1. DoctorStep
    BY WorkerKeeps DEF NativeNext
  <2>2. \A status : Row(status) => status = "authenticated"
    BY DEF Row
  <2>3. ~Config /\ ~Claude /\ ~Codex /\ ~Credential /\ ~ProbeDeadline
    BY <2>2, NoneAuthenticates DEF Config, Claude, Codex, Credential, ProbeDeadline, GoOn
  <2>4. Received /\ worker.step = "sent" /\ worker.sent = "authenticated"
    BY <2>1, <2>2, <2>3 DEF DoctorStep, Received
  <2> QED BY <2>4 DEF ProbeInv
<1> QED BY <1>1, ProbeInOrder, PTL DEF NativeSpec, AuthenticatedAnswered
=============================================================================
