------------------------------- MODULE Decisions -------------------------------
(***************************************************************************)
(* The gate's ledger (lib/state-gate.zsh): the operator's rulings on one   *)
(* finding, made on any box, kept in the box's own log and in one file of  *)
(* the state root, which every box rewrites as a union and a sync client   *)
(* carries between the boxes' replicas.  The latest ruling wins.           *)
(*                                                                         *)
(* A file is the set of its lines; which of two lines of one second comes  *)
(* first is left open.  A box runs one nix-backup at a time, under the     *)
(* backup's lock.                                                          *)
(***************************************************************************)
EXTENDS Naturals, FiniteSets

CONSTANTS
  Desks,          \* the boxes
  Rulings,        \* what the operator may answer
  Clock,          \* what a box's clock may say: clocks need not agree
  MaxReviews,     \* bound: reviews begun on one box
  Slips           \* what may happen, each once: "kill", "away"

ASSUME DecisionsAssumption ==
  /\ Rulings \subseteq {"allow", "keep", "delete"}
  /\ Clock \subseteq Nat /\ MaxReviews \in Nat /\ Slips \subseteq {"kill", "away"}
  /\ "hub" \notin Desks

VARIABLES
  log,            \* decisions.local.jsonl of each box, append-only
  decisions,      \* decisions.jsonl of each replica, and of the sync service
  beside,         \* conflict copies of it in the synced folder
  ahead, behind,  \* the replica has something to send, to fetch
  arriving,       \* the client is writing the replica's file: half of it is there
  rooted,         \* the state root is mounted
  review,         \* the run on each box: its step, the step after its sync, the
                  \* ruling it goes by, its work file, the conflict copies listed
  asked,          \* reviews begun on each box
  slips           \* what may still happen

gateVars == <<log, decisions, beside, ahead, behind, arriving, rooted, review, asked, slips>>
replicas == <<decisions, beside, ahead, behind, arriving>>

NoRuling == [host |-> "none", decision |-> "none", epoch |-> 0]
NoRun == [at |-> "off", next |-> "off", known |-> NoRuling, build |-> {}, listed |-> {}]

GateInit ==
  /\ log = [b \in Desks |-> {}] /\ decisions = [r \in Desks \cup {"hub"} |-> {}] /\ beside = {}
  /\ ahead = {} /\ behind = {} /\ arriving = {} /\ rooted = Desks
  /\ review = [b \in Desks |-> NoRun] /\ asked = [b \in Desks |-> 0] /\ slips = Slips

-----------------------------------------------------------------------------
(* Reading the ledger.                                                      *)

\* The files gate_decisions_load and gate_decisions_sync take together.
Known(b) == log[b] \cup IF b \in rooted THEN decisions[b] \cup UNION beside ELSE {}

Latest(lines) == {r \in lines : \A q \in lines : q.epoch <= r.epoch}

\* The local log is read last, so of one second its line wins.
Winning(b) == IF Latest(Known(b)) \cap log[b] # {} THEN Latest(Known(b)) \cap log[b] ELSE Latest(Known(b))

Unreadable(b) == b \in rooted /\ b \in arriving

\* gate_decisions_load: one file that cannot be read leaves everything undecided.
Loaded(b) == IF Unreadable(b) \/ Known(b) = {} THEN {NoRuling} ELSE Winning(b)

-----------------------------------------------------------------------------
(* gate_decisions_sync: the union is built, placed by one rename, and the    *)
(* conflict copies it holds are removed; anything may change in between.     *)

Goto(b, at) == review' = [review EXCEPT ![b].at = at]

SyncEnds(b) == IF review[b].next = "off" THEN NoRun
               ELSE [NoRun EXCEPT !.at = review[b].next, !.known = review[b].known]

\* One unreadable input: nothing is rewritten, nothing removed.
Gather(b) ==
  /\ review[b].at = "gather"
  /\ review' = [review EXCEPT ![b] = IF Unreadable(b) THEN SyncEnds(b)
       ELSE [at |-> "place", next |-> @.next, known |-> @.known, build |-> Known(b), listed |-> beside]]
  /\ UNCHANGED <<log, replicas, rooted, asked, slips>>

Place(b) ==
  /\ review[b].at = "place" /\ Goto(b, "fold")
  /\ decisions' = [decisions EXCEPT ![b] = review[b].build]
  /\ ahead' = ahead \cup {b} /\ arriving' = arriving \ {b}
  /\ UNCHANGED <<log, beside, behind, rooted, asked, slips>>

\* A copy that cannot be removed stays.
Fold(b) ==
  /\ review[b].at = "fold"
  /\ \E gone \in SUBSET review[b].listed : beside' = beside \ gone
  /\ review' = [review EXCEPT ![b] = SyncEnds(b)]
  /\ UNCHANGED <<log, decisions, ahead, behind, arriving, rooted, asked, slips>>

\* Mutant: a file that is there is taken for one that has everything.
UnsharedAtAll(b) == log[b] # {} /\ decisions[b] = {}

\* gate_decisions_replay has something to fold.
Unshared(b) == ~(log[b] \subseteq decisions[b])

\* A backup or a state sync; one with nothing to fold changes nothing here.
Replay(b) ==
  /\ review[b].at = "off" /\ b \in rooted /\ Unshared(b)
  /\ Goto(b, "gather") /\ UNCHANGED <<log, replicas, rooted, asked, slips>>

-----------------------------------------------------------------------------
(* --review-secrets: the ledger is read once, then the operator answers.    *)

ReviewBegins(b) ==
  /\ review[b].at = "off" /\ asked[b] < MaxReviews /\ asked' = [asked EXCEPT ![b] = @ + 1]
  /\ \E r \in Loaded(b) :
       review' = [review EXCEPT ![b] = [NoRun EXCEPT !.at = "asking", !.known = r]]
  /\ UNCHANGED <<log, replicas, rooted, slips>>

\* A finding is offered while undecided or kept; a deletion, to be settled here.
Offered(known, decision) ==
  \/ known.decision \in {"none", "keep"}
  \/ known.decision = "delete" /\ decision = "delete"

\* gate_settle_delete_here: a deletion is dated after the ruling it answers.
Dated(known, decision, now) ==
  IF decision = "delete" /\ now <= known.epoch THEN known.epoch + 1 ELSE now

\* gate_decision_record: the local log first, then the state root.
Rule(b, decision, now, next) ==
  LET r == [host |-> b, decision |-> decision, epoch |-> Dated(review[b].known, decision, now)]
      ruled == [NoRun EXCEPT !.next = next, !.known = r]
  IN /\ log' = [log EXCEPT ![b] = @ \cup {r}]
     /\ review' = [review EXCEPT ![b] = IF b \in rooted THEN [ruled EXCEPT !.at = "gather"]
                   ELSE IF next = "off" THEN NoRun ELSE [ruled EXCEPT !.at = next]]
     /\ UNCHANGED <<replicas, rooted, asked, slips>>

\* A deletion of the group is ruled before it is applied, and settled after.
Ruled(b) ==
  /\ review[b].at = "asking"
  /\ \E decision \in Rulings, now \in Clock :
       /\ Offered(review[b].known, decision)
       /\ Rule(b, decision, now,
               IF decision = "delete" /\ review[b].known.decision # "delete" THEN "settle" ELSE "off")

Settle(b) == review[b].at = "settle" /\ \E now \in Clock : Rule(b, "delete", now, "off")

\* The operator skips, or the deletion could not be applied.
ReviewEnds(b) ==
  /\ review[b].at \in {"asking", "settle"} /\ review' = [review EXCEPT ![b] = NoRun]
  /\ UNCHANGED <<log, replicas, rooted, asked, slips>>

-----------------------------------------------------------------------------
(* The sync client.  It may write a file piece by piece; of two versions    *)
(* one wins and the other becomes a conflict copy, in every replica.        *)

Send(b) ==
  /\ b \in ahead \ behind
  /\ decisions' = [decisions EXCEPT !["hub"] = decisions[b]]
  /\ ahead' = ahead \ {b} /\ behind' = Desks \ {b}
  /\ UNCHANGED <<log, beside, arriving, rooted, review, asked, slips>>

Arrive(b) ==
  /\ b \in behind \ (ahead \cup arriving) /\ arriving' = arriving \cup {b}
  /\ UNCHANGED <<log, decisions, beside, ahead, behind, rooted, review, asked, slips>>

Arrived(b) ==
  /\ b \in arriving
  /\ decisions' = [decisions EXCEPT ![b] = decisions["hub"]]
  /\ arriving' = arriving \ {b} /\ behind' = behind \ {b}
  /\ UNCHANGED <<log, beside, ahead, rooted, review, asked, slips>>

Conflict(b) ==
  /\ b \in ahead \cap behind
  /\ \/ /\ ahead' = ahead \ {b} /\ decisions' = [decisions EXCEPT ![b] = decisions["hub"]]
        /\ beside' = beside \cup ({decisions[b]} \ {decisions["hub"]})
     \/ /\ UNCHANGED <<ahead, decisions>>
        /\ beside' = beside \cup ({decisions["hub"]} \ {decisions[b]})
  /\ behind' = behind \ {b}
  /\ UNCHANGED <<log, arriving, rooted, review, asked, slips>>

-----------------------------------------------------------------------------
(* Accidents.                                                               *)

Slip(kind) == kind \in slips /\ slips' = slips \ {kind}

RunKilled(b) ==
  /\ Slip("kill") /\ review[b].at # "off" /\ review' = [review EXCEPT ![b] = NoRun]
  /\ UNCHANGED <<log, replicas, rooted, asked>>

\* Whether the state root is there is decided once, when a run begins.
Unmount(b) ==
  /\ Slip("away") /\ review[b].at = "off" /\ b \in rooted /\ rooted' = rooted \ {b}
  /\ UNCHANGED <<log, replicas, review, asked>>

Mount(b) ==
  /\ review[b].at = "off" /\ b \notin rooted /\ rooted' = rooted \cup {b}
  /\ UNCHANGED <<log, replicas, review, asked, slips>>

-----------------------------------------------------------------------------

Runs(b) == Replay(b) \/ Gather(b) \/ Place(b) \/ Fold(b) \/ ReviewEnds(b)
Client(b) == Send(b) \/ Arrive(b) \/ Arrived(b) \/ Conflict(b)

GateNext == \E b \in Desks :
  \/ Runs(b) \/ ReviewBegins(b) \/ Ruled(b) \/ Settle(b)
  \/ Client(b) \/ RunKilled(b) \/ Unmount(b) \/ Mount(b)

GateSpec ==
  /\ GateInit /\ [][GateNext]_gateVars
  /\ \A b \in Desks : WF_gateVars(Runs(b)) /\ WF_gateVars(Client(b)) /\ WF_gateVars(Mount(b))

-----------------------------------------------------------------------------

GateTypeOK ==
  LET ruling == [host : Desks, decision : Rulings, epoch : Nat] IN
  /\ \A b \in Desks : log[b] \subseteq ruling
  /\ \A r \in DOMAIN decisions : decisions[r] \subseteq ruling
  /\ \A c \in beside : c \subseteq ruling
  /\ ahead \cup behind \cup arriving \cup rooted \subseteq Desks

\* "... every write into the state root has to converge on its own"
\* (ARCHITECTURE.md, lines 583-584): whatever runs overwrite of each other's,
\* a kill leaves half done and the client puts aside, every ruling made on any
\* box is read on every box in the end, and boxes go by one ruling unless two
\* differ in the same second.
RulingsReachAll ==
  <>[](\A b \in Desks :
         /\ Known(b) = UNION {log[c] : c \in Desks}
         /\ \A c \in Desks : \A r \in Loaded(b), q \in Loaded(c) :
              r.decision = q.decision \/ Cardinality({d.decision : d \in Latest(Known(b))}) > 1)
=============================================================================
