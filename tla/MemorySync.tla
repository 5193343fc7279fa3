----------------------------- MODULE MemorySync -----------------------------
(***************************************************************************)
(* One memory file of the shared state (lib/state-sync.zsh): every box has *)
(* its copy in $HOME and its replica of the state root, which a sync       *)
(* client carries to and from a hub.  Runs of nix-backup mirror the file   *)
(* newest-wins both ways, turn a deletion into a tombstone dated the last  *)
(* time the box saw the file, and apply the tombstones of other boxes.     *)
(*                                                                         *)
(* A copy is its mtime, 0 when there is none; so is a tombstone.  Clocks   *)
(* agree and an edit takes a time of its own.                              *)
(***************************************************************************)
EXTENDS Naturals

CONSTANTS Boxes, Hub, MaxTime, Plans, Runs

ASSUME MemoryAssumption ==
  /\ MaxTime \in Nat \ {0} /\ Plans \subseteq SUBSET {"delete", "wipe", "kill"}
  /\ Boxes # {} /\ Hub \notin Boxes /\ Runs \subseteq {"sync", "backup", "restore"}

VARIABLES
  home, kept,          \* the copy in $HOME; the memory directory is not empty
  seen,                \* date of the seen list, 0 when it lacks the file
  pc, run,             \* the run in progress on each box
  file, tomb,          \* the state root's copy and tombstone, per replica
  dirty, stale,        \* what a replica has to send to and take from the hub
  now,                 \* the time of the newest edit
  fate,                \* history: what users did to the file since
  left                 \* what may still happen, each once

local == <<home, kept, seen>>
process == <<pc, run>>
shared == <<file, tomb, dirty, stale>>
users == <<now, fate, left>>
vars == <<local, process, shared, users>>

Replicas == Boxes \cup {Hub}
Paths == {"file", "tomb"}
Times == 0..MaxTime
Places == {"off", "gone", "mark", "push", "again", "pull", "record"}

\* Every box has just pulled the same file.
Init ==
  /\ now = 1 /\ fate = "kept" /\ left \in Plans
  /\ home = [b \in Boxes |-> 1] /\ kept = [b \in Boxes |-> TRUE]
  /\ seen = [b \in Boxes |-> 1]
  /\ pc = [b \in Boxes |-> "off"] /\ run = [b \in Boxes |-> "sync"]
  /\ file = [r \in Replicas |-> 1] /\ tomb = [r \in Replicas |-> 0]
  /\ dirty = [b \in Boxes |-> {}] /\ stale = [b \in Boxes |-> {}]

Goto(b, p) == pc' = [pc EXCEPT ![b] = p] /\ UNCHANGED run

\* A write into a box's replica: the sync client has something to send.
Root(b, f, t) ==
  /\ file' = [file EXCEPT ![b] = f] /\ tomb' = [tomb EXCEPT ![b] = t]
  /\ dirty' = [dirty EXCEPT ![b] = @ \cup (IF f # file[b] THEN {"file"} ELSE {})
                                      \cup (IF t # tomb[b] THEN {"tomb"} ELSE {})]
  /\ UNCHANGED stale

-----------------------------------------------------------------------------
(* A run: --state-only has both legs, a backup or a restore one of them.    *)

Newer(b) == home[b] > tomb[b] \/ file[b] > tomb[b]

\* Mutant: a newer copy is spared, its tombstone is not lifted.
TombstonesStay(b) ==
  /\ UNCHANGED <<kept, seen>>
  /\ IF tomb[b] = 0 \/ Newer(b)
       THEN Root(b, file[b], tomb[b]) /\ UNCHANGED home
       ELSE Root(b, 0, tomb[b]) /\ home' = [home EXCEPT ![b] = 0]

\* A newer copy on either side lifts a tombstone and stays; else both go.
Tombstones(b) ==
  /\ UNCHANGED <<kept, seen>>
  /\ IF tomb[b] = 0 \/ Newer(b)
       THEN Root(b, file[b], 0) /\ UNCHANGED home
       ELSE Root(b, 0, tomb[b]) /\ home' = [home EXCEPT ![b] = 0]

\* Held at the last pull, absent here now, still in the state root.
DeletedHere(b) == seen[b] # 0 /\ home[b] = 0 /\ file[b] # 0

Start(b, r) ==
  /\ pc[b] = "off" /\ run' = [run EXCEPT ![b] = r]
  /\ pc' = [pc EXCEPT ![b] = IF r = "restore" THEN "pull" ELSE "gone"]
  /\ Tombstones(b)
  /\ fate' = IF r = "restore" /\ fate = "deleted" /\ DeletedHere(b) THEN "unsure" ELSE fate
  /\ UNCHANGED <<now, left>>

Again(b) == pc[b] = "again" /\ Goto(b, "pull") /\ Tombstones(b) /\ UNCHANGED users

NothingGone(b) ==
  /\ pc[b] = "gone" /\ (DeletedHere(b) => ~kept[b])
  /\ Goto(b, "push") /\ UNCHANGED <<local, shared, users>>

\* Mutant: a deletion leaves no tombstone.
RemoveUnmarked(b) ==
  /\ pc[b] = "gone" /\ DeletedHere(b) /\ kept[b]
  /\ Root(b, 0, tomb[b])
  /\ Goto(b, "push") /\ UNCHANGED <<local, users>>

Remove(b) ==
  /\ pc[b] = "gone" /\ DeletedHere(b) /\ kept[b]
  /\ Root(b, 0, tomb[b])
  /\ Goto(b, "mark") /\ UNCHANGED <<local, users>>

\* The tombstone, dated back as soon as it is written.
Mark(b) ==
  /\ pc[b] = "mark"
  /\ Root(b, file[b], seen[b])
  /\ Goto(b, "push") /\ UNCHANGED <<local, users>>

Push(b) ==
  /\ pc[b] = "push"
  /\ Root(b, IF home[b] > file[b] THEN home[b] ELSE file[b], tomb[b])
  /\ Goto(b, IF run[b] = "sync" THEN "again" ELSE "off")
  /\ UNCHANGED <<local, users>>

\* Mutant: the pull overwrites a newer copy.
PullOver(b) ==
  /\ pc[b] = "pull"
  /\ home' = IF file[b] # 0 THEN [home EXCEPT ![b] = file[b]] ELSE home
  /\ kept' = [kept EXCEPT ![b] = TRUE]
  /\ Goto(b, "record") /\ UNCHANGED <<seen, shared, users>>

Pull(b) ==
  /\ pc[b] = "pull"
  /\ home' = IF file[b] > home[b] THEN [home EXCEPT ![b] = file[b]] ELSE home
  /\ kept' = [kept EXCEPT ![b] = TRUE]  \* the index is pulled as well
  /\ Goto(b, "record") /\ UNCHANGED <<seen, shared, users>>

Record(b) ==
  /\ pc[b] = "record"
  /\ seen' = [seen EXCEPT ![b] = IF home[b] = 0 THEN 0 ELSE now]
  /\ Goto(b, "off") /\ UNCHANGED <<home, kept, shared, users>>

Step(b) ==
  \/ Again(b) \/ NothingGone(b) \/ Remove(b) \/ Mark(b)
  \/ Push(b) \/ Pull(b) \/ Record(b)

-----------------------------------------------------------------------------
(* The sync client: the newer side of a conflict wins and a deletion loses; *)
(* what loses becomes a conflict copy, which no run reads.                  *)

At(r, p) == IF p = "file" THEN file[r] ELSE tomb[r]
Set(r, p, v) ==
  IF p = "file" THEN file' = [file EXCEPT ![r] = v] /\ UNCHANGED tomb
                ELSE tomb' = [tomb EXCEPT ![r] = v] /\ UNCHANGED file

Send(b, p) ==
  /\ p \in dirty[b] /\ (p \in stale[b] => At(b, p) > At(Hub, p))
  /\ Set(Hub, p, At(b, p))
  /\ dirty' = [dirty EXCEPT ![b] = @ \ {p}]
  /\ stale' = [c \in Boxes |-> IF c = b THEN stale[c] \ {p} ELSE stale[c] \cup {p}]
  /\ UNCHANGED <<local, process, users>>

Receive(b, p) ==
  /\ p \in stale[b] /\ (p \in dirty[b] => At(b, p) <= At(Hub, p))
  /\ Set(b, p, At(Hub, p))
  /\ dirty' = [dirty EXCEPT ![b] = @ \ {p}]
  /\ stale' = [stale EXCEPT ![b] = @ \ {p}]
  /\ UNCHANGED <<local, process, users>>

-----------------------------------------------------------------------------
(* Users, agents and accidents.                                             *)

Once(kind) == kind \in left /\ left' = left \ {kind}

Edit(b) ==
  /\ now < MaxTime /\ now' = now + 1
  /\ home' = [home EXCEPT ![b] = now + 1] /\ kept' = [kept EXCEPT ![b] = TRUE]
  /\ fate' = IF fate = "kept" THEN "kept" ELSE "wanted"
  /\ UNCHANGED <<seen, process, shared, left>>

Delete(b) ==
  /\ Once("delete") /\ home[b] # 0
  /\ home' = [home EXCEPT ![b] = 0]
  /\ fate' = IF pc[b] \in {"off", "gone"} /\ seen[b] = now THEN "deleted" ELSE "unsure"
  /\ UNCHANGED <<kept, seen, process, shared, now>>

\* Another memory is written.
Other(b) ==
  /\ ~kept[b] /\ kept' = [kept EXCEPT ![b] = TRUE]
  /\ UNCHANGED <<home, seen, process, shared, users>>

\* The memory directory is emptied, its index included: a reset.
Wipe(b) ==
  /\ Once("wipe") /\ kept[b]
  /\ home' = [home EXCEPT ![b] = 0] /\ kept' = [kept EXCEPT ![b] = FALSE]
  /\ fate' = "unsure"
  /\ UNCHANGED <<seen, process, shared, now>>

Kill(b) ==
  /\ Once("kill") /\ pc[b] # "off" /\ Goto(b, "off")
  /\ fate' = IF pc[b] = "mark" THEN "unsure" ELSE fate
  /\ UNCHANGED <<local, shared, now>>

Carry(b, p) == Send(b, p) \/ Receive(b, p)

Next == \E b \in Boxes :
  \/ Step(b) \/ \E r \in Runs : Start(b, r)
  \/ \E p \in Paths : Carry(b, p)
  \/ Edit(b) \/ Delete(b) \/ Other(b) \/ Wipe(b) \/ Kill(b)

Spec == Init /\ [][Next]_vars

\* The timer starts one run after another, and the sync client carries every path.
FairSpec ==
  /\ Spec
  /\ \A b \in Boxes : WF_vars(Step(b) \/ Start(b, "sync"))
  /\ \A b \in Boxes, p \in Paths : WF_vars(Carry(b, p))

-----------------------------------------------------------------------------

TypeOK ==
  /\ home \in [Boxes -> Times] /\ kept \in [Boxes -> BOOLEAN]
  /\ seen \in [Boxes -> Times]
  /\ pc \in [Boxes -> Places] /\ run \in [Boxes -> Runs \cup {"sync"}]
  /\ file \in [Replicas -> Times] /\ tomb \in [Replicas -> Times]
  /\ dirty \in [Boxes -> SUBSET Paths] /\ stale \in [Boxes -> SUBSET Paths]
  /\ now \in Times /\ fate \in {"kept", "wanted", "deleted", "unsure"}
  /\ left \subseteq UNION Plans
  /\ \A b \in Boxes : pc[b] = "mark" => seen[b] # 0

\* Every home and every replica hold the same copy, and a tombstone only where
\* there is none.
Agreed ==
  /\ \A b \in Boxes : home[b] = file[Hub] /\ file[b] = file[Hub] /\ tomb[b] = tomb[Hub]
  /\ tomb[Hub] # 0 => file[Hub] = 0

\* "... every write into the state root has to converge on its own"
\* (ARCHITECTURE.md, lines 583-584): edits, a deletion or a reset, a killed run
\* and conflicts of the sync client end in one state everywhere.
Settles == <>[]Agreed

\* "... so no backup writes a deleted memory back" (state-sync.zsh, line 309): a
\* file that was deleted on a box that had recorded its newest copy, and that
\* nobody writes again, ends up deleted everywhere.  Deletions that the code lets
\* come back are not counted: one made during a run that has already looked for
\* deletions and whose pull or record is still to come, one that a restore
\* comes before, and one whose run is killed between its two writes.
DeletionsStand == <>[](fate = "deleted" => \A b \in Boxes : home[b] = 0)

\* While nobody has removed the file, some home has its newest copy: no mirror,
\* tombstone, kill or conflict loses an edit (mirror_tree, sync_memory_dir).
NewestStands == fate = "kept" => \E b \in Boxes : home[b] = now

Somewhere(v) == (\E b \in Boxes : home[b] = v) \/ (\E r \in Replicas : file[r] = v)

\* "Every box drops a copy no newer than the tombstone; a copy edited after the
\* deletion lifts it" (ARCHITECTURE.md, lines 605-606): the newest copy, written
\* after every removal by a user, exists somewhere.
EditsStand == fate \in {"kept", "wanted"} => Somewhere(now)
=============================================================================
