----------------------------- MODULE MemoryProof -----------------------------
(***************************************************************************)
(* Proofs about the memory mirror for any set of boxes: type correctness,  *)
(* and that the newest copy is safe for as long as no user removes it.     *)
(***************************************************************************)
EXTENDS MemorySync, TLAPS

\* What a write into a box's replica leaves behind.
LEMMA RootType ==
  ASSUME TypeOK, NEW b \in Boxes, NEW f \in Times, NEW t \in Times, Root(b, f, t)
  PROVE  /\ file' = [file EXCEPT ![b] = f] /\ file' \in [Replicas -> Times]
         /\ tomb' = [tomb EXCEPT ![b] = t] /\ tomb' \in [Replicas -> Times]
         /\ dirty' \in [Boxes -> SUBSET Paths] /\ stale' \in [Boxes -> SUBSET Paths]
<1>1. b \in Replicas
  BY DEF Replicas
<1>2. dirty' \in [Boxes -> SUBSET Paths]
  BY DEF Root, TypeOK, Paths
<1> QED BY <1>1, <1>2 DEF Root, TypeOK

\* The sync client replaces one value of one replica by another's.
LEMMA CarryType ==
  ASSUME TypeOK, NEW b \in Boxes, NEW p \in Paths, Carry(b, p)
  PROVE  /\ \A r \in Replicas : \E q \in Replicas : file'[r] = file[q]
         /\ \A r \in Replicas : \E q \in Replicas : tomb'[r] = tomb[q]
         /\ file' \in [Replicas -> Times] /\ tomb' \in [Replicas -> Times]
         /\ dirty' \in [Boxes -> SUBSET Paths] /\ stale' \in [Boxes -> SUBSET Paths]
         /\ UNCHANGED <<local, process, users>>
<1>1. b \in Replicas /\ Hub \in Replicas
  BY DEF Replicas
<1>2. ASSUME NEW r \in Replicas, NEW q \in Replicas, Set(r, p, At(q, p))
      PROVE  /\ \A x \in Replicas : \E y \in Replicas : file'[x] = file[y]
             /\ \A x \in Replicas : \E y \in Replicas : tomb'[x] = tomb[y]
             /\ file' \in [Replicas -> Times] /\ tomb' \in [Replicas -> Times]
  <2>1. file' = file \/ file' = [file EXCEPT ![r] = file[q]]
    BY <1>2 DEF Set, At
  <2>2. tomb' = tomb \/ tomb' = [tomb EXCEPT ![r] = tomb[q]]
    BY <1>2 DEF Set, At
  <2> QED BY <2>1, <2>2 DEF TypeOK
<1>3. Set(Hub, p, At(b, p)) \/ Set(b, p, At(Hub, p))
  BY DEF Carry, Send, Receive
<1>4. dirty' \in [Boxes -> SUBSET Paths]
  BY DEF Carry, Send, Receive, TypeOK
<1>5. stale' \in [Boxes -> SUBSET Paths]
  <2>1. CASE Send(b, p)
    BY <2>1 DEF Send, TypeOK
  <2>2. CASE Receive(b, p)
    BY <2>2 DEF Receive, TypeOK
  <2> QED BY <2>1, <2>2 DEF Carry
<1> QED BY <1>1, <1>2, <1>3, <1>4, <1>5 DEF Carry, Send, Receive

\* What the tombstones of a replica do to the copies beside them.
LEMMA TombstonesType ==
  ASSUME TypeOK, NEW b \in Boxes, Tombstones(b)
  PROVE  /\ home' \in [Boxes -> Times] /\ UNCHANGED <<kept, seen>>
         /\ file' \in [Replicas -> Times] /\ tomb' \in [Replicas -> Times]
         /\ dirty' \in [Boxes -> SUBSET Paths] /\ stale' \in [Boxes -> SUBSET Paths]
         /\ tomb[b] = 0 => home' = home /\ file' = file /\ tomb' = tomb
<1>1. 0 \in Times /\ file[b] \in Times /\ tomb[b] \in Times
  BY MemoryAssumption DEF Times, TypeOK, Replicas
<1>2. home' \in [Boxes -> Times]
  BY <1>1 DEF Tombstones, TypeOK
<1>3. \/ Root(b, file[b], 0) /\ UNCHANGED home
      \/ tomb[b] # 0 /\ Root(b, 0, tomb[b])
  BY DEF Tombstones
<1>4. tomb[b] = 0 => home' = home /\ file' = file /\ tomb' = tomb
  BY <1>1, <1>3, RootType DEF TypeOK, Replicas
<1> QED BY <1>1, <1>2, <1>3, <1>4, RootType DEF Tombstones

\* Type correctness, one step per action.
THEOREM TypeCorrect == Spec => []TypeOK
<1>1. Init => TypeOK
  BY MemoryAssumption DEF Init, TypeOK, Times, Places
<1>2. TypeOK /\ [Next]_vars => TypeOK'
  <2> SUFFICES ASSUME TypeOK, [Next]_vars PROVE TypeOK'
    OBVIOUS
  <2> USE DEF local, process, shared, users, Goto
  <2>t. /\ \A b \in Boxes : home[b] \in Times /\ seen[b] \in Times
        /\ \A r \in Replicas : file[r] \in Times /\ tomb[r] \in Times
        /\ \A b \in Boxes : b \in Replicas
        /\ 0 \in Times
    BY MemoryAssumption DEF TypeOK, Times, Replicas
  <2>1. ASSUME NEW b \in Boxes, NEW r \in Runs, Start(b, r) PROVE TypeOK'
    <3>1. /\ pc' \in [Boxes -> Places] /\ run' \in [Boxes -> Runs \cup {"sync"}]
          /\ \A c \in Boxes : pc'[c] = "mark" => pc[c] = "mark"
      BY <2>1 DEF Start, TypeOK, Places
    <3> QED BY <2>1, <3>1, TombstonesType DEF Start, TypeOK
  <2>2. ASSUME NEW b \in Boxes, Again(b) PROVE TypeOK'
    <3>1. /\ pc' \in [Boxes -> Places] /\ UNCHANGED run
          /\ \A c \in Boxes : pc'[c] = "mark" => pc[c] = "mark"
      BY <2>2 DEF Again, TypeOK, Places
    <3> QED BY <2>2, <3>1, TombstonesType DEF Again, TypeOK
  <2>3. ASSUME NEW b \in Boxes, NothingGone(b) PROVE TypeOK'
    BY <2>3 DEF NothingGone, TypeOK, Places
  <2>4. ASSUME NEW b \in Boxes, Remove(b) PROVE TypeOK'
    <3>1. Root(b, 0, tomb[b]) /\ seen[b] # 0
      BY <2>4 DEF Remove, DeletedHere
    <3>2. /\ pc' \in [Boxes -> Places]
          /\ \A c \in Boxes : pc'[c] = "mark" => pc[c] = "mark" \/ c = b
      BY <2>4 DEF Remove, TypeOK, Places
    <3> QED BY <2>4, <2>t, <3>1, <3>2, RootType DEF Remove, TypeOK
  <2>5. ASSUME NEW b \in Boxes, Mark(b) PROVE TypeOK'
    <3>1. Root(b, file[b], seen[b])
      BY <2>5 DEF Mark
    <3>2. /\ pc' \in [Boxes -> Places]
          /\ \A c \in Boxes : pc'[c] = "mark" => pc[c] = "mark"
      BY <2>5 DEF Mark, TypeOK, Places
    <3> QED BY <2>5, <2>t, <3>1, <3>2, RootType DEF Mark, TypeOK
  <2>6. ASSUME NEW b \in Boxes, Push(b) PROVE TypeOK'
    <3>1. PICK f \in Times : Root(b, f, tomb[b])
      BY <2>6, <2>t DEF Push
    <3>2. /\ pc' \in [Boxes -> Places]
          /\ \A c \in Boxes : pc'[c] = "mark" => pc[c] = "mark"
      BY <2>6 DEF Push, TypeOK, Places
    <3> QED BY <2>6, <2>t, <3>1, <3>2, RootType DEF Push, TypeOK
  <2>7. ASSUME NEW b \in Boxes, Pull(b) PROVE TypeOK'
    BY <2>7, <2>t DEF Pull, TypeOK, Places
  <2>8. ASSUME NEW b \in Boxes, Record(b) PROVE TypeOK'
    BY <2>8, <2>t DEF Record, TypeOK, Places
  <2>9. ASSUME NEW b \in Boxes, NEW p \in Paths, Carry(b, p) PROVE TypeOK'
    BY <2>9, CarryType DEF TypeOK
  <2>10. ASSUME NEW b \in Boxes, Edit(b) PROVE TypeOK'
    <3>1. now + 1 \in Times
      BY <2>10, MemoryAssumption DEF Edit, TypeOK, Times
    <3> QED BY <2>10, <3>1 DEF Edit, TypeOK
  <2>11. ASSUME NEW b \in Boxes, Delete(b) \/ Wipe(b) PROVE TypeOK'
    <3>1. left' \subseteq UNION Plans /\ home' = [home EXCEPT ![b] = 0]
      BY <2>11 DEF Delete, Wipe, Once, TypeOK
    <3> QED BY <2>11, <2>t, <3>1 DEF Delete, Wipe, TypeOK
  <2>12. ASSUME NEW b \in Boxes, Other(b) PROVE TypeOK'
    BY <2>12 DEF Other, TypeOK
  <2>13. ASSUME NEW b \in Boxes, Kill(b) PROVE TypeOK'
    <3>1. left' \subseteq UNION Plans
      BY <2>13 DEF Kill, Once, TypeOK
    <3> QED BY <2>13, <3>1 DEF Kill, TypeOK, Places
  <2>14. CASE UNCHANGED vars
    BY <2>14 DEF vars, TypeOK
  <2> QED BY <2>1, <2>2, <2>3, <2>4, <2>5, <2>6, <2>7, <2>8, <2>9, <2>10, <2>11, <2>12,
             <2>13, <2>14 DEF Next, Step
<1> QED BY <1>1, <1>2, PTL DEF Spec

-----------------------------------------------------------------------------
(* The newest copy.                                                         *)

\* Until a user removes the file every home has a copy, so no box takes it for
\* deleted, so there is no tombstone, so no step but an edit or a mirror changes
\* a home, and a mirror only brings a newer copy.
KeptInv ==
  fate = "kept" =>
    /\ \A r \in Replicas : tomb[r] = 0 /\ file[r] <= now
    /\ \A b \in Boxes : home[b] # 0 /\ home[b] <= now /\ pc[b] # "mark"
    /\ \E b \in Boxes : home[b] = now

\* A step that leaves the homes and the clock alone and writes no tombstone.
LEMMA CopiesOnly ==
  ASSUME TypeOK, KeptInv, UNCHANGED <<home, now>>, fate' = "kept" => fate = "kept",
         fate = "kept" => \A r \in Replicas : tomb'[r] = 0 /\ file'[r] <= now,
         \A b \in Boxes : pc'[b] = "mark" => pc[b] = "mark"
  PROVE  KeptInv'
BY DEF KeptInv, TypeOK

THEOREM NewestIsSafe == Spec => []NewestStands
<1>1. Init => KeptInv
  <2> SUFFICES ASSUME Init PROVE KeptInv
    OBVIOUS
  <2>1. PICK b \in Boxes : TRUE
    BY MemoryAssumption
  <2> QED BY <2>1 DEF Init, KeptInv
<1>2. TypeOK /\ KeptInv /\ [Next]_vars => KeptInv'
  <2> SUFFICES ASSUME TypeOK, KeptInv, [Next]_vars, fate' = "kept" PROVE KeptInv'
    BY DEF KeptInv
  <2> USE DEF local, process, shared, users, Goto
  <2>n. now \in Nat /\ \A b \in Boxes : home[b] \in Nat /\ b \in Replicas
    BY MemoryAssumption DEF TypeOK, Times, Replicas
  <2>f. \A r \in Replicas : file[r] \in Nat
    BY DEF TypeOK, Times
  <2>0. /\ fate = "kept" /\ pc \in [Boxes -> Places]
        /\ \A r \in Replicas : tomb[r] = 0 /\ file[r] <= now
        /\ \A b \in Boxes : home[b] # 0 /\ home[b] <= now /\ pc[b] # "mark"
    <3>1. fate = "kept"
      BY DEF Next, Step, Start, Again, Tombstones, NothingGone, Remove, Mark, Push, Pull,
             Record, Carry, Send, Receive, Edit, Delete, Other, Wipe, Kill, vars
    <3> QED BY <3>1 DEF KeptInv, TypeOK
  <2>1. ASSUME NEW b \in Boxes, NEW r \in Runs, Start(b, r) PROVE KeptInv'
    <3>1. \A c \in Boxes : pc'[c] = "mark" => pc[c] = "mark"
      BY <2>1, <2>0 DEF Start
    <3> QED BY <2>1, <2>0, <2>n, <3>1, TombstonesType, CopiesOnly DEF Start
  <2>2. ASSUME NEW b \in Boxes, Again(b) PROVE KeptInv'
    <3>1. \A c \in Boxes : pc'[c] = "mark" => pc[c] = "mark"
      BY <2>2, <2>0 DEF Again
    <3> QED BY <2>2, <2>0, <2>n, <3>1, TombstonesType, CopiesOnly DEF Again
  <2>3. ASSUME NEW b \in Boxes, NothingGone(b) \/ Record(b) \/ Other(b) \/ Kill(b)
        PROVE KeptInv'
    <3>1. \A c \in Boxes : pc'[c] = "mark" => pc[c] = "mark"
      BY <2>3, <2>0 DEF NothingGone, Record, Other, Kill
    <3> QED BY <2>3, <2>0, <3>1, CopiesOnly DEF NothingGone, Record, Other, Kill
  <2>4. ASSUME NEW b \in Boxes, Remove(b) \/ Mark(b) \/ Delete(b) \/ Wipe(b) PROVE FALSE
    BY <2>4, <2>0 DEF Remove, DeletedHere, Mark, Delete, Wipe
  <2>5. ASSUME NEW b \in Boxes, Push(b) PROVE KeptInv'
    <3>1. PICK f \in Times : Root(b, f, tomb[b]) /\ f <= now
      BY <2>5, <2>0, <2>n DEF Push, TypeOK
    <3>2. \A c \in Boxes : pc'[c] = "mark" => pc[c] = "mark"
      BY <2>5, <2>0 DEF Push
    <3>3. \A r \in Replicas : tomb'[r] = 0 /\ file'[r] <= now
      BY <2>0, <2>n, <3>1 DEF Root, TypeOK
    <3> QED BY <2>5, <3>2, <3>3, CopiesOnly DEF Push
  <2>6. ASSUME NEW b \in Boxes, Pull(b) PROVE KeptInv'
    <3>1. \A c \in Boxes : \/ home'[c] = home[c]
                           \/ home'[c] = file[c] /\ file[c] > home[c]
      <4>1. \/ UNCHANGED home
            \/ file[b] > home[b] /\ home' = [home EXCEPT ![b] = file[b]]
        BY <2>6 DEF Pull
      <4>2. home \in [Boxes -> Times]
        BY DEF TypeOK
      <4> QED BY <4>1, <4>2
    <3>2. \A c \in Boxes : home'[c] # 0 /\ home'[c] <= now
      BY <2>0, <2>n, <2>f, <3>1
    <3>3. PICK c \in Boxes : home[c] = now
      BY <2>0 DEF KeptInv
    <3>4. home'[c] = now
      BY <2>0, <2>n, <2>f, <3>1, <3>3
    <3>5. \A d \in Boxes : pc'[d] # "mark"
      BY <2>6, <2>0 DEF Pull
    <3> QED BY <2>6, <2>0, <3>2, <3>4, <3>5 DEF Pull, KeptInv
  <2>7. ASSUME NEW b \in Boxes, NEW p \in Paths, Carry(b, p) PROVE KeptInv'
    BY <2>7, <2>0, CarryType, CopiesOnly
  <2>8. ASSUME NEW b \in Boxes, Edit(b) PROVE KeptInv'
    BY <2>8, <2>0, <2>n, <2>f DEF Edit, KeptInv, TypeOK
  <2>9. CASE UNCHANGED vars
    BY <2>9 DEF vars, KeptInv
  <2> QED BY <2>1, <2>2, <2>3, <2>4, <2>5, <2>6, <2>7, <2>8, <2>9 DEF Next, Step
<1>3. KeptInv => NewestStands
  BY DEF KeptInv, NewestStands
<1> QED BY <1>1, <1>2, <1>3, TypeCorrect, PTL DEF Spec
=============================================================================
