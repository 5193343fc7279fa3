------------------------------- MODULE MCArchive -------------------------------
(***************************************************************************)
(* The nightly run's machine and the markers of the folders it writes to,  *)
(* which share no state here: the first step chooses one, and only that    *)
(* one moves from then on.                                                 *)
(***************************************************************************)
EXTENDS MCSessionArchive, Ownership

CONSTANTS b1, b2

VARIABLE part

TwoBoxes == {b1, b2}

allVars == <<part, vars, ownerVars>>

PartsInit == part = "none" /\ Init /\ OwnerInit

\* The markers are set out for the boxes alone.
Bare == sharing = {} /\ \A d \in Disks, f \in Folders : mark[d][f] = "none"

Choose(p) == part = "none" /\ (p = "archive" => Bare) /\ part' = p /\ UNCHANGED <<vars, ownerVars>>

Archive == part = "archive" /\ Next /\ UNCHANGED <<part, ownerVars>>
Owners == part = "owner" /\ OwnerNext /\ UNCHANGED <<part, vars>>

PartsNext == (\E p \in {"archive", "owner"} : Choose(p)) \/ Archive \/ Owners

PartsSpec == PartsInit /\ [][PartsNext]_allVars
=============================================================================
