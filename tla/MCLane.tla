-------------------------------- MODULE MCLane --------------------------------
(***************************************************************************)
(* The parts of the lane that share no state with the nightly run's        *)
(* machine, and the gate's ledger, checked one beside the other: the first *)
(* step chooses a part, and only that part moves from then on.             *)
(***************************************************************************)
EXTENDS SessionCalls, SessionCard, SessionText, LaneCommand, Decisions

VARIABLE part

MCWhats == {<<"##", "Pointer">>, <<"Extracted:", "a">>, <<"Extracted:", "b">>}
MCQuotes == {<<"##", "Pointer", "\n", "Extracted:">>}

vars == <<part, callsVars, cardVars, textVars, laneVars, gateVars>>

Init == part = "none" /\ CallsInit /\ CardInit /\ TextInit /\ LaneInit /\ GateInit

Choose(p) == part = "none" /\ part' = p /\ UNCHANGED <<callsVars, cardVars, textVars, laneVars, gateVars>>

Calls == part = "calls" /\ CallsNext /\ UNCHANGED <<part, cardVars, textVars, laneVars, gateVars>>
Card == part = "card" /\ CardNext /\ UNCHANGED <<part, callsVars, textVars, laneVars, gateVars>>
Text == part = "text" /\ TextNext /\ UNCHANGED <<part, callsVars, cardVars, laneVars, gateVars>>
Command == part = "command" /\ LaneNext /\ UNCHANGED <<part, callsVars, cardVars, textVars, gateVars>>
Gate == part = "gate" /\ GateNext /\ UNCHANGED <<part, callsVars, cardVars, textVars, laneVars>>

Next == (\E p \in {"calls", "card", "text", "command", "gate"} : Choose(p)) \/ Calls \/ Card \/ Text \/ Command \/ Gate

Spec ==
  /\ Init /\ [][Next]_vars
  /\ WF_callsVars(Calls)
  /\ \A p \in Procs : WF_laneVars(part = "command" /\ (Own(p) \/ Kill(p)) /\ UNCHANGED <<part, callsVars, cardVars, textVars, gateVars>>)
  /\ \A b \in Desks :
       /\ WF_gateVars(part = "gate" /\ Runs(b) /\ UNCHANGED <<part, callsVars, cardVars, textVars, laneVars>>)
       /\ WF_gateVars(part = "gate" /\ Client(b) /\ UNCHANGED <<part, callsVars, cardVars, textVars, laneVars>>)
       /\ WF_gateVars(part = "gate" /\ Mount(b) /\ UNCHANGED <<part, callsVars, cardVars, textVars, laneVars>>)
=============================================================================
