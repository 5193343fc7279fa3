------------------------------ MODULE MCServices ------------------------------
(***************************************************************************)
(* Three services and the nightly run with a budget and two sessions,      *)
(* which share no state with each other: the first step chooses one, and   *)
(* only that one moves from then on.                                       *)
(***************************************************************************)
EXTENDS WebDesk, McpLogins, NativeCheck, MCSessionArchive

VARIABLE part

MCNames == <<"mail", "tickets">>

partsVars == <<part, webVars, mcpVars, nativeVars, vars>>

PartsInit == part = "none" /\ WebInit /\ McpInit /\ NativeInit /\ Init

\* The doctor's files are set out for it alone.
Choose(p) == part = "none" /\ (live_check => p = "doctor") /\ part' = p /\ UNCHANGED <<webVars, mcpVars, nativeVars, vars>>

WebAlone == part = "web" /\ UNCHANGED <<part, mcpVars, nativeVars, vars>>
LoginsAlone == part = "logins" /\ UNCHANGED <<part, webVars, nativeVars, vars>>
DoctorAlone == part = "doctor" /\ UNCHANGED <<part, webVars, mcpVars, vars>>
ArchiveAlone == part = "archive" /\ UNCHANGED <<part, webVars, mcpVars, nativeVars>>

Web == WebAlone /\ WebNext
Logins == LoginsAlone /\ McpNext
Doctor == DoctorAlone /\ NativeNext
Archive == ArchiveAlone /\ Next

PartsNext ==
  (\E p \in {"web", "logins", "doctor", "archive"} : Choose(p)) \/ Web \/ Logins \/ Doctor \/ Archive

PartsSpec ==
  /\ PartsInit /\ [][PartsNext]_partsVars
  /\ \A t \in Threads : WF_webVars(WebAlone /\ Work(t))
  /\ WF_mcpVars(LoginsAlone /\ LoginStep)
  /\ WF_nativeVars(DoctorAlone /\ DoctorStep)
  /\ WF_vars(ArchiveAlone /\ Step) /\ WF_vars(ArchiveAlone /\ RunAll)
  /\ WF_vars(ArchiveAlone /\ Mount)
  /\ \A s \in Sessions : WF_vars(ArchiveAlone /\ Rest(s))
=============================================================================
