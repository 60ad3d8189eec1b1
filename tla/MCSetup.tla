------------------------------ MODULE MCSetup -------------------------------
(* Installing, and the first run of what was installed: two machines'      *)
(* worth of wizard, bridge and service that share nothing but the bridge's *)
(* program.  A behaviour is one of one of them, its subject.               *)
EXTENDS Setup, Oobe

VARIABLE subject

setupRunVars == <<subject, setupVars, oobeVars>>

\* One system partition, one other.
MCPaths == <<"esp", "p1">>

\* What a scan finds: the network in use, or one to join.
MCScans(on) == IF on THEN {<<"used">>} ELSE {<<"wifi">>}

Init == subject \in {"setup", "oobe"} /\ SetupInit /\ OobeInit

Next ==
    /\ UNCHANGED subject
    /\ \/ subject = "setup" /\ SetupNext /\ UNCHANGED oobeVars
       \/ subject = "oobe" /\ OobeNext /\ UNCHANGED setupVars

\* The wizards' threads, the bridge and the services run; nobody need press,
\* type or answer anything.
Fair ==
    /\ WF_setupVars(subject = "setup" /\ setup_handle_line)
    /\ WF_setupVars(subject = "setup" /\ InstalldStep)
    /\ WF_setupVars(subject = "setup" /\ setup_from_wizard)
    /\ WF_oobeVars(subject = "oobe" /\ oobe_handle_line)
    /\ WF_oobeVars(subject = "oobe" /\ OobedStep)
    /\ WF_oobeVars(subject = "oobe" /\ from_wizard)

Spec == Init /\ [][Next]_setupRunVars /\ Fair

\* The variables of both have their types.
TypeOK == SetupTypeOK /\ OobeTypeOK

\* Neither wizard waits for ever, whatever its service does.
WizardsAnswer == SetupAnswers /\ OobeAnswers
=============================================================================
