---------------------------- MODULE MCSigningIn -----------------------------
(* Signing in at the machine, signing in from another one, and the keyring *)
(* that goes with the password.  They share nothing that is modelled: a    *)
(* behaviour is one of one of them, its subject.                           *)
EXTENDS SignIn, RdpAuth, Keyring

VARIABLE subject

signingInVars == <<subject, signVars, authVars, keyringVars>>

\* Ann asks for a session of their own, with the password and with none; Bob,
\* an administrator, for Ann's screen; Ann for Bob's.
Own(u, g) == [user |-> u, secret |-> g, spec |-> [target |-> None, control |-> FALSE]]
Shadow(u, t, c) == [user |-> u, secret |-> "right", spec |-> [target |-> t, control |-> c]]
MCAsking ==
    {Own("ann", "right"), Own("ann", "blank"), Shadow("bob", "ann", TRUE), Shadow("ann", "bob", FALSE)}

Init == subject \in {"sign", "auth", "keyring"} /\ SignInInit /\ AuthInit /\ KeyringInit

Next ==
    /\ UNCHANGED subject
    /\ \/ subject = "sign" /\ SignInNext /\ UNCHANGED <<authVars, keyringVars>>
       \/ subject = "auth" /\ AuthNext /\ UNCHANGED <<signVars, keyringVars>>
       \/ subject = "keyring" /\ KeyringNext /\ UNCHANGED <<signVars, authVars>>

\* The screen's threads and the bridge run and greetd answers; the daemon's
\* threads and the monitor run and a compositor notices a closed connection;
\* the programs around the keyring wait no longer than their limits.  People,
\* clients, sessions and private keyring daemons need not do anything.
Fair ==
    /\ WF_signVars(subject = "sign" /\ handle_bridge_line)
    /\ WF_signVars(subject = "sign" /\ BridgeStep)
    /\ WF_authVars(subject = "auth" /\ MonitorStep)
    /\ \A p \in Peers : WF_authVars(subject = "auth" /\ PeerStep(p))
    /\ \A u \in Users : WF_authVars(subject = "auth" /\ GivenBack(u))
    /\ WF_keyringVars(subject = "keyring" /\ FirstStep)
    /\ WF_keyringVars(subject = "keyring" /\ ChangeStep)

Spec == Init /\ [][Next]_signingInVars /\ Fair

\* The variables of all three have their types.
TypeOK == SignInTypeOK /\ AuthTypeOK /\ KeyringTypeOK

\* Signing in comes to an end, at the machine, from another one and with its
\* keyring, whatever greetd, PAM, the person at the console or a keyring daemon
\* do; and so does a remote sign-in's hold on the console.
SigningInEnds == ScreenComesBack /\ EveryAskEnds /\ ConsoleComesBack /\ SignInGoesOn
=============================================================================
