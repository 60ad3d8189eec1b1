-------------------------------- MODULE SignIn ------------------------------
(***************************************************************************)
(* Signing in at the console: the login screen (greeter/sg-greeter.c, a    *)
(* Windows program with a reader thread), the bridge (sg-greet-bridge.c)   *)
(* it talks to over two pipes, and greetd, which the bridge drives one     *)
(* request and one answer at a time.  greetd and PAM are external.         *)
(***************************************************************************)
EXTENDS Naturals, Sequences

CONSTANTS Accounts, Nobody,
          Live,      \* the installation media's account
          MaxAhead   \* bound: lines under way when a person does something

ASSUME SignInConstants == Nobody \notin Accounts /\ Live \in Accounts /\ MaxAhead \in Nat \ {0}

VARIABLES
    boot,         \* how the bridge was started
    up, down,     \* the pipes: screen to bridge, bridge to screen
    g_last, g_last_mode, g_awaiting_secret, g_curtain, g_submit,  \* the screen
    g_screen,     \* "off", "on", "welcome" (g_done) or "closed"
    named,        \* the account of the last USER the screen sent
    bridge,       \* "off", "on", "done" or "gone"
    session_user, \* whom the bridge named to greetd
    last_file,    \* the account remembered
    greetd,       \* greetd's session: whose, and asking, or ready to start
    started,      \* whose session runs
    delivered,    \* history: whose password was meant, and whom greetd asked
    informed      \* history: PAM said something that is no question

uiVars == <<up, g_last, g_last_mode, g_awaiting_secret, g_curtain, g_submit, g_screen, named>>
bridgeVars == <<bridge, session_user, last_file, greetd, started, delivered, informed>>
signVars == <<boot, down, uiVars, bridgeVars>>

Someone == Accounts \cup {Nobody}
Lines == [say : {"HELLO", "CANCEL"}, who : {Nobody}] \cup [say : {"USER", "REPLY"}, who : Someone]
Told == {"READY", "LASTUSER", "PROMPT", "INFO", "ERROR", "FAILURE", "SUCCESS"}
NoGreetd == [user |-> Nobody, stage |-> "none"]

SignInTypeOK ==
    /\ boot \in {"off", "greeter", "live"}
    /\ up \in Seq(Lines) /\ down \in Seq(Told)
    /\ g_last \in Someone /\ named \in Someone
    /\ {g_last_mode, g_awaiting_secret, g_curtain, g_submit} \subseteq BOOLEAN
    /\ g_screen \in {"off", "on", "welcome", "closed"}
    /\ bridge \in {"off", "on", "done", "gone"}
    /\ session_user \in Someone /\ last_file \in Someone /\ started \in Someone
    /\ greetd \in [user : Someone, stage : {"none", "asking", "ready", "dead"}]
    /\ delivered \in Someone \X Someone /\ informed \in BOOLEAN

SignInInit ==
    /\ boot = "off" /\ up = <<>> /\ down = <<>> /\ g_last = Nobody /\ named = Nobody
    /\ g_last_mode = FALSE /\ g_awaiting_secret = FALSE /\ g_curtain = TRUE /\ g_submit = TRUE
    /\ g_screen = "off" /\ bridge = "off" /\ session_user = Nobody /\ last_file = Nobody
    /\ greetd = NoGreetd /\ started = Nobody /\ delivered = <<Nobody, Nobody>>
    /\ informed = FALSE

-----------------------------------------------------------------------------
(* The login screen.                                                       *)

send_line(say, who) == up' = Append(up, [say |-> say, who |-> who])

\* The screen says HELLO once its window exists; an account may be remembered
\* from before.
WinMain ==
    /\ boot = "off" /\ boot' = "greeter" /\ g_screen' = "on" /\ bridge' = "on"
    /\ last_file' \in Someone /\ send_line("HELLO", Nobody)
    /\ UNCHANGED <<down, g_last, g_last_mode, g_awaiting_secret, g_curtain, g_submit, named,
                   session_user, greetd, started, delivered, informed>>

lift_curtain ==
    /\ g_screen = "on" /\ g_curtain /\ g_curtain' = FALSE
    /\ UNCHANGED <<boot, down, up, g_last, g_last_mode, g_awaiting_secret, g_submit, g_screen, named, bridgeVars>>

\* Enter, at any time, or the button: with an account name u in the box.
submit(u) ==
    /\ g_screen = "on" /\ ~g_curtain /\ Len(up) + Len(down) < MaxAhead
    /\ g_awaiting_secret \/ ~g_last_mode
    /\ g_submit' = FALSE
    /\ IF g_awaiting_secret THEN send_line("REPLY", named) /\ UNCHANGED named
       ELSE send_line("USER", u) /\ named' = u
    /\ UNCHANGED <<boot, down, g_last, g_last_mode, g_awaiting_secret, g_curtain, g_screen, bridgeVars>>

\* "Other user".  (Variant: the sign-in begun is not ended.)
other_user_Quietly ==
    /\ g_screen = "on" /\ ~g_curtain /\ g_last_mode /\ g_last_mode' = FALSE
    /\ g_awaiting_secret' = FALSE /\ g_submit' = TRUE /\ named' = Nobody /\ UNCHANGED up
    /\ UNCHANGED <<boot, down, g_last, g_curtain, g_screen, bridgeVars>>
other_user ==
    /\ g_screen = "on" /\ ~g_curtain /\ g_last_mode /\ g_last_mode' = FALSE /\ Len(up) + Len(down) < MaxAhead
    /\ g_awaiting_secret' = FALSE /\ g_submit' = TRUE /\ named' = Nobody /\ send_line("CANCEL", Nobody)
    /\ UNCHANGED <<boot, down, g_last, g_curtain, g_screen, bridgeVars>>

\* What a line from the bridge does to the screen.
Shows(say) == g_screen = "on" /\ down # <<>> /\ Head(down) = say /\ down' = Tail(down)
              /\ UNCHANGED <<boot, g_curtain, bridgeVars>>

\* The account remembered is offered, and its password asked for at once.
on_LASTUSER ==
    /\ Shows("LASTUSER") /\ g_last' = last_file /\ g_last_mode' = TRUE /\ g_awaiting_secret' = FALSE
    /\ g_submit' = TRUE /\ named' = last_file /\ send_line("USER", last_file) /\ UNCHANGED g_screen

on_PROMPT ==
    /\ Shows("PROMPT") /\ g_awaiting_secret' = TRUE /\ g_submit' = TRUE
    /\ UNCHANGED <<up, g_last, g_last_mode, g_screen, named>>

\* With the last account, its password is asked for again.
on_FAILURE ==
    /\ Shows("FAILURE") /\ g_awaiting_secret' = FALSE /\ g_submit' = TRUE
    /\ IF g_last_mode THEN send_line("USER", g_last) /\ named' = g_last ELSE UNCHANGED <<up, named>>
    /\ UNCHANGED <<g_last, g_last_mode, g_screen>>

on_ERROR ==
    /\ Shows("ERROR") /\ g_submit' = TRUE
    /\ UNCHANGED <<up, g_last, g_last_mode, g_awaiting_secret, g_screen, named>>

on_INFO ==
    /\ Shows("INFO") \/ Shows("READY")
    /\ UNCHANGED <<up, g_last, g_last_mode, g_awaiting_secret, g_submit, g_screen, named>>

on_SUCCESS ==
    /\ Shows("SUCCESS") /\ g_screen' = "welcome"
    /\ UNCHANGED <<up, g_last, g_last_mode, g_awaiting_secret, g_submit, named>>

\* The bridge is gone and all its lines have been shown.
on_EOF ==
    /\ g_screen \in {"on", "welcome"} /\ (g_screen = "on" => down = <<>> /\ bridge \in {"done", "gone"})
    /\ g_screen' = "closed"
    /\ UNCHANGED <<boot, down, up, g_last, g_last_mode, g_awaiting_secret, g_curtain, g_submit, named, bridgeVars>>

handle_bridge_line ==
    on_LASTUSER \/ on_PROMPT \/ on_FAILURE \/ on_ERROR \/ on_INFO \/ on_SUCCESS \/ on_EOF

-----------------------------------------------------------------------------
(* The bridge, and greetd's answers.                                       *)

to_ui(say) == down' = Append(down, say)

\* handle_greetd_reply, for each answer greetd may give about u's session.
\* greetd asks for something, or PAM says something that is no question.
auth_message(u) ==
    /\ greetd' = [user |-> u, stage |-> "asking"] /\ UNCHANGED <<bridge, last_file, started>>
    /\ \/ to_ui("PROMPT") /\ UNCHANGED informed
       \/ (to_ui("INFO") \/ to_ui("ERROR")) /\ informed' = TRUE

\* PAM lets u in: the session is asked for, and starts, and the account named
\* last is remembered if the file can be written; or it does not start.
success(u) ==
    \/ /\ to_ui("SUCCESS") /\ started' = u /\ greetd' = NoGreetd /\ bridge' = "done"
       /\ last_file' \in {session_user', last_file} /\ UNCHANGED informed
    \/ /\ to_ui("FAILURE") /\ greetd' \in {NoGreetd, [user |-> u, stage |-> "ready"]}
       /\ UNCHANGED <<bridge, last_file, started, informed>>

\* An error is told, and whatever greetd still has is cancelled.
error ==
    to_ui("FAILURE") /\ greetd' = NoGreetd /\ UNCHANGED <<bridge, last_file, started, informed>>

\* greetd has gone: the answer does not come, or the question kills the bridge.
closed ==
    /\ greetd.stage = "dead" /\ UNCHANGED <<greetd, last_file, started, informed>>
    /\ (to_ui("ERROR") /\ UNCHANGED bridge) \/ (bridge' = "gone" /\ UNCHANGED down)

Reads(say) ==
    /\ bridge = "on" /\ up # <<>> /\ Head(up).say = say /\ up' = Tail(up)
    /\ UNCHANGED <<boot, g_last, g_last_mode, g_awaiting_secret, g_curtain, g_submit, g_screen, named>>

HELLO ==
    /\ Reads("HELLO") /\ down' = down \o <<"READY">> \o (IF last_file = Nobody THEN <<>> ELSE <<"LASTUSER">>)
    /\ UNCHANGED bridgeVars

USER ==
    /\ Reads("USER") /\ session_user' = Head(up).who /\ UNCHANGED delivered
    /\ \/ greetd.stage = "none" /\ (auth_message(Head(up).who) \/ success(Head(up).who) \/ error)
       \/ greetd.stage \in {"asking", "ready"} /\ error
       \/ closed

REPLY ==
    /\ Reads("REPLY") /\ UNCHANGED session_user
    /\ \/ /\ greetd.stage = "asking" /\ delivered' = <<Head(up).who, greetd.user>>
          /\ auth_message(greetd.user) \/ success(greetd.user) \/ error
       \/ greetd.stage \in {"none", "ready"} /\ error /\ UNCHANGED delivered
       \/ closed /\ UNCHANGED delivered

CANCEL ==
    /\ Reads("CANCEL") /\ UNCHANGED <<session_user, last_file, started, delivered, informed>>
    /\ IF greetd.stage = "dead" THEN bridge' \in {"on", "gone"} /\ UNCHANGED <<greetd, down>>
       ELSE greetd' = NoGreetd /\ UNCHANGED <<bridge, down>>

BridgeStep == HELLO \/ USER \/ REPLY \/ CANCEL

\* On the installation media: the live account and no screen.  Up to four
\* questions are answered with no password; what was begun is cancelled.
autologin ==
    /\ boot = "off" /\ boot' = "live"
    /\ \/ started' = Live /\ bridge' = "done"
       \/ bridge' = "gone" /\ UNCHANGED started
    /\ UNCHANGED <<down, uiVars, session_user, last_file, greetd, delivered, informed>>

GreetdDies ==
    /\ greetd.stage # "dead" /\ boot = "greeter" /\ started = Nobody
    /\ greetd' = [user |-> Nobody, stage |-> "dead"]
    /\ UNCHANGED <<boot, down, uiVars, bridge, session_user, last_file, started, delivered, informed>>

-----------------------------------------------------------------------------
SignInNext ==
    \/ WinMain \/ lift_curtain \/ other_user \/ handle_bridge_line \/ BridgeStep \/ autologin \/ GreetdDies
    \/ \E u \in Accounts : submit(u)

-----------------------------------------------------------------------------
(* Properties.                                                             *)

\* Accounts are not mixed up.  A password goes to greetd only for the account it
\* was typed for: lines are sent ahead of answers - Enter twice, "Other user"
\* while the prompt is on its way - and none of them lets it reach another
\* account's sign-in.  "The last account signed in here": what is remembered is
\* the account whose session was started, also when names, failures and
\* cancelled sign-ins went before in any order (remember_user, session_user).
AccountsNotMixed ==
    [][/\ delivered'[1] = delivered'[2]
       /\ last_file' # last_file => boot = "off" \/ last_file' = started']_signVars

\* After "Signing in..." the screen takes input again, or closes, whatever
\* greetd and PAM answer - unless PAM only said something.
ScreenComesBack == []<>(g_submit \/ g_screen = "closed" \/ informed)
=============================================================================
