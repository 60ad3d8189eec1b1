--------------------------- MODULE ConsentPrompt ----------------------------
(***************************************************************************)
(* The consent prompt itself (sg-consent): how it names the program before *)
(* it shows, and which keys, clicks and lines of the broker answer it once *)
(* it does.  Keys may be held down when it appears; the compositor then    *)
(* delivers their press again.  What the broker makes of its lines is in   *)
(* Broker.                                                                 *)
(***************************************************************************)
EXTENDS Naturals, FiniteSets

CONSTANTS PromptKeys,       \* the keys there are
          MaxDown,    \* bound: keys held down at once
          MaxCreds    \* bound: passwords submitted

AnswerKeys == {"Escape", "Enter", "AltY", "AltN"}

ASSUME PromptConstants ==
    /\ PromptKeys \subseteq AnswerKeys \cup {"Space", "Tab", "Y"}
    /\ MaxDown \in Nat /\ MaxCreds \in Nat

VARIABLES
    kind,        \* "admin" (Yes or No), "cred", "shadow"
    phase,       \* "describe", "early" (the first 250 ms), "late", "closed"
    program,     \* the program: "linux", "none", "system", "signed", "unsigned"
    checker,     \* describe_thread: "none", "start", "name", "publisher", "done"
    d,           \* its own description
    g_desc,      \* the prompt's
    down,        \* keys held down
    stale,       \* of those, the ones held since before the prompt appeared
    g_armed,
    focus,       \* "yes", "no", "user"
    pushed,      \* the button that Space pushed down
    g_done, g_waiting,
    by,          \* history: the key that gave the verdict, stale or not
    verdict,     \* the verdict sent
    creds,       \* passwords sent
    failures,    \* FAILUREs read
    broker       \* the broker's end: "open" or "gone"

promptVars == <<kind, phase, program, checker, d, g_desc, down, stale, g_armed, focus, pushed,
                g_done, g_waiting, by, verdict, creds, failures, broker>>
description == <<kind, program, checker, d, g_desc>>
answer == <<g_done, g_waiting, by, verdict, creds>>

Described == [name : {"file", "own"}, publisher : {"none", "system", "verified", "unknown"}]

PromptTypeOK ==
    /\ kind \in {"admin", "cred", "shadow"} /\ phase \in {"describe", "early", "late", "closed"}
    /\ program \in {"linux", "none", "system", "signed", "unsigned"}
    /\ checker \in {"none", "start", "name", "publisher", "done"} /\ {d, g_desc} \subseteq Described
    /\ stale \subseteq PromptKeys /\ down \subseteq PromptKeys
    /\ g_armed \in AnswerKeys \cup {"none"} /\ focus \in {"yes", "no", "user"} /\ pushed \in {"yes", "no", "none"}
    /\ g_done \in BOOLEAN /\ g_waiting \in BOOLEAN /\ broker \in {"open", "gone"}
    /\ by \in [key : PromptKeys \cup {"none"}, fresh : BOOLEAN]
    /\ verdict \in {"none", "ALLOW", "DENY"} /\ creds \in 0..MaxCreds /\ failures \in 0..MaxCreds

PromptInit ==
    /\ kind = "admin" /\ phase = "closed" /\ program = "none" /\ checker = "none"
    /\ d = [name |-> "file", publisher |-> "none"] /\ g_desc = d
    /\ down = {} /\ stale = {} /\ g_armed = "none" /\ focus = "no" /\ pushed = "none"
    /\ g_done = FALSE /\ g_waiting = FALSE /\ by = [key |-> "none", fresh |-> TRUE] /\ verdict = "none"
    /\ creds = 0 /\ failures = 0 /\ broker = "open"

-----------------------------------------------------------------------------
(* Before it shows.                                                        *)

\* parse_cmdline; some keys are held down.
Starts(m, f, held) ==
    /\ phase = "closed" /\ ~g_done /\ verdict = "none"
    /\ kind' = m /\ program' = f /\ down' = held /\ stale' = held
    /\ phase' = "describe" /\ checker' = (IF f = "linux" THEN "done" ELSE "start")
    /\ focus' = (IF m = "cred" THEN "user" ELSE "no")
    /\ UNCHANGED <<d, g_desc, g_armed, pushed, answer, failures, broker>>

\* The checker looks for the file, its place, its signature, and only then for
\* what it says of itself -- as slowly as the disk allows.
Trusted(f) == f = "signed"
describe_thread ==
    /\ phase = "describe"
    /\ \/ /\ checker = "start" /\ checker' = (IF program = "none" THEN "done" ELSE "name") /\ UNCHANGED d
       \/ /\ checker = "name" /\ checker' = (IF Trusted(program) THEN "publisher" ELSE "done")
          /\ d' = [d EXCEPT !.publisher = CASE program = "system" -> "system" [] Trusted(program) -> "verified"
                                            [] OTHER -> "unknown"]
       \/ /\ checker = "publisher" /\ checker' = "done"
          /\ d' \in {d, [d EXCEPT !.name = "own"]}
    /\ UNCHANGED <<kind, phase, program, g_desc, down, stale, g_armed, focus, pushed, answer, failures, broker>>

\* The wait is over: the checker is done, or half a minute has passed, and
\* from then on it writes to a copy nobody looks at; or it could not start.
describe_program ==
    /\ phase = "describe" /\ phase' = "early"
    /\ \/ g_desc' = IF checker = "done" THEN d ELSE [g_desc EXCEPT !.publisher = "unknown"]
       \/ checker = "start" /\ UNCHANGED g_desc
    /\ checker' = "none" /\ UNCHANGED <<kind, program, d>>
    /\ UNCHANGED <<down, stale, g_armed, focus, pushed, answer, failures, broker>>

\* 250 ms have passed since: every press the compositor had to deliver again
\* has been read by then.
Settles ==
    /\ phase = "early" /\ phase' = "late"
    /\ UNCHANGED <<description, down, stale, g_armed, focus, pushed, answer, failures, broker>>

-----------------------------------------------------------------------------
(* Answers.                                                                *)

Cause(k) == [key |-> k, fresh |-> k \notin stale]

finish(v, k) ==
    IF g_done THEN UNCHANGED answer
    ELSE /\ g_done' = TRUE /\ verdict' = v /\ by' = Cause(k)
         /\ UNCHANGED <<g_waiting, creds>>

Held == g_done \/ g_waiting
submit_yes(k) ==
    IF Held THEN UNCHANGED answer
    ELSE IF kind # "cred" THEN finish("ALLOW", k)
    ELSE \/ /\ creds < MaxCreds /\ creds' = creds + 1 /\ g_waiting' = TRUE
            /\ UNCHANGED <<g_done, by, verdict>>
         \/ UNCHANGED answer           \* no name, or a password with a tab

\* The window closes when what finish() posted is read.
Up == phase \in {"early", "late"}

\* (Variant: no wait for the keys delivered again.)
Arms_AtOnce(k, repeat) == k \in AnswerKeys /\ ~repeat
Arms(k, repeat) == k \in AnswerKeys /\ ~repeat /\ phase = "late"

\* Once there is a verdict no key does anything; until then --
\* a press: an answer key arms itself, Tab moves the focus, Space pushes the
\* button that has it, a bare letter does nothing.
KeyDown(k, repeat) ==
    /\ g_armed' = IF Arms(k, repeat) THEN k ELSE g_armed
    /\ focus' = IF k = "Tab"
                THEN CASE focus = "user" -> "yes" [] focus = "yes" -> "no"
                       [] OTHER -> IF kind = "cred" THEN "user" ELSE "yes"
                ELSE focus
    /\ pushed' = CASE k = "Tab" -> "none" [] k = "Space" /\ focus # "user" -> focus [] OTHER -> pushed

\* A release: the armed key answers, and a button pushed by Space is clicked.
KeyUp(k) ==
    /\ g_armed' = IF k = g_armed THEN "none" ELSE g_armed
    /\ pushed' = IF k = "Space" THEN "none" ELSE pushed
    /\ CASE k = g_armed /\ k \in {"Escape", "AltN"} -> finish("DENY", k)
         [] k = g_armed /\ k = "AltY" -> submit_yes(k)
         [] k = g_armed /\ k = "Enter" -> IF focus = "no" THEN finish("DENY", k) ELSE submit_yes(k)
         [] k = "Space" /\ pushed = "no" -> finish("DENY", k)
         [] k = "Space" /\ pushed = "yes" -> submit_yes(k)
         [] OTHER -> UNCHANGED answer

\* The compositor delivers a held key's press again, early.
Redelivered(k) ==
    /\ phase = "early" /\ k \in stale \cap down /\ KeyDown(k, FALSE)
    /\ UNCHANGED <<description, phase, down, stale, answer, failures, broker>>

Pressed(k) ==
    /\ Up /\ ~g_done /\ k \notin down /\ Cardinality(down) < MaxDown /\ KeyDown(k, FALSE)
    /\ down' = down \cup {k} /\ stale' = stale \ {k}
    /\ UNCHANGED <<description, phase, answer, failures, broker>>

Repeats(k) ==
    /\ Up /\ ~g_done /\ k \in down /\ KeyDown(k, TRUE)
    /\ UNCHANGED <<description, phase, down, stale, answer, failures, broker>>

Released(k) ==
    /\ Up /\ ~g_done /\ k \in down /\ KeyUp(k)
    /\ down' = down \ {k} /\ stale' = stale \ {k}
    /\ UNCHANGED <<description, phase, focus, failures, broker>>

\* WM_COMMAND of a click, and WM_CLOSE: without a verdict it is a No.
Clicks(button) ==
    /\ Up /\ IF button = "yes" THEN submit_yes("none") ELSE finish("DENY", "none")
    /\ UNCHANGED <<description, phase, down, stale, g_armed, focus, pushed, failures, broker>>

CloseWindow ==
    /\ Up
    /\ \/ ~g_done /\ finish("DENY", "none") /\ UNCHANGED phase
       \/ g_done /\ phase' = "closed" /\ UNCHANGED answer
    /\ UNCHANGED <<description, down, stale, g_armed, focus, pushed, failures, broker>>

\* FAILURE, DONE, or the end of the pipe: then nothing can be granted.
handle_broker_line ==
    /\ Up /\ broker = "open"
    /\ \/ /\ failures < creds /\ failures' = failures + 1 /\ focus' = "user" /\ pushed' = "none"
          /\ g_waiting' = FALSE /\ UNCHANGED <<g_done, by, verdict, creds, broker>>
       \/ /\ failures < creds /\ g_done' = TRUE
          /\ UNCHANGED <<g_waiting, by, verdict, creds, failures, broker, focus, pushed>>
       \/ /\ broker' = "gone" /\ g_done' = TRUE
          /\ UNCHANGED <<g_waiting, by, verdict, creds, failures, focus, pushed>>
    /\ UNCHANGED <<description, phase, down, stale, g_armed>>

PromptNext ==
    \/ \E m \in {"admin", "cred", "shadow"}, f \in {"linux", "none", "system", "signed", "unsigned"},
          held \in {h \in SUBSET PromptKeys : Cardinality(h) <= MaxDown} : Starts(m, f, held)
    \/ describe_thread \/ describe_program \/ Settles \/ CloseWindow \/ handle_broker_line
    \/ \E k \in PromptKeys : Redelivered(k) \/ Pressed(k) \/ Repeats(k) \/ Released(k)
    \/ \E b \in {"yes", "no"} : Clicks(b)

-----------------------------------------------------------------------------
(* What it promises.                                                       *)

\* What the prompt sends was meant, and what it shows was verified.  An answer
\* key that was down when it appeared does not answer it, however it is
\* delivered again, repeated or released; the broker is never given a second
\* password while it checks the first, and what is allowed is allowed without
\* one.  "What it says about itself is not trusted": the program's own
\* description is shown only next to the publisher it was verified for, however
\* late its check comes to an end.
ShownAndMeant ==
    /\ by.key \in AnswerKeys => by.fresh
    /\ creds <= failures + 1 /\ (verdict = "ALLOW" => creds = 0)
    /\ phase # "describe" => (g_desc.name = "own" => program = "signed" /\ g_desc.publisher = "verified")
=============================================================================
