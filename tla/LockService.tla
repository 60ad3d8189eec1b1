---------------------------- MODULE LockService -----------------------------
(***************************************************************************)
(* The lock service (sg-lockd) with the screen it starts (sg-greeter in    *)
(* lock or security-screen mode, started by sg-lock-ui) and the compositor *)
(* it watches.  The compositor is the only one that knows whether the      *)
(* session is locked; its events wait in the WATCH connection while the    *)
(* service, one thread, sleeps, checks a password or stops a screen.       *)
(***************************************************************************)
EXTENDS Naturals, Sequences

CONSTANTS Users,       \* owners of sessions on the seat
          NoUser,      \* nobody
          MayFail,     \* may pipe() or fork() fail in ui_start?
          MayRefuse,   \* may the compositor refuse a command?
          MaxEvents,   \* bound: events waiting on the WATCH connection
          MaxLines,    \* bound: lines waiting in each pipe of the screen
          MaxDeaths    \* bound: how often a screen dies by itself

ASSUME LockConstants ==
    /\ NoUser \notin Users /\ MayFail \in BOOLEAN /\ MayRefuse \in BOOLEAN
    /\ {MaxEvents, MaxLines, MaxDeaths} \subseteq Nat

VARIABLES
    comp,      \* comp[u]: the compositor of u's session
    evq,       \* events on the WATCH connection, not yet read
    linked,    \* that connection is open at the compositor's end
    at,        \* the service: where it is
    path,      \* g_control: whose control socket it names
    user,      \* whose session is watched
    ready,     \* pf[1].revents, as poll() left it
    todo,      \* the line being handled, or the screen to be put back
    ui,        \* ui.pid and ui.sas: "none", "lock", "sas"
    alive,     \* the screen's process lives
    uiout,     \* lines from it, not yet read
    uiin,      \* lines to it, not yet read
    hello,     \* it has said HELLO
    awaiting,  \* its g_awaiting_secret (or, at a security screen, a choice)
    pic,       \* ui.picture: a picture is staged for it
    left,      \* history: a staged picture was forgotten, not removed
    failed,    \* history: ui_start failed "never", "before", or last ("now")
    refused,   \* history: the compositor refused a command
    right,     \* history: whose right password was typed at this screen
    monitor,   \* the root monitor: "up" or "dead"
    deaths     \* how often a screen has died

screen == <<ui, alive, uiout, uiin, hello, awaiting, pic, left, failed, refused, right>>
seat   == <<comp, evq, linked>>
vars   == <<seat, at, path, user, ready, todo, screen, monitor, deaths>>

Lines == {"HELLO", "good", "bad", "lock", "other"}

TypeOK ==
    /\ comp \in [Users -> {"gone", "unlocked", "locked", "sas"}]
    /\ evq \in Seq({"locked", "unlocked", "sas", "eof"}) /\ linked \in BOOLEAN
    /\ at \in {"connect", "connecting", "poll", "event", "line", "check", "command", "restart"}
    /\ path \in Users \cup {NoUser} /\ user \in Users \cup {NoUser}
    /\ ready \in BOOLEAN /\ todo \in Lines \cup {"none", "sas"}
    /\ ui \in {"none", "lock", "sas"} /\ alive \in BOOLEAN
    /\ uiout \in Seq(Lines) /\ uiin \in Seq({"PROMPT", "FAILURE"})
    /\ hello \in BOOLEAN /\ awaiting \in BOOLEAN
    /\ pic \in BOOLEAN /\ left \in BOOLEAN /\ failed \in {"never", "before", "now"}
    /\ refused \in BOOLEAN
    /\ right \subseteq Users
    /\ monitor \in {"up", "dead"} /\ deaths \in 0..MaxDeaths
    /\ (user # NoUser <=> at \notin {"connect", "connecting"})
    /\ (ui = "none" => ~alive /\ uiout = <<>> /\ uiin = <<>>)

Init ==
    /\ comp = [u \in Users |-> "gone"] /\ evq = <<>> /\ linked = FALSE
    /\ at = "connect" /\ path = NoUser /\ user = NoUser /\ ready = FALSE /\ todo = "none"
    /\ ui = "none" /\ alive = FALSE /\ uiout = <<>> /\ uiin = <<>>
    /\ hello = FALSE /\ awaiting = FALSE /\ pic = FALSE /\ left = FALSE
    /\ failed = "never" /\ refused = FALSE /\ right = {}
    /\ monitor = "up" /\ deaths = 0

-----------------------------------------------------------------------------
(* The compositor.                                                         *)

\* u's compositor comes to state s; its watcher, if it has one, is told.
Becomes(u, s) ==
    /\ comp' = [comp EXCEPT ![u] = s]
    /\ evq' = IF linked /\ user = u /\ comp[u] # s
              THEN Append(evq, IF s = "gone" THEN "eof" ELSE s) ELSE evq
    /\ linked' = (linked /\ ~(user = u /\ s = "gone"))

\* A session begins, unlocked, on a seat with none; it ends or fails.
CompositorStarts(u) ==
    /\ \A v \in Users : comp[v] = "gone"
    /\ Becomes(u, "unlocked")
    /\ UNCHANGED <<at, path, user, ready, todo, screen, monitor, deaths>>

CompositorEnds(u) ==
    /\ comp[u] # "gone" /\ Becomes(u, "gone")
    /\ UNCHANGED <<at, path, user, ready, todo, screen, monitor, deaths>>

\* Win+L, LockWorkStation(), idle -- and Ctrl+Alt+Del.
Locks(u) ==
    /\ comp[u] \in {"unlocked", "sas"} /\ Len(evq) < MaxEvents /\ Becomes(u, "locked")
    /\ UNCHANGED <<at, path, user, ready, todo, screen, monitor, deaths>>

SecureAttention(u) ==
    /\ comp[u] = "unlocked" /\ Len(evq) < MaxEvents /\ Becomes(u, "sas")
    /\ UNCHANGED <<at, path, user, ready, todo, screen, monitor, deaths>>

-----------------------------------------------------------------------------
(* The screen: sg-lock-ui and the greeter.                                 *)

UiHello ==
    /\ alive /\ ~hello /\ hello' = TRUE
    /\ uiout' = Append(uiout, "HELLO")
    /\ awaiting' = (ui = "sas")
    /\ UNCHANGED <<seat, at, path, user, ready, todo, ui, alive, uiin, pic, left, failed, refused, right, monitor, deaths>>

\* handle_bridge_line: a prompt lets the password be typed; a failure takes
\* that back until the next prompt.
handle_bridge_line ==
    /\ alive /\ hello /\ uiin # <<>> /\ uiin' = Tail(uiin)
    /\ awaiting' = (Head(uiin) = "PROMPT")
    /\ UNCHANGED <<seat, at, path, user, ready, todo, ui, alive, uiout, hello, pic, left, failed, refused, right, monitor, deaths>>

\* submit: Enter sends what is in the box, also a second time.
submit(pw) ==
    /\ ui = "lock" /\ alive /\ awaiting
    /\ Len(uiout) < MaxLines /\ Len(uiin) < MaxLines
    /\ uiout' = Append(uiout, pw)
    /\ right' = IF pw = "good" THEN right \cup {user} ELSE right
    /\ UNCHANGED <<seat, at, path, user, ready, todo, ui, alive, uiin, hello, awaiting, pic, left, failed, refused, monitor, deaths>>

\* sas_choose: Lock, or one of the others; then its buttons are disabled.
sas_choose(choice) ==
    /\ ui = "sas" /\ alive /\ awaiting /\ awaiting' = FALSE
    /\ uiout' = Append(uiout, choice)
    /\ UNCHANGED <<seat, at, path, user, ready, todo, ui, alive, uiin, hello, pic, left, failed, refused, right, monitor, deaths>>

\* What it had written can still be read.
UiDies ==
    /\ alive /\ deaths < MaxDeaths
    /\ alive' = FALSE /\ deaths' = deaths + 1
    /\ UNCHANGED <<seat, at, path, user, ready, todo, ui, uiout, uiin, hello, awaiting, pic, left, failed, refused, right, monitor>>

-----------------------------------------------------------------------------
(* Starting and stopping it.                                               *)

NewPipes(u, a) ==
    /\ ui' = u /\ alive' = a /\ uiout' = <<>> /\ uiin' = <<>>
    /\ hello' = FALSE /\ awaiting' = FALSE /\ right' = {}

\* The user's picture is copied for the screen, if there is one to trust.
lockpic_stage == pic' \in BOOLEAN

\* Then the pipes or the fork may fail.  What is left of an earlier picture
\* is freed, and its file forgotten.
ui_start(kind) ==
    /\ lockpic_stage /\ left' = (left \/ (pic /\ ui = "none")) /\ UNCHANGED refused
    /\ \/ NewPipes(kind, TRUE) /\ failed' = IF failed = "now" THEN "before" ELSE failed
       \/ MayFail /\ NewPipes("none", FALSE) /\ failed' = "now"

\* Its pipes are closed, its processes killed, its picture removed -- when
\* there is one.  (Variant: what it wrote is kept.)
ui_stop_KeepsPipe ==
    /\ ui' = "none" /\ alive' = FALSE /\ pic' = (pic /\ ui = "none")
    /\ UNCHANGED <<uiout, uiin, hello, awaiting, left, failed, refused, right>>
ui_stop ==
    IF ui = "none" THEN UNCHANGED screen
    ELSE NewPipes("none", FALSE) /\ pic' = FALSE /\ UNCHANGED <<left, failed, refused>>

\* ui_send: to a screen that has died it is lost.
ui_send(lines) == uiin' = IF alive THEN uiin \o lines ELSE uiin

-----------------------------------------------------------------------------
(* The service.                                                            *)

find_session ==
    /\ at = "connect" /\ at' = "connecting"
    /\ \E u \in Users : comp[u] # "gone" /\ path' = u
    /\ UNCHANGED <<seat, user, ready, todo, screen, monitor, deaths>>

\* Connected, the session's owner is the compositor's, and WATCH is answered
\* with whether it is locked.
watch ==
    /\ at = "connecting"
    /\ \/ /\ comp[path] # "gone" /\ at' = "poll" /\ user' = path /\ linked' = TRUE
          /\ evq' = <<IF comp[path] = "locked" THEN "locked" ELSE "unlocked">>
       \/ comp[path] = "gone" /\ at' = "connect" /\ UNCHANGED <<user, linked, evq>>
    /\ UNCHANGED <<comp, path, ready, todo, screen, monitor, deaths>>

Readable == ui # "none" /\ (uiout # <<>> \/ ~alive)

poll ==
    /\ at = "poll" /\ (evq # <<>> \/ Readable)
    /\ ready' = Readable
    /\ at' = IF evq # <<>> THEN "event" ELSE "line"
    /\ UNCHANGED <<seat, path, user, todo, screen, monitor, deaths>>

\* Which screen an event calls for.  (Variant: Lock chosen at the security
\* screen does not replace it.)
Starts_KeepsSas(ev) == ev \in {"locked", "sas"} /\ ui = "none"
Starts(ev) == (ev = "locked" /\ ui \in {"none", "sas"}) \/ (ev = "sas" /\ ui = "none")
Stops(ev) == ev = "unlocked"

\* One event; then, if poll() saw the screen's pipe readable and there is a
\* screen (perhaps a new one by now), a line is read from it.
event ==
    /\ at = "event" /\ Head(evq) # "eof"
    /\ evq' = Tail(evq)
    /\ \/ Starts(Head(evq)) /\ ui_start(IF Head(evq) = "sas" THEN "sas" ELSE "lock")
       \/ Stops(Head(evq)) /\ ui_stop
       \/ ~Starts(Head(evq)) /\ ~Stops(Head(evq)) /\ UNCHANGED screen
    /\ at' = IF ui' # "none" /\ ready THEN "line" ELSE "poll"
    /\ UNCHANGED <<comp, linked, path, user, ready, todo, monitor, deaths>>

\* The compositor has gone.
watch_ends ==
    /\ at = "event" /\ Head(evq) = "eof"
    /\ at' = "connect" /\ user' = NoUser /\ evq' = <<>>
    /\ IF ui = "none"   \* a picture staged for a screen that did not start
       THEN pic' = FALSE /\ left' = (left \/ pic) /\ UNCHANGED <<ui, alive, uiout, uiin, hello, awaiting, failed, refused, right>>
       ELSE ui_stop
    /\ UNCHANGED <<comp, linked, path, ready, todo, monitor, deaths>>

\* ui_line: a choice becomes a command, HELLO is answered with a prompt, a
\* password is checked.
ui_line ==
    /\ at = "line" /\ uiout # <<>>
    /\ uiout' = Tail(uiout)
    /\ \/ /\ ui = "sas" /\ Head(uiout) \in {"lock", "other"}
          /\ at' = "command" /\ todo' = Head(uiout) /\ UNCHANGED uiin
       \/ /\ ui = "lock" /\ Head(uiout) \in {"good", "bad"}
          /\ at' = "check" /\ todo' = Head(uiout) /\ UNCHANGED uiin
       \/ /\ Head(uiout) = "HELLO"
          /\ ui_send(IF ui = "lock" THEN <<"PROMPT">> ELSE <<>>)
          /\ at' = "poll" /\ UNCHANGED todo
    /\ UNCHANGED <<seat, path, user, ready, ui, alive, hello, awaiting, pic, left, failed, refused, right, monitor, deaths>>

\* The pipe ended: the screen died.  It is put back a second later.
ui_died ==
    /\ at = "line" /\ uiout = <<>> /\ ~alive
    /\ todo' = ui /\ ui_stop /\ at' = "restart"
    /\ UNCHANGED <<seat, path, user, ready, monitor, deaths>>

\* (Variant: it is not put back.)
ui_restart_Not ==
    /\ at = "restart" /\ at' = "poll"
    /\ UNCHANGED <<seat, path, user, ready, todo, screen, monitor, deaths>>
ui_restart ==
    /\ at = "restart" /\ ui_start(todo) /\ at' = "poll"
    /\ UNCHANGED <<seat, path, user, ready, todo, monitor, deaths>>

\* A dead monitor accepts nothing.  (Variant: it refuses nothing.)
check_password_FailsOpen ==
    /\ at = "check"
    /\ \/ (todo = "good" \/ monitor = "dead") /\ at' = "command" /\ UNCHANGED uiin
       \/ todo = "bad" /\ monitor = "up" /\ ui_send(<<"FAILURE", "PROMPT">>) /\ at' = "poll"
    /\ UNCHANGED <<seat, path, user, ready, todo, ui, alive, uiout, hello, awaiting, pic, left, failed, refused, right, monitor, deaths>>
check_password ==
    /\ at = "check"
    /\ \/ /\ todo = "good" /\ monitor = "up" /\ at' = "command" /\ UNCHANGED uiin
       \/ /\ todo = "bad" \/ monitor = "dead"
          /\ ui_send(<<"FAILURE", "PROMPT">>) /\ at' = "poll"
    /\ UNCHANGED <<seat, path, user, ready, todo, ui, alive, uiout, hello, awaiting, pic, left, failed, refused, right, monitor, deaths>>

Refusable == comp[path] = "gone" \/ MayRefuse
Refuses == refused' = (refused \/ comp[path] # "gone")

\* UNLOCK, and what the compositor says to it.
unlock ==
    /\ at = "command" /\ todo \in {"good", "bad"} /\ at' = "poll"
    /\ \/ Refusable /\ ui_send(<<"FAILURE">>) /\ Refuses
          /\ UNCHANGED <<seat, ui, alive, uiout, hello, awaiting, pic, left, failed, right>>
       \/ comp[path] # "gone" /\ Becomes(path, "unlocked") /\ ui_stop
    /\ UNCHANGED <<path, user, ready, todo, monitor, deaths>>

\* LOCK, or SAS with another choice, which ends the security screen.
sas_command ==
    /\ at = "command" /\ todo \in {"lock", "other"} /\ at' = "poll"
    /\ \/ Refusable /\ UNCHANGED seat /\ Refuses
       \/ /\ comp[path] # "gone" /\ UNCHANGED refused
          /\ \/ todo = "lock" /\ Becomes(path, "locked")
             \/ todo = "other" /\ comp[path] = "sas" /\ Becomes(path, "unlocked")
             \/ todo = "other" /\ comp[path] # "sas" /\ UNCHANGED seat
    /\ UNCHANGED <<path, user, ready, todo, ui, alive, uiout, uiin, hello, awaiting, pic, left, failed, right,
                   monitor, deaths>>

MonitorDies ==
    /\ monitor = "up" /\ monitor' = "dead"
    /\ UNCHANGED <<seat, at, path, user, ready, todo, screen, deaths>>

Service == \/ find_session \/ watch \/ poll \/ event \/ watch_ends \/ ui_line \/ ui_died
           \/ ui_restart \/ check_password \/ unlock \/ sas_command

Next ==
    \/ Service \/ MonitorDies
    \/ \E u \in Users : CompositorStarts(u) \/ CompositorEnds(u) \/ Locks(u) \/ SecureAttention(u)
    \/ UiHello \/ handle_bridge_line \/ UiDies
    \/ \E pw \in {"good", "bad"} : submit(pw)
    \/ \E choice \in {"lock", "other"} : sas_choose(choice)

Spec == Init /\ [][Next]_vars

\* The service and the screen's program go on when they can; nobody need
\* lock, unlock or choose anything.
FairSpec == Spec /\ WF_vars(Service) /\ WF_vars(UiHello) /\ WF_vars(handle_bridge_line)

-----------------------------------------------------------------------------
(* What it promises.                                                       *)

\* A locked session is unlocked only after its owner's right password was
\* typed at the very lock screen that was up: not by a line an earlier
\* screen wrote, nor for the owner of an earlier session on the seat.
UnlockedByPassword ==
    [][\A u \in Users : comp[u] = "locked" /\ comp'[u] = "unlocked" => u \in right]_vars

\* When the service has read every event, what is on the screen is what the
\* compositor's state calls for, whatever happened while it slept, stopped a
\* screen, put one back or checked a password (unless one failed to start);
\* and a picture staged for a screen is removed with it, on every way out.
ScreenMatches ==
    /\ at = "poll" /\ evq = <<>> =>
          /\ comp[user] = "locked" => ui = "lock" \/ failed = "now"
          /\ comp[user] = "unlocked" => ui = "none"
          /\ comp[user] = "sas" => ui # "lock"
    /\ left => failed # "never"
    /\ pic => ui # "none" \/ failed = "now"

\* A screen has failed to start, or the compositor has refused a command.
Hindered == failed # "never" \/ refused

\* Unless it was hindered, a locked machine comes to ask for the password,
\* whichever screen was up, died or was being stopped when it was locked, and
\* an unlocked one comes to be free of screens.
ScreenFollows ==
    \A u \in Users :
        /\ []<>(comp[u] # "locked" \/ (user = u /\ ui = "lock" /\ alive /\ awaiting) \/ Hindered)
        /\ []<>(comp[u] # "unlocked" \/ ui = "none" \/ Hindered)

\* "At the lock screen the user is fixed and the service re-prompts": a lock
\* screen with nothing under way accepts a password.
ServiceReprompts ==
    at = "poll" /\ evq = <<>> /\ ui = "lock" /\ alive /\ hello /\ uiin = <<>> /\ uiout = <<>> => awaiting
=============================================================================
