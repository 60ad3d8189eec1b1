------------------------------ MODULE Keyring -------------------------------
(***************************************************************************)
(* A person's sign-in password and the login keyring encrypted with it:    *)
(* sg-keyring-first makes the keyring at the first sign-in, a change by    *)
(* the person themselves (sg-password-change) takes it along, an           *)
(* administrator's reset does not, and sg-keyring recovers it or starts a  *)
(* new one.  The three programs run beside one another, and the person may *)
(* sign in or out between any two of their steps.                          *)
(***************************************************************************)
EXTENDS Naturals, FiniteSets

CONSTANTS Passwords,     \* the passwords people choose or mistype
          MaxClock,      \* bound: seconds that pass
          MaxAtOnce,     \* bound: of a sign-in, a change and a recovery, those in progress
          Hurried        \* may two resets of the keyring fall into one second

ASSUME KeyringConstants == Passwords # {} /\ MaxClock \in Nat /\ MaxAtOnce \in Nat /\ Hurried \in BOOLEAN

VARIABLES
    password,    \* the sign-in password
    key, holds,  \* login.keyring: its key, and what it holds ("nothing": no such file)
    kept,        \* login.keyring.before-reset-DATE, by the second in DATE
    clock,
    session,     \* the session: "out" or "in"
    ring,        \* its keyring daemon: "none", "locked", "open", "unlisted", "gone"
    step,        \* where a sign-in (sg-keyring-first in it), sg-password-change and sg-keyring are
    typed, other,\* the password each was given as the current one; the new or the old one
    helper,      \* the private keyring daemon of sg-keyring-first and of sg-password-change
    private,     \* those of the two that have a private runtime directory
    behind,      \* history: a new password was set where the keyring could not follow
    overlap,     \* history: two of the programs ran at once
    secrets      \* history: "stored" once the person has stored some

login == <<key, holds>>
jobs == <<step, typed, other>>
privately == <<helper, private>>
history == <<behind, overlap, secrets>>
keyringVars == <<password, login, kept, clock, session, ring, jobs, privately, history>>

Programs2 == {"first", "change"}
Jobs == {"signin", "change", "tool"}
Steps == {"idle", "look", "made", "wait", "stop", "open", "private", "unix", "follow", "clean",
          "recover", "reset", "change", "unlock", "move", "settle", "create"}
Typed == Passwords \cup {""}
Contents == {"nothing", "empty", "full"}
There == holds # "nothing"

KeyringTypeOK ==
    /\ password \in Passwords /\ key \in Typed /\ holds \in Contents
    /\ clock \in 0..MaxClock /\ kept \in [0..MaxClock -> Contents]
    /\ session \in {"out", "in"} /\ ring \in {"none", "locked", "open", "unlisted", "gone"}
    /\ step \in [Jobs -> Steps] /\ typed \in [Jobs -> Typed] /\ other \in [Jobs -> Typed]
    /\ helper \in [Programs2 -> {"none", "starting", "up", "dead"}] /\ private \subseteq Programs2
    /\ behind \in BOOLEAN /\ overlap \in BOOLEAN /\ secrets \in {"none", "stored"}

KeyringInit ==
    /\ password = (CHOOSE p \in Passwords : TRUE) /\ key = "" /\ holds = "nothing"
    /\ kept = [s \in 0..MaxClock |-> "nothing"] /\ clock = 0 /\ session = "out" /\ ring = "gone"
    /\ step = [j \in Jobs |-> "idle"] /\ typed = [j \in Jobs |-> ""] /\ other = [j \in Jobs |-> ""]
    /\ helper = [p \in Programs2 |-> "none"] /\ private = {}
    /\ behind = FALSE /\ overlap = FALSE /\ secrets = "none"

-----------------------------------------------------------------------------
(* What the three programs share.                                          *)

InProgress == {j \in Jobs : step[j] # "idle"}

\* A program starts at a step with what was typed, goes on, and ends.
Begins(j, where, c, o) ==
    /\ step[j] = "idle" /\ Cardinality(InProgress) < MaxAtOnce /\ overlap' = (overlap \/ InProgress # {})
    /\ step' = [step EXCEPT ![j] = where] /\ typed' = [typed EXCEPT ![j] = c] /\ other' = [other EXCEPT ![j] = o]
Proceeds(j, where) == step' = [step EXCEPT ![j] = where] /\ UNCHANGED <<typed, other>>
Finishes(j) ==
    step' = [step EXCEPT ![j] = "idle"] /\ typed' = [typed EXCEPT ![j] = ""] /\ other' = [other EXCEPT ![j] = ""]

\* A new, empty keyring.
Makes(k) == key' = k /\ holds' = "empty"
Helper(p, s) == helper' = [helper EXCEPT ![p] = s]

\* kill and waitpid; then remove_runtime.
kill_helper(p) == Helper(p, "none")
remove_runtime(p) == private' = private \ {p}

\* A daemon asked to make or to serve the keyring gets there, dies, or hangs.
HelperRuns(p) ==
    /\ helper[p] = "starting"
    /\ \/ Helper(p, "dead") /\ UNCHANGED login
       \/ Helper(p, "up") /\ p = "first" /\ ~There /\ Makes(typed["signin"])
       \/ Helper(p, "up") /\ (p # "first" \/ There) /\ UNCHANGED login
    /\ UNCHANGED <<password, kept, clock, session, ring, jobs, private, history>>

-----------------------------------------------------------------------------
(* Signing in and out, and what an administrator does.                     *)

PersonSignsIn ==
    /\ session = "out" /\ Begins("signin", "look", password, "")
    /\ UNCHANGED <<password, login, kept, clock, session, ring, privately, behind, secrets>>

\* sg-keyring-first: a keyring is made only where there is none, and only if
\* there is a password and a directory to be had.
first_look ==
    /\ step["signin"] = "look"
    /\ \/ ~There /\ private' = private \cup {"first"} /\ Proceeds("signin", "made")
       \/ UNCHANGED private /\ Proceeds("signin", "open")
    /\ UNCHANGED <<password, login, kept, clock, session, ring, helper, history>>

\* chown, pipe, fork: each may fail.
first_make ==
    /\ step["signin"] = "made"
    /\ \/ Helper("first", "starting") /\ UNCHANGED private /\ Proceeds("signin", "wait")
       \/ UNCHANGED helper /\ remove_runtime("first") /\ Proceeds("signin", "open")
    /\ UNCHANGED <<password, login, kept, clock, session, ring, history>>

\* Up to 10 s, until the keyring is there or the daemon is gone: the wait may
\* end at any time, and the daemon is killed whatever it has done.
first_wait ==
    /\ step["signin"] = "wait" /\ kill_helper("first")
    /\ Proceeds("signin", "stop")
    /\ UNCHANGED <<password, login, kept, clock, session, ring, private, history>>

first_remove ==
    /\ step["signin"] = "stop" /\ remove_runtime("first") /\ Proceeds("signin", "open")
    /\ UNCHANGED <<password, login, kept, clock, session, ring, helper, history>>

\* pam_gnome_keyring gives the session's daemon the password; a keyring that
\* it has to make itself it does not publish.
SessionOpens ==
    /\ step["signin"] = "open" /\ session' = "in" /\ Finishes("signin")
    /\ \/ There /\ ring' = (IF key = typed["signin"] THEN "open" ELSE "locked") /\ UNCHANGED login
       \/ ~There /\ ring' = "unlisted" /\ Makes(typed["signin"])
    /\ UNCHANGED <<password, kept, clock, privately, history>>

PersonSignsOut ==
    /\ session = "in" /\ session' = "out" /\ ring' = "gone"
    /\ UNCHANGED <<password, login, kept, clock, jobs, privately, history>>

Stores ==
    /\ ring = "open" /\ There /\ holds' = "full" /\ secrets' = "stored"
    /\ UNCHANGED <<password, key, kept, clock, session, ring, jobs, privately, behind, overlap>>

\* The session's daemon sees that the file was moved away.
DaemonSees ==
    /\ ring \in {"open", "locked", "unlisted"} /\ ~There /\ ring' = "none"
    /\ UNCHANGED <<password, login, kept, clock, session, jobs, privately, history>>

chpasswd_reset(p) ==
    /\ p # password /\ password' = p /\ behind' = TRUE /\ overlap' = (overlap \/ InProgress # {})
    /\ UNCHANGED <<login, kept, clock, session, ring, jobs, privately, secrets>>

\* Time matters once a keyring was put aside in this second.
SecondPasses ==
    /\ clock < MaxClock /\ kept[clock] # "nothing" /\ clock' = clock + 1
    /\ UNCHANGED <<password, login, kept, session, ring, jobs, privately, history>>

-----------------------------------------------------------------------------
(* sg-password-change.                                                     *)

password_change(c, n) ==
    /\ n # c /\ Begins("change", "look", c, n)
    /\ UNCHANGED <<password, login, kept, clock, session, ring, privately, behind, secrets>>

\* Malformed, no such account, root, or no identity: refused at once.
refused ==
    /\ step["change"] = "look" /\ Finishes("change")
    /\ UNCHANGED <<password, login, kept, clock, session, ring, privately, history>>

\* The person's own control socket, or a private directory -- if it can be had.
control_socket ==
    /\ step["change"] = "look"
    /\ \/ session = "in" /\ UNCHANGED private /\ Proceeds("change", "unix")
       \/ session = "out" /\ private' = private \cup {"change"} /\ Proceeds("change", "private")
       \/ session = "out" /\ UNCHANGED private /\ Proceeds("change", "unix")
    /\ UNCHANGED <<password, login, kept, clock, session, ring, helper, history>>

\* fork may fail; then the wait for the socket.
start_daemon ==
    /\ step["change"] = "private"
    /\ \/ Helper("change", "starting") /\ Proceeds("change", "wait")
       \/ UNCHANGED helper /\ Proceeds("change", "unix")
    /\ UNCHANGED <<password, login, kept, clock, session, ring, private, history>>

\* Again up to 10 s; a daemon that is not up by then is killed.
daemon_wait ==
    /\ step["change"] = "wait" /\ Proceeds("change", "unix")
    /\ \/ helper["change"] = "up" /\ UNCHANGED helper
       \/ helper["change"] # "up" /\ kill_helper("change")
    /\ UNCHANGED <<password, login, kept, clock, session, ring, private, history>>

\* pam_chauthtok, first pam_unix: it refuses a wrong current password, and
\* may refuse the new one or be unable to write it.  (Variant: the answers
\* are wiped before it asks for them.)
pam_unix_Wiped ==
    /\ step["change"] = "unix" /\ password' = "" /\ Proceeds("change", "follow")
    /\ UNCHANGED <<login, kept, clock, session, ring, privately, history>>
pam_unix ==
    /\ step["change"] = "unix"
    /\ \/ typed["change"] = password /\ password' = other["change"] /\ Proceeds("change", "follow")
       \/ UNCHANGED password /\ Proceeds("change", "clean")
    /\ UNCHANGED <<login, kept, clock, session, ring, privately, history>>

\* Then pam_gnome_keyring, through whichever daemon answers in the directory
\* it was given; none does if the person signed out meanwhile or the private
\* daemon did not start.
Reached == IF "change" \in private THEN helper["change"] = "up" ELSE session = "in"
pam_gnome_keyring ==
    LET follows == Reached /\ There /\ key = typed["change"] IN
    /\ step["change"] = "follow" /\ Proceeds("change", "clean")
    /\ key' = (IF follows THEN other["change"] ELSE key) /\ UNCHANGED holds
    /\ ring' = (IF follows /\ ring = "locked" /\ "change" \notin private THEN "open" ELSE ring)
    /\ behind' = (behind \/ ("change" \notin private /\ session = "out")
                         \/ ("change" \in private /\ helper["change"] # "up"))
    /\ UNCHANGED <<password, kept, clock, session, privately, overlap, secrets>>

\* After the answer: the private daemon is stopped, its directory removed.
clean_up ==
    /\ step["change"] = "clean" /\ kill_helper("change") /\ remove_runtime("change") /\ Finishes("change")
    /\ UNCHANGED <<password, login, kept, clock, session, ring, history>>

-----------------------------------------------------------------------------
(* sg-keyring recover and reset, in the session.                           *)

sg_keyring(cmd, c, o) ==
    /\ session = "in" /\ o # c /\ Begins("tool", cmd, c, o)
    /\ cmd = "reset" => Hurried \/ kept[clock] = "nothing"
    /\ UNCHANGED <<password, login, kept, clock, session, ring, privately, behind, secrets>>

\* PAM says whether the password typed is the current one.
\* (Variant: it is taken as typed.)
password_is_current_Any(p) == TRUE
password_is_current(p) == p = password
check ==
    /\ \/ step["tool"] = "recover" /\ password_is_current(typed["tool"]) /\ Proceeds("tool", "change")
       \/ step["tool"] = "reset" /\ password_is_current(typed["tool"]) /\ Proceeds("tool", "move")
       \/ step["tool"] \in {"recover", "reset"} /\ ~password_is_current(typed["tool"]) /\ Finishes("tool")
    /\ UNCHANGED <<password, login, kept, clock, session, ring, privately, history>>

\* ChangeWithMasterPassword, then UnlockWithMasterPassword; the service may
\* answer neither.
recover_change ==
    /\ step["tool"] = "change"
    /\ \/ /\ session = "in" /\ There /\ key = other["tool"]
          /\ key' = typed["tool"] /\ behind' = FALSE /\ Proceeds("tool", "unlock")
       \/ UNCHANGED <<key, behind>> /\ Finishes("tool")
    /\ UNCHANGED <<password, holds, kept, clock, session, ring, privately, overlap, secrets>>

recover_unlock ==
    /\ step["tool"] = "unlock" /\ Finishes("tool")
    /\ \/ session = "in" /\ There /\ key = typed["tool"] /\ ring' = "open"
       \/ UNCHANGED ring
    /\ UNCHANGED <<password, login, kept, clock, session, privately, history>>

\* The old file is moved aside, under a name that holds the second, if there
\* is one; that may fail.
Aside == IF There THEN [kept EXCEPT ![clock] = holds] ELSE kept
reset_move ==
    /\ step["tool"] = "move"
    /\ \/ kept' = Aside /\ key' = "" /\ holds' = "nothing" /\ Proceeds("tool", "settle")
       \/ There /\ UNCHANGED <<kept, login>> /\ Finishes("tool")
    /\ UNCHANGED <<password, clock, session, ring, privately, history>>

\* Up to 5 s for the daemon to let the old one go.
reset_settle ==
    /\ step["tool"] = "settle" /\ Proceeds("tool", "create")
    /\ UNCHANGED <<password, login, kept, clock, session, ring, privately, history>>

\* CreateWithMasterPassword, which may fail; while the daemon still has a
\* login keyring the new one gets another name.
reset_create ==
    /\ step["tool"] = "create" /\ Finishes("tool")
    /\ \/ session = "in" /\ ring = "none" /\ ~There /\ Makes(typed["tool"]) /\ ring' = "open" /\ behind' = FALSE
       \/ UNCHANGED <<login, ring, behind>>
    /\ UNCHANGED <<password, kept, clock, session, privately, overlap, secrets>>

-----------------------------------------------------------------------------
FirstStep == first_look \/ first_make \/ first_wait \/ first_remove \/ SessionOpens
ChangeStep == control_socket \/ start_daemon \/ daemon_wait \/ pam_unix \/ pam_gnome_keyring \/ clean_up
ToolStep == check \/ recover_change \/ recover_unlock \/ reset_move \/ reset_settle \/ reset_create

KeyringNext ==
    \/ FirstStep \/ ChangeStep \/ ToolStep \/ refused
    \/ PersonSignsIn \/ PersonSignsOut \/ Stores \/ DaemonSees \/ SecondPasses
    \/ \E p \in Programs2 : HelperRuns(p)
    \/ \E c \in Passwords : chpasswd_reset(c)
    \/ \E c, n \in Passwords : password_change(c, n) \/ sg_keyring("recover", c, n)
    \/ \E c \in Passwords : sg_keyring("reset", c, "")

-----------------------------------------------------------------------------
(* What it promises.                                                       *)

\* As long as the programs do not overlap, a keyring that no reset and no
\* unanswered daemon left behind has the sign-in password for its key
\* whenever nothing is in progress, through first sign-ins that failed,
\* changes made signed in and signed out, and recoveries with a slip in them.
KeyringFollows ==
    ~overlap /\ ~behind /\ InProgress = {} /\ There => key = password

\* Secrets once stored are in the keyring or in one put aside: neither a
\* later sign-in that finds no daemon nor any number of resets deletes them.
SecretsKept ==
    secrets = "stored" => holds = "full" \/ \E s \in DOMAIN kept : kept[s] = "full"

\* When a sign-in and a change are over, on whichever path, no private
\* daemon of theirs runs and no private directory remains.
NoHelperLeft ==
    /\ step["signin"] \in {"idle", "open"} => helper["first"] = "none" /\ "first" \notin private
    /\ step["change"] = "idle" => helper["change"] = "none" /\ "change" \notin private

\* Sign-ins, changes, recoveries and resets leave the keyring with its password,
\* lose no secret and leave nothing behind.
KeyringSound == KeyringFollows /\ SecretsKept /\ NoHelperLeft

\* A sign-in ends although the keyring daemon started for it hangs.
SignInGoesOn == []<>(step["signin"] = "idle")
=============================================================================
