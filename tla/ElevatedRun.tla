---------------------------- MODULE ElevatedRun -----------------------------
(***************************************************************************)
(* An elevated program, from the broker's fork to the requester's exit     *)
(* code.  Five processes: the requester (sg-elevate), the broker's child   *)
(* that answers it, sg-elevated-run, the X server it starts, and the       *)
(* program with whatever it leaves running -- among that, perhaps, one     *)
(* that itself waits for the requester to end (Inno Setup's second phase). *)
(***************************************************************************)
EXTENDS Naturals, Sequences

CONSTANTS Codes,    \* exit codes programs use (32 bits on Windows)
          NoCode,   \* none
          Kids,     \* processes the program may leave running
          Waiters   \* those of them that wait for the requester to end

ASSUME CodesAssumption == Codes \subseteq Nat /\ NoCode \notin Nat /\ Waiters \subseteq Kids

Killed == 137       \* 128 + SIGKILL, what a waiting parent makes of it
\* (Variant: success until the program says otherwise.)
NoDisplay_Zero == 0
NoDisplay == 125
NoProgram == 127

VARIABLES
    surface,  \* is there a compositor (or does the program run with no display)?
    child,    \* the broker's child: "start", "fork", "read", "wait", "gone"
    conn,     \* what it wrote to the requester: "launched" (0), a code
    pipe,     \* the status pipe: "none", "open", "closed" (no writer left)
    told,     \* the code on it
    run,      \* sg-elevated-run: where it is
    rcode,    \* its exit status
    x,        \* the X server: "none", "forked", "starting", "up", "dead" -- or
              \* "ended", once it had been up
    term,     \* it was sent SIGTERM
    dir,      \* the directory with the display's cookie: "none", "made", or
              \* "stuck" with a cookie that could not be written
    prog,     \* the program: "none", "running", "zombie", "reaped"
    exit,     \* the code it ended with
    kids,     \* kids[k]: "unborn", "alive" or "ended"
    client,   \* sg-elevate: "asking", "waiting", "ended", "killed"
    code,     \* its exit status
    lost      \* history: the status pipe could not be made or written

display == <<x, term, dir>>
program == <<prog, exit, kids>>
answering == <<child, conn>>
runVars == <<surface, answering, pipe, told, run, rcode, display, program, client, code, lost>>

Byte == 0..255
Runs == {"none", "setup", "handover", "forkx", "display", "start", "wait", "reap", "exited", "killed"}

RunTypeOK ==
    /\ surface \in BOOLEAN /\ lost \in BOOLEAN /\ term \in BOOLEAN /\ dir \in {"none", "made", "stuck"}
    /\ child \in {"start", "fork", "read", "wait", "gone"}
    /\ conn \in Seq(Byte) /\ Len(conn) <= 2
    /\ pipe \in {"none", "open", "closed"} /\ told \in Byte \cup {NoCode}
    /\ run \in Runs /\ rcode \in Byte \cup {NoCode}
    /\ x \in {"none", "forked", "starting", "up", "dead", "ended"}
    /\ prog \in {"none", "running", "zombie", "reaped"} /\ exit \in Codes \cup {Killed, NoProgram, NoCode}
    /\ kids \in [Kids -> {"unborn", "alive", "ended"}]
    /\ client \in {"asking", "waiting", "ended", "killed"} /\ code \in Byte \cup {NoCode}

\* The broker has the consent and has forked: launch's first child runs.
RunInit ==
    /\ surface \in BOOLEAN
    /\ child = "start" /\ conn = <<>> /\ pipe = "none" /\ told = NoCode
    /\ run = "none" /\ rcode = NoCode
    /\ x = "none" /\ term = FALSE /\ dir = "none"
    /\ prog = "none" /\ exit = NoCode /\ kids = [k \in Kids |-> "unborn"]
    /\ client = "asking" /\ code = NoCode /\ lost = FALSE

-----------------------------------------------------------------------------
(* The broker's child (launch, program_code).                              *)

\* An exit status has eight bits.  (Variant: all 32.)
WEXITSTATUS_Wide(w) == w
WEXITSTATUS(w) == w % 256

\* "Launched" (0); then the pipe, which may fail (so may handing it on).
launch_answers ==
    /\ child = "start" /\ child' = "fork"
    /\ conn' = Append(conn, 0)
    /\ \/ pipe' = "open" /\ UNCHANGED lost
       \/ pipe' = "none" /\ lost' = TRUE
    /\ UNCHANGED <<surface, told, run, rcode, display, program, client, code>>

\* The second fork.  Where there is no compositor the program is executed at
\* once, and the pipe's last writer closes with that.
launch_forks ==
    /\ child = "fork"
    /\ \/ child' = "gone" /\ UNCHANGED <<run, program>>
       \/ /\ surface /\ child' = "read" /\ run' = "setup" /\ UNCHANGED program
       \/ /\ ~surface /\ child' = "read" /\ prog' = "running" /\ UNCHANGED <<run, exit, kids>>
    /\ pipe' = IF surface /\ child' = "read" THEN pipe ELSE "closed"
    /\ UNCHANGED <<surface, conn, told, rcode, display, client, code, lost>>

Answer(c) == conn' = Append(conn, c) /\ child' = "gone"

\* The code told on the pipe, or the pipe's end; then the process's own exit.
program_code ==
    /\ child = "read"
    /\ \/ told # NoCode /\ Answer(told)
       \/ told = NoCode /\ pipe # "open" /\ child' = "wait" /\ UNCHANGED conn
    /\ UNCHANGED <<surface, pipe, told, run, rcode, display, program, client, code, lost>>

program_code_waits ==
    /\ child = "wait"
    /\ \/ run = "exited" /\ Answer(rcode) /\ UNCHANGED prog
       \/ run = "killed" /\ Answer(Killed) /\ UNCHANGED prog
       \/ ~surface /\ prog = "zombie" /\ Answer(WEXITSTATUS(exit)) /\ prog' = "reaped"
    /\ UNCHANGED <<surface, pipe, told, run, rcode, display, exit, kids, client, code, lost>>

-----------------------------------------------------------------------------
(* sg-elevated-run.                                                        *)

Exits(c) == run' = "exited" /\ rcode' = c /\ pipe' = "closed"

\* The directory, the cookie, the sockets: what was made is removed when
\* something fails -- except a cookie whose write failed, and so (rmdir finds
\* it there) the directory.
setup ==
    /\ run = "setup"
    /\ \/ Exits(NoDisplay) /\ dir' \in {"none", "stuck"}
       \/ run' = "handover" /\ dir' = "made" /\ UNCHANGED <<rcode, pipe>>
    /\ UNCHANGED <<surface, answering, told, x, term, program, client, code, lost>>

\* ELEVATED to the requester's compositor: it answers OK, or not.
hand_over ==
    /\ run = "handover"
    /\ \/ Exits(NoDisplay) /\ dir' = "none"
       \/ run' = "forkx" /\ UNCHANGED <<rcode, pipe, dir>>
    /\ UNCHANGED <<surface, answering, told, x, term, program, client, code, lost>>

fork_xwayland ==
    /\ run = "forkx"
    /\ \/ Exits(NoDisplay) /\ dir' = "none" /\ UNCHANGED x
       \/ run' = "display" /\ x' = "forked" /\ UNCHANGED <<rcode, pipe, dir>>
    /\ UNCHANGED <<surface, answering, told, term, program, client, code, lost>>

\* The display's number within 30 s, or SIGTERM to the X server.
wait_display ==
    /\ run = "display"
    /\ \/ x \in {"up", "ended"} /\ run' = "start" /\ UNCHANGED <<rcode, term>>
       \/ x \notin {"up", "ended"} /\ run' = "reap" /\ rcode' = NoDisplay /\ term' = TRUE
    /\ UNCHANGED <<surface, answering, pipe, told, x, dir, program, client, code, lost>>

fork_program ==
    /\ run = "start"
    /\ \/ Exits(NoDisplay) /\ term' = TRUE /\ dir' = "none" /\ UNCHANGED program
       \/ /\ run' = "wait" /\ UNCHANGED <<rcode, pipe, term, dir>>
          /\ prog' = "running" /\ UNCHANGED <<exit, kids>>
    /\ UNCHANGED <<surface, answering, told, x, client, code, lost>>

\* The program's exit is told at once.
tell_exit ==
    /\ pipe' = IF pipe = "none" THEN pipe ELSE "closed"
    /\ \/ pipe = "open" /\ told' = WEXITSTATUS(exit) /\ UNCHANGED lost
       \/ pipe = "open" /\ UNCHANGED told /\ lost' = TRUE
       \/ pipe # "open" /\ UNCHANGED <<told, lost>>

wait_program ==
    /\ run = "wait" /\ prog = "zombie" /\ prog' = "reaped"
    /\ tell_exit
    /\ UNCHANGED <<surface, answering, run, rcode, display, exit, kids, client, code>>

\* What the program left running is waited for.  (Variant: it is not.)
NothingLeft_ProgramOnly == prog = "reaped"
NothingLeft == prog = "reaped" /\ \A k \in Kids : kids[k] # "alive"

wait_others ==
    /\ run = "wait" /\ NothingLeft
    /\ run' = "reap" /\ rcode' = WEXITSTATUS(exit) /\ term' = TRUE
    /\ IF pipe = "open" THEN tell_exit ELSE UNCHANGED <<pipe, told, lost>>
    /\ UNCHANGED <<surface, answering, x, dir, program, client, code>>

\* Once the X server has ended the directory goes, and this process ends.
rm_dir == dir' = "none"
reap_xwayland ==
    /\ run = "reap" /\ x \in {"dead", "ended"}
    /\ Exits(rcode) /\ rm_dir
    /\ UNCHANGED <<surface, answering, told, x, term, program, client, code, lost>>

\* Killed: an X server that has asked for it is sent SIGTERM.
RunKilled ==
    /\ run \notin {"none", "exited", "killed"}
    /\ run' = "killed" /\ pipe' = (IF pipe = "none" THEN pipe ELSE "closed")
    /\ term' = (term \/ x \in {"starting", "up"})
    /\ UNCHANGED <<surface, answering, told, rcode, x, dir, program, client, code, lost>>

-----------------------------------------------------------------------------
(* The X server, the program and what it leaves running.                   *)

RunnerGone == run \in {"exited", "killed"}

\* The forked X server asks to be ended with its parent, and looks whether
\* that is too late.  (Variant: it does not look.)
xwayland_arms_NoLook ==
    /\ x = "forked" /\ x' = "starting"
    /\ UNCHANGED <<surface, answering, pipe, told, run, rcode, term, dir, program, client, code, lost>>
xwayland_arms ==
    /\ x = "forked" /\ x' = IF RunnerGone THEN "dead" ELSE "starting"
    /\ term' = (term \/ RunnerGone)
    /\ UNCHANGED <<surface, answering, pipe, told, run, rcode, dir, program, client, code, lost>>

XReady ==
    /\ x = "starting" /\ ~term /\ x' = "up"
    /\ UNCHANGED <<surface, answering, pipe, told, run, rcode, term, dir, program, client, code, lost>>

\* It ends: by itself, with the compositor, by SIGTERM.
XEnds ==
    /\ x \in {"forked", "starting", "up"} /\ x' = IF x = "up" THEN "ended" ELSE "dead"
    /\ UNCHANGED <<surface, answering, pipe, told, run, rcode, term, dir, program, client, code, lost>>

ProgramEnds(w) ==
    /\ prog = "running" /\ prog' = "zombie" /\ exit' = w
    /\ UNCHANGED <<surface, answering, pipe, told, run, rcode, display, kids, client, code, lost>>

KidStarts(k) ==
    /\ kids[k] = "unborn" /\ (prog = "running" \/ \E j \in Kids : kids[j] = "alive")
    /\ kids' = [kids EXCEPT ![k] = "alive"]
    /\ UNCHANGED <<surface, answering, pipe, told, run, rcode, display, prog, exit, client, code, lost>>

KidEnds(k) ==
    /\ kids[k] = "alive" /\ (k \in Waiters => client \in {"ended", "killed"})
    /\ kids' = [kids EXCEPT ![k] = "ended"]
    /\ UNCHANGED <<surface, answering, pipe, told, run, rcode, display, prog, exit, client, code, lost>>

-----------------------------------------------------------------------------
(* sg-elevate, after its request.                                          *)

ReadStatus ==
    /\ client = "asking" /\ conn # <<>> /\ client' = "waiting"
    /\ UNCHANGED <<surface, answering, pipe, told, run, rcode, display, program, code, lost>>

\* A code over 255 keeps its meaning as well as it can.
ExitOf(c) == IF c \in {3010, 1641} THEN 0 ELSE IF c > 255 THEN 255 ELSE c

\* Four bytes, or the connection's end without them (an older broker: 0).
ReadCode ==
    /\ client = "waiting"
    /\ \/ Len(conn) = 2 /\ code' = ExitOf(conn[2])
       \/ Len(conn) = 1 /\ child = "gone" /\ code' = 0
    /\ client' = "ended"
    /\ UNCHANGED <<surface, answering, pipe, told, run, rcode, display, program, lost>>

ClientKilled ==
    /\ client \in {"asking", "waiting"} /\ client' = "killed"
    /\ UNCHANGED <<surface, answering, pipe, told, run, rcode, display, program, code, lost>>

BrokerChild == launch_answers \/ launch_forks \/ program_code \/ program_code_waits
Runner == \/ setup \/ hand_over \/ fork_xwayland \/ wait_display \/ fork_program
          \/ wait_program \/ wait_others \/ reap_xwayland
XServer == xwayland_arms \/ XReady \/ XEnds
Requester == ReadStatus \/ ReadCode

RunNext ==
    \/ BrokerChild \/ Runner \/ RunKilled \/ XServer \/ Requester \/ ClientKilled
    \/ \E w \in Codes \cup {Killed, NoProgram} : ProgramEnds(w)
    \/ \E k \in Kids : KidStarts(k) \/ KidEnds(k)

RunSpec == RunInit /\ [][RunNext]_runVars

\* Every process that can go on does.  The X server obeys SIGTERM; a process
\* that waits for the requester ends once that has.  Nothing is asked of the
\* program and of its other processes: they may run for ever.
RunFairSpec ==
    /\ RunSpec
    /\ WF_runVars(BrokerChild) /\ WF_runVars(Runner) /\ WF_runVars(Requester)
    /\ WF_runVars(xwayland_arms) /\ WF_runVars(term /\ XEnds)
    /\ \A k \in Waiters : WF_runVars(KidEnds(k))

-----------------------------------------------------------------------------
(* What the requester and the desktop may rely on.                         *)

\* A code the requester was sent is the program's own, whatever it left
\* running: 125 or 127 if it never ran, and never one of a program that is
\* still running.  (Of sg-elevated-run's being killed it hears 137.)
RequesterHearsTheProgram ==
    client = "ended" /\ Len(conn) = 2 /\ run # "killed" =>
        IF prog = "none" THEN code \in {125, 127}
        ELSE prog # "running" /\ code = ExitOf(WEXITSTATUS(exit))

\* sg-elevated-run takes the display away, and ends, only when the program
\* and everything it started have ended: nothing elevated is left without its
\* display.  Whichever step of the setup fails, a cookie that was written does
\* not stay behind, nor its directory; an X server that still runs has been
\* told to end.
NothingLeftBehind ==
    /\ run \in {"reap", "exited"} => prog # "running" /\ \A k \in Kids : kids[k] # "alive"
    /\ run = "exited" => dir # "made" /\ (x \in {"forked", "starting", "up"} => term)

\* Each process ends when what it is there for has ended.  The X server goes
\* with sg-elevated-run, also when that is killed at any moment, between the
\* fork and the request to be told included.  Once the program has ended the
\* requester goes on with its code, though what it left running may never end,
\* or may wait for the requester itself.  And nobody waits in a circle: once
\* all that is left are processes that wait for the requester, everything ends.
OnlyWaiters == prog # "running" /\ \A k \in Kids : kids[k] = "alive" => k \in Waiters
EverythingEnds ==
    /\ RunnerGone ~> (x \in {"none", "dead", "ended"})
    /\ (prog = "zombie" /\ ~lost) ~> (client \in {"ended", "killed"} \/ lost)
    /\ <>[]OnlyWaiters /\ []~lost => <>[](run \in {"none", "exited", "killed"})

\* "the success-with-restart codes (3010, 1641) are success": a program that
\* ends with one of them ends its requester with 0.
RestartIsSuccess ==
    client = "ended" /\ exit \in {3010, 1641} /\ run # "killed" => code = 0

=============================================================================
