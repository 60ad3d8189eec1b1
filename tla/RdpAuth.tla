------------------------------- MODULE RdpAuth ------------------------------
(***************************************************************************)
(* Remote Desktop sign-in (greeter/sg-rdp-authd.c): one thread per client, *)
(* unprivileged, asks the root monitor over the socketpair they share.     *)
(* The monitor checks the password, then finds, takes over, starts or      *)
(* shadows a session, and passes a connection to it back.  Compositors,    *)
(* systemd, PAM and the broker are modelled from how the code uses them.   *)
(***************************************************************************)
EXTENDS Naturals, Sequences, FiniteSets

CONSTANTS Peers, Users,
          Members, Admins,   \* the groups sgwine and sg-admins
          None,        \* no peer, no target
          Asking,      \* bound: the credentials and requests clients send
          MaxDeaths    \* bound: deaths of the monitor or of the daemon

Specs == [target : {None}, control : {FALSE}] \cup [target : Users, control : BOOLEAN]
\* The password: right, right but empty, right for an account that may not
\* sign in, or wrong.
Secrets == {"right", "blank", "expired", "wrong"}
Claims == [user : Users, secret : Secrets, spec : Specs]

ASSUME AuthConstants ==
    /\ IsFiniteSet(Peers) /\ Members \cup Admins \subseteq Users /\ None \notin Users \cup Peers /\ MaxDeaths \in Nat
    /\ Users # {}
    /\ Asking \subseteq Claims

VARIABLES
    at,        \* where each peer's thread is
    claim,     \* the credential each sent, and what it asked to shadow
    caller,    \* its client is still connected
    lock,      \* who holds g_monitor_lock
    requests, verdicts,   \* the socketpair
    mon,       \* the monitor's locals and where it is in its loop
    conn,      \* the session connection made for each peer's request
    holders,   \* who has a descriptor of it: "monitor", "wire", peers
    stream_of, \* the connection each peer streams
    console,   \* the user's session at the console
    remote,    \* the user's remote session
    linked,    \* the remote session's privileged socket can be found
    unwatched, \* history: a session's start was not waited for to its end
    agreed,    \* history: shadowing the person at the console agreed to
    deaths

peerVars == <<at, claim, caller, lock, stream_of>>
worldVars == <<console, remote, linked>>
authVars == <<peerVars, requests, verdicts, mon, conn, holders, worldVars, unwatched, agreed, deaths>>

Statuses == {"ATTACHED", "AT_CONSOLE", "NOT_ALLOWED", "FAILED", "NO_CONSOLE", "DECLINED"}
Conns == [kind : {"console", "remote", "shadow"}, user : Users, control : BOOLEAN, live : BOOLEAN]
NoClaim == [user |-> CHOOSE u \in Users : TRUE, secret |-> "wrong",
            spec |-> [target |-> None, control |-> FALSE]]
NoConn == [kind |-> "remote", user |-> CHOOSE u \in Users : TRUE, control |-> FALSE, live |-> FALSE]
Idle == [pc |-> "read", who |-> None, ok |-> FALSE, status |-> "FAILED", got |-> FALSE]

AuthTypeOK ==
    /\ at \in [Peers -> {"out", "lock", "answer", "streaming", "ended"}]
    /\ claim \in [Peers -> Claims] /\ caller \in [Peers -> BOOLEAN]
    /\ lock \in Peers \cup {None} /\ stream_of \in [Peers -> Peers \cup {None}]
    /\ requests \in Seq(Peers)
    /\ verdicts \in Seq([ok : BOOLEAN, status : Statuses, fd : Peers \cup {None}])
    /\ mon \in [pc : {"read", "check", "shadow", "consent", "view", "look", "take", "seat", "unlink",
                      "start", "wait", "send", "dead"},
                who : Peers \cup {None}, ok : BOOLEAN, status : Statuses, got : BOOLEAN]
    /\ conn \in [Peers -> Conns]
    /\ holders \in [Peers -> SUBSET (Peers \cup {"monitor", "wire"})]
    /\ console \in [Users -> {"off", "here", "dark"}]
    /\ remote \in [Users -> {"off", "starting", "bound", "up"}]
    /\ linked \subseteq Users /\ unwatched \subseteq Users /\ deaths \in 0..MaxDeaths
    /\ agreed \subseteq Users \X Users \X BOOLEAN

AuthInit ==
    /\ at = [p \in Peers |-> "out"] /\ claim = [p \in Peers |-> NoClaim]
    /\ caller = [p \in Peers |-> TRUE] /\ lock = None /\ stream_of = [p \in Peers |-> None]
    /\ requests = <<>> /\ verdicts = <<>> /\ mon = Idle
    /\ conn = [p \in Peers |-> NoConn] /\ holders = [p \in Peers |-> {}]
    /\ console = [u \in Users |-> "off"] /\ remote = [u \in Users |-> "off"] /\ linked = {}
    /\ unwatched = {} /\ agreed = {} /\ deaths = 0

-----------------------------------------------------------------------------
(* The peers' threads.                                                     *)

\* A client that sends no credential, or a domain's, is refused at once.
authenticate(p, c) ==
    /\ at[p] = "out" /\ claim' = [claim EXCEPT ![p] = c] /\ at' = [at EXCEPT ![p] = "lock"]
    /\ UNCHANGED <<caller, lock, stream_of, requests, verdicts, mon, conn, holders, worldVars, unwatched,
                   agreed, deaths>>
Refused(p) ==
    /\ at[p] = "out" /\ at' = [at EXCEPT ![p] = "ended"]
    /\ UNCHANGED <<claim, caller, lock, stream_of, requests, verdicts, mon, conn, holders, worldVars,
                   unwatched, agreed, deaths>>

\* One request at a time.  (Variant: the lock is not taken.)
EnterCriticalSection_Not(p) == UNCHANGED lock
EnterCriticalSection(p) == lock = None /\ lock' = p

ask_monitor(p) ==
    /\ at[p] = "lock" /\ EnterCriticalSection(p)
    /\ \/ mon.pc # "dead" /\ requests' = Append(requests, p) /\ at' = [at EXCEPT ![p] = "answer"]
       \/ mon.pc = "dead" /\ at' = [at EXCEPT ![p] = "answer"] /\ UNCHANGED requests
    /\ UNCHANGED <<claim, caller, stream_of, verdicts, mon, conn, holders, worldVars, unwatched, agreed, deaths>>

\* The answer, or the end of the socket.  With a session comes its descriptor,
\* and the stream is made on it - if that works.
recv_verdict(p) ==
    /\ at[p] = "answer" /\ lock' = None
    /\ IF verdicts # <<>>
       THEN LET v == Head(verdicts) IN
            /\ verdicts' = Tail(verdicts)
            /\ IF v.ok /\ v.fd # None
               THEN \/ /\ holders' = [holders EXCEPT ![v.fd] = (@ \ {"wire"}) \cup {p}]
                       /\ stream_of' = [stream_of EXCEPT ![p] = v.fd]
                       /\ at' = [at EXCEPT ![p] = "streaming"]
                    \/ /\ holders' = [holders EXCEPT ![v.fd] = @ \ {"wire"}]
                       /\ at' = [at EXCEPT ![p] = "ended"] /\ UNCHANGED stream_of
               ELSE at' = [at EXCEPT ![p] = "ended"] /\ UNCHANGED <<holders, stream_of>>
       ELSE /\ mon.pc = "dead" /\ at' = [at EXCEPT ![p] = "ended"]
            /\ UNCHANGED <<verdicts, holders, stream_of>>
    /\ UNCHANGED <<claim, caller, requests, mon, conn, worldVars, unwatched, agreed, deaths>>

\* The client leaves; its thread finds out once it is back in its loop.
Disconnects(p) ==
    /\ caller[p] /\ at[p] # "out" /\ caller' = [caller EXCEPT ![p] = FALSE]
    /\ UNCHANGED <<at, claim, lock, stream_of, requests, verdicts, mon, conn, holders, worldVars, unwatched,
                   agreed, deaths>>

peer_thread(p) ==
    /\ at[p] = "streaming" /\ (~caller[p] \/ ~conn[stream_of[p]].live)
    /\ holders' = [holders EXCEPT ![stream_of[p]] = @ \ {p}]
    /\ at' = [at EXCEPT ![p] = "ended"] /\ stream_of' = [stream_of EXCEPT ![p] = None]
    /\ UNCHANGED <<claim, caller, lock, requests, verdicts, mon, conn, worldVars, unwatched, agreed, deaths>>

-----------------------------------------------------------------------------
(* The monitor: monitor_loop, one request at a time.                       *)

Asked == claim[mon.who]
Goto(pc) == mon' = [mon EXCEPT !.pc = pc]
Ends(status) == mon' = [mon EXCEPT !.pc = "send", !.status = status]
Attaches(kind, user, control) ==
    /\ mon' = [mon EXCEPT !.pc = "send", !.status = "ATTACHED", !.got = TRUE]
    /\ holders' = [holders EXCEPT ![mon.who] = {"monitor"}]
    /\ conn' = [p \in Peers |->
        IF p = mon.who THEN [kind |-> kind, user |-> user, control |-> control, live |-> TRUE]
        ELSE IF kind = "console" /\ conn[p].kind = kind /\ conn[p].user = user
        THEN [conn[p] EXCEPT !.live = FALSE] ELSE conn[p]]
Monitor(pc) == mon.pc = pc /\ UNCHANGED <<peerVars, deaths>>
NoAttach == UNCHANGED <<conn, holders>>

monitor_loop ==
    /\ Monitor("read") /\ requests # <<>> /\ requests' = Tail(requests)
    /\ mon' = [Idle EXCEPT !.pc = "check", !.who = Head(requests)]
    /\ NoAttach /\ UNCHANGED <<verdicts, worldVars, unwatched, agreed>>

\* sg-rdp-pamcheck: PAM's answer.  An empty password is for the console only.
pamcheck(secret, at_console) == secret = "right" \/ (secret = "blank" /\ at_console)

\* A wrong password costs two seconds.
monitor_check ==
    /\ Monitor("check") /\ NoAttach /\ UNCHANGED <<requests, verdicts, worldVars, unwatched, agreed>>
    /\ mon' = IF ~pamcheck(Asked.secret, FALSE) THEN [mon EXCEPT !.pc = "send"]
              ELSE [mon EXCEPT !.ok = TRUE, !.pc = IF Asked.spec.target = None THEN "look" ELSE "shadow"]

\* Another's session: administrators only, and only at the console.
shadow_for ==
    /\ Monitor("shadow") /\ NoAttach /\ UNCHANGED <<requests, verdicts, worldVars, unwatched, agreed>>
    /\ LET same == Asked.spec.target = Asked.user IN
       IF Asked.user \notin Members \/ (~same /\ Asked.user \notin Admins) THEN Ends("NOT_ALLOWED")
       ELSE IF console[Asked.spec.target] = "off" THEN Ends("NO_CONSOLE")
       ELSE Goto(IF same THEN "view" ELSE "consent")

\* The broker asks at the console: yes, no, no broker, or no answer in time.
Consent == <<Asked.user, Asked.spec.target, Asked.spec.control>>
ask_console_consent ==
    /\ Monitor("consent") /\ NoAttach /\ UNCHANGED <<requests, verdicts, worldVars, unwatched>>
    /\ \/ console[Asked.spec.target] # "off" /\ Goto("view") /\ agreed' = agreed \cup {Consent}
       \/ Ends("DECLINED") /\ UNCHANGED agreed

start_shadow ==
    /\ Monitor("view") /\ UNCHANGED <<requests, verdicts, worldVars, unwatched, agreed>>
    /\ \/ /\ console[Asked.spec.target] # "off"
          /\ Attaches("shadow", Asked.spec.target, Asked.spec.control)
       \/ Ends("FAILED") /\ NoAttach

\* session_for: the console's session if there is one, else the remote one.
session_for ==
    /\ Monitor("look") /\ NoAttach /\ UNCHANGED <<requests, verdicts, worldVars, unwatched, agreed>>
    /\ IF Asked.user \notin Members THEN Ends("NOT_ALLOWED")
       ELSE Goto(IF console[Asked.user] # "off" THEN "take" ELSE "seat")

\* The compositor at the console may refuse, or be gone by now.
take_over_console ==
    /\ Monitor("take") /\ UNCHANGED <<requests, verdicts, remote, linked, unwatched, agreed>>
    /\ \/ /\ console[Asked.user] # "off" /\ Attaches("console", Asked.user, TRUE)
          /\ console' = [console EXCEPT ![Asked.user] = "dark"]
       \/ Ends("AT_CONSOLE") /\ NoAttach /\ UNCHANGED console

\* make_remote_seat may fail; a session that answers is reconnected to.
Answers(u) == remote[u] = "up" /\ u \in linked
reconnect ==
    /\ Monitor("seat") /\ UNCHANGED <<requests, verdicts, worldVars, unwatched, agreed>>
    /\ \/ Ends("FAILED") /\ NoAttach
       \/ Answers(Asked.user) /\ Attaches("remote", Asked.user, TRUE)
       \/ ~Answers(Asked.user) /\ Goto("unlink") /\ NoAttach
unlink_priv ==
    /\ Monitor("unlink") /\ Goto("start") /\ NoAttach /\ linked' = linked \ {Asked.user}
    /\ UNCHANGED <<requests, verdicts, console, remote, unwatched, agreed>>

\* systemd-run refuses a unit that is still there.
systemd_run ==
    /\ Monitor("start") /\ NoAttach /\ UNCHANGED <<requests, verdicts, console, linked, unwatched, agreed>>
    /\ \/ remote[Asked.user] = "off" /\ remote' = [remote EXCEPT ![Asked.user] = "starting"] /\ Goto("wait")
       \/ Ends("FAILED") /\ UNCHANGED remote

\* 600 tries, a tenth of a second apart.
wait_for_session ==
    /\ Monitor("wait") /\ UNCHANGED <<requests, verdicts, worldVars, agreed>>
    /\ \/ Answers(Asked.user) /\ Attaches("remote", Asked.user, TRUE) /\ UNCHANGED unwatched
       \/ ~Answers(Asked.user) /\ Ends("FAILED") /\ unwatched' = unwatched \cup {Asked.user} /\ NoAttach

\* The password is given to the session's keyring first, which changes nothing
\* here; the verdict goes, the descriptor with it, and the monitor's is closed.
\* (Variant: it is kept.)
Passed_Kept == (holders[mon.who] \cup {"wire"})
Passed == (holders[mon.who] \ {"monitor"}) \cup {"wire"}
send_verdict ==
    /\ Monitor("send") /\ mon' = Idle
    /\ verdicts' = Append(verdicts, [ok |-> mon.ok, status |-> mon.status,
                                     fd |-> IF mon.got THEN mon.who ELSE None])
    /\ holders' = IF mon.got THEN [holders EXCEPT ![mon.who] = Passed] ELSE holders
    /\ UNCHANGED <<requests, conn, worldVars, unwatched, agreed>>

MonitorStep ==
    \/ monitor_loop \/ monitor_check \/ shadow_for \/ ask_console_consent \/ start_shadow \/ session_for
    \/ take_over_console \/ reconnect \/ unlink_priv \/ systemd_run \/ wait_for_session \/ send_verdict

-----------------------------------------------------------------------------
(* Sessions, and deaths of the daemon's two processes.                     *)

Elsewhere == UNCHANGED <<peerVars, requests, verdicts, mon, holders, unwatched, agreed, deaths>>
Dies(u, kinds) ==
    conn' = [p \in Peers |-> [conn[p] EXCEPT !.live = @ /\ ~(conn[p].user = u /\ conn[p].kind \in kinds)]]

SignsIn(u) ==
    /\ \A v \in Users : console[v] = "off"
    /\ console' = [console EXCEPT ![u] = "here"] /\ UNCHANGED <<remote, linked, conn>> /\ Elsewhere

SignsOut(u) ==
    /\ console[u] # "off" /\ console' = [console EXCEPT ![u] = "off"]
    /\ Dies(u, {"console", "shadow"}) /\ UNCHANGED <<remote, linked>> /\ Elsewhere

\* Ctrl+Alt+Del takes the session back and ends its shadowing; so does the
\* closing of the last descriptor of the take-over's connection.
CtrlAltDel(u) ==
    /\ console[u] # "off" /\ console' = [console EXCEPT ![u] = "here"]
    /\ Dies(u, {"console", "shadow"}) /\ UNCHANGED <<remote, linked>> /\ Elsewhere

GivenBack(u) ==
    /\ console[u] = "dark" /\ console' = [console EXCEPT ![u] = "here"]
    /\ \A p \in Peers : conn[p].kind = "console" /\ conn[p].user = u /\ conn[p].live => holders[p] = {}
    /\ Dies(u, {"console"}) /\ UNCHANGED <<remote, linked>> /\ Elsewhere

SessionBinds(u) ==
    /\ remote[u] = "starting" /\ remote' = [remote EXCEPT ![u] = "bound"] /\ linked' = linked \cup {u}
    /\ UNCHANGED <<console, conn>> /\ Elsewhere
SessionListens(u) ==
    /\ remote[u] = "bound" /\ remote' = [remote EXCEPT ![u] = "up"]
    /\ UNCHANGED <<console, linked, conn>> /\ Elsewhere
RemoteEnds(u) ==
    /\ remote[u] # "off" /\ remote' = [remote EXCEPT ![u] = "off"] /\ linked' = linked \ {u}
    /\ Dies(u, {"remote"}) /\ UNCHANGED console /\ Elsewhere

\* The monitor is not started again; the whole daemon is, by systemd.
Abandoned == unwatched' = unwatched \cup {u \in Users : remote[u] \in {"starting", "bound"}}
MonitorDies ==
    /\ mon.pc # "dead" /\ deaths < MaxDeaths /\ deaths' = deaths + 1 /\ mon' = [Idle EXCEPT !.pc = "dead"]
    /\ holders' = [p \in Peers |-> holders[p] \ {"monitor"}] /\ Abandoned
    /\ UNCHANGED <<peerVars, requests, verdicts, conn, worldVars, agreed>>
DaemonDies ==
    /\ deaths < MaxDeaths /\ deaths' = deaths + 1 /\ mon' = Idle /\ requests' = <<>> /\ verdicts' = <<>>
    /\ holders' = [p \in Peers |-> {}] /\ lock' = None /\ stream_of' = [p \in Peers |-> None]
    /\ at' = [p \in Peers |-> IF at[p] = "out" THEN "out" ELSE "ended"]
    /\ Abandoned /\ UNCHANGED <<claim, caller, conn, worldVars, agreed>>

-----------------------------------------------------------------------------
PeerStep(p) == ask_monitor(p) \/ recv_verdict(p) \/ peer_thread(p)

AuthNext ==
    \/ MonitorStep \/ MonitorDies \/ DaemonDies
    \/ \E p \in Peers :
        PeerStep(p) \/ Refused(p) \/ Disconnects(p) \/ \E c \in Asking : authenticate(p, c)
    \/ \E u \in Users : \/ SignsIn(u) \/ SignsOut(u) \/ CtrlAltDel(u) \/ GivenBack(u)
                        \/ SessionBinds(u) \/ SessionListens(u) \/ RemoteEnds(u)

-----------------------------------------------------------------------------
(* Properties.                                                             *)

\* What p asked for, with its own good password, and may have.
AsAsked(p, c) ==
    /\ claim[p].secret = "right"
    /\ IF c.kind = "shadow"
       THEN c.user = claim[p].spec.target /\ c.control = claim[p].spec.control
       ELSE c.user = claim[p].user /\ claim[p].spec.target = None
    /\ c.kind = "shadow" /\ c.user # claim[p].user =>
          claim[p].user \in Admins /\ <<claim[p].user, c.user, c.control>> \in agreed

\* "for a password PAM accepts, hand back a connection to that user's
\* session": what a peer streams is what its own request, with its own good
\* password, asked for, however the peers' requests interleave; "another user's
\* needs an administrator's, and the person at the console to say yes".  And
\* "the next login for that user reconnects to it": a remote session that runs
\* can be found, unless nobody saw its start through: it took longer than the
\* monitor's minute, or the monitor died.
StreamIsOwn ==
    /\ \A p \in Peers : at[p] = "streaming" => AsAsked(p, conn[stream_of[p]])
    /\ \A u \in Users : remote[u] = "up" /\ u \notin unwatched => u \in linked

\* "When the client disconnects, that connection closes and the session goes
\* back to the console": a dark console has a client at the other end, or it
\* comes back, whoever died on the way.
ConsoleComesBack ==
    \A u \in Users :
        []<>(\/ console[u] # "dark"
             \/ \E p \in Peers : at[p] = "streaming" /\ caller[p] /\ conn[stream_of[p]].user = u)

\* Every sign-in under way ends, one way or the other: no peer waits for ever
\* for the lock or for an answer.
EveryAskEnds == \A p \in Peers : []<>(at[p] \notin {"lock", "answer"})
=============================================================================
