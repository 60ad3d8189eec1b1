------------------------------- MODULE Broker -------------------------------
(***************************************************************************)
(* sg-brokerd: "Run as administrator", polkit's questions and the console  *)
(* shadow question.  One process takes connections in order, asks on the   *)
(* compositor's secure surface, and acts on the answer; a root monitor     *)
(* checks passwords and answers polkitd.  Around it: the requesters, their *)
(* compositors, the prompt process and the administrators' group, each of  *)
(* which may move between any two of the broker's steps.                   *)
(*                                                                         *)
(* LogonUser and run-as tickets are in module LogonTickets, what happens   *)
(* after the fork of an elevated program in module ElevatedRun.            *)
(***************************************************************************)
EXTENDS Naturals, Sequences, FiniteSets

CONSTANTS Conns,       \* connections to the broker's socket
          Accounts,    \* accounts of people
          Root, System,\* uid 0 and the SYSTEM account
          NoOne,       \* no account
          NoConn,      \* no connection
          NoReq,       \* a connection that was not made yet
          NoSurface,   \* no surface chosen yet
          Surfaces,    \* the sessions there can be: accounts and seats
          Requests,    \* the requests that can be made
          MaxAttempts, \* refused credentials before the prompt goes (3)
          Backlog,     \* length of the listen queue (16)
          PipeMax      \* lines the prompt can have written ahead of the broker

Principals == Accounts \cup {Root, System}
Kinds == {"elevate", "polkit", "shadow"}
Request == [uid: Principals, kind: Kinds, target: Accounts,
            ids: SUBSET Accounts, whole: BOOLEAN]
Seats == {"console", "rdp"}

\* What the prompt may write: a decision, credentials (right or wrong), or
\* a line that is none of them.
Lines == [tag: {"ALLOW", "DENY", "other"}, name: {NoOne}, good: {FALSE}]
           \cup [tag: {"CRED"}, name: Accounts, good: BOOLEAN]
Modes == {"admin", "cred", "shadow"}

ASSUME RequestsAssumption == Requests \subseteq Request
ASSUME NamesAssumption ==
    /\ Root \notin Accounts /\ System \notin Accounts /\ Root # System
    /\ NoOne \notin Principals
    /\ NoConn \notin Conns
    /\ NoReq \notin Request
    /\ Surfaces \subseteq Accounts \X Seats /\ NoSurface \notin Surfaces
ASSUME BoundsAssumption == MaxAttempts \in Nat \ {0} /\ Backlog \in Nat \ {0} /\ PipeMax \in Nat

VARIABLES
    admins,    \* members of SG_ADMIN_GROUP
    monitor,   \* the root monitor: "up" or "dead"
    comp,      \* comp[s]: what the compositor of surface s is doing
    stuck,     \* surfaces whose RELEASE failed (they stay secure)
    backlog,   \* connections waiting to be accepted, in order
    req,       \* req[c]: the request made on connection c
    sent,      \* connections whose request has arrived whole
    gone,      \* connections whose client has hung up
    answer,    \* answer[c]: the status byte (0 "granted", 1 "denied", 2 "failed"), if any
    at,        \* where the broker is
    cur,       \* the connection it serves
    mode,      \* which prompt: an administrator's, one for credentials, a
               \* shadow question (who is an administrator is read once, at dispatch)
    who,       \* who authorised the request, if anybody has
    attempts,  \* refused credentials at this prompt
    sf,        \* the surface it is asked on
    ui,        \* the prompt process: "none", "alive" or "dead"
    pipe,      \* what it wrote and the broker did not read yet
    log,       \* the Security log
    granted,   \* what was granted: programs started, polkit answers, shadowing
    said,      \* history: the consents given, at which connection's prompt
    scope,     \* history: whose right it is to grant a connection's request
    eligible   \* history: who had that right since the request was read

world   == <<admins, monitor>>
clients == <<backlog, req, sent, gone>>
serving == <<cur, mode, sf>>
deciding == <<who, attempts>>
outcome == <<answer, log, granted>>
rights  == <<scope, eligible>>
prompt == <<ui, pipe>>
vars == <<world, comp, stuck, clients, at, serving, deciding, prompt, outcome, said, rights>>

TypeOK ==
    /\ admins \subseteq Accounts
    /\ monitor \in {"up", "dead"}
    /\ comp \in [Surfaces -> {"none", "unlocked", "secure", "locked", "hung"}]
    /\ stuck \subseteq Surfaces
    /\ backlog \in Seq(Conns)
    /\ req \in [Conns -> Requests \cup {NoReq}]
    /\ sent \subseteq Conns /\ gone \subseteq Conns
    /\ answer \in [Conns -> {"none", "closed", "granted", "denied", "failed"}]
    /\ at \in {"accept", "read", "surface", "secure", "start", "ask", "pam", "stop",
               "release", "decide", "polkit"}
    /\ cur \in Conns \cup {NoConn}
    /\ mode \in Modes
    /\ who \in Principals \cup {NoOne}
    /\ attempts \in 0..MaxAttempts
    /\ sf \in Surfaces \cup {NoSurface}
    /\ ui \in {"none", "alive", "dead"} /\ pipe \in Seq(Lines)
    /\ log \subseteq [conn: Conns, id: {4625, 4648, 4672}, name: Principals]
    /\ granted \subseteq [conn: Conns, by: Principals]
    /\ said \subseteq [conn: Conns, mode: Modes, line: Lines]
    /\ scope \in [Conns -> {"group", "person"}]
    /\ eligible \in [Conns -> SUBSET Accounts]

Init ==
    /\ admins \in SUBSET Accounts
    /\ monitor = "up"
    /\ comp = [s \in Surfaces |-> "none"]
    /\ stuck = {}
    /\ backlog = <<>> /\ req = [c \in Conns |-> NoReq] /\ sent = {} /\ gone = {}
    /\ answer = [c \in Conns |-> "none"]
    /\ at = "accept" /\ cur = NoConn
    /\ mode = "cred" /\ who = NoOne /\ attempts = 0
    /\ sf = NoSurface /\ ui = "none" /\ pipe = <<>>
    /\ log = {} /\ granted = {} /\ said = {}
    /\ scope = [c \in Conns |-> "group"] /\ eligible = [c \in Conns |-> {}]

-----------------------------------------------------------------------------
(* The requesters: sg-elevate, sg-polkit-agent, sg-rdp-authd's monitor.    *)

Connect(c, r) ==
    /\ req[c] = NoReq
    /\ Len(backlog) < Backlog
    /\ req' = [req EXCEPT ![c] = r]
    /\ backlog' = Append(backlog, c)
    /\ UNCHANGED <<world, comp, stuck, sent, gone, at, serving, deciding, prompt, outcome, said, rights>>

SendRequest(c) ==
    /\ req[c] # NoReq /\ c \notin gone \cup sent
    /\ sent' = sent \cup {c}
    /\ UNCHANGED <<world, comp, stuck, backlog, req, gone, at, serving, deciding, prompt, outcome, said, rights>>

\* The client ends before its request is whole.  (Afterwards the broker does
\* not look: it goes on, and its answer is written to nobody.)
HangUp(c) ==
    /\ req[c] # NoReq /\ c \notin gone \cup sent
    /\ gone' = gone \cup {c}
    /\ UNCHANGED <<world, comp, stuck, backlog, req, sent, at, serving, deciding, prompt, outcome, said, rights>>

-----------------------------------------------------------------------------
(* The world around the broker.                                            *)

\* Somebody joins or leaves the administrators' group.
ChangeMembers(S) ==
    /\ admins' = S /\ S # admins
    /\ eligible' = IF cur # NoConn /\ at \notin {"accept", "read"} /\ scope[cur] = "group"
                   THEN [eligible EXCEPT ![cur] = @ \cup S] ELSE eligible
    /\ UNCHANGED <<monitor, comp, stuck, clients, at, serving, deciding, prompt, outcome, said, scope>>

MonitorDies ==
    /\ monitor = "up" /\ monitor' = "dead"
    /\ UNCHANGED <<admins, comp, stuck, clients, at, serving, deciding, prompt, outcome, said, rights>>

\* The compositor of surface s (another program): it starts, is locked and
\* unlocked, stops answering, or ends -- and takes the prompt's display
\* with it.
Compositor(s) ==
    /\ \/ comp[s] = "none" /\ comp' = [comp EXCEPT ![s] = "unlocked"] /\ UNCHANGED <<stuck, prompt>>
       \/ comp[s] \in {"unlocked", "secure"} /\ comp' = [comp EXCEPT ![s] = "locked"]
            /\ stuck' = stuck \ {s} /\ UNCHANGED prompt
       \/ comp[s] = "locked" /\ comp' = [comp EXCEPT ![s] = "unlocked"] /\ UNCHANGED <<stuck, prompt>>
       \/ comp[s] \notin {"none", "hung"} /\ comp' = [comp EXCEPT ![s] = "hung"]
            /\ stuck' = stuck \ {s} /\ UNCHANGED prompt
       \/ /\ comp[s] # "none" /\ comp' = [comp EXCEPT ![s] = "none"]
          /\ stuck' = stuck \ {s}
          /\ ui' = IF s = sf /\ ui = "alive" THEN "dead" ELSE ui
          /\ UNCHANGED pipe
    /\ UNCHANGED <<world, clients, at, serving, deciding, outcome, said, rights>>

\* The person at the prompt, or the prompt itself, writes a line; the prompt
\* ends by itself.
PromptSays(l) ==
    /\ ui = "alive" /\ Len(pipe) < PipeMax
    /\ pipe' = Append(pipe, l)
    /\ said' = IF l.tag = "ALLOW" \/ l.good
               THEN said \cup {[conn |-> cur, mode |-> mode, line |-> l]} ELSE said
    /\ UNCHANGED <<world, comp, stuck, clients, at, serving, deciding, ui, outcome, rights>>

PromptDies ==
    /\ ui = "alive"
    /\ ui' = "dead"
    /\ UNCHANGED <<world, comp, stuck, clients, at, serving, deciding, pipe, outcome, said, rights>>

-----------------------------------------------------------------------------
(* The broker: one connection after the other.                             *)

accept ==
    /\ at = "accept" /\ backlog # <<>>
    /\ cur' = Head(backlog) /\ backlog' = Tail(backlog)
    /\ at' = "read"
    /\ UNCHANGED <<world, comp, stuck, req, sent, gone, mode, sf, deciding, prompt, outcome, said, rights>>

\* The served connection gets v and the broker goes back to accept; the
\* variables of the loop's body go out of scope.
Reply(v) ==
    /\ answer' = [answer EXCEPT ![cur] = v]
    /\ at' = "accept" /\ cur' = NoConn
    /\ mode' = "cred" /\ sf' = NoSurface /\ who' = NoOne /\ attempts' = 0

\* The client hung up before its request was whole.
read_fails ==
    /\ at = "read" /\ cur \in gone \ sent
    /\ Reply("closed")
    /\ UNCHANGED <<world, comp, stuck, clients, prompt, log, granted, said, rights>>

\* Only root (sg-rdp-authd's monitor) may ask to shadow a session.
Refused(r) == ~r.whole \/ (r.kind = "shadow" /\ r.uid # Root)

ModeFor(r) == IF r.kind = "shadow" THEN "shadow" ELSE IF r.uid \in admins THEN "admin" ELSE "cred"

dispatch ==
    /\ at = "read" /\ cur \in sent
    /\ LET r == req[cur] IN
       IF Refused(r)
       THEN /\ IF r.kind = "shadow" THEN Reply("denied") ELSE Reply("failed")
            /\ UNCHANGED rights
       ELSE /\ at' = "surface"
            /\ mode' = ModeFor(r)
            /\ scope' = [scope EXCEPT ![cur] = IF r.kind = "shadow" THEN "person" ELSE "group"]
            /\ eligible' = [eligible EXCEPT ![cur] = IF r.kind = "shadow" THEN {r.target} ELSE admins]
            /\ UNCHANGED <<cur, sf, deciding, answer>>
    /\ UNCHANGED <<world, comp, stuck, clients, prompt, log, granted, said>>

\* The session that is asked: the requester's own, or the one to be shadowed,
\* which counts at the console only.
Asked(r) == IF r.kind = "shadow" THEN r.target ELSE r.uid
SeatsOf(r) == IF r.kind = "shadow" THEN {"console"} ELSE Seats
Found(r) == {s \in SeatsOf(r) : <<Asked(r), s>> \in Surfaces /\ comp[<<Asked(r), s>>] # "none"}

find_surface ==
    /\ at = "surface"
    /\ LET seats == Found(req[cur])
           s == <<Asked(req[cur]), IF "console" \in seats THEN "console" ELSE "rdp">> IN
       IF seats = {} THEN at' = "decide" /\ UNCHANGED sf
       ELSE comp[s] # "hung" /\ at' = "secure" /\ sf' = s
    /\ UNCHANGED <<world, comp, stuck, clients, cur, mode, deciding, prompt, outcome, said, rights>>

\* SECURE: taken by an unlocked compositor, refused by a locked one; one that
\* an earlier RELEASE did not reach may answer either way.
surface_secure ==
    /\ at = "secure" /\ comp[sf] # "hung"
    /\ \/ /\ comp[sf] \in {"unlocked", "secure"}
          /\ comp' = [comp EXCEPT ![sf] = "secure"] /\ at' = "start"
       \/ /\ comp[sf] # "unlocked"
          /\ at' = "decide" /\ UNCHANGED comp
    /\ UNCHANGED <<world, stuck, clients, serving, deciding, prompt, outcome, said, rights>>

\* (Variant: a prompt that cannot be forked returns at once, without RELEASE.)
consent_ui_start_ReturnsEarly ==
    /\ at = "start"
    /\ \/ ui' = "alive" /\ pipe' = <<>> /\ at' = "ask"
       \/ UNCHANGED prompt /\ at' = "decide"
    /\ UNCHANGED <<world, comp, stuck, clients, serving, deciding, outcome, said, rights>>

\* The prompt is forked with a pipe of its own, or cannot be.
consent_ui_start ==
    /\ at = "start"
    /\ \/ ui' = (IF comp[sf] = "none" THEN "dead" ELSE "alive") /\ pipe' = <<>> /\ at' = "ask"
       \/ UNCHANGED prompt /\ at' = "release"
    /\ UNCHANGED <<world, comp, stuck, clients, serving, deciding, outcome, said, rights>>

\* A Yes counts where Yes or No was asked, credentials where they were.
\* (Variant: a Yes counts at any prompt.)
Yes_Anywhere(l) == l.tag = "ALLOW"
Yes(l) == l.tag = "ALLOW" /\ mode # "cred"
Credentials(l) == l.tag = "CRED" /\ mode = "cred"

\* What comes after the loop: the prompt is stopped, then the surface is
\* released.
out == "stop"

\* One line of the prompt's; any other than these ends the question.
consent_read_line ==
    /\ at = "ask" /\ pipe # <<>>
    /\ LET l == Head(pipe) IN
       \/ Yes(l) /\ who' = Asked(req[cur]) /\ at' = out
       \/ Credentials(l) /\ at' = "pam" /\ UNCHANGED who
       \/ ~Yes(l) /\ ~Credentials(l) /\ at' = out /\ UNCHANGED who
    /\ UNCHANGED <<world, comp, stuck, clients, serving, attempts, prompt, outcome, said, rights>>

\* Nothing by the deadline (whatever is on its way), or the pipe's end.
\* (Variant: only the pipe's end is noticed.)
consent_no_answer_NoDeadline ==
    /\ at = "ask" /\ ui = "dead" /\ pipe = <<>> /\ at' = out
    /\ UNCHANGED <<world, comp, stuck, clients, serving, deciding, prompt, outcome, said, rights>>
consent_no_answer ==
    /\ at = "ask" /\ at' = out
    /\ UNCHANGED <<world, comp, stuck, clients, serving, deciding, prompt, outcome, said, rights>>

\* The monitor asks PAM; the account must be an administrator's besides.
\* (Variant: any account will do.)
Valid_AnyAccount(l) == monitor = "up" /\ l.good
Valid(l) == monitor = "up" /\ l.good /\ l.name \in admins

LastAttempt == attempts + 1 >= MaxAttempts

check_password ==
    /\ at = "pam"
    /\ LET l == Head(pipe) IN
       IF Valid(l)
       THEN /\ who' = l.name /\ at' = out
            /\ UNCHANGED <<attempts, log>>
       ELSE /\ log' = log \cup {[conn |-> cur, id |-> 4625, name |-> l.name]}
            /\ attempts' = attempts + 1
            /\ at' = IF LastAttempt THEN out ELSE "ask"
            /\ UNCHANGED who
    /\ pipe' = Tail(pipe)
    /\ UNCHANGED <<world, comp, stuck, clients, serving, ui, answer, granted, said, rights>>

\* DONE, then the prompt's process group is killed and its pipes closed.
consent_ui_stop ==
    /\ at = "stop" /\ at' = "release"
    /\ ui' = "none" /\ pipe' = <<>>
    /\ UNCHANGED <<world, comp, stuck, clients, serving, deciding, outcome, said, rights>>

\* RELEASE: reaches the compositor, or fails and it keeps its state.
surface_release ==
    /\ at = "release" /\ comp[sf] # "hung"
    /\ at' = "decide"
    /\ \/ /\ comp' = IF comp[sf] = "secure" THEN [comp EXCEPT ![sf] = "unlocked"] ELSE comp
          /\ stuck' = stuck \ {sf}
       \/ /\ stuck' = IF comp[sf] = "secure" THEN stuck \cup {sf} ELSE stuck
          /\ UNCHANGED comp
    /\ UNCHANGED <<world, clients, serving, deciding, prompt, outcome, said, rights>>

allowed == who # NoOne
Event(i, name) == [conn |-> cur, id |-> i, name |-> name]
Granted == granted \cup {[conn |-> cur, by |-> who]}

deny ==
    /\ at = "decide" /\ ~allowed
    /\ Reply("denied")
    /\ UNCHANGED <<world, comp, stuck, clients, prompt, log, granted, said, rights>>

shadow_accepted ==
    /\ at = "decide" /\ allowed /\ req[cur].kind = "shadow"
    /\ Reply("granted") /\ granted' = Granted
    /\ UNCHANGED <<world, comp, stuck, clients, prompt, log, said, rights>>

\* 4672 for who authorised it; 4648 besides when that is not the requester.
\* (Variant: 4672 only.)
Audit_OwnOnly == {Event(4672, who)}
Audit == {Event(4672, who)} \cup (IF who # req[cur].uid THEN {Event(4648, req[cur].uid)} ELSE {})

\* The events, then the fork; the child answers, and the parent goes on to the
\* next connection.  A fork that fails is answered "failed".
launch ==
    /\ at = "decide" /\ allowed /\ req[cur].kind = "elevate"
    /\ log' = log \cup Audit
    /\ \/ Reply("granted") /\ granted' = Granted
       \/ Reply("failed") /\ UNCHANGED granted
    /\ UNCHANGED <<world, comp, stuck, clients, prompt, said, rights>>

\* The one who consented must be one polkit would take.
polkit_identity ==
    /\ at = "decide" /\ allowed /\ req[cur].kind = "polkit"
    /\ IF who \in req[cur].ids THEN at' = "polkit" /\ UNCHANGED <<serving, deciding, answer>>
                               ELSE Reply("failed")
    /\ UNCHANGED <<world, comp, stuck, clients, prompt, log, granted, said, rights>>

\* What the root monitor checks itself before it tells polkitd.
\* (Variant: it takes the broker's word for the identity.)
monitor_polkit_NoGroup(agent, identity) ==
    monitor = "up" /\ agent \notin {Root, System}
monitor_polkit(agent, identity) ==
    monitor = "up" /\ agent \notin {Root, System} /\ identity \in admins

\* polkitd may not take the answer (the request was cancelled, say).
polkit_respond ==
    /\ at = "polkit"
    /\ \/ /\ monitor_polkit(req[cur].uid, who)
          /\ Reply("granted") /\ granted' = Granted /\ log' = log \cup {Event(4672, who)}
       \/ Reply("failed") /\ UNCHANGED <<granted, log>>
    /\ UNCHANGED <<world, comp, stuck, clients, prompt, said, rights>>

BrokerStep ==
    \/ accept \/ read_fails \/ dispatch \/ find_surface \/ surface_secure \/ consent_ui_start
    \/ consent_read_line \/ consent_no_answer \/ check_password \/ consent_ui_stop
    \/ surface_release \/ deny \/ shadow_accepted \/ launch \/ polkit_identity \/ polkit_respond

Environment ==
    \/ \E c \in Conns : SendRequest(c) \/ HangUp(c) \/ \E r \in Requests : Connect(c, r)
    \/ \E S \in SUBSET Accounts : ChangeMembers(S)
    \/ MonitorDies \/ PromptDies
    \/ \E s \in Surfaces : Compositor(s)
    \/ \E l \in Lines : PromptSays(l)

Next == BrokerStep \/ Environment

Spec == Init /\ [][Next]_vars

\* The broker's own steps are taken: it is never stopped, time passes for its
\* deadline, PAM and polkitd answer the monitor.  Strong fairness because of
\* a compositor that hangs again and again: when a hung one ends, the read
\* that waits for it ends for good, whatever the next one does.  Nothing is
\* asked of the clients or of the compositors.
FairSpec == Spec /\ SF_vars(BrokerStep)

-----------------------------------------------------------------------------
(* What the broker promises.                                               *)

\* Somebody with the right to it said so, at a prompt shown for this very
\* request: Yes by an administrator for their own request, an administrator's
\* name and password for a standard user's, Yes at the console for shadowing.
ConsentFor(c, by) ==
    \E d \in said :
        /\ d.conn = c /\ by \in eligible[c]
        /\ CASE d.mode = "admin"  -> d.line.tag = "ALLOW" /\ by = req[c].uid
             [] d.mode = "cred"   -> d.line.tag = "CRED" /\ d.line.good /\ by = d.line.name
             [] d.mode = "shadow" -> d.line.tag = "ALLOW" /\ req[c].uid = Root

\* Nothing is started, answered or shown without such a consent ("everything
\* fails closed"): not by an answer that came too late, one meant for another
\* request, a Yes where credentials were asked for, or a prompt that died.
GrantedOnlyByConsent == \A g \in granted : ConsentFor(g.conn, g.by)

\* A compositor that the broker made secure is secure only for the request
\* being served, or because a RELEASE did not reach it: no path out of
\* obtain_consent leaves the user's screen taken.
SecureOnlyWhileServing ==
    \A s \in Surfaces : comp[s] = "secure" =>
        s \in stuck \/ (s = sf /\ at \in {"start", "ask", "pam", "stop", "release"})

\* A request that was granted, and a grant that is in the Security log.
Decided(c) == \E g \in granted : g.conn = c
Logged(g) ==
    req[g.conn].kind # "shadow" =>
        /\ [conn |-> g.conn, id |-> 4672, name |-> g.by] \in log
        /\ req[g.conn].kind = "elevate" /\ g.by # req[g.conn].uid =>
              [conn |-> g.conn, id |-> 4648, name |-> req[g.conn].uid] \in log

\* The client's status byte tells what happened: it is 0 exactly when the request
\* was granted, and every grant is in the Security log under the name of who
\* authorised it, with the requester's name too when that is somebody else.
AnswerIsTheOutcome ==
    /\ \A c \in Conns : answer[c] = "granted" <=> Decided(c)
    /\ \A g \in granted : Logged(g)

\* While a prompt is up its surface never goes from secure to unlocked: the
\* prompt is gone before the session gets the screen and the keyboard back.
SecureUntilPromptGone ==
    [][\A s \in Surfaces : ui' = "alive" /\ s = sf /\ comp[s] = "secure"
                              => comp'[s] # "unlocked"]_vars

\* polkitd is only ever told of somebody who is an administrator at that
\* moment, even one who was removed from the group while the prompt was up,
\* and never for an agent of root's or of the SYSTEM account's.
PolkitToldOfAdministrators ==
    [][\A g \in granted' \ granted : req[g.conn].kind = "polkit" =>
          g.by \in admins \cap req[g.conn].ids /\ req[g.conn].uid \in Accounts]_vars

\* A connection is answered once, and what was granted on it is not granted
\* again.
AnsweredOnce ==
    [][\A c \in Conns : answer[c] # "none" =>
          answer'[c] = answer[c] /\ ~\E g \in granted' \ granted : g.conn = c]_vars

\* Two things outside the broker can hold it up, both without a timeout in
\* the code: a client that connects and sends nothing, and a compositor that
\* does not reply.
HeldUp ==
    \/ at = "read" /\ cur \notin sent \cup gone
    \/ at = "surface" /\ \E s \in Found(req[cur]) : comp[<<Asked(req[cur]), s>>] = "hung"
    \/ at \in {"secure", "release"} /\ comp[sf] = "hung"

\* Unless one of them holds it up for ever, every request that was sent is
\* answered, whatever the prompt, the group and the other clients do.
EveryRequestAnswered ==
    <>[]HeldUp \/ \A c \in Conns : (c \in sent) ~> (answer[c] # "none")

\* The broker implements the abstract promise of module Consent.
Policy == INSTANCE Consent WITH
    phase <- [c \in Conns |->
        IF Decided(c) THEN "granted"
        ELSE IF c = cur /\ at \notin {"accept", "read"} THEN "pending"
        ELSE IF answer[c] = "none" THEN "idle" ELSE "refused"],
    by <- [c \in Conns |-> IF Decided(c) THEN (CHOOSE g \in granted : g.conn = c).by ELSE NoOne]
ImplementsConsent == Policy!Spec
=============================================================================
