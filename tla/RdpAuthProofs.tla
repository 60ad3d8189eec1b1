--------------------------- MODULE RdpAuthProofs ----------------------------
(***************************************************************************)
(* Proofs about module RdpAuth, for any peers, users and administrators    *)
(* and any number of deaths: its variables keep their types, and a peer    *)
(* streams the session its own request asked for and was allowed, however  *)
(* peers, the monitor and the sessions interleave, die or hang up.         *)
(***************************************************************************)
EXTENDS RdpAuth, SequenceTheorems, TLAPS

AuthSpec == AuthInit /\ [][AuthNext]_authVars

\* The socketpair carries one peer's turn at a time, the turn of the peer that
\* holds the lock; what it brings back is that peer's.
Turn ==
    /\ \A p \in Peers : at[p] = "answer" <=> lock = p
    /\ requests = <<>> \/ \E p \in Peers : requests = <<p>>
    /\ mon.pc # "dead" /\ requests # <<>> => requests = <<lock>> /\ mon.pc = "read" /\ verdicts = <<>>
    /\ mon.pc \notin {"read", "dead"} => mon.who = lock /\ lock \in Peers /\ verdicts = <<>>
    /\ verdicts # <<>> => /\ lock \in Peers /\ verdicts = <<Head(verdicts)>>
                          /\ Head(verdicts).fd \in {None, lock}
                          /\ Head(verdicts).fd = lock => AsAsked(lock, conn[lock])
\* What the monitor has found out about the request it serves.
Knows ==
    /\ mon.pc \in {"look", "take", "seat", "unlink", "start", "wait"} =>
          Asked.secret = "right" /\ Asked.spec.target = None
    /\ mon.pc \in {"shadow", "consent", "view"} =>
          Asked.secret = "right" /\ Asked.spec.target # None
    /\ mon.pc = "consent" => Asked.user \in Admins
    /\ mon.pc = "view" => Asked.spec.target = Asked.user \/ (Asked.user \in Admins /\ Consent \in agreed)
    /\ mon.got => mon.pc = "send" /\ AsAsked(mon.who, conn[mon.who])
\* A peer streams the connection made for it.
Streams == \A p \in Peers : at[p] = "streaming" => stream_of[p] = p /\ AsAsked(p, conn[p])
\* A session that starts is waited for, or on record as unwatched; one that is
\* to be replaced is not there, or on record.
Found ==
    /\ \A u \in Users : remote[u] \in {"starting", "bound"} =>
          u \in unwatched \/ (mon.pc = "wait" /\ u = Asked.user)
    /\ \A u \in Users : remote[u] \in {"bound", "up"} /\ u \notin unwatched => u \in linked
    /\ mon.pc \in {"unlink", "start"} => remote[Asked.user] = "off" \/ Asked.user \in unwatched

AuthInv == AuthTypeOK /\ Turn /\ Knows /\ Streams /\ Found

PeerOK ==
    /\ at \in [Peers -> {"out", "lock", "answer", "streaming", "ended"}]
    /\ claim \in [Peers -> Claims] /\ caller \in [Peers -> BOOLEAN]
    /\ lock \in Peers \cup {None} /\ stream_of \in [Peers -> Peers \cup {None}]
Verdicts == [ok : BOOLEAN, status : Statuses, fd : Peers \cup {None}]
WireOK == requests \in Seq(Peers) /\ verdicts \in Seq(Verdicts)
Places == {"read", "check", "shadow", "consent", "view", "look", "take", "seat", "unlink",
           "start", "wait", "send", "dead"}
MonOK == mon \in [pc : Places, who : Peers \cup {None}, ok : BOOLEAN, status : Statuses, got : BOOLEAN]
ConnOK ==
    /\ conn \in [Peers -> Conns]
    /\ holders \in [Peers -> SUBSET (Peers \cup {"monitor", "wire"})]
WorldOK ==
    /\ console \in [Users -> {"off", "here", "dark"}]
    /\ remote \in [Users -> {"off", "starting", "bound", "up"}]
    /\ linked \subseteq Users /\ unwatched \subseteq Users
    /\ agreed \subseteq Users \X Users \X BOOLEAN
DeathsOK == deaths \in 0..MaxDeaths

\* The type invariant, one part of the state at a time.
LEMMA AuthTypeParts == AuthTypeOK <=> PeerOK /\ WireOK /\ MonOK /\ ConnOK /\ WorldOK /\ DeathsOK
BY DEF AuthTypeOK, PeerOK, WireOK, MonOK, ConnOK, WorldOK, DeathsOK, Places, Verdicts

\* The monitor serves somebody whose claim is a claim.
LEMMA Serving ==
    ASSUME PeerOK, Turn, mon.pc \notin {"read", "dead"}
    PROVE  /\ mon.who \in Peers /\ at[mon.who] = "answer" /\ requests = <<>> /\ verdicts = <<>>
           /\ Asked \in Claims /\ Asked.user \in Users /\ Asked.spec \in Specs
           /\ Asked.spec.target \in Users \cup {None} /\ Asked.spec.control \in BOOLEAN
<1>1. mon.who \in Peers /\ at[mon.who] = "answer" /\ requests = <<>> /\ verdicts = <<>>
  BY DEF Turn
<1>2. Asked \in Claims
  BY <1>1 DEF PeerOK, Asked
<1>3. Asked.user \in Users /\ Asked.spec \in Specs
  BY <1>2 DEF Claims
<1> QED
  BY <1>1, <1>2, <1>3, Zenon DEF Specs

\* A peer's connection still names what it did, and no consent is taken back.
SameConn(p) ==
    /\ conn'[p].kind = conn[p].kind /\ conn'[p].user = conn[p].user /\ conn'[p].control = conn[p].control
    /\ claim'[p] = claim[p] /\ agreed \subseteq agreed'

\* What a peer has stays as it asked while claim and connection stay and
\* consents are only added.
LEMMA StaysAsked ==
    ASSUME NEW p, AsAsked(p, conn[p]), SameConn(p)
    PROVE  AsAsked(p, conn[p])'
BY DEF AsAsked, SameConn

\* A connection is made for the peer served; others only end.
LEMMA AttachMakes ==
    ASSUME ConnOK, mon.who \in Peers, NEW kind \in {"console", "remote", "shadow"}, NEW user \in Users,
           NEW control \in BOOLEAN, Attaches(kind, user, control)
    PROVE  /\ ConnOK'
           /\ conn'[mon.who] = [kind |-> kind, user |-> user, control |-> control, live |-> TRUE]
           /\ \A p \in Peers : p # mon.who =>
                conn'[p].kind = conn[p].kind /\ conn'[p].user = conn[p].user /\ conn'[p].control = conn[p].control
<1> DEFINE made == [kind |-> kind, user |-> user, control |-> control, live |-> TRUE]
<1>1. made \in Conns
  BY DEF Conns
<1>2. \A p \in Peers : conn[p] \in Conns
  BY DEF ConnOK
<1>3. ASSUME NEW c \in Conns
      PROVE  /\ [c EXCEPT !.live = FALSE] \in Conns
             /\ [c EXCEPT !.live = FALSE].kind = c.kind /\ [c EXCEPT !.live = FALSE].user = c.user
             /\ [c EXCEPT !.live = FALSE].control = c.control
  BY Zenon DEF Conns
<1>4. /\ conn' = [p \in Peers |-> conn'[p]]
      /\ conn'[mon.who] = made
      /\ \A p \in Peers : p # mon.who => conn'[p] \in {conn[p], [conn[p] EXCEPT !.live = FALSE]}
  BY DEF Attaches
<1>5. \A p \in Peers : conn'[p] \in Conns
  BY <1>1, <1>2, <1>3, <1>4
<1>6. holders' \in [Peers -> SUBSET (Peers \cup {"monitor", "wire"})]
  BY DEF Attaches, ConnOK
<1>7. ConnOK'
  BY <1>4, <1>5, <1>6 DEF ConnOK
<1> QED
  BY <1>2, <1>3, <1>4, <1>7, Zenon

\* Types, when the monitor takes a step.
LEMMA MonitorTypes ==
    ASSUME PeerOK, WireOK, MonOK, ConnOK, WorldOK, DeathsOK, Turn, Knows, MonitorStep
    PROVE  PeerOK' /\ WireOK' /\ MonOK' /\ ConnOK' /\ WorldOK' /\ DeathsOK'
<1>1. UNCHANGED <<peerVars, deaths>> /\ mon.pc # "dead"
  BY Zenon DEF MonitorStep, Monitor, monitor_loop, monitor_check, shadow_for, ask_console_consent, start_shadow, session_for, take_over_console, reconnect, unlink_priv, systemd_run, wait_for_session, send_verdict
<1>2. PeerOK' /\ DeathsOK'
  BY <1>1 DEF PeerOK, DeathsOK, peerVars
<1>3. CASE monitor_loop
  <2>1. requests # <<>> /\ Head(requests) \in Peers /\ requests' \in Seq(Peers)
    BY <1>3, HeadTailProperties DEF monitor_loop, WireOK
  <2>2. WireOK' /\ ConnOK' /\ WorldOK'
    BY <1>3, <2>1 DEF monitor_loop, NoAttach, WireOK, ConnOK, WorldOK, worldVars
  <2>3. MonOK'
    BY <1>3, <2>1, Zenon DEF monitor_loop, Idle, MonOK, Places, Statuses
  <2> QED
    BY <1>2, <2>2, <2>3
<1>4. CASE send_verdict
  <2>1. mon.pc = "send"
    BY <1>4 DEF send_verdict, Monitor
  <2>2. mon.who \in Peers
    BY <2>1, Serving
  <2>3. [ok |-> mon.ok, status |-> mon.status, fd |-> IF mon.got THEN mon.who ELSE None] \in Verdicts
    BY <2>2 DEF MonOK, Verdicts
  <2>4. verdicts' \in Seq(Verdicts)
    BY <1>4, <2>3, AppendProperties DEF send_verdict, WireOK
  <2>5. WireOK' /\ WorldOK'
    BY <1>4, <2>4 DEF send_verdict, WireOK, WorldOK, worldVars
  <2>6. MonOK'
    BY <1>4 DEF send_verdict, Idle, MonOK, Places, Statuses
  <2>7. ConnOK'
    BY <1>4, <2>2 DEF send_verdict, ConnOK, Passed
  <2> QED
    BY <1>2, <2>5, <2>6, <2>7
<1>5. CASE monitor_check
  <2>0. mon.pc = "check" /\ UNCHANGED <<requests, verdicts>>
    BY <1>5 DEF monitor_check, Monitor
  <2>1. WireOK'
    BY <2>0 DEF WireOK
  <2>2. MonOK'
    BY <1>5, Zenon DEF monitor_check, NoAttach, MonOK, Places, Statuses
  <2>3. Asked.user \in Users /\ Asked.spec.target \in Users \cup {None} /\ Asked.spec.control \in BOOLEAN
    BY <2>0, Serving
  <2>4. ConnOK'
    BY <1>5 DEF monitor_check, NoAttach, ConnOK
  <2>5. WorldOK'
    BY <1>5, <2>3 DEF monitor_check, NoAttach, WorldOK, worldVars
  <2> QED
    BY <1>2, <2>1, <2>2, <2>4, <2>5
<1>6. CASE shadow_for
  <2>0. mon.pc = "shadow" /\ UNCHANGED <<requests, verdicts>>
    BY <1>6 DEF shadow_for, Monitor
  <2>1. WireOK'
    BY <2>0 DEF WireOK
  <2>2. MonOK'
    BY <1>6, Zenon DEF shadow_for, NoAttach, Ends, Goto, MonOK, Places, Statuses
  <2>3. Asked.user \in Users /\ Asked.spec.target \in Users /\ Asked.spec.control \in BOOLEAN
    BY <2>0, Serving DEF Knows
  <2>4. ConnOK'
    BY <1>6 DEF shadow_for, NoAttach, Ends, Goto, ConnOK
  <2>5. WorldOK'
    BY <1>6, <2>3 DEF shadow_for, NoAttach, Ends, Goto, WorldOK, worldVars
  <2> QED
    BY <1>2, <2>1, <2>2, <2>4, <2>5
<1>7. CASE ask_console_consent
  <2>0. mon.pc = "consent" /\ UNCHANGED <<requests, verdicts>>
    BY <1>7 DEF ask_console_consent, Monitor
  <2>1. WireOK'
    BY <2>0 DEF WireOK
  <2>2. MonOK'
    BY <1>7, Zenon DEF ask_console_consent, NoAttach, Ends, Goto, Consent, MonOK, Places, Statuses
  <2>3. Asked.user \in Users /\ Asked.spec.target \in Users /\ Asked.spec.control \in BOOLEAN
    BY <2>0, Serving DEF Knows
  <2>4. ConnOK'
    BY <1>7 DEF ask_console_consent, NoAttach, Ends, Goto, Consent, ConnOK
  <2>5. WorldOK'
    BY <1>7, <2>3 DEF ask_console_consent, NoAttach, Ends, Goto, Consent, WorldOK, worldVars
  <2> QED
    BY <1>2, <2>1, <2>2, <2>4, <2>5
<1>8. CASE start_shadow
  <2>0. mon.pc = "view" /\ UNCHANGED <<requests, verdicts>>
    BY <1>8 DEF start_shadow, Monitor
  <2>1. WireOK'
    BY <2>0 DEF WireOK
  <2>2. MonOK'
    BY <1>8, Zenon DEF start_shadow, NoAttach, Ends, Attaches, MonOK, Places, Statuses
  <2>3. mon.who \in Peers /\ Asked.user \in Users /\ Asked.spec.target \in Users /\ Asked.spec.control \in BOOLEAN
    BY <2>0, Serving DEF Knows
  <2>4. ConnOK'
    BY <1>8, <2>3, AttachMakes, Zenon DEF start_shadow, NoAttach, ConnOK
  <2>5. WorldOK'
    BY <1>8, <2>3 DEF start_shadow, NoAttach, Ends, Attaches, WorldOK, worldVars
  <2> QED
    BY <1>2, <2>1, <2>2, <2>4, <2>5
<1>9. CASE session_for
  <2>0. mon.pc = "look" /\ UNCHANGED <<requests, verdicts>>
    BY <1>9 DEF session_for, Monitor
  <2>1. WireOK'
    BY <2>0 DEF WireOK
  <2>2. MonOK'
    BY <1>9, Zenon DEF session_for, NoAttach, Ends, Goto, MonOK, Places, Statuses
  <2>3. Asked.user \in Users /\ Asked.spec.target \in Users \cup {None} /\ Asked.spec.control \in BOOLEAN
    BY <2>0, Serving
  <2>4. ConnOK'
    BY <1>9 DEF session_for, NoAttach, Ends, Goto, ConnOK
  <2>5. WorldOK'
    BY <1>9, <2>3 DEF session_for, NoAttach, Ends, Goto, WorldOK, worldVars
  <2> QED
    BY <1>2, <2>1, <2>2, <2>4, <2>5
<1>10. CASE take_over_console
  <2>0. mon.pc = "take" /\ UNCHANGED <<requests, verdicts>>
    BY <1>10 DEF take_over_console, Monitor
  <2>1. WireOK'
    BY <2>0 DEF WireOK
  <2>2. MonOK'
    BY <1>10, Zenon DEF take_over_console, NoAttach, Ends, Attaches, MonOK, Places, Statuses
  <2>3. mon.who \in Peers /\ Asked.user \in Users /\ Asked.spec.target \in Users \cup {None} /\ Asked.spec.control \in BOOLEAN
    BY <2>0, Serving
  <2>4. ConnOK'
    BY <1>10, <2>3, AttachMakes, Zenon DEF take_over_console, NoAttach, ConnOK
  <2>5. WorldOK'
    BY <1>10, <2>3 DEF take_over_console, NoAttach, Ends, Attaches, WorldOK, worldVars
  <2> QED
    BY <1>2, <2>1, <2>2, <2>4, <2>5
<1>11. CASE reconnect
  <2>0. mon.pc = "seat" /\ UNCHANGED <<requests, verdicts>>
    BY <1>11 DEF reconnect, Monitor
  <2>1. WireOK'
    BY <2>0 DEF WireOK
  <2>2. MonOK'
    BY <1>11, Zenon DEF reconnect, NoAttach, Ends, Goto, Attaches, MonOK, Places, Statuses
  <2>3. mon.who \in Peers /\ Asked.user \in Users /\ Asked.spec.target \in Users \cup {None} /\ Asked.spec.control \in BOOLEAN
    BY <2>0, Serving
  <2>4. ConnOK'
    BY <1>11, <2>3, AttachMakes, Zenon DEF reconnect, NoAttach, ConnOK
  <2>5. WorldOK'
    BY <1>11, <2>3 DEF reconnect, NoAttach, Ends, Goto, Attaches, WorldOK, worldVars
  <2> QED
    BY <1>2, <2>1, <2>2, <2>4, <2>5
<1>12. CASE unlink_priv
  <2>0. mon.pc = "unlink" /\ UNCHANGED <<requests, verdicts>>
    BY <1>12 DEF unlink_priv, Monitor
  <2>1. WireOK'
    BY <2>0 DEF WireOK
  <2>2. MonOK'
    BY <1>12 DEF unlink_priv, NoAttach, Goto, MonOK, Places, Statuses
  <2>3. Asked.user \in Users /\ Asked.spec.target \in Users \cup {None} /\ Asked.spec.control \in BOOLEAN
    BY <2>0, Serving
  <2>4. ConnOK'
    BY <1>12 DEF unlink_priv, NoAttach, Goto, ConnOK
  <2>5. WorldOK'
    BY <1>12, <2>3 DEF unlink_priv, NoAttach, Goto, WorldOK, worldVars
  <2> QED
    BY <1>2, <2>1, <2>2, <2>4, <2>5
<1>13. CASE systemd_run
  <2>0. mon.pc = "start" /\ UNCHANGED <<requests, verdicts>>
    BY <1>13 DEF systemd_run, Monitor
  <2>1. WireOK'
    BY <2>0 DEF WireOK
  <2>2. MonOK'
    BY <1>13, Zenon DEF systemd_run, NoAttach, Ends, Goto, MonOK, Places, Statuses
  <2>3. Asked.user \in Users /\ Asked.spec.target \in Users \cup {None} /\ Asked.spec.control \in BOOLEAN
    BY <2>0, Serving
  <2>4. ConnOK'
    BY <1>13 DEF systemd_run, NoAttach, Ends, Goto, ConnOK
  <2>5. WorldOK'
    BY <1>13, <2>3 DEF systemd_run, NoAttach, Ends, Goto, WorldOK, worldVars
  <2> QED
    BY <1>2, <2>1, <2>2, <2>4, <2>5
<1>14. CASE wait_for_session
  <2>0. mon.pc = "wait" /\ UNCHANGED <<requests, verdicts>>
    BY <1>14 DEF wait_for_session, Monitor
  <2>1. WireOK'
    BY <2>0 DEF WireOK
  <2>2. MonOK'
    BY <1>14, Zenon DEF wait_for_session, NoAttach, Ends, Attaches, MonOK, Places, Statuses
  <2>3. mon.who \in Peers /\ Asked.user \in Users /\ Asked.spec.target \in Users \cup {None} /\ Asked.spec.control \in BOOLEAN
    BY <2>0, Serving
  <2>4. ConnOK'
    BY <1>14, <2>3, AttachMakes, Zenon DEF wait_for_session, NoAttach, ConnOK
  <2>5. WorldOK'
    BY <1>14, <2>3 DEF wait_for_session, NoAttach, Ends, Attaches, WorldOK, worldVars
  <2> QED
    BY <1>2, <2>1, <2>2, <2>4, <2>5
<1> QED
  BY <1>3, <1>4, <1>5, <1>6, <1>7, <1>8, <1>9, <1>10, <1>11, <1>12, <1>13, <1>14 DEF MonitorStep

\* What a peer, or its client, may do.
PeerMoves(p) == PeerStep(p) \/ Refused(p) \/ Disconnects(p) \/ \E c \in Asking : authenticate(p, c)

\* Types, when a peer takes a step.
LEMMA PeerTypes ==
    ASSUME PeerOK, WireOK, MonOK, ConnOK, WorldOK, DeathsOK, NEW p \in Peers, PeerMoves(p)
    PROVE  PeerOK' /\ WireOK' /\ MonOK' /\ ConnOK' /\ WorldOK' /\ DeathsOK'
<1>1. UNCHANGED <<mon, conn, worldVars, unwatched, agreed, deaths>>
  BY DEF PeerMoves, PeerStep, ask_monitor, recv_verdict, peer_thread, Refused, Disconnects, authenticate
<1>2. MonOK' /\ WorldOK' /\ DeathsOK'
  BY <1>1 DEF MonOK, WorldOK, DeathsOK, worldVars
<1>3. ASSUME NEW c \in Asking, authenticate(p, c) PROVE PeerOK' /\ WireOK' /\ ConnOK'
  BY <1>3, AuthConstants DEF authenticate, PeerOK, WireOK, ConnOK
<1>4. CASE Refused(p) \/ Disconnects(p)
  BY <1>2, <1>4, Zenon DEF Refused, Disconnects, PeerOK, WireOK, ConnOK
<1>5. CASE ask_monitor(p)
  <2>1. requests' \in Seq(Peers)
    <3>1. requests \in Seq(Peers) /\ requests' \in {requests, Append(requests, p)}
      BY <1>5 DEF ask_monitor, WireOK
    <3>2. Append(requests, p) \in Seq(Peers)
      BY <3>1, AppendProperties
    <3> QED
      BY <3>1, <3>2
  <2>2. PeerOK'
    BY <1>5 DEF ask_monitor, EnterCriticalSection, PeerOK
  <2>3. WireOK'
    BY <1>5, <2>1 DEF ask_monitor, EnterCriticalSection, WireOK
  <2>4. ConnOK'
    BY <1>5 DEF ask_monitor, EnterCriticalSection, ConnOK
  <2> QED
    BY <1>2, <2>2, <2>3, <2>4
<1>6. CASE recv_verdict(p)
  <2>1. CASE verdicts = <<>>
    BY <1>2, <1>6, <2>1 DEF recv_verdict, PeerOK, WireOK, ConnOK
  <2>2. CASE verdicts # <<>>
    <3>1. Head(verdicts) \in Verdicts /\ Tail(verdicts) \in Seq(Verdicts)
      BY <2>2, HeadTailProperties DEF WireOK
    <3>2. Head(verdicts).fd \in Peers \cup {None}
      BY <3>1 DEF Verdicts
    <3>3. WireOK'
      BY <1>6, <2>2, <3>1, Zenon DEF recv_verdict, WireOK
    <3>4. PeerOK'
      BY <1>6, <2>2, <3>2 DEF recv_verdict, PeerOK
    <3>5. ConnOK'
      BY <1>6, <2>2, <3>2 DEF recv_verdict, ConnOK
    <3> QED
      BY <1>2, <3>3, <3>4, <3>5
  <2> QED
    BY <2>1, <2>2
<1>7. CASE peer_thread(p)
  BY <1>2, <1>7, Zenon DEF peer_thread, PeerOK, WireOK, ConnOK
<1> QED
  BY <1>2, <1>3, <1>4, <1>5, <1>6, <1>7 DEF PeerMoves, PeerStep

\* What sessions end goes on naming its session.
LEMMA DiesKeeps ==
    ASSUME ConnOK, NEW u, NEW kinds, Dies(u, kinds)
    PROVE  /\ conn' \in [Peers -> Conns]
           /\ \A p \in Peers : conn'[p].kind = conn[p].kind /\ conn'[p].user = conn[p].user
                               /\ conn'[p].control = conn[p].control
<1>1. /\ conn' = [p \in Peers |-> conn'[p]]
      /\ \A p \in Peers : conn'[p] = [conn[p] EXCEPT !.live = conn[p].live /\ ~(conn[p].user = u /\ conn[p].kind \in kinds)]
  BY DEF Dies
<1>2. ASSUME NEW p \in Peers
      PROVE  /\ conn'[p] \in Conns /\ conn'[p].kind = conn[p].kind /\ conn'[p].user = conn[p].user
             /\ conn'[p].control = conn[p].control
  <2> DEFINE b == conn[p].live /\ ~(conn[p].user = u /\ conn[p].kind \in kinds)
  <2>1. conn'[p] = [conn[p] EXCEPT !.live = b]
    BY <1>1
  <2>2. b \in BOOLEAN
    OBVIOUS
  <2>3. conn[p] \in Conns
    BY DEF ConnOK
  <2> HIDE DEF b
  <2> QED
    BY <2>1, <2>2, <2>3 DEF Conns
<1> QED
  BY <1>1, <1>2

\* What happens to a user's sessions.
SessionMoves(u) ==
    \/ SignsIn(u) \/ SignsOut(u) \/ CtrlAltDel(u) \/ GivenBack(u)
    \/ SessionBinds(u) \/ SessionListens(u) \/ RemoteEnds(u)

\* Types, when a session takes a step; every connection goes on naming the
\* session it was made to.
LEMMA SessionTypes ==
    ASSUME PeerOK, WireOK, MonOK, ConnOK, WorldOK, DeathsOK, NEW u \in Users, SessionMoves(u)
    PROVE  /\ PeerOK' /\ WireOK' /\ MonOK' /\ ConnOK' /\ WorldOK' /\ DeathsOK'
           /\ UNCHANGED <<peerVars, requests, verdicts, mon, holders, unwatched, agreed, deaths>>
           /\ \A p \in Peers : SameConn(p)
<1>1. UNCHANGED <<peerVars, requests, verdicts, mon, holders, unwatched, agreed, deaths>>
  BY DEF SessionMoves, SignsIn, SignsOut, CtrlAltDel, GivenBack, SessionBinds, SessionListens, RemoteEnds, Elsewhere
<1>2. UNCHANGED conn \/ \E kinds : Dies(u, kinds)
  BY DEF SessionMoves, SignsIn, SignsOut, CtrlAltDel, GivenBack, SessionBinds, SessionListens, RemoteEnds
<1>3. /\ conn' \in [Peers -> Conns]
      /\ \A p \in Peers : conn'[p].kind = conn[p].kind /\ conn'[p].user = conn[p].user
                          /\ conn'[p].control = conn[p].control
  BY <1>2, DiesKeeps DEF ConnOK
<1>4. PeerOK' /\ WireOK' /\ MonOK' /\ ConnOK' /\ DeathsOK'
  BY <1>1, <1>3 DEF PeerOK, WireOK, MonOK, ConnOK, DeathsOK, peerVars
<1>5. WorldOK'
  BY <1>1 DEF WorldOK, SessionMoves, SignsIn, SignsOut, CtrlAltDel, GivenBack, SessionBinds, SessionListens, RemoteEnds
<1>6. \A p \in Peers : SameConn(p)
  BY <1>1, <1>3 DEF SameConn, peerVars
<1> QED
  BY <1>1, <1>4, <1>5, <1>6

\* Types, when the monitor or the daemon dies.
LEMMA DeathTypes ==
    ASSUME PeerOK, WireOK, MonOK, ConnOK, WorldOK, DeathsOK, MonitorDies \/ DaemonDies
    PROVE  PeerOK' /\ WireOK' /\ MonOK' /\ ConnOK' /\ WorldOK' /\ DeathsOK'
<1>1. PeerOK' /\ WireOK' /\ ConnOK' /\ WorldOK'
  <2>1. CASE MonitorDies
    BY <2>1 DEF MonitorDies, PeerOK, WireOK, ConnOK, WorldOK, Abandoned, peerVars, worldVars
  <2>2. CASE DaemonDies
    <3>1. PeerOK'
      BY <2>2 DEF DaemonDies, PeerOK
    <3>2. WireOK'
      BY <2>2, EmptySeq DEF DaemonDies, WireOK
    <3>3. ConnOK' /\ WorldOK'
      BY <2>2 DEF DaemonDies, ConnOK, WorldOK, Abandoned, worldVars
    <3> QED
      BY <3>1, <3>2, <3>3
  <2> QED
    BY <2>1, <2>2
<1>2. MonOK'
  <2>1. mon' \in {Idle, [Idle EXCEPT !.pc = "dead"]}
    BY DEF MonitorDies, DaemonDies
  <2>3. mon' = Idle => MonOK'
    BY DEF MonOK, Idle, Places, Statuses
  <2>4. mon' = [Idle EXCEPT !.pc = "dead"] => MonOK'
    BY Zenon DEF MonOK, Idle, Places, Statuses
  <2> QED
    BY <2>1, <2>3, <2>4
<1>3. DeathsOK'
  BY AuthConstants DEF MonitorDies, DaemonDies, DeathsOK
<1> QED
  BY <1>1, <1>2, <1>3

-----------------------------------------------------------------------------
(* What the monitor knows stays true while others move.                    *)

\* The claim being served and the connection made for it stay as they are.
Undisturbed == mon.pc \notin {"read", "dead"} => SameConn(mon.who)

\* What the monitor has found out stays so while it does not move.
LEMMA KnowsStill ==
    ASSUME Knows, mon' = mon, Undisturbed, agreed \subseteq agreed'
    PROVE  Knows'
<1>1. CASE mon.pc \in {"read", "dead"}
  BY <1>1 DEF Knows
<1>2. CASE mon.pc \notin {"read", "dead"}
  <2>1. claim'[mon.who] = claim[mon.who] /\ SameConn(mon.who)
    BY <1>2 DEF Undisturbed, SameConn
  <2>2. mon.got => AsAsked(mon.who, conn[mon.who])'
    BY <2>1, StaysAsked DEF Knows
  <2> QED
    BY <2>1, <2>2 DEF Knows, Asked, Consent
<1> QED
  BY <1>1, <1>2

\* So does what is on record of the sessions.
LEMMA FoundStill ==
    ASSUME Found, UNCHANGED <<mon, remote, linked, unwatched>>, Undisturbed
    PROVE  Found'
BY DEF Found, Undisturbed, SameConn, Asked

\* A peer that waits goes on waiting, one that streams goes on streaming.
LEMMA StreamsStill ==
    ASSUME Streams, at' = at, stream_of' = stream_of,
           \A p \in Peers : at[p] = "streaming" => SameConn(p)
    PROVE  Streams'
BY StaysAsked DEF Streams

-----------------------------------------------------------------------------
(* Peers.                                                                  *)

\* A peer that starts to authenticate is not the one being served.
LEMMA AuthenticateStep ==
    ASSUME AuthInv, PeerOK, NEW p \in Peers, NEW c \in Asking, authenticate(p, c)
    PROVE  Turn' /\ Knows' /\ Streams' /\ Found'
<1>1. /\ UNCHANGED <<lock, stream_of, requests, verdicts, mon, conn, remote, linked, unwatched, agreed>>
      /\ at[p] = "out" /\ at' = [at EXCEPT ![p] = "lock"]
      /\ \A q \in Peers : q # p => claim'[q] = claim[q]
  BY DEF authenticate, worldVars, PeerOK
<1>2. lock # p /\ (mon.pc \notin {"read", "dead"} => mon.who # p /\ mon.who \in Peers)
  BY <1>1 DEF AuthInv, Turn
<1>3. \A q \in Peers : q # p => SameConn(q)
  BY <1>1 DEF SameConn
<1>4. Undisturbed
  BY <1>2, <1>3 DEF Undisturbed
<1>5. Knows' /\ Found'
  BY <1>1, <1>4, KnowsStill, FoundStill DEF AuthInv
<1>6. Streams'
  BY <1>1, <1>3, StaysAsked DEF AuthInv, Streams, PeerOK
<1>7. Turn'
  <2>1. verdicts # <<>> /\ Head(verdicts).fd = lock => AsAsked(lock, conn[lock])'
    BY <1>1, <1>2, <1>3, StaysAsked DEF AuthInv, Turn
  <2>2. \A q \in Peers : at'[q] = "answer" <=> lock' = q
    BY <1>1, <1>2 DEF AuthInv, Turn, PeerOK
  <2> QED
    BY <1>1, <2>1, <2>2 DEF AuthInv, Turn
<1> QED
  BY <1>5, <1>6, <1>7

\* A peer refused before it asks, or that goes after it was let go, disturbs
\* nobody.
LEMMA QuietStep ==
    ASSUME AuthInv, PeerOK, NEW p \in Peers, Refused(p) \/ Disconnects(p)
    PROVE  Turn' /\ Knows' /\ Streams' /\ Found'
<1>1. /\ UNCHANGED <<claim, lock, stream_of, requests, verdicts, mon, conn, remote, linked, unwatched, agreed>>
      /\ at' = at \/ (at[p] = "out" /\ at' = [at EXCEPT ![p] = "ended"])
  BY DEF Refused, Disconnects, worldVars
<1>2. \A q \in Peers : SameConn(q)
  BY <1>1 DEF SameConn
<1>3. Undisturbed
  BY <1>1 DEF Undisturbed, SameConn
<1>4. Knows' /\ Found'
  BY <1>1, <1>3, KnowsStill, FoundStill DEF AuthInv
<1>5. Streams'
  BY <1>1, <1>2, StaysAsked DEF AuthInv, Streams, PeerOK
<1>6. AsAsked(lock, conn[lock])' <=> AsAsked(lock, conn[lock])
  BY <1>1 DEF AsAsked
<1>7. \A q \in Peers : at'[q] = "answer" <=> lock' = q
  BY <1>1 DEF AuthInv, Turn, PeerOK
<1>8. Turn'
  BY <1>1, <1>6, <1>7 DEF AuthInv, Turn
<1> QED
  BY <1>4, <1>5, <1>8

\* Only with the socketpair empty does a peer send its request.
LEMMA AskStep ==
    ASSUME AuthInv, PeerOK, NEW p \in Peers, ask_monitor(p)
    PROVE  Turn' /\ Knows' /\ Streams' /\ Found'
<1>1. /\ UNCHANGED <<claim, stream_of, verdicts, mon, conn, remote, linked, unwatched, agreed>>
      /\ at[p] = "lock" /\ at' = [at EXCEPT ![p] = "answer"] /\ lock = None /\ lock' = p
      /\ requests' = IF mon.pc # "dead" THEN Append(requests, p) ELSE requests
  BY DEF ask_monitor, EnterCriticalSection, worldVars
<1>2. \A q \in Peers : SameConn(q)
  BY <1>1 DEF SameConn
<1>3. Undisturbed
  BY <1>1 DEF Undisturbed, SameConn
<1>4. Knows' /\ Found'
  BY <1>1, <1>3, KnowsStill, FoundStill DEF AuthInv
<1>5. Streams'
  BY <1>1, <1>2, StaysAsked DEF AuthInv, Streams, PeerOK
<1>6. lock \notin Peers
  BY <1>1, AuthConstants
<1>7. verdicts = <<>> /\ mon.pc \in {"read", "dead"}
  BY <1>6 DEF AuthInv, Turn
<1>8. mon.pc # "dead" => requests = <<>>
  <2> SUFFICES ASSUME mon.pc # "dead", requests # <<>> PROVE FALSE
    OBVIOUS
  <2>1. requests = <<lock>>
    BY DEF AuthInv, Turn
  <2>2. PICK q \in Peers : requests = <<q>>
    BY DEF AuthInv, Turn
  <2> QED
    BY <1>6, <2>1, <2>2
<1>9. mon.pc # "dead" => requests' = <<p>>
  <2>1. Append(<<>>, p) = <<p>>
    OBVIOUS
  <2> QED
    BY <1>1, <1>8, <2>1, Zenon
<1>10. \A q \in Peers : at'[q] = "answer" <=> lock' = q
  BY <1>1, <1>6 DEF AuthInv, Turn, PeerOK
<1>11. Turn'
  BY <1>1, <1>7, <1>9, <1>10 DEF AuthInv, Turn
<1> QED
  BY <1>4, <1>5, <1>11

\* The verdict read is the reader's own.
LEMMA ReceiveStep ==
    ASSUME AuthInv, PeerOK, NEW p \in Peers, recv_verdict(p)
    PROVE  Turn' /\ Knows' /\ Streams' /\ Found'
<1>1. /\ UNCHANGED <<claim, requests, mon, conn, remote, linked, unwatched, agreed>>
      /\ at[p] = "answer" /\ lock' = None
      /\ verdicts # <<>> \/ mon.pc = "dead"
  BY DEF recv_verdict, worldVars
<1>2. lock = p
  BY <1>1 DEF AuthInv, Turn
<1>3. \A q \in Peers : SameConn(q)
  BY <1>1 DEF SameConn
<1>4. Undisturbed
  BY <1>1 DEF Undisturbed, SameConn
<1>5. Knows' /\ Found'
  BY <1>1, <1>4, KnowsStill, FoundStill DEF AuthInv
<1>6. mon.pc \in {"read", "dead"} /\ (mon.pc # "dead" => requests = <<>>)
  BY <1>1 DEF AuthInv, Turn
<1>7. verdicts' = <<>>
  <2>1. CASE verdicts = <<>>
    BY <2>1 DEF recv_verdict
  <2>2. CASE verdicts # <<>>
    <3>1. verdicts' = Tail(verdicts) /\ verdicts = <<Head(verdicts)>>
      BY <2>2 DEF recv_verdict, AuthInv, Turn
    <3>2. Tail(<<Head(verdicts)>>) = <<>>
      OBVIOUS
    <3> QED
      BY <3>1, <3>2, Zenon
  <2> QED
    BY <2>1, <2>2
<1>8. at' \in {[at EXCEPT ![p] = "ended"], [at EXCEPT ![p] = "streaming"]}
  BY DEF recv_verdict
<1>9. \A q \in Peers : at'[q] = "answer" <=> lock' = q
  BY <1>1, <1>2, <1>8, AuthConstants DEF AuthInv, Turn, PeerOK
<1>10. Turn'
  BY <1>1, <1>6, <1>7, <1>9 DEF AuthInv, Turn
<1>11. CASE at' = [at EXCEPT ![p] = "ended"]
  <2>1. stream_of' = stream_of
    BY <1>11 DEF recv_verdict, PeerOK
  <2> QED
    BY <1>3, <1>5, <1>10, <1>11, <2>1, StaysAsked DEF AuthInv, Streams, PeerOK
<1>12. CASE at' = [at EXCEPT ![p] = "streaming"]
  <2>1. verdicts # <<>> /\ Head(verdicts).fd # None /\ stream_of' = [stream_of EXCEPT ![p] = Head(verdicts).fd]
    BY <1>12 DEF recv_verdict, PeerOK
  <2>2. Head(verdicts).fd = p /\ AsAsked(p, conn[p])
    BY <1>2, <2>1 DEF AuthInv, Turn
  <2>3. ASSUME NEW q \in Peers, at'[q] = "streaming" PROVE stream_of'[q] = q /\ AsAsked(q, conn[q])'
    <3>1. AsAsked(q, conn[q]) /\ stream_of'[q] = q
      BY <1>12, <2>1, <2>2, <2>3 DEF AuthInv, Streams, PeerOK
    <3> QED
      BY <1>3, <3>1, StaysAsked
  <2> QED
    BY <1>5, <1>10, <2>3 DEF Streams
<1> QED
  BY <1>8, <1>11, <1>12

\* A peer that hangs up stops streaming; the connections of others stay.
LEMMA HangUpStep ==
    ASSUME AuthInv, PeerOK, NEW p \in Peers, peer_thread(p)
    PROVE  Turn' /\ Knows' /\ Streams' /\ Found'
<1>1. /\ UNCHANGED <<claim, lock, requests, verdicts, mon, conn, remote, linked, unwatched, agreed>>
      /\ at[p] = "streaming" /\ at' = [at EXCEPT ![p] = "ended"] /\ stream_of' = [stream_of EXCEPT ![p] = None]
  BY DEF peer_thread, worldVars
<1>2. \A q \in Peers : SameConn(q)
  BY <1>1 DEF SameConn
<1>3. Undisturbed
  BY <1>1 DEF Undisturbed, SameConn
<1>4. Knows' /\ Found'
  BY <1>1, <1>3, KnowsStill, FoundStill DEF AuthInv
<1>5. Streams'
  BY <1>1, <1>2, StaysAsked DEF AuthInv, Streams, PeerOK
<1>6. AsAsked(lock, conn[lock])' <=> AsAsked(lock, conn[lock])
  BY <1>1 DEF AsAsked
<1>7. \A q \in Peers : at'[q] = "answer" <=> lock' = q
  BY <1>1 DEF AuthInv, Turn, PeerOK
<1>8. Turn'
  BY <1>1, <1>6, <1>7 DEF AuthInv, Turn
<1> QED
  BY <1>4, <1>5, <1>8

-----------------------------------------------------------------------------
(* Sessions and deaths.                                                    *)

\* A session that starts, listens or ends leaves every turn as it is, and is
\* found by its link or on record as unwatched.
LEMMA SessionStep ==
    ASSUME AuthInv, PeerOK, WireOK, MonOK, ConnOK, WorldOK, DeathsOK, NEW u \in Users, SessionMoves(u)
    PROVE  Turn' /\ Knows' /\ Streams' /\ Found'
<1>1. UNCHANGED <<at, claim, lock, stream_of, requests, verdicts, mon, unwatched, agreed>>
      /\ \A p \in Peers : SameConn(p)
  BY SessionTypes DEF peerVars
<1>2. Undisturbed
  BY <1>1 DEF AuthInv, Turn, Undisturbed
<1>3. Knows'
  BY <1>1, <1>2, KnowsStill DEF AuthInv
<1>4. Streams'
  BY <1>1, StreamsStill DEF AuthInv
<1>5. verdicts # <<>> /\ Head(verdicts).fd = lock => AsAsked(lock, conn[lock])'
  BY <1>1, StaysAsked DEF AuthInv, Turn
<1>6. Turn'
  BY <1>1, <1>5 DEF AuthInv, Turn
<1>7. Found'
  <2>1. \A v \in Users : remote'[v] \in {"starting", "bound"} => remote[v] \in {"starting", "bound"}
    BY DEF SessionMoves, SignsIn, SignsOut, CtrlAltDel, GivenBack, SessionBinds, SessionListens, RemoteEnds, WorldOK
  <2>2. \A v \in Users : remote'[v] \in {"bound", "up"} => v \in linked' \/ (remote[v] \in {"bound", "up"} /\ v \notin linked)
    BY DEF SessionMoves, SignsIn, SignsOut, CtrlAltDel, GivenBack, SessionBinds, SessionListens, RemoteEnds, WorldOK
  <2>3. \A v \in Users : remote[v] = "off" => remote'[v] = "off"
    BY DEF SessionMoves, SignsIn, SignsOut, CtrlAltDel, GivenBack, SessionBinds, SessionListens, RemoteEnds, WorldOK
  <2>4. mon.pc \in {"unlink", "start"} => Asked.user \in Users
    BY Serving DEF AuthInv
  <2>5. Asked' = Asked
    BY <1>1 DEF Asked
  <2> QED
    BY <1>1, <2>1, <2>2, <2>3, <2>4, <2>5 DEF AuthInv, Found
<1> QED
  BY <1>3, <1>4, <1>6, <1>7

\* When the monitor or the daemon dies the turn in progress is given up, and
\* what was starting goes on record as unwatched.
LEMMA DeathStep ==
    ASSUME AuthInv, PeerOK, MonOK, WorldOK, MonitorDies \/ DaemonDies
    PROVE  Turn' /\ Knows' /\ Streams' /\ Found'
<1>1. /\ UNCHANGED <<claim, conn, remote, linked, agreed>>
      /\ unwatched' = unwatched \cup {u \in Users : remote[u] \in {"starting", "bound"}}
      /\ mon'.pc \in {"read", "dead"} /\ ~mon'.got
  BY DEF MonitorDies, DaemonDies, worldVars, peerVars, Abandoned, Idle
<1>2. Knows'
  BY <1>1 DEF Knows
<1>3. Found'
  BY <1>1 DEF AuthInv, Found
<1>4. \A q \in Peers : SameConn(q)
  BY <1>1 DEF SameConn
<1>5. CASE MonitorDies
  <2>1. UNCHANGED <<at, lock, stream_of, requests, verdicts>> /\ mon'.pc = "dead"
    BY <1>5 DEF MonitorDies, peerVars, Idle
  <2>2. Streams'
    BY <1>4, <2>1, StreamsStill DEF AuthInv
  <2>3. AsAsked(lock, conn[lock])' <=> AsAsked(lock, conn[lock])
    BY <1>1, <2>1 DEF AsAsked
  <2>4. Turn'
    BY <2>1, <2>3 DEF AuthInv, Turn
  <2> QED
    BY <1>2, <1>3, <2>2, <2>4
<1>6. CASE DaemonDies
  <2>1. /\ mon'.pc = "read" /\ requests' = <<>> /\ verdicts' = <<>> /\ lock' = None
        /\ \A p \in Peers : at'[p] \in {"out", "ended"}
    BY <1>6 DEF DaemonDies, Idle
  <2>2. Turn' /\ Streams'
    BY <2>1, AuthConstants DEF Turn, Streams
  <2> QED
    BY <1>2, <1>3, <2>2
<1> QED
  BY <1>5, <1>6

-----------------------------------------------------------------------------
(* The monitor.                                                            *)

\* While it serves one peer the others are left alone.
LEMMA MonitorKeeps ==
    ASSUME AuthInv, PeerOK, mon.pc \notin {"read", "dead"}, UNCHANGED <<peerVars, requests, verdicts>>,
           mon'.who = mon.who, mon'.pc \notin {"read", "dead"},
           \A q \in Peers : q # mon.who => SameConn(q)
    PROVE  Turn' /\ Streams' /\ Asked' = Asked
<1>1. mon.who \in Peers /\ at[mon.who] = "answer" /\ requests = <<>> /\ verdicts = <<>>
  BY Serving DEF AuthInv
<1>2. Turn'
  BY <1>1 DEF AuthInv, Turn, peerVars
<1>3. Streams'
  BY <1>1, StreamsStill DEF AuthInv, peerVars
<1> QED
  BY <1>2, <1>3 DEF Asked, peerVars

\* The request read is the one the lock's holder sent.
LEMMA ReadStep ==
    ASSUME AuthInv, PeerOK, monitor_loop
    PROVE  Turn' /\ Knows' /\ Streams' /\ Found'
<1>1. /\ mon.pc = "read" /\ requests # <<>> /\ requests' = Tail(requests)
      /\ mon' = [Idle EXCEPT !.pc = "check", !.who = Head(requests)]
      /\ UNCHANGED <<at, claim, lock, stream_of, conn, verdicts, remote, linked, unwatched, agreed>>
  BY DEF monitor_loop, Monitor, NoAttach, peerVars, worldVars
<1>2. requests = <<lock>> /\ verdicts = <<>> /\ lock \in Peers
  <2>1. requests = <<lock>> /\ verdicts = <<>> /\ \E p \in Peers : requests = <<p>>
    BY <1>1 DEF AuthInv, Turn
  <2> QED
    BY <2>1
<1>3. Head(requests) = lock /\ requests' = <<>>
  <2>1. Head(<<lock>>) = lock /\ Tail(<<lock>>) = <<>>
    OBVIOUS
  <2> QED
    BY <1>1, <1>2, <2>1
<1>4. mon'.pc = "check" /\ mon'.who = lock /\ ~mon'.got
  BY <1>1, <1>3 DEF Idle
<1>5. Turn'
  BY <1>1, <1>2, <1>3, <1>4 DEF AuthInv, Turn
<1>6. Knows'
  BY <1>4 DEF Knows
<1>7. \A p \in Peers : SameConn(p)
  BY <1>1 DEF SameConn
<1>8. Streams'
  BY <1>1, <1>7, StreamsStill DEF AuthInv
<1>9. Found'
  BY <1>1, <1>4 DEF AuthInv, Found
<1> QED
  BY <1>5, <1>6, <1>8, <1>9

\* The verdict goes to the peer it is about.
LEMMA SendStep ==
    ASSUME AuthInv, PeerOK, MonOK, send_verdict
    PROVE  Turn' /\ Knows' /\ Streams' /\ Found'
<1> DEFINE v == [ok |-> mon.ok, status |-> mon.status, fd |-> IF mon.got THEN mon.who ELSE None]
<1>1. /\ mon.pc = "send" /\ mon' = Idle /\ verdicts' = Append(verdicts, v)
      /\ UNCHANGED <<at, claim, lock, stream_of, requests, conn, remote, linked, unwatched, agreed>>
  BY DEF send_verdict, Monitor, peerVars, worldVars
<1>2. mon.who \in Peers /\ requests = <<>> /\ verdicts = <<>> /\ lock = mon.who
  BY <1>1, Serving DEF AuthInv, Turn
<1>3. v.fd = (IF mon.got THEN mon.who ELSE None)
  OBVIOUS
<1>4. mon.got => AsAsked(mon.who, conn[mon.who])
  BY DEF AuthInv, Knows
<1> HIDE DEF v
<1>5. verdicts' = <<v>> /\ Head(verdicts') = v /\ verdicts' # <<>>
  <2>1. Append(<<>>, v) = <<v>> /\ Head(<<v>>) = v
    OBVIOUS
  <2> QED
    BY <1>1, <1>2, <2>1
<1>6. mon'.pc = "read" /\ ~mon'.got
  BY <1>1 DEF Idle
<1>7. \A p \in Peers : SameConn(p)
  BY <1>1 DEF SameConn
<1>8. v.fd = lock => AsAsked(lock, conn[lock])'
  BY <1>2, <1>3, <1>4, <1>7, StaysAsked, AuthConstants, <1>1
<1>9. Turn'
  BY <1>1, <1>2, <1>3, <1>5, <1>6, <1>8 DEF AuthInv, Turn
<1>10. Knows'
  BY <1>6 DEF Knows
<1>11. Streams'
  BY <1>1, <1>7, StreamsStill DEF AuthInv
<1>12. Found'
  BY <1>1, <1>6 DEF AuthInv, Found
<1> QED
  BY <1>9, <1>10, <1>11, <1>12

\* A session found, taken over, started or shadowed is the one asked for.
LEMMA AttachStep ==
    ASSUME AuthInv, PeerOK, MonOK, ConnOK, start_shadow \/ take_over_console \/ reconnect \/ wait_for_session,
           NEW kind \in {"console", "remote", "shadow"}, NEW user \in Users, NEW control \in BOOLEAN,
           Attaches(kind, user, control),
           kind = "shadow" <=> mon.pc = "view",
           kind = "shadow" => user = Asked.spec.target /\ control = Asked.spec.control,
           kind # "shadow" => user = Asked.user,
           UNCHANGED <<peerVars, requests, verdicts, agreed>>
    PROVE  Turn' /\ Knows' /\ Streams'
<1>1. mon.pc \in {"view", "take", "seat", "wait"}
  BY Zenon DEF start_shadow, take_over_console, reconnect, wait_for_session, Monitor
<1>2. mon.who \in Peers
  BY <1>1, Serving DEF AuthInv
<1>3. mon'.pc = "send" /\ mon'.who = mon.who
  BY DEF Attaches, MonOK
<1>4. /\ conn'[mon.who] = [kind |-> kind, user |-> user, control |-> control, live |-> TRUE]
      /\ \A q \in Peers : q # mon.who => SameConn(q)
  BY <1>2, AttachMakes DEF SameConn, peerVars
<1>5. Turn' /\ Streams' /\ Asked' = Asked
  BY <1>1, <1>3, <1>4, MonitorKeeps
<1>6. AsAsked(mon.who, conn'[mon.who])
  <2>1. conn'[mon.who].kind = kind /\ conn'[mon.who].user = user /\ conn'[mon.who].control = control
    BY <1>4
  <2>2. CASE kind = "shadow"
    BY <2>1, <2>2 DEF AuthInv, Knows, AsAsked, Asked, Consent
  <2>3. CASE kind # "shadow"
    BY <1>1, <2>1, <2>3 DEF AuthInv, Knows, AsAsked, Asked
  <2> QED
    BY <2>2, <2>3
<1>7. AsAsked(mon.who, conn[mon.who])'
  BY <1>3, <1>6 DEF AsAsked, peerVars
<1>8. Knows'
  BY <1>3, <1>7 DEF Knows
<1> QED
  BY <1>5, <1>8

\* The request is checked and a session looked for.
LEMMA SearchStep ==
    ASSUME AuthInv, PeerOK, MonOK, mon.pc \notin {"read", "send", "dead"}, UNCHANGED <<peerVars, requests, verdicts, conn>>,
           agreed \subseteq agreed', NEW pc \in Places \ {"read", "dead"}, mon'.pc = pc,
           mon'.who = mon.who, mon'.got = mon.got,
           pc \in {"look", "take", "seat", "unlink", "start", "wait"} =>
               Asked.secret = "right" /\ Asked.spec.target = None,
           pc \in {"shadow", "consent", "view"} => Asked.secret = "right" /\ Asked.spec.target # None,
           pc = "consent" => Asked.user \in Admins,
           pc = "view" => Asked.spec.target = Asked.user \/ (Asked.user \in Admins /\ Consent \in agreed')
    PROVE  Turn' /\ Knows' /\ Streams' /\ Asked' = Asked
<1>1. \A q \in Peers : SameConn(q)
  BY DEF SameConn, peerVars
<1>2. Turn' /\ Streams' /\ Asked' = Asked
  BY <1>1, MonitorKeeps
<1>3. mon'.got = FALSE
  BY DEF AuthInv, Knows, MonOK
<1>4. Consent' = Consent
  BY <1>2 DEF Consent
<1>5. Knows'
  BY <1>2, <1>3, <1>4 DEF Knows
<1> QED
  BY <1>2, <1>5

\* The password, the console and the consent are looked into for the peer
\* served alone.
LEMMA CheckStep ==
    ASSUME AuthInv, PeerOK, MonOK, monitor_check \/ shadow_for \/ ask_console_consent \/ session_for
    PROVE  Turn' /\ Knows' /\ Streams' /\ Found'
<1>1. /\ UNCHANGED <<peerVars, requests, verdicts, conn, remote, linked, unwatched>> /\ agreed \subseteq agreed'
      /\ mon.pc \in {"check", "shadow", "consent", "look"}
  BY Zenon DEF monitor_check, shadow_for, ask_console_consent, session_for, Monitor, NoAttach, worldVars
<1>2. mon'.pc \in {"send", "look", "shadow", "consent", "view", "take", "seat"} /\ mon'.who = mon.who /\ mon'.got = mon.got
  BY Zenon DEF monitor_check, shadow_for, ask_console_consent, session_for, Ends, Goto, MonOK
<1>3. /\ mon'.pc \in {"look", "take", "seat"} => Asked.secret = "right" /\ Asked.spec.target = None
      /\ mon'.pc \in {"shadow", "consent", "view"} => Asked.secret = "right" /\ Asked.spec.target # None
      /\ mon'.pc = "consent" => Asked.user \in Admins
      /\ mon'.pc = "view" => Asked.spec.target = Asked.user \/ (Asked.user \in Admins /\ Consent \in agreed')
  <2>1. CASE monitor_check
    BY <2>1 DEF monitor_check, Monitor, pamcheck, MonOK
  <2>2. CASE shadow_for
    BY <2>2, Zenon DEF shadow_for, Monitor, Ends, Goto, MonOK, AuthInv, Knows
  <2>3. CASE ask_console_consent
    BY <2>3, Zenon DEF ask_console_consent, Monitor, Ends, Goto, MonOK, AuthInv, Knows
  <2>4. CASE session_for
    BY <2>4, Zenon DEF session_for, Monitor, Ends, Goto, MonOK, AuthInv, Knows
  <2> QED
    BY <2>1, <2>2, <2>3, <2>4
<1>4. Turn' /\ Knows' /\ Streams' /\ Asked' = Asked
  BY <1>1, <1>2, <1>3, SearchStep DEF Places
<1>5. Found'
  BY <1>1, <1>2, <1>4 DEF AuthInv, Found
<1> QED
  BY <1>4, <1>5

\* A session is started only where there is none.
LEMMA StartStep ==
    ASSUME AuthInv, PeerOK, MonOK, WorldOK, unlink_priv \/ systemd_run
    PROVE  Turn' /\ Knows' /\ Streams' /\ Found'
<1>1. /\ UNCHANGED <<peerVars, requests, verdicts, conn, unwatched, agreed>>
      /\ mon.pc \in {"unlink", "start"}
  BY DEF unlink_priv, systemd_run, Monitor, NoAttach
<1>2. mon'.pc \in {"start", "wait", "send"} /\ mon'.who = mon.who /\ mon'.got = mon.got
  BY Zenon DEF unlink_priv, systemd_run, Ends, Goto, MonOK
<1>3. Asked.secret = "right" /\ Asked.spec.target = None
  BY <1>1 DEF AuthInv, Knows
<1>4. Turn' /\ Knows' /\ Streams' /\ Asked' = Asked
  BY <1>1, <1>2, <1>3, SearchStep DEF Places
<1>5. Asked.user \in Users
  BY <1>1, Serving DEF AuthInv
<1>6. CASE unlink_priv
  <2>1. UNCHANGED remote /\ linked' = linked \ {Asked.user} /\ mon'.pc = "start" /\ mon.pc = "unlink"
    BY <1>6 DEF unlink_priv, Monitor, Goto, MonOK
  <2>2. Found'
    BY <1>1, <1>4, <1>5, <2>1 DEF AuthInv, Found
  <2> QED
    BY <1>4, <2>2
<1>7. CASE systemd_run
  <2>1. /\ UNCHANGED linked /\ mon.pc = "start"
        /\ \/ remote' = [remote EXCEPT ![Asked.user] = "starting"] /\ mon'.pc = "wait"
           \/ UNCHANGED remote /\ mon'.pc = "send"
    BY <1>7, Zenon DEF systemd_run, Monitor, Goto, Ends, MonOK
  <2>2. Found'
    BY <1>1, <1>4, <1>5, <2>1 DEF AuthInv, Found, WorldOK
  <2> QED
    BY <1>4, <2>2
<1> QED
  BY <1>6, <1>7

\* The connection made is as the peer asked, whichever way a session was found.
LEMMA SessionFoundStep ==
    ASSUME AuthInv, PeerOK, MonOK, ConnOK, WorldOK, start_shadow \/ take_over_console \/ reconnect \/ wait_for_session
    PROVE  Turn' /\ Knows' /\ Streams' /\ Found'
<1>1. /\ UNCHANGED <<peerVars, requests, verdicts, remote, linked, agreed>>
      /\ mon.pc \in {"view", "take", "seat", "wait"}
      /\ mon.pc # "wait" => unwatched' = unwatched
  BY Zenon DEF start_shadow, take_over_console, reconnect, wait_for_session, Monitor, worldVars
<1>2. Asked.user \in Users /\ Asked.spec.target \in Users \cup {None} /\ Asked.spec.control \in BOOLEAN
  BY <1>1, Serving DEF AuthInv
<1>3. mon.pc = "view" => Asked.spec.target \in Users
  BY <1>2 DEF AuthInv, Knows
<1>4. mon'.pc \in {"send", "unlink"} /\ mon'.who = mon.who
  BY Zenon DEF start_shadow, take_over_console, reconnect, wait_for_session, Attaches, Ends, Goto, MonOK
<1>5. Asked' = Asked
  BY <1>1, <1>4 DEF Asked, peerVars
<1>6. Turn' /\ Knows' /\ Streams'
  <2>1. CASE start_shadow /\ Attaches("shadow", Asked.spec.target, Asked.spec.control)
    <3>1. mon.pc = "view"
      BY <2>1 DEF start_shadow, Monitor
    <3> QED
      BY <1>1, <1>2, <1>3, <2>1, <3>1, AttachStep
  <2>2. CASE take_over_console /\ Attaches("console", Asked.user, TRUE)
    <3>1. mon.pc = "take"
      BY <2>2 DEF take_over_console, Monitor
    <3> QED
      BY <1>1, <1>2, <2>2, <3>1, AttachStep, Zenon
  <2>3. CASE (reconnect \/ wait_for_session) /\ Attaches("remote", Asked.user, TRUE)
    <3>1. mon.pc \in {"seat", "wait"}
      BY <2>3, Zenon DEF reconnect, wait_for_session, Monitor
    <3> QED
      BY <1>1, <1>2, <2>3, <3>1, AttachStep, Zenon
  <2>4. CASE UNCHANGED conn /\ mon'.got = mon.got
    <3>1. mon'.pc = "unlink" => mon.pc = "seat"
      BY Zenon DEF start_shadow, take_over_console, reconnect, wait_for_session, Monitor, Attaches, Ends, Goto, MonOK
    <3>2. mon'.pc = "unlink" => Asked.secret = "right" /\ Asked.spec.target = None
      BY <3>1 DEF AuthInv, Knows
    <3> QED
      BY <1>1, <1>4, <2>4, <3>2, SearchStep DEF Places
  <2>5. \/ start_shadow /\ Attaches("shadow", Asked.spec.target, Asked.spec.control)
        \/ take_over_console /\ Attaches("console", Asked.user, TRUE)
        \/ (reconnect \/ wait_for_session) /\ Attaches("remote", Asked.user, TRUE)
        \/ UNCHANGED conn /\ mon'.got = mon.got
    BY Zenon DEF start_shadow, take_over_console, reconnect, wait_for_session, NoAttach, Ends, Goto, MonOK
  <2> QED
    BY <2>1, <2>2, <2>3, <2>4, <2>5, Zenon
<1>7. Found'
  <2>1. CASE wait_for_session
    <3>1. \/ Answers(Asked.user) /\ unwatched' = unwatched /\ mon'.pc = "send"
          \/ unwatched' = unwatched \cup {Asked.user} /\ mon'.pc = "send"
      BY <2>1, Zenon DEF wait_for_session, Attaches, Ends, MonOK
    <3> QED
      BY <1>1, <1>2, <1>5, <3>1 DEF AuthInv, Found, Answers
  <2>2. CASE ~wait_for_session
    <3>1. mon.pc # "wait"
      BY <2>2, Zenon DEF start_shadow, take_over_console, reconnect, Monitor
    <3>2. mon'.pc = "unlink" => ~Answers(Asked.user)
      BY <2>2, Zenon DEF start_shadow, take_over_console, reconnect, Attaches, Ends, Goto, MonOK
    <3> QED
      BY <1>1, <1>2, <1>4, <1>5, <3>1, <3>2 DEF AuthInv, Found, Answers, WorldOK
  <2> QED
    BY <2>1, <2>2
<1> QED
  BY <1>6, <1>7

-----------------------------------------------------------------------------
\* The daemon's invariant: whoever interleaves, dies or hangs up.
THEOREM AuthInvariance == AuthSpec => []AuthInv
<1>1. AuthInit => AuthInv
  <2> SUFFICES ASSUME AuthInit PROVE AuthInv
    OBVIOUS
  <2>1. (CHOOSE u \in Users : TRUE) \in Users
    BY AuthConstants
  <2>2. NoClaim \in Claims
    BY <2>1 DEF NoClaim, Claims, Secrets, Specs
  <2>3. NoConn \in Conns
    BY <2>1 DEF NoConn, Conns
  <2>4. PeerOK /\ ConnOK
    BY <2>2, <2>3 DEF AuthInit, PeerOK, ConnOK
  <2>5. WireOK
    BY EmptySeq DEF AuthInit, WireOK
  <2>6. MonOK
    BY DEF AuthInit, Idle, MonOK, Places, Statuses
  <2>7. WorldOK
    BY DEF AuthInit, WorldOK
  <2>8. DeathsOK
    BY AuthConstants DEF AuthInit, DeathsOK
  <2>9. AuthTypeOK
    BY <2>4, <2>5, <2>6, <2>7, <2>8, AuthTypeParts
  <2>10. Turn /\ Streams
    BY AuthConstants DEF AuthInit, Turn, Streams, Idle
  <2>11. Knows /\ Found
    BY DEF AuthInit, Knows, Found, Idle
  <2> QED
    BY <2>9, <2>10, <2>11 DEF AuthInv
<1>2. AuthInv /\ [AuthNext]_authVars => AuthInv'
  <2> SUFFICES ASSUME AuthInv, [AuthNext]_authVars PROVE AuthInv'
    OBVIOUS
  <2>1. PeerOK /\ WireOK /\ MonOK /\ ConnOK /\ WorldOK /\ DeathsOK /\ Turn /\ Knows
    BY AuthTypeParts DEF AuthInv
  <2>2. (PeerOK' /\ WireOK' /\ MonOK' /\ ConnOK' /\ WorldOK' /\ DeathsOK') /\ (Turn' /\ Knows' /\ Streams' /\ Found') => AuthInv'
    BY AuthTypeParts DEF AuthInv, AuthTypeOK, PeerOK, WireOK, MonOK, ConnOK, WorldOK, DeathsOK, Verdicts, Places
  <2>3. CASE MonitorStep
    <3>1. Turn' /\ Knows' /\ Streams' /\ Found'
      BY <2>1, <2>3, ReadStep, SendStep, CheckStep, StartStep, SessionFoundStep DEF MonitorStep
    <3> QED
      BY <2>1, <2>2, <2>3, <3>1, MonitorTypes
  <2>4. CASE MonitorDies \/ DaemonDies
    BY <2>1, <2>2, <2>4, DeathTypes, DeathStep
  <2>5. ASSUME NEW p \in Peers, PeerMoves(p) PROVE AuthInv'
    <3>1. Turn' /\ Knows' /\ Streams' /\ Found'
      BY <2>1, <2>5, AuthenticateStep, QuietStep, AskStep, ReceiveStep, HangUpStep DEF PeerMoves, PeerStep
    <3> QED
      BY <2>1, <2>2, <2>5, <3>1, PeerTypes
  <2>6. ASSUME NEW u \in Users, SessionMoves(u) PROVE AuthInv'
    BY <2>1, <2>2, <2>6, SessionTypes, SessionStep
  <2>7. CASE UNCHANGED authVars
    <3>1. AuthTypeOK'
      BY <2>1, <2>7 DEF authVars, peerVars, worldVars, AuthInv, AuthTypeOK
    <3>2. (\A p \in Peers : SameConn(p)) /\ Undisturbed
      BY <2>1, <2>7 DEF authVars, peerVars, worldVars, SameConn, Undisturbed, AuthInv, Turn
    <3>3. Turn'
      BY <2>1, <2>7 DEF authVars, peerVars, AuthInv, Turn, AsAsked
    <3>4. Knows'
      BY <2>1, <2>7, <3>2, KnowsStill DEF authVars, worldVars, AuthInv
    <3>5. Streams'
      BY <2>1, <2>7, <3>2, StreamsStill DEF authVars, peerVars, AuthInv
    <3>6. Found'
      BY <2>1, <2>7, <3>2, FoundStill DEF authVars, worldVars, AuthInv
    <3> QED
      BY <3>1, <3>3, <3>4, <3>5, <3>6 DEF AuthInv
  <2> QED
    BY <2>3, <2>4, <2>5, <2>6, <2>7 DEF AuthNext, PeerMoves, SessionMoves
<1> QED
  BY <1>1, <1>2, PTL DEF AuthSpec

\* The daemon's variables have their types.
THEOREM AuthTypes == AuthSpec => []AuthTypeOK
<1>1. AuthInv => AuthTypeOK
  BY DEF AuthInv
<1> QED
  BY <1>1, AuthInvariance, PTL

\* What a peer streams is what its own request asked for and it may have, for
\* any number of peers and users; and a remote session whose start was watched
\* can be found.
THEOREM StreamTheorem == AuthSpec => []StreamIsOwn
<1>1. AuthInv => StreamIsOwn
  BY DEF AuthInv, StreamIsOwn, Streams, Found
<1> QED
  BY <1>1, AuthInvariance, PTL

=============================================================================
