--------------------------- MODULE BrokerPromises ---------------------------
(***************************************************************************)
(* Proofs about module Broker, part three: no surface stays taken and none *)
(* is given back under its prompt; a connection is answered once, and with *)
(* what happened; polkitd is told of administrators only; and the broker   *)
(* implements the promise of module Consent -- every step of the broker's  *)
(* or of its surroundings' is a step of Consent's under the mapping        *)
(* Policy, or changes nothing there.                                       *)
(***************************************************************************)
EXTENDS BrokerProofs

USE DEF vars, world, clients, serving, deciding, prompt, outcome, rights

\* No step of the broker's or of its surroundings' leaves a surface taken
\* that nobody is served on.
LEMMA SecureStep == IInv /\ SecureOnlyWhileServing /\ [Next]_vars => SecureOnlyWhileServing'
<1> SUFFICES ASSUME IInv, SecureOnlyWhileServing, [Next]_vars PROVE SecureOnlyWhileServing'
    OBVIOUS
<1>a. TypeOK /\ Control
    BY DEF IInv
<1>1. ASSUME UNCHANGED <<comp, stuck, sf>>,
             at \in {"start", "ask", "pam", "stop", "release"} => at' \in {"start", "ask", "pam", "stop", "release"}
      PROVE  SecureOnlyWhileServing'
    BY <1>1 DEF SecureOnlyWhileServing
<1>2. ASSUME UNCHANGED <<comp, stuck>>, at \notin {"start", "ask", "pam", "stop", "release"}
      PROVE  SecureOnlyWhileServing'
    BY <1>2 DEF SecureOnlyWhileServing
<1>3. CASE accept \/ read_fails \/ deny \/ shadow_accepted \/ launch \/ polkit_identity \/ polkit_respond
    BY <1>2, <1>3 DEF accept, read_fails, deny, shadow_accepted, launch, polkit_identity, polkit_respond
<1>4. CASE dispatch \/ find_surface
    BY <1>2, <1>4 DEF dispatch, find_surface
<1>5. CASE surface_secure
    BY <1>a, <1>5 DEF TypeOK, Control, SecureOnlyWhileServing, surface_secure
<1>6. CASE consent_ui_start \/ consent_read_line \/ consent_no_answer \/ check_password \/ consent_ui_stop
    BY <1>1, <1>6 DEF consent_ui_start, consent_read_line, consent_no_answer, check_password, consent_ui_stop, out
<1>7. CASE surface_release
    BY <1>a, <1>7 DEF TypeOK, Control, SecureOnlyWhileServing, surface_release
<1>8. ASSUME NEW s \in Surfaces, Compositor(s) PROVE SecureOnlyWhileServing'
    BY <1>a, <1>8 DEF TypeOK, SecureOnlyWhileServing, Compositor
<1>9. ASSUME NEW c \in Conns, SendRequest(c) \/ HangUp(c) \/ \E r \in Requests : Connect(c, r)
      PROVE  SecureOnlyWhileServing'
    BY <1>1, <1>9 DEF SendRequest, HangUp, Connect
<1>10. CASE MonitorDies \/ PromptDies \/ (\E l \in Lines : PromptSays(l)) \/ (\E S \in SUBSET Accounts : ChangeMembers(S))
    BY <1>1, <1>10 DEF MonitorDies, PromptDies, PromptSays, ChangeMembers
<1>11. CASE UNCHANGED vars
    BY <1>1, <1>11
<1> QED
    BY <1>3, <1>4, <1>5, <1>6, <1>7, <1>8, <1>9, <1>10, <1>11 DEF Next, BrokerStep, Environment

\* No path through obtain_consent, for any number of surfaces, leaves a
\* user's screen taken when its request is over, unless RELEASE failed.
THEOREM SecureTheorem == Spec => []SecureOnlyWhileServing
<1>1. Init => SecureOnlyWhileServing
    BY DEF Init, SecureOnlyWhileServing
<1> QED
    BY <1>1, SecureStep, Invariance, PTL DEF Spec

\* Only RELEASE takes a surface from secure to unlocked, and no prompt is up
\* then; a step that leaves compositors alone unlocks none.
LEMMA PromptStep ==
  ASSUME IInv, [Next]_vars, NEW s \in Surfaces, ui' = "alive", s = sf, comp[s] = "secure"
  PROVE  comp'[s] # "unlocked"
<1>a. TypeOK /\ Control
    BY DEF IInv
<1>1. CASE UNCHANGED comp
    BY <1>1
<1>2. CASE accept \/ read_fails \/ dispatch \/ find_surface \/ deny \/ shadow_accepted \/ launch
             \/ polkit_identity \/ polkit_respond
    BY <1>1, <1>2 DEF accept, read_fails, dispatch, find_surface, deny, shadow_accepted, launch,
                      polkit_identity, polkit_respond
<1>3. CASE surface_secure
    BY <1>a, <1>3 DEF TypeOK, surface_secure
<1>4. CASE consent_ui_start \/ consent_read_line \/ consent_no_answer \/ check_password \/ consent_ui_stop
    BY <1>1, <1>4 DEF consent_ui_start, consent_read_line, consent_no_answer, check_password, consent_ui_stop
<1>5. CASE surface_release
    BY <1>a, <1>5 DEF Control, surface_release
<1>6. ASSUME NEW t \in Surfaces, Compositor(t) PROVE comp'[s] # "unlocked"
    BY <1>a, <1>6 DEF TypeOK, Compositor
<1>7. CASE (\E c \in Conns : SendRequest(c) \/ HangUp(c) \/ \E r \in Requests : Connect(c, r))
             \/ MonitorDies \/ PromptDies \/ (\E l \in Lines : PromptSays(l))
             \/ (\E S \in SUBSET Accounts : ChangeMembers(S))
    BY <1>1, <1>7 DEF SendRequest, HangUp, Connect, MonitorDies, PromptDies, PromptSays, ChangeMembers
<1> QED
    BY <1>1, <1>2, <1>3, <1>4, <1>5, <1>6, <1>7 DEF Next, BrokerStep, Environment

\* However the prompt, the compositors and the clients behave, the session
\* does not get the screen and the keyboard back while a prompt is up there.
THEOREM PromptTheorem == Spec => SecureUntilPromptGone
<1>1. IInv /\ [Next]_vars =>
        [\A s \in Surfaces : ui' = "alive" /\ s = sf /\ comp[s] = "secure" => comp'[s] # "unlocked"]_vars
    BY PromptStep
<1> QED
    BY <1>1, Invariance, PTL DEF Spec, SecureUntilPromptGone

\* A step answers or grants only on the connection being served, which has
\* no answer yet.
LEMMA AnswerStep ==
  ASSUME IInv, [Next]_vars, NEW c \in Conns, answer[c] # "none"
  PROVE  answer'[c] = answer[c] /\ ~\E g \in granted' \ granted : g.conn = c
<1>a. c # cur /\ answer \in [Conns -> {"none", "closed", "granted", "denied", "failed"}]
    BY NamesAssumption DEF IInv, TypeOK, Control
<1>1. ASSUME NEW v, Reply(v), granted' = granted \/ granted' = Granted
      PROVE  answer'[c] = answer[c] /\ ~\E g \in granted' \ granted : g.conn = c
  <2>1. answer'[c] = answer[c]
    BY <1>a, <1>1 DEF Reply
  <2> QED
    BY <1>a, <1>1, <2>1 DEF Granted
<1>2. CASE UNCHANGED <<answer, granted>>
    BY <1>2
<1>3. CASE dispatch
    BY <1>1, <1>2, <1>3 DEF dispatch
<1>4. CASE polkit_identity
    BY <1>1, <1>2, <1>4 DEF polkit_identity
<1>5. CASE read_fails \/ deny \/ shadow_accepted \/ launch \/ polkit_respond
  <2>1. CASE read_fails
    BY <1>1, <2>1 DEF read_fails
  <2>2. CASE deny
    BY <1>1, <2>2 DEF deny
  <2>3. CASE shadow_accepted
    BY <1>1, <2>3 DEF shadow_accepted
  <2>4. CASE launch
    BY <1>1, <2>4 DEF launch
  <2>5. CASE polkit_respond
    BY <1>1, <2>5 DEF polkit_respond
  <2> QED
    BY <1>5, <2>1, <2>2, <2>3, <2>4, <2>5
<1>6. CASE accept \/ find_surface \/ surface_secure \/ consent_ui_start \/ consent_read_line
             \/ consent_no_answer \/ check_password \/ consent_ui_stop \/ surface_release
  <2>1. CASE check_password
    BY <1>2, <2>1 DEF check_password
  <2>2. CASE accept \/ find_surface \/ surface_secure \/ consent_ui_start \/ consent_read_line
    BY <1>2, <2>2 DEF accept, find_surface, surface_secure, consent_ui_start, consent_read_line
  <2>3. CASE consent_no_answer \/ consent_ui_stop \/ surface_release
    BY <1>2, <2>3 DEF consent_no_answer, consent_ui_stop, surface_release
  <2> QED
    BY <1>6, <2>1, <2>2, <2>3
<1>7. CASE Environment
    BY <1>2, <1>7 DEF Environment, SendRequest, HangUp, Connect, ChangeMembers, MonitorDies, PromptDies,
                      Compositor, PromptSays
<1> QED
    BY <1>2, <1>3, <1>4, <1>5, <1>6, <1>7 DEF Next, BrokerStep

\* However many connections there are, each is answered at most once and what
\* was granted on it is not granted again.
THEOREM AnsweredOnceTheorem == Spec => AnsweredOnce
<1>1. IInv /\ [Next]_vars =>
        [\A c \in Conns : answer[c] # "none" =>
            answer'[c] = answer[c] /\ ~\E g \in granted' \ granted : g.conn = c]_vars
    BY AnswerStep
<1> QED
    BY <1>1, Invariance, PTL DEF Spec, AnsweredOnce

-----------------------------------------------------------------------------
(* The answer, the grants and the Security log.                            *)

\* The one whose consent goes to polkitd is one it asked for.
ForPolkit == at = "polkit" => req[cur].kind = "polkit" /\ who \in req[cur].ids

\* A log that only grows, requests that only come in, and no answers.
LEMMA OutcomeFrame ==
  ASSUME IInv, AnswerIsTheOutcome, UNCHANGED <<answer, granted>>, log \subseteq log',
         \A c \in Conns : req[c] # NoReq => req'[c] = req[c]
  PROVE  AnswerIsTheOutcome'
<1>1. ASSUME NEW g \in granted PROVE req'[g.conn] = req[g.conn]
  <2>1. g.conn \in Conns
    BY <1>1 DEF IInv, TypeOK
  <2>2. answer[g.conn] # "none"
    BY <1>1 DEF IInv, Consented
  <2>3. req[g.conn] # NoReq
    BY <2>1, <2>2 DEF IInv, Control
  <2> QED
    BY <2>1, <2>3
<1>2. ASSUME NEW g \in granted PROVE Logged(g)'
  <2>1. Logged(g)
    BY <1>2 DEF AnswerIsTheOutcome
  <2>2. req'[g.conn] = req[g.conn]
    BY <1>1, <1>2
  <2> DEFINE r == req[g.conn]
             authorised == [conn |-> g.conn, id |-> 4672, name |-> g.by]
             used == [conn |-> g.conn, id |-> 4648, name |-> req[g.conn].uid]
  <2>3. r.kind # "shadow" => authorised \in log /\ (r.kind = "elevate" /\ g.by # r.uid => used \in log)
    BY <2>1 DEF Logged
  <2>4. (r.kind # "shadow" => authorised \in log' /\ (r.kind = "elevate" /\ g.by # r.uid => used \in log'))
          => Logged(g)'
    BY <2>2 DEF Logged
  <2> HIDE DEF r, authorised, used
  <2> QED
    BY <2>3, <2>4
<1>3. ASSUME NEW c \in Conns PROVE answer'[c] = "granted" <=> Decided(c)'
  <2>1. Decided(c)' <=> Decided(c)
    BY DEF Decided
  <2> QED
    BY <2>1 DEF AnswerIsTheOutcome
<1> QED
    BY <1>2, <1>3 DEF AnswerIsTheOutcome

\* A reply that grants nothing.
LEMMA OutcomeRefused ==
  ASSUME IInv, AnswerIsTheOutcome, at # "accept", NEW v \in {"closed", "denied", "failed"}, Reply(v),
         UNCHANGED <<granted, req>>, log \subseteq log'
  PROVE  AnswerIsTheOutcome'
<1>1. cur \in Conns /\ answer[cur] = "none"
    BY NamesAssumption DEF IInv, Control
<1>2. \A c \in Conns : answer'[c] = IF c = cur THEN v ELSE answer[c]
    BY DEF IInv, TypeOK, Reply
<1>3. \A c \in Conns : answer'[c] = "granted" <=> answer[c] = "granted"
    BY <1>1, <1>2
<1>4. \A c : Decided(c)' <=> Decided(c)
    BY DEF Decided
<1>5. ASSUME NEW g \in granted PROVE Logged(g)'
    BY <1>5 DEF AnswerIsTheOutcome, Logged
<1> QED
    BY <1>3, <1>4, <1>5 DEF AnswerIsTheOutcome

\* A reply that grants, with what is logged for it.
LEMMA OutcomeGranted ==
  ASSUME IInv, AnswerIsTheOutcome, at # "accept", Reply("granted"), granted' = Granted, req' = req,
         log \subseteq log',
         req[cur].kind # "shadow" => Event(4672, who) \in log',
         req[cur].kind = "elevate" /\ who # req[cur].uid => Event(4648, req[cur].uid) \in log'
  PROVE  AnswerIsTheOutcome'
<1>1. cur \in Conns /\ answer[cur] = "none"
    BY NamesAssumption DEF IInv, Control
<1>2. \A c \in Conns : answer'[c] = IF c = cur THEN "granted" ELSE answer[c]
    BY DEF IInv, TypeOK, Reply
<1> DEFINE new == [conn |-> cur, by |-> who]
<1>3. granted' = granted \cup {new} /\ new.conn = cur /\ new.by = who
    BY DEF Granted
<1> HIDE DEF new
<1>4. ASSUME NEW c \in Conns PROVE answer'[c] = "granted" <=> Decided(c)'
  <2>1. Decided(c)' <=> c = cur \/ Decided(c)
    BY <1>3 DEF Decided
  <2> QED
    BY <1>1, <1>2, <2>1 DEF AnswerIsTheOutcome
<1>5. ASSUME NEW g \in granted' PROVE Logged(g)'
  <2>1. CASE g \in granted
    BY <2>1 DEF AnswerIsTheOutcome, Logged
  <2>2. CASE g = new
    BY <1>3, <2>2 DEF Event, Logged
  <2> QED
    BY <1>3, <2>1, <2>2
<1> QED
    BY <1>4, <1>5 DEF AnswerIsTheOutcome

\* Every step keeps the answers, the grants and the log in agreement.
LEMMA OutcomeStep ==
  ASSUME IInv, ForPolkit, AnswerIsTheOutcome, [Next]_vars
  PROVE  AnswerIsTheOutcome'
<1>1. CASE accept \/ find_surface \/ surface_secure \/ consent_ui_start \/ consent_read_line
             \/ consent_no_answer \/ consent_ui_stop \/ surface_release
    BY <1>1, OutcomeFrame DEF accept, find_surface, surface_secure, consent_ui_start, consent_read_line,
                              consent_no_answer, consent_ui_stop, surface_release
<1>2. CASE check_password
    BY <1>2, OutcomeFrame DEF check_password
<1>3. CASE read_fails \/ deny
    BY <1>3, OutcomeRefused DEF read_fails, deny
<1>4. CASE dispatch
    BY <1>4, OutcomeRefused, OutcomeFrame DEF dispatch
<1>5. CASE polkit_identity
    BY <1>5, OutcomeRefused, OutcomeFrame DEF polkit_identity
<1>6. CASE shadow_accepted
    BY <1>6, OutcomeGranted DEF shadow_accepted
<1>7. CASE launch
  <2>1. at # "accept" /\ req' = req /\ log \subseteq log' /\ Event(4672, who) \in log'
        /\ (who # req[cur].uid => Event(4648, req[cur].uid) \in log')
    BY <1>7 DEF launch, Audit
  <2> QED
    BY <1>7, <2>1, OutcomeGranted, OutcomeRefused DEF launch
<1>8. CASE polkit_respond
  <2>1. at # "accept" /\ req' = req /\ req[cur].kind = "polkit"
    BY <1>8 DEF polkit_respond, ForPolkit
  <2> QED
    BY <1>8, <2>1, OutcomeGranted, OutcomeRefused DEF polkit_respond
<1>9. ASSUME NEW c \in Conns, SendRequest(c) \/ HangUp(c) \/ \E r \in Requests : Connect(c, r)
      PROVE  AnswerIsTheOutcome'
  <2>1. \A d \in Conns : req[d] # NoReq => req'[d] = req[d]
    BY <1>9 DEF SendRequest, HangUp, Connect, IInv, TypeOK
  <2> QED
    BY <1>9, <2>1, OutcomeFrame DEF SendRequest, HangUp, Connect
<1>10. CASE MonitorDies \/ PromptDies \/ (\E l \in Lines : PromptSays(l)) \/ (\E S \in SUBSET Accounts : ChangeMembers(S))
             \/ (\E s \in Surfaces : Compositor(s))
    BY <1>10, OutcomeFrame DEF MonitorDies, PromptDies, PromptSays, ChangeMembers, Compositor
<1>11. CASE UNCHANGED vars
    BY <1>11, OutcomeFrame
<1> QED
    BY <1>1, <1>2, <1>3, <1>4, <1>5, <1>6, <1>7, <1>8, <1>9, <1>10, <1>11 DEF Next, BrokerStep, Environment

\* polkitd is told only after polkit_identity, and nothing moves in between.
LEMMA ForPolkitStep ==
  ASSUME IInv, ForPolkit, [Next]_vars
  PROVE  ForPolkit'
<1>a. TypeOK /\ Control
    BY DEF IInv
<1>1. CASE UNCHANGED <<at, req, cur, who>>
    BY <1>1 DEF ForPolkit
<1>2. CASE at' # "polkit"
    BY <1>2 DEF ForPolkit
<1>3. CASE accept \/ find_surface \/ surface_secure \/ consent_ui_start \/ consent_read_line
             \/ consent_no_answer \/ consent_ui_stop \/ surface_release
    BY <1>2, <1>3 DEF accept, find_surface, surface_secure, consent_ui_start, consent_read_line,
                      consent_no_answer, consent_ui_stop, surface_release, out
<1>4. CASE check_password
    BY <1>2, <1>4 DEF check_password, out
<1>5. CASE read_fails \/ deny \/ shadow_accepted \/ launch \/ polkit_respond
    BY <1>2, <1>5 DEF read_fails, deny, shadow_accepted, launch, polkit_respond, Reply
<1>6. CASE dispatch
    BY <1>2, <1>6 DEF dispatch, Reply
<1>7. CASE polkit_identity
    BY <1>2, <1>7 DEF polkit_identity, Reply, ForPolkit
<1>8. ASSUME NEW c \in Conns, NEW r \in Requests, Connect(c, r) PROVE ForPolkit'
  <2>1. at' = at /\ cur' = cur /\ who' = who /\ (at = "polkit" => req[cur] # NoReq /\ cur \in Conns)
    BY <1>8, <1>a, NamesAssumption DEF Connect, Control
  <2>2. at = "polkit" => req'[cur] = req[cur]
    BY <1>8, <1>a, <2>1 DEF Connect, TypeOK
  <2> QED
    BY <2>1, <2>2 DEF ForPolkit
<1>9. CASE (\E c \in Conns : SendRequest(c) \/ HangUp(c)) \/ MonitorDies \/ PromptDies
             \/ (\E l \in Lines : PromptSays(l)) \/ (\E S \in SUBSET Accounts : ChangeMembers(S))
             \/ (\E s \in Surfaces : Compositor(s))
    BY <1>1, <1>9 DEF SendRequest, HangUp, MonitorDies, PromptDies, PromptSays, ChangeMembers, Compositor
<1>10. CASE UNCHANGED vars
    BY <1>1, <1>10
<1> QED
    BY <1>3, <1>4, <1>5, <1>6, <1>7, <1>8, <1>9, <1>10 DEF Next, BrokerStep, Environment

\* The state at polkit_respond, in every behaviour.
LEMMA ForPolkitAlways == Spec => []ForPolkit
<1>1. Init => ForPolkit
    BY DEF Init, ForPolkit
<1> QED
    BY <1>1, ForPolkitStep, Invariance, PTL DEF Spec

\* Whoever connects, hangs up or is refused, and whatever fails: a status byte
\* of 0 is written exactly for what was granted, and the Security log names who
\* authorised it.
THEOREM OutcomeTheorem == Spec => []AnswerIsTheOutcome
<1>1. Init => AnswerIsTheOutcome
    BY DEF Init, AnswerIsTheOutcome, Decided
<1>2. IInv /\ ForPolkit /\ AnswerIsTheOutcome /\ [Next]_vars => AnswerIsTheOutcome'
    BY OutcomeStep
<1> QED
    BY <1>1, <1>2, ForPolkitAlways, Invariance, PTL DEF Spec

\* The members of the group may change at any moment; the root monitor looks
\* once more before it tells polkitd, and refuses root's and SYSTEM's agents.
THEOREM PolkitTheorem == Spec => PolkitToldOfAdministrators
<1>1. IInv /\ ForPolkit /\ [Next]_vars =>
        [\A g \in granted' \ granted : req[g.conn].kind = "polkit" =>
            g.by \in admins \cap req[g.conn].ids /\ req[g.conn].uid \in Accounts]_vars
  <2> SUFFICES ASSUME IInv, ForPolkit, Next, NEW g \in granted' \ granted, req[g.conn].kind = "polkit"
               PROVE  g.by \in admins \cap req[g.conn].ids /\ req[g.conn].uid \in Accounts
    OBVIOUS
  <2>1. granted' # granted
    OBVIOUS
  <2>2. granted' = Granted => g.conn = cur /\ g.by = who
    BY DEF Granted
  <2>3. polkit_respond
    BY <2>1, <2>2
    DEF Next, BrokerStep, Environment, accept, read_fails, dispatch, find_surface, surface_secure, consent_ui_start,
        consent_read_line, consent_no_answer, check_password, consent_ui_stop, surface_release, deny,
        shadow_accepted, launch, polkit_identity, SendRequest, HangUp, Connect, MonitorDies, PromptDies,
        PromptSays, ChangeMembers, Compositor
  <2>4. granted' = Granted /\ monitor_polkit(req[cur].uid, who) /\ at = "polkit"
    BY <2>1, <2>3 DEF polkit_respond
  <2>5. who \in req[cur].ids /\ who \in admins
    BY <2>4 DEF ForPolkit, monitor_polkit
  <2>6. req[cur].uid \in Accounts
    <3>1. cur \in Conns /\ req[cur] # NoReq /\ req \in [Conns -> Requests \cup {NoReq}]
      <4>1. cur \in Conns
        BY <2>4 DEF IInv, Control
      <4>2. req[cur] # NoReq
        BY <2>4, <4>1, NamesAssumption DEF IInv, Control
      <4>3. req \in [Conns -> Requests \cup {NoReq}]
        BY DEF IInv, TypeOK
      <4> QED
        BY <4>1, <4>2, <4>3
    <3>2. req[cur] \in Request
      BY <3>1, RequestsAssumption
    <3> QED
      BY <2>4, <3>2 DEF Request, Principals, monitor_polkit
  <2> QED
    BY <2>2, <2>4, <2>5, <2>6
<1> QED
    BY <1>1, ForPolkitAlways, Invariance, PTL DEF Spec, PolkitToldOfAdministrators

-----------------------------------------------------------------------------
(* The promise of module Consent.                                          *)

\* The mapping, by name: what Consent sees of the broker.
Phase ==
    [c \in Conns |->
        IF Decided(c) THEN "granted"
        ELSE IF c = cur /\ at \notin {"accept", "read"} THEN "pending"
        ELSE IF answer[c] = "none" THEN "idle" ELSE "refused"]
Author == [c \in Conns |-> IF Decided(c) THEN (CHOOSE g \in granted : g.conn = c).by ELSE NoOne]

\* A request is granted once: its grant is the one the mapping chooses.
GrantedOnce == \A g, h \in granted : g.conn = h.conn => g = h

\* What the steps rely on.
RInv == IInv /\ GrantedOnce

-----------------------------------------------------------------------------
\* The request being served is not decided, and has no answer.
LEMMA ServedIsOpen ==
  ASSUME IInv, at # "accept"
  PROVE  cur \in Conns /\ ~Decided(cur) /\ answer[cur] = "none"
<1>1. cur \in Conns /\ answer[cur] = "none"
    BY NamesAssumption DEF IInv, Control
<1>2. \A g \in granted : answer[g.conn] # "none"
    BY DEF IInv, Consented
<1> QED
    BY <1>1, <1>2 DEF Decided

\* Steps that answer nobody, and neither take up a request nor end one, are
\* not seen.
LEMMA NotSeen ==
  ASSUME UNCHANGED <<answer, granted>>,
         \/ UNCHANGED cur /\ (at \in {"accept", "read"} <=> at' \in {"accept", "read"})
         \/ at \in {"accept", "read"} /\ at' \in {"accept", "read"}
  PROVE  Phase' = Phase /\ Author' = Author
<1>1. \A c : Decided(c)' = Decided(c)
    BY DEF Decided
<1>2. Phase' = Phase
    BY <1>1 DEF Phase
<1>3. Author' = Author
    BY <1>1 DEF Author
<1> QED
    BY <1>2, <1>3

\* A reply that grants nothing ends the request as a refusal.
LEMMA RefusalSeen ==
  ASSUME RInv, at # "accept", NEW v \in {"closed", "denied", "failed"}, Reply(v), UNCHANGED granted
  PROVE  /\ Phase[cur] \in {"idle", "pending"}
         /\ Phase' = [Phase EXCEPT ![cur] = "refused"] /\ Author' = Author
<1>1. cur \in Conns /\ ~Decided(cur) /\ answer[cur] = "none"
    BY ServedIsOpen DEF RInv
<1>2. \A c : Decided(c)' = Decided(c)
    BY DEF Decided
<1>3. at' = "accept" /\ \A c \in Conns : answer'[c] = IF c = cur THEN v ELSE answer[c]
    BY DEF RInv, IInv, TypeOK, Reply
<1>4. Phase[cur] \in {"idle", "pending"}
    BY <1>1 DEF Phase
<1>5. \A c \in Conns : Phase'[c] = IF c = cur THEN "refused" ELSE Phase[c]
    BY <1>1, <1>2, <1>3 DEF Phase
<1>6. Phase' = [Phase EXCEPT ![cur] = "refused"]
    BY <1>5, Zenon DEF Phase
<1> QED
    BY <1>2, <1>4, <1>6 DEF Author

\* A reply that grants ends it in the name of who authorised it.
LEMMA GrantSeen ==
  ASSUME RInv, at \in {"decide", "polkit"}, allowed, Reply("granted"), granted' = Granted
  PROVE  /\ Phase[cur] = "pending" /\ who \in eligible[cur] /\ who \in Accounts
         /\ Phase' = [Phase EXCEPT ![cur] = "granted"]
         /\ Author' = [Author EXCEPT ![cur] = who]
<1> DEFINE new == [conn |-> cur, by |-> who]
<1>1. cur \in Conns /\ ~Decided(cur) /\ answer[cur] = "none"
    BY ServedIsOpen DEF RInv
<1>2. who \in Accounts /\ ConsentFor(cur, who)
    BY DEF RInv, IInv, Control, Consented
<1>3. who \in eligible[cur]
    BY <1>2 DEF ConsentFor
<1>4. Phase[cur] = "pending"
    BY <1>1 DEF Phase
<1>5. granted' = granted \cup {new} /\ new.conn = cur /\ new.by = who
    BY DEF Granted
<1>6. \A c : Decided(c)' <=> (Decided(c) \/ c = cur)
    BY <1>5, Zenon DEF Decided
<1>7. \A c \in Conns : answer'[c] = IF c = cur THEN "granted" ELSE answer[c]
    BY DEF RInv, IInv, TypeOK, Reply
<1>8. \A c \in Conns : Phase'[c] = IF c = cur THEN "granted" ELSE Phase[c]
    BY <1>1, <1>6, <1>7 DEF Phase, Reply
<1>9. Phase' = [Phase EXCEPT ![cur] = "granted"]
    BY <1>8, Zenon DEF Phase
<1> HIDE DEF new
<1>10. ASSUME NEW c \in Conns PROVE Author'[c] = IF c = cur THEN who ELSE Author[c]
  <2>a. Author[c] = IF Decided(c) THEN (CHOOSE g \in granted : g.conn = c).by ELSE NoOne
    BY DEF Author
  <2>b. Author'[c] = IF Decided(c)' THEN (CHOOSE g \in granted' : g.conn = c).by ELSE NoOne
    BY DEF Author
  <2>1. CASE c = cur
    <3>1. \A g \in granted' : g.conn = c <=> g = new
      BY <1>1, <1>5, <2>1 DEF Decided
    <3>2. (CHOOSE g \in granted' : g.conn = c) = new
      BY <1>5, <3>1
    <3>3. Decided(c)'
      BY <1>6, <2>1
    <3> QED
      BY <1>5, <2>b, <2>1, <3>2, <3>3, Zenon
  <2>2. CASE c # cur /\ ~Decided(c)
    BY <1>6, <2>a, <2>b, <2>2
  <2>3. CASE c # cur /\ Decided(c)
    <3>1. PICK h \in granted : h.conn = c
      BY <2>3 DEF Decided
    <3>2. \A g \in granted : g.conn = c <=> g = h
      BY <3>1 DEF RInv, GrantedOnce
    <3>3. \A g \in granted' : g.conn = c <=> g = h
      BY <1>5, <2>3, <3>1, <3>2
    <3>4. h \in granted' /\ h \in granted
      BY <1>5
    <3>5. (CHOOSE g \in granted' : g.conn = c) = h
      BY <3>3, <3>4
    <3>6. (CHOOSE g \in granted : g.conn = c) = h
      BY <3>2, <3>4
    <3>7. Decided(c)'
      BY <1>6, <2>3
    <3> QED
      BY <2>a, <2>b, <2>3, <3>5, <3>6, <3>7, Zenon
  <2> QED
    BY <2>1, <2>2, <2>3
<1>11. DOMAIN Author = Conns /\ DOMAIN Author' = Conns
       /\ Author = [c \in Conns |-> Author[c]] /\ Author' = [c \in Conns |-> Author'[c]]
    BY DEF Author
<1>12. Author' = [Author EXCEPT ![cur] = who]
    BY <1>10, <1>11
<1> QED
    BY <1>2, <1>3, <1>4, <1>9, <1>12

\* No step grants a second time on a connection.
LEMMA OnceStep == RInv /\ [Next]_vars => GrantedOnce'
<1> SUFFICES ASSUME RInv, [Next]_vars PROVE GrantedOnce'
    OBVIOUS
<1>1. CASE UNCHANGED granted
    BY <1>1 DEF RInv, GrantedOnce
<1>2. ASSUME at # "accept", granted' = Granted PROVE GrantedOnce'
  <2>1. ~\E g \in granted : g.conn = cur
    BY <1>2, ServedIsOpen DEF RInv, Decided
  <2> QED
    BY <1>2, <2>1 DEF RInv, GrantedOnce, Granted
<1>3. CASE shadow_accepted
    BY <1>2, <1>3 DEF shadow_accepted
<1>4. CASE launch
    BY <1>1, <1>2, <1>4 DEF launch
<1>5. CASE polkit_respond
    BY <1>1, <1>2, <1>5 DEF polkit_respond
<1>6. CASE accept \/ read_fails \/ dispatch \/ find_surface \/ surface_secure \/ consent_ui_start
    BY <1>1, <1>6 DEF accept, read_fails, dispatch, find_surface, surface_secure, consent_ui_start
<1>7. CASE consent_read_line \/ consent_no_answer \/ check_password \/ consent_ui_stop
    BY <1>1, <1>7 DEF consent_read_line, consent_no_answer, check_password, consent_ui_stop
<1>8. CASE surface_release \/ deny \/ polkit_identity
    BY <1>1, <1>8 DEF surface_release, deny, polkit_identity
<1>9. CASE Environment
    BY <1>1, <1>9 DEF Environment, SendRequest, HangUp, Connect, ChangeMembers, MonitorDies, PromptDies,
                      Compositor, PromptSays
<1> QED
    BY <1>1, <1>3, <1>4, <1>5, <1>6, <1>7, <1>8, <1>9 DEF Next, BrokerStep

-----------------------------------------------------------------------------
\* What is not seen of the broker is a stutter of Consent's.
LEMMA Stutters ==
  ASSUME UNCHANGED <<admins, scope, eligible>>, Phase' = Phase, Author' = Author
  PROVE  UNCHANGED Policy!cvars
    BY DEF Policy!cvars, Phase, Author

\* A reply that grants nothing is a Refuse.
LEMMA Refuses ==
  ASSUME RInv, at # "accept", NEW v \in {"closed", "denied", "failed"}, Reply(v),
         UNCHANGED <<granted, admins, scope, eligible>>
  PROVE  Policy!Next
<1>1. cur \in Conns
    BY ServedIsOpen DEF RInv
<1>2. /\ Phase[cur] \in {"idle", "pending"}
      /\ Phase' = [Phase EXCEPT ![cur] = "refused"] /\ Author' = Author
    BY RefusalSeen
<1>3. Policy!Refuse(cur)
    BY <1>2, Zenon DEF Policy!Refuse, Phase, Author
<1> QED
    BY <1>1, <1>3, Zenon DEF Policy!Next, Policy!Refuse

\* A reply that grants is a Grant.
LEMMA Grants ==
  ASSUME RInv, at \in {"decide", "polkit"}, allowed, Reply("granted"), granted' = Granted,
         UNCHANGED <<admins, scope, eligible>>
  PROVE  Policy!Next
<1>1. cur \in Conns
    BY ServedIsOpen DEF RInv
<1>2. /\ Phase[cur] = "pending" /\ who \in eligible[cur] /\ who \in Accounts
      /\ Phase' = [Phase EXCEPT ![cur] = "granted"]
      /\ Author' = [Author EXCEPT ![cur] = who]
    BY GrantSeen
<1>3. Policy!Grant(cur, who)
    BY <1>2, Zenon DEF Policy!Grant, Phase, Author
<1> QED
    BY <1>1, <1>2, <1>3, Zenon DEF Policy!Next, Policy!Grant

\* dispatch takes the request up, if it does not refuse it.
LEMMA TakesUp == ASSUME RInv, dispatch PROVE Policy!Next
<1>1. cur \in Conns /\ ~Decided(cur) /\ answer[cur] = "none" /\ at = "read"
    BY ServedIsOpen DEF RInv, dispatch
<1>2. CASE Refused(req[cur])
  <2>1. (Reply("denied") \/ Reply("failed")) /\ UNCHANGED <<granted, admins, scope, eligible>>
    BY <1>2 DEF dispatch
  <2> QED
    BY <1>1, <2>1, Refuses
<1>3. CASE ~Refused(req[cur])
  <2>1. /\ at' = "surface" /\ UNCHANGED <<cur, answer, granted, admins>>
        /\ scope' = [scope EXCEPT ![cur] = IF req[cur].kind = "shadow" THEN "person" ELSE "group"]
        /\ eligible' = [eligible EXCEPT ![cur] = IF req[cur].kind = "shadow" THEN {req[cur].target} ELSE admins]
    BY <1>3 DEF dispatch
  <2>2. \A c : Decided(c)' = Decided(c)
    BY <2>1 DEF Decided
  <2>3. Phase[cur] = "idle" /\ \A d \in Conns : Phase[d] # "pending"
    BY <1>1 DEF Phase
  <2>4. \A c \in Conns : Phase'[c] = IF c = cur THEN "pending" ELSE Phase[c]
    BY <1>1, <2>1, <2>2 DEF Phase
  <2>5. Phase' = [Phase EXCEPT ![cur] = "pending"]
    BY <2>4, Zenon DEF Phase
  <2>6. Author' = Author
    BY <2>1, <2>2 DEF Author
  <2>7. req[cur].target \in Accounts
    <3>1. req[cur] # NoReq /\ req \in [Conns -> Requests \cup {NoReq}]
      BY <1>1, NamesAssumption DEF RInv, IInv, TypeOK, Control
    <3>2. req[cur] \in Request
      BY <1>1, <3>1, RequestsAssumption
    <3> QED
      BY <3>2 DEF Request
  <2>8. Policy!TakeUp(cur)
    <3>1. CASE req[cur].kind = "shadow"
      <4>1. /\ scope' = [scope EXCEPT ![cur] = "person"]
            /\ eligible' = [eligible EXCEPT ![cur] = {req[cur].target}]
        BY <2>1, <3>1
      <4> QED
        BY <2>1, <2>3, <2>5, <2>6, <2>7, <4>1, Zenon DEF Policy!TakeUp, Phase, Author
    <3>2. CASE req[cur].kind # "shadow"
      <4>1. /\ scope' = [scope EXCEPT ![cur] = "group"]
            /\ eligible' = [eligible EXCEPT ![cur] = admins]
        BY <2>1, <3>2
      <4> QED
        BY <2>1, <2>3, <2>5, <2>6, <4>1, Zenon DEF Policy!TakeUp, Phase, Author
    <3> QED
      BY <3>1, <3>2
  <2> QED
    BY <1>1, <2>8, Zenon DEF Policy!Next, Policy!TakeUp
<1> QED
    BY <1>2, <1>3

\* A change of the group is a change of Consent's group, for the request that
\* is open as well.
LEMMA MembersChange ==
  ASSUME RInv, NEW S \in SUBSET Accounts, ChangeMembers(S)
  PROVE  Policy!Next
<1>1. admins' = S /\ UNCHANGED <<scope, answer, granted, at, cur>>
    BY DEF ChangeMembers
<1>2. Phase' = Phase /\ Author' = Author
    BY <1>1, NotSeen
<1>3. \A c \in Conns : Phase[c] = "pending" <=> cur # NoConn /\ at \notin {"accept", "read"} /\ c = cur
  <2>1. at # "accept" => cur \in Conns /\ ~Decided(cur) /\ cur # NoConn
    BY ServedIsOpen, NamesAssumption DEF RInv
  <2> QED
    BY <2>1 DEF Phase
<1>4. eligible' = [c \in Conns |-> IF Phase[c] = "pending" /\ scope[c] = "group"
                                   THEN eligible[c] \cup S ELSE eligible[c]]
  <2>1. eligible \in [Conns -> SUBSET Accounts]
    BY DEF RInv, IInv, TypeOK
  <2>2. CASE cur # NoConn /\ at \notin {"accept", "read"} /\ scope[cur] = "group"
    <3>1. eligible' = [eligible EXCEPT ![cur] = @ \cup S]
      BY <2>2 DEF ChangeMembers
    <3> QED
      BY <1>3, <2>1, <2>2, <3>1, Zenon
  <2>3. CASE ~(cur # NoConn /\ at \notin {"accept", "read"} /\ scope[cur] = "group")
    <3>1. eligible' = eligible
      BY <2>3 DEF ChangeMembers
    <3> QED
      BY <1>3, <2>1, <2>3, <3>1
  <2> QED
    BY <2>2, <2>3
<1>5. Policy!Members(S)
    BY <1>1, <1>2, <1>4, Zenon DEF Policy!Members, Phase, Author
<1> QED
    BY <1>5, Zenon DEF Policy!Next, Policy!Members

\* Every step of the broker's or of its surroundings' is one of Consent's, or
\* a stutter.
LEMMA RefinementStep == RInv /\ [Next]_vars => [Policy!Next]_(Policy!cvars)
<1> SUFFICES ASSUME RInv, [Next]_vars PROVE Policy!Next \/ UNCHANGED Policy!cvars
    OBVIOUS
<1>1. ASSUME UNCHANGED <<answer, granted, admins, scope, eligible>>,
             \/ UNCHANGED cur /\ (at \in {"accept", "read"} <=> at' \in {"accept", "read"})
             \/ at \in {"accept", "read"} /\ at' \in {"accept", "read"}
      PROVE  UNCHANGED Policy!cvars
    BY <1>1, NotSeen, Stutters
<1>2. CASE accept
    BY <1>1, <1>2 DEF accept
<1>3. CASE read_fails
    BY <1>3, Refuses DEF read_fails
<1>4. CASE dispatch
    BY <1>4, TakesUp
<1>5. CASE find_surface \/ surface_secure \/ consent_ui_start \/ consent_no_answer
    BY <1>1, <1>5 DEF find_surface, surface_secure, consent_ui_start, consent_no_answer, out
<1>6. CASE consent_read_line \/ consent_ui_stop \/ surface_release
    BY <1>1, <1>6 DEF consent_read_line, consent_ui_stop, surface_release, out
<1>7. CASE check_password
  <2>1. /\ UNCHANGED <<answer, granted, admins, scope, eligible, cur>>
        /\ at = "pam" /\ at' \in {"stop", "ask"}
    BY <1>7 DEF check_password, out
  <2> QED
    BY <1>1, <2>1
<1>8. CASE deny
    BY <1>8, Refuses DEF deny
<1>9. CASE shadow_accepted
    BY <1>9, Grants DEF shadow_accepted
<1>10. CASE launch
    BY <1>10, Grants, Refuses DEF launch
<1>11. CASE polkit_identity
    BY <1>1, <1>11, Refuses DEF polkit_identity
<1>12. CASE polkit_respond
  <2>1. at = "polkit" /\ allowed /\ UNCHANGED <<admins, scope, eligible>>
    BY <1>12 DEF RInv, IInv, Control, polkit_respond
  <2>2. (Reply("granted") /\ granted' = Granted) \/ (Reply("failed") /\ granted' = granted)
    BY <1>12 DEF polkit_respond
  <2> QED
    BY <2>1, <2>2, Grants, Refuses
<1>13. ASSUME NEW S \in SUBSET Accounts, ChangeMembers(S) PROVE Policy!Next
    BY <1>13, MembersChange
<1>14. ASSUME NEW c \in Conns, SendRequest(c) \/ HangUp(c) \/ \E r \in Requests : Connect(c, r)
       PROVE  UNCHANGED Policy!cvars
    BY <1>1, <1>14 DEF SendRequest, HangUp, Connect
<1>15. CASE MonitorDies \/ PromptDies \/ (\E l \in Lines : PromptSays(l))
    BY <1>1, <1>15 DEF MonitorDies, PromptDies, PromptSays
<1>16. ASSUME NEW s \in Surfaces, Compositor(s) PROVE UNCHANGED Policy!cvars
    BY <1>1, <1>16 DEF Compositor
<1>17. CASE UNCHANGED vars
    BY <1>1, <1>17
<1> QED
    BY <1>2, <1>3, <1>4, <1>5, <1>6, <1>7, <1>8, <1>9, <1>10, <1>11, <1>12, <1>13, <1>14, <1>15, <1>16, <1>17
    DEF Next, BrokerStep, Environment

\* The broker starts as Consent does.
LEMMA RefinementInit == Init => Policy!Init
<1> SUFFICES ASSUME Init PROVE Policy!Init
    OBVIOUS
<1>1. \A c : ~Decided(c)
    BY DEF Init, Decided
<1>2. Phase = [c \in Conns |-> "idle"] /\ Author = [c \in Conns |-> NoOne]
    BY <1>1 DEF Init, Phase, Author
<1>3. /\ admins \subseteq Accounts
      /\ scope = [c \in Conns |-> "group"] /\ eligible = [c \in Conns |-> {}]
    BY DEF Init
<1> QED
    BY <1>2, <1>3, Zenon DEF Policy!Init, Phase, Author

\* The broker, however many connections, accounts and surfaces there are, does
\* nothing that module Consent does not allow: it takes up one request at a
\* time, decides each once, and grants it only in the name of somebody who had
\* the right to grant it while it was open.
THEOREM RefinementTheorem == Spec => ImplementsConsent
<1>1. Init => GrantedOnce
    BY DEF Init, GrantedOnce
<1>2. Spec => []RInv
  <2>1. RInv <=> IInv /\ GrantedOnce
    BY DEF RInv
  <2> QED
    BY <1>1, <2>1, OnceStep, Invariance, PTL DEF Spec
<1> QED
    BY <1>2, RefinementInit, RefinementStep, PTL DEF Spec, ImplementsConsent, Policy!Spec
=============================================================================
