----------------------------- MODULE BrokerTypes ----------------------------
(***************************************************************************)
(* Proofs about module Broker, part one, for any accounts, connections,    *)
(* requests and bounds: its variables keep their types, and its            *)
(* bookkeeping -- what it holds in which state -- stays right.             *)
(***************************************************************************)
EXTENDS Broker, TLAPS

USE DEF vars, world, clients, serving, deciding, prompt, outcome, rights

\* Where the broker is and what it holds: a connection when it is not at
\* accept, a surface from SECURE to RELEASE, a prompt only between its start
\* and its stop, credentials to check in state "pam".
Control ==
    /\ at = "accept" => cur = NoConn
    /\ at # "accept" => cur \in Conns
    /\ cur # NoConn => req[cur] # NoReq /\ answer[cur] = "none"
    /\ \A i \in 1..Len(backlog) : req[backlog[i]] # NoReq /\ answer[backlog[i]] = "none" /\ backlog[i] # cur
    /\ \A i, j \in 1..Len(backlog) : backlog[i] = backlog[j] => i = j
    /\ \A c \in Conns : req[c] = NoReq => answer[c] = "none"
    /\ at \in {"secure", "start", "ask", "pam", "stop", "release"} => sf \in Surfaces
    /\ at \notin {"ask", "pam", "stop"} => ui = "none" /\ pipe = <<>>
    /\ at = "pam" => pipe # <<>> /\ Head(pipe).tag = "CRED" /\ mode = "cred"
    /\ at = "polkit" => allowed
    /\ allowed => who \in Accounts /\ at \in {"stop", "release", "decide", "polkit"}
    /\ mode = "admin" => req[cur].uid \in Accounts
    /\ at \in {"accept", "read"} => mode = "cred" /\ who = NoOne
    /\ mode = "shadow" => req[cur].kind = "shadow"
    /\ at \notin {"accept", "read"} /\ req[cur].kind = "shadow" => mode = "shadow"
    /\ at \notin {"stop", "release", "decide", "polkit"} => attempts < MaxAttempts

-----------------------------------------------------------------------------
\* find_surface picks one of the surfaces there are: the console's first.
LEMMA SurfaceFound ==
  ASSUME Found(req[cur]) # {}
  PROVE  <<Asked(req[cur]), IF "console" \in Found(req[cur]) THEN "console" ELSE "rdp">> \in Surfaces
<1>1. PICK s \in Found(req[cur]) : TRUE
    OBVIOUS
<1>2. \A x \in Found(req[cur]) : <<Asked(req[cur]), x>> \in Surfaces /\ x \in {"console", "rdp"}
    BY DEF Found, SeatsOf, Seats
<1> QED
    BY <1>1, <1>2, Zenon

\* A reply keeps the types of what it sets.
LEMMA ReplyTypes ==
  ASSUME TypeOK, NEW v \in {"closed", "granted", "denied", "failed"}, Reply(v)
  PROVE  /\ answer' \in [Conns -> {"none", "closed", "granted", "denied", "failed"}]
         /\ at' = "accept" /\ cur' = NoConn /\ mode' \in Modes /\ sf' = NoSurface
         /\ who' = NoOne /\ attempts' \in 0..MaxAttempts
<1>1. answer' = [answer EXCEPT ![cur] = v]
    BY DEF Reply
<1>2. answer' \in [Conns -> {"none", "closed", "granted", "denied", "failed"}]
  <2> DEFINE A == {"none", "closed", "granted", "denied", "failed"}
  <2>1. answer \in [Conns -> A] /\ v \in A
    BY DEF TypeOK
  <2> HIDE DEF A
  <2>2. answer' \in [Conns -> A]
    BY <1>1, <2>1, Zenon
  <2> QED
    BY <2>2 DEF A
<1>3. 0 \in 0..MaxAttempts
    BY BoundsAssumption
<1> QED
    BY <1>2, <1>3 DEF Reply, Modes

\* Every step keeps the variables' types.
LEMMA TypeStep == TypeOK /\ Control /\ [Next]_vars => TypeOK'
<1> SUFFICES ASSUME TypeOK, Control, [Next]_vars PROVE TypeOK'
    OBVIOUS
<1> USE RequestsAssumption, NamesAssumption, BoundsAssumption
<1>1. CASE accept
    BY <1>1 DEF TypeOK, Control, accept
<1>2. CASE read_fails
    BY <1>2, ReplyTypes DEF TypeOK, read_fails
<1>3. CASE dispatch
  <2>1. cur \in Conns /\ req[cur] \in Requests
    BY <1>3 DEF TypeOK, Control, dispatch
  <2>2. CASE Refused(req[cur])
    BY <1>3, <2>1, <2>2 DEF TypeOK, dispatch, Reply, Modes
  <2>3. CASE ~Refused(req[cur])
    <3>1. req[cur].target \in Accounts
      BY <2>1 DEF Request
    <3>2. mode' \in Modes
      BY <1>3, <2>3 DEF dispatch, ModeFor, Modes
    <3>3. scope' \in [Conns -> {"group", "person"}]
      BY <1>3, <2>1, <2>3 DEF TypeOK, dispatch
    <3>4. eligible' \in [Conns -> SUBSET Accounts]
      <4>1. (IF req[cur].kind = "shadow" THEN {req[cur].target} ELSE admins) \in SUBSET Accounts
        BY <3>1 DEF TypeOK
      <4> QED
        BY <1>3, <2>1, <2>3, <4>1 DEF TypeOK, dispatch
    <3> QED
      BY <1>3, <2>3, <3>2, <3>3, <3>4 DEF TypeOK, dispatch
  <2> QED
    BY <2>2, <2>3
<1>4. CASE find_surface
  <2>1. sf' \in Surfaces \cup {NoSurface} /\ at' \in {"decide", "secure"}
    <3>1. CASE Found(req[cur]) = {}
      BY <1>4, <3>1 DEF TypeOK, find_surface
    <3>2. CASE Found(req[cur]) # {}
      BY <1>4, <3>2, SurfaceFound DEF find_surface
    <3> QED
      BY <3>1, <3>2
  <2> QED
    BY <1>4, <2>1 DEF TypeOK, find_surface
<1>5. CASE surface_secure
  <2>1. sf \in Surfaces
    BY <1>5 DEF Control, surface_secure
  <2>2. comp' \in [Surfaces -> {"none", "unlocked", "secure", "locked", "hung"}]
    BY <1>5, <2>1 DEF TypeOK, surface_secure
  <2> QED
    BY <1>5, <2>2 DEF TypeOK, surface_secure
<1>6. CASE consent_ui_start
  <2>1. ui' \in {"none", "alive", "dead"} /\ pipe' \in Seq(Lines) /\ at' \in {"ask", "release"}
    <3>1. <<>> \in Seq(Lines)
      OBVIOUS
    <3>2. CASE pipe' = <<>> /\ at' = "ask"
      BY <1>6, <3>1, <3>2 DEF TypeOK, consent_ui_start
    <3>3. CASE UNCHANGED prompt /\ at' = "release"
      BY <3>3 DEF TypeOK
    <3> QED
      BY <1>6, <3>2, <3>3 DEF consent_ui_start
  <2> QED
    BY <1>6, <2>1 DEF TypeOK, consent_ui_start
<1>7. CASE consent_read_line
    BY <1>7 DEF TypeOK, Control, allowed, Principals, Request, Modes, consent_read_line, Yes, Credentials, out, Asked
<1>8. CASE consent_no_answer
    BY <1>8 DEF TypeOK, consent_no_answer, out
<1>9. CASE check_password
  <2> DEFINE l == Head(pipe)
  <2>1. pipe \in Seq(Lines) /\ pipe # <<>> /\ l \in Lines /\ l.tag = "CRED" /\ cur \in Conns
    BY <1>9 DEF TypeOK, Control, check_password
  <2>2. l.name \in Accounts
    BY <2>1, Zenon DEF Lines
  <2>3. ui' \in {"none", "alive", "dead"} /\ pipe' \in Seq(Lines)
    BY <1>9, <2>1 DEF TypeOK, check_password
  <2>4. who' \in Principals \cup {NoOne}
    BY <1>9, <2>2 DEF TypeOK, check_password, Principals
  <2>5. log' \subseteq [conn: Conns, id: {4625, 4648, 4672}, name: Principals]
    BY <1>9, <2>1, <2>2 DEF TypeOK, check_password, Principals
  <2>6. attempts' \in 0..MaxAttempts /\ at' \in {"stop", "ask"}
    BY <1>9 DEF TypeOK, Control, check_password, LastAttempt, out
  <2> QED
    BY <1>9, <2>3, <2>4, <2>5, <2>6 DEF TypeOK, check_password
<1>10. CASE consent_ui_stop
    BY <1>10 DEF TypeOK, consent_ui_stop
<1>11. CASE surface_release
    BY <1>11 DEF TypeOK, Control, surface_release
<1>12. CASE deny
    BY <1>12, ReplyTypes DEF TypeOK, deny
<1>13. CASE shadow_accepted
  <2>1. cur \in Conns /\ who \in Principals
    BY <1>13 DEF Control, shadow_accepted, allowed, Principals
  <2>2. granted' \subseteq [conn: Conns, by: Principals]
    BY <1>13, <2>1 DEF TypeOK, shadow_accepted, Granted
  <2> QED
    BY <1>13, <2>2, ReplyTypes DEF TypeOK, shadow_accepted
<1>14. CASE launch
  <2>1. cur \in Conns /\ req[cur] \in Requests /\ who \in Principals
    BY <1>14 DEF TypeOK, Control, launch, allowed, Principals
  <2>2. req[cur].uid \in Principals
    BY <2>1 DEF Request
  <2>3. log' \subseteq [conn: Conns, id: {4625, 4648, 4672}, name: Principals]
    BY <1>14, <2>1, <2>2 DEF TypeOK, launch, Audit, Event
  <2>4. granted' \subseteq [conn: Conns, by: Principals]
    BY <1>14, <2>1 DEF TypeOK, launch, Granted
  <2> QED
    BY <1>14, <2>3, <2>4, ReplyTypes DEF TypeOK, launch, Modes
<1>15. CASE polkit_identity
  <2>1. CASE who \in req[cur].ids
    BY <1>15, <2>1 DEF TypeOK, polkit_identity
  <2>2. CASE who \notin req[cur].ids
    BY <1>15, <2>2, ReplyTypes DEF TypeOK, polkit_identity
  <2> QED
    BY <2>1, <2>2
<1>16. CASE polkit_respond
  <2>1. cur \in Conns
    BY <1>16 DEF Control, polkit_respond
  <2>2. who \in Principals
    BY <1>16 DEF Control, polkit_respond, allowed, Principals
  <2>3. log' \subseteq [conn: Conns, id: {4625, 4648, 4672}, name: Principals]
    BY <1>16, <2>1, <2>2 DEF TypeOK, polkit_respond, Event
  <2>4. granted' \subseteq [conn: Conns, by: Principals]
    BY <1>16, <2>1, <2>2 DEF TypeOK, polkit_respond, Granted
  <2> QED
    BY <1>16, <2>3, <2>4, ReplyTypes DEF TypeOK, polkit_respond, Modes
<1>17. ASSUME NEW c \in Conns, NEW r \in Requests, Connect(c, r) PROVE TypeOK'
    BY <1>17 DEF TypeOK, Connect
<1>18. ASSUME NEW c \in Conns, SendRequest(c) PROVE TypeOK'
    BY <1>18 DEF TypeOK, SendRequest
<1>19. ASSUME NEW c \in Conns, HangUp(c) PROVE TypeOK'
    BY <1>19 DEF TypeOK, HangUp
<1>20. ASSUME NEW S \in SUBSET Accounts, ChangeMembers(S) PROVE TypeOK'
    BY <1>20 DEF TypeOK, ChangeMembers
<1>21. CASE MonitorDies
    BY <1>21 DEF TypeOK, MonitorDies
<1>22. CASE PromptDies
    BY <1>22 DEF TypeOK, PromptDies
<1>23. ASSUME NEW s \in Surfaces, Compositor(s) PROVE TypeOK'
  <2>1. stuck' \subseteq Surfaces
    BY <1>23 DEF TypeOK, Compositor
  <2>2. \E v \in {"none", "unlocked", "locked", "hung"} : comp' = [comp EXCEPT ![s] = v]
    BY <1>23 DEF Compositor
  <2>3. comp' \in [Surfaces -> {"none", "unlocked", "secure", "locked", "hung"}]
    BY <2>2 DEF TypeOK
  <2>4. ui' \in {"none", "alive", "dead"} /\ pipe' \in Seq(Lines)
    BY <1>23 DEF TypeOK, Compositor
  <2> QED
    BY <1>23, <2>1, <2>3, <2>4 DEF TypeOK, Compositor
<1>24. ASSUME NEW l \in Lines, PromptSays(l) PROVE TypeOK'
  <2>1. cur \in Conns
    BY <1>24 DEF TypeOK, Control, PromptSays
  <2>2. ui' \in {"none", "alive", "dead"} /\ pipe' \in Seq(Lines)
    BY <1>24 DEF TypeOK, PromptSays
  <2>3. said' \subseteq [conn: Conns, mode: Modes, line: Lines]
    BY <1>24, <2>1 DEF TypeOK, PromptSays
  <2> QED
    BY <1>24, <2>2, <2>3 DEF TypeOK, PromptSays
<1>25. CASE UNCHANGED vars
    BY <1>25 DEF TypeOK
<1> QED
    BY <1>1, <1>2, <1>3, <1>4, <1>5, <1>6, <1>7, <1>8, <1>9, <1>10, <1>11, <1>12, <1>13, <1>14, <1>15, <1>16, <1>17, <1>18, <1>19, <1>20, <1>21, <1>22, <1>23, <1>24, <1>25 DEF Next, BrokerStep, Environment

\* A reply puts the broker back at accept with nothing held.
LEMMA ControlReply ==
  ASSUME TypeOK, Control, NEW v \in {"closed", "granted", "denied", "failed"}, Reply(v),
         at \notin {"accept", "ask", "pam", "stop"}, UNCHANGED <<backlog, req, ui, pipe>>
  PROVE  Control'
<1> USE NamesAssumption, BoundsAssumption
<1>1. cur \in Conns /\ answer \in [Conns -> {"none", "closed", "granted", "denied", "failed"}]
    BY DEF TypeOK, Control
<1>2. /\ answer' = [answer EXCEPT ![cur] = v]
      /\ at' = "accept" /\ cur' = NoConn /\ mode' = "cred" /\ who' = NoOne /\ attempts' = 0
    BY DEF Reply
<1>3. backlog \in Seq(Conns) /\ \A i \in 1..Len(backlog) : backlog[i] \in Conns
    BY DEF TypeOK
<1>4. \A i \in 1..Len(backlog) : answer'[backlog[i]] = answer[backlog[i]] /\ backlog[i] # NoConn
    BY <1>1, <1>2, <1>3 DEF Control
<1>5. \A c \in Conns : req[c] = NoReq => answer'[c] = "none"
    BY <1>1, <1>2 DEF Control
<1> QED
    BY <1>2, <1>4, <1>5 DEF Control, allowed

\* The broker goes from one state to the next while serving: what has to be
\* seen to is the surface, the prompt, who consents and the attempts.
LEMMA ControlServing ==
  ASSUME Control, at \notin {"accept", "read"}, at' \notin {"accept", "read"},
         UNCHANGED <<backlog, req, answer, cur, mode>>,
         at' \in {"secure", "start", "ask", "pam", "stop", "release"} => sf' \in Surfaces,
         at' \notin {"ask", "pam", "stop"} => ui' = "none" /\ pipe' = <<>>,
         at' = "pam" => pipe' # <<>> /\ Head(pipe').tag = "CRED" /\ mode = "cred",
         who' # NoOne => who' \in Accounts /\ at' \in {"stop", "release", "decide", "polkit"},
         at' = "polkit" => who' # NoOne,
         at' \notin {"stop", "release", "decide", "polkit"} => attempts' < MaxAttempts
  PROVE  Control'
    BY DEF Control, allowed

\* Steps of the world around the broker leave its bookkeeping alone.
LEMMA ControlFrame ==
  ASSUME Control, UNCHANGED <<backlog, req, answer, at, cur, mode, who, attempts, sf>>,
         ui' = ui \/ ui # "none",
         pipe' = pipe \/ (ui # "none" /\ (at = "pam" => pipe' # <<>> /\ Head(pipe') = Head(pipe)))
  PROVE  Control'
    BY DEF Control, allowed

\* Every step keeps the broker's bookkeeping.
LEMMA ControlStep == TypeOK /\ TypeOK' /\ Control /\ [Next]_vars => Control'
<1> SUFFICES ASSUME TypeOK, TypeOK', Control, [Next]_vars PROVE Control'
    OBVIOUS
<1> USE RequestsAssumption, NamesAssumption, BoundsAssumption
<1>a. /\ backlog \in Seq(Conns) /\ req \in [Conns -> Requests \cup {NoReq}]
      /\ who \in Principals \cup {NoOne} /\ attempts \in 0..MaxAttempts
      /\ cur \in Conns \cup {NoConn} /\ mode \in Modes /\ pipe \in Seq(Lines)
    BY DEF TypeOK
<1>1. CASE accept
  <2>1. /\ backlog # <<>> /\ cur' = Head(backlog) /\ backlog' = Tail(backlog)
        /\ at = "accept" /\ at' = "read"
        /\ UNCHANGED <<req, answer, mode, who, attempts, sf, ui, pipe>>
    BY <1>1 DEF accept
  <2>2. Head(backlog) = backlog[1] /\ 1 \in 1..Len(backlog) /\ backlog[1] \in Conns
    BY <1>a, <2>1
  <2>3. \A i \in 1..Len(backlog') : backlog'[i] = backlog[i + 1] /\ i + 1 \in 1..Len(backlog) /\ i + 1 # 1
    BY <1>a, <2>1
  <2>4. /\ \A i \in 1..Len(backlog') : req[backlog'[i]] # NoReq /\ answer[backlog'[i]] = "none" /\ backlog'[i] # cur'
        /\ \A i, j \in 1..Len(backlog') : backlog'[i] = backlog'[j] => i = j
    BY <2>1, <2>2, <2>3 DEF Control
  <2> QED
    BY <2>1, <2>2, <2>4 DEF Control, allowed
<1>2. CASE read_fails
    BY <1>2, ControlReply DEF read_fails
<1>3. CASE dispatch
  <2>1. CASE Refused(req[cur])
    BY <1>3, <2>1, ControlReply DEF dispatch
  <2>2. CASE ~Refused(req[cur])
    <3>1. /\ at = "read" /\ at' = "surface" /\ mode' = ModeFor(req[cur])
          /\ UNCHANGED <<backlog, req, answer, cur, who, attempts, sf, ui, pipe>>
      BY <1>3, <2>2 DEF dispatch
    <3>2. cur \in Conns /\ req[cur] \in Request
      BY <1>a, <3>1 DEF Control
    <3>3. /\ mode' = "admin" => req[cur].uid \in Accounts
          /\ mode' = "shadow" <=> req[cur].kind = "shadow"
      <4>1. admins \subseteq Accounts
        BY DEF TypeOK
      <4> QED
        BY <3>1, <4>1 DEF ModeFor
    <3> QED
      BY <3>1, <3>2, <3>3 DEF Control, allowed
  <2> QED
    BY <2>1, <2>2
<1>b. at \notin {"accept", "ask", "pam", "stop"} => ui = "none" /\ pipe = <<>>
    BY DEF Control
<1>c. at \in {"secure", "start", "ask", "pam", "stop", "release"} => sf \in Surfaces
    BY DEF Control
<1>d. who # NoOne => who \in Accounts /\ at \in {"stop", "release", "decide", "polkit"}
    BY DEF Control, allowed
<1>e. at \notin {"stop", "release", "decide", "polkit"} => attempts < MaxAttempts
    BY DEF Control
<1>4. CASE find_surface
  <2>1. at' \in {"decide", "secure"} /\ (at' = "secure" => sf' \in Surfaces)
    <3>1. CASE Found(req[cur]) = {}
      BY <1>4, <3>1 DEF find_surface
    <3>2. CASE Found(req[cur]) # {}
      BY <1>4, <3>2, SurfaceFound DEF find_surface
    <3> QED
      BY <3>1, <3>2
  <2> QED
    BY <1>4, <1>b, <1>d, <1>e, <2>1, ControlServing DEF find_surface
<1>5. CASE surface_secure
    BY <1>5, <1>b, <1>c, <1>d, <1>e, ControlServing DEF surface_secure
<1>6. CASE consent_ui_start
    BY <1>6, <1>b, <1>c, <1>d, <1>e, ControlServing DEF consent_ui_start
<1>7. CASE consent_read_line
  <2>1. at = "ask" /\ pipe # <<>> /\ UNCHANGED <<backlog, req, answer, cur, mode, attempts, sf, ui, pipe>>
    BY <1>7 DEF consent_read_line
  <2>2. at' = "pam" => Head(pipe).tag = "CRED" /\ mode = "cred" /\ UNCHANGED who
    BY <1>7 DEF consent_read_line, out, Credentials
  <2>3. who' # NoOne => who' = Asked(req[cur]) /\ mode # "cred" /\ at' = "stop"
    BY <1>7, <1>d, <2>1 DEF consent_read_line, out, Yes
  <2>4. who' # NoOne => who' \in Accounts
    <3>1. cur \in Conns /\ req[cur] \in Request
      BY <1>a, <2>1 DEF Control
    <3>2. mode \in {"admin", "cred", "shadow"}
      BY <1>a DEF Modes
    <3> QED
      BY <2>3, <3>1, <3>2 DEF Control, Asked, Request
  <2>5. at' \in {"pam", "stop"}
    BY <1>7 DEF consent_read_line, out
  <2> QED
    BY <1>c, <1>e, <2>1, <2>2, <2>3, <2>4, <2>5, ControlServing
<1>8. CASE consent_no_answer
    BY <1>8, <1>b, <1>c, <1>d, <1>e, ControlServing DEF consent_no_answer, out
<1>9. CASE check_password
  <2>1. at = "pam" /\ UNCHANGED <<backlog, req, answer, cur, mode, sf>>
    BY <1>9 DEF check_password
  <2>2. at' \in {"ask", "stop"} /\ (at' = "ask" => attempts' < MaxAttempts)
    BY <1>9, <1>a, <1>e DEF check_password, LastAttempt, out
  <2>3. pipe \in Seq(Lines) /\ pipe # <<>> /\ Head(pipe).tag = "CRED"
    BY <1>a, <2>1 DEF Control
  <2>4. Head(pipe) \in Lines
    BY <2>3
  <2>5. Head(pipe).name \in Accounts
    BY <2>3, <2>4, Zenon DEF Lines
  <2>6. who' # NoOne => who' \in Accounts /\ at' = "stop"
    BY <1>9, <1>d, <2>1, <2>5 DEF check_password, out
  <2> QED
    BY <1>c, <2>1, <2>2, <2>6, ControlServing
<1>10. CASE consent_ui_stop
    BY <1>10, <1>c, <1>d, <1>e, ControlServing DEF consent_ui_stop
<1>11. CASE surface_release
    BY <1>11, <1>b, <1>d, ControlServing DEF surface_release
<1>12. CASE deny
    BY <1>12, ControlReply DEF deny
<1>13. CASE shadow_accepted
    BY <1>13, ControlReply DEF shadow_accepted
<1>14. CASE launch
    BY <1>14, ControlReply DEF launch
<1>15. CASE polkit_identity
  <2>1. CASE who \in req[cur].ids
    BY <1>15, <1>b, <1>d, <2>1, ControlServing DEF polkit_identity, allowed
  <2>2. CASE who \notin req[cur].ids
    BY <1>15, <2>2, ControlReply DEF polkit_identity
  <2> QED
    BY <2>1, <2>2
<1>16. CASE polkit_respond
    BY <1>16, ControlReply DEF polkit_respond
<1>17. ASSUME NEW c \in Conns, NEW r \in Requests, Connect(c, r) PROVE Control'
  <2>1. /\ req[c] = NoReq /\ req' = [req EXCEPT ![c] = r] /\ backlog' = Append(backlog, c)
        /\ UNCHANGED <<answer, at, cur, mode, who, attempts, sf, ui, pipe>>
    BY <1>17 DEF Connect
  <2>2. req'[c] # NoReq /\ \A x \in Conns : x # c => req'[x] = req[x]
    BY <1>a, <2>1
  <2>3. \A i \in 1..Len(backlog') : (i \in 1..Len(backlog) /\ backlog'[i] = backlog[i] /\ backlog[i] \in Conns)
                                     \/ (i = Len(backlog) + 1 /\ backlog'[i] = c)
    BY <1>a, <2>1
  <2>4. answer[c] = "none" /\ c # cur /\ \A i \in 1..Len(backlog) : backlog[i] # c
    BY <2>1 DEF Control
  <2>5. /\ \A i \in 1..Len(backlog') : req'[backlog'[i]] # NoReq /\ answer[backlog'[i]] = "none" /\ backlog'[i] # cur
        /\ \A i, j \in 1..Len(backlog') : backlog'[i] = backlog'[j] => i = j
    BY <2>2, <2>3, <2>4 DEF Control
  <2>6. cur # NoConn => req'[cur] = req[cur]
    BY <1>a, <2>2, <2>4
  <2>7. mode = "admin" => cur # NoConn
    BY DEF Control
  <2>8. mode = "shadow" => cur # NoConn
    BY DEF Control
  <2> QED
    BY <2>1, <2>2, <2>5, <2>6, <2>7, <2>8 DEF Control, allowed
<1>18. ASSUME NEW c \in Conns, SendRequest(c) PROVE Control'
    BY <1>18, ControlFrame DEF SendRequest
<1>19. ASSUME NEW c \in Conns, HangUp(c) PROVE Control'
    BY <1>19, ControlFrame DEF HangUp
<1>20. ASSUME NEW S \in SUBSET Accounts, ChangeMembers(S) PROVE Control'
    BY <1>20, ControlFrame DEF ChangeMembers
<1>21. CASE MonitorDies
    BY <1>21, ControlFrame DEF MonitorDies
<1>22. CASE PromptDies
    BY <1>22, ControlFrame DEF PromptDies
<1>23. ASSUME NEW s \in Surfaces, Compositor(s) PROVE Control'
    BY <1>23, ControlFrame DEF Compositor
<1>24. ASSUME NEW l \in Lines, PromptSays(l) PROVE Control'
  <2>1. /\ ui = "alive" /\ pipe' = Append(pipe, l)
        /\ UNCHANGED <<backlog, req, answer, at, cur, mode, who, attempts, sf, ui>>
    BY <1>24 DEF PromptSays
  <2>2. pipe \in Seq(Lines) /\ (at = "pam" => pipe # <<>>)
    BY <1>a DEF Control
  <2>3. at = "pam" => pipe' # <<>> /\ Head(pipe') = Head(pipe)
    BY <2>1, <2>2
  <2> QED
    BY <2>1, <2>3, ControlFrame
<1>25. CASE UNCHANGED vars
    BY <1>25, ControlFrame
<1> QED
    BY <1>1, <1>2, <1>3, <1>4, <1>5, <1>6, <1>7, <1>8, <1>9, <1>10, <1>11, <1>12, <1>13, <1>14, <1>15, <1>16, <1>17, <1>18, <1>19, <1>20, <1>21, <1>22, <1>23, <1>24, <1>25 DEF Next, BrokerStep, Environment
=============================================================================
