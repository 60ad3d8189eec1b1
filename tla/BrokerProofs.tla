---------------------------- MODULE BrokerProofs ----------------------------
(***************************************************************************)
(* Proofs about module Broker, part two: with the types and the            *)
(* bookkeeping of part one, nothing is granted without consent.            *)
(***************************************************************************)
EXTENDS BrokerTypes

USE DEF vars, world, clients, serving, deciding, prompt, outcome, rights

(* Consent.                                                                  *)

\* What makes the request being served a legitimate one, and its prompt's
\* lines known: who may grant it, and that a line that could grant it was
\* said at this prompt.
Backed(c) ==
    /\ req[c].kind = "shadow" => req[c].uid = Root /\ req[c].target \in eligible[c] /\ scope[c] = "person"
    /\ req[c].kind # "shadow" => admins \subseteq eligible[c] /\ scope[c] = "group"
    /\ req[c].kind # "shadow" /\ mode = "admin" => req[c].uid \in eligible[c]

Consented ==
    /\ at \notin {"accept", "read"} => Backed(cur)
    /\ \A i \in 1..Len(pipe) : pipe[i].tag = "ALLOW" \/ pipe[i].good =>
          [conn |-> cur, mode |-> mode, line |-> pipe[i]] \in said
    /\ allowed => ConsentFor(cur, who)
    /\ \A g \in granted : answer[g.conn] # "none"
    /\ GrantedOnlyByConsent

IInv == TypeOK /\ Control /\ Consented

-----------------------------------------------------------------------------
\* A consent stays one: what was said and who had the right to say it only
\* grow, and the request it was for does not change.
LEMMA ConsentKept ==
  ASSUME NEW c, NEW by, ConsentFor(c, by),
         said \subseteq said', eligible[c] \subseteq eligible'[c], req'[c] = req[c]
  PROVE  ConsentFor(c, by)'
    BY Zenon DEF ConsentFor

\* Steps that touch neither requests, rights, decisions nor answers.
LEMMA ConsentFrame ==
  ASSUME IInv, at' \in {"accept", "read"} \/ at \notin {"accept", "read"},
         UNCHANGED <<admins, said, scope, eligible, req, granted, answer, cur, mode, who>>,
         pipe' = pipe \/ pipe' = <<>>
  PROVE  Consented'
<1>1. \A c, by : ConsentFor(c, by) => ConsentFor(c, by)'
    BY ConsentKept
<1>2. (at \notin {"accept", "read"} => Backed(cur))'
    BY DEF IInv, Consented, Backed
<1>3. (allowed => ConsentFor(cur, who))'
    BY <1>1 DEF IInv, Consented, allowed
<1>4. GrantedOnlyByConsent'
    BY <1>1 DEF IInv, Consented, GrantedOnlyByConsent
<1>5. (\A i \in 1..Len(pipe) : pipe[i].tag = "ALLOW" \/ pipe[i].good =>
          [conn |-> cur, mode |-> mode, line |-> pipe[i]] \in said)'
    BY DEF IInv, Consented
<1> QED
    BY <1>2, <1>3, <1>4, <1>5 DEF IInv, Consented

\* Steps that answer the served connection, granting what was consented to
\* or nothing.
LEMMA ConsentReply ==
  ASSUME IInv, at \notin {"accept", "ask", "pam", "stop"},
         NEW v \in {"closed", "granted", "denied", "failed"}, Reply(v),
         UNCHANGED <<said, eligible, req, pipe>>,
         granted' = granted \/ (allowed /\ granted' = Granted)
  PROVE  Consented'
<1> USE NamesAssumption
<1>1. \A c, by : ConsentFor(c, by) => ConsentFor(c, by)'
    BY ConsentKept
<1>2. at' = "accept" /\ who' = NoOne /\ pipe' = <<>>
    BY DEF IInv, Control, Reply
<1>3. cur \in Conns /\ answer' = [answer EXCEPT ![cur] = v] /\ answer \in [Conns -> {"none", "closed", "granted", "denied", "failed"}]
    BY DEF IInv, Control, TypeOK, Reply
<1>4. granted \subseteq [conn: Conns, by: Principals]
    BY DEF IInv, TypeOK
<1>5. GrantedOnlyByConsent'
    BY <1>1 DEF IInv, Consented, GrantedOnlyByConsent, Granted
<1>6. ASSUME NEW g \in granted' PROVE answer'[g.conn] # "none"
  <2>1. CASE g \in granted
    BY <1>3, <1>4, <2>1 DEF IInv, Consented
  <2>2. CASE g \notin granted
    <3>1. g.conn = cur
      BY <1>6, <2>2 DEF Granted
    <3> QED
      BY <1>3, <3>1
  <2> QED
    BY <2>1, <2>2
<1> QED
    BY <1>2, <1>5, <1>6 DEF Consented, allowed

\* Every step keeps the consents in order.
LEMMA ConsentStep == IInv /\ TypeOK' /\ Control' /\ [Next]_vars => Consented'
<1> SUFFICES ASSUME IInv, TypeOK', Control', [Next]_vars PROVE Consented'
    OBVIOUS
<1> USE RequestsAssumption, NamesAssumption, BoundsAssumption
<1>a. TypeOK /\ Control /\ Consented
    BY DEF IInv
<1>1. CASE accept
  <2>1. \A c, by : ConsentFor(c, by) => ConsentFor(c, by)'
    BY <1>1, ConsentKept DEF accept
  <2>2. GrantedOnlyByConsent'
    BY <1>a, <1>1, <2>1 DEF Consented, GrantedOnlyByConsent, accept
  <2> QED
    BY <1>a, <1>1, <2>2 DEF Control, Consented, accept, allowed
<1>2. CASE read_fails
    BY <1>2, ConsentReply DEF read_fails
<1>3. CASE dispatch
  <2>1. cur \in Conns /\ req[cur] \in Requests
    BY <1>a, <1>3 DEF TypeOK, Control, dispatch
  <2>2. CASE Refused(req[cur])
    BY <1>3, <2>2, ConsentReply DEF dispatch
  <2>3. CASE ~Refused(req[cur])
    <3>1. /\ at' = "surface" /\ mode' = ModeFor(req[cur])
          /\ scope' = [scope EXCEPT ![cur] = IF req[cur].kind = "shadow" THEN "person" ELSE "group"]
          /\ eligible' = [eligible EXCEPT ![cur] = IF req[cur].kind = "shadow" THEN {req[cur].target} ELSE admins]
          /\ UNCHANGED <<admins, req, said, cur, who, answer, granted, pipe>>
      BY <1>3, <2>3 DEF dispatch
    <3>2. scope'[cur] = (IF req[cur].kind = "shadow" THEN "person" ELSE "group")
      BY <1>a, <2>1, <3>1 DEF TypeOK
    <3>3. eligible'[cur] = (IF req[cur].kind = "shadow" THEN {req[cur].target} ELSE admins)
      BY <1>a, <2>1, <3>1 DEF TypeOK
    <3>4. Backed(cur)'
      BY <2>3, <3>1, <3>2, <3>3 DEF Backed, ModeFor, Refused
    <3>5. ASSUME NEW g \in granted PROVE ConsentFor(g.conn, g.by)'
      <4>1. g.conn \in Conns /\ g.conn # cur
        <5>1. g.conn \in Conns
          BY <1>a, <3>5 DEF TypeOK
        <5>2. answer[g.conn] # "none"
          BY <1>a, <3>5 DEF Consented
        <5>3. answer[cur] = "none"
          BY <1>a, <2>1 DEF Control
        <5> QED
          BY <5>1, <5>2, <5>3
      <4>2. eligible'[g.conn] = eligible[g.conn]
        BY <1>a, <3>1, <4>1 DEF TypeOK
      <4> QED
        BY <1>a, <3>1, <3>5, <4>2, ConsentKept DEF Consented, GrantedOnlyByConsent
    <3>6. who' = NoOne /\ pipe' = <<>>
      BY <1>a, <1>3, <3>1 DEF Control, dispatch
    <3> QED
      BY <1>a, <3>1, <3>4, <3>5, <3>6 DEF Consented, GrantedOnlyByConsent, allowed
  <2> QED
    BY <2>2, <2>3
<1>4. CASE find_surface
    BY <1>4, ConsentFrame DEF find_surface
<1>5. CASE surface_secure
    BY <1>5, ConsentFrame DEF surface_secure
<1>6. CASE consent_ui_start
    BY <1>6, ConsentFrame DEF consent_ui_start
<1>7. CASE consent_read_line
  <2> DEFINE l == Head(pipe)
  <2>1. CASE Yes(l) /\ who' = Asked(req[cur]) /\ at' = out
    <3>1. l = pipe[1] /\ 1 \in 1..Len(pipe) /\ l.tag = "ALLOW"
      BY <1>a, <1>7, <2>1 DEF TypeOK, consent_read_line, Yes
    <3>2. [conn |-> cur, mode |-> mode, line |-> l] \in said
      BY <1>a, <3>1 DEF Consented
    <3>3. Asked(req[cur]) \in eligible[cur]
      <4>1. at = "ask" /\ mode \in {"admin", "shadow"}
        BY <1>a, <1>7, <2>1 DEF TypeOK, Modes, Yes, consent_read_line
      <4>2. Backed(cur)
        BY <1>a, <4>1 DEF Consented
      <4>3. mode = "shadow" => req[cur].kind = "shadow"
        BY <1>a DEF Control
      <4>4. req[cur].kind = "shadow" => mode = "shadow"
        BY <1>a, <4>1 DEF Control
      <4> QED
        BY <4>1, <4>2, <4>3, <4>4 DEF Backed, Asked
    <3>4. ConsentFor(cur, Asked(req[cur]))
      <4>1. CASE mode = "admin"
        <5>1. req[cur].kind # "shadow"
          BY <1>a, <1>7, <4>1 DEF Control, consent_read_line
        <5> QED
          BY <3>1, <3>2, <3>3, <4>1, <5>1, Zenon DEF ConsentFor, Asked
      <4>2. CASE mode = "shadow"
        <5>1. req[cur].uid = Root
          BY <1>a, <1>7, <4>2 DEF Control, Consented, Backed, consent_read_line
        <5> QED
          BY <3>1, <3>2, <3>3, <4>2, <5>1, Zenon DEF ConsentFor
      <4> QED
        BY <1>a, <2>1, <4>1, <4>2 DEF TypeOK, Modes, Yes
    <3>5. \A c, by : ConsentFor(c, by) => ConsentFor(c, by)'
      BY <1>7, ConsentKept DEF consent_read_line
    <3>6. ConsentFor(cur, who)'
      BY <1>7, <2>1, <3>4, <3>5 DEF consent_read_line
    <3>7. GrantedOnlyByConsent'
      BY <1>a, <1>7, <3>5 DEF Consented, GrantedOnlyByConsent, consent_read_line
    <3> QED
      BY <1>a, <1>7, <3>6, <3>7 DEF Consented, Backed, consent_read_line
  <2>2. CASE UNCHANGED who
    BY <1>7, <2>2, ConsentFrame DEF consent_read_line
  <2> QED
    BY <1>7, <2>1, <2>2 DEF consent_read_line
<1>8. CASE consent_no_answer
    BY <1>8, ConsentFrame DEF consent_no_answer
<1>9. CASE check_password
  <2> DEFINE l == Head(pipe)
  <2>1. l = pipe[1] /\ 1 \in 1..Len(pipe) /\ l.tag = "CRED" /\ mode = "cred"
    <3>1. pipe \in Seq(Lines) /\ pipe # <<>> /\ l.tag = "CRED" /\ mode = "cred"
      <4>1. pipe \in Seq(Lines)
        BY <1>a DEF TypeOK
      <4>2. at = "pam"
        BY <1>9 DEF check_password
      <4> QED
        BY <1>a, <4>1, <4>2 DEF Control
    <3>2. pipe[1] = Head(pipe) /\ 1 \in 1..Len(pipe)
      BY <3>1
    <3> QED
      BY <3>1, <3>2
  <2>a. UNCHANGED <<admins, said, scope, eligible, req, answer, granted, cur, mode>>
    BY <1>9 DEF check_password
  <2>b. at = "pam"
    BY <1>9 DEF check_password
  <2>2. \A c, by : ConsentFor(c, by) => ConsentFor(c, by)'
    BY <2>a, ConsentKept
  <2>3. GrantedOnlyByConsent'
    BY <1>a, <2>a, <2>2 DEF Consented, GrantedOnlyByConsent
  <2>4. (\A i \in 1..Len(pipe) : pipe[i].tag = "ALLOW" \/ pipe[i].good =>
          [conn |-> cur, mode |-> mode, line |-> pipe[i]] \in said)'
    <3>1. pipe' = Tail(pipe) /\ pipe # <<>> /\ pipe \in Seq(Lines) /\ UNCHANGED <<cur, mode, said>>
      <4>1. pipe \in Seq(Lines)
        BY <1>a DEF TypeOK
      <4>2. pipe # <<>>
        BY <1>a, <1>9 DEF Control, check_password
      <4> QED
        BY <1>9, <4>1, <4>2, <2>a DEF check_password
    <3>2. \A i \in 1..Len(pipe') : pipe'[i] = pipe[i + 1] /\ i + 1 \in 1..Len(pipe)
      BY <3>1
    <3> QED
      BY <1>a, <3>1, <3>2 DEF Consented
  <2>5. (allowed => ConsentFor(cur, who))'
    <3>1. CASE Valid(l)
      <4>1. l.good /\ l.name \in eligible[cur]
        <5>1. l.good /\ l.name \in admins
          BY <3>1 DEF Valid
        <5>2. req[cur].kind # "shadow" /\ Backed(cur)
          BY <1>a, <2>1, <2>b DEF Control, Consented
        <5> QED
          BY <5>1, <5>2 DEF Backed
      <4>2. [conn |-> cur, mode |-> mode, line |-> l] \in said
        BY <1>a, <2>1, <4>1 DEF Consented
      <4>3. ConsentFor(cur, l.name)
        BY <2>1, <4>1, <4>2, Zenon DEF ConsentFor
      <4> QED
        <5>1. who' = l.name
          BY <1>9, <3>1 DEF check_password
        <5> QED
          BY <2>a, <2>2, <4>3, <5>1
    <3>2. CASE ~Valid(l)
      <4>1. UNCHANGED who
        BY <1>9, <3>2 DEF check_password
      <4> QED
        BY <1>a, <2>a, <2>2, <4>1 DEF Consented, allowed
    <3> QED
      BY <3>1, <3>2
  <2> QED
    <3>1. Backed(cur)'
      BY <1>a, <2>a, <2>b DEF Consented, Backed
    <3> QED
      BY <1>a, <2>a, <2>3, <2>4, <2>5, <3>1 DEF Consented
<1>10. CASE consent_ui_stop
    BY <1>10, ConsentFrame DEF consent_ui_stop
<1>11. CASE surface_release
    BY <1>11, ConsentFrame DEF surface_release
<1>12. CASE deny
    BY <1>12, ConsentReply DEF deny
<1>13. CASE shadow_accepted
    BY <1>13, ConsentReply DEF shadow_accepted
<1>14. CASE launch
    BY <1>14, ConsentReply DEF launch
<1>15. CASE polkit_identity
  <2>1. CASE who \in req[cur].ids
    BY <1>15, <2>1, ConsentFrame DEF polkit_identity
  <2>2. CASE who \notin req[cur].ids
    BY <1>15, <2>2, ConsentReply DEF polkit_identity
  <2> QED
    BY <2>1, <2>2
<1>16. CASE polkit_respond
  <2>1. at = "polkit" /\ UNCHANGED <<said, eligible, req, pipe>>
    BY <1>16 DEF polkit_respond
  <2>2. allowed
    BY <1>a, <2>1 DEF Control
  <2>3. (Reply("granted") /\ granted' = Granted) \/ (Reply("failed") /\ granted' = granted)
    BY <1>16 DEF polkit_respond
  <2> QED
    BY <2>1, <2>2, <2>3, ConsentReply
<1>17. ASSUME NEW c \in Conns, NEW r \in Requests, Connect(c, r) PROVE Consented'
  <2>1. \A x \in Conns : x # c => req'[x] = req[x]
    BY <1>a, <1>17 DEF TypeOK, Connect
  <2>2. ASSUME NEW g \in granted PROVE ConsentFor(g.conn, g.by)'
    <3>1. g.conn \in Conns
      BY <1>a, <2>2 DEF TypeOK
    <3>2. answer[g.conn] # "none" /\ answer[c] = "none"
      BY <1>a, <1>17, <2>2 DEF Control, Consented, Connect
    <3> QED
      BY <1>a, <1>17, <2>1, <2>2, <3>1, <3>2, ConsentKept DEF Consented, GrantedOnlyByConsent, Connect
  <2>3. at # "accept" => cur \in Conns /\ cur # c
    BY <1>a, <1>17 DEF Control, Connect
  <2>4. (allowed => ConsentFor(cur, who))'
    BY <1>a, <1>17, <2>1, <2>3, ConsentKept DEF Control, Consented, allowed, Connect
  <2>5. (at \notin {"accept", "read"} => Backed(cur))'
    BY <1>a, <1>17, <2>1, <2>3 DEF Consented, Backed, Connect
  <2> QED
    BY <1>a, <1>17, <2>2, <2>4, <2>5 DEF Consented, GrantedOnlyByConsent, Connect
<1>18. ASSUME NEW c \in Conns, SendRequest(c) PROVE Consented'
    BY <1>18, ConsentFrame DEF SendRequest
<1>19. ASSUME NEW c \in Conns, HangUp(c) PROVE Consented'
    BY <1>19, ConsentFrame DEF HangUp
<1>20. ASSUME NEW S \in SUBSET Accounts, ChangeMembers(S) PROVE Consented'
  <2>1. \A c \in Conns : eligible[c] \subseteq eligible'[c]
    BY <1>a, <1>20 DEF TypeOK, ChangeMembers
  <2>a. UNCHANGED <<said, req, granted, answer, at, cur, who, mode, pipe>>
    BY <1>20 DEF ChangeMembers
  <2>2. ASSUME NEW g \in granted PROVE ConsentFor(g.conn, g.by)'
    <3>1. g.conn \in Conns
      BY <1>a, <2>2 DEF TypeOK
    <3>2. ConsentFor(g.conn, g.by)
      BY <1>a, <2>2 DEF Consented, GrantedOnlyByConsent
    <3> QED
      BY <2>1, <2>a, <3>1, <3>2, ConsentKept
  <2>3. (allowed => ConsentFor(cur, who))'
    <3> SUFFICES ASSUME allowed PROVE ConsentFor(cur, who)'
      BY <2>a DEF allowed
    <3>1. cur \in Conns /\ ConsentFor(cur, who)
      BY <1>a DEF Control, Consented
    <3> QED
      BY <2>1, <2>a, <3>1, ConsentKept
  <2>4. (at \notin {"accept", "read"} => Backed(cur))'
    <3> SUFFICES ASSUME at \notin {"accept", "read"} PROVE Backed(cur)'
      BY <1>20 DEF ChangeMembers
    <3>1. cur \in Conns /\ cur # NoConn /\ Backed(cur)
      BY <1>a DEF Control, Consented
    <3>2. scope[cur] = "group" => S \subseteq eligible'[cur]
      BY <1>a, <1>20, <3>1 DEF TypeOK, ChangeMembers
    <3>3. eligible[cur] \subseteq eligible'[cur]
      BY <2>1, <3>1
    <3> QED
      BY <1>20, <3>1, <3>2, <3>3 DEF Backed, ChangeMembers
  <2> QED
    BY <1>a, <1>20, <2>2, <2>3, <2>4 DEF Consented, GrantedOnlyByConsent, ChangeMembers
<1>21. CASE MonitorDies
    BY <1>21, ConsentFrame DEF MonitorDies
<1>22. CASE PromptDies
    BY <1>22, ConsentFrame DEF PromptDies
<1>23. ASSUME NEW s \in Surfaces, Compositor(s) PROVE Consented'
    BY <1>23, ConsentFrame DEF Compositor
<1>24. ASSUME NEW l \in Lines, PromptSays(l) PROVE Consented'
  <2>1. said \subseteq said'
    BY <1>24 DEF PromptSays
  <2>2. \A g \in granted : ConsentFor(g.conn, g.by)'
    BY <1>a, <1>24, <2>1, ConsentKept DEF Consented, GrantedOnlyByConsent, PromptSays
  <2>3. (allowed => ConsentFor(cur, who))'
    BY <1>a, <1>24, <2>1, ConsentKept DEF Consented, allowed, PromptSays
  <2>4. (\A i \in 1..Len(pipe) : pipe[i].tag = "ALLOW" \/ pipe[i].good =>
          [conn |-> cur, mode |-> mode, line |-> pipe[i]] \in said)'
    <3>1. pipe \in Seq(Lines) /\ pipe' = Append(pipe, l) /\ UNCHANGED <<cur, mode>>
      BY <1>a, <1>24 DEF TypeOK, PromptSays
    <3>2. l.tag = "ALLOW" \/ l.good => [conn |-> cur, mode |-> mode, line |-> l] \in said'
      BY <1>24 DEF PromptSays
    <3>3. \A i \in 1..Len(pipe') : pipe'[i] = l \/ (i \in 1..Len(pipe) /\ pipe'[i] = pipe[i])
      BY <3>1
    <3> QED
      BY <1>a, <2>1, <3>1, <3>2, <3>3 DEF Consented
  <2> QED
    BY <1>a, <1>24, <2>2, <2>3, <2>4 DEF Consented, Backed, GrantedOnlyByConsent, PromptSays
<1>25. CASE UNCHANGED vars
    BY <1>25, ConsentFrame
<1> QED
    BY <1>1, <1>2, <1>3, <1>4, <1>5, <1>6, <1>7, <1>8, <1>9, <1>10, <1>11, <1>12, <1>13, <1>14, <1>15, <1>16, <1>17, <1>18, <1>19, <1>20, <1>21, <1>22, <1>23, <1>24, <1>25 DEF Next, BrokerStep, Environment

\* The invariant holds when the broker starts.
LEMMA InitIInv == Init => IInv
<1> SUFFICES ASSUME Init PROVE IInv
    OBVIOUS
<1> USE RequestsAssumption, NamesAssumption, BoundsAssumption
<1>1. TypeOK
    BY DEF Init, TypeOK, Principals, Modes
<1>2. Control
    BY DEF Init, Control, allowed
<1>3. pipe = <<>> /\ granted = {} /\ who = NoOne /\ at = "accept"
    BY DEF Init
<1>4. Consented
    BY <1>3 DEF Consented, allowed, GrantedOnlyByConsent
<1> QED
    BY <1>1, <1>2, <1>4 DEF IInv

\* The inductive invariant holds throughout: the broker's variables have
\* their types, its bookkeeping is right, and every consent is accounted for.
THEOREM Invariance == Spec => []IInv
<1>1. IInv /\ [Next]_vars => IInv'
    BY TypeStep, ControlStep, ConsentStep DEF IInv
<1> QED
    BY InitIInv, <1>1, PTL DEF Spec

\* For any number of connections, accounts and surfaces the broker's state
\* stays well typed; in particular its attempts stay within MaxAttempts.
THEOREM TypeCorrect == Spec => []TypeOK
<1>1. IInv => TypeOK
    BY DEF IInv
<1> QED
    BY Invariance, <1>1, PTL

\* For any number of connections, accounts and surfaces, and whatever the
\* prompt, the compositors and the group do in between: nothing is granted
\* without the consent of somebody with the right to give it.
THEOREM ConsentTheorem == Spec => []GrantedOnlyByConsent
<1>1. IInv => GrantedOnlyByConsent
    BY DEF IInv, Consented
<1> QED
    BY Invariance, <1>1, PTL
=============================================================================
