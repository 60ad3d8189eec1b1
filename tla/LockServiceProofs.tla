------------------------- MODULE LockServiceProofs --------------------------
(***************************************************************************)
(* Proofs about module LockService, for any number of users and any        *)
(* bounds: what is on the screen is what the compositor's state calls for, *)
(* and a locked session is unlocked by its owner's password only.          *)
(***************************************************************************)
EXTENDS LockService, SequenceTheorems, TLAPS

USE DEF vars, seat, screen

\* Of a queue of events: the newest one, that a security screen comes after an
\* unlocked session only, and that the end of the connection is not among them.
Events == {"locked", "unlocked", "sas", "eof"}
Newest(q) == q[Len(q)]
InOrder(q) == \A i \in 2..Len(q) : q[i] = "sas" => q[i - 1] = "unlocked"
NoEof(q) == \A i \in 1..Len(q) : q[i] # "eof"

\* The screen that is up, or that is about to be put back.
Shown == IF at = "restart" THEN todo ELSE ui

\* Whose session is watched, and that its connection tells when it ends.
Watched ==
    /\ at = "connecting" => path \in Users
    /\ IF user # NoUser THEN path = user /\ (linked \/ evq # <<>>)
                        ELSE ui = "none" /\ evq = <<>> /\ ~linked
    /\ linked => comp[user] # "gone" /\ NoEof(evq)
    /\ ~linked /\ evq # <<>> => Newest(evq) = "eof"
    /\ at = "event" => evq # <<>>

\* What the service is in the middle of, and with which screen.
Busy ==
    /\ at \in {"line", "check", "command"} => ui # "none"
    /\ at = "restart" => ui = "none" /\ todo \in {"lock", "sas"}
    /\ failed = "now" => Shown = "none"
    /\ at = "check" => ui = "lock" /\ todo \in {"good", "bad"}
    /\ at = "command" => (ui = "lock" /\ todo = "good") \/ (ui = "sas" /\ todo \in {"lock", "other"})

\* The newest event waiting tells the compositor's state (the first one does
\* not tell a security screen); when none waits the screen has followed it.
Queued ==
    /\ linked /\ evq # <<>> =>
          Newest(evq) = comp[user] \/ (Newest(evq) = "unlocked" /\ comp[user] = "sas")
    /\ linked /\ evq = <<>> =>
          /\ comp[user] = "locked" => Shown = "lock" \/ failed = "now"
          /\ comp[user] = "unlocked" => Shown = "none"
          /\ comp[user] = "sas" => Shown # "lock"
    /\ InOrder(evq)
    /\ evq # <<>> /\ Head(evq) = "sas" => Shown # "lock"

\* A right password on its way through the service was typed at this screen, by
\* the owner of the session that is watched.
Typed ==
    /\ \A i \in 1..Len(uiout) : uiout[i] = "good" => user \in right
    /\ at \in {"check", "command"} /\ todo = "good" => user \in right

\* A picture is staged for a screen that is up, or that failed to start.
Pictured ==
    /\ left => failed # "never"
    /\ pic => ui # "none" \/ failed = "now"

\* The types, of the three parts of the state.
SeatOK ==
    comp \in [Users -> {"gone", "unlocked", "locked", "sas"}] /\ evq \in Seq(Events) /\ linked \in BOOLEAN
ScreenOK ==
    /\ ui \in {"none", "lock", "sas"} /\ alive \in BOOLEAN
    /\ uiout \in Seq(Lines) /\ uiin \in Seq({"PROMPT", "FAILURE"})
    /\ hello \in BOOLEAN /\ awaiting \in BOOLEAN
    /\ pic \in BOOLEAN /\ left \in BOOLEAN /\ failed \in {"never", "before", "now"}
    /\ refused \in BOOLEAN /\ right \subseteq Users
    /\ (ui = "none" => ~alive /\ uiout = <<>> /\ uiin = <<>>)
ServiceOK ==
    /\ at \in {"connect", "connecting", "poll", "event", "line", "check", "command", "restart"}
    /\ path \in Users \cup {NoUser} /\ user \in Users \cup {NoUser}
    /\ ready \in BOOLEAN /\ todo \in Lines \cup {"none", "sas"}
    /\ monitor \in {"up", "dead"} /\ deaths \in 0..MaxDeaths
    /\ (user # NoUser <=> at \notin {"connect", "connecting"})

LockInv == TypeOK /\ Watched /\ Busy /\ Queued /\ Typed /\ Pictured

USE LockConstants

-----------------------------------------------------------------------------
(* The queue of events.                                                    *)

\* What a queue is after an event was added to its end.
LEMMA Appended ==
  ASSUME NEW q \in Seq(Events), NEW e \in Events
  PROVE  /\ Append(q, e) \in Seq(Events) /\ Append(q, e) # <<>> /\ Newest(Append(q, e)) = e
         /\ Head(Append(q, e)) = IF q = <<>> THEN e ELSE Head(q)
         /\ InOrder(q) /\ (e = "sas" /\ q # <<>> => Newest(q) = "unlocked") => InOrder(Append(q, e))
         /\ NoEof(q) /\ e # "eof" => NoEof(Append(q, e))
<1> DEFINE a == Append(q, e)
<1>1. /\ a \in Seq(Events) /\ a # <<>> /\ Len(a) = Len(q) + 1
      /\ \A i \in 1..Len(q) : a[i] = q[i]
      /\ a[Len(q) + 1] = e
    BY AppendProperties
<1>2. Len(q) \in Nat /\ (q = <<>> <=> Len(q) = 0)
    BY EmptySeq, LenProperties
<1>3. Newest(a) = e
    BY <1>1 DEF Newest
<1> HIDE DEF a
<1>4. Head(a) = IF q = <<>> THEN e ELSE Head(q)
    BY <1>1, <1>2
<1>5. ASSUME InOrder(q), e = "sas" /\ q # <<>> => Newest(q) = "unlocked" PROVE InOrder(a)
  <2> SUFFICES ASSUME NEW i \in 2..Len(a), a[i] = "sas" PROVE a[i - 1] = "unlocked"
    BY DEF InOrder
  <2>1. CASE i \in 1..Len(q)
    BY <1>1, <1>2, <1>5, <2>1 DEF InOrder
  <2>2. CASE i = Len(q) + 1
    BY <1>1, <1>2, <1>5, <2>2 DEF Newest
  <2> QED
    BY <1>1, <1>2, <2>1, <2>2
<1>6. ASSUME NoEof(q), e # "eof" PROVE NoEof(a)
    BY <1>1, <1>2, <1>6 DEF NoEof
<1> QED
    BY <1>1, <1>3, <1>4, <1>5, <1>6 DEF a

\* And what it is after its first event was taken.
LEMMA Removed ==
  ASSUME NEW q \in Seq(Events), q # <<>>
  PROVE  /\ Tail(q) \in Seq(Events) /\ Head(q) \in Events
         /\ Tail(q) = <<>> => Newest(q) = Head(q)
         /\ Tail(q) # <<>> => Newest(Tail(q)) = Newest(q)
         /\ InOrder(q) => InOrder(Tail(q)) /\ (Tail(q) # <<>> /\ Head(Tail(q)) = "sas" => Head(q) = "unlocked")
         /\ NoEof(q) => NoEof(Tail(q))
<1> DEFINE t == Tail(q)
<1>1. /\ t \in Seq(Events) /\ Len(t) = Len(q) - 1 /\ Head(q) \in Events /\ Head(q) = q[1]
      /\ \A i \in 1..Len(t) : t[i] = q[i + 1]
    BY HeadTailProperties
<1>2. Len(q) \in Nat \ {0} /\ Len(t) \in Nat /\ (t = <<>> <=> Len(t) = 0)
    BY <1>1, EmptySeq, LenProperties
<1> HIDE DEF t
<1>3. t = <<>> => Newest(q) = Head(q)
  <2>1. t = <<>> => Len(q) = 1
    BY <1>1, <1>2
  <2> QED
    BY <1>1, <2>1, Zenon DEF Newest
<1>4. t # <<>> => Newest(t) = Newest(q) /\ Head(t) = t[1]
    BY <1>1, <1>2 DEF Newest
<1>5. ASSUME InOrder(q) PROVE InOrder(t) /\ (t # <<>> /\ Head(t) = "sas" => Head(q) = "unlocked")
  <2>1. InOrder(t)
    <3> SUFFICES ASSUME NEW i \in 2..Len(t), t[i] = "sas" PROVE t[i - 1] = "unlocked"
      BY DEF InOrder
    <3>1. i + 1 \in 2..Len(q) /\ t[i] = q[i + 1] /\ t[i - 1] = q[i] /\ (i + 1) - 1 = i
      BY <1>1, <1>2
    <3> QED
      BY <1>5, <3>1 DEF InOrder
  <2>2. t # <<>> => 2 \in 2..Len(q) /\ t[1] = q[2]
    BY <1>1, <1>2
  <2> QED
    BY <1>1, <1>4, <1>5, <2>1, <2>2 DEF InOrder
<1>6. NoEof(q) => NoEof(t)
    BY <1>1, <1>2 DEF NoEof
<1> QED
    BY <1>1, <1>3, <1>4, <1>5, <1>6 DEF t


\* What Becomes leaves in the watcher's queue: whatever the compositor came to,
\* the service is still to be told of it or knows already.
LEMMA BecomesQueued ==
  ASSUME LockInv, NEW u \in Users, NEW s \in {"gone", "unlocked", "locked", "sas"},
         Becomes(u, s), user' = user, failed' = failed,
         s = "sas" => comp[u] = "unlocked",
         Shown' = Shown \/ (Shown' = "none" /\ s = "unlocked" /\ u = user)
  PROVE  SeatOK' /\ Queued' /\ (linked' => comp'[user] # "gone" /\ NoEof(evq')) /\ (evq # <<>> => evq' # <<>>)
         /\ (~linked' /\ evq' # <<>> => Newest(evq') = "eof")
         /\ (user # NoUser => linked' \/ evq' # <<>>) /\ (user = NoUser => evq' = evq /\ linked' = linked)
<1> DEFINE e == IF s = "gone" THEN "eof" ELSE s
<1>1. SeatOK /\ Queued /\ Watched /\ user \in Users \cup {NoUser}
    BY DEF LockInv, TypeOK, SeatOK, Events
<1>2. comp' \in [Users -> {"gone", "unlocked", "locked", "sas"}] /\ linked' \in BOOLEAN /\ comp'[u] = s
      /\ \A v \in Users : v # u => comp'[v] = comp[v]
    BY <1>1 DEF Becomes, SeatOK
<1>3. CASE linked /\ user = u /\ comp[u] # s
  <2>1. evq' = Append(evq, e) /\ e \in Events /\ evq \in Seq(Events) /\ linked' = (s # "gone")
    BY <1>1, <1>3 DEF Becomes, SeatOK, Events
  <2>2. /\ evq' \in Seq(Events) /\ evq' # <<>> /\ Newest(evq') = e
        /\ Head(evq') = IF evq = <<>> THEN e ELSE Head(evq)
        /\ InOrder(evq) /\ (e = "sas" /\ evq # <<>> => Newest(evq) = "unlocked") => InOrder(evq')
        /\ NoEof(evq) /\ e # "eof" => NoEof(evq')
    BY <2>1, Appended
  <2>3. evq # <<>> => Newest(evq) = comp[user] \/ (Newest(evq) = "unlocked" /\ comp[user] = "sas")
    BY <1>1, <1>3 DEF Queued
  <2>4. InOrder(evq')
    BY <1>1, <1>3, <2>2, <2>3 DEF Queued
  <2>5. Head(evq') = "sas" => Shown' # "lock"
    BY <1>1, <1>3, <2>2 DEF Queued
  <2>6. linked' => comp'[user] # "gone" /\ NoEof(evq')
    BY <1>1, <1>2, <1>3, <2>1, <2>2, Zenon DEF Watched
  <2>7. user # NoUser
    BY <1>3
  <2> QED
    BY <1>2, <1>3, <2>1, <2>2, <2>4, <2>5, <2>6, <2>7, Zenon DEF Queued, SeatOK
<1>4. CASE ~(linked /\ user = u /\ comp[u] # s)
  <2>1. evq' = evq
    BY <1>4 DEF Becomes
  <2>2. linked' = linked
    BY <1>1, <1>4 DEF Becomes, Watched, SeatOK
  <2>3. linked => comp'[user] = comp[user] /\ comp[user] # "gone" /\ NoEof(evq)
    BY <1>1, <1>2, <1>4 DEF Watched
  <2>4. linked /\ evq # <<>> => Newest(evq) = comp[user] \/ (Newest(evq) = "unlocked" /\ comp[user] = "sas")
    BY <1>1 DEF Queued
  <2>5. linked /\ Shown' # Shown => comp[user] = "unlocked"
    BY <1>1, <1>4 DEF Queued
  <2>6. linked /\ evq = <<>> =>
          /\ comp[user] = "locked" => Shown' = "lock" \/ failed = "now"
          /\ comp[user] = "unlocked" => Shown' = "none"
          /\ comp[user] = "sas" => Shown' # "lock"
    BY <1>1, <2>5 DEF Queued
  <2>7. InOrder(evq) /\ (evq # <<>> /\ Head(evq) = "sas" => Shown' # "lock")
    BY <1>1 DEF Queued
  <2>8. Queued'
    BY <2>1, <2>2, <2>3, <2>4, <2>6, <2>7 DEF Queued
  <2> QED
    BY <1>1, <1>2, <2>1, <2>2, <2>3, <2>8 DEF Watched, SeatOK
<1> QED
    BY <1>3, <1>4

-----------------------------------------------------------------------------
(* The types.                                                              *)

\* The three parts together are the type invariant.
LEMMA TypeParts == TypeOK <=> SeatOK /\ ScreenOK /\ ServiceOK
  BY DEF TypeOK, SeatOK, ScreenOK, ServiceOK, Events

\* Starting and stopping a screen, and writing to it, keep the screen's types.
LEMMA ScreenSteps ==
  ASSUME ScreenOK
  PROVE  /\ ui_stop => ScreenOK'
         /\ \A kind \in {"lock", "sas"} : ui_start(kind) => ScreenOK'
         /\ UNCHANGED screen => ScreenOK'
<1>1. <<>> \in Seq(Lines) /\ <<>> \in Seq({"PROMPT", "FAILURE"})
    BY EmptySeq
<1>2. ASSUME NEW u \in {"none", "lock", "sas"}, NEW a \in BOOLEAN, u = "none" => ~a, NewPipes(u, a),
             pic' \in BOOLEAN, left' \in BOOLEAN, failed' \in {"never", "before", "now"}, refused' = refused
      PROVE  ScreenOK'
    BY <1>1, <1>2, Zenon DEF NewPipes, ScreenOK
<1>3. ASSUME UNCHANGED screen PROVE ScreenOK'
    BY <1>3 DEF ScreenOK
<1>4. ASSUME ui_stop PROVE ScreenOK'
  <2>1. CASE ui = "none"
    BY <1>3, <1>4, <2>1 DEF ui_stop
  <2>2. CASE ui # "none"
    <3>1. NewPipes("none", FALSE) /\ pic' \in BOOLEAN /\ left' = left /\ failed' = failed /\ refused' = refused
      BY <1>4, <2>2, Zenon DEF ui_stop
    <3> QED
      BY <1>2, <3>1, Zenon DEF ScreenOK
  <2> QED
    BY <2>1, <2>2
<1>5. ASSUME NEW kind \in {"lock", "sas"}, ui_start(kind) PROVE ScreenOK'
  <2>1. pic' \in BOOLEAN /\ left' \in BOOLEAN /\ refused' = refused
    BY <1>5, Zenon DEF ui_start, lockpic_stage
  <2>2. failed' \in {"never", "before", "now"} /\ (NewPipes(kind, TRUE) \/ NewPipes("none", FALSE))
    BY <1>5, Zenon DEF ui_start, ScreenOK
  <2> QED
    BY <1>2, <2>1, <2>2, Zenon
<1> QED
    BY <1>3, <1>4, <1>5

\* Writing to a screen keeps its pipe's type; a dead one gets nothing.
LEMMA SendStep ==
  ASSUME ScreenOK, NEW lines \in Seq({"PROMPT", "FAILURE"}), ui_send(lines)
  PROVE  uiin' \in Seq({"PROMPT", "FAILURE"}) /\ (~alive => uiin' = uiin)
  BY ConcatProperties DEF ui_send, ScreenOK

\* A line written by the screen, or read from it, keeps the screen's types.
LEMMA PipeStep ==
  ASSUME ScreenOK
  PROVE  /\ \A l \in Lines : Append(uiout, l) \in Seq(Lines)
         /\ uiout # <<>> => Head(uiout) \in Lines /\ Tail(uiout) \in Seq(Lines)
         /\ uiin # <<>> => Tail(uiin) \in Seq({"PROMPT", "FAILURE"})
  BY AppendProperties, HeadTailProperties DEF ScreenOK

\* The messages of the service are lines of the screen's pipe.
LEMMA Sent ==
  /\ <<>> \in Seq({"PROMPT", "FAILURE"}) /\ <<"PROMPT">> \in Seq({"PROMPT", "FAILURE"})
  /\ <<"FAILURE">> \in Seq({"PROMPT", "FAILURE"}) /\ <<"FAILURE", "PROMPT">> \in Seq({"PROMPT", "FAILURE"})
OBVIOUS

\* Every step keeps the types of the screen.
LEMMA ScreenStep ==
  ASSUME LockInv, [Next]_vars
  PROVE  ScreenOK'
<1>a. ScreenOK /\ ServiceOK /\ Busy /\ Watched
    BY TypeParts DEF LockInv
<1>b. /\ UNCHANGED screen => ScreenOK'
      /\ ui_stop => ScreenOK'
      /\ \A kind \in {"lock", "sas"} : ui_start(kind) => ScreenOK'
    BY <1>a, ScreenSteps
<1>1. CASE find_session \/ watch \/ poll \/ MonitorDies
    BY <1>1, <1>b DEF find_session, watch, poll, MonitorDies
<1>2. CASE event
    BY <1>2, <1>b DEF event
<1>3. CASE watch_ends
  <2>1. CASE ui = "none"
    <3>1. pic' = FALSE /\ left' \in BOOLEAN
      BY <1>3, <2>1, Zenon DEF watch_ends
    <3> QED
      BY <1>3, <1>a, <2>1, <3>1, Zenon DEF watch_ends, ScreenOK
  <2>2. CASE ui # "none"
    BY <1>3, <1>b, <2>2 DEF watch_ends
  <2> QED
    BY <2>1, <2>2
<1>4. CASE ui_line
  <2>1. uiout' \in Seq(Lines)
    BY <1>4, <1>a, PipeStep DEF ui_line
  <2>2. uiin' \in Seq({"PROMPT", "FAILURE"})
    BY <1>4, <1>a, SendStep, Sent, Zenon DEF ui_line, ScreenOK
  <2>3. ui # "none"
    BY <1>4, <1>a DEF ui_line, Busy
  <2> QED
    BY <1>4, <1>a, <2>1, <2>2, <2>3 DEF ui_line, ScreenOK
<1>5. CASE ui_died
    BY <1>5, <1>b DEF ui_died
<1>6. CASE ui_restart
    BY <1>6, <1>a, <1>b DEF ui_restart, Busy
<1>7. CASE check_password
  <2>1. uiin' \in Seq({"PROMPT", "FAILURE"})
    BY <1>7, <1>a, SendStep, Sent, Zenon DEF check_password, ScreenOK
  <2>2. ui # "none"
    BY <1>7, <1>a DEF check_password, Busy
  <2> QED
    BY <1>7, <1>a, <2>1, <2>2 DEF check_password, ScreenOK
<1>8. CASE unlock
  <2>1. CASE ui_stop
    BY <1>b, <2>1
  <2>2. CASE ui_send(<<"FAILURE">>) /\ Refuses /\ UNCHANGED <<ui, alive, uiout, hello, awaiting, pic, left, failed, right>>
    <3>1. refused' \in BOOLEAN
      BY <2>2, Zenon DEF Refuses
    <3>2. uiin' \in Seq({"PROMPT", "FAILURE"}) /\ ui # "none"
      BY <1>8, <1>a, <2>2, SendStep, Sent, Zenon DEF unlock, Busy
    <3> QED
      BY <1>a, <2>2, <3>1, <3>2 DEF ScreenOK
  <2> QED
    BY <1>8, <2>1, <2>2 DEF unlock
<1>9. CASE sas_command
  <2>1. refused' \in BOOLEAN
    <3>1. refused' = refused \/ Refuses
      BY <1>9 DEF sas_command
    <3>2. Refuses => refused' \in BOOLEAN
      BY Zenon DEF Refuses
    <3> QED
      BY <1>a, <3>1, <3>2 DEF ScreenOK
  <2> QED
    BY <1>9, <1>a, <2>1 DEF sas_command, ScreenOK
<1>10. ASSUME NEW u \in Users, CompositorStarts(u) \/ CompositorEnds(u) \/ Locks(u) \/ SecureAttention(u)
       PROVE  ScreenOK'
    BY <1>10, <1>b DEF CompositorStarts, CompositorEnds, Locks, SecureAttention
<1>11. CASE UiHello
  <2>1. uiout' \in Seq(Lines)
    BY <1>11, <1>a, PipeStep DEF UiHello, Lines
  <2>2. awaiting' \in BOOLEAN
    BY <1>11, Zenon DEF UiHello
  <2> QED
    BY <1>11, <1>a, <2>1, <2>2 DEF UiHello, ScreenOK
<1>12. CASE handle_bridge_line
  <2>1. awaiting' \in BOOLEAN
    BY <1>12, Zenon DEF handle_bridge_line
  <2> QED
    BY <1>12, <1>a, <2>1, PipeStep DEF handle_bridge_line, ScreenOK
<1>13. CASE UiDies
    BY <1>13, <1>a, Zenon DEF UiDies, ScreenOK
<1>14. ASSUME NEW pw \in {"good", "bad"}, submit(pw) PROVE ScreenOK'
  <2>1. uiout' \in Seq(Lines)
    BY <1>14, <1>a, PipeStep DEF submit, Lines
  <2>2. user \in Users
    BY <1>14, <1>a DEF submit, Watched, ServiceOK
  <2> QED
    BY <1>14, <1>a, <2>1, <2>2 DEF submit, ScreenOK
<1>15. ASSUME NEW choice \in {"lock", "other"}, sas_choose(choice) PROVE ScreenOK'
  <2>1. uiout' \in Seq(Lines)
    BY <1>15, <1>a, PipeStep DEF sas_choose, Lines
  <2> QED
    BY <1>15, <1>a, <2>1, Zenon DEF sas_choose, ScreenOK
<1>16. CASE UNCHANGED vars
    BY <1>16, <1>b
<1> QED
    BY <1>1, <1>2, <1>3, <1>4, <1>5, <1>6, <1>7, <1>8, <1>9, <1>10, <1>11, <1>12, <1>13, <1>14, <1>15, <1>16
    DEF Next, Service

\* Every step keeps the types of the service.
LEMMA ServiceStep ==
  ASSUME LockInv, [Next]_vars
  PROVE  ServiceOK'
<1>a. ScreenOK /\ ServiceOK /\ Busy /\ Watched /\ (user \in Users => path \in Users)
    BY TypeParts DEF LockInv, ServiceOK, Watched
<1>1. CASE find_session
    BY <1>1, <1>a DEF find_session, ServiceOK
<1>2. CASE watch
    BY <1>2, <1>a DEF watch, ServiceOK, Watched
<1>3. CASE poll
  <2>1. ready' \in BOOLEAN
    BY <1>3, Zenon DEF poll, Readable
  <2> QED
    BY <1>3, <1>a, <2>1 DEF poll, ServiceOK
<1>4. CASE event
    BY <1>4, <1>a DEF event, ServiceOK
<1>5. CASE watch_ends
    BY <1>5, <1>a DEF watch_ends, ServiceOK
<1>6. CASE ui_line
  <2>1. Head(uiout) \in Lines
    BY <1>6, <1>a, PipeStep DEF ui_line
  <2> QED
    BY <1>6, <1>a, <2>1 DEF ui_line, ServiceOK
<1>7. CASE ui_died
    BY <1>7, <1>a DEF ui_died, ServiceOK, ScreenOK, Lines
<1>8. CASE ui_restart \/ check_password \/ unlock \/ sas_command \/ MonitorDies
    BY <1>8, <1>a DEF ui_restart, check_password, unlock, sas_command, MonitorDies, ServiceOK
<1>9. ASSUME NEW u \in Users, CompositorStarts(u) \/ CompositorEnds(u) \/ Locks(u) \/ SecureAttention(u)
      PROVE  ServiceOK'
    BY <1>9, <1>a DEF CompositorStarts, CompositorEnds, Locks, SecureAttention, ServiceOK
<1>10. CASE UiHello \/ handle_bridge_line
    BY <1>10, <1>a DEF UiHello, handle_bridge_line, ServiceOK
<1>11. CASE UiDies
  <2>1. deaths' \in 0..MaxDeaths
    BY <1>11, <1>a, LockConstants DEF UiDies, ServiceOK
  <2> QED
    BY <1>11, <1>a, <2>1 DEF UiDies, ServiceOK
<1>12. ASSUME NEW pw \in {"good", "bad"}, submit(pw) PROVE ServiceOK'
    BY <1>12, <1>a DEF submit, ServiceOK
<1>13. ASSUME NEW choice \in {"lock", "other"}, sas_choose(choice) PROVE ServiceOK'
    BY <1>13, <1>a DEF sas_choose, ServiceOK
<1>14. CASE UNCHANGED vars
    BY <1>14, <1>a DEF ServiceOK
<1> QED
    BY <1>1, <1>2, <1>3, <1>4, <1>5, <1>6, <1>7, <1>8, <1>9, <1>10, <1>11, <1>12, <1>13, <1>14
    DEF Next, Service

-----------------------------------------------------------------------------
(* The connection and its queue.                                           *)

\* A step that leaves the connection alone, and what is to be shown.
Quiet ==
    /\ UNCHANGED seat /\ user' = user /\ Shown' = Shown /\ failed' = failed
    /\ path' = path \/ (user = NoUser /\ path' \in Users)
    /\ at' = "event" => evq # <<>>
    /\ at' = "connecting" => path' \in Users
    /\ user = NoUser => ui' = "none"

\* What each step leaves of the queue, of the watcher's knowledge of its end,
\* and of the screen that is to follow it.
LEMMA QueueStep ==
  ASSUME LockInv, [Next]_vars
  PROVE  SeatOK' /\ Watched' /\ Queued'
<1>a. SeatOK /\ ScreenOK /\ ServiceOK /\ Busy /\ Watched /\ Queued /\ (user # NoUser => path = user /\ user \in Users)
    BY TypeParts DEF LockInv, ServiceOK, Watched
<1>b. ASSUME Quiet PROVE SeatOK' /\ Watched' /\ Queued'
  <2>1. SeatOK' /\ Queued'
    BY <1>a, <1>b DEF Quiet, SeatOK, Queued
  <2>2. Watched'
    BY <1>a, <1>b DEF Quiet, Watched
  <2> QED
    BY <2>1, <2>2
<1>c. ASSUME NEW u \in Users, NEW s \in {"gone", "unlocked", "locked", "sas"},
             Becomes(u, s), user' = user, failed' = failed, path' = path,
             s = "sas" => comp[u] = "unlocked", user = NoUser => ui' = "none",
             at' = "connecting" => at = "connecting", at' = "event" => at = "event",
             Shown' = Shown \/ (Shown' = "none" /\ s = "unlocked" /\ u = user)
      PROVE  SeatOK' /\ Watched' /\ Queued'
  <2>1. SeatOK' /\ Queued' /\ (linked' => comp'[user] # "gone" /\ NoEof(evq')) /\ (evq # <<>> => evq' # <<>>)
        /\ (~linked' /\ evq' # <<>> => Newest(evq') = "eof")
        /\ (user # NoUser => linked' \/ evq' # <<>>) /\ (user = NoUser => evq' = evq /\ linked' = linked)
    BY <1>c, BecomesQueued
  <2>2. Watched'
    BY <1>a, <1>c, <2>1 DEF Watched
  <2> QED
    BY <2>1, <2>2
<1>1. CASE find_session
  <2>1. Quiet
    BY <1>1, <1>a DEF Quiet, find_session, Shown, ServiceOK, Watched
  <2> QED
    BY <1>b, <2>1
<1>2. CASE watch
  <2>1. CASE comp[path] = "gone" /\ at' = "connect" /\ UNCHANGED <<user, linked, evq>>
    <3>1. Quiet
      BY <1>2, <1>a, <2>1 DEF watch, Quiet, Shown, ServiceOK, Watched
    <3> QED
      BY <1>b, <3>1
  <2>2. CASE comp[path] # "gone" /\ at' = "poll" /\ user' = path /\ linked' = TRUE
             /\ evq' = <<IF comp[path] = "locked" THEN "locked" ELSE "unlocked">>
    <3> DEFINE e == IF comp[path] = "locked" THEN "locked" ELSE "unlocked"
    <3>1. path \in Users /\ comp' = comp /\ path' = path
      BY <1>2, <1>a DEF watch, Watched
    <3>2. <<>> \in Seq(Events) /\ e \in Events /\ evq' = Append(<<>>, e) /\ InOrder(<<>>) /\ NoEof(<<>>)
      BY <2>2 DEF Events, InOrder, NoEof
    <3>3. evq' \in Seq(Events) /\ evq' # <<>> /\ Newest(evq') = e /\ Head(evq') = e /\ InOrder(evq') /\ NoEof(evq')
      BY <3>2, Appended, Zenon
    <3>4. Watched'
      BY <2>2, <3>1, <3>3 DEF Watched
    <3>5. SeatOK' /\ Queued'
      BY <1>a, <2>2, <3>1, <3>3 DEF Queued, SeatOK
    <3> QED
      BY <3>4, <3>5
  <2> QED
    BY <1>2, <2>1, <2>2, Zenon DEF watch
<1>3. CASE poll
  <2>1. Quiet
    BY <1>3, <1>a DEF Quiet, poll, Shown, ServiceOK, Watched
  <2> QED
    BY <1>b, <2>1
<1>4. CASE event
  <2>1. user \in Users /\ path = user /\ evq # <<>> /\ evq \in Seq(Events) /\ ui \in {"none", "lock", "sas"}
    BY <1>4, <1>a DEF event, ServiceOK, Watched, SeatOK, ScreenOK
  <2>2. /\ evq' \in Seq(Events) /\ Head(evq) \in Events
        /\ evq' = <<>> => Newest(evq) = Head(evq)
        /\ evq' # <<>> => Newest(evq') = Newest(evq)
        /\ InOrder(evq') /\ (evq' # <<>> /\ Head(evq') = "sas" => Head(evq) = "unlocked")
        /\ NoEof(evq) => NoEof(evq')
    BY <1>4, <1>a, <2>1, Removed DEF event, Queued
  <2>3. comp' = comp /\ linked' = linked /\ path' = path /\ user' = user /\ at' \in {"line", "poll"}
        /\ at = "event" /\ Head(evq) # "eof"
    BY <1>4 DEF event
  <2>4. evq' = <<>> => linked
    BY <1>a, <2>1, <2>2, <2>3 DEF Watched, Queued, SeatOK
  <2>5. Watched'
    BY <1>a, <2>1, <2>2, <2>3, <2>4 DEF Watched
  <2>6. /\ Head(evq) = "unlocked" => ui' = "none"
        /\ Head(evq) = "locked" => ui' = "lock" \/ failed' = "now"
        /\ Head(evq) = "sas" => ui' # "lock"
    BY <1>4, <1>a, <2>1, <2>2 DEF event, Starts, Stops, ui_start, ui_stop, NewPipes, Queued, Shown
  <2>7. Shown' = ui'
    BY <2>3 DEF Shown
  <2>8. Queued'
    <3>1. linked => Newest(evq) = comp[user] \/ (Newest(evq) = "unlocked" /\ comp[user] = "sas")
      BY <1>a, <2>1 DEF Queued
    <3>2. evq' # <<>> /\ Head(evq') = "sas" => Shown' # "lock"
      BY <2>2, <2>6, <2>7
    <3>3. linked /\ evq' = <<>> =>
            /\ comp[user] = "locked" => Shown' = "lock" \/ failed' = "now"
            /\ comp[user] = "unlocked" => Shown' = "none"
            /\ comp[user] = "sas" => Shown' # "lock"
      BY <2>2, <2>6, <2>7, <3>1
    <3> QED
      BY <2>2, <2>3, <3>1, <3>2, <3>3 DEF Queued
  <2> QED
    BY <1>a, <2>2, <2>3, <2>5, <2>8 DEF SeatOK
<1>5. CASE watch_ends
  <2>1. evq # <<>> /\ evq \in Seq(Events) /\ Head(evq) = evq[1] /\ 1 \in 1..Len(evq)
    BY <1>5, <1>a, EmptySeq, LenProperties DEF watch_ends, Watched, SeatOK
  <2>2. ~linked
    BY <1>5, <1>a, <2>1 DEF watch_ends, Watched, NoEof
  <2>3. ui' = "none" /\ evq' = <<>> /\ linked' = linked /\ user' = NoUser /\ at' = "connect" /\ comp' = comp
    BY <1>5 DEF watch_ends, ui_stop, NewPipes
  <2>4. InOrder(<<>>) /\ <<>> \in Seq(Events)
    BY DEF InOrder
  <2> QED
    BY <1>a, <2>2, <2>3, <2>4 DEF Watched, Queued, SeatOK
<1>6. CASE ui_line
  <2>1. Quiet
    BY <1>6, <1>a DEF Quiet, ui_line, Shown, ServiceOK, Watched
  <2> QED
    BY <1>b, <2>1
<1>7. CASE ui_died
  <2>1. Quiet
    BY <1>7, <1>a DEF Quiet, ui_died, ui_stop, NewPipes, Shown, ServiceOK, Watched
  <2> QED
    BY <1>b, <2>1
<1>8. CASE ui_restart
  <2>1. UNCHANGED seat /\ user' = user /\ path' = path /\ user # NoUser /\ at = "restart" /\ at' = "poll"
    BY <1>8, <1>a DEF ui_restart, ServiceOK
  <2>2. (ui' = todo /\ failed' # "now" /\ Shown' = Shown) \/ (failed' = "now" /\ Shown' = "none")
    BY <1>8, <2>1, <1>a DEF ui_restart, ui_start, NewPipes, Shown, ScreenOK
  <2>3. failed # "now"
    BY <1>a, <2>1 DEF Busy, Shown
  <2>4. Watched'
    BY <1>a, <2>1 DEF Watched
  <2>5. Queued'
    BY <1>a, <2>1, <2>2, <2>3 DEF Queued
  <2> QED
    BY <1>a, <2>1, <2>4, <2>5 DEF SeatOK
<1>9. CASE check_password \/ MonitorDies
  <2>1. Quiet
    BY <1>9, <1>a DEF Quiet, check_password, MonitorDies, Shown, ServiceOK, Watched
  <2> QED
    BY <1>b, <2>1
<1>10. CASE unlock
  <2>1. path = user /\ user \in Users /\ user' = user /\ path' = path /\ at = "command" /\ at' = "poll" /\ todo' = todo
    BY <1>10, <1>a DEF unlock, ServiceOK
  <2>2. CASE Becomes(path, "unlocked") /\ ui_stop
    <3>1. Shown' = "none" /\ failed' = failed
      BY <2>1, <2>2 DEF ui_stop, NewPipes, Shown
    <3> QED
      BY <1>c, <2>1, <2>2, <3>1
  <2>3. CASE UNCHANGED <<seat, ui, failed>>
    <3>1. Quiet
      BY <2>1, <2>3 DEF Quiet, Shown
    <3> QED
      BY <1>b, <3>1
  <2> QED
    BY <1>10, <2>2, <2>3 DEF unlock
<1>11. CASE sas_command
  <2>1. /\ path = user /\ user \in Users /\ user' = user /\ path' = path /\ at = "command" /\ at' = "poll"
        /\ todo' = todo /\ ui' = ui /\ failed' = failed
    BY <1>11, <1>a DEF sas_command, ServiceOK
  <2>2. Shown' = Shown
    BY <2>1 DEF Shown
  <2>3. CASE UNCHANGED seat
    <3>1. Quiet
      BY <2>1, <2>2, <2>3 DEF Quiet
    <3> QED
      BY <1>b, <3>1
  <2>4. CASE Becomes(path, "locked") \/ Becomes(path, "unlocked")
    BY <1>c, <2>1, <2>2, <2>4
  <2> QED
    BY <1>11, <2>3, <2>4 DEF sas_command
<1>12. ASSUME NEW u \in Users, CompositorStarts(u) \/ CompositorEnds(u) \/ Locks(u) \/ SecureAttention(u)
       PROVE  SeatOK' /\ Watched' /\ Queued'
  <2>1. user' = user /\ path' = path /\ at' = at /\ todo' = todo /\ ui' = ui /\ failed' = failed
    BY <1>12 DEF CompositorStarts, CompositorEnds, Locks, SecureAttention
  <2>2. Shown' = Shown /\ (user = NoUser => ui' = "none")
    BY <1>a, <2>1 DEF Shown, Watched
  <2>3. \E s \in {"gone", "unlocked", "locked", "sas"} : Becomes(u, s) /\ (s = "sas" => comp[u] = "unlocked")
    BY <1>12 DEF CompositorStarts, CompositorEnds, Locks, SecureAttention
  <2> QED
    BY <1>c, <2>1, <2>2, <2>3
<1>13. CASE UiHello \/ handle_bridge_line \/ UiDies
  <2>1. Quiet
    BY <1>13, <1>a DEF Quiet, UiHello, handle_bridge_line, UiDies, Shown, ServiceOK, Watched
  <2> QED
    BY <1>b, <2>1
<1>14. ASSUME NEW pw \in {"good", "bad"}, submit(pw) PROVE SeatOK' /\ Watched' /\ Queued'
  <2>1. Quiet
    BY <1>14, <1>a DEF Quiet, submit, Shown, ServiceOK, Watched
  <2> QED
    BY <1>b, <2>1
<1>15. ASSUME NEW choice \in {"lock", "other"}, sas_choose(choice) PROVE SeatOK' /\ Watched' /\ Queued'
  <2>1. Quiet
    BY <1>15, <1>a DEF Quiet, sas_choose, Shown, ServiceOK, Watched
  <2> QED
    BY <1>b, <2>1
<1>16. CASE UNCHANGED vars
  <2>1. Quiet
    BY <1>16, <1>a DEF Quiet, Shown, Watched
  <2> QED
    BY <1>b, <2>1
<1> QED
    BY <1>1, <1>2, <1>3, <1>4, <1>5, <1>6, <1>7, <1>8, <1>9, <1>10, <1>11, <1>12, <1>13, <1>14, <1>15, <1>16
    DEF Next, Service

\* The service is never without the screen it is in the middle of handling.
LEMMA BusyStep ==
  ASSUME LockInv, [Next]_vars
  PROVE  Busy'
<1>a. TypeOK /\ Watched /\ Busy /\ Typed /\ Pictured
    BY DEF LockInv
<1> USE DEF TypeOK, Busy, Shown, Watched
<1>1. CASE find_session
    BY <1>a, <1>1 DEF find_session
<1>2. CASE watch
    BY <1>a, <1>2 DEF watch
<1>3. CASE poll
    BY <1>a, <1>3 DEF poll, Readable
<1>4. CASE event
    BY <1>a, <1>4 DEF event, Starts, Stops, ui_start, ui_stop, NewPipes, lockpic_stage
<1>5. CASE watch_ends
    BY <1>a, <1>5 DEF watch_ends, ui_stop, NewPipes
<1>6. CASE ui_line
    BY <1>a, <1>6 DEF ui_line, ui_send
<1>7. CASE ui_died
    BY <1>a, <1>7 DEF ui_died, ui_stop, NewPipes
<1>8. CASE ui_restart
    BY <1>a, <1>8 DEF ui_restart, ui_start, NewPipes, lockpic_stage
<1>9. CASE check_password
    BY <1>a, <1>9 DEF check_password, ui_send
<1>10. CASE unlock
    BY <1>a, <1>10 DEF unlock, Refusable, Refuses, ui_send, ui_stop, NewPipes, Becomes
<1>11. CASE sas_command
    BY <1>a, <1>11 DEF sas_command, Refusable, Refuses, Becomes
<1>12. CASE MonitorDies
    BY <1>a, <1>12 DEF MonitorDies
<1>13. ASSUME NEW u \in Users, CompositorStarts(u) PROVE Busy'
    BY <1>a, <1>13 DEF CompositorStarts, Becomes
<1>14. ASSUME NEW u \in Users, CompositorEnds(u) PROVE Busy'
    BY <1>a, <1>14 DEF CompositorEnds, Becomes
<1>15. ASSUME NEW u \in Users, Locks(u) PROVE Busy'
    BY <1>a, <1>15 DEF Locks, Becomes
<1>16. ASSUME NEW u \in Users, SecureAttention(u) PROVE Busy'
    BY <1>a, <1>16 DEF SecureAttention, Becomes
<1>17. CASE UiHello
    BY <1>a, <1>17 DEF UiHello
<1>18. CASE handle_bridge_line
    BY <1>a, <1>18 DEF handle_bridge_line
<1>19. CASE UiDies
    BY <1>a, <1>19 DEF UiDies
<1>20. ASSUME NEW pw \in {"good", "bad"}, submit(pw) PROVE Busy'
    BY <1>a, <1>20 DEF submit
<1>21. ASSUME NEW choice \in {"lock", "other"}, sas_choose(choice) PROVE Busy'
    BY <1>a, <1>21 DEF sas_choose
<1>22. CASE UNCHANGED vars
    BY <1>a, <1>22
<1> QED
    BY <1>1, <1>2, <1>3, <1>4, <1>5, <1>6, <1>7, <1>8, <1>9, <1>10, <1>11, <1>12, <1>13, <1>14, <1>15, <1>16, <1>17, <1>18, <1>19, <1>20, <1>21, <1>22
    DEF Next, Service

\* A staged picture keeps the screen it was staged for, on every step.
LEMMA PicturedStep ==
  ASSUME LockInv, [Next]_vars
  PROVE  Pictured'
<1>a. TypeOK /\ Watched /\ Busy /\ Typed /\ Pictured
    BY DEF LockInv
<1> USE DEF TypeOK, Busy, Pictured, Watched, Shown
<1>1. CASE find_session
    BY <1>a, <1>1 DEF find_session
<1>2. CASE watch
    BY <1>a, <1>2 DEF watch
<1>3. CASE poll
    BY <1>a, <1>3 DEF poll, Readable
<1>4. CASE event
    BY <1>a, <1>4 DEF event, Starts, Stops, ui_start, ui_stop, NewPipes, lockpic_stage
<1>5. CASE watch_ends
    BY <1>a, <1>5 DEF watch_ends, ui_stop, NewPipes
<1>6. CASE ui_line
    BY <1>a, <1>6 DEF ui_line, ui_send
<1>7. CASE ui_died
    BY <1>a, <1>7 DEF ui_died, ui_stop, NewPipes
<1>8. CASE ui_restart
    BY <1>a, <1>8 DEF ui_restart, ui_start, NewPipes, lockpic_stage
<1>9. CASE check_password
    BY <1>a, <1>9 DEF check_password, ui_send
<1>10. CASE unlock
    BY <1>a, <1>10 DEF unlock, Refusable, Refuses, ui_send, ui_stop, NewPipes, Becomes
<1>11. CASE sas_command
    BY <1>a, <1>11 DEF sas_command, Refusable, Refuses, Becomes
<1>12. CASE MonitorDies
    BY <1>a, <1>12 DEF MonitorDies
<1>13. ASSUME NEW u \in Users, CompositorStarts(u) PROVE Pictured'
    BY <1>a, <1>13 DEF CompositorStarts, Becomes
<1>14. ASSUME NEW u \in Users, CompositorEnds(u) PROVE Pictured'
    BY <1>a, <1>14 DEF CompositorEnds, Becomes
<1>15. ASSUME NEW u \in Users, Locks(u) PROVE Pictured'
    BY <1>a, <1>15 DEF Locks, Becomes
<1>16. ASSUME NEW u \in Users, SecureAttention(u) PROVE Pictured'
    BY <1>a, <1>16 DEF SecureAttention, Becomes
<1>17. CASE UiHello
    BY <1>a, <1>17 DEF UiHello
<1>18. CASE handle_bridge_line
    BY <1>a, <1>18 DEF handle_bridge_line
<1>19. CASE UiDies
    BY <1>a, <1>19 DEF UiDies
<1>20. ASSUME NEW pw \in {"good", "bad"}, submit(pw) PROVE Pictured'
    BY <1>a, <1>20 DEF submit
<1>21. ASSUME NEW choice \in {"lock", "other"}, sas_choose(choice) PROVE Pictured'
    BY <1>a, <1>21 DEF sas_choose
<1>22. CASE UNCHANGED vars
    BY <1>a, <1>22
<1> QED
    BY <1>1, <1>2, <1>3, <1>4, <1>5, <1>6, <1>7, <1>8, <1>9, <1>10, <1>11, <1>12, <1>13, <1>14, <1>15, <1>16, <1>17, <1>18, <1>19, <1>20, <1>21, <1>22
    DEF Next, Service

\* A right password on its way stays one that was typed at this screen: pipes
\* and history start anew together.
LEMMA TypedStep ==
  ASSUME LockInv, [Next]_vars
  PROVE  Typed'
<1>a. TypeOK /\ Watched /\ Busy /\ Typed /\ Pictured
    BY DEF LockInv
<1> USE DEF TypeOK, Typed, Busy, Watched
<1>1. CASE find_session
    BY <1>a, <1>1 DEF find_session
<1>2. CASE watch
    BY <1>a, <1>2 DEF watch
<1>3. CASE poll
    BY <1>a, <1>3 DEF poll, Readable
<1>4. CASE event
    BY <1>a, <1>4 DEF event, Starts, Stops, ui_start, ui_stop, NewPipes, lockpic_stage
<1>5. CASE watch_ends
    BY <1>a, <1>5 DEF watch_ends, ui_stop, NewPipes
<1>6. CASE ui_line
    BY <1>a, <1>6 DEF ui_line, ui_send
<1>7. CASE ui_died
    BY <1>a, <1>7 DEF ui_died, ui_stop, NewPipes
<1>8. CASE ui_restart
    BY <1>a, <1>8 DEF ui_restart, ui_start, NewPipes, lockpic_stage
<1>9. CASE check_password
    BY <1>a, <1>9 DEF check_password, ui_send
<1>10. CASE unlock
    BY <1>a, <1>10 DEF unlock, Refusable, Refuses, ui_send, ui_stop, NewPipes, Becomes
<1>11. CASE sas_command
    BY <1>a, <1>11 DEF sas_command, Refusable, Refuses, Becomes
<1>12. CASE MonitorDies
    BY <1>a, <1>12 DEF MonitorDies
<1>13. ASSUME NEW u \in Users, CompositorStarts(u) PROVE Typed'
    BY <1>a, <1>13 DEF CompositorStarts, Becomes
<1>14. ASSUME NEW u \in Users, CompositorEnds(u) PROVE Typed'
    BY <1>a, <1>14 DEF CompositorEnds, Becomes
<1>15. ASSUME NEW u \in Users, Locks(u) PROVE Typed'
    BY <1>a, <1>15 DEF Locks, Becomes
<1>16. ASSUME NEW u \in Users, SecureAttention(u) PROVE Typed'
    BY <1>a, <1>16 DEF SecureAttention, Becomes
<1>17. CASE UiHello
    BY <1>a, <1>17 DEF UiHello
<1>18. CASE handle_bridge_line
    BY <1>a, <1>18 DEF handle_bridge_line
<1>19. CASE UiDies
    BY <1>a, <1>19 DEF UiDies
<1>20. ASSUME NEW pw \in {"good", "bad"}, submit(pw) PROVE Typed'
    BY <1>a, <1>20 DEF submit
<1>21. ASSUME NEW choice \in {"lock", "other"}, sas_choose(choice) PROVE Typed'
    BY <1>a, <1>21 DEF sas_choose
<1>22. CASE UNCHANGED vars
    BY <1>a, <1>22
<1> QED
    BY <1>1, <1>2, <1>3, <1>4, <1>5, <1>6, <1>7, <1>8, <1>9, <1>10, <1>11, <1>12, <1>13, <1>14, <1>15, <1>16, <1>17, <1>18, <1>19, <1>20, <1>21, <1>22
    DEF Next, Service

-----------------------------------------------------------------------------

\* The invariant holds from the start and is kept by every step.
THEOREM LockInvariance == Spec => []LockInv
<1>1. Init => LockInv
  <2> SUFFICES ASSUME Init PROVE LockInv
    OBVIOUS
  <2>1. <<>> \in Seq(Lines) /\ <<>> \in Seq({"PROMPT", "FAILURE"}) /\ <<>> \in Seq(Events)
    BY EmptySeq
  <2>2. SeatOK /\ ServiceOK /\ ScreenOK
    <3>1. deaths \in 0..MaxDeaths
      <4>1. MaxDeaths \in Nat
        BY LockConstants
      <4> QED
        BY <4>1 DEF Init
    <3>2. SeatOK
      BY <2>1, Zenon DEF Init, SeatOK
    <3>3. ServiceOK
      BY <3>1, Zenon DEF Init, ServiceOK
    <3>4. ScreenOK
      BY <2>1, Zenon DEF Init, ScreenOK
    <3> QED
      BY <3>2, <3>3, <3>4
  <2>3. Watched /\ Busy /\ Queued /\ Typed /\ Pictured
    BY DEF Init, Watched, Busy, Queued, Typed, Pictured, Shown, InOrder, NoEof
  <2> QED
    BY <2>2, <2>3, TypeParts DEF LockInv
<1>2. LockInv /\ [Next]_vars => LockInv'
  <2> SUFFICES ASSUME LockInv, [Next]_vars PROVE LockInv'
    OBVIOUS
  <2>1. SeatOK' /\ ScreenOK' /\ ServiceOK' /\ Watched' /\ Queued' /\ Busy' /\ Typed' /\ Pictured'
    BY ScreenStep, ServiceStep, QueueStep, BusyStep, TypedStep, PicturedStep
  <2>2. TypeOK'
    BY <2>1, TypeParts DEF TypeOK, SeatOK, ScreenOK, ServiceOK, Events
  <2> QED
    BY <2>1, <2>2 DEF LockInv
<1> QED
    BY <1>1, <1>2, PTL DEF Spec

\* Type correctness: no step of the service, its screen or the compositor
\* leaves the states TypeOK describes (a service with a session is past its
\* connection; a screen that is down has no lines left in its pipes).
THEOREM LockTypes == Spec => []TypeOK
  BY LockInvariance, PTL DEF LockInv

\* When the service has read every event, the screen is the one the compositor's
\* state calls for (unless one failed to start), and no picture stays behind.
THEOREM ScreenTheorem == Spec => []ScreenMatches
<1>1. LockInv => ScreenMatches
  <2> SUFFICES ASSUME LockInv PROVE ScreenMatches
    OBVIOUS
  <2>1. Watched /\ Queued /\ Pictured /\ TypeOK
    BY DEF LockInv
  <2>2. at = "poll" /\ evq = <<>> => linked
    BY <2>1 DEF Watched, TypeOK
  <2> QED
    BY <2>1, <2>2 DEF ScreenMatches, Queued, Pictured, Shown
<1> QED
    BY <1>1, LockInvariance, PTL

\* A locked session becomes unlocked by one step only, the UNLOCK that the
\* service sends after it checked a password; and that one was its owner's
\* right password, typed at the lock screen that was up.
THEOREM UnlockedTheorem == Spec => UnlockedByPassword
<1>1. LockInv /\ [Next]_vars =>
        [\A u \in Users : comp[u] = "locked" /\ comp'[u] = "unlocked" => u \in right]_vars
  <2> SUFFICES ASSUME LockInv, Next, NEW u \in Users, comp[u] = "locked", comp'[u] = "unlocked"
               PROVE  u \in right
    OBVIOUS
  <2>a. SeatOK /\ ServiceOK /\ Busy /\ Typed /\ Watched
    BY TypeParts DEF LockInv
  <2>b. \A v \in Users : \A s \in {"gone", "unlocked", "locked", "sas"} :
          Becomes(v, s) => s = "unlocked" /\ v = u
    BY <2>a DEF Becomes, SeatOK
  <2>1. unlock
    <3>1. CASE sas_command
      <4>1. path \in Users
        BY <3>1, <2>a DEF sas_command, ServiceOK, Watched
      <4> QED
        BY <3>1, <2>b, <4>1 DEF sas_command
    <3>2. ASSUME NEW v \in Users, CompositorStarts(v) \/ CompositorEnds(v) \/ Locks(v) \/ SecureAttention(v)
          PROVE  FALSE
      BY <3>2, <2>b DEF CompositorStarts, CompositorEnds, Locks, SecureAttention
    <3>3. comp' # comp
      OBVIOUS
    <3> QED
      BY <3>1, <3>2, <3>3
      DEF Next, Service, find_session, watch, poll, event, watch_ends, ui_line, ui_died, ui_restart,
          check_password, MonitorDies, UiHello, handle_bridge_line, UiDies, submit, sas_choose
  <2>2. at = "command" /\ todo = "good" /\ path = user /\ user \in Users
    BY <2>1, <2>a DEF unlock, Busy, ServiceOK, Watched
  <2>3. u = path
    BY <2>1, <2>2, <2>b DEF unlock
  <2> QED
    BY <2>2, <2>3, <2>a DEF Typed
<1> QED
    BY <1>1, LockInvariance, PTL DEF Spec, UnlockedByPassword

=============================================================================
