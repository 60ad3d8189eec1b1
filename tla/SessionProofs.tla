--------------------------- MODULE SessionProofs ----------------------------
(***************************************************************************)
(* Proofs about the programs of a session.  In PolkitAgent, for any set of *)
(* requests, a cancellation hits its own socket alone, and polkitd hears   *)
(* of no authorisation that was not given.  ProcAgent leaves its target as *)
(* it would have been, for any number of requests and of signals sent by   *)
(* others.  In Keyring, for any passwords, any number of programs at once  *)
(* and any length of time, the keyring's key follows the password, stored  *)
(* secrets are never deleted, and no private daemon or directory outlives  *)
(* the program it was made for.                                            *)
(***************************************************************************)
EXTENDS PolkitAgent, ProcAgent, Keyring, TLAPS

(* The polkit agent: a descriptor is its own request's for as long as a   *)
(* cancellation can find it.                                               *)

AgentSpec == AgentInit /\ [][AgentNext]_agentVars

USE DEF agentVars

\* A thread that has not closed its socket, and one still on the list.
Open == {"lookup", "connect", "write", "read", "remove", "close"}
OnList == {"lookup", "connect", "write", "read", "remove"}

\* Descriptors are the sockets of the requests that hold them until the
\* thread has closed its own, and the list holds no request past that: this
\* is what removing before closing buys.
Owned ==
    /\ \A r \in Requests : thread[r] \in Open /\ fd[r] # 0 => file[fd[r]] = r
    /\ \A r \in Requests : thread[r] = "none" => fd[r] = 0
    /\ \A r \in Requests : thread[r] \in {"write", "read"} => fd[r] # 0
    /\ \A r \in g_requests : thread[r] \in OnList

\* A good status has its origin in sg-polkit-respond.
Told == \A r \in Requests : byte[r] = "0" \/ status[r] = "0" => r \in polkitd

AgentInv == AgentTypeOK /\ Owned /\ Told /\ CancelHitsItsOwn /\ AuthorisedIsTold

-----------------------------------------------------------------------------
\* The invariant holds when the agent starts.
LEMMA AgentInitially == AgentInit => AgentInv
    BY DEF AgentInit, AgentInv, AgentTypeOK, Owned, Told, CancelHitsItsOwn, AuthorisedIsTold, Open, OnList

\* A request's descriptor is never descriptor 0.
LEMMA DescriptorsPositive == \A d \in Descriptors : d # 0
    BY DEF Descriptors

\* What every step but two leaves alone: whose descriptor is whose.
LEMMA OwnedFrame ==
  ASSUME AgentInv, NEW r \in Requests, NEW t \in Open \cup {"reply", "done"},
         thread' = [thread EXCEPT ![r] = t], UNCHANGED <<fd, file>>,
         t \in Open => thread[r] \in Open, thread[r] # "none",
         t \in {"write", "read"} => fd[r] # 0,
         g_requests' \subseteq g_requests, t \notin OnList => r \notin g_requests'
  PROVE  Owned'
    BY DEF AgentInv, AgentTypeOK, Owned, Open, OnList

\* The list and the descriptors where no thread moves.
LEMMA OwnedStays ==
  ASSUME AgentInv, UNCHANGED <<thread, fd, file, g_requests>>
  PROVE  Owned'
    BY DEF AgentInv, Owned

-----------------------------------------------------------------------------
(* The main thread's handlers.                                             *)

\* BeginAuthentication keeps the invariant.
LEMMA BeginKeeps ==
  ASSUME AgentInv, NEW r \in Requests, BeginAuthentication(r)
  PROVE  AgentInv'
<1>1. AgentTypeOK'
    BY DEF AgentInv, AgentTypeOK, BeginAuthentication
<1>2. Owned'
  <2>1. CASE UNCHANGED <<fd, file>>
    BY <2>1 DEF AgentInv, AgentTypeOK, Owned, BeginAuthentication, Open, OnList
  <2>2. CASE \E d \in Descriptors : file[d] = NoReq /\ fd' = [fd EXCEPT ![r] = d] /\ file' = [file EXCEPT ![d] = r]
    <3>1. PICK d \in Descriptors : file[d] = NoReq /\ fd' = [fd EXCEPT ![r] = d] /\ file' = [file EXCEPT ![d] = r]
        BY <2>2, Zenon
    <3>2. \A q \in Requests : thread[q] \in Open /\ fd[q] # 0 => fd[q] # d
        BY <3>1, AgentConstants DEF AgentInv, AgentTypeOK, Owned
    <3> QED
        BY <3>1, <3>2, DescriptorsPositive DEF AgentInv, AgentTypeOK, Owned, BeginAuthentication, Open, OnList
  <2> QED
    BY <2>1, <2>2 DEF BeginAuthentication
<1>3. Told' /\ CancelHitsItsOwn' /\ AuthorisedIsTold'
    BY DEF AgentInv, Told, CancelHitsItsOwn, AuthorisedIsTold, BeginAuthentication
<1> QED
    BY <1>1, <1>2, <1>3 DEF AgentInv

\* A cancellation hits the request it names, if any.
LEMMA CancelKeeps ==
  ASSUME AgentInv, NEW r \in Requests, CancelAuthentication(r)
  PROVE  AgentInv'
<1>1. Hits(r) \subseteq {r}
    BY DEF AgentInv, AgentTypeOK, Owned, Hits, Open, OnList
<1>2. AgentTypeOK'
    BY <1>1 DEF AgentInv, AgentTypeOK, CancelAuthentication
<1>3. Owned'
    BY OwnedStays DEF CancelAuthentication
<1>4. CancelHitsItsOwn'
    BY <1>1 DEF AgentInv, CancelHitsItsOwn, CancelAuthentication
<1>5. Told' /\ AuthorisedIsTold'
    BY DEF AgentInv, Told, AuthorisedIsTold, CancelAuthentication
<1> QED
    BY <1>2, <1>3, <1>4, <1>5 DEF AgentInv

-----------------------------------------------------------------------------
(* A request's own thread, step by step.                                   *)

\* Each step of a request's thread keeps it: the thread leaves the list
\* before it closes its descriptor.
LEMMA ThreadKeeps ==
  ASSUME AgentInv, NEW r \in Requests, begin_thread(r)
  PROVE  AgentInv'
<1> USE DEF Goto, Gives, After
<1>1. CASE action_exec_path(r) \/ connect(r)
  <2>1. AgentTypeOK'
    BY <1>1 DEF AgentInv, AgentTypeOK, action_exec_path, connect
  <2>2. Owned'
    BY <1>1, OwnedFrame DEF action_exec_path, connect, Open, OnList, AgentInv
  <2>3. Told' /\ CancelHitsItsOwn' /\ AuthorisedIsTold'
    BY <1>1 DEF AgentInv, AgentTypeOK, Told, CancelHitsItsOwn, AuthorisedIsTold, action_exec_path, connect
  <2> QED
    BY <2>1, <2>2, <2>3 DEF AgentInv
<1>2. CASE write_full(r)
  <2>0. file[fd[r]] = r
    BY <1>2 DEF AgentInv, Owned, Open, write_full
  <2>1. AgentTypeOK'
    BY <1>2, <2>0 DEF AgentInv, AgentTypeOK, write_full
  <2>2. Owned'
    BY <1>2, OwnedFrame DEF write_full, Open, OnList, AgentInv, Owned
  <2>3. Told' /\ CancelHitsItsOwn' /\ AuthorisedIsTold'
    BY <1>2 DEF AgentInv, AgentTypeOK, Told, CancelHitsItsOwn, AuthorisedIsTold, write_full
  <2> QED
    BY <2>1, <2>2, <2>3 DEF AgentInv
<1>3. CASE read_status(r)
  <2>0. file[fd[r]] = r
    BY <1>3 DEF AgentInv, Owned, Open, read_status
  <2>1. PICK s \in {byte[r], "2"} : s \in {"0", "1", "2"} /\ Gives(r, s) /\ (s = "0" => byte[r] = "0")
    BY <1>3, <2>0 DEF read_status, Nothing
  <2>2. AgentTypeOK'
    BY <1>3, <2>1 DEF AgentInv, AgentTypeOK, read_status
  <2>3. Owned'
    BY <1>3, <2>1, OwnedFrame, Zenon DEF read_status, Open, OnList
  <2>4. Told' /\ CancelHitsItsOwn' /\ AuthorisedIsTold'
    BY <1>3, <2>1 DEF AgentInv, AgentTypeOK, Told, CancelHitsItsOwn, AuthorisedIsTold, read_status
  <2> QED
    BY <2>2, <2>3, <2>4 DEF AgentInv
<1>4. CASE remove(r)
  <2>1. AgentTypeOK'
    BY <1>4 DEF AgentInv, AgentTypeOK, remove
  <2>2. Owned'
    BY <1>4, OwnedFrame, Zenon DEF remove, Open, OnList
  <2>3. Told' /\ CancelHitsItsOwn' /\ AuthorisedIsTold'
    BY <1>4 DEF AgentInv, Told, CancelHitsItsOwn, AuthorisedIsTold, remove
  <2> QED
    BY <2>1, <2>2, <2>3 DEF AgentInv
<1>5. CASE close(r)
  <2>1. AgentTypeOK'
    BY <1>5 DEF AgentInv, AgentTypeOK, close
  <2>2. Owned'
    <3>1. r \notin g_requests
        BY <1>5 DEF AgentInv, Owned, OnList, close
    <3>2. \A q \in Requests : q # r /\ thread[q] \in Open /\ fd[q] # 0 => file'[fd[q]] = q
        BY <1>5 DEF AgentInv, AgentTypeOK, Owned, Open, close
    <3> QED
        BY <1>5, <3>1, <3>2 DEF AgentInv, AgentTypeOK, Owned, Open, OnList, close
  <2>3. Told' /\ CancelHitsItsOwn' /\ AuthorisedIsTold'
    BY <1>5 DEF AgentInv, Told, CancelHitsItsOwn, AuthorisedIsTold, close
  <2> QED
    BY <2>1, <2>2, <2>3 DEF AgentInv
<1>6. CASE return_value(r)
  <2>1. AgentTypeOK'
    BY <1>6 DEF AgentInv, AgentTypeOK, return_value
  <2>2. Owned'
    BY <1>6, OwnedFrame, Zenon DEF return_value, Open, OnList, AgentInv, Owned
  <2>3. Told' /\ CancelHitsItsOwn' /\ AuthorisedIsTold'
    BY <1>6 DEF AgentInv, AgentTypeOK, Told, CancelHitsItsOwn, AuthorisedIsTold, return_value
  <2> QED
    BY <2>1, <2>2, <2>3 DEF AgentInv
<1> QED
    BY <1>1, <1>2, <1>3, <1>4, <1>5, <1>6 DEF begin_thread

\* The broker and its responder touch neither threads nor descriptors.
LEMMA BrokerKeeps ==
  ASSUME AgentInv, NEW r \in Requests, BrokerServes(r) \/ BrokerRefuses(r) \/ sg_polkit_respond(r)
  PROVE  AgentInv'
<1>1. AgentTypeOK'
    BY DEF AgentInv, AgentTypeOK, BrokerServes, BrokerRefuses, sg_polkit_respond
<1>2. Owned'
    BY OwnedStays DEF BrokerServes, BrokerRefuses, sg_polkit_respond
<1>3. Told'
    BY DEF AgentInv, AgentTypeOK, Told, BrokerServes, BrokerRefuses, sg_polkit_respond
<1>4. CancelHitsItsOwn' /\ AuthorisedIsTold'
    BY DEF AgentInv, CancelHitsItsOwn, AuthorisedIsTold, BrokerServes, BrokerRefuses, sg_polkit_respond
<1> QED
    BY <1>1, <1>2, <1>3, <1>4 DEF AgentInv

-----------------------------------------------------------------------------
\* Every step keeps the invariant.
LEMMA AgentInductive == AgentInv /\ [AgentNext]_agentVars => AgentInv'
<1> SUFFICES ASSUME AgentInv, [AgentNext]_agentVars PROVE AgentInv'
    OBVIOUS
<1>1. CASE AgentNext
    BY <1>1, BeginKeeps, CancelKeeps, ThreadKeeps, BrokerKeeps DEF AgentNext
<1>2. CASE UNCHANGED agentVars
    BY <1>2 DEF AgentInv, AgentTypeOK, Owned, Told, CancelHitsItsOwn, AuthorisedIsTold
<1> QED
    BY <1>1, <1>2

\* However many requests are under way, and however descriptors are closed
\* and given out again between the two threads, CancelAuthentication shuts
\* down the socket of the request it names and no other, and a
\* BeginAuthentication that is answered as authorised is one that
\* sg-polkit-respond has answered at polkitd.
THEOREM AgentIsSafe == AgentSpec => []AgentSafe
<1>1. AgentInv => AgentSafe
    BY DEF AgentInv, AgentSafe
<1> QED
    BY <1>1, AgentInitially, AgentInductive, PTL DEF AgentSpec

-----------------------------------------------------------------------------
(* The process agent: what it does to its target it undoes.                *)

ProcSpec == ProcInit /\ [][ProcNext]_procVars

Attached == {"wait", "memory", "detach"}

\* An agent that is not attached has left nothing on its target.
LetGo ==
    agent \notin Attached => ~traced /\ target \in {"runs", "dead"} /\ "STOP" \notin pending

\* While it waits, the stop it asked for is on its way or has come, whichever
\* other stop comes before.
Awaits ==
    agent = "wait" =>
        /\ traced /\ target # "stopped"
        /\ target = "runs" => "STOP" \in pending
        /\ target = "tracestop" => IF stopsig = "STOP" THEN "STOP" \notin pending
                                   ELSE stopsig = "USR" /\ "STOP" \in pending

\* It works on a target that stopped for it, or has died.
Holds ==
    agent \in {"memory", "detach"} =>
        traced /\ (target = "dead" \/ (target = "tracestop" /\ stopsig = "STOP" /\ "STOP" \notin pending))

\* No signal is lost: the first half of TargetUndisturbed.
Owes == owed => "USR" \in pending \/ (target = "tracestop" /\ stopsig = "USR")

Quiet == target = "dead" => pending = {} /\ ~owed

ProcInv == traced \in BOOLEAN /\ owed \in BOOLEAN /\ LetGo /\ Awaits /\ Holds /\ Owes /\ Quiet

-----------------------------------------------------------------------------
\* The invariant holds when the agent starts.
LEMMA ProcInitially == ProcInit => ProcInv
    BY Zenon DEF ProcInit, ProcInv, Attached, LetGo, Awaits, Holds, Owes, Quiet

\* The invariant gives the property.
LEMMA InvSuffices == ProcInv => TargetUndisturbed
    BY DEF ProcInv, TargetUndisturbed, LetGo, Owes, Attached

\* A step from one place where the agent holds nothing to another.
LEMMA KernelStays ==
    ASSUME ProcInv, UNCHANGED kernel, agent' = agent \/ {agent, agent'} \cap Attached = {}
    PROVE  ProcInv'
    BY Zenon DEF ProcInv, kernel, Attached, LetGo, Awaits, Holds, Owes, Quiet

\* A signal sent or taken, and the target's death, keep the invariant.
LEMMA SignalsKeep ==
    ASSUME ProcInv, SignalSent \/ TargetDies \/ \E s \in {"STOP", "USR"} : SignalTaken(s)
    PROVE  ProcInv'
<1>1. CASE SignalSent
    BY <1>1 DEF SignalSent, ProcInv, Attached, LetGo, Awaits, Holds, Owes, Quiet
<1>2. CASE TargetDies
    BY <1>2, Zenon DEF TargetDies, ProcInv, Attached, LetGo, Awaits, Holds, Owes, Quiet
<1>3. CASE SignalTaken("STOP")
    BY <1>3 DEF SignalTaken, ProcInv, Attached, LetGo, Awaits, Holds, Owes, Quiet
<1>4. CASE SignalTaken("USR")
    BY <1>4 DEF SignalTaken, ProcInv, Attached, LetGo, Awaits, Holds, Owes, Quiet
<1> QED
    BY <1>1, <1>2, <1>3, <1>4

\* Reading a request disturbs nothing.
LEMMA ReadsKeep ==
    ASSUME ProcInv, read_request \/ read_payload \/ accept
    PROVE  ProcInv'
<1>1. UNCHANGED kernel /\ agent \notin Attached
    BY DEF read_request, read_payload, accept, Attached
<1>2. agent' \notin Attached
    BY DEF read_request, read_payload, accept, ProcGoto, Attached
<1> QED
    BY <1>1, <1>2, KernelStays

\* Attaching, waiting for the stop, the memory and detaching keep the
\* invariant.
LEMMA TracingKeeps ==
    ASSUME ProcInv, attach \/ attach_wait \/ do_mem \/ detach
    PROVE  ProcInv'
<1>1. CASE attach
    <2>0. ~traced /\ target \in {"runs", "dead"}
        BY <1>1 DEF attach, Attached, ProcInv, LetGo
    <2>1. CASE agent' = "wait"
        <3>1. /\ target = "runs" /\ traced' = TRUE /\ pending' = pending \cup {"STOP"}
              /\ UNCHANGED <<owed, target, stopsig>>
            BY <1>1, <2>0, <2>1 DEF attach, ProcGoto
        <3> QED
            BY <2>1, <3>1 DEF ProcInv, Attached, LetGo, Awaits, Holds, Owes, Quiet
    <2>2. CASE agent' = "reply" /\ UNCHANGED kernel
        BY <1>1, <2>2, KernelStays DEF attach, Attached
    <2> QED
        BY <1>1, <2>1, <2>2 DEF attach, ProcGoto, kernel
<1>2. CASE attach_wait
    <2>0. agent = "wait" /\ traced = TRUE
        BY <1>2 DEF attach_wait, ProcInv, Awaits
    <2>1. CASE target = "dead"
        <3>1. traced' = FALSE /\ agent' = "reply" /\ UNCHANGED <<target, stopsig, pending, owed>>
            BY <1>2, <2>1 DEF attach_wait, ProcGoto
        <3> QED
            BY <2>1, <3>1, Zenon DEF ProcInv, Attached, LetGo, Awaits, Holds, Owes, Quiet
    <2>2. CASE target = "tracestop" /\ stopsig = "STOP"
        <3>1. agent' = "memory" /\ UNCHANGED <<target, stopsig, pending, owed, traced>>
            BY <1>2, <2>2 DEF attach_wait, ProcGoto, Ours
        <3> QED
            BY <2>0, <2>2, <3>1 DEF ProcInv, Attached, LetGo, Awaits, Holds, Owes, Quiet
    <2>3. CASE target = "tracestop" /\ stopsig # "STOP"
        <3>1. stopsig = "USR" /\ "STOP" \in pending
            BY <2>0, <2>3 DEF ProcInv, Awaits
        <3>2. /\ agent' = "wait" /\ target' = "runs" /\ owed' = FALSE
              /\ UNCHANGED <<pending, traced>>
            BY <1>2, <2>3, <3>1, Zenon DEF attach_wait, ProcGoto, Ours, Resumes
        <3> QED
            BY <2>0, <3>1, <3>2, Zenon DEF ProcInv, Attached, LetGo, Awaits, Holds, Owes, Quiet
    <2> QED
        BY <1>2, <2>1, <2>2, <2>3 DEF attach_wait
<1>3. CASE do_mem
    BY <1>3 DEF do_mem, kernel, ProcGoto, ProcInv, Attached, LetGo, Awaits, Holds, Owes, Quiet
<1>4. CASE detach
    BY <1>4, Zenon DEF detach, Resumes, ProcGoto, ProcInv, Attached, LetGo, Awaits, Holds, Owes, Quiet
<1> QED
    BY <1>1, <1>2, <1>3, <1>4

\* So does the reply.
LEMMA ReplyKeeps ==
    ASSUME ProcInv, send_reply
    PROVE  ProcInv'
<1>1. agent = "reply" /\ agent' \notin Attached
    BY DEF send_reply, ProcGoto, Attached
<1>2. CASE UNCHANGED kernel
    BY <1>1, <1>2, KernelStays DEF Attached
<1>3. CASE /\ target # "dead" /\ pending' = pending \cup {"USR"} /\ owed' = TRUE
           /\ UNCHANGED <<target, stopsig, traced, signals>>
    BY <1>1, <1>3 DEF ProcInv, Attached, LetGo, Awaits, Holds, Owes, Quiet
<1> QED
    BY <1>2, <1>3, Zenon DEF send_reply

\* Every step keeps the invariant.
LEMMA ProcStep == ProcInv /\ [ProcNext]_procVars => ProcInv'
<1> SUFFICES ASSUME ProcInv, [ProcNext]_procVars PROVE ProcInv'
    OBVIOUS
<1>1. CASE UNCHANGED procVars
    BY <1>1, KernelStays DEF procVars
<1>2. CASE WineserverGoes \/ \E op \in Ops, len \in Lengths : WineserverAsks(op, len)
    <2>1. UNCHANGED <<kernel, agent>>
        BY <1>2, Zenon DEF WineserverGoes, WineserverAsks
    <2> QED
        BY <2>1, KernelStays
<1> QED
    BY <1>1, <1>2, SignalsKeep, ReadsKeep, TracingKeeps, ReplyKeeps DEF ProcNext, ProcServe

\* However signals of others, the target's death and the wineserver's requests
\* interleave, the target loses no signal, and an agent that is done has left it
\* running, untraced and with no stop to come (attach, its wait for the stop
\* that is its own, detach).
THEOREM UndisturbedTheorem == ProcSpec => []TargetUndisturbed
    BY ProcInitially, ProcStep, InvSuffices, PTL DEF ProcSpec

-----------------------------------------------------------------------------
(* The login keyring: what is done to it is done, and undone, in order.    *)

KeyringSpec == KeyringInit /\ [][KeyringNext]_keyringVars

USE DEF keyringVars, login, jobs, privately, history, Begins, Proceeds, Finishes, Makes, Helper, kill_helper, remove_runtime, Programs2, Jobs, Steps, There

\* The shapes of the variables the proofs look into.
Shapes ==
    /\ holds \in Contents /\ clock \in 0..MaxClock /\ kept \in [0..MaxClock -> Contents] /\ step \in [Jobs -> Steps]
    /\ helper \in [Programs2 -> {"none", "starting", "up", "dead"}] /\ private \subseteq Programs2

\* A private daemon and a private directory exist in these steps only.
Housed ==
    /\ step["signin"] # "wait" => helper["first"] = "none"
    /\ step["signin"] \notin {"made", "wait", "stop"} => "first" \notin private
    /\ step["change"] \notin {"wait", "unix", "follow", "clean"} => helper["change"] = "none"
    /\ step["change"] \notin {"private", "wait", "unix", "follow", "clean"} => "change" \notin private

\* The name the next keyring put aside will get is free.
NameFree ==
    /\ \A s \in 0..MaxClock : s > clock => kept[s] = "nothing"
    /\ step["tool"] \in {"reset", "move"} => kept[clock] = "nothing"

KeyringInv == Shapes /\ Housed

-----------------------------------------------------------------------------
\* The invariant holds before anybody signs in.
LEMMA KeyringInitially == KeyringInit => KeyringInv
<1> SUFFICES ASSUME KeyringInit PROVE KeyringInv
    OBVIOUS
<1>0. clock = 0 /\ kept = [s \in 0..MaxClock |-> "nothing"] /\ holds = "nothing"
    BY Zenon DEF KeyringInit
<1>1. clock \in 0..MaxClock /\ kept \in [0..MaxClock -> Contents] /\ holds \in Contents
    BY <1>0, KeyringConstants DEF Contents
<1>2. step \in [Jobs -> Steps]
    BY Zenon DEF KeyringInit
<1>3. helper \in [Programs2 -> {"none", "starting", "up", "dead"}] /\ private \subseteq Programs2
    BY Zenon DEF KeyringInit
<1>4. Housed
    BY Zenon DEF KeyringInit, Housed
<1> QED
    BY <1>1, <1>2, <1>3, <1>4 DEF KeyringInv, Shapes

\* A first sign-in's steps keep the shapes, and its daemon and
\* directory where they belong.
LEMMA SignInShapes ==
  ASSUME KeyringInv, PersonSignsIn \/ FirstStep
  PROVE  KeyringInv'
<1> USE DEF KeyringInv
<1>1. CASE PersonSignsIn
    <2>1. Shapes'
        BY <1>1, Zenon DEF PersonSignsIn, Shapes, Contents
    <2>2. Housed'
        BY <1>1, Zenon DEF PersonSignsIn, Shapes, Housed
    <2> QED
        BY <2>1, <2>2
<1>2. CASE first_look
    <2>1. step' \in [Jobs -> Steps]
        BY <1>2 DEF first_look, Shapes
    <2>2. (holds \in Contents /\ clock \in 0..MaxClock /\ kept \in [0..MaxClock -> Contents])'
        BY <1>2 DEF first_look, Shapes, Contents
    <2>3. (helper \in [Programs2 -> {"none", "starting", "up", "dead"}] /\ private \subseteq Programs2)'
        BY <1>2, Zenon DEF first_look, Shapes
    <2>4. Housed'
        BY <1>2 DEF first_look, Shapes, Housed
    <2> QED
        BY <2>1, <2>2, <2>3, <2>4 DEF Shapes
<1>3. CASE first_make
    <2>1. step' \in [Jobs -> Steps]
        BY <1>3 DEF first_make, Shapes
    <2>2. (holds \in Contents /\ clock \in 0..MaxClock /\ kept \in [0..MaxClock -> Contents])'
        BY <1>3 DEF first_make, Shapes, Contents
    <2>3. (helper \in [Programs2 -> {"none", "starting", "up", "dead"}] /\ private \subseteq Programs2)'
        BY <1>3, Zenon DEF first_make, Shapes
    <2>4. Housed'
        BY <1>3 DEF first_make, Shapes, Housed
    <2> QED
        BY <2>1, <2>2, <2>3, <2>4 DEF Shapes
<1>4. CASE first_wait
    <2>1. Shapes'
        BY <1>4 DEF first_wait, Shapes, Contents
    <2>2. Housed'
        BY <1>4 DEF first_wait, Shapes, Housed
    <2> QED
        BY <2>1, <2>2
<1>5. CASE first_remove
    <2>1. Shapes'
        BY <1>5 DEF first_remove, Shapes, Contents
    <2>2. Housed'
        BY <1>5 DEF first_remove, Shapes, Housed
    <2> QED
        BY <2>1, <2>2
<1>6. CASE SessionOpens
    <2>1. Shapes'
        BY <1>6, Zenon DEF SessionOpens, Shapes, Contents
    <2>2. Housed'
        BY <1>6, Zenon DEF SessionOpens, Shapes, Housed
    <2> QED
        BY <2>1, <2>2
<1> QED
    BY <1>1, <1>2, <1>3, <1>4, <1>5, <1>6 DEF FirstStep

\* So do the steps of a password change.
LEMMA ChangeShapes ==
  ASSUME KeyringInv, ChangeStep \/ refused \/ \E c, n \in Passwords : password_change(c, n)
  PROVE  KeyringInv'
<1> USE DEF KeyringInv
<1>1. CASE refused
    <2>1. Shapes'
        BY <1>1, Zenon DEF refused, Shapes, Contents
    <2>2. Housed'
        BY <1>1, Zenon DEF refused, Shapes, Housed
    <2> QED
        BY <2>1, <2>2
<1>2. CASE \E c, n \in Passwords : password_change(c, n)
    <2>1. Shapes'
        BY <1>2 DEF password_change, Shapes, Contents
    <2>2. Housed'
        BY <1>2 DEF password_change, Shapes, Housed
    <2> QED
        BY <2>1, <2>2
<1>3. CASE control_socket
    <2>1. step' \in [Jobs -> Steps]
        BY <1>3 DEF control_socket, Shapes
    <2>2. (holds \in Contents /\ clock \in 0..MaxClock /\ kept \in [0..MaxClock -> Contents])'
        BY <1>3 DEF control_socket, Shapes, Contents
    <2>3. (helper \in [Programs2 -> {"none", "starting", "up", "dead"}] /\ private \subseteq Programs2)'
        BY <1>3, Zenon DEF control_socket, Shapes
    <2>4. Housed'
        BY <1>3 DEF control_socket, Shapes, Housed
    <2> QED
        BY <2>1, <2>2, <2>3, <2>4 DEF Shapes
<1>4. CASE start_daemon
    <2>1. Shapes'
        BY <1>4 DEF start_daemon, Shapes, Contents
    <2>2. Housed'
        BY <1>4 DEF start_daemon, Shapes, Housed
    <2> QED
        BY <2>1, <2>2
<1>5. CASE daemon_wait
    <2>1. Shapes'
        BY <1>5 DEF daemon_wait, Shapes, Contents
    <2>2. Housed'
        BY <1>5 DEF daemon_wait, Shapes, Housed
    <2> QED
        BY <2>1, <2>2
<1>6. CASE pam_unix
    <2>1. Shapes'
        BY <1>6 DEF pam_unix, Shapes, Contents
    <2>2. Housed'
        BY <1>6 DEF pam_unix, Shapes, Housed
    <2> QED
        BY <2>1, <2>2
<1>7. CASE pam_gnome_keyring
    <2>1. Shapes'
        BY <1>7 DEF pam_gnome_keyring, Shapes, Contents
    <2>2. Housed'
        BY <1>7 DEF pam_gnome_keyring, Shapes, Housed
    <2> QED
        BY <2>1, <2>2
<1>8. CASE clean_up
    <2>1. Shapes'
        BY <1>8, Zenon DEF clean_up, Shapes, Contents
    <2>2. Housed'
        BY <1>8, Zenon DEF clean_up, Shapes, Housed
    <2> QED
        BY <2>1, <2>2
<1> QED
    BY <1>1, <1>2, <1>3, <1>4, <1>5, <1>6, <1>7, <1>8 DEF ChangeStep

\* A step of recover and reset moves them alone.
LEMMA ToolMoves ==
  ASSUME Shapes, NEW w \in Steps, step' = [step EXCEPT !["tool"] = w]
  PROVE  /\ step' \in [Jobs -> Steps] /\ step'["tool"] = w
         /\ step'["signin"] = step["signin"] /\ step'["change"] = step["change"]
<1>1. step \in [Jobs -> Steps]
    BY Zenon DEF Shapes
<1>2. "tool" \in Jobs /\ "signin" \in Jobs /\ "change" \in Jobs
    BY Zenon
<1> HIDE DEF Jobs, Steps
<1>3. step' \in [Jobs -> Steps] /\ step'["tool"] = w
    BY <1>1, <1>2, Zenon
<1>4. step'["signin"] = step["signin"] /\ step'["change"] = step["change"]
    BY <1>1, <1>2
<1> QED
    BY <1>3, <1>4, Zenon

\* What is private stays where it belongs while a sign-in and a change stand
\* still.
LEMMA HousedStays ==
  ASSUME Housed, step'["signin"] = step["signin"], step'["change"] = step["change"], UNCHANGED privately
  PROVE  Housed'
BY Zenon DEF Housed

\* So do those of recover and reset.
LEMMA ToolShapes ==
  ASSUME KeyringInv,
         \/ ToolStep
         \/ \E c, n \in Passwords : sg_keyring("recover", c, n)
         \/ \E c \in Passwords : sg_keyring("reset", c, "")
  PROVE  KeyringInv'
<1> USE DEF KeyringInv
<1>1. CASE (\E c, n \in Passwords : sg_keyring("recover", c, n)) \/ \E c \in Passwords : sg_keyring("reset", c, "")
    <2>0. PICK w \in {"recover", "reset"} : step' = [step EXCEPT !["tool"] = w]
        BY <1>1, Zenon DEF sg_keyring
    <2>1. step' \in [Jobs -> Steps] /\ step'["signin"] = step["signin"] /\ step'["change"] = step["change"]
        BY <2>0, ToolMoves, Zenon
    <2>2. (holds \in Contents /\ clock \in 0..MaxClock /\ kept \in [0..MaxClock -> Contents])'
        BY <1>1, Zenon DEF sg_keyring, Shapes, Contents
    <2>3. (helper \in [Programs2 -> {"none", "starting", "up", "dead"}] /\ private \subseteq Programs2)'
        BY <1>1, Zenon DEF sg_keyring, Shapes
    <2>4. Housed'
        BY <1>1, <2>1, HousedStays, Zenon DEF sg_keyring
    <2> QED
        BY <2>1, <2>2, <2>3, <2>4, Zenon DEF Shapes
<1>2. CASE check
    <2>0. PICK w \in {"change", "move", "idle"} : step' = [step EXCEPT !["tool"] = w]
        BY <1>2, Zenon DEF check
    <2>1. step' \in [Jobs -> Steps] /\ step'["signin"] = step["signin"] /\ step'["change"] = step["change"]
        BY <2>0, ToolMoves, Zenon
    <2>2. (holds \in Contents /\ clock \in 0..MaxClock /\ kept \in [0..MaxClock -> Contents])'
        BY <1>2, Zenon DEF check, Shapes, Contents
    <2>3. (helper \in [Programs2 -> {"none", "starting", "up", "dead"}] /\ private \subseteq Programs2)'
        BY <1>2, Zenon DEF check, Shapes
    <2>4. Housed'
        BY <1>2, <2>1, HousedStays, Zenon DEF check
    <2> QED
        BY <2>1, <2>2, <2>3, <2>4, Zenon DEF Shapes
<1>3. CASE recover_change
    <2>0. PICK w \in {"unlock", "idle"} : step' = [step EXCEPT !["tool"] = w]
        BY <1>3, Zenon DEF recover_change
    <2>1. step' \in [Jobs -> Steps] /\ step'["signin"] = step["signin"] /\ step'["change"] = step["change"]
        BY <2>0, ToolMoves, Zenon
    <2>2. (holds \in Contents /\ clock \in 0..MaxClock /\ kept \in [0..MaxClock -> Contents])'
        BY <1>3, Zenon DEF recover_change, Shapes, Contents
    <2>3. (helper \in [Programs2 -> {"none", "starting", "up", "dead"}] /\ private \subseteq Programs2)'
        BY <1>3, Zenon DEF recover_change, Shapes
    <2>4. Housed'
        BY <1>3, <2>1, HousedStays, Zenon DEF recover_change
    <2> QED
        BY <2>1, <2>2, <2>3, <2>4, Zenon DEF Shapes
<1>4. CASE recover_unlock
    <2>1. Shapes'
        BY <1>4, Zenon DEF recover_unlock, Shapes, Contents
    <2>2. Housed'
        BY <1>4, Zenon DEF recover_unlock, Shapes, Housed
    <2> QED
        BY <2>1, <2>2, Zenon
<1>5. CASE reset_move
    <2>0. PICK w \in {"settle", "idle"} : step' = [step EXCEPT !["tool"] = w]
        BY <1>5, Zenon DEF reset_move
    <2>1. step' \in [Jobs -> Steps] /\ step'["signin"] = step["signin"] /\ step'["change"] = step["change"]
        BY <2>0, ToolMoves, Zenon
    <2>2. (holds \in Contents /\ clock \in 0..MaxClock /\ kept \in [0..MaxClock -> Contents])'
        <3>1. kept' = kept \/ kept' = [kept EXCEPT ![clock] = holds]
            BY <1>5, Zenon DEF reset_move, Aside
        <3>2. kept' \in [0..MaxClock -> Contents]
            BY <3>1, Zenon DEF Shapes
        <3>3. holds' \in {holds, "nothing"} /\ UNCHANGED clock
            BY <1>5, Zenon DEF reset_move
        <3> QED
            BY <3>2, <3>3, Zenon DEF Shapes, Contents
    <2>3. (helper \in [Programs2 -> {"none", "starting", "up", "dead"}] /\ private \subseteq Programs2)'
        BY <1>5, Zenon DEF reset_move, Aside, Shapes
    <2>4. Housed'
        BY <1>5, <2>1, HousedStays, Zenon DEF reset_move
    <2> QED
        BY <2>1, <2>2, <2>3, <2>4, Zenon DEF Shapes
<1>6. CASE reset_settle
    <2>1. Shapes'
        BY <1>6, Zenon DEF reset_settle, Shapes, Contents
    <2>2. Housed'
        BY <1>6, Zenon DEF reset_settle, Shapes, Housed
    <2> QED
        BY <2>1, <2>2, Zenon
<1>7. CASE reset_create
    <2>1. Shapes'
        BY <1>7, Zenon DEF reset_create, Shapes, Contents
    <2>2. Housed'
        BY <1>7, Zenon DEF reset_create, Shapes, Housed
    <2> QED
        BY <2>1, <2>2, Zenon
<1> QED
    BY <1>1, <1>2, <1>3, <1>4, <1>5, <1>6, <1>7, Zenon DEF ToolStep

\* So do the steps of the surroundings: what is stored, daemons, helpers, time.
LEMMA WorldShapes ==
  ASSUME KeyringInv,
         \/ PersonSignsOut \/ Stores \/ DaemonSees \/ SecondPasses
         \/ \E p \in Programs2 : HelperRuns(p)
         \/ \E c \in Passwords : chpasswd_reset(c)
  PROVE  KeyringInv'
<1> USE DEF KeyringInv
<1>1. CASE PersonSignsOut \/ Stores \/ DaemonSees
    <2>1. Shapes'
        BY <1>1, Zenon DEF PersonSignsOut, Stores, DaemonSees, Shapes, Contents
    <2>2. Housed'
        BY <1>1 DEF PersonSignsOut, Stores, DaemonSees, Shapes, Housed
    <2> QED
        BY <2>1, <2>2
<1>2. CASE SecondPasses
    <2>1. Shapes'
        BY <1>2, KeyringConstants DEF SecondPasses, Shapes, Contents
    <2>2. Housed'
        BY <1>2 DEF SecondPasses, Shapes, Housed
    <2> QED
        BY <2>1, <2>2
<1>3. CASE \E p \in Programs2 : HelperRuns(p)
    <2>1. Shapes'
        BY <1>3 DEF HelperRuns, Shapes, Contents
    <2>2. Housed'
        BY <1>3 DEF HelperRuns, Shapes, Housed
    <2> QED
        BY <2>1, <2>2
<1>4. CASE \E c \in Passwords : chpasswd_reset(c)
    <2>1. Shapes'
        BY <1>4 DEF chpasswd_reset, Shapes, Contents
    <2>2. Housed'
        BY <1>4 DEF chpasswd_reset, Shapes, Housed
    <2> QED
        BY <2>1, <2>2
<1> QED
    BY <1>1, <1>2, <1>3, <1>4

\* Every step keeps the invariant.
LEMMA KeyringInductive == KeyringInv /\ [KeyringNext]_keyringVars => KeyringInv'
<1> SUFFICES ASSUME KeyringInv, [KeyringNext]_keyringVars PROVE KeyringInv'
    OBVIOUS
<1>1. CASE UNCHANGED keyringVars
    BY <1>1 DEF KeyringInv, Shapes, Housed
<1>2. CASE KeyringNext
    BY <1>2, SignInShapes, ChangeShapes, ToolShapes, WorldShapes, Zenon DEF KeyringNext
<1> QED
    BY <1>1, <1>2

\* For any passwords and however the programs overlap, when a sign-in and a
\* password change are over no private keyring daemon of theirs runs and no
\* private directory remains: every return of the two programs comes after
\* kill, waitpid and remove_runtime.
THEOREM HelpersGone == KeyringSpec => []NoHelperLeft
<1>1. KeyringInv => NoHelperLeft
    BY DEF KeyringInv, Housed, NoHelperLeft
<1> QED
    BY <1>1, KeyringInitially, KeyringInductive, PTL DEF KeyringSpec

-----------------------------------------------------------------------------
(* Stored secrets.                                                         *)

KeptInv == NameFree /\ SecretsKept

\* A later second is another one.
LEMMA LaterSecond == \A s, t \in 0..MaxClock : s > t => s # t
<1>1. MaxClock \in Nat
    BY KeyringConstants
<1> QED
    BY <1>1

\* A step that leaves the files, the time and the tool alone.
LEMMA KeptFrame ==
  ASSUME KeptInv, UNCHANGED <<holds, kept, clock, secrets>>, step'["tool"] = step["tool"]
  PROVE  KeptInv'
BY DEF KeptInv, NameFree, SecretsKept

\* A new keyring takes the place of none.
LEMMA KeptMade ==
  ASSUME KeptInv, ~There, holds' = "empty", UNCHANGED <<kept, clock, secrets>>,
         step'["tool"] = step["tool"] \/ step'["tool"] = "idle"
  PROVE  KeptInv'
BY DEF KeptInv, NameFree, SecretsKept

\* No step of a sign-in loses what was stored.
LEMMA KeptBySignIn ==
  ASSUME KeyringInv, KeptInv, PersonSignsIn \/ FirstStep
  PROVE  KeptInv'
<1> USE DEF KeyringInv, Shapes
<1>1. CASE PersonSignsIn \/ first_look \/ first_make \/ first_wait \/ first_remove
    BY <1>1, KeptFrame, Zenon DEF PersonSignsIn, first_look, first_make, first_wait, first_remove
<1>2. CASE SessionOpens
    <2>1. step'["tool"] = step["tool"]
        BY <1>2, Zenon DEF SessionOpens
    <2> QED
        BY <1>2, <2>1, KeptFrame, KeptMade, Zenon DEF SessionOpens
<1> QED
    BY <1>1, <1>2 DEF FirstStep

\* Nor does one of a password change.
LEMMA KeptByChange ==
  ASSUME KeyringInv, KeptInv, ChangeStep \/ refused \/ \E c, n \in Passwords : password_change(c, n)
  PROVE  KeptInv'
<1> USE DEF KeyringInv, Shapes
<1>1. step'["tool"] = step["tool"]
    BY Zenon DEF ChangeStep, refused, password_change, control_socket, start_daemon, daemon_wait, pam_unix,
           pam_gnome_keyring, clean_up
<1>2. UNCHANGED <<holds, kept, clock, secrets>>
    BY Zenon DEF ChangeStep, refused, password_change, control_socket, start_daemon, daemon_wait, pam_unix,
           pam_gnome_keyring, clean_up
<1> QED
    BY <1>1, <1>2, KeptFrame

\* Nor one of recover or reset: the name it puts the keyring aside under
\* is free.
LEMMA KeptByTool ==
  ASSUME KeyringInv, KeptInv, Hurried = FALSE,
         \/ ToolStep
         \/ \E c, n \in Passwords : sg_keyring("recover", c, n)
         \/ \E c \in Passwords : sg_keyring("reset", c, "")
  PROVE  KeptInv'
<1> USE DEF KeyringInv, Shapes
<1>1. CASE \E c, n \in Passwords : sg_keyring("recover", c, n)
    <2>1. step' = [step EXCEPT !["tool"] = "recover"] /\ UNCHANGED <<holds, kept, clock, secrets>>
        BY <1>1, Zenon DEF sg_keyring
    <2>2. step'["tool"] = "recover"
        BY <2>1, ToolMoves, Zenon
    <2> QED
        BY <2>1, <2>2, Zenon DEF KeptInv, NameFree, SecretsKept
<1>2. CASE \E c \in Passwords : sg_keyring("reset", c, "")
    <2>1. kept[clock] = "nothing" /\ UNCHANGED <<holds, kept, clock, secrets>>
        BY <1>2, Zenon DEF sg_keyring
    <2> QED
        BY <2>1, Zenon DEF KeptInv, NameFree, SecretsKept
<1>3. CASE check
    BY <1>3, Zenon DEF check, KeptInv, NameFree, SecretsKept
<1>4. CASE recover_change \/ recover_unlock \/ reset_settle
    BY <1>4, Zenon DEF recover_change, recover_unlock, reset_settle, KeptInv, NameFree, SecretsKept
<1>5. CASE reset_move
    <2>1. step["tool"] = "move" /\ step'["tool"] \in {"settle", "idle"} /\ UNCHANGED <<clock, secrets>>
        BY <1>5, Zenon DEF reset_move
    <2>2. \/ UNCHANGED <<kept, holds>>
          \/ ~There /\ UNCHANGED kept /\ holds' = "nothing"
          \/ There /\ kept' = [kept EXCEPT ![clock] = holds] /\ holds' = "nothing"
        BY <1>5, Zenon DEF reset_move, Aside
    <2>3. CASE kept' = kept /\ (holds' = holds \/ holds = "nothing")
        BY <2>1, <2>3, Zenon DEF KeptInv, NameFree, SecretsKept
    <2>4. CASE kept' = [kept EXCEPT ![clock] = holds]
        <3>1. clock \in DOMAIN kept /\ DOMAIN kept' = DOMAIN kept /\ kept'[clock] = holds
            BY <2>4, Zenon
        <3>2. \A s \in DOMAIN kept : s # clock => kept'[s] = kept[s]
            BY <2>4, Zenon
        <3>3. kept[clock] = "nothing"
            BY <2>1, Zenon DEF KeptInv, NameFree
        <3>4. NameFree'
            <4>1. \A s \in 0..MaxClock : s > clock => s \in DOMAIN kept /\ s # clock
                BY LaterSecond, Zenon
            <4>2. \A s \in 0..MaxClock : s > clock => kept'[s] = "nothing"
                BY <3>2, <4>1, Zenon DEF KeptInv, NameFree
            <4> QED
                BY <2>1, <4>2, Zenon DEF NameFree
        <3>5. SecretsKept'
            BY <2>1, <3>1, <3>2, <3>3, Zenon DEF KeptInv, SecretsKept
        <3> QED
            BY <3>4, <3>5, Zenon DEF KeptInv
    <2> QED
        BY <2>2, <2>3, <2>4, Zenon
<1>6. CASE reset_create
    <2>1. step'["tool"] = "idle"
        BY <1>6, Zenon DEF reset_create
    <2>2. UNCHANGED <<kept, clock, secrets>> /\ (holds' = holds \/ (~There /\ holds' = "empty"))
        BY <1>6, Zenon DEF reset_create
    <2> QED
        BY <2>1, <2>2, KeptMade, Zenon DEF KeptInv, NameFree, SecretsKept
<1> QED
    BY <1>1, <1>2, <1>3, <1>4, <1>5, <1>6, Zenon DEF ToolStep

\* Nor one of the surroundings'.
LEMMA KeptByWorld ==
  ASSUME KeyringInv, KeptInv,
         \/ PersonSignsOut \/ Stores \/ DaemonSees \/ SecondPasses
         \/ \E p \in Programs2 : HelperRuns(p)
         \/ \E c \in Passwords : chpasswd_reset(c)
  PROVE  KeptInv'
<1> USE DEF KeyringInv, Shapes
<1>1. CASE PersonSignsOut \/ DaemonSees \/ \E c \in Passwords : chpasswd_reset(c)
    BY <1>1, KeptFrame DEF PersonSignsOut, DaemonSees, chpasswd_reset
<1>2. CASE Stores
    BY <1>2 DEF Stores, KeptInv, NameFree, SecretsKept
<1>3. CASE SecondPasses
    <2>1. NameFree'
        BY <1>3, KeyringConstants DEF SecondPasses, KeptInv, NameFree
    <2>2. SecretsKept'
        BY <1>3 DEF SecondPasses, KeptInv, SecretsKept
    <2> QED
        BY <2>1, <2>2 DEF KeptInv
<1>4. CASE \E p \in Programs2 : HelperRuns(p)
    BY <1>4, KeptFrame, KeptMade DEF HelperRuns
<1> QED
    BY <1>1, <1>2, <1>3, <1>4

\* If no two resets fall into one second, secrets once stored are never
\* deleted: whatever sg-keyring reset moves away stays under its own name,
\* and neither a sign-in nor a password change writes over a keyring.
THEOREM SecretsStay ==
  ASSUME Hurried = FALSE
  PROVE  KeyringSpec => []SecretsKept
<1>1. KeyringInit => KeptInv
    BY KeyringConstants, Zenon DEF KeyringInit, KeptInv, NameFree, SecretsKept
<1>2. KeyringInv /\ KeptInv /\ [KeyringNext]_keyringVars => KeptInv'
    <2> SUFFICES ASSUME KeyringInv, KeptInv, [KeyringNext]_keyringVars PROVE KeptInv'
        OBVIOUS
    <2>1. CASE UNCHANGED keyringVars
        BY <2>1, KeptFrame
    <2>2. CASE KeyringNext
        BY <2>2, KeptBySignIn, KeptByChange, KeptByTool, KeptByWorld, Zenon DEF KeyringNext
    <2> QED
        BY <2>1, <2>2
<1>3. KeptInv => SecretsKept
    BY DEF KeptInv
<1> QED
    BY <1>1, <1>2, <1>3, KeyringInitially, KeyringInductive, PTL DEF KeyringSpec

-----------------------------------------------------------------------------
(* The key follows the password.                                           *)

Rings == {"none", "locked", "open", "unlisted", "gone"}

\* The rest of the types: a change in progress has a new password to set.
Worded ==
    /\ password \in Passwords /\ key \in Typed /\ session \in {"out", "in"} /\ ring \in Rings
    /\ typed \in [Jobs -> Typed] /\ other \in [Jobs -> Typed]
    /\ step["change"] # "idle" => other["change"] \in Passwords
    /\ behind \in BOOLEAN /\ overlap \in BOOLEAN /\ secrets \in {"none", "stored"}

\* One program at most is in progress.
Alone == \A j, k \in Jobs : step[j] # "idle" /\ step[k] # "idle" => j = k

\* What a program holds once it was found to be the password is the password:
\* a sign-in's from its start, recover's and reset's from the check on, and
\* the new one of a change between its two modules.
Said ==
    /\ step["signin"] # "idle" => typed["signin"] = password
    /\ step["tool"] \in {"change", "unlock", "move", "settle", "create"} => typed["tool"] = password
    /\ step["change"] = "follow" => other["change"] = password

\* The keyring has the password for its key, and the old one while a change
\* is between pam_unix and pam_gnome_keyring.
InStep ==
    ~behind /\ There => key = (IF step["change"] = "follow" THEN typed["change"] ELSE password)

Follow == ~overlap => Alone /\ Said /\ InStep

\* A first sign-in, from the password typed to the open session, keeps what was typed and what
\* the keyring's key is in their sets.
LEMMA WordedSignIn ==
  ASSUME KeyringInv, Worded,
         PersonSignsIn \/ FirstStep
  PROVE  Worded'
<1>1. CASE PersonSignsIn
    <2>1. (password \in Passwords /\ key \in Typed /\ session \in {"out", "in"} /\ ring \in Rings)'
        BY <1>1, Zenon DEF PersonSignsIn, Worded, Typed, Rings, Shapes, KeyringInv
    <2>2. (typed \in [Jobs -> Typed] /\ other \in [Jobs -> Typed])'
        BY <1>1, Zenon DEF PersonSignsIn, Worded, Typed
    <2>3. (step["change"] # "idle" => other["change"] \in Passwords)'
        BY <1>1, Zenon DEF PersonSignsIn, Worded, Shapes, KeyringInv
    <2>4. (behind \in BOOLEAN /\ overlap \in BOOLEAN /\ secrets \in {"none", "stored"})'
        BY <1>1, Zenon DEF PersonSignsIn, Worded
    <2> QED
        BY <2>1, <2>2, <2>3, <2>4 DEF Worded
<1>2. CASE first_look
    <2>1. (password \in Passwords /\ key \in Typed /\ session \in {"out", "in"} /\ ring \in Rings)'
        BY <1>2, Zenon DEF first_look, Worded, Typed, Rings, Shapes, KeyringInv
    <2>2. (typed \in [Jobs -> Typed] /\ other \in [Jobs -> Typed])'
        BY <1>2, Zenon DEF first_look, Worded, Typed
    <2>3. (step["change"] # "idle" => other["change"] \in Passwords)'
        BY <1>2 DEF first_look, Worded, Shapes, KeyringInv
    <2>4. (behind \in BOOLEAN /\ overlap \in BOOLEAN /\ secrets \in {"none", "stored"})'
        BY <1>2 DEF first_look, Worded
    <2> QED
        BY <2>1, <2>2, <2>3, <2>4 DEF Worded
<1>3. CASE first_make
    <2>1. (password \in Passwords /\ key \in Typed /\ session \in {"out", "in"} /\ ring \in Rings)'
        BY <1>3, Zenon DEF first_make, Worded, Typed, Rings, Shapes, KeyringInv
    <2>2. (typed \in [Jobs -> Typed] /\ other \in [Jobs -> Typed])'
        BY <1>3, Zenon DEF first_make, Worded, Typed
    <2>3. (step["change"] # "idle" => other["change"] \in Passwords)'
        BY <1>3 DEF first_make, Worded, Shapes, KeyringInv
    <2>4. (behind \in BOOLEAN /\ overlap \in BOOLEAN /\ secrets \in {"none", "stored"})'
        BY <1>3 DEF first_make, Worded
    <2> QED
        BY <2>1, <2>2, <2>3, <2>4 DEF Worded
<1>4. CASE first_wait
    <2>1. (password \in Passwords /\ key \in Typed /\ session \in {"out", "in"} /\ ring \in Rings)'
        BY <1>4, Zenon DEF first_wait, Worded, Typed, Rings, Shapes, KeyringInv
    <2>2. (typed \in [Jobs -> Typed] /\ other \in [Jobs -> Typed])'
        BY <1>4, Zenon DEF first_wait, Worded, Typed
    <2>3. (step["change"] # "idle" => other["change"] \in Passwords)'
        BY <1>4 DEF first_wait, Worded, Shapes, KeyringInv
    <2>4. (behind \in BOOLEAN /\ overlap \in BOOLEAN /\ secrets \in {"none", "stored"})'
        BY <1>4 DEF first_wait, Worded
    <2> QED
        BY <2>1, <2>2, <2>3, <2>4 DEF Worded
<1>5. CASE first_remove
    <2>1. (password \in Passwords /\ key \in Typed /\ session \in {"out", "in"} /\ ring \in Rings)'
        BY <1>5, Zenon DEF first_remove, Worded, Typed, Rings, Shapes, KeyringInv
    <2>2. (typed \in [Jobs -> Typed] /\ other \in [Jobs -> Typed])'
        BY <1>5, Zenon DEF first_remove, Worded, Typed
    <2>3. (step["change"] # "idle" => other["change"] \in Passwords)'
        BY <1>5 DEF first_remove, Worded, Shapes, KeyringInv
    <2>4. (behind \in BOOLEAN /\ overlap \in BOOLEAN /\ secrets \in {"none", "stored"})'
        BY <1>5 DEF first_remove, Worded
    <2> QED
        BY <2>1, <2>2, <2>3, <2>4 DEF Worded
<1>6. CASE SessionOpens
    <2>1. (password \in Passwords /\ key \in Typed /\ session \in {"out", "in"} /\ ring \in Rings)'
        BY <1>6, Zenon DEF SessionOpens, Worded, Typed, Rings, Shapes, KeyringInv
    <2>2. (typed \in [Jobs -> Typed] /\ other \in [Jobs -> Typed])'
        BY <1>6, Zenon DEF SessionOpens, Worded, Typed
    <2>3. (step["change"] # "idle" => other["change"] \in Passwords)'
        BY <1>6, Zenon DEF SessionOpens, Worded, Shapes, KeyringInv
    <2>4. (behind \in BOOLEAN /\ overlap \in BOOLEAN /\ secrets \in {"none", "stored"})'
        BY <1>6, Zenon DEF SessionOpens, Worded
    <2> QED
        BY <2>1, <2>2, <2>3, <2>4 DEF Worded
<1> QED
    BY <1>1, <1>2, <1>3, <1>4, <1>5, <1>6 DEF FirstStep

\* A password change keeps what was typed and what
\* the keyring's key is in their sets.
LEMMA WordedChange ==
  ASSUME KeyringInv, Worded,
         ChangeStep \/ refused \/ \E c, n \in Passwords : password_change(c, n)
  PROVE  Worded'
<1>1. CASE refused
    <2>1. (password \in Passwords /\ key \in Typed /\ session \in {"out", "in"} /\ ring \in Rings)'
        BY <1>1, Zenon DEF refused, Worded, Typed, Rings, Shapes, KeyringInv
    <2>2. (typed \in [Jobs -> Typed] /\ other \in [Jobs -> Typed])'
        BY <1>1, Zenon DEF refused, Worded, Typed
    <2>3. (step["change"] # "idle" => other["change"] \in Passwords)'
        BY <1>1, Zenon DEF refused, Worded, Shapes, KeyringInv
    <2>4. (behind \in BOOLEAN /\ overlap \in BOOLEAN /\ secrets \in {"none", "stored"})'
        BY <1>1, Zenon DEF refused, Worded
    <2> QED
        BY <2>1, <2>2, <2>3, <2>4 DEF Worded
<1>2. CASE \E c, n \in Passwords : password_change(c, n)
    <2>1. (password \in Passwords /\ key \in Typed /\ session \in {"out", "in"} /\ ring \in Rings)'
        BY <1>2, Zenon DEF password_change, Worded, Typed, Rings, Shapes, KeyringInv
    <2>2. (typed \in [Jobs -> Typed] /\ other \in [Jobs -> Typed])'
        <3>1. PICK c, n \in Passwords : typed' = [typed EXCEPT !["change"] = c] /\ other' = [other EXCEPT !["change"] = n]
            BY <1>2, Zenon DEF password_change
        <3>2. c \in Typed /\ n \in Typed
            BY Zenon DEF Typed
        <3> QED
            BY <3>1, <3>2 DEF Worded
    <2>3. (step["change"] # "idle" => other["change"] \in Passwords)'
        BY <1>2 DEF password_change, Worded, Shapes, KeyringInv
    <2>4. (behind \in BOOLEAN /\ overlap \in BOOLEAN /\ secrets \in {"none", "stored"})'
        BY <1>2 DEF password_change, Worded
    <2> QED
        BY <2>1, <2>2, <2>3, <2>4 DEF Worded
<1>3. CASE control_socket
    <2>1. (password \in Passwords /\ key \in Typed /\ session \in {"out", "in"} /\ ring \in Rings)'
        BY <1>3, Zenon DEF control_socket, Worded, Typed, Rings, Shapes, KeyringInv
    <2>2. (typed \in [Jobs -> Typed] /\ other \in [Jobs -> Typed])'
        BY <1>3, Zenon DEF control_socket, Worded, Typed
    <2>3. (step["change"] # "idle" => other["change"] \in Passwords)'
        BY <1>3 DEF control_socket, Worded, Shapes, KeyringInv
    <2>4. (behind \in BOOLEAN /\ overlap \in BOOLEAN /\ secrets \in {"none", "stored"})'
        BY <1>3 DEF control_socket, Worded
    <2> QED
        BY <2>1, <2>2, <2>3, <2>4 DEF Worded
<1>4. CASE start_daemon
    <2>1. (password \in Passwords /\ key \in Typed /\ session \in {"out", "in"} /\ ring \in Rings)'
        BY <1>4, Zenon DEF start_daemon, Worded, Typed, Rings, Shapes, KeyringInv
    <2>2. (typed \in [Jobs -> Typed] /\ other \in [Jobs -> Typed])'
        BY <1>4, Zenon DEF start_daemon, Worded, Typed
    <2>3. (step["change"] # "idle" => other["change"] \in Passwords)'
        BY <1>4 DEF start_daemon, Worded, Shapes, KeyringInv
    <2>4. (behind \in BOOLEAN /\ overlap \in BOOLEAN /\ secrets \in {"none", "stored"})'
        BY <1>4 DEF start_daemon, Worded
    <2> QED
        BY <2>1, <2>2, <2>3, <2>4 DEF Worded
<1>5. CASE daemon_wait
    <2>1. (password \in Passwords /\ key \in Typed /\ session \in {"out", "in"} /\ ring \in Rings)'
        BY <1>5, Zenon DEF daemon_wait, Worded, Typed, Rings, Shapes, KeyringInv
    <2>2. (typed \in [Jobs -> Typed] /\ other \in [Jobs -> Typed])'
        BY <1>5, Zenon DEF daemon_wait, Worded, Typed
    <2>3. (step["change"] # "idle" => other["change"] \in Passwords)'
        BY <1>5 DEF daemon_wait, Worded, Shapes, KeyringInv
    <2>4. (behind \in BOOLEAN /\ overlap \in BOOLEAN /\ secrets \in {"none", "stored"})'
        BY <1>5 DEF daemon_wait, Worded
    <2> QED
        BY <2>1, <2>2, <2>3, <2>4 DEF Worded
<1>6. CASE pam_unix
    <2>1. (password \in Passwords /\ key \in Typed /\ session \in {"out", "in"} /\ ring \in Rings)'
        BY <1>6, Zenon DEF pam_unix, Worded, Typed, Rings, Shapes, KeyringInv
    <2>2. (typed \in [Jobs -> Typed] /\ other \in [Jobs -> Typed])'
        BY <1>6, Zenon DEF pam_unix, Worded, Typed
    <2>3. (step["change"] # "idle" => other["change"] \in Passwords)'
        BY <1>6 DEF pam_unix, Worded, Shapes, KeyringInv
    <2>4. (behind \in BOOLEAN /\ overlap \in BOOLEAN /\ secrets \in {"none", "stored"})'
        BY <1>6 DEF pam_unix, Worded
    <2> QED
        BY <2>1, <2>2, <2>3, <2>4 DEF Worded
<1>7. CASE pam_gnome_keyring
    <2>1. (password \in Passwords /\ key \in Typed /\ session \in {"out", "in"} /\ ring \in Rings)'
        BY <1>7, Zenon DEF pam_gnome_keyring, Reached, Worded, Typed, Rings, Shapes, KeyringInv
    <2>2. (typed \in [Jobs -> Typed] /\ other \in [Jobs -> Typed])'
        BY <1>7, Zenon DEF pam_gnome_keyring, Reached, Worded, Typed
    <2>3. (step["change"] # "idle" => other["change"] \in Passwords)'
        BY <1>7 DEF pam_gnome_keyring, Reached, Worded, Shapes, KeyringInv
    <2>4. (behind \in BOOLEAN /\ overlap \in BOOLEAN /\ secrets \in {"none", "stored"})'
        BY <1>7 DEF pam_gnome_keyring, Reached, Worded
    <2> QED
        BY <2>1, <2>2, <2>3, <2>4 DEF Worded
<1>8. CASE clean_up
    <2>1. (password \in Passwords /\ key \in Typed /\ session \in {"out", "in"} /\ ring \in Rings)'
        BY <1>8, Zenon DEF clean_up, Worded, Typed, Rings, Shapes, KeyringInv
    <2>2. (typed \in [Jobs -> Typed] /\ other \in [Jobs -> Typed])'
        BY <1>8, Zenon DEF clean_up, Worded, Typed
    <2>3. (step["change"] # "idle" => other["change"] \in Passwords)'
        BY <1>8, Zenon DEF clean_up, Worded, Shapes, KeyringInv
    <2>4. (behind \in BOOLEAN /\ overlap \in BOOLEAN /\ secrets \in {"none", "stored"})'
        BY <1>8, Zenon DEF clean_up, Worded
    <2> QED
        BY <2>1, <2>2, <2>3, <2>4 DEF Worded
<1> QED
    BY <1>1, <1>2, <1>3, <1>4, <1>5, <1>6, <1>7, <1>8 DEF ChangeStep

\* What was typed stays so, or is wiped when recover or reset ends.
LEMMA TypedStays ==
  ASSUME Worded, typed' \in {typed, [typed EXCEPT !["tool"] = ""]}, other' \in {other, [other EXCEPT !["tool"] = ""]}
  PROVE  (typed \in [Jobs -> Typed] /\ other \in [Jobs -> Typed])'
<1>1. typed \in [Jobs -> Typed] /\ other \in [Jobs -> Typed] /\ "" \in Typed
    BY Zenon DEF Worded, Typed
<1> HIDE DEF Jobs
<1> QED
    BY <1>1, Zenon

\* Recover and reset keeps what was typed and what
\* the keyring's key is in their sets.
LEMMA WordedTool ==
  ASSUME KeyringInv, Worded,
         \/ ToolStep
         \/ \E c, n \in Passwords : sg_keyring("recover", c, n)
         \/ \E c \in Passwords : sg_keyring("reset", c, "")
  PROVE  Worded'
<1>1. CASE (\E c, n \in Passwords : sg_keyring("recover", c, n)) \/ \E c \in Passwords : sg_keyring("reset", c, "")
    <2>1. (password \in Passwords /\ key \in Typed /\ session \in {"out", "in"} /\ ring \in Rings)'
        BY <1>1, Zenon DEF sg_keyring, Worded, Typed, Rings, Shapes, KeyringInv
    <2>2. (typed \in [Jobs -> Typed] /\ other \in [Jobs -> Typed])'
        <3>1. PICK c \in Passwords, n \in Passwords \cup {""} :
                  typed' = [typed EXCEPT !["tool"] = c] /\ other' = [other EXCEPT !["tool"] = n]
            BY <1>1, Zenon DEF sg_keyring
        <3>2. c \in Typed /\ n \in Typed
            BY Zenon DEF Typed
        <3> QED
            BY <3>1, <3>2, Zenon DEF Worded
    <2>3. (step["change"] # "idle" => other["change"] \in Passwords)'
        BY <1>1, Zenon DEF sg_keyring, Worded, Shapes, KeyringInv
    <2>4. (behind \in BOOLEAN /\ overlap \in BOOLEAN /\ secrets \in {"none", "stored"})'
        BY <1>1, Zenon DEF sg_keyring, Worded
    <2> QED
        BY <2>1, <2>2, <2>3, <2>4, Zenon DEF Worded
<1>2. CASE check
    <2>1. (password \in Passwords /\ key \in Typed /\ session \in {"out", "in"} /\ ring \in Rings)'
        BY <1>2, Zenon DEF check, password_is_current, Worded, Typed, Rings, Shapes, KeyringInv
    <2>2. (typed \in [Jobs -> Typed] /\ other \in [Jobs -> Typed])'
        BY <1>2, TypedStays, Zenon DEF check
    <2>3. (step["change"] # "idle" => other["change"] \in Passwords)'
        BY <1>2, Zenon DEF check, password_is_current, Worded, Shapes, KeyringInv
    <2>4. (behind \in BOOLEAN /\ overlap \in BOOLEAN /\ secrets \in {"none", "stored"})'
        BY <1>2, Zenon DEF check, password_is_current, Worded
    <2> QED
        BY <2>1, <2>2, <2>3, <2>4, Zenon DEF Worded
<1>3. CASE recover_change
    <2>1. (password \in Passwords /\ key \in Typed /\ session \in {"out", "in"} /\ ring \in Rings)'
        BY <1>3, Zenon DEF recover_change, Worded, Typed, Rings, Shapes, KeyringInv
    <2>2. (typed \in [Jobs -> Typed] /\ other \in [Jobs -> Typed])'
        BY <1>3, TypedStays, Zenon DEF recover_change
    <2>3. (step["change"] # "idle" => other["change"] \in Passwords)'
        BY <1>3, Zenon DEF recover_change, Worded, Shapes, KeyringInv
    <2>4. (behind \in BOOLEAN /\ overlap \in BOOLEAN /\ secrets \in {"none", "stored"})'
        BY <1>3, Zenon DEF recover_change, Worded
    <2> QED
        BY <2>1, <2>2, <2>3, <2>4, Zenon DEF Worded
<1>4. CASE recover_unlock
    <2>1. (password \in Passwords /\ key \in Typed /\ session \in {"out", "in"} /\ ring \in Rings)'
        BY <1>4, Zenon DEF recover_unlock, Worded, Typed, Rings, Shapes, KeyringInv
    <2>2. (typed \in [Jobs -> Typed] /\ other \in [Jobs -> Typed])'
        BY <1>4, Zenon DEF recover_unlock, Worded, Typed
    <2>3. (step["change"] # "idle" => other["change"] \in Passwords)'
        BY <1>4, Zenon DEF recover_unlock, Worded, Shapes, KeyringInv
    <2>4. (behind \in BOOLEAN /\ overlap \in BOOLEAN /\ secrets \in {"none", "stored"})'
        BY <1>4, Zenon DEF recover_unlock, Worded
    <2> QED
        BY <2>1, <2>2, <2>3, <2>4, Zenon DEF Worded
<1>5. CASE reset_move
    <2>1. (password \in Passwords /\ key \in Typed /\ session \in {"out", "in"} /\ ring \in Rings)'
        BY <1>5, Zenon DEF reset_move, Aside, Worded, Typed, Rings, Shapes, KeyringInv
    <2>2. (typed \in [Jobs -> Typed] /\ other \in [Jobs -> Typed])'
        BY <1>5, TypedStays, Zenon DEF reset_move
    <2>3. (step["change"] # "idle" => other["change"] \in Passwords)'
        BY <1>5, Zenon DEF reset_move, Aside, Worded, Shapes, KeyringInv
    <2>4. (behind \in BOOLEAN /\ overlap \in BOOLEAN /\ secrets \in {"none", "stored"})'
        BY <1>5, Zenon DEF reset_move, Aside, Worded
    <2> QED
        BY <2>1, <2>2, <2>3, <2>4, Zenon DEF Worded
<1>6. CASE reset_settle
    <2>1. (password \in Passwords /\ key \in Typed /\ session \in {"out", "in"} /\ ring \in Rings)'
        BY <1>6, Zenon DEF reset_settle, Worded, Typed, Rings, Shapes, KeyringInv
    <2>2. (typed \in [Jobs -> Typed] /\ other \in [Jobs -> Typed])'
        BY <1>6, Zenon DEF reset_settle, Worded, Typed
    <2>3. (step["change"] # "idle" => other["change"] \in Passwords)'
        BY <1>6, Zenon DEF reset_settle, Worded, Shapes, KeyringInv
    <2>4. (behind \in BOOLEAN /\ overlap \in BOOLEAN /\ secrets \in {"none", "stored"})'
        BY <1>6, Zenon DEF reset_settle, Worded
    <2> QED
        BY <2>1, <2>2, <2>3, <2>4, Zenon DEF Worded
<1>7. CASE reset_create
    <2>1. (password \in Passwords /\ key \in Typed /\ session \in {"out", "in"} /\ ring \in Rings)'
        BY <1>7, Zenon DEF reset_create, Worded, Typed, Rings, Shapes, KeyringInv
    <2>2. (typed \in [Jobs -> Typed] /\ other \in [Jobs -> Typed])'
        BY <1>7, Zenon DEF reset_create, Worded, Typed
    <2>3. (step["change"] # "idle" => other["change"] \in Passwords)'
        BY <1>7, Zenon DEF reset_create, Worded, Shapes, KeyringInv
    <2>4. (behind \in BOOLEAN /\ overlap \in BOOLEAN /\ secrets \in {"none", "stored"})'
        BY <1>7, Zenon DEF reset_create, Worded
    <2> QED
        BY <2>1, <2>2, <2>3, <2>4, Zenon DEF Worded
<1> QED
    BY <1>1, <1>2, <1>3, <1>4, <1>5, <1>6, <1>7, Zenon DEF ToolStep

\* What happens around the programs keeps what was typed and what
\* the keyring's key is in their sets.
LEMMA WordedWorld ==
  ASSUME KeyringInv, Worded,
         \/ PersonSignsOut \/ Stores \/ DaemonSees \/ SecondPasses
         \/ \E c \in Passwords : chpasswd_reset(c)
         \/ \E p \in Programs2 : HelperRuns(p)
         \/ UNCHANGED keyringVars
  PROVE  Worded'
<1>1. CASE PersonSignsOut
    <2>1. (password \in Passwords /\ key \in Typed /\ session \in {"out", "in"} /\ ring \in Rings)'
        BY <1>1, Zenon DEF PersonSignsOut, Worded, Typed, Rings, Shapes, KeyringInv
    <2>2. (typed \in [Jobs -> Typed] /\ other \in [Jobs -> Typed])'
        BY <1>1, Zenon DEF PersonSignsOut, Worded, Typed
    <2>3. (step["change"] # "idle" => other["change"] \in Passwords)'
        BY <1>1 DEF PersonSignsOut, Worded, Shapes, KeyringInv
    <2>4. (behind \in BOOLEAN /\ overlap \in BOOLEAN /\ secrets \in {"none", "stored"})'
        BY <1>1 DEF PersonSignsOut, Worded
    <2> QED
        BY <2>1, <2>2, <2>3, <2>4 DEF Worded
<1>2. CASE Stores
    <2>1. (password \in Passwords /\ key \in Typed /\ session \in {"out", "in"} /\ ring \in Rings)'
        BY <1>2, Zenon DEF Stores, Worded, Typed, Rings, Shapes, KeyringInv
    <2>2. (typed \in [Jobs -> Typed] /\ other \in [Jobs -> Typed])'
        BY <1>2, Zenon DEF Stores, Worded, Typed
    <2>3. (step["change"] # "idle" => other["change"] \in Passwords)'
        BY <1>2 DEF Stores, Worded, Shapes, KeyringInv
    <2>4. (behind \in BOOLEAN /\ overlap \in BOOLEAN /\ secrets \in {"none", "stored"})'
        BY <1>2 DEF Stores, Worded
    <2> QED
        BY <2>1, <2>2, <2>3, <2>4 DEF Worded
<1>3. CASE DaemonSees
    <2>1. (password \in Passwords /\ key \in Typed /\ session \in {"out", "in"} /\ ring \in Rings)'
        BY <1>3, Zenon DEF DaemonSees, Worded, Typed, Rings, Shapes, KeyringInv
    <2>2. (typed \in [Jobs -> Typed] /\ other \in [Jobs -> Typed])'
        BY <1>3, Zenon DEF DaemonSees, Worded, Typed
    <2>3. (step["change"] # "idle" => other["change"] \in Passwords)'
        BY <1>3 DEF DaemonSees, Worded, Shapes, KeyringInv
    <2>4. (behind \in BOOLEAN /\ overlap \in BOOLEAN /\ secrets \in {"none", "stored"})'
        BY <1>3 DEF DaemonSees, Worded
    <2> QED
        BY <2>1, <2>2, <2>3, <2>4 DEF Worded
<1>4. CASE SecondPasses
    <2>1. (password \in Passwords /\ key \in Typed /\ session \in {"out", "in"} /\ ring \in Rings)'
        BY <1>4, Zenon DEF SecondPasses, Worded, Typed, Rings, Shapes, KeyringInv
    <2>2. (typed \in [Jobs -> Typed] /\ other \in [Jobs -> Typed])'
        BY <1>4, Zenon DEF SecondPasses, Worded, Typed
    <2>3. (step["change"] # "idle" => other["change"] \in Passwords)'
        BY <1>4 DEF SecondPasses, Worded, Shapes, KeyringInv
    <2>4. (behind \in BOOLEAN /\ overlap \in BOOLEAN /\ secrets \in {"none", "stored"})'
        BY <1>4 DEF SecondPasses, Worded
    <2> QED
        BY <2>1, <2>2, <2>3, <2>4 DEF Worded
<1>5. CASE \E c \in Passwords : chpasswd_reset(c)
    <2>1. (password \in Passwords /\ key \in Typed /\ session \in {"out", "in"} /\ ring \in Rings)'
        BY <1>5, Zenon DEF chpasswd_reset, Worded, Typed, Rings, Shapes, KeyringInv
    <2>2. (typed \in [Jobs -> Typed] /\ other \in [Jobs -> Typed])'
        BY <1>5, Zenon DEF chpasswd_reset, Worded, Typed
    <2>3. (step["change"] # "idle" => other["change"] \in Passwords)'
        BY <1>5 DEF chpasswd_reset, Worded, Shapes, KeyringInv
    <2>4. (behind \in BOOLEAN /\ overlap \in BOOLEAN /\ secrets \in {"none", "stored"})'
        BY <1>5 DEF chpasswd_reset, Worded
    <2> QED
        BY <2>1, <2>2, <2>3, <2>4 DEF Worded
<1>6. CASE \E p \in Programs2 : HelperRuns(p)
    <2>1. (password \in Passwords /\ key \in Typed /\ session \in {"out", "in"} /\ ring \in Rings)'
        <3>1. typed["signin"] \in Typed
            BY Zenon DEF Worded
        <3>2. key' \in {key, typed["signin"]} /\ UNCHANGED <<password, session, ring>>
            BY <1>6, Zenon DEF HelperRuns
        <3> QED
            BY <3>1, <3>2, Zenon DEF Worded
    <2>2. (typed \in [Jobs -> Typed] /\ other \in [Jobs -> Typed])'
        BY <1>6, Zenon DEF HelperRuns, Worded, Typed
    <2>3. (step["change"] # "idle" => other["change"] \in Passwords)'
        BY <1>6 DEF HelperRuns, Worded, Shapes, KeyringInv
    <2>4. (behind \in BOOLEAN /\ overlap \in BOOLEAN /\ secrets \in {"none", "stored"})'
        BY <1>6 DEF HelperRuns, Worded
    <2> QED
        BY <2>1, <2>2, <2>3, <2>4 DEF Worded
<1>7. CASE UNCHANGED keyringVars
    <2>1. (password \in Passwords /\ key \in Typed /\ session \in {"out", "in"} /\ ring \in Rings)'
        BY <1>7, Zenon DEF Worded, Typed, Rings, Shapes, KeyringInv
    <2>2. (typed \in [Jobs -> Typed] /\ other \in [Jobs -> Typed])'
        BY <1>7, Zenon DEF Worded, Typed
    <2>3. (step["change"] # "idle" => other["change"] \in Passwords)'
        BY <1>7 DEF Worded, Shapes, KeyringInv
    <2>4. (behind \in BOOLEAN /\ overlap \in BOOLEAN /\ secrets \in {"none", "stored"})'
        BY <1>7 DEF Worded
    <2> QED
        BY <2>1, <2>2, <2>3, <2>4 DEF Worded
<1> QED
    BY <1>1, <1>2, <1>3, <1>4, <1>5, <1>6, <1>7

\* A first sign-in, from the password typed to the open session, keeps the key in step with the password.
LEMMA FollowSignIn ==
  ASSUME KeyringInv, Worded, Follow,
         PersonSignsIn \/ FirstStep
  PROVE  Follow'
<1> SUFFICES ASSUME ~overlap' PROVE Alone' /\ Said' /\ InStep'
    BY DEF Follow
<1>1. CASE PersonSignsIn
    <2>1. ~overlap /\ Alone /\ Said /\ InStep /\ InProgress = {}
        BY <1>1, Zenon DEF PersonSignsIn, Follow
    <2>2. Alone'
        BY <1>1, <2>1, Zenon DEF PersonSignsIn, Alone, Shapes, KeyringInv, InProgress
    <2>3. Said'
        BY <1>1, <2>1, Zenon DEF PersonSignsIn, Alone, Said, Worded, Shapes, KeyringInv, InProgress
    <2>4. InStep'
        BY <1>1, <2>1, Zenon DEF PersonSignsIn, Alone, Said, InStep, Worded, Shapes, KeyringInv, InProgress
    <2> QED
        BY <2>2, <2>3, <2>4
<1>2. CASE first_look
    <2>1. ~overlap /\ Alone /\ Said /\ InStep
        BY <1>2 DEF first_look, Follow
    <2>2. Alone'
        BY <1>2, <2>1 DEF first_look, Alone, Shapes, KeyringInv
    <2>3. Said'
        BY <1>2, <2>1 DEF first_look, Alone, Said, Worded, Shapes, KeyringInv
    <2>4. InStep'
        BY <1>2, <2>1 DEF first_look, Alone, Said, InStep, Worded, Shapes, KeyringInv
    <2> QED
        BY <2>2, <2>3, <2>4
<1>3. CASE first_make
    <2>1. ~overlap /\ Alone /\ Said /\ InStep
        BY <1>3 DEF first_make, Follow
    <2>2. Alone'
        BY <1>3, <2>1 DEF first_make, Alone, Shapes, KeyringInv
    <2>3. Said'
        BY <1>3, <2>1 DEF first_make, Alone, Said, Worded, Shapes, KeyringInv
    <2>4. InStep'
        BY <1>3, <2>1 DEF first_make, Alone, Said, InStep, Worded, Shapes, KeyringInv
    <2> QED
        BY <2>2, <2>3, <2>4
<1>4. CASE first_wait
    <2>1. ~overlap /\ Alone /\ Said /\ InStep
        BY <1>4 DEF first_wait, Follow
    <2>2. Alone'
        BY <1>4, <2>1 DEF first_wait, Alone, Shapes, KeyringInv
    <2>3. Said'
        BY <1>4, <2>1 DEF first_wait, Alone, Said, Worded, Shapes, KeyringInv
    <2>4. InStep'
        BY <1>4, <2>1 DEF first_wait, Alone, Said, InStep, Worded, Shapes, KeyringInv
    <2> QED
        BY <2>2, <2>3, <2>4
<1>5. CASE first_remove
    <2>1. ~overlap /\ Alone /\ Said /\ InStep
        BY <1>5 DEF first_remove, Follow
    <2>2. Alone'
        BY <1>5, <2>1 DEF first_remove, Alone, Shapes, KeyringInv
    <2>3. Said'
        BY <1>5, <2>1 DEF first_remove, Alone, Said, Worded, Shapes, KeyringInv
    <2>4. InStep'
        BY <1>5, <2>1 DEF first_remove, Alone, Said, InStep, Worded, Shapes, KeyringInv
    <2> QED
        BY <2>2, <2>3, <2>4
<1>6. CASE SessionOpens
    <2>1. ~overlap /\ Alone /\ Said /\ InStep
        BY <1>6, Zenon DEF SessionOpens, Follow
    <2>2. Alone'
        BY <1>6, <2>1, Zenon DEF SessionOpens, Alone, Shapes, KeyringInv
    <2>3. Said'
        BY <1>6, <2>1, Zenon DEF SessionOpens, Alone, Said, Worded, Shapes, KeyringInv
    <2>4. InStep'
        BY <1>6, <2>1, Zenon DEF SessionOpens, Alone, Said, InStep, Worded, Shapes, KeyringInv
    <2> QED
        BY <2>2, <2>3, <2>4
<1> QED
    BY <1>1, <1>2, <1>3, <1>4, <1>5, <1>6 DEF FirstStep

\* A password change keeps the key in step with the password.
LEMMA FollowChange ==
  ASSUME KeyringInv, Worded, Follow,
         ChangeStep \/ refused \/ \E c, n \in Passwords : password_change(c, n)
  PROVE  Follow'
<1> SUFFICES ASSUME ~overlap' PROVE Alone' /\ Said' /\ InStep'
    BY DEF Follow
<1>1. CASE refused
    <2>1. ~overlap /\ Alone /\ Said /\ InStep
        BY <1>1, Zenon DEF refused, Follow
    <2>2. Alone'
        BY <1>1, <2>1, Zenon DEF refused, Alone, Shapes, KeyringInv
    <2>3. Said'
        BY <1>1, <2>1, Zenon DEF refused, Alone, Said, Worded, Shapes, KeyringInv
    <2>4. InStep'
        BY <1>1, <2>1, Zenon DEF refused, Alone, Said, InStep, Worded, Shapes, KeyringInv
    <2> QED
        BY <2>2, <2>3, <2>4
<1>2. CASE \E c, n \in Passwords : password_change(c, n)
    <2>1. ~overlap /\ Alone /\ Said /\ InStep /\ InProgress = {}
        BY <1>2, Zenon DEF password_change, Follow
    <2>2. Alone'
        BY <1>2, <2>1 DEF password_change, Alone, Shapes, KeyringInv, InProgress
    <2>3. Said'
        BY <1>2, <2>1 DEF password_change, Alone, Said, Worded, Shapes, KeyringInv, InProgress
    <2>4. InStep'
        BY <1>2, <2>1 DEF password_change, Alone, Said, InStep, Worded, Shapes, KeyringInv, InProgress
    <2> QED
        BY <2>2, <2>3, <2>4
<1>3. CASE control_socket
    <2>1. ~overlap /\ Alone /\ Said /\ InStep
        BY <1>3 DEF control_socket, Follow
    <2>2. Alone'
        BY <1>3, <2>1 DEF control_socket, Alone, Shapes, KeyringInv
    <2>3. Said'
        BY <1>3, <2>1 DEF control_socket, Alone, Said, Worded, Shapes, KeyringInv
    <2>4. InStep'
        BY <1>3, <2>1 DEF control_socket, Alone, Said, InStep, Worded, Shapes, KeyringInv
    <2> QED
        BY <2>2, <2>3, <2>4
<1>4. CASE start_daemon
    <2>1. ~overlap /\ Alone /\ Said /\ InStep
        BY <1>4 DEF start_daemon, Follow
    <2>2. Alone'
        BY <1>4, <2>1 DEF start_daemon, Alone, Shapes, KeyringInv
    <2>3. Said'
        BY <1>4, <2>1 DEF start_daemon, Alone, Said, Worded, Shapes, KeyringInv
    <2>4. InStep'
        BY <1>4, <2>1 DEF start_daemon, Alone, Said, InStep, Worded, Shapes, KeyringInv
    <2> QED
        BY <2>2, <2>3, <2>4
<1>5. CASE daemon_wait
    <2>1. ~overlap /\ Alone /\ Said /\ InStep
        BY <1>5 DEF daemon_wait, Follow
    <2>2. Alone'
        BY <1>5, <2>1 DEF daemon_wait, Alone, Shapes, KeyringInv
    <2>3. Said'
        BY <1>5, <2>1 DEF daemon_wait, Alone, Said, Worded, Shapes, KeyringInv
    <2>4. InStep'
        BY <1>5, <2>1 DEF daemon_wait, Alone, Said, InStep, Worded, Shapes, KeyringInv
    <2> QED
        BY <2>2, <2>3, <2>4
<1>6. CASE pam_unix
    <2>1. ~overlap /\ Alone /\ Said /\ InStep
        BY <1>6 DEF pam_unix, Follow
    <2>2. Alone'
        BY <1>6, <2>1 DEF pam_unix, Alone, Shapes, KeyringInv
    <2>3. Said'
        BY <1>6, <2>1 DEF pam_unix, Alone, Said, Worded, Shapes, KeyringInv
    <2>4. InStep'
        BY <1>6, <2>1 DEF pam_unix, Alone, Said, InStep, Worded, Shapes, KeyringInv
    <2> QED
        BY <2>2, <2>3, <2>4
<1>7. CASE pam_gnome_keyring
    <2>1. ~overlap /\ Alone /\ Said /\ InStep
        BY <1>7 DEF pam_gnome_keyring, Reached, Follow
    <2>2. Alone'
        BY <1>7, <2>1 DEF pam_gnome_keyring, Reached, Alone, Shapes, KeyringInv
    <2>3. Said'
        BY <1>7, <2>1 DEF pam_gnome_keyring, Reached, Alone, Said, Worded, Shapes, KeyringInv
    <2>4. InStep'
        BY <1>7, <2>1, Zenon DEF pam_gnome_keyring, Reached, Alone, Said, InStep, Worded, Shapes, KeyringInv
    <2> QED
        BY <2>2, <2>3, <2>4
<1>8. CASE clean_up
    <2>1. ~overlap /\ Alone /\ Said /\ InStep
        BY <1>8, Zenon DEF clean_up, Follow
    <2>2. Alone'
        BY <1>8, <2>1, Zenon DEF clean_up, Alone, Shapes, KeyringInv
    <2>3. Said'
        BY <1>8, <2>1, Zenon DEF clean_up, Alone, Said, Worded, Shapes, KeyringInv
    <2>4. InStep'
        BY <1>8, <2>1, Zenon DEF clean_up, Alone, Said, InStep, Worded, Shapes, KeyringInv
    <2> QED
        BY <2>2, <2>3, <2>4
<1> QED
    BY <1>1, <1>2, <1>3, <1>4, <1>5, <1>6, <1>7, <1>8 DEF ChangeStep

\* Recover and reset keeps the key in step with the password.
LEMMA FollowTool ==
  ASSUME KeyringInv, Worded, Follow,
         \/ ToolStep
         \/ \E c, n \in Passwords : sg_keyring("recover", c, n)
         \/ \E c \in Passwords : sg_keyring("reset", c, "")
  PROVE  Follow'
<1> SUFFICES ASSUME ~overlap' PROVE Alone' /\ Said' /\ InStep'
    BY Zenon DEF Follow
<1>1. CASE (\E c, n \in Passwords : sg_keyring("recover", c, n)) \/ \E c \in Passwords : sg_keyring("reset", c, "")
    <2>1. ~overlap /\ Alone /\ Said /\ InStep /\ InProgress = {}
        BY <1>1, Zenon DEF sg_keyring, Follow
    <2>0. PICK w \in {"recover", "reset"} : step' = [step EXCEPT !["tool"] = w]
        BY <1>1, Zenon DEF sg_keyring
    <2>a. /\ step'["signin"] = step["signin"] /\ step'["change"] = step["change"]
          /\ step'["tool"] \in {"recover", "reset"}
        BY <2>0, ToolMoves, Zenon DEF KeyringInv
    <2>2. Alone'
        <3>1. step["signin"] = "idle" /\ step["change"] = "idle"
            BY <2>1, Zenon DEF InProgress
        <3>2. step'["signin"] = "idle" /\ step'["change"] = "idle"
            BY <2>a, <3>1, Zenon
        <3>3. ASSUME NEW j \in Jobs, step'[j] # "idle" PROVE j = "tool"
            BY <3>2, <3>3, Zenon
        <3> QED
            BY <3>3, Zenon DEF Alone
    <2>3. Said'
        <3>1. step["signin"] = "idle" /\ step["change"] = "idle"
            BY <2>1, Zenon DEF InProgress
        <3> QED
            BY <2>a, <3>1, Zenon DEF Said
    <2>4. InStep'
        <3>1. step["change"] = "idle" /\ UNCHANGED <<password, key, holds, behind>>
            BY <1>1, <2>1, Zenon DEF sg_keyring, InProgress
        <3> QED
            BY <2>a, <2>1, <3>1, Zenon DEF InStep
    <2> QED
        BY <2>2, <2>3, <2>4, Zenon
<1>2. CASE check
    <2>1. ~overlap /\ Alone /\ Said /\ InStep
        BY <1>2, Zenon DEF check, password_is_current, Follow
    <2>2. Alone'
        BY <1>2, <2>1, Zenon DEF check, password_is_current, Alone, Shapes, KeyringInv
    <2>3. Said'
        BY <1>2, <2>1, Zenon DEF check, password_is_current, Alone, Said, Worded, Shapes, KeyringInv
    <2>4. InStep'
        BY <1>2, <2>1, Zenon DEF check, password_is_current, Alone, Said, InStep, Worded, Shapes, KeyringInv
    <2> QED
        BY <2>2, <2>3, <2>4, Zenon
<1>3. CASE recover_change
    <2>1. ~overlap /\ Alone /\ Said /\ InStep
        BY <1>3, Zenon DEF recover_change, Follow
    <2>2. Alone'
        BY <1>3, <2>1, Zenon DEF recover_change, Alone, Shapes, KeyringInv
    <2>3. Said'
        BY <1>3, <2>1, Zenon DEF recover_change, Alone, Said, Worded, Shapes, KeyringInv
    <2>4. InStep'
        BY <1>3, <2>1, Zenon DEF recover_change, Alone, Said, InStep, Worded, Shapes, KeyringInv
    <2> QED
        BY <2>2, <2>3, <2>4, Zenon
<1>4. CASE recover_unlock
    <2>1. ~overlap /\ Alone /\ Said /\ InStep
        BY <1>4, Zenon DEF recover_unlock, Follow
    <2>2. Alone'
        BY <1>4, <2>1, Zenon DEF recover_unlock, Alone, Shapes, KeyringInv
    <2>3. Said'
        BY <1>4, <2>1, Zenon DEF recover_unlock, Alone, Said, Worded, Shapes, KeyringInv
    <2>4. InStep'
        BY <1>4, <2>1, Zenon DEF recover_unlock, Alone, Said, InStep, Worded, Shapes, KeyringInv
    <2> QED
        BY <2>2, <2>3, <2>4, Zenon
<1>5. CASE reset_move
    <2>1. ~overlap /\ Alone /\ Said /\ InStep
        BY <1>5, Zenon DEF reset_move, Aside, Follow
    <2>2. Alone'
        BY <1>5, <2>1, Zenon DEF reset_move, Aside, Alone, Shapes, KeyringInv
    <2>3. Said'
        BY <1>5, <2>1, Zenon DEF reset_move, Aside, Alone, Said, Worded, Shapes, KeyringInv
    <2>4. InStep'
        BY <1>5, <2>1, Zenon DEF reset_move, Aside, Alone, Said, InStep, Worded, Shapes, KeyringInv
    <2> QED
        BY <2>2, <2>3, <2>4, Zenon
<1>6. CASE reset_settle
    <2>1. ~overlap /\ Alone /\ Said /\ InStep
        BY <1>6, Zenon DEF reset_settle, Follow
    <2>2. Alone'
        BY <1>6, <2>1, Zenon DEF reset_settle, Alone, Shapes, KeyringInv
    <2>3. Said'
        BY <1>6, <2>1, Zenon DEF reset_settle, Alone, Said, Worded, Shapes, KeyringInv
    <2>4. InStep'
        BY <1>6, <2>1, Zenon DEF reset_settle, Alone, Said, InStep, Worded, Shapes, KeyringInv
    <2> QED
        BY <2>2, <2>3, <2>4, Zenon
<1>7. CASE reset_create
    <2>1. ~overlap /\ Alone /\ Said /\ InStep
        BY <1>7, Zenon DEF reset_create, Follow
    <2>2. Alone'
        BY <1>7, <2>1, Zenon DEF reset_create, Alone, Shapes, KeyringInv
    <2>3. Said'
        BY <1>7, <2>1, Zenon DEF reset_create, Alone, Said, Worded, Shapes, KeyringInv
    <2>4. InStep'
        BY <1>7, <2>1, Zenon DEF reset_create, Alone, Said, InStep, Worded, Shapes, KeyringInv
    <2> QED
        BY <2>2, <2>3, <2>4, Zenon
<1> QED
    BY <1>1, <1>2, <1>3, <1>4, <1>5, <1>6, <1>7, Zenon DEF ToolStep

\* What happens around the programs keeps the key in step with the password.
LEMMA FollowWorld ==
  ASSUME KeyringInv, Worded, Follow,
         \/ PersonSignsOut \/ Stores \/ DaemonSees \/ SecondPasses
         \/ \E c \in Passwords : chpasswd_reset(c)
         \/ \E p \in Programs2 : HelperRuns(p)
         \/ UNCHANGED keyringVars
  PROVE  Follow'
<1> SUFFICES ASSUME ~overlap' PROVE Alone' /\ Said' /\ InStep'
    BY DEF Follow
<1>1. CASE PersonSignsOut
    <2>1. ~overlap /\ Alone /\ Said /\ InStep
        BY <1>1 DEF PersonSignsOut, Follow
    <2>2. Alone'
        BY <1>1, <2>1 DEF PersonSignsOut, Alone, Shapes, KeyringInv
    <2>3. Said'
        BY <1>1, <2>1 DEF PersonSignsOut, Alone, Said, Worded, Shapes, KeyringInv
    <2>4. InStep'
        BY <1>1, <2>1 DEF PersonSignsOut, Alone, Said, InStep, Worded, Shapes, KeyringInv
    <2> QED
        BY <2>2, <2>3, <2>4
<1>2. CASE Stores
    <2>1. ~overlap /\ Alone /\ Said /\ InStep
        BY <1>2 DEF Stores, Follow
    <2>2. Alone'
        BY <1>2, <2>1 DEF Stores, Alone, Shapes, KeyringInv
    <2>3. Said'
        BY <1>2, <2>1 DEF Stores, Alone, Said, Worded, Shapes, KeyringInv
    <2>4. InStep'
        BY <1>2, <2>1 DEF Stores, Alone, Said, InStep, Worded, Shapes, KeyringInv
    <2> QED
        BY <2>2, <2>3, <2>4
<1>3. CASE DaemonSees
    <2>1. ~overlap /\ Alone /\ Said /\ InStep
        BY <1>3 DEF DaemonSees, Follow
    <2>2. Alone'
        BY <1>3, <2>1 DEF DaemonSees, Alone, Shapes, KeyringInv
    <2>3. Said'
        BY <1>3, <2>1 DEF DaemonSees, Alone, Said, Worded, Shapes, KeyringInv
    <2>4. InStep'
        BY <1>3, <2>1 DEF DaemonSees, Alone, Said, InStep, Worded, Shapes, KeyringInv
    <2> QED
        BY <2>2, <2>3, <2>4
<1>4. CASE SecondPasses
    <2>1. ~overlap /\ Alone /\ Said /\ InStep
        BY <1>4 DEF SecondPasses, Follow
    <2>2. Alone'
        BY <1>4, <2>1 DEF SecondPasses, Alone, Shapes, KeyringInv
    <2>3. Said'
        BY <1>4, <2>1 DEF SecondPasses, Alone, Said, Worded, Shapes, KeyringInv
    <2>4. InStep'
        BY <1>4, <2>1 DEF SecondPasses, Alone, Said, InStep, Worded, Shapes, KeyringInv
    <2> QED
        BY <2>2, <2>3, <2>4
<1>5. CASE \E c \in Passwords : chpasswd_reset(c)
    <2>1. ~overlap /\ Alone /\ Said /\ InStep
        BY <1>5, Zenon DEF chpasswd_reset, Follow
    <2>2. Alone'
        BY <1>5, <2>1 DEF chpasswd_reset, Alone, Shapes, KeyringInv
    <2>3. Said'
        BY <1>5, <2>1, Zenon DEF chpasswd_reset, Alone, Said, Worded, Shapes, KeyringInv, InProgress
    <2>4. InStep'
        BY <1>5, <2>1 DEF chpasswd_reset, Alone, Said, InStep, Worded, Shapes, KeyringInv, InProgress
    <2> QED
        BY <2>2, <2>3, <2>4
<1>6. CASE \E p \in Programs2 : HelperRuns(p)
    <2>1. ~overlap /\ Alone /\ Said /\ InStep
        BY <1>6 DEF HelperRuns, Follow
    <2>2. Alone'
        BY <1>6, <2>1 DEF HelperRuns, Alone, Shapes, KeyringInv
    <2>3. Said'
        BY <1>6, <2>1 DEF HelperRuns, Alone, Said, Worded, Shapes, KeyringInv, Housed
    <2>4. InStep'
        BY <1>6, <2>1 DEF HelperRuns, Alone, Said, InStep, Worded, Shapes, KeyringInv, Housed
    <2> QED
        BY <2>2, <2>3, <2>4
<1>7. CASE UNCHANGED keyringVars
    <2>1. ~overlap /\ Alone /\ Said /\ InStep
        BY <1>7 DEF Follow
    <2>2. Alone'
        BY <1>7, <2>1 DEF Alone, Shapes, KeyringInv
    <2>3. Said'
        BY <1>7, <2>1 DEF Alone, Said, Worded, Shapes, KeyringInv
    <2>4. InStep'
        BY <1>7, <2>1 DEF Alone, Said, InStep, Worded, Shapes, KeyringInv
    <2> QED
        BY <2>2, <2>3, <2>4
<1> QED
    BY <1>1, <1>2, <1>3, <1>4, <1>5, <1>6, <1>7

\* Before anybody signs in there is no keyring and nothing was typed.
LEMMA FollowInitially == KeyringInit => Worded /\ Follow
<1> SUFFICES ASSUME KeyringInit PROVE Worded /\ Follow
    OBVIOUS
<1>1. Worded
    BY KeyringConstants, Zenon DEF KeyringInit, Worded, Typed, Rings
<1>2. Follow
    BY Zenon DEF KeyringInit, Follow, Alone, Said, InStep
<1> QED
    BY <1>1, <1>2

\* Every variable of the keyring model stays in its type.
THEOREM KeyringTypes == KeyringSpec => []KeyringTypeOK
<1>1. KeyringInv /\ Worded /\ [KeyringNext]_keyringVars => Worded'
    BY WordedSignIn, WordedChange, WordedTool, WordedWorld, Zenon DEF KeyringNext
<1>2. KeyringInv /\ Worded => KeyringTypeOK
    BY DEF KeyringInv, Shapes, Worded, Rings, KeyringTypeOK
<1> QED
    BY <1>1, <1>2, FollowInitially, KeyringInitially, KeyringInductive, PTL DEF KeyringSpec

\* As long as no two of the programs overlap, the keyring's key is the
\* sign-in password whenever nothing is in progress, unless a password was set
\* where no daemon could follow: first sign-ins that gave up half-way, changes
\* refused by one module or the other, recoveries and resets included.
THEOREM KeyFollows == KeyringSpec => []KeyringFollows
<1>1. KeyringInv /\ Worded /\ [KeyringNext]_keyringVars => Worded'
    BY WordedSignIn, WordedChange, WordedTool, WordedWorld, Zenon DEF KeyringNext
<1>2. KeyringInv /\ Worded /\ Follow /\ [KeyringNext]_keyringVars => Follow'
    BY FollowSignIn, FollowChange, FollowTool, FollowWorld, Zenon DEF KeyringNext
<1>3. Follow => KeyringFollows
    BY DEF Follow, InStep, KeyringFollows, InProgress
<1> QED
    BY <1>1, <1>2, <1>3, FollowInitially, KeyringInitially, KeyringInductive, PTL DEF KeyringSpec

\* If no two resets fall into one second, all three promises hold together.
THEOREM KeyringTheorem ==
  ASSUME Hurried = FALSE
  PROVE  KeyringSpec => []KeyringSound
<1>1. KeyringFollows /\ SecretsKept /\ NoHelperLeft => KeyringSound
    BY DEF KeyringSound
<1> QED
    BY <1>1, KeyFollows, SecretsStay, HelpersGone, PTL
=============================================================================
