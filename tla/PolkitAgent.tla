---------------------------- MODULE PolkitAgent -----------------------------
(***************************************************************************)
(* The session's polkit agent (sg-polkit-agent): one thread per            *)
(* BeginAuthentication asks the broker over a socket of its own, while     *)
(* CancelAuthentication, on the main thread, shuts sockets down by their   *)
(* descriptor.  The kernel gives a free descriptor, so one that was closed *)
(* may come back with the next request.  The broker's side is in Broker;   *)
(* here it is what the agent and sg-polkit-respond see of it.              *)
(***************************************************************************)
EXTENDS Naturals, FiniteSets

CONSTANTS Requests,   \* authentications polkitd begins, each with its cookie
          NoReq       \* none of them

ASSUME AgentConstants == NoReq \notin Requests /\ IsFiniteSet(Requests)

VARIABLES
    thread,      \* where a request's thread is
    fd,          \* req->fd: its descriptor, 0 for none
    file,        \* file[d]: whose socket descriptor d is
    g_requests,  \* the list the two threads share
    shut,        \* sockets that have been shut down
    asked,       \* sockets on which the broker has read a request
    byte,        \* what the broker wrote on a socket: a status, or its end
    serving,     \* the request the broker, one at a time, has a prompt up for
    status,      \* what ask_broker returned
    reply,       \* what polkitd was told of each BeginAuthentication
    polkitd,     \* requests sg-polkit-respond has answered at polkitd
    cancelled    \* history: cookies polkitd has cancelled

agentVars == <<thread, fd, file, g_requests, shut, asked, byte, serving, status, reply, polkitd, cancelled>>

Descriptors == 1..Cardinality(Requests)

AgentTypeOK ==
    /\ thread \in [Requests -> {"none", "lookup", "connect", "write", "read", "remove", "close", "reply", "done"}]
    /\ fd \in [Requests -> Descriptors \cup {0}]
    /\ file \in [Descriptors -> Requests \cup {NoReq}]
    /\ {g_requests, shut, asked, polkitd, cancelled} \subseteq SUBSET Requests
    /\ byte \in [Requests -> {"none", "0", "1", "2", "eof"}]
    /\ serving \in Requests \cup {NoReq}
    /\ status \in [Requests -> {"0", "1", "2"}]
    /\ reply \in [Requests -> {"none", "ok", "Cancelled", "Failed"}]

AgentInit ==
    /\ thread = [r \in Requests |-> "none"] /\ fd = [r \in Requests |-> 0]
    /\ file = [d \in Descriptors |-> NoReq]
    /\ g_requests = {} /\ shut = {} /\ asked = {} /\ polkitd = {} /\ cancelled = {}
    /\ byte = [r \in Requests |-> "none"] /\ serving = NoReq
    /\ status = [r \in Requests |-> "2"] /\ reply = [r \in Requests |-> "none"]

-----------------------------------------------------------------------------
(* The main thread.                                                        *)

BeginAuthentication(r) ==
    /\ thread[r] = "none"
    /\ \/ \E d \in Descriptors :
             /\ file[d] = NoReq
             /\ fd' = [fd EXCEPT ![r] = d] /\ file' = [file EXCEPT ![d] = r]
       \/ UNCHANGED <<fd, file>>       \* socket() failed
    /\ g_requests' = g_requests \cup {r}
    /\ thread' = [thread EXCEPT ![r] = "lookup"]
    /\ UNCHANGED <<shut, asked, byte, serving, status, reply, polkitd, cancelled>>

\* Every listed request with this cookie has its socket -- the one its
\* descriptor is now -- shut down, connected or not.  (Variant: not before
\* it is connected.)
Hits_Connected(r) == {file[fd[q]] : q \in {x \in g_requests : x = r /\ fd[x] # 0 /\ thread[x] = "read"}}
Hits(r) == {file[fd[q]] : q \in {x \in g_requests : x = r /\ fd[x] # 0}}

CancelAuthentication(r) ==
    /\ thread[r] # "none" /\ r \notin cancelled
    /\ cancelled' = cancelled \cup {r}
    /\ shut' = shut \cup (Hits(r) \ {NoReq})
    /\ UNCHANGED <<thread, fd, file, g_requests, asked, byte, serving, status, reply, polkitd>>

-----------------------------------------------------------------------------
(* begin_thread and ask_broker.                                            *)

\* What follows the broker's answer: the request leaves the list, its socket
\* is closed, polkitd is told.  (Variant: the socket is closed first.)
After_ClosesFirst(step) ==
    CASE step = "ask" -> "close" [] step = "close" -> "remove" [] step = "remove" -> "reply"
After(step) ==
    CASE step = "ask" -> "remove" [] step = "remove" -> "close" [] step = "close" -> "reply"

Goto(r, t) == thread' = [thread EXCEPT ![r] = t]
Gives(r, s) == status' = [status EXCEPT ![r] = s] /\ Goto(r, After("ask"))

\* The program's name may be asked of polkitd, ten seconds at most; nobody
\* polkit would take may be a person here, or the request be too long.
action_exec_path(r) ==
    /\ thread[r] = "lookup"
    /\ \/ Goto(r, "connect") /\ UNCHANGED status
       \/ Gives(r, "2")
    /\ UNCHANGED <<fd, file, g_requests, shut, asked, byte, serving, reply, polkitd, cancelled>>

connect(r) ==
    /\ thread[r] = "connect"
    /\ \/ fd[r] # 0 /\ Goto(r, "write") /\ UNCHANGED status
       \/ Gives(r, "2")
    /\ UNCHANGED <<fd, file, g_requests, shut, asked, byte, serving, reply, polkitd, cancelled>>

\* A socket that was shut down before it was connected stays so.
write_full(r) ==
    /\ thread[r] = "write"
    /\ IF file[fd[r]] \in shut THEN Gives(r, "2") /\ UNCHANGED asked
       ELSE asked' = asked \cup {file[fd[r]]} /\ Goto(r, "read") /\ UNCHANGED status
    /\ UNCHANGED <<fd, file, g_requests, shut, byte, serving, reply, polkitd, cancelled>>

\* A status that is there is read even from a socket shut down since;
\* otherwise a read that gives nothing is a failure.
Nothing == "2"
read_status(r) ==
    /\ thread[r] = "read"
    /\ LET s == file[fd[r]] IN
       \/ byte[s] \in {"0", "1", "2"} /\ Gives(r, byte[s])
       \/ byte[s] \in {"none", "eof"} /\ (s \in shut \/ byte[s] = "eof") /\ Gives(r, Nothing)
    /\ UNCHANGED <<fd, file, g_requests, shut, asked, byte, serving, reply, polkitd, cancelled>>

remove(r) ==
    /\ thread[r] = "remove" /\ g_requests' = g_requests \ {r} /\ Goto(r, After("remove"))
    /\ UNCHANGED <<fd, file, shut, asked, byte, serving, status, reply, polkitd, cancelled>>

close(r) ==
    /\ thread[r] = "close" /\ Goto(r, After("close"))
    /\ file' = IF fd[r] = 0 THEN file ELSE [file EXCEPT ![fd[r]] = NoReq]
    /\ UNCHANGED <<fd, g_requests, shut, asked, byte, serving, status, reply, polkitd, cancelled>>

return_value(r) ==
    /\ thread[r] = "reply" /\ Goto(r, "done")
    /\ reply' = [reply EXCEPT ![r] = CASE status[r] = "0" -> "ok" [] status[r] = "1" -> "Cancelled"
                                       [] OTHER -> "Failed"]
    /\ UNCHANGED <<fd, file, g_requests, shut, asked, byte, serving, status, polkitd, cancelled>>

begin_thread(r) ==
    \/ action_exec_path(r) \/ connect(r) \/ write_full(r) \/ read_status(r)
    \/ remove(r) \/ close(r) \/ return_value(r)

-----------------------------------------------------------------------------
(* The broker, one prompt at a time, and sg-polkit-respond.                *)

BrokerServes(s) ==
    /\ serving = NoReq /\ s \in asked /\ byte[s] = "none" /\ serving' = s
    /\ UNCHANGED <<thread, fd, file, g_requests, shut, asked, byte, status, reply, polkitd, cancelled>>

\* The person declines, the prompt fails, or the broker itself goes.
BrokerRefuses(s) ==
    /\ serving = s /\ serving' = NoReq
    /\ \E b \in {"1", "2", "eof"} : byte' = [byte EXCEPT ![s] = b]
    /\ UNCHANGED <<thread, fd, file, g_requests, shut, asked, status, reply, polkitd, cancelled>>

\* Consent: polkitd is told, unless it no longer knows the cookie.
sg_polkit_respond(s) ==
    /\ serving = s /\ serving' = NoReq
    /\ \/ polkitd' = polkitd \cup {s} /\ byte' = [byte EXCEPT ![s] = "0"]
       \/ byte' = [byte EXCEPT ![s] = "2"] /\ UNCHANGED polkitd
    /\ UNCHANGED <<thread, fd, file, g_requests, shut, asked, status, reply, cancelled>>

AgentNext ==
    \E r \in Requests :
        \/ BeginAuthentication(r) \/ CancelAuthentication(r) \/ begin_thread(r)
        \/ BrokerServes(r) \/ BrokerRefuses(r) \/ sg_polkit_respond(r)

-----------------------------------------------------------------------------
(* What it promises.                                                       *)

\* A cancellation shuts down the socket of the request it names and no other,
\* whichever thread has closed or opened a descriptor meanwhile.
CancelHitsItsOwn == shut \subseteq cancelled

\* polkitd hears that a request was authorised only when sg-polkit-respond
\* has given it the answer to that very request.
AuthorisedIsTold == \A r \in Requests : reply[r] = "ok" => r \in polkitd

\* However requests, their threads and cancellations interleave, both hold.
AgentSafe == CancelHitsItsOwn /\ AuthorisedIsTold

\* A cancelled request is answered though nobody answers its prompt, also
\* when it is cancelled before its thread has reached the broker.
CancelledIsAnswered ==
    \A r \in Requests : []<>(r \in cancelled /\ fd[r] # 0 => reply[r] # "none")
=============================================================================
