----------------------------- MODULE ProcAgent ------------------------------
(***************************************************************************)
(* The process agent (sg-procagent): the wineserver's requests to read and *)
(* write a process's memory, to signal it and to set its affinity, served  *)
(* one after the other on one connection.  Memory is read with the target  *)
(* stopped under ptrace; signals of others reach the target all the time.  *)
(* The kernel's part (signals, stops, tracing) is external.                *)
(***************************************************************************)
EXTENDS Naturals, Sequences, FiniteSets

CONSTANTS MaxRequests,   \* bound: requests the wineserver sends in all
          MaxSignals     \* bound: signals others send the target in all

ASSUME ProcConstants == {MaxRequests, MaxSignals} \subseteq Nat

VARIABLES
    target,     \* the target thread: "runs", "tracestop", "stopped", "dead"
    stopsig,    \* the signal a trace stop reports
    pending,    \* signals sent to it and not taken yet (one of a kind)
    traced,
    owed,       \* history: a signal was sent and its handler has not run since
    signals,    \* how many others have sent
    wire,       \* what the wineserver wrote and the agent has not read
    sent,       \* requests it has sent
    link,       \* "open", "closed" (by the agent), "gone" (by the wineserver)
    agent,      \* where the agent is
    req         \* the request it is serving

kernel == <<target, stopsig, pending, traced, owed, signals>>
procVars == <<kernel, wire, sent, link, agent, req>>

Ops == {"read", "write", "signal", "affinity", "unknown"}
Lengths == {"zero", "some", "huge"}
Items == [item : {"req"}, op : Ops, len : Lengths] \cup [item : {"payload"}]

ProcTypeOK ==
    /\ target \in {"runs", "tracestop", "stopped", "dead"}
    /\ stopsig \in {"none", "STOP", "USR"} /\ pending \subseteq {"STOP", "USR"}
    /\ traced \in BOOLEAN /\ owed \in BOOLEAN /\ signals \in 0..MaxSignals
    /\ wire \in Seq(Items) /\ sent \in 0..MaxRequests
    /\ link \in {"open", "closed", "gone"}
    /\ agent \in {"request", "payload", "attach", "wait", "memory", "detach", "reply", "ended", "lost"}
    /\ req \in Items

NoRequest == [item |-> "req", op |-> "unknown", len |-> "zero"]

ProcInit ==
    /\ target = "runs" /\ stopsig = "none" /\ pending = {} /\ traced = FALSE
    /\ owed = FALSE /\ signals = 0
    /\ wire = <<>> /\ sent = 0 /\ link = "open" /\ agent = "request" /\ req = NoRequest

-----------------------------------------------------------------------------
(* The kernel and the target.                                              *)

SignalSent ==
    /\ target # "dead" /\ signals < MaxSignals /\ signals' = signals + 1
    /\ pending' = pending \cup {"USR"} /\ owed' = TRUE
    /\ UNCHANGED <<target, stopsig, traced, wire, sent, link, agent, req>>

\* A running thread takes a signal: traced, it stops and the tracer is told;
\* otherwise SIGSTOP stops it and the other runs its handler.
SignalTaken(s) ==
    /\ target = "runs" /\ s \in pending /\ pending' = pending \ {s}
    /\ IF traced THEN target' = "tracestop" /\ stopsig' = s /\ UNCHANGED owed
       ELSE /\ target' = (IF s = "STOP" THEN "stopped" ELSE "runs")
            /\ owed' = (owed /\ s = "STOP") /\ UNCHANGED stopsig
    /\ UNCHANGED <<traced, signals, wire, sent, link, agent, req>>

TargetDies ==
    /\ target # "dead" /\ target' = "dead" /\ pending' = {} /\ owed' = FALSE /\ stopsig' = "none"
    /\ UNCHANGED <<traced, signals, wire, sent, link, agent, req>>

-----------------------------------------------------------------------------
(* The wineserver.                                                         *)

WineserverAsks(op, len) ==
    /\ link = "open" /\ sent < MaxRequests /\ sent' = sent + 1
    /\ wire' = wire \o <<[item |-> "req", op |-> op, len |-> len]>>
                    \o (IF op = "write" /\ len # "zero" THEN <<[item |-> "payload"]>> ELSE <<>>)
    /\ UNCHANGED <<kernel, link, agent, req>>

WineserverGoes ==
    /\ link = "open" /\ link' = "gone"
    /\ UNCHANGED <<kernel, wire, sent, agent, req>>

-----------------------------------------------------------------------------
(* serve and do_mem.                                                       *)

ProcGoto(a) == agent' = a

\* A request, or the end.  One that is too long, or a write of nothing, ends
\* the connection.
read_request ==
    /\ agent = "request" /\ UNCHANGED <<kernel, sent>>
    /\ \/ /\ wire # <<>> /\ wire' = Tail(wire) /\ req' = Head(wire)
          /\ IF Head(wire).item = "payload" THEN ProcGoto("lost") /\ UNCHANGED link
             ELSE IF Head(wire).len = "huge" \/ (Head(wire).op = "write" /\ Head(wire).len = "zero")
             THEN ProcGoto("ended") /\ link' = "closed"
             ELSE /\ UNCHANGED link
                  /\ ProcGoto(CASE Head(wire).op = "write" -> "payload"
                                [] Head(wire).op = "read" /\ Head(wire).len = "some" -> "attach"
                                [] OTHER -> "reply")
       \/ /\ wire = <<>> /\ link = "gone" /\ ProcGoto("ended") /\ UNCHANGED <<wire, link, req>>

\* "It must be drained even on failure": before anything is tried.
read_payload ==
    /\ agent = "payload" /\ wire' = Tail(wire)
    /\ \/ ProcGoto("attach") /\ UNCHANGED link
       \/ ProcGoto("ended") /\ link' = "closed"      \* no memory for it
    /\ UNCHANGED <<kernel, sent, req>>

\* PTRACE_ATTACH sends a SIGSTOP of its own; it can be refused.
attach ==
    /\ agent = "attach" /\ UNCHANGED <<owed, signals, target, stopsig>>
    /\ \/ /\ target # "dead" /\ traced' = TRUE /\ pending' = pending \cup {"STOP"} /\ ProcGoto("wait")
       \/ UNCHANGED <<traced, pending>> /\ ProcGoto("reply")
    /\ UNCHANGED <<wire, sent, link, req>>

\* The target runs on; a signal given back to it has its handler run.
Resumes(sig) ==
    /\ target' = IF target = "dead" THEN "dead" ELSE "runs"
    /\ stopsig' = "none" /\ owed' = (owed /\ sig # "USR")
    /\ UNCHANGED <<pending, signals>>

\* A stop for another signal is not ours: it is handed back.
\* (Variant: the first stop is taken for ours.)
Ours_First(sig) == TRUE
Ours(sig) == sig = "STOP"
attach_wait ==
    /\ agent = "wait"
    /\ \/ target = "dead" /\ traced' = FALSE /\ ProcGoto("reply") /\ UNCHANGED <<target, stopsig, pending, owed, signals>>
       \/ /\ target = "tracestop" /\ UNCHANGED traced
          /\ IF Ours(stopsig) THEN ProcGoto("memory") /\ UNCHANGED <<target, stopsig, pending, owed, signals>>
             ELSE Resumes(stopsig) /\ ProcGoto("wait")
    /\ UNCHANGED <<wire, sent, link, req>>

\* Memory is read or written, or is not there.
do_mem ==
    /\ agent = "memory" /\ ProcGoto("detach")
    /\ UNCHANGED <<kernel, wire, sent, link, req>>

\* PTRACE_DETACH with no signal: what it was stopped for is dropped.
detach ==
    /\ agent = "detach" /\ traced' = FALSE /\ Resumes("none") /\ ProcGoto("reply")
    /\ UNCHANGED <<wire, sent, link, req>>

\* do_signal is a kill(); an affinity is set; an unknown request fails.  All
\* are answered, unless the wineserver has gone.
send_reply ==
    /\ agent = "reply"
    /\ \/ /\ req.op = "signal" /\ target # "dead" /\ pending' = pending \cup {"USR"} /\ owed' = TRUE
          /\ UNCHANGED <<target, stopsig, traced, signals>>
       \/ (req.op # "signal" \/ target = "dead") /\ UNCHANGED kernel
    /\ ProcGoto(IF link = "open" THEN "request" ELSE "ended")
    /\ UNCHANGED <<wire, sent, link, req>>

\* The connection is closed and the next accepted.
accept ==
    /\ agent = "ended" /\ ProcGoto("request") /\ link' = "open" /\ wire' = <<>>
    /\ req' = NoRequest
    /\ UNCHANGED <<kernel, sent>>

ProcServe == read_request \/ read_payload \/ attach \/ attach_wait \/ do_mem \/ detach \/ send_reply \/ accept

ProcNext ==
    \/ ProcServe \/ SignalSent \/ TargetDies \/ WineserverGoes
    \/ \E s \in {"STOP", "USR"} : SignalTaken(s)
    \/ \E op \in Ops, len \in Lengths : WineserverAsks(op, len)

-----------------------------------------------------------------------------
(* What it promises.                                                       *)

\* The target is left as it would have been.  "Taking it for ours dropped it at
\* the detach": a signal sent to it is still on its way until its handler has
\* run, whatever the agent does.  "... and left the SIGSTOP pending, which
\* stopped the whole process once we let go": an agent that is done leaves it
\* running and untraced, with no stop to come.
TargetUndisturbed ==
    /\ owed => "USR" \in pending \/ (target = "tracestop" /\ stopsig = "USR")
    /\ agent \in {"request", "reply", "ended"} => ~traced /\ target \in {"runs", "dead"} /\ "STOP" \notin pending

\* A request is answered, or its connection ends, and a payload is never taken
\* for the next request, whatever failed before (then the agent is lost).
RequestEnds == []<>(agent \in {"request", "ended"})
=============================================================================
