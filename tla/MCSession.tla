----------------------------- MODULE MCSession ------------------------------
(* The services of a session and of a remote screen, which share nothing:  *)
(* a behaviour is one of one of them, its subject.                         *)
EXTENDS ScreenSaver, PolkitAgent, ProcAgent, NetMount, ConsentPrompt, RdpStream, Planar

VARIABLE subject

sessionVars == <<subject, saverVars, agentVars, procVars, netVars, promptVars, streamVars, planarVars>>

MCSizeOf == [wide |-> 2, tall |-> 2, small |-> 1]

\* Lines around every length at which the encoder cuts, of alternating values
\* and of one value; and small bitmaps of the values where deltas fold.
Lens == {1, 2, 3, 14, 15, 16, 18, 31, 32, 47, 48, 50}
Alternating(k) == [x \in 1..k |-> 1 + (x % 2)]
Flat(v, k) == [x \in 1..k |-> v]
Pieces == {Alternating(k) : k \in Lens} \cup {Flat(v, k) : v \in {0, 1}, k \in Lens}
Edges == {0, 1, 127, 128, 255}
MCBitmaps ==
    {<< <<p \o q>>, <<p \o q>>, <<p \o q>> >> : p, q \in Pieces}
    \cup {<< << <<a, a>>, <<b, c>> >>, << <<0, 0>>, <<0, 0>> >>, << <<b, b>>, <<b, b>> >> >> : a, b, c \in Edges}

Subjects == {"saver", "agent", "proc", "net", "prompt", "stream", "planar"}

Init ==
    /\ subject \in Subjects
    /\ SaverInit /\ AgentInit /\ ProcInit /\ NetInit /\ PromptInit /\ StreamInit /\ PlanarInit

Next ==
    /\ UNCHANGED subject
    /\ \/ subject = "saver" /\ SaverNext
          /\ UNCHANGED <<agentVars, procVars, netVars, promptVars, streamVars, planarVars>>
       \/ subject = "agent" /\ AgentNext
          /\ UNCHANGED <<saverVars, procVars, netVars, promptVars, streamVars, planarVars>>
       \/ subject = "proc" /\ ProcNext
          /\ UNCHANGED <<saverVars, agentVars, netVars, promptVars, streamVars, planarVars>>
       \/ subject = "net" /\ NetNext
          /\ UNCHANGED <<saverVars, agentVars, procVars, promptVars, streamVars, planarVars>>
       \/ subject = "prompt" /\ PromptNext
          /\ UNCHANGED <<saverVars, agentVars, procVars, netVars, streamVars, planarVars>>
       \/ subject = "stream" /\ StreamNext
          /\ UNCHANGED <<saverVars, agentVars, procVars, netVars, promptVars, planarVars>>
       \/ subject = "planar" /\ PlanarNext
          /\ UNCHANGED <<saverVars, agentVars, procVars, netVars, promptVars, streamVars>>

\* What runs goes on: the bus and the inhibition service, the agent's threads,
\* the process agent and the kernel's delivery of signals, the compositor and
\* the thread of a remote client.  No program, person or client need act.
Fair ==
    /\ WF_saverVars(subject = "saver" /\ SaverService)
    /\ \A r \in Requests : WF_agentVars(subject = "agent" /\ begin_thread(r))
    /\ WF_procVars(subject = "proc" /\ ProcServe)
    /\ WF_procVars(subject = "proc" /\ \E s \in {"STOP", "USR"} : SignalTaken(s))
    /\ WF_streamVars(subject = "stream" /\ StreamThread)

Spec == Init /\ [][Next]_sessionVars /\ Fair

\* The variables of every service have their types.
TypeOK ==
    /\ SaverTypeOK /\ AgentTypeOK /\ ProcTypeOK /\ NetTypeOK /\ PromptTypeOK /\ StreamTypeOK /\ PlanarTypeOK

\* Nothing that was begun waits for ever on what others leave undone: a cancelled
\* polkit request is answered though nobody answers its prompt, the wineserver's
\* request ends though its target dies or is stopped, the screen idles again
\* when the programs that held it have gone, and a remote client comes to show
\* what the screen shows.
ServicesAnswer == CancelledIsAnswered /\ RequestEnds /\ HoldGoesWithPrograms /\ PictureCatchesUp
=============================================================================
