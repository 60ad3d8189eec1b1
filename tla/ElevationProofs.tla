-------------------------- MODULE ElevationProofs ---------------------------
(***************************************************************************)
(* Proofs about the broker's tickets and the programs it starts.  The      *)
(* tickets of LogonTickets are earned and are good once, for any number of *)
(* requesters, accounts, tickets and slots, any times and any limit.  In   *)
(* ElevatedRun, for any exit codes and any number of processes the program *)
(* leaves running, what the requester hears is the program's own exit, and *)
(* sg-elevated-run leaves nothing behind.                                  *)
(***************************************************************************)
EXTENDS LogonTickets, ElevatedRun, SequenceTheorems, TLAPS

\* Which of the broker's locals mean something, and when.
Serving ==
    /\ at = "pam" => by \in Users /\ target \in Accounts \ Barred
    /\ at = "spawn" =>
          /\ by \in Users /\ taken.ticket \in Ticket /\ taken.ticket.kind = "launch"
          /\ taken.ticket.for = by /\ taken.time <= taken.ticket.expires

\* A ticket that is there has a name of its own and has not been taken; how
\* long it is good follows from when it was written.
Untaken ==
    /\ \A k \in tickets : k.id \in drawn /\ uses[k.id] = 0 /\ k.expires = k.mtime + Lifetime
    /\ \A j, k \in tickets : j.id = k.id => j = k

\* A name that was not drawn has not been used, and none was twice.
UsedOnce == \A n \in Names : uses[n] <= 1 /\ (n \notin drawn => uses[n] = 0)

Shapes ==
    /\ now \in Nat /\ tickets \subseteq Ticket /\ drawn \subseteq Names /\ uses \in [Names -> Nat]
    /\ monitor \in {"up", "dead"}

TicketInv == Shapes /\ Serving /\ Untaken /\ UsedOnce /\ TicketsAreEarned

USE TicketConstants

-----------------------------------------------------------------------------
\* The invariant holds when the broker starts.
LEMMA TicketsInitially == Init => TicketInv
    BY DEF Init, TicketInv, Shapes, Serving, Untaken, UsedOnce, TicketsAreEarned

\* A ticket that is there when a new one is made keeps its name to itself.
LEMMA Makes ==
    ASSUME TicketInv, NEW kind \in {"logon", "launch"}, NEW a \in Accounts, NEW u \in Users,
           make_ticket(kind, a, u), UNCHANGED <<now, monitor, uses>>
    PROVE  Shapes' /\ Untaken' /\ UsedOnce'
<1>1. PICK n \in Names \ drawn :
          /\ drawn' = drawn \cup {n}
          /\ tickets' = tickets \cup {[id |-> n, kind |-> kind, uid |-> a, for |-> u,
                                       expires |-> now + Lifetime, mtime |-> now]}
    BY DEF make_ticket
<1> DEFINE k0 == [id |-> n, kind |-> kind, uid |-> a, for |-> u, expires |-> now + Lifetime, mtime |-> now]
<1>2. now \in Nat /\ Lifetime \in Nat /\ now + Lifetime \in Nat
    BY DEF TicketInv, Shapes
<1>3. k0 \in Ticket
    BY <1>2 DEF Ticket
<1>4. Shapes'
    BY <1>1, <1>3 DEF TicketInv, Shapes
<1>5. uses[n] = 0 /\ \A k \in tickets : k.id # n
    BY <1>1 DEF TicketInv, Untaken, UsedOnce
<1>6. k0.id = n /\ k0.expires = k0.mtime + Lifetime
    OBVIOUS
<1>7. Untaken'
    <2> HIDE DEF k0
    <2>1. tickets' = tickets \cup {k0}
        BY <1>1 DEF k0
    <2> QED
        BY <2>1, <1>1, <1>5, <1>6 DEF TicketInv, Untaken
<1>8. UsedOnce'
    BY <1>1 DEF TicketInv, UsedOnce
<1> QED
    BY <1>4, <1>7, <1>8

\* So does one that is left when another is taken.
LEMMA Takes ==
    ASSUME TicketInv, NEW k \in tickets, tickets' = tickets \ {k},
           uses' = [uses EXCEPT ![k.id] = @ + 1], UNCHANGED <<now, monitor, drawn>>
    PROVE  Shapes' /\ Untaken' /\ UsedOnce' /\ uses'[k.id] = 1
<1>1. k.id \in Names /\ uses[k.id] = 0 /\ k.id \in drawn
    BY DEF TicketInv, Untaken, Shapes, Ticket
<1>2. uses' \in [Names -> Nat] /\ uses'[k.id] = 1 /\ \A n \in Names \ {k.id} : uses'[n] = uses[n]
    BY <1>1 DEF TicketInv, Shapes
<1>3. \A j \in tickets' : j \in tickets /\ j.id \in Names /\ j.id # k.id
    BY DEF TicketInv, Untaken, Shapes, Ticket
<1> QED
    BY <1>1, <1>2, <1>3 DEF TicketInv, Shapes, Untaken, UsedOnce

\* Fewer tickets are as good.
LEMMA Fewer ==
    ASSUME TicketInv, tickets' \subseteq tickets, now' \in Nat, monitor' \in {"up", "dead"},
           UNCHANGED <<drawn, uses>>
    PROVE  Shapes' /\ Untaken' /\ UsedOnce'
    BY DEF TicketInv, Shapes, Untaken, UsedOnce

\* What has been earned stays so: no step takes back what was proved.
LEMMA EarnedStays ==
    ASSUME TicketInv, tickets' \subseteq tickets, proved \subseteq proved', started' = started
    PROVE  TicketsAreEarned'
    BY DEF TicketInv, TicketsAreEarned

\* A step that leaves the broker's locals alone keeps what they mean.
LEMMA ServingStays ==
    ASSUME TicketInv, UNCHANGED served
    PROVE  Serving'
    BY DEF TicketInv, Serving, served

\* When a connection is done with, they mean nothing.
LEMMA ServingDone == Done => Serving'
    BY DEF Done, Serving

-----------------------------------------------------------------------------
(* Each step keeps the invariant.                                          *)

\* Taking up a @logon request keeps the invariant.
LEMMA LogonKeeps ==
    ASSUME TicketInv, NEW u \in Users, NEW a \in Accounts, handle_logon(u, a)
    PROVE  TicketInv'
<1>1. /\ tickets' \subseteq tickets /\ now' \in Nat /\ monitor' \in {"up", "dead"}
      /\ UNCHANGED <<drawn, uses, proved, started>>
    BY DEF handle_logon, sweep_tickets, TicketInv, Shapes
<1>2. Serving'
    <2>1. CASE UNCHANGED served
        BY <2>1, ServingStays
    <2>2. CASE at' = "pam" /\ by' = u /\ target' = a /\ a \notin Barred
        BY <2>2 DEF Serving
    <2> QED
        BY <2>1, <2>2 DEF handle_logon
<1> QED
    BY <1>1, <1>2, Fewer, EarnedStays DEF TicketInv

\* The password's check keeps it: a ticket is made for a right one only.
LEMMA CheckedKeeps ==
    ASSUME TicketInv, NEW good \in BOOLEAN, logon_checked(good)
    PROVE  TicketInv'
<1>1. at = "pam" /\ by \in Users /\ target \in Accounts \ Barred
    BY DEF logon_checked, TicketInv, Serving
<1>2. Serving'
    BY ServingDone DEF logon_checked
<1>3. UNCHANGED <<now, monitor, uses, started>> /\ proved \subseteq proved'
    BY DEF logon_checked
<1>4. CASE UNCHANGED <<tickets, drawn>>
    <2>1. Shapes' /\ Untaken' /\ UsedOnce'
        BY <1>3, <1>4, Fewer DEF TicketInv, Shapes
    <2> QED
        BY <1>2, <1>3, <1>4, <2>1, EarnedStays DEF TicketInv
<1>5. CASE ~Refuses(good) /\ make_ticket("logon", target, by)
    <2>1. Shapes' /\ Untaken' /\ UsedOnce'
        BY <1>1, <1>3, <1>5, Makes
    <2>2. PICK n \in Names \ drawn :
              /\ drawn' = drawn \cup {n}
              /\ tickets' = tickets \cup {[id |-> n, kind |-> "logon", uid |-> target, for |-> by,
                                           expires |-> now + Lifetime, mtime |-> now]}
        BY <1>5 DEF make_ticket
    <2> DEFINE k0 == [id |-> n, kind |-> "logon", uid |-> target, for |-> by,
                      expires |-> now + Lifetime, mtime |-> now]
    <2>3. good /\ monitor = "up"
        BY <1>5 DEF Refuses, TicketInv, Shapes
    <2>4. [id |-> n, for |-> by, uid |-> target] \in proved'
        BY <2>2, <2>3 DEF logon_checked
    <2>5. k0.id = n /\ k0.for = by /\ k0.uid = target
        OBVIOUS
    <2>6. TicketsAreEarned'
        <3> HIDE DEF k0
        <3>1. tickets' = tickets \cup {k0}
            BY <2>2 DEF k0
        <3> QED
            BY <3>1, <2>4, <2>5, <1>1, <1>3 DEF TicketInv, TicketsAreEarned
    <2> QED
        BY <1>2, <2>1, <2>6 DEF TicketInv
<1> QED
    BY <1>4, <1>5 DEF logon_checked

\* Taking a ticket up for @launch keeps it.
LEMMA LaunchKeeps ==
    ASSUME TicketInv, NEW u \in Users, NEW n \in Names, handle_launch(u, n)
    PROVE  TicketInv'
<1>1. PICK k \in tickets :
          /\ k.id = n /\ k.kind = "launch" /\ k.for = u
          /\ tickets' = unlink(k)
          /\ uses' = [uses EXCEPT ![n] = @ + 1]
          /\ IF Expired(k)
             THEN UNCHANGED served
             ELSE at' = "spawn" /\ by' = u /\ taken' = [ticket |-> k, time |-> now] /\ UNCHANGED target
    BY DEF handle_launch
<1>2. UNCHANGED <<now, monitor, drawn, proved, started>> /\ tickets' = tickets \ {k}
    BY <1>1 DEF handle_launch, unlink
<1>3. Shapes' /\ Untaken' /\ UsedOnce'
    BY <1>1, <1>2, Takes, Zenon
<1>4. Serving'
    <2>1. CASE Expired(k)
        BY <1>1, <2>1, ServingStays
    <2>2. CASE ~Expired(k)
        <3>1. k \in Ticket /\ now \in Nat /\ k.expires \in Nat
            BY DEF TicketInv, Shapes, Ticket
        <3>2. now <= k.expires
            BY <2>2, <3>1 DEF Expired
        <3>3. at' = "spawn" /\ by' = u /\ taken' = [ticket |-> k, time |-> now]
            BY <1>1, <2>2
        <3> QED
            BY <1>1, <3>1, <3>2, <3>3 DEF Serving
    <2> QED
        BY <2>1, <2>2
<1> QED
    BY <1>2, <1>3, <1>4, EarnedStays DEF TicketInv

\* The start of the program keeps it.
LEMMA SpawnKeeps ==
    ASSUME TicketInv, monitor_spawn
    PROVE  TicketInv'
<1>1. Serving' /\ UNCHANGED <<now, monitor, tickets, drawn, uses, proved>>
    BY ServingDone DEF monitor_spawn
<1>2. Shapes' /\ Untaken' /\ UsedOnce'
    BY <1>1, Fewer DEF TicketInv, Shapes
<1>3. TicketsAreEarned'
    <2>1. CASE UNCHANGED started
        BY <1>1, <2>1, EarnedStays
    <2>2. CASE /\ Startable(taken.ticket.uid)
               /\ started' = started \cup {[ticket |-> taken.ticket, by |-> by, time |-> taken.time]}
        <3>1. taken.ticket.kind = "launch"
            BY DEF monitor_spawn, TicketInv, Serving
        <3> QED
            BY <1>1, <2>2, <3>1 DEF TicketInv, TicketsAreEarned, Startable
    <2> QED
        BY <2>1, <2>2 DEF monitor_spawn
<1> QED
    BY <1>1, <1>2, <1>3 DEF TicketInv

\* So does the wineserver's taking a logon ticket.
LEMMA TakesKeeps ==
    ASSUME TicketInv, NEW u \in Users, wineserver_takes(u)
    PROVE  TicketInv'
<1>1. PICK k \in tickets :
          /\ k.kind = "logon" /\ k.for = u /\ k.expires >= now
          /\ tickets' = tickets \ {k}
          /\ uses' = [uses EXCEPT ![k.id] = @ + 1]
          /\ started' = started \cup {[ticket |-> k, by |-> u, time |-> now]}
    BY Zenon DEF wineserver_takes
<1>2. UNCHANGED <<now, monitor, drawn, proved, served>>
    BY DEF wineserver_takes
<1>3. Shapes' /\ Untaken' /\ UsedOnce'
    BY <1>1, <1>2, Takes, Zenon
<1>4. TicketsAreEarned'
    BY <1>1, <1>2 DEF TicketInv, TicketsAreEarned
<1> QED
    BY <1>2, <1>3, <1>4, ServingStays DEF TicketInv

\* So do a ticket of the wineserver's making, time, the monitor's death and
\* a restart.
LEMMA OthersKeep ==
    ASSUME TicketInv,
           \/ \E u \in Users, a \in Accounts : wineserver_makes(u, a)
           \/ Tick \/ MonitorDies \/ Restart \/ UNCHANGED vars
    PROVE  TicketInv'
<1>1. ASSUME NEW u \in Users, NEW a \in Accounts, wineserver_makes(u, a)
      PROVE  TicketInv'
    <2>1. Shapes' /\ Untaken' /\ UsedOnce'
        BY <1>1, Makes DEF wineserver_makes
    <2>2. Serving'
        BY <1>1, ServingStays DEF wineserver_makes
    <2>3. \A k \in tickets' \ tickets : k.kind = "launch"
        BY <1>1 DEF wineserver_makes, make_ticket
    <2>4. TicketsAreEarned'
        BY <1>1, <2>3 DEF wineserver_makes, TicketInv, TicketsAreEarned
    <2> QED
        BY <2>1, <2>2, <2>4 DEF TicketInv
<1>2. CASE Tick \/ MonitorDies \/ Restart \/ UNCHANGED vars
    <2> DEFINE Goes == /\ tickets' \subseteq tickets /\ now' \in Nat /\ monitor' \in {"up", "dead"}
                       /\ UNCHANGED <<drawn, uses, proved, started>>
    <2>0. now \in Nat /\ monitor \in {"up", "dead"}
        BY DEF TicketInv, Shapes
    <2>1. Goes
        <3>1. CASE Tick
            <4>1. now' = now + 1 /\ UNCHANGED <<tickets, monitor, drawn, uses, proved, started>>
                BY <3>1 DEF Tick
            <4> QED
                BY <4>1, <2>0
        <3>2. CASE MonitorDies
            BY <3>2, <2>0 DEF MonitorDies, past
        <3>3. CASE Restart
            BY <3>3, <2>0 DEF Restart
        <3>4. CASE UNCHANGED vars
            BY <3>4, <2>0 DEF vars, past
        <3> QED
            BY <1>2, <3>1, <3>2, <3>3, <3>4
    <2>2. Serving'
        BY <1>2, ServingStays, ServingDone, Zenon DEF Tick, MonitorDies, Restart, vars
    <2> QED
        BY <2>1, <2>2, Fewer, EarnedStays DEF TicketInv
<1> QED
    BY <1>1, <1>2

\* Every step keeps the invariant.
LEMMA TicketStep == TicketInv /\ [Next]_vars => TicketInv'
    BY LogonKeeps, CheckedKeeps, LaunchKeeps, SpawnKeeps, TakesKeeps, OthersKeep DEF Next

-----------------------------------------------------------------------------
(* The theorems.                                                           *)

\* A logon ticket is there, or was used, only for an account whose password its
\* requester had right, and nothing was ever started as root, the SYSTEM
\* account or, with a launch ticket, a service's account (handle_logon,
\* handle_launch, the monitor's spawn).
THEOREM EarnedTheorem == Spec => []TicketsAreEarned
<1>1. TicketInv => TicketsAreEarned
    BY DEF TicketInv
<1> QED
    BY TicketsInitially, TicketStep, <1>1, PTL DEF Spec

\* What a step does with tickets when the invariant holds before it.
LEMMA GoodOnceStep ==
    TicketInv /\ TicketInv' /\ [Next]_vars =>
        [/\ \A s \in started' \ started : s.by = s.ticket.for /\ s.time <= s.ticket.expires
         /\ \A n \in Names : uses'[n] <= 1
         /\ ~Restart => \A k \in tickets \ tickets' : uses'[k.id] > uses[k.id] \/ k.expires < now]_vars
<1> SUFFICES ASSUME TicketInv, TicketInv', Next
             PROVE  /\ \A s \in started' \ started : s.by = s.ticket.for /\ s.time <= s.ticket.expires
                    /\ ~Restart => \A k \in tickets \ tickets' : uses'[k.id] > uses[k.id] \/ k.expires < now
    BY DEF TicketInv, UsedOnce
<1> DEFINE Fits == \A s \in started' \ started : s.by = s.ticket.for /\ s.time <= s.ticket.expires
           Stays == \A k \in tickets \ tickets' : uses'[k.id] > uses[k.id] \/ k.expires < now
<1>1. ASSUME NEW u \in Users, NEW a \in Accounts, handle_logon(u, a) PROVE Fits /\ Stays
    <2>1. started' = started /\ tickets' = sweep_tickets
        BY <1>1 DEF handle_logon
    <2>2. ASSUME NEW k \in tickets \ tickets' PROVE k.expires < now
        <3>1. k \in Ticket /\ k.mtime \in Nat /\ now \in Nat /\ k.expires = k.mtime + Lifetime
            BY DEF TicketInv, Shapes, Untaken, Ticket
        <3>2. ~(k.mtime + 2 * Lifetime >= now)
            BY <2>1, <2>2 DEF sweep_tickets
        <3>3. Lifetime \in Nat
            OBVIOUS
        <3> QED
            BY <3>1, <3>2, <3>3
    <2> QED
        BY <2>1, <2>2
<1>2. ASSUME NEW u \in Users, NEW n \in Names, handle_launch(u, n) PROVE Fits /\ Stays
    <2>1. started' = started /\ UNCHANGED <<now, monitor, drawn>>
        BY <1>2 DEF handle_launch
    <2>2. PICK k \in tickets :
              k.id = n /\ tickets' = tickets \ {k} /\ uses' = [uses EXCEPT ![k.id] = @ + 1]
        BY <1>2, Zenon DEF handle_launch, unlink
    <2>3. uses'[k.id] = 1 /\ uses[k.id] = 0
        BY <2>1, <2>2, Takes, Zenon DEF TicketInv, Untaken
    <2> QED
        BY <2>1, <2>2, <2>3
<1>3. ASSUME NEW u \in Users, wineserver_takes(u) PROVE Fits /\ Stays
    <2>1. PICK k \in tickets :
              /\ k.for = u /\ k.expires >= now
              /\ tickets' = tickets \ {k}
              /\ uses' = [uses EXCEPT ![k.id] = @ + 1]
              /\ started' = started \cup {[ticket |-> k, by |-> u, time |-> now]}
        BY <1>3, Zenon DEF wineserver_takes
    <2>2. uses'[k.id] = 1 /\ uses[k.id] = 0
        BY <1>3, <2>1, Takes, Zenon DEF TicketInv, Untaken, wineserver_takes
    <2>3. now \in Nat /\ k.expires \in Nat
        BY DEF TicketInv, Shapes, Ticket
    <2> QED
        BY <2>1, <2>2, <2>3
<1>4. CASE monitor_spawn
    <2>1. tickets' = tickets
        BY <1>4 DEF monitor_spawn
    <2>2. taken.ticket.for = by /\ taken.time <= taken.ticket.expires
        BY <1>4 DEF monitor_spawn, TicketInv, Serving
    <2>3. \A s \in started' \ started : s.by = by /\ s.ticket = taken.ticket /\ s.time = taken.time
        BY <1>4 DEF monitor_spawn
    <2> QED
        BY <2>1, <2>2, <2>3
<1>5. ASSUME NEW good \in BOOLEAN, logon_checked(good) PROVE Fits /\ Stays
    BY <1>5 DEF logon_checked, make_ticket
<1>6. ASSUME NEW u \in Users, NEW a \in Accounts, wineserver_makes(u, a) PROVE Fits /\ Stays
    BY <1>6 DEF wineserver_makes, make_ticket
<1>7. CASE Tick \/ MonitorDies
    BY <1>7, Zenon DEF Tick, MonitorDies, past
<1>8. CASE Restart
    BY <1>8 DEF Restart
<1> QED
    BY <1>1, <1>2, <1>3, <1>4, <1>5, <1>6, <1>7, <1>8 DEF Next

\* A ticket is good once, for the requester it was made for, until it expires;
\* and until then only its use, or a restart of the service, takes it away
\* (handle_launch unlinks before it looks; sweep_tickets waits for twice the
\* lifetime).
THEOREM GoodOnceTheorem == Spec => TicketsAreGoodOnce
    BY TicketsInitially, TicketStep, GoodOnceStep, PTL DEF Spec, TicketsAreGoodOnce

-----------------------------------------------------------------------------
(* sg-elevated-run and those it answers to.                                *)

HIDE TicketConstants
USE DEF runVars, display, program, answering

Ended == {"zombie", "reaped"}

\* How far the broker's child is, by what it has written.
Answering ==
    /\ child = "start" <=> conn = <<>>
    /\ Len(conn) = 2 => child = "gone"
    /\ child \in {"start", "fork"} => run = "none" /\ prog = "none"

\* Whose parent the program has, and at which steps of sg-elevated-run it and
\* the X server can be there.
Staged ==
    /\ run = "none" /\ surface => prog = "none"
    /\ ~surface => run = "none"
    /\ run \in {"none", "setup", "handover", "forkx"} => x = "none"
    /\ run \in {"setup", "handover", "forkx", "display", "start"} => prog = "none"
    /\ run = "start" => x \in {"up", "ended"}
    /\ run = "wait" => prog # "none"
    /\ prog = "none" => \A k \in Kids : kids[k] = "unborn"

\* The code that is told, or exited with, is the program's.
Coded ==
    /\ exit = NoCode <=> prog \notin Ended
    /\ told # NoCode => prog = "reaped" /\ told = WEXITSTATUS(exit)
    /\ run \in {"reap", "exited"} =>
          \/ prog = "none" /\ rcode = NoDisplay
          \/ prog = "reaped" /\ rcode = WEXITSTATUS(exit)

\* What the requester was sent, and what it made of it.
Heard ==
    /\ Len(conn) = 2 =>
          \/ run = "killed"
          \/ run = "exited" /\ prog = "none" /\ conn[2] = NoDisplay
          \/ prog = "reaped" /\ conn[2] = WEXITSTATUS(exit)
    /\ client = "ended" => child = "gone" /\ (Len(conn) = 2 => code = ExitOf(conn[2]))

RunInv == RunTypeOK /\ Answering /\ Staged /\ Coded /\ Heard /\ NothingLeftBehind

USE CodesAssumption DEF Killed, NoDisplay

-----------------------------------------------------------------------------
\* Eight bits of any exit code are a byte, and so are the codes of the
\* programs' own.
LEMMA Bytes == (\A w \in Nat : WEXITSTATUS(w) \in Byte) /\ {0, 125, 137, 255} \subseteq Byte
    BY DEF WEXITSTATUS, Byte

\* The second thing the broker's child writes is the last.
LEMMA Second ==
  ASSUME RunTypeOK, Answering, child \in {"read", "wait"}, NEW c \in Byte, Answer(c)
  PROVE  conn' \in Seq(Byte) /\ Len(conn') = 2 /\ conn'[2] = c
<1>1. conn \in Seq(Byte) /\ Len(conn) <= 2
    BY DEF RunTypeOK
<1>2. conn # <<>> /\ Len(conn) # 2
    BY DEF Answering
<1>3. Len(conn) \in Nat /\ Len(conn) # 0
    BY <1>1, <1>2, EmptySeq, LenProperties
<1>4. conn' = Append(conn, c)
    BY DEF Answer
<1>5. /\ Append(conn, c) \in Seq(Byte)
      /\ Len(Append(conn, c)) = Len(conn) + 1
      /\ Append(conn, c)[Len(conn) + 1] = c
    BY <1>1, AppendProperties
<1>6. Len(conn) + 1 = 2
  <2>1. \A n \in Nat : n <= 2 /\ n # 2 /\ n # 0 => n + 1 = 2
    OBVIOUS
  <2> QED
    BY <1>1, <1>2, <1>3, <2>1, Zenon
<1> QED
    BY <1>4, <1>5, <1>6

\* The variables keep their types: every code that is passed on has eight bits.
LEMMA TypeStep == ASSUME RunInv, [RunNext]_runVars PROVE RunTypeOK'
<1>a. RunTypeOK /\ Answering /\ Coded
    BY DEF RunInv
<1>b. (\A w \in Nat : WEXITSTATUS(w) \in Byte) /\ {0, 125, 137, 255} \subseteq Byte
    BY Bytes
<1>c. exit \in Nat \cup {NoCode}
    BY <1>a DEF RunTypeOK, NoProgram
<1> USE DEF RunTypeOK, Runs
<1>1. CASE launch_answers
  <2>1. conn' \in Seq(Byte) /\ Len(conn') <= 2
    BY <1>a, <1>b, <1>1 DEF Answering, launch_answers
  <2>2. term' \in BOOLEAN /\ lost' \in BOOLEAN
    BY <1>a, <1>1, Zenon DEF launch_answers
  <2> QED
    BY <1>a, <1>1, <2>1, <2>2 DEF launch_answers
<1>2. CASE launch_forks
    BY <1>a, <1>b, <1>2 DEF launch_forks
<1>3. CASE program_code
  <2>1. CASE told # NoCode /\ Answer(told)
    <3>1. told \in Byte
      BY <1>a, <2>1
    <3>2. conn' \in Seq(Byte) /\ Len(conn') = 2
      BY <1>a, <1>3, <2>1, <3>1, Second DEF program_code
    <3> QED
      BY <1>a, <1>3, <2>1, <3>2 DEF program_code, Answer
  <2>2. CASE child' = "wait" /\ UNCHANGED conn
    BY <1>a, <1>3, <2>2 DEF program_code
  <2> QED
    BY <1>3, <2>1, <2>2 DEF program_code
<1>4. CASE program_code_waits
  <2>1. run = "exited" => rcode \in Byte
    BY <1>a, <1>b, <1>c DEF Coded, Ended
  <2>2. prog = "zombie" => WEXITSTATUS(exit) \in Byte
    BY <1>a, <1>b, <1>c DEF Coded, Ended
  <2>3. PICK c \in Byte : Answer(c)
    BY <1>b, <1>4, <2>1, <2>2 DEF program_code_waits
  <2>4. conn' \in Seq(Byte) /\ Len(conn') = 2 /\ child' = "gone"
    BY <1>a, <1>4, <2>3, Second DEF program_code_waits, Answer
  <2> QED
    BY <1>a, <1>4, <2>4 DEF program_code_waits
<1>5. CASE setup
    BY <1>a, <1>b, <1>5 DEF setup, Exits
<1>6. CASE hand_over
    BY <1>a, <1>b, <1>6 DEF hand_over, Exits
<1>7. CASE fork_xwayland
    BY <1>a, <1>b, <1>7 DEF fork_xwayland, Exits
<1>8. CASE wait_display
  <2>1. told' \in Byte \cup {NoCode} /\ rcode' \in Byte \cup {NoCode}
    BY <1>a, <1>b, <1>c, <1>8 DEF Coded, Ended, wait_display
  <2>2. term' \in BOOLEAN /\ lost' \in BOOLEAN
    BY <1>a, <1>8, Zenon DEF wait_display
  <2> QED
    BY <1>a, <1>b, <1>8, <2>1, <2>2 DEF wait_display
<1>9. CASE fork_program
  <2>1. told' \in Byte \cup {NoCode} /\ rcode' \in Byte \cup {NoCode}
    BY <1>a, <1>b, <1>c, <1>9 DEF Coded, Ended, fork_program, Exits
  <2>2. term' \in BOOLEAN /\ lost' \in BOOLEAN
    BY <1>a, <1>9, Zenon DEF fork_program, Exits
  <2> QED
    BY <1>a, <1>b, <1>9, <2>1, <2>2 DEF fork_program, Exits
<1>10. CASE wait_program
  <2>1. told' \in Byte \cup {NoCode} /\ rcode' \in Byte \cup {NoCode}
    BY <1>a, <1>b, <1>c, <1>10 DEF Coded, Ended, wait_program, tell_exit
  <2>2. term' \in BOOLEAN /\ lost' \in BOOLEAN
    BY <1>a, <1>10, Zenon DEF wait_program, tell_exit
  <2> QED
    BY <1>a, <1>b, <1>10, <2>1, <2>2 DEF wait_program, tell_exit
<1>11. CASE wait_others
  <2>1. told' \in Byte \cup {NoCode} /\ rcode' \in Byte \cup {NoCode}
    BY <1>a, <1>b, <1>c, <1>11 DEF Coded, Ended, wait_others, tell_exit, NothingLeft
  <2>2. term' \in BOOLEAN /\ lost' \in BOOLEAN
    BY <1>a, <1>11, Zenon DEF wait_others, tell_exit, NothingLeft
  <2> QED
    BY <1>a, <1>b, <1>11, <2>1, <2>2 DEF wait_others, tell_exit, NothingLeft
<1>12. CASE reap_xwayland
    BY <1>a, <1>b, <1>12 DEF reap_xwayland, Exits, rm_dir
<1>13. CASE RunKilled
    BY <1>a, <1>b, <1>13 DEF RunKilled
<1>14. CASE xwayland_arms
    BY <1>a, <1>b, <1>14 DEF xwayland_arms, RunnerGone
<1>15. CASE XReady
    BY <1>a, <1>b, <1>15 DEF XReady
<1>16. CASE XEnds
    BY <1>a, <1>b, <1>16 DEF XEnds
<1>17. CASE ReadStatus
    BY <1>a, <1>b, <1>17 DEF ReadStatus
<1>18. CASE ReadCode
  <2>1. code' \in Byte \cup {NoCode}
    BY <1>a, <1>b, <1>18 DEF ReadCode, ExitOf
  <2> QED
    BY <1>a, <1>b, <1>18, <2>1 DEF ReadCode, ExitOf
<1>19. CASE ClientKilled
    BY <1>a, <1>b, <1>19 DEF ClientKilled
<1>20. ASSUME NEW w \in Codes \cup {Killed, NoProgram}, ProgramEnds(w) PROVE RunTypeOK'
    BY <1>a, <1>20 DEF ProgramEnds
<1>21. ASSUME NEW k \in Kids, KidStarts(k) \/ KidEnds(k) PROVE RunTypeOK'
    BY <1>a, <1>21 DEF KidStarts, KidEnds
<1>22. CASE UNCHANGED runVars
    BY <1>a, <1>22
<1> QED
    BY <1>1, <1>2, <1>3, <1>4, <1>5, <1>6, <1>7, <1>8, <1>9, <1>10, <1>11, <1>12, <1>13, <1>14, <1>15, <1>16, <1>17, <1>18, <1>19, <1>20, <1>21, <1>22
    DEF RunNext, BrokerChild, Runner, XServer, Requester

\* Every step keeps what the broker's child has written, the stages of
\* sg-elevated-run, the codes and what the requester made of them in order.
LEMMA OrderStep ==
  ASSUME RunInv, [RunNext]_runVars
  PROVE  Answering' /\ Staged' /\ Coded' /\ Heard' /\ NothingLeftBehind'
<1>a. RunTypeOK /\ Answering /\ Staged /\ Coded /\ Heard /\ NothingLeftBehind
    BY DEF RunInv
<1> USE DEF RunTypeOK, Answering, Staged, Coded, Heard, NothingLeftBehind, Ended
<1>1. CASE launch_answers
    BY <1>a, <1>1 DEF launch_answers
<1>2. CASE launch_forks
    BY <1>a, <1>2 DEF launch_forks
<1>3. CASE program_code
    BY <1>a, <1>3 DEF program_code, Answer
<1>4. CASE program_code_waits
    BY <1>a, <1>4 DEF program_code_waits, Answer
<1>5. CASE setup
    BY <1>a, <1>5 DEF setup, Exits
<1>6. CASE hand_over
    BY <1>a, <1>6 DEF hand_over, Exits
<1>7. CASE fork_xwayland
    BY <1>a, <1>7 DEF fork_xwayland, Exits
<1>8. CASE wait_display
    BY <1>a, <1>8 DEF wait_display
<1>9. CASE fork_program
    BY <1>a, <1>9 DEF fork_program, Exits
<1>10. CASE wait_program
    BY <1>a, <1>10 DEF wait_program, tell_exit
<1>11. CASE wait_others
    BY <1>a, <1>11 DEF wait_others, tell_exit, NothingLeft
<1>12. CASE reap_xwayland
    BY <1>a, <1>12 DEF reap_xwayland, Exits, rm_dir
<1>13. CASE RunKilled
    BY <1>a, <1>13 DEF RunKilled
<1>14. CASE xwayland_arms
    BY <1>a, <1>14 DEF xwayland_arms, RunnerGone
<1>15. CASE XReady
    BY <1>a, <1>15 DEF XReady
<1>16. CASE XEnds
    BY <1>a, <1>16 DEF XEnds
<1>17. CASE ReadStatus
    BY <1>a, <1>17 DEF ReadStatus
<1>18. CASE ReadCode
    BY <1>a, <1>18 DEF ReadCode, ExitOf
<1>19. CASE ClientKilled
    BY <1>a, <1>19 DEF ClientKilled
<1>20. ASSUME NEW w \in Codes \cup {Killed, NoProgram}, ProgramEnds(w) PROVE Answering' /\ Staged' /\ Coded' /\ Heard' /\ NothingLeftBehind'
    BY <1>a, <1>20 DEF ProgramEnds, NoProgram
<1>21. ASSUME NEW k \in Kids, KidStarts(k) \/ KidEnds(k) PROVE Answering' /\ Staged' /\ Coded' /\ Heard' /\ NothingLeftBehind'
    BY <1>a, <1>21 DEF KidStarts, KidEnds
<1>22. CASE UNCHANGED runVars
    BY <1>a, <1>22
<1> QED
    BY <1>1, <1>2, <1>3, <1>4, <1>5, <1>6, <1>7, <1>8, <1>9, <1>10, <1>11, <1>12, <1>13, <1>14, <1>15, <1>16, <1>17, <1>18, <1>19, <1>20, <1>21, <1>22, Zenon
    DEF RunNext, BrokerChild, Runner, XServer, Requester

\* The invariant holds throughout, for any codes and any processes the program
\* leaves running.
THEOREM RunInvariance == RunSpec => []RunInv
<1>1. RunInit => RunInv
  <2> SUFFICES ASSUME RunInit PROVE RunInv
    OBVIOUS
  <2>0. conn \in Seq(Byte) /\ Len(conn) <= 2
    BY EmptySeq DEF RunInit
  <2>1. RunTypeOK
    BY <2>0, Zenon DEF RunInit, RunTypeOK, Runs
  <2>2. Answering /\ Staged /\ Coded /\ Heard /\ NothingLeftBehind
    BY DEF RunInit, Answering, Staged, Coded, Heard, NothingLeftBehind, Ended
  <2> QED
    BY <2>1, <2>2 DEF RunInv
<1>2. RunInv /\ [RunNext]_runVars => RunInv'
    BY TypeStep, OrderStep DEF RunInv
<1> QED
    BY <1>1, <1>2, PTL DEF RunSpec

\* The code a requester was sent is the program's own, whatever the program
\* left running and whichever of the five processes ended first: never that of
\* a program that still runs, and 125 or 127 for one that never ran.
THEOREM HearsTheorem == RunSpec => []RequesterHearsTheProgram
<1>1. RunInv => RequesterHearsTheProgram
  <2> SUFFICES ASSUME RunInv, client = "ended", Len(conn) = 2, run # "killed"
               PROVE  IF prog = "none" THEN code \in {125, 127}
                      ELSE prog # "running" /\ code = ExitOf(WEXITSTATUS(exit))
    BY DEF RequesterHearsTheProgram
  <2>1. code = ExitOf(conn[2])
    BY DEF RunInv, Heard
  <2>2. CASE run = "exited" /\ prog = "none" /\ conn[2] = NoDisplay
    BY <2>1, <2>2 DEF ExitOf
  <2>3. CASE prog = "reaped" /\ conn[2] = WEXITSTATUS(exit)
    BY <2>1, <2>3
  <2> QED
    BY <2>2, <2>3 DEF RunInv, Heard
<1> QED
    BY RunInvariance, <1>1, PTL

\* sg-elevated-run takes the display away only when the program and all that it
\* started have ended, and whichever step of its setup fails it leaves neither a
\* written cookie nor an X server that was not told to end.
THEOREM NothingLeftTheorem == RunSpec => []NothingLeftBehind
<1>1. RunInv => NothingLeftBehind
    BY DEF RunInv
<1> QED
    BY RunInvariance, <1>1, PTL

\* The variables of the five processes have their types; every code that passes
\* between them has eight bits.
THEOREM RunTypes == RunSpec => []RunTypeOK
<1>1. RunInv => RunTypeOK
    BY DEF RunInv
<1> QED
    BY RunInvariance, <1>1, PTL
=============================================================================
