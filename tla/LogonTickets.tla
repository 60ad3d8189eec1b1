---------------------------- MODULE LogonTickets ----------------------------
(***************************************************************************)
(* sg-brokerd's "@logon" (LogonUser) and "@launch" (run as another         *)
(* account): a password is checked and becomes a one-time ticket, a file   *)
(* in the SYSTEM account's directory; the wineserver takes a logon ticket  *)
(* and makes a token of it, and makes launch tickets that the broker takes *)
(* and the root monitor starts a program for.  A table of a fixed number   *)
(* of slots limits how fast one requester may fail.                        *)
(*                                                                         *)
(* The broker serves one connection at a time; the clock runs on, and the  *)
(* wineserver works, between any two of its steps.                         *)
(***************************************************************************)
EXTENDS Naturals, Sequences, FiniteSets

CONSTANTS Users,       \* requesters, and accounts of people
          Barred,      \* root and the SYSTEM account: no logon
          Services,    \* other accounts below uid 1000: nothing is started as them
          NoUser,      \* nobody
          Names,       \* ticket names, 128 random bits each: never drawn twice
          NoTicket,    \* no ticket
          Slots,       \* entries of g_logon_rate (64)
          Limit,       \* SG_LOGON_FAILURES (5)
          Window,      \* LOGON_WINDOW (60 s)
          Lifetime,    \* TICKET_LIFETIME (30 s)
          MaxTime      \* bound: the clock stops here

ASSUME TicketConstants ==
    /\ {Slots, Limit, Window, Lifetime} \subseteq Nat \ {0} /\ MaxTime \in Nat
    /\ NoUser \notin Users \cup Barred \cup Services
    /\ Users \cap (Barred \cup Services) = {}

Accounts == Users \cup Barred \cup Services

VARIABLES
    now,       \* time(NULL)
    rate,      \* g_logon_rate; a slot whose start is 0 is free
    tickets,   \* the files in g_ticket_dir
    monitor,   \* the root monitor: "up" or "dead"
    at,        \* the broker: "idle", "pam" (a password is being checked),
               \* "spawn" (a program is being started)
    by,        \* who is served
    target,    \* the account it asks for
    taken,     \* the launch ticket it has taken, and when
    drawn,     \* history: the names tickets were given
    uses,      \* history: how often each ticket was taken
    proved,    \* history: for whom, to which account, the password was right
               \* when a ticket was made
    started,   \* history: programs started, and tokens made, from tickets
    window,    \* history: window[u], what a table without a limit would hold
    fails      \* history: when u failed, in the last Window seconds

served == <<at, by, target, taken>>
past   == <<drawn, uses, proved, started, window, fails>>
vars   == <<now, rate, tickets, monitor, served, past>>

Slot   == [uid: Users \cup {NoUser}, start: 0..MaxTime, failures: 0..Limit]
Ticket == [id: Names, kind: {"logon", "launch"}, uid: Accounts, for: Users,
           expires: Nat, mtime: Nat]
Free   == [uid |-> NoUser, start |-> 0, failures |-> 0]

TypeOK ==
    /\ now \in 1..MaxTime
    /\ rate \in [1..Slots -> Slot]
    /\ tickets \subseteq Ticket
    /\ monitor \in {"up", "dead"}
    /\ at \in {"idle", "pam", "spawn"}
    /\ by \in Users \cup {NoUser} /\ target \in Accounts \cup {NoUser}
    /\ taken \in [ticket: Ticket, time: Nat] \cup {NoTicket}
    /\ drawn \subseteq Names /\ uses \in [Names -> Nat]
    /\ proved \subseteq [id: Names, for: Users, uid: Accounts]
    /\ started \subseteq [ticket: Ticket, by: Users, time: Nat]
    /\ window \in [Users -> Slot]
    /\ fails \in [Users -> Seq(Nat)]

Init ==
    /\ now = 1 /\ monitor = "up"
    /\ rate = [i \in 1..Slots |-> Free] /\ tickets = {}
    /\ at = "idle" /\ by = NoUser /\ target = NoUser /\ taken = NoTicket
    /\ drawn = {} /\ uses = [n \in Names |-> 0] /\ proved = {} /\ started = {}
    /\ window = [u \in Users |-> Free] /\ fails = [u \in Users |-> <<>>]

-----------------------------------------------------------------------------
(* The limit on failures.                                                  *)

\* u's slot; when there is none, the first of those that began longest ago,
\* free ones (start 0) before all.
\* (Variant: always the first.)
SlotOf_First(u) == IF \E i \in 1..Slots : rate[i].uid = u /\ rate[i].start # 0
                   THEN CHOOSE i \in 1..Slots : rate[i].uid = u /\ rate[i].start # 0 ELSE 1
SlotOf(u) ==
    IF \E i \in 1..Slots : rate[i].uid = u /\ rate[i].start # 0
    THEN CHOOSE i \in 1..Slots : rate[i].uid = u /\ rate[i].start # 0
    ELSE CHOOSE i \in 1..Slots : \A j \in 1..Slots :
            rate[i].start < rate[j].start \/ (rate[i].start = rate[j].start /\ i <= j)

\* A slot brought up to date: taken over when it is another's, begun anew
\* when its window has passed, with f more failures.
Counted(s, u, f) ==
    LET mine == s.uid = u /\ s.start # 0 /\ now - s.start < Window
    IN  [uid |-> u, start |-> IF mine THEN s.start ELSE now,
         failures |-> (IF mine THEN s.failures ELSE 0) + f]

\* (Variant: one failure more.)
Limited_OneMore(s) == s.failures > Limit
Limited(s) == s.failures >= Limit

\* logon_rate_limited(u, f): what it leaves in the table (and would in one
\* that has a slot for everybody).
logon_rate_limited(u, f) ==
    /\ rate' = [rate EXCEPT ![SlotOf(u)] = Counted(@, u, f)]
    /\ window' = [window EXCEPT ![u] = Counted(@, u, f)]

Failed(u) == fails' = [fails EXCEPT ![u] = Append(@, now)]

-----------------------------------------------------------------------------
(* "@logon".                                                               *)

sweep_tickets == {k \in tickets : k.mtime + 2 * Lifetime >= now}

\* Old tickets go; a requester over the limit, and a logon to an account that
\* has none, are refused here; else the monitor is asked.
handle_logon(u, a) ==
    /\ at = "idle"
    /\ tickets' = sweep_tickets
    /\ LET limited == Limited(Counted(rate[SlotOf(u)], u, 0)) IN
       \/ /\ limited
          /\ logon_rate_limited(u, 0) /\ UNCHANGED <<served, fails>>
       \/ /\ ~limited /\ a \in Barred
          /\ logon_rate_limited(u, 1) /\ Failed(u)
          /\ UNCHANGED served
       \/ /\ ~limited /\ a \notin Barred
          /\ logon_rate_limited(u, 0)
          /\ at' = "pam" /\ by' = u /\ target' = a /\ UNCHANGED <<taken, fails>>
    /\ UNCHANGED <<now, monitor, drawn, uses, proved, started>>

Done == at' = "idle" /\ by' = NoUser /\ target' = NoUser /\ taken' = NoTicket

\* The password is wrong, or there is no monitor to say that it is right.
\* (Variant: without a monitor every password is right.)
Refuses_FailsOpen(good) == ~good /\ monitor = "up"
Refuses(good) == ~good \/ monitor = "dead"

make_ticket(kind, a, u) ==
    \E n \in Names \ drawn :
        /\ drawn' = drawn \cup {n}
        /\ tickets' = tickets \cup {[id |-> n, kind |-> kind, uid |-> a, for |-> u,
                                     expires |-> now + Lifetime, mtime |-> now]}

\* PAM's answer: a ticket (which may not be written), or one more failure.
logon_checked(good) ==
    /\ at = "pam"
    /\ \/ /\ Refuses(good)
          /\ logon_rate_limited(by, 1) /\ Failed(by)
          /\ UNCHANGED <<tickets, drawn>>
       \/ /\ ~Refuses(good)
          /\ make_ticket("logon", target, by) \/ UNCHANGED <<tickets, drawn>>
          /\ UNCHANGED <<rate, window, fails>>
    /\ proved' = IF good /\ monitor = "up"
                 THEN proved \cup {[id |-> n, for |-> by, uid |-> target] : n \in drawn' \ drawn} ELSE proved
    /\ Done
    /\ UNCHANGED <<now, monitor, uses, started>>

-----------------------------------------------------------------------------
(* "@launch".                                                              *)

\* A ticket is taken (unlinked) once it is one to launch with and the
\* requester's own; then it must not have expired.  (Variant: it is not
\* unlinked.)
unlink_Kept(k) == tickets
unlink(k) == tickets \ {k}
Expired(k) == k.expires < now

handle_launch(u, n) ==
    /\ at = "idle"
    /\ \E k \in tickets :
         /\ k.id = n /\ k.kind = "launch" /\ k.for = u
         /\ tickets' = unlink(k)
         /\ uses' = [uses EXCEPT ![n] = @ + 1]
         /\ IF Expired(k)
            THEN UNCHANGED served
            ELSE /\ at' = "spawn" /\ by' = u /\ taken' = [ticket |-> k, time |-> now]
                 /\ UNCHANGED target
    /\ UNCHANGED <<now, rate, monitor, drawn, proved, started, window, fails>>

\* The monitor starts nothing as root, the SYSTEM account or a service's
\* account.
Startable(a) == a \in Users

monitor_spawn ==
    /\ at = "spawn"
    /\ \/ /\ monitor = "up" /\ Startable(taken.ticket.uid)
          /\ started' = started \cup {[ticket |-> taken.ticket, by |-> by, time |-> taken.time]}
       \/ UNCHANGED started
    /\ Done
    /\ UNCHANGED <<now, rate, tickets, monitor, drawn, uses, proved, window, fails>>

-----------------------------------------------------------------------------
(* Around the broker.                                                      *)

\* The wineserver takes a logon ticket once, from its requester.
wineserver_takes(u) ==
    /\ \E k \in tickets :
         /\ k.kind = "logon" /\ k.for = u /\ k.expires >= now
         /\ tickets' = tickets \ {k}
         /\ uses' = [uses EXCEPT ![k.id] = @ + 1]
         /\ started' = started \cup {[ticket |-> k, by |-> u, time |-> now]}
    /\ UNCHANGED <<now, rate, monitor, served, drawn, proved, window, fails>>

\* It makes a ticket to launch a program with.
wineserver_makes(u, a) ==
    /\ make_ticket("launch", a, u)
    /\ UNCHANGED <<now, rate, monitor, served, uses, proved, started, window, fails>>

Tick ==
    /\ now < MaxTime /\ now' = now + 1
    /\ fails' = [u \in Users |-> SelectSeq(fails[u], LAMBDA t : t + Window > now')]
    /\ UNCHANGED <<rate, tickets, monitor, served, drawn, uses, proved, started, window>>

MonitorDies ==
    /\ monitor = "up" /\ monitor' = "dead"
    /\ UNCHANGED <<now, rate, tickets, served, past>>

\* The service fails and is started again: its runtime directory, with the
\* tickets, and its table are new.
Restart ==
    /\ monitor' = "up" /\ tickets' = {}
    /\ rate' = [i \in 1..Slots |-> Free]
    /\ window' = [u \in Users |-> Free] /\ fails' = [u \in Users |-> <<>>]
    /\ Done
    /\ UNCHANGED <<now, drawn, uses, proved, started>>

Next ==
    \/ \E u \in Users, a \in Accounts : handle_logon(u, a) \/ wineserver_makes(u, a)
    \/ \E good \in BOOLEAN : logon_checked(good)
    \/ \E u \in Users, n \in Names : handle_launch(u, n)
    \/ \E u \in Users : wineserver_takes(u)
    \/ monitor_spawn \/ Tick \/ MonitorDies \/ Restart

Spec == Init /\ [][Next]_vars

-----------------------------------------------------------------------------
(* What the tickets and the limit promise.                                 *)

\* A ticket is good once, for the requester it was made for, until it
\* expires -- whatever was started or logged on with one was by its own
\* requester, in time, and no ticket was taken twice -- and it is good until
\* then: nothing but its use takes it away before, neither the sweep of
\* another requester's logon nor a failed attempt (a restart of the service
\* takes all).
TicketsAreGoodOnce ==
    [][/\ \A s \in started' \ started : s.by = s.ticket.for /\ s.time <= s.ticket.expires
       /\ \A n \in Names : uses'[n] <= 1
       /\ ~Restart => \A k \in tickets \ tickets' : uses'[k.id] > uses[k.id] \/ k.expires < now]_vars

\* A logon ticket exists, or was taken, only for an account whose password
\* its requester had right, and nothing was ever started as root, the SYSTEM
\* account or, with a launch ticket, a service's account.
TicketsAreEarned ==
    /\ \A k \in tickets \cup {s.ticket : s \in started} :
          k.kind = "logon" => [id |-> k.id, for |-> k.for, uid |-> k.uid] \in proved /\ k.uid \notin Barred
    /\ \A s \in started : s.ticket.kind = "launch" => s.ticket.uid \in Users

\* "LOGON_FAILURES failures in LOGON_WINDOW seconds, then every request is
\* refused, without asking PAM, until the window has passed".  Windows follow
\* each other and do not slide, so a requester can fail more than Limit times
\* within Window seconds across the end of one; but never more than twice as
\* often.
LimitHolds ==
    [][/\ at = "idle" /\ at' = "pam" => ~Limited(window'[by'])
       /\ \A u \in Users : Len(fails'[u]) <= 2 * Limit]_vars
=============================================================================
