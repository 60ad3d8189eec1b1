---------------------------- MODULE ScreenSaver -----------------------------
(***************************************************************************)
(* The session's screen saver service (sg-screensaverd).  Programs on the  *)
(* session bus take and give back inhibitions; while any is held the       *)
(* service keeps a connection to the compositor on which it said INHIBIT.  *)
(* The bus delivers in order, so the news that a program has gone comes    *)
(* after everything that program asked for.                                *)
(***************************************************************************)
EXTENDS Naturals, Sequences, SequencesExt, FiniteSets

CONSTANTS Programs,    \* bus names; one is never given twice
          CookieMod,   \* cookies are counted modulo this (2^32 in the code)
          Slots,       \* the first size of the table (8 in the code)
          MaxCalls,    \* bound: messages waiting on the bus
          MaxHeld      \* bound: inhibitions held at once

ASSUME SaverConstants ==
    /\ {CookieMod, Slots, MaxCalls, MaxHeld} \subseteq Nat \ {0}
    /\ CookieMod > 1 /\ IsFiniteSet(Programs)

VARIABLES
    held,         \* held[0..n_held): the inhibitions, in the table's order
    size_held,    \* the table's size
    next_cookie,
    inhibit_fd,   \* the INHIBIT connection is open
    bus,          \* messages for the service, not yet dispatched
    here,         \* programs still connected to the bus
    granted       \* history: inhibitions each was given and has not given back

saverVars == <<held, size_held, next_cookie, inhibit_fd, bus, here, granted>>

Cookies == 0..(CookieMod - 1)
Calls == [call : {"Inhibit", "gone", "other"}, from : Programs]
         \cup [call : {"UnInhibit"}, from : Programs, cookie : Cookies]

SaverTypeOK ==
    /\ held \in Seq([cookie : Cookies, owner : Programs])
    /\ size_held \in Nat /\ Len(held) <= size_held
    /\ next_cookie \in Cookies \ {0}
    /\ inhibit_fd \in BOOLEAN
    /\ bus \in Seq(Calls) /\ here \subseteq Programs
    /\ granted \in [Programs -> Nat]

SaverInit ==
    /\ held = <<>> /\ size_held = 0 /\ next_cookie = 1 /\ inhibit_fd = FALSE
    /\ bus = <<>> /\ here = Programs /\ granted = [p \in Programs |-> 0]

-----------------------------------------------------------------------------
(* The programs and the bus.                                               *)

Sends(m) ==
    /\ Len(bus) < MaxCalls /\ bus' = Append(bus, m)
    /\ UNCHANGED <<held, size_held, next_cookie, inhibit_fd, granted>>

IsInhibit(m) == m.call = "Inhibit"

\* A program asks, gives a cookie back (perhaps another's), or goes, with or
\* without giving anything back.
Asks(p) ==
    /\ p \in here /\ UNCHANGED here
    /\ \/ /\ Len(held) + Len(SelectSeq(bus, IsInhibit)) < MaxHeld
          /\ Sends([call |-> "Inhibit", from |-> p])
       \/ Sends([call |-> "other", from |-> p])
       \/ \E k \in Cookies : Sends([call |-> "UnInhibit", from |-> p, cookie |-> k])

Goes(p) ==
    /\ p \in here /\ here' = here \ {p}
    /\ bus' = Append(bus, [call |-> "gone", from |-> p])
    /\ UNCHANGED <<held, size_held, next_cookie, inhibit_fd, granted>>

-----------------------------------------------------------------------------
(* The service: handle_message, one message at a time.                     *)

\* What holding the idle off comes to when the table becomes h: the compositor
\* may refuse, or not answer within two seconds.
update_hold(h) ==
    inhibit_fd' \in IF h # <<>> /\ ~inhibit_fd THEN BOOLEAN
                    ELSE {inhibit_fd /\ h # <<>>}

\* The last one takes the place of the one dropped.
drop(h, i) == Front([h EXCEPT ![i] = Last(h)])

\* Cookie 0 says that there is no memory, so it is never given.
\* (Variant: the count is let run over.)
Advance_RunsOver(c) == (c + 1) % CookieMod
Advance(c) == IF (c + 1) % CookieMod = 0 THEN 1 ELSE (c + 1) % CookieMod

\* The table may have to grow, and may fail to.
add(p) ==
    /\ size_held' = IF Len(held) < size_held THEN size_held
                    ELSE IF size_held = 0 THEN Slots ELSE 2 * size_held
    /\ held' = Append(held, [cookie |-> next_cookie, owner |-> p])
    /\ next_cookie' = Advance(next_cookie)
    /\ granted' = [granted EXCEPT ![p] = @ + (IF next_cookie = 0 THEN 0 ELSE 1)]

Dispatch(call) == bus # <<>> /\ Head(bus).call = call /\ bus' = Tail(bus) /\ UNCHANGED here

Inhibit ==
    /\ Dispatch("Inhibit")
    /\ \/ /\ add(Head(bus).from)
          /\ IF next_cookie = 0 THEN UNCHANGED inhibit_fd ELSE update_hold(held')
       \/ /\ Len(held) = size_held
          /\ UNCHANGED <<held, size_held, next_cookie, inhibit_fd, granted>>

\* The inhibitions p may give back as cookie k.
Mine(p, k) == {i \in DOMAIN held : held[i].cookie = k /\ held[i].owner = p}

UnInhibit ==
    /\ Dispatch("UnInhibit") /\ UNCHANGED <<size_held, next_cookie>>
    /\ LET p == Head(bus).from
           mine == Mine(p, Head(bus).cookie)
       IN  IF mine = {} THEN UNCHANGED <<held, inhibit_fd, granted>>
           ELSE LET i == CHOOSE j \in mine : \A k \in mine : j <= k IN
                /\ held' = drop(held, i) /\ update_hold(held')
                /\ granted' = [granted EXCEPT ![p] = @ - 1]

\* The program's inhibitions go, one after the other: the one moved into the
\* place of a dropped one is looked at too.  (Variant: it is passed over.)
RECURSIVE sweep_PassesOver(_, _, _)
sweep_PassesOver(h, p, i) ==
    IF i > Len(h) THEN h
    ELSE IF h[i].owner = p THEN sweep_PassesOver(drop(h, i), p, i + 1)
    ELSE sweep_PassesOver(h, p, i + 1)
RECURSIVE sweep(_, _, _)
sweep(h, p, i) ==
    IF i > Len(h) THEN h
    ELSE IF h[i].owner = p THEN sweep(drop(h, i), p, i)
    ELSE sweep(h, p, i + 1)

NameOwnerChanged ==
    /\ Dispatch("gone") /\ UNCHANGED <<size_held, next_cookie>>
    /\ held' = sweep(held, Head(bus).from, 1) /\ update_hold(held')
    /\ granted' = [granted EXCEPT ![Head(bus).from] = 0]

\* SimulateUserActivity, Lock, SetActive, GetActive and the rest talk to the
\* compositor on a connection of their own, and close it.
OtherCall ==
    /\ Dispatch("other")
    /\ UNCHANGED <<held, size_held, next_cookie, inhibit_fd, granted>>

SaverService == Inhibit \/ UnInhibit \/ NameOwnerChanged \/ OtherCall

SaverNext == SaverService \/ \E p \in Programs : Asks(p) \/ Goes(p)

-----------------------------------------------------------------------------
(* What it promises.                                                       *)

\* The table agrees with the answers: a program has as many inhibitions as it
\* was given cookies for and has not given back, however often the count of
\* cookies has come round and whoever else named its cookies.  And "an
\* inhibition goes when its program says so or when the program's bus connection
\* goes away": whatever is held belongs to a program that is there, or whose
\* departure has not been dispatched yet.
HeldAsAnswered ==
    /\ \A p \in Programs : Cardinality({i \in DOMAIN held : held[i].owner = p}) = granted[p]
    /\ \A i \in DOMAIN held :
          \/ held[i].owner \in here
          \/ \E j \in DOMAIN bus : bus[j] = [call |-> "gone", from |-> held[i].owner]

\* When the last program has gone, the computer may idle again.
HoldGoesWithPrograms == []<>(here = {} => ~inhibit_fd)
=============================================================================
