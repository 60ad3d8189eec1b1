-------------------------------- MODULE Oobe --------------------------------
(***************************************************************************)
(* The first-run setup: the wizard (setup/sg-oobe.c, a Windows program     *)
(* with a reader thread), its bridge (sg-setup-bridge --oobe) and the root *)
(* service behind it (setup/sg-oobed), which answers one line after the    *)
(* other and changes the machine.  The power may go at any time; while     *)
(* oobe.pending exists the next start runs the wizard again.  Regions,     *)
(* privacy switches and the browser are carried like the layouts and are   *)
(* left out.                                                               *)
(***************************************************************************)
EXTENDS Integers, Sequences

CONSTANTS NLayouts,      \* keyboard layouts, 0 .. NLayouts - 1
          Scans(_),      \* the networks a scan may give, when offline and when online
          MaxLinesAhead, \* bound: lines under way when a person does something
          MaxCuts        \* bound: times the power goes

ASSUME OobeConstants ==
    NLayouts \in Nat \ {0, 1} /\ MaxLinesAhead \in Nat \ {0} /\ MaxCuts \in Nat

VARIABLES
    wiz,           \* the wizard's globals
    asks, tells,   \* lines from the wizard, and to it
    oobe_bridge,   \* "up", "alone" (the service's end closed) or "gone"
    oobed,         \* what the service is doing, and with which layouts
    pending, keyboard, hklm, conf,  \* oobe.pending, default/keyboard, HKLM, oobe.conf
    joined,        \* the machine is online
    admin,         \* the owner: "none", "made" (no password yet) or "owner"
    picked,        \* history: the layouts picked on the pages
    late,          \* history: an answer was applied to a page it was not for
    blind,         \* history: the account page was passed by before STATE's answer
    cuts

machineVars == <<pending, keyboard, hklm, conf, joined, admin>>
historyVars == <<picked, late, blind, cuts>>
oobeVars == <<wiz, asks, tells, oobe_bridge, oobed, machineVars, historyVars>>

Layouts == 0 .. NLayouts - 1
None2 == -1     \* no second layout
Pairs == Layouts \X (Layouts \cup {None2})
NoPair == <<0, None2>>
Kinds == {"wired", "wifi", "used"}
Pages == {"region", "keyboard", "second", "pick", "network", "account", "privacy",
          "applying", "done", "failed", "lost", "closed"}

OobeTypeOK ==
    /\ wiz.page \in Pages /\ wiz.kbd \in Layouts /\ wiz.kbd2 \in Layouts \cup {None2}
    /\ wiz.rows \in Seq(Nat) /\ wiz.sel \in 0 .. Len(wiz.rows) /\ wiz.nets \in Seq(Kinds)
    /\ {wiz.has_account, wiz.online, wiz.state_known, wiz.listing, wiz.busy, wiz.ready} \subseteq BOOLEAN
    /\ asks \in Seq([op : {"STATE", "NETWORKS", "CONNECT", "KEY", "ACCOUNT", "PASSWORD", "FINISH"}, layouts : Pairs])
    /\ tells \in Seq([say : {"KEYBOARD", "ACCOUNT", "ONLINE", "END", "OK", "DONE", "FAILED"} \cup Kinds, n : Nat])
    /\ oobe_bridge \in {"up", "alone", "gone"}
    /\ oobed \in [at : {"idle", "chpasswd", "hklm", "conf", "rm"}, layouts : Pairs]
    /\ keyboard \in Pairs /\ hklm \in BOOLEAN /\ conf \in Pairs \cup {<<>>}
    /\ admin \in {"none", "made", "owner"} /\ {pending, joined, late, blind} \subseteq BOOLEAN
    /\ picked \in Pairs /\ cuts \in 0 .. MaxCuts

Ask(op) == [op |-> op, layouts |-> NoPair]
Say(say, n) == [say |-> say, n |-> n]
YesNo(b) == IF b THEN 1 ELSE 0

\* g_has_account is true until the service says otherwise.
Started ==
    [page |-> "region", kbd |-> 0, kbd2 |-> None2, rows |-> <<>>, sel |-> 0, has_account |-> TRUE,
     online |-> FALSE, state_known |-> FALSE, listing |-> FALSE, nets |-> <<>>, busy |-> FALSE, ready |-> FALSE]
OobedIdle == [at |-> "idle", layouts |-> NoPair]

OobeInit ==
    /\ wiz = Started /\ asks = <<Ask("STATE")>> /\ tells = <<>> /\ oobe_bridge = "up" /\ oobed = OobedIdle
    /\ pending = TRUE /\ keyboard = <<1, None2>> /\ hklm = FALSE /\ conf = <<>>
    /\ admin = "none" /\ joined = FALSE
    /\ picked = NoPair /\ late = FALSE /\ blind = FALSE /\ cuts = 0

-----------------------------------------------------------------------------
(* The wizard's pages.  One list box serves them all: rows holds table     *)
(* indices (g_list_map), sel the row chosen.                               *)

fill_layouts(except) == SelectSeq([i \in 1 .. NLayouts |-> i - 1], LAMBDA i : i # except)

\* The list's row with this index, or no row.
list_select_index(rows, index) ==
    IF \E i \in DOMAIN rows : rows[i] = index THEN CHOOSE i \in DOMAIN rows : rows[i] = index ELSE 0

list_selected(v) == IF v.sel = 0 THEN -1 ELSE v.rows[v.sel]

request_networks(v) == [v EXCEPT !.nets = <<>>, !.listing = TRUE, !.rows = <<>>, !.sel = 0]

set_page(v, p) ==
    LET on == [v EXCEPT !.page = p]
        listed(rows, index) == [on EXCEPT !.rows = rows, !.sel = list_select_index(rows, index)]
    IN  CASE p = "keyboard" -> listed(fill_layouts(-1), v.kbd)
          [] p = "pick" -> LET rows == fill_layouts(v.kbd)
                           IN  listed(rows, IF v.kbd2 >= 0 THEN v.kbd2 ELSE rows[1])
          [] p = "network" -> request_networks(on)
          [] p = "region" -> [on EXCEPT !.rows = <<>>, !.sel = 0]
          [] OTHER -> on

\* A page is shown; the network page asks for a scan.
Shown(v, p) ==
    /\ wiz' = set_page(v, p)
    /\ asks' = IF p = "network" THEN Append(asks, Ask("NETWORKS")) ELSE asks

\* Input counts from the first page's paint on; bridge lines count always.
Person ==
    /\ wiz.ready /\ Len(asks) + Len(tells) < MaxLinesAhead
    /\ UNCHANGED <<tells, oobe_bridge, oobed, machineVars, late, cuts>>

check_ready ==
    /\ ~wiz.ready /\ wiz.page # "closed" /\ wiz' = [wiz EXCEPT !.ready = TRUE]
    /\ UNCHANGED <<asks, tells, oobe_bridge, oobed, machineVars, historyVars>>

select ==
    /\ Person /\ wiz.page \in {"keyboard", "pick", "network"}
    /\ \E i \in DOMAIN wiz.rows : wiz' = [wiz EXCEPT !.sel = i]
    /\ UNCHANGED <<asks, picked, blind>>

keyboard_next ==
    LET i == list_selected(wiz)
        k == IF i >= 0 THEN i ELSE wiz.kbd
    IN  /\ wiz.page = "keyboard" /\ picked' = <<k, picked[2]>> /\ UNCHANGED blind
        /\ Shown([wiz EXCEPT !.kbd = k, !.kbd2 = IF wiz.kbd2 = k THEN None2 ELSE wiz.kbd2], "second")

pick_next ==
    LET i == list_selected(wiz)
        k == IF i >= 0 THEN i ELSE wiz.kbd2
    IN  /\ wiz.page = "pick" /\ picked' = <<picked[1], k>> /\ UNCHANGED blind
        /\ Shown([wiz EXCEPT !.kbd2 = k], "network")

Joins == wiz.sel # 0 /\ wiz.rows[wiz.sel] < Len(wiz.nets) /\ wiz.nets[wiz.rows[wiz.sel] + 1] = "wifi"

\* On from the network page: to the account page, if there is no account.
Onwards ==
    /\ Shown(wiz, IF wiz.has_account THEN "privacy" ELSE "account") /\ UNCHANGED picked
    /\ blind' = (blind \/ ~wiz.state_known)

network_next ==
    /\ wiz.page = "network" /\ ~wiz.listing
    /\ \/ /\ Joins /\ wiz' = [wiz EXCEPT !.busy = TRUE] /\ UNCHANGED <<picked, blind>>
          /\ asks' = asks \o <<Ask("CONNECT"), Ask("KEY")>>
       \/ ~Joins /\ wiz.online /\ Onwards

\* A name and a password that pass the page's checks.
submit_account ==
    /\ wiz.page = "account" /\ wiz' = [wiz EXCEPT !.busy = TRUE]
    /\ asks' = asks \o <<Ask("ACCOUNT"), Ask("PASSWORD")>> /\ UNCHANGED <<picked, blind>>

finish ==
    /\ wiz.page \in {"privacy", "failed"} /\ wiz' = set_page(wiz, "applying")
    /\ asks' = Append(asks, [op |-> "FINISH", layouts |-> <<wiz.kbd, wiz.kbd2>>])
    /\ UNCHANGED <<picked, blind>>

go_next ==
    /\ Person /\ ~wiz.busy
    /\ \/ wiz.page = "region" /\ Shown(wiz, "keyboard") /\ UNCHANGED <<picked, blind>>
       \/ wiz.page = "second" /\ Shown(wiz, "pick") /\ UNCHANGED <<picked, blind>>
       \/ keyboard_next \/ pick_next \/ network_next \/ submit_account \/ finish

go_skip ==
    /\ Person /\ ~wiz.busy
    /\ \/ /\ wiz.page = "second" /\ picked' = <<picked[1], None2>> /\ UNCHANGED blind
          /\ Shown([wiz EXCEPT !.kbd2 = None2], "network")
       \/ wiz.page = "network" /\ ~wiz.online /\ Onwards

Previous ==
    [keyboard |-> "region", second |-> "keyboard", pick |-> "second", network |-> "second",
     account |-> "network", privacy |-> IF wiz.has_account THEN "network" ELSE "account"]

go_back ==
    /\ Person /\ ~wiz.busy /\ wiz.page \in DOMAIN Previous /\ Shown(wiz, Previous[wiz.page])
    /\ UNCHANGED <<picked, blind>>

rescan ==
    /\ Person /\ wiz.page = "network" /\ ~wiz.busy /\ ~wiz.listing /\ ~wiz.online
    /\ wiz' = request_networks(wiz) /\ asks' = Append(asks, Ask("NETWORKS")) /\ UNCHANGED <<picked, blind>>

-----------------------------------------------------------------------------
(* What a line from the bridge does (handle_line).                         *)

Takes(say) ==
    /\ wiz.page # "closed" /\ tells # <<>> /\ Head(tells).say = say /\ tells' = Tail(tells)
    /\ UNCHANGED <<oobe_bridge, oobed, machineVars, picked, blind, cuts>>

on_KEYBOARD ==
    /\ Takes("KEYBOARD") /\ wiz' = [wiz EXCEPT !.kbd = Head(tells).n] /\ UNCHANGED asks
    /\ late' = (late \/ wiz.page \notin {"region", "keyboard"})

on_ACCOUNT ==
    Takes("ACCOUNT") /\ wiz' = [wiz EXCEPT !.has_account = Head(tells).n = 1] /\ UNCHANGED <<asks, late>>

on_ONLINE ==
    Takes("ONLINE") /\ wiz' = [wiz EXCEPT !.online = Head(tells).n = 1] /\ UNCHANGED <<asks, late>>

\* A network's line, kept only while a scan is awaited.
on_network ==
    /\ \E k \in Kinds : Takes(k) /\ wiz' = IF wiz.listing THEN [wiz EXCEPT !.nets = Append(@, k)] ELSE wiz
    /\ UNCHANGED <<asks, late>>

\* STATE's and NETWORKS' answers end alike.  The list is filled whatever page
\* is shown.
Filled(v) ==
    LET used == SelectSeq([i \in DOMAIN v.nets |-> i], LAMBDA i : v.nets[i] = "used")
    IN  [v EXCEPT !.listing = FALSE, !.rows = [i \in DOMAIN v.nets |-> i - 1],
                  !.sel = IF used # <<>> THEN used[1] ELSE IF v.nets # <<>> THEN 1 ELSE 0]
on_END ==
    /\ Takes("END") /\ UNCHANGED asks
    /\ LET v == [wiz EXCEPT !.state_known = TRUE]
       IN  wiz' = IF wiz.listing THEN Filled(v) ELSE v
    /\ late' = (late \/ (wiz.listing /\ wiz.page \in {"keyboard", "pick"}))

on_OK ==
    /\ Takes("OK") /\ UNCHANGED late
    /\ LET v == [wiz EXCEPT !.busy = FALSE]
       IN  CASE wiz.busy /\ wiz.page = "account" -> Shown([v EXCEPT !.has_account = TRUE], "privacy")
             [] wiz.busy /\ wiz.page = "network" -> wiz' = request_networks(v) /\ asks' = Append(asks, Ask("NETWORKS"))
             [] OTHER -> UNCHANGED <<wiz, asks>>

on_DONE ==
    /\ Takes("DONE") /\ UNCHANGED <<asks, late>>
    /\ wiz' = IF wiz.page = "applying" THEN set_page(wiz, "done") ELSE wiz

on_FAILED ==
    /\ Takes("FAILED") /\ UNCHANGED <<asks, late>>
    /\ wiz' = IF wiz.page = "applying" THEN set_page(wiz, "failed") ELSE [wiz EXCEPT !.busy = FALSE]

on_BRIDGE_EOF ==
    /\ oobe_bridge = "gone" /\ tells = <<>> /\ wiz.page \notin {"lost", "closed"}
    /\ wiz' = [set_page(wiz, IF wiz.page = "done" THEN "closed" ELSE "lost") EXCEPT !.busy = FALSE]
    /\ UNCHANGED <<asks, tells, oobe_bridge, oobed, machineVars, historyVars>>

close_timer ==
    /\ wiz.page = "done" /\ wiz' = [wiz EXCEPT !.page = "closed"]
    /\ UNCHANGED <<asks, tells, oobe_bridge, oobed, machineVars, historyVars>>

oobe_handle_line ==
    \/ on_KEYBOARD \/ on_ACCOUNT \/ on_ONLINE \/ on_network \/ on_END \/ on_OK \/ on_DONE \/ on_FAILED
    \/ on_BRIDGE_EOF

-----------------------------------------------------------------------------
(* The bridge and the service.  Between two wizard lines of one request    *)
(* (CONNECT and KEY, ACCOUNT and PASSWORD) nothing else is sent.           *)

Serves(op) ==
    /\ oobe_bridge = "up" /\ oobed.at = "idle" /\ asks # <<>> /\ Head(asks).op = op /\ asks' = Tail(asks)
    /\ UNCHANGED <<wiz, oobe_bridge, historyVars>>
Answer(lines) == tells' = tells \o lines

STATE_request ==
    /\ Serves("STATE") /\ UNCHANGED <<oobed, machineVars>>
    /\ Answer(<<Say("KEYBOARD", keyboard[1]), Say("ACCOUNT", YesNo(admin # "none")),
                Say("ONLINE", YesNo(joined)), Say("END", 0)>>)

NETWORKS ==
    /\ Serves("NETWORKS") /\ UNCHANGED <<oobed, machineVars>>
    /\ \E nets \in Scans(joined) :
          Answer([i \in DOMAIN nets |-> Say(nets[i], 0)] \o <<Say("ONLINE", YesNo(joined)), Say("END", 0)>>)

KEY ==
    \/ Serves("CONNECT") /\ UNCHANGED <<tells, oobed, machineVars>>
    \/ /\ Serves("KEY") /\ UNCHANGED <<oobed, pending, keyboard, hklm, conf, admin>>
       /\ \/ Answer(<<Say("OK", 0)>>) /\ joined' = TRUE
          \/ Answer(<<Say("FAILED", 0)>>) /\ UNCHANGED joined

\* The account is made, and then given its password; without it, it goes.
PASSWORD ==
    \/ Serves("ACCOUNT") /\ UNCHANGED <<tells, oobed, machineVars>>
    \/ /\ Serves("PASSWORD") /\ UNCHANGED <<pending, keyboard, hklm, conf, joined>>
       /\ \/ admin = "none" /\ admin' = "made" /\ oobed' = [oobed EXCEPT !.at = "chpasswd"] /\ UNCHANGED tells
          \/ Answer(<<Say("FAILED", 0)>>) /\ UNCHANGED <<oobed, admin>>

At(step) == oobe_bridge = "up" /\ oobed.at = step /\ UNCHANGED <<wiz, asks, oobe_bridge, historyVars>>
Then(step) == oobed' = [oobed EXCEPT !.at = step]

chpasswd ==
    /\ At("chpasswd") /\ Then("idle") /\ UNCHANGED <<pending, keyboard, hklm, conf, joined>>
    /\ \/ admin' = "owner" /\ Answer(<<Say("OK", 0)>>)
       \/ admin' = "none" /\ Answer(<<Say("FAILED", 0)>>)

\* finish(): the keyboard, the registry, the record, and only then the end of
\* the first run.
FINISH ==
    /\ Serves("FINISH") /\ keyboard' = Head(asks).layouts
    /\ oobed' = [at |-> "hklm", layouts |-> Head(asks).layouts] /\ UNCHANGED <<tells, pending, hklm, conf, joined, admin>>

hklm_import ==
    /\ At("hklm") /\ UNCHANGED <<pending, keyboard, conf, joined, admin>>
    /\ \/ hklm' = TRUE /\ Then("conf") /\ UNCHANGED tells
       \/ Answer(<<Say("FAILED", 0)>>) /\ Then("idle") /\ UNCHANGED hklm

\* (Variant: a record that is there already is kept.)
write_conf_Once ==
    /\ At("conf") /\ Then("rm") /\ conf' = (IF conf = <<>> THEN oobed.layouts ELSE conf)
    /\ UNCHANGED <<tells, pending, keyboard, hklm, joined, admin>>
write_conf ==
    At("conf") /\ conf' = oobed.layouts /\ Then("rm") /\ UNCHANGED <<tells, pending, keyboard, hklm, joined, admin>>

rm_pending ==
    /\ At("rm") /\ pending' = FALSE /\ Then("idle") /\ Answer(<<Say("DONE", 0)>>)
    /\ UNCHANGED <<keyboard, hklm, conf, joined, admin>>

OobedStep == STATE_request \/ NETWORKS \/ KEY \/ PASSWORD \/ chpasswd \/ FINISH \/ hklm_import \/ write_conf \/ rm_pending

\* The bridge answers for a service that is not there, line by line.
from_wizard ==
    /\ oobe_bridge = "alone" /\ asks # <<>> /\ asks' = Tail(asks) /\ Answer(<<Say("FAILED", 0)>>)
    /\ UNCHANGED <<wiz, oobe_bridge, oobed, machineVars, historyVars>>

\* The service ends with some of the lines passed on to it unread.
ServiceStops ==
    /\ oobe_bridge = "up" /\ oobe_bridge' = "alone" /\ oobed' = OobedIdle /\ Answer(<<Say("FAILED", 0)>>)
    /\ \E n \in 0 .. Len(asks) : asks' = SubSeq(asks, n + 1, Len(asks))
    /\ UNCHANGED <<wiz, machineVars, historyVars>>

BridgeDies ==
    /\ oobe_bridge # "gone" /\ oobe_bridge' = "gone" /\ oobed' = OobedIdle /\ asks' = <<>>
    /\ UNCHANGED <<wiz, tells, machineVars, historyVars>>

PowerCut ==
    /\ cuts < MaxCuts /\ cuts' = cuts + 1 /\ pending
    /\ wiz' = Started /\ asks' = <<Ask("STATE")>> /\ tells' = <<>> /\ oobe_bridge' = "up"
    /\ oobed' = OobedIdle /\ picked' = NoPair /\ late' = FALSE /\ blind' = FALSE
    /\ UNCHANGED machineVars

-----------------------------------------------------------------------------
OobeNext ==
    \/ check_ready \/ select \/ go_next \/ go_skip \/ go_back \/ rescan \/ oobe_handle_line \/ close_timer
    \/ OobedStep \/ from_wizard \/ ServiceStops \/ BridgeDies \/ PowerCut

-----------------------------------------------------------------------------
(* Properties.                                                             *)

\* When the first run is over it is complete.  Once the service's state is known,
\* no way through the pages - back and forth, joining a network, failures, a
\* start after a power cut - ends it without an account (g_has_account, go_next,
\* go_skip).  The keyboard, the registry and the record every first sign-in
\* applies all hold what was picked, after any failed or cut attempts with other
\* choices - unless an answer came to the wrong page.
FirstRunComplete ==
    ~pending =>
        /\ blind \/ admin # "none"
        /\ late \/ (keyboard = picked /\ conf = picked /\ hklm)

\* "Please wait..." and the applying page end, whatever the service does.
OobeAnswers == []<>(~wiz.busy /\ wiz.page # "applying")
=============================================================================
