------------------------------- MODULE Setup --------------------------------
(***************************************************************************)
(* Setup on the installation media: the wizard (setup/sg-setup.c), its     *)
(* bridge (sg-setup-bridge) and the root service (setup/sg-installd),      *)
(* which runs sg-install (external) for one line after the other.  The     *)
(* machine has one disk.  A partition has a path and, for the properties,  *)
(* an identity: a path freed by a deletion is given to a new partition.    *)
(* Sizes, labels and the list's columns are left out.                      *)
(***************************************************************************)
EXTENDS Naturals, Sequences

CONSTANTS Paths,         \* the paths partitions may have, in order
          Names,         \* full names a person may type
          KeyPages,      \* bound: the pages on which a key is pressed
          MaxIds,        \* bound: partitions ever made
          SetupLines     \* bound: lines under way when a person does something

ASSUME SetupConstants ==
    Paths \in Seq(STRING) /\ Len(Paths) > 1 /\ MaxIds \in Nat /\ SetupLines \in Nat \ {0}

VARIABLES
    win,           \* the wizard's globals
    box,           \* the message box that is open, and what it is about
    reqs, answers, \* lines from the wizard, and to it
    setup_bridge,  \* "up", "alone" (the service's end closed), "gone", "lost" (and seen to be);
                   \* or the machine is "off"
    installd,      \* the service: at rest or installing, and what INSTALL named
    parts,         \* the partition at each path, or 0
    ids,           \* partitions made so far
    installed,     \* what the machine was installed with
    mistaken,      \* history: a partition was erased that is not the one shown
    answered       \* history: a page was answered by a key pressed on another

setupVars == <<win, box, reqs, answers, setup_bridge, installd, parts, ids, installed, mistaken, answered>>
diskVars == <<parts, ids, installed, mistaken>>

ESP == Paths[1]
PathSet == {Paths[i] : i \in DOMAIN Paths}
SetupPages == {"welcome", "start", "license", "type", "account", "disk", "ready", "installing",
               "done", "restarting", "failed", "closed"}
Rows == [path : PathSet \cup {"free"}, id : 0 .. MaxIds]
NoRow == [path |-> "free", id |-> 0]
Requests == {"LAYOUT", "DRIVERS", "NEW", "DELETE", "FORMAT", "INSTALL", "PASSWORD", "REBOOT", "POWEROFF"}
NoFields == <<>>

SetupTypeOK ==
    /\ win.page \in SetupPages /\ win.armed \in BOOLEAN /\ win.held \in SetupPages \cup {"none"}
    /\ {win.pass, win.listing, win.busy, win.new_mode, win.listed, win.drivers} \subseteq BOOLEAN
    /\ win.name \in STRING /\ win.rows \in Seq(Rows) /\ win.sel \in 0 .. Len(win.rows) /\ win.chosen \in Rows
    /\ box \in [about : {"none", "DELETE", "FORMAT", "error"}, sel : Nat, shown : 0 .. MaxIds]
    /\ reqs \in Seq([op : Requests, row : Rows, fields : Seq(STRING)])
    /\ answers \in Seq([say : {"PART", "END", "OK", "DONE", "FAILED"}, row : Rows])
    /\ setup_bridge \in {"up", "alone", "gone", "lost", "off"}
    /\ installd \in [at : {"idle", "installing"}, row : Rows, fields : Seq(STRING)]
    /\ parts \in [PathSet -> 0 .. MaxIds] /\ ids \in 0 .. MaxIds /\ installed \in Seq(STRING)
    /\ {mistaken, answered} \subseteq BOOLEAN

NoBox == [about |-> "none", sel |-> 0, shown |-> 0]
InstalldIdle == [at |-> "idle", row |-> NoRow, fields |-> NoFields]

SetupInit ==
    /\ win = [page |-> "welcome", armed |-> FALSE, held |-> "none", pass |-> FALSE, name |-> "", rows |-> <<>>,
              sel |-> 0, chosen |-> NoRow, listing |-> FALSE, busy |-> FALSE, new_mode |-> FALSE,
              listed |-> FALSE, drivers |-> FALSE]
    /\ box = NoBox /\ reqs = <<>> /\ answers = <<>> /\ setup_bridge = "up" /\ installd = InstalldIdle
    /\ parts = [p \in PathSet |-> IF p = Paths[1] THEN 1 ELSE IF p = Paths[2] THEN 2 ELSE 0] /\ ids = 2
    /\ installed = NoFields /\ mistaken = FALSE /\ answered = FALSE

-----------------------------------------------------------------------------
(* The wizard.                                                             *)

Req(op) == [op |-> op, row |-> NoRow, fields |-> NoFields]

\* sg-install --layout: the partitions, then unallocated space if there is some.
Layout ==
    LET there == SelectSeq(Paths, LAMBDA p : parts[p] # 0)
    IN  [i \in DOMAIN there |-> [path |-> there[i], id |-> parts[there[i]]]]
        \o (IF \E p \in PathSet : parts[p] = 0 THEN <<NoRow>> ELSE <<>>)

\* row_problem: a system partition cannot be installed to, nor any other
\* partition of a disk without one.
Fits(row) ==
    row.path = "free" \/ (row.path # ESP /\ \E i \in DOMAIN win.rows : win.rows[i].path = ESP)

Chosen == win.rows[win.sel]
NextEnabled == ~win.busy /\ ~win.listing /\ win.sel # 0 /\ Fits(Chosen) /\ ~win.new_mode

request_layout_KeepsSel(v) == [v EXCEPT !.rows = <<>>, !.listing = TRUE]
request_layout(v) == [v EXCEPT !.rows = <<>>, !.sel = 0, !.listing = TRUE]

\* What was listed and chosen is read on these pages only; the code empties it
\* when the disk page comes back.
Leaves(v) == IF v.page \in {"disk", "ready", "installing", "failed"} THEN v
             ELSE [v EXCEPT !.rows = <<>>, !.sel = 0, !.chosen = NoRow]

\* A page is shown; a key held is a key pressed on another page.
setup_set_page(v, p) ==
    LET on == Leaves([v EXCEPT !.page = p, !.armed = FALSE, !.new_mode = FALSE])
    IN  CASE p = "type" /\ ~v.listed /\ ~v.listing -> [on EXCEPT !.drivers = TRUE]
          [] p = "disk" -> request_layout(on)
          [] p = "ready" -> [on EXCEPT !.chosen = v.rows[v.sel]]
          [] OTHER -> on

\* The page and what showing it asks the service for.
Turn(v, p) ==
    /\ win' = setup_set_page(v, p)
    /\ reqs' = reqs \o (CASE p = "type" /\ ~v.listed /\ ~v.listing -> <<Req("DRIVERS")>>
                          [] p = "disk" -> <<Req("LAYOUT")>>
                          [] OTHER -> <<>>)

Asked(name, pass) == <<"account", "host", name, "us", "1", IF pass THEN "password" ELSE "empty">>

\* The password goes out once and is not kept in the controls.
start_install(v) ==
    /\ win' = [setup_set_page(v, "installing") EXCEPT !.pass = FALSE]
    /\ reqs' = reqs \o <<[op |-> "INSTALL", row |-> v.chosen, fields |-> Asked(v.name, v.pass)], Req("PASSWORD")>>

Operate(v, op, row) ==
    /\ win' = [v EXCEPT !.busy = TRUE, !.new_mode = FALSE]
    /\ reqs' = Append(reqs, [op |-> op, row |-> row, fields |-> NoFields])

start_over(v) == Turn(v, "welcome")

Follows == [welcome |-> "start", start |-> "license", license |-> "type", type |-> "account"]
Precedes == [license |-> "start", type |-> "license", account |-> "type", ready |-> "disk", start |-> "welcome"]

setup_go_next(v) ==
    \/ v.page \in DOMAIN Follows /\ Turn(v, Follows[v.page])
    \/ v.page = "account" /\ v.pass /\ Turn(v, "disk")
    \/ v.page = "disk" /\ v.new_mode /\ Operate(v, "NEW", v.rows[v.sel])
    \/ v.page = "disk" /\ NextEnabled /\ Turn(v, "ready")
    \/ v.page = "ready" /\ start_install(v)
    \/ v.page = "done" /\ win' = [v EXCEPT !.page = "restarting"] /\ reqs' = Append(reqs, Req("REBOOT"))
    \/ v.page = "failed" /\ start_over(v)

setup_go_back(v) ==
    /\ \/ v.page \in DOMAIN Precedes /\ Turn(v, Precedes[v.page])
       \/ v.page = "disk" /\ v.new_mode /\ win' = [v EXCEPT !.new_mode = FALSE] /\ UNCHANGED reqs
       \/ v.page = "disk" /\ ~v.new_mode /\ ~v.busy /\ Turn(v, "account")

Someone_does ==
    /\ box = NoBox /\ win.page \notin {"closed", "restarting"} /\ setup_bridge \notin {"off", "lost"}
    /\ Len(reqs) + Len(answers) < SetupLines
    /\ UNCHANGED <<answers, setup_bridge, installd, diskVars>>

Click == Someone_does /\ (setup_go_next(win) \/ setup_go_back(win)) /\ UNCHANGED <<box, answered>>

\* Enter or Escape goes down, and comes up: it acts if it was pressed on this
\* page and no page has come since.
KeyDown ==
    /\ Someone_does /\ win.held = "none" /\ win.page \in KeyPages /\ win' = [win EXCEPT !.held = win.page, !.armed = TRUE]
    /\ UNCHANGED <<box, reqs, answered>>

handle_key ==
    /\ Someone_does /\ win.held # "none" /\ UNCHANGED box
    /\ LET v == [win EXCEPT !.held = "none", !.armed = FALSE]
       IN  \/ ~win.armed /\ win' = v /\ UNCHANGED <<reqs, answered>>
           \/ win.armed /\ answered' = (answered \/ win.held # win.page) /\ (setup_go_next(v) \/ setup_go_back(v))

\* On the account page: a name, and a password typed twice.
Types ==
    /\ Someone_does /\ win.page = "account" /\ \E name \in Names : win' = [win EXCEPT !.pass = TRUE, !.name = name]
    /\ UNCHANGED <<box, reqs, answered>>

\* On the disk page.
Selects ==
    /\ Someone_does /\ win.page = "disk"
    /\ \E i \in DOMAIN win.rows \ {win.sel} : ~win.listing /\ win' = [win EXCEPT !.sel = i, !.new_mode = FALSE]
    /\ UNCHANGED <<box, reqs, answered>>

Refresh ==
    /\ Someone_does /\ win.page = "disk" /\ ~win.busy /\ ~win.listing
    /\ win' = request_layout([win EXCEPT !.new_mode = FALSE]) /\ reqs' = Append(reqs, Req("LAYOUT"))
    /\ UNCHANGED <<box, answered>>

set_new_mode ==
    /\ Someone_does /\ win.page = "disk" /\ ~win.busy /\ ~win.listing /\ win.sel # 0 /\ Chosen.path = "free"
    /\ win' = [win EXCEPT !.new_mode = TRUE] /\ UNCHANGED <<box, reqs, answered>>

\* do_delete, do_format: first a question.
Questions ==
    /\ Someone_does /\ win.page = "disk" /\ ~win.busy /\ ~win.listing /\ win.sel # 0 /\ Chosen.path # "free"
    /\ \E op \in {"DELETE", "FORMAT"} :
          (op = "FORMAT" => Chosen.path # ESP) /\ box' = [about |-> op, sel |-> win.sel, shown |-> Chosen.id]
    /\ UNCHANGED <<win, reqs, answered>>

\* The question is answered, after lines from the bridge may have been
\* handled; an error once read refreshes the list.
Box_closes ==
    /\ box # NoBox /\ box' = NoBox /\ UNCHANGED <<answers, setup_bridge, installd, diskVars, answered>>
    /\ \/ box.about = "error" /\ win' = request_layout(win) /\ reqs' = Append(reqs, Req("LAYOUT"))
       \/ box.about # "error" /\ UNCHANGED <<win, reqs>>
       \/ box.about # "error" /\ Operate(win, box.about, [path |-> win.rows[box.sel].path, id |-> box.shown])

cancel_setup ==
    /\ Someone_does /\ win.page \notin {"installing", "done", "welcome"} /\ Turn(win, "welcome")
    /\ UNCHANGED <<box, answered>>

\* "Try Stained Glass OS": the bridge notes it and the window closes.
Try ==
    /\ Someone_does /\ win.page = "start" /\ win' = [win EXCEPT !.page = "closed"]
    /\ UNCHANGED <<box, reqs, answered>>

shut_down ==
    /\ Someone_does /\ reqs' = Append(reqs, Req("POWEROFF")) /\ UNCHANGED <<win, box, answered>>

-----------------------------------------------------------------------------
(* What a line from the bridge does (handle_line); message boxes let lines *)
(* through.                                                                *)

Line(say) ==
    /\ win.page # "closed" /\ setup_bridge # "off" /\ answers # <<>> /\ Head(answers).say = say /\ answers' = Tail(answers)
    /\ UNCHANGED <<setup_bridge, installd, diskVars, answered>>

layout_line ==
    /\ Line("PART") /\ UNCHANGED <<box, reqs>>
    /\ win' = IF win.listing THEN [win EXCEPT !.rows = Append(@, Head(answers).row)] ELSE win

\* DRIVERS' and LAYOUT's answers end alike.  A row Setup fits is chosen, or
\* the first one.
layout_done ==
    /\ Line("END") /\ UNCHANGED <<box, reqs>>
    /\ LET fit == {i \in DOMAIN win.rows : Fits(win.rows[i])}
       IN  CASE win.drivers -> win' = [win EXCEPT !.drivers = FALSE, !.listed = TRUE]
             [] ~win.drivers /\ win.listing ->
                   \E i \in (IF fit # {} THEN fit ELSE IF win.rows # <<>> THEN {1} ELSE {0}) :
                      win' = [win EXCEPT !.listing = FALSE, !.sel = i]
             [] OTHER -> UNCHANGED win

\* After an operation the list is asked for again.  (Variant: only after a
\* failure.)
op_OK_Stale ==
    /\ Line("OK") /\ UNCHANGED <<box, reqs>> /\ win' = [win EXCEPT !.busy = FALSE]
op_OK ==
    /\ Line("OK") /\ UNCHANGED box
    /\ IF win.busy THEN win' = request_layout([win EXCEPT !.busy = FALSE]) /\ reqs' = Append(reqs, Req("LAYOUT"))
       ELSE UNCHANGED <<win, reqs>>

setup_DONE ==
    /\ Line("DONE") /\ win' = (IF win.page = "installing" THEN setup_set_page(win, "done") ELSE win)
    /\ UNCHANGED <<box, reqs>>

\* An operation's failure, or Setup's.
op_FAILED ==
    /\ Line("FAILED") /\ UNCHANGED reqs
    /\ IF win.busy THEN win' = [win EXCEPT !.busy = FALSE] /\ box' = [NoBox EXCEPT !.about = "error"]
       ELSE win' = [setup_set_page(win, "failed") EXCEPT !.listing = FALSE] /\ UNCHANGED box

setup_EOF ==
    /\ setup_bridge = "gone" /\ answers = <<>> /\ win.page # "closed"
    /\ setup_bridge' = "lost" /\ win' = setup_set_page(win, IF win.page = "installing" THEN "failed" ELSE "closed")
    /\ box' = NoBox /\ UNCHANGED <<reqs, answers, installd, diskVars, answered>>

setup_handle_line == layout_line \/ layout_done \/ op_OK \/ setup_DONE \/ op_FAILED \/ setup_EOF

-----------------------------------------------------------------------------
(* The bridge and the service.                                             *)

Handles(op) ==
    /\ setup_bridge = "up" /\ installd.at = "idle" /\ reqs # <<>> /\ Head(reqs).op = op /\ reqs' = Tail(reqs)
    /\ UNCHANGED <<win, box, answered>>
Says(lines) == answers' = answers \o lines
Tell(say) == [say |-> say, row |-> NoRow]

LAYOUT ==
    /\ Handles("LAYOUT") /\ UNCHANGED <<setup_bridge, installd, diskVars>>
    /\ Says([i \in DOMAIN Layout |-> [say |-> "PART", row |-> Layout[i]]] \o <<Tell("END")>>)

DRIVERS == Handles("DRIVERS") /\ Says(<<Tell("END")>>) /\ UNCHANGED <<setup_bridge, installd, diskVars>>

\* The partition at a row's path is erased.
Erases(row) == mistaken' = (mistaken \/ row.id # parts[row.path])

\* A new partition, with a system partition if there is none.
op_NEW ==
    /\ Handles("NEW") /\ UNCHANGED <<setup_bridge, installd, installed, mistaken>>
    /\ \/ /\ Says(<<Tell("OK")>>) /\ ids < MaxIds /\ ids' = ids + 1
          /\ \E p \in PathSet : /\ parts[p] = 0 /\ (parts[ESP] = 0 => p = ESP)
                                /\ parts' = [parts EXCEPT ![p] = ids + 1]
       \/ Says(<<Tell("FAILED")>>) /\ UNCHANGED <<parts, ids>>

\* in_layout, the lock, and sg-install, any of which may refuse.
op_DELETE ==
    /\ Handles("DELETE") /\ UNCHANGED <<setup_bridge, installd, ids, installed>>
    /\ LET p == Head(reqs).row.path
       IN  \/ /\ parts[p] # 0 /\ Says(<<Tell("OK")>>) /\ parts' = [parts EXCEPT ![p] = 0]
              /\ Erases(Head(reqs).row)
           \/ Says(<<Tell("FAILED")>>) /\ UNCHANGED <<parts, mistaken>>

op_FORMAT ==
    /\ Handles("FORMAT") /\ UNCHANGED <<setup_bridge, installd, parts, ids, installed>>
    /\ LET p == Head(reqs).row.path
       IN  \/ parts[p] # 0 /\ Says(<<Tell("OK")>>) /\ Erases(Head(reqs).row)
           \/ Says(<<Tell("FAILED")>>) /\ UNCHANGED mistaken

\* The line is split at its tabs, and the shell takes tabs in a row for one.
INSTALL ==
    /\ Handles("INSTALL") /\ UNCHANGED <<answers, setup_bridge, diskVars>>
    /\ installd' = [at |-> "idle", row |-> Head(reqs).row,
                    fields |-> SelectSeq(Head(reqs).fields, LAMBDA f : f # "")]

InLayout(row) == IF row.path = "free" THEN \E p \in PathSet : parts[p] = 0 ELSE parts[row.path] # 0

INSTALL_PASSWORD ==
    /\ Handles("PASSWORD") /\ UNCHANGED <<setup_bridge, diskVars>>
    /\ \/ InLayout(installd.row) /\ installd' = [installd EXCEPT !.at = "installing"] /\ UNCHANGED answers
       \/ Says(<<Tell("FAILED")>>) /\ UNCHANGED installd

\* sg-install erases the partition early, and may still fail.
sg_install ==
    /\ setup_bridge = "up" /\ installd.at = "installing" /\ installd' = [installd EXCEPT !.at = "idle"]
    /\ IF installd.row.path = "free" THEN UNCHANGED mistaken ELSE Erases(installd.row)
    /\ \/ Says(<<Tell("DONE")>>) /\ installed' = installd.fields
       \/ Says(<<Tell("FAILED")>>) /\ UNCHANGED installed
    /\ UNCHANGED <<win, box, reqs, setup_bridge, parts, ids, answered>>

REBOOT ==
    /\ Handles("REBOOT") \/ Handles("POWEROFF")
    /\ setup_bridge' = "off" /\ UNCHANGED <<answers, installd, diskVars>>

InstalldStep == LAYOUT \/ DRIVERS \/ op_NEW \/ op_DELETE \/ op_FORMAT \/ INSTALL \/ INSTALL_PASSWORD \/ sg_install \/ REBOOT

setup_from_wizard ==
    /\ setup_bridge = "alone" /\ reqs # <<>> /\ reqs' = Tail(reqs) /\ Says(<<Tell("FAILED")>>)
    /\ UNCHANGED <<win, box, setup_bridge, installd, diskVars, answered>>

\* The service ends, with some of the lines passed on to it unread; the wizard
\* is told.  (Variant: it is not.)
InstalldStops_Quiet ==
    /\ setup_bridge = "up" /\ setup_bridge' = "alone" /\ installd' = InstalldIdle
    /\ \E n \in 0 .. Len(reqs) : reqs' = SubSeq(reqs, n + 1, Len(reqs))
    /\ UNCHANGED <<win, box, answers, diskVars, answered>>
InstalldStops ==
    /\ setup_bridge = "up" /\ setup_bridge' = "alone" /\ installd' = InstalldIdle /\ Says(<<Tell("FAILED")>>)
    /\ \E n \in 0 .. Len(reqs) : reqs' = SubSeq(reqs, n + 1, Len(reqs))
    /\ UNCHANGED <<win, box, diskVars, answered>>

SetupBridgeDies ==
    /\ setup_bridge \in {"up", "alone"} /\ setup_bridge' = "gone" /\ installd' = InstalldIdle /\ reqs' = <<>>
    /\ UNCHANGED <<win, box, answers, diskVars, answered>>

-----------------------------------------------------------------------------
SetupNext ==
    \/ Click \/ KeyDown \/ handle_key \/ Types \/ Selects \/ Refresh \/ set_new_mode \/ Questions \/ Box_closes
    \/ cancel_setup \/ Try \/ shut_down \/ setup_handle_line \/ InstalldStep \/ setup_from_wizard \/ InstalldStops
    \/ SetupBridgeDies

-----------------------------------------------------------------------------
(* Properties.                                                             *)

\* What is done was agreed to.  What the service deletes, formats or installs
\* over is the very partition the person was shown when agreeing to it, though
\* the service is told only paths and paths are given out again (request_layout,
\* op_answer, g_chosen_row).  "A key held down on one page cannot answer the
\* next one" (sg-setup.c:34).  No way back to Install after a failure goes
\* without a password typed again: the service takes an empty one as it comes.
AgreedTo == ~mistaken /\ ~answered /\ \A i \in DOMAIN installed : installed[i] # "empty"

\* "INSTALL <target>\t<account>\t<hostname>\t<full name>\t<keyboard>\t<drivers>"
\* (sg-setup.c:21, sg-installd:22): what is installed is what was asked for.
InstalledAsAsked == Len(installed) \in {0, Len(Asked("", TRUE))}

\* Installing, waiting for an operation and waiting for the list each end,
\* unless the machine is turned off, the bridge has died, the window was closed
\* to try the live system or a message is not read.
NoMore == setup_bridge \in {"off", "lost"} \/ win.page = "closed"
SetupAnswers ==
    /\ []<>(win.page # "installing" \/ NoMore)
    /\ []<>(~win.busy \/ NoMore)
    /\ []<>(~win.listing \/ box.about = "error" \/ NoMore)
=============================================================================
