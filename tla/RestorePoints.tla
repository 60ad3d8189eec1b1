---------------------------- MODULE RestorePoints ---------------------------
(* Restore points and going back (bin/sg-snapshot, on btrfs): snapshots of   *)
(* the system's subvolume @, taken before packages change, kept in two pools,*)
(* started from the boot menu through a writable copy, or made the system    *)
(* again.  One command runs at a time (flock); it is a sequence of steps on  *)
(* the drive, and power may be lost between any two of them.                 *)
EXTENDS Integers, Sequences, FiniteSets, FiniteSetsExt, Functions

CONSTANTS
    Pkgs, Apps,         \* packages; the ones not installed at first
    MaxVersion,         \* the archive's last release
    MaxKernel,          \* the last kernel there is
    KEEP, KEEP_STORE,   \* points kept for updates (and by hand), for SG Store
    MaxId,              \* how many points are taken in all
    Scenarios           \* drives to begin with, and how often what happens to them

Bounded == {"crash", "fail", "back", "start", "apt", "install", "kernel", "release", "create", "delete", "low"}

ASSUME BoundsAssumption ==
    /\ Apps \subseteq Pkgs /\ Pkgs # {}
    /\ {MaxVersion, MaxKernel, KEEP, KEEP_STORE, MaxId} \subseteq Nat \ {0}
    /\ Scenarios \subseteq [byName : BOOLEAN, often : [Bounded -> Nat]]

VARIABLES
    next, byName, avail,\* the next id; rootflags=subvol=@ or the default; the archive's release
    root,               \* @: a system, or NoSys
    olds,               \* @old-<when>: systems going back has replaced
    default,            \* the subvolume mounted without rootflags
    points,             \* @snapshots/<id>: snapshot, info and boot copy
    kents, menu,        \* the boot menu: kernels' entries, restore points' entries
    running, booted,    \* the subvolume that is /; sg-snapshot boot has run
    job, todo,          \* the command that holds the lock; the steps it has left
    apt,                \* the apt run going on
    left,               \* what the bounds leave
    harm                \* history: power was lost ("cut"), a btrfs call failed ("fail"),
                        \* a point was deleted by hand ("delete")
drive == <<root, olds, default, points>>
vars == <<next, byName, avail, root, olds, default, points, kents, menu, running, booted, job, todo, apt, left, harm>>

Kernels == 1..MaxKernel
Ids == 1..MaxId
Sources == {"update", "store"}
NoSys == [pkg |-> <<>>, pins |-> {}, kept |-> {}, kernels |-> {}]
At == <<"@", 0>>
Off == <<"off", 0>>
NoJob == [cmd |-> "none", sid |-> 0, kind |-> "manual", new |-> 0, low |-> FALSE]
NoApt == [on |-> FALSE, pre |-> FALSE, chg |-> {}, src |-> "update", kernel |-> "same", point |-> 0]

\* A system: its packages' versions (0: not installed), the versions kept from
\* apt (preferences.d/sg-went-back), its kernels' modules; and, as history,
\* every version a going back in its past has said not to install again.
Change == [name : Pkgs, old : 0..MaxVersion, new : 0..MaxVersion]
System == [pkg : [Pkgs -> 0..MaxVersion], pins : SUBSET (Pkgs \X (0..MaxVersion)),
           kept : SUBSET (Pkgs \X (0..MaxVersion)), kernels : SUBSET Kernels]
\* A point: taken less than 300 s ago (fresh); what its info says; its boot copy.
\* for is history: what it was really taken for.
Point == [sys : System, kind : {"?", "auto", "manual"}, source : Sources, for : Sources \cup {"hand"},
          kernels : SUBSET Kernels, changes : SUBSET Change,
          fresh : BOOLEAN, boot : {"none", "clean", "dirty", "marked"}]
Places == {At, Off} \cup ({"old", "boot"} \X Ids)
Steps == {"snapshot", "info", "copy", "merge", "prune", "low", "unboot", "unsnap", "entries",
          "rename", "restore", "default", "prefs", "kernels", "mark", "olds", "recopy"} \X (0..MaxId)

TypeOK ==
    /\ next \in 1..(MaxId + 1) /\ byName \in BOOLEAN /\ avail \in 1..MaxVersion
    /\ root \in System \cup {NoSys}
    /\ DOMAIN olds \subseteq Ids /\ Range(olds) \subseteq System
    /\ default \in Places \ {Off}
    /\ DOMAIN points \subseteq Ids /\ \A s \in DOMAIN points : points[s] \in Point
    /\ kents \in [Kernels -> {"none", "shown", "hidden"}] /\ menu \subseteq Ids
    /\ running \in Places /\ booted \in BOOLEAN
    /\ job \in [cmd : {"none", "create", "delete", "rollback", "apt", "boot", "entries"},
                sid : 0..MaxId, kind : {"auto", "manual"}, new : 0..MaxId, low : BOOLEAN]
    /\ todo \in Seq(Steps)
    /\ apt \in [on : BOOLEAN, pre : BOOLEAN, chg : SUBSET Change, src : Sources, kernel : {"same", "add", "remove"},
                point : 0..MaxId]
    /\ left \in [Bounded -> Nat] /\ harm \subseteq {"cut", "fail", "delete"}

Init ==
    /\ next = 1 /\ avail = 1 /\ harm = {}
    /\ \E x \in Scenarios : byName = x.byName /\ left = x.often
    /\ root = [pkg |-> [p \in Pkgs |-> IF p \in Apps THEN 0 ELSE 1], pins |-> {}, kept |-> {}, kernels |-> {1}]
    /\ olds = <<>> /\ default = At /\ points = <<>>
    /\ kents = [k \in Kernels |-> IF k = 1 THEN "shown" ELSE "none"] /\ menu = {}
    /\ running = At /\ booted = TRUE
    /\ job = NoJob /\ todo = <<>> /\ apt = NoApt

-----------------------------------------------------------------------------
(* What the commands read.                                                  *)

Step(op) == todo # <<>> /\ Head(todo)[1] = op
Arg == Head(todo)[2]
Put(f, k, v) == [x \in DOMAIN f \cup {k} |-> IF x = k THEN v ELSE f[x]]

\* The command goes on with the steps rest, or is done and frees the lock.
Goes(rest) == todo' = rest /\ job' = IF rest = <<>> THEN NoJob ELSE job
Spend(what) == left[what] > 0 /\ left' = [left EXCEPT ![what] = @ - 1]
Harms(how, what) == Spend(how) /\ harm' = harm \cup {what}

\* Ready for a command: the lock is free, and the start's own has run.
Idle == todo = <<>> /\ running # Off /\ booted

Sys(place) == CASE place = At -> root [] place[1] = "old" -> olds[place[2]] [] OTHER -> NoSys

\* Restore points without a source, also without an info, count as updates'.
pool(s) == points[s].source
limit(src) == IF src = "store" THEN KEEP_STORE ELSE KEEP

bootable(s) == \E k \in points[s].kernels : kents[k] = "shown"

\* What is too many, each pool's oldest first.
Oldest(S, n) == {s \in S : Cardinality({t \in S : t < s}) < n}
surplus(keep) ==
    UNION {LET mine == {s \in DOMAIN points : pool(s) = src}
           IN  Oldest(mine \ keep, Cardinality(mine) - limit(src)) : src \in Sources}

Deletes(s) == <<<<"unboot", s>>, <<"unsnap", s>>>>
\* The k-th of S, the oldest first.
Nth(S, k) == CHOOSE s \in S : Cardinality({t \in S : t < s}) = k - 1
\* The steps a and b for each point of S, one point after the other.
ForEach(S, a, b) ==
    [i \in 1..(2 * Cardinality(S)) |-> IF i % 2 = 1 THEN <<a, Nth(S, (i + 1) \div 2)>>
                                                  ELSE <<b, Nth(S, i \div 2)>>]
DeleteAll(S) == ForEach(S, "unboot", "unsnap")

-----------------------------------------------------------------------------
(* Steps.  A step of the drive may fail: the command ends there, and an apt  *)
(* run goes on all the same.                                                 *)

Take == <<<<"snapshot", 0>>, <<"info", 0>>, <<"copy", 0>>>>
DriveOnly == UNCHANGED <<next, byName, harm, avail, kents, menu, running, booted, apt, left>>
PointsOnly == UNCHANGED <<root, olds, default>> /\ DriveOnly

\* take: the read-only snapshot of @.
snapshot ==
    /\ Step("snapshot")
    /\ \/ /\ root # NoSys
          /\ points' = Put(points, next,
                 [sys |-> root, kind |-> "?", source |-> "update", kernels |-> {}, changes |-> {},
                  fresh |-> TRUE, boot |-> "none", for |-> IF job.cmd = "apt" THEN apt.src ELSE "hand"])
          /\ job' = [job EXCEPT !.new = next] /\ todo' = Tail(todo) /\ next' = next + 1
          /\ apt' = IF job.cmd = "apt" THEN [apt EXCEPT !.point = next] ELSE apt
       \/ root = NoSys /\ Goes(<<>>) /\ UNCHANGED <<points, apt, next>>
    /\ UNCHANGED <<byName, harm, avail, root, olds, default, kents, menu, running, booted, left>>

\* take: what it was taken for and with, and its writable copy.
info ==
    /\ Step("info") /\ Goes(Tail(todo)) /\ PointsOnly
    /\ points' = [points EXCEPT
           ![job.new].kind = job.kind,
           ![job.new].source = IF job.cmd = "apt" THEN apt.src ELSE "update",
           ![job.new].kernels = points[job.new].sys.kernels,
           ![job.new].changes = IF job.cmd = "apt" THEN apt.chg ELSE {}]

copy ==
    /\ Step("copy") /\ Goes(Tail(todo)) /\ PointsOnly
    /\ points' = [points EXCEPT ![job.new].boot = "clean"]

\* merge_changes: the newest version, and the oldest "old".
\* (Variant: the second run is not recorded.)
Merged_Not(have, more) == have
Merged(have, more) ==
    {h \in have : \A c \in more : c.name # h.name}
    \cup {c \in more : \A h \in have : c.name # h.name}
    \cup {[x[1] EXCEPT !.new = x[2].new] : x \in {y \in have \X more : y[1].name = y[2].name}}

merge_changes ==
    /\ Step("merge") /\ Goes(Tail(todo))
    /\ points' = [points EXCEPT ![Arg].changes = Merged(@, apt.chg)]
    /\ apt' = [apt EXCEPT !.point = Arg]
    /\ UNCHANGED <<next, byName, harm, avail, root, olds, default, kents, menu, running, booted, left>>

\* prune: the counts; then, while the drive is low on space, the Store's
\* points before the updates', the oldest first.
Keep == {job.sid, job.new} \ {0}

prune ==
    /\ Step("prune") /\ Goes(DeleteAll(surplus(Keep)) \o <<<<"low", 0>>>> \o Tail(todo))
    /\ UNCHANGED points /\ PointsOnly

FirstToGo ==
    LET others == DOMAIN points \ Keep
        stores == {s \in others : pool(s) = "store"}
    IN  Min(IF stores # {} THEN stores ELSE others)

prune_low ==
    /\ Step("low")
    /\ \/ Goes(Tail(todo)) /\ UNCHANGED left
       \/ /\ DOMAIN points \ Keep # {} /\ Spend("low")
          /\ todo' = Deletes(FirstToGo) \o todo /\ job' = [job EXCEPT !.low = TRUE]
    /\ UNCHANGED <<next, byName, harm, avail, drive, kents, menu, running, booted, apt>>

delete_boot ==
    /\ Step("unboot") /\ Goes(Tail(todo)) /\ PointsOnly
    /\ points' = [points EXCEPT ![Arg].boot = "none"]

\* The snapshot, and with it the point: a directory without one is none.
delete_snapshot ==
    /\ Step("unsnap") /\ Goes(Tail(todo)) /\ PointsOnly
    /\ points' = Restrict(points, DOMAIN points \ {Arg})

\* The boot menu's restore points.
make_entries ==
    /\ Step("entries") /\ Goes(Tail(todo))
    /\ menu' = {s \in DOMAIN points : bootable(s)}
    /\ UNCHANGED <<next, byName, harm, avail, root, olds, default, points, kents, running, booted, apt, left>>

-----------------------------------------------------------------------------
(* Going back.  Renaming @ takes the subvolume along, running or default.   *)

Moved(place, from, to) == IF place = from THEN to ELSE place

rename ==
    /\ Step("rename")
    /\ \/ /\ root # NoSys
          /\ olds' = Put(olds, job.new, root) /\ root' = NoSys
          /\ default' = Moved(default, At, <<"old", job.new>>)
          /\ running' = Moved(running, At, <<"old", job.new>>)
          /\ Goes(Tail(todo))
       \/ /\ root = NoSys /\ Goes(<<>>) /\ UNCHANGED <<olds, root, default, running>>
    /\ UNCHANGED <<next, byName, harm, avail, points, kents, menu, booted, apt, left>>

\* The new @ from the snapshot, read-only and as it was taken.
restore ==
    /\ Step("restore") /\ Goes(Tail(todo))
    /\ root' = points[Arg].sys
    /\ UNCHANGED <<olds, default, points>> /\ DriveOnly

\* It failed: @ is put back.
restore_fails ==
    /\ Step("restore") /\ Harms("fail", "fail") /\ Goes(<<>>)
    /\ root' = olds[job.new] /\ olds' = Restrict(olds, DOMAIN olds \ {job.new})
    /\ default' = Moved(default, <<"old", job.new>>, At)
    /\ running' = Moved(running, <<"old", job.new>>, At)
    /\ UNCHANGED <<next, byName, avail, points, kents, menu, booted, apt>>

set_default ==
    /\ Step("default") /\ Goes(Tail(todo))
    /\ default' = At /\ UNCHANGED <<root, olds, points>> /\ DriveOnly

\* The upgrades the point was taken before are kept from apt; a package that
\* was first installed then is not.  (Variant: the versions replaced are kept.)
went_back_prefs_Old(changes) == {<<c.name, c.old>> : c \in {d \in changes : d.old # 0}}
went_back_prefs(changes) == {<<c.name, c.new>> : c \in {d \in changes : d.old # 0}}

write_prefs ==
    /\ Step("prefs") /\ Goes(Tail(todo))
    /\ LET pins == went_back_prefs(points[Arg].changes)
           upgrades == {<<c.name, c.new>> : c \in {d \in points[Arg].changes : 0 < d.old /\ d.old < d.new}}
       IN  root' = [root EXCEPT !.pins = IF pins = {} THEN @ ELSE pins, !.kept = @ \cup upgrades]
    /\ UNCHANGED <<olds, default, points>> /\ DriveOnly

match_kernels ==
    /\ Step("kernels") /\ Goes(Tail(todo))
    /\ kents' = [k \in Kernels |-> IF kents[k] = "none" THEN "none"
                                   ELSE IF k \in points[Arg].kernels THEN "shown" ELSE "hidden"]
    /\ UNCHANGED <<next, byName, harm, avail, root, olds, default, points, menu, running, booted, apt, left>>

-----------------------------------------------------------------------------
(* At each start.                                                           *)

\* In a restore point's copy: it has been started.
mark ==
    /\ Step("mark") /\ Goes(Tail(todo)) /\ PointsOnly
    /\ points' = [points EXCEPT ![Arg].boot = "marked"]

\* What going back has replaced; btrfs does not delete its default subvolume.
delete_olds ==
    /\ Step("olds") /\ Goes(Tail(todo))
    /\ olds' = Restrict(olds, {t \in DOMAIN olds : default = <<"old", t>>})
    /\ UNCHANGED <<root, default, points>> /\ DriveOnly

\* Onto a copy that could not be deleted the snapshot does not go.
recopy ==
    /\ Step("recopy") /\ Goes(Tail(todo)) /\ PointsOnly
    /\ points' = [points EXCEPT ![Arg].boot = IF @ = "none" THEN "clean" ELSE @]

\* A btrfs call fails: at a start what it was for is left, else the command
\* ends (and an apt run goes on).
StepFails ==
    /\ \E op \in {"snapshot", "copy", "default", "unboot", "unsnap", "recopy"} : Step(op)
    /\ Harms("fail", "fail") /\ Goes(IF job.cmd = "boot" THEN Tail(todo) ELSE <<>>)
    /\ UNCHANGED <<next, byName, avail, root, olds, default, points, kents, menu, running, booted, apt>>

\* Copies that were started, or are missing.
Renewed == {s \in DOMAIN points : points[s].boot \in {"none", "marked"}}

-----------------------------------------------------------------------------
(* Commands.                                                                *)

Starts(cmd, sid, kind, steps) ==
    /\ todo' = steps
    /\ job' = IF steps = <<>> THEN NoJob ELSE [NoJob EXCEPT !.cmd = cmd, !.sid = sid, !.kind = kind]
Elsewhere == UNCHANGED <<next, byName, harm, avail, root, olds, default, points, kents, menu, running>>

cmd_create(kind) ==
    /\ Idle /\ next \in Ids /\ Spend("create")
    /\ Starts("create", 0, kind, Take \o <<<<"prune", 0>>, <<"entries", 0>>>>)
    /\ Elsewhere /\ UNCHANGED <<booted, apt>>

cmd_delete(s) ==
    /\ Idle /\ s \in DOMAIN points /\ running # <<"boot", s>> /\ Harms("delete", "delete")
    /\ Starts("delete", s, "manual", Deletes(s) \o <<<<"entries", 0>>>>)
    /\ UNCHANGED <<next, byName, avail, drive, kents, menu, running, booted, apt>>

\* A point of the system as it is now first, if there is one.  (Variants: no
\* point first; the default subvolume before there is a new @.)
ExchangeRoot(s) == <<<<"rename", 0>>, <<"restore", s>>, <<"default", 0>>>>
GoBackSteps_NoUndo(s) ==
    ExchangeRoot(s) \o <<<<"prefs", s>>, <<"kernels", s>>, <<"prune", 0>>, <<"entries", 0>>>>
GoBackSteps_DefaultFirst(s) ==
    Take \o <<<<"rename", 0>>, <<"default", 0>>, <<"restore", s>>, <<"prefs", s>>, <<"kernels", s>>,
             <<"prune", 0>>, <<"entries", 0>>>>
GoBackSteps(s) ==
    (IF root # NoSys THEN Take ELSE <<>>) \o
    (ExchangeRoot(s) \o <<<<"prefs", s>>, <<"kernels", s>>, <<"prune", 0>>, <<"entries", 0>>>>)

cmd_rollback(s) ==
    /\ Idle /\ s \in DOMAIN points /\ Spend("back")
    /\ \E k \in points[s].kernels : kents[k] # "none"
    /\ root # NoSys => next \in Ids
    /\ Starts("rollback", s, "manual", GoBackSteps(s))
    /\ Elsewhere /\ UNCHANGED <<booted, apt>>

\* before_changes: nothing while a restore point runs or going back waits for
\* the restart; the same kind's point of a moment ago; else a new one.
Joins(src) ==
    /\ points # <<>>
    /\ LET last == Max(DOMAIN points)
       IN  points[last].kind = "auto" /\ points[last].source = src /\ points[last].fresh
before_changes(src) ==
    IF running # At THEN <<>>
    ELSE IF Joins(src) THEN <<<<"merge", Max(DOMAIN points)>>>>
    ELSE Take \o <<<<"prune", 0>>, <<"entries", 0>>>>

\* What a run that brings packages P to version v (0: removes them) is about
\* to change; apt does not bring a version that is kept from it.
Changes(P, v) == {[name |-> p, old |-> Sys(running).pkg[p], new |-> v] : p \in P}
Possible(P, v) ==
    /\ Sys(running) # NoSys
    /\ \A p \in P : Sys(running).pkg[p] # v /\ (v # 0 => <<p, v>> \notin Sys(running).pins)

\* Before an offline update, with what was prepared (its apt may bring more).
cmd_pre_offline(P) ==
    /\ Idle /\ ~apt.on /\ left["apt"] > 0 /\ P # {} /\ P \cap Apps = {} /\ Possible(P, avail) /\ next \in Ids
    /\ apt' = [NoApt EXCEPT !.on = TRUE, !.pre = TRUE, !.chg = Changes(P, avail)]
    /\ Starts("apt", 0, "auto", before_changes("update"))
    /\ Elsewhere /\ UNCHANGED <<booted, left>>

\* An apt run, its hook before dpkg; a kernel may be added or removed with it.
cmd_apt_hook(P, v, kernel, src) ==
    LET sys == Sys(running)
        uses == {"apt"} \cup (IF P \cap Apps # {} THEN {"install"} ELSE {})
                        \cup (IF kernel # "same" THEN {"kernel"} ELSE {})
    IN  /\ Idle /\ Possible(P, v)
        /\ \A b \in uses : left[b] > 0
        /\ left' = [b \in Bounded |-> IF b \in uses THEN left[b] - 1 ELSE left[b]]
        /\ P # {} \/ kernel # "same"
        /\ apt.on => apt.pre /\ src = "update" /\ apt.chg \subseteq Changes(P, v)
        /\ kernel = "add" => Max(sys.kernels) < MaxKernel
        /\ kernel = "remove" => Cardinality(sys.kernels) > 1
        /\ next \in Ids
        /\ apt' = [NoApt EXCEPT !.on = TRUE, !.chg = Changes(P, v), !.src = src, !.kernel = kernel]
        /\ Starts("apt", 0, "auto", before_changes(src))
        /\ Elsewhere /\ UNCHANGED booted

\* dpkg, once the hook has ended: other commands may have come between.
\* kernel-install writes or removes the kernel's entry and has ours made again.
After(sys) ==
    [sys EXCEPT
       !.pkg = [p \in Pkgs |-> IF \E c \in apt.chg : c.name = p
                               THEN (CHOOSE c \in apt.chg : c.name = p).new ELSE sys.pkg[p]],
       !.kernels = CASE apt.kernel = "add" -> @ \cup {Max(@) + 1}
                     [] apt.kernel = "remove" -> @ \ {Min(@)}
                     [] OTHER -> @]
Dpkg ==
    /\ apt.on /\ ~apt.pre /\ job.cmd # "apt" /\ (apt.kernel # "same" => Idle)
    /\ IF running = At
       THEN root' = After(root) /\ UNCHANGED olds
       ELSE olds' = [olds EXCEPT ![running[2]] = After(@)] /\ UNCHANGED root
    /\ kents' = CASE apt.kernel = "add" -> [kents EXCEPT ![Max(Sys(running).kernels) + 1] = "shown"]
                  [] apt.kernel = "remove" -> [kents EXCEPT ![Min(Sys(running).kernels)] = "none"]
                  [] OTHER -> kents
    /\ IF apt.kernel # "same" THEN Starts("entries", 0, "manual", <<<<"entries", 0>>>>) ELSE UNCHANGED <<job, todo>>
    /\ apt' = NoApt
    /\ UNCHANGED <<next, byName, harm, avail, default, points, menu, running, booted, left>>

CleanUp ==
    IF running[1] = "boot" THEN <<<<"mark", running[2]>>>>
    ELSE <<<<"olds", 0>>>> \o ForEach(Renewed, "unboot", "recopy")
BootSteps == CleanUp \o <<<<"entries", 0>>>>

cmd_boot ==
    /\ running # Off /\ ~booted /\ todo = <<>> /\ booted' = TRUE
    /\ Starts("boot", 0, "manual", BootSteps)
    /\ Elsewhere /\ UNCHANGED <<apt, left>>

Command ==
    \/ cmd_boot \/ \E kind \in {"auto", "manual"} : cmd_create(kind)
    \/ \E P \in SUBSET Pkgs : cmd_pre_offline(P)
    \/ \E s \in DOMAIN points : cmd_delete(s) \/ cmd_rollback(s)
    \/ \E P \in SUBSET Pkgs, v \in {0, avail}, k \in {"same", "add", "remove"}, src \in Sources :
           cmd_apt_hook(P, v, k, src)

Work ==
    \/ snapshot \/ info \/ copy \/ merge_changes \/ prune \/ prune_low \/ delete_boot \/ delete_snapshot
    \/ make_entries \/ rename \/ restore \/ restore_fails \/ set_default \/ write_prefs \/ match_kernels
    \/ mark \/ delete_olds \/ recopy \/ StepFails

-----------------------------------------------------------------------------
(* The surroundings: time, the archive, the power, the boot menu.           *)

\* More than 300 s pass.
TimePasses ==
    /\ todo = <<>> /\ \E s \in DOMAIN points : points[s].fresh
    /\ points' = [s \in DOMAIN points |-> [points[s] EXCEPT !.fresh = FALSE]]
    /\ UNCHANGED <<next, byName, harm, avail, root, olds, default, kents, menu, running, booted, job, todo, apt, left>>

Release ==
    /\ todo = <<>> /\ avail < MaxVersion /\ avail' = avail + 1 /\ Spend("release")
    /\ UNCHANGED <<next, byName, harm, drive, kents, menu, running, booted, job, todo, apt>>

Restart ==
    /\ Idle /\ (apt.on => apt.pre) /\ running' = Off /\ booted' = FALSE /\ apt' = NoApt
    /\ UNCHANGED <<next, byName, harm, avail, drive, kents, menu, job, todo, left>>

PowerCut ==
    /\ running # Off /\ Harms("crash", "cut")
    /\ running' = Off /\ booted' = FALSE /\ job' = NoJob /\ todo' = <<>> /\ apt' = NoApt
    /\ UNCHANGED <<next, byName, avail, drive, kents, menu>>

\* The system's own entry, or a restore point's.
Ordinary == IF byName THEN At ELSE default
StartSystem ==
    /\ running = Off /\ Spend("start") /\ Sys(Ordinary) # NoSys
    /\ running' = Ordinary
    /\ UNCHANGED <<next, byName, harm, avail, drive, kents, menu, booted, job, todo, apt>>
StartPoint(s) ==
    /\ running = Off /\ Spend("start")
    /\ s \in menu \cap DOMAIN points /\ points[s].boot # "none"
    /\ running' = <<"boot", s>>
    /\ points' = [points EXCEPT ![s].boot = IF @ = "clean" THEN "dirty" ELSE @]
    /\ UNCHANGED <<next, byName, harm, avail, root, olds, default, kents, menu, booted, job, todo, apt>>

Around == TimePasses \/ Release \/ Restart \/ PowerCut \/ StartSystem \/ \E s \in menu : StartPoint(s)

Next == Command \/ Work \/ Dpkg \/ Around
Spec == Init /\ [][Next]_vars

-----------------------------------------------------------------------------
(* What a restore point is good for.                                        *)

Shown == {k \in Kernels : kents[k] = "shown"}

\* When going back is done, @ holds the packages the point was taken with, the
\* menu starts a kernel @ has the modules of, and no other; the point is still
\* there to go back to again, and so is the one that was taken first, ready to
\* start -- whatever pruning found too many, or the drive too full.  "These
\* versions are not installed again; later ones are": a version that was gone
\* back from does not come to the system again.
GoesBack ==
    /\ job.cmd = "rollback" /\ Step("entries") =>
          /\ job.sid \in DOMAIN points /\ root.pkg = points[job.sid].sys.pkg
          /\ {} # Shown /\ Shown \subseteq root.kernels
          /\ job.new \in DOMAIN points /\ points[job.new].boot = "clean"
    /\ running # Off => \A p \in Pkgs : LET sys == Sys(running) IN sys # NoSys => <<p, sys.pkg[p]>> \notin sys.kept

Unharmed == harm \cap {"cut", "fail"} = {}
For(s) == IF points[s].for = "store" THEN "store" ELSE "update"

\* What the menu starts is there.  The default subvolume is a whole system at
\* every moment, whichever step power is lost at, for an entry without
\* rootflags=; @ is there unless power was lost, also when a going back's
\* snapshot failed.
SystemThere ==
    /\ Sys(default) # NoSys /\ default[1] # "boot"
    /\ todo = <<>> /\ "cut" \notin harm => root # NoSys

\* And, whenever no command runs, once an ordinary start's own steps are done,
\* every restore point offered can be started and every one that can be is
\* offered, also after power was lost at any step and whatever kernels came and
\* went; and every copy is as its snapshot was taken, whichever points were
\* started before (and got as far as to say so).
Offered ==
    /\ SystemThere
    /\ Idle /\ running[1] # "boot" =>
          /\ "fail" \notin harm => \A s \in Ids : s \in menu <=>
                 s \in DOMAIN points /\ bootable(s) /\ points[s].boot # "none"
          /\ Unharmed => \A s \in DOMAIN points : points[s].boot \in {"none", "clean"}

HookDone == apt.on /\ ~apt.pre /\ job.cmd # "apt"
Recorded ==
    /\ apt.point \in DOMAIN points
    /\ \A c \in apt.chg : \E d \in points[apt.point].changes :
           /\ d.name = c.name /\ d.new = c.new
           /\ points[apt.point].for # "hand" => d.old = points[apt.point].sys.pkg[c.name]

\* "taken before every apt run that changes packages": when dpkg comes
\* to run, the hook has answered with a point -- unless a restore point runs, or
\* going back waits for the restart -- that says of every package this run
\* changes what it comes to, and (if it was taken for apt) what it was in the
\* point itself; as long as power is not lost, calls do not fail, and nobody has
\* deleted the points of a moment ago.  And such points stay: "an app install
\* never pushes out a restore point from before an update".  Unless the drive is
\* low on space, a point goes for the counts only when as many as are to be kept
\* remain that were taken for the same (power lost before its info was written
\* hides what a point was taken for).
BeforeEveryRun ==
    [][/\ ~HookDone /\ HookDone' /\ running = Ordinary /\ harm' = {} => Recorded'
       /\ \A s \in DOMAIN points \ DOMAIN points' : job.cmd # "delete" /\ ~job.low /\ Unharmed =>
             Cardinality({t \in DOMAIN points' : For(t) = For(s)}) >= limit(For(s))]_vars
=============================================================================
