------------------------------ MODULE NetMount ------------------------------
(***************************************************************************)
(* Network drives (sg-netmountd), one process per connection, all of them  *)
(* root and all of them working on one mount table and one set of          *)
(* directories.  Of a share there is one mount for everybody, at Shared,   *)
(* and one for each person who gave a name and a password of their own, at *)
(* a path that is written here as the person.  A person has one letter.    *)
(***************************************************************************)
EXTENDS Naturals, Sequences, SequencesExt

CONSTANTS Conns,      \* connections, each with its process
          People,     \* uids
          Shared,     \* the path of the mount everybody uses
          NoPath,     \* no path
          OnDomain,   \* does the machine belong to a domain (read_role)?
          MaxServed   \* bound: requests served in all

ASSUME NetConstants ==
    /\ Shared \notin People /\ NoPath \notin People \cup {Shared}
    /\ OnDomain \in BOOLEAN /\ MaxServed \in Nat

VARIABLES
    mounts,    \* mounts[p]: what is mounted at p, the last on top
    dirs,      \* directories that exist
    drives,    \* drives[u]: where u's letter leads
    tickets,   \* who has a Kerberos ticket
    proc,      \* proc[c]: the process serving c: where it is, for whom, ...
    raced,     \* history: paths two processes were mounting at once
    served     \* requests begun

netVars == <<mounts, dirs, drives, tickets, proc, raced, served>>

Paths == People \cup {Shared}
Requested == {"MOUNT", "MAP", "UNMAP", "LOGON", "LOGOFF"}
Steps == {"idle", "own", "shared", "reach", "mkdirs", "krb5", "guest", "rmdir", "unlink", "symlink",
          "detach", "credentials", "logoff", "umount", "OK", "ERR"}

NetTypeOK ==
    /\ mounts \in [Paths -> Seq({"krb5", "guest"} \cup People)]
    /\ dirs \subseteq Paths /\ drives \in [People -> Paths \cup {NoPath}]
    /\ tickets \subseteq People /\ raced \subseteq Paths /\ served \in 0..MaxServed
    /\ proc \in [Conns -> [at : Steps, uid : People, op : Requested, path : Paths \cup {NoPath}, sure : BOOLEAN]]

NetInit ==
    /\ mounts = [p \in Paths |-> <<>>] /\ dirs = {} /\ drives = [u \in People |-> NoPath]
    /\ tickets = {} /\ raced = {} /\ served = 0
    /\ proc = [c \in Conns |-> [at |-> "idle", uid |-> CHOOSE u \in People : TRUE, op |-> "MOUNT",
                                path |-> NoPath, sure |-> TRUE]]

\* (Variant: a directory that is there is taken for the mount.)
is_mounted_Dir(p) == p \in dirs
is_mounted(p) == mounts[p] # <<>>

user_path(u) == u

-----------------------------------------------------------------------------
(* One process.  sure: nobody else has disconnected this person's own      *)
(* connection since the request began.                                     *)

At(c, step) == proc[c].at = step
NetGoto(c, step) == proc' = [proc EXCEPT ![c].at = step]
With(c, step, p) == proc' = [proc EXCEPT ![c].at = step, ![c].path = p]

\* A connection comes, or sends its next line; what it asks for is valid.
handle(c, u, op) ==
    /\ proc[c].at \in {"idle", "OK", "ERR"} /\ served < MaxServed /\ served' = served + 1
    /\ proc[c].at = "idle" \/ proc[c].uid = u
    /\ proc' = [proc EXCEPT ![c] =
          [at |-> CASE op \in {"MOUNT", "MAP"} -> "own" [] op = "UNMAP" -> "unlink"
                    [] op = "LOGON" -> "detach" [] op = "LOGOFF" -> "logoff",
           uid |-> u, op |-> op, path |-> NoPath, sure |-> TRUE]]
    /\ UNCHANGED <<mounts, dirs, drives, tickets, raced>>

Found(c, p) == With(c, IF proc[c].op = "MAP" THEN "unlink" ELSE "OK", p)

\* do_mount: the person's own connection, or everybody's, if it is there.
look_own(c) ==
    /\ At(c, "own")
    /\ LET p == user_path(proc[c].uid) IN IF is_mounted(p) THEN Found(c, p) ELSE NetGoto(c, "shared")
    /\ UNCHANGED <<mounts, dirs, drives, tickets, raced, served>>

look_shared(c) ==
    /\ At(c, "shared")
    /\ IF is_mounted(Shared) THEN Found(c, Shared) ELSE With(c, "reach", Shared)
    /\ UNCHANGED <<mounts, dirs, drives, tickets, raced, served>>

\* The name may not resolve, and no file server answer there.
smb_reachable(c) ==
    /\ At(c, "reach") /\ \E s \in {"mkdirs", "ERR"} : NetGoto(c, s)
    /\ UNCHANGED <<mounts, dirs, drives, tickets, raced, served>>

\* The directories may not come to be; for LOGON, nor the credentials' file.
mkdirs(c) ==
    /\ At(c, "mkdirs")
    /\ \/ /\ dirs' = dirs \cup {proc[c].path}
          /\ NetGoto(c, CASE proc[c].op = "LOGON" -> "credentials" [] OnDomain -> "krb5" [] OTHER -> "guest")
       \/ /\ dirs' \in {dirs} \cup (IF proc[c].op = "LOGON" THEN {dirs \cup {proc[c].path}} ELSE {})
          /\ NetGoto(c, "ERR")
    /\ UNCHANGED <<mounts, drives, tickets, raced, served>>

Mounting(p) == {d \in Conns : proc[d].path = p /\ proc[d].at \in {"reach", "mkdirs", "krb5", "guest", "credentials"}}

\* mount(8) puts its mount on top, if the directory is there and the server
\* takes it; otherwise the next thing is tried.
run_mount(c, what, otherwise) ==
    LET p == proc[c].path IN
    /\ \/ /\ p \in dirs /\ mounts' = [mounts EXCEPT ![p] = Append(@, what)]
          /\ IF proc[c].op = "LOGON" THEN NetGoto(c, "OK") ELSE Found(c, p)
       \/ UNCHANGED mounts /\ NetGoto(c, otherwise)
    /\ raced' = IF Mounting(p) # {c} THEN raced \cup {p} ELSE raced
    /\ UNCHANGED <<dirs, drives, tickets, served>>

\* Without a ticket the server does not take the first; then as a guest.
mount_krb5(c) ==
    /\ At(c, "krb5")
    /\ IF proc[c].uid \in tickets THEN run_mount(c, "krb5", "guest")
       ELSE NetGoto(c, "guest") /\ UNCHANGED <<mounts, raced, dirs, drives, tickets, served>>
mount_guest(c) == At(c, "guest") /\ run_mount(c, "guest", "rmdir")

\* A directory something is mounted on stays.
rmdir(c) ==
    /\ At(c, "rmdir")
    /\ dirs' = IF mounts[proc[c].path] = <<>> THEN dirs \ {proc[c].path} ELSE dirs
    /\ NetGoto(c, IF proc[c].op = "LOGOFF" THEN "OK" ELSE "ERR")
    /\ UNCHANGED <<mounts, drives, tickets, raced, served>>

\* The letter's link goes and comes back in two steps; there may be no
\* directory for it.
unlink(c) ==
    /\ At(c, "unlink")
    /\ \/ /\ drives' = [drives EXCEPT ![proc[c].uid] = NoPath]
          /\ NetGoto(c, IF proc[c].op = "MAP" THEN "symlink" ELSE "OK")
       \/ UNCHANGED drives /\ NetGoto(c, "ERR")
    /\ UNCHANGED <<mounts, dirs, tickets, raced, served>>

symlink(c) ==
    /\ At(c, "symlink")
    /\ \/ /\ drives[proc[c].uid] = NoPath
          /\ drives' = [drives EXCEPT ![proc[c].uid] = proc[c].path] /\ NetGoto(c, "OK")
       \/ UNCHANGED drives /\ NetGoto(c, "ERR")
    /\ UNCHANGED <<mounts, dirs, tickets, raced, served>>

\* What is on top comes off; this person's other requests may miss it.
Umounted(c, p, step) ==
    /\ mounts' = [mounts EXCEPT ![p] = IF @ = <<>> THEN @ ELSE Front(@)]
    /\ proc' = [d \in Conns |->
          IF d = c THEN [proc[c] EXCEPT !.at = step, !.path = p]
          ELSE [proc[d] EXCEPT !.sure = @ /\ ~(proc[d].uid = proc[c].uid /\ mounts[p] # <<>>)]]
    /\ UNCHANGED <<dirs, drives, tickets, raced, served>>

\* do_logon: the connection there was goes before the new one is tried.
logon_detach(c) == At(c, "detach") /\ Umounted(c, user_path(proc[c].uid), "reach")

\* The password is in a file only while mount(8) runs.
logon_mount(c) == At(c, "credentials") /\ run_mount(c, proc[c].uid, "rmdir")

\* LOGOFF: another process may have disconnected it since this one looked.
logoff_look(c) ==
    /\ At(c, "logoff")
    /\ LET p == user_path(proc[c].uid) IN With(c, IF is_mounted(p) THEN "umount" ELSE "rmdir", p)
    /\ UNCHANGED <<mounts, dirs, drives, tickets, raced, served>>

logoff(c) ==
    /\ At(c, "umount")
    /\ IF mounts[proc[c].path] # <<>> THEN Umounted(c, proc[c].path, "rmdir")
       ELSE NetGoto(c, "ERR") /\ UNCHANGED <<mounts, dirs, drives, tickets, raced, served>>

\* Somebody signs in to the domain, or their ticket expires.
Ticket(u) ==
    /\ OnDomain /\ tickets' \in {tickets \cup {u}, tickets \ {u}} /\ tickets' # tickets
    /\ UNCHANGED <<mounts, dirs, drives, proc, raced, served>>

Process(c) ==
    \/ look_own(c) \/ look_shared(c) \/ smb_reachable(c) \/ mkdirs(c) \/ mount_krb5(c) \/ mount_guest(c)
    \/ rmdir(c) \/ unlink(c) \/ symlink(c) \/ logon_detach(c) \/ logon_mount(c)
    \/ logoff_look(c) \/ logoff(c)

NetNext ==
    \/ \E c \in Conns : Process(c) \/ \E u \in People, op \in Requested : handle(c, u, op)
    \/ \E u \in People : Ticket(u)

-----------------------------------------------------------------------------
(* What it promises.                                                       *)

\* "OK <path>" can be relied on: what MOUNT, MAP and LOGON name is mounted
\* when they answer, unless this very person disconnected it meanwhile.
OkIsMounted ==
    \A c \in Conns :
        /\ proc[c].at = "OK" /\ proc[c].op \in {"MOUNT", "MAP", "LOGON"}
        /\ proc[c].sure \/ proc[c].path = Shared
        => mounts[proc[c].path] # <<>>

\* What a process for one person changed touches neither the letter nor the own
\* connection of another, and never takes away the mount everybody uses.
OthersUntouched ==
    \A c \in Conns : proc[c] # proc'[c] /\ proc[c].at \notin {"idle", "OK", "ERR"} =>
        /\ \A v \in People : v # proc[c].uid /\ (\A d \in Conns \ {c} : proc[d] = proc'[d]) =>
              drives'[v] = drives[v] /\ mounts'[v] = mounts[v]
        /\ Len(mounts'[Shared]) >= Len(mounts[Shared])

\* However several people's requests interleave on the one mount table, an OK
\* can be relied on and nobody else's connection is touched; and "a connection
\* uid already has is replaced": mounts pile up at one path only where two
\* processes were mounting it at the same time.
MountsAsAnswered ==
    [][OkIsMounted' /\ OthersUntouched /\ \A p \in Paths : Len(mounts'[p]) > 1 => p \in raced']_netVars
=============================================================================
