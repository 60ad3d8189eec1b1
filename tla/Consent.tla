------------------------------ MODULE Consent ------------------------------
(***************************************************************************)
(* What the elevation broker promises, without how: a request is taken up  *)
(* one at a time, and ends granted or refused.  It is granted only in the  *)
(* name of somebody who had the right to grant it while it was open: a     *)
(* member of the administrators' group, or, for a request to shadow a      *)
(* session, the person whose session it is.                                *)
(***************************************************************************)
CONSTANTS Conns,     \* requests
          Accounts,  \* accounts of people
          NoOne      \* "not decided by anybody yet"

VARIABLES admins,    \* the administrators' group
          phase,     \* phase[c]: "idle", "pending", "granted" or "refused"
          scope,     \* scope[c]: the right to grant c is the "group"'s or one "person"'s
          eligible,  \* eligible[c]: who has had the right to grant c since it was taken up
          by         \* by[c]: in whose name c was granted

cvars == <<admins, phase, scope, eligible, by>>

Init ==
    /\ admins \subseteq Accounts
    /\ phase = [c \in Conns |-> "idle"]
    /\ scope = [c \in Conns |-> "group"]
    /\ eligible = [c \in Conns |-> {}]
    /\ by = [c \in Conns |-> NoOne]

\* c is taken up; no other request is open then.
TakeUp(c) ==
    /\ phase[c] = "idle"
    /\ \A d \in Conns : phase[d] # "pending"
    /\ phase' = [phase EXCEPT ![c] = "pending"]
    /\ \/ /\ scope' = [scope EXCEPT ![c] = "group"]
          /\ eligible' = [eligible EXCEPT ![c] = admins]
       \/ \E p \in Accounts :
             /\ scope' = [scope EXCEPT ![c] = "person"]
             /\ eligible' = [eligible EXCEPT ![c] = {p}]
    /\ UNCHANGED <<admins, by>>

\* The group's members change; who joins while c is open may grant c.
Members(S) ==
    /\ admins' = S
    /\ eligible' = [c \in Conns |-> IF phase[c] = "pending" /\ scope[c] = "group"
                                    THEN eligible[c] \cup S ELSE eligible[c]]
    /\ UNCHANGED <<phase, scope, by>>

Grant(c, a) ==
    /\ phase[c] = "pending"
    /\ a \in eligible[c]
    /\ phase' = [phase EXCEPT ![c] = "granted"]
    /\ by' = [by EXCEPT ![c] = a]
    /\ UNCHANGED <<admins, scope, eligible>>

Refuse(c) ==
    /\ phase[c] \in {"idle", "pending"}
    /\ phase' = [phase EXCEPT ![c] = "refused"]
    /\ UNCHANGED <<admins, scope, eligible, by>>

Next ==
    \/ \E S \in SUBSET Accounts : Members(S)
    \/ \E c \in Conns : TakeUp(c) \/ Refuse(c) \/ \E a \in Accounts : Grant(c, a)

Spec == Init /\ [][Next]_cvars
=============================================================================
