-------------------------- MODULE MCRestorePoints ---------------------------
(* Instances of RestorePoints for TLC. *)
EXTENDS RestorePoints

CONSTANTS system, app

On(named, often) == [byName |-> named, often |-> [b \in Bounded |-> IF b \in DOMAIN often THEN often[b] ELSE 0]]

\* Runs of all kinds close together.
Taking == On(TRUE, [apt |-> 3, install |-> 2, release |-> 1, create |-> 1, delete |-> 1, low |-> 1])
\* Three releases, a going back, starts of the system and of points.
GoingBack == On(TRUE, [apt |-> 2, release |-> 2, back |-> 1, start |-> 2, delete |-> 1])
\* Kernels come and go, and power is lost, on either kind of drive.
Kernelled(named) == On(named, [apt |-> 2, kernel |-> 2, back |-> 1, start |-> 1, crash |-> 1])
\* Power is lost, a call fails.
Harmed(named) == On(named, [apt |-> 1, create |-> 1, back |-> 1, start |-> 1, crash |-> 1, fail |-> 1, low |-> 1])
Several == {Taking, GoingBack} \cup {Kernelled(b) : b \in BOOLEAN} \cup {Harmed(b) : b \in BOOLEAN}

=============================================================================
