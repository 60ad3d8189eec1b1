------------------------------ MODULE MCBroker ------------------------------
(* Instances of Broker for TLC. *)
EXTENDS Broker

CONSTANTS Alice, Bob

TwoSurfaces == {<<Alice, "console">>, <<Bob, "rdp">>}
AliceSurface == {<<Alice, "console">>}

Ask(u, k, t, ids) == [uid |-> u, kind |-> k, target |-> t, ids |-> ids, whole |-> TRUE]

\* An elevation by each of two people; polkit's question for an identity; a
\* request to shadow, from root and from somebody else; one that is not whole.
AllRequests ==
    {Ask(Alice, "elevate", Alice, {}), Ask(Bob, "elevate", Bob, {}),
     Ask(Bob, "polkit", Bob, {Alice}), Ask(Alice, "polkit", Alice, {Alice}),
     Ask(Root, "shadow", Alice, {}), Ask(Bob, "shadow", Alice, {}),
     [Ask(Alice, "polkit", Alice, {}) EXCEPT !.whole = FALSE]}
\* Two requests that concern one person: their own, and one to shadow them.
AliceRequests == {Ask(Alice, "elevate", Alice, {}), Ask(Root, "shadow", Alice, {})}
=============================================================================
