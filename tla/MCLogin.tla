------------------------------ MODULE MCLogin ------------------------------
(* Instances of Login for TLC: one client with two links, another with one. *)
EXTENDS Login

CONSTANTS c1, c2

MCClients == {c1, c2}
MCLinks == 1 .. 3
MCOwner == <<c1, c1, c2>>
MCTries == <<2, 1, 1>>
=============================================================================
