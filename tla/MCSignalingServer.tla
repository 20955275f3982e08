-------------------------- MODULE MCSignalingServer --------------------------
(* SignalingServer for TLC: who registers on which connection. *)
EXTENDS SignalingServer, TLC
CONSTANTS h1, x1, x2, a1, a2, b1, b2

\* A host with two connections, alone or with two clients.
TwoClients == (a1 :> h1) @@ (a2 :> h1) @@ (b1 :> x1) @@ (b2 :> x2)
OneHost    == (a1 :> h1) @@ (a2 :> h1)

\* How many messages of a connection the server reads.
One     == [k \in Conns |-> 1]
TwoNone == [k \in Conns |-> IF k = a1 THEN 2 ELSE IF k = a2 THEN 0 ELSE 1]
=============================================================================
