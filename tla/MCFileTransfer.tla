--------------------------- MODULE MCFileTransfer ---------------------------
(* Instances of FileTransfer for TLC. *)
EXTENDS FileTransfer, TLC

CONSTANTS l1, l2, c1, v, w

\* A client that reconnects: both links are its own.
OneClient == [l \in Links |-> c1]
\* The transfer id is made of the path and the size: equal for both versions...
SameSize == [x \in Versions |-> v]
\* ... or different.
OtherSize == [x \in Versions |-> x]

\* The links are alike.
SymLinks == Permutations(Links)

\* Nothing is claimed of what follows an overlap: such states are checked, not
\* continued.
Continued == ~raced
=============================================================================
