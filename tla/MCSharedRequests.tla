--------------------------- MODULE MCSharedRequests ---------------------------
(* Requests of one node on three connections, for TLC.                     *)
EXTENDS Requests, RequestKey

CONSTANTS c1, c2, c3, k1, w1, w2

\* The connections reuse one message number.
SharedKeys == [c \in Conns |-> Keys]

\* Node ids that end like a key does, and numbers on both sides of zero, with
\* zeros within and at the end, up to the width of an int.
MCNodeIds == {<<110>>, <<110, 95>>, <<110, 95, 49>>, <<110, 95, 47>>, <<110, 49>>}
MCNumbers == (-120..120) \cup {-2147483647, -2147483640, -1000, 1000, 2147483640, 2147483647}

\* The keys of all these requests differ.
ASSUME KeysAssumption == KeysDiffer(MCNodeIds, MCNumbers)
=============================================================================
