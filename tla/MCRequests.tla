----------------------------- MODULE MCRequests -----------------------------
(* Requests of one node on two connections, with numbers of their own.     *)
EXTENDS Requests, RequestKey, TLC

CONSTANTS c1, c2, w1, w2

\* A node chooses numbers of the same digits, one of them negative.
OwnTwoKeys == (c1 :> {get_request_key(<<110>>, 12)}) @@ (c2 :> {get_request_key(<<110>>, -12)})
TwoKeys == UNION {OwnTwoKeys[c] : c \in Conns}

WaiterSymmetry == Permutations(Waiter)
=============================================================================
