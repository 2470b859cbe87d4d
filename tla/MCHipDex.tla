------------------------------- MODULE MCHipDex -------------------------------
(* Two hosts whose applications may both initiate, also at the same time. *)
EXTENDS HipDex

Crossed == {<<1, 2>>, <<2, 1>>}
=============================================================================
