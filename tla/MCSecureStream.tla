---------------------------- MODULE MCSecureStream ----------------------------
(* Small instance of SecureStream for TLC.                                 *)
EXTENDS SecureStream, TLC

CONSTANTS c1, c2

\* The buffer takes in parts of two requests; the second request gets no
\* answer, the third is malformed.
MCEnd == (0 :> 0) @@ (1 :> 1) @@ (2 :> 3) @@ (3 :> 4)
MCAnsEnd == (0 :> 0) @@ (1 :> 2) @@ (2 :> 2) @@ (3 :> 2)

\* One connection may pipeline; the other is used once.
MCMaxAsked == (c1 :> 3) @@ (c2 :> 1)
=============================================================================
