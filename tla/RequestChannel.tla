---------------------------- MODULE RequestChannel ----------------------------
(***************************************************************************)
(* What client_receive_message promises its caller: whole requests, each   *)
(* once, in the order the client wrote them, until the client has gone or  *)
(* has written something that is not a request.                            *)
(***************************************************************************)
EXTENDS Naturals

CONSTANTS Conns,       \* connections
          NumRequests, \* bound: requests a client writes on a connection
          Bad          \* numbers of the requests that are malformed

VARIABLES asked,  \* whole requests the client has written
          gone,   \* how the client has ended: "no", "closed" or "reset"
          handed, \* requests handed to listener_handle_request
          state,  \* "serving", "refused" after a parse error, or "over"
          noise   \* may what arrives be unreadable at the moment?

vars == <<asked, gone, handed, state, noise>>

Init ==
    /\ asked = [c \in Conns |-> 0]
    /\ gone = [c \in Conns |-> "no"]
    /\ handed = [c \in Conns |-> 0]
    /\ state = [c \in Conns |-> "serving"]
    /\ noise \in BOOLEAN

Ask(c) ==
    /\ gone[c] = "no"
    /\ asked[c] < NumRequests
    /\ asked' = [asked EXCEPT ![c] = @ + 1]
    /\ UNCHANGED <<gone, handed, state>>

HangUp(c) ==
    /\ gone[c] = "no"
    /\ gone' \in {[gone EXCEPT ![c] = how] : how \in {"closed", "reset"}}
    /\ UNCHANGED <<asked, handed, state>>

Hand(c) ==
    /\ state[c] = "serving"
    /\ handed[c] < asked[c]
    /\ handed[c] + 1 \notin Bad
    /\ handed' = [handed EXCEPT ![c] = @ + 1]
    /\ UNCHANGED <<asked, gone, state>>

Refuse(c) ==
    /\ state[c] = "serving"
    /\ handed[c] + 1 \in Bad \/ noise
    /\ state' = [state EXCEPT ![c] = "refused"]
    /\ UNCHANGED <<asked, gone, handed>>

\* A client that closes has had every request served; one that is cut off, not.
Finish(c) ==
    /\ state[c] = "serving"
    /\ \/ gone[c] = "closed" /\ handed[c] = asked[c]
       \/ gone[c] = "reset"
    /\ state' = [state EXCEPT ![c] = "over"]
    /\ UNCHANGED <<asked, gone, handed>>

\* noise is the environment's: it may change at any time.
Next ==
    /\ noise' \in BOOLEAN
    /\ \/ \E c \in Conns : Ask(c) \/ HangUp(c) \/ Hand(c) \/ Refuse(c) \/ Finish(c)
       \/ UNCHANGED <<asked, gone, handed, state>>

Spec == Init /\ [][Next]_vars
=============================================================================
