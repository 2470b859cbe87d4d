------------------------------- MODULE Framing -------------------------------
(***************************************************************************)
(* Requests on a TCP connection: client_receive_message cuts the byte      *)
(* stream into requests, client_send_message puts the answer on the wire.  *)
(* The stream has no marks: recv returns as much as has come, at most a    *)
(* buffer full, and the parser says where a request ends.  What it has not *)
(* consumed stays in the client's buffer for the next call.                *)
(*                                                                         *)
(* A byte is its position in the stream of its connection; request i ends  *)
(* at position End[i], answer i at AnsEnd[i] of the answer stream.         *)
(***************************************************************************)
EXTENDS Integers, Sequences

CONSTANTS Conns,       \* connections
          NumRequests, \* bound: requests a client writes on a connection
          End,         \* End[i]: where request i ends, End[0] = 0
          AnsEnd,      \* AnsEnd[i]: where the answer to request i ends
          Bad,         \* numbers of the requests the parser rejects
          BufSize      \* RECVBUFSIZE

ASSUME FramingAssumption ==
    /\ NumRequests \in Nat
    /\ End \in [0..NumRequests -> Nat]
    /\ End[0] = 0
    /\ \A i, j \in 0..NumRequests : i < j => End[i] < End[j]
    /\ AnsEnd \in [0..NumRequests -> Nat]
    /\ AnsEnd[0] = 0
    /\ \A i \in 1..NumRequests : AnsEnd[i - 1] <= AnsEnd[i]
    /\ Bad \subseteq 1..NumRequests
    /\ BufSize \in Nat \ {0}

VARIABLES
    written,       \* bytes the client has written
    asked,         \* whole requests among them
    gone,          \* how the client has ended: "no", "closed" or "reset"
    received,      \* bytes recv has returned
    base,          \* recvbuf holds the bytes after this one
    len,           \* Client.len
    remaining_len, \* Client.remaining_len
    bytes_handled, \* local variable of client_receive_message
    fedFrom,       \* the parser has been given the bytes after this one
    fedTo,         \* ... up to and with this one
    handed,        \* the request last handed to listener_handle_request
    pc,            \* the thread of the connection
    total,         \* local variable of client_send_message
    wire,          \* the bytes of the answers, as they went out
    broken         \* has a send failed

clientVars == <<written, asked, gone>>
bufferVars == <<received, base, len, remaining_len>>
parserVars == <<bytes_handled, fedFrom, fedTo>>
sendVars == <<total, wire, broken>>
vars == <<clientVars, bufferVars, parserVars, sendVars, handed, pc>>

Init ==
    /\ written = [c \in Conns |-> 0]
    /\ asked = [c \in Conns |-> 0]
    /\ gone = [c \in Conns |-> "no"]
    /\ received = [c \in Conns |-> 0]
    /\ base = [c \in Conns |-> 0]
    /\ len = [c \in Conns |-> 0]
    /\ remaining_len = [c \in Conns |-> 0]
    /\ bytes_handled = [c \in Conns |-> 0]
    /\ fedFrom = [c \in Conns |-> 0]
    /\ fedTo = [c \in Conns |-> 0]
    /\ handed = [c \in Conns |-> 0]
    /\ pc = [c \in Conns |-> "call"]
    /\ total = [c \in Conns |-> 0]
    /\ wire = [c \in Conns |-> <<>>]
    /\ broken = [c \in Conns |-> FALSE]

(***************************************************************************)
(* The client: it writes its requests in pieces of any size, and may stop  *)
(* in the middle of one.                                                   *)
(***************************************************************************)
Write(c) ==
    /\ gone[c] = "no"
    /\ asked[c] < NumRequests
    /\ \E upto \in (written[c] + 1)..End[asked[c] + 1] :
        /\ written' = [written EXCEPT ![c] = upto]
        /\ asked' = IF upto = End[asked[c] + 1]
                    THEN [asked EXCEPT ![c] = @ + 1] ELSE asked
    /\ UNCHANGED <<gone, bufferVars, parserVars, sendVars, handed, pc>>

HangUp(c) ==
    /\ gone[c] = "no"
    /\ \E how \in {"closed", "reset"} : gone' = [gone EXCEPT ![c] = how]
    /\ UNCHANGED <<written, asked, bufferVars, parserVars, sendVars, handed, pc>>

(***************************************************************************)
(* client_receive_message, with a new parser for each call.                *)
(***************************************************************************)
Call(c) ==
    /\ pc[c] = "call"
    /\ pc' = [pc EXCEPT ![c] = "receive"]
    /\ bytes_handled' = [bytes_handled EXCEPT ![c] = 0]
    /\ fedFrom' = [fedFrom EXCEPT ![c] = 0]
    /\ fedTo' = [fedTo EXCEPT ![c] = 0]
    /\ UNCHANGED <<clientVars, bufferVars, sendVars, handed>>

\* The bytes parseSSAPmsg_section is given: those after First, up to Last.
First(c) == base[c] + (len[c] - remaining_len[c])
Last(c) == First(c) + remaining_len[c]

\* The message that section belongs to starts after this byte, if the parser
\* has not been given something that does not follow on what it had.
Fresh(c) == fedFrom[c] = fedTo[c]
Start(c) == IF Fresh(c) THEN First(c) ELSE fedFrom[c]
FollowsOn(c) == Fresh(c) \/ fedTo[c] = First(c)

\* Is it request i that the parser is reading?
Reading(c, i) == FollowsOn(c) /\ Start(c) = End[i - 1]

Parsing(c) == pc[c] = "receive" /\ remaining_len[c] > 0

\* Variant: what is left over is taken from this section alone.
ParseOK_section(c) ==
    /\ Parsing(c)
    /\ \E i \in (1..NumRequests) \ Bad :
        /\ Reading(c, i)
        /\ Last(c) >= End[i]
        /\ remaining_len' = [remaining_len EXCEPT ![c] = @ - (End[i] - Start(c))]
        /\ bytes_handled' = [bytes_handled EXCEPT ![c] = End[i] - Start(c)]
        /\ handed' = [handed EXCEPT ![c] = i]
    /\ pc' = [pc EXCEPT ![c] = "send"]
    /\ total' = [total EXCEPT ![c] = 0]
    /\ UNCHANGED <<clientVars, received, base, len, fedFrom, fedTo, wire, broken>>

\* The parser has found the end of a request; parseSSAPmsg_parsedbytecount is
\* its length, and what follows it in the buffer is kept.
ParseOK(c) ==
    /\ Parsing(c)
    /\ \E i \in (1..NumRequests) \ Bad :
        LET bytecountnew == End[i] - Start(c) IN
        /\ Reading(c, i)
        /\ Last(c) >= End[i]
        /\ remaining_len' = [remaining_len EXCEPT
                             ![c] = (bytes_handled[c] + @) - bytecountnew]
        /\ bytes_handled' = [bytes_handled EXCEPT ![c] = bytecountnew]
        /\ handed' = [handed EXCEPT ![c] = i]
    /\ pc' = [pc EXCEPT ![c] = "send"]
    /\ total' = [total EXCEPT ![c] = 0]
    /\ UNCHANGED <<clientVars, received, base, len, fedFrom, fedTo, wire, broken>>

\* ss_ParsingInProgress: the buffer is used up.
ParseInProgress(c) ==
    /\ Parsing(c)
    /\ \E i \in 1..NumRequests : Reading(c, i) /\ Last(c) < End[i]
    /\ bytes_handled' = [bytes_handled EXCEPT ![c] = @ + remaining_len[c]]
    /\ fedFrom' = [fedFrom EXCEPT ![c] = Start(c)]
    /\ fedTo' = [fedTo EXCEPT ![c] = Last(c)]
    /\ len' = [len EXCEPT ![c] = 0]
    /\ remaining_len' = [remaining_len EXCEPT ![c] = 0]
    /\ UNCHANGED <<clientVars, received, base, sendVars, handed, pc>>

\* A parse error ends the call with -1, and the thread with it.
GiveUp(c) ==
    /\ bytes_handled' = [bytes_handled EXCEPT ![c] = -1]
    /\ pc' = [pc EXCEPT ![c] = "left"]
    /\ UNCHANGED <<clientVars, bufferVars, fedFrom, fedTo, sendVars, handed>>

\* The parser rejects a malformed request, at its end or before, and bytes that
\* do not follow on each other or do not start where a request starts.
ParseError(c) ==
    /\ Parsing(c)
    /\ \A i \in (1..NumRequests) \ Bad : ~Reading(c, i)
    /\ GiveUp(c)

\* Variant: the buffer is taken for free only when the parser has asked for more.
Receiving_len(c) == pc[c] = "receive" /\ len[c] = 0

\* recv into the whole buffer, which is free whenever recv is called.
Receiving(c) == pc[c] = "receive" /\ remaining_len[c] = 0

RecvData(c) ==
    /\ Receiving(c)
    /\ \E rtmp \in 1..BufSize :
        /\ received[c] + rtmp <= written[c]
        /\ base' = [base EXCEPT ![c] = received[c]]
        /\ received' = [received EXCEPT ![c] = @ + rtmp]
        /\ len' = [len EXCEPT ![c] = rtmp]
        /\ remaining_len' = [remaining_len EXCEPT ![c] = rtmp]
    /\ UNCHANGED <<clientVars, parserVars, sendVars, handed, pc>>

\* Zero bytes: the client has closed, and everything before has been read.
RecvEnd(c) ==
    /\ Receiving(c)
    /\ gone[c] = "closed"
    /\ received[c] = written[c]
    /\ bytes_handled' = [bytes_handled EXCEPT ![c] = 0]
    /\ pc' = [pc EXCEPT ![c] = "left"]
    /\ UNCHANGED <<clientVars, bufferVars, fedFrom, fedTo, sendVars, handed>>

RecvError(c) ==
    /\ Receiving(c)
    /\ gone[c] = "reset"
    /\ GiveUp(c)

(***************************************************************************)
(* listener_handle_request, from the request to the end of its answer. How *)
(* the handler comes to the answer is not followed here: it may wait for   *)
(* the SIB, in a subscription for hours, before the first byte is sent,    *)
(* and each send blocks while the client does not read.  So a thread may   *)
(* stay in "send" for ever.  client_send_message loops until all of the    *)
(* answer is on the wire; its caller does not look at the result.  optlen  *)
(* is not initialised, so the getsockopt before a send may or may not see  *)
(* that the client has gone: the send then fails itself, at once or later. *)
(***************************************************************************)
AnswerLen(c) == AnsEnd[handed[c]] - AnsEnd[handed[c] - 1]

\* The byte buf[j - 1] of the answer, as a position of the answer stream.
AnswerByte(c, j) == AnsEnd[handed[c] - 1] + j

\* Variant: every send starts at the front of the buffer.
SendChunk_front(c) ==
    /\ pc[c] = "send"
    /\ ~broken[c]
    /\ \E n \in 1..(AnswerLen(c) - total[c]) :
        /\ wire' = [wire EXCEPT ![c] = @ \o [j \in 1..n |-> AnswerByte(c, j)]]
        /\ total' = [total EXCEPT ![c] = @ + n]
    /\ UNCHANGED <<clientVars, bufferVars, parserVars, handed, pc, broken>>

SendChunk(c) ==
    /\ pc[c] = "send"
    /\ ~broken[c]
    /\ \E n \in 1..(AnswerLen(c) - total[c]) :
        /\ wire' = [wire EXCEPT ![c] = @ \o [j \in 1..n |-> AnswerByte(c, total[c] + j)]]
        /\ total' = [total EXCEPT ![c] = @ + n]
    /\ UNCHANGED <<clientVars, bufferVars, parserVars, handed, pc, broken>>

\* Once a send has failed, so do all later ones on this connection.
SendFails(c) ==
    /\ pc[c] = "send"
    /\ total[c] < AnswerLen(c)
    /\ gone[c] # "no"
    /\ broken' = [broken EXCEPT ![c] = TRUE]
    /\ pc' = [pc EXCEPT ![c] = "call"]
    /\ UNCHANGED <<clientVars, bufferVars, parserVars, handed, total, wire>>

SendDone(c) ==
    /\ pc[c] = "send"
    /\ total[c] = AnswerLen(c)
    /\ pc' = [pc EXCEPT ![c] = "call"]
    /\ UNCHANGED <<clientVars, bufferVars, parserVars, sendVars, handed>>

ReceiveStep(c) ==
    \/ Call(c) \/ ParseOK(c) \/ ParseInProgress(c) \/ ParseError(c)
    \/ RecvData(c) \/ RecvEnd(c) \/ RecvError(c)

SendStep(c) == SendChunk(c) \/ SendFails(c) \/ SendDone(c)

Next == \E c \in Conns : Write(c) \/ HangUp(c) \/ ReceiveStep(c) \/ SendStep(c)

Spec == Init /\ [][Next]_vars

-----------------------------------------------------------------------------
FramingTypeOK ==
    /\ written \in [Conns -> Nat] /\ asked \in [Conns -> 0..NumRequests]
    /\ gone \in [Conns -> {"no", "closed", "reset"}]
    /\ received \in [Conns -> Nat] /\ base \in [Conns -> Nat]
    /\ len \in [Conns -> 0..BufSize]
    /\ remaining_len \in [Conns -> 0..BufSize]
    /\ bytes_handled \in [Conns -> Nat \cup {-1}]
    /\ fedFrom \in [Conns -> Nat] /\ fedTo \in [Conns -> Nat]
    /\ handed \in [Conns -> 0..NumRequests]
    /\ pc \in [Conns -> {"call", "receive", "send", "left"}]
    /\ total \in [Conns -> Nat]
    /\ wire \in [Conns -> Seq(Nat)]
    /\ broken \in [Conns -> BOOLEAN]

\* What the caller of client_receive_message sees of a connection: it is served
\* until the call returns 0 or -1, which is an error unless the client has gone.
Seen(c) ==
    CASE pc[c] # "left" -> "serving"
      [] pc[c] = "left" /\ remaining_len[c] > 0 -> "refused"
      [] OTHER -> "over"

\* client_receive_message hands over whole requests, each once and in order,
\* however recv cuts the stream, refuses none that is well-formed, and loses
\* none that was written before the client closed.
Channel == INSTANCE RequestChannel
    WITH state <- [c \in Conns |-> Seen(c)], noise <- FALSE
ImplementsChannel == Channel!Spec

\* The answers go out byte by byte in order, however the sends are cut, and
\* the next request is not looked at before the last byte of the answer.
AnswersWhole ==
    \A c \in Conns :
        /\ \A j \in 1..Len(wire[c]) : wire[c][j] = j
        /\ pc[c] \in {"call", "receive"} /\ ~broken[c] => Len(wire[c]) = AnsEnd[handed[c]]
=============================================================================
