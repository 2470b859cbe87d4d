----------------------------- MODULE SecureStream -----------------------------
(***************************************************************************)
(* Framing in either build.  Built with --enable-hipdex, the bytes of a    *)
(* connection are encrypted with AES-CTR under the security association    *)
(* (SA) of the client's IP address.  All connections of a host share one   *)
(* SA, and with it one counter for each direction; both ends step their    *)
(* counter by the bytes they encrypt or decrypt, in the order they do so.  *)
(* The counters are right only as long as both ends use them in the same   *)
(* order and no byte that was encrypted is lost.                           *)
(*                                                                         *)
(* Here all connections are of one host.  Its side runs the same library;  *)
(* it encrypts a request as a whole, as client_send_message does.          *)
(* A keystream byte is its SA, numbered by handshake, and its position.  In  *)
(* the plain build these variables keep their initial values.               *)
(***************************************************************************)
EXTENDS Framing

CONSTANTS MaxHandshakes, \* bound: handshakes, the first included
          MaxAsked       \* bound: requests on each connection

ASSUME SecureAssumption ==
    MaxHandshakes \in Nat /\ MaxAsked \in [Conns -> 0..NumRequests]

VARIABLES
    hipdex,    \* which build
    sas,       \* handshakes so far: the number of the SA in the database
    encr,      \* the gateway's CsadbEntry.encr: keystream bytes used
    decr,      \* the gateway's CsadbEntry.decr
    hostEncr,  \* the host's counters
    hostDecr,
    key,       \* key[c][p]: the keystream byte that byte p of a request got
    sa,        \* the SA a thread has looked up, NoSA outside the receive call
    cut,       \* has the receive call found that the peer is gone?
    sealed,    \* has the answer being sent been encrypted?
    garbled,   \* is the buffer not what the client wrote?
    answers,   \* the first keystream byte of each answer the host has not read
    misread,   \* has the host decrypted an answer wrongly, since the handshake?
    disturbed  \* has the order been broken since the last clean handshake?

cipherVars == <<encr, decr, hostEncr, hostDecr, key>>
secureVars == <<hipdex, sas, cipherVars, sa, cut, sealed, garbled, answers, misread, disturbed>>
allVars == <<vars, secureVars>>

NoSA == 0
Bytes == 1..End[NumRequests]

\* Byte n of the keystream of SA s: AesCtr makes the next block when one is used up.
Keystream(s, n) == <<s, n>>

SecureInit ==
    /\ Init
    /\ hipdex \in BOOLEAN
    /\ sas = 1
    /\ encr = 0 /\ decr = 0 /\ hostEncr = 0 /\ hostDecr = 0
    /\ key = [c \in Conns |-> [p \in Bytes |-> Keystream(NoSA, 0)]]
    /\ sa = [c \in Conns |-> NoSA]
    /\ cut = [c \in Conns |-> FALSE]
    /\ sealed = [c \in Conns |-> FALSE]
    /\ garbled = [c \in Conns |-> FALSE]
    /\ answers = [c \in Conns |-> <<>>]
    /\ misread = FALSE
    /\ disturbed = FALSE

\* Something that one end has encrypted and the other not decrypted, or may
\* encrypt at any moment.
Unfinished(c) ==
    \/ written[c] > received[c]
    \/ written[c] > End[asked[c]]
    \/ received[c] > End[handed[c]]
    \/ pc[c] = "send"
    \/ answers[c] # <<>>

OnlyOneBusy(c) == \A d \in Conns \ {c} : ~Unfinished(d)

(***************************************************************************)
(* The host.                                                               *)
(***************************************************************************)
\* The first byte of a request: HIPDEX_Encrypt has encrypted all of it.  Once
\* the order is broken the model's host only hangs up, and in the plain build,
\* where connections share nothing, it uses one of them.
HostWrite(c) ==
    /\ ~disturbed
    /\ asked[c] < MaxAsked[c]
    /\ hipdex \/ \A d \in Conns \ {c} : written[d] = 0
    /\ Write(c)
    /\ LET i == asked[c] + 1
           request == (End[i - 1] + 1)..End[i]
       IN  IF hipdex /\ written[c] = End[i - 1]
           THEN /\ key' = [key EXCEPT ![c] = [p \in Bytes |->
                          IF p \in request THEN Keystream(sas, hostEncr + (p - End[i - 1])) ELSE @[p]]]
                /\ hostEncr' = hostEncr + (End[i] - End[i - 1])
           ELSE UNCHANGED <<key, hostEncr>>
    /\ disturbed' = (hipdex /\ ~OnlyOneBusy(c))
    /\ UNCHANGED <<hipdex, sas, encr, decr, hostDecr, sa, cut, sealed, garbled, answers, misread>>

\* The host reads a whole answer.
HostRead(c) ==
    /\ ~disturbed
    /\ gone[c] = "no"
    /\ answers[c] # <<>>
    /\ pc[c] # "send" \/ Len(answers[c]) > 1
    /\ LET a == Head(answers[c]) IN
        /\ misread' = (misread \/ a.at # Keystream(sas, hostDecr + 1))
        /\ hostDecr' = hostDecr + a.len
    /\ answers' = [answers EXCEPT ![c] = Tail(@)]
    /\ UNCHANGED <<vars, hipdex, sas, encr, decr, hostEncr, key, sa, cut, sealed, garbled, disturbed>>

HostHangUp(c) ==
    /\ HangUp(c)
    /\ hipdex \/ \A d \in Conns \ {c} : written[d] = 0
    /\ disturbed' = (disturbed \/ (hipdex /\ Unfinished(c)))
    /\ UNCHANGED <<hipdex, sas, cipherVars, sa, cut, sealed, garbled, answers, misread>>

\* Not yet opened, or closed at both ends.
Idle(c) ==
    \/ pc[c] = "left" /\ gone[c] # "no"
    \/ written[c] = 0 /\ sa[c] = NoSA

\* Variant: the counter of the answers is not started again.
StoreSA_kept ==
    /\ hipdex
    /\ sas < MaxHandshakes
    /\ sas' = sas + 1
    /\ decr' = 0 /\ hostEncr' = 0 /\ hostDecr' = 0
    /\ misread' = FALSE
    /\ disturbed' = \E c \in Conns : ~Idle(c)
    /\ UNCHANGED <<vars, hipdex, encr, key, sa, cut, sealed, garbled, answers>>

\* Csadb::StoreSA after a handshake: the old entry is deleted, the new one
\* starts its counters at zero, at both ends.
StoreSA ==
    /\ hipdex
    /\ sas < MaxHandshakes
    /\ sas' = sas + 1
    /\ encr' = 0 /\ decr' = 0 /\ hostEncr' = 0 /\ hostDecr' = 0
    /\ misread' = FALSE
    /\ disturbed' = \E c \in Conns : ~Idle(c)
    /\ UNCHANGED <<vars, hipdex, key, sa, cut, sealed, garbled, answers>>

(***************************************************************************)
(* The gateway's threads.                                                  *)
(***************************************************************************)
\* HIPDEX_GetSA once at the start of the call; the pointer is used to its end.
SecureCall(c) ==
    /\ Call(c)
    /\ sa' = [sa EXCEPT ![c] = IF hipdex THEN sas ELSE NoSA]
    /\ UNCHANGED <<hipdex, sas, cipherVars, cut, sealed, garbled, answers, misread, disturbed>>

\* getpeername fails on a connection that has been reset: the call returns -1
\* before it looks at what is left in the buffer, or at any more.
SecureCallFails(c) ==
    /\ hipdex
    /\ pc[c] = "call"
    /\ gone[c] = "reset"
    /\ GiveUp(c)
    /\ cut' = [cut EXCEPT ![c] = TRUE]
    /\ UNCHANGED <<hipdex, sas, cipherVars, sa, sealed, garbled, answers, misread, disturbed>>

\* Variant: every chunk is decrypted from a fresh keystream block.
SecureRecv_block(c) ==
    /\ RecvData(c)
    /\ LET n == received'[c] - received[c] IN
        IF hipdex
        THEN /\ garbled' = [garbled EXCEPT ![c] =
                  sa[c] # sas \/ \E j \in 1..n : key[c][received[c] + j] # Keystream(sas, decr + j)]
             /\ decr' = decr + ((n + 1) \div 2) * 2
        ELSE UNCHANGED <<garbled, decr>>
    /\ UNCHANGED <<hipdex, sas, encr, hostEncr, hostDecr, key, sa, cut, sealed, answers, misread, disturbed>>

\* HIPDEX_Decrypt on each chunk as it comes.  An entry that has been replaced
\* during the call is freed memory, possibly the memory of the new entry.
SecureRecv(c) ==
    /\ RecvData(c)
    /\ LET n == received'[c] - received[c] IN
        IF hipdex
        THEN /\ garbled' = [garbled EXCEPT ![c] =
                  sa[c] # sas \/ \E j \in 1..n : key[c][received[c] + j] # Keystream(sas, decr + j)]
             /\ decr' \in IF sa[c] = sas THEN {decr + n} ELSE {decr, decr + n}
        ELSE UNCHANGED <<garbled, decr>>
    /\ UNCHANGED <<hipdex, sas, encr, hostEncr, hostDecr, key, sa, cut, sealed, answers, misread, disturbed>>

\* The parser fails on bytes that have been decrypted with the wrong keystream.
ParseGarbled(c) ==
    /\ Parsing(c)
    /\ GiveUp(c)

SecureParse(c) ==
    /\ ~garbled[c]
    /\ ParseOK(c)
    /\ sa' = [sa EXCEPT ![c] = NoSA]
    /\ sealed' = [sealed EXCEPT ![c] = FALSE]
    /\ UNCHANGED <<hipdex, sas, cipherVars, cut, garbled, answers, misread, disturbed>>

SecureInProgress(c) ==
    /\ ~garbled[c]
    /\ ParseInProgress(c)
    /\ UNCHANGED secureVars

\* The thread ends; client_destroy closes the connection.
SecureLeave(c) ==
    /\ \/ garbled[c] /\ ParseGarbled(c)
       \/ ~garbled[c] /\ ParseError(c)
       \/ RecvEnd(c) \/ RecvError(c)
    /\ sa' = [sa EXCEPT ![c] = NoSA]
    /\ disturbed' = (disturbed \/ (hipdex /\ Unfinished(c)))
    /\ UNCHANGED <<hipdex, sas, cipherVars, cut, sealed, garbled, answers, misread>>

\* client_send_message looks the SA up again and encrypts the whole answer.
SecureEncrypt(c) ==
    /\ pc[c] = "send"
    /\ ~sealed[c]
    /\ sealed' = [sealed EXCEPT ![c] = TRUE]
    /\ encr' = IF hipdex THEN encr + AnswerLen(c) ELSE encr
    /\ answers' = IF ~hipdex \/ AnswerLen(c) = 0 THEN answers
                  ELSE [answers EXCEPT ![c] = Append(@, [at |-> Keystream(sas, encr + 1), len |-> AnswerLen(c)])]
    /\ UNCHANGED <<vars, hipdex, sas, decr, hostEncr, hostDecr, key, sa, cut, garbled, misread, disturbed>>

\* The same test before an answer is encrypted.
SecureAnswerFails(c) ==
    /\ hipdex
    /\ pc[c] = "send"
    /\ ~sealed[c]
    /\ gone[c] = "reset"
    /\ broken' = [broken EXCEPT ![c] = TRUE]
    /\ pc' = [pc EXCEPT ![c] = "call"]
    /\ UNCHANGED <<clientVars, bufferVars, parserVars, handed, total, wire, secureVars>>

SecureSend(c) ==
    /\ sealed[c]
    /\ SendStep(c)
    /\ UNCHANGED secureVars

GatewayStep(c) ==
    \/ SecureCall(c) \/ SecureCallFails(c) \/ SecureRecv(c) \/ SecureParse(c) \/ SecureInProgress(c)
    \/ SecureLeave(c) \/ SecureEncrypt(c) \/ SecureAnswerFails(c) \/ SecureSend(c)

SecureNext ==
    \/ \E c \in Conns : HostWrite(c) \/ HostRead(c) \/ HostHangUp(c) \/ GatewayStep(c)
    \/ StoreSA

\* A thread of the gateway that has a byte to read or to parse does.  Nothing of
\* the kind is said of one that handles a request: the SIB and the client decide
\* whether it ever comes back from there.
SecureSpec ==
    /\ SecureInit /\ [][SecureNext]_allVars
    /\ \A c \in Conns : WF_allVars(pc[c] # "send" /\ GatewayStep(c))
-----------------------------------------------------------------------------
\* As in Framing, for both builds: a well-formed request is refused only in the
\* HIP-DEX build, and only after the order of the keystreams has been broken.
SecureChannel == INSTANCE RequestChannel
    WITH state <- [c \in Conns |-> IF cut[c] THEN "over" ELSE Seen(c)], noise <- disturbed
ImplementsSecureChannel == SecureChannel!Spec

\* The host reads an answer wrongly only after such a break.
AnswersReadable == misread => disturbed

\* No request gets stuck in the buffer: on a connection whose handlers return,
\* each request that was written is handed over in the end, also one that came
\* whole with the bytes of the one before and after which nothing more is
\* received; unless the client was cut off or the connection refused, with the
\* causes the channel allows.  A handler that does not return ends the service.
HandlersReturn(c) == []<>(pc[c] # "send")

EveryRequestHanded ==
    \A c \in Conns : HandlersReturn(c) =>
        \A i \in (1..NumRequests) \ Bad :
            asked[c] >= i ~> (handed[c] >= i \/ gone[c] = "reset" \/ Seen(c) = "refused")
=============================================================================
