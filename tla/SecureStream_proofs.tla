------------------------- MODULE SecureStream_proofs -------------------------
(***************************************************************************)
(* Proofs about Framing and SecureStream, for either build and every       *)
(* number of connections, requests, handshakes, every length of requests   *)
(* and answers, and every size of the buffer.                              *)
(*                                                                         *)
(* The invariant of Framing ties the counters of client_receive_message to *)
(* the stream: between two calls the first byte that has not been parsed   *)
(* is the first byte of the next request, and within a call the parser has *)
(* been given the bytes of that request without a gap.                     *)
(*                                                                         *)
(* The counters are right in both builds, for they count bytes and not     *)
(* what the bytes say.  The cipher counters are in step while the order is *)
(* not disturbed: one connection at a time has anything on its way, in     *)
(* either direction, and what is on its way accounts for the difference    *)
(* between the two ends.                                                   *)
(***************************************************************************)
EXTENDS SecureStream, SequenceTheorems, TLAPS

\* The client writes its requests one after the other.
WrittenInv(c) ==
    /\ End[asked[c]] <= written[c]
    /\ asked[c] < NumRequests => written[c] < End[asked[c] + 1]
    /\ asked[c] = NumRequests => written[c] = End[asked[c]]

\* What recv has returned, and where the rest of it is in the buffer.
BufferInv(c) ==
    /\ received[c] <= written[c]
    /\ remaining_len[c] <= len[c]
    /\ remaining_len[c] <= received[c]
    /\ remaining_len[c] > 0 => base[c] + len[c] = received[c]

\* Parsed(c) is the last byte the parser has taken; before the first section of
\* a call that is the end of the last request.
Parsed(c) == received[c] - remaining_len[c]
ParserInv(c) ==
    /\ pc[c] \in {"call", "send"} => Parsed(c) = End[handed[c]]
    /\ pc[c] = "receive" =>
        /\ bytes_handled[c] = fedTo[c] - fedFrom[c]
        /\ fedFrom[c] = fedTo[c] => Parsed(c) = End[handed[c]]
        /\ fedFrom[c] # fedTo[c] =>
            /\ fedFrom[c] = End[handed[c]]
            /\ fedTo[c] = Parsed(c)
            /\ handed[c] < NumRequests
            /\ fedFrom[c] < fedTo[c]
            /\ fedTo[c] < End[handed[c] + 1]

\* What is on the wire is the answers so far and the part that has been sent.
WireInv(c) ==
    /\ \A j \in 1..Len(wire[c]) : wire[c][j] = j
    /\ pc[c] = "send" => handed[c] >= 1 /\ total[c] <= AnswerLen(c)
    /\ pc[c] = "send" /\ ~broken[c] => Len(wire[c]) = AnsEnd[handed[c] - 1] + total[c]
    /\ pc[c] \in {"call", "receive"} /\ ~broken[c] => Len(wire[c]) = AnsEnd[handed[c]]

ConnInv(c) == WrittenInv(c) /\ BufferInv(c) /\ ParserInv(c) /\ WireInv(c)

IndInv == FramingTypeOK /\ \A c \in Conns : ConnInv(c)

Step(c) == Write(c) \/ HangUp(c) \/ ReceiveStep(c) \/ SendStep(c)

ConnVars(c) ==
    <<written[c], asked[c], gone[c], received[c], base[c], len[c], remaining_len[c],
      bytes_handled[c], fedFrom[c], fedTo[c], handed[c], pc[c], total[c], wire[c], broken[c]>>

\* The ends of the requests are in order, so a position tells the request.
LEMMA EndFacts ==
    /\ NumRequests \in Nat
    /\ \A i \in 0..NumRequests : End[i] \in Nat /\ AnsEnd[i] \in Nat
    /\ \A i, j \in 0..NumRequests : End[i] <= End[j] <=> i <= j
    /\ \A i, j \in 0..NumRequests : End[i] < End[j] <=> i < j
    /\ \A i \in 1..NumRequests : AnsEnd[i - 1] <= AnsEnd[i]
    /\ End[0] = 0 /\ AnsEnd[0] = 0
    /\ BufSize \in Nat /\ BufSize > 0
    /\ Bad \subseteq 1..NumRequests
  <1> USE FramingAssumption
  <1>1. NumRequests \in Nat /\ \A i \in 0..NumRequests : End[i] \in Nat /\ AnsEnd[i] \in Nat
    OBVIOUS
  <1>2. ASSUME NEW i \in 0..NumRequests, NEW j \in 0..NumRequests
        PROVE  (End[i] < End[j] <=> i < j) /\ (End[i] <= End[j] <=> i <= j)
    <2>1. CASE i < j
      BY <1>1, <2>1
    <2>2. CASE j < i
      BY <1>1, <2>2
    <2>3. CASE i = j
      BY <1>1, <2>3
    <2> QED
      BY <2>1, <2>2, <2>3
  <1> QED
    BY <1>1, <1>2

LEMMA WrittenBound ==
    ASSUME FramingTypeOK, NEW c \in Conns, WrittenInv(c)
    PROVE  written[c] <= End[NumRequests]
  <1>1. asked[c] \in 0..NumRequests /\ NumRequests \in Nat /\ written[c] \in Nat
    BY EndFacts DEF FramingTypeOK
  <1>2. CASE asked[c] = NumRequests
    <2>1. written[c] = End[NumRequests]
      BY <1>2 DEF WrittenInv
    <2> QED
      BY <1>1, <2>1
  <1>3. CASE asked[c] < NumRequests
    <2>1. asked[c] + 1 \in 0..NumRequests /\ asked[c] + 1 <= NumRequests
      BY <1>1, <1>3
    <2>2. End[asked[c] + 1] <= End[NumRequests] /\ End[asked[c] + 1] \in Nat
          /\ End[NumRequests] \in Nat
      BY <1>1, <2>1, EndFacts
    <2>3. written[c] < End[asked[c] + 1]
      BY <1>3 DEF WrittenInv
    <2> HIDE <1>3
    <2> QED
      BY <1>1, <2>2, <2>3
  <1> QED
    BY <1>1, <1>2, <1>3

\* The parser reads the request after the last one handed over, whenever it has
\* anything to read, and what it is given ends where recv has come to.
LEMMA ReadsNext ==
    ASSUME IndInv, NEW c \in Conns, Parsing(c)
    PROVE  /\ First(c) = Parsed(c)
           /\ Last(c) = received[c]
           /\ FollowsOn(c)
           /\ Start(c) = End[handed[c]]
           /\ handed[c] < NumRequests
           /\ Start(c) <= First(c)
           /\ bytes_handled[c] = First(c) - Start(c)
           /\ \A i \in 1..NumRequests : Reading(c, i) <=> i = handed[c] + 1
  <1> USE EndFacts DEF IndInv, FramingTypeOK
  <1>1. ConnInv(c)
    OBVIOUS
  <1>2. First(c) = Parsed(c) /\ Last(c) = received[c]
    BY <1>1 DEF ConnInv, BufferInv, Parsing, First, Last, Parsed
  <1>3. FollowsOn(c) /\ Start(c) = End[handed[c]] /\ Start(c) <= First(c)
        /\ bytes_handled[c] = First(c) - Start(c)
    <2>1. /\ pc[c] = "receive" /\ ParserInv(c) /\ First(c) = Parsed(c)
          /\ fedFrom[c] \in Nat /\ fedTo[c] \in Nat /\ End[handed[c]] \in Nat
      BY <1>1, <1>2 DEF ConnInv, Parsing
    <2> USE ONLY <2>1 DEF Start, FollowsOn
    <2>2. CASE Fresh(c)
      BY <2>2 DEF ParserInv, Fresh
    <2>3. CASE ~Fresh(c)
      BY <2>3 DEF ParserInv, Fresh
    <2> QED
      BY <2>2, <2>3
  <1>4. handed[c] < NumRequests
    <2>1. received[c] > End[handed[c]]
      BY <1>1, <1>2, <1>3 DEF Parsing, Parsed, ConnInv, BufferInv
    <2>2. received[c] <= written[c] /\ written[c] <= End[NumRequests] /\ written[c] \in Nat
      BY <1>1, WrittenBound DEF ConnInv, BufferInv
    <2>3. End[handed[c]] < End[NumRequests]
      BY <2>1, <2>2
    <2> QED
      BY <2>3
  <1>5. ASSUME NEW i \in 1..NumRequests PROVE Reading(c, i) <=> i = handed[c] + 1
    <2>1. Reading(c, i) <=> End[handed[c]] = End[i - 1]
      BY <1>3 DEF Reading
    <2>2. i - 1 \in 0..NumRequests /\ handed[c] \in 0..NumRequests
      OBVIOUS
    <2>3. /\ End[handed[c]] <= End[i - 1] <=> handed[c] <= i - 1
          /\ End[i - 1] <= End[handed[c]] <=> i - 1 <= handed[c]
      <3> HIDE DEF IndInv, FramingTypeOK
      <3> QED
        BY <2>2
    <2>4. End[handed[c]] \in Nat /\ End[i - 1] \in Nat
      BY <2>2
    <2>5. End[handed[c]] = End[i - 1] <=> handed[c] = i - 1
      <3> HIDE DEF IndInv, FramingTypeOK
      <3> QED
        BY ONLY <2>2, <2>3, <2>4, EndFacts
    <2> QED
      BY <2>1, <2>5
  <1> QED
    BY <1>2, <1>3, <1>4, <1>5

\* The types of the state of one connection.
LEMMA ConnTypes ==
    ASSUME FramingTypeOK, NEW c \in Conns
    PROVE  /\ written[c] \in Nat /\ asked[c] \in 0..NumRequests
           /\ received[c] \in Nat /\ base[c] \in Nat
           /\ len[c] \in 0..BufSize /\ remaining_len[c] \in 0..BufSize
           /\ bytes_handled[c] \in Nat \cup {-1}
           /\ fedFrom[c] \in Nat /\ fedTo[c] \in Nat
           /\ handed[c] \in 0..NumRequests
           /\ pc[c] \in {"call", "receive", "send", "left"}
           /\ total[c] \in Nat /\ wire[c] \in Seq(Nat) /\ broken[c] \in BOOLEAN
           /\ NumRequests \in Nat /\ BufSize \in Nat /\ BufSize > 0
           /\ End[handed[c]] \in Nat /\ End[asked[c]] \in Nat
           /\ asked[c] < NumRequests =>
                 asked[c] + 1 \in 0..NumRequests /\ End[asked[c] + 1] \in Nat
           /\ handed[c] < NumRequests =>
                 handed[c] + 1 \in 0..NumRequests /\ End[handed[c] + 1] \in Nat
  <1>1. /\ NumRequests \in Nat /\ BufSize \in Nat /\ BufSize > 0
        /\ \A i \in 0..NumRequests : End[i] \in Nat
    BY EndFacts
  <1>2. asked[c] \in 0..NumRequests /\ handed[c] \in 0..NumRequests
    BY DEF FramingTypeOK
  <1>3. \A i \in 0..NumRequests : i < NumRequests => i + 1 \in 0..NumRequests
    BY <1>1
  <1>4. /\ written[c] \in Nat /\ received[c] \in Nat /\ base[c] \in Nat
        /\ len[c] \in 0..BufSize /\ remaining_len[c] \in 0..BufSize
        /\ bytes_handled[c] \in Nat \cup {-1}
        /\ fedFrom[c] \in Nat /\ fedTo[c] \in Nat
        /\ pc[c] \in {"call", "receive", "send", "left"}
        /\ total[c] \in Nat /\ wire[c] \in Seq(Nat) /\ broken[c] \in BOOLEAN
    BY DEF FramingTypeOK
  <1> QED
    BY <1>1, <1>2, <1>3, <1>4

\* What ParseOK does: it hands over the next request, and what is left in the
\* buffer is what follows the end of that request.
LEMMA ParseOKFacts ==
    ASSUME IndInv, NEW c \in Conns, ParseOK(c)
    PROVE  /\ handed[c] < NumRequests
           /\ handed[c] + 1 \notin Bad
           /\ handed' = [handed EXCEPT ![c] = handed[c] + 1]
           /\ received[c] >= End[handed[c] + 1]
           /\ received[c] - End[handed[c] + 1] \in 0..remaining_len[c]
           /\ remaining_len' =
                [remaining_len EXCEPT ![c] = received[c] - End[handed[c] + 1]]
           /\ End[handed[c] + 1] - End[handed[c]] \in Nat
           /\ bytes_handled' =
                [bytes_handled EXCEPT ![c] = End[handed[c] + 1] - End[handed[c]]]
  <1>1. Parsing(c)
    BY DEF ParseOK
  <1>2. PICK i \in (1..NumRequests) \ Bad :
            /\ Reading(c, i)
            /\ Last(c) >= End[i]
            /\ remaining_len' = [remaining_len EXCEPT
                                 ![c] = (bytes_handled[c] + @) - (End[i] - Start(c))]
            /\ bytes_handled' = [bytes_handled EXCEPT ![c] = End[i] - Start(c)]
            /\ handed' = [handed EXCEPT ![c] = i]
    BY DEF ParseOK
  <1>3. /\ First(c) = Parsed(c) /\ Last(c) = received[c] /\ handed[c] < NumRequests
        /\ Start(c) = End[handed[c]] /\ Start(c) <= First(c)
        /\ bytes_handled[c] = First(c) - Start(c)
    BY <1>1, ReadsNext
  <1>4. i = handed[c] + 1
    BY <1>1, <1>2, ReadsNext
  <1>5. FramingTypeOK /\ ConnInv(c)
    BY DEF IndInv
  <1>6. /\ received[c] \in Nat /\ remaining_len[c] \in Nat
        /\ End[handed[c]] \in Nat /\ End[handed[c] + 1] \in Nat
    BY <1>3, <1>5, ConnTypes
  <1>7. End[handed[c]] < End[handed[c] + 1]
    BY <1>3, <1>5, ConnTypes, EndFacts
  <1>8. Parsed(c) < End[handed[c] + 1]
    BY <1>1, <1>5, <1>6, <1>7 DEF ConnInv, ParserInv, Parsing
  <1>9. (bytes_handled[c] + remaining_len[c]) - (End[i] - Start(c))
            = received[c] - End[handed[c] + 1]
    BY <1>3, <1>4, <1>6 DEF Parsed
  <1>10. received[c] - End[handed[c] + 1] \in 0..remaining_len[c]
    BY <1>2, <1>3, <1>4, <1>6, <1>8 DEF Parsed
  <1>11. /\ remaining_len' =
              [remaining_len EXCEPT ![c] = received[c] - End[handed[c] + 1]]
         /\ bytes_handled' =
              [bytes_handled EXCEPT ![c] = End[handed[c] + 1] - End[handed[c]]]
         /\ handed' = [handed EXCEPT ![c] = handed[c] + 1]
         /\ received[c] >= End[handed[c] + 1]
         /\ handed[c] + 1 \notin Bad
    BY <1>2, <1>3, <1>4, <1>9
  <1>12. End[handed[c] + 1] - End[handed[c]] \in Nat
    BY <1>6, <1>7
  <1> QED
    BY <1>3, <1>10, <1>11, <1>12

\* The variables keep their types.
LEMMA TypeStep == ASSUME IndInv, NEW c \in Conns, Step(c) PROVE FramingTypeOK'
  <1>0. FramingTypeOK /\ ConnInv(c)
    BY DEF IndInv
  <1>a. NumRequests \in Nat /\ BufSize \in Nat
    BY EndFacts
  <1>1. CASE Write(c)
    <2>1. PICK upto \in (written[c] + 1)..End[asked[c] + 1] :
            /\ written' = [written EXCEPT ![c] = upto]
            /\ asked' = IF upto = End[asked[c] + 1]
                        THEN [asked EXCEPT ![c] = @ + 1] ELSE asked
      BY <1>1 DEF Write
    <2>2. upto \in Nat /\ asked[c] + 1 \in 0..NumRequests
      BY <1>0, <1>1, ConnTypes DEF Write
    <2>3. asked' \in [Conns -> 0..NumRequests]
      BY <1>0, <2>1, <2>2 DEF FramingTypeOK
    <2> QED
      BY <1>0, <1>1, <2>1, <2>2, <2>3
      DEF Write, FramingTypeOK, bufferVars, parserVars, sendVars
  <1>2. CASE HangUp(c)
    BY <1>0, <1>2 DEF HangUp, FramingTypeOK, bufferVars, parserVars, sendVars
  <1>3. CASE Call(c)
    BY <1>0, <1>3 DEF Call, FramingTypeOK, clientVars, bufferVars, sendVars
  <1>4. CASE ParseOK(c)
    <2>1. /\ handed[c] + 1 \in 0..NumRequests
          /\ received[c] - End[handed[c] + 1] \in 0..BufSize
      BY <1>0, <1>4, ParseOKFacts, ConnTypes
    <2>2. /\ handed' \in [Conns -> 0..NumRequests]
          /\ remaining_len' \in [Conns -> 0..BufSize]
          /\ bytes_handled' \in [Conns -> Nat \cup {-1}]
      <3>1. /\ handed' = [handed EXCEPT ![c] = handed[c] + 1]
            /\ remaining_len' =
                 [remaining_len EXCEPT ![c] = received[c] - End[handed[c] + 1]]
            /\ End[handed[c] + 1] - End[handed[c]] \in Nat
            /\ bytes_handled' =
                 [bytes_handled EXCEPT ![c] = End[handed[c] + 1] - End[handed[c]]]
        BY <1>4, ParseOKFacts
      <3> QED
        BY <1>0, <2>1, <3>1 DEF FramingTypeOK
    <2> QED
      BY <1>0, <1>4, <2>2 DEF ParseOK, FramingTypeOK, clientVars
  <1>5. CASE ParseInProgress(c)
    <2>1. Parsing(c)
      BY <1>5 DEF ParseInProgress
    <2>2. /\ Start(c) = End[handed[c]] /\ Last(c) = received[c]
          /\ bytes_handled[c] = First(c) - Start(c) /\ Start(c) <= First(c)
          /\ First(c) = Parsed(c)
      BY <2>1, ReadsNext
    <2>3. Start(c) \in Nat /\ Last(c) \in Nat
      BY <1>0, <2>2, ConnTypes
    <2>4. bytes_handled[c] + remaining_len[c] \in Nat
      BY <1>0, <2>2, <2>3, ConnTypes DEF Parsed
    <2>5. bytes_handled' \in [Conns -> Nat \cup {-1}]
      BY <1>0, <1>5, <2>4 DEF ParseInProgress, FramingTypeOK
    <2>6. fedFrom' \in [Conns -> Nat] /\ fedTo' \in [Conns -> Nat]
      BY <1>0, <1>5, <2>3 DEF ParseInProgress, FramingTypeOK
    <2>7. len' \in [Conns -> 0..BufSize] /\ remaining_len' \in [Conns -> 0..BufSize]
      BY <1>a, <1>0, <1>5 DEF ParseInProgress, FramingTypeOK
    <2> QED
      BY <1>0, <1>5, <2>5, <2>6, <2>7 DEF ParseInProgress, FramingTypeOK, clientVars, sendVars
  <1>6. CASE ParseError(c) \/ RecvEnd(c) \/ RecvError(c)
    <2>1. /\ bytes_handled' \in {[bytes_handled EXCEPT ![c] = -1],
                                 [bytes_handled EXCEPT ![c] = 0]}
          /\ pc' = [pc EXCEPT ![c] = "left"]
          /\ UNCHANGED <<clientVars, bufferVars, fedFrom, fedTo, sendVars, handed>>
      BY <1>6 DEF ParseError, RecvEnd, RecvError, GiveUp
    <2>2. bytes_handled' \in [Conns -> Nat \cup {-1}]
      <3> DEFINE T == Nat \cup {-1}
      <3>1. bytes_handled \in [Conns -> T]
        BY <1>0 DEF FramingTypeOK
      <3>2. PICK x \in {-1, 0} : bytes_handled' = [bytes_handled EXCEPT ![c] = x]
        BY <2>1
      <3>3. x \in T
        OBVIOUS
      <3> HIDE DEF T
      <3>4. bytes_handled' \in [Conns -> T]
        BY <3>1, <3>2, <3>3
      <3> QED
        BY <3>4 DEF T
    <2> QED
      BY <1>0, <2>1, <2>2 DEF FramingTypeOK, clientVars, bufferVars, sendVars
  <1>7. CASE RecvData(c)
    <2>1. PICK rtmp \in 1..BufSize :
            /\ base' = [base EXCEPT ![c] = received[c]]
            /\ received' = [received EXCEPT ![c] = @ + rtmp]
            /\ len' = [len EXCEPT ![c] = rtmp]
            /\ remaining_len' = [remaining_len EXCEPT ![c] = rtmp]
      BY <1>7 DEF RecvData
    <2>2. rtmp \in 0..BufSize /\ received[c] + rtmp \in Nat
      BY <1>0, <1>a, ConnTypes
    <2>3. /\ base' \in [Conns -> Nat] /\ received' \in [Conns -> Nat]
          /\ len' \in [Conns -> 0..BufSize] /\ remaining_len' \in [Conns -> 0..BufSize]
      BY <1>0, <2>1, <2>2 DEF FramingTypeOK
    <2>4. /\ written' = written /\ asked' = asked /\ gone' = gone
          /\ bytes_handled' = bytes_handled /\ fedFrom' = fedFrom /\ fedTo' = fedTo
          /\ total' = total /\ wire' = wire /\ broken' = broken
          /\ handed' = handed /\ pc' = pc
      BY <1>7 DEF RecvData, clientVars, parserVars, sendVars
    <2> HIDE <1>7
    <2> QED
      BY <1>0, <2>3, <2>4 DEF FramingTypeOK
  <1>8. CASE SendChunk(c)
    <2>1. PICK n \in 1..(AnswerLen(c) - total[c]) :
            /\ wire' = [wire EXCEPT ![c] = @ \o [j \in 1..n |-> AnswerByte(c, total[c] + j)]]
            /\ total' = [total EXCEPT ![c] = @ + n]
      BY <1>8 DEF SendChunk
    <2>2. handed[c] - 1 \in 0..NumRequests /\ handed[c] \in 0..NumRequests
      BY <1>0, <1>8, ConnTypes DEF SendChunk, ConnInv, WireInv
    <2>3. AnsEnd[handed[c] - 1] \in Nat /\ AnsEnd[handed[c]] \in Nat
      BY <2>2, EndFacts
    <2>4. n \in Nat /\ total[c] \in Nat /\ total[c] + n \in Nat
      BY <1>0, <2>1, <2>3, ConnTypes DEF AnswerLen
    <2>5. \A j \in 1..n : AnswerByte(c, total[c] + j) \in Nat
      BY <2>3, <2>4 DEF AnswerByte
    <2>6. [j \in 1..n |-> AnswerByte(c, total[c] + j)] \in Seq(Nat)
      BY <2>4, <2>5
    <2>7. wire[c] \o [j \in 1..n |-> AnswerByte(c, total[c] + j)] \in Seq(Nat)
      BY <1>0, <2>6, ConnTypes
    <2>8. wire' \in [Conns -> Seq(Nat)] /\ total' \in [Conns -> Nat]
      BY <1>0, <2>1, <2>4, <2>7 DEF FramingTypeOK
    <2> QED
      BY <1>0, <1>8, <2>8 DEF SendChunk, FramingTypeOK, clientVars, bufferVars, parserVars
  <1>9. CASE SendFails(c) \/ SendDone(c)
    BY <1>0, <1>9
    DEF SendFails, SendDone, FramingTypeOK, clientVars, bufferVars, parserVars, sendVars
  <1> QED
    BY <1>1, <1>2, <1>3, <1>4, <1>5, <1>6, <1>7, <1>8, <1>9 DEF Step, ReceiveStep, SendStep

\* A step of one connection leaves the others alone.
LEMMA OthersUnchanged ==
    ASSUME FramingTypeOK, NEW c \in Conns, Step(c), NEW d \in Conns, d # c
    PROVE  ConnVars(d)' = ConnVars(d)
  <1>1. CASE Write(c) \/ HangUp(c)
    BY <1>1 DEF Write, HangUp, ConnVars, FramingTypeOK, bufferVars, parserVars, sendVars
  <1>2. CASE Call(c)
    BY <1>2 DEF Call, ConnVars, FramingTypeOK, clientVars, bufferVars, sendVars
  <1>3. CASE ParseOK(c)
    BY <1>3 DEF ParseOK, ConnVars, FramingTypeOK, clientVars
  <1>4. CASE ParseInProgress(c)
    BY <1>4 DEF ParseInProgress, ConnVars, FramingTypeOK, clientVars, sendVars
  <1>5. CASE ParseError(c) \/ RecvEnd(c) \/ RecvError(c)
    BY <1>5
    DEF ParseError, RecvEnd, RecvError, GiveUp, ConnVars, FramingTypeOK, clientVars,
        bufferVars, sendVars
  <1>6. CASE RecvData(c)
    BY <1>6 DEF RecvData, ConnVars, FramingTypeOK, clientVars, parserVars, sendVars
  <1>7. CASE SendStep(c)
    BY <1>7
    DEF SendStep, SendChunk, SendFails, SendDone, ConnVars, FramingTypeOK, clientVars,
        bufferVars, parserVars, sendVars
  <1> QED
    BY <1>1, <1>2, <1>3, <1>4, <1>5, <1>6, <1>7 DEF Step, ReceiveStep

LEMMA ConnInvUnchanged ==
    ASSUME NEW d \in Conns, ConnVars(d)' = ConnVars(d), ConnInv(d)
    PROVE  ConnInv(d)'
  BY DEF ConnVars, ConnInv, WrittenInv, BufferInv, ParserInv, WireInv, Parsed, AnswerLen

\* The client's own steps.
LEMMA ClientStep ==
    ASSUME IndInv, NEW c \in Conns, Write(c) \/ HangUp(c)
    PROVE  ConnInv(c)'
  <1>0. FramingTypeOK /\ ConnInv(c)
    BY DEF IndInv
  <1>1. CASE Write(c)
    <2>1. PICK upto \in (written[c] + 1)..End[asked[c] + 1] :
            /\ written' = [written EXCEPT ![c] = upto]
            /\ asked' = IF upto = End[asked[c] + 1]
                        THEN [asked EXCEPT ![c] = @ + 1] ELSE asked
      BY <1>1 DEF Write
    <2>2. /\ asked[c] < NumRequests /\ written'[c] = upto
          /\ asked'[c] = IF upto = End[asked[c] + 1] THEN asked[c] + 1 ELSE asked[c]
      BY <1>0, <1>1, <2>1 DEF Write, FramingTypeOK
    <2>3. /\ written[c] \in Nat /\ received[c] \in Nat /\ asked[c] \in Nat
          /\ NumRequests \in Nat /\ End[asked[c]] \in Nat /\ End[asked[c] + 1] \in Nat
          /\ asked[c] + 1 \in 0..NumRequests
      BY <1>0, <2>2, ConnTypes
    <2>4. asked[c] + 1 < NumRequests => End[asked[c] + 1] < End[(asked[c] + 1) + 1]
      BY <2>3, EndFacts
    <2>5. WrittenInv(c)'
      BY <1>0, <2>1, <2>2, <2>3, <2>4 DEF ConnInv, WrittenInv
    <2>6. UNCHANGED <<gone, bufferVars, parserVars, sendVars, handed, pc>>
      BY <1>1 DEF Write
    <2>7. BufferInv(c)'
      BY <1>0, <2>1, <2>2, <2>3, <2>6 DEF ConnInv, BufferInv, bufferVars
    <2>8. ParserInv(c)' /\ WireInv(c)'
      BY <1>0, <2>6
      DEF ConnInv, ParserInv, WireInv, Parsed, AnswerLen, bufferVars, parserVars, sendVars
    <2> QED
      BY <2>5, <2>7, <2>8 DEF ConnInv
  <1>2. CASE HangUp(c)
    BY <1>0, <1>2
    DEF HangUp, ConnInv, WrittenInv, BufferInv, ParserInv, WireInv, Parsed, AnswerLen,
        bufferVars, parserVars, sendVars
  <1> QED
    BY <1>1, <1>2

\* A new call, and the end of one without a request: the buffer stays as it is.
LEMMA CallStep ==
    ASSUME IndInv, NEW c \in Conns, Call(c) \/ ParseError(c) \/ RecvEnd(c) \/ RecvError(c)
    PROVE  ConnInv(c)'
  <1>0. FramingTypeOK /\ ConnInv(c)
    BY DEF IndInv
  <1>1. CASE Call(c)
    <2>1. UNCHANGED <<clientVars, bufferVars, sendVars, handed>>
      BY <1>1 DEF Call
    <2>2. /\ pc[c] = "call" /\ pc'[c] = "receive" /\ bytes_handled'[c] = 0
          /\ fedFrom'[c] = 0 /\ fedTo'[c] = 0
      BY <1>0, <1>1 DEF Call, FramingTypeOK
    <2>3. WrittenInv(c)' /\ BufferInv(c)'
      BY <1>0, <2>1 DEF ConnInv, WrittenInv, BufferInv, clientVars, bufferVars
    <2>4. ParserInv(c)'
      BY <1>0, <2>1, <2>2 DEF ConnInv, ParserInv, Parsed, bufferVars
    <2>5. WireInv(c)'
      BY <1>0, <2>1, <2>2 DEF ConnInv, WireInv, AnswerLen, sendVars
    <2> QED
      BY <2>3, <2>4, <2>5 DEF ConnInv
  <1>2. CASE ParseError(c) \/ RecvEnd(c) \/ RecvError(c)
    <2>1. UNCHANGED <<clientVars, bufferVars, fedFrom, fedTo, sendVars, handed>>
      BY <1>2 DEF ParseError, RecvEnd, RecvError, GiveUp
    <2>2. pc'[c] = "left"
      BY <1>0, <1>2 DEF ParseError, RecvEnd, RecvError, GiveUp, FramingTypeOK
    <2>3. WrittenInv(c)' /\ BufferInv(c)'
      BY <1>0, <2>1 DEF ConnInv, WrittenInv, BufferInv, clientVars, bufferVars
    <2>4. ParserInv(c)'
      BY <2>2 DEF ParserInv
    <2>5. WireInv(c)'
      BY <1>0, <2>1, <2>2 DEF ConnInv, WireInv, sendVars
    <2> QED
      BY <2>3, <2>4, <2>5 DEF ConnInv
  <1> QED
    BY <1>1, <1>2

\* The end of a request: the next call starts at the byte after it.
LEMMA ParseOKStep == ASSUME IndInv, NEW c \in Conns, ParseOK(c) PROVE ConnInv(c)'
  <1>0. FramingTypeOK /\ ConnInv(c)
    BY DEF IndInv
  <1>1. /\ handed[c] < NumRequests
        /\ handed' = [handed EXCEPT ![c] = handed[c] + 1]
        /\ received[c] >= End[handed[c] + 1]
        /\ received[c] - End[handed[c] + 1] \in 0..remaining_len[c]
        /\ remaining_len' = [remaining_len EXCEPT ![c] = received[c] - End[handed[c] + 1]]
    BY ParseOKFacts
  <1>2. /\ UNCHANGED <<clientVars, received, base, len, fedFrom, fedTo, wire, broken>>
        /\ pc[c] = "receive" /\ remaining_len[c] > 0 /\ pc'[c] = "send" /\ total'[c] = 0
    BY <1>0 DEF ParseOK, Parsing, FramingTypeOK
  <1>3. /\ handed'[c] = handed[c] + 1
        /\ remaining_len'[c] = received[c] - End[handed[c] + 1]
    BY <1>0, <1>1 DEF FramingTypeOK
  <1>4. /\ received[c] \in Nat /\ remaining_len[c] \in Nat /\ len[c] \in Nat
        /\ handed[c] \in Nat /\ NumRequests \in Nat /\ End[handed[c] + 1] \in Nat
        /\ handed[c] + 1 \in 0..NumRequests
    BY <1>0, <1>1, ConnTypes
  <1>5. WrittenInv(c)'
    BY <1>0, <1>2 DEF ConnInv, WrittenInv, clientVars
  <1>6. BufferInv(c)'
    BY <1>0, <1>1, <1>2, <1>3, <1>4 DEF ConnInv, BufferInv, clientVars
  <1>7. ParserInv(c)'
    BY <1>2, <1>3, <1>4 DEF ParserInv, Parsed
  <1>8. WireInv(c)'
    <2>1. /\ AnsEnd[handed[c]] \in Nat /\ AnsEnd[handed[c] + 1] \in Nat
          /\ AnsEnd[handed[c]] <= AnsEnd[handed[c] + 1]
          /\ (handed[c] + 1) - 1 = handed[c]
      <3>1. handed[c] \in 0..NumRequests /\ handed[c] + 1 \in 1..NumRequests
        BY <1>0, <1>1, <1>4, ConnTypes
      <3>2. /\ AnsEnd[handed[c]] \in Nat /\ AnsEnd[handed[c] + 1] \in Nat
        BY <1>4, <3>1, EndFacts
      <3>3. (handed[c] + 1) - 1 = handed[c]
        BY <1>4
      <3> QED
        BY <3>1, <3>2, <3>3, EndFacts
    <2>2. handed'[c] - 1 = handed[c]
      BY <1>3, <2>1
    <2>3. 0 <= AnsEnd[handed[c] + 1] - AnsEnd[handed[c]]
      BY <2>1
    <2> QED
      BY <1>0, <1>2, <1>3, <1>4, <2>1, <2>2, <2>3 DEF ConnInv, WireInv, AnswerLen
  <1> QED
    BY <1>5, <1>6, <1>7, <1>8 DEF ConnInv

\* A section that does not end the request: the parser now has all of it.
LEMMA ParseInProgressStep ==
    ASSUME IndInv, NEW c \in Conns, ParseInProgress(c) PROVE ConnInv(c)'
  <1>0. FramingTypeOK /\ ConnInv(c)
    BY DEF IndInv
  <1>1. Parsing(c)
    BY DEF ParseInProgress
  <1>2. /\ First(c) = Parsed(c) /\ Last(c) = received[c]
        /\ Start(c) = End[handed[c]] /\ Start(c) <= First(c)
        /\ handed[c] < NumRequests /\ bytes_handled[c] = First(c) - Start(c)
    BY <1>1, ReadsNext
  <1>3. received[c] < End[handed[c] + 1]
    BY <1>1, <1>2, ReadsNext DEF ParseInProgress
  <1>4. /\ UNCHANGED <<clientVars, received, base, sendVars, handed, pc>>
        /\ pc[c] = "receive" /\ remaining_len[c] > 0
        /\ bytes_handled'[c] = bytes_handled[c] + remaining_len[c]
        /\ fedFrom'[c] = Start(c) /\ fedTo'[c] = Last(c)
        /\ len'[c] = 0 /\ remaining_len'[c] = 0
    BY <1>0, <1>1 DEF ParseInProgress, Parsing, FramingTypeOK
  <1>5. /\ received[c] \in Nat /\ remaining_len[c] \in Nat /\ handed[c] \in Nat
        /\ End[handed[c]] \in Nat /\ End[handed[c] + 1] \in Nat /\ NumRequests \in Nat
    BY <1>0, <1>2, ConnTypes
  <1>6. WrittenInv(c)' /\ BufferInv(c)'
    BY <1>0, <1>4, <1>5 DEF ConnInv, WrittenInv, BufferInv, clientVars
  <1>7. ParserInv(c)'
    <2>1. /\ fedFrom'[c] = End[handed[c]] /\ fedTo'[c] = received[c]
          /\ End[handed[c]] < received[c]
          /\ bytes_handled'[c] = received[c] - End[handed[c]]
      BY <1>2, <1>4, <1>5 DEF Parsed
    <2> QED
      BY <1>2, <1>3, <1>4, <1>5, <2>1 DEF ParserInv, Parsed
  <1>8. WireInv(c)'
    BY <1>0, <1>4 DEF ConnInv, WireInv, AnswerLen, sendVars
  <1> QED
    BY <1>6, <1>7, <1>8 DEF ConnInv

\* recv: the buffer holds what it returned, and nothing else.
LEMMA RecvDataStep == ASSUME IndInv, NEW c \in Conns, RecvData(c) PROVE ConnInv(c)'
  <1>0. FramingTypeOK /\ ConnInv(c)
    BY DEF IndInv
  <1>1. PICK rtmp \in 1..BufSize :
          /\ received[c] + rtmp <= written[c]
          /\ base' = [base EXCEPT ![c] = received[c]]
          /\ received' = [received EXCEPT ![c] = @ + rtmp]
          /\ len' = [len EXCEPT ![c] = rtmp]
          /\ remaining_len' = [remaining_len EXCEPT ![c] = rtmp]
    BY DEF RecvData
  <1>2. /\ UNCHANGED <<clientVars, parserVars, sendVars, handed, pc>>
        /\ pc[c] = "receive" /\ remaining_len[c] = 0
    BY DEF RecvData, Receiving
  <1>3. /\ base'[c] = received[c] /\ received'[c] = received[c] + rtmp
        /\ len'[c] = rtmp /\ remaining_len'[c] = rtmp
    BY <1>0, <1>1 DEF FramingTypeOK
  <1>4. received[c] \in Nat /\ rtmp \in Nat /\ rtmp > 0
    BY <1>0, ConnTypes
  <1>5. WrittenInv(c)'
    BY <1>0, <1>2 DEF ConnInv, WrittenInv, clientVars
  <1>6. BufferInv(c)'
    BY <1>1, <1>2, <1>3, <1>4 DEF BufferInv, clientVars
  <1>7. Parsed(c)' = Parsed(c)
    BY <1>2, <1>3, <1>4 DEF Parsed
  <1>8. ParserInv(c)'
    BY <1>0, <1>2, <1>7 DEF ConnInv, ParserInv, parserVars
  <1>9. WireInv(c)'
    BY <1>0, <1>2 DEF ConnInv, WireInv, AnswerLen, sendVars
  <1> QED
    BY <1>5, <1>6, <1>8, <1>9 DEF ConnInv

\* The answer: the bytes on the wire stay those of the answers, in order.
LEMMA SendStepInv == ASSUME IndInv, NEW c \in Conns, SendStep(c) PROVE ConnInv(c)'
  <1>0. FramingTypeOK /\ ConnInv(c) /\ pc[c] = "send"
    BY DEF IndInv, SendStep, SendChunk, SendFails, SendDone
  <1>1. /\ handed[c] \in 0..NumRequests /\ handed[c] >= 1 /\ NumRequests \in Nat
        /\ total[c] \in Nat /\ wire[c] \in Seq(Nat)
    BY <1>0, ConnTypes DEF ConnInv, WireInv
  <1>2. AnsEnd[handed[c]] \in Nat /\ AnsEnd[handed[c] - 1] \in Nat
    <2>1. handed[c] - 1 \in 0..NumRequests
      BY <1>1
    <2> QED
      BY <1>1, <2>1, EndFacts
  <1>3. /\ UNCHANGED <<clientVars, bufferVars, parserVars, handed>>
        /\ pc'[c] \in {"send", "call"}
    BY <1>0 DEF SendStep, SendChunk, SendFails, SendDone, FramingTypeOK
  <1>4. WrittenInv(c)' /\ BufferInv(c)' /\ ParserInv(c)'
    BY <1>0, <1>3
    DEF ConnInv, WrittenInv, BufferInv, ParserInv, Parsed, clientVars, bufferVars, parserVars
  <1>5. CASE SendChunk(c)
    <2>1. PICK n \in 1..(AnswerLen(c) - total[c]) :
            /\ wire' = [wire EXCEPT ![c] = @ \o [j \in 1..n |-> AnswerByte(c, total[c] + j)]]
            /\ total' = [total EXCEPT ![c] = @ + n]
      BY <1>5 DEF SendChunk
    <2>2. pc' = pc /\ broken' = broken /\ handed' = handed /\ ~broken[c]
      BY <1>5 DEF SendChunk
    <2> DEFINE chunk == [j \in 1..n |-> AnswerByte(c, total[c] + j)]
    <2>3. n \in Nat /\ n >= 1 /\ total[c] + n <= AnswerLen(c)
      BY <1>1, <1>2, <2>1 DEF AnswerLen
    <2>4. \A j \in 1..n : AnswerByte(c, total[c] + j) = AnsEnd[handed[c] - 1] + total[c] + j
      BY <1>1, <1>2, <2>3 DEF AnswerByte
    <2>5. Len(wire[c]) = AnsEnd[handed[c] - 1] + total[c] /\ Len(wire[c]) \in Nat
      BY <1>0, <1>1, <2>2 DEF ConnInv, WireInv
    <2>6. \A j \in 1..n : chunk[j] = Len(wire[c]) + j
      BY <2>4, <2>5
    <2>7. chunk \in Seq(Nat) /\ Len(chunk) = n
      BY <2>3, <2>5, <2>6
    <2>8. wire'[c] = wire[c] \o chunk /\ total'[c] = total[c] + n
      BY <1>0, <2>1 DEF FramingTypeOK
    <2> HIDE DEF chunk
    <2>9. /\ Len(wire'[c]) = Len(wire[c]) + n
          /\ \A j \in 1..Len(wire[c]) + n :
                wire'[c][j] = IF j <= Len(wire[c]) THEN wire[c][j] ELSE chunk[j - Len(wire[c])]
      <3>1. /\ Len(wire[c] \o chunk) = Len(wire[c]) + Len(chunk)
            /\ \A j \in 1..Len(wire[c]) + Len(chunk) : (wire[c] \o chunk)[j] =
                  IF j <= Len(wire[c]) THEN wire[c][j] ELSE chunk[j - Len(wire[c])]
        BY <1>1, <2>7, ConcatProperties
      <3> QED
        BY <2>7, <2>8, <3>1
    <2>10. \A j \in 1..Len(wire'[c]) : wire'[c][j] = j
      <3>1. \A j \in 1..Len(wire[c]) : wire[c][j] = j
        BY <1>0 DEF ConnInv, WireInv
      <3>2. TAKE j \in 1..Len(wire'[c])
      <3>3. CASE j <= Len(wire[c])
        BY <2>5, <2>9, <3>1, <3>3
      <3>4. CASE j > Len(wire[c])
        <4>1. j - Len(wire[c]) \in 1..n
          BY <2>3, <2>5, <2>9, <3>4
        <4>2. wire'[c][j] = chunk[j - Len(wire[c])]
          BY <2>5, <2>9, <3>4
        <4> QED
          BY <2>5, <2>6, <4>1, <4>2
      <3> QED
        BY <2>3, <2>5, <2>9, <3>3, <3>4
    <2>11. WireInv(c)'
      <3>1. pc'[c] = "send" /\ ~broken'[c] /\ handed'[c] = handed[c]
            /\ AnswerLen(c)' = AnswerLen(c)
        BY <1>0, <2>2 DEF AnswerLen
      <3>2. total'[c] <= AnswerLen(c) /\ Len(wire'[c]) = AnsEnd[handed[c] - 1] + total'[c]
        BY <1>1, <1>2, <2>3, <2>5, <2>8, <2>9
      <3> QED
        BY <1>1, <2>10, <3>1, <3>2 DEF WireInv
    <2> QED
      BY <1>4, <2>11 DEF ConnInv
  <1>6. CASE SendFails(c)
    <2>1. wire' = wire /\ broken'[c] = TRUE /\ pc'[c] = "call"
      BY <1>0, <1>6 DEF SendFails, FramingTypeOK
    <2>2. WireInv(c)'
      BY <1>0, <2>1 DEF ConnInv, WireInv
    <2> QED
      BY <1>4, <2>2 DEF ConnInv
  <1>7. CASE SendDone(c)
    <2>1. /\ wire' = wire /\ broken' = broken /\ handed' = handed /\ pc'[c] = "call"
          /\ total[c] = AnsEnd[handed[c]] - AnsEnd[handed[c] - 1]
      BY <1>0, <1>7 DEF SendDone, sendVars, FramingTypeOK, AnswerLen
    <2>2. ~broken[c] => Len(wire[c]) = AnsEnd[handed[c]]
      BY <1>0, <1>2, <2>1 DEF ConnInv, WireInv
    <2>3. WireInv(c)'
      BY <1>0, <2>1, <2>2 DEF ConnInv, WireInv
    <2> QED
      BY <1>4, <2>3 DEF ConnInv
  <1> QED
    BY <1>5, <1>6, <1>7 DEF SendStep

LEMMA InitInd == Init => IndInv
  <1> SUFFICES ASSUME Init PROVE IndInv
    OBVIOUS
  <1>1. FramingTypeOK
    BY EndFacts DEF Init, FramingTypeOK
  <1>2. ASSUME NEW c \in Conns PROVE ConnInv(c)
    <2>1. NumRequests > 0 => 0 < End[1]
      BY EndFacts
    <2> QED
      BY <2>1, EndFacts
      DEF Init, ConnInv, WrittenInv, BufferInv, ParserInv, WireInv, Parsed, AnswerLen
  <1> QED
    BY <1>1, <1>2 DEF IndInv

LEMMA NextStep == Next => \E c \in Conns : Step(c)
  BY DEF Next, Step

LEMMA StepInd == IndInv /\ [Next]_vars => IndInv'
  <1> SUFFICES ASSUME IndInv, [Next]_vars PROVE IndInv'
    OBVIOUS
  <1>1. CASE Next
    <2>1. PICK c \in Conns : Step(c)
      BY <1>1, NextStep
    <2>2. FramingTypeOK'
      BY <2>1, TypeStep
    <2>3. ConnInv(c)'
      BY <2>1, ClientStep, CallStep, ParseOKStep, ParseInProgressStep, RecvDataStep, SendStepInv
      DEF Step, ReceiveStep
    <2>4. ASSUME NEW d \in Conns, d # c PROVE ConnInv(d)'
      BY <2>1, <2>4, OthersUnchanged, ConnInvUnchanged DEF IndInv
    <2> QED
      BY <2>2, <2>3, <2>4 DEF IndInv
  <1>2. CASE UNCHANGED vars
    <2>1. \A d \in Conns : ConnVars(d)' = ConnVars(d)
      BY <1>2 DEF vars, ConnVars, clientVars, bufferVars, parserVars, sendVars
    <2>2. \A d \in Conns : ConnInv(d)'
      BY <2>1, ConnInvUnchanged DEF IndInv
    <2>3. FramingTypeOK'
      BY <1>2 DEF IndInv, FramingTypeOK, vars, clientVars, bufferVars, parserVars, sendVars
    <2> QED
      BY <2>2, <2>3 DEF IndInv
  <1> QED
    BY <1>1, <1>2

LEMMA Inductive == Spec => []IndInv
  BY InitInd, StepInd, PTL DEF Spec

\* The counters of the buffer stay within it: what a call leaves in the buffer
\* is never more than recv had put there.
THEOREM FramingTypeCorrect == Spec => []FramingTypeOK
  <1>1. IndInv => FramingTypeOK
    BY DEF IndInv
  <1> QED
    BY <1>1, Inductive, PTL

\* The answers go out whole, in order, and before the next request is read.
THEOREM AnswersGoOut == Spec => []AnswersWhole
  <1>1. IndInv => AnswersWhole
    BY DEF IndInv, ConnInv, WireInv, AnswersWhole
  <1> QED
    BY <1>1, Inductive, PTL

-----------------------------------------------------------------------------
(***************************************************************************)
(* Refinement.  Only Write, HangUp, ParseOK, ParseError, RecvEnd and       *)
(* RecvError are steps of the channel; the rest stutter.                   *)
(***************************************************************************)
SeenState == [c \in Conns |-> Seen(c)]

\* While a thread is in a call or in a send, the channel is being served.
LEMMA SeenSame ==
    ASSUME FramingTypeOK, NEW c \in Conns, Step(c),
           pc[c] # "left", pc'[c] # "left"
    PROVE  SeenState' = SeenState
  <1>1. Seen(c) = "serving" /\ Seen(c)' = "serving"
    BY DEF Seen
  <1>2. ASSUME NEW d \in Conns, d # c PROVE Seen(d)' = Seen(d)
    <2>1. ConnVars(d)' = ConnVars(d)
      BY <1>2, OthersUnchanged
    <2> QED
      BY <2>1 DEF ConnVars, Seen
  <1>3. ASSUME NEW d \in Conns PROVE Seen(d)' = Seen(d)
    BY <1>1, <1>2
  <1> QED
    BY <1>3 DEF SeenState

\* When the thread leaves, so does its connection, and no other.
LEMMA SeenLeaves ==
    ASSUME FramingTypeOK, NEW c \in Conns, Step(c), NEW x,
           Seen(c)' = x
    PROVE  SeenState' = [SeenState EXCEPT ![c] = x]
  <1>1. ASSUME NEW d \in Conns, d # c PROVE Seen(d)' = Seen(d)
    <2>1. ConnVars(d)' = ConnVars(d)
      BY <1>1, OthersUnchanged
    <2> QED
      BY <2>1 DEF ConnVars, Seen
  <1> QED
    BY <1>1 DEF SeenState

LEMMA ChannelStep ==
    ASSUME IndInv, NEW c \in Conns, Step(c)
    PROVE  [Channel!Next]_(Channel!vars)
  <1>0. FramingTypeOK /\ ConnInv(c)
    BY DEF IndInv
  <1>a. SeenState = [d \in Conns |-> Seen(d)] /\ SeenState[c] = Seen(c)
    BY DEF SeenState
  <1>1. CASE Write(c)
    <2>1. PICK upto \in (written[c] + 1)..End[asked[c] + 1] :
            asked' = IF upto = End[asked[c] + 1] THEN [asked EXCEPT ![c] = @ + 1] ELSE asked
      BY <1>1 DEF Write
    <2>2. /\ gone[c] = "no" /\ asked[c] < NumRequests /\ gone' = gone
          /\ handed' = handed /\ pc' = pc /\ remaining_len' = remaining_len
      BY <1>1 DEF Write, bufferVars
    <2>3. SeenState' = SeenState
      BY <2>2 DEF SeenState, Seen
    <2>4. Channel!Ask(c) \/ UNCHANGED <<asked, gone, handed, SeenState>>
      BY <2>1, <2>2, <2>3 DEF Channel!Ask, SeenState
    <2> QED
      BY <2>4 DEF Channel!Next, Channel!vars, SeenState
  <1>2. CASE HangUp(c)
    <2>1. /\ gone[c] = "no" /\ asked' = asked
          /\ handed' = handed /\ pc' = pc /\ remaining_len' = remaining_len
          /\ \E how \in {"closed", "reset"} : gone' = [gone EXCEPT ![c] = how]
      BY <1>2 DEF HangUp, bufferVars
    <2>2. SeenState' = SeenState
      BY <2>1 DEF SeenState, Seen
    <2>3. Channel!HangUp(c)
      BY <2>1, <2>2 DEF Channel!HangUp, SeenState
    <2> QED
      BY <2>3 DEF Channel!Next
  <1>3. CASE Call(c) \/ ParseInProgress(c) \/ RecvData(c) \/ SendStep(c)
    <2>1. /\ asked' = asked /\ gone' = gone /\ handed' = handed
          /\ pc[c] # "left" /\ pc'[c] # "left"
      BY <1>0, <1>3
      DEF Call, ParseInProgress, RecvData, SendStep, SendChunk, SendFails, SendDone,
          Parsing, Receiving, clientVars, FramingTypeOK
    <2>2. SeenState' = SeenState
      BY <1>0, <2>1, SeenSame
    <2> QED
      BY <2>1, <2>2 DEF Channel!Next, Channel!vars, SeenState
  <1>4. CASE ParseOK(c)
    <2>1. /\ handed[c] < NumRequests /\ handed[c] + 1 \notin Bad
          /\ handed' = [handed EXCEPT ![c] = handed[c] + 1]
          /\ received[c] >= End[handed[c] + 1]
      BY <1>4, ParseOKFacts
    <2>2. /\ asked' = asked /\ gone' = gone /\ pc[c] = "receive" /\ pc'[c] = "send"
      BY <1>0, <1>4 DEF ParseOK, Parsing, clientVars, FramingTypeOK
    <2>3. SeenState' = SeenState
      BY <1>0, <2>2, SeenSame
    <2>4. SeenState[c] = "serving"
      BY <1>a, <2>2 DEF Seen
    <2>5. handed[c] < asked[c]
      <3>1. /\ received[c] \in Nat /\ written[c] \in Nat /\ asked[c] \in Nat
            /\ handed[c] \in Nat /\ NumRequests \in Nat
            /\ handed[c] + 1 \in 0..NumRequests /\ asked[c] \in 0..NumRequests
            /\ End[handed[c] + 1] \in Nat /\ End[asked[c]] \in Nat
        BY <1>0, <2>1, ConnTypes
      <3>2. End[handed[c] + 1] <= written[c]
        BY <1>0, <2>1, <3>1 DEF ConnInv, BufferInv
      <3>3. CASE asked[c] = NumRequests
        BY <2>1, <3>1, <3>3
      <3>4. CASE asked[c] < NumRequests
        <4>1. asked[c] + 1 \in 0..NumRequests /\ End[asked[c] + 1] \in Nat
          BY <1>0, <3>4, ConnTypes
        <4>2. End[handed[c] + 1] < End[asked[c] + 1]
          BY <1>0, <3>1, <3>2, <3>4, <4>1 DEF ConnInv, WrittenInv
        <4>3. handed[c] + 1 < asked[c] + 1
          BY <3>1, <4>1, <4>2, EndFacts
        <4> QED
          BY <3>1, <4>3
      <3> QED
        BY <3>1, <3>3, <3>4
    <2>6. Channel!Hand(c)
      BY <2>1, <2>2, <2>3, <2>4, <2>5 DEF Channel!Hand, SeenState
    <2> QED
      BY <2>6 DEF Channel!Next
  <1>5. CASE ParseError(c)
    <2>1. Parsing(c)
      BY <1>5 DEF ParseError
    <2>2. /\ asked' = asked /\ gone' = gone /\ handed' = handed
          /\ remaining_len' = remaining_len
          /\ pc[c] = "receive" /\ pc'[c] = "left" /\ remaining_len[c] > 0
      BY <1>0, <1>5 DEF ParseError, GiveUp, Parsing, clientVars, bufferVars, FramingTypeOK
    <2>3. handed[c] + 1 \in Bad
      <3>1. handed[c] + 1 \in 1..NumRequests
        <4>1. handed[c] < NumRequests
          BY <2>1, ReadsNext
        <4> QED
          BY <1>0, <4>1, ConnTypes
      <3>2. Reading(c, handed[c] + 1)
        BY <2>1, <3>1, ReadsNext
      <3> QED
        BY <1>5, <3>1, <3>2 DEF ParseError
    <2>4. SeenState' = [SeenState EXCEPT ![c] = "refused"]
      <3>1. Seen(c)' = "refused"
        BY <2>2 DEF Seen
      <3> QED
        BY <1>0, <3>1, SeenLeaves
    <2>5. SeenState[c] = "serving"
      BY <1>a, <2>2 DEF Seen
    <2>6. Channel!Refuse(c)
      BY <2>2, <2>3, <2>4, <2>5 DEF Channel!Refuse, SeenState
    <2> QED
      BY <2>6 DEF Channel!Next
  <1>6. CASE RecvEnd(c) \/ RecvError(c)
    <2>1. /\ asked' = asked /\ gone' = gone /\ handed' = handed
          /\ remaining_len' = remaining_len
          /\ pc[c] = "receive" /\ pc'[c] = "left" /\ remaining_len[c] = 0
      BY <1>0, <1>6
      DEF RecvEnd, RecvError, GiveUp, Receiving, clientVars, bufferVars, FramingTypeOK
    <2>2. (gone[c] = "closed" /\ received[c] = written[c]) \/ gone[c] = "reset"
      BY <1>6 DEF RecvEnd, RecvError
    <2>3. received[c] = written[c] => handed[c] = asked[c]
      <3> SUFFICES ASSUME received[c] = written[c] PROVE handed[c] = asked[c]
        OBVIOUS
      <3>1. /\ received[c] \in Nat /\ asked[c] \in 0..NumRequests
            /\ handed[c] \in 0..NumRequests /\ NumRequests \in Nat
            /\ End[handed[c]] \in Nat /\ End[asked[c]] \in Nat
        BY <1>0, ConnTypes
      <3>2. Parsed(c) = received[c]
        BY <2>1, <3>1 DEF Parsed
      <3>3. \/ received[c] = End[handed[c]]
            \/ End[handed[c]] < received[c] /\ handed[c] < NumRequests
               /\ received[c] < End[handed[c] + 1]
        BY <1>0, <2>1, <3>2 DEF ConnInv, ParserInv
      <3>4. End[asked[c]] <= received[c]
        BY <1>0 DEF ConnInv, WrittenInv
      <3>5. asked[c] <= handed[c]
        <4>1. CASE received[c] = End[handed[c]]
          BY <3>1, <3>4, <4>1, EndFacts
        <4>2. CASE handed[c] < NumRequests /\ received[c] < End[handed[c] + 1]
          <5>1. handed[c] + 1 \in 0..NumRequests /\ End[handed[c] + 1] \in Nat
            BY <1>0, <4>2, ConnTypes
          <5>2. End[asked[c]] < End[handed[c] + 1]
            BY <3>1, <3>4, <4>2, <5>1
          <5>3. asked[c] < handed[c] + 1
            BY <3>1, <5>1, <5>2, EndFacts
          <5> QED
            BY <3>1, <5>3
        <4> QED
          BY <3>3, <4>1, <4>2
      <3>6. handed[c] <= asked[c]
        <4>1. CASE asked[c] = NumRequests
          BY <3>1, <4>1
        <4>2. CASE asked[c] < NumRequests
          <5>1. asked[c] + 1 \in 0..NumRequests /\ End[asked[c] + 1] \in Nat
            BY <1>0, <4>2, ConnTypes
          <5>2. received[c] < End[asked[c] + 1]
            BY <1>0, <4>2 DEF ConnInv, WrittenInv
          <5>3. End[handed[c]] <= received[c]
            BY <3>1, <3>3
          <5>4. End[handed[c]] < End[asked[c] + 1]
            BY <3>1, <5>1, <5>2, <5>3
          <5>5. handed[c] < asked[c] + 1
            BY <3>1, <5>1, <5>4, EndFacts
          <5> QED
            BY <3>1, <5>5
        <4> QED
          BY <3>1, <4>1, <4>2
      <3> QED
        BY <3>1, <3>5, <3>6
    <2>4. SeenState' = [SeenState EXCEPT ![c] = "over"]
      <3>1. Seen(c)' = "over"
        BY <2>1 DEF Seen
      <3> QED
        BY <1>0, <3>1, SeenLeaves
    <2>5. SeenState[c] = "serving"
      BY <1>a, <2>1 DEF Seen
    <2>6. Channel!Finish(c)
      BY <2>1, <2>2, <2>3, <2>4, <2>5 DEF Channel!Finish, SeenState
    <2> QED
      BY <2>6 DEF Channel!Next
  <1> QED
    BY <1>1, <1>2, <1>3, <1>4, <1>5, <1>6 DEF Step, ReceiveStep

\* client_receive_message cuts the stream into the requests that were written:
\* a send or a recv may take any number of bytes, and a call may leave the rest
\* of the next requests in the buffer.
THEOREM ChannelRefined == Spec => ImplementsChannel
  <1>1. Init => Channel!Init
    BY DEF Init, Channel!Init, Seen
  <1>2. IndInv /\ [Next]_vars => [Channel!Next]_(Channel!vars)
    <2> SUFFICES ASSUME IndInv, [Next]_vars PROVE [Channel!Next]_(Channel!vars)
      OBVIOUS
    <2>1. CASE Next
      BY <2>1, NextStep, ChannelStep
    <2>2. CASE UNCHANGED vars
      BY <2>2 DEF vars, clientVars, bufferVars, Channel!vars, Seen
    <2> QED
      BY <2>1, <2>2
  <1> QED
    BY <1>1, <1>2, Inductive, PTL DEF Spec, ImplementsChannel, Channel!Spec

-----------------------------------------------------------------------------
(***************************************************************************)
(* The stream with the SA and its cipher counters.                         *)
(***************************************************************************)

\* Closed at both ends: nothing on this connection is read or written again.
Finished(c) == pc[c] = "left" /\ gone[c] # "no"
Live(c) == ~Finished(c)

\* The end of what the host has encrypted on connection c: it encrypts the
\* whole request when it writes the first byte of it.
Encrypted(c) == IF written[c] > End[asked[c]] THEN End[asked[c] + 1] ELSE written[c]
Pending(c) == received[c] < Encrypted(c)

SecureTypeOK ==
    /\ hipdex \in BOOLEAN
    /\ sas \in Nat \ {0}
    /\ encr \in Nat /\ decr \in Nat /\ hostEncr \in Nat /\ hostDecr \in Nat
    /\ key \in [Conns -> [Bytes -> Nat \X Nat]]
    /\ sa \in [Conns -> Nat]
    /\ cut \in [Conns -> BOOLEAN]
    /\ sealed \in [Conns -> BOOLEAN]
    /\ garbled \in [Conns -> BOOLEAN]
    /\ answers \in [Conns -> Seq([at : Nat \X Nat, len : Nat])]
    /\ misread \in BOOLEAN
    /\ disturbed \in BOOLEAN

\* What holds of a connection whether or not the order is disturbed.
CallInvOf(c) ==
    /\ hipdex /\ pc[c] = "receive" => sa[c] # NoSA
    /\ cut[c] => pc[c] = "left"
    /\ End[handed[c]] <= received[c]
    /\ handed[c] = 0 => answers[c] = <<>>
    /\ garbled[c] => received[c] > 0
    /\ ~hipdex => ~garbled[c] /\ answers[c] = <<>>

CallInv ==
    /\ ~hipdex => ~disturbed /\ ~misread
    /\ \A c \in Conns : CallInvOf(c)

\* One connection at a time, and none that its client has left.
OrderInv ==
    /\ \A c, d \in Conns : c # d /\ Live(c) /\ Live(d) /\ Unfinished(c) => ~Unfinished(d)
    /\ \A c \in Conns : Live(c) /\ gone[c] # "no" => ~Unfinished(c)
    /\ \A c \in Conns : pc[c] = "receive" => sa[c] = sas
    /\ \A c \in Conns : Live(c) => ~garbled[c]
    /\ ~misread

\* The gateway's counter for requests is behind the host's by what it has not
\* received, and these bytes have the keystream bytes in between.
RequestsInStep ==
    /\ \A c \in Conns : Live(c) /\ Pending(c) =>
        /\ decr + (Encrypted(c) - received[c]) = hostEncr
        /\ \A p \in (received[c] + 1)..Encrypted(c) :
              key[c][p] = Keystream(sas, decr + (p - received[c]))
    /\ (\A c \in Conns : Live(c) => ~Pending(c)) => decr = hostEncr

\* The answers the host has not read follow each other in the keystream.
AnswersInStep ==
    /\ \A c \in Conns : Live(c) /\ answers[c] # <<>> =>
        /\ answers[c][1].at = Keystream(sas, hostDecr + 1)
        /\ \A i \in 1..(Len(answers[c]) - 1) :
              answers[c][i + 1].at = Keystream(sas, answers[c][i].at[2] + answers[c][i].len)
        /\ answers[c][Len(answers[c])].at[2] + answers[c][Len(answers[c])].len = encr + 1
    /\ (\A c \in Conns : Live(c) => answers[c] = <<>>) => hostDecr = encr

Undisturbed == OrderInv /\ RequestsInStep /\ AnswersInStep

InStep == hipdex /\ ~disturbed => Undisturbed

SecureInv == IndInv /\ SecureTypeOK /\ CallInv /\ InStep

-----------------------------------------------------------------------------
(* The counters of client_receive_message and client_send_message.         *)

\* A step of connection c, of its client, its host or its thread.
ConnStep(c) == HostWrite(c) \/ HostRead(c) \/ HostHangUp(c) \/ GatewayStep(c)

\* The thread ends with an error that Framing does not have.
Abandons(c) == pc[c] # "left" /\ GiveUp(c)

\* The answer is given up before it is encrypted.
AnswerLost(c) ==
    /\ pc[c] = "send"
    /\ broken' = [broken EXCEPT ![c] = TRUE]
    /\ pc' = [pc EXCEPT ![c] = "call"]
    /\ UNCHANGED <<clientVars, bufferVars, parserVars, handed, total, wire>>

\* What a step is to the variables of Framing.
LEMMA FramingEffect ==
    ASSUME NEW c \in Conns, ConnStep(c)
    PROVE  Step(c) \/ Abandons(c) \/ AnswerLost(c) \/ UNCHANGED vars
  <1>1. CASE HostWrite(c)
    BY <1>1 DEF HostWrite, Step
  <1>2. CASE HostRead(c)
    BY <1>2 DEF HostRead
  <1>3. CASE HostHangUp(c)
    BY <1>3 DEF HostHangUp, Step
  <1>4. CASE SecureCall(c)
    BY <1>4 DEF SecureCall, Step, ReceiveStep
  <1>5. CASE SecureCallFails(c)
    BY <1>5 DEF SecureCallFails, Abandons
  <1>6. CASE SecureRecv(c)
    BY <1>6 DEF SecureRecv, Step, ReceiveStep
  <1>7. CASE SecureParse(c)
    BY <1>7 DEF SecureParse, Step, ReceiveStep
  <1>8. CASE SecureInProgress(c)
    BY <1>8 DEF SecureInProgress, Step, ReceiveStep
  <1>9. CASE SecureLeave(c)
    BY <1>9 DEF SecureLeave, ParseGarbled, Parsing, Abandons, Step, ReceiveStep
  <1>10. CASE SecureEncrypt(c)
    BY <1>10 DEF SecureEncrypt
  <1>11. CASE SecureAnswerFails(c)
    BY <1>11 DEF SecureAnswerFails, AnswerLost
  <1>12. CASE SecureSend(c)
    BY <1>12 DEF SecureSend, Step
  <1> QED
    BY <1>1, <1>2, <1>3, <1>4, <1>5, <1>6, <1>7, <1>8, <1>9, <1>10, <1>11, <1>12
    DEF ConnStep, GatewayStep

LEMMA FramingOthers ==
    ASSUME FramingTypeOK, NEW c \in Conns, ConnStep(c), NEW d \in Conns, d # c
    PROVE  ConnVars(d)' = ConnVars(d)
  <1>1. CASE Step(c)
    BY <1>1, OthersUnchanged
  <1>2. CASE Abandons(c)
    BY <1>2 DEF Abandons, GiveUp, ConnVars, FramingTypeOK, clientVars, bufferVars, sendVars
  <1>3. CASE AnswerLost(c)
    BY <1>3 DEF AnswerLost, ConnVars, FramingTypeOK, clientVars, bufferVars, parserVars
  <1>4. CASE UNCHANGED vars
    BY <1>4 DEF vars, ConnVars, clientVars, bufferVars, parserVars, sendVars
  <1> QED
    BY <1>1, <1>2, <1>3, <1>4, FramingEffect

LEMMA AbandonsInd ==
    ASSUME IndInv, NEW c \in Conns, Abandons(c) \/ AnswerLost(c)
    PROVE  IndInv'
  <1>1. FramingTypeOK /\ ConnInv(c)
    BY DEF IndInv
  <1>2. FramingTypeOK'
    <2>1. CASE Abandons(c)
      <3> DEFINE T == Nat \cup {-1}
      <3>1. bytes_handled \in [Conns -> T] /\ -1 \in T
        BY <1>1 DEF FramingTypeOK
      <3> HIDE DEF T
      <3>2. bytes_handled' \in [Conns -> T]
        BY <2>1, <3>1 DEF Abandons, GiveUp
      <3>3. bytes_handled' \in [Conns -> Nat \cup {-1}]
        BY <3>2 DEF T
      <3> QED
        BY <1>1, <2>1, <3>3 DEF Abandons, GiveUp, FramingTypeOK, clientVars, bufferVars, sendVars
    <2>2. CASE AnswerLost(c)
      BY <1>1, <2>2 DEF AnswerLost, FramingTypeOK, clientVars, bufferVars, parserVars
    <2> QED
      BY <2>1, <2>2
  <1>3. ConnInv(c)'
    <2>1. CASE Abandons(c)
      <3>1. pc'[c] = "left" /\ UNCHANGED <<clientVars, bufferVars, fedFrom, fedTo, sendVars, handed>>
        BY <1>1, <2>1 DEF Abandons, GiveUp, FramingTypeOK
      <3> QED
        BY <1>1, <3>1
        DEF clientVars, bufferVars, sendVars, ConnInv, WrittenInv, BufferInv, ParserInv, WireInv
    <2>2. CASE AnswerLost(c)
      <3>1. /\ pc[c] = "send" /\ pc'[c] = "call" /\ broken'[c] = TRUE
            /\ UNCHANGED <<clientVars, bufferVars, parserVars, handed, total, wire>>
        BY <1>1, <2>2 DEF AnswerLost, FramingTypeOK
      <3> QED
        BY <1>1, <3>1
        DEF clientVars, bufferVars, parserVars, ConnInv, WrittenInv, BufferInv, ParserInv,
            WireInv, Parsed
    <2> QED
      BY <2>1, <2>2
  <1>4. ASSUME NEW d \in Conns, d # c PROVE ConnInv(d)'
    <2>1. ConnVars(d)' = ConnVars(d)
      BY <1>1, <1>4
      DEF Abandons, AnswerLost, GiveUp, ConnVars, FramingTypeOK, clientVars, bufferVars,
          parserVars, sendVars
    <2> QED
      BY <2>1, ConnInvUnchanged DEF IndInv
  <1> QED
    BY <1>2, <1>3, <1>4 DEF IndInv

LEMMA SecureKinds ==
    SecureNext => (\E c \in Conns : ConnStep(c)) \/ StoreSA
  BY DEF SecureNext, ConnStep

LEMMA FramingInd == IndInv /\ [SecureNext]_allVars => IndInv'
  <1> SUFFICES ASSUME IndInv, [SecureNext]_allVars PROVE IndInv'
    OBVIOUS
  <1>1. ASSUME NEW c \in Conns, ConnStep(c) PROVE IndInv'
    <2>1. CASE Step(c)
      BY <2>1, StepInd DEF Next, Step
    <2> QED
      BY <1>1, <2>1, FramingEffect, AbandonsInd, StepInd
  <1>2. CASE StoreSA \/ UNCHANGED allVars
    <2>1. UNCHANGED vars
      BY <1>2 DEF StoreSA, allVars
    <2> QED
      BY <2>1, StepInd
  <1> QED
    BY <1>1, <1>2, SecureKinds

-----------------------------------------------------------------------------
(* Types, and what holds in either build.                                  *)

LEMMA AnswerLenType ==
    ASSUME IndInv, NEW c \in Conns, pc[c] = "send"
    PROVE  AnswerLen(c) \in Nat /\ handed[c] # 0
  <1>1. handed[c] \in 1..NumRequests
    <2>1. handed[c] >= 1 /\ handed[c] \in 0..NumRequests
      BY DEF IndInv, ConnInv, WireInv, FramingTypeOK
    <2> QED
      BY <2>1, EndFacts
  <1>2. /\ handed[c] \in 0..NumRequests /\ handed[c] - 1 \in 0..NumRequests
        /\ AnsEnd[handed[c] - 1] <= AnsEnd[handed[c]]
    BY <1>1, EndFacts
  <1>3. AnsEnd[handed[c]] \in Nat /\ AnsEnd[handed[c] - 1] \in Nat
    BY <1>2, EndFacts
  <1> QED
    BY <1>1, <1>2, <1>3 DEF AnswerLen

\* What recv returns is a part of what has been written.
LEMMA RecvCount ==
    ASSUME FramingTypeOK, NEW c \in Conns, RecvData(c)
    PROVE  /\ received'[c] - received[c] \in Nat \ {0}
           /\ received'[c] \in Nat \ {0} /\ received'[c] <= written[c]
           /\ pc[c] = "receive"
  <1>1. PICK n \in 1..BufSize :
            received[c] + n <= written[c] /\ received' = [received EXCEPT ![c] = @ + n]
    BY DEF RecvData
  <1>2. received'[c] = received[c] + n /\ received[c] \in Nat /\ BufSize \in Nat
    BY <1>1, EndFacts DEF FramingTypeOK
  <1> QED
    BY <1>1, <1>2 DEF RecvData, Receiving

\* A request in the array of End.
LEMMA NextRequest ==
    ASSUME FramingTypeOK, NEW c \in Conns, asked[c] < NumRequests
    PROVE  /\ asked[c] + 1 \in 1..NumRequests /\ asked[c] \in 0..NumRequests
           /\ End[asked[c]] \in Nat /\ End[asked[c] + 1] \in Nat /\ End[NumRequests] \in Nat
           /\ End[asked[c]] < End[asked[c] + 1] /\ End[asked[c] + 1] <= End[NumRequests]
  <1>1. asked[c] \in 0..NumRequests /\ asked[c] + 1 \in 0..NumRequests
        /\ NumRequests \in 0..NumRequests /\ asked[c] + 1 <= NumRequests
        /\ asked[c] < asked[c] + 1
    BY EndFacts DEF FramingTypeOK
  <1> QED
    BY <1>1, EndFacts

\* What HIPDEX_Encrypt at the host does to a request.
LEMMA WriteEncrypts ==
    ASSUME FramingTypeOK, NEW c \in Conns, HostWrite(c)
    PROVE  /\ asked[c] < NumRequests
           /\ hipdex /\ written[c] = End[asked[c]] =>
                /\ key' = [key EXCEPT ![c] = [p \in Bytes |->
                        IF p \in (End[asked[c]] + 1)..End[asked[c] + 1]
                        THEN Keystream(sas, hostEncr + (p - End[asked[c]])) ELSE key[c][p]]]
                /\ hostEncr' = hostEncr + (End[asked[c] + 1] - End[asked[c]])
           /\ ~(hipdex /\ written[c] = End[asked[c]]) => key' = key /\ hostEncr' = hostEncr
  <1>1. asked[c] < NumRequests
    BY DEF HostWrite, Write
  <1>2. (asked[c] + 1) - 1 = asked[c]
    BY <1>1, NextRequest
  <1>3. PICK i : i = asked[c] + 1 /\ i - 1 = asked[c]
    BY <1>2
  <1>4. IF hipdex /\ written[c] = End[i - 1]
        THEN /\ key' = [key EXCEPT ![c] = [p \in Bytes |->
                       IF p \in (End[i - 1] + 1)..End[i] THEN Keystream(sas, hostEncr + (p - End[i - 1])) ELSE @[p]]]
             /\ hostEncr' = hostEncr + (End[i] - End[i - 1])
        ELSE UNCHANGED <<key, hostEncr>>
    BY <1>3 DEF HostWrite
  <1>5. CASE hipdex /\ written[c] = End[asked[c]]
    <2>1. /\ key' = [key EXCEPT ![c] = [p \in Bytes |->
                    IF p \in (End[i - 1] + 1)..End[i] THEN Keystream(sas, hostEncr + (p - End[i - 1])) ELSE @[p]]]
          /\ hostEncr' = hostEncr + (End[i] - End[i - 1])
      BY ONLY <1>3, <1>4, <1>5
    <2> QED
      BY ONLY <1>1, <1>3, <1>5, <2>1
  <1>6. CASE ~(hipdex /\ written[c] = End[asked[c]])
    BY <1>1, <1>3, <1>4, <1>6
  <1> QED
    BY <1>1, <1>5, <1>6

LEMMA SecureTypeStep ==
    ASSUME IndInv, SecureTypeOK, NEW c \in Conns, ConnStep(c)
    PROVE  SecureTypeOK'
  <1>0. FramingTypeOK
    BY DEF IndInv
  <1>1. CASE HostWrite(c)
    <2>1. asked[c] < NumRequests
      BY <1>0, <1>1, WriteEncrypts
    <2>2. /\ asked[c] \in 0..NumRequests /\ End[asked[c]] \in Nat /\ End[asked[c] + 1] \in Nat
          /\ End[asked[c]] < End[asked[c] + 1]
      BY <1>0, <2>1, NextRequest
    <2>3. key' \in [Conns -> [Bytes -> Nat \X Nat]] /\ hostEncr' \in Nat
      <3>1. CASE hipdex /\ written[c] = End[asked[c]]
        <4> DEFINE K(p) == IF p \in (End[asked[c]] + 1)..End[asked[c] + 1]
                           THEN Keystream(sas, hostEncr + (p - End[asked[c]])) ELSE key[c][p]
        <4>1. /\ key' = [key EXCEPT ![c] = [p \in Bytes |-> K(p)]]
              /\ hostEncr' = hostEncr + (End[asked[c] + 1] - End[asked[c]])
          BY <1>0, <1>1, <3>1, WriteEncrypts
        <4>2. ASSUME NEW p \in Bytes PROVE K(p) \in Nat \X Nat
          <5>1. CASE p \in (End[asked[c]] + 1)..End[asked[c] + 1]
            <6>1. hostEncr \in Nat /\ sas \in Nat
              BY DEF SecureTypeOK
            <6>2. hostEncr + (p - End[asked[c]]) \in Nat
              BY ONLY <2>2, <5>1, <6>1
            <6> QED
              BY <5>1, <6>1, <6>2 DEF Keystream
          <5>2. CASE p \notin (End[asked[c]] + 1)..End[asked[c] + 1]
            BY <5>2 DEF SecureTypeOK
          <5> QED
            BY <5>1, <5>2
        <4>3. hostEncr' \in Nat
          BY <2>2, <4>1 DEF SecureTypeOK
        <4>4. [p \in Bytes |-> K(p)] \in [Bytes -> Nat \X Nat]
          BY <4>2
        <4> HIDE DEF K
        <4>5. key' \in [Conns -> [Bytes -> Nat \X Nat]]
          BY <4>1, <4>4 DEF SecureTypeOK
        <4> QED
          BY <4>3, <4>5
      <3>2. CASE ~(hipdex /\ written[c] = End[asked[c]])
        BY <1>0, <1>1, <3>2, WriteEncrypts DEF SecureTypeOK
      <3> QED
        BY <3>1, <3>2
    <2>4. disturbed' \in BOOLEAN
      BY <1>1 DEF HostWrite
    <2> QED
      BY <1>1, <2>3, <2>4 DEF HostWrite, SecureTypeOK
  <1>2. CASE HostRead(c)
    <2>1. answers[c] \in Seq([at : Nat \X Nat, len : Nat]) /\ answers[c] # <<>>
      BY <1>2 DEF HostRead, SecureTypeOK
    <2>2. PICK a : a = Head(answers[c])
      OBVIOUS
    <2> DEFINE A == [at : Nat \X Nat, len : Nat]
    <2>3. a \in A /\ Tail(answers[c]) \in Seq(A)
      <3> HIDE DEF A
      <3>1. answers[c] \in Seq(A) /\ answers[c] # <<>>
        BY <2>1 DEF A
      <3> QED
        BY <2>2, <3>1
    <2>4. /\ misread' = (misread \/ a.at # Keystream(sas, hostDecr + 1))
          /\ hostDecr' = hostDecr + a.len
          /\ answers' = [answers EXCEPT ![c] = Tail(@)]
      BY <1>2, <2>2 DEF HostRead
    <2>5. misread' \in BOOLEAN
      BY <2>4
    <2>6. hostDecr' \in Nat
      BY <2>3, <2>4 DEF SecureTypeOK
    <2>7. answers \in [Conns -> Seq(A)]
      BY DEF SecureTypeOK
    <2>8. answers' \in [Conns -> Seq(A)]
      <3> HIDE DEF A
      <3> QED
        BY <2>3, <2>4, <2>7
    <2> QED
      BY <1>2, <2>5, <2>6, <2>8 DEF HostRead, SecureTypeOK
  <1>3. CASE HostHangUp(c)
    <2>1. disturbed' \in BOOLEAN
      BY <1>3 DEF HostHangUp
    <2> QED
      BY <1>3, <2>1 DEF HostHangUp, SecureTypeOK, cipherVars
  <1>4. CASE SecureCall(c)
    BY <1>4 DEF SecureCall, SecureTypeOK, cipherVars, NoSA
  <1>5. CASE SecureCallFails(c)
    BY <1>5 DEF SecureCallFails, SecureTypeOK, cipherVars
  <1>6. CASE SecureRecv(c)
    <2>1. received'[c] - received[c] \in Nat
      BY <1>0, <1>6, RecvCount DEF SecureRecv
    <2>2. decr' \in Nat
      BY <1>6, <2>1 DEF SecureRecv, SecureTypeOK
    <2>3. garbled' \in [Conns -> BOOLEAN]
      BY <1>6 DEF SecureRecv, SecureTypeOK
    <2> QED
      BY <1>6, <2>2, <2>3 DEF SecureRecv, SecureTypeOK
  <1>7. CASE SecureParse(c)
    BY <1>7 DEF SecureParse, SecureTypeOK, cipherVars, NoSA
  <1>8. CASE SecureInProgress(c) \/ SecureAnswerFails(c) \/ SecureSend(c)
    BY <1>8 DEF SecureInProgress, SecureAnswerFails, SecureSend, secureVars, SecureTypeOK, cipherVars
  <1>9. CASE SecureLeave(c)
    <2>1. disturbed' \in BOOLEAN
      BY <1>9 DEF SecureLeave
    <2> QED
      BY <1>9, <2>1 DEF SecureLeave, SecureTypeOK, cipherVars, NoSA
  <1>10. CASE SecureEncrypt(c)
    <2>1. AnswerLen(c) \in Nat
      BY <1>10, AnswerLenType DEF SecureEncrypt
    <2>2. encr' \in Nat
      BY <1>10, <2>1 DEF SecureEncrypt, SecureTypeOK
    <2>3. [at |-> Keystream(sas, encr + 1), len |-> AnswerLen(c)] \in [at : Nat \X Nat, len : Nat]
      BY <2>1 DEF SecureTypeOK, Keystream
    <2>4. PICK m : m = [at |-> Keystream(sas, encr + 1), len |-> AnswerLen(c)]
      OBVIOUS
    <2>5. answers' = answers \/ answers' = [answers EXCEPT ![c] = Append(@, m)]
      BY <1>10, <2>4 DEF SecureEncrypt
    <2> DEFINE A == [at : Nat \X Nat, len : Nat]
    <2>6. answers \in [Conns -> Seq(A)] /\ m \in A
      BY <2>3, <2>4 DEF SecureTypeOK
    <2>7. answers' \in [Conns -> Seq(A)]
      <3> HIDE DEF A
      <3>1. Append(answers[c], m) \in Seq(A)
        BY <2>6
      <3> QED
        BY <2>5, <2>6, <3>1
    <2> QED
      BY <1>10, <2>2, <2>7 DEF SecureEncrypt, SecureTypeOK
  <1> QED
    BY <1>1, <1>2, <1>3, <1>4, <1>5, <1>6, <1>7, <1>8, <1>9, <1>10 DEF ConnStep, GatewayStep

LEMMA SecureTypeNext == IndInv /\ SecureTypeOK /\ [SecureNext]_allVars => SecureTypeOK'
  <1> SUFFICES ASSUME IndInv, SecureTypeOK, [SecureNext]_allVars PROVE SecureTypeOK'
    OBVIOUS
  <1>1. CASE StoreSA
    <2>1. sas' \in Nat \ {0}
      BY <1>1 DEF StoreSA, SecureTypeOK
    <2>2. misread' \in BOOLEAN /\ disturbed' \in BOOLEAN
      BY <1>1 DEF StoreSA
    <2> QED
      BY <1>1, <2>1, <2>2 DEF StoreSA, SecureTypeOK
  <1>2. CASE UNCHANGED allVars
    BY <1>2 DEF allVars, secureVars, cipherVars, SecureTypeOK
  <1> QED
    BY <1>1, <1>2, SecureKinds, SecureTypeStep

SecureConnVars(c) == <<sa[c], cut[c], garbled[c], answers[c], key[c]>>

LEMMA SecureOthers ==
    ASSUME FramingTypeOK, SecureTypeOK, NEW c \in Conns, ConnStep(c), NEW d \in Conns, d # c
    PROVE  SecureConnVars(d)' = SecureConnVars(d)
  <1>1. CASE HostWrite(c)
    <2>1. key'[d] = key[d]
      BY <1>1, WriteEncrypts DEF SecureTypeOK
    <2> QED
      BY <1>1, <2>1 DEF HostWrite, SecureConnVars
  <1>2. CASE HostRead(c)
    BY <1>2 DEF HostRead, SecureConnVars, SecureTypeOK
  <1>3. CASE HostHangUp(c)
    BY <1>3 DEF HostHangUp, SecureConnVars, cipherVars
  <1>4. CASE SecureCall(c) \/ SecureCallFails(c)
    BY <1>4 DEF SecureCall, SecureCallFails, SecureConnVars, SecureTypeOK, cipherVars
  <1>5. CASE SecureRecv(c)
    <2>1. garbled'[d] = garbled[d]
      BY <1>5 DEF SecureRecv, SecureTypeOK
    <2> QED
      BY <1>5, <2>1 DEF SecureRecv, SecureConnVars
  <1>6. CASE SecureParse(c) \/ SecureLeave(c)
    BY <1>6 DEF SecureParse, SecureLeave, SecureConnVars, SecureTypeOK, cipherVars
  <1>7. CASE SecureInProgress(c) \/ SecureAnswerFails(c) \/ SecureSend(c)
    BY <1>7 DEF SecureInProgress, SecureAnswerFails, SecureSend, SecureConnVars, secureVars, cipherVars
  <1>8. CASE SecureEncrypt(c)
    <2>1. answers'[d] = answers[d]
      BY <1>8 DEF SecureEncrypt, SecureTypeOK
    <2> QED
      BY <1>8, <2>1 DEF SecureEncrypt, SecureConnVars
  <1> QED
    BY <1>1, <1>2, <1>3, <1>4, <1>5, <1>6, <1>7, <1>8 DEF ConnStep, GatewayStep

\* Where a thread goes.
LEMMA SecureMoves ==
    ASSUME FramingTypeOK, NEW c \in Conns, ConnStep(c)
    PROVE  /\ HostWrite(c) \/ HostRead(c) \/ HostHangUp(c) => pc' = pc
           /\ SecureCall(c) => pc[c] = "call" /\ pc'[c] = "receive"
           /\ SecureCallFails(c) => pc[c] = "call" /\ pc'[c] = "left"
           /\ SecureRecv(c) \/ SecureInProgress(c) => pc[c] = "receive" /\ pc' = pc
           /\ SecureParse(c) => pc[c] = "receive" /\ pc'[c] = "send"
           /\ SecureLeave(c) => pc[c] = "receive" /\ pc'[c] = "left"
           /\ SecureEncrypt(c) => pc[c] = "send" /\ pc' = pc
           /\ SecureAnswerFails(c) => pc[c] = "send" /\ pc'[c] = "call"
           /\ SecureSend(c) => pc[c] = "send" /\ pc'[c] \in {"send", "call"}
  <1>1. HostWrite(c) \/ HostRead(c) \/ HostHangUp(c) => pc' = pc
    BY DEF HostWrite, HostRead, HostHangUp, Write, HangUp, vars
  <1>2. /\ SecureCall(c) => pc[c] = "call" /\ pc'[c] = "receive"
        /\ SecureCallFails(c) => pc[c] = "call" /\ pc'[c] = "left"
    BY DEF SecureCall, SecureCallFails, Call, GiveUp, FramingTypeOK
  <1>3. SecureRecv(c) \/ SecureInProgress(c) => pc[c] = "receive" /\ pc' = pc
    BY DEF SecureRecv, SecureInProgress, RecvData, Receiving, ParseInProgress, Parsing
  <1>4. SecureParse(c) => pc[c] = "receive" /\ pc'[c] = "send"
    BY DEF SecureParse, ParseOK, Parsing, FramingTypeOK
  <1>5. SecureLeave(c) => pc[c] = "receive" /\ pc'[c] = "left"
    BY DEF SecureLeave, ParseGarbled, ParseError, RecvEnd, RecvError, GiveUp, Parsing, Receiving,
           FramingTypeOK
  <1>6. SecureEncrypt(c) => pc[c] = "send" /\ pc' = pc
    BY DEF SecureEncrypt, vars
  <1>7. /\ SecureAnswerFails(c) => pc[c] = "send" /\ pc'[c] = "call"
        /\ SecureSend(c) => pc[c] = "send" /\ pc'[c] \in {"send", "call"}
    BY DEF SecureAnswerFails, SecureSend, SendStep, SendChunk, SendFails, SendDone, FramingTypeOK
  <1> QED
    BY <1>1, <1>2, <1>3, <1>4, <1>5, <1>6, <1>7

\* Only recv receives, only the parser hands over, only the client writes and
\* hangs up.
LEMMA SecureCounts ==
    ASSUME NEW c \in Conns, ConnStep(c)
    PROVE  /\ hipdex' = hipdex /\ sas' = sas
           /\ SecureRecv(c) \/ received' = received
           /\ SecureParse(c) \/ handed' = handed
           /\ HostWrite(c) \/ (written' = written /\ asked' = asked)
           /\ HostHangUp(c) \/ gone' = gone
  <1> USE DEF clientVars, bufferVars, parserVars, sendVars, vars, secureVars
  <1>1. CASE HostWrite(c)
    BY <1>1 DEF HostWrite, Write
  <1>2. CASE HostRead(c) \/ SecureEncrypt(c)
    BY <1>2 DEF HostRead, SecureEncrypt
  <1>3. CASE HostHangUp(c)
    BY <1>3 DEF HostHangUp, HangUp
  <1>4. CASE SecureCall(c) \/ SecureCallFails(c)
    BY <1>4 DEF SecureCall, SecureCallFails, Call, GiveUp
  <1>5. CASE SecureRecv(c)
    BY <1>5 DEF SecureRecv, RecvData
  <1>6. CASE SecureParse(c)
    BY <1>6 DEF SecureParse, ParseOK
  <1>7. CASE SecureLeave(c)
    BY <1>7 DEF SecureLeave, ParseGarbled, ParseError, RecvEnd, RecvError, GiveUp
  <1>8. CASE SecureInProgress(c) \/ SecureAnswerFails(c)
    BY <1>8 DEF SecureInProgress, SecureAnswerFails, ParseInProgress
  <1>9. CASE SecureSend(c)
    BY <1>9 DEF SecureSend, SendStep, SendChunk, SendFails, SendDone
  <1> QED
    BY <1>1, <1>2, <1>3, <1>4, <1>5, <1>6, <1>7, <1>8, <1>9 DEF ConnStep, GatewayStep

LEMMA CallStepInv ==
    ASSUME IndInv, SecureTypeOK, CallInv, NEW c \in Conns, ConnStep(c)
    PROVE  CallInv'
  <1>0. FramingTypeOK /\ ConnInv(c) /\ hipdex' = hipdex /\ CallInvOf(c) /\ hipdex \in BOOLEAN
    BY SecureCounts DEF IndInv, CallInv, SecureTypeOK
  <1>1. ASSUME NEW d \in Conns, d # c PROVE CallInvOf(d)'
    <2>1. ConnVars(d)' = ConnVars(d) /\ SecureConnVars(d)' = SecureConnVars(d) /\ CallInvOf(d)
      BY <1>0, <1>1, FramingOthers, SecureOthers DEF CallInv
    <2> QED
      BY <1>0, <2>1 DEF ConnVars, SecureConnVars, CallInvOf
  <1>2. ~hipdex => ~disturbed' /\ ~misread'
    <2>1. CASE hipdex
      BY <2>1
    <2>2. CASE ~hipdex
      <3>1. ~disturbed /\ ~misread /\ answers[c] = <<>>
        BY <1>0, <2>2 DEF CallInv, CallInvOf
      <3> QED
        BY <2>2, <3>1
        DEF ConnStep, GatewayStep, HostWrite, HostRead, HostHangUp, SecureCall, SecureCallFails,
            SecureRecv, SecureParse, SecureInProgress, SecureLeave, SecureEncrypt,
            SecureAnswerFails, SecureSend, secureVars
    <2> QED
      BY <2>1, <2>2
  <1>3. CallInvOf(c)'
    <2>1. hipdex /\ pc'[c] = "receive" => sa'[c] # NoSA
      <3>1. CASE SecureCall(c)
        BY <3>1 DEF SecureCall, SecureTypeOK, NoSA
      <3>2. CASE ~SecureCall(c) /\ hipdex /\ pc'[c] = "receive"
        <4>1. HostWrite(c) \/ HostRead(c) \/ HostHangUp(c) \/ SecureRecv(c) \/ SecureInProgress(c)
          BY <1>0, <3>2, SecureMoves DEF ConnStep, GatewayStep
        <4>2. sa' = sa /\ pc' = pc
          BY <1>0, <4>1, SecureMoves
          DEF HostWrite, HostRead, HostHangUp, SecureRecv, SecureInProgress, secureVars
        <4> QED
          BY <1>0, <3>2, <4>2 DEF CallInvOf
      <3> QED
        BY <3>1, <3>2
    <2>2. cut'[c] => pc'[c] = "left"
      <3>1. CASE SecureCallFails(c)
        BY <1>0, <3>1, SecureMoves
      <3>2. CASE ~SecureCallFails(c)
        <4>1. cut' = cut
          BY <3>2
          DEF ConnStep, GatewayStep, HostWrite, HostRead, HostHangUp, SecureCall,
              SecureRecv, SecureParse, SecureInProgress, SecureLeave, SecureEncrypt,
              SecureAnswerFails, SecureSend, secureVars
        <4>2. pc[c] = "left" => pc' = pc
          BY <1>0, SecureMoves DEF ConnStep, GatewayStep
        <4> QED
          BY <1>0, <4>1, <4>2 DEF CallInvOf
      <3> QED
        BY <3>1, <3>2
    <2>3. End[handed'[c]] <= received'[c]
      <3>1. CASE SecureParse(c)
        <4>1. ParseOK(c) /\ received' = received
          BY <3>1 DEF SecureParse, ParseOK
        <4>2. handed'[c] = handed[c] + 1 /\ received[c] >= End[handed[c] + 1]
              /\ handed[c] < NumRequests
          BY <1>0, <4>1, ParseOKFacts DEF FramingTypeOK
        <4>3. received[c] \in Nat /\ End[handed[c] + 1] \in Nat
          BY <1>0, <4>2, ConnTypes
        <4> QED
          BY <4>1, <4>2, <4>3
      <3>2. CASE SecureRecv(c)
        <4>1. received'[c] - received[c] \in Nat /\ handed' = handed
          BY <1>0, <3>2, RecvCount DEF SecureRecv, RecvData
        <4>2. received[c] \in Nat /\ End[handed[c]] \in Nat /\ received'[c] \in Nat
          BY <1>0, ConnTypes, FramingInd, SecureKinds DEF IndInv, FramingTypeOK, SecureNext, ConnStep
        <4> QED
          BY <1>0, <4>1, <4>2 DEF CallInvOf
      <3>3. CASE ~SecureParse(c) /\ ~SecureRecv(c)
        BY <1>0, <3>3, SecureCounts DEF CallInvOf
      <3> QED
        BY <3>1, <3>2, <3>3
    <2>4. handed'[c] = 0 => answers'[c] = <<>>
      <3>1. CASE SecureEncrypt(c)
        BY <3>1, AnswerLenType DEF SecureEncrypt, vars
      <3>2. CASE HostRead(c)
        BY <1>0, <3>2 DEF HostRead, vars, CallInvOf
      <3>3. CASE ~SecureEncrypt(c) /\ ~HostRead(c)
        <4>1. answers' = answers
          BY <3>3
          DEF ConnStep, GatewayStep, HostWrite, HostHangUp, SecureCall, SecureCallFails,
              SecureRecv, SecureParse, SecureInProgress, SecureLeave,
              SecureAnswerFails, SecureSend, secureVars
        <4>2. handed'[c] # handed[c] => handed'[c] # 0
          <5>1. CASE SecureParse(c)
            BY <1>0, <5>1, ParseOKFacts, ConnTypes DEF SecureParse, FramingTypeOK
          <5> QED
            BY <5>1, SecureCounts
        <4>3. handed'[c] = 0 => handed[c] = 0
          BY <4>2
        <4> QED
          BY <1>0, <4>1, <4>3 DEF CallInvOf
      <3> QED
        BY <3>1, <3>2, <3>3
    <2>5. garbled'[c] => received'[c] > 0
      <3>1. CASE SecureRecv(c)
        BY <1>0, <3>1, RecvCount, ConnTypes DEF SecureRecv
      <3>2. CASE ~SecureRecv(c)
        <4>1. garbled' = garbled
          BY <3>2
          DEF ConnStep, GatewayStep, HostWrite, HostRead, HostHangUp, SecureCall, SecureCallFails,
              SecureParse, SecureInProgress, SecureLeave, SecureEncrypt,
              SecureAnswerFails, SecureSend, secureVars
        <4> QED
          BY <1>0, <3>2, <4>1, SecureCounts DEF CallInvOf
      <3> QED
        BY <3>1, <3>2
    <2>6. ~hipdex => ~garbled'[c] /\ answers'[c] = <<>>
      <3>1. CASE hipdex
        BY <3>1
      <3>2. CASE ~hipdex
        <4>1. ~garbled[c] /\ answers[c] = <<>>
          BY <1>0, <3>2 DEF CallInvOf
        <4>2. garbled' = garbled /\ answers' = answers
          BY <3>2, <4>1
          DEF ConnStep, GatewayStep, HostWrite, HostRead, HostHangUp, SecureCall, SecureCallFails,
              SecureRecv, SecureParse, SecureInProgress, SecureLeave, SecureEncrypt,
              SecureAnswerFails, SecureSend, secureVars
        <4> QED
          BY <4>1, <4>2
      <3> QED
        BY <3>1, <3>2
    <2> QED
      BY <1>0, <2>1, <2>2, <2>3, <2>4, <2>5, <2>6 DEF CallInvOf
  <1> QED
    BY <1>0, <1>1, <1>2, <1>3 DEF CallInv

-----------------------------------------------------------------------------
(* While the order is not disturbed.                                       *)

LEMMA EncryptedFacts ==
    ASSUME IndInv, NEW c \in Conns
    PROVE  /\ Encrypted(c) \in Nat /\ received[c] \in Nat /\ written[c] \in Nat
           /\ received[c] <= written[c] /\ written[c] <= Encrypted(c)
           /\ Encrypted(c) <= End[NumRequests] /\ End[NumRequests] \in Nat
           /\ Pending(c) => Unfinished(c)
  <1>1. FramingTypeOK /\ WrittenInv(c) /\ BufferInv(c)
    BY DEF IndInv, ConnInv
  <1>2. /\ written[c] \in Nat /\ received[c] \in Nat /\ asked[c] \in 0..NumRequests
        /\ NumRequests \in Nat /\ End[asked[c]] \in Nat
    BY <1>1, ConnTypes
  <1>3. End[NumRequests] \in Nat /\ written[c] <= End[NumRequests]
    BY <1>1, <1>2, WrittenBound, EndFacts
  <1>4. received[c] <= written[c]
    BY <1>1 DEF BufferInv
  <1>5. CASE written[c] > End[asked[c]]
    <2>1. asked[c] < NumRequests /\ written[c] < End[asked[c] + 1]
      BY <1>1, <1>2, <1>5 DEF WrittenInv
    <2>2. End[asked[c] + 1] \in Nat /\ End[asked[c] + 1] <= End[NumRequests]
      BY <1>1, <2>1, NextRequest
    <2> QED
      BY <1>2, <1>3, <1>4, <1>5, <2>1, <2>2 DEF Encrypted, Pending, Unfinished
  <1>6. CASE ~(written[c] > End[asked[c]])
    BY <1>2, <1>3, <1>4, <1>6 DEF Encrypted, Pending, Unfinished
  <1> QED
    BY <1>5, <1>6

\* What has been said about a connection stays true of the ones that do not move.
LEMMA OthersStay ==
    ASSUME FramingTypeOK, SecureTypeOK, NEW c \in Conns, ConnStep(c), NEW d \in Conns, d # c
    PROVE  /\ (Live(d)' <=> Live(d)) /\ (Unfinished(d)' <=> Unfinished(d))
           /\ Encrypted(d)' = Encrypted(d) /\ (Pending(d)' <=> Pending(d))
           /\ pc'[d] = pc[d] /\ gone'[d] = gone[d] /\ received'[d] = received[d]
           /\ sa'[d] = sa[d] /\ garbled'[d] = garbled[d] /\ answers'[d] = answers[d]
           /\ key'[d] = key[d]
  <1>1. ConnVars(d)' = ConnVars(d) /\ SecureConnVars(d)' = SecureConnVars(d)
    BY FramingOthers, SecureOthers
  <1> QED
    BY <1>1 DEF ConnVars, SecureConnVars, Live, Finished, Unfinished, Encrypted, Pending

\* A connection that is closed at both ends stays so.
LEMMA LiveBefore ==
    ASSUME FramingTypeOK, SecureTypeOK, NEW c \in Conns, ConnStep(c), NEW d \in Conns, Live(d)'
    PROVE  Live(d)
  <1>1. CASE d # c
    BY <1>1, OthersStay
  <1>2. CASE d = c
    <2>1. pc[c] = "left" => pc'[c] = "left"
      BY SecureMoves DEF ConnStep, GatewayStep
    <2>2. gone[c] # "no" => gone'[c] # "no"
      BY SecureCounts DEF HostHangUp, HangUp
    <2> QED
      BY <1>2, <2>1, <2>2 DEF Live, Finished
  <1> QED
    BY <1>1, <1>2

\* A step that leaves the ciphers alone and what is on its way.
Quiet(c) ==
    /\ UNCHANGED <<sas, cipherVars, garbled, answers, misread, written, asked, received>>
    /\ Live(c) /\ ~Live(c)' => ~Unfinished(c)
    /\ Unfinished(c)' => Unfinished(c)
    /\ Live(c)' /\ gone'[c] # "no" => ~Unfinished(c)
    /\ pc'[c] = "receive" => sa'[c] = sas

LEMMA QuietStep ==
    ASSUME IndInv, SecureTypeOK, Undisturbed, NEW c \in Conns, ConnStep(c), Quiet(c)
    PROVE  Undisturbed'
  <1>0. FramingTypeOK
    BY DEF IndInv
  <1>1. OrderInv'
    <2>1. ASSUME NEW x \in Conns, Live(x)' PROVE Live(x)
      BY <1>0, <2>1, LiveBefore
    <2>2. ASSUME NEW x \in Conns, Unfinished(x)' PROVE Unfinished(x)
      BY <1>0, <2>2, OthersStay DEF Quiet
    <2>3. ASSUME NEW x \in Conns, NEW y \in Conns, x # y, Live(x)', Live(y)', Unfinished(x)'
          PROVE  ~Unfinished(y)'
      BY <2>1, <2>2, <2>3 DEF Undisturbed, OrderInv
    <2>4. ASSUME NEW x \in Conns, Live(x)', gone'[x] # "no" PROVE ~Unfinished(x)'
      <3>1. CASE x = c
        BY <2>2, <2>4, <3>1 DEF Quiet
      <3>2. CASE x # c
        BY <1>0, <2>1, <2>2, <2>4, <3>2, OthersStay DEF Undisturbed, OrderInv
      <3> QED
        BY <3>1, <3>2
    <2>5. ASSUME NEW x \in Conns, pc'[x] = "receive" PROVE sa'[x] = sas'
      BY <1>0, <2>5, OthersStay DEF Quiet, Undisturbed, OrderInv
    <2>6. ASSUME NEW x \in Conns, Live(x)' PROVE ~garbled'[x]
      BY <2>1, <2>6 DEF Quiet, Undisturbed, OrderInv
    <2>7. ~misread'
      BY DEF Quiet, Undisturbed, OrderInv
    <2> QED
      BY <2>3, <2>4, <2>5, <2>6, <2>7 DEF OrderInv
  <1>2. ASSUME NEW x \in Conns PROVE Encrypted(x)' = Encrypted(x) /\ (Pending(x)' <=> Pending(x))
    BY DEF Quiet, Encrypted, Pending
  <1>3. ASSUME NEW x \in Conns, Live(x), ~Live(x)' PROVE ~Pending(x) /\ answers[x] = <<>>
    <2>1. ~Unfinished(x)
      BY <1>0, <1>3, OthersStay DEF Quiet
    <2> QED
      BY <2>1, EncryptedFacts DEF Unfinished
  <1>4. RequestsInStep'
    <2>1. ASSUME NEW x \in Conns, Live(x)', Pending(x)'
          PROVE  /\ decr' + (Encrypted(x)' - received'[x]) = hostEncr'
                 /\ \A p \in (received'[x] + 1)..Encrypted(x)' :
                       key'[x][p] = Keystream(sas', decr' + (p - received'[x]))
      <3>1. Live(x) /\ Pending(x)
        BY <1>0, <1>2, <2>1, LiveBefore
      <3> QED
        BY <1>2, <3>1 DEF Quiet, cipherVars, Undisturbed, RequestsInStep
    <2>2. ASSUME \A x \in Conns : Live(x)' => ~Pending(x)' PROVE decr' = hostEncr'
      <3>1. \A x \in Conns : Live(x) => ~Pending(x)
        BY <1>2, <1>3, <2>2
      <3> QED
        BY <3>1 DEF Quiet, cipherVars, Undisturbed, RequestsInStep
    <2> QED
      BY <2>1, <2>2 DEF RequestsInStep
  <1>5. AnswersInStep'
    <2>0. UNCHANGED <<answers, hostDecr, encr, sas>>
      BY DEF Quiet, cipherVars
    <2>1. ASSUME NEW x \in Conns, Live(x)' PROVE Live(x)
      BY <1>0, <2>1, LiveBefore
    <2>2. ASSUME \A x \in Conns : Live(x)' => answers[x] = <<>> PROVE hostDecr = encr
      <3>1. \A x \in Conns : Live(x) => answers[x] = <<>>
        BY <1>3, <2>2
      <3> QED
        BY <3>1 DEF Undisturbed, AnswersInStep
    <2> QED
      BY <2>0, <2>1, <2>2 DEF Undisturbed, AnswersInStep
  <1> QED
    BY <1>1, <1>4, <1>5 DEF Undisturbed

\* A connection that has something on its way has not been left by its client.
LEMMA QuietActions ==
    ASSUME SecureInv, hipdex, ~disturbed, ~disturbed', NEW c \in Conns,
           \/ HostHangUp(c) \/ SecureCall(c) \/ SecureCallFails(c) \/ SecureParse(c)
           \/ SecureInProgress(c) \/ SecureLeave(c) \/ SecureAnswerFails(c) \/ SecureSend(c)
    PROVE  Quiet(c)
  <1>0. /\ FramingTypeOK /\ SecureTypeOK /\ IndInv /\ ConnStep(c) /\ OrderInv
        /\ Live(c) /\ gone[c] # "no" => ~Unfinished(c)
        /\ pc[c] = "receive" => sa[c] = sas
    BY DEF SecureInv, IndInv, ConnStep, GatewayStep, InStep, Undisturbed, OrderInv
  <1>1. UNCHANGED <<sas, cipherVars, garbled, answers, misread, written, asked, received>>
    <2>1. UNCHANGED <<sas, cipherVars, garbled, answers, misread>>
      BY DEF HostHangUp, SecureCall, SecureCallFails, SecureParse, SecureInProgress, SecureLeave,
             SecureAnswerFails, SecureSend, secureVars
    <2>2. UNCHANGED <<written, asked, received>>
      BY DEF HostHangUp, HangUp, SecureCall, Call, SecureCallFails, GiveUp, SecureParse, ParseOK,
             SecureInProgress, ParseInProgress, SecureLeave, ParseGarbled, ParseError, RecvEnd,
             RecvError, SecureAnswerFails, SecureSend, SendStep, SendChunk, SendFails, SendDone,
             clientVars, bufferVars
    <2> QED
      BY <2>1, <2>2
  <1>2. CASE HostHangUp(c)
    <2>1. ~Unfinished(c)
      BY <1>2 DEF HostHangUp
    <2>2. pc' = pc /\ handed' = handed /\ sa' = sa
      BY <1>2 DEF HostHangUp, HangUp
    <2>3. Unfinished(c)' <=> Unfinished(c)
      BY <1>1, <2>2 DEF Unfinished
    <2> QED
      BY <1>0, <1>1, <2>1, <2>2, <2>3 DEF Quiet
  <1>3. CASE SecureCall(c)
    <2>1. pc[c] = "call" /\ pc'[c] = "receive" /\ gone' = gone /\ handed' = handed
      BY <1>0, <1>3, SecureMoves DEF SecureCall, Call, clientVars
    <2>2. sa'[c] = sas
      BY <1>3 DEF SecureCall, SecureInv, SecureTypeOK
    <2>3. Unfinished(c)' => Unfinished(c)
      BY <1>1, <2>1 DEF Unfinished
    <2> QED
      BY <1>0, <1>1, <2>1, <2>2, <2>3 DEF Quiet, Live, Finished
  <1>4. CASE SecureCallFails(c)
    <2>1. pc[c] = "call" /\ pc'[c] = "left" /\ gone' = gone /\ handed' = handed /\ gone[c] = "reset"
      BY <1>0, <1>4, SecureMoves DEF SecureCallFails, GiveUp, clientVars
    <2>2. ~Unfinished(c)
      BY <1>0, <2>1 DEF Live, Finished
    <2>3. Unfinished(c)' => Unfinished(c)
      BY <1>1, <2>1 DEF Unfinished
    <2> QED
      BY <1>0, <1>1, <2>1, <2>2, <2>3 DEF Quiet
  <1>5. CASE SecureParse(c)
    <2>1. pc[c] = "receive" /\ pc'[c] = "send" /\ gone' = gone /\ Parsing(c)
      BY <1>0, <1>5, SecureMoves DEF SecureParse, ParseOK, clientVars
    <2>2. Unfinished(c)
      <3>1. End[handed[c]] <= received[c] - remaining_len[c] /\ remaining_len[c] > 0
        BY <1>0, <2>1, ReadsNext DEF Parsing, Parsed
      <3>2. End[handed[c]] \in Nat /\ received[c] \in Nat /\ remaining_len[c] \in Nat
        BY <1>0, ConnTypes
      <3> QED
        BY <3>1, <3>2 DEF Unfinished
    <2> QED
      BY <1>0, <1>1, <2>1, <2>2 DEF Quiet, Live, Finished
  <1>6. CASE SecureInProgress(c)
    <2>1. pc[c] = "receive" /\ pc' = pc /\ gone' = gone /\ handed' = handed /\ sa' = sa
      BY <1>0, <1>6, SecureMoves DEF SecureInProgress, ParseInProgress, clientVars, secureVars
    <2>2. Unfinished(c)' <=> Unfinished(c)
      BY <1>1, <2>1 DEF Unfinished
    <2> QED
      BY <1>0, <1>1, <2>1, <2>2 DEF Quiet, Live, Finished
  <1>7. CASE SecureLeave(c)
    <2>1. pc[c] = "receive" /\ pc'[c] = "left" /\ gone' = gone /\ handed' = handed
      BY <1>0, <1>7, SecureMoves, SecureCounts
      DEF HostHangUp, HangUp, SecureParse, ParseOK
    <2>2. ~Unfinished(c)
      BY <1>7 DEF SecureLeave
    <2>3. Unfinished(c)' => Unfinished(c)
      BY <1>1, <2>1 DEF Unfinished
    <2> QED
      BY <1>0, <1>1, <2>1, <2>2, <2>3 DEF Quiet
  <1>8. CASE SecureAnswerFails(c)
    <2>1. pc[c] = "send" /\ gone[c] = "reset"
      BY <1>8 DEF SecureAnswerFails
    <2>2. Unfinished(c) /\ Live(c)
      BY <2>1 DEF Unfinished, Live, Finished
    <2> QED
      BY <1>0, <2>1, <2>2
  <1>9. CASE SecureSend(c)
    <2>1. pc[c] = "send" /\ pc'[c] \in {"send", "call"} /\ gone' = gone
      BY <1>0, <1>9, SecureMoves DEF SecureSend, SendStep, SendChunk, SendFails, SendDone, clientVars
    <2>2. Unfinished(c) /\ Live(c)
      BY <2>1 DEF Unfinished, Live, Finished
    <2> QED
      BY <1>0, <1>1, <2>1, <2>2 DEF Quiet, Live, Finished
  <1> QED
    BY <1>2, <1>3, <1>4, <1>5, <1>6, <1>7, <1>8, <1>9

\* The host starts a request, or goes on with one, while no other connection has
\* anything on its way.
LEMMA WriteStep ==
    ASSUME SecureInv, hipdex, ~disturbed, ~disturbed', NEW c \in Conns, HostWrite(c)
    PROVE  Undisturbed'
  <1>0. /\ FramingTypeOK /\ SecureTypeOK /\ IndInv /\ ConnStep(c) /\ ConnInv(c)
        /\ OrderInv /\ RequestsInStep /\ AnswersInStep
    BY DEF SecureInv, IndInv, ConnStep, InStep, Undisturbed
  <1>1. /\ UNCHANGED <<sas, encr, decr, hostDecr, sa, garbled, answers, misread, pc, gone, handed, received>>
        /\ gone[c] = "no" /\ Live(c)
        /\ \A d \in Conns \ {c} : ~Unfinished(d)
    BY DEF HostWrite, Write, OnlyOneBusy, bufferVars, Live, Finished
  <1>2. PICK upto \in (written[c] + 1)..End[asked[c] + 1] :
            /\ written' = [written EXCEPT ![c] = upto]
            /\ asked' = IF upto = End[asked[c] + 1] THEN [asked EXCEPT ![c] = @ + 1] ELSE asked
    BY DEF HostWrite, Write
  <1>3. /\ asked[c] < NumRequests /\ asked[c] + 1 \in 1..NumRequests /\ asked[c] \in 0..NumRequests
        /\ End[asked[c]] \in Nat /\ End[asked[c] + 1] \in Nat /\ End[NumRequests] \in Nat
        /\ End[asked[c]] < End[asked[c] + 1] /\ End[asked[c] + 1] <= End[NumRequests]
    BY <1>0, WriteEncrypts, NextRequest
  <1>4. /\ written[c] \in Nat /\ received[c] \in Nat /\ received[c] <= written[c]
        /\ End[asked[c]] <= written[c] /\ written[c] < End[asked[c] + 1]
    BY <1>0, <1>3, EncryptedFacts DEF ConnInv, WrittenInv
  <1>5. Encrypted(c)' = End[asked[c] + 1]
    <2>1. CASE upto = End[asked[c] + 1]
      <3>1. written'[c] = End[asked[c] + 1] /\ asked'[c] = asked[c] + 1
        BY <1>0, <1>2, <2>1 DEF FramingTypeOK
      <3> QED
        BY <1>3, <3>1 DEF Encrypted
    <2>2. CASE upto # End[asked[c] + 1]
      <3>1. written'[c] = upto /\ asked'[c] = asked[c] /\ upto > End[asked[c]]
        BY <1>0, <1>2, <1>3, <1>4, <2>2 DEF FramingTypeOK
      <3> QED
        BY <1>3, <3>1 DEF Encrypted
    <2> QED
      BY <2>1, <2>2
  <1>6. ASSUME NEW d \in Conns, d # c PROVE ~Unfinished(d)' /\ ~Pending(d)' /\ answers[d] = <<>>
    <2>1. ~Unfinished(d)
      BY <1>1, <1>6
    <2> QED
      BY <1>0, <1>6, <2>1, OthersStay, EncryptedFacts DEF Unfinished
  <1>7. ASSUME NEW d \in Conns PROVE Live(d)' <=> Live(d)
    BY <1>1 DEF Live, Finished
  <1>8. OrderInv'
    <2>1. \A d \in Conns : Live(d)' /\ gone'[d] # "no" => ~Unfinished(d)'
      BY <1>1, <1>6
    <2> QED
      BY <1>0, <1>1, <1>6, <1>7, <2>1 DEF OrderInv
  <1>9. RequestsInStep'
    <2>1. Live(c)' /\ Pending(c)'
      BY <1>1, <1>3, <1>4, <1>5, <1>7 DEF Pending
    <2>2. /\ decr + (End[asked[c] + 1] - received[c]) = hostEncr'
          /\ \A p \in (received[c] + 1)..End[asked[c] + 1] :
                key'[c][p] = Keystream(sas, decr + (p - received[c]))
      <3>1. CASE written[c] = End[asked[c]]
        <4>1. /\ hostEncr' = hostEncr + (End[asked[c] + 1] - End[asked[c]])
              /\ key'[c] = [p \in Bytes |->
                        IF p \in (End[asked[c]] + 1)..End[asked[c] + 1]
                        THEN Keystream(sas, hostEncr + (p - End[asked[c]])) ELSE key[c][p]]
          BY <1>0, <3>1, WriteEncrypts DEF SecureTypeOK
        <4>2. Encrypted(c) = End[asked[c]]
          BY <1>3, <3>1 DEF Encrypted
        <4>3. /\ decr + (End[asked[c]] - received[c]) = hostEncr
              /\ \A p \in (received[c] + 1)..End[asked[c]] :
                    key[c][p] = Keystream(sas, decr + (p - received[c]))
          <5>1. CASE Pending(c)
            BY <1>0, <1>1, <4>2, <5>1 DEF RequestsInStep
          <5>2. CASE ~Pending(c)
            <6>1. \A d \in Conns : ~Pending(d)
              BY <1>0, <1>1, <5>2, EncryptedFacts
            <6>2. decr = hostEncr /\ decr \in Nat
              BY <1>0, <6>1 DEF RequestsInStep, SecureTypeOK
            <6>3. received[c] = End[asked[c]]
              BY <1>3, <1>4, <3>1, <4>2, <5>2 DEF Pending
            <6> QED
              BY <1>3, <6>2, <6>3
          <5> QED
            BY <5>1, <5>2
        <4>4. decr \in Nat /\ hostEncr \in Nat
          BY <1>0 DEF SecureTypeOK
        <4>5. ASSUME NEW p \in (received[c] + 1)..End[asked[c] + 1]
              PROVE  key'[c][p] = Keystream(sas, decr + (p - received[c]))
          <5>1. p \in Bytes /\ p \in Nat
            BY <1>3, <1>4 DEF Bytes
          <5>2. CASE p \in (End[asked[c]] + 1)..End[asked[c] + 1]
            <6>1. hostEncr + (p - End[asked[c]]) = decr + (p - received[c])
              BY <1>3, <1>4, <4>3, <4>4, <5>1
            <6> QED
              BY <4>1, <5>1, <5>2, <6>1
          <5>3. CASE p \notin (End[asked[c]] + 1)..End[asked[c] + 1]
            <6>1. p \in (received[c] + 1)..End[asked[c]]
              BY <1>3, <1>4, <5>1, <5>3
            <6> QED
              BY <4>1, <4>3, <5>1, <5>3, <6>1
          <5> QED
            BY <5>2, <5>3
        <4>6. decr + (End[asked[c] + 1] - received[c]) = hostEncr'
          BY <1>3, <1>4, <4>1, <4>3, <4>4
        <4> QED
          BY <4>5, <4>6
      <3>2. CASE written[c] # End[asked[c]]
        <4>1. Encrypted(c) = End[asked[c] + 1] /\ Pending(c)
          BY <1>3, <1>4, <3>2 DEF Encrypted, Pending
        <4>2. key' = key /\ hostEncr' = hostEncr
          BY <1>0, <3>2, WriteEncrypts
        <4> QED
          BY <1>0, <1>1, <4>1, <4>2 DEF RequestsInStep
      <3> QED
        BY <3>1, <3>2
    <2> QED
      BY <1>1, <1>5, <1>6, <2>1, <2>2 DEF RequestsInStep
  <1>10. AnswersInStep'
    BY <1>0, <1>1, <1>7 DEF AnswersInStep
  <1> QED
    BY <1>8, <1>9, <1>10 DEF Undisturbed

\* A chunk is decrypted with the keystream bytes it was encrypted with.
LEMMA RecvStep ==
    ASSUME SecureInv, hipdex, ~disturbed, NEW c \in Conns, SecureRecv(c)
    PROVE  Undisturbed'
  <1>0. /\ FramingTypeOK /\ SecureTypeOK /\ IndInv /\ ConnStep(c)
        /\ OrderInv /\ RequestsInStep /\ AnswersInStep
    BY DEF SecureInv, IndInv, ConnStep, GatewayStep, InStep, Undisturbed
  <1>1. /\ UNCHANGED <<sas, encr, hostEncr, hostDecr, key, sa, answers, misread, pc, gone, handed,
                       written, asked>>
        /\ pc[c] = "receive" /\ Live(c) /\ sa[c] = sas
    BY <1>0, RecvCount
    DEF SecureRecv, RecvData, clientVars, sendVars, Live, Finished, OrderInv
  <1>2. PICK n : n = received'[c] - received[c]
    OBVIOUS
  <1>3. /\ n \in Nat \ {0} /\ received[c] \in Nat /\ received'[c] = received[c] + n
        /\ received'[c] <= written[c] /\ written[c] \in Nat
        /\ Encrypted(c) \in Nat /\ written[c] <= Encrypted(c)
    BY <1>0, <1>2, RecvCount, EncryptedFacts DEF SecureRecv
  <1>4. Pending(c) /\ Unfinished(c)
    BY <1>0, <1>3, EncryptedFacts DEF Pending
  <1>5. /\ decr + (Encrypted(c) - received[c]) = hostEncr /\ decr \in Nat /\ hostEncr \in Nat
        /\ \A p \in (received[c] + 1)..Encrypted(c) :
              key[c][p] = Keystream(sas, decr + (p - received[c]))
    BY <1>0, <1>1, <1>4 DEF RequestsInStep, SecureTypeOK
  <1>6. decr' = decr + n /\ ~garbled'[c]
    <2>1. /\ garbled' = [garbled EXCEPT ![c] =
                  sa[c] # sas \/ \E j \in 1..n : key[c][received[c] + j] # Keystream(sas, decr + j)]
          /\ decr' \in IF sa[c] = sas THEN {decr + n} ELSE {decr, decr + n}
      BY <1>2 DEF SecureRecv
    <2>2. ASSUME NEW j \in 1..n PROVE key[c][received[c] + j] = Keystream(sas, decr + j)
      <3>1. PICK p : p = received[c] + j
        OBVIOUS
      <3>2. p \in (received[c] + 1)..Encrypted(c) /\ p - received[c] = j
        BY <1>3, <3>1
      <3> QED
        BY <1>5, <3>1, <3>2
    <2>3. garbled'[c] = FALSE
      BY <1>0, <1>1, <2>1, <2>2 DEF SecureTypeOK
    <2> QED
      BY <1>1, <2>1, <2>3
  <1>7. Encrypted(c)' = Encrypted(c)
    BY <1>1 DEF Encrypted
  <1>8. ASSUME NEW d \in Conns, d # c, Live(d) PROVE ~Unfinished(d) /\ ~Pending(d)
    BY <1>0, <1>1, <1>4, <1>8, EncryptedFacts DEF OrderInv
  <1>9. ASSUME NEW d \in Conns PROVE Live(d)' <=> Live(d)
    BY <1>1 DEF Live, Finished
  <1>10. OrderInv'
    <2>1. ASSUME NEW d \in Conns, d # c, Live(d)' PROVE ~Unfinished(d)'
      BY <1>0, <1>8, <1>9, <2>1, OthersStay
    <2>2. \A x, y \in Conns : x # y /\ Live(x)' /\ Live(y)' /\ Unfinished(x)' => ~Unfinished(y)'
      BY <2>1
    <2>3. gone'[c] = "no"
      BY <1>0, <1>1, <1>4 DEF OrderInv
    <2>4. \A x \in Conns : Live(x)' /\ gone'[x] # "no" => ~Unfinished(x)'
      BY <2>1, <2>3
    <2>5. \A x \in Conns : Live(x)' => ~garbled'[x]
      BY <1>0, <1>6, <1>9, OthersStay DEF OrderInv
    <2> QED
      BY <1>0, <1>1, <2>2, <2>4, <2>5 DEF OrderInv
  <1>11. RequestsInStep'
    <2>1. decr' + (Encrypted(c) - received'[c]) = hostEncr
      BY <1>3, <1>5, <1>6
    <2>2. ASSUME NEW p \in (received'[c] + 1)..Encrypted(c)
          PROVE  key[c][p] = Keystream(sas, decr' + (p - received'[c]))
      <3>1. p \in (received[c] + 1)..Encrypted(c) /\ p \in Nat
        BY <1>3, <2>2
      <3>2. decr' + (p - received'[c]) = decr + (p - received[c])
        BY <1>3, <1>5, <1>6, <3>1
      <3> QED
        BY <1>5, <3>1, <3>2
    <2>3. ~Pending(c)' => decr' = hostEncr
      BY <1>3, <1>5, <1>6, <1>7 DEF Pending
    <2>4. ASSUME NEW d \in Conns, Live(d)', Pending(d)' PROVE d = c
      BY <1>0, <1>8, <1>9, <2>4, OthersStay
    <2> QED
      BY <1>1, <1>7, <1>9, <2>1, <2>2, <2>3, <2>4 DEF RequestsInStep
  <1>12. AnswersInStep'
    BY <1>0, <1>1, <1>9 DEF AnswersInStep
  <1> QED
    BY <1>10, <1>11, <1>12 DEF Undisturbed

\* An answer is encrypted with the keystream bytes after those of the answers
\* before it, which are all on the same connection.
LEMMA EncryptStep ==
    ASSUME SecureInv, hipdex, ~disturbed, NEW c \in Conns, SecureEncrypt(c)
    PROVE  Undisturbed'
  <1>0. /\ FramingTypeOK /\ SecureTypeOK /\ IndInv /\ ConnStep(c)
        /\ OrderInv /\ RequestsInStep /\ AnswersInStep
    BY DEF SecureInv, IndInv, ConnStep, GatewayStep, InStep, Undisturbed
  <1>1. /\ UNCHANGED <<sas, decr, hostEncr, hostDecr, key, sa, garbled, misread, pc, gone, handed,
                       written, asked, received>>
        /\ pc[c] = "send" /\ Live(c) /\ Unfinished(c)
    BY DEF SecureEncrypt, vars, clientVars, bufferVars, Live, Finished, Unfinished
  <1>2. ASSUME NEW d \in Conns PROVE (Live(d)' <=> Live(d)) /\ (Pending(d)' <=> Pending(d))
    BY <1>1 DEF Live, Finished, Pending, Encrypted
  <1>3. ASSUME NEW d \in Conns, d # c, Live(d) PROVE ~Unfinished(d)' /\ answers'[d] = <<>>
    <2>1. ~Unfinished(d)
      BY <1>0, <1>1, <1>3 DEF OrderInv
    <2> QED
      BY <1>0, <1>3, <2>1, OthersStay DEF Unfinished
  <1>4. OrderInv'
    <2>1. gone[c] = "no"
      BY <1>0, <1>1 DEF OrderInv
    <2> QED
      BY <1>0, <1>1, <1>2, <1>3, <2>1 DEF OrderInv
  <1>5. RequestsInStep'
    BY <1>0, <1>1, <1>2 DEF RequestsInStep, Encrypted
  <1>6. AnswersInStep'
    <2> DEFINE A == [at : Nat \X Nat, len : Nat]
    <2>1. answers[c] \in Seq(A) /\ answers \in [Conns -> Seq(A)] /\ encr \in Nat /\ hostDecr \in Nat
      BY <1>0 DEF SecureTypeOK
    <2>2. AnswerLen(c) \in Nat
      BY <1>0, <1>1, AnswerLenType
    <2>3. \A d \in Conns : d # c /\ Live(d) => answers[d] = <<>>
      BY <1>0, <1>3, OthersStay
    <2>4. CASE AnswerLen(c) = 0
      <3>1. answers' = answers /\ encr' = encr
        BY <2>1, <2>2, <2>4 DEF SecureEncrypt
      <3> QED
        BY <1>0, <1>1, <1>2, <3>1 DEF AnswersInStep
    <2>5. CASE AnswerLen(c) # 0
      <3>1. PICK m : m = [at |-> Keystream(sas, encr + 1), len |-> AnswerLen(c)]
        OBVIOUS
      <3>2. /\ m \in A /\ m.at = Keystream(sas, encr + 1) /\ m.at[2] = encr + 1
            /\ m.len = AnswerLen(c)
        BY <1>0, <2>1, <2>2, <3>1 DEF SecureTypeOK, Keystream
      <3>3. answers'[c] = Append(answers[c], m) /\ encr' = encr + m.len
        BY <2>1, <2>5, <3>1, <3>2 DEF SecureEncrypt
      <3>4. PICK L : L = Len(answers[c])
        OBVIOUS
      <3> HIDE DEF A
      <3>5. /\ L \in Nat /\ Len(answers'[c]) = L + 1 /\ answers'[c] # <<>>
            /\ answers'[c][L + 1] = m
            /\ \A i \in 1..L : answers'[c][i] = answers[c][i]
            /\ answers[c] = <<>> <=> L = 0
        BY <2>1, <3>2, <3>3, <3>4
      <3>6. answers'[c][1].at = Keystream(sas, hostDecr + 1)
        <4>1. CASE L = 0
          <5>1. \A d \in Conns : Live(d) => answers[d] = <<>>
            BY <2>3, <3>5, <4>1
          <5>2. hostDecr = encr
            BY <1>0, <5>1 DEF AnswersInStep
          <5> QED
            BY <3>2, <3>5, <4>1, <5>2
        <4>2. CASE L # 0
          BY <1>0, <1>1, <3>5, <4>2 DEF AnswersInStep
        <4> QED
          BY <4>1, <4>2
      <3>7. ASSUME NEW i \in 1..L
            PROVE  answers'[c][i + 1].at
                       = Keystream(sas, answers'[c][i].at[2] + answers'[c][i].len)
        <4>0. L # 0 /\ answers[c] # <<>>
          BY <3>5
        <4>1. CASE i = L
          <5>1. answers[c][L].at[2] + answers[c][L].len = encr + 1
            BY <1>0, <1>1, <3>4, <4>0 DEF AnswersInStep
          <5> QED
            BY <3>2, <3>5, <4>1, <5>1
        <4>2. CASE i # L
          <5>1. i \in 1..(L - 1) /\ i + 1 \in 1..L
            BY <3>5, <4>2
          <5>2. answers[c][i + 1].at = Keystream(sas, answers[c][i].at[2] + answers[c][i].len)
            BY <1>0, <1>1, <3>4, <4>0, <5>1 DEF AnswersInStep
          <5> QED
            BY <3>5, <5>1, <5>2
        <4> QED
          BY <4>1, <4>2
      <3>8. answers'[c][L + 1].at[2] + answers'[c][L + 1].len = encr' + 1
        <4>1. (encr + 1) + m.len = (encr + m.len) + 1
          BY <2>1, <2>2, <3>2
        <4> QED
          BY <3>2, <3>3, <3>5, <4>1
      <3>9. (L + 1) - 1 = L
        BY <3>5
      <3>10. \A i \in 1..(Len(answers'[c]) - 1) :
                answers'[c][i + 1].at = Keystream(sas, answers'[c][i].at[2] + answers'[c][i].len)
        BY <3>5, <3>7, <3>9
      <3>11. answers'[c][Len(answers'[c])].at[2] + answers'[c][Len(answers'[c])].len = encr' + 1
        BY <3>5, <3>8
      <3>12. \A d \in Conns : Live(d)' /\ answers'[d] # <<>> => d = c
        BY <1>2, <1>3
      <3> QED
        BY <1>1, <1>2, <3>5, <3>6, <3>10, <3>11, <3>12 DEF AnswersInStep
    <2> QED
      BY <2>4, <2>5
  <1> QED
    BY <1>4, <1>5, <1>6 DEF Undisturbed

\* The host reads the first answer with the keystream bytes it was encrypted with.
LEMMA ReadStep ==
    ASSUME SecureInv, hipdex, ~disturbed, NEW c \in Conns, HostRead(c)
    PROVE  Undisturbed'
  <1>0. /\ FramingTypeOK /\ SecureTypeOK /\ IndInv /\ ConnStep(c)
        /\ OrderInv /\ RequestsInStep /\ AnswersInStep
    BY DEF SecureInv, IndInv, ConnStep, GatewayStep, InStep, Undisturbed
  <1>1. /\ UNCHANGED <<sas, encr, decr, hostEncr, key, sa, garbled, pc, gone, handed,
                       written, asked, received>>
        /\ gone[c] = "no" /\ Live(c) /\ answers[c] # <<>> /\ Unfinished(c)
    BY DEF HostRead, vars, clientVars, bufferVars, Live, Finished, Unfinished
  <1>2. ASSUME NEW d \in Conns PROVE (Live(d)' <=> Live(d)) /\ (Pending(d)' <=> Pending(d))
    BY <1>1 DEF Live, Finished, Pending, Encrypted
  <1>3. ASSUME NEW d \in Conns, d # c, Live(d) PROVE ~Unfinished(d)' /\ answers'[d] = <<>>
    <2>1. ~Unfinished(d)
      BY <1>0, <1>1, <1>3 DEF OrderInv
    <2> QED
      BY <1>0, <1>3, <2>1, OthersStay DEF Unfinished
  <1> DEFINE A == [at : Nat \X Nat, len : Nat]
  <1>4. answers[c] \in Seq(A) /\ answers \in [Conns -> Seq(A)] /\ encr \in Nat /\ hostDecr \in Nat
    BY <1>0 DEF SecureTypeOK
  <1>5. PICK a : a = Head(answers[c])
    OBVIOUS
  <1>6. PICK L : L = Len(answers[c])
    OBVIOUS
  <1>7. /\ misread' = (misread \/ a.at # Keystream(sas, hostDecr + 1))
        /\ hostDecr' = hostDecr + a.len
        /\ answers'[c] = Tail(answers[c])
    BY <1>4, <1>5 DEF HostRead
  <1>8. a \in A /\ a = answers[c][1]
    <2> HIDE DEF A
    <2> QED
      BY <1>1, <1>4, <1>5
  <1>9. a.len \in Nat /\ a.at = Keystream(sas, hostDecr + 1) /\ a.at[2] = hostDecr + 1
    BY <1>0, <1>1, <1>8 DEF AnswersInStep, Keystream
  <1>10. a.at[2] + a.len = hostDecr' + 1 /\ hostDecr' \in Nat
    <2>0. hostDecr \in Nat /\ a.len \in Nat
      BY <1>4, <1>9
    <2>1. (hostDecr + 1) + a.len = (hostDecr + a.len) + 1 /\ hostDecr + a.len \in Nat
      BY ONLY <2>0
    <2> QED
      BY ONLY <1>7, <1>9, <2>1
  <1>13. OrderInv'
    <2>1. ~misread'
      BY <1>0, <1>7, <1>9 DEF OrderInv
    <2> QED
      BY <1>0, <1>1, <1>2, <1>3, <2>1 DEF OrderInv
  <1>11. RequestsInStep'
    BY <1>0, <1>1, <1>2 DEF RequestsInStep, Encrypted
  <1>12. AnswersInStep'
    <2> HIDE DEF A
    <2>1. /\ L \in Nat \ {0} /\ Len(answers'[c]) = L - 1
          /\ \A i \in 1..(L - 1) : answers'[c][i] = answers[c][i + 1]
          /\ answers'[c] = <<>> <=> L = 1
      <3>1. PICK s \in Seq(A) : s = answers[c] /\ s # <<>>
        BY <1>1, <1>4
      <3>2. /\ Len(s) \in Nat \ {0} /\ Tail(s) \in Seq(A) /\ Len(Tail(s)) = Len(s) - 1
            /\ \A i \in 1..(Len(s) - 1) : Tail(s)[i] = s[i + 1]
        BY <3>1, HeadTailProperties
      <3>3. Tail(s) = <<>> <=> Len(Tail(s)) = 0
        BY ONLY <3>2, EmptySeq
      <3> QED
        BY <1>6, <1>7, <3>1, <3>2, <3>3
    <2>2. /\ \A i \in 1..(L - 1) :
                answers[c][i + 1].at = Keystream(sas, answers[c][i].at[2] + answers[c][i].len)
          /\ answers[c][L].at[2] + answers[c][L].len = encr + 1
      BY <1>0, <1>1, <1>6 DEF AnswersInStep
    <2>3. \A d \in Conns : Live(d)' /\ answers'[d] # <<>> => d = c
      BY <1>2, <1>3
    <2>4. CASE L = 1
      <3>1. a.at[2] + a.len = encr + 1
        BY <1>8, <2>2, <2>4
      <3>2. hostDecr' = encr
        BY ONLY <1>4, <1>10, <3>1
      <3> QED
        BY <1>1, <2>1, <2>3, <2>4, <3>2 DEF AnswersInStep
    <2>5. CASE L # 1
      <3>1. 1 \in 1..(L - 1) /\ L - 1 \in 1..(L - 1) /\ (L - 1) + 1 = L /\ L - 1 \in Nat
        BY <2>1, <2>5
      <3>2. answers'[c][1].at = Keystream(sas, hostDecr' + 1)
        <4>1. answers'[c][1] = answers[c][2]
          BY <2>1, <3>1
        <4>2. answers[c][2].at = Keystream(sas, a.at[2] + a.len)
          BY <1>8, <2>2, <3>1
        <4>3. a.at[2] + a.len = hostDecr' + 1
          BY <1>10
        <4> QED
          BY <4>1, <4>2, <4>3
      <3>3. ASSUME NEW i \in 1..((L - 1) - 1)
            PROVE  answers'[c][i + 1].at
                       = Keystream(sas, answers'[c][i].at[2] + answers'[c][i].len)
        <4>1. i \in 1..(L - 1) /\ i + 1 \in 1..(L - 1)
          BY <2>1, <3>3
        <4> QED
          BY <2>1, <2>2, <4>1
      <3>4. answers'[c][L - 1] = answers[c][L]
        BY <2>1, <3>1
      <3>5. answers'[c][L - 1].at[2] + answers'[c][L - 1].len = encr + 1
        BY <2>2, <3>4
      <3>6. answers'[c] # <<>> /\ Live(c)'
        BY <1>1, <1>2, <2>1, <2>5
      <3> QED
        BY <1>1, <2>1, <2>3, <3>2, <3>3, <3>5, <3>6 DEF AnswersInStep
    <2> QED
      BY <2>4, <2>5
  <1> QED
    BY <1>11, <1>12, <1>13 DEF Undisturbed

\* A handshake while no connection is in use: the counters start again at both ends.
LEMMA IdleFacts ==
    ASSUME IndInv, SecureTypeOK, CallInv, hipdex, NEW c \in Conns, Idle(c), Live(c)
    PROVE  /\ ~Unfinished(c) /\ ~Pending(c) /\ answers[c] = <<>>
           /\ pc[c] # "receive" /\ ~garbled[c]
  <1>0. FramingTypeOK /\ ConnInv(c) /\ CallInvOf(c)
    BY DEF IndInv, CallInv
  <1>1. written[c] = 0 /\ sa[c] = NoSA /\ pc[c] # "receive"
    BY <1>0 DEF Idle, Live, Finished, CallInvOf
  <1>2. /\ received[c] = 0 /\ End[asked[c]] \in Nat /\ End[handed[c]] \in Nat
        /\ asked[c] \in 0..NumRequests /\ handed[c] \in 0..NumRequests
        /\ End[asked[c]] <= 0 /\ End[handed[c]] <= 0
    BY <1>0, <1>1, ConnTypes, EncryptedFacts DEF ConnInv, WrittenInv, CallInvOf
  <1>3. handed[c] = 0
    <2>1. 0 \in 0..NumRequests /\ End[0] = 0
      BY EndFacts
    <2>2. handed[c] <= 0
      BY <1>2, <2>1, EndFacts
    <2> QED
      BY <1>2, <2>2, EndFacts
  <1>4. answers[c] = <<>> /\ ~garbled[c]
    BY <1>0, <1>2, <1>3 DEF CallInvOf
  <1>5. pc[c] # "send"
    BY <1>3, AnswerLenType
  <1>6. ~Unfinished(c)
    BY <1>1, <1>2, <1>4, <1>5 DEF Unfinished
  <1> QED
    BY <1>1, <1>4, <1>6, EncryptedFacts

LEMMA StoreStep ==
    ASSUME SecureInv, StoreSA, ~disturbed'
    PROVE  Undisturbed'
  <1>1. /\ UNCHANGED <<vars, key, sa, garbled, answers>> /\ hipdex
        /\ encr' = 0 /\ decr' = 0 /\ hostEncr' = 0 /\ hostDecr' = 0 /\ ~misread'
        /\ \A c \in Conns : Idle(c)
    BY DEF StoreSA
  <1>2. IndInv /\ SecureTypeOK /\ CallInv
    BY DEF SecureInv
  <1>3. UNCHANGED <<written, asked, gone, received, handed, pc>>
    BY <1>1 DEF vars, clientVars, bufferVars
  <1>4. ASSUME NEW c \in Conns
        PROVE  /\ Live(c)' <=> Live(c)
               /\ Unfinished(c)' <=> Unfinished(c)
               /\ Pending(c)' <=> Pending(c)
    BY <1>1, <1>3 DEF Live, Finished, Unfinished, Pending, Encrypted
  <1>5. ASSUME NEW c \in Conns, Live(c)
        PROVE  ~Unfinished(c) /\ ~Pending(c) /\ answers[c] = <<>> /\ pc[c] # "receive" /\ ~garbled[c]
    BY <1>1, <1>2, <1>5, IdleFacts
  <1>6. ASSUME NEW c \in Conns PROVE pc[c] # "receive"
    BY <1>5 DEF Live, Finished
  <1>7. OrderInv'
    BY <1>1, <1>3, <1>4, <1>5, <1>6 DEF OrderInv
  <1>8. RequestsInStep'
    BY <1>1, <1>4, <1>5 DEF RequestsInStep
  <1>9. AnswersInStep'
    BY <1>1, <1>4, <1>5 DEF AnswersInStep
  <1> QED
    BY <1>7, <1>8, <1>9 DEF Undisturbed

LEMMA InStepNext == SecureInv /\ [SecureNext]_allVars => InStep'
  <1> SUFFICES ASSUME SecureInv, [SecureNext]_allVars, hipdex', ~disturbed'
               PROVE  Undisturbed'
    BY DEF InStep
  <1>0. hipdex \in BOOLEAN /\ disturbed \in BOOLEAN
    BY DEF SecureInv, SecureTypeOK
  <1>1. ASSUME NEW c \in Conns, ConnStep(c) PROVE Undisturbed'
    <2>1. hipdex /\ ~disturbed
      <3>1. hipdex
        BY <1>1, SecureCounts
      <3>2. ~disturbed
        BY <1>1
        DEF ConnStep, GatewayStep, HostWrite, HostRead, HostHangUp, SecureCall, SecureCallFails,
            SecureRecv, SecureParse, SecureInProgress, SecureLeave, SecureEncrypt,
            SecureAnswerFails, SecureSend, secureVars
      <3> QED
        BY <3>1, <3>2
    <2>2. CASE HostWrite(c)
      BY <2>1, <2>2, WriteStep
    <2>3. CASE HostRead(c)
      BY <2>1, <2>3, ReadStep
    <2>4. CASE SecureRecv(c)
      BY <2>1, <2>4, RecvStep
    <2>5. CASE SecureEncrypt(c)
      BY <2>1, <2>5, EncryptStep
    <2>6. CASE \/ HostHangUp(c) \/ SecureCall(c) \/ SecureCallFails(c) \/ SecureParse(c)
               \/ SecureInProgress(c) \/ SecureLeave(c) \/ SecureAnswerFails(c) \/ SecureSend(c)
      <3>1. Quiet(c)
        BY <2>1, <2>6, QuietActions
      <3> QED
        BY <1>1, <2>1, <3>1, QuietStep DEF SecureInv, InStep
    <2> QED
      BY <1>1, <2>2, <2>3, <2>4, <2>5, <2>6 DEF ConnStep, GatewayStep
  <1>2. CASE StoreSA
    BY <1>2, StoreStep
  <1>3. CASE UNCHANGED allVars
    <2>1. Undisturbed
      BY <1>3 DEF SecureInv, InStep, allVars, secureVars
    <2>2. UNCHANGED <<written, asked, gone, received, handed, pc, sas, encr, decr, hostEncr, hostDecr,
                      key, sa, garbled, answers, misread>>
      BY <1>3 DEF allVars, vars, clientVars, bufferVars, secureVars, cipherVars
    <2> QED
      BY <2>1, <2>2
      DEF Undisturbed, OrderInv, RequestsInStep, AnswersInStep, Live, Finished, Unfinished,
          Pending, Encrypted
  <1> QED
    BY <1>1, <1>2, <1>3, SecureKinds

LEMMA CallNext == IndInv /\ SecureTypeOK /\ CallInv /\ [SecureNext]_allVars => CallInv'
  <1> SUFFICES ASSUME IndInv, SecureTypeOK, CallInv, [SecureNext]_allVars PROVE CallInv'
    OBVIOUS
  <1>1. CASE StoreSA
    <2>1. UNCHANGED <<pc, received, handed, hipdex, sa, cut, garbled, answers>> /\ hipdex
      BY <1>1 DEF StoreSA, vars, bufferVars
    <2> QED
      BY <2>1 DEF CallInv, CallInvOf
  <1>2. CASE UNCHANGED allVars
    <2>1. UNCHANGED <<pc, received, handed, hipdex, sa, cut, garbled, answers, misread, disturbed>>
      BY <1>2 DEF allVars, vars, bufferVars, secureVars
    <2> QED
      BY <2>1 DEF CallInv, CallInvOf
  <1> QED
    BY <1>1, <1>2, SecureKinds, CallStepInv

LEMMA SecureInitInv == SecureInit => SecureInv
  <1> SUFFICES ASSUME SecureInit PROVE SecureInv
    OBVIOUS
  <1>1. IndInv
    BY InitInd DEF SecureInit
  <1>2. /\ written = [c \in Conns |-> 0] /\ asked = [c \in Conns |-> 0]
        /\ gone = [c \in Conns |-> "no"] /\ received = [c \in Conns |-> 0]
        /\ handed = [c \in Conns |-> 0] /\ pc = [c \in Conns |-> "call"]
    BY DEF SecureInit, Init
  <1>3. SecureTypeOK
    <2>1. key \in [Conns -> [Bytes -> Nat \X Nat]]
      BY DEF SecureInit, Keystream, NoSA
    <2>2. answers \in [Conns -> Seq([at : Nat \X Nat, len : Nat])]
      BY DEF SecureInit
    <2>3. misread \in BOOLEAN /\ disturbed \in BOOLEAN /\ hipdex \in BOOLEAN
      BY DEF SecureInit
    <2> QED
      BY <2>1, <2>2, <2>3 DEF SecureInit, SecureTypeOK, NoSA
  <1>4. CallInv
    BY <1>2, EndFacts DEF SecureInit, CallInv, CallInvOf
  <1>5. ASSUME NEW c \in Conns PROVE ~Unfinished(c) /\ ~Pending(c)
    BY <1>1, <1>2, EndFacts, EncryptedFacts DEF Unfinished, Pending, Encrypted, SecureInit
  <1>6. Undisturbed
    <2>1. OrderInv
      BY <1>2, <1>5 DEF SecureInit, OrderInv
    <2>2. RequestsInStep
      BY <1>5 DEF SecureInit, RequestsInStep
    <2>3. AnswersInStep
      BY DEF SecureInit, AnswersInStep
    <2> QED
      BY <2>1, <2>2, <2>3 DEF Undisturbed
  <1> QED
    BY <1>1, <1>3, <1>4, <1>6 DEF SecureInv, InStep

LEMMA SecureInductive == SecureSpec => []SecureInv
  <1>1. SecureInv /\ [SecureNext]_allVars => SecureInv'
    BY FramingInd, SecureTypeNext, CallNext, InStepNext DEF SecureInv
  <1> QED
    BY <1>1, SecureInitInv, PTL DEF SecureSpec

\* In either build the counters of the buffer stay within it, although chunks are
\* decrypted in place and a call may end before it has looked at the buffer.
THEOREM SecureFramingTypeCorrect == SecureSpec => []FramingTypeOK
  <1>1. SecureInv => FramingTypeOK
    BY DEF SecureInv, IndInv
  <1> QED
    BY <1>1, SecureInductive, PTL

\* In either build the answers go out whole and in order.
THEOREM SecureAnswersGoOut == SecureSpec => []AnswersWhole
  <1>1. SecureInv => AnswersWhole
    BY DEF SecureInv, IndInv, ConnInv, WireInv, AnswersWhole
  <1> QED
    BY <1>1, SecureInductive, PTL

\* A host that uses its connections one at a time, and finishes what it has
\* started on each before it hangs up, decrypts every answer as it was encrypted.
THEOREM AnswersAreReadable == SecureSpec => []AnswersReadable
  <1>1. SecureInv => AnswersReadable
    BY DEF SecureInv, SecureTypeOK, CallInv, InStep, Undisturbed, OrderInv, AnswersReadable
  <1> QED
    BY <1>1, SecureInductive, PTL

-----------------------------------------------------------------------------
(***************************************************************************)
(* Refinement.  A step of Framing is a step of the channel with or without *)
(* noise.  Three are new: a call that ends before it reads is the end of   *)
(* the connection, an answer that is given up is none of the channel's     *)
(* business, and a request is refused for nothing only while noise may be. *)
(***************************************************************************)
SecureState == [c \in Conns |-> IF cut[c] THEN "over" ELSE Seen(c)]

LEMMA StateMoves ==
    ASSUME CallInv, NEW c \in Conns, cut' = cut, pc[c] # "left", NEW x,
           \A d \in Conns \ {c} : Seen(d)' = Seen(d), Seen(c)' = x
    PROVE  SecureState' = [SecureState EXCEPT ![c] = x] /\ SecureState[c] = "serving"
  <1>1. ~cut[c] /\ Seen(c) = "serving"
    BY DEF CallInv, CallInvOf, Seen
  <1> QED
    BY <1>1 DEF SecureState

\* A step of the channel without noise is one with noise.
LEMMA Lifts ==
    ASSUME CallInv, [Channel!Next]_(Channel!vars), cut' = cut, disturbed' \in BOOLEAN
    PROVE  SecureChannel!Next
  <1>0. ASSUME [c \in Conns |-> Seen(c)]' = [c \in Conns |-> Seen(c)]
        PROVE  SecureState' = SecureState
    <2>1. ASSUME NEW c \in Conns PROVE Seen(c)' = Seen(c)
      <3>1. /\ [d \in Conns |-> Seen(d)'][c] = Seen(c)'
            /\ [d \in Conns |-> Seen(d)][c] = Seen(c)
        OBVIOUS
      <3> QED
        BY <1>0, <3>1
    <2> QED
      BY <2>1 DEF SecureState
  <1>1. ASSUME NEW c \in Conns, NEW x, SeenState[c] = "serving",
               SeenState' = [SeenState EXCEPT ![c] = x]
        PROVE  SecureState' = [SecureState EXCEPT ![c] = x] /\ SecureState[c] = "serving"
    <2>1. \A d \in Conns : SeenState[d] = Seen(d) /\ SeenState'[d] = Seen(d)'
      BY DEF SeenState
    <2>2. Seen(c) = "serving"
      BY <1>1, <2>1
    <2>3. pc[c] # "left"
      BY <2>2 DEF Seen
    <2>4. DOMAIN SeenState = Conns
      BY DEF SeenState
    <2>5. Seen(c)' = x /\ \A d \in Conns \ {c} : Seen(d)' = Seen(d)
      BY <1>1, <2>1, <2>4
    <2> QED
      BY <2>3, <2>5, StateMoves
  <1>2. ASSUME NEW c \in Conns, Channel!Ask(c) PROVE SecureChannel!Ask(c)
    BY <1>0, <1>2 DEF Channel!Ask, SecureChannel!Ask, SecureState
  <1>3. ASSUME NEW c \in Conns, Channel!HangUp(c) PROVE SecureChannel!HangUp(c)
    BY <1>0, <1>3 DEF Channel!HangUp, SecureChannel!HangUp, SecureState
  <1>4. ASSUME NEW c \in Conns, Channel!Hand(c) PROVE SecureChannel!Hand(c)
    <2>1. SecureState' = SecureState
      BY <1>0, <1>4 DEF Channel!Hand
    <2>2. Seen(c) = "serving"
      BY <1>4 DEF Channel!Hand
    <2>3. SecureState[c] = "serving"
      BY <2>2 DEF Seen, SecureState, CallInv, CallInvOf
    <2> QED
      BY <1>4, <2>1, <2>3 DEF Channel!Hand, SecureChannel!Hand, SecureState
  <1>5. ASSUME NEW c \in Conns, Channel!Refuse(c) PROVE SecureChannel!Refuse(c)
    <2>1. SeenState[c] = "serving" /\ SeenState' = [SeenState EXCEPT ![c] = "refused"]
      BY <1>5 DEF Channel!Refuse, SeenState
    <2>2. SecureState' = [SecureState EXCEPT ![c] = "refused"] /\ SecureState[c] = "serving"
      BY <1>1, <2>1
    <2> QED
      BY <1>5, <2>2 DEF Channel!Refuse, SecureChannel!Refuse, SecureState
  <1>6. ASSUME NEW c \in Conns, Channel!Finish(c) PROVE SecureChannel!Finish(c)
    <2>1. SeenState[c] = "serving" /\ SeenState' = [SeenState EXCEPT ![c] = "over"]
      BY <1>6 DEF Channel!Finish, SeenState
    <2>2. SecureState' = [SecureState EXCEPT ![c] = "over"] /\ SecureState[c] = "serving"
      BY <1>1, <2>1
    <2> QED
      BY <1>6, <2>2 DEF Channel!Finish, SecureChannel!Finish, SecureState
  <1>7. CASE UNCHANGED <<asked, gone, handed, [c \in Conns |-> Seen(c)]>>
    BY <1>0, <1>7 DEF SecureChannel!Next, SecureState
  <1> QED
    BY <1>2, <1>3, <1>4, <1>5, <1>6, <1>7 DEF Channel!Next, Channel!vars, SecureChannel!Next

LEMMA SecureChannelStep ==
    ASSUME SecureInv, NEW c \in Conns, ConnStep(c)
    PROVE  SecureChannel!Next
  <1>0. /\ IndInv /\ FramingTypeOK /\ SecureTypeOK /\ CallInv /\ disturbed' \in BOOLEAN
    BY SecureTypeStep DEF SecureInv, IndInv, SecureTypeOK
  <1>1. CASE Step(c) /\ ~SecureCallFails(c)
    <2>1. cut' = cut
      BY <1>1
      DEF ConnStep, GatewayStep, HostWrite, HostRead, HostHangUp, SecureCall,
          SecureRecv, SecureParse, SecureInProgress, SecureLeave, SecureEncrypt,
          SecureAnswerFails, SecureSend, secureVars
    <2> QED
      BY <1>0, <1>1, <2>1, ChannelStep, Lifts
  <1>2. ASSUME UNCHANGED <<asked, gone, handed>>, SecureState' = SecureState
        PROVE  SecureChannel!Next
    BY <1>0, <1>2 DEF SecureChannel!Next, SecureState
  <1>3. CASE UNCHANGED <<vars, cut>>
    <2>1. UNCHANGED <<asked, gone, handed, pc, remaining_len, cut>>
      BY <1>3 DEF vars, clientVars, bufferVars
    <2>2. SecureState' = SecureState
      BY <2>1 DEF SecureState, Seen
    <2> QED
      BY <1>2, <2>1, <2>2
  <1>4. CASE SecureAnswerFails(c)
    <2>1. /\ UNCHANGED <<asked, gone, handed, remaining_len, cut>>
          /\ pc[c] = "send" /\ pc' = [pc EXCEPT ![c] = "call"]
      BY <1>4 DEF SecureAnswerFails, clientVars, bufferVars, secureVars
    <2>2. ASSUME NEW d \in Conns PROVE Seen(d)' = Seen(d)
      BY <1>0, <2>1 DEF Seen, FramingTypeOK
    <2>3. SecureState' = SecureState
      BY <2>1, <2>2 DEF SecureState
    <2> QED
      BY <1>2, <2>1, <2>3
  <1>5. CASE SecureCallFails(c)
    <2>1. /\ UNCHANGED <<asked, gone, handed, remaining_len>>
          /\ gone[c] = "reset" /\ pc[c] = "call" /\ pc' = [pc EXCEPT ![c] = "left"]
          /\ cut' = [cut EXCEPT ![c] = TRUE]
      BY <1>5 DEF SecureCallFails, GiveUp, clientVars, bufferVars
    <2>2. ~cut[c] /\ Seen(c) = "serving"
      BY <1>0, <2>1 DEF CallInv, CallInvOf, Seen
    <2>3. SecureState[c] = "serving"
      BY <2>2 DEF SecureState
    <2>4. ASSUME NEW d \in Conns, d # c PROVE Seen(d)' = Seen(d) /\ cut'[d] = cut[d]
      BY <1>0, <2>1, <2>4 DEF Seen, FramingTypeOK, SecureTypeOK
    <2>5. cut'[c] = TRUE
      BY <1>0, <2>1 DEF SecureTypeOK
    <2>6. SecureState' = [SecureState EXCEPT ![c] = "over"]
      BY <2>4, <2>5 DEF SecureState
    <2>7. SecureChannel!Finish(c)
      BY <2>1, <2>3, <2>6 DEF SecureChannel!Finish, SecureState
    <2> QED
      BY <1>0, <2>7 DEF SecureChannel!Next
  <1>6. CASE SecureLeave(c) /\ garbled[c] /\ ParseGarbled(c)
    <2>1. /\ UNCHANGED <<asked, gone, handed, remaining_len, cut>>
          /\ pc[c] = "receive" /\ remaining_len[c] > 0 /\ pc' = [pc EXCEPT ![c] = "left"]
      BY <1>6 DEF SecureLeave, ParseGarbled, Parsing, GiveUp, clientVars, bufferVars
    <2>2. disturbed
      <3>1. Live(c)
        BY <2>1 DEF Live, Finished
      <3>2. hipdex
        BY <1>0, <1>6 DEF CallInv, CallInvOf
      <3> QED
        BY <1>6, <3>1, <3>2 DEF SecureInv, InStep, Undisturbed, OrderInv
    <2>3. Seen(c)' = "refused" /\ \A d \in Conns \ {c} : Seen(d)' = Seen(d)
      BY <1>0, <2>1 DEF Seen, FramingTypeOK
    <2>4. SecureState' = [SecureState EXCEPT ![c] = "refused"] /\ SecureState[c] = "serving"
      BY <1>0, <2>1, <2>3, StateMoves
    <2>5. SecureChannel!Refuse(c)
      BY <2>1, <2>2, <2>4 DEF SecureChannel!Refuse, SecureState
    <2> QED
      BY <1>0, <2>5 DEF SecureChannel!Next
  <1>7. \/ Step(c) /\ ~SecureCallFails(c)
        \/ UNCHANGED <<vars, cut>>
        \/ SecureAnswerFails(c) \/ SecureCallFails(c)
        \/ SecureLeave(c) /\ garbled[c] /\ ParseGarbled(c)
    BY DEF ConnStep, GatewayStep, HostWrite, HostRead, HostHangUp, SecureCall, SecureRecv,
           SecureParse, SecureInProgress, SecureLeave, SecureEncrypt, SecureSend, Step, ReceiveStep
  <1> QED
    BY <1>1, <1>3, <1>4, <1>5, <1>6, <1>7

\* In the plain build, and in the HIP-DEX build while the order of the keystreams
\* is not disturbed, no well-formed request is refused, none is handed over twice
\* or out of order, and a client that closes has had all of its requests served.
THEOREM SecureChannelRefined == SecureSpec => ImplementsSecureChannel
  <1>1. SecureInit => SecureChannel!Init
    BY DEF SecureInit, Init, SecureChannel!Init, Seen
  <1>2. SecureInv /\ [SecureNext]_allVars => [SecureChannel!Next]_(SecureChannel!vars)
    <2> SUFFICES ASSUME SecureInv, [SecureNext]_allVars
                 PROVE  [SecureChannel!Next]_(SecureChannel!vars)
      OBVIOUS
    <2>1. CASE \E c \in Conns : ConnStep(c)
      BY <2>1, SecureChannelStep
    <2>2. CASE StoreSA
      <3>1. UNCHANGED <<asked, gone, handed, pc, remaining_len, cut>> /\ disturbed' \in BOOLEAN
        BY <2>2 DEF StoreSA, vars, clientVars, bufferVars
      <3> QED
        BY <3>1 DEF SecureChannel!Next, Seen
    <2>3. CASE UNCHANGED allVars
      BY <2>3 DEF allVars, vars, clientVars, bufferVars, secureVars, SecureChannel!vars, Seen
    <2> QED
      BY <2>1, <2>2, <2>3, SecureKinds
  <1> QED
    BY <1>1, <1>2, SecureInductive, PTL
    DEF SecureSpec, ImplementsSecureChannel, SecureChannel!Spec
=============================================================================
