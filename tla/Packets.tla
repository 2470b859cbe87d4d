------------------------------- MODULE Packets -------------------------------
(***************************************************************************)
(* The packets of the HIP-DEX handshake as bytes: a handler builds an I1,  *)
(* R1, I2 or R2 from parameters, an I2 or R2 gets its MAC last, ToBytes    *)
(* writes lengths, padding and checksum, and at the other end the packet   *)
(* factory takes it apart, a parameter at a time, before the handler there *)
(* checks the MAC.  On the way one byte may be damaged.                    *)
(*                                                                         *)
(* Offsets are those of the code: they start at 0.                         *)
(***************************************************************************)
EXTENDS Integers, Sequences

CONSTANTS Hits,    \* host identity tags, all of the length HitLen
          HitLen,  \* 16 in the code, a multiple of 4 here
          Nonces,  \* values of RandomI and SolutionJ, all of one length
          Datas,   \* values of a host id and of an encrypted key
          Damages, \* what is added to a byte that is damaged
          Cmac(_)  \* the AES-CMAC of a sequence of bytes

Byte == 0..255

\* Far more than a nonce, key, host id or MAC of the code has, and little enough for
\* what is not modelled never to matter: the lengths of a parameter are computed as
\* unsigned short, which would wrap from 65525 on, and a datagram is received into
\* 4096 bytes (the largest packet that these sizes allow has 3640).
MaxData == 512

ASSUME PacketsAssumption ==
    /\ HitLen \in Nat /\ HitLen % 4 = 0 /\ HitLen <= MaxData
    /\ \A h \in Hits : h \in Seq(Byte) /\ Len(h) = HitLen
    /\ \A m, n \in Nonces : m \in Seq(Byte) /\ Len(m) = Len(n)
    /\ Nonces # {} /\ \A d \in Datas : d \in Seq(Byte) /\ d # <<>>
    /\ \A n \in Nonces : Len(n) <= MaxData
    /\ \A d \in Datas : Len(d) <= MaxData
    /\ Damages \subseteq 1..255

\* HipDefines.h
PUZZLE == 257
SOLUTION == 321
HIP_CIPHER == 579
ENCRYPTED_KEY == 643
HOST_ID == 705
HIT_SUITE_LIST == 715
DH_GROUP_LIST == 2151
HIP_MAC_3 == 61507
I1 == 1
R1 == 2
I2 == 3
R2 == 4
IPPROTO_NONE == 59
ALGORITHM_ECDH == 11
DH_GROUP_ECP192 == 11
HDX_SIZE_PARAM_HDR == 4
HDX_SIZE_PACKET_HDR == 8 + 2 * HitLen

VARIABLES phase,    \* of the one packet that is sent and received
          packet,   \* at the sender: a header and parameters
          datagram, \* its bytes
          damaged,  \* has one of them been changed?
          received, \* at the receiver, as far as it has been parsed
          leng,     \* local variable of MHipPacket::FromBytes
          verdict   \* "none", "refused" by the parser, "forged" or "accepted"

packetVars == <<phase, packet, datagram, damaged, received, leng, verdict>>

-----------------------------------------------------------------------------
(* Bytes.                                                                  *)
Hi(n) == (n \div 256) % 256
Lo(n) == n % 256
Word(n) == <<Hi(n), Lo(n)>>
ByteAt(bytes, offset) == bytes[offset + 1]
WordAt(bytes, offset) == ByteAt(bytes, offset) * 256 + ByteAt(bytes, offset + 1)
Slice(bytes, from, to) == SubSeq(bytes, from + 1, to)
Zeros(n) == [i \in 1..n |-> 0]
Joined(pieces) ==
    LET upto[i \in 0..Len(pieces)] == IF i = 0 THEN <<>> ELSE upto[i - 1] \o pieces[i]
    IN  upto[Len(pieces)]
Padded(n) == n + (IF n % 8 > 0 THEN 8 - (n % 8) ELSE 0)

-----------------------------------------------------------------------------
(* Parameters.  The ones that are only a run of bytes have a field data.   *)
NewPuzzle(complexity, lifetime, opaque, randomI) ==
    [type |-> PUZZLE, complexity |-> complexity, lifetime |-> lifetime,
     opaque |-> opaque, randomI |-> randomI]
NewSolution(complexity, opaque, randomI, solutionJ) ==
    [type |-> SOLUTION, complexity |-> complexity, opaque |-> opaque,
     randomI |-> randomI, solutionJ |-> solutionJ]
NewHostId(diType, hostId, domainId) ==
    [type |-> HOST_ID, diType |-> diType % 16, hostId |-> hostId, domainId |-> domainId]
NewData(type, data) == [type |-> type, data |-> data]
NewCipher(cipher) == NewData(HIP_CIPHER, <<cipher>>)
NewEncryptedKey(data) == NewData(ENCRYPTED_KEY, data)
NewHitSuiteList(list) == NewData(HIT_SUITE_LIST, list)
NewDhGroupList(cipher) == NewData(DH_GROUP_LIST, <<cipher>>)
NewMac3(data) == NewData(HIP_MAC_3, data)

PuzzleBytes(p) == <<p.complexity, p.lifetime>> \o Word(p.opaque) \o p.randomI
SolutionBytes(p) == <<p.complexity, 0>> \o Word(p.opaque) \o p.randomI \o p.solutionJ
HostIdBytes(p) ==
    Word(Len(p.hostId))
        \o <<((p.diType * 16) % 256) + (Hi(Len(p.domainId)) % 16), Lo(Len(p.domainId)),
             0, ALGORITHM_ECDH>>
        \o p.hostId \o p.domainId

GetBytes(p) ==
    CASE p.type = PUZZLE -> PuzzleBytes(p)
      [] p.type = SOLUTION -> SolutionBytes(p)
      [] p.type = HOST_ID -> HostIdBytes(p)
      [] OTHER -> p.data

\* Size is the length of GetBytes in every class.
Size(p) == Len(GetBytes(p))
ParamLength(p) == Padded(HDX_SIZE_PARAM_HDR + Size(p))
ParamToBytes(p) ==
    LET header == Word(p.type) \o Word(Size(p))
    IN  header \o GetBytes(p) \o Zeros(ParamLength(p) - HDX_SIZE_PARAM_HDR - Size(p))

\* SetBytes of each class: the parameter, or nothing if it refuses the bytes.
PuzzleFrom(bytes, o, length) ==
    IF length < 4 THEN {}
    ELSE {NewPuzzle(ByteAt(bytes, o), ByteAt(bytes, o + 1), WordAt(bytes, o + 2),
                    Slice(bytes, o + 4, o + length))}

\* Variant: half of the whole parameter, not of what follows the first fields.
SolutionFrom_half(bytes, o, length) ==
    LET half == length \div 2
    IN  IF length < 4 THEN {}
        ELSE {NewSolution(ByteAt(bytes, o), WordAt(bytes, o + 2),
                          Slice(bytes, o + 4, o + 4 + half),
                          Slice(bytes, o + 4 + half, o + length))}

\* RandomI and SolutionJ have one length, which is not sent.
SolutionFrom(bytes, o, length) ==
    LET half == (length - 4) \div 2
    IN  IF length < 4 THEN {}
        ELSE {NewSolution(ByteAt(bytes, o), WordAt(bytes, o + 2),
                          Slice(bytes, o + 4, o + 4 + half),
                          Slice(bytes, o + 4 + half, o + length))}

\* The type of the domain id is read from byte 2 of the packet, not of the
\* parameter: that is the type of the packet, and gives tNone.
HostIdFrom(bytes, o, length) ==
    LET hiLen == WordAt(bytes, o)
        diLen == (ByteAt(bytes, o + 2) % 16) * 256 + ByteAt(bytes, o + 3)
    IN  IF Len(bytes) - o < 6 \/ 6 + hiLen + diLen > Len(bytes) \/ WordAt(bytes, o + 4) # ALGORITHM_ECDH THEN {}
        ELSE {NewHostId(ByteAt(bytes, 2) \div 16, Slice(bytes, o + 6, o + 6 + hiLen),
                        Slice(bytes, o + 6 + hiLen, o + length))}

CipherFrom(bytes, o, length) ==
    IF length # 1 THEN {} ELSE {NewCipher(ByteAt(bytes, o))}
HitSuiteListFrom(bytes, o, length) ==
    IF length # 1 THEN {} ELSE {NewHitSuiteList(Slice(bytes, o, o + length))}
EncryptedKeyFrom(bytes, o, length) ==
    IF Len(bytes) < length + o THEN {} ELSE {NewEncryptedKey(Slice(bytes, o, o + length))}
Mac3From(bytes, o, length) ==
    IF Len(bytes) < o + length THEN {} ELSE {NewMac3(Slice(bytes, o, o + length))}
DhGroupListFrom(bytes, o, length) == {NewData(DH_GROUP_LIST, Slice(bytes, o, o + length))}

SetBytes(type, bytes, o, length) ==
    CASE type = PUZZLE -> PuzzleFrom(bytes, o, length)
      [] type = SOLUTION -> SolutionFrom(bytes, o, length)
      [] type = HOST_ID -> HostIdFrom(bytes, o, length)
      [] type = HIP_CIPHER -> CipherFrom(bytes, o, length)
      [] type = HIT_SUITE_LIST -> HitSuiteListFrom(bytes, o, length)
      [] type = ENCRYPTED_KEY -> EncryptedKeyFrom(bytes, o, length)
      [] type = DH_GROUP_LIST -> DhGroupListFrom(bytes, o, length)
      [] type = HIP_MAC_3 -> Mac3From(bytes, o, length)

\* CHipParamFactory::Create and MHipParameter::FromBytes, at this offset.
KnownTypes == {PUZZLE, SOLUTION, HIP_CIPHER, ENCRYPTED_KEY, HOST_ID, HIT_SUITE_LIST,
               DH_GROUP_LIST, HIP_MAC_3}

ParamFromBytes(bytes, offset) ==
    IF Len(bytes) - offset < HDX_SIZE_PARAM_HDR THEN {}
    ELSE LET type == WordAt(bytes, offset)
             size == WordAt(bytes, offset + 2)
         IN  IF type \notin KnownTypes
                \/ Padded(size + HDX_SIZE_PARAM_HDR) > Len(bytes) - offset THEN {}
             ELSE SetBytes(type, bytes, offset + HDX_SIZE_PARAM_HDR, size)

-----------------------------------------------------------------------------
(* Packets.                                                                *)
NewPacket(type, sender, receiver, params) ==
    [type |-> type, nextHdr |-> IPPROTO_NONE, version |-> 2, ctrls |-> 0,
     sender |-> sender, receiver |-> receiver, params |-> params]

ParamsOf(p) == [i \in DOMAIN p.params |-> ParamToBytes(p.params[i])]

HeaderBytes(p, length, checksum) ==
    <<p.nextHdr, ((length - 8) \div 8) % 256, p.type % 128, ((p.version * 16) % 256) + 1>>
        \o Word(checksum) \o Word(p.ctrls) \o p.sender \o p.receiver

\* The sum of the 16-bit words, and its carries added in; in the code it has
\* 32 bits, enough for any datagram.
Weight(i) == IF i % 2 = 1 THEN 256 ELSE 1
WordSum(bytes) ==
    LET sum[i \in 0..Len(bytes)] == IF i = 0 THEN 0 ELSE sum[i - 1] + bytes[i] * Weight(i)
    IN  sum[Len(bytes)]
Folded[n \in Nat] == IF n < 65536 THEN n ELSE Folded[(n % 65536) + (n \div 65536)]

\* Variant: the header is left out.
CalcChecksum_params(bytes) ==
    65535 - Folded[WordSum(Slice(bytes, HDX_SIZE_PACKET_HDR, Len(bytes)))]

CalcChecksum(bytes) == 65535 - Folded[WordSum(bytes)]

ToBytes(p) ==
    LET body == Joined(ParamsOf(p))
        length == HDX_SIZE_PACKET_HDR + Len(body)
        unsigned == HeaderBytes(p, length, 0) \o body
    IN  HeaderBytes(p, length, CalcChecksum(unsigned)) \o body

\* Over the header and the parameters before the MAC, each written anew.
CalculateCmac(p) ==
    LET signed == [i \in DOMAIN p.params |->
                     IF p.params[i].type < HIP_MAC_3 THEN ParamToBytes(p.params[i]) ELSE <<>>]
        body == Joined(signed)
    IN  Cmac(HeaderBytes(p, Len(body), 0) \o body)

\* GetParameter: the first of its type.
VerifyCmac(p) ==
    \E i \in DOMAIN p.params :
        /\ p.params[i].type = HIP_MAC_3
        /\ \A j \in 1..i - 1 : p.params[j].type # HIP_MAC_3
        /\ CalculateCmac(p) = p.params[i].data

-----------------------------------------------------------------------------
(* The constructors of the packets put the parameters in order ...         *)
NewI1(s, r, dhGroupList) == NewPacket(I1, s, r, <<dhGroupList>>)
NewR1(s, r, puzzle, cipher, hostId, hitList, dhGroupList) ==
    NewPacket(R1, s, r, <<puzzle, cipher, hostId, hitList, dhGroupList>>)
NewI2(s, r, solution, cipher, eKey, hostId) ==
    NewPacket(I2, s, r, <<solution, cipher, eKey, hostId>>)
NewR2(s, r, eKey, list) == NewPacket(R2, s, r, <<eKey, list>>)

(* ... and the daemon and its handlers fill them in.                       *)
I1s(s, r) == {NewI1(s, r, NewDhGroupList(DH_GROUP_ECP192))}
R1s(s, r) ==
    {NewR1(s, r, NewPuzzle(8, 40, 0, i), NewCipher(2), NewHostId(0, d, <<>>),
           NewHitSuiteList(<<8>>), NewDhGroupList(DH_GROUP_ECP192)) : i \in Nonces, d \in Datas}
I2s(s, r) ==
    {NewI2(s, r, NewSolution(8, 0, i, j), NewCipher(2), NewEncryptedKey(e), NewHostId(0, d, <<>>)) :
        i \in Nonces, j \in Nonces, e \in Datas, d \in Datas}
R2s(s, r) == {NewR2(s, r, NewEncryptedKey(e), NewDhGroupList(DH_GROUP_ECP192)) : e \in Datas}

NewPackets ==
    {p \in UNION {I1s(s, r) \cup R1s(s, r) \cup I2s(s, r) \cup R2s(s, r) : s \in Hits, r \in Hits} :
        p.sender # p.receiver}

Authentic == {I2, R2}

\* A MAC is a sequence of bytes, and not longer than the other fields.
ASSUME CmacAssumption ==
    \A p \in NewPackets : p.type \in Authentic =>
        CalculateCmac(p) \in Seq(Byte) /\ Len(CalculateCmac(p)) <= MaxData

PacketInit ==
    /\ packet \in NewPackets
    /\ phase = IF packet.type \in Authentic THEN "mac" ELSE "send"
    /\ datagram = <<>>
    /\ damaged = FALSE
    /\ received = packet
    /\ leng = 0
    /\ verdict = "none"

\* The MAC is calculated before it is added.
AddMac ==
    /\ phase = "mac"
    /\ packet' = [packet EXCEPT
         !.params = Append(@, NewMac3(CalculateCmac(packet)))]
    /\ phase' = "send"
    /\ UNCHANGED <<datagram, damaged, received, leng, verdict>>

Send ==
    /\ phase = "send"
    /\ datagram' = ToBytes(packet)
    /\ phase' = "wire"
    /\ UNCHANGED <<packet, damaged, received, leng, verdict>>

DamageByte ==
    /\ phase = "wire"
    /\ ~damaged
    /\ \E i \in DOMAIN datagram, d \in Damages :
        datagram' = [datagram EXCEPT ![i] = (@ + d) % 256]
    /\ damaged' = TRUE
    /\ UNCHANGED <<phase, packet, received, leng, verdict>>

Refuse == phase' = "done" /\ verdict' = "refused"

\* CHipPacketFactory::Create, and MHipPacket::FromBytes up to its loop; the
\* checksum is calculated with its own bytes cleared.
ReadHeader ==
    /\ phase = "wire"
    /\ LET cleared == [datagram EXCEPT ![5] = 0, ![6] = 0]
           type == ByteAt(datagram, 2) % 128
       IN  IF \/ Len(datagram) < HDX_SIZE_PACKET_HDR
              \/ type \notin {I1, R1, I2, R2}
              \/ WordAt(datagram, 4) # CalcChecksum(cleared)
           THEN Refuse /\ UNCHANGED <<datagram, received, leng>>
           ELSE /\ datagram' = cleared
                /\ received' = [type |-> type, nextHdr |-> ByteAt(datagram, 0),
                       version |-> ByteAt(datagram, 3) \div 16, ctrls |-> WordAt(datagram, 6),
                       sender |-> Slice(datagram, 8, 8 + HitLen),
                       receiver |-> Slice(datagram, 8 + HitLen, 8 + 2 * HitLen),
                       params |-> <<>>]
                /\ leng' = HDX_SIZE_PACKET_HDR
                /\ phase' = "params"
                /\ UNCHANGED verdict
    /\ UNCHANGED <<packet, damaged>>

ReadParam ==
    /\ phase = "params"
    /\ Len(datagram) - leng # 0
    /\ \/ /\ ParamFromBytes(datagram, leng) = {}
          /\ Refuse
          /\ UNCHANGED <<received, leng>>
       \/ \E p \in ParamFromBytes(datagram, leng) :
          /\ received' = [received EXCEPT !.params = Append(@, p)]
          /\ leng' = leng + ParamLength(p)
          /\ UNCHANGED <<phase, verdict>>
    /\ UNCHANGED <<packet, datagram, damaged>>

\* The handlers of I2 and R2 return at once if the MAC is not right.
Verify ==
    /\ phase = "params"
    /\ Len(datagram) - leng = 0
    /\ phase' = "done"
    /\ verdict' = IF received.type \in Authentic /\ ~VerifyCmac(received) THEN "forged" ELSE "accepted"
    /\ UNCHANGED <<packet, datagram, damaged, received, leng>>

PacketNext == AddMac \/ Send \/ DamageByte \/ ReadHeader \/ ReadParam \/ Verify

PacketSpec == PacketInit /\ [][PacketNext]_packetVars

-----------------------------------------------------------------------------
\* What one handler builds the other gets: lengths and padding agree, every
\* parameter is read back, and the MAC is found right although it was taken
\* before it was part of the packet.
ReceivedAsSent == phase = "done" /\ ~damaged => verdict = "accepted" /\ received = packet

\* A packet with a damaged byte is refused before any parameter of it is used,
\* by the checksum: R1 has nothing else to protect it.
DamageRefused == damaged /\ phase \in {"params", "done"} => verdict = "refused"
=============================================================================
