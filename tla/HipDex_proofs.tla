---------------------------- MODULE HipDex_proofs ----------------------------
(***************************************************************************)
(* Proofs about HipDex, for any hosts, callers and bounds: types, that     *)
(* exchanges of the two directions do not mix, that no packet is refused   *)
(* while none is damaged, and that the two ends of an SA agree.            *)
(***************************************************************************)
EXTENDS HipDex, TLAPS

R1Sent(h, p) == \E m \in net : m.type = "R1" /\ m.from = h /\ m.to = p

Drawn(s, h) == s \in Secret /\ s[1] = h /\ s[2] <= drawn[h]

\* An SA: who initiated, that the responder had sent an R1, whose the secrets are.
EntryOK(e) ==
    /\ e.host # e.peer
    /\ e.i \in {<<e.host, e.peer>>, <<e.peer, e.host>>}
    /\ R1Sent(e.i[2], e.i[1])
    /\ Drawn(e.x, e.i[1])
    /\ Drawn(e.y, e.i[2])

\* What a packet tells about its sender, and what is in it.
I2OK(m) ==
    LET k == ExchangeKeys(m.from, m.to, <<m.from, m.to>>).local
    IN  /\ R1Sent(m.to, m.from)
        /\ Drawn(m.key.s, m.from)
        /\ damaged = 0 =>
            /\ m.i = <<m.from, m.to>>
            /\ m.j = SolveR(m.i, m.from, m.to)
            /\ m.key.k = k /\ m.mac = k /\ m.key.echo = m.i

R2OK(m) ==
    LET k == ExchangeKeys(m.from, m.to, <<m.to, m.from>>).local
    IN  /\ m.key.echo = <<m.to, m.from>>
        /\ \E f \in keyed : /\ f.host = m.from /\ f.peer = m.to
                            /\ f.i = <<m.to, m.from>> /\ f.y = m.key.s
        /\ damaged = 0 => m.key.k = k /\ m.mac = k

PacketOK(m) ==
    /\ m.from # m.to
    /\ m.type = "I1" => conn[m.from][m.to].dh
    /\ m.type = "R1" => /\ m.i \in {<<m.to, m.from>>, NoPuzzle}
                        /\ damaged = 0 => m.i = <<m.to, m.from>>
    /\ m.type = "I2" => I2OK(m)
    /\ m.type = "R2" => R2OK(m)

InitiatorState == {"I1Sent", "I2Sent", "Established"}

\* A host that waits for an R2 has what it needs to check it.
AwaitsR2(h, p, c) ==
    /\ Drawn(c.x, h)
    /\ c.puzzle \in {<<h, p>>, NoPuzzle}
    /\ damaged = 0 => c.puzzle = <<h, p>>
    /\ c.keys = ExchangeKeys(h, p, c.puzzle)

\* dh records that h has initiated with p.
ConnOK(h, p, c) ==
    /\ c.state \in InitiatorState => c.dh
    /\ c.dh => c.state \in InitiatorState \/ R1Sent(h, p)
    /\ c.state = "I2Sent" => AwaitsR2(h, p, c)

\* Who has been answered has initiated, and has never answered.
DirectionOK(h, p) == R1Sent(h, p) => conn[p][h].dh /\ ~R1Sent(p, h)

SaOK(h, p) ==
    sa[h][p] # NoSA =>
        \E e \in keyed : /\ e.host = h /\ e.peer = p
                         /\ sa[h][p] = SessionKeys(h, p, e.i, e.x, e.y)

IInv ==
    /\ TypeOK
    /\ \A m \in net : PacketOK(m)
    /\ \A h, p \in Hosts : ConnOK(h, p, conn[h][p]) /\ DirectionOK(h, p)
    /\ \A h, p \in Hosts : SaOK(h, p)
    /\ \A e \in keyed : EntryOK(e)
    /\ InitiatorHasPeer

-----------------------------------------------------------------------------
\* Derived keys are keys, and what is one end's local half is the other's remote.
LEMMA KeysTyped ==
    ASSUME NEW h \in Hosts, NEW p \in Hosts
    PROVE  /\ \A i \in Puzzle \cup {NoPuzzle} : ExchangeKeys(h, p, i) \in Keys
           /\ \A i \in Puzzle, x \in Secret, y \in Secret :
                SessionKeys(h, p, i, x, y) \in Keys
  <1>1. ASSUME NEW i \in Puzzle \cup {NoPuzzle},
               NEW input \in {<<{a, b}>> : a, b \in Hosts} \cup (Secret \X Secret) \cup {<<>>}
        PROVE  DeriveKeys(p, h, i, input) \in Keys
    BY DEF DeriveKeys, Keys, Key
  <1>2. ECDH(h, p) \in {<<{a, b}>> : a, b \in Hosts}
    BY DEF ECDH
  <1> QED
    BY <1>1, <1>2 DEF ExchangeKeys, SessionKeys

LEMMA Halves ==
    ASSUME NEW h \in Hosts, NEW p \in Hosts, h # p, NEW i, NEW x, NEW y
    PROVE  /\ ExchangeKeys(h, p, i).local = ExchangeKeys(p, h, i).remote
           /\ ExchangeKeys(h, p, i).remote = ExchangeKeys(p, h, i).local
           /\ SessionKeys(h, p, i, x, y).local = SessionKeys(p, h, i, x, y).remote
           /\ SessionKeys(h, p, i, x, y).remote = SessionKeys(p, h, i, x, y).local
  <1>1. (h > p) = ~(p > h) /\ (p > h) = ~(h > p)
    BY HipDexAssumption
  <1>2. {h, p} = {p, h}
    OBVIOUS
  <1>3. ECDH(h, p) = ECDH(p, h)
    BY <1>2 DEF ECDH
  <1>4. ASSUME NEW input
        PROVE  /\ DeriveKeys(p, h, i, input).local = DeriveKeys(h, p, i, input).remote
               /\ DeriveKeys(p, h, i, input).remote = DeriveKeys(h, p, i, input).local
    BY <1>1, <1>2 DEF DeriveKeys
  <1> QED
    BY <1>3, <1>4 DEF ExchangeKeys, SessionKeys

\* The fields of a packet of a kind.
LEMMA PacketFields ==
    ASSUME NEW m \in Packet
    PROVE  /\ m.from \in Hosts /\ m.to \in Hosts
           /\ m.type = "R1" => m \in [type : {"R1"}, from : Hosts, to : Hosts,
                                     i : Puzzle \cup {NoPuzzle}]
           /\ m.type = "I2" => m \in [type : {"I2"}, from : Hosts, to : Hosts,
                                     i : Puzzle \cup {NoPuzzle},
                                     j : [i : Puzzle \cup {NoPuzzle}, hits : Hosts \X Hosts],
                                     key : Cipher, mac : Key]
           /\ m.type = "R2" => m \in [type : {"R2"}, from : Hosts, to : Hosts,
                                     key : Cipher, mac : Key]
  BY DEF Packet

\* What Handle does to the table of connections.
LEMMA HandleEffect ==
    ASSUME TypeOK, NEW m, NEW type \in {"I1", "R1", "I2", "R2"}, NEW c \in Connection,
           Handle(m, type, c)
    PROVE  /\ m \in net /\ m.type = type /\ m.from \in Hosts /\ m.to \in Hosts
           /\ conn[m.to][m.from].state \in AllowedStates(type)
           /\ [c EXCEPT !.state = NextState(type)] \in Connection
           /\ conn' \in [Hosts -> [Hosts -> Connection]]
           /\ conn'[m.to][m.from] = [c EXCEPT !.state = NextState(type)]
           /\ \A h, p \in Hosts :
                ~(h = m.to /\ p = m.from) => conn'[h][p] = conn[h][p]
           /\ pc' = pc /\ count' = count /\ calls' = calls /\ damaged' = damaged
  <1>1. m \in net /\ m.type = type /\ m.from \in Hosts /\ m.to \in Hosts
    BY PacketFields DEF Handle, TypeOK
  <1>2. [c EXCEPT !.state = NextState(type)] \in Connection
    BY DEF Connection, NextState, State
  <1>3. conn' = [conn EXCEPT ![m.to][m.from] = [c EXCEPT !.state = NextState(type)]]
    BY DEF Handle
  <1>4. conn \in [Hosts -> [Hosts -> Connection]]
    BY DEF TypeOK
  <1>5. /\ conn' \in [Hosts -> [Hosts -> Connection]]
        /\ conn'[m.to][m.from] = [c EXCEPT !.state = NextState(type)]
        /\ \A h, p \in Hosts :
                ~(h = m.to /\ p = m.from) => conn'[h][p] = conn[h][p]
    BY <1>1, <1>2, <1>3, <1>4
  <1> QED
    BY <1>1, <1>2, <1>5 DEF Handle

\* The state of one connection is all a step changes of the table, dh is never
\* taken back, and what has been sent, stored, drawn or damaged stays so.
Grows ==
    /\ net \subseteq net' /\ keyed \subseteq keyed'
    /\ \A h \in Hosts : drawn[h] <= drawn'[h]
    /\ damaged' = 0 => damaged = 0
    /\ \A h, p \in Hosts : conn[h][p].dh => conn'[h][p].dh

\* What is known of a packet or an SA stays true.
LEMMA Persist ==
    ASSUME TypeOK, TypeOK', Grows
    PROVE  /\ \A h, p \in Hosts : R1Sent(h, p) => R1Sent(h, p)'
           /\ \A h \in Hosts : \A s : Drawn(s, h) => Drawn(s, h)'
           /\ \A m \in net : PacketOK(m) => PacketOK(m)'
           /\ \A e \in keyed : EntryOK(e) => EntryOK(e)'
  <1>1. ASSUME NEW h \in Hosts, NEW p \in Hosts, R1Sent(h, p) PROVE R1Sent(h, p)'
    BY <1>1 DEF R1Sent, Grows
  <1>2. ASSUME NEW h \in Hosts, NEW s, Drawn(s, h) PROVE Drawn(s, h)'
    BY <1>2 DEF Drawn, Grows, TypeOK, Secret
  <1>3. ASSUME NEW m \in net, PacketOK(m) PROVE PacketOK(m)'
    <2>1. m.from \in Hosts /\ m.to \in Hosts
      BY PacketFields DEF TypeOK
    <2>2. m.type = "I1" => conn'[m.from][m.to].dh
      BY <1>3, <2>1 DEF PacketOK, Grows
    <2>3. ASSUME m.type = "I2" PROVE I2OK(m)'
      <3>1. I2OK(m)
        BY <1>3, <2>3 DEF PacketOK
      <3>2. R1Sent(m.to, m.from)' /\ Drawn(m.key.s, m.from)'
        BY <1>1, <1>2, <2>1, <3>1 DEF I2OK
      <3> QED
        BY <3>1, <3>2 DEF I2OK, Grows
    <2>4. ASSUME m.type = "R2" PROVE R2OK(m)'
      <3>1. R2OK(m)
        BY <1>3, <2>4 DEF PacketOK
      <3> QED
        BY <3>1 DEF R2OK, Grows
    <2>5. m.type = "R1" => /\ m.i \in {<<m.to, m.from>>, NoPuzzle}
                           /\ damaged' = 0 => m.i = <<m.to, m.from>>
      BY <1>3 DEF PacketOK, Grows
    <2> QED
      BY <1>3, <2>2, <2>3, <2>4, <2>5 DEF PacketOK
  <1>4. ASSUME NEW e \in keyed, EntryOK(e) PROVE EntryOK(e)'
    <2>1. e.i[1] \in Hosts /\ e.i[2] \in Hosts
      BY DEF TypeOK, Puzzle
    <2> QED
      BY <1>1, <1>2, <1>4, <2>1 DEF EntryOK
  <1> QED
    BY <1>1, <1>2, <1>3, <1>4

\* If a step leaves a connection as it is, what is known of it stays true.
LEMMA ConnPersists ==
    ASSUME TypeOK, TypeOK', Grows, NEW h \in Hosts, NEW p \in Hosts,
           ConnOK(h, p, conn[h][p])
    PROVE  ConnOK(h, p, conn[h][p])'  \/ conn'[h][p] # conn[h][p]
  <1> SUFFICES ASSUME conn'[h][p] = conn[h][p] PROVE ConnOK(h, p, conn[h][p])'
    OBVIOUS
  <1> DEFINE c == conn[h][p]
  <1>1. R1Sent(h, p) => R1Sent(h, p)'
    BY Persist
  <1>2. AwaitsR2(h, p, c) => AwaitsR2(h, p, c)'
    <2>1. Drawn(c.x, h) => Drawn(c.x, h)'
      BY Persist
    <2> QED
      BY <2>1 DEF AwaitsR2, Grows
  <1> QED
    BY <1>1, <1>2 DEF ConnOK

\* No R1 is sent: whose turn it was stays the same.
LEMMA DirectionPersists ==
    ASSUME IInv, Grows, \A m \in net' : m.type = "R1" =>
                            \E n \in net : n.type = "R1" /\ n.from = m.from /\ n.to = m.to
    PROVE  \A h, p \in Hosts : DirectionOK(h, p)'
  <1> SUFFICES ASSUME NEW h \in Hosts, NEW p \in Hosts, R1Sent(h, p)'
               PROVE  conn'[p][h].dh /\ ~R1Sent(p, h)'
    BY DEF DirectionOK
  <1>1. R1Sent(h, p) /\ (R1Sent(p, h)' => R1Sent(p, h))
    BY DEF R1Sent
  <1>2. conn[p][h].dh /\ ~R1Sent(p, h)
    BY <1>1 DEF IInv, DirectionOK
  <1> QED
    BY <1>1, <1>2 DEF Grows

\* An SA that is not replaced is still one that has been stored.
LEMMA SaPersists ==
    ASSUME IInv, Grows, NEW h \in Hosts, NEW p \in Hosts,
           sa'[h][p] = sa[h][p] \/ sa'[h][p] = NoSA
    PROVE  SaOK(h, p)'
  <1>1. SaOK(h, p)
    BY DEF IInv
  <1>2. CASE sa'[h][p] = sa[h][p]
    BY <1>1, <1>2 DEF SaOK, Grows
  <1>3. CASE sa'[h][p] = NoSA
    <2>1. NoSA' = NoSA
      BY DEF NoSA, NoKeys, NoKey, NoPuzzle
    <2> QED
      BY <1>3, <2>1 DEF SaOK
  <1> QED
    BY <1>2, <1>3

\* What is left to show of a step: types, the new packets and SAs, and the
\* connection that has changed.
LEMMA Combine ==
    ASSUME IInv, TypeOK', Grows,
           \A m \in net' : m \notin net => PacketOK(m)',
           \A h, p \in Hosts : conn'[h][p] # conn[h][p] => ConnOK(h, p, conn[h][p])',
           \A h, p \in Hosts : DirectionOK(h, p)',
           \A h, p \in Hosts : SaOK(h, p)',
           \A e \in keyed' : e \notin keyed =>
                /\ EntryOK(e)'
                /\ e.i[1] = e.host => \E f \in keyed' : /\ f.host = e.peer /\ f.peer = e.host
                                                        /\ f.i = e.i /\ f.y = e.y
    PROVE  IInv'
  <1>1. \A m \in net' : PacketOK(m)'
    BY Persist DEF IInv
  <1>2. \A h, p \in Hosts : ConnOK(h, p, conn[h][p])'
    BY ConnPersists DEF IInv
  <1>3. \A e \in keyed' : EntryOK(e)'
    BY Persist DEF IInv
  <1>4. InitiatorHasPeer'
    <2> SUFFICES ASSUME NEW e \in keyed', e.i[1] = e.host
                 PROVE  \E f \in keyed' : /\ f.host = e.peer /\ f.peer = e.host
                                          /\ f.i = e.i /\ f.y = e.y
      BY DEF InitiatorHasPeer
    <2>1. CASE e \in keyed
      BY <2>1 DEF IInv, InitiatorHasPeer, Grows
    <2> QED
      BY <2>1
  <1> QED
    BY <1>1, <1>2, <1>3, <1>4 DEF IInv

\* Initiate marks the connection: the caller is then an initiator.
LEMMA Marked ==
    ASSUME IInv, NEW h0 \in Hosts, NEW p0 \in Hosts, Mark(h0, p0)
    PROVE  /\ conn' \in [Hosts -> [Hosts -> Connection]]
           /\ conn'[h0][p0].dh
           /\ \A h, p \in Hosts : conn[h][p].dh => conn'[h][p].dh
           /\ \A h, p \in Hosts : conn'[h][p] # conn[h][p] => ConnOK(h, p, conn[h][p])'
  <1> DEFINE d == [conn[h0][p0] EXCEPT !.state = "I1Sent", !.dh = TRUE]
  <1>1. conn \in [Hosts -> [Hosts -> Connection]]
    BY DEF IInv, TypeOK
  <1>2. d \in Connection /\ d.dh /\ d.state = "I1Sent"
    <2>1. \A c \in Connection :
            LET e == [c EXCEPT !.state = "I1Sent", !.dh = TRUE]
            IN  e \in Connection /\ e.dh = TRUE /\ e.state = "I1Sent"
      BY DEF Connection, State
    <2>2. conn[h0][p0] \in Connection
      BY <1>1
    <2> QED
      BY <2>1, <2>2
  <1>3. conn' = [conn EXCEPT ![h0][p0] = d]
    BY DEF Mark
  <1> HIDE DEF d
  <1>4. /\ conn' \in [Hosts -> [Hosts -> Connection]]
        /\ \A h, p \in Hosts : conn'[h][p] = IF h = h0 /\ p = p0 THEN d ELSE conn[h][p]
    BY <1>1, <1>2, <1>3
  <1>5. ConnOK(h0, p0, conn[h0][p0])'
    BY <1>2, <1>4 DEF ConnOK, InitiatorState
  <1> QED
    BY <1>2, <1>4, <1>5

\* The hosts of a call are two hosts.
LEMMA Callers == ASSUME NEW c \in Calls PROVE c[1] \in Hosts /\ c[2] \in Hosts /\ c[1] # c[2]
  BY HipDexAssumption

\* A try of HIPDEX_Initiate: a mark and an I1.
LEMMA TryStep ==
    ASSUME IInv, NEW c \in Calls, FirstTry(c) \/ Timeout(c)
    PROVE  IInv'
  <1> DEFINE m0 == [type |-> "I1", from |-> c[1], to |-> c[2]]
  <1>1. /\ Mark(c[1], c[2])
        /\ net' = net \cup {m0}
        /\ UNCHANGED <<sa, drawn, keyed, calls, damaged>>
    BY DEF FirstTry, Timeout, Initiate, Send
  <1>2. pc' \in [Calls -> {"idle", "initiate", "poll"}] /\ count' \in [Calls -> 0..(MaxCount + 1)]
    BY HipDexAssumption DEF FirstTry, Timeout, IInv, TypeOK
  <1>3. m0 \in Packet
    BY <1>1, Callers, Marked DEF Packet
  <1>4. TypeOK'
    BY <1>1, <1>2, <1>3, Callers, Marked DEF IInv, TypeOK
  <1>5. Grows
    BY <1>1, Callers, Marked DEF Grows, IInv, TypeOK
  <1>6. PacketOK(m0)'
    BY <1>1, Callers, Marked DEF PacketOK
  <1>7. \A h, p \in Hosts : DirectionOK(h, p)'
    BY <1>1, <1>5, DirectionPersists
  <1>8. \A h, p \in Hosts : SaOK(h, p)'
    BY <1>1, <1>5, SaPersists
  <1> QED
    BY <1>1, <1>4, <1>5, <1>6, <1>7, <1>8, Callers, Marked, Combine

\* A try that fails leaves at most the mark.
LEMMA FailStep ==
    ASSUME IInv, NEW c \in Calls, InitiateFails(c)
    PROVE  IInv'
  <1>1. UNCHANGED <<net, sa, drawn, keyed, count, calls, damaged>>
    BY DEF InitiateFails
  <1>2. /\ conn' \in [Hosts -> [Hosts -> Connection]]
        /\ \A h, p \in Hosts : conn[h][p].dh => conn'[h][p].dh
        /\ \A h, p \in Hosts : conn'[h][p] # conn[h][p] => ConnOK(h, p, conn[h][p])'
    <2>1. CASE UNCHANGED conn
      BY <2>1 DEF IInv, TypeOK
    <2>2. CASE Mark(c[1], c[2])
      BY <2>2, Callers, Marked
    <2> QED
      BY <2>1, <2>2 DEF InitiateFails
  <1>3. TypeOK'
    BY <1>1, <1>2 DEF InitiateFails, IInv, TypeOK
  <1>4. Grows
    BY <1>1, <1>2 DEF Grows, IInv, TypeOK
  <1>5. \A h, p \in Hosts : DirectionOK(h, p)'
    BY <1>1, <1>4, DirectionPersists
  <1>6. \A h, p \in Hosts : SaOK(h, p)'
    BY <1>1, <1>4, SaPersists
  <1> QED
    BY <1>1, <1>2, <1>3, <1>4, <1>5, <1>6, Combine

\* The other steps of applications at most remove an SA.
LEMMA LocalStep ==
    ASSUME IInv,
           \/ \E c \in Calls : Call(c) \/ GiveUp(c) \/ Succeed(c)
           \/ \E h, p \in Hosts : AppRemoves(h, p)
    PROVE  IInv'
  <1>1. UNCHANGED <<net, conn, drawn, keyed, damaged>>
    BY DEF Call, GiveUp, Succeed, AppRemoves
  <1>2. /\ sa' \in [Hosts -> [Hosts -> Keys]]
        /\ \A h, p \in Hosts : sa'[h][p] = sa[h][p] \/ sa'[h][p] = NoSA
    <2>1. NoSA \in Keys
      BY DEF NoSA, NoKeys, NoKey, Keys, Key
    <2>2. ASSUME NEW h \in Hosts, NEW p \in Hosts, RemoveSA(h, p)
          PROVE  <1>2!1 /\ <1>2!2
      BY <2>1, <2>2 DEF RemoveSA, IInv, TypeOK
    <2>3. ASSUME sa' = sa PROVE <1>2!1 /\ <1>2!2
      BY <2>3 DEF IInv, TypeOK
    <2>4. ASSUME NEW c \in Calls, Call(c) PROVE <1>2!1 /\ <1>2!2
      BY <2>2, <2>4, HipDexAssumption DEF Call
    <2> QED
      BY <2>2, <2>3, <2>4 DEF GiveUp, Succeed, AppRemoves
  <1>3. /\ pc' \in [Calls -> {"idle", "initiate", "poll"}]
        /\ count' \in [Calls -> 0..(MaxCount + 1)]
        /\ calls' \in 0..MaxCalls
    BY HipDexAssumption DEF Call, GiveUp, Succeed, AppRemoves, IInv, TypeOK
  <1>4. TypeOK'
    BY <1>1, <1>2, <1>3 DEF IInv, TypeOK
  <1>5. Grows
    BY <1>1 DEF Grows, IInv, TypeOK
  <1>6. \A h, p \in Hosts : DirectionOK(h, p)'
    BY <1>1, <1>5, DirectionPersists
  <1>7. \A h, p \in Hosts : SaOK(h, p)'
    BY <1>2, <1>5, SaPersists
  <1> QED
    BY <1>1, <1>4, <1>5, <1>6, <1>7, Combine

\* The states a handler is allowed in, and the one it ends in, by type.
LEMMA States ==
    /\ AllowedStates("I1") = {"Unassociated", "R2Sent"}
    /\ AllowedStates("R1") = {"I1Sent"}
    /\ AllowedStates("R2") = {"I2Sent"}
    /\ NextState("I1") = "Unassociated" /\ NextState("R1") = "I2Sent"
    /\ NextState("I2") = "R2Sent" /\ NextState("R2") = "Established"
  BY DEF AllowedStates, NextState

\* A handler that keeps dh, sends packets m2 at most and stores SAs at most.
LEMMA HandlerStep ==
    ASSUME IInv, TypeOK', NEW m, NEW type \in {"I1", "R1", "I2", "R2"}, NEW c \in Connection,
           Handle(m, type, c),
           c.dh = conn[m.to][m.from].dh,
           net \subseteq net', keyed \subseteq keyed',
           drawn' = drawn \/ (\E h \in Hosts : Draw(h)),
           ConnOK(m.to, m.from, [c EXCEPT !.state = NextState(type)])'
    PROVE  /\ Grows
           /\ \A h, p \in Hosts : conn'[h][p] # conn[h][p] => ConnOK(h, p, conn[h][p])'
  <1> DEFINE d == [c EXCEPT !.state = NextState(type)]
  <1>1. TypeOK
    BY DEF IInv
  <1>2. d.dh = c.dh
    BY DEF Connection
  <1>3. /\ m.from \in Hosts /\ m.to \in Hosts
        /\ conn'[m.to][m.from] = d
        /\ \A h, p \in Hosts : ~(h = m.to /\ p = m.from) => conn'[h][p] = conn[h][p]
        /\ damaged' = damaged
    BY <1>1, HandleEffect
  <1>4. \A h \in Hosts : drawn[h] <= drawn'[h]
    <2>1. drawn \in [Hosts -> 0..MaxSecrets]
      BY <1>1 DEF TypeOK
    <2>2. CASE drawn' = drawn
      BY <2>1, <2>2, HipDexAssumption
    <2>3. CASE \E h \in Hosts : Draw(h)
      BY <2>1, <2>3, HipDexAssumption DEF Draw
    <2> QED
      BY <2>2, <2>3
  <1>5. ConnOK(m.to, m.from, d)'
    OBVIOUS
  <1> HIDE DEF d
  <1>6. \A h, p \in Hosts : conn[h][p].dh => conn'[h][p].dh
    BY <1>2, <1>3
  <1>7. \A h, p \in Hosts : conn'[h][p] # conn[h][p] => ConnOK(h, p, conn[h][p])'
    <2> SUFFICES ASSUME NEW h \in Hosts, NEW p \in Hosts, h = m.to, p = m.from
                 PROVE  ConnOK(h, p, conn[h][p])'
      BY <1>3
    <2>1. conn'[h][p] = d
      BY <1>3
    <2> QED
      BY <1>5, <2>1
  <1> QED
    BY <1>3, <1>4, <1>6, <1>7 DEF Grows

\* An I1 is only answered by a host that has not initiated, or has answered before.
LEMMA StepI1 ==
    ASSUME IInv, NEW m \in net, HandleI1(m)
    PROVE  IInv'
  <1> DEFINE h == m.to
             p == m.from
             r == [type |-> "R1", from |-> h, to |-> p, i |-> CalculateI(p, h)]
  <1>1. /\ TypeOK /\ PacketOK(m) /\ h \in Hosts /\ p \in Hosts /\ h # p
        /\ conn[h][p] \in Connection
    <2>1. TypeOK /\ PacketOK(m)
      BY DEF IInv
    <2>2. h \in Hosts /\ p \in Hosts
      BY <2>1, PacketFields DEF TypeOK
    <2> QED
      BY <2>1, <2>2 DEF TypeOK, PacketOK
  <1>c. PICK c \in Connection : c = conn[h][p]
    BY <1>1
  <1>2. /\ Handle(m, "I1", c) /\ net' = net \cup {r}
        /\ UNCHANGED <<sa, drawn, keyed>>
    BY <1>c DEF HandleI1, Send
  <1>3. /\ c.state \in {"Unassociated", "R2Sent"} /\ m.type = "I1"
        /\ UNCHANGED <<pc, count, calls, damaged>>
        /\ conn' \in [Hosts -> [Hosts -> Connection]]
        /\ \A a, b \in Hosts : ~(a = h /\ b = p) => conn'[a][b] = conn[a][b]
    <2>1. /\ conn[m.to][m.from].state \in AllowedStates("I1") /\ m.type = "I1"
          /\ pc' = pc /\ count' = count /\ calls' = calls /\ damaged' = damaged
          /\ conn' \in [Hosts -> [Hosts -> Connection]]
      BY <1>1, <1>2, HandleEffect
    <2>2. \A a, b \in Hosts : ~(a = h /\ b = p) => conn'[a][b] = conn[a][b]
      BY <1>1, <1>2, HandleEffect
    <2> QED
      BY <1>c, <2>1, <2>2, States
  <1>4. r \in Packet /\ r.i = <<p, h>> /\ r.type = "R1" /\ r.from = h /\ r.to = p
    BY <1>1 DEF Packet, CalculateI, Puzzle
  <1>5. TypeOK'
    BY <1>1, <1>2, <1>3, <1>4 DEF TypeOK
  <1>6. R1Sent(h, p)'
    BY <1>2, <1>4 DEF R1Sent
  <1>7. ConnOK(h, p, [c EXCEPT !.state = NextState("I1")])'
    <2>1. [c EXCEPT !.state = NextState("I1")].state = "Unassociated"
      BY <1>1 DEF Connection, NextState
    <2> QED
      BY <1>6, <2>1 DEF ConnOK, InitiatorState
  <1>8. Grows /\ \A a, b \in Hosts : conn'[a][b] # conn[a][b] => ConnOK(a, b, conn[a][b])'
    BY <1>1, <1>c, <1>2, <1>5, <1>7, HandlerStep
  <1>9. PacketOK(r)'
    BY <1>1, <1>4 DEF PacketOK
  <1>10. conn[p][h].dh
    BY <1>1, <1>3 DEF PacketOK
  <1>11. ~R1Sent(p, h)
    <2>1. ConnOK(h, p, c) /\ DirectionOK(h, p) /\ DirectionOK(p, h)
      BY <1>1, <1>c DEF IInv
    <2> QED
      BY <1>c, <1>3, <2>1 DEF ConnOK, DirectionOK, InitiatorState
  <1>12. \A a, b \in Hosts : R1Sent(a, b)' => R1Sent(a, b) \/ (a = h /\ b = p)
    BY <1>2, <1>4 DEF R1Sent
  <1>13. \A a, b \in Hosts : DirectionOK(a, b)'
    <2> SUFFICES ASSUME NEW a \in Hosts, NEW b \in Hosts, R1Sent(a, b)'
                 PROVE  conn'[b][a].dh /\ ~R1Sent(b, a)'
      BY DEF DirectionOK
    <2>1. CASE a = h /\ b = p
      BY <1>1, <1>3, <1>10, <1>11, <1>12, <2>1
    <2>2. CASE ~(a = h /\ b = p)
      <3>1. conn[b][a].dh /\ ~R1Sent(b, a)
        BY <1>12, <2>2 DEF IInv, DirectionOK
      <3>2. ~(b = h /\ a = p)
        BY <1>11, <1>12, <2>2
      <3> QED
        BY <1>8, <1>12, <3>1, <3>2 DEF Grows
    <2> QED
      BY <2>1, <2>2
  <1>14. \A a, b \in Hosts : SaOK(a, b)'
    BY <1>2, <1>8, SaPersists
  <1> QED
    BY <1>2, <1>5, <1>8, <1>9, <1>13, <1>14, Combine

\* What is known when a packet is handled.
LEMMA Received ==
    ASSUME IInv, NEW m \in net
    PROVE  /\ TypeOK /\ m \in Packet /\ PacketOK(m)
           /\ m.to \in Hosts /\ m.from \in Hosts /\ m.to # m.from
           /\ conn[m.to][m.from] \in Connection
           /\ ConnOK(m.to, m.from, conn[m.to][m.from])
  <1>1. TypeOK /\ PacketOK(m)
    BY DEF IInv
  <1>2. m \in Packet /\ m.to \in Hosts /\ m.from \in Hosts
    BY <1>1, PacketFields DEF TypeOK
  <1>3. conn[m.to][m.from] \in Connection
    BY <1>1, <1>2 DEF TypeOK
  <1>4. ConnOK(m.to, m.from, conn[m.to][m.from])
    BY <1>2 DEF IInv
  <1> QED
    BY <1>1, <1>2, <1>3, <1>4 DEF PacketOK

\* A secret that is drawn is a new one of its host.
LEMMA DrawFresh ==
    ASSUME TypeOK, NEW h \in Hosts, Draw(h), NEW x, x = Fresh(h)
    PROVE  drawn' \in [Hosts -> 0..MaxSecrets] /\ x \in Secret /\ Drawn(x, h)'
  <1>1. drawn \in [Hosts -> 0..MaxSecrets] /\ MaxSecrets \in Nat
    BY HipDexAssumption DEF TypeOK
  <1>2. drawn[h] \in 0..MaxSecrets /\ drawn[h] < MaxSecrets
    BY <1>1 DEF Draw
  <1>3. drawn[h] + 1 \in 1..MaxSecrets
    BY <1>1, <1>2
  <1>4. drawn' \in [Hosts -> 0..MaxSecrets] /\ drawn'[h] = drawn[h] + 1
    BY <1>1, <1>3 DEF Draw
  <1>5. x \in Secret /\ x[1] = h /\ x[2] = drawn[h] + 1
    BY <1>3 DEF Fresh, Secret
  <1> QED
    BY <1>3, <1>4, <1>5 DEF Drawn

\* A host whose I1 is answered solves the puzzle and keeps what it needs for the R2.
LEMMA StepR1 ==
    ASSUME IInv, NEW m \in net, HandleR1(m)
    PROVE  IInv'
  <1> DEFINE h == m.to
             p == m.from
             k == ExchangeKeys(h, p, m.i)
  <1>1. /\ TypeOK /\ m \in Packet /\ PacketOK(m) /\ h \in Hosts /\ p \in Hosts /\ h # p
        /\ conn[h][p] \in Connection /\ ConnOK(h, p, conn[h][p])
    BY Received
  <1>c. PICK c \in Connection : c = conn[h][p]
    BY <1>1
  <1>x. PICK x : x = Fresh(h)
    OBVIOUS
  <1> DEFINE d == [c EXCEPT !.puzzle = m.i, !.keys = k, !.x = x]
             s == [type |-> "I2", from |-> h, to |-> p, i |-> m.i,
                   j |-> SolveR(m.i, h, p), key |-> Encrypt(k.local, x, m.i),
                   mac |-> k.local]
  <1>2. /\ Handle(m, "R1", d) /\ net' = net \cup {s} /\ Draw(h)
        /\ UNCHANGED <<sa, keyed>>
    BY <1>c, <1>x DEF HandleR1, Send
  <1>3. m.type = "R1" /\ m.i \in Puzzle \cup {NoPuzzle}
    BY <1>1, <1>2, PacketFields DEF Handle
  <1>4. k \in Keys /\ k.local \in Key
    BY <1>1, <1>3, KeysTyped DEF Keys
  <1>5. drawn' \in [Hosts -> 0..MaxSecrets] /\ x \in Secret /\ Drawn(x, h)'
    BY <1>1, <1>x, <1>2, DrawFresh
  <1>6. /\ d \in Connection /\ d.dh = c.dh /\ d.puzzle = m.i /\ d.keys = k /\ d.x = x
    BY <1>3, <1>4, <1>5 DEF Connection
  <1>7. /\ conn[h][p].state = "I1Sent"
        /\ conn' \in [Hosts -> [Hosts -> Connection]]
        /\ pc' = pc /\ count' = count /\ calls' = calls /\ damaged' = damaged
    <2>1. /\ conn[h][p].state \in AllowedStates("R1")
          /\ conn' \in [Hosts -> [Hosts -> Connection]]
          /\ pc' = pc /\ count' = count /\ calls' = calls /\ damaged' = damaged
      BY <1>1, <1>2, <1>6, HandleEffect
    <2> QED
      BY <2>1, States
  <1>8. s \in Packet
    <2>1. SolveR(m.i, h, p) \in [i : Puzzle \cup {NoPuzzle}, hits : Hosts \X Hosts]
      BY <1>1, <1>3 DEF SolveR
    <2>2. Encrypt(k.local, x, m.i) \in Cipher
      BY <1>3, <1>4, <1>5 DEF Encrypt, Cipher
    <2> QED
      BY <1>1, <1>3, <1>4, <2>1, <2>2 DEF Packet
  <1>9. TypeOK'
    BY <1>1, <1>2, <1>5, <1>7, <1>8 DEF TypeOK
  <1>10. /\ m.i \in {<<h, p>>, NoPuzzle}
         /\ damaged = 0 => m.i = <<h, p>>
    BY <1>1, <1>3 DEF PacketOK
  <1>11. ConnOK(h, p, [d EXCEPT !.state = NextState("R1")])'
    <2> DEFINE e == [d EXCEPT !.state = NextState("R1")]
    <2>1. /\ e.state = "I2Sent" /\ e.dh = c.dh /\ e.puzzle = m.i
          /\ e.keys = k /\ e.x = x
      BY <1>6, States DEF Connection
    <2>2. c.dh
      BY <1>1, <1>c, <1>7 DEF ConnOK, InitiatorState
    <2> HIDE DEF e
    <2>3. AwaitsR2(h, p, e)'
      BY <1>5, <1>7, <1>10, <2>1 DEF AwaitsR2
    <2>4. ConnOK(h, p, e)'
      BY <2>1, <2>2, <2>3 DEF ConnOK, InitiatorState
    <2> QED
      BY <2>4 DEF e
  <1>12. Grows /\ \A a, b \in Hosts : conn'[a][b] # conn[a][b] => ConnOK(a, b, conn[a][b])'
    BY <1>1, <1>c, <1>2, <1>6, <1>9, <1>11, HandlerStep
  <1>13. PacketOK(s)'
    <2>1. R1Sent(p, h)'
      BY <1>2, <1>3 DEF R1Sent
    <2>2. I2OK(s)'
      BY <1>5, <1>7, <1>10, <2>1 DEF I2OK, Encrypt
    <2> QED
      BY <1>1, <2>2 DEF PacketOK
  <1>14. \A a, b \in Hosts : DirectionOK(a, b)'
    <2>1. s.type = "I2"
      OBVIOUS
    <2> QED
      BY <1>2, <1>12, <2>1, DirectionPersists
  <1>15. \A a, b \in Hosts : SaOK(a, b)'
    BY <1>2, <1>12, SaPersists
  <1> QED
    BY <1>2, <1>9, <1>12, <1>13, <1>14, <1>15, Combine

\* An SA that is stored is in the history, and replaces that of one pair.
LEMMA Stored ==
    ASSUME IInv, Grows, NEW h \in Hosts, NEW p \in Hosts, NEW i \in Puzzle,
           NEW x \in Secret, NEW y \in Secret, StoreSA(h, p, i, x, y)
    PROVE  \A a, b \in Hosts : SaOK(a, b)'
  <1> DEFINE e == [host |-> h, peer |-> p, i |-> i, x |-> x, y |-> y]
  <1>1. /\ sa' = [sa EXCEPT ![h][p] = SessionKeys(h, p, i, x, y)]
        /\ e \in keyed'
    BY DEF StoreSA
  <1>2. sa \in [Hosts -> [Hosts -> Keys]]
    BY DEF IInv, TypeOK
  <1>3. sa'[h][p] = SessionKeys(h, p, e.i, e.x, e.y)
    BY <1>1, <1>2
  <1>4. e.host = h /\ e.peer = p
    OBVIOUS
  <1>5. SaOK(h, p)'
    <2> HIDE DEF e
    <2>1. sa'[h][p] = SessionKeys(e.host, e.peer, e.i, e.x, e.y)'
      BY <1>3, <1>4 DEF SessionKeys, DeriveKeys
    <2> QED
      BY <1>1, <1>4, <2>1 DEF SaOK
  <1>6. \A a, b \in Hosts : ~(a = h /\ b = p) => sa'[a][b] = sa[a][b]
    BY <1>1, <1>2
  <1> QED
    BY <1>5, <1>6, SaPersists

\* and types of the two variables.
LEMMA StoredTyped ==
    ASSUME TypeOK, NEW h \in Hosts, NEW p \in Hosts, NEW i \in Puzzle,
           NEW x \in Secret, NEW y \in Secret, StoreSA(h, p, i, x, y)
    PROVE  /\ sa' \in [Hosts -> [Hosts -> Keys]]
           /\ keyed' \subseteq [host : Hosts, peer : Hosts, i : Puzzle, x : Secret, y : Secret]
           /\ keyed \subseteq keyed'
  <1>1. SessionKeys(h, p, i, x, y) \in Keys
    BY KeysTyped
  <1> QED
    BY <1>1 DEF StoreSA, TypeOK

\* An I2 whose solution and MAC are right: it answers an R1, and both ends store
\* the keys of the same puzzle.
LEMMA StepI2 ==
    ASSUME IInv, NEW m \in net, HandleI2(m)
    PROVE  IInv'
  <1> DEFINE h == m.to
             p == m.from
             k == ExchangeKeys(h, p, m.i)
             x == m.key.s
  <1>1. /\ TypeOK /\ m \in Packet /\ PacketOK(m) /\ h \in Hosts /\ p \in Hosts /\ h # p
        /\ conn[h][p] \in Connection /\ ConnOK(h, p, conn[h][p])
    BY Received
  <1>c. PICK c \in Connection : c = conn[h][p]
    BY <1>1
  <1>y. PICK y : y = Fresh(h)
    OBVIOUS
  <1> DEFINE d == [c EXCEPT !.keys = k, !.x = x]
             s == [type |-> "R2", from |-> h, to |-> p,
                   key |-> Encrypt(k.local, y, m.i), mac |-> k.local]
             e == [host |-> h, peer |-> p, i |-> m.i, x |-> x, y |-> y]
  <1>2. /\ Handle(m, "I2", d) /\ Solved(m) /\ Draw(h)
        /\ StoreSA(h, p, m.i, x, y) /\ net' = net \cup {s}
    BY <1>c, <1>y DEF HandleI2, Send
  <1>3. m.type = "I2" /\ m.i = <<p, h>> /\ m.i \in Puzzle /\ x \in Secret
    <2>1. m.type = "I2"
      BY <1>2 DEF Handle
    <2>2. m.i = <<p, h>>
      BY <1>2 DEF Solved, VerifyPuzzle, CalculateI
    <2>3. m.key \in Cipher
      BY <1>1, <2>1, PacketFields
    <2> QED
      BY <1>1, <2>1, <2>2, <2>3 DEF Puzzle, Cipher
  <1>4. k \in Keys /\ k.local \in Key
    BY <1>1, <1>3, KeysTyped DEF Keys
  <1>5. drawn' \in [Hosts -> 0..MaxSecrets] /\ y \in Secret /\ Drawn(y, h)'
    BY <1>1, <1>y, <1>2, DrawFresh
  <1>6. d \in Connection /\ d.dh = c.dh
    BY <1>3, <1>4 DEF Connection
  <1>7. /\ conn' \in [Hosts -> [Hosts -> Connection]]
        /\ pc' = pc /\ count' = count /\ calls' = calls /\ damaged' = damaged
    BY <1>1, <1>2, <1>6, HandleEffect
  <1>8. s \in Packet
    <2>1. Encrypt(k.local, y, m.i) \in Cipher
      BY <1>3, <1>4, <1>5 DEF Encrypt, Cipher
    <2> QED
      BY <1>1, <1>4, <2>1 DEF Packet
  <1>9. TypeOK' /\ keyed \subseteq keyed'
    <2>1. /\ sa' \in [Hosts -> [Hosts -> Keys]]
          /\ keyed' \subseteq [host : Hosts, peer : Hosts, i : Puzzle, x : Secret, y : Secret]
          /\ keyed \subseteq keyed'
      BY <1>1, <1>2, <1>3, <1>5, StoredTyped
    <2> QED
      BY <1>1, <1>2, <1>5, <1>7, <1>8, <2>1 DEF TypeOK
  <1>10. R1Sent(h, p) /\ Drawn(x, p)
    BY <1>1, <1>3 DEF PacketOK, I2OK
  <1>11. R1Sent(h, p)'
    BY <1>2, <1>10 DEF R1Sent
  <1>12. ConnOK(h, p, [d EXCEPT !.state = NextState("I2")])'
    <2>1. [d EXCEPT !.state = NextState("I2")].state = "R2Sent"
      BY <1>6, States DEF Connection
    <2> HIDE DEF d
    <2> QED
      BY <1>11, <2>1 DEF ConnOK, InitiatorState
  <1>13. Grows /\ \A a, b \in Hosts : conn'[a][b] # conn[a][b] => ConnOK(a, b, conn[a][b])'
    BY <1>1, <1>c, <1>2, <1>6, <1>9, <1>12, HandlerStep
  <1>14. Drawn(x, p)'
    BY <1>1, <1>9, <1>10, <1>13, Persist
  <1>15. e \in keyed' /\ EntryOK(e)' /\ e.host = h /\ e.peer = p /\ e.i = <<p, h>> /\ e.y = y
    BY <1>1, <1>2, <1>3, <1>5, <1>11, <1>14 DEF StoreSA, EntryOK
  <1>16. PacketOK(s)'
    <2> HIDE DEF e
    <2>1. s.key.echo = <<p, h>> /\ s.key.s = y /\ s.key.k = k.local
      BY <1>3 DEF Encrypt
    <2>2. R2OK(s)'
      BY <1>3, <1>15, <2>1 DEF R2OK
    <2> QED
      BY <1>1, <2>2 DEF PacketOK
  <1>17. \A a, b \in Hosts : DirectionOK(a, b)'
    <2>1. s.type = "R2"
      OBVIOUS
    <2> QED
      BY <1>2, <1>13, <2>1, DirectionPersists
  <1>18. \A a, b \in Hosts : SaOK(a, b)'
    BY <1>1, <1>2, <1>3, <1>5, <1>13, Stored
  <1>19. keyed' = keyed \cup {e}
    BY <1>2 DEF StoreSA
  <1>20. ~(e.i[1] = e.host)
    BY <1>1, <1>15
  <1> HIDE DEF e, s
  <1> QED
    BY <1>2, <1>9, <1>13, <1>15, <1>16, <1>17, <1>18, <1>19, <1>20, Combine

\* An R2 whose MAC and echo are right: its sender has stored an SA from its secret.
LEMMA StepR2 ==
    ASSUME IInv, NEW m \in net, HandleR2(m)
    PROVE  IInv'
  <1> DEFINE h == m.to
             p == m.from
             y == m.key.s
  <1>1. /\ TypeOK /\ m \in Packet /\ PacketOK(m) /\ h \in Hosts /\ p \in Hosts /\ h # p
        /\ conn[h][p] \in Connection /\ ConnOK(h, p, conn[h][p])
    BY Received
  <1>c. PICK c \in Connection : c = conn[h][p]
    BY <1>1
  <1> DEFINE e == [host |-> h, peer |-> p, i |-> c.puzzle, x |-> c.x, y |-> y]
  <1>2. /\ Handle(m, "R2", c) /\ AuthenticR2(m, c)
        /\ StoreSA(h, p, c.puzzle, c.x, y) /\ UNCHANGED <<net, drawn>>
    BY <1>c DEF HandleR2
  <1>3. /\ c.state = "I2Sent" /\ m.type = "R2"
        /\ conn' \in [Hosts -> [Hosts -> Connection]]
        /\ pc' = pc /\ count' = count /\ calls' = calls /\ damaged' = damaged
    <2>1. /\ conn[m.to][m.from].state \in AllowedStates("R2") /\ m.type = "R2"
          /\ conn' \in [Hosts -> [Hosts -> Connection]]
          /\ pc' = pc /\ count' = count /\ calls' = calls /\ damaged' = damaged
      BY <1>1, <1>2, HandleEffect
    <2> QED
      BY <1>c, <2>1, States
  <1>4. R2OK(m)
    BY <1>1, <1>3 DEF PacketOK
  <1>5. c.dh /\ AwaitsR2(h, p, c)
    BY <1>1, <1>c, <1>3 DEF ConnOK, InitiatorState
  <1>6. c.puzzle = <<h, p>>
    BY <1>2, <1>4 DEF AuthenticR2, DecryptsTo, R2OK
  <1>f. PICK f \in keyed : f.host = p /\ f.peer = h /\ f.i = <<h, p>> /\ f.y = y
    BY <1>4 DEF R2OK
  <1>7. R1Sent(p, h) /\ Drawn(y, p) /\ Drawn(c.x, h)
    <2>1. EntryOK(f)
      BY DEF IInv
    <2> QED
      BY <1>5, <1>f, <2>1 DEF EntryOK, AwaitsR2
  <1>8. c.puzzle \in Puzzle /\ c.x \in Secret /\ y \in Secret
    BY <1>1, <1>6, <1>7 DEF Puzzle, Drawn
  <1>9. TypeOK' /\ keyed \subseteq keyed'
    <2>1. /\ sa' \in [Hosts -> [Hosts -> Keys]]
          /\ keyed' \subseteq [host : Hosts, peer : Hosts, i : Puzzle, x : Secret, y : Secret]
          /\ keyed \subseteq keyed'
      BY <1>1, <1>2, <1>8, StoredTyped
    <2> QED
      BY <1>1, <1>2, <1>3, <2>1 DEF TypeOK
  <1>10. ConnOK(h, p, [c EXCEPT !.state = NextState("R2")])'
    <2> DEFINE d == [c EXCEPT !.state = NextState("R2")]
    <2>1. d.state = "Established" /\ d.dh = c.dh
      BY States DEF Connection
    <2> HIDE DEF d
    <2>2. ConnOK(h, p, d)'
      BY <1>5, <2>1 DEF ConnOK, InitiatorState
    <2> QED
      BY <2>2 DEF d
  <1>11. Grows /\ \A a, b \in Hosts : conn'[a][b] # conn[a][b] => ConnOK(a, b, conn[a][b])'
    BY <1>1, <1>c, <1>2, <1>9, <1>10, HandlerStep
  <1>12. R1Sent(p, h)' /\ Drawn(y, p)' /\ Drawn(c.x, h)'
    BY <1>1, <1>7, <1>9, <1>11, Persist
  <1>13. e \in keyed' /\ EntryOK(e)' /\ e.host = h /\ e.peer = p /\ e.i = <<h, p>> /\ e.y = y
    BY <1>1, <1>2, <1>6, <1>12 DEF StoreSA, EntryOK
  <1>14. \A a, b \in Hosts : DirectionOK(a, b)'
    BY <1>2, <1>11, DirectionPersists
  <1>15. \A a, b \in Hosts : SaOK(a, b)'
    BY <1>1, <1>2, <1>8, <1>11, Stored
  <1>16. keyed' = keyed \cup {e}
    BY <1>2 DEF StoreSA
  <1>17. f \in keyed' /\ f.host = e.peer /\ f.peer = e.host /\ f.i = e.i /\ f.y = e.y
    BY <1>f, <1>9, <1>13
  <1> HIDE DEF e
  <1> QED
    BY <1>2, <1>9, <1>11, <1>13, <1>14, <1>15, <1>16, <1>17, Combine

\* A handler that gives up leaves at most new keys and the next state.
LEMMA RejectStep ==
    ASSUME IInv, NEW m \in net, NEW type \in {"I2", "R2"}, NEW c \in Connection,
           Handle(m, type, c), c.dh = conn[m.to][m.from].dh,
           UNCHANGED <<net, sa, drawn, keyed>>
    PROVE  IInv'
  <1> DEFINE h == m.to
             p == m.from
             d == [c EXCEPT !.state = NextState(type)]
  <1>1. /\ TypeOK /\ m \in Packet /\ PacketOK(m) /\ h \in Hosts /\ p \in Hosts
        /\ ConnOK(h, p, conn[h][p])
    BY Received
  <1>2. /\ m.type = type /\ conn[h][p].state \in AllowedStates(type)
        /\ conn' \in [Hosts -> [Hosts -> Connection]]
        /\ pc' = pc /\ count' = count /\ calls' = calls /\ damaged' = damaged
    <2>1. type \in {"I1", "R1", "I2", "R2"}
      OBVIOUS
    <2> QED
      BY <1>1, <2>1, HandleEffect
  <1>3. TypeOK'
    BY <1>1, <1>2 DEF TypeOK
  <1>4. ConnOK(h, p, d)'
    <2>1. d.state = NextState(type) /\ d.dh = conn[h][p].dh
      BY DEF Connection
    <2> HIDE DEF d
    <2>2. CASE type = "I2"
      <3>1. R1Sent(h, p)
        BY <1>1, <1>2, <2>2 DEF PacketOK, I2OK
      <3>2. R1Sent(h, p)' /\ d.state = "R2Sent"
        BY <2>1, <2>2, <3>1, States DEF R1Sent
      <3> QED
        BY <3>2 DEF ConnOK, InitiatorState
    <2>3. CASE type = "R2"
      <3>1. d.state = "Established" /\ d.dh
        BY <1>1, <1>2, <2>1, <2>3, States DEF ConnOK, InitiatorState
      <3> QED
        BY <3>1 DEF ConnOK, InitiatorState
    <2> QED
      BY <2>2, <2>3
  <1> HIDE DEF d
  <1>5. ConnOK(m.to, m.from, [c EXCEPT !.state = NextState(type)])'
    BY <1>4 DEF d
  <1>6. Grows /\ \A a, b \in Hosts : conn'[a][b] # conn[a][b] => ConnOK(a, b, conn[a][b])'
    BY <1>3, <1>5, HandlerStep
  <1>7. \A a, b \in Hosts : DirectionOK(a, b)'
    BY <1>6, DirectionPersists
  <1>8. \A a, b \in Hosts : SaOK(a, b)'
    BY <1>6, SaPersists
  <1> QED
    BY <1>3, <1>6, <1>7, <1>8, Combine

LEMMA StepReject ==
    ASSUME IInv, NEW m \in net, RejectI2(m) \/ RejectR2(m)
    PROVE  IInv'
  <1> DEFINE c == conn[m.to][m.from]
             k == ExchangeKeys(m.to, m.from, m.i)
  <1>1. /\ TypeOK /\ m \in Packet /\ m.to \in Hosts /\ m.from \in Hosts /\ c \in Connection
    BY Received
  <1>2. UNCHANGED <<net, sa, drawn, keyed>>
    BY DEF RejectI2, RejectR2
  <1>3. CASE RejectR2(m)
    BY <1>1, <1>2, <1>3, RejectStep DEF RejectR2
  <1>4. CASE Handle(m, "I2", c)
    BY <1>1, <1>2, <1>4, RejectStep
  <1>5. CASE Handle(m, "I2", [c EXCEPT !.keys = k])
    <2>1. m.i \in Puzzle \cup {NoPuzzle}
      BY <1>1, <1>5, PacketFields DEF Handle
    <2>2. k \in Keys
      BY <1>1, <2>1, KeysTyped
    <2>3. [c EXCEPT !.keys = k] \in Connection /\ [c EXCEPT !.keys = k].dh = c.dh
      BY <1>1, <2>2 DEF Connection
    <2> QED
      BY <1>1, <1>2, <1>5, <2>3, RejectStep
  <1> QED
    BY <1>3, <1>4, <1>5 DEF RejectI2

\* A damaged packet: what it still tells is what it told before.
LEMMA StepDamage ==
    ASSUME IInv, NEW m \in net, Damage(m)
    PROVE  IInv'
  <1>1. /\ TypeOK /\ m \in Packet /\ PacketOK(m)
        /\ m.to \in Hosts /\ m.from \in Hosts /\ m.to # m.from
    BY Received
  <1>2. /\ damaged' \in 0..MaxDamaged /\ damaged' # 0
        /\ UNCHANGED <<conn, sa, drawn, keyed, pc, count, calls>>
    BY <1>1, HipDexAssumption DEF Damage, TypeOK
  <1>3. NoKey \in Key
    BY DEF NoKey, Key
  <1>4. PICK n \in Packet :
            /\ net' = net \cup {n}
            /\ n.type = m.type /\ n.from = m.from /\ n.to = m.to /\ m.type # "I1"
            /\ m.type = "R1" => n.i = NoPuzzle
            /\ m.type \in {"I2", "R2"} => n.key = m.key
    <2>1. CASE m.type = "R1" /\ Send([m EXCEPT !.i = NoPuzzle])
      <3> DEFINE n == [m EXCEPT !.i = NoPuzzle]
      <3>1. m \in [type : {"R1"}, from : Hosts, to : Hosts, i : Puzzle \cup {NoPuzzle}]
        BY <1>1, <2>1, PacketFields
      <3>2. n \in [type : {"R1"}, from : Hosts, to : Hosts, i : Puzzle \cup {NoPuzzle}]
        BY <3>1
      <3>3. n.type = "R1" /\ n.from = m.from /\ n.to = m.to /\ n.i = NoPuzzle
        BY <3>1
      <3>4. n \in Packet
        BY <3>2 DEF Packet
      <3>5. net' = net \cup {n}
        BY <2>1 DEF Send
      <3> HIDE DEF n
      <3> QED
        BY <2>1, <3>3, <3>4, <3>5
    <2>2. ASSUME m.type = "I2", NEW n, n = [m EXCEPT !.j.i = NoPuzzle] \/ n = [m EXCEPT !.mac = NoKey]
          PROVE  n \in Packet /\ n.type = "I2" /\ n.from = m.from /\ n.to = m.to /\ n.key = m.key
      <3> DEFINE I2 == [type : {"I2"}, from : Hosts, to : Hosts, i : Puzzle \cup {NoPuzzle},
                        j : [i : Puzzle \cup {NoPuzzle}, hits : Hosts \X Hosts],
                        key : Cipher, mac : Key]
      <3>1. m \in I2
        BY <1>1, <2>2, PacketFields
      <3>2. /\ n \in I2 /\ n.type = "I2"
            /\ n.from = m.from /\ n.to = m.to /\ n.key = m.key
        BY <1>3, <2>2, <3>1
      <3>3. n \in Packet
        BY <3>2 DEF Packet
      <3> QED
        BY <3>2, <3>3
    <2>3. ASSUME m.type = "R2", NEW n, n = [m EXCEPT !.mac = NoKey]
          PROVE  n \in Packet /\ n.type = "R2" /\ n.from = m.from /\ n.to = m.to /\ n.key = m.key
      <3>1. m \in [type : {"R2"}, from : Hosts, to : Hosts, key : Cipher, mac : Key]
        BY <1>1, <2>3, PacketFields
      <3>2. /\ n \in [type : {"R2"}, from : Hosts, to : Hosts, key : Cipher, mac : Key]
            /\ n.type = "R2" /\ n.from = m.from /\ n.to = m.to /\ n.key = m.key
        BY <1>3, <2>3, <3>1
      <3>3. n \in Packet
        BY <3>2 DEF Packet
      <3> QED
        BY <3>2, <3>3
    <2>4. CASE m.type = "I2" /\ Send([m EXCEPT !.j.i = NoPuzzle])
      <3>1. PICK n : n = [m EXCEPT !.j.i = NoPuzzle]
        OBVIOUS
      <3>2. net' = net \cup {n}
        BY <2>4, <3>1 DEF Send
      <3> QED
        BY <2>2, <2>4, <3>1, <3>2
    <2>5. CASE m.type \in {"I2", "R2"} /\ Send([m EXCEPT !.mac = NoKey])
      <3>1. PICK n : n = [m EXCEPT !.mac = NoKey]
        OBVIOUS
      <3>2. net' = net \cup {n}
        BY <2>5, <3>1 DEF Send
      <3> QED
        BY <2>2, <2>3, <2>5, <3>1, <3>2
    <2> QED
      BY <2>1, <2>4, <2>5 DEF Damage
  <1>5. TypeOK'
    BY <1>1, <1>2, <1>4 DEF TypeOK
  <1>6. Grows
    BY <1>1, <1>2, <1>4, HipDexAssumption DEF Grows, TypeOK
  <1>7. PacketOK(n)'
    <2>1. CASE m.type = "I2"
      <3>1. I2OK(m)
        BY <1>1, <2>1 DEF PacketOK
      <3>2. R1Sent(n.to, n.from)' /\ Drawn(n.key.s, n.from)'
        BY <1>1, <1>4, <1>5, <1>6, <2>1, <3>1, Persist DEF I2OK
      <3>3. I2OK(n)'
        BY <1>2, <3>2 DEF I2OK
      <3> QED
        BY <1>1, <1>4, <2>1, <3>3 DEF PacketOK
    <2>2. CASE m.type = "R2"
      <3>1. R2OK(m)
        BY <1>1, <2>2 DEF PacketOK
      <3>2. R2OK(n)'
        BY <1>2, <1>4, <2>2, <3>1 DEF R2OK
      <3> QED
        BY <1>1, <1>4, <2>2, <3>2 DEF PacketOK
    <2>3. CASE m.type = "R1"
      BY <1>1, <1>2, <1>4, <2>3 DEF PacketOK
    <2> QED
      BY <1>4, <2>1, <2>2, <2>3, <1>1 DEF Damage
  <1>8. \A a, b \in Hosts : DirectionOK(a, b)'
    BY <1>4, <1>6, DirectionPersists
  <1>9. \A a, b \in Hosts : SaOK(a, b)'
    BY <1>2, <1>6, SaPersists
  <1> QED
    BY <1>2, <1>4, <1>5, <1>6, <1>7, <1>8, <1>9, Combine

-----------------------------------------------------------------------------
LEMMA InitHolds == Init => IInv
  <1> SUFFICES ASSUME Init PROVE IInv
    OBVIOUS
  <1>1. Unassociated \in Connection /\ NoSA \in Keys
    BY DEF Unassociated, Connection, State, Keys, Key, NoSA, NoKeys, NoKey, NoPuzzle, NoSecret
  <1>2. TypeOK
    BY <1>1, HipDexAssumption DEF Init, TypeOK
  <1>3. \A h, p \in Hosts : /\ ~R1Sent(h, p) /\ sa[h][p] = NoSA
                            /\ conn[h][p].state = "Unassociated" /\ ~conn[h][p].dh
    BY DEF Init, R1Sent, Unassociated
  <1>4. \A h, p \in Hosts : ConnOK(h, p, conn[h][p]) /\ DirectionOK(h, p) /\ SaOK(h, p)
    BY <1>3 DEF ConnOK, DirectionOK, SaOK, InitiatorState
  <1> QED
    BY <1>2, <1>4 DEF Init, IInv, InitiatorHasPeer

LEMMA StepHolds == IInv /\ [Next]_vars => IInv'
  <1> SUFFICES ASSUME IInv, [Next]_vars PROVE IInv'
    OBVIOUS
  <1>1. CASE \E m \in net : HandlePacket(m) \/ Damage(m)
    BY <1>1, StepI1, StepR1, StepI2, StepR2, StepReject, StepDamage DEF HandlePacket
  <1>2. CASE \E c \in Calls : Call(c) \/ InitiateStep(c)
    BY <1>2, TryStep, FailStep, LocalStep DEF InitiateStep
  <1>3. CASE \E h \in Hosts, p \in Hosts : AppRemoves(h, p)
    BY <1>3, LocalStep
  <1>4. CASE UNCHANGED vars
    <2>1. TypeOK' /\ Grows
      BY <1>4, HipDexAssumption DEF IInv, TypeOK, Grows, vars
    <2>2. UNCHANGED <<net, conn, sa, drawn, keyed>>
      BY <1>4 DEF vars
    <2>3. (\A h, p \in Hosts : DirectionOK(h, p)') /\ (\A h, p \in Hosts : SaOK(h, p)')
      BY <2>1, <2>2, DirectionPersists, SaPersists
    <2> QED
      BY <2>1, <2>2, <2>3, Combine
  <1> QED
    BY <1>1, <1>2, <1>3, <1>4 DEF Next

\* What is known of packets, connections and SAs together, in every state.
THEOREM Invariant == Spec => []IInv
  BY InitHolds, StepHolds, PTL DEF Spec

\* The variables keep their types: in particular HIPDEX_Initiate never counts
\* beyond HDX_MAX_INITIATION_WAIT_COUNT + 1.
THEOREM TypeCorrect == Spec => []TypeOK
  <1>1. IInv => TypeOK
    BY DEF IInv
  <1> QED
    BY <1>1, Invariant, PTL

\* An initiator that stores an SA has a peer that has stored one from the same Y.
THEOREM PeerHasStored == Spec => []InitiatorHasPeer
  <1>1. IInv => InitiatorHasPeer
    BY DEF IInv
  <1> QED
    BY <1>1, Invariant, PTL

\* Two SAs of one pair come from exchanges of one direction.
LEMMA SamePuzzle ==
    ASSUME IInv, NEW e \in keyed, NEW f \in keyed, {e.host, e.peer} = {f.host, f.peer}
    PROVE  e.i = f.i
  <1>1. EntryOK(e) /\ EntryOK(f)
    BY DEF IInv
  <1>2. /\ e.host \in Hosts /\ e.peer \in Hosts
        /\ (f.host = e.host /\ f.peer = e.peer) \/ (f.host = e.peer /\ f.peer = e.host)
    BY DEF IInv, TypeOK
  <1>3. ~(R1Sent(e.host, e.peer) /\ R1Sent(e.peer, e.host))
    BY <1>2 DEF IInv, DirectionOK
  <1> QED
    BY <1>1, <1>2, <1>3 DEF EntryOK

\* Whoever has initiated with a peer never answers an I1 of it again, so all SAs
\* of two hosts for each other come from exchanges one of them has initiated.
THEOREM OnlyOneDirection == Spec => []OneDirection
  <1>1. IInv => OneDirection
    BY SamePuzzle DEF OneDirection
  <1> QED
    BY <1>1, Invariant, PTL

\* If neither end has drawn a second secret, the keys of the two ends of an SA
\* are the same, the other way round.
THEOREM KeysAgree == Spec => []KeysAgreeIfOnce
  <1>1. IInv => KeysAgreeIfOnce
    <2> SUFFICES ASSUME IInv, NEW h \in Hosts, NEW p \in Hosts,
                        drawn[h] <= 1, drawn[p] <= 1, sa[h][p] # NoSA, sa[p][h] # NoSA
                 PROVE  sa[h][p].local = sa[p][h].remote /\ sa[h][p].remote = sa[p][h].local
      BY DEF KeysAgreeIfOnce
    <2>1. PICK e \in keyed : e.host = h /\ e.peer = p
                             /\ sa[h][p] = SessionKeys(h, p, e.i, e.x, e.y)
      BY DEF IInv, SaOK
    <2>2. PICK f \in keyed : f.host = p /\ f.peer = h
                             /\ sa[p][h] = SessionKeys(p, h, f.i, f.x, f.y)
      BY DEF IInv, SaOK
    <2>3. EntryOK(e) /\ EntryOK(f) /\ h # p
      BY <2>1 DEF IInv, EntryOK
    <2>4. e.i = f.i /\ e.i[1] \in {h, p} /\ e.i[2] \in {h, p}
      BY <2>1, <2>2, <2>3, SamePuzzle DEF EntryOK
    <2>5. ASSUME NEW s, NEW g \in {h, p}, Drawn(s, g) PROVE s = <<g, 1>>
      <3>1. drawn[g] \in Nat /\ drawn[g] <= 1
        BY HipDexAssumption DEF IInv, TypeOK
      <3>2. s \in Hosts \X (1..MaxSecrets) /\ s[1] = g /\ s[2] <= drawn[g]
        BY <2>5 DEF Drawn, Secret
      <3>3. s = <<s[1], s[2]>> /\ s[2] \in 1..MaxSecrets
        BY <3>2
      <3>4. s[2] = 1
        BY <3>1, <3>2, <3>3, HipDexAssumption
      <3> QED
        BY <3>2, <3>3, <3>4
    <2>6. e.x = f.x /\ e.y = f.y
      BY <2>3, <2>4, <2>5 DEF EntryOK
    <2> QED
      BY <2>1, <2>2, <2>3, <2>4, <2>6, Halves
  <1> QED
    BY <1>1, Invariant, PTL

\* While nothing is damaged, every I2 is solved and authentic for whoever gets it,
\* and every R2 for whoever is in a state to take it.
THEOREM PacketsAccepted == Spec => []NoneRefused
  <1>1. IInv => NoneRefused
    <2> SUFFICES ASSUME IInv, damaged = 0, NEW m \in net
                 PROVE  /\ m.type = "I2" =>
                             /\ Solved(m)
                             /\ AuthenticI2(m, ExchangeKeys(m.to, m.from, m.i))
                        /\ m.type = "R2"
                           /\ conn[m.to][m.from].state \in AllowedStates("R2")
                           => AuthenticR2(m, conn[m.to][m.from])
      BY DEF NoneRefused
    <2> DEFINE h == m.to
               p == m.from
               c == conn[h][p]
    <2>1. /\ PacketOK(m) /\ h \in Hosts /\ p \in Hosts /\ h # p /\ ConnOK(h, p, c)
      BY Received
    <2>2. ASSUME m.type = "I2"
          PROVE  Solved(m) /\ AuthenticI2(m, ExchangeKeys(h, p, m.i))
      <3>1. I2OK(m)
        BY <2>1, <2>2 DEF PacketOK
      <3>2. m.i = <<p, h>> /\ m.j = SolveR(m.i, p, h) /\ m.key.echo = m.i
        BY <3>1 DEF I2OK
      <3>3. /\ m.mac = ExchangeKeys(p, h, m.i).local
            /\ m.key.k = ExchangeKeys(p, h, m.i).local
        BY <3>1, <3>2 DEF I2OK
      <3>4. ExchangeKeys(p, h, m.i).local = ExchangeKeys(h, p, m.i).remote
        BY <2>1, Halves
      <3> QED
        BY <3>2, <3>3, <3>4 DEF Solved, VerifyPuzzle, CalculateI, AuthenticI2, DecryptsTo
    <2>3. ASSUME m.type = "R2", c.state \in AllowedStates("R2")
          PROVE  AuthenticR2(m, c)
      <3>1. c.state = "I2Sent"
        BY <2>3, States
      <3>2. c.dh /\ c.puzzle = <<h, p>> /\ c.keys = ExchangeKeys(h, p, <<h, p>>)
        BY <2>1, <3>1 DEF ConnOK, AwaitsR2, InitiatorState
      <3>3. R2OK(m)
        BY <2>1, <2>3 DEF PacketOK
      <3>4. /\ m.mac = ExchangeKeys(p, h, <<h, p>>).local
            /\ m.key.k = ExchangeKeys(p, h, <<h, p>>).local
            /\ m.key.echo = <<h, p>>
        BY <3>3 DEF R2OK
      <3>5. ExchangeKeys(p, h, <<h, p>>).local = ExchangeKeys(h, p, <<h, p>>).remote
        BY <2>1, Halves
      <3> QED
        BY <3>2, <3>4, <3>5 DEF AuthenticR2, DecryptsTo
    <2> QED
      BY <2>2, <2>3
  <1> QED
    BY <1>1, Invariant, PTL
=============================================================================
