------------------------------ MODULE MCDaemon ------------------------------
(***************************************************************************)
(* What the threads of the HIP-DEX daemon share, and the packets they send *)
(* and receive, for TLC: three peers in the database, so that there is an  *)
(* entry before and one behind the one that is looked up, and as many      *)
(* addresses, so that a new entry may be where the old one was or, while   *)
(* fewer are listed, elsewhere; two connections and three threads, one     *)
(* that copies, one that destroys and one more to destroy or to wait for   *)
(* the factory; and one packet, which may be any.                          *)
(*                                                                         *)
(* The three parts have no variable in common and no step of one looks at  *)
(* another, so a property of one does not depend on where the others are:  *)
(* it is enough to let one move while the others are as they were at the   *)
(* start.                                                                  *)
(***************************************************************************)
EXTENDS SaDb, ConnectionFactory, Packets, SequencesExt, TLC

\* What a free address, or the local of an idle thread, holds is read by
\* nobody: one initial state of each is enough.
DatabaseAtRest ==
    /\ SaInit
    /\ rIP = [a \in Entry |-> CHOOSE p \in Peer : TRUE]
    /\ arIP = [t \in Caller |-> CHOOSE p \in Peer : TRUE]
    /\ entry = [t \in Caller |-> CHOOSE a \in Entry : TRUE]

FactoryAtRest ==
    /\ Init
    /\ aHit = [t \in Thread |-> CHOOSE h \in Hit : TRUE]

DaemonInit == DatabaseAtRest /\ FactoryAtRest /\ PacketInit

\* Nothing has been created yet; nothing has been stored; nothing has been sent
\* of a packet that stands for all.
NothingCreated == calls = 0
NothingStored == size = 0
NothingSent == datagram = <<>> /\ packet = CHOOSE p \in NewPackets : TRUE

DaemonNext ==
    \/ NothingCreated /\ NothingSent /\ SaNext /\ UNCHANGED <<vars, packetVars>>
    \/ NothingStored /\ NothingSent /\ Next /\ UNCHANGED <<saVars, packetVars>>
    \/ NothingStored /\ NothingCreated /\ PacketNext /\ UNCHANGED <<saVars, vars>>

DaemonSpec == DaemonInit /\ [][DaemonNext]_<<saVars, vars, packetVars>>

\* Threads are only compared.
Symmetry == Permutations(Thread)

MCHits == {<<0, 0, 0, 0>>, <<255, 1, 254, 128>>}

\* Parameters that need padding and parameters that do not; bytes that carry in
\* the sum of the checksum.
MCNonces == {<<0, 0>>, <<255, 200>>}
MCDatas == {<<0, 7>>, <<255, 255, 255, 255>>, <<3, 4, 5, 6, 7>>}

\* Stands for AES-CMAC: two bytes that depend on every byte and its place.
MCCmac(bytes) ==
    LET sum == FoldLeftDomain(LAMBDA acc, i : (acc * 3 + bytes[i] + 1) % 65521, 1, bytes)
    IN  Word(sum)
=============================================================================
