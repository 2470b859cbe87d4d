-------------------------------- MODULE HipDex --------------------------------
(***************************************************************************)
(* The HIP Diet EXchange between the daemons of several hosts: an I1, an   *)
(* R1 with a puzzle, an I2 with its solution and the initiator's secret X, *)
(* an R2 with the responder's secret Y; both then derive the keys of a     *)
(* security association (SA) from <<X, Y>>.  HIPDEX_Initiate sends the I1, *)
(* looks for the SA and starts again every second, a number of times.      *)
(*                                                                         *)
(* A connection's handlers run one at a time, and in one piece as far as   *)
(* anybody else can tell: CSafePtr holds the connection's mutex during     *)
(* Handle.  The connections of a host start out Unassociated, as the       *)
(* factory creates them when they are first asked for.                     *)
(*                                                                         *)
(* net only grows.  A packet that is handled again is a duplicate, one     *)
(* that is never handled is lost, and the order is any; a packet that      *)
(* arrives in a state in which it is not allowed changes nothing.  Some    *)
(* packets are damaged in a way the 16-bit checksum does not notice.       *)
(*                                                                         *)
(* Kept symbolic: a secret is its owner and a number, a key is the         *)
(* material it is cut from and which half it is.  Encryption and integrity *)
(* keys are cut from the same half, so one stands for both.                *)
(***************************************************************************)
EXTENDS Naturals

CONSTANTS Hosts,      \* hosts by their HIT: HITs are compared as numbers
          Calls,      \* <<h, p>>: an application on h may initiate with p
          MaxCount,   \* HDX_MAX_INITIATION_WAIT_COUNT
          MaxCalls,   \* bound: calls of HIPDEX_Initiate altogether
          MaxSecrets, \* bound: secrets a host draws
          MaxDamaged  \* bound: packets that arrive damaged

ASSUME HipDexAssumption ==
    /\ Hosts \subseteq Nat
    /\ Calls \subseteq {c \in Hosts \X Hosts : c[1] # c[2]}
    /\ MaxCount \in Nat /\ MaxCalls \in Nat
    /\ MaxSecrets \in Nat /\ MaxDamaged \in Nat

NoSecret == <<>>
NoPuzzle == <<>> \* also what is left of a damaged one
NoKey == [keymat |-> [hits |-> {}, i |-> NoPuzzle, input |-> <<>>], front |-> FALSE]
NoKeys == [local |-> NoKey, remote |-> NoKey]
NoSA == NoKeys

Secret == Hosts \X (1..MaxSecrets)
Puzzle == Hosts \X Hosts

\* HipPuzzleUtil: the key of the puzzle is constant, so each pair of initiator
\* and responder has one puzzle.
CalculateI(hitI, hitR) == <<hitI, hitR>>

SolveR(i, hitI, hitR) == [i |-> i, hits |-> <<hitI, hitR>>]

\* Variant: the HITs go into the check in the other order.
VerifyPuzzle_reversed(i, j, hitI, hitR) ==
    /\ i = CalculateI(hitI, hitR)
    /\ j = SolveR(i, hitR, hitI)

VerifyPuzzle(i, j, hitI, hitR) ==
    /\ i = CalculateI(hitI, hitR)
    /\ j = SolveR(i, hitI, hitR)

\* hdx_ecdh: both ends compute the same.
ECDH(h, p) == <<{h, p}>>

\* The HITs go into the material in order of size; who gets which half as
\* "local" depends on which argument is larger.
DeriveKeys(hitI, hitR, i, input) ==
    LET keymat == [hits |-> {hitI, hitR}, i |-> i, input |-> input]
    IN  [local |-> [keymat |-> keymat, front |-> hitI > hitR],
         remote |-> [keymat |-> keymat, front |-> ~(hitI > hitR)]]

\* The keys host h has for the exchange of its puzzle i with p: every handler
\* passes the sender's HIT first, its own second.
ExchangeKeys(h, p, i) == DeriveKeys(p, h, i, ECDH(h, p))
SessionKeys(h, p, i, x, y) == DeriveKeys(p, h, i, <<x, y>>)

\* A secret and the puzzle, encrypted.
Encrypt(k, s, i) == [k |-> k, s |-> s, echo |-> i]
DecryptsTo(cipher, k, i) == cipher.k = k /\ cipher.echo = i

VARIABLES net,   \* packets ever sent
          conn,  \* conn[h][p]: the connection h's factory has for p
          sa,    \* sa[h][p]: the entry of h's database for p's address
          drawn, \* number of secrets a host has drawn
          keyed, \* every SA ever stored (history)
          pc,    \* where HIPDEX_Initiate is, for a pair in Calls
          count, \* its local variable
          calls, \* number of calls so far
          damaged \* number of packets damaged so far

vars == <<net, conn, sa, drawn, keyed, pc, count, calls, damaged>>

Unassociated ==
    [state |-> "Unassociated", dh |-> FALSE, puzzle |-> NoPuzzle,
     keys |-> NoKeys, x |-> NoSecret]

Init ==
    /\ net = {}
    /\ conn = [h \in Hosts |-> [p \in Hosts |-> Unassociated]]
    /\ sa = [h \in Hosts |-> [p \in Hosts |-> NoSA]]
    /\ drawn = [h \in Hosts |-> 0]
    /\ keyed = {}
    /\ pc = [c \in Calls |-> "idle"]
    /\ count = [c \in Calls |-> 0]
    /\ calls = 0
    /\ damaged = 0

Send(m) == net' = net \cup {m}

\* RAND_bytes; MaxSecrets is a bound of the model.
Fresh(h) == <<h, drawn[h] + 1>>
Draw(h) ==
    /\ drawn[h] < MaxSecrets
    /\ drawn' = [drawn EXCEPT ![h] = @ + 1]

\* Csadb::StoreSA replaces the entry of that address.
StoreSA(h, p, i, x, y) ==
    /\ sa' = [sa EXCEPT ![h][p] = SessionKeys(h, p, i, x, y)]
    /\ keyed' = keyed \cup {[host |-> h, peer |-> p, i |-> i, x |-> x, y |-> y]}

(***************************************************************************)
(* CConnection::Handle: what the handler of a packet is allowed in, and    *)
(* the state after it, which it reaches even if the handler gives up.      *)
(* Closing and Closed, which I2 is allowed in too, are never entered.      *)
(***************************************************************************)
\* Variant: a host that has initiated before answers an I1 too.
AllowedStates_established(type) ==
    CASE type = "I1" -> {"Unassociated", "R2Sent", "Established"}
      [] type = "R1" -> {"I1Sent"}
      [] type = "I2" -> {"Unassociated", "I1Sent", "I2Sent", "R2Sent", "Established"}
      [] type = "R2" -> {"I2Sent"}

AllowedStates(type) ==
    CASE type = "I1" -> {"Unassociated", "R2Sent"}
      [] type = "R1" -> {"I1Sent"}
      [] type = "I2" -> {"Unassociated", "I1Sent", "I2Sent", "R2Sent", "Established"}
      [] type = "R2" -> {"I2Sent"}

NextState(type) ==
    CASE type = "I1" -> "Unassociated"
      [] type = "R1" -> "I2Sent"
      [] type = "I2" -> "R2Sent"
      [] type = "R2" -> "Established"

\* Packet m is handled at its receiver; fields are the connection's after it.
Handle(m, type, fields) ==
    /\ m \in net
    /\ m.type = type
    /\ conn[m.to][m.from].state \in AllowedStates(type)
    /\ conn' = [conn EXCEPT ![m.to][m.from] = [fields EXCEPT !.state = NextState(type)]]
    /\ UNCHANGED <<pc, count, calls, damaged>>

HandleI1(m) ==
    /\ Handle(m, "I1", conn[m.to][m.from])
    /\ Send([type |-> "R1", from |-> m.to, to |-> m.from, i |-> CalculateI(m.from, m.to)])
    /\ UNCHANGED <<sa, drawn, keyed>>

HandleR1(m) ==
    LET h == m.to
        p == m.from
        keys == ExchangeKeys(h, p, m.i)
        x == Fresh(h)
    IN  /\ Handle(m, "R1", [conn[h][p] EXCEPT !.puzzle = m.i, !.keys = keys, !.x = x])
        /\ Draw(h)
        /\ Send([type |-> "I2", from |-> h, to |-> p, i |-> m.i,
                 j |-> SolveR(m.i, h, p), key |-> Encrypt(keys.local, x, m.i),
                 mac |-> keys.local])
        /\ UNCHANGED <<sa, keyed>>

(***************************************************************************)
(* The responder checks the solution and, with keys it overwrites the      *)
(* connection's with, the MAC and the echo.                                *)
(***************************************************************************)
Solved(m) == VerifyPuzzle(m.i, m.j, m.from, m.to)

AuthenticI2(m, keys) == m.mac = keys.remote /\ DecryptsTo(m.key, keys.remote, m.i)

\* Variant: the answer is sent and no SA is stored.
HandleI2_unstored(m) ==
    LET h == m.to
        p == m.from
        keys == ExchangeKeys(h, p, m.i)
        y == Fresh(h)
    IN  /\ Handle(m, "I2", [conn[h][p] EXCEPT !.keys = keys, !.x = m.key.s])
        /\ Solved(m) /\ AuthenticI2(m, keys)
        /\ Draw(h)
        /\ Send([type |-> "R2", from |-> h, to |-> p,
                 key |-> Encrypt(keys.local, y, m.i), mac |-> keys.local])
        /\ UNCHANGED <<sa, keyed>>

HandleI2(m) ==
    LET h == m.to
        p == m.from
        keys == ExchangeKeys(h, p, m.i)
        y == Fresh(h)
    IN  /\ Handle(m, "I2", [conn[h][p] EXCEPT !.keys = keys, !.x = m.key.s])
        /\ Solved(m) /\ AuthenticI2(m, keys)
        /\ Draw(h)
        /\ StoreSA(h, p, m.i, m.key.s, y)
        /\ Send([type |-> "R2", from |-> h, to |-> p,
                 key |-> Encrypt(keys.local, y, m.i), mac |-> keys.local])

\* It gives up: before it touches the keys, or after.
RejectI2(m) ==
    LET h == m.to
        p == m.from
        keys == ExchangeKeys(h, p, m.i)
    IN  /\ \/ /\ Handle(m, "I2", conn[h][p])
              /\ ~Solved(m)
           \/ /\ Handle(m, "I2", [conn[h][p] EXCEPT !.keys = keys])
              /\ Solved(m) /\ ~AuthenticI2(m, keys)
        /\ UNCHANGED <<net, sa, drawn, keyed>>

\* The initiator checks with the keys it has kept since the R1.
AuthenticR2(m, c) ==
    /\ m.mac = c.keys.remote
    /\ c.dh
    /\ DecryptsTo(m.key, c.keys.remote, c.puzzle)

\* Variant: the two secrets are joined in the wrong order.
HandleR2_swapped(m) ==
    LET c == conn[m.to][m.from]
    IN  /\ Handle(m, "R2", c)
        /\ AuthenticR2(m, c)
        /\ StoreSA(m.to, m.from, c.puzzle, m.key.s, c.x)
        /\ UNCHANGED <<net, drawn>>

HandleR2(m) ==
    LET c == conn[m.to][m.from]
    IN  /\ Handle(m, "R2", c)
        /\ AuthenticR2(m, c)
        /\ StoreSA(m.to, m.from, c.puzzle, c.x, m.key.s)
        /\ UNCHANGED <<net, drawn>>

RejectR2(m) ==
    LET c == conn[m.to][m.from]
    IN  /\ Handle(m, "R2", c)
        /\ ~AuthenticR2(m, c)
        /\ UNCHANGED <<net, sa, drawn, keyed>>

(***************************************************************************)
(* HIPDEX_Initiate.  It returns 0 in Succeed, 1 in GiveUp and InitiateFails.*)
(***************************************************************************)
RemoveSA(h, p) == sa' = [sa EXCEPT ![h][p] = NoSA]

Call(c) ==
    /\ pc[c] = "idle"
    /\ calls < MaxCalls
    /\ calls' = calls + 1
    /\ RemoveSA(c[1], c[2])
    /\ pc' = [pc EXCEPT ![c] = "initiate"]
    /\ count' = [count EXCEPT ![c] = 0]
    /\ UNCHANGED <<net, conn, drawn, keyed, damaged>>

Mark(h, p) ==
    conn' = [conn EXCEPT ![h][p] = [@ EXCEPT !.state = "I1Sent", !.dh = TRUE]]

\* CDexDaemon::Initiate: the state is set before the packet is sent.
Initiate(c) ==
    /\ Mark(c[1], c[2])
    /\ Send([type |-> "I1", from |-> c[1], to |-> c[2]])

FirstTry(c) ==
    /\ pc[c] = "initiate"
    /\ Initiate(c)
    /\ pc' = [pc EXCEPT ![c] = "poll"]
    /\ UNCHANGED <<sa, drawn, keyed, count, calls, damaged>>

\* Variant: tries are not counted.
Timeout_uncounted(c) ==
    /\ pc[c] = "poll"
    /\ count[c] <= MaxCount
    /\ Initiate(c)
    /\ UNCHANGED <<sa, drawn, keyed, pc, count, calls, damaged>>

\* A second has passed: the exchange starts again, whether or not the SA has
\* come in the meantime.  After the last count nothing more is waited for.
Timeout(c) ==
    /\ pc[c] = "poll"
    /\ count[c] <= MaxCount
    /\ Initiate(c)
    /\ count' = [count EXCEPT ![c] = @ + 1]
    /\ UNCHANGED <<sa, drawn, keyed, pc, calls, damaged>>

GiveUp(c) ==
    /\ pc[c] = "poll"
    /\ count[c] > MaxCount
    /\ pc' = [pc EXCEPT ![c] = "idle"]
    /\ UNCHANGED <<net, conn, sa, drawn, keyed, count, calls, damaged>>

Succeed(c) ==
    /\ pc[c] = "poll"
    /\ count[c] <= MaxCount
    /\ sa[c[1]][c[2]] # NoSA
    /\ pc' = [pc EXCEPT ![c] = "idle"]
    /\ UNCHANGED <<net, conn, sa, drawn, keyed, count, calls, damaged>>

\* The socket cannot be made, or the packet cannot be sent after the state has
\* been set: the exception ends the call.
InitiateFails(c) ==
    /\ \/ pc[c] = "initiate"
       \/ pc[c] = "poll" /\ count[c] <= MaxCount
    /\ \/ UNCHANGED conn
       \/ Mark(c[1], c[2])
    /\ pc' = [pc EXCEPT ![c] = "idle"]
    /\ UNCHANGED <<net, sa, drawn, keyed, count, calls, damaged>>

\* HIPDEX_RemoveSA, by the application.
AppRemoves(h, p) ==
    /\ RemoveSA(h, p)
    /\ UNCHANGED <<net, conn, drawn, keyed, pc, count, calls, damaged>>

(***************************************************************************)
(* The network damages a packet: its puzzle, its solution or what its MAC  *)
(* covers, without the checksum showing it.                                *)
(***************************************************************************)
Damage(m) ==
    /\ damaged < MaxDamaged
    /\ damaged' = damaged + 1
    /\ \/ m.type = "R1" /\ Send([m EXCEPT !.i = NoPuzzle])
       \/ m.type = "I2" /\ Send([m EXCEPT !.j.i = NoPuzzle])
       \/ m.type \in {"I2", "R2"} /\ Send([m EXCEPT !.mac = NoKey])
    /\ UNCHANGED <<conn, sa, drawn, keyed, pc, count, calls>>

InitiateStep(c) ==
    \/ FirstTry(c) \/ Timeout(c) \/ GiveUp(c) \/ Succeed(c) \/ InitiateFails(c)

HandlePacket(m) ==
    \/ HandleI1(m) \/ HandleR1(m) \/ HandleR2(m) \/ RejectR2(m)
    \/ HandleI2(m) \/ RejectI2(m)

Next ==
    \/ \E c \in Calls : Call(c) \/ InitiateStep(c)
    \/ \E m \in net : HandlePacket(m) \/ Damage(m)
    \/ \E h \in Hosts, p \in Hosts : AppRemoves(h, p)

Spec == Init /\ [][Next]_vars

\* HIPDEX_Initiate loops without blocking, and its clock runs while it does.
FairSpec == Spec /\ \A c \in Calls : WF_vars(InitiateStep(c))

-----------------------------------------------------------------------------
Key == [keymat : [hits : SUBSET Hosts, i : Puzzle \cup {NoPuzzle},
                  input : {<<{h, p}>> : h, p \in Hosts} \cup (Secret \X Secret) \cup {<<>>}],
        front : BOOLEAN]
Keys == [local : Key, remote : Key]
Cipher == [k : Key, s : Secret, echo : Puzzle \cup {NoPuzzle}]

Packet ==
    [type : {"I1"}, from : Hosts, to : Hosts]
    \cup [type : {"R1"}, from : Hosts, to : Hosts, i : Puzzle \cup {NoPuzzle}]
    \cup [type : {"I2"}, from : Hosts, to : Hosts, i : Puzzle \cup {NoPuzzle},
          j : [i : Puzzle \cup {NoPuzzle}, hits : Hosts \X Hosts], key : Cipher, mac : Key]
    \cup [type : {"R2"}, from : Hosts, to : Hosts, key : Cipher, mac : Key]

State == {"Unassociated", "I1Sent", "I2Sent", "R2Sent", "Established"}

Connection ==
    [state : State, dh : BOOLEAN, puzzle : Puzzle \cup {NoPuzzle}, keys : Keys,
     x : Secret \cup {NoSecret}]

\* Types of the variables.
TypeOK ==
    /\ net \subseteq Packet
    /\ conn \in [Hosts -> [Hosts -> Connection]]
    /\ sa \in [Hosts -> [Hosts -> Keys]]
    /\ drawn \in [Hosts -> 0..MaxSecrets]
    /\ keyed \subseteq [host : Hosts, peer : Hosts, i : Puzzle, x : Secret, y : Secret]
    /\ pc \in [Calls -> {"idle", "initiate", "poll"}]
    /\ count \in [Calls -> 0..(MaxCount + 1)]
    /\ calls \in 0..MaxCalls
    /\ damaged \in 0..MaxDamaged

\* An initiator never holds keys its peer has not: whenever it stores an SA, the
\* responder has stored one from the same secret Y before.  (That of X may be
\* another: an R2 does not say which I2 it answers.)
InitiatorHasPeer ==
    \A e \in keyed : e.i[1] = e.host =>
        \E f \in keyed : /\ f.host = e.peer /\ f.peer = e.host
                        /\ f.i = e.i /\ f.y = e.y

\* Exchanges of both directions never mix: all SAs two hosts ever store for each
\* other come from exchanges one of them has initiated.  (Whoever has initiated
\* never answers an I1 of that peer again.)
OneDirection ==
    \A e, f \in keyed :
        {e.host, e.peer} = {f.host, f.peer} => e.i = f.i

\* If neither host has had to draw a second secret, what one encrypts the other
\* decrypts: the two ends of an SA derive the same keys the other way round.
\* (With retries or duplicates the code does not promise that.)
KeysAgreeIfOnce ==
    \A h, p \in Hosts :
        /\ drawn[h] <= 1 /\ drawn[p] <= 1
        /\ sa[h][p] # NoSA /\ sa[p][h] # NoSA
        => sa[h][p].local = sa[p][h].remote /\ sa[h][p].remote = sa[p][h].local

\* The state moves on even if the handler has refused the packet, and an exchange
\* that has been refused is only mended by the next try.  But while nothing is
\* damaged no packet is refused, in any order, duplicated or late, and with both
\* ends initiating: the keys an R2 is checked with are those its sender used.
NoneRefused ==
    damaged = 0 =>
        \A m \in net :
            /\ m.type = "I2" => /\ Solved(m)
                               /\ AuthenticI2(m, ExchangeKeys(m.to, m.from, m.i))
            /\ m.type = "R2" /\ conn[m.to][m.from].state \in AllowedStates("R2")
               => AuthenticR2(m, conn[m.to][m.from])

\* HIPDEX_Initiate returns, whatever happens to the packets.
InitiateReturns == \A c \in Calls : pc[c] # "idle" ~> pc[c] = "idle"
=============================================================================
