--------------------------- MODULE Daemon_proofs ---------------------------
(***************************************************************************)
(* Proofs about the HIP-DEX daemon.  First the two things that its threads *)
(* and those of the gateway share without being protected all the way: the *)
(* entries of the SA database and the counted references to connections.   *)
(* Then its packets: that every packet is received as it was sent, and     *)
(* that the checksum refuses one with a damaged byte.  These rest on       *)
(* induction over lengths and numbers, for which RequestKey_proofs has a   *)
(* lemma (SetInduction).                                                   *)
(***************************************************************************)
EXTENDS SaDb, ConnectionFactory, Packets, RequestKey_proofs

(***************************************************************************)
(* The SA database.                                                        *)
(***************************************************************************)
\* While nobody has interfered, the index a caller has found is that of its
\* peer's entry, the storage it reads from is in use, and the entry it has
\* read is its peer's.
SearchInv ==
    \A t \in Caller : ~disturbed[t] =>
        /\ stage[t] \in {"found", "based"} =>
              index[t] \in DOMAIN db /\ rIP[db[index[t]]] = arIP[t]
        /\ stage[t] = "based" => base[t] = size
        /\ stage[t] = "have" => entry[t] \in live /\ rIP[entry[t]] = arIP[t]

DbInv == SaTypeOK /\ OneEntryPerPeer /\ SearchInv

LEMMA DbInvInit == SaInit => DbInv
  <1> SUFFICES ASSUME SaInit PROVE DbInv
    OBVIOUS
  <1>1. SaTypeOK
    BY DEF SaInit, SaTypeOK
  <1>2. DOMAIN db = {}
    BY DEF SaInit
  <1>3. OneEntryPerPeer
    BY <1>2 DEF SaInit, OneEntryPerPeer
  <1>4. SearchInv
    BY DEF SaInit, SearchInv
  <1> QED
    BY <1>1, <1>3, <1>4 DEF DbInv

\* The elements of a vector after an erasure.
LEMMA Erased ==
    ASSUME NEW S, NEW s \in Seq(S), NEW k \in DOMAIN s
    PROVE  /\ Erase(s, k) \in Seq(S)
           /\ Len(Erase(s, k)) = Len(s) - 1
           /\ \A j \in 1..(Len(s) - 1) : Erase(s, k)[j] = IF j < k THEN s[j] ELSE s[j + 1]
  <1>1. k \in 1..Len(s) /\ Len(s) \in Nat \ {0}
    OBVIOUS
  <1>2. \A j \in 1..(Len(s) - 1) : s[j] \in S /\ s[j + 1] \in S
    OBVIOUS
  <1> QED
    BY <1>1, <1>2 DEF Erase

\* In terms of positions: those before the k-th keep their place, those behind
\* it move down by one, and nothing else is in the vector.
LEMMA Shifted ==
    ASSUME NEW S, NEW s \in Seq(S), NEW k \in DOMAIN s, NEW r, r = Erase(s, k)
    PROVE  /\ r \in Seq(S)
           /\ Len(r) = Len(s) - 1
           /\ \A j \in DOMAIN s : j < k => j \in DOMAIN r /\ r[j] = s[j]
           /\ \A j \in DOMAIN s : j > k => j - 1 \in DOMAIN r /\ r[j - 1] = s[j]
           /\ \A j \in DOMAIN r : IF j < k THEN j \in DOMAIN s /\ r[j] = s[j]
                                  ELSE j + 1 \in DOMAIN s /\ r[j] = s[j + 1]
  <1>1. k \in 1..Len(s) /\ Len(s) \in Nat
    OBVIOUS
  <1>2. /\ r \in Seq(S) /\ Len(r) = Len(s) - 1
        /\ \A j \in 1..(Len(s) - 1) : r[j] = IF j < k THEN s[j] ELSE s[j + 1]
    BY Erased
  <1>3. DOMAIN r = 1..(Len(s) - 1) /\ DOMAIN s = 1..Len(s)
    BY <1>2
  <1> QED
    BY <1>1, <1>2, <1>3

\* What is left of a sound database when the entry of a peer is erased.
LEMMA ErasedIsSound ==
    ASSUME SaTypeOK, OneEntryPerPeer, NEW p, NEW k \in DOMAIN db, rIP[db[k]] = p,
           NEW r, r = Erase(db, k)
    PROVE  /\ r \in Seq(Entry)
           /\ {r[j] : j \in DOMAIN r} = live \ {db[k]}
           /\ \A j \in DOMAIN r : rIP[r[j]] # p
           /\ \A j, l \in DOMAIN r : rIP[r[j]] = rIP[r[l]] => j = l
           /\ \A j \in DOMAIN db : j < k => j \in DOMAIN r /\ r[j] = db[j]
  <1>1. db \in Seq(Entry)
    BY DEF SaTypeOK
  <1>2. /\ r \in Seq(Entry)
        /\ \A j \in DOMAIN db : j < k => j \in DOMAIN r /\ r[j] = db[j]
        /\ \A j \in DOMAIN db : j > k => j - 1 \in DOMAIN r /\ r[j - 1] = db[j]
        /\ \A j \in DOMAIN r : IF j < k THEN j \in DOMAIN db /\ r[j] = db[j]
                               ELSE j + 1 \in DOMAIN db /\ r[j] = db[j + 1]
    BY <1>1, Shifted
  <1>3. \A j, l \in DOMAIN db : rIP[db[j]] = rIP[db[l]] => j = l
    BY DEF OneEntryPerPeer
  <1>4. DOMAIN db \subseteq Nat /\ DOMAIN r \subseteq Nat /\ k \in Nat
    BY <1>1, <1>2
  <1>5. ASSUME NEW j \in DOMAIN r
        PROVE  \E l \in DOMAIN db : l # k /\ r[j] = db[l] /\ l = IF j < k THEN j ELSE j + 1
    BY <1>2, <1>4
  <1>6. \A j \in DOMAIN r : rIP[r[j]] # p
    BY <1>3, <1>5
  <1>7. \A j, l \in DOMAIN r : rIP[r[j]] = rIP[r[l]] => j = l
    <2> SUFFICES ASSUME NEW j \in DOMAIN r, NEW l \in DOMAIN r, rIP[r[j]] = rIP[r[l]]
                 PROVE  j = l
      OBVIOUS
    <2>1. PICK a \in DOMAIN db : r[j] = db[a] /\ a = IF j < k THEN j ELSE j + 1
      BY <1>5
    <2>2. PICK b \in DOMAIN db : r[l] = db[b] /\ b = IF l < k THEN l ELSE l + 1
      BY <1>5
    <2>3. a = b
      BY <1>3, <2>1, <2>2
    <2> QED
      BY <1>4, <2>1, <2>2, <2>3
  <1>8. {r[j] : j \in DOMAIN r} = live \ {db[k]}
    <2>1. live = {db[j] : j \in DOMAIN db}
      BY DEF OneEntryPerPeer
    <2>2. ASSUME NEW j \in DOMAIN r PROVE r[j] \in live \ {db[k]}
      BY <1>3, <1>5, <2>1
    <2>3. ASSUME NEW e \in live \ {db[k]} PROVE \E j \in DOMAIN r : r[j] = e
      <3>1. PICK j \in DOMAIN db : e = db[j]
        BY <2>1
      <3>2. j < k \/ j > k
        BY <1>4, <3>1
      <3> QED
        BY <1>2, <3>1, <3>2
    <2> QED
      BY <2>2, <2>3
  <1> QED
    BY <1>2, <1>6, <1>7, <1>8

\* A new entry of a peer that has none, at an address that is free.
LEMMA AppendedIsSound ==
    ASSUME NEW r \in Seq(Entry), NEW used, used = {r[j] : j \in DOMAIN r},
           rIP \in [Entry -> Peer], NEW p \in Peer,
           \A j \in DOMAIN r : rIP[r[j]] # p,
           \A j, l \in DOMAIN r : rIP[r[j]] = rIP[r[l]] => j = l,
           NEW a \in Entry \ used,
           db' = Append(r, a), live' = used \cup {a}, rIP' = [rIP EXCEPT ![a] = p]
    PROVE  /\ db' \in Seq(Entry) /\ live' \subseteq Entry /\ rIP' \in [Entry -> Peer]
           /\ OneEntryPerPeer'
           /\ \A j \in DOMAIN r : j \in DOMAIN db' /\ db'[j] = r[j]
           /\ \A e \in used : e \in live' /\ rIP'[e] = rIP[e]
  <1>1. /\ db' \in Seq(Entry)
        /\ \A j \in DOMAIN r : j \in DOMAIN db' /\ db'[j] = r[j]
        /\ Len(r) + 1 \in DOMAIN db' /\ db'[Len(r) + 1] = a
        /\ \A j \in DOMAIN db' : j \in DOMAIN r \/ j = Len(r) + 1
    OBVIOUS
  <1>2. used \subseteq Entry
    OBVIOUS
  <1>3. \A e \in used : e \in live' /\ rIP'[e] = rIP[e]
    BY <1>2
  <1>4. rIP'[a] = p /\ rIP' \in [Entry -> Peer]
    OBVIOUS
  <1>5. \A j \in DOMAIN r : rIP'[db'[j]] = rIP[r[j]]
    BY <1>1, <1>3
  <1>6. live' = {db'[j] : j \in DOMAIN db'}
    BY <1>1
  <1>7. ASSUME NEW j \in DOMAIN db', NEW l \in DOMAIN db', rIP'[db'[j]] = rIP'[db'[l]]
        PROVE  j = l
    BY <1>1, <1>4, <1>5, <1>7
  <1> QED
    BY <1>1, <1>2, <1>3, <1>4, <1>6, <1>7 DEF OneEntryPerPeer

\* StoreSA, of a peer that has no entry.
LEMMA StoreNewStep ==
    ASSUME DbInv, NEW p \in Peer, StoreNew(p)
    PROVE  DbInv'
  <1>1. SaTypeOK /\ OneEntryPerPeer /\ SearchInv
    BY DEF DbInv
  <1>2. PICK a \in Entry \ live :
              db' = Append(db, a) /\ live' = live \cup {a} /\ rIP' = [rIP EXCEPT ![a] = p]
    BY DEF StoreNew
  <1>3. /\ db \in Seq(Entry) /\ live = {db[j] : j \in DOMAIN db} /\ rIP \in [Entry -> Peer]
        /\ \A j, l \in DOMAIN db : rIP[db[j]] = rIP[db[l]] => j = l
    BY <1>1 DEF SaTypeOK, OneEntryPerPeer
  <1>4. \A j \in DOMAIN db : rIP[db[j]] # p
    BY DEF StoreNew, Unknown
  <1>5. /\ db' \in Seq(Entry) /\ live' \subseteq Entry /\ rIP' \in [Entry -> Peer]
        /\ OneEntryPerPeer'
        /\ \A j \in DOMAIN db : j \in DOMAIN db' /\ db'[j] = db[j]
        /\ \A e \in live : e \in live' /\ rIP'[e] = rIP[e]
    BY <1>2, <1>3, <1>4, AppendedIsSound
  <1>6. UNCHANGED searchVars
    BY DEF StoreNew
  <1>7. \/ UNCHANGED <<size, disturbed>>
        \/ /\ size' \in Nat
           /\ disturbed' = [t \in Caller |-> disturbed[t] \/ stage[t] = "based"]
    BY <1>1 DEF StoreNew, SaTypeOK
  <1>8. SaTypeOK'
    <2>1. size' \in Nat /\ disturbed' \in [Caller -> BOOLEAN]
      BY <1>1, <1>7 DEF SaTypeOK
    <2> QED
      BY <1>1, <1>5, <1>6, <2>1 DEF SaTypeOK, searchVars
  <1>9. SearchInv'
    <2> SUFFICES ASSUME NEW t \in Caller, ~disturbed'[t]
                 PROVE  /\ stage'[t] \in {"found", "based"} =>
                             index'[t] \in DOMAIN db' /\ rIP'[db'[index'[t]]] = arIP'[t]
                        /\ stage'[t] = "based" => base'[t] = size'
                        /\ stage'[t] = "have" => entry'[t] \in live' /\ rIP'[entry'[t]] = arIP'[t]
      BY DEF SearchInv
    <2>1. ~disturbed[t] /\ (stage[t] = "based" => size' = size)
      BY <1>7
    <2>2. /\ stage[t] \in {"found", "based"} =>
                index[t] \in DOMAIN db /\ rIP[db[index[t]]] = arIP[t]
          /\ stage[t] = "based" => base[t] = size
          /\ stage[t] = "have" => entry[t] \in live /\ rIP[entry[t]] = arIP[t]
      BY <1>1, <2>1 DEF SearchInv
    <2>3. \A j \in DOMAIN db : j \in DOMAIN db' /\ rIP'[db'[j]] = rIP[db[j]]
      BY <1>3, <1>5
    <2> QED
      BY <1>5, <1>6, <2>1, <2>2, <2>3 DEF searchVars
  <1> QED
    BY <1>5, <1>8, <1>9 DEF DbInv

\* What both operations that erase the entry of a peer leave to the callers.
LEMMA ErasureKeepsSearches ==
    ASSUME DbInv, NEW p, NEW k \in DOMAIN db, rIP[db[k]] = p, Disturbing(k, p),
           UNCHANGED <<size, searchVars>>,
           \A j \in DOMAIN db : j < k => j \in DOMAIN db' /\ rIP'[db'[j]] = rIP[db[j]],
           \A e \in live \ {db[k]} : e \in live' /\ rIP'[e] = rIP[e]
    PROVE  SearchInv' /\ disturbed' \in [Caller -> BOOLEAN]
  <1>1. SaTypeOK /\ OneEntryPerPeer /\ SearchInv
    BY DEF DbInv
  <1>2. disturbed' \in [Caller -> BOOLEAN]
    BY <1>1 DEF Disturbing, SaTypeOK
  <1>3. SearchInv'
    <2> SUFFICES ASSUME NEW t \in Caller, ~disturbed'[t]
                 PROVE  /\ stage'[t] \in {"found", "based"} =>
                             index'[t] \in DOMAIN db' /\ rIP'[db'[index'[t]]] = arIP'[t]
                        /\ stage'[t] = "based" => base'[t] = size'
                        /\ stage'[t] = "have" => entry'[t] \in live' /\ rIP'[entry'[t]] = arIP'[t]
      BY DEF SearchInv
    <2>1. /\ ~disturbed[t]
          /\ stage[t] \in {"found", "based"} => ~(k <= index[t])
          /\ stage[t] = "have" => arIP[t] # p
      BY DEF Disturbing
    <2>2. /\ stage[t] \in {"found", "based"} =>
                index[t] \in DOMAIN db /\ rIP[db[index[t]]] = arIP[t]
          /\ stage[t] = "based" => base[t] = size
          /\ stage[t] = "have" => entry[t] \in live /\ rIP[entry[t]] = arIP[t]
      BY <1>1, <2>1 DEF SearchInv
    <2>3. k \in Nat /\ index[t] \in Nat
      BY <1>1 DEF SaTypeOK
    <2>4. stage[t] = "have" => entry[t] \in live \ {db[k]}
      BY <2>1, <2>2
    <2> QED
      BY <2>1, <2>2, <2>3, <2>4 DEF searchVars
  <1> QED
    BY <1>2, <1>3

\* StoreSA, of a peer that has an entry.
LEMMA StoreAgainStep ==
    ASSUME DbInv, NEW p \in Peer, StoreAgain(p)
    PROVE  DbInv'
  <1>1. SaTypeOK /\ OneEntryPerPeer
    BY DEF DbInv
  <1>2. PICK k \in DOMAIN db :
            /\ IsFirst(k, p)
            /\ \E a \in Entry \ (live \ {db[k]}) :
                  /\ db' = Append(Erase(db, k), a)
                  /\ live' = (live \ {db[k]}) \cup {a}
                  /\ rIP' = [rIP EXCEPT ![a] = p]
            /\ Disturbing(k, p)
            /\ UNCHANGED <<size, searchVars>>
    BY DEF StoreAgain
  <1> DEFINE r == Erase(db, k)
             used == live \ {db[k]}
  <1>3. PICK a \in Entry \ used :
            db' = Append(r, a) /\ live' = used \cup {a} /\ rIP' = [rIP EXCEPT ![a] = p]
    BY <1>2
  <1>4. rIP[db[k]] = p
    BY <1>2 DEF IsFirst
  <1>5. /\ r \in Seq(Entry) /\ {r[j] : j \in DOMAIN r} = used
        /\ \A j \in DOMAIN r : rIP[r[j]] # p
        /\ \A j, l \in DOMAIN r : rIP[r[j]] = rIP[r[l]] => j = l
        /\ \A j \in DOMAIN db : j < k => j \in DOMAIN r /\ r[j] = db[j]
    BY <1>1, <1>4, ErasedIsSound
  <1>6. rIP \in [Entry -> Peer]
    BY <1>1 DEF SaTypeOK
  <1> HIDE DEF r, used
  <1>7. /\ db' \in Seq(Entry) /\ live' \subseteq Entry /\ rIP' \in [Entry -> Peer]
        /\ OneEntryPerPeer'
        /\ \A j \in DOMAIN r : j \in DOMAIN db' /\ db'[j] = r[j]
        /\ \A e \in used : e \in live' /\ rIP'[e] = rIP[e]
    BY <1>3, <1>5, <1>6, AppendedIsSound
  <1>8. \A j \in DOMAIN db : j < k => j \in DOMAIN db' /\ rIP'[db'[j]] = rIP[db[j]]
    BY <1>5, <1>7
  <1>9. SearchInv' /\ disturbed' \in [Caller -> BOOLEAN]
    BY <1>2, <1>4, <1>7, <1>8, ErasureKeepsSearches DEF used
  <1>10. SaTypeOK'
    BY <1>1, <1>2, <1>7, <1>9 DEF SaTypeOK, searchVars
  <1> QED
    BY <1>7, <1>9, <1>10 DEF DbInv

LEMMA RemoveStep ==
    ASSUME DbInv, NEW p \in Peer, RemoveSA(p)
    PROVE  DbInv'
  <1>1. SaTypeOK /\ OneEntryPerPeer
    BY DEF DbInv
  <1>2. PICK k \in DOMAIN db :
            /\ IsFirst(k, p)
            /\ db' = Erase(db, k)
            /\ live' = live \ {db[k]}
            /\ Disturbing(k, p)
            /\ UNCHANGED <<size, rIP, searchVars>>
    BY DEF RemoveSA
  <1>3. rIP[db[k]] = p
    BY <1>2 DEF IsFirst
  <1>4. /\ db' \in Seq(Entry) /\ {db'[j] : j \in DOMAIN db'} = live \ {db[k]}
        /\ \A j, l \in DOMAIN db' : rIP[db'[j]] = rIP[db'[l]] => j = l
        /\ \A j \in DOMAIN db : j < k => j \in DOMAIN db' /\ db'[j] = db[j]
    BY <1>1, <1>2, <1>3, ErasedIsSound
  <1>5. OneEntryPerPeer'
    BY <1>2, <1>4 DEF OneEntryPerPeer
  <1>6. SearchInv' /\ disturbed' \in [Caller -> BOOLEAN]
    BY <1>2, <1>3, <1>4, ErasureKeepsSearches
  <1>7. SaTypeOK'
    BY <1>1, <1>2, <1>4, <1>6 DEF SaTypeOK, searchVars
  <1> QED
    BY <1>5, <1>6, <1>7 DEF DbInv

\* The steps of FindSA and of its caller.
LEMMA SearchStep ==
    ASSUME DbInv, NEW t \in Caller, Search(t)
    PROVE  DbInv'
  <1>1. SaTypeOK /\ OneEntryPerPeer /\ SearchInv
    BY DEF DbInv
  <1>2. UNCHANGED tableVars
    BY DEF Search, FindSA, ReadBase, ReadElement, Finish
  <1>3. OneEntryPerPeer'
    BY <1>1, <1>2 DEF OneEntryPerPeer, tableVars
  <1>4. db \in Seq(Entry) /\ DOMAIN db = 1..Len(db) /\ Len(db) \in Nat
    BY <1>1 DEF SaTypeOK
  <1>5. CASE \E p \in Peer : FindSA(t, p)
    <2>1. PICK p \in Peer : FindSA(t, p)
      BY <1>5
    <2>2. PICK k \in DOMAIN db : IsFirst(k, p) /\ index' = [index EXCEPT ![t] = k]
      BY <2>1 DEF FindSA
    <2>3. SaTypeOK'
      BY <1>1, <1>2, <1>4, <2>1, <2>2 DEF FindSA, SaTypeOK, tableVars
    <2>4. SearchInv'
      BY <1>1, <1>2, <2>1, <2>2 DEF FindSA, SaTypeOK, SearchInv, IsFirst, tableVars
    <2> QED
      BY <1>3, <2>3, <2>4 DEF DbInv
  <1>6. CASE ReadBase(t)
    <2>1. SaTypeOK'
      BY <1>1, <1>2, <1>6 DEF ReadBase, SaTypeOK, tableVars
    <2>2. SearchInv'
      BY <1>1, <1>2, <1>6 DEF ReadBase, SaTypeOK, SearchInv, tableVars
    <2> QED
      BY <1>3, <2>1, <2>2 DEF DbInv
  <1>7. CASE ReadElement(t)
    <2>1. PICK e \in Element(t) : entry' = [entry EXCEPT ![t] = e]
      BY <1>7 DEF ReadElement
    <2>2. index[t] \in Nat \ {0}
      BY <1>1 DEF SaTypeOK
    <2>3. ~disturbed[t] => e = db[index[t]] /\ index[t] \in DOMAIN db /\ rIP[db[index[t]]] = arIP[t]
      BY <1>1, <1>4, <1>7, <2>1 DEF ReadElement, SearchInv, Element
    <2>4. e \in Entry
      <3>1. CASE base[t] = size /\ index[t] <= Len(db)
        BY <1>4, <2>1, <2>2, <3>1 DEF Element
      <3>2. CASE ~(base[t] = size /\ index[t] <= Len(db))
        BY <2>1, <3>2 DEF Element
      <3> QED
        BY <3>1, <3>2
    <2>5. SaTypeOK'
      BY <1>1, <1>2, <1>7, <2>1, <2>4 DEF ReadElement, SaTypeOK, tableVars
    <2>6. SearchInv'
      BY <1>1, <1>2, <1>7, <2>1, <2>3 DEF ReadElement, SaTypeOK, SearchInv, OneEntryPerPeer, tableVars
    <2> QED
      BY <1>3, <2>5, <2>6 DEF DbInv
  <1>8. CASE Finish(t)
    <2>1. SaTypeOK'
      BY <1>1, <1>2, <1>8 DEF Finish, SaTypeOK, tableVars
    <2>2. SearchInv'
      BY <1>1, <1>2, <1>8 DEF Finish, SaTypeOK, SearchInv, tableVars
    <2> QED
      BY <1>3, <2>1, <2>2 DEF DbInv
  <1> QED
    BY <1>5, <1>6, <1>7, <1>8 DEF Search

LEMMA DbInvNext == DbInv /\ [SaNext]_saVars => DbInv'
  <1> SUFFICES ASSUME DbInv, [SaNext]_saVars PROVE DbInv'
    OBVIOUS
  <1>1. ASSUME NEW p \in Peer, StoreNew(p) PROVE DbInv'
    BY <1>1, StoreNewStep
  <1>2. ASSUME NEW p \in Peer, StoreAgain(p) PROVE DbInv'
    BY <1>2, StoreAgainStep
  <1>3. ASSUME NEW p \in Peer, RemoveSA(p) PROVE DbInv'
    BY <1>3, RemoveStep
  <1>4. ASSUME NEW t \in Caller, Search(t) PROVE DbInv'
    BY <1>4, SearchStep
  <1>5. CASE UNCHANGED saVars
    BY <1>5 DEF DbInv, SaTypeOK, OneEntryPerPeer, SearchInv, saVars, tableVars, searchVars
  <1> QED
    BY <1>1, <1>2, <1>3, <1>4, <1>5 DEF SaNext, Store

\* SaTypeOK, for every number of peers, addresses and callers.
THEOREM DatabaseTypeCorrect == SaSpec => []SaTypeOK
  <1>1. DbInv => SaTypeOK
    BY DEF DbInv
  <1> QED
    BY DbInvInit, DbInvNext, <1>1, PTL DEF SaSpec

\* StoreSA and RemoveSA keep the database sound: at most one entry per peer, and
\* the allocated entries are those that are listed.
THEOREM DatabaseSound == SaSpec => []OneEntryPerPeer
  <1>1. DbInv => OneEntryPerPeer
    BY DEF DbInv
  <1> QED
    BY DbInvInit, DbInvNext, <1>1, PTL DEF SaSpec

\* FindSA and its caller: the entry that is used is the peer's own and
\* allocated, unless one of the three interferences has happened.
THEOREM OwnEntryUsed == SaSpec => []UsesOwnEntry
  <1>1. DbInv => UsesOwnEntry
    BY DEF DbInv, SearchInv, UsesOwnEntry
  <1> QED
    BY DbInvInit, DbInvNext, <1>1, PTL DEF SaSpec

-----------------------------------------------------------------------------
(***************************************************************************)
(* The references to connections.                                          *)
(***************************************************************************)
\* The factory's reference and those of the threads.
References(x) == 1 + Cardinality(Owners(x))

\* Where a thread is in Create and in the destructor.
Shape ==
    /\ \A t \in Thread :
          /\ pc[t] \in {"idle", "create", "drop"} => part[t] = "iMutex"
          /\ pc[t] = "use" => part[t] = "iValue"
          /\ pc[t] \in {"create", "copy", "increment"} => factory = t
          /\ pc[t] \notin {"idle", "create"} => aHit[t] \in iConnections
    /\ \A x \in deleted \cup mixed : x[1] \in iConnections
    /\ overtaken \subseteq mixed

\* No counter is too low, nor will the one a thread is about to write be, nor is
\* the number zero that a destructor tests.
Enough(x) ==
    /\ x \notin deleted
    /\ iCount[x] >= References(x)
    /\ \A t \in Thread : At(t) = x =>
          /\ pc[t] \in {"increment", "decrement"} => read[t] >= References(x)
          /\ pc[t] = "test" => read[t] >= 2

\* A counter is right, and so is the number that the only thread that is about
\* to change it has read.
Exact(x) ==
    /\ iCount[x] = References(x)
    /\ \A t \in Changing(x) : read[t] = References(x)
    /\ \A t, u \in Changing(x) : t = u

Counted(x) == (x \notin overtaken => Enough(x)) /\ (x \notin mixed => Exact(x))

FactoryInv ==
    /\ TypeOK
    /\ Shape
    /\ \A x \in Counter : x[1] \in iConnections => Counted(x)

LEMMA FactoryInit == Init => FactoryInv
  <1> SUFFICES ASSUME Init PROVE FactoryInv
    OBVIOUS
  <1>1. TypeOK
    BY FactoryAssumption DEF Init, TypeOK, Part
  <1>2. Shape
    BY DEF Init, Shape
  <1> QED
    BY <1>1, <1>2 DEF Init, FactoryInv

LEMMA ReferencesType ==
    \A x : References(x) \in Nat \ {0} /\ IsFiniteSet(Owners(x))
  <1> SUFFICES ASSUME NEW x PROVE References(x) \in Nat \ {0} /\ IsFiniteSet(Owners(x))
    OBVIOUS
  <1>1. IsFiniteSet(Owners(x))
    BY FactoryAssumption, FS_Subset DEF Owners
  <1>2. Cardinality(Owners(x)) \in Nat
    BY <1>1, FS_CardinalityType
  <1> QED
    BY <1>1, <1>2 DEF References

LEMMA OwnerCounts ==
    ASSUME NEW x, NEW t \in Owners(x)
    PROVE  References(x) >= 2
  <1>1. Cardinality(Owners(x) \ {t}) = Cardinality(Owners(x)) - 1
    BY ReferencesType, FS_RemoveElement
  <1>2. Cardinality(Owners(x) \ {t}) \in Nat /\ Cardinality(Owners(x)) \in Nat
    BY ReferencesType, FS_Subset, FS_CardinalityType
  <1> QED
    BY <1>1, <1>2 DEF References

\* The locals of the other threads stay as they are.
Only(t) ==
    \A u \in Thread \ {t} :
        pc'[u] = pc[u] /\ aHit'[u] = aHit[u] /\ part'[u] = part[u] /\ read'[u] = read[u]

LEMMA OneThreadMoves ==
    ASSUME TypeOK, NEW t \in Thread, Create(t) \/ Destroy(t)
    PROVE  Only(t)
  <1> USE DEF TypeOK, Only
  <1>1. ASSUME NEW h \in Hit, EnterCreate(t, h) PROVE Only(t)
    BY <1>1 DEF EnterCreate
  <1>2. CASE CreateNew(t)
    BY <1>2 DEF CreateNew
  <1>3. CASE CreateFound(t)
    BY <1>3 DEF CreateFound
  <1>4. CASE CopyRead(t)
    BY <1>4 DEF CopyRead, Read
  <1>5. CASE CopyWrite(t)
    BY <1>5 DEF CopyWrite
  <1>6. CASE DropRead(t)
    BY <1>6 DEF DropRead, Read
  <1>7. CASE DropWrite(t)
    BY <1>7 DEF DropWrite
  <1>8. CASE DropTest(t)
    BY <1>8 DEF DropTest
  <1> QED
    BY <1>1, <1>2, <1>3, <1>4, <1>5, <1>6, <1>7, <1>8 DEF Create, Destroy

\* What a step of one thread does to the owners of a counter.
LEMMA OwnersKept ==
    ASSUME NEW t \in Thread, Only(t), Owned(t)' = Owned(t),
           aHit'[t] = aHit[t] \/ Owned(t) = {}
    PROVE  \A x : Owners(x)' = Owners(x) /\ References(x)' = References(x)
  <1> SUFFICES ASSUME NEW x PROVE Owners(x)' = Owners(x)
    BY DEF References
  <1>1. \A u \in Thread \ {t} : aHit'[u] = aHit[u] /\ Owned(u)' = Owned(u)
    BY DEF Only, Owned
  <1> QED
    BY <1>1 DEF Owners

LEMMA OwnerGained ==
    ASSUME NEW t \in Thread, Only(t), aHit'[t] = aHit[t], NEW p,
           p \notin Owned(t), Owned(t)' = Owned(t) \cup {p}
    PROVE  \A x \in Counter :
              References(x)' = IF x = <<aHit[t], p>> THEN References(x) + 1 ELSE References(x)
  <1> SUFFICES ASSUME NEW x \in Counter
               PROVE  References(x)' = IF x = <<aHit[t], p>> THEN References(x) + 1
                                       ELSE References(x)
    OBVIOUS
  <1>0. x = <<x[1], x[2]>>
    BY DEF Counter
  <1>1. \A u \in Thread \ {t} : aHit'[u] = aHit[u] /\ Owned(u)' = Owned(u)
    BY DEF Only, Owned
  <1>2. CASE x = <<aHit[t], p>>
    <2>1. Owners(x)' = Owners(x) \cup {t} /\ t \notin Owners(x)
      BY <1>1, <1>2 DEF Owners
    <2>2. Cardinality(Owners(x) \cup {t}) = Cardinality(Owners(x)) + 1
      BY <2>1, ReferencesType, FS_AddElement
    <2>3. Cardinality(Owners(x)) \in Nat
      BY ReferencesType, FS_CardinalityType
    <2>4. /\ References(x) = 1 + Cardinality(Owners(x))
          /\ References(x)' = 1 + Cardinality(Owners(x)')
      BY DEF References
    <2>5. Cardinality(Owners(x)') = Cardinality(Owners(x)) + 1
      BY <2>1, <2>2
    <2> QED
      BY <1>2, <2>3, <2>4, <2>5
  <1>3. CASE x # <<aHit[t], p>>
    <2>1. Owners(x)' = Owners(x)
      BY <1>0, <1>1, <1>3 DEF Owners
    <2> QED
      BY <1>3, <2>1 DEF References
  <1> QED
    BY <1>2, <1>3

LEMMA OwnerLost ==
    ASSUME NEW t \in Thread, Only(t), aHit'[t] = aHit[t], NEW p,
           p \in Owned(t), Owned(t)' = Owned(t) \ {p}
    PROVE  \A x \in Counter :
              References(x)' = IF x = <<aHit[t], p>> THEN References(x) - 1 ELSE References(x)
  <1> SUFFICES ASSUME NEW x \in Counter
               PROVE  References(x)' = IF x = <<aHit[t], p>> THEN References(x) - 1
                                       ELSE References(x)
    OBVIOUS
  <1>0. x = <<x[1], x[2]>>
    BY DEF Counter
  <1>1. \A u \in Thread \ {t} : aHit'[u] = aHit[u] /\ Owned(u)' = Owned(u)
    BY DEF Only, Owned
  <1>2. CASE x = <<aHit[t], p>>
    <2>1. Owners(x)' = Owners(x) \ {t} /\ t \in Owners(x)
      BY <1>1, <1>2 DEF Owners
    <2>2. Cardinality(Owners(x) \ {t}) = Cardinality(Owners(x)) - 1
      BY <2>1, ReferencesType, FS_RemoveElement
    <2>3. Cardinality(Owners(x)) \in Nat
      BY ReferencesType, FS_CardinalityType
    <2>4. /\ References(x) = 1 + Cardinality(Owners(x))
          /\ References(x)' = 1 + Cardinality(Owners(x)')
      BY DEF References
    <2>5. Cardinality(Owners(x)') = Cardinality(Owners(x)) - 1
      BY <2>1, <2>2
    <2> QED
      BY <1>2, <2>3, <2>4, <2>5
  <1>3. CASE x # <<aHit[t], p>>
    <2>1. Owners(x)' = Owners(x)
      BY <1>0, <1>1, <1>3 DEF Owners
    <2> QED
      BY <1>3, <2>1 DEF References
  <1> QED
    BY <1>2, <1>3

\* A counter that a step does not touch, of which the thread that takes the step
\* is not between reading and testing.
LEMMA CountedKept ==
    ASSUME NEW t \in Thread, Only(t), NEW x \in Counter, Counted(x),
           x \in deleted' => x \in deleted, iCount'[x] = iCount[x],
           References(x)' = References(x),
           x \in overtaken => x \in overtaken', x \in mixed => x \in mixed',
           At(t)' = x => pc'[t] \notin {"increment", "decrement", "test"}
    PROVE  Counted(x)'
  <1>1. ASSUME NEW u \in Thread \ {t}
        PROVE  At(u)' = At(u) /\ pc'[u] = pc[u] /\ read'[u] = read[u]
    BY DEF Only, At
  <1>2. ASSUME x \notin overtaken' PROVE Enough(x)'
    BY <1>1, <1>2 DEF Counted, Enough
  <1>3. ASSUME x \notin mixed' PROVE Exact(x)'
    <2>1. Changing(x)' \subseteq Changing(x) /\ t \notin Changing(x)'
      BY <1>1 DEF Changing
    <2>2. Exact(x)
      BY <1>3 DEF Counted
    <2>3. \A u \in Changing(x)' : u \in Thread \ {t}
      BY <2>1 DEF Changing
    <2> QED
      BY <1>1, <2>1, <2>2, <2>3 DEF Exact
  <1> QED
    BY <1>2, <1>3 DEF Counted

LEMMA EnterStep ==
    ASSUME FactoryInv, NEW t \in Thread, NEW h \in Hit, EnterCreate(t, h)
    PROVE  FactoryInv'
  <1>1. TypeOK /\ Shape
    BY DEF FactoryInv
  <1>2. Only(t)
    BY <1>1, OneThreadMoves DEF Create
  <1>3. TypeOK'
    BY <1>1, FactoryAssumption DEF TypeOK, EnterCreate, countVars, Part
  <1>4. pc'[t] = "create" /\ part'[t] = "iMutex" /\ pc[t] = "idle" /\ factory = NULL /\ factory' = t
    BY <1>1 DEF TypeOK, EnterCreate
  <1>5. Shape'
    <2>1. \A u \in Thread : pc[u] \notin {"create", "copy", "increment"}
      BY <1>1, <1>4, FactoryAssumption DEF Shape
    <2> QED
      BY <1>1, <1>2, <1>4, <2>1 DEF Shape, Only, EnterCreate, countVars
  <1>6. Owned(t) = {} /\ Owned(t)' = {}
    BY <1>1, <1>4 DEF Owned, Shape
  <1>7. ASSUME NEW x \in Counter, x[1] \in iConnections' PROVE Counted(x)'
    <2>1. References(x)' = References(x)
      BY <1>2, <1>6, OwnersKept
    <2>2. Counted(x)
      BY <1>7 DEF FactoryInv, EnterCreate, countVars
    <2> QED
      BY <1>2, <1>4, <2>1, <2>2, CountedKept DEF EnterCreate, countVars
  <1> QED
    BY <1>3, <1>5, <1>7 DEF FactoryInv

LEMMA NewStep ==
    ASSUME FactoryInv, NEW t \in Thread, CreateNew(t)
    PROVE  FactoryInv'
  <1>1. TypeOK /\ Shape
    BY DEF FactoryInv
  <1>2. Only(t)
    BY <1>1, OneThreadMoves DEF Create
  <1>3. TypeOK'
    <2>1. iCount' \in [Counter -> Int]
      BY <1>1 DEF TypeOK, CreateNew
    <2> QED
      BY <1>1, <2>1 DEF TypeOK, CreateNew, Part
  <1>4. /\ pc'[t] = "use" /\ part'[t] = "iValue" /\ pc[t] = "create" /\ aHit'[t] = aHit[t]
        /\ aHit[t] \notin iConnections /\ aHit[t] \in Hit
        /\ iConnections' = iConnections \cup {aHit[t]} /\ factory' = NULL
    BY <1>1 DEF TypeOK, CreateNew
  <1>5. \A u \in Thread \ {t} : pc[u] \notin {"create", "copy", "increment"}
    BY <1>1, <1>4 DEF Shape
  <1>6. Shape'
    BY <1>1, <1>2, <1>4, <1>5 DEF Shape, Only, CreateNew
  <1>7. ASSUME NEW u \in Thread, aHit[u] = aHit[t] PROVE Owned(u) = {} /\ pc[u] \in {"idle", "create"}
    BY <1>1, <1>4, <1>7 DEF Shape, Owned
  <1>8. ASSUME NEW x \in Counter, x[1] = aHit[t] PROVE Counted(x)'
    <2>1. Owned(t)' = Part /\ x[2] \in Part
      BY <1>4 DEF Owned, Counter
    <2>2. \A u \in Thread \ {t} : aHit'[u] = aHit[u] /\ Owned(u)' = Owned(u) /\ pc'[u] = pc[u]
      BY <1>2 DEF Only, Owned
    <2>3. Owners(x)' = {t}
      BY <1>4, <1>7, <1>8, <2>1, <2>2 DEF Owners
    <2>4. References(x)' = 2
      BY <2>3, FS_Singleton DEF References
    <2>5. iCount'[x] = 2
      BY <1>8 DEF CreateNew
    <2>6. \A u \in Thread : At(u)' = x => pc'[u] \notin {"increment", "decrement", "test"}
      BY <1>4, <1>7, <1>8, <2>2 DEF At
    <2>7. x \notin deleted'
      BY <1>1, <1>4, <1>8 DEF Shape, CreateNew
    <2>8. Enough(x)'
      BY <2>4, <2>5, <2>6, <2>7 DEF Enough
    <2>9. Exact(x)'
      BY <2>4, <2>5, <2>6 DEF Exact, Changing
    <2> QED
      BY <2>8, <2>9 DEF Counted
  <1>9. ASSUME NEW x \in Counter, x[1] # aHit[t], x[1] \in iConnections' PROVE Counted(x)'
    <2>1. Owners(x)' = Owners(x)
      <3>1. \A u \in Thread \ {t} : aHit'[u] = aHit[u] /\ Owned(u)' = Owned(u)
        BY <1>2 DEF Only, Owned
      <3> QED
        BY <1>4, <1>9, <3>1 DEF Owners
    <2>2. References(x)' = References(x)
      BY <2>1 DEF References
    <2>3. Counted(x) /\ iCount'[x] = iCount[x]
      BY <1>4, <1>9 DEF FactoryInv, CreateNew
    <2> QED
      BY <1>2, <1>4, <2>2, <2>3, CountedKept DEF CreateNew
  <1> QED
    BY <1>3, <1>6, <1>8, <1>9 DEF FactoryInv

LEMMA FoundStep ==
    ASSUME FactoryInv, NEW t \in Thread, CreateFound(t)
    PROVE  FactoryInv'
  <1>1. TypeOK /\ Shape
    BY DEF FactoryInv
  <1>2. Only(t)
    BY <1>1, OneThreadMoves DEF Create
  <1>3. TypeOK'
    BY <1>1 DEF TypeOK, CreateFound, countVars
  <1>4. /\ pc'[t] = "copy" /\ part'[t] = "iMutex" /\ pc[t] = "create" /\ aHit'[t] = aHit[t]
        /\ aHit[t] \in iConnections
    BY <1>1 DEF TypeOK, Shape, CreateFound
  <1>5. Shape'
    BY <1>1, <1>2, <1>4 DEF Shape, Only, CreateFound, countVars
  <1>6. Owned(t) = {} /\ Owned(t)' = {}
    BY <1>1, <1>4 DEF Owned, Shape
  <1>7. ASSUME NEW x \in Counter, x[1] \in iConnections' PROVE Counted(x)'
    <2>1. References(x)' = References(x)
      BY <1>2, <1>6, OwnersKept
    <2>2. Counted(x)
      BY <1>7 DEF FactoryInv, CreateFound, countVars
    <2> QED
      BY <1>2, <1>4, <2>1, <2>2, CountedKept DEF CreateFound, countVars
  <1> QED
    BY <1>3, <1>5, <1>7 DEF FactoryInv

\* A thread reads the counter it is about to change.
LEMMA ReadStep ==
    ASSUME FactoryInv, NEW t \in Thread, CopyRead(t) \/ DropRead(t)
    PROVE  FactoryInv'
  <1>1. TypeOK /\ Shape
    BY DEF FactoryInv
  <1>2. Only(t)
    BY <1>1, OneThreadMoves DEF Create, Destroy
  <1>3. /\ UNCHANGED <<countVars, factory, calls, aHit, part, overtaken>>
        /\ Read(t)
        /\ pc' = [pc EXCEPT ![t] = pc'[t]]
        /\ \/ pc[t] = "copy" /\ pc'[t] = "increment"
           \/ pc[t] \in {"use", "drop"} /\ pc'[t] = "decrement"
    BY <1>1 DEF CopyRead, DropRead, TypeOK
  <1>y. PICK y \in Counter : y = At(t)
    BY <1>1 DEF At, Counter, TypeOK
  <1>4. y[1] = aHit[t] /\ aHit[t] \in iConnections /\ At(t)' = y
    BY <1>1, <1>3, <1>y DEF At, Shape
  <1>5. PICK n \in Value(y) : read' = [read EXCEPT ![t] = n]
    BY <1>3, <1>y DEF Read
  <1>6. n \in Int /\ read'[t] = n
    BY <1>1, <1>4, <1>5 DEF TypeOK, Value
  <1>7. mixed' = IF Changing(y) = {} THEN mixed ELSE mixed \cup {y}
    BY <1>3, <1>y DEF Read
  <1>8. TypeOK'
    <2>1. mixed' \subseteq Counter
      BY <1>1, <1>4, <1>7 DEF TypeOK
    <2> QED
      BY <1>1, <1>3, <1>5, <1>6, <2>1 DEF TypeOK, countVars
  <1>9. Shape'
    <2>1. \A x \in mixed' : x[1] \in iConnections
      BY <1>1, <1>4, <1>7 DEF Shape
    <2>2. overtaken' \subseteq mixed'
      BY <1>1, <1>3, <1>7 DEF Shape
    <2> QED
      BY <1>1, <1>2, <1>3, <2>1, <2>2 DEF Shape, Only, countVars
  <1>10. Owned(t)' = Owned(t)
    BY <1>1, <1>3 DEF Owned, Shape
  <1>11. \A x : References(x)' = References(x)
    BY <1>2, <1>3, <1>10, OwnersKept
  <1>12. ASSUME NEW x \in Counter, x[1] \in iConnections', x # y PROVE Counted(x)'
    <2>1. Counted(x)
      BY <1>3, <1>12 DEF FactoryInv, countVars
    <2>2. x \in mixed => x \in mixed'
      BY <1>7
    <2>3. deleted' = deleted /\ iCount' = iCount /\ overtaken' = overtaken
      BY <1>3 DEF countVars
    <2> QED
      BY <1>2, <1>4, <1>11, <1>12, <2>1, <2>2, <2>3, CountedKept
  <1>13. Counted(y)'
    <2>1. \A u \in Thread \ {t} : At(u)' = At(u) /\ pc'[u] = pc[u] /\ read'[u] = read[u]
      BY <1>2 DEF Only, At
    <2>2. Counted(y) /\ deleted' = deleted /\ iCount' = iCount /\ overtaken' = overtaken
      BY <1>3, <1>4 DEF FactoryInv, countVars
    <2>3. References(y)' = References(y)
      BY <1>11
    <2>4. y \notin overtaken => read'[t] = iCount[y]
      BY <1>5, <1>6, <2>2 DEF Counted, Enough, Value
    <2>5. ASSUME y \notin overtaken PROVE Enough(y)'
      BY <1>3, <1>4, <1>y, <2>1, <2>2, <2>3, <2>4, <2>5 DEF Counted, Enough
    <2>6. ASSUME y \notin mixed' PROVE Exact(y)'
      <3>1. Changing(y) = {} /\ y \notin mixed /\ y \notin overtaken
        BY <1>1, <1>7, <2>6 DEF Shape
      <3>2. Changing(y)' \subseteq {t}
        BY <2>1, <3>1 DEF Changing
      <3>3. read'[t] = References(y)'
        BY <2>2, <2>3, <2>4, <3>1 DEF Counted, Exact
      <3> QED
        BY <2>2, <2>3, <3>1, <3>2, <3>3 DEF Counted, Exact
    <2> QED
      BY <2>2, <2>5, <2>6 DEF Counted
  <1> QED
    BY <1>3, <1>8, <1>9, <1>12, <1>13 DEF FactoryInv, countVars

\* A copy counts itself.  The other threads between read and write of the
\* counter are destructors, because only one thread is in Create.
LEMMA CopyWriteStep ==
    ASSUME FactoryInv, NEW t \in Thread, CopyWrite(t)
    PROVE  FactoryInv'
  <1>1. TypeOK /\ Shape
    BY DEF FactoryInv
  <1>2. Only(t)
    BY <1>1, OneThreadMoves DEF Create
  <1>3. PICK y \in Counter : y = At(t)
    BY <1>1 DEF At, Counter, TypeOK
  <1>4. /\ y[1] = aHit[t] /\ y[2] = part[t] /\ y = <<aHit[t], part[t]>>
        /\ aHit[t] \in iConnections /\ pc[t] = "increment" /\ part[t] \in Part
    BY <1>1, <1>3 DEF At, Shape, CopyWrite, TypeOK
  <1>5. /\ UNCHANGED <<iConnections, deleted, calls, aHit, read, mixed>>
        /\ iCount' = [iCount EXCEPT ![y] = read[t] + 1]
        /\ overtaken' = IF Decrementing(y) = {} THEN overtaken ELSE overtaken \cup {y}
    BY <1>3 DEF CopyWrite
  <1>6. \/ pc'[t] = "copy" /\ part[t] = "iMutex" /\ part'[t] = "iValue" /\ factory' = factory
        \/ pc'[t] = "use" /\ part[t] = "iValue" /\ part'[t] = "iValue" /\ factory' = NULL
    BY <1>1, <1>4 DEF CopyWrite, TypeOK, Part
  <1>7. TypeOK'
    <2>1. iCount' \in [Counter -> Int] /\ overtaken' \subseteq Counter
      BY <1>1, <1>5 DEF TypeOK
    <2>2. /\ pc' \in [Thread -> {"idle", "create", "copy", "increment", "use", "drop", "decrement", "test"}]
          /\ part' \in [Thread -> Part] /\ factory' \in Thread \cup {NULL}
      BY <1>1 DEF TypeOK, CopyWrite, Part
    <2> QED
      BY <1>1, <1>5, <2>1, <2>2 DEF TypeOK
  <1>8. \A u \in Thread \ {t} : pc[u] \notin {"create", "copy", "increment"}
    BY <1>1, <1>4 DEF Shape
  <1>9. Shape'
    <2>1. overtaken' \subseteq mixed'
      <3>1. CASE Decrementing(y) = {}
        BY <1>1, <1>5, <3>1 DEF Shape
      <3>2. CASE y \notin mixed
        <4>1. Exact(y)
          BY <1>4, <3>2 DEF FactoryInv, Counted
        <4>2. t \in Changing(y) /\ Decrementing(y) \subseteq Changing(y) \ {t}
          BY <1>3, <1>4 DEF Changing, Decrementing
        <4>3. Decrementing(y) = {}
          BY <4>1, <4>2 DEF Exact
        <4> QED
          BY <3>1, <4>3
      <3>3. CASE y \in mixed
        BY <1>1, <1>5, <3>3 DEF Shape
      <3> QED
        BY <3>2, <3>3
    <2> QED
      BY <1>1, <1>2, <1>4, <1>5, <1>6, <1>8, <2>1 DEF Shape, Only
  <1>10. part[t] \notin Owned(t) /\ Owned(t)' = Owned(t) \cup {part[t]}
    BY <1>4, <1>6 DEF Owned, Part
  <1>11. \A x \in Counter : References(x)' = IF x = y THEN References(x) + 1 ELSE References(x)
    BY <1>2, <1>4, <1>5, <1>10, OwnerGained
  <1>12. ASSUME NEW x \in Counter, x[1] \in iConnections', x # y PROVE Counted(x)'
    <2>1. Counted(x)
      BY <1>5, <1>12 DEF FactoryInv
    <2>2. iCount'[x] = iCount[x] /\ References(x)' = References(x)
      BY <1>1, <1>5, <1>11, <1>12 DEF TypeOK
    <2>3. x \in overtaken => x \in overtaken'
      BY <1>5
    <2> QED
      BY <1>2, <1>5, <1>6, <2>1, <2>2, <2>3, CountedKept
  <1>13. Counted(y)'
    <2>1. \A u \in Thread \ {t} : At(u)' = At(u) /\ pc'[u] = pc[u] /\ read'[u] = read[u]
      BY <1>2 DEF Only, At
    <2>2. Counted(y) /\ iCount'[y] = read[t] + 1 /\ References(y)' = References(y) + 1
      BY <1>1, <1>4, <1>5, <1>11 DEF FactoryInv, TypeOK
    <2>3. References(y) \in Nat
      BY ReferencesType
    <2>4. pc'[t] \notin {"increment", "decrement", "test"}
      BY <1>6
    <2>5. ASSUME y \notin overtaken' PROVE Enough(y)'
      <3>1. y \notin overtaken /\ Decrementing(y) = {}
        BY <1>5, <2>5
      <3>2. Enough(y)
        BY <2>2, <3>1 DEF Counted
      <3>3. read[t] \in Int /\ read[t] >= References(y)
        BY <1>1, <1>3, <1>4, <3>2 DEF Enough, TypeOK
      <3>4. \A u \in Thread : At(u)' = y => pc'[u] \notin {"increment", "decrement"}
        BY <1>8, <2>1, <2>4, <3>1 DEF Decrementing
      <3>5. \A u \in Thread : At(u)' = y /\ pc'[u] = "test" => read'[u] >= 2
        BY <2>1, <2>4, <3>2 DEF Enough
      <3> QED
        BY <1>5, <2>2, <2>3, <3>2, <3>3, <3>4, <3>5 DEF Enough
    <2>6. ASSUME y \notin mixed' PROVE Exact(y)'
      <3>1. Exact(y) /\ t \in Changing(y)
        BY <1>3, <1>4, <1>5, <2>2, <2>6 DEF Counted, Changing
      <3>2. Changing(y)' = {}
        BY <2>1, <2>4, <3>1 DEF Changing, Exact
      <3> QED
        BY <2>2, <3>1, <3>2 DEF Exact
    <2> QED
      BY <2>5, <2>6 DEF Counted
  <1> QED
    BY <1>5, <1>7, <1>9, <1>12, <1>13 DEF FactoryInv

LEMMA DropWriteStep ==
    ASSUME FactoryInv, NEW t \in Thread, DropWrite(t)
    PROVE  FactoryInv'
  <1>1. TypeOK /\ Shape
    BY DEF FactoryInv
  <1>2. Only(t)
    BY <1>1, OneThreadMoves DEF Destroy
  <1>3. PICK y \in Counter : y = At(t)
    BY <1>1 DEF At, Counter, TypeOK
  <1>4. /\ y[1] = aHit[t] /\ y[2] = part[t] /\ y = <<aHit[t], part[t]>>
        /\ aHit[t] \in iConnections /\ pc[t] = "decrement" /\ pc'[t] = "test" /\ part[t] \in Part
    BY <1>1, <1>3 DEF At, Shape, DropWrite, TypeOK
  <1>5. /\ UNCHANGED <<iConnections, deleted, factory, calls, aHit, part, read, overtaken, mixed>>
        /\ iCount' = [iCount EXCEPT ![y] = read[t] - 1]
    BY <1>3 DEF DropWrite
  <1>6. TypeOK'
    <2>1. iCount' \in [Counter -> Int]
      BY <1>1, <1>5 DEF TypeOK
    <2> QED
      BY <1>1, <1>5, <2>1 DEF TypeOK, DropWrite
  <1>7. Shape'
    BY <1>1, <1>2, <1>4, <1>5 DEF Shape, Only
  <1>8. part[t] \in Owned(t) /\ Owned(t)' = Owned(t) \ {part[t]}
    BY <1>4, <1>5 DEF Owned, Part
  <1>9. \A x \in Counter : References(x)' = IF x = y THEN References(x) - 1 ELSE References(x)
    BY <1>2, <1>4, <1>5, <1>8, OwnerLost
  <1>10. At(t)' = y
    BY <1>3, <1>5 DEF At
  <1>11. ASSUME NEW x \in Counter, x[1] \in iConnections', x # y PROVE Counted(x)'
    <2>1. Counted(x)
      BY <1>5, <1>11 DEF FactoryInv
    <2>2. iCount'[x] = iCount[x] /\ References(x)' = References(x)
      BY <1>1, <1>5, <1>9, <1>11 DEF TypeOK
    <2> QED
      BY <1>2, <1>5, <1>10, <1>11, <2>1, <2>2, CountedKept
  <1>12. Counted(y)'
    <2>1. \A u \in Thread \ {t} : At(u)' = At(u) /\ pc'[u] = pc[u] /\ read'[u] = read[u]
      BY <1>2 DEF Only, At
    <2>2. Counted(y) /\ iCount'[y] = read[t] - 1 /\ References(y)' = References(y) - 1
      BY <1>1, <1>4, <1>5, <1>9 DEF FactoryInv, TypeOK
    <2>3. References(y) \in Nat /\ References(y) >= 2
      <3>1. t \in Owners(y)
        BY <1>4, <1>8 DEF Owners
      <3> QED
        BY <3>1, ReferencesType, OwnerCounts
    <2>4. read \in [Thread -> Int]
      BY <1>1 DEF TypeOK
    <2>5. ASSUME y \notin overtaken' PROVE Enough(y)'
      <3>1. Enough(y)
        BY <1>5, <2>2, <2>5 DEF Counted
      <3>2. read[t] >= References(y)
        BY <1>3, <1>4, <3>1 DEF Enough
      <3>3. iCount'[y] >= References(y)' /\ read'[t] >= 2
        BY <1>5, <2>2, <2>3, <2>4, <3>2
      <3>4. ASSUME NEW u \in Thread \ {t}, At(u)' = y
            PROVE  /\ pc'[u] \in {"increment", "decrement"} => read'[u] >= References(y)'
                   /\ pc'[u] = "test" => read'[u] >= 2
        <4>1. At(u) = y /\ pc'[u] = pc[u] /\ read'[u] = read[u] /\ read[u] \in Int
          BY <2>1, <2>4, <3>4
        <4> QED
          BY <2>2, <2>3, <3>1, <4>1 DEF Enough
      <3>5. y \notin deleted'
        BY <1>5, <3>1 DEF Enough
      <3> QED
        BY <1>4, <3>3, <3>4, <3>5 DEF Enough
    <2>6. ASSUME y \notin mixed' PROVE Exact(y)'
      <3>1. Exact(y) /\ t \in Changing(y)
        BY <1>3, <1>4, <1>5, <2>2, <2>6 DEF Counted, Changing
      <3>2. Changing(y)' = {}
        BY <1>4, <2>1, <3>1 DEF Changing, Exact
      <3> QED
        BY <2>2, <3>1, <3>2 DEF Exact
    <2> QED
      BY <2>5, <2>6 DEF Counted
  <1> QED
    BY <1>5, <1>6, <1>7, <1>11, <1>12 DEF FactoryInv

\* Nothing is deleted whose counter is high enough.
LEMMA DropTestStep ==
    ASSUME FactoryInv, NEW t \in Thread, DropTest(t)
    PROVE  FactoryInv'
  <1>1. TypeOK /\ Shape
    BY DEF FactoryInv
  <1>2. Only(t)
    BY <1>1, OneThreadMoves DEF Destroy
  <1>3. PICK y \in Counter : y = At(t)
    BY <1>1 DEF At, Counter, TypeOK
  <1>4. y[1] = aHit[t] /\ aHit[t] \in iConnections /\ pc[t] = "test" /\ part[t] \in Part
    BY <1>1, <1>3 DEF At, Shape, DropTest, TypeOK
  <1>5. /\ UNCHANGED <<iConnections, iCount, factory, calls, aHit, read, overtaken, mixed>>
        /\ \E n \in {read[t] - 1} \cup Value(y) :
              deleted' = IF n = 0 THEN deleted \cup {y} ELSE deleted
    BY <1>3 DEF DropTest
  <1>6. \/ pc'[t] = "drop" /\ part[t] = "iValue" /\ part'[t] = "iMutex"
        \/ pc'[t] = "idle" /\ part[t] = "iMutex" /\ part'[t] = "iMutex"
    BY <1>1, <1>4 DEF DropTest, TypeOK, Part
  <1>7. deleted' \subseteq deleted \cup {y}
    BY <1>5
  <1>8. TypeOK'
    <2>1. /\ pc' \in [Thread -> {"idle", "create", "copy", "increment", "use", "drop", "decrement", "test"}]
          /\ part' \in [Thread -> Part]
      BY <1>1 DEF TypeOK, DropTest, Part
    <2>2. deleted' \subseteq Counter
      BY <1>1, <1>7 DEF TypeOK
    <2> QED
      BY <1>1, <1>5, <2>1, <2>2 DEF TypeOK
  <1>9. Shape'
    BY <1>1, <1>2, <1>4, <1>5, <1>6, <1>7 DEF Shape, Only
  <1>10. Owned(t)' = Owned(t)
    BY <1>4, <1>6 DEF Owned
  <1>11. \A x : References(x)' = References(x)
    BY <1>2, <1>5, <1>10, OwnersKept
  <1>12. ASSUME NEW x \in Counter, x[1] \in iConnections', x # y PROVE Counted(x)'
    <2>1. Counted(x)
      BY <1>5, <1>12 DEF FactoryInv
    <2>2. x \in deleted' => x \in deleted
      BY <1>7, <1>12
    <2> QED
      BY <1>2, <1>5, <1>6, <1>11, <2>1, <2>2, CountedKept
  <1>13. Counted(y)'
    <2>1. \A u \in Thread \ {t} : At(u)' = At(u) /\ pc'[u] = pc[u] /\ read'[u] = read[u]
      BY <1>2 DEF Only, At
    <2>2. Counted(y) /\ References(y)' = References(y) /\ References(y) \in Nat \ {0}
      BY <1>4, <1>11, ReferencesType DEF FactoryInv
    <2>3. pc'[t] \notin {"increment", "decrement", "test"}
      BY <1>6
    <2>4. ASSUME y \notin overtaken PROVE Enough(y)'
      <3>1. Enough(y)
        BY <2>2, <2>4 DEF Counted
      <3>2. \A n \in {read[t] - 1} \cup Value(y) : n # 0
        <4>1. read[t] >= 2 /\ read[t] \in Int
          BY <1>1, <1>3, <1>4, <3>1 DEF Enough, TypeOK
        <4>2. Value(y) = {iCount[y]} /\ iCount[y] \in Int /\ iCount[y] >= References(y)
          BY <1>1, <3>1 DEF Enough, Value, TypeOK
        <4> QED
          BY <2>2, <4>1, <4>2
      <3>3. deleted' = deleted
        BY <1>5, <3>2
      <3> QED
        BY <1>5, <2>1, <2>2, <2>3, <3>1, <3>3 DEF Enough
    <2>5. ASSUME y \notin mixed PROVE Exact(y)'
      <3>1. Exact(y)
        BY <2>2, <2>5 DEF Counted
      <3>2. Changing(y)' \subseteq Changing(y) /\ \A u \in Changing(y)' : read'[u] = read[u]
        BY <2>1, <2>3 DEF Changing
      <3> QED
        BY <1>5, <2>2, <3>1, <3>2 DEF Exact
    <2> QED
      BY <1>5, <2>4, <2>5 DEF Counted
  <1> QED
    BY <1>5, <1>8, <1>9, <1>12, <1>13 DEF FactoryInv

LEMMA FactoryNext == FactoryInv /\ [Next]_vars => FactoryInv'
  <1> SUFFICES ASSUME FactoryInv, [Next]_vars PROVE FactoryInv'
    OBVIOUS
  <1>1. ASSUME NEW t \in Thread, Create(t) PROVE FactoryInv'
    BY <1>1, EnterStep, NewStep, FoundStep, ReadStep, CopyWriteStep DEF Create
  <1>2. ASSUME NEW t \in Thread, Destroy(t) PROVE FactoryInv'
    BY <1>2, ReadStep, DropWriteStep, DropTestStep DEF Destroy
  <1>3. CASE UNCHANGED vars
    <2>1. UNCHANGED <<iConnections, iCount, deleted, factory, calls, pc, aHit, part, read, overtaken, mixed>>
      BY <1>3 DEF vars, countVars, threadVars
    <2>2. TypeOK' /\ Shape'
      BY <2>1 DEF FactoryInv, TypeOK, Shape
    <2>3. \A x : References(x)' = References(x) /\ Changing(x)' = Changing(x)
      BY <2>1 DEF References, Owners, Owned, Changing, At
    <2>4. \A x \in Counter : Counted(x) => Counted(x)'
      BY <2>1, <2>3 DEF Counted, Enough, Exact, At
    <2> QED
      BY <2>1, <2>2, <2>4 DEF FactoryInv
  <1> QED
    BY <1>1, <1>2, <1>3 DEF Next

\* TypeOK, for every number of threads, peers and calls.
THEOREM FactoryTypeCorrect == Spec => []TypeOK
  <1>1. FactoryInv => TypeOK
    BY DEF FactoryInv
  <1> QED
    BY FactoryInit, FactoryNext, <1>1, PTL DEF Spec

\* ~CRCPtr: what the factory keeps is only deleted if a copy was counted in the
\* middle of a destructor.
THEOREM KeptConnections == Spec => []DeletedOnlyWhenOvertaken
  <1>1. FactoryInv => DeletedOnlyWhenOvertaken
    BY DEF FactoryInv, TypeOK, Shape, Counted, Enough, DeletedOnlyWhenOvertaken
  <1> QED
    BY FactoryInit, FactoryNext, <1>1, PTL DEF Spec

\* CRCPtr: while changes of a counter do not overlap, it is exact.
THEOREM ExactCounters == Spec => []ExactUnlessMixed
  <1>1. FactoryInv => ExactUnlessMixed
    BY DEF FactoryInv, Counted, Exact, References, ExactUnlessMixed
  <1> QED
    BY FactoryInit, FactoryNext, <1>1, PTL DEF Spec

(***************************************************************************)
(* The packets.                                                            *)
(***************************************************************************)
(* Definitions by recursion: that what they define obeys them.             *)
\* What a recursive definition over S asks of its values: bottom where it stops,
\* step of the value at next[x] elsewhere.
Obeys(f, x, stop, bottom, next, step) ==
    f[x] = IF x \in stop THEN bottom[x] ELSE step[<<x, f[next[x]]>>]

LEMMA Recursion ==
    ASSUME NEW S, NEW T, NEW stop, NEW bottom \in [S -> T], NEW next \in [S -> S],
           NEW step \in [S \X T -> T], NEW measure \in [S -> Nat],
           \A x \in S \ stop : measure[next[x]] < measure[x]
    PROVE  \E f \in [S -> T] : \A x \in S : Obeys(f, x, stop, bottom, next, step)
  <1> DEFINE Small(n) == {x \in S : measure[x] < n}
             Partial(g, n) == g \in [Small(n) -> T] /\ \A x \in Small(n) : Obeys(g, x, stop, bottom, next, step)
             A == {n \in Nat : \E g : Partial(g, n)}
  <1>0. ASSUME NEW n \in Nat, NEW x \in Small(n), x \notin stop
        PROVE  next[x] \in Small(n) /\ \A m \in Nat : n <= m + 1 => next[x] \in Small(m)
    <2>1. x \in S /\ measure[x] < n /\ measure[x] \in Nat /\ next[x] \in S /\ measure[next[x]] \in Nat
      OBVIOUS
    <2>2. measure[next[x]] < measure[x]
      BY <1>0, <2>1
    <2> QED
      BY <2>1, <2>2
  <1>1. \A n \in Nat : \E g : Partial(g, n)
    <2>1. 0 \in A
      <3>1. Small(0) = {}
        OBVIOUS
      <3>2. Partial([x \in {} |-> x], 0)
        BY <3>1
      <3> QED
        BY <3>2
    <2>2. ASSUME NEW n \in Nat, n \in A PROVE n + 1 \in A
      <3>1. PICK g : Partial(g, n)
        BY <2>2
      <3> DEFINE h == [x \in Small(n + 1) |-> IF x \in stop THEN bottom[x] ELSE step[<<x, g[next[x]]>>]]
      <3>2. ASSUME NEW x \in Small(n + 1) PROVE h[x] \in T /\ (x \notin stop => next[x] \in Small(n))
        <4>1. x \notin stop => next[x] \in Small(n)
          BY <1>0
        <4>2. x \in S /\ bottom[x] \in T
          OBVIOUS
        <4>3. x \notin stop => g[next[x]] \in T
          BY <3>1, <4>1
        <4> QED
          BY <4>1, <4>2, <4>3
      <3>3. ASSUME NEW x \in Small(n) PROVE x \in Small(n + 1) /\ h[x] = g[x]
        <4>1. x \in Small(n + 1)
          OBVIOUS
        <4> QED
          BY <3>1, <4>1 DEF Obeys
      <3>4. h \in [Small(n + 1) -> T]
        BY <3>2
      <3>5. ASSUME NEW x \in Small(n + 1) PROVE Obeys(h, x, stop, bottom, next, step)
        BY <3>2, <3>3 DEF Obeys
      <3> HIDE DEF h
      <3>6. Partial(h, n + 1)
        BY <3>4, <3>5
      <3>7. \E g1 : Partial(g1, n + 1)
        BY <3>6
      <3> HIDE DEF Partial
      <3> QED
        BY <3>7
    <2> HIDE DEF A
    <2>3. Nat \subseteq A
      BY <2>1, <2>2, SetInduction
    <2> QED
      BY <2>3 DEF A
  <1>2. ASSUME NEW n \in Nat, NEW m \in Nat, n <= m, NEW g, NEW h, Partial(g, n), Partial(h, m)
        PROVE  \A x \in Small(n) : g[x] = h[x]
    <2> DEFINE B == {k \in Nat : \A x \in Small(k) : x \in Small(n) => g[x] = h[x]}
    <2>1. 0 \in B
      OBVIOUS
    <2>2. ASSUME NEW k \in Nat, k \in B PROVE k + 1 \in B
      <3> SUFFICES ASSUME NEW x \in Small(k + 1), x \in Small(n) PROVE g[x] = h[x]
        OBVIOUS
      <3>1. x \in Small(m)
        BY <1>2
      <3>2. Obeys(g, x, stop, bottom, next, step) /\ Obeys(h, x, stop, bottom, next, step)
        BY <1>2, <3>1
      <3>3. x \notin stop => next[x] \in Small(k) /\ next[x] \in Small(n)
        BY <1>0
      <3>4. x \notin stop => g[next[x]] = h[next[x]]
        BY <2>2, <3>3
      <3> QED
        BY <3>2, <3>4 DEF Obeys
    <2> HIDE DEF B
    <2>3. n \in B
      BY <2>1, <2>2, SetInduction
    <2> QED
      BY <2>3 DEF B
  <1> DEFINE G(n) == CHOOSE g : Partial(g, n)
  <1>3. ASSUME NEW n \in Nat PROVE Partial(G(n), n)
    BY <1>1
  <1> HIDE DEF G
  <1> DEFINE f == [x \in S |-> G(measure[x] + 1)[x]]
  <1>4. ASSUME NEW x \in S
        PROVE  /\ measure[x] + 1 \in Nat /\ x \in Small(measure[x] + 1)
               /\ G(measure[x] + 1)[x] \in T
    <2>1. measure[x] + 1 \in Nat /\ x \in Small(measure[x] + 1)
      OBVIOUS
    <2> QED
      BY <1>3, <2>1
  <1>5. f \in [S -> T]
    BY <1>4
  <1>6. ASSUME NEW x \in S, x \notin stop PROVE G(measure[x] + 1)[next[x]] = f[next[x]]
    <2>1. measure[next[x]] < measure[x] /\ next[x] \in S /\ measure[x] \in Nat /\ measure[next[x]] \in Nat
      BY <1>6
    <2>2. measure[next[x]] + 1 <= measure[x] + 1
      BY <2>1
    <2> DEFINE n == measure[next[x]] + 1
               m == measure[x] + 1
    <2>a. n \in Nat /\ m \in Nat /\ n <= m
      BY <2>1, <2>2
    <2>b. Partial(G(n), n) /\ Partial(G(m), m)
      BY <1>3, <2>a
    <2> HIDE DEF n, m, Partial
    <2>c. \A y \in Small(n) : G(n)[y] = G(m)[y]
      BY <1>2, <2>a, <2>b
    <2>3. \A y \in Small(measure[next[x]] + 1) : G(measure[next[x]] + 1)[y] = G(measure[x] + 1)[y]
      BY <2>c DEF n, m
    <2> QED
      BY <1>4, <2>1, <2>3
  <1>7. ASSUME NEW x \in S PROVE Obeys(f, x, stop, bottom, next, step)
    <2>1. Obeys(G(measure[x] + 1), x, stop, bottom, next, step)
      BY <1>3, <1>4
    <2> QED
      BY <1>6, <2>1 DEF Obeys
  <1> QED
    BY <1>5, <1>7

-----------------------------------------------------------------------------
(* The sums of the checksum.                                               *)
\* A recursion that goes down one by one from n.
Counts(f, n, b, step) == f[0] = b /\ \A i \in 1..n : f[i] = step[<<i, f[i - 1]>>]

LEMMA PrefixRecursion ==
    ASSUME NEW n \in Nat, NEW T, NEW b \in T, NEW step \in [(1..n) \X T -> T]
    PROVE  \E f \in [0..n -> T] : Counts(f, n, b, step)
  <1> DEFINE S == 0..n
             stop == {0}
             bottom == [i \in S |-> b]
             next == [i \in S |-> IF i = 0 THEN 0 ELSE i - 1]
             whole == [x \in S \X T |-> IF x[1] = 0 THEN b ELSE step[x]]
             measure == [i \in S |-> i]
  <1>1. bottom \in [S -> T] /\ next \in [S -> S] /\ measure \in [S -> Nat]
    OBVIOUS
  <1>2. whole \in [S \X T -> T]
    <2> SUFFICES ASSUME NEW x \in S \X T, x[1] # 0 PROVE step[x] \in T
      OBVIOUS
    <2>1. x \in (1..n) \X T
      OBVIOUS
    <2> QED
      BY <2>1
  <1>3. \A x \in S \ stop : measure[next[x]] < measure[x]
    OBVIOUS
  <1> HIDE DEF bottom, next, whole, measure, S, stop
  <1>4. PICK f \in [S -> T] : \A x \in S : Obeys(f, x, stop, bottom, next, whole)
    BY <1>1, <1>2, <1>3, Recursion
  <1>5. f[0] = b
    <2>1. 0 \in S /\ 0 \in stop /\ bottom[0] = b
      BY DEF S, stop, bottom
    <2> QED
      BY <1>4, <2>1 DEF Obeys
  <1>6. ASSUME NEW i \in 1..n PROVE f[i] = step[<<i, f[i - 1]>>]
    <2>1. i \in S /\ i \notin stop /\ next[i] = i - 1 /\ i - 1 \in S
      BY DEF S, stop, next
    <2>2. f[i] = whole[<<i, f[i - 1]>>] /\ f[i - 1] \in T
      BY <1>4, <2>1 DEF Obeys
    <2> QED
      BY <2>1, <2>2 DEF whole
  <1> QED
    BY <1>4, <1>5, <1>6 DEF S, Counts

-----------------------------------------------------------------------------
\* The partial sums of the words of a packet.
IsSum(f, bytes) ==
    /\ f \in [0..Len(bytes) -> Int]
    /\ f[0] = 0
    /\ \A i \in 1..Len(bytes) : f[i] = f[i - 1] + bytes[i] * Weight(i)

LEMMA SumsExist ==
    ASSUME NEW bytes \in Seq(Int)
    PROVE  \E f : IsSum(f, bytes) /\ WordSum(bytes) = f[Len(bytes)]
  <1> DEFINE n == Len(bytes)
             step == [x \in (1..n) \X Int |-> x[2] + bytes[x[1]] * Weight(x[1])]
             Body(f) == [i \in 0..n |-> IF i = 0 THEN 0 ELSE f[i - 1] + bytes[i] * Weight(i)]
  <1>1. n \in Nat
    OBVIOUS
  <1>2. step \in [(1..n) \X Int -> Int]
    <2> SUFFICES ASSUME NEW x \in (1..n) \X Int PROVE x[2] + bytes[x[1]] * Weight(x[1]) \in Int
      OBVIOUS
    <2>1. bytes[x[1]] \in Int /\ x[2] \in Int
      OBVIOUS
    <2> QED
      BY <2>1 DEF Weight
  <1>3. PICK f \in [0..n -> Int] : f[0] = 0 /\ \A i \in 1..n : f[i] = step[<<i, f[i - 1]>>]
    <2> DEFINE T == Int
               b == 0
    <2>1. n \in Nat /\ b \in T /\ step \in [(1..n) \X T -> T]
      BY <1>1, <1>2
    <2> HIDE DEF n, step, Body, T, b
    <2>2. \E f \in [0..n -> T] : Counts(f, n, b, step)
      BY <2>1, PrefixRecursion
    <2> QED
      BY <2>2 DEF T, b, Counts
  <1>4. ASSUME NEW i \in 1..n PROVE f[i] = f[i - 1] + bytes[i] * Weight(i)
    <2>1. i - 1 \in 0..n
      OBVIOUS
    <2>2. <<i, f[i - 1]>> \in (1..n) \X Int
      BY <2>1
    <2> QED
      BY <1>3, <2>2
  <1>5. ASSUME NEW i \in 0..n PROVE f[i] = Body(f)[i]
    <2>1. i = 0 \/ i \in 1..n
      OBVIOUS
    <2> QED
      BY <1>3, <1>4, <2>1
  <1>6. f = Body(f)
    BY <1>3, <1>5
  <1> DEFINE g == CHOOSE g : g = Body(g)
  <1>7. g = Body(g)
    <2> HIDE DEF Body
    <2> QED
      BY <1>6
  <1>8. WordSum(bytes) = g[n]
    BY DEF WordSum
  <1> HIDE DEF g
  <1>9. DOMAIN g = 0..n /\ g[0] = 0
    BY <1>7
  <1>10. ASSUME NEW i \in 1..n PROVE g[i] = g[i - 1] + bytes[i] * Weight(i)
    <2>1. i \in 0..n /\ i # 0
      OBVIOUS
    <2> QED
      BY <1>7, <2>1
  <1>11. g \in [0..n -> Int]
    <2> DEFINE A == {k \in Nat : k <= n => g[k] \in Int}
    <2>1. 0 \in A
      BY <1>9
    <2>2. ASSUME NEW k \in Nat, k \in A PROVE k + 1 \in A
      <3> SUFFICES ASSUME k + 1 <= n PROVE g[k + 1] \in Int
        OBVIOUS
      <3>1. g[k + 1] = g[k] + bytes[k + 1] * Weight(k + 1) /\ g[k] \in Int /\ bytes[k + 1] \in Int
        BY <1>10, <2>2
      <3> QED
        BY <3>1 DEF Weight
    <2> HIDE DEF A
    <2>3. Nat \subseteq A
      BY <2>1, <2>2, SetInduction
    <2>4. ASSUME NEW k \in 0..n PROVE g[k] \in Int
      BY <2>3 DEF A
    <2>5. g = [k \in 0..n |-> g[k]]
      BY <1>7
    <2> QED
      BY <2>4, <2>5
  <1> QED
    BY <1>8, <1>9, <1>10, <1>11 DEF IsSum

\* A byte that is changed changes the sum by as much, times its weight.
LEMMA ChangedSum ==
    ASSUME NEW bytes \in Seq(Int), NEW i \in 1..Len(bytes), NEW v \in Int
    PROVE  /\ WordSum(bytes) \in Int
           /\ WordSum([bytes EXCEPT ![i] = v]) = WordSum(bytes) + (v - bytes[i]) * Weight(i)
  <1> DEFINE c == [bytes EXCEPT ![i] = v]
             n == Len(bytes)
             e == (v - bytes[i]) * Weight(i)
  <1>1. c \in Seq(Int) /\ Len(c) = n /\ n \in Nat /\ \A j \in 1..n : c[j] = IF j = i THEN v ELSE bytes[j]
    BY ExceptSeq
  <1>2. PICK f : IsSum(f, bytes) /\ WordSum(bytes) = f[n]
    BY SumsExist
  <1>3. PICK g : IsSum(g, c) /\ WordSum(c) = g[n]
    <2> HIDE DEF c, n
    <2> QED
      BY <1>1, SumsExist
  <1>4. bytes[i] \in Int /\ e \in Int /\ v * Weight(i) = bytes[i] * Weight(i) + e
    <2>1. bytes[i] \in Int
      OBVIOUS
    <2> QED
      BY <2>1 DEF Weight
  <1> DEFINE A == {k \in Nat : k <= n => g[k] = f[k] + (IF i <= k THEN e ELSE 0)}
  <1> HIDE DEF e, c
  <1>5. 0 \in A
    BY <1>1, <1>2, <1>3 DEF IsSum
  <1>6. ASSUME NEW k \in Nat, k \in A PROVE k + 1 \in A
    <2> SUFFICES ASSUME k + 1 <= n PROVE g[k + 1] = f[k + 1] + (IF i <= k + 1 THEN e ELSE 0)
      OBVIOUS
    <2>1. k \in 0..n /\ k + 1 \in 1..n /\ (k + 1) - 1 = k
      BY <1>1
    <2>2. f[k + 1] = f[k] + bytes[k + 1] * Weight(k + 1) /\ f[k] \in Int
      BY <1>2, <2>1 DEF IsSum
    <2>3. g[k + 1] = g[k] + c[k + 1] * Weight(k + 1)
      BY <1>1, <1>3, <2>1 DEF IsSum
    <2>4. g[k] = f[k] + (IF i <= k THEN e ELSE 0)
      BY <1>6, <2>1
    <2>5. bytes[k + 1] \in Int /\ bytes[k + 1] * Weight(k + 1) \in Int
      BY <2>1 DEF Weight
    <2>6. CASE k + 1 = i
      <3>1. c[k + 1] * Weight(k + 1) = bytes[k + 1] * Weight(k + 1) + e
        BY <1>1, <1>4, <2>1, <2>6
      <3> QED
        BY <1>4, <2>2, <2>3, <2>4, <2>5, <2>6, <3>1
    <2>7. CASE k + 1 # i
      <3>1. c[k + 1] = bytes[k + 1]
        BY <1>1, <2>1, <2>7
      <3> QED
        BY <1>4, <2>2, <2>3, <2>4, <2>5, <2>7, <3>1
    <2> QED
      BY <2>6, <2>7
  <1> HIDE DEF A
  <1>7. n \in A
    BY <1>1, <1>5, <1>6, SetInduction
  <1>8. g[n] = f[n] + e /\ f[n] \in Int
    BY <1>1, <1>2, <1>7 DEF A, IsSum
  <1> QED
    BY <1>2, <1>3, <1>8 DEF c, e

-----------------------------------------------------------------------------
(* Adding the carries in keeps what a sum is modulo 65535.                 *)
\* The carries added in: a smaller number, of the same remainder.
LEMMA FoldedUnfolds ==
    \A n \in Nat : Folded[n] = IF n < 65536 THEN n ELSE Folded[(n % 65536) + (n \div 65536)]
  <1> DEFINE S == Nat
             stop == 0..65535
             bottom == [n \in S |-> n]
             next == [n \in S |-> (n % 65536) + (n \div 65536)]
             step == [x \in S \X S |-> x[2]]
             Body(f) == [n \in Nat |-> IF n < 65536 THEN n ELSE f[(n % 65536) + (n \div 65536)]]
  <1>1. bottom \in [S -> S] /\ next \in [S -> S] /\ step \in [S \X S -> S]
    OBVIOUS
  <1>2. \A x \in S \ stop : bottom[next[x]] < bottom[x]
    <2>1. \A n \in S : bottom[n] = n /\ next[n] = (n % 65536) + (n \div 65536)
      OBVIOUS
    <2>2. \A n \in S \ stop : n \in Nat /\ n >= 65536
      OBVIOUS
    <2>3. next \in [S -> S]
      BY <1>1
    <2> HIDE DEF bottom, next, S, stop
    <2> TAKE x \in S \ stop
    <2> DEFINE q == x \div 65536
               r == x % 65536
    <2>4. q \in Nat /\ r \in Nat /\ r < 65536 /\ x = 65536 * q + r /\ x \in Nat /\ x >= 65536
      BY <2>2
    <2>5. bottom[x] = x /\ next[x] = r + q /\ bottom[next[x]] = next[x]
      BY <2>1, <2>3
    <2> HIDE DEF q, r
    <2>6. q >= 1
      BY <2>4
    <2>7. r + q < x
      BY <2>4, <2>6
    <2> QED
      BY <2>5, <2>7
  <1>3. \E f \in [S -> S] : \A x \in S : Obeys(f, x, stop, bottom, next, step)
    <2> HIDE DEF bottom, next, step, S, stop
    <2>1. bottom \in [S -> Nat]
      BY <1>1 DEF S
    <2> QED
      BY <1>1, <1>2, <2>1, Recursion
  <1> HIDE DEF bottom, next, step, S, stop
  <1>4. PICK f \in [S -> S] : \A x \in S : Obeys(f, x, stop, bottom, next, step)
    BY <1>3
  <1>5. ASSUME NEW n \in Nat PROVE f[n] = Body(f)[n]
    <2>1. n \in S /\ next[n] \in S
      BY <1>1 DEF S
    <2>2. f[n] = (IF n \in stop THEN bottom[n] ELSE step[<<n, f[next[n]]>>]) /\ f[next[n]] \in S
      BY <1>4, <2>1 DEF Obeys
    <2>3. (n \in stop <=> n < 65536) /\ bottom[n] = n /\ next[n] = (n % 65536) + (n \div 65536)
      BY <2>1 DEF S, stop, bottom, next
    <2>4. step[<<n, f[next[n]]>>] = f[next[n]]
      BY <2>1, <2>2 DEF step
    <2> QED
      BY <2>2, <2>3, <2>4
  <1>6. f = Body(f)
    BY <1>5 DEF S
  <1>7. Folded = CHOOSE g : g = Body(g)
    BY DEF Folded
  <1>8. Folded = Body(Folded)
    <2> HIDE DEF Body
    <2> QED
      BY <1>6, <1>7
  <1> QED
    BY <1>8

AllOnes == 65535
IsFolded(m, n) == m \in 0..AllOnes /\ \E k \in Nat : n = m + AllOnes * k

LEMMA FoldedOnce ==
    ASSUME NEW q \in Nat, NEW r \in Nat, NEW m, IsFolded(m, r + q)
    PROVE  IsFolded(m, (AllOnes + 1) * q + r)
  <1>1. m \in 0..AllOnes
    BY DEF IsFolded
  <1>2. PICK k \in Nat : r + q = m + AllOnes * k
    BY DEF IsFolded
  <1> DEFINE j == k + q
  <1>3. j \in Nat
    OBVIOUS
  <1>4. (AllOnes + 1) * q + r = m + AllOnes * j
    <2>1. m \in Nat
      BY <1>1 DEF AllOnes
    <2> QED
      BY <2>1, <1>2 DEF AllOnes
  <1> HIDE DEF j
  <1> QED
    BY <1>1, <1>3, <1>4 DEF IsFolded

LEMMA FoldedKeepsTheRemainder == \A n \in Nat : IsFolded(Folded[n], n)
  <1> DEFINE Good(n) == IsFolded(Folded[n], n)
             A == {m \in Nat : \A n \in 0..m : Good(n)}
  <1>1. ASSUME NEW n \in Nat, \A m \in 0..n - 1 : Good(m) PROVE Good(n)
    <2>1. CASE n < 65536
      <3>1. Folded[n] = n
        BY <2>1, FoldedUnfolds
      <3>2. n <= AllOnes
        BY <2>1 DEF AllOnes
      <3>3. n = n + AllOnes * 0
        BY DEF AllOnes
      <3> QED
        BY <3>1, <3>2, <3>3 DEF IsFolded
    <2>2. CASE n >= 65536
      <3> DEFINE q == n \div 65536
                 r == n % 65536
      <3>1. n = (AllOnes + 1) * q + r /\ q \in Nat /\ r \in Nat /\ q >= 1
        BY <2>2 DEF AllOnes
      <3>2. Folded[n] = Folded[r + q]
        BY <2>2, FoldedUnfolds
      <3> HIDE DEF q, r
      <3>3. r + q \in 0..n - 1
        BY <3>1 DEF AllOnes
      <3>4. IsFolded(Folded[r + q], r + q)
        BY <1>1, <3>3
      <3> QED
        BY <3>1, <3>2, <3>4, FoldedOnce
    <2> HIDE DEF Good
    <2> QED
      BY <2>1, <2>2
  <1> HIDE DEF Good
  <1>2. 0 \in A
    BY <1>1
  <1>3. ASSUME NEW m \in Nat, m \in A PROVE m + 1 \in A
    BY <1>1, <1>3
  <1> HIDE DEF A
  <1>4. Nat \subseteq A
    BY <1>2, <1>3, SetInduction
  <1> QED
    BY <1>4 DEF A, Good

\* Two sums that differ by less than 65535 have different checksums.
LEMMA FoldedDiffer ==
    ASSUME NEW n \in Nat, NEW m \in Nat, n # m, n - m < 65535, m - n < 65535
    PROVE  Folded[n] # Folded[m]
  <1> SUFFICES ASSUME Folded[n] = Folded[m] PROVE FALSE
    OBVIOUS
  <1> DEFINE F == Folded[n]
  <1>1. IsFolded(F, n) /\ IsFolded(F, m)
    BY FoldedKeepsTheRemainder
  <1> HIDE DEF F
  <1>2. PICK k \in Nat : n = F + AllOnes * k
    BY <1>1 DEF IsFolded
  <1>3. PICK j \in Nat : m = F + AllOnes * j
    BY <1>1 DEF IsFolded
  <1>4. F \in 0..AllOnes
    BY <1>1 DEF IsFolded
  <1> QED
    BY <1>2, <1>3, <1>4 DEF AllOnes

-----------------------------------------------------------------------------
(* Sequences of bytes.                                                     *)
Bytes == Seq(Byte)

Nat16 == 0..AllOnes

LEMMA InNat16 ==
    ASSUME NEW n \in Nat, n < 65536
    PROVE  n \in Nat16
  <1>1. n <= AllOnes
    BY DEF AllOnes
  <1> QED
    BY <1>1 DEF Nat16

LEMMA WordBytes ==
    ASSUME NEW n \in Nat
    PROVE  /\ Word(n) \in Bytes /\ Len(Word(n)) = 2
           /\ Word(n)[1] = Hi(n) /\ Word(n)[2] = Lo(n)
           /\ Hi(n) \in Byte /\ Lo(n) \in Byte
           /\ n \in Nat16 => Hi(n) * 256 + Lo(n) = n
  <1>1. Hi(n) \in Byte /\ Lo(n) \in Byte
    BY DEF Hi, Lo, Byte
  <1>2. ASSUME n \in Nat16 PROVE Hi(n) * 256 + Lo(n) = n
    <2>1. n <= 65535
      BY <1>2 DEF Nat16, AllOnes
    <2> QED
      BY <2>1 DEF Hi, Lo
  <1> QED
    BY <1>1, <1>2 DEF Word, Bytes

LEMMA ZerosBytes ==
    ASSUME NEW n \in Nat
    PROVE  Zeros(n) \in Bytes /\ Len(Zeros(n)) = n
  BY DEF Zeros, Bytes, Byte

LEMMA BytesAssociative ==
    ASSUME NEW a \in Bytes, NEW b \in Bytes, NEW c \in Bytes
    PROVE  (a \o b) \o c = a \o (b \o c)
  BY ConcatAssociative DEF Bytes

LEMMA BytesConcat ==
    ASSUME NEW a \in Bytes, NEW b \in Bytes
    PROVE  a \o b \in Bytes /\ Len(a \o b) = Len(a) + Len(b)
  BY ConcatProperties DEF Bytes

LEMMA BytesOfConcat ==
    ASSUME NEW a \in Bytes, NEW b \in Bytes
    PROVE  /\ Len(a) \in Nat /\ Len(b) \in Nat
           /\ \A i \in 1..Len(a) + Len(b) : (a \o b)[i] = IF i <= Len(a) THEN a[i] ELSE b[i - Len(a)]
           /\ \A i \in 1..Len(a) : (a \o b)[i] = a[i]
           /\ \A i \in 1..Len(b) : (a \o b)[Len(a) + i] = b[i]
  <1>1. Len(a) \in Nat /\ Len(b) \in Nat
    BY LenProperties DEF Bytes
  <1>2. \A i \in 1..Len(a) + Len(b) : (a \o b)[i] = IF i <= Len(a) THEN a[i] ELSE b[i - Len(a)]
    BY ConcatProperties DEF Bytes
  <1>3. ASSUME NEW i \in 1..Len(b) PROVE (a \o b)[Len(a) + i] = b[i]
    <2>1. Len(a) + i \in 1..Len(a) + Len(b) /\ ~(Len(a) + i <= Len(a)) /\ (Len(a) + i) - Len(a) = i
      BY <1>1
    <2> QED
      BY <1>2, <2>1
  <1> QED
    BY <1>1, <1>2, <1>3

LEMMA BytesElement ==
    ASSUME NEW s \in Bytes, NEW i \in 1..Len(s)
    PROVE  s[i] \in Byte
  BY ElementOfSeq DEF Bytes

\* A run of bytes among others, byte by byte and slice by slice.
IsAt(s, o, b) ==
    /\ \A i \in 1..Len(b) : s[o + i] = b[i]
    /\ \A i \in 1..Len(b) + 1, j \in 0..Len(b) : SubSeq(s, o + i, o + j) = SubSeq(b, i, j)

LEMMA InTheMiddle ==
    ASSUME NEW a \in Bytes, NEW b \in Bytes, NEW c \in Bytes
    PROVE  IsAt((a \o b) \o c, Len(a), b)
  <1> DEFINE s == (a \o b) \o c
  <1>1. /\ a \o b \in Bytes /\ Len(a \o b) = Len(a) + Len(b)
        /\ \A i \in 1..Len(a) + Len(b) : (a \o b)[i] = IF i <= Len(a) THEN a[i] ELSE b[i - Len(a)]
    BY ConcatProperties DEF Bytes
  <1>2. /\ s \in Bytes
        /\ Len(s) = Len(a) + Len(b) + Len(c)
        /\ \A i \in 1..Len(a) + Len(b) : s[i] = (a \o b)[i]
    <2> DEFINE ab == a \o b
    <2>1. ab \in Bytes /\ Len(ab) = Len(a) + Len(b)
      BY <1>1
    <2> HIDE DEF ab
    <2>2. ab \o c \in Bytes /\ Len(ab \o c) = Len(ab) + Len(c)
      BY <2>1, BytesConcat
    <2>4. \A i \in 1..Len(ab) : (ab \o c)[i] = ab[i]
      BY <2>1, BytesOfConcat
    <2> QED
      BY <2>1, <2>2, <2>4 DEF ab
  <1>3. Len(a) \in Nat /\ Len(b) \in Nat /\ Len(c) \in Nat
    BY LenProperties DEF Bytes
  <1> HIDE DEF s
  <1>4. ASSUME NEW i \in 1..Len(b) PROVE s[Len(a) + i] = b[i]
    BY <1>1, <1>2, <1>3
  <1>5. ASSUME NEW i \in 1..Len(b) + 1, NEW j \in 0..Len(b)
        PROVE  SubSeq(s, Len(a) + i, Len(a) + j) = SubSeq(b, i, j)
    <2>1. CASE j < i
      BY <1>3, <2>1, SubSeqEmpty
    <2>2. CASE i <= j
      <3> DEFINE l == SubSeq(s, Len(a) + i, Len(a) + j)
                 r == SubSeq(b, i, j)
      <3>1. /\ r \in Bytes /\ Len(r) = j - i + 1
            /\ \A k \in 1..j - i + 1 : r[k] = b[i + k - 1]
        BY <1>3, <2>2, SubSeqProperties DEF Bytes
      <3>2. /\ l \in Bytes /\ Len(l) = j - i + 1
            /\ \A k \in 1..j - i + 1 : l[k] = s[Len(a) + i + k - 1]
        <4> DEFINE m == Len(a) + i
                   n == Len(a) + j
        <4>1. m \in Int /\ n \in Int /\ m <= n /\ n - m = j - i /\ m \in 1..Len(s) /\ n \in 1..Len(s)
          BY <1>2, <1>3, <2>2
        <4> HIDE DEF m, n
        <4>2. ASSUME NEW x \in m..n PROVE s[x] \in Byte
          <5>1. x \in 1..Len(s)
            BY <1>2, <1>3, <4>1
          <5> QED
            BY <1>2, <5>1, BytesElement
        <4>3. /\ SubSeq(s, m, n) \in Seq(Byte) /\ Len(SubSeq(s, m, n)) = n - m + 1
              /\ \A k \in 1..n - m + 1 : SubSeq(s, m, n)[k] = s[m + k - 1]
          BY <4>1, <4>2, SubSeqProperties
        <4> QED
          BY <4>1, <4>3 DEF m, n, Bytes
      <3> HIDE DEF l, r
      <3>3. ASSUME NEW k \in 1..j - i + 1 PROVE l[k] = r[k]
        <4>1. i + k - 1 \in 1..Len(b) /\ Len(a) + i + k - 1 = Len(a) + (i + k - 1)
          BY <1>3, <2>2
        <4> QED
          BY <1>4, <3>1, <3>2, <4>1
      <3>4. l = r
        BY <3>1, <3>2, <3>3, SeqEqual DEF Bytes
      <3> QED
        BY <3>4 DEF l, r
    <2> QED
      BY <2>1, <2>2
  <1> QED
    BY <1>4, <1>5 DEF IsAt, s

-----------------------------------------------------------------------------
(* What the pieces of a packet are joined to.                              *)
\* What is joined so far, a piece after the other.
IsJoin(f, pieces) ==
    /\ f \in [0..Len(pieces) -> Bytes]
    /\ f[0] = <<>>
    /\ \A i \in 1..Len(pieces) : f[i] = f[i - 1] \o pieces[i]

LEMMA JoinExists ==
    ASSUME NEW pieces \in Seq(Bytes)
    PROVE  \E f : IsJoin(f, pieces) /\ Joined(pieces) = f[Len(pieces)]
  <1> DEFINE n == Len(pieces)
             step == [x \in (1..n) \X Bytes |-> x[2] \o pieces[x[1]]]
             b == <<>>
             Body(f) == [i \in 0..n |-> IF i = 0 THEN <<>> ELSE f[i - 1] \o pieces[i]]
  <1>1. n \in Nat /\ b \in Bytes
    BY DEF Bytes
  <1>2. step \in [(1..n) \X Bytes -> Bytes]
    <2> SUFFICES ASSUME NEW x \in (1..n) \X Bytes PROVE x[2] \o pieces[x[1]] \in Bytes
      OBVIOUS
    <2>1. pieces[x[1]] \in Bytes /\ x[2] \in Bytes
      <3>1. x[1] \in 1..n /\ x[2] \in Bytes
        OBVIOUS
      <3> HIDE DEF n
      <3> QED
        BY <3>1, ElementOfSeq DEF n
    <2> QED
      BY <2>1, ConcatProperties DEF Bytes
  <1>3. PICK f \in [0..n -> Bytes] : f[0] = b /\ \A i \in 1..n : f[i] = step[<<i, f[i - 1]>>]
    <2> HIDE DEF n, step, Body, b
    <2>2. \E f \in [0..n -> Bytes] : Counts(f, n, b, step)
      BY <1>1, <1>2, PrefixRecursion
    <2> QED
      BY <2>2 DEF Counts
  <1>4. ASSUME NEW i \in 1..n PROVE f[i] = f[i - 1] \o pieces[i]
    <2>1. i - 1 \in 0..n
      OBVIOUS
    <2>2. <<i, f[i - 1]>> \in (1..n) \X Bytes
      BY <2>1
    <2> QED
      BY <1>3, <2>2
  <1>5. ASSUME NEW i \in 0..n PROVE f[i] = Body(f)[i]
    <2>1. i = 0 \/ i \in 1..n
      OBVIOUS
    <2> QED
      BY <1>3, <1>4, <2>1
  <1>6. f = Body(f)
    BY <1>3, <1>5
  <1> DEFINE g == CHOOSE g : g = Body(g)
  <1>7. g = Body(g)
    <2> HIDE DEF Body
    <2> QED
      BY <1>6
  <1>8. Joined(pieces) = g[n]
    BY DEF Joined
  <1> HIDE DEF g
  <1>9. DOMAIN g = 0..n /\ g[0] = <<>>
    BY <1>7
  <1>10. ASSUME NEW i \in 1..n PROVE g[i] = g[i - 1] \o pieces[i]
    <2>1. i \in 0..n /\ i # 0
      OBVIOUS
    <2> QED
      BY <1>7, <2>1
  <1>11. ASSUME NEW k \in 0..n PROVE g[k] \in Bytes
    <2> DEFINE A == {m \in Nat : m <= n => g[m] \in Bytes}
    <2>1. 0 \in A
      BY <1>1, <1>9
    <2>2. ASSUME NEW m \in Nat, m \in A PROVE m + 1 \in A
      <3> SUFFICES ASSUME m + 1 <= n PROVE g[m + 1] \in Bytes
        OBVIOUS
      <3>1. m + 1 \in 1..n /\ (m + 1) - 1 = m
        BY <1>1
      <3>2. g[m + 1] = g[m] \o pieces[m + 1] /\ g[m] \in Bytes
        BY <1>10, <2>2, <3>1
      <3>3. pieces[m + 1] \in Bytes
        BY <3>1, ElementOfSeq
      <3> QED
        BY <3>2, <3>3, ConcatProperties DEF Bytes
    <2> HIDE DEF A
    <2>3. Nat \subseteq A
      BY <2>1, <2>2, SetInduction
    <2> QED
      BY <2>3 DEF A
  <1>12. g \in [0..n -> Bytes]
    <2>1. g = [k \in 0..n |-> g[k]]
      BY <1>7
    <2> QED
      BY <1>11, <2>1
  <1> QED
    BY <1>8, <1>9, <1>10, <1>12 DEF IsJoin

\* The same pieces give the same parts.
LEMMA JoinUnique ==
    ASSUME NEW s \in Seq(Bytes), NEW t \in Seq(Bytes), NEW f, NEW g, IsJoin(f, s), IsJoin(g, t),
           NEW k \in 0..Len(s), k <= Len(t), \A i \in 1..k : s[i] = t[i]
    PROVE  f[k] = g[k]
  <1> DEFINE A == {m \in Nat : m <= k => f[m] = g[m]}
  <1>0. Len(s) \in Nat /\ Len(t) \in Nat
    OBVIOUS
  <1>1. 0 \in A
    BY DEF IsJoin
  <1>2. ASSUME NEW m \in Nat, m \in A PROVE m + 1 \in A
    <2> SUFFICES ASSUME m + 1 <= k PROVE f[m + 1] = g[m + 1]
      OBVIOUS
    <2>1. m + 1 \in 1..k /\ m + 1 \in 1..Len(s) /\ m + 1 \in 1..Len(t) /\ (m + 1) - 1 = m
      BY <1>0
    <2>2. f[m + 1] = f[m] \o s[m + 1]
      BY <2>1 DEF IsJoin
    <2>3. g[m + 1] = g[m] \o t[m + 1]
      BY <2>1 DEF IsJoin
    <2>4. f[m] = g[m] /\ s[m + 1] = t[m + 1]
      BY <1>2, <2>1
    <2> QED
      BY <2>2, <2>3, <2>4
  <1> HIDE DEF A
  <1>3. k \in A
    BY <1>0, <1>1, <1>2, SetInduction
  <1> QED
    BY <1>3 DEF A

\* The first k pieces, and the next one, and the rest.
LEMMA JoinedUpTo ==
    ASSUME NEW pieces \in Seq(Bytes), NEW k \in 0..Len(pieces)
    PROVE  LET upto(j) == Joined(SubSeq(pieces, 1, j))
           IN  /\ upto(k) \in Bytes
               /\ upto(0) = <<>>
               /\ upto(Len(pieces)) = Joined(pieces)
               /\ k < Len(pieces) => upto(k + 1) = upto(k) \o pieces[k + 1]
               /\ \E rest \in Bytes : Joined(pieces) = upto(k) \o rest
  <1> DEFINE n == Len(pieces)
             upto(j) == Joined(SubSeq(pieces, 1, j))
  <1>0. n \in Nat
    OBVIOUS
  <1>1. PICK f : IsJoin(f, pieces) /\ Joined(pieces) = f[n]
    BY JoinExists
  <1>2. ASSUME NEW j \in 0..n PROVE upto(j) = f[j]
    <2> DEFINE t == SubSeq(pieces, 1, j)
    <2>1. t \in Seq(Bytes) /\ Len(t) = j /\ \A i \in 1..j : t[i] = pieces[i]
      <3>1. \A i \in 1..j : pieces[i] \in Bytes
        OBVIOUS
      <3>2. 1 \in Int /\ j \in Int /\ (IF 1 <= j THEN j - 1 + 1 ELSE 0) = j /\ j - 1 + 1 = j
            /\ \A i \in 1..j : 1 + i - 1 = i
        BY <1>0
      <3> QED
        BY <3>1, <3>2, SubSeqProperties
    <2> HIDE DEF t
    <2>2. PICK g : IsJoin(g, t) /\ Joined(t) = g[j]
      BY <2>1, JoinExists
    <2>3. f[j] = g[j]
      BY <1>0, <1>1, <2>1, <2>2, JoinUnique
    <2> QED
      BY <2>2, <2>3 DEF t
  <1>3. \A j \in 0..n : f[j] \in Bytes
    BY <1>1 DEF IsJoin
  <1> DEFINE A == {m \in Nat : k + m <= n => \E rest \in Bytes : f[k + m] = f[k] \o rest}
  <1>4. 0 \in A
    <2>1. <<>> \in Bytes /\ f[k] = f[k] \o <<>> /\ k + 0 = k
      BY <1>3, ConcatEmptySeq DEF Bytes
    <2> QED
      BY <2>1
  <1>5. ASSUME NEW m \in Nat, m \in A PROVE m + 1 \in A
    <2> SUFFICES ASSUME k + (m + 1) <= n PROVE \E rest \in Bytes : f[k + (m + 1)] = f[k] \o rest
      OBVIOUS
    <2>1. k + (m + 1) \in 1..n /\ (k + (m + 1)) - 1 = k + m /\ k + m <= n
      BY <1>0
    <2>2. f[k + (m + 1)] = f[k + m] \o pieces[k + (m + 1)]
      BY <1>1, <2>1 DEF IsJoin
    <2>3. PICK rest \in Bytes : f[k + m] = f[k] \o rest
      BY <1>5, <2>1
    <2>4. pieces[k + (m + 1)] \in Bytes
      BY <2>1
    <2> DEFINE p == pieces[k + (m + 1)]
             h == f[k]
    <2>5. p \in Bytes /\ h \in Bytes
      BY <1>3, <2>4
    <2> HIDE DEF p, h
    <2>6. rest \o p \in Bytes
      BY <2>5, ConcatProperties DEF Bytes
    <2>7. (h \o rest) \o p = h \o (rest \o p)
      BY <2>5, BytesAssociative
    <2> QED
      BY <2>2, <2>3, <2>6, <2>7 DEF p, h
  <1> HIDE DEF A
  <1>6. Nat \subseteq A
    BY <1>4, <1>5, SetInduction
  <1>7. \E rest \in Bytes : f[n] = f[k] \o rest
    <2>1. n - k \in Nat /\ k + (n - k) = n
      BY <1>0
    <2>2. n - k \in A
      BY <1>6, <2>1
    <2> QED
      BY <2>1, <2>2 DEF A
  <1>8. k < n => f[k + 1] = f[k] \o pieces[k + 1]
    <2> SUFFICES ASSUME k < n PROVE f[k + 1] = f[k] \o pieces[k + 1]
      OBVIOUS
    <2>1. k + 1 \in 1..n /\ (k + 1) - 1 = k
      BY <1>0
    <2> QED
      BY <1>1, <2>1 DEF IsJoin
  <1>9. 0 \in 0..n /\ n \in 0..n /\ k \in 0..n /\ (k < n => k + 1 \in 0..n) /\ f[0] = <<>>
    BY <1>0, <1>1 DEF IsJoin
  <1> HIDE DEF n, upto
  <1>10. /\ upto(k) \in Bytes /\ upto(0) = <<>> /\ upto(n) = Joined(pieces)
         /\ k < n => upto(k + 1) = upto(k) \o pieces[k + 1]
         /\ \E rest \in Bytes : Joined(pieces) = upto(k) \o rest
    BY <1>1, <1>2, <1>3, <1>7, <1>8, <1>9
  <1> QED
    BY <1>10 DEF n, upto

-----------------------------------------------------------------------------
(* The parameters that are sent, and their fields as bytes.                *)
ShortBytes == {b \in Bytes : Len(b) \in Nat16}

\* The parameters that a handler may build.
SentParams ==
    {NewPuzzle(8, 40, 0, i) : i \in Nonces}
        \cup {NewSolution(8, 0, i, j) : i \in Nonces, j \in Nonces}
        \cup {NewCipher(2), NewHitSuiteList(<<8>>), NewDhGroupList(DH_GROUP_ECP192)}
        \cup {NewEncryptedKey(d) : d \in Datas}
        \cup {NewHostId(0, d, <<>>) : d \in Datas}
        \cup {NewMac3(m) : m \in ShortBytes}

LEMMA ByteConstants ==
    /\ {0, 2, 8, 11, 40} \subseteq Byte
    /\ \A a, b \in Byte : <<a, b>> \in Bytes /\ Len(<<a, b>>) = 2
    /\ \A a \in Byte : <<a>> \in Bytes /\ Len(<<a>>) = 1
    /\ <<>> \in Bytes
  <1>1. {0, 2, 8, 11, 40} \subseteq Byte
    BY DEF Byte
  <1>2. ASSUME NEW a \in Byte, NEW b \in Byte PROVE <<a, b>> \in Bytes /\ Len(<<a, b>>) = 2
    BY DEF Bytes
  <1>3. ASSUME NEW a \in Byte PROVE <<a>> \in Bytes /\ Len(<<a>>) = 1
    BY DEF Bytes
  <1>4. <<>> \in Bytes
    BY DEF Bytes
  <1> QED
    BY <1>1, <1>2, <1>3, <1>4

LEMMA ZeroWord == Word(0) = <<0, 0>>
  BY DEF Word, Hi, Lo

LEMMA ConstantsAreBytes ==
    /\ \A n \in Nonces : n \in Bytes /\ Len(n) \in Nat /\ 4 + Len(n) \in Nat16
    /\ \A m, n \in Nonces : Len(m) = Len(n) /\ 4 + Len(m) + Len(n) \in Nat16
    /\ \A d \in Datas : d \in ShortBytes /\ d \in Bytes /\ Len(d) \in Nat /\ 6 + Len(d) \in Nat16
  <1>1. ASSUME NEW n \in Nonces, NEW m \in Nonces
        PROVE  /\ n \in Bytes /\ Len(n) \in Nat /\ 4 + Len(n) \in Nat16
               /\ Len(m) = Len(n) /\ 4 + Len(m) + Len(n) \in Nat16
    <2>1. n \in Bytes /\ Len(n) \in Nat /\ Len(m) = Len(n) /\ 4 + 2 * Len(n) < 65536
      BY PacketsAssumption DEF Bytes, MaxData
    <2>2. 4 + Len(n) \in Nat /\ 4 + Len(n) < 65536
          /\ 4 + Len(m) + Len(n) \in Nat /\ 4 + Len(m) + Len(n) < 65536
      BY <2>1
    <2> QED
      BY <2>1, <2>2, InNat16
  <1>2. ASSUME NEW d \in Datas
        PROVE  d \in Bytes /\ Len(d) \in Nat /\ Len(d) \in Nat16 /\ 6 + Len(d) \in Nat16
    <2>1. d \in Bytes /\ Len(d) \in Nat /\ 6 + Len(d) < 65536
      BY PacketsAssumption DEF Bytes, MaxData
    <2>2. 6 + Len(d) \in Nat /\ Len(d) < 65536
      BY <2>1
    <2> QED
      BY <2>1, <2>2, InNat16
  <1> QED
    BY <1>1, <1>2 DEF ShortBytes

LEMMA PuzzleShape ==
    ASSUME NEW i \in Nonces
    PROVE  LET p == NewPuzzle(8, 40, 0, i)
           IN  /\ GetBytes(p) = (<<8, 40>> \o <<0, 0>>) \o i
               /\ GetBytes(p) \in Bytes /\ Len(GetBytes(p)) = 4 + Len(i)
  <1> DEFINE p == NewPuzzle(8, 40, 0, i)
  <1>0. p.type = PUZZLE /\ p.complexity = 8 /\ p.lifetime = 40 /\ p.opaque = 0 /\ p.randomI = i
    BY DEF NewPuzzle
  <1>1. GetBytes(p) = (<<8, 40>> \o <<0, 0>>) \o i
    <2> HIDE DEF p
    <2>1. GetBytes(p) = PuzzleBytes(p)
      BY <1>0 DEF GetBytes, PUZZLE, SOLUTION, HOST_ID
    <2> QED
      BY <1>0, <2>1, ZeroWord DEF PuzzleBytes
  <1>2. i \in Bytes /\ <<8, 40>> \in Bytes /\ <<0, 0>> \in Bytes
    BY ConstantsAreBytes, ByteConstants
  <1>3. <<8, 40>> \o <<0, 0>> \in Bytes /\ Len(<<8, 40>> \o <<0, 0>>) = 4
    BY <1>2, BytesConcat
  <1> QED
    BY <1>1, <1>2, <1>3, BytesConcat

LEMMA SolutionShape ==
    ASSUME NEW i \in Nonces, NEW j \in Nonces
    PROVE  LET p == NewSolution(8, 0, i, j)
           IN  /\ GetBytes(p) = ((<<8, 0>> \o <<0, 0>>) \o i) \o j
               /\ GetBytes(p) \in Bytes /\ Len(GetBytes(p)) = 4 + Len(i) + Len(j)
  <1> DEFINE p == NewSolution(8, 0, i, j)
  <1>0. p.type = SOLUTION /\ p.complexity = 8 /\ p.opaque = 0 /\ p.randomI = i /\ p.solutionJ = j
    BY DEF NewSolution
  <1>1. GetBytes(p) = ((<<8, 0>> \o <<0, 0>>) \o i) \o j
    <2> HIDE DEF p
    <2>1. GetBytes(p) = SolutionBytes(p)
      BY <1>0 DEF GetBytes, PUZZLE, SOLUTION, HOST_ID
    <2> QED
      BY <1>0, <2>1, ZeroWord DEF SolutionBytes
  <1>2. i \in Bytes /\ j \in Bytes /\ <<8, 0>> \in Bytes /\ <<0, 0>> \in Bytes
    BY ConstantsAreBytes, ByteConstants
  <1>3. <<8, 0>> \o <<0, 0>> \in Bytes /\ Len(<<8, 0>> \o <<0, 0>>) = 4
    BY <1>2, BytesConcat
  <1>4. (<<8, 0>> \o <<0, 0>>) \o i \in Bytes /\ Len((<<8, 0>> \o <<0, 0>>) \o i) = 4 + Len(i)
    BY <1>2, <1>3, BytesConcat
  <1> QED
    BY <1>1, <1>2, <1>4, BytesConcat

LEMMA HostIdShape ==
    ASSUME NEW d \in Datas
    PROVE  LET p == NewHostId(0, d, <<>>)
           IN  /\ GetBytes(p) = (Word(Len(d)) \o <<0, 0, 0, 11>>) \o d
               /\ GetBytes(p) \in Bytes /\ Len(GetBytes(p)) = 6 + Len(d)
               /\ p = [type |-> HOST_ID, diType |-> 0, hostId |-> d, domainId |-> <<>>]
  <1> DEFINE p == NewHostId(0, d, <<>>)
  <1>0. p = [type |-> HOST_ID, diType |-> 0, hostId |-> d, domainId |-> <<>>]
    BY DEF NewHostId
  <1>1. d \in Bytes /\ Len(d) \in Nat /\ <<0, 0, 0, 11>> \in Bytes /\ Len(<<0, 0, 0, 11>>) = 4
    BY ConstantsAreBytes DEF Byte, Bytes
  <1>2. Word(Len(d)) \in Bytes /\ Len(Word(Len(d))) = 2
    BY <1>1, WordBytes
  <1>3. Word(Len(d)) \o <<0, 0, 0, 11>> \in Bytes /\ Len(Word(Len(d)) \o <<0, 0, 0, 11>>) = 6
    <2> DEFINE a == Word(Len(d))
               b == <<0, 0, 0, 11>>
    <2>1. a \in Bytes /\ b \in Bytes /\ Len(a) = 2 /\ Len(b) = 4
      BY <1>1, <1>2
    <2> HIDE DEF a, b
    <2>2. a \o b \in Bytes /\ Len(a \o b) = Len(a) + Len(b)
      BY <2>1, BytesConcat
    <2> QED
      BY <2>1, <2>2 DEF a, b
  <1>4. (Word(Len(d)) \o <<0, 0, 0, 11>>) \o d \in Bytes
        /\ Len((Word(Len(d)) \o <<0, 0, 0, 11>>) \o d) = 6 + Len(d)
    BY <1>1, <1>3, BytesConcat
  <1>5. Hi(0) % 16 = 0 /\ Lo(0) = 0 /\ (0 * 16) % 256 = 0 /\ 0 + 0 = 0
    BY DEF Hi, Lo
  <1>6. Len(<<>>) = 0
    OBVIOUS
  <1>7. HostIdBytes(p) = ((Word(Len(d)) \o <<0, 0, 0, 11>>) \o d) \o <<>>
    <2>1. p.hostId = d /\ p.domainId = <<>> /\ p.diType = 0
      BY <1>0
    <2>2. ((0 * 16) % 256) + (Hi(0) % 16) = 0
      BY <1>5
    <2> HIDE DEF p
    <2> QED
      BY <1>5, <1>6, <2>1, <2>2 DEF HostIdBytes, ALGORITHM_ECDH
  <1>8. GetBytes(p) = HostIdBytes(p)
    BY <1>0 DEF GetBytes, PUZZLE, SOLUTION, HOST_ID
  <1>9. ((Word(Len(d)) \o <<0, 0, 0, 11>>) \o d) \o <<>> = (Word(Len(d)) \o <<0, 0, 0, 11>>) \o d
    BY <1>4, ConcatEmptySeq DEF Bytes
  <1> QED
    BY <1>0, <1>4, <1>7, <1>8, <1>9

LEMMA DataShape ==
    ASSUME NEW type \in {HIP_CIPHER, ENCRYPTED_KEY, HIT_SUITE_LIST, DH_GROUP_LIST, HIP_MAC_3}, NEW data
    PROVE  GetBytes(NewData(type, data)) = data
  BY DEF NewData, GetBytes, HIP_CIPHER, ENCRYPTED_KEY, HIT_SUITE_LIST, DH_GROUP_LIST, HIP_MAC_3,
         PUZZLE, SOLUTION, HOST_ID

-----------------------------------------------------------------------------
(* A parameter in a packet is found where it was written ...               *)
LEMMA SentParamBytes ==
    ASSUME NEW p \in SentParams
    PROVE  /\ GetBytes(p) \in Bytes /\ Len(GetBytes(p)) \in Nat16
           /\ p.type \in KnownTypes
           /\ p.type < HIP_MAC_3 \/ \E m \in ShortBytes : p = NewMac3(m)
  <1> DEFINE Good(q) == /\ GetBytes(q) \in Bytes /\ Len(GetBytes(q)) \in Nat16
                        /\ q.type \in KnownTypes
                        /\ q.type < HIP_MAC_3 \/ \E m \in ShortBytes : q = NewMac3(m)
  <1>1. ASSUME NEW i \in Nonces PROVE Good(NewPuzzle(8, 40, 0, i))
    <2>1. Len(GetBytes(NewPuzzle(8, 40, 0, i))) \in Nat16 /\ GetBytes(NewPuzzle(8, 40, 0, i)) \in Bytes
      BY PuzzleShape, ConstantsAreBytes
    <2>2. NewPuzzle(8, 40, 0, i).type = PUZZLE
      BY DEF NewPuzzle
    <2> QED
      BY <2>1, <2>2 DEF PUZZLE, HIP_MAC_3, KnownTypes
  <1>2. ASSUME NEW i \in Nonces, NEW j \in Nonces PROVE Good(NewSolution(8, 0, i, j))
    <2>1. Len(GetBytes(NewSolution(8, 0, i, j))) \in Nat16 /\ GetBytes(NewSolution(8, 0, i, j)) \in Bytes
      BY SolutionShape, ConstantsAreBytes
    <2>2. NewSolution(8, 0, i, j).type = SOLUTION
      BY DEF NewSolution
    <2> QED
      BY <2>1, <2>2 DEF SOLUTION, HIP_MAC_3, KnownTypes
  <1>3. ASSUME NEW d \in Datas PROVE Good(NewHostId(0, d, <<>>))
    <2>1. Len(GetBytes(NewHostId(0, d, <<>>))) \in Nat16 /\ GetBytes(NewHostId(0, d, <<>>)) \in Bytes
      BY HostIdShape, ConstantsAreBytes
    <2>2. NewHostId(0, d, <<>>).type = HOST_ID
      BY DEF NewHostId
    <2> QED
      BY <2>1, <2>2 DEF HOST_ID, HIP_MAC_3, KnownTypes
  <1>4. ASSUME NEW type \in {HIP_CIPHER, ENCRYPTED_KEY, HIT_SUITE_LIST, DH_GROUP_LIST}, NEW d \in ShortBytes
        PROVE  Good(NewData(type, d))
    <2>1. GetBytes(NewData(type, d)) = d /\ d \in Bytes /\ Len(d) \in Nat16
      BY DataShape DEF ShortBytes
    <2>2. NewData(type, d).type = type
      BY DEF NewData
    <2>3. type < HIP_MAC_3 /\ type \in KnownTypes
      BY DEF HIP_CIPHER, ENCRYPTED_KEY, HIT_SUITE_LIST, DH_GROUP_LIST, HIP_MAC_3, KnownTypes
    <2> QED
      BY <2>1, <2>2, <2>3
  <1>5. ASSUME NEW m \in ShortBytes PROVE Good(NewMac3(m))
    <2>1. GetBytes(NewMac3(m)) = m /\ m \in Bytes /\ Len(m) \in Nat16
      BY DataShape DEF ShortBytes, NewMac3
    <2>2. NewMac3(m).type = HIP_MAC_3
      BY DEF NewData, NewMac3
    <2> QED
      BY <2>1, <2>2 DEF KnownTypes
  <1> HIDE DEF Good
  <1>6. <<2>> \in ShortBytes /\ <<8>> \in ShortBytes /\ <<DH_GROUP_ECP192>> \in ShortBytes
    <2>1. 2 \in Byte /\ 8 \in Byte /\ DH_GROUP_ECP192 \in Byte
      BY DEF Byte, DH_GROUP_ECP192
    <2>2. 1 \in Nat16
      BY InNat16
    <2> QED
      BY <2>1, <2>2, ByteConstants DEF ShortBytes
  <1>7. Good(NewCipher(2)) /\ Good(NewHitSuiteList(<<8>>)) /\ Good(NewDhGroupList(DH_GROUP_ECP192))
    BY <1>4, <1>6 DEF NewCipher, NewHitSuiteList, NewDhGroupList
  <1>8. \A d \in Datas : Good(NewEncryptedKey(d))
    <2>1. \A d \in Datas : d \in ShortBytes
      BY ConstantsAreBytes
    <2> QED
      BY <1>4, <2>1 DEF NewEncryptedKey
  <1>9. Good(p)
    BY <1>1, <1>2, <1>3, <1>5, <1>7, <1>8 DEF SentParams
  <1> QED
    BY <1>9 DEF Good

\* What the fields of a parameter are read from.
ReadsFields(s, q, g) ==
    /\ \A i \in 1..Len(g) : ByteAt(s, q + (i - 1)) = g[i]
    /\ \A i \in 0..Len(g), j \in 0..Len(g) : Slice(s, q + i, q + j) = SubSeq(g, i + 1, j)

\* A parameter among other bytes: its type, its length and its fields are found
\* again, and it ends where the reader thinks it does.
IsWrittenAt(s, o, p, after) ==
    LET g == GetBytes(p)
        m == Padded(Len(g) + HDX_SIZE_PARAM_HDR)
    IN  /\ s \in Bytes /\ ParamToBytes(p) \in Bytes
        /\ o \in Nat /\ Len(g) \in Nat /\ after \in Nat /\ m \in Nat
        /\ m >= Len(g) + HDX_SIZE_PARAM_HDR
        /\ Len(ParamToBytes(p)) = m /\ ParamLength(p) = m
        /\ Len(s) = o + m + after
        /\ WordAt(s, o) = p.type /\ WordAt(s, o + 2) = Len(g)
        /\ ReadsFields(s, o + HDX_SIZE_PARAM_HDR, g)

LEMMA ParamInTheMiddle ==
    ASSUME NEW p \in SentParams, NEW a \in Bytes, NEW c \in Bytes
    PROVE  IsWrittenAt((a \o ParamToBytes(p)) \o c, Len(a), p, Len(c))
  <1> DEFINE s == (a \o ParamToBytes(p)) \o c
             o == Len(a)
             q == o + HDX_SIZE_PARAM_HDR
             g == GetBytes(p)
             n == Len(g)
             h == Word(p.type) \o Word(n)
             m == Padded(n + HDX_SIZE_PARAM_HDR)
             z == Zeros(m - HDX_SIZE_PARAM_HDR - n)
             b == (h \o g) \o z
  <1>1. g \in Bytes /\ n \in Nat /\ n \in Nat16 /\ p.type \in Nat /\ p.type \in Nat16
    <2>1. g \in Bytes /\ n \in Nat16 /\ p.type \in KnownTypes
      BY SentParamBytes
    <2>2. \A t \in KnownTypes : t \in Nat /\ t < 65536
      BY DEF KnownTypes, PUZZLE, SOLUTION, HIP_CIPHER, ENCRYPTED_KEY, HOST_ID, HIT_SUITE_LIST,
                  DH_GROUP_LIST, HIP_MAC_3
    <2> QED
      BY <2>1, <2>2, InNat16, LenProperties DEF Bytes
  <1> HIDE DEF g
  <1>2. m \in Nat /\ m >= n + 4 /\ HDX_SIZE_PARAM_HDR = 4 /\ m - HDX_SIZE_PARAM_HDR - n \in Nat
    <2>1. (n + 4) % 8 \in 0..7 /\ n + 4 \in Nat
      BY <1>1
    <2>2. HDX_SIZE_PARAM_HDR = 4
      BY DEF HDX_SIZE_PARAM_HDR
    <2>3. m = n + 4 + (IF (n + 4) % 8 > 0 THEN 8 - ((n + 4) % 8) ELSE 0)
      BY <2>2 DEF Padded
    <2> HIDE DEF m, n
    <2> QED
      BY <1>1, <2>1, <2>2, <2>3
  <1>3. Size(p) = n /\ ParamLength(p) = m /\ ParamToBytes(p) = b
    <2>1. Size(p) = n
      BY DEF Size, g
    <2>2. HDX_SIZE_PARAM_HDR + n = n + HDX_SIZE_PARAM_HDR
      BY <1>1, <1>2
    <2>3. ParamLength(p) = m
      BY <2>1, <2>2 DEF ParamLength
    <2> QED
      BY <2>1, <2>3 DEF ParamToBytes, g
  <1>4. Word(p.type) \in Bytes /\ Word(n) \in Bytes /\ Len(Word(p.type)) = 2 /\ Len(Word(n)) = 2
    BY <1>1, WordBytes
  <1>5. h \in Bytes /\ Len(h) = 4
    <2> DEFINE u == Word(p.type)
               v == Word(n)
    <2> HIDE DEF u, v
    <2>1. u \o v \in Bytes /\ Len(u \o v) = Len(u) + Len(v)
      BY <1>4, BytesConcat DEF u, v
    <2> QED
      BY <1>4, <2>1 DEF u, v
  <1>6. z \in Bytes /\ Len(z) = m - 4 - n
    BY <1>2, ZerosBytes
  <1> HIDE DEF z, m, n
  <1>7. Word(p.type)[1] * 256 + Word(p.type)[2] = p.type /\ Word(n)[1] * 256 + Word(n)[2] = n
    BY <1>1, WordBytes
  <1>8. h[1] = Word(p.type)[1] /\ h[2] = Word(p.type)[2] /\ h[3] = Word(n)[1] /\ h[4] = Word(n)[2]
    BY DEF Word
  <1> HIDE DEF h
  <1>9. h \o g \in Bytes /\ Len(h \o g) = 4 + n
    <2>0. h \in Bytes /\ g \in Bytes
      BY <1>1, <1>5
    <2>1. h \o g \in Bytes /\ Len(h \o g) = Len(h) + Len(g)
      BY <2>0, BytesConcat
    <2> QED
      BY <1>5, <2>1 DEF n
  <1>10. b \in Bytes /\ Len(b) = m
    <2>1. b \in Bytes /\ Len(b) = Len(h \o g) + Len(z)
      BY <1>6, <1>9, BytesConcat
    <2> QED
      BY <1>1, <1>2, <1>6, <1>9, <2>1
  <1>11. o \in Nat /\ Len(c) \in Nat
    BY LenProperties DEF Bytes
  <1>12. a \o b \in Bytes /\ Len(a \o b) = o + m /\ s \in Bytes /\ Len(s) = o + m + Len(c)
    <2>1. a \o b \in Bytes /\ Len(a \o b) = o + m
      <3> HIDE DEF b
      <3>1. a \o b \in Bytes /\ Len(a \o b) = Len(a) + Len(b)
        BY <1>10, BytesConcat
      <3> QED
        BY <1>10, <3>1
    <2>2. s = (a \o b) \o c
      BY <1>3
    <2> DEFINE ab == a \o b
    <2> HIDE DEF b, ab
    <2>3. ab \o c \in Bytes /\ Len(ab \o c) = Len(ab) + Len(c)
      BY <2>1, BytesConcat DEF ab
    <2> QED
      BY <2>1, <2>2, <2>3 DEF ab
  <1>13. s = (a \o h) \o (g \o (z \o c)) /\ s = ((a \o h) \o g) \o (z \o c)
    <2>1. z \o c \in Bytes /\ a \o h \in Bytes /\ g \o (z \o c) \in Bytes
      BY <1>1, <1>5, <1>6, BytesConcat
    <2>2. s = (a \o b) \o c /\ b = (h \o g) \o z
      BY <1>3
    <2> HIDE DEF b
    <2>3. (a \o b) \o c = a \o (b \o c)
      BY <1>10, BytesAssociative
    <2>4. b \o c = (h \o g) \o (z \o c)
      BY <1>6, <1>9, <2>2, BytesAssociative
    <2>5. (h \o g) \o (z \o c) = h \o (g \o (z \o c))
      BY <1>1, <1>5, <2>1, BytesAssociative
    <2>6. a \o (h \o (g \o (z \o c))) = (a \o h) \o (g \o (z \o c))
      BY <1>5, <2>1, BytesAssociative
    <2>7. (a \o h) \o (g \o (z \o c)) = ((a \o h) \o g) \o (z \o c)
      <3> DEFINE x == a \o h
                 y == z \o c
      <3>1. x \in Bytes /\ y \in Bytes /\ g \in Bytes
        BY <1>1, <2>1
      <3> HIDE DEF x, y
      <3>2. (x \o g) \o y = x \o (g \o y)
        BY <3>1, BytesAssociative
      <3> QED
        BY <3>2 DEF x, y
    <2> QED
      BY <2>2, <2>3, <2>4, <2>5, <2>6, <2>7
  <1>14. z \o c \in Bytes /\ g \o (z \o c) \in Bytes /\ a \o h \in Bytes /\ Len(a \o h) = o + 4
    <2>1. z \o c \in Bytes /\ a \o h \in Bytes /\ Len(a \o h) = Len(a) + Len(h)
      BY <1>5, <1>6, BytesConcat
    <2>2. g \o (z \o c) \in Bytes
      BY <1>1, <2>1, BytesConcat
    <2> QED
      BY <1>5, <2>1, <2>2
  <1> HIDE DEF s
  <1>15. \A i \in 1..4 : s[o + i] = h[i]
    <2> DEFINE y == g \o (z \o c)
    <2>1. y \in Bytes
      BY <1>14
    <2> HIDE DEF y
    <2>2. s = (a \o h) \o y
      BY <1>13 DEF y
    <2>3. IsAt(s, Len(a), h)
      BY <1>5, <2>1, <2>2, InTheMiddle
    <2> QED
      BY <1>5, <2>3 DEF IsAt
  <1>16. IsAt(s, q, g)
    <2> DEFINE y == z \o c
               x == a \o h
    <2>1. y \in Bytes /\ x \in Bytes /\ Len(x) = q
      BY <1>14 DEF HDX_SIZE_PARAM_HDR
    <2> HIDE DEF x, y, q
    <2>2. s = (x \o g) \o y
      BY <1>13 DEF x, y
    <2> QED
      BY <1>1, <2>1, <2>2, InTheMiddle
  <1>17. WordAt(s, o) = p.type /\ WordAt(s, o + 2) = n
    <2>0. 1 \in 1..4 /\ 2 \in 1..4 /\ 3 \in 1..4 /\ 4 \in 1..4
      OBVIOUS
    <2>1. s[o + 1] = h[1] /\ s[o + 2] = h[2] /\ s[o + 3] = h[3] /\ s[o + 4] = h[4]
      BY <1>15, <2>0
    <2>2. (o + 1) + 1 = o + 2 /\ (o + 2) + 1 = o + 3 /\ (o + 2 + 1) + 1 = o + 4
      BY <1>11
    <2> QED
      BY <1>7, <1>8, <2>1, <2>2 DEF WordAt, ByteAt
  <1>18. ASSUME NEW i \in 1..n PROVE ByteAt(s, q + (i - 1)) = g[i]
    <2>1. q + (i - 1) + 1 = q + i
      BY <1>2, <1>11
    <2> QED
      BY <1>16, <2>1 DEF ByteAt, IsAt, n
  <1>19. ASSUME NEW i \in 0..n, NEW j \in 0..n PROVE Slice(s, q + i, q + j) = SubSeq(g, i + 1, j)
    <2>1. q + i + 1 = q + (i + 1) /\ i + 1 \in 1..n + 1
      BY <1>1, <1>2, <1>11
    <2> QED
      BY <1>16, <2>1 DEF Slice, IsAt, n
  <1>20. b \in Bytes /\ Len(b) = m /\ ParamToBytes(p) = b /\ ParamLength(p) = m
    BY <1>3, <1>10
  <1>21. ReadsFields(s, q, g)
    BY <1>18, <1>19 DEF ReadsFields, n
  <1> HIDE DEF b, o, q
  <1>22. IsWrittenAt(s, o, p, Len(c))
    BY <1>1, <1>2, <1>11, <1>12, <1>17, <1>20, <1>21 DEF IsWrittenAt, g, n, m, q
  <1> QED
    BY <1>22 DEF s, o

-----------------------------------------------------------------------------
(* ... its fields are read back ...                                        *)
LEMMA MiddleSlice ==
    ASSUME NEW a \in Bytes, NEW b \in Bytes, NEW c \in Bytes
    PROVE  /\ SubSeq((a \o b) \o c, Len(a) + 1, Len(a) + Len(b)) = b
           /\ SubSeq(a \o b, Len(a) + 1, Len(a) + Len(b)) = b
  <1>1. Len(b) \in Nat /\ SubSeq(b, 1, Len(b)) = b
    BY LenProperties, SubSeqFull DEF Bytes
  <1>2. ASSUME NEW e \in Bytes PROVE SubSeq((a \o b) \o e, Len(a) + 1, Len(a) + Len(b)) = b
    <2>1. IsAt((a \o b) \o e, Len(a), b)
      BY InTheMiddle
    <2>2. 1 \in 1..Len(b) + 1 /\ Len(b) \in 0..Len(b)
      BY <1>1
    <2> QED
      BY <1>1, <2>1, <2>2 DEF IsAt
  <1>3. <<>> \in Bytes /\ (a \o b) \o <<>> = a \o b
    <2> DEFINE x == a \o b
    <2>1. x \in Bytes
      BY BytesConcat
    <2> HIDE DEF x
    <2>2. x \o <<>> = x /\ <<>> \in Bytes
      BY <2>1, ConcatEmptySeq, ByteConstants DEF Bytes
    <2> QED
      BY <2>2 DEF x
  <1> QED
    BY <1>2, <1>3

LEMMA FourBytes ==
    ASSUME NEW a \in Byte, NEW b \in Byte, NEW c \in Byte, NEW d \in Byte
    PROVE  LET x == <<a, b>> \o <<c, d>>
           IN  x \in Bytes /\ Len(x) = 4 /\ x[1] = a /\ x[2] = b /\ x[3] = c /\ x[4] = d
  <1>1. <<a, b>> \in Bytes /\ <<c, d>> \in Bytes /\ Len(<<a, b>>) = 2 /\ Len(<<c, d>>) = 2
    BY ByteConstants
  <1> DEFINE u == <<a, b>>
             v == <<c, d>>
  <1>2. u[1] = a /\ u[2] = b /\ v[1] = c /\ v[2] = d
    OBVIOUS
  <1>3. u \in Bytes /\ v \in Bytes /\ Len(u) = 2 /\ Len(v) = 2
    BY <1>1
  <1> HIDE DEF u, v
  <1>4. u \o v \in Bytes /\ Len(u \o v) = Len(u) + Len(v)
    BY <1>3, BytesConcat
  <1>5. /\ \A i \in 1..Len(u) : (u \o v)[i] = u[i]
        /\ \A i \in 1..Len(v) : (u \o v)[Len(u) + i] = v[i]
    BY <1>3, BytesOfConcat
  <1>6. (u \o v)[1] = u[1] /\ (u \o v)[2] = u[2] /\ (u \o v)[3] = v[1] /\ (u \o v)[4] = v[2]
    <2> DEFINE x == u \o v
    <2> HIDE DEF x
    <2>1. /\ \A i \in 1..Len(u) : x[i] = u[i]
          /\ \A i \in 1..Len(v) : x[Len(u) + i] = v[i]
      BY <1>5 DEF x
    <2>2. /\ 1 \in 1..Len(u) /\ 2 \in 1..Len(u) /\ 1 \in 1..Len(v) /\ 2 \in 1..Len(v)
          /\ Len(u) + 1 = 3 /\ Len(u) + 2 = 4
      BY <1>3
    <2>3. x[1] = u[1] /\ x[2] = u[2] /\ x[3] = v[1] /\ x[4] = v[2]
      BY <2>1, <2>2
    <2> QED
      BY <2>3 DEF x
  <1> QED
    BY <1>2, <1>3, <1>4, <1>6 DEF u, v

LEMMA BeginsWith ==
    ASSUME NEW h \in Bytes, NEW t \in Bytes, NEW i \in 1..Len(h)
    PROVE  (h \o t)[i] = h[i]
  BY BytesOfConcat

HasFields(s, q, g, n) ==
    /\ n >= 1 => ByteAt(s, q) = g[1]
    /\ n >= 2 => ByteAt(s, q + 1) = g[2] /\ WordAt(s, q) = g[1] * 256 + g[2]
    /\ n >= 4 => /\ ByteAt(s, q + 2) = g[3] /\ ByteAt(s, q + 3) = g[4]
                 /\ WordAt(s, q + 2) = g[3] * 256 + g[4]
    /\ n >= 6 => WordAt(s, q + 4) = g[5] * 256 + g[6]
    /\ Slice(s, q, q + n) = g

LEMMA FirstFields ==
    ASSUME NEW s, NEW q \in Nat, NEW g \in Bytes, ReadsFields(s, q, g)
    PROVE  HasFields(s, q, g, Len(g))
  <1> DEFINE n == Len(g)
  <1>1. n \in Nat
    BY LenProperties DEF Bytes
  <1>2. ASSUME NEW i \in 1..n, NEW k, k = q + (i - 1) PROVE ByteAt(s, k) = g[i]
    BY <1>2 DEF ReadsFields
  <1>3. n >= 1 => ByteAt(s, q) = g[1]
    BY <1>1, <1>2
  <1>4. n >= 2 => ByteAt(s, q + 1) = g[2]
    BY <1>1, <1>2
  <1>5. n >= 4 => ByteAt(s, q + 2) = g[3] /\ ByteAt(s, q + 3) = g[4]
    BY <1>1, <1>2
  <1>6. n >= 6 => ByteAt(s, q + 4) = g[5] /\ ByteAt(s, q + 5) = g[6]
    BY <1>1, <1>2
  <1>7. (q + 2) + 1 = q + 3 /\ (q + 4) + 1 = q + 5
    OBVIOUS
  <1>8. Slice(s, q, q + n) = g
    <2>1. 0 \in 0..n /\ n \in 0..n /\ q + 0 = q /\ 0 + 1 = 1
      BY <1>1
    <2>2. Slice(s, q + 0, q + n) = SubSeq(g, 0 + 1, n)
      BY <2>1 DEF ReadsFields
    <2>3. SubSeq(g, 1, n) = g
      BY SubSeqFull DEF Bytes
    <2> QED
      BY <2>1, <2>2, <2>3
  <1> QED
    BY <1>1, <1>3, <1>4, <1>5, <1>6, <1>7, <1>8 DEF WordAt, HasFields

LEMMA PuzzleReadBack ==
    ASSUME NEW i \in Nonces, NEW s, NEW q \in Nat,
           ReadsFields(s, q, GetBytes(NewPuzzle(8, 40, 0, i)))
    PROVE  PuzzleFrom(s, q, Len(GetBytes(NewPuzzle(8, 40, 0, i)))) = {NewPuzzle(8, 40, 0, i)}
  <1> DEFINE g == GetBytes(NewPuzzle(8, 40, 0, i))
             h == <<8, 40>> \o <<0, 0>>
             n == 4 + Len(i)
  <1>1. g = h \o i /\ g \in Bytes /\ Len(g) = n /\ i \in Bytes /\ Len(i) \in Nat
    BY PuzzleShape, ConstantsAreBytes
  <1>2. h \in Bytes /\ Len(h) = 4 /\ h[1] = 8 /\ h[2] = 40 /\ h[3] = 0 /\ h[4] = 0
    <2>1. 0 \in Byte /\ 8 \in Byte /\ 40 \in Byte
      BY ByteConstants
    <2> QED
      BY <2>1, FourBytes
  <1> HIDE DEF g, h
  <1>3. g[1] = 8 /\ g[2] = 40 /\ g[3] = 0 /\ g[4] = 0
    <2>1. \A k \in 1..Len(h) : (h \o i)[k] = h[k]
      BY <1>1, <1>2, BeginsWith
    <2> QED
      BY <1>1, <1>2, <2>1
  <1>4. SubSeq(g, 4 + 1, n) = i
    <2>1. SubSeq(h \o i, Len(h) + 1, Len(h) + Len(i)) = i
      BY <1>1, <1>2, MiddleSlice
    <2> QED
      BY <1>1, <1>2, <2>1
  <1>5. ReadsFields(s, q, g)
    BY DEF g
  <1>6. ByteAt(s, q) = 8 /\ ByteAt(s, q + 1) = 40 /\ WordAt(s, q + 2) = 0
    <2>1. HasFields(s, q, g, Len(g))
      BY <1>1, <1>5, FirstFields
    <2>2. n >= 1 /\ n >= 2 /\ n >= 4
      BY <1>1
    <2> QED
      BY <1>1, <1>3, <2>1, <2>2 DEF HasFields
  <1>7. Slice(s, q + 4, q + n) = i
    <2>1. 4 \in 0..n /\ n \in 0..n
      BY <1>1
    <2>2. Slice(s, q + 4, q + n) = SubSeq(g, 4 + 1, n)
      BY <1>1, <1>5, <2>1 DEF ReadsFields
    <2> QED
      BY <1>4, <2>2
  <1>8. ~(n < 4)
    BY <1>1
  <1>9. PuzzleFrom(s, q, n) = {NewPuzzle(8, 40, 0, i)}
    <2> HIDE DEF n
    <2> QED
      BY <1>6, <1>7, <1>8 DEF PuzzleFrom
  <1> QED
    BY <1>1, <1>9 DEF g

LEMMA SolutionReadBack ==
    ASSUME NEW i \in Nonces, NEW j \in Nonces, NEW s, NEW q \in Nat,
           ReadsFields(s, q, GetBytes(NewSolution(8, 0, i, j)))
    PROVE  SolutionFrom(s, q, Len(GetBytes(NewSolution(8, 0, i, j)))) = {NewSolution(8, 0, i, j)}
  <1> DEFINE g == GetBytes(NewSolution(8, 0, i, j))
             h == <<8, 0>> \o <<0, 0>>
             l == Len(i)
             n == 4 + l + l
  <1>1. /\ g = (h \o i) \o j /\ g \in Bytes /\ Len(g) = n
        /\ i \in Bytes /\ j \in Bytes /\ l \in Nat /\ Len(j) = l
    BY SolutionShape, ConstantsAreBytes
  <1>2. h \in Bytes /\ Len(h) = 4 /\ h[1] = 8 /\ h[2] = 0 /\ h[3] = 0 /\ h[4] = 0
    <2>1. 0 \in Byte /\ 8 \in Byte /\ 40 \in Byte
      BY ByteConstants
    <2> QED
      BY <2>1, FourBytes
  <1> HIDE DEF g, h
  <1>3. h \o i \in Bytes /\ Len(h \o i) = 4 + l
    BY <1>1, <1>2, BytesConcat
  <1> HIDE DEF l
  <1>4. g[1] = 8 /\ g[2] = 0 /\ g[3] = 0 /\ g[4] = 0
    <2>1. \A k \in 1..Len(h) : (h \o i)[k] = h[k]
      BY <1>1, <1>2, BeginsWith
    <2> DEFINE x == h \o i
    <2> HIDE DEF x
    <2>2. \A k \in 1..Len(x) : (x \o j)[k] = x[k]
      BY <1>1, <1>3, BeginsWith DEF x
    <2>3. 1 \in 1..4 + l /\ 2 \in 1..4 + l /\ 3 \in 1..4 + l /\ 4 \in 1..4 + l
      BY <1>1
    <2> QED
      BY <1>1, <1>2, <1>3, <2>1, <2>2, <2>3 DEF x
  <1>5. SubSeq(g, 4 + 1, 4 + l) = i
    <2>1. SubSeq((h \o i) \o j, Len(h) + 1, Len(h) + Len(i)) = i
      BY <1>1, <1>2, MiddleSlice
    <2> QED
      BY <1>1, <1>2, <2>1 DEF l
  <1>6. SubSeq(g, 4 + l + 1, n) = j
    <2> DEFINE x == h \o i
    <2> HIDE DEF x
    <2>1. SubSeq(x \o j, Len(x) + 1, Len(x) + Len(j)) = j
      BY <1>1, <1>3, MiddleSlice DEF x
    <2> QED
      BY <1>1, <1>3, <2>1 DEF x
  <1>7. ReadsFields(s, q, g)
    BY DEF g
  <1>8. ByteAt(s, q) = 8 /\ WordAt(s, q + 2) = 0
    <2>1. HasFields(s, q, g, Len(g))
      BY <1>1, <1>7, FirstFields
    <2>2. n >= 1 /\ n >= 2 /\ n >= 4
      BY <1>1
    <2> QED
      BY <1>1, <1>4, <2>1, <2>2 DEF HasFields
  <1>9. Slice(s, q + 4, q + (4 + l)) = i /\ Slice(s, q + (4 + l), q + n) = j
    <2>1. 4 \in 0..n /\ 4 + l \in 0..n /\ n \in 0..n
      BY <1>1
    <2>2. Slice(s, q + 4, q + (4 + l)) = SubSeq(g, 4 + 1, 4 + l)
      BY <1>1, <1>7, <2>1 DEF ReadsFields
    <2>3. Slice(s, q + (4 + l), q + n) = SubSeq(g, 4 + l + 1, n)
      BY <1>1, <1>7, <2>1 DEF ReadsFields
    <2> QED
      BY <1>5, <1>6, <2>2, <2>3
  <1>10. ~(n < 4) /\ (n - 4) \div 2 = l /\ q + 4 + l = q + (4 + l)
    BY <1>1
  <1>11. SolutionFrom(s, q, n) = {NewSolution(8, 0, i, j)}
    <2> HIDE DEF n
    <2> QED
      BY <1>8, <1>9, <1>10 DEF SolutionFrom
  <1> QED
    BY <1>1, <1>11 DEF g

LEMMA HostIdReadBack ==
    ASSUME NEW d \in Datas, NEW s \in Bytes, NEW q \in Nat,
           ReadsFields(s, q, GetBytes(NewHostId(0, d, <<>>))),
           q + Len(GetBytes(NewHostId(0, d, <<>>))) <= Len(s), ByteAt(s, 2) \div 16 = 0
    PROVE  HostIdFrom(s, q, Len(GetBytes(NewHostId(0, d, <<>>)))) = {NewHostId(0, d, <<>>)}
  <1> DEFINE g == GetBytes(NewHostId(0, d, <<>>))
             w == Word(Len(d))
             h == w \o <<0, 0, 0, 11>>
             l == Len(d)
             n == 6 + l
  <1>1. /\ g = h \o d /\ g \in Bytes /\ Len(g) = n
        /\ d \in Bytes /\ l \in Nat /\ l \in Nat16
    BY HostIdShape, ConstantsAreBytes DEF ShortBytes
  <1>2. h \in Bytes /\ Len(h) = 6 /\ h[1] * 256 + h[2] = l /\ h[3] = 0 /\ h[4] = 0 /\ h[5] = 0 /\ h[6] = 11
    <2>1. w = <<w[1], w[2]>> /\ w[1] * 256 + w[2] = l /\ w[1] \in Byte /\ w[2] \in Byte
      BY <1>1, WordBytes DEF Word
    <2>2. w \in Bytes /\ Len(w) = 2
      BY <1>1, WordBytes
    <2> DEFINE v == <<0, 0, 0, 11>>
    <2>3. v \in Bytes /\ Len(v) = 4 /\ v[1] = 0 /\ v[2] = 0 /\ v[3] = 0 /\ v[4] = 11
      BY DEF Bytes, Byte
    <2> HIDE DEF w, v
    <2>4. w \o v \in Bytes /\ Len(w \o v) = Len(w) + Len(v)
      BY <2>2, <2>3, BytesConcat
    <2>5. /\ \A k \in 1..Len(w) : (w \o v)[k] = w[k]
          /\ \A k \in 1..Len(v) : (w \o v)[Len(w) + k] = v[k]
      BY <2>2, <2>3, BytesOfConcat
    <2> DEFINE x == w \o v
    <2> HIDE DEF x
    <2>7. /\ \A i \in 1..Len(w) : x[i] = w[i]
          /\ \A i \in 1..Len(v) : x[Len(w) + i] = v[i]
      BY <2>5 DEF x
    <2>8. /\ 1 \in 1..Len(w) /\ 2 \in 1..Len(w)
          /\ 1 \in 1..Len(v) /\ 2 \in 1..Len(v) /\ 3 \in 1..Len(v) /\ 4 \in 1..Len(v)
          /\ Len(w) + 1 = 3 /\ Len(w) + 2 = 4 /\ Len(w) + 3 = 5 /\ Len(w) + 4 = 6
      BY <2>2, <2>3
    <2>9. x[1] = w[1] /\ x[2] = w[2] /\ x[3] = v[1] /\ x[4] = v[2] /\ x[5] = v[3] /\ x[6] = v[4]
      BY <2>7, <2>8
    <2>6. /\ (w \o v)[1] = w[1] /\ (w \o v)[2] = w[2] /\ (w \o v)[3] = v[1]
          /\ (w \o v)[4] = v[2] /\ (w \o v)[5] = v[3] /\ (w \o v)[6] = v[4]
      BY <2>9 DEF x
    <2> QED
      BY <2>1, <2>2, <2>3, <2>4, <2>6 DEF v
  <1> HIDE DEF g, h, l
  <1>3. g[1] * 256 + g[2] = l /\ g[3] = 0 /\ g[4] = 0 /\ g[5] = 0 /\ g[6] = 11
    <2>1. \A k \in 1..Len(h) : (h \o d)[k] = h[k]
      BY <1>1, <1>2, BeginsWith
    <2>2. 1 \in 1..6 /\ 2 \in 1..6 /\ 3 \in 1..6 /\ 4 \in 1..6 /\ 5 \in 1..6 /\ 6 \in 1..6
      OBVIOUS
    <2> QED
      BY <1>1, <1>2, <2>1, <2>2
  <1>4. SubSeq(g, 6 + 1, n) = d
    <2>1. SubSeq(h \o d, Len(h) + 1, Len(h) + Len(d)) = d
      BY <1>1, <1>2, MiddleSlice
    <2> QED
      BY <1>1, <1>2, <2>1 DEF l
  <1>5. ReadsFields(s, q, g)
    BY DEF g
  <1>6. WordAt(s, q) = l /\ ByteAt(s, q + 2) = 0 /\ ByteAt(s, q + 3) = 0 /\ WordAt(s, q + 4) = 11
    <2>1. HasFields(s, q, g, Len(g))
      BY <1>1, <1>5, FirstFields
    <2>2. n >= 1 /\ n >= 2 /\ n >= 4 /\ n >= 6
      BY <1>1
    <2>3. /\ WordAt(s, q) = g[1] * 256 + g[2] /\ ByteAt(s, q + 2) = g[3] /\ ByteAt(s, q + 3) = g[4]
          /\ WordAt(s, q + 4) = g[5] * 256 + g[6]
      BY <1>1, <2>1, <2>2 DEF HasFields
    <2>4. 0 * 256 + 11 = 11
      OBVIOUS
    <2> QED
      BY <1>3, <2>3, <2>4
  <1>7. Slice(s, q + 6, q + n) = d /\ Slice(s, q + n, q + n) = <<>>
    <2>1. 6 \in 0..n /\ n \in 0..n /\ n \in Int /\ n + 1 \in Int /\ n < n + 1
      BY <1>1
    <2>2. Slice(s, q + 6, q + n) = SubSeq(g, 6 + 1, n) /\ Slice(s, q + n, q + n) = SubSeq(g, n + 1, n)
      BY <1>1, <1>5, <2>1 DEF ReadsFields
    <2>3. SubSeq(g, n + 1, n) = <<>>
      BY <2>1, SubSeqEmpty
    <2> QED
      BY <1>4, <2>2, <2>3
  <1>8. /\ ~(Len(s) - q < 6) /\ ~(6 + l + 0 > Len(s))
        /\ q + 6 + l = q + n /\ (0 % 16) * 256 + 0 = 0
    <2>1. Len(s) \in Nat /\ q + n <= Len(s)
      BY <1>1, LenProperties DEF Bytes, g
    <2> QED
      BY <1>1, <2>1
  <1>9. HostIdFrom(s, q, n) = {NewHostId(0, d, <<>>)}
    <2> HIDE DEF n
    <2> QED
      BY <1>6, <1>7, <1>8 DEF HostIdFrom, ALGORITHM_ECDH
  <1> QED
    BY <1>1, <1>9 DEF g

-----------------------------------------------------------------------------
(* ... and so it is the parameter that was written.                        *)
\* A parameter that was written is read back, whatever stands before and after it
\* (the type of the packet, which HOST_ID looks at, included).
LEMMA ReadBack ==
    ASSUME NEW p \in SentParams, NEW a \in Bytes, NEW c \in Bytes, NEW s, s = (a \o ParamToBytes(p)) \o c,
           ByteAt(s, 2) \div 16 = 0
    PROVE  ParamFromBytes(s, Len(a)) = {p}
  <1> DEFINE o == Len(a)
             q == o + HDX_SIZE_PARAM_HDR
             g == GetBytes(p)
             n == Len(g)
             m == Padded(n + HDX_SIZE_PARAM_HDR)
  <1>1. /\ s \in Bytes /\ o \in Nat /\ n \in Nat /\ Len(c) \in Nat
        /\ m >= n + HDX_SIZE_PARAM_HDR /\ m \in Nat /\ Len(s) = o + m + Len(c)
        /\ WordAt(s, o) = p.type /\ WordAt(s, o + 2) = n
        /\ ReadsFields(s, q, g)
    <2>1. IsWrittenAt((a \o ParamToBytes(p)) \o c, Len(a), p, Len(c))
      BY ParamInTheMiddle
    <2>2. IsWrittenAt(s, Len(a), p, Len(c))
      BY <2>1
    <2> QED
      BY <2>2 DEF IsWrittenAt
  <1>2. HDX_SIZE_PARAM_HDR = 4 /\ q \in Nat
    BY <1>1 DEF HDX_SIZE_PARAM_HDR
  <1>3. g \in Bytes /\ p.type \in KnownTypes
    BY SentParamBytes
  <1> HIDE DEF o, q, g, n, m
  <1>4. ~(Len(s) - o < HDX_SIZE_PARAM_HDR) /\ ~(m > Len(s) - o) /\ q + n <= Len(s)
    BY <1>1, <1>2 DEF q
  <1>5. ParamFromBytes(s, o) = SetBytes(p.type, s, q, n)
    BY <1>1, <1>3, <1>4 DEF ParamFromBytes, m, q
  <1>6. Slice(s, q, q + n) = g
    <2>1. HasFields(s, q, g, Len(g))
      BY <1>1, <1>2, <1>3, FirstFields
    <2> QED
      BY <2>1 DEF HasFields, n
  <1>7. ASSUME NEW i \in Nonces, p = NewPuzzle(8, 40, 0, i) PROVE SetBytes(p.type, s, q, n) = {p}
    <2>1. p.type = PUZZLE
      BY <1>7 DEF NewPuzzle
    <2>2. SetBytes(p.type, s, q, n) = PuzzleFrom(s, q, n)
      BY <2>1 DEF SetBytes, PUZZLE, SOLUTION, HIP_CIPHER, ENCRYPTED_KEY, HOST_ID, HIT_SUITE_LIST,
                  DH_GROUP_LIST, HIP_MAC_3
    <2> QED
      BY <1>1, <1>2, <1>7, <2>2, PuzzleReadBack DEF n, g
  <1>8. ASSUME NEW i \in Nonces, NEW j \in Nonces, p = NewSolution(8, 0, i, j)
        PROVE  SetBytes(p.type, s, q, n) = {p}
    <2>1. p.type = SOLUTION
      BY <1>8 DEF NewSolution
    <2>2. SetBytes(p.type, s, q, n) = SolutionFrom(s, q, n)
      BY <2>1 DEF SetBytes, PUZZLE, SOLUTION, HIP_CIPHER, ENCRYPTED_KEY, HOST_ID, HIT_SUITE_LIST,
                  DH_GROUP_LIST, HIP_MAC_3
    <2> QED
      BY <1>1, <1>2, <1>8, <2>2, SolutionReadBack DEF n, g
  <1>9. ASSUME NEW d \in Datas, p = NewHostId(0, d, <<>>) PROVE SetBytes(p.type, s, q, n) = {p}
    <2>1. p.type = HOST_ID
      BY <1>9 DEF NewHostId
    <2>2. SetBytes(p.type, s, q, n) = HostIdFrom(s, q, n)
      BY <2>1 DEF SetBytes, PUZZLE, SOLUTION, HIP_CIPHER, ENCRYPTED_KEY, HOST_ID, HIT_SUITE_LIST,
                  DH_GROUP_LIST, HIP_MAC_3
    <2> QED
      BY <1>1, <1>2, <1>4, <1>9, <2>2, HostIdReadBack DEF n, g
  <1>10. ASSUME NEW type \in {HIP_CIPHER, ENCRYPTED_KEY, HIT_SUITE_LIST, DH_GROUP_LIST, HIP_MAC_3}, NEW data,
                p = NewData(type, data)
         PROVE  p.type = type /\ g = data
    BY <1>10, DataShape DEF NewData, g
  <1>11. ASSUME p \in {NewEncryptedKey(d) : d \in Datas} \cup {NewMac3(d) : d \in ShortBytes}
                        \cup {NewDhGroupList(DH_GROUP_ECP192)}
         PROVE  SetBytes(p.type, s, q, n) = {p}
    <2>0. PICK type \in {ENCRYPTED_KEY, HIP_MAC_3, DH_GROUP_LIST} : \E data : p = NewData(type, data)
      BY <1>11 DEF NewEncryptedKey, NewMac3, NewDhGroupList
    <2>1. PICK data : p = NewData(type, data)
      BY <2>0
    <2>2. p.type = type /\ g = data
      BY <1>10, <2>1
    <2>3. ~(Len(s) < n + q) /\ ~(Len(s) < q + n)
      BY <1>1, <1>2, <1>4, LenProperties DEF Bytes
    <2>4. CASE type = ENCRYPTED_KEY
      <3>1. SetBytes(p.type, s, q, n) = EncryptedKeyFrom(s, q, n)
        BY <2>2, <2>4 DEF SetBytes, PUZZLE, SOLUTION, HIP_CIPHER, ENCRYPTED_KEY, HOST_ID, HIT_SUITE_LIST,
                    DH_GROUP_LIST, HIP_MAC_3
      <3> QED
        BY <1>6, <2>1, <2>2, <2>3, <2>4, <3>1 DEF EncryptedKeyFrom, NewEncryptedKey
    <2>5. CASE type = HIP_MAC_3
      <3>1. SetBytes(p.type, s, q, n) = Mac3From(s, q, n)
        BY <2>2, <2>5 DEF SetBytes, PUZZLE, SOLUTION, HIP_CIPHER, ENCRYPTED_KEY, HOST_ID, HIT_SUITE_LIST,
                    DH_GROUP_LIST, HIP_MAC_3
      <3> QED
        BY <1>6, <2>1, <2>2, <2>3, <2>5, <3>1 DEF Mac3From, NewMac3
    <2>6. CASE type = DH_GROUP_LIST
      <3>1. SetBytes(p.type, s, q, n) = DhGroupListFrom(s, q, n)
        BY <2>2, <2>6 DEF SetBytes, PUZZLE, SOLUTION, HIP_CIPHER, ENCRYPTED_KEY, HOST_ID, HIT_SUITE_LIST,
                    DH_GROUP_LIST, HIP_MAC_3
      <3> QED
        BY <1>6, <2>1, <2>2, <2>6, <3>1 DEF DhGroupListFrom
    <2> QED
      BY <2>4, <2>5, <2>6
  <1>12. ASSUME p = NewCipher(2) PROVE SetBytes(p.type, s, q, n) = {p}
    <2>1. p.type = HIP_CIPHER /\ g = <<2>>
      BY <1>10, <1>12 DEF NewCipher
    <2>2. n = 1 /\ g[1] = 2
      BY <2>1 DEF n
    <2>3. HasFields(s, q, g, n)
      BY <1>1, <1>2, <1>3, FirstFields DEF n
    <2>4. ByteAt(s, q) = 2
      BY <2>2, <2>3 DEF HasFields
    <2>5. SetBytes(p.type, s, q, n) = CipherFrom(s, q, n)
      BY <2>1 DEF SetBytes, PUZZLE, SOLUTION, HIP_CIPHER, ENCRYPTED_KEY, HOST_ID, HIT_SUITE_LIST,
                  DH_GROUP_LIST, HIP_MAC_3
    <2> QED
      BY <1>12, <2>2, <2>4, <2>5 DEF CipherFrom
  <1>13. ASSUME p = NewHitSuiteList(<< 8 >>) PROVE SetBytes(p.type, s, q, n) = {p}
    <2>1. p.type = HIT_SUITE_LIST /\ g = <<8>>
      BY <1>10, <1>13 DEF NewHitSuiteList
    <2>2. n = 1
      BY <2>1 DEF n
    <2>5. SetBytes(p.type, s, q, n) = HitSuiteListFrom(s, q, n)
      BY <2>1 DEF SetBytes, PUZZLE, SOLUTION, HIP_CIPHER, ENCRYPTED_KEY, HOST_ID, HIT_SUITE_LIST,
                  DH_GROUP_LIST, HIP_MAC_3
    <2>6. HitSuiteListFrom(s, q, n) = {NewHitSuiteList(Slice(s, q, q + n))}
      BY <2>2 DEF HitSuiteListFrom
    <2> QED
      BY <1>6, <1>13, <2>1, <2>5, <2>6
  <1>14. SetBytes(p.type, s, q, n) = {p}
    BY <1>7, <1>8, <1>9, <1>11, <1>12, <1>13 DEF SentParams
  <1> QED
    BY <1>5, <1>14 DEF o

-----------------------------------------------------------------------------
(* Headers.                                                                *)
PacketTypes == {I1, R1, I2, R2}

SentPackets ==
    {NewPacket(t, s, r, params) : t \in PacketTypes, s \in Hits, r \in Hits, params \in Seq(SentParams)}

LEMMA HitsAreBytes ==
    /\ HitLen \in Nat /\ HDX_SIZE_PACKET_HDR = 8 + HitLen + HitLen
    /\ \A h \in Hits : h \in Bytes /\ Len(h) = HitLen
  BY PacketsAssumption DEF Bytes, HDX_SIZE_PACKET_HDR

\* The first eight bytes of a header, and the two tags.
LEMMA FirstEight ==
    ASSUME NEW a \in Byte, NEW b \in Byte, NEW c \in Byte, NEW d \in Byte, NEW u \in Bytes, NEW v \in Bytes,
           Len(u) = 2, Len(v) = 2
    PROVE  LET e == (<<a, b, c, d>> \o u) \o v
           IN  /\ e \in Bytes /\ Len(e) = 8
               /\ e[1] = a /\ e[2] = b /\ e[3] = c /\ e[4] = d
               /\ e[5] = u[1] /\ e[6] = u[2] /\ e[7] = v[1] /\ e[8] = v[2]
  <1> DEFINE f == <<a, b, c, d>>
             x == f \o u
             e == x \o v
  <1>1. f \in Bytes /\ Len(f) = 4 /\ f[1] = a /\ f[2] = b /\ f[3] = c /\ f[4] = d
    BY DEF Bytes
  <1> HIDE DEF f
  <1>2. /\ x \in Bytes /\ Len(x) = 6
        /\ \A i \in 1..Len(f) : x[i] = f[i]
        /\ \A i \in 1..Len(u) : x[Len(f) + i] = u[i]
    <2>1. f \o u \in Bytes /\ Len(f \o u) = Len(f) + Len(u)
      BY <1>1, BytesConcat
    <2>2. /\ \A i \in 1..Len(f) : (f \o u)[i] = f[i]
          /\ \A i \in 1..Len(u) : (f \o u)[Len(f) + i] = u[i]
      BY <1>1, BytesOfConcat
    <2>3. Len(f) + Len(u) = 6
      BY <1>1
    <2> QED
      BY <2>1, <2>2, <2>3
  <1> HIDE DEF x
  <1>3. /\ e \in Bytes /\ Len(e) = 8
        /\ \A i \in 1..Len(x) : e[i] = x[i]
        /\ \A i \in 1..Len(v) : e[Len(x) + i] = v[i]
    <2>1. x \o v \in Bytes /\ Len(x \o v) = Len(x) + Len(v)
      BY <1>2, BytesConcat
    <2>2. /\ \A i \in 1..Len(x) : (x \o v)[i] = x[i]
          /\ \A i \in 1..Len(v) : (x \o v)[Len(x) + i] = v[i]
      BY <1>2, BytesOfConcat
    <2>3. Len(x) + Len(v) = 8
      BY <1>2
    <2> QED
      BY <2>1, <2>2, <2>3
  <1> HIDE DEF e
  <1>4. x[1] = a /\ x[2] = b /\ x[3] = c /\ x[4] = d /\ x[5] = u[1] /\ x[6] = u[2]
    <2>1. /\ 1 \in 1..Len(f) /\ 2 \in 1..Len(f) /\ 3 \in 1..Len(f) /\ 4 \in 1..Len(f)
          /\ 1 \in 1..Len(u) /\ 2 \in 1..Len(u) /\ Len(f) + 1 = 5 /\ Len(f) + 2 = 6
      BY <1>1
    <2>2. x[1] = f[1] /\ x[2] = f[2] /\ x[3] = f[3] /\ x[4] = f[4]
      BY <1>2, <2>1
    <2>3. x[Len(f) + 1] = u[1] /\ x[Len(f) + 2] = u[2]
      BY <1>2, <2>1
    <2> QED
      BY <1>1, <2>1, <2>2, <2>3
  <1>5. /\ e[1] = x[1] /\ e[2] = x[2] /\ e[3] = x[3] /\ e[4] = x[4] /\ e[5] = x[5] /\ e[6] = x[6]
        /\ e[7] = v[1] /\ e[8] = v[2]
    <2>1. /\ 1 \in 1..Len(x) /\ 2 \in 1..Len(x) /\ 3 \in 1..Len(x) /\ 4 \in 1..Len(x)
          /\ 5 \in 1..Len(x) /\ 6 \in 1..Len(x)
          /\ 1 \in 1..Len(v) /\ 2 \in 1..Len(v) /\ Len(x) + 1 = 7 /\ Len(x) + 2 = 8
      BY <1>2
    <2>2. e[1] = x[1] /\ e[2] = x[2] /\ e[3] = x[3] /\ e[4] = x[4] /\ e[5] = x[5] /\ e[6] = x[6]
      BY <1>3, <2>1
    <2>3. e[Len(x) + 1] = v[1] /\ e[Len(x) + 2] = v[2]
      BY <1>3, <2>1
    <2> QED
      BY <2>1, <2>2, <2>3
  <1> QED
    BY <1>3, <1>4, <1>5 DEF e, x, f

\* What of a header does not depend on its checksum.
HeaderRest(h, t, s, r) ==
    /\ h[1] = IPPROTO_NONE /\ h[3] = t /\ h[4] = 33 /\ h[7] = 0 /\ h[8] = 0
    /\ SubSeq(h, 9, 8 + HitLen) = s
    /\ SubSeq(h, 9 + HitLen, 8 + HitLen + HitLen) = r

LEMMA HeaderShape ==
    ASSUME NEW t \in PacketTypes, NEW s \in Hits, NEW r \in Hits, NEW params,
           NEW length \in Nat, length >= 8, NEW c \in Nat
    PROVE  LET p == NewPacket(t, s, r, params)
               h == HeaderBytes(p, length, c)
           IN  /\ h \in Bytes /\ Len(h) = HDX_SIZE_PACKET_HDR
               /\ h[5] = Hi(c) /\ h[6] = Lo(c)
               /\ HeaderRest(h, t, s, r)
               /\ \A i \in 1..HDX_SIZE_PACKET_HDR : i # 5 /\ i # 6 => h[i] = HeaderBytes(p, length, 0)[i]
  <1> DEFINE p == NewPacket(t, s, r, params)
             l == ((length - 8) \div 8) % 256
             e(x) == (<<IPPROTO_NONE, l, t, 33>> \o Word(x)) \o Word(0)
             h(x) == (e(x) \o s) \o r
  <1>1. \A x \in Nat : HeaderBytes(p, length, x) = h(x)
    <2>1. p.nextHdr = IPPROTO_NONE /\ p.type = t /\ p.version = 2 /\ p.ctrls = 0 /\ p.sender = s /\ p.receiver = r
      BY DEF NewPacket
    <2>2. t % 128 = t /\ ((2 * 16) % 256) + 1 = 33
      BY DEF PacketTypes, I1, R1, I2, R2
    <2> HIDE DEF p, l
    <2> QED
      BY <2>1, <2>2 DEF HeaderBytes, l
  <1>2. IPPROTO_NONE \in Byte /\ l \in Byte /\ t \in Byte /\ 33 \in Byte
    <2>1. (length - 8) \div 8 \in Int
      OBVIOUS
    <2> DEFINE k == (length - 8) \div 8
    <2> HIDE DEF k
    <2>2. k % 256 \in 0..255
      BY <2>1 DEF k
    <2> QED
      BY <2>2 DEF k, Byte, IPPROTO_NONE, PacketTypes, I1, R1, I2, R2
  <1> HIDE DEF l
  <1>3. ASSUME NEW x \in Nat
        PROVE  /\ e(x) \in Bytes /\ Len(e(x)) = 8
               /\ e(x)[1] = IPPROTO_NONE /\ e(x)[2] = l /\ e(x)[3] = t /\ e(x)[4] = 33
               /\ e(x)[5] = Hi(x) /\ e(x)[6] = Lo(x) /\ e(x)[7] = 0 /\ e(x)[8] = 0
    <2>1. /\ Word(x) \in Bytes /\ Word(0) \in Bytes /\ Len(Word(x)) = 2 /\ Len(Word(0)) = 2
          /\ Word(x)[1] = Hi(x) /\ Word(x)[2] = Lo(x)
      BY WordBytes
    <2>2. Word(0)[1] = 0 /\ Word(0)[2] = 0
      BY ZeroWord
    <2> DEFINE u == Word(x)
               v == Word(0)
    <2> HIDE DEF u, v
    <2>3. u \in Bytes /\ v \in Bytes /\ Len(u) = 2 /\ Len(v) = 2
      BY <2>1 DEF u, v
    <2>4. /\ e(x) \in Bytes /\ Len(e(x)) = 8
          /\ e(x)[1] = IPPROTO_NONE /\ e(x)[2] = l /\ e(x)[3] = t /\ e(x)[4] = 33
          /\ e(x)[5] = u[1] /\ e(x)[6] = u[2] /\ e(x)[7] = v[1] /\ e(x)[8] = v[2]
      <3> DEFINE y == (<<IPPROTO_NONE, l, t, 33>> \o u) \o v
      <3>1. /\ y \in Bytes /\ Len(y) = 8
            /\ y[1] = IPPROTO_NONE /\ y[2] = l /\ y[3] = t /\ y[4] = 33
            /\ y[5] = u[1] /\ y[6] = u[2] /\ y[7] = v[1] /\ y[8] = v[2]
        BY <1>2, <2>3, FirstEight
      <3>2. e(x) = y
        BY DEF u, v
      <3> HIDE DEF y, e
      <3> QED
        BY <3>1, <3>2
    <2> HIDE DEF e
    <2> QED
      BY <2>1, <2>2, <2>4 DEF u, v
  <1> HIDE DEF e
  <1>4. s \in Bytes /\ r \in Bytes /\ Len(s) = HitLen /\ Len(r) = HitLen /\ HitLen \in Nat
        /\ HDX_SIZE_PACKET_HDR = 8 + HitLen + HitLen
    BY HitsAreBytes
  <1>5. ASSUME NEW x \in Nat
        PROVE  /\ h(x) \in Bytes /\ Len(h(x)) = HDX_SIZE_PACKET_HDR
               /\ \A i \in 1..8 : h(x)[i] = e(x)[i]
               /\ SubSeq(h(x), 9, 8 + HitLen) = s
               /\ SubSeq(h(x), 9 + HitLen, 8 + HitLen + HitLen) = r
               /\ \A i \in 1..HitLen : h(x)[8 + i] = s[i]
               /\ \A i \in 1..HitLen : h(x)[8 + HitLen + i] = r[i]
    <2> DEFINE z == e(x)
               y == z \o s
               w == y \o r
    <2>0. z \in Bytes /\ Len(z) = 8
      BY <1>3
    <2> HIDE DEF z
    <2>1. /\ y \in Bytes /\ Len(y) = 8 + HitLen
          /\ \A i \in 1..Len(z) : y[i] = z[i]
          /\ \A i \in 1..Len(s) : y[Len(z) + i] = s[i]
      <3>1. z \o s \in Bytes /\ Len(z \o s) = Len(z) + Len(s)
        BY <1>4, <2>0, BytesConcat
      <3>2. /\ \A i \in 1..Len(z) : (z \o s)[i] = z[i]
            /\ \A i \in 1..Len(s) : (z \o s)[Len(z) + i] = s[i]
        BY <1>4, <2>0, BytesOfConcat
      <3> QED
        BY <1>4, <2>0, <3>1, <3>2
    <2>2. SubSeq(y \o r, Len(z) + 1, Len(z) + Len(s)) = s
      BY <1>4, <2>0, MiddleSlice
    <2> HIDE DEF y
    <2>3. /\ w \in Bytes /\ Len(w) = 8 + HitLen + HitLen
          /\ \A i \in 1..Len(y) : w[i] = y[i]
          /\ \A i \in 1..Len(r) : w[Len(y) + i] = r[i]
      <3>1. y \o r \in Bytes /\ Len(y \o r) = Len(y) + Len(r)
        BY <1>4, <2>1, BytesConcat
      <3>2. /\ \A i \in 1..Len(y) : (y \o r)[i] = y[i]
            /\ \A i \in 1..Len(r) : (y \o r)[Len(y) + i] = r[i]
        BY <1>4, <2>1, BytesOfConcat
      <3> QED
        BY <1>4, <2>1, <3>1, <3>2
    <2>4. SubSeq(y \o r, Len(y) + 1, Len(y) + Len(r)) = r
      BY <1>4, <2>1, MiddleSlice
    <2>5. SubSeq(w, 9, 8 + HitLen) = s /\ SubSeq(w, 9 + HitLen, 8 + HitLen + HitLen) = r
      <3>1. Len(z) + 1 = 9 /\ Len(z) + Len(s) = 8 + HitLen
            /\ Len(y) + 1 = 9 + HitLen /\ Len(y) + Len(r) = 8 + HitLen + HitLen
        BY <1>4, <2>0, <2>1
      <3> QED
        BY <2>2, <2>4, <3>1
    <2> HIDE DEF w
    <2>6. \A i \in 1..8 : w[i] = z[i]
      <3>1. \A i \in 1..8 : i \in 1..Len(z) /\ i \in 1..Len(y)
        BY <1>4, <2>0, <2>1
      <3> QED
        BY <2>1, <2>3, <3>1
    <2>7. \A i \in 1..HitLen : w[8 + i] = s[i] /\ w[8 + HitLen + i] = r[i]
      <3>1. \A i \in 1..HitLen : 8 + i \in 1..Len(y) /\ i \in 1..Len(s) /\ i \in 1..Len(r)
        BY <1>4, <2>1
      <3>2. \A i \in 1..HitLen : w[8 + i] = y[8 + i] /\ y[8 + i] = s[i]
        BY <2>0, <2>1, <2>3, <3>1
      <3>3. \A i \in 1..HitLen : w[8 + HitLen + i] = r[i]
        BY <2>1, <2>3, <3>1
      <3> QED
        BY <3>2, <3>3
    <2>8. h(x) = w
      BY DEF w, y, z
    <2> HIDE DEF h
    <2> QED
      BY <1>4, <2>3, <2>5, <2>6, <2>7, <2>8 DEF z
  <1> HIDE DEF h
  <1>6. ASSUME NEW i \in 1..HDX_SIZE_PACKET_HDR, i # 5, i # 6 PROVE h(c)[i] = h(0)[i]
    <2>1. CASE i \in 1..8
      <3>1. e(c)[i] = e(0)[i]
        <4>1. i \in {1, 2, 3, 4, 7, 8}
          BY <1>6, <2>1
        <4> QED
          BY <1>3, <4>1
      <3> QED
        BY <1>5, <2>1, <3>1
    <2>2. CASE i > 8 /\ i <= 8 + HitLen
      <3>1. i - 8 \in 1..HitLen /\ 8 + (i - 8) = i
        BY <1>4, <2>2
      <3> QED
        BY <1>5, <3>1
    <2>3. CASE i > 8 + HitLen
      <3> DEFINE j == i - 8 - HitLen
      <3>1. j \in 1..HitLen /\ 8 + HitLen + j = i
        BY <1>4, <2>3
      <3> HIDE DEF j
      <3>2. h(0)[8 + HitLen + j] = r[j] /\ h(c)[8 + HitLen + j] = r[j]
        BY <1>5, <3>1
      <3> QED
        BY <3>1, <3>2
    <2> QED
      BY <1>4, <2>1, <2>2, <2>3
  <1>7. /\ h(c) \in Bytes /\ Len(h(c)) = HDX_SIZE_PACKET_HDR
        /\ h(c)[5] = Hi(c) /\ h(c)[6] = Lo(c) /\ HeaderRest(h(c), t, s, r)
    <2>1. \A i \in 1..8 : h(c)[i] = e(c)[i]
      BY <1>5
    <2>2. h(c)[1] = e(c)[1] /\ h(c)[3] = e(c)[3] /\ h(c)[4] = e(c)[4] /\ h(c)[5] = e(c)[5]
          /\ h(c)[6] = e(c)[6] /\ h(c)[7] = e(c)[7] /\ h(c)[8] = e(c)[8]
      BY <2>1
    <2> QED
      BY <1>3, <1>5, <2>2 DEF HeaderRest
  <1>8. HeaderBytes(p, length, c) = h(c) /\ HeaderBytes(p, length, 0) = h(0)
    BY <1>1
  <1> HIDE DEF p
  <1>9. /\ HeaderBytes(p, length, c) \in Bytes /\ Len(HeaderBytes(p, length, c)) = HDX_SIZE_PACKET_HDR
        /\ HeaderBytes(p, length, c)[5] = Hi(c) /\ HeaderBytes(p, length, c)[6] = Lo(c)
        /\ HeaderRest(HeaderBytes(p, length, c), t, s, r)
        /\ \A i \in 1..HDX_SIZE_PACKET_HDR :
             i # 5 /\ i # 6 => HeaderBytes(p, length, c)[i] = HeaderBytes(p, length, 0)[i]
    BY <1>6, <1>7, <1>8
  <1> QED
    BY <1>9 DEF p

-----------------------------------------------------------------------------
(* Packets and their checksums.                                            *)
\* The packet as it is while its checksum is calculated.
Body(p) == Joined(ParamsOf(p))
Unsigned(p) == HeaderBytes(p, HDX_SIZE_PACKET_HDR + Len(Body(p)), 0) \o Body(p)

LEMMA ByteIsNumber == \A x \in Byte : x \in Nat /\ x \in Int
  BY DEF Byte

LEMMA BytesAreNumbers ==
    ASSUME NEW bytes \in Bytes
    PROVE  bytes \in Seq(Int) /\ Len(bytes) \in Nat /\ \A i \in 1..Len(bytes) : bytes[i] \in Nat
  <1>1. ASSUME NEW i \in 1..Len(bytes) PROVE bytes[i] \in Nat /\ bytes[i] \in Int
    <2>1. bytes[i] \in Byte
      BY BytesElement
    <2> QED
      BY <2>1, ByteIsNumber
  <1>2. Len(bytes) \in Nat
    BY LenProperties DEF Bytes
  <1>3. bytes \in Seq(Int)
    BY <1>1, SeqMonotonic DEF Bytes
  <1> QED
    BY <1>1, <1>2, <1>3

LEMMA WordSumNat ==
    ASSUME NEW bytes \in Bytes
    PROVE  WordSum(bytes) \in Nat
  <1> DEFINE n == Len(bytes)
  <1>0. bytes \in Seq(Int) /\ n \in Nat /\ \A i \in 1..n : bytes[i] \in Nat
    BY BytesAreNumbers
  <1>1. PICK f : IsSum(f, bytes) /\ WordSum(bytes) = f[n]
    BY <1>0, SumsExist
  <1> DEFINE A == {k \in Nat : k <= n => f[k] \in Nat}
  <1>2. 0 \in A
    BY <1>1 DEF IsSum
  <1>3. ASSUME NEW k \in Nat, k \in A PROVE k + 1 \in A
    <2> SUFFICES ASSUME k + 1 <= n PROVE f[k + 1] \in Nat
      OBVIOUS
    <2>1. k + 1 \in 1..n /\ (k + 1) - 1 = k
      BY <1>0
    <2>2. f[k + 1] = f[k] + bytes[k + 1] * Weight(k + 1)
      BY <1>1, <2>1 DEF IsSum
    <2>3. f[k] \in Nat /\ bytes[k + 1] \in Nat
      BY <1>0, <1>3, <2>1
    <2> QED
      BY <2>2, <2>3 DEF Weight
  <1> HIDE DEF A
  <1>4. n \in A
    BY <1>0, <1>2, <1>3, SetInduction
  <1> QED
    BY <1>1, <1>4 DEF A

LEMMA ChecksumType ==
    ASSUME NEW bytes \in Bytes
    PROVE  CalcChecksum(bytes) \in Nat /\ CalcChecksum(bytes) \in Nat16
  <1> DEFINE F == Folded[WordSum(bytes)]
  <1>1. IsFolded(F, WordSum(bytes))
    BY WordSumNat, FoldedKeepsTheRemainder
  <1>2. CalcChecksum(bytes) = 65535 - F
    BY DEF CalcChecksum
  <1> HIDE DEF F
  <1>3. F \in Nat /\ F <= 65535
    BY <1>1 DEF IsFolded, AllOnes
  <1>4. CalcChecksum(bytes) \in Nat /\ CalcChecksum(bytes) < 65536
    BY <1>2, <1>3
  <1> QED
    BY <1>4, InNat16

\* One changed byte changes the checksum.
LEMMA ChecksumDiffers ==
    ASSUME NEW bytes \in Bytes, NEW i \in 1..Len(bytes), NEW v \in Byte, v # bytes[i]
    PROVE  CalcChecksum([bytes EXCEPT ![i] = v]) # CalcChecksum(bytes)
  <1> DEFINE c == [bytes EXCEPT ![i] = v]
  <1>1. bytes[i] \in Byte /\ bytes \in Seq(Int) /\ v \in Int
    <2>1. v \in Int
      BY DEF Byte
    <2> QED
      BY <2>1, BytesElement, BytesAreNumbers
  <1>2. c \in Bytes
    BY ExceptSeq DEF Bytes
  <1>3. WordSum(c) = WordSum(bytes) + (v - bytes[i]) * Weight(i)
    BY <1>1, ChangedSum
  <1>4. WordSum(c) \in Nat /\ WordSum(bytes) \in Nat
    BY <1>2, WordSumNat
  <1> HIDE DEF c
  <1>5. WordSum(c) # WordSum(bytes) /\ WordSum(c) - WordSum(bytes) < 65535 /\ WordSum(bytes) - WordSum(c) < 65535
    <2> DEFINE a == bytes[i]
               w == Weight(i)
               z == (v - a) * w
    <2>1. a \in Byte /\ v # a
      BY <1>1
    <2>2. w = 256 \/ w = 1
      BY DEF Weight
    <2>3. WordSum(c) = WordSum(bytes) + z
      BY <1>3
    <2> HIDE DEF a, w
    <2>4. z = v - a \/ z = (v - a) * 256
      BY <2>1, <2>2 DEF Byte
    <2>5. z \in Int /\ z # 0 /\ z < 65535 /\ -z < 65535
      BY <2>1, <2>4 DEF Byte
    <2> HIDE DEF z
    <2> QED
      BY <1>4, <2>3, <2>5
  <1>6. Folded[WordSum(c)] # Folded[WordSum(bytes)]
    BY <1>4, <1>5, FoldedDiffer
  <1> DEFINE F == Folded[WordSum(c)]
             G == Folded[WordSum(bytes)]
  <1>7. IsFolded(F, WordSum(c)) /\ IsFolded(G, WordSum(bytes))
    BY <1>4, FoldedKeepsTheRemainder
  <1> HIDE DEF F, G
  <1>8. F \in Nat /\ G \in Nat
    <2>1. F \in 0..AllOnes
      BY <1>7 DEF IsFolded
    <2>2. G \in 0..AllOnes
      BY <1>7 DEF IsFolded
    <2> QED
      BY <2>1, <2>2
  <1>9. 65535 - F # 65535 - G
    BY <1>6, <1>8 DEF F, G
  <1> QED
    BY <1>9 DEF CalcChecksum, F, G, c

LEMMA ParamsAreBytes ==
    ASSUME NEW p \in SentPackets
    PROVE  ParamsOf(p) \in Seq(Bytes) /\ Len(ParamsOf(p)) = Len(p.params)
           /\ \A i \in 1..Len(p.params) : ParamsOf(p)[i] = ParamToBytes(p.params[i])
  <1>1. p.params \in Seq(SentParams)
    BY DEF SentPackets, NewPacket
  <1>2. ASSUME NEW q \in SentParams PROVE ParamToBytes(q) \in Bytes
    <2>1. <<>> \in Bytes
      BY ByteConstants
    <2>2. IsWrittenAt((<<>> \o ParamToBytes(q)) \o <<>>, Len(<<>>), q, Len(<<>>))
      BY <2>1, ParamInTheMiddle
    <2> QED
      BY <2>2 DEF IsWrittenAt
  <1>3. DOMAIN p.params = 1..Len(p.params) /\ Len(p.params) \in Nat
        /\ \A i \in 1..Len(p.params) : p.params[i] \in SentParams
    BY <1>1
  <1>4. ParamsOf(p) = [i \in 1..Len(p.params) |-> ParamToBytes(p.params[i])]
    BY <1>3 DEF ParamsOf
  <1> QED
    BY <1>2, <1>3, <1>4

LEMMA BodyBytes ==
    ASSUME NEW p \in SentPackets
    PROVE  Body(p) \in Bytes /\ Len(Body(p)) \in Nat
  <1> DEFINE pieces == ParamsOf(p)
  <1>1. pieces \in Seq(Bytes)
    BY ParamsAreBytes
  <1> HIDE DEF pieces
  <1>2. Len(pieces) \in 0..Len(pieces)
    BY <1>1
  <1>3. Joined(pieces) \in Bytes
    BY <1>1, <1>2, JoinedUpTo
  <1> QED
    BY <1>3, LenProperties DEF Body, Bytes, pieces

\* The bytes of a packet are those of the unsigned one but for the checksum.
IsSigned(b, u) ==
    /\ b \in Bytes /\ u \in Bytes /\ Len(b) = Len(u) /\ Len(b) >= HDX_SIZE_PACKET_HDR
    /\ u[5] = 0 /\ u[6] = 0
    /\ b[5] * 256 + b[6] = CalcChecksum(u)
    /\ \A i \in 1..Len(b) : i # 5 /\ i # 6 => b[i] = u[i]

LEMMA ToBytesShape ==
    ASSUME NEW p \in SentPackets
    PROVE  IsSigned(ToBytes(p), Unsigned(p)) /\ Len(Unsigned(p)) = HDX_SIZE_PACKET_HDR + Len(Body(p))
  <1> DEFINE body == Body(p)
             l == HDX_SIZE_PACKET_HDR + Len(body)
             h(x) == HeaderBytes(p, l, x)
             u == h(0) \o body
             c == CalcChecksum(u)
             b == h(c) \o body
  <1>1. body \in Bytes /\ Len(body) \in Nat
    BY BodyBytes
  <1>2. HDX_SIZE_PACKET_HDR \in Nat /\ HDX_SIZE_PACKET_HDR >= 8
    BY HitsAreBytes
  <1>3. PICK t \in PacketTypes, s \in Hits, r \in Hits, params \in Seq(SentParams) :
             p = NewPacket(t, s, r, params)
    BY DEF SentPackets
  <1>4. ToBytes(p) = b /\ Unsigned(p) = u
    BY DEF ToBytes, Unsigned, Body
  <1> HIDE DEF body
  <1>5. l \in Nat /\ l >= 8
    BY <1>1, <1>2
  <1> HIDE DEF l
  <1>6. ASSUME NEW x \in Nat
        PROVE  /\ h(x) \in Bytes /\ Len(h(x)) = HDX_SIZE_PACKET_HDR
               /\ h(x)[5] = Hi(x) /\ h(x)[6] = Lo(x)
               /\ \A i \in 1..HDX_SIZE_PACKET_HDR : i # 5 /\ i # 6 => h(x)[i] = h(0)[i]
    BY <1>3, <1>5, HeaderShape
  <1> HIDE DEF h
  <1>7. ASSUME NEW x \in Nat
        PROVE  /\ h(x) \o body \in Bytes /\ Len(h(x) \o body) = HDX_SIZE_PACKET_HDR + Len(body)
               /\ \A i \in 1..HDX_SIZE_PACKET_HDR : (h(x) \o body)[i] = h(x)[i]
               /\ \A i \in 1..Len(body) : (h(x) \o body)[HDX_SIZE_PACKET_HDR + i] = body[i]
    <2> DEFINE y == h(x)
    <2>1. y \in Bytes /\ Len(y) = HDX_SIZE_PACKET_HDR
      BY <1>6
    <2> HIDE DEF y
    <2>2. /\ y \o body \in Bytes /\ Len(y \o body) = Len(y) + Len(body)
      BY <1>1, <2>1, BytesConcat
    <2>3. /\ \A i \in 1..Len(y) : (y \o body)[i] = y[i]
          /\ \A i \in 1..Len(body) : (y \o body)[Len(y) + i] = body[i]
      BY <1>1, <2>1, BytesOfConcat
    <2> QED
      BY <2>1, <2>2, <2>3 DEF y
  <1>8. u \in Bytes
    BY <1>7
  <1> HIDE DEF u
  <1>9. c \in Nat /\ c \in Nat16
    BY <1>8, ChecksumType
  <1>10. 5 \in 1..HDX_SIZE_PACKET_HDR /\ 6 \in 1..HDX_SIZE_PACKET_HDR
    BY <1>2
  <1> HIDE DEF c
  <1>11. /\ b \in Bytes /\ Len(b) = HDX_SIZE_PACKET_HDR + Len(body)
         /\ \A i \in 1..HDX_SIZE_PACKET_HDR : b[i] = h(c)[i]
         /\ \A i \in 1..Len(body) : b[HDX_SIZE_PACKET_HDR + i] = body[i]
    BY <1>7, <1>9
  <1>12. /\ Len(u) = HDX_SIZE_PACKET_HDR + Len(body)
         /\ \A i \in 1..HDX_SIZE_PACKET_HDR : u[i] = h(0)[i]
         /\ \A i \in 1..Len(body) : u[HDX_SIZE_PACKET_HDR + i] = body[i]
    BY <1>7 DEF u
  <1> HIDE DEF b
  <1>13. b[5] * 256 + b[6] = c
    <2>1. b[5] = Hi(c) /\ b[6] = Lo(c)
      BY <1>6, <1>9, <1>10, <1>11
    <2> QED
      BY <1>9, <2>1, WordBytes
  <1>14. u[5] = 0 /\ u[6] = 0
    <2>1. u[5] = Hi(0) /\ u[6] = Lo(0)
      BY <1>6, <1>10, <1>12
    <2> QED
      BY <2>1 DEF Hi, Lo
  <1>15. ASSUME NEW i \in 1..Len(b), i # 5, i # 6 PROVE b[i] = u[i]
    <2>1. CASE i <= HDX_SIZE_PACKET_HDR
      <3>1. i \in 1..HDX_SIZE_PACKET_HDR
        BY <1>2, <1>11, <2>1
      <3> QED
        BY <1>6, <1>9, <1>11, <1>12, <1>15, <3>1
    <2>2. CASE i > HDX_SIZE_PACKET_HDR
      <3>1. i - HDX_SIZE_PACKET_HDR \in 1..Len(body) /\ HDX_SIZE_PACKET_HDR + (i - HDX_SIZE_PACKET_HDR) = i
        BY <1>1, <1>2, <1>11, <2>2
      <3>2. b[i] = body[i - HDX_SIZE_PACKET_HDR] /\ u[i] = body[i - HDX_SIZE_PACKET_HDR]
        BY <1>11, <1>12, <3>1
      <3> QED
        BY <3>2
    <2> QED
      BY <1>2, <1>11, <2>1, <2>2
  <1>16. Len(b) >= HDX_SIZE_PACKET_HDR
    BY <1>1, <1>2, <1>11
  <1>17. IsSigned(b, u)
    BY <1>8, <1>11, <1>12, <1>13, <1>14, <1>15, <1>16 DEF IsSigned, c
  <1> QED
    BY <1>4, <1>12, <1>17 DEF body

-----------------------------------------------------------------------------
(* A damaged packet.                                                       *)
LEMMA DamageChanges ==
    ASSUME NEW a \in Byte, NEW d \in 1..255
    PROVE  (a + d) % 256 \in Byte /\ (a + d) % 256 # a
  <1>1. a \in Nat /\ a <= 255
    BY DEF Byte
  <1>2. CASE a + d < 256
    <2>1. (a + d) % 256 = a + d
      BY <1>1, <1>2
    <2> QED
      BY <1>1, <1>2, <2>1 DEF Byte
  <1>3. CASE a + d >= 256
    <2>1. (a + d) % 256 = a + d - 256
      BY <1>1, <1>3
    <2> QED
      BY <1>1, <1>3, <2>1 DEF Byte
  <1> QED
    BY <1>1, <1>2, <1>3

LEMMA WordsDiffer ==
    ASSUME NEW a \in Byte, NEW b \in Byte, NEW c \in Byte, NEW d \in Byte, a # c \/ b # d
    PROVE  a * 256 + b # c * 256 + d
  <1>1. a \in 0..255 /\ b \in 0..255 /\ c \in 0..255 /\ d \in 0..255
    BY DEF Byte
  <1> QED
    BY <1>1

Cleared(b) == [b EXCEPT ![5] = 0, ![6] = 0]

LEMMA ClearedBytes ==
    ASSUME NEW b \in Bytes, Len(b) >= 8
    PROVE  /\ Cleared(b) \in Bytes /\ Len(Cleared(b)) = Len(b)
           /\ \A i \in 1..Len(b) : Cleared(b)[i] = IF i = 5 \/ i = 6 THEN 0 ELSE b[i]
  <1>1. 0 \in Byte /\ 5 \in 1..Len(b) /\ 6 \in 1..Len(b)
    <2>1. Len(b) \in Nat
      BY LenProperties DEF Bytes
    <2> QED
      BY <2>1 DEF Byte
  <1> DEFINE c == [b EXCEPT ![5] = 0]
  <1>2. /\ c \in Bytes /\ Len(c) = Len(b)
        /\ \A i \in 1..Len(b) : c[i] = IF i = 5 THEN 0 ELSE b[i]
    BY <1>1, ExceptSeq DEF Bytes
  <1> HIDE DEF c
  <1> DEFINE e == [c EXCEPT ![6] = 0]
  <1>3. /\ e \in Bytes /\ Len(e) = Len(b)
        /\ \A i \in 1..Len(b) : e[i] = IF i = 6 THEN 0 ELSE c[i]
    BY <1>1, <1>2, ExceptSeq DEF Bytes
  <1>4. Cleared(b) = e
    BY DEF Cleared, c
  <1> HIDE DEF e
  <1> QED
    BY <1>2, <1>3, <1>4

LEMMA ClearedIsUnsigned ==
    ASSUME NEW b, NEW u, IsSigned(b, u)
    PROVE  Cleared(b) = u
  <1>1. b \in Bytes /\ u \in Bytes /\ Len(b) = Len(u) /\ Len(b) >= 8
    <2>1. HDX_SIZE_PACKET_HDR >= 8 /\ HDX_SIZE_PACKET_HDR \in Nat
      BY HitsAreBytes
    <2>2. b \in Bytes /\ Len(b) \in Nat
      BY LenProperties DEF Bytes, IsSigned
    <2> QED
      BY <2>1, <2>2 DEF IsSigned
  <1>2. /\ Cleared(b) \in Bytes /\ Len(Cleared(b)) = Len(b)
        /\ \A i \in 1..Len(b) : Cleared(b)[i] = IF i = 5 \/ i = 6 THEN 0 ELSE b[i]
    BY <1>1, ClearedBytes
  <1>3. ASSUME NEW i \in 1..Len(b) PROVE Cleared(b)[i] = u[i]
    BY <1>2 DEF IsSigned
  <1> DEFINE c == Cleared(b)
  <1>4. c \in Bytes /\ Len(c) = Len(u) /\ \A i \in 1..Len(c) : c[i] = u[i]
    BY <1>1, <1>2, <1>3
  <1> HIDE DEF c
  <1>5. c = u
    BY <1>1, <1>4, SeqEqual DEF Bytes
  <1> QED
    BY <1>5 DEF c

\* The checksum that is read is not the one that is calculated once a byte is
\* damaged, whichever byte it is.
Damaged(b, i, d) == [b EXCEPT ![i] = (b[i] + d) % 256]

LEMMA DamageFound ==
    ASSUME NEW b, NEW u, IsSigned(b, u), NEW i \in 1..Len(b), NEW d \in 1..255
    PROVE  WordAt(Damaged(b, i, d), 4) # CalcChecksum(Cleared(Damaged(b, i, d)))
  <1> DEFINE v == (b[i] + d) % 256
             e == Damaged(b, i, d)
  <1>1. b \in Bytes /\ u \in Bytes /\ Len(b) = Len(u) /\ Len(b) >= 8 /\ Len(b) \in Nat
    <2>1. HDX_SIZE_PACKET_HDR >= 8 /\ HDX_SIZE_PACKET_HDR \in Nat
      BY HitsAreBytes
    <2>2. b \in Bytes /\ Len(b) \in Nat
      BY LenProperties DEF Bytes, IsSigned
    <2> QED
      BY <2>1, <2>2 DEF IsSigned
  <1>2. b[i] \in Byte
    BY <1>1, BytesElement
  <1>3. v \in Byte /\ v # b[i]
    BY <1>2, DamageChanges
  <1> HIDE DEF v
  <1>4. e \in Bytes /\ Len(e) = Len(b) /\ \A j \in 1..Len(b) : e[j] = IF j = i THEN v ELSE b[j]
    <2>1. e = [b EXCEPT ![i] = v]
      BY DEF Damaged, v
    <2> HIDE DEF e
    <2> QED
      BY <1>1, <1>3, <2>1, ExceptSeq DEF Bytes
  <1> HIDE DEF e
  <1>5. /\ Cleared(e) \in Bytes /\ Len(Cleared(e)) = Len(e)
        /\ \A j \in 1..Len(e) : Cleared(e)[j] = IF j = 5 \/ j = 6 THEN 0 ELSE e[j]
    BY <1>1, <1>4, ClearedBytes
  <1>6. \A j \in 1..Len(b) : u[j] = IF j = 5 \/ j = 6 THEN 0 ELSE b[j]
    BY DEF IsSigned
  <1>7. WordAt(e, 4) = e[5] * 256 + e[6] /\ b[5] * 256 + b[6] = CalcChecksum(u)
    BY DEF WordAt, ByteAt, IsSigned
  <1>8. 5 \in 1..Len(b) /\ 6 \in 1..Len(b)
    BY <1>1
  <1>9. b[5] \in Byte /\ b[6] \in Byte
    BY <1>1, <1>8, BytesElement
  <1> DEFINE c == Cleared(e)
  <1>10. c \in Bytes /\ Len(c) = Len(u) /\ \A j \in 1..Len(u) : c[j] = IF j = 5 \/ j = 6 THEN 0 ELSE e[j]
    BY <1>1, <1>4, <1>5
  <1> HIDE DEF c
  <1>11. CASE i = 5 \/ i = 6
    <2>1. \A j \in 1..Len(u) : c[j] = u[j]
      BY <1>1, <1>4, <1>6, <1>10, <1>11
    <2>2. c = u
      BY <1>1, <1>10, <2>1, SeqEqual DEF Bytes
    <2>3. e[5] = (IF i = 5 THEN v ELSE b[5]) /\ e[6] = IF i = 6 THEN v ELSE b[6]
      BY <1>4, <1>8
    <2>4. e[5] * 256 + e[6] # b[5] * 256 + b[6]
      BY <1>3, <1>9, <1>11, <2>3, WordsDiffer
    <2> QED
      BY <1>7, <2>2, <2>4 DEF c, e
  <1>12. CASE i # 5 /\ i # 6
    <2> DEFINE w == [u EXCEPT ![i] = v]
    <2>1. w \in Bytes /\ Len(w) = Len(u) /\ \A j \in 1..Len(u) : w[j] = IF j = i THEN v ELSE u[j]
      BY <1>1, <1>3, ExceptSeq DEF Bytes
    <2>2. u[i] # v
      BY <1>3, <1>6, <1>12
    <2>3. CalcChecksum(w) # CalcChecksum(u)
      BY <1>1, <1>3, <2>2, ChecksumDiffers
    <2> HIDE DEF w
    <2>4. \A j \in 1..Len(u) : c[j] = w[j]
      BY <1>1, <1>4, <1>6, <1>10, <1>12, <2>1
    <2>5. c = w
      BY <1>10, <2>1, <2>4, SeqEqual DEF Bytes
    <2>6. e[5] = b[5] /\ e[6] = b[6]
      BY <1>4, <1>8, <1>12
    <2> QED
      BY <1>7, <2>3, <2>5, <2>6 DEF c, e
  <1> QED
    BY <1>11, <1>12

-----------------------------------------------------------------------------
(* The MAC.                                                                *)
LEMMA PrefixOfAppend ==
    ASSUME NEW S, NEW s \in Seq(S), NEW x \in S, NEW t, t = Append(s, x)
    PROVE  /\ t \in Seq(S) /\ Len(t) = Len(s) + 1 /\ Len(s) \in Nat
           /\ t[Len(s) + 1] = x /\ \A i \in 1..Len(s) : t[i] = s[i]
           /\ SubSeq(t, 1, Len(s)) = s
  <1>1. /\ t \in Seq(S) /\ Len(t) = Len(s) + 1 /\ Len(s) \in Nat
        /\ t[Len(s) + 1] = x /\ \A i \in 1..Len(s) : t[i] = s[i]
    BY AppendProperties, LenProperties
  <1> DEFINE n == Len(s)
             r == SubSeq(t, 1, n)
  <1>2. \A i \in 1..n : t[i] \in S
    BY <1>1
  <1>3. n \in Int /\ 1 \in Int /\ n \in Nat
    BY <1>1
  <1> HIDE DEF n
  <1>4. 1 \in 1..Len(t) + 1 /\ n \in 0..Len(t)
    BY <1>1, <1>3 DEF n
  <1>5. r \in Seq(S) /\ Len(r) = n /\ \A i \in 1..n : r[i] = t[i]
    <2>1. /\ SubSeq(t, 1, n) \in Seq(S)
          /\ Len(SubSeq(t, 1, n)) = IF 1 <= n THEN n - 1 + 1 ELSE 0
          /\ \A i \in 1..n - 1 + 1 : SubSeq(t, 1, n)[i] = t[1 + i - 1]
      BY <1>1, <1>3, <1>4, SubSeqProperties
    <2>2. (IF 1 <= n THEN n - 1 + 1 ELSE 0) = n /\ n - 1 + 1 = n /\ \A i \in 1..n : 1 + i - 1 = i
      BY <1>3
    <2> QED
      BY <2>1, <2>2
  <1> HIDE DEF r
  <1>6. r = s
    BY <1>1, <1>5, SeqEqual DEF n
  <1> QED
    BY <1>1, <1>6 DEF r, n

LEMMA JoinedAppend ==
    ASSUME NEW s \in Seq(Bytes), NEW x \in Bytes
    PROVE  Joined(Append(s, x)) = Joined(s) \o x
  <1> DEFINE t == Append(s, x)
             n == Len(s)
  <1>1. /\ t \in Seq(Bytes) /\ Len(t) = n + 1 /\ n \in Nat
        /\ t[n + 1] = x /\ SubSeq(t, 1, n) = s
    BY PrefixOfAppend
  <1> HIDE DEF t, n
  <1>2. n \in 0..Len(t) /\ n < Len(t)
    BY <1>1
  <1>3. /\ Joined(SubSeq(t, 1, n + 1)) = Joined(SubSeq(t, 1, n)) \o t[n + 1]
        /\ Joined(SubSeq(t, 1, Len(t))) = Joined(t)
    BY <1>1, <1>2, JoinedUpTo
  <1> QED
    BY <1>1, <1>3 DEF t

\* What the MAC is taken of.
SignedParams(p) ==
    [i \in DOMAIN p.params |->
       IF p.params[i].type < HIP_MAC_3 THEN ParamToBytes(p.params[i]) ELSE <<>>]

LEMMA SignedParamsBytes ==
    ASSUME NEW p \in SentPackets
    PROVE  /\ SignedParams(p) \in Seq(Bytes) /\ Len(SignedParams(p)) = Len(p.params)
           /\ \A i \in 1..Len(p.params) : SignedParams(p)[i] =
                 IF p.params[i].type < HIP_MAC_3 THEN ParamToBytes(p.params[i]) ELSE <<>>
  <1>1. p.params \in Seq(SentParams)
    BY DEF SentPackets, NewPacket
  <1>2. DOMAIN p.params = 1..Len(p.params) /\ Len(p.params) \in Nat
        /\ \A i \in 1..Len(p.params) : ParamToBytes(p.params[i]) \in Bytes
    <2>1. \A i \in 1..Len(p.params) : ParamsOf(p)[i] = ParamToBytes(p.params[i])
      BY ParamsAreBytes
    <2>2. ParamsOf(p) \in Seq(Bytes) /\ Len(ParamsOf(p)) = Len(p.params)
      BY ParamsAreBytes
    <2>3. \A i \in 1..Len(p.params) : ParamsOf(p)[i] \in Bytes
      BY <2>2
    <2> QED
      BY <1>1, <2>1, <2>3
  <1>3. <<>> \in Bytes
    BY ByteConstants
  <1>4. SignedParams(p) = [i \in 1..Len(p.params) |->
            IF p.params[i].type < HIP_MAC_3 THEN ParamToBytes(p.params[i]) ELSE <<>>]
    BY <1>2 DEF SignedParams
  <1> QED
    BY <1>2, <1>3, <1>4

\* The MAC is the same once it is in the packet.
LEMMA MacOfItself ==
    ASSUME NEW q \in SentPackets, NEW m \in ShortBytes, NEW p,
           p = [q EXCEPT !.params = Append(q.params, NewMac3(m))]
    PROVE  p \in SentPackets /\ CalculateCmac(p) = CalculateCmac(q)
  <1>1. PICK t \in PacketTypes, s \in Hits, r \in Hits, params \in Seq(SentParams) :
             q = NewPacket(t, s, r, params)
    BY DEF SentPackets
  <1> DEFINE mac == NewMac3(m)
             more == Append(params, mac)
  <1>2. mac \in SentParams /\ mac.type = HIP_MAC_3
    BY DEF SentParams, NewMac3, NewData
  <1> HIDE DEF mac
  <1>3. p = NewPacket(t, s, r, more) /\ q.params = params /\ p.params = more
    <2>1. q.params = params
      BY <1>1 DEF NewPacket
    <2>2. p = [q EXCEPT !.params = more]
      BY <2>1 DEF mac
    <2> HIDE DEF more
    <2>3. p = NewPacket(t, s, r, more) /\ p.params = more
      BY <1>1, <2>2 DEF NewPacket
    <2> QED
      BY <2>1, <2>3
  <1>4. /\ more \in Seq(SentParams) /\ Len(more) = Len(params) + 1 /\ Len(params) \in Nat
        /\ more[Len(params) + 1] = mac /\ \A i \in 1..Len(params) : more[i] = params[i]
    BY <1>2, PrefixOfAppend
  <1> HIDE DEF more
  <1>5. p \in SentPackets
    BY <1>3, <1>4 DEF SentPackets
  <1> DEFINE sp == SignedParams(p)
             sq == SignedParams(q)
             e == <<>>
  <1>6. /\ sp \in Seq(Bytes) /\ Len(sp) = Len(params) + 1
        /\ \A i \in 1..Len(params) + 1 :
             sp[i] = IF more[i].type < HIP_MAC_3 THEN ParamToBytes(more[i]) ELSE <<>>
    BY <1>3, <1>4, <1>5, SignedParamsBytes
  <1>7. /\ sq \in Seq(Bytes) /\ Len(sq) = Len(params)
        /\ \A i \in 1..Len(params) :
             sq[i] = IF params[i].type < HIP_MAC_3 THEN ParamToBytes(params[i]) ELSE <<>>
    BY <1>3, SignedParamsBytes
  <1>8. e \in Bytes
    BY ByteConstants
  <1> HIDE DEF sp, sq, e
  <1>9. sp = Append(sq, e)
    <2>1. /\ Append(sq, e) \in Seq(Bytes) /\ Len(Append(sq, e)) = Len(sq) + 1
          /\ Append(sq, e)[Len(sq) + 1] = e /\ \A i \in 1..Len(sq) : Append(sq, e)[i] = sq[i]
      BY <1>7, <1>8, PrefixOfAppend
    <2> DEFINE a == Append(sq, e)
    <2> HIDE DEF a
    <2>2. ASSUME NEW i \in 1..Len(params) + 1 PROVE sp[i] = a[i]
      <3>1. CASE i = Len(params) + 1
        <4>1. ~(more[i].type < HIP_MAC_3)
          BY <1>2, <1>4, <3>1 DEF HIP_MAC_3
        <4> QED
          BY <1>6, <1>7, <2>1, <3>1, <4>1 DEF a, e
      <3>2. CASE i # Len(params) + 1
        <4>1. i \in 1..Len(params) /\ i \in 1..Len(sq)
          BY <1>4, <1>7, <3>2
        <4> QED
          BY <1>4, <1>6, <1>7, <2>1, <4>1 DEF a
      <3> QED
        BY <3>1, <3>2
    <2>3. a \in Seq(Bytes) /\ Len(a) = Len(params) + 1
      BY <1>7, <2>1 DEF a
    <2>4. sp = a
      BY <1>6, <2>2, <2>3, SeqEqual
    <2> QED
      BY <2>4 DEF a
  <1>10. Joined(sp) = Joined(sq)
    <2>1. Joined(sp) = Joined(sq) \o e
      BY <1>7, <1>8, <1>9, JoinedAppend
    <2>2. Len(sq) \in 0..Len(sq)
      BY <1>4, <1>7
    <2>3. Joined(sq) \in Bytes
      BY <1>7, <2>2, JoinedUpTo
    <2> DEFINE j == Joined(sq)
    <2> HIDE DEF j
    <2>4. j \in Seq(Byte)
      BY <2>3 DEF j, Bytes
    <2>5. j \o <<>> = j
      BY <2>4, ConcatEmptySeq
    <2> QED
      BY <2>1, <2>5 DEF j, e
  <1>11. \A l : HeaderBytes(p, l, 0) = HeaderBytes(q, l, 0)
    BY <1>1, <1>3 DEF HeaderBytes, NewPacket
  <1>12. CalculateCmac(p) = Cmac(HeaderBytes(p, Len(Joined(sp)), 0) \o Joined(sp))
    BY DEF CalculateCmac, SignedParams, sp
  <1>13. CalculateCmac(q) = Cmac(HeaderBytes(q, Len(Joined(sq)), 0) \o Joined(sq))
    BY DEF CalculateCmac, SignedParams, sq
  <1> QED
    BY <1>5, <1>10, <1>11, <1>12, <1>13

\* A packet with its MAC, which nothing before it could be taken for.
Signable(q) == q \in SentPackets /\ \A i \in 1..Len(q.params) : q.params[i].type < HIP_MAC_3

HasMac(p) ==
    \E q : /\ Signable(q) /\ CalculateCmac(q) \in ShortBytes
           /\ p = [q EXCEPT !.params = Append(q.params, NewMac3(CalculateCmac(q)))]

LEMMA MacFoundRight ==
    ASSUME NEW p, HasMac(p)
    PROVE  p \in SentPackets /\ VerifyCmac(p)
  <1>1. PICK q : /\ Signable(q) /\ CalculateCmac(q) \in ShortBytes
                 /\ p = [q EXCEPT !.params = Append(q.params, NewMac3(CalculateCmac(q)))]
    BY DEF HasMac
  <1> DEFINE m == CalculateCmac(q)
             n == Len(q.params)
             mac == NewMac3(m)
  <1>2. m \in ShortBytes /\ q \in SentPackets /\ p = [q EXCEPT !.params = Append(q.params, NewMac3(m))]
    BY <1>1 DEF Signable
  <1> HIDE DEF m
  <1>3. p \in SentPackets /\ CalculateCmac(p) = m
    BY <1>2, MacOfItself DEF m
  <1>4. q.params \in Seq(SentParams) /\ p.params = Append(q.params, mac)
    BY <1>2 DEF SentPackets, NewPacket
  <1>5. mac \in SentParams /\ mac.type = HIP_MAC_3 /\ mac.data = m
    BY <1>2 DEF SentParams, NewMac3, NewData
  <1> HIDE DEF mac, n
  <1>6. /\ p.params \in Seq(SentParams) /\ Len(p.params) = n + 1 /\ n \in Nat
        /\ p.params[n + 1] = mac /\ \A i \in 1..n : p.params[i] = q.params[i]
    BY <1>4, <1>5, PrefixOfAppend DEF n
  <1>7. n + 1 \in DOMAIN p.params
    BY <1>6
  <1>8. ASSUME NEW j \in 1..(n + 1) - 1 PROVE p.params[j].type # HIP_MAC_3
    <2>1. j \in 1..n
      BY <1>6
    <2>2. p.params[j].type < HIP_MAC_3
      BY <1>1, <1>6, <2>1 DEF Signable, n
    <2> QED
      BY <2>2 DEF HIP_MAC_3
  <1> QED
    BY <1>3, <1>5, <1>6, <1>7, <1>8 DEF VerifyCmac

-----------------------------------------------------------------------------
(* What the receiver reads.                                                *)
\* The header of a packet is found at the front of its bytes.
LEMMA HeaderInFront ==
    ASSUME NEW p \in SentPackets
    PROVE  HeaderRest(ToBytes(p), p.type, p.sender, p.receiver)
  <1> DEFINE body == Body(p)
             l == HDX_SIZE_PACKET_HDR + Len(body)
             c == CalcChecksum(Unsigned(p))
             h == HeaderBytes(p, l, c)
             e == <<>>
  <1>1. PICK t \in PacketTypes, s \in Hits, r \in Hits, params \in Seq(SentParams) :
             p = NewPacket(t, s, r, params)
    BY DEF SentPackets
  <1>2. p.type = t /\ p.sender = s /\ p.receiver = r
    BY <1>1 DEF NewPacket
  <1>3. ToBytes(p) = h \o body
    BY DEF ToBytes, Unsigned, Body
  <1>4. body \in Bytes /\ Len(body) \in Nat
    BY BodyBytes
  <1>5. HDX_SIZE_PACKET_HDR = 8 + HitLen + HitLen /\ HitLen \in Nat
    BY HitsAreBytes
  <1>6. Unsigned(p) \in Bytes
    BY ToBytesShape DEF IsSigned
  <1>7. c \in Nat
    BY <1>6, ChecksumType
  <1> HIDE DEF body, c
  <1>8. l \in Nat /\ l >= 8
    BY <1>4, <1>5
  <1> HIDE DEF l
  <1>9. h \in Bytes /\ Len(h) = HDX_SIZE_PACKET_HDR /\ HeaderRest(h, t, s, r)
    BY <1>1, <1>7, <1>8, HeaderShape
  <1>10. e \in Bytes /\ Len(e) = 0
    BY ByteConstants
  <1>11. e \o h = h
    <2>1. h \in Seq(Byte)
      BY <1>9 DEF Bytes
    <2> HIDE DEF h
    <2>2. <<>> \o h = h
      BY <2>1, ConcatEmptySeq
    <2> QED
      BY <2>2
  <1> HIDE DEF h, e
  <1> DEFINE b == (e \o h) \o body
  <1>12. IsAt(b, 0, h)
    BY <1>4, <1>9, <1>10, InTheMiddle
  <1> HIDE DEF b
  <1>13. /\ \A i \in 1..Len(h) : b[0 + i] = h[i]
         /\ \A i \in 1..Len(h) + 1, j \in 0..Len(h) : SubSeq(b, 0 + i, 0 + j) = SubSeq(h, i, j)
    BY <1>12 DEF IsAt
  <1>14. /\ Len(h) = 8 + HitLen + HitLen
         /\ 1 \in 1..Len(h) /\ 3 \in 1..Len(h) /\ 4 \in 1..Len(h) /\ 7 \in 1..Len(h) /\ 8 \in 1..Len(h)
         /\ 0 + 1 = 1 /\ 0 + 3 = 3 /\ 0 + 4 = 4 /\ 0 + 7 = 7 /\ 0 + 8 = 8
    BY <1>5, <1>9
  <1>15. /\ b[1] = h[1] /\ b[3] = h[3] /\ b[4] = h[4] /\ b[7] = h[7] /\ b[8] = h[8]
    BY <1>13, <1>14
  <1>16. /\ SubSeq(b, 9, 8 + HitLen) = SubSeq(h, 9, 8 + HitLen)
         /\ SubSeq(b, 9 + HitLen, 8 + HitLen + HitLen) = SubSeq(h, 9 + HitLen, 8 + HitLen + HitLen)
    <2>1. /\ 9 \in 1..Len(h) + 1 /\ 8 + HitLen \in 0..Len(h) /\ 9 + HitLen \in 1..Len(h) + 1
          /\ 8 + HitLen + HitLen \in 0..Len(h) /\ 0 + 9 = 9 /\ 0 + (8 + HitLen) = 8 + HitLen
          /\ 0 + (9 + HitLen) = 9 + HitLen /\ 0 + (8 + HitLen + HitLen) = 8 + HitLen + HitLen
      BY <1>5, <1>14
    <2> QED
      BY <1>13, <2>1
  <1>17. HeaderRest(b, t, s, r)
    BY <1>9, <1>15, <1>16 DEF HeaderRest
  <1> QED
    BY <1>2, <1>3, <1>11, <1>17 DEF b

\* The receiver of an undamaged packet takes its header for what it was.
LEMMA HeaderRead ==
    ASSUME NEW p \in SentPackets, NEW b, b = ToBytes(p)
    PROVE  /\ Len(b) >= HDX_SIZE_PACKET_HDR
           /\ ByteAt(b, 2) % 128 = p.type /\ p.type \in PacketTypes
           /\ Cleared(b) = Unsigned(p)
           /\ WordAt(b, 4) = CalcChecksum(Unsigned(p))
           /\ ByteAt(Unsigned(p), 2) \div 16 = 0
           /\ [type |-> ByteAt(b, 2) % 128, nextHdr |-> ByteAt(b, 0),
               version |-> ByteAt(b, 3) \div 16, ctrls |-> WordAt(b, 6),
               sender |-> Slice(b, 8, 8 + HitLen),
               receiver |-> Slice(b, 8 + HitLen, 8 + 2 * HitLen),
               params |-> <<>>] = [p EXCEPT !.params = <<>>]
  <1> DEFINE u == Unsigned(p)
  <1>1. PICK t \in PacketTypes, s \in Hits, r \in Hits, params \in Seq(SentParams) :
             p = NewPacket(t, s, r, params)
    BY DEF SentPackets
  <1>2. IsSigned(b, u)
    BY ToBytesShape
  <1>3. HeaderRest(b, t, s, r)
    <2>1. p.type = t /\ p.sender = s /\ p.receiver = r
      BY <1>1 DEF NewPacket
    <2> QED
      BY <2>1, HeaderInFront
  <1> HIDE DEF u
  <1>4. Cleared(b) = u
    BY <1>2, ClearedIsUnsigned
  <1>5. Len(b) >= HDX_SIZE_PACKET_HDR /\ WordAt(b, 4) = CalcChecksum(u)
    BY <1>2 DEF IsSigned, WordAt, ByteAt
  <1>6. t % 128 = t /\ t \div 16 = 0
    BY DEF PacketTypes, I1, R1, I2, R2
  <1>7. /\ ByteAt(b, 0) = IPPROTO_NONE /\ ByteAt(b, 2) = t /\ ByteAt(b, 3) = 33 /\ WordAt(b, 6) = 0
    <2>1. b[1] = IPPROTO_NONE /\ b[3] = t /\ b[4] = 33 /\ b[7] = 0 /\ b[8] = 0
      BY <1>3 DEF HeaderRest
    <2> QED
      BY <2>1 DEF ByteAt, WordAt
  <1>8. Slice(b, 8, 8 + HitLen) = s /\ Slice(b, 8 + HitLen, 8 + 2 * HitLen) = r
    <2>1. /\ 8 + 1 = 9 /\ 8 + HitLen + 1 = 9 + HitLen /\ 8 + 2 * HitLen = 8 + HitLen + HitLen
      BY HitsAreBytes
    <2> QED
      BY <1>3, <2>1 DEF HeaderRest, Slice
  <1>9. ByteAt(u, 2) = t
    <2>1. HitLen \in Nat /\ HDX_SIZE_PACKET_HDR = 8 + HitLen + HitLen
      BY HitsAreBytes
    <2>2. Len(b) \in Nat
      BY <1>2, LenProperties DEF IsSigned, Bytes
    <2>3. 3 \in 1..Len(b)
      BY <1>5, <2>1, <2>2
    <2>4. u[3] = b[3]
      BY <1>2, <2>3 DEF IsSigned
    <2> QED
      BY <1>7, <2>4 DEF ByteAt
  <1>10. 33 \div 16 = 2
    OBVIOUS
  <1>11. [p EXCEPT !.params = <<>>] = [type |-> t, nextHdr |-> IPPROTO_NONE, version |-> 2, ctrls |-> 0,
             sender |-> s, receiver |-> r, params |-> <<>>]
    BY <1>1 DEF NewPacket
  <1>12. p.type = t
    BY <1>1 DEF NewPacket
  <1> QED
    BY <1>4, <1>5, <1>6, <1>7, <1>8, <1>9, <1>10, <1>11, <1>12 DEF u

\* Where the parameter k + 1 begins.
Offset(p, k) == HDX_SIZE_PACKET_HDR + Len(Joined(SubSeq(ParamsOf(p), 1, k)))

LEMMA OffsetAtTheEnds ==
    ASSUME NEW p \in SentPackets
    PROVE  /\ Offset(p, 0) = HDX_SIZE_PACKET_HDR
           /\ Offset(p, Len(p.params)) = Len(Unsigned(p))
           /\ Len(Unsigned(p)) \in Nat
  <1> DEFINE pieces == ParamsOf(p)
  <1>1. pieces \in Seq(Bytes) /\ Len(pieces) = Len(p.params)
    BY ParamsAreBytes
  <1>2. HDX_SIZE_PACKET_HDR \in Nat
    BY HitsAreBytes
  <1> HIDE DEF pieces
  <1>3. 0 \in 0..Len(pieces)
    BY <1>1, LenProperties
  <1>4. Joined(SubSeq(pieces, 1, 0)) = <<>> /\ Joined(SubSeq(pieces, 1, Len(pieces))) = Joined(pieces)
    BY <1>1, <1>3, JoinedUpTo
  <1>5. Len(Unsigned(p)) = HDX_SIZE_PACKET_HDR + Len(Joined(pieces))
    BY ToBytesShape DEF Body, pieces
  <1>6. Len(Joined(pieces)) \in Nat
    BY BodyBytes DEF Body, pieces
  <1>7. Len(<<>>) = 0
    OBVIOUS
  <1> QED
    BY <1>1, <1>2, <1>4, <1>5, <1>6, <1>7 DEF Offset, pieces

\* A parameter is read at its offset, and the next one stands behind it.
LEMMA ParamRead ==
    ASSUME NEW p \in SentPackets, NEW k \in Nat, k < Len(p.params)
    PROVE  /\ ParamFromBytes(Unsigned(p), Offset(p, k)) = {p.params[k + 1]}
           /\ Offset(p, k) + ParamLength(p.params[k + 1]) = Offset(p, k + 1)
           /\ Len(Unsigned(p)) - Offset(p, k) # 0
  <1> DEFINE pieces == ParamsOf(p)
             x == p.params[k + 1]
             u == Unsigned(p)
             h == HeaderBytes(p, HDX_SIZE_PACKET_HDR + Len(Body(p)), 0)
             before == Joined(SubSeq(pieces, 1, k))
             piece == ParamToBytes(x)
  <1>1. p.params \in Seq(SentParams)
    BY DEF SentPackets, NewPacket
  <1>2. Len(p.params) \in Nat
    BY <1>1
  <1>3. k + 1 \in 1..Len(p.params) /\ k \in 0..Len(p.params) /\ k + 1 \in 0..Len(p.params)
    BY <1>2
  <1>4. x \in SentParams
    BY <1>1, <1>3
  <1>5. pieces \in Seq(Bytes) /\ Len(pieces) = Len(p.params) /\ pieces[k + 1] = piece
    BY <1>3, ParamsAreBytes
  <1>6. h \in Bytes /\ Len(h) = HDX_SIZE_PACKET_HDR
    <2>1. PICK t \in PacketTypes, s \in Hits, r \in Hits, params \in Seq(SentParams) :
               p = NewPacket(t, s, r, params)
      BY DEF SentPackets
    <2> DEFINE l == HDX_SIZE_PACKET_HDR + Len(Body(p))
    <2>2. l \in Nat /\ l >= 8
      BY BodyBytes, HitsAreBytes
    <2> HIDE DEF l
    <2>3. HeaderBytes(p, l, 0) \in Bytes /\ Len(HeaderBytes(p, l, 0)) = HDX_SIZE_PACKET_HDR
      BY <2>1, <2>2, HeaderShape
    <2> QED
      BY <2>3 DEF l
  <1>7. u = h \o Joined(pieces)
    BY DEF Unsigned, Body
  <1>8. ByteAt(u, 2) \div 16 = 0
    BY HeaderRead
  <1>9. HDX_SIZE_PACKET_HDR \in Nat /\ HDX_SIZE_PARAM_HDR = 4
    BY HitsAreBytes DEF HDX_SIZE_PARAM_HDR
  <1>10. Offset(p, k) = Len(h) + Len(before)
    BY <1>6 DEF Offset
  <1> HIDE DEF pieces, x, u, h
  <1>11. /\ before \in Bytes /\ Joined(SubSeq(pieces, 1, k + 1)) = before \o pieces[k + 1]
    BY <1>3, <1>5, JoinedUpTo
  <1>12. PICK rest \in Bytes : Joined(pieces) = Joined(SubSeq(pieces, 1, k + 1)) \o rest
    BY <1>3, <1>5, JoinedUpTo
  <1>13. Joined(pieces) = (before \o piece) \o rest
    BY <1>5, <1>11, <1>12
  <1>14. piece \in Bytes
    BY <1>3, <1>5
  <1> HIDE DEF before, piece
  <1> DEFINE a == h \o before
  <1>15. a \in Bytes /\ Len(a) = Len(h) + Len(before)
    BY <1>6, <1>11, BytesConcat
  <1>16. u = (a \o piece) \o rest
    <2>1. before \o piece \in Bytes
      BY <1>11, <1>14, BytesConcat
    <2> DEFINE y == before \o piece
    <2>2. (h \o y) \o rest = h \o (y \o rest)
      BY <1>6, <1>12, <2>1, BytesAssociative
    <2>3. (h \o before) \o piece = h \o (before \o piece)
      BY <1>6, <1>11, <1>14, BytesAssociative
    <2> QED
      BY <1>7, <1>13, <2>2, <2>3
  <1> HIDE DEF a
  <1>17. ParamFromBytes(u, Len(a)) = {x}
    BY <1>4, <1>8, <1>12, <1>15, <1>16, ReadBack DEF piece
  <1>18. IsWrittenAt(u, Len(a), x, Len(rest))
    BY <1>4, <1>12, <1>15, <1>16, ParamInTheMiddle DEF piece
  <1> DEFINE m == ParamLength(x)
  <1>19. /\ m \in Nat /\ m >= 4 /\ Len(piece) = m
         /\ Len(a) \in Nat /\ Len(rest) \in Nat /\ Len(u) = Len(a) + m + Len(rest)
    <2> DEFINE g == GetBytes(x)
               q == Padded(Len(g) + HDX_SIZE_PARAM_HDR)
    <2>1. /\ Len(a) \in Nat /\ Len(g) \in Nat /\ Len(rest) \in Nat /\ q \in Nat
          /\ q >= Len(g) + HDX_SIZE_PARAM_HDR
          /\ Len(ParamToBytes(x)) = q /\ m = q /\ Len(u) = Len(a) + q + Len(rest)
      BY <1>18 DEF IsWrittenAt
    <2> HIDE DEF g, q, m
    <2> QED
      BY <1>9, <2>1 DEF piece
  <1> HIDE DEF m
  <1>20. Offset(p, k + 1) = HDX_SIZE_PACKET_HDR + (Len(before) + Len(piece))
    <2>1. Len(before \o piece) = Len(before) + Len(piece)
      BY <1>11, <1>14, BytesConcat
    <2>2. Joined(SubSeq(pieces, 1, k + 1)) = before \o piece
      BY <1>5, <1>11
    <2> QED
      BY <2>1, <2>2 DEF Offset, pieces
  <1>21. Len(before) \in Nat
    BY <1>11, LenProperties DEF Bytes
  <1>22. Offset(p, k) + m = Offset(p, k + 1)
    BY <1>6, <1>9, <1>10, <1>19, <1>20, <1>21
  <1>23. Len(u) - Offset(p, k) # 0
    BY <1>10, <1>15, <1>19
  <1> QED
    BY <1>10, <1>15, <1>17, <1>22, <1>23 DEF u, x, m

-----------------------------------------------------------------------------
(* The packet that is sent and received, from end to end.                  *)
LEMMA TuplesAreSequences ==
    ASSUME NEW S, NEW a \in S, NEW b \in S, NEW c \in S, NEW d \in S, NEW e \in S
    PROVE  /\ <<a>> \in Seq(S) /\ <<a, b>> \in Seq(S)
           /\ <<a, b, c, d>> \in Seq(S) /\ <<a, b, c, d, e>> \in Seq(S)
  OBVIOUS

LEMMA NewPacketsSignable ==
    ASSUME NEW p \in NewPackets
    PROVE  Signable(p)
  <1>1. PICK s \in Hits, r \in Hits : p \in I1s(s, r) \cup R1s(s, r) \cup I2s(s, r) \cup R2s(s, r)
    BY DEF NewPackets
  <1> DEFINE small == {x \in SentParams : x.type < HIP_MAC_3}
  <1>2. /\ \A i \in Nonces : NewPuzzle(8, 40, 0, i) \in small
        /\ \A i \in Nonces, j \in Nonces : NewSolution(8, 0, i, j) \in small
        /\ \A d \in Datas : NewEncryptedKey(d) \in small
        /\ \A d \in Datas : NewHostId(0, d, <<>>) \in small
        /\ NewCipher(2) \in small
        /\ NewHitSuiteList(<<8>>) \in small
        /\ NewDhGroupList(DH_GROUP_ECP192) \in small
    <2>1. ASSUME NEW i \in Nonces PROVE NewPuzzle(8, 40, 0, i) \in small
      BY DEF SentParams, NewPuzzle, PUZZLE, HIP_MAC_3
    <2>2. ASSUME NEW i \in Nonces, NEW j \in Nonces PROVE NewSolution(8, 0, i, j) \in small
      BY DEF SentParams, NewSolution, SOLUTION, HIP_MAC_3
    <2>3. ASSUME NEW d \in Datas PROVE NewEncryptedKey(d) \in small
      BY DEF SentParams, NewEncryptedKey, NewData, ENCRYPTED_KEY, HIP_MAC_3
    <2>4. ASSUME NEW d \in Datas PROVE NewHostId(0, d, <<>>) \in small
      BY DEF SentParams, NewHostId, HOST_ID, HIP_MAC_3
    <2>5. NewCipher(2) \in small
      BY DEF SentParams, NewCipher, NewData, HIP_CIPHER, HIP_MAC_3
    <2>6. NewHitSuiteList(<<8>>) \in small
      BY DEF SentParams, NewHitSuiteList, NewData, HIT_SUITE_LIST, HIP_MAC_3
    <2>7. NewDhGroupList(DH_GROUP_ECP192) \in small
      BY DEF SentParams, NewDhGroupList, NewData, DH_GROUP_LIST, HIP_MAC_3
    <2> QED
      BY <2>1, <2>2, <2>3, <2>4, <2>5, <2>6, <2>7
  <1> HIDE DEF small
  <1>3. \E t \in PacketTypes, params \in Seq(small) : p = NewPacket(t, s, r, params)
    <2> DEFINE cipher == NewCipher(2)
               list == NewHitSuiteList(<<8>>)
               group == NewDhGroupList(DH_GROUP_ECP192)
    <2>0. /\ cipher \in small /\ list \in small /\ group \in small
          /\ I1 \in PacketTypes /\ R1 \in PacketTypes /\ I2 \in PacketTypes /\ R2 \in PacketTypes
      BY <1>2 DEF PacketTypes
    <2> HIDE DEF cipher, list, group
    <2>1. CASE p \in I1s(s, r)
      <3>1. p = NewPacket(I1, s, r, <<group>>)
        BY <2>1 DEF I1s, NewI1, group
      <3> QED
        BY <2>0, <3>1, TuplesAreSequences
    <2>2. CASE p \in R1s(s, r)
      <3>1. PICK i \in Nonces, d \in Datas :
              p = NewPacket(R1, s, r, <<NewPuzzle(8, 40, 0, i), cipher, NewHostId(0, d, <<>>), list, group>>)
        BY <2>2 DEF R1s, NewR1, cipher, list, group
      <3> DEFINE x == NewPuzzle(8, 40, 0, i)
                 y == NewHostId(0, d, <<>>)
      <3>2. x \in small /\ y \in small /\ p = NewPacket(R1, s, r, <<x, cipher, y, list, group>>)
        BY <1>2, <3>1
      <3> HIDE DEF x, y
      <3>3. <<x, cipher, y, list, group>> \in Seq(small)
        BY <2>0, <3>2, TuplesAreSequences
      <3> QED
        BY <2>0, <3>2, <3>3
    <2>3. CASE p \in I2s(s, r)
      <3>1. PICK i \in Nonces, j \in Nonces, e \in Datas, d \in Datas :
              p = NewPacket(I2, s, r, <<NewSolution(8, 0, i, j), cipher, NewEncryptedKey(e), NewHostId(0, d, <<>>)>>)
        BY <2>3 DEF I2s, NewI2, cipher
      <3> DEFINE x == NewSolution(8, 0, i, j)
                 y == NewEncryptedKey(e)
                 z == NewHostId(0, d, <<>>)
      <3>2. x \in small /\ y \in small /\ z \in small /\ p = NewPacket(I2, s, r, <<x, cipher, y, z>>)
        BY <1>2, <3>1
      <3> HIDE DEF x, y, z
      <3>3. <<x, cipher, y, z>> \in Seq(small)
        BY <2>0, <3>2, TuplesAreSequences
      <3> QED
        BY <2>0, <3>2, <3>3
    <2>4. CASE p \in R2s(s, r)
      <3>1. PICK e \in Datas : p = NewPacket(R2, s, r, <<NewEncryptedKey(e), group>>)
        BY <2>4 DEF R2s, NewR2, group
      <3> DEFINE x == NewEncryptedKey(e)
      <3>2. x \in small /\ p = NewPacket(R2, s, r, <<x, group>>)
        BY <1>2, <3>1
      <3> HIDE DEF x
      <3>3. <<x, group>> \in Seq(small)
        BY <2>0, <3>2, TuplesAreSequences
      <3> QED
        BY <2>0, <3>2, <3>3
    <2> QED
      BY <1>1, <2>1, <2>2, <2>3, <2>4
  <1>4. PICK t \in PacketTypes, params \in Seq(small) : p = NewPacket(t, s, r, params)
    BY <1>3
  <1>5. small \subseteq SentParams /\ \A x \in small : x.type < HIP_MAC_3
    BY DEF small
  <1>6. params \in Seq(SentParams)
    BY <1>5, SeqMonotonic
  <1>7. p.params = params
    BY <1>4 DEF NewPacket
  <1>8. \A i \in 1..Len(params) : params[i].type < HIP_MAC_3
    BY <1>5
  <1>9. p \in SentPackets
    BY <1>4, <1>6 DEF SentPackets
  <1> QED
    BY <1>7, <1>8, <1>9 DEF Signable

LEMMA LongerPrefix ==
    ASSUME NEW S, NEW s \in Seq(S), NEW k \in Nat, k < Len(s)
    PROVE  Append(SubSeq(s, 1, k), s[k + 1]) = SubSeq(s, 1, k + 1)
  <1>1. 1 \in 1..Len(s) /\ k + 1 \in 1..Len(s) /\ k + 1 - 1 = k /\ Len(s) \in Nat
    OBVIOUS
  <1>2. SubSeq(s, 1, k + 1) = SubSeq(s, 1, k + 1 - 1) \o <<s[k + 1]>>
    BY <1>1, SubSeqRecursiveSecond
  <1>3. s[k + 1] \in S /\ SubSeq(s, 1, k) \in Seq(S)
    <2>1. \A i \in 1..k : s[i] \in S
      BY <1>1
    <2>2. 1 \in Int /\ k \in Int
      OBVIOUS
    <2> QED
      BY <1>1, <2>1, <2>2, SubSeqProperties
  <1> DEFINE t == SubSeq(s, 1, k)
             x == s[k + 1]
  <1> HIDE DEF t, x
  <1>4. Append(t, x) = t \o <<x>>
    BY <1>3, AppendIsConcat DEF t, x
  <1> QED
    BY <1>1, <1>2, <1>4 DEF t, x

\* The receiver after k parameters.
HasRead(k) ==
    /\ k \in 0..Len(packet.params)
    /\ received = [packet EXCEPT !.params = SubSeq(packet.params, 1, k)]
    /\ leng = Offset(packet, k)

IsDamaged(b) == \E i \in 1..Len(b), d \in 1..255 : datagram = Damaged(b, i, d)

PacketInv ==
    /\ phase \in {"mac", "send", "wire", "params", "done"}
    /\ damaged \in BOOLEAN
    /\ phase \in {"mac", "send", "params"} => ~damaged
    /\ packet \in SentPackets
    /\ phase = "mac" => packet \in NewPackets /\ packet.type \in Authentic
    /\ phase # "mac" /\ packet.type \in Authentic => HasMac(packet)
    /\ phase = "wire" /\ ~damaged => datagram = ToBytes(packet)
    /\ phase = "wire" /\ damaged => IsDamaged(ToBytes(packet))
    /\ phase = "params" => datagram = Unsigned(packet) /\ \E k \in Nat : HasRead(k)
    /\ phase = "done" /\ damaged => verdict = "refused"
    /\ phase = "done" /\ ~damaged => verdict = "accepted" /\ received = packet

LEMMA PacketInvInit ==
    ASSUME PacketInit
    PROVE  PacketInv
  <1>1. packet \in SentPackets
    BY NewPacketsSignable DEF PacketInit, Signable
  <1>2. phase = (IF packet.type \in Authentic THEN "mac" ELSE "send") /\ damaged = FALSE /\ packet \in NewPackets
    BY DEF PacketInit
  <1>3. CASE packet.type \in Authentic
    BY <1>1, <1>2, <1>3 DEF PacketInv
  <1>4. CASE packet.type \notin Authentic
    BY <1>1, <1>2, <1>4 DEF PacketInv
  <1> QED
    BY <1>3, <1>4

LEMMA AddMacStep ==
    ASSUME PacketInv, AddMac
    PROVE  PacketInv'
  <1>1. /\ phase = "mac" /\ phase' = "send" /\ damaged' = damaged /\ ~damaged /\ damaged \in BOOLEAN
        /\ packet \in NewPackets /\ packet.type \in Authentic
        /\ packet' = [packet EXCEPT !.params = Append(@, NewMac3(CalculateCmac(packet)))]
    BY DEF PacketInv, AddMac
  <1> DEFINE m == CalculateCmac(packet)
  <1>2. m \in ShortBytes
    <2>1. m \in Seq(Byte) /\ Len(m) < 65536
      BY <1>1, CmacAssumption DEF MaxData
    <2> HIDE DEF m
    <2>2. Len(m) \in Nat16
      BY <2>1, LenProperties, InNat16
    <2> QED
      BY <2>1, <2>2 DEF ShortBytes, Bytes
  <1>3. Signable(packet)
    BY <1>1, NewPacketsSignable
  <1>4. packet' = [packet EXCEPT !.params = Append(packet.params, NewMac3(m))]
    <2>1. packet \in SentPackets
      BY <1>3 DEF Signable
    <2> QED
      BY <1>1, <2>1 DEF SentPackets, NewPacket
  <1>5. HasMac(packet')
    BY <1>2, <1>3, <1>4 DEF HasMac
  <1>6. packet' \in SentPackets
    BY <1>5, MacFoundRight
  <1> QED
    BY <1>1, <1>5, <1>6 DEF PacketInv

LEMMA SendStep ==
    ASSUME PacketInv, Send
    PROVE  PacketInv'
  <1>1. /\ phase = "send" /\ phase' = "wire" /\ damaged' = damaged /\ ~damaged /\ packet' = packet
        /\ datagram' = ToBytes(packet)
    BY DEF PacketInv, Send
  <1>2. packet \in SentPackets /\ (packet.type \in Authentic => HasMac(packet)) /\ damaged \in BOOLEAN
    BY <1>1 DEF PacketInv
  <1>3. datagram' = ToBytes(packet')
    BY <1>1
  <1> QED
    BY <1>1, <1>2, <1>3 DEF PacketInv

LEMMA DamageStep ==
    ASSUME PacketInv, DamageByte
    PROVE  PacketInv'
  <1>1. /\ phase = "wire" /\ phase' = "wire" /\ ~damaged /\ damaged' /\ damaged' = TRUE /\ packet' = packet
    BY DEF DamageByte
  <1>2. packet \in SentPackets /\ (packet.type \in Authentic => HasMac(packet)) /\ datagram = ToBytes(packet)
    BY <1>1 DEF PacketInv
  <1>3. PICK i \in DOMAIN datagram, d \in Damages : datagram' = [datagram EXCEPT ![i] = (@ + d) % 256]
    BY DEF DamageByte
  <1> DEFINE b == ToBytes(packet)
  <1>4. b \in Bytes
    BY <1>2, ToBytesShape DEF IsSigned
  <1>5. d \in 1..255
    BY PacketsAssumption
  <1> HIDE DEF b
  <1>6. i \in 1..Len(b) /\ datagram = b
    BY <1>2, <1>4 DEF b, Bytes
  <1>7. datagram' = Damaged(b, i, d)
    <2>1. [b EXCEPT ![i] = (@ + d) % 256] = [b EXCEPT ![i] = (b[i] + d) % 256]
      BY <1>4, <1>6 DEF Bytes
    <2> QED
      BY <1>3, <1>6, <2>1 DEF Damaged
  <1>8. IsDamaged(ToBytes(packet))'
    BY <1>1, <1>5, <1>6, <1>7 DEF IsDamaged, b
  <1> QED
    BY <1>1, <1>2, <1>8 DEF PacketInv

LEMMA ReadHeaderStep ==
    ASSUME PacketInv, ReadHeader
    PROVE  PacketInv'
  <1>1. /\ phase = "wire" /\ damaged' = damaged /\ damaged \in BOOLEAN /\ packet' = packet
        /\ packet \in SentPackets /\ (packet.type \in Authentic => HasMac(packet))
    BY DEF PacketInv, ReadHeader
  <1> DEFINE cleared == [datagram EXCEPT ![5] = 0, ![6] = 0]
             type == ByteAt(datagram, 2) % 128
             bad == \/ Len(datagram) < HDX_SIZE_PACKET_HDR
                    \/ type \notin {I1, R1, I2, R2}
                    \/ WordAt(datagram, 4) # CalcChecksum(cleared)
  <1>2. IF bad THEN Refuse /\ UNCHANGED <<datagram, received, leng>>
        ELSE /\ datagram' = cleared
             /\ received' = [type |-> type, nextHdr |-> ByteAt(datagram, 0),
                    version |-> ByteAt(datagram, 3) \div 16, ctrls |-> WordAt(datagram, 6),
                    sender |-> Slice(datagram, 8, 8 + HitLen),
                    receiver |-> Slice(datagram, 8 + HitLen, 8 + 2 * HitLen),
                    params |-> <<>>]
             /\ leng' = HDX_SIZE_PACKET_HDR
             /\ phase' = "params"
             /\ UNCHANGED verdict
    BY DEF ReadHeader
  <1>3. cleared = Cleared(datagram)
    BY DEF Cleared
  <1>4. CASE damaged
    <2>1. PICK i \in 1..Len(ToBytes(packet)), d \in 1..255 : datagram = Damaged(ToBytes(packet), i, d)
      BY <1>1, <1>4 DEF PacketInv, IsDamaged
    <2>2. IsSigned(ToBytes(packet), Unsigned(packet))
      BY <1>1, ToBytesShape
    <2>3. WordAt(datagram, 4) # CalcChecksum(Cleared(datagram))
      BY <2>1, <2>2, DamageFound
    <2>4. bad
      BY <1>3, <2>3
    <2>5. phase' = "done" /\ verdict' = "refused"
      BY <1>2, <2>4 DEF Refuse
    <2> QED
      BY <1>1, <1>4, <2>5 DEF PacketInv
  <1>5. CASE ~damaged
    <2>1. datagram = ToBytes(packet)
      BY <1>1, <1>5 DEF PacketInv
    <2>2. ~bad
      <3>1. HDX_SIZE_PACKET_HDR \in Nat
        BY HitsAreBytes
      <3>2. ToBytes(packet) \in Bytes
        BY <1>1, ToBytesShape DEF IsSigned
      <3>3. Len(datagram) \in Nat
        BY <2>1, <3>2, LenProperties DEF Bytes
      <3>4. /\ Len(datagram) >= HDX_SIZE_PACKET_HDR /\ type = packet.type /\ packet.type \in PacketTypes
            /\ Cleared(datagram) = Unsigned(packet) /\ WordAt(datagram, 4) = CalcChecksum(Unsigned(packet))
        BY <1>1, <2>1, HeaderRead
      <3> HIDE DEF type, cleared
      <3>5. ~(Len(datagram) < HDX_SIZE_PACKET_HDR)
        BY <3>1, <3>3, <3>4
      <3> QED
        BY <1>3, <3>4, <3>5 DEF PacketTypes
    <2>3. /\ phase' = "params" /\ datagram' = cleared /\ leng' = HDX_SIZE_PACKET_HDR
      BY <1>2, <2>2
    <2>4. datagram' = Unsigned(packet)
      BY <1>1, <1>3, <2>1, <2>3, HeaderRead
    <2>5. received' = [packet EXCEPT !.params = <<>>]
      BY <1>1, <1>2, <2>1, <2>2, HeaderRead
    <2>6. SubSeq(packet.params, 1, 0) = <<>>
      BY SubSeqEmpty
    <2>7. leng' = Offset(packet, 0)
      BY <1>1, <2>3, OffsetAtTheEnds
    <2>8. 0 \in 0..Len(packet.params)
      <3>1. packet.params \in Seq(SentParams)
        BY <1>1 DEF SentPackets, NewPacket
      <3> QED
        BY <3>1, LenProperties
    <2>9. HasRead(0)'
      BY <1>1, <2>5, <2>6, <2>7, <2>8 DEF HasRead
    <2>10. datagram' = Unsigned(packet') /\ \E k \in Nat : HasRead(k)'
      BY <1>1, <2>4, <2>9
    <2> QED
      BY <1>1, <1>5, <2>3, <2>10 DEF PacketInv
  <1> QED
    BY <1>1, <1>4, <1>5

LEMMA ReadParamStep ==
    ASSUME PacketInv, ReadParam
    PROVE  PacketInv'
  <1>1. /\ phase = "params" /\ packet' = packet /\ datagram' = datagram /\ damaged' = damaged
        /\ Len(datagram) - leng # 0
    BY DEF ReadParam
  <1>2. /\ packet \in SentPackets /\ (packet.type \in Authentic => HasMac(packet))
        /\ ~damaged /\ damaged \in BOOLEAN /\ datagram = Unsigned(packet)
    BY <1>1 DEF PacketInv
  <1>3. PICK k \in Nat : HasRead(k)
    BY <1>1 DEF PacketInv
  <1>4. packet.params \in Seq(SentParams)
    BY <1>2 DEF SentPackets, NewPacket
  <1> DEFINE n == Len(packet.params)
             x == packet.params[k + 1]
  <1>5. k \in 0..n /\ n \in Nat /\ leng = Offset(packet, k)
        /\ received = [packet EXCEPT !.params = SubSeq(packet.params, 1, k)]
    BY <1>3, <1>4, LenProperties DEF HasRead
  <1>6. k # n
    <2>1. Offset(packet, n) = Len(Unsigned(packet)) /\ Len(Unsigned(packet)) \in Nat
      BY <1>2, OffsetAtTheEnds
    <2> QED
      BY <1>1, <1>2, <1>5, <2>1
  <1>7. k < n /\ k + 1 \in 0..n /\ k + 1 \in Nat
    BY <1>5, <1>6
  <1>8. ParamFromBytes(datagram, leng) = {x} /\ leng + ParamLength(x) = Offset(packet, k + 1)
    BY <1>2, <1>3, <1>5, <1>7, ParamRead
  <1>9. /\ received' = [received EXCEPT !.params = Append(@, x)]
        /\ leng' = leng + ParamLength(x) /\ phase' = phase
    BY <1>8 DEF ReadParam
  <1>10. Append(SubSeq(packet.params, 1, k), x) = SubSeq(packet.params, 1, k + 1)
    BY <1>4, <1>7, LongerPrefix
  <1>11. received' = [packet EXCEPT !.params = SubSeq(packet.params, 1, k + 1)]
    <2> DEFINE s == SubSeq(packet.params, 1, k)
               t == SubSeq(packet.params, 1, k + 1)
    <2>1. received = [packet EXCEPT !.params = s] /\ Append(s, x) = t
      BY <1>5, <1>10
    <2> HIDE DEF s, t, x
    <2>2. received' = [packet EXCEPT !.params = t]
      BY <1>2, <1>9, <2>1 DEF SentPackets, NewPacket
    <2> QED
      BY <2>2 DEF t
  <1>12. HasRead(k + 1)'
    BY <1>1, <1>7, <1>8, <1>9, <1>11 DEF HasRead
  <1>13. datagram' = Unsigned(packet') /\ \E j \in Nat : HasRead(j)'
    BY <1>1, <1>2, <1>7, <1>12
  <1> QED
    BY <1>1, <1>2, <1>9, <1>13 DEF PacketInv

LEMMA VerifyStep ==
    ASSUME PacketInv, Verify
    PROVE  PacketInv'
  <1>1. /\ phase = "params" /\ packet' = packet /\ received' = received /\ damaged' = damaged
        /\ Len(datagram) - leng = 0 /\ phase' = "done"
        /\ verdict' = IF received.type \in Authentic /\ ~VerifyCmac(received) THEN "forged" ELSE "accepted"
    BY DEF Verify
  <1>2. /\ packet \in SentPackets /\ (packet.type \in Authentic => HasMac(packet))
        /\ ~damaged /\ damaged \in BOOLEAN /\ datagram = Unsigned(packet)
    BY <1>1 DEF PacketInv
  <1>3. PICK k \in Nat : HasRead(k)
    BY <1>1 DEF PacketInv
  <1>4. packet.params \in Seq(SentParams)
    BY <1>2 DEF SentPackets, NewPacket
  <1> DEFINE n == Len(packet.params)
  <1>5. k \in 0..n /\ n \in Nat /\ leng = Offset(packet, k)
        /\ received = [packet EXCEPT !.params = SubSeq(packet.params, 1, k)]
    BY <1>3, <1>4, LenProperties DEF HasRead
  <1>6. k = n
    <2>1. CASE k < n
      BY <1>1, <1>2, <1>3, <1>5, <2>1, ParamRead
    <2> QED
      BY <1>5, <2>1
  <1>7. SubSeq(packet.params, 1, n) = packet.params
    BY <1>4, SubSeqFull
  <1>8. received = packet
    <2>1. received = [packet EXCEPT !.params = packet.params]
      BY <1>5, <1>6, <1>7
    <2> QED
      BY <1>2, <2>1 DEF SentPackets, NewPacket
  <1>9. verdict' = "accepted"
    <2>1. packet.type \in Authentic => VerifyCmac(packet)
      BY <1>2, MacFoundRight
    <2> QED
      BY <1>1, <1>8, <2>1
  <1> QED
    BY <1>1, <1>2, <1>8, <1>9 DEF PacketInv

LEMMA PacketInvStep ==
    ASSUME PacketInv, [PacketNext]_packetVars
    PROVE  PacketInv'
  <1>1. CASE UNCHANGED packetVars
    BY <1>1 DEF PacketInv, packetVars, IsDamaged, HasRead
  <1> QED
    BY <1>1, AddMacStep, SendStep, DamageStep, ReadHeaderStep, ReadParamStep, VerifyStep DEF PacketNext

\* Where one packet can be between the constructor that builds it and the handler
\* that gets it (MHipPacket::ToBytes, CHipPacketFactory::Create, FromBytes).
THEOREM PacketInvariant == PacketSpec => []PacketInv
  BY PacketInvInit, PacketInvStep, PTL DEF PacketSpec

\* A datagram with a byte changed, whichever byte and however, fails the checksum
\* in CHipPacketFactory::Create: no parameter of it is read.
THEOREM DamageIsRefused == PacketSpec => []DamageRefused
  <1>1. PacketInv => DamageRefused
    BY DEF PacketInv, DamageRefused
  <1> QED
    BY <1>1, PacketInvariant, PTL

\* An undamaged packet with parameters of any length is parsed to what was built,
\* and the MAC of an I2 or R2 is found right.
THEOREM ReceivedIsSent == PacketSpec => []ReceivedAsSent
  <1>1. PacketInv => ReceivedAsSent
    BY DEF PacketInv, ReceivedAsSent
  <1> QED
    BY <1>1, PacketInvariant, PTL
=============================================================================
