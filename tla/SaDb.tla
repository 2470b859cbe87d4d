-------------------------------- MODULE SaDb --------------------------------
(***************************************************************************)
(* The database of security associations (Csadb): a vector of pointers to  *)
(* entries, one per peer address.  The pool's handlers store, an initiator *)
(* removes, and the threads of the gateway look an entry up and go on to   *)
(* use it.  Each operation holds the mutex, but FindSA reads db[i] only    *)
(* after it has released it, and the pointer it returns is used with no    *)
(* protection at all.                                                      *)
(*                                                                         *)
(* A section under the mutex is one step.  The read of db[i] is two: the   *)
(* base of the vector's storage and then the element, which lies in memory *)
(* that has been freed if the vector has grown in between.                 *)
(***************************************************************************)
EXTENDS Naturals, Sequences

CONSTANTS Peer,   \* IP addresses of peers, rIP
          Entry,  \* heap addresses of entries
          Caller  \* threads that look entries up

VARIABLES db,        \* Csadb.db: addresses of entries
          size,      \* elements the storage of db has room for; it names the storage
          live,      \* allocated entries
          rIP,       \* CsadbEntry.rIP
          stage,     \* per caller: "idle", "found" (mutex released), "based", "have"
          arIP,      \* the peer whose entry it looks for
          index,     \* the index at which FindSA found it
          base,      \* the storage of db it reads from
          entry,     \* the pointer FindSA has returned
          disturbed  \* somebody has interfered with the search or the entry (history)

tableVars == <<db, size, live, rIP>>
searchVars == <<stage, arIP, index, base, entry>>
saVars == <<tableVars, searchVars, disturbed>>

SaTypeOK ==
    /\ db \in Seq(Entry)
    /\ size \in Nat
    /\ live \subseteq Entry
    /\ rIP \in [Entry -> Peer]
    /\ stage \in [Caller -> {"idle", "found", "based", "have"}]
    /\ arIP \in [Caller -> Peer]
    /\ index \in [Caller -> Nat \ {0}]
    /\ base \in [Caller -> Nat]
    /\ entry \in [Caller -> Entry]
    /\ disturbed \in [Caller -> BOOLEAN]

SaInit ==
    /\ db = <<>>
    /\ size = 0
    /\ live = {}
    /\ rIP \in [Entry -> Peer]
    /\ stage = [t \in Caller |-> "idle"]
    /\ arIP \in [Caller -> Peer]
    /\ index = [t \in Caller |-> 1]
    /\ base = [t \in Caller |-> 0]
    /\ entry \in [Caller -> Entry]
    /\ disturbed = [t \in Caller |-> FALSE]

\* The loops over db stop at the first entry of the peer.
IsFirst(k, p) ==
    /\ k \in DOMAIN db
    /\ rIP[db[k]] = p
    /\ \A j \in 1..(k - 1) : rIP[db[j]] # p

Unknown(p) == \A k \in DOMAIN db : rIP[db[k]] # p

\* db.erase: the elements after the k-th move down.
Erase(s, k) == [j \in 1..(Len(s) - 1) |-> IF j < k THEN s[j] ELSE s[j + 1]]

\* An erasure makes an index from there on name another element; a pointer to
\* the entry of p dangles.
Disturbing(k, p) ==
    disturbed' = [t \in Caller |->
        \/ disturbed[t]
        \/ stage[t] \in {"found", "based"} /\ k <= index[t]
        \/ stage[t] = "have" /\ arIP[t] = p]

\* Variant: the new entry goes to the front.
StoreNew_front(p) ==
    /\ Unknown(p)
    /\ \E a \in Entry \ live :
          /\ db' = <<a>> \o db
          /\ live' = live \cup {a}
          /\ rIP' = [rIP EXCEPT ![a] = p]
    /\ IF Len(db) < size THEN UNCHANGED <<size, disturbed>>
       ELSE /\ size' = IF size = 0 THEN 1 ELSE 2 * size
            /\ disturbed' = [t \in Caller |-> disturbed[t] \/ stage[t] = "based"]
    /\ UNCHANGED searchVars

\* StoreSA for a peer without an entry: push_back, which doubles a full storage
\* and moves the elements there.
StoreNew(p) ==
    /\ Unknown(p)
    /\ \E a \in Entry \ live :
          /\ db' = Append(db, a)
          /\ live' = live \cup {a}
          /\ rIP' = [rIP EXCEPT ![a] = p]
    /\ IF Len(db) < size THEN UNCHANGED <<size, disturbed>>
       ELSE /\ size' = IF size = 0 THEN 1 ELSE 2 * size
            /\ disturbed' = [t \in Caller |-> disturbed[t] \/ stage[t] = "based"]
    /\ UNCHANGED searchVars

\* StoreSA for a peer that has one: it is deleted and the new one goes to the
\* end, in memory that may be the same.
StoreAgain(p) ==
    \E k \in DOMAIN db :
        /\ IsFirst(k, p)
        /\ \E a \in Entry \ (live \ {db[k]}) :
              /\ db' = Append(Erase(db, k), a)
              /\ live' = (live \ {db[k]}) \cup {a}
              /\ rIP' = [rIP EXCEPT ![a] = p]
        /\ Disturbing(k, p)
        /\ UNCHANGED <<size, searchVars>>

\* Variant: the entry is deleted and stays in the vector.
RemoveSA_listed(p) ==
    \E k \in DOMAIN db :
        /\ IsFirst(k, p)
        /\ live' = live \ {db[k]}
        /\ Disturbing(k, p)
        /\ UNCHANGED <<db, size, rIP, searchVars>>

\* RemoveSA; it does nothing for a peer without an entry.
RemoveSA(p) ==
    \E k \in DOMAIN db :
        /\ IsFirst(k, p)
        /\ db' = Erase(db, k)
        /\ live' = live \ {db[k]}
        /\ Disturbing(k, p)
        /\ UNCHANGED <<size, rIP, searchVars>>

\* FindSA under the mutex; it returns NULL for a peer without an entry, and the
\* caller gives up.
FindSA(t, p) ==
    /\ stage[t] = "idle"
    /\ \E k \in DOMAIN db :
          /\ IsFirst(k, p)
          /\ index' = [index EXCEPT ![t] = k]
    /\ stage' = [stage EXCEPT ![t] = "found"]
    /\ arIP' = [arIP EXCEPT ![t] = p]
    /\ disturbed' = [disturbed EXCEPT ![t] = FALSE]
    /\ UNCHANGED <<tableVars, base, entry>>

\* return db[i], without the mutex.
ReadBase(t) ==
    /\ stage[t] = "found"
    /\ stage' = [stage EXCEPT ![t] = "based"]
    /\ base' = [base EXCEPT ![t] = size]
    /\ UNCHANGED <<tableVars, arIP, index, entry, disturbed>>

\* What is left behind the end of the vector, or in storage it has given up, is
\* any address.
Element(t) == IF base[t] = size /\ index[t] <= Len(db) THEN {db[index[t]]} ELSE Entry

ReadElement(t) ==
    /\ stage[t] = "based"
    /\ \E e \in Element(t) : entry' = [entry EXCEPT ![t] = e]
    /\ stage' = [stage EXCEPT ![t] = "have"]
    /\ UNCHANGED <<tableVars, arIP, index, base, disturbed>>

\* The caller has encrypted or decrypted with the entry as often as it wanted.
Finish(t) ==
    /\ stage[t] = "have"
    /\ stage' = [stage EXCEPT ![t] = "idle"]
    /\ UNCHANGED <<tableVars, arIP, index, base, entry, disturbed>>

Store(p) == StoreNew(p) \/ StoreAgain(p)
Search(t) == (\E p \in Peer : FindSA(t, p)) \/ ReadBase(t) \/ ReadElement(t) \/ Finish(t)

SaNext == (\E p \in Peer : Store(p) \/ RemoveSA(p)) \/ (\E t \in Caller : Search(t))

SaSpec == SaInit /\ [][SaNext]_saVars

-----------------------------------------------------------------------------
\* However stores, replacements and removals alternate, the database holds the
\* allocated entries, none is leaked or deleted while it is listed, and a peer
\* has at most one.
OneEntryPerPeer ==
    /\ live = {db[k] : k \in DOMAIN db}
    /\ \A j, k \in DOMAIN db : rIP[db[j]] = rIP[db[k]] => j = k

\* A caller uses the entry of its own peer, and one that is there, unless
\* between the release of the mutex and the read an entry at its index or
\* before was erased, or the vector grew between the two parts of the read, or
\* the peer's own entry was replaced or removed after the read.  Erasures
\* behind the index, other peers' new entries, and whatever happens to other
\* peers after the read are harmless.
UsesOwnEntry ==
    \A t \in Caller : stage[t] = "have" /\ ~disturbed[t] =>
        entry[t] \in live /\ rIP[entry[t]] = arIP[t]
=============================================================================
