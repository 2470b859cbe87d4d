-------------------------- MODULE MCSubscriptions --------------------------
(* Small instances of Subscriptions for TLC.                               *)
EXTENDS Subscriptions, TLC

CONSTANTS c1, c2, c3, k1, k2, k3, kauto

\* Clients with a node id, and so a key, of their own.
OwnKeys ==
    [c \in Conns |-> CASE c = c1 -> {k1} [] c = c2 -> {k2} [] c = c3 -> {k3}]
SharedKeys == [c \in Conns |-> {k1}]

\* The gateway's own unsubscribes carry a key no client uses.
SeparateAutoKey == [c \in Conns |-> kauto]

\* The SIB numbers its indications as the subscribe they belong to.
OwnIndKey == [c \in Conns |-> CHOOSE k \in KeysOf[c] : TRUE]

\* Addresses, ids and clients, each with the key it has, are only compared.
KeyOf == (c1 :> k1) @@ (c2 :> k2) @@ (c3 :> k3)
WithKeys(f) == f @@ [k \in {k1, k2, k3} |->
                        KeyOf[f[CHOOSE c \in DOMAIN KeyOf : KeyOf[c] = k]]]
Symmetry == {WithKeys(f) @@ g @@ h : f \in Permutations({c1, c2, c3}),
                g \in Permutations(Waiter), h \in Permutations(SubIds)}
=============================================================================
