------------------------------ MODULE RequestKey ------------------------------
(***************************************************************************)
(* The key of a request in the tables of the gateway: the node id, an      *)
(* underscore and the digits of the message number.  A node id may hold    *)
(* underscores and digits itself, and the client chooses the number: it    *)
(* may be zero or negative.                                                *)
(***************************************************************************)
EXTENDS Integers, Sequences, FiniteSets

\* C divides towards zero; the remainder has the sign of the number.
Quotient(msgid) == IF msgid < 0 THEN -((-msgid) \div 10) ELSE msgid \div 10
Remainder(msgid) == msgid - 10 * Quotient(msgid)

\* Variant: the sign of a digit is dropped.
Digits_unsigned[msgid \in Int] ==
    IF msgid = 0 THEN <<>>
    ELSE LET r == Remainder(msgid)
         IN  Append(Digits_unsigned[Quotient(msgid)], 48 + (IF r < 0 THEN -r ELSE r))

\* No digit for zero; characters before "0" for the digits of a negative number.
Digits[msgid \in Int] ==
    IF msgid = 0 THEN <<>> ELSE Append(Digits[Quotient(msgid)], 48 + Remainder(msgid))

Underscore == 95

\* Variant: the digits lose their sign.
get_request_key_unsigned(nodeid, msgid) == nodeid \o <<Underscore>> \o Digits_unsigned[msgid]

get_request_key(nodeid, msgid) == nodeid \o <<Underscore>> \o Digits[msgid]

\* Requests of different nodes or numbers never share an entry: that is what
\* lets a confirmation find its own waiter by the key.
KeysDiffer(nodeids, numbers) ==
    Cardinality({get_request_key(n, m) : n \in nodeids, m \in numbers})
        = Cardinality(nodeids) * Cardinality(numbers)
=============================================================================
