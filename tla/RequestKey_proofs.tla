-------------------------- MODULE RequestKey_proofs --------------------------
(***************************************************************************)
(* The key of a request, for every node id and every number: two requests  *)
(* with the same key have the same node id and the same number.            *)
(*                                                                         *)
(* Digits is a recursive function, so first it is shown to satisfy its own *)
(* definition.  Induction is over sets of numbers: a set that is not empty *)
(* has a least element.                                                    *)
(***************************************************************************)
EXTENDS RequestKey, FiniteSetTheorems, SequenceTheorems, TLAPS

LEMMA LeastNumber ==
    ASSUME NEW S, S \subseteq Nat, S # {}
    PROVE  \E n \in S : \A k \in S : n <= k
  <1> DEFINE R == OpToRel(<, Nat)
  <1>1. IsWellFoundedOn(R, Nat)
    BY NatLessThanWellFounded
  <1>2. ASSUME NEW x \in Nat, NEW y \in Nat PROVE <<x, y>> \in R <=> x < y
    BY DEF OpToRel
  <1> HIDE DEF R
  <1>3. PICK n \in S : \A k \in S : ~(<<k, n>> \in R)
    BY <1>1, WFMin
  <1>4. ASSUME NEW k \in S PROVE n <= k
    <2>1. n \in Nat /\ k \in Nat
      OBVIOUS
    <2>2. ~(k < n)
      BY <1>2, <1>3, <2>1
    <2> QED
      BY <2>1, <2>2
  <1> QED
    BY <1>4

LEMMA SetInduction ==
    ASSUME NEW S, 0 \in S, \A n \in Nat : n \in S => n + 1 \in S
    PROVE  Nat \subseteq S
  <1> SUFFICES ASSUME Nat \ S # {} PROVE FALSE
    OBVIOUS
  <1>1. PICK n \in Nat \ S : \A k \in Nat \ S : n <= k
    BY LeastNumber
  <1>2. n # 0 /\ n - 1 \in Nat /\ n - 1 \in S
    BY <1>1
  <1> QED
    BY <1>1, <1>2

-----------------------------------------------------------------------------
(* The loop.  Its numbers come closer to zero, and end there.              *)

Upto(n) == (-n)..n
Character == 39..57

LEMMA Division ==
    ASSUME NEW m \in Int
    PROVE  /\ Quotient(m) \in Int /\ Remainder(m) \in -9..9
           /\ m = 10 * Quotient(m) + Remainder(m)
  <1>1. ASSUME m >= 0 PROVE m \div 10 \in Int /\ m - 10 * (m \div 10) \in 0..9
    BY <1>1
  <1>2. ASSUME m < 0 PROVE (-m) \div 10 \in Int /\ (-m) - 10 * ((-m) \div 10) \in 0..9
    BY <1>2
  <1> QED
    BY <1>1, <1>2 DEF Quotient, Remainder

LEMMA Closer ==
    ASSUME NEW n \in Nat, NEW m \in Upto(n + 1), m # 0
    PROVE  Quotient(m) \in Upto(n)
  <1>1. m \in Int
    BY DEF Upto
  <1>2. CASE m > 0
    BY <1>1, <1>2 DEF Upto, Quotient
  <1>3. CASE m < 0
    BY <1>1, <1>3 DEF Upto, Quotient
  <1> QED
    BY <1>1, <1>2, <1>3

Written(g, m) == IF m = 0 THEN <<>> ELSE Append(g[Quotient(m)], 48 + Remainder(m))

\* g is what the loop writes for the numbers up to n.
Writes(g, n) == g = [m \in Upto(n) |-> Written(g, m)]

LEMMA WritesOne == \A n \in Nat : \E g : Writes(g, n)
  <1> DEFINE S == {n \in Nat : \E g : Writes(g, n)}
  <1>1. 0 \in S
    <2> DEFINE g == [m \in Upto(0) |-> <<>>]
    <2>1. \A m \in Upto(0) : m = 0
      BY DEF Upto
    <2>2. Writes(g, 0)
      BY <2>1 DEF Writes, Written
    <2> QED
      BY <2>2
  <1>2. ASSUME NEW n \in Nat, n \in S PROVE n + 1 \in S
    <2>1. PICK g : Writes(g, n)
      BY <1>2
    <2> DEFINE h == [m \in Upto(n + 1) |-> Written(g, m)]
    <2>2. ASSUME NEW m \in Upto(n) PROVE g[m] = Written(g, m) /\ h[m] = Written(g, m)
      BY <2>1 DEF Writes, Upto
    <2>3. ASSUME NEW m \in Upto(n + 1), m # 0 PROVE h[Quotient(m)] = g[Quotient(m)]
      <3>1. Quotient(m) \in Upto(n)
        BY <2>3, Closer
      <3> QED
        BY <2>2, <3>1
    <2>4. ASSUME NEW m \in Upto(n + 1) PROVE h[m] = Written(g, m)
      OBVIOUS
    <2>5. DOMAIN h = Upto(n + 1) /\ h = [m \in Upto(n + 1) |-> h[m]]
      OBVIOUS
    <2> HIDE DEF h
    <2>6. ASSUME NEW m \in Upto(n + 1) PROVE Written(h, m) = h[m]
      BY <2>3, <2>4 DEF Written
    <2>7. Writes(h, n + 1)
      BY <2>5, <2>6 DEF Writes
    <2> QED
      BY <2>7
  <1> HIDE DEF S
  <1>3. Nat \subseteq S
    BY <1>1, <1>2, SetInduction
  <1> QED
    BY <1>3 DEF S

LEMMA WritesUnique ==
    ASSUME NEW n \in Nat, NEW k \in Nat, NEW g, NEW h, Writes(g, n), Writes(h, k), n <= k,
           NEW m \in Upto(n)
    PROVE  g[m] = h[m]
  <1> DEFINE S == {i \in Nat : \A j \in Upto(i) : j \in Upto(n) => g[j] = h[j]}
  <1>1. ASSUME NEW j \in Upto(n) PROVE g[j] = Written(g, j) /\ h[j] = Written(h, j)
    <2>1. j \in Upto(k)
      BY DEF Upto
    <2> QED
      BY <2>1 DEF Writes
  <1>2. 0 \in S
    <2>1. \A j \in Upto(0) : j = 0
      BY DEF Upto
    <2> QED
      BY <1>1, <2>1 DEF Written
  <1>3. ASSUME NEW i \in Nat, i \in S PROVE i + 1 \in S
    <2> SUFFICES ASSUME NEW j \in Upto(i + 1), j \in Upto(n), j # 0 PROVE g[j] = h[j]
      BY <1>1 DEF Written
    <2>1. Quotient(j) \in Upto(i) /\ Quotient(j) \in Upto(n)
      <3>1. n # 0 /\ j \in Upto((n - 1) + 1) /\ n - 1 \in Nat /\ j \in Int
        BY DEF Upto
      <3>2. Quotient(j) \in Upto(n - 1)
        BY <3>1, Closer
      <3>3. Upto(n - 1) \subseteq Upto(n)
        BY <3>1 DEF Upto
      <3>4. Quotient(j) \in Upto(i)
        BY Closer
      <3> QED
        BY <3>2, <3>3, <3>4
    <2>2. g[Quotient(j)] = h[Quotient(j)]
      BY <1>3, <2>1
    <2> QED
      BY <1>1, <2>2 DEF Written
  <1> HIDE DEF S
  <1>4. n \in S
    BY <1>2, <1>3, SetInduction
  <1> QED
    BY <1>4 DEF S

Magnitude(m) == IF m < 0 THEN -m ELSE m

LEMMA DigitsDef == Digits = [m \in Int |-> Written(Digits, m)]
  <1> DEFINE G(n) == CHOOSE g : Writes(g, n)
             f == [m \in Int |-> G(Magnitude(m))[m]]
  <1>1. ASSUME NEW n \in Nat PROVE Writes(G(n), n)
    BY WritesOne
  <1> HIDE DEF G
  <1>2. ASSUME NEW m \in Int PROVE f[m] = Written(f, m)
    <2> DEFINE n == Magnitude(m)
               q == Quotient(m)
    <2>1. n \in Nat /\ m \in Upto(n)
      BY DEF Magnitude, Upto
    <2>2. f[m] = Written(G(n), m)
      BY <1>1, <2>1 DEF Writes
    <2>3. ASSUME m # 0 PROVE G(n)[q] = f[q]
      <3>1. n - 1 \in Nat /\ m \in Upto((n - 1) + 1)
        BY <2>1, <2>3 DEF Magnitude, Upto
      <3>2. q \in Upto(n - 1) /\ q \in Int
        <4> HIDE DEF n
        <4> QED
          BY <2>3, <3>1, Closer DEF Upto
      <3>3. Magnitude(q) \in Nat /\ q \in Upto(Magnitude(q)) /\ Magnitude(q) <= n
        BY <2>1, <3>1, <3>2 DEF Magnitude, Upto
      <3>4. G(Magnitude(q))[q] = G(n)[q]
        BY <1>1, <2>1, <3>3, WritesUnique
      <3> QED
        BY <3>2, <3>4
    <2> QED
      BY <2>2, <2>3 DEF Written
  <1>3. f = [m \in Int |-> Written(f, m)]
    BY <1>2
  <1> HIDE DEF f
  <1>4. \E g : g = [m \in Int |-> Written(g, m)]
    BY <1>3
  <1>5. Digits = CHOOSE g : g = [m \in Int |-> Written(g, m)]
    BY DEF Digits, Written
  <1> QED
    BY <1>4, <1>5

\* Zero has no digits, and a number has one more than its quotient.
LEMMA DigitsOf ==
    /\ Digits[0] = <<>>
    /\ \A m \in Int \ {0} : Digits[m] = Append(Digits[Quotient(m)], 48 + Remainder(m))
  <1>1. ASSUME NEW m \in Int PROVE Digits[m] = Written(Digits, m)
    BY DigitsDef
  <1>2. ASSUME NEW m \in Int \ {0}
        PROVE  Digits[m] = Append(Digits[Quotient(m)], 48 + Remainder(m))
    BY <1>1, <1>2 DEF Written
  <1>3. Digits[0] = <<>>
    BY <1>1 DEF Written
  <1> QED
    BY <1>2, <1>3

LEMMA DigitIsCharacter == \A m \in Int : 48 + Remainder(m) \in Character
  <1> SUFFICES ASSUME NEW m \in Int PROVE 48 + Remainder(m) \in Character
    OBVIOUS
  <1>1. Remainder(m) \in -9..9
    BY Division
  <1> QED
    BY <1>1 DEF Character

\* The digits are characters, none of them the underscore.
LEMMA DigitsType == \A m \in Int : Digits[m] \in Seq(Character) /\ Digits[m] \in Seq(Int)
  <1> DEFINE S == {n \in Nat : \A k \in Upto(n) : Digits[k] \in Seq(Character) /\ Digits[k] \in Seq(Int)}
  <1>1. 0 \in S
    <2>1. \A k \in Upto(0) : k = 0
      BY DEF Upto
    <2>2. Digits[0] \in Seq(Character) /\ Digits[0] \in Seq(Int)
      BY DigitsOf
    <2> QED
      BY <2>1, <2>2
  <1>2. ASSUME NEW n \in Nat, n \in S PROVE n + 1 \in S
    <2> SUFFICES ASSUME NEW k \in Upto(n + 1), k # 0
                 PROVE  Digits[k] \in Seq(Character) /\ Digits[k] \in Seq(Int)
      BY <1>1 DEF Upto
    <2>1. k \in Int \ {0}
      BY DEF Upto
    <2>2. Quotient(k) \in Upto(n)
      BY Closer
    <2>3. Digits[Quotient(k)] \in Seq(Character) /\ Digits[Quotient(k)] \in Seq(Int)
      BY <1>2, <2>2
    <2>4. 48 + Remainder(k) \in Character /\ 48 + Remainder(k) \in Int
      BY <2>1, DigitIsCharacter DEF Character
    <2>5. Append(Digits[Quotient(k)], 48 + Remainder(k)) \in Seq(Character)
      BY <2>3, <2>4
    <2>6. Append(Digits[Quotient(k)], 48 + Remainder(k)) \in Seq(Int)
      BY <2>3, <2>4
    <2> QED
      BY <2>1, <2>5, <2>6, DigitsOf
  <1> HIDE DEF S
  <1>3. Nat \subseteq S
    BY <1>1, <1>2, SetInduction
  <1> SUFFICES ASSUME NEW m \in Int PROVE Digits[m] \in Seq(Character) /\ Digits[m] \in Seq(Int)
    OBVIOUS
  <1>4. Magnitude(m) \in S /\ m \in Upto(Magnitude(m))
    BY <1>3 DEF Magnitude, Upto
  <1> QED
    BY <1>4 DEF S

LEMMA AppendEqual ==
    ASSUME NEW S, NEW s \in Seq(S), NEW t \in Seq(S), NEW a \in S, NEW b \in S,
           Append(s, a) = Append(t, b)
    PROVE  s = t /\ a = b
  <1>1. Len(s) = Len(t)
    OBVIOUS
  <1>2. a = Append(s, a)[Len(s) + 1] /\ b = Append(t, b)[Len(t) + 1]
    OBVIOUS
  <1>3. \A i \in 1..Len(s) : s[i] = Append(s, a)[i] /\ t[i] = Append(t, b)[i]
    BY <1>1
  <1> QED
    BY <1>1, <1>2, <1>3, SeqEqual

\* A number can be read back from its digits.
LEMMA DigitsDiffer ==
    ASSUME NEW m \in Int, NEW k \in Int, Digits[m] = Digits[k]
    PROVE  m = k
  <1> DEFINE S == {n \in Nat : \A i \in Upto(n), j \in Int : Digits[i] = Digits[j] => i = j}
  <1>1. ASSUME NEW i \in Int \ {0}
        PROVE  /\ Digits[i] = Append(Digits[Quotient(i)], 48 + Remainder(i))
               /\ Digits[Quotient(i)] \in Seq(Character)
               /\ 48 + Remainder(i) \in Character
               /\ Digits[i] # <<>>
    <2>1. Digits[i] = Append(Digits[Quotient(i)], 48 + Remainder(i))
      BY DigitsOf
    <2>2. Digits[Quotient(i)] \in Seq(Character)
      BY Division, DigitsType
    <2>3. 48 + Remainder(i) \in Character
      BY DigitIsCharacter
    <2>4. Append(Digits[Quotient(i)], 48 + Remainder(i)) # <<>>
      BY <2>2, <2>3
    <2> QED
      BY <2>1, <2>2, <2>3, <2>4
  <1>2. Digits[0] = <<>>
    BY DigitsOf
  <1>3. 0 \in S
    <2>1. \A i \in Upto(0) : i = 0
      BY DEF Upto
    <2> QED
      BY <1>1, <1>2, <2>1
  <1>4. ASSUME NEW n \in Nat, n \in S PROVE n + 1 \in S
    <2> SUFFICES ASSUME NEW i \in Upto(n + 1), NEW j \in Int, Digits[i] = Digits[j]
                 PROVE  i = j
      OBVIOUS
    <2>1. i \in Int
      BY DEF Upto
    <2>2. CASE i = 0 \/ j = 0
      BY <1>1, <1>2, <2>1, <2>2
    <2>3. CASE i # 0 /\ j # 0
      <3> DEFINE s == Digits[Quotient(i)]
                 t == Digits[Quotient(j)]
                 a == 48 + Remainder(i)
                 b == 48 + Remainder(j)
      <3>a. /\ s \in Seq(Character) /\ t \in Seq(Character)
            /\ a \in Character /\ b \in Character /\ Append(s, a) = Append(t, b)
        BY <1>1, <2>1, <2>3
      <3> HIDE DEF s, t, a, b
      <3>b. s = t /\ a = b
        BY <3>a, AppendEqual
      <3>1. Digits[Quotient(i)] = Digits[Quotient(j)] /\ 48 + Remainder(i) = 48 + Remainder(j)
        BY <3>b DEF s, t, a, b
      <3>2. Quotient(i) \in Upto(n) /\ Quotient(j) \in Int
        BY <2>1, <2>3, Division, Closer
      <3>3. Quotient(i) = Quotient(j)
        BY <1>4, <3>1, <3>2
      <3>4. Remainder(i) = Remainder(j)
        <4>1. Remainder(i) \in Int /\ Remainder(j) \in Int
          BY <2>1, Division
        <4> QED
          BY <3>1, <4>1
      <3> QED
        BY <2>1, <3>3, <3>4, Division
    <2> QED
      BY <2>2, <2>3
  <1> HIDE DEF S
  <1>5. Magnitude(m) \in S /\ m \in Upto(Magnitude(m))
    BY <1>3, <1>4, SetInduction DEF Magnitude, Upto
  <1> QED
    BY <1>5 DEF S

-----------------------------------------------------------------------------
(* The key.  Its last underscore is the one between node id and digits.    *)

LEMMA Concatenation ==
    ASSUME NEW n \in Seq(Int), NEW d \in Seq(Int), NEW u \in Int
    PROVE  LET key == n \o <<u>> \o d IN
           /\ Len(key) = Len(n) + 1 + Len(d)
           /\ \A i \in 1..Len(n) : key[i] = n[i]
           /\ key[Len(n) + 1] = u
           /\ \A i \in 1..Len(d) : key[Len(n) + 1 + i] = d[i]
  <1> DEFINE p == Append(n, u)
  <1>1. /\ p \in Seq(Int) /\ Len(p) = Len(n) + 1 /\ p[Len(n) + 1] = u
        /\ \A i \in 1..Len(n) : p[i] = n[i]
    OBVIOUS
  <1>2. n \o <<u>> = p
    BY AppendIsConcat
  <1> HIDE DEF p
  <1>3. /\ Len(p \o d) = Len(p) + Len(d)
        /\ \A i \in 1..Len(p) + Len(d) :
              (p \o d)[i] = IF i <= Len(p) THEN p[i] ELSE d[i - Len(p)]
    BY <1>1, ConcatProperties
  <1> QED
    BY <1>1, <1>2, <1>3

\* Where the parts of a key are.
KeyParts(key, n, d) ==
    /\ Len(n) \in Nat /\ Len(d) \in Nat
    /\ Len(key) = Len(n) + 1 + Len(d)
    /\ \A i \in 1..Len(n) : key[i] = n[i]
    /\ key[Len(n) + 1] = Underscore
    /\ \A i \in 1..Len(d) : key[Len(n) + 1 + i] = d[i]

LEMMA KeyShape ==
    ASSUME NEW n \in Seq(Int), NEW m \in Int
    PROVE  KeyParts(get_request_key(n, m), n, Digits[m])
  <1> DEFINE d == Digits[m]
             key == get_request_key(n, m)
  <1>1. d \in Seq(Int) /\ Underscore \in Int
    BY DigitsType DEF Underscore
  <1>2. key = n \o <<Underscore>> \o d
    BY DEF get_request_key
  <1> HIDE DEF d, key
  <1>3. Len(n) \in Nat /\ Len(d) \in Nat
    BY <1>1
  <1>4. KeyParts(key, n, d)
    BY <1>1, <1>2, <1>3, Concatenation DEF KeyParts
  <1> QED
    BY <1>4 DEF d, key

\* The digits of one key are not longer than those of an equal one: its
\* underscore would be a digit of the other.
LEMMA DigitsNoLonger ==
    ASSUME NEW key, NEW n, NEW d \in Seq(Character), NEW n1, NEW d1,
           KeyParts(key, n, d), KeyParts(key, n1, d1)
    PROVE  Len(d) <= Len(d1)
  <1> SUFFICES ASSUME Len(d1) < Len(d) PROVE FALSE
    BY DEF KeyParts
  <1> DEFINE i == Len(d) - Len(d1)
  <1>1. i \in 1..Len(d) /\ Len(n) + 1 + i = Len(n1) + 1
    <2>1. Len(n) \in Nat /\ Len(d) \in Nat /\ Len(n1) \in Nat /\ Len(d1) \in Nat
      BY DEF KeyParts
    <2>2. Len(n) + 1 + Len(d) = Len(n1) + 1 + Len(d1)
      BY DEF KeyParts
    <2> QED
      BY <2>1, <2>2
  <1>2. key[Len(n) + 1 + i] = d[i]
    BY <1>1 DEF KeyParts
  <1>3. key[Len(n1) + 1] = 95
    BY DEF KeyParts, Underscore
  <1> HIDE DEF i
  <1>4. d[i] \in 39..57
    BY <1>1, ElementOfSeq DEF Character
  <1>5. d[i] = 95
    BY <1>1, <1>2, <1>3
  <1> QED
    BY <1>4, <1>5

\* get_request_key: requests of different nodes, or of different numbers, have
\* different keys, although node ids may hold underscores and digits, and the
\* digits of a negative number are characters of their own.
THEOREM KeyIdentifies ==
    ASSUME NEW n \in Seq(Int), NEW m \in Int, NEW n1 \in Seq(Int), NEW m1 \in Int,
           get_request_key(n, m) = get_request_key(n1, m1)
    PROVE  n = n1 /\ m = m1
  <1> DEFINE key == get_request_key(n, m)
             d == Digits[m]
             d1 == Digits[m1]
  <1>1. KeyParts(key, n, d)
    BY KeyShape
  <1>2. KeyParts(get_request_key(n1, m1), n1, d1)
    BY KeyShape
  <1>3. KeyParts(key, n1, d1)
    BY <1>2
  <1>4. d \in Seq(Character) /\ d1 \in Seq(Character)
    BY DigitsType
  <1> HIDE DEF key, d, d1
  <1>5. Len(d) <= Len(d1) /\ Len(d1) <= Len(d)
    BY <1>1, <1>3, <1>4, DigitsNoLonger
  <1>6. Len(d) = Len(d1) /\ Len(n) = Len(n1)
    BY <1>1, <1>3, <1>5 DEF KeyParts
  <1>7. n = n1
    BY <1>1, <1>3, <1>6, SeqEqual DEF KeyParts
  <1>8. \A i \in 1..Len(d) : d[i] = d1[i]
    BY <1>1, <1>3, <1>6 DEF KeyParts
  <1>9. d = d1
    BY <1>4, <1>6, <1>8, SeqEqual
  <1> QED
    BY <1>7, <1>9, DigitsDiffer DEF d, d1

\* KeysDiffer, which TLC evaluates for some node ids and numbers, holds for all.
THEOREM KeysOfRequestsDiffer ==
    ASSUME NEW nodeids, NEW numbers, IsFiniteSet(nodeids), IsFiniteSet(numbers),
           nodeids \subseteq Seq(Int), numbers \subseteq Int
    PROVE  KeysDiffer(nodeids, numbers)
  <1> DEFINE S == nodeids \X numbers
             T == {get_request_key(n, m) : n \in nodeids, m \in numbers}
             f == [p \in S |-> get_request_key(p[1], p[2])]
  <1>1. IsFiniteSet(S) /\ Cardinality(S) = Cardinality(nodeids) * Cardinality(numbers)
    BY FS_Product
  <1>2. f \in [S -> T]
    OBVIOUS
  <1>3. ASSUME NEW p \in nodeids \X numbers, NEW q \in nodeids \X numbers, f[p] = f[q]
        PROVE  p = q
    <2>1. p[1] \in nodeids /\ q[1] \in nodeids
      OBVIOUS
    <2>2. p[2] \in numbers /\ q[2] \in numbers
      OBVIOUS
    <2>3. p = <<p[1], p[2]>> /\ q = <<q[1], q[2]>>
      OBVIOUS
    <2>4. get_request_key(p[1], p[2]) = get_request_key(q[1], q[2])
      BY <1>3
    <2>5. p[1] \in Seq(Int) /\ q[1] \in Seq(Int) /\ p[2] \in Int /\ q[2] \in Int
      BY <2>1, <2>2
    <2>6. p[1] = q[1] /\ p[2] = q[2]
      BY <2>4, <2>5, KeyIdentifies
    <2> QED
      BY <2>3, <2>6
  <1>4. ASSUME NEW t \in T PROVE \E p \in S : f[p] = t
    <2>1. PICK n \in nodeids, m \in numbers : t = get_request_key(n, m)
      OBVIOUS
    <2>2. <<n, m>> \in S /\ f[<<n, m>>] = t
      BY <2>1
    <2> QED
      BY <2>2
  <1> HIDE DEF f, S, T
  <1>5. f \in Bijection(S, T)
    BY <1>2, <1>3, <1>4 DEF S, Bijection, Injection, Surjection, IsInjective
  <1>6. Cardinality(T) = Cardinality(S)
    BY <1>1, <1>5, FS_Bijection DEF ExistsBijection
  <1> QED
    BY <1>1, <1>6 DEF KeysDiffer, T
=============================================================================
