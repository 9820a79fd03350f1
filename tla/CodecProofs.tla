------------------------------ MODULE CodecProofs ------------------------------
(***************************************************************************)
(* Proofs about Codec, for any payload lengths, texts, types, ports and    *)
(* datagrams: what is encoded is what is decoded, no buffer is left, and   *)
(* an unfilled buffer registers no node.                                   *)
(*                                                                         *)
(* The bits of a number and the number of bits are recursive functions.    *)
(* Facts about them are proved by induction in the form of a least         *)
(* counterexample, from the library's theorem that < is well-founded.      *)
(***************************************************************************)
EXTENDS Codec, SequenceTheorems, WellFoundedInduction, TLAPS

-----------------------------------------------------------------------------
(* A set of natural numbers has a least element. *)
LEMMA Least ==
  ASSUME NEW T \in SUBSET Nat, T # {}
  PROVE  \E x \in T : \A y \in T : x <= y
<1>1. PICK x \in T : \A y \in T : ~(<<y, x>> \in OpToRel(<, Nat))
  BY NatLessThanWellFounded, WFMin
<1>2. ASSUME NEW y \in T
      PROVE  x <= y
  <2>1. <<y, x>> \in Nat \X Nat /\ x \in Nat /\ y \in Nat
    OBVIOUS
  <2>2. y < x => <<y, x>> \in OpToRel(<, Nat)
    BY <2>1 DEF OpToRel
  <2>3. ~(y < x)
    BY <1>1, <2>2
  <2> QED BY <2>1, <2>3
<1> QED BY <1>1, <1>2

(* Induction along an interval. *)
LEMMA IntervalInduction ==
  ASSUME NEW N \in Nat, NEW P, 0 \in P,
         \A i \in 1..N : i - 1 \in P => i \in P
  PROVE  0..N \subseteq P
<1> SUFFICES ASSUME (0..N) \ P # {}
             PROVE  FALSE
  OBVIOUS
<1>1. PICK x \in (0..N) \ P : \A y \in (0..N) \ P : x <= y
  <2>1. (0..N) \ P \in SUBSET Nat
    OBVIOUS
  <2> QED BY <2>1, Least
<1>2. x \in 1..N /\ x - 1 \in 0..N /\ ~(x <= x - 1)
  BY <1>1
<1> QED BY <1>1, <1>2

(* f starts at a, and h leads from each value to the next. *)
Follows(f, n, a, h) == f[0] = a /\ \A i \in 1..n : f[i] = h[i][f[i - 1]]
Stays(f, n, a, h, S) ==
  f[0] = a /\ \A i \in 1..n : f[i - 1] \in S => f[i] = h[i][f[i - 1]]

(* A function is defined by its first value and how each follows from the  *)
(* one before, and its values are where the steps lead.                    *)
LEMMA BoundedRecursion ==
  ASSUME NEW N \in Nat, NEW S, NEW a \in S, NEW h \in [1..N -> [S -> S]]
  PROVE  /\ \E f \in [0..N -> S] : Follows(f, N, a, h)
         /\ \A f : Stays(f, N, a, h, S) => \A i \in 0..N : f[i] \in S
<1> USE DEF Follows, Stays
<1> DEFINE P == {n \in 0..N : \E f \in [0..n -> S] : Follows(f, n, a, h)}
<1>1. 0 \in P
  <2> DEFINE g == [i \in 0..0 |-> a]
  <2>1. g \in [0..0 -> S] /\ Follows(g, 0, a, h)
    OBVIOUS
  <2>2. 0 \in 0..N
    OBVIOUS
  <2> HIDE DEF g
  <2>3. \E f \in [0..0 -> S] : Follows(f, 0, a, h)
    BY <2>1
  <2> QED BY <2>2, <2>3
<1>2. ASSUME NEW n \in 1..N, n - 1 \in P
      PROVE  n \in P
  <2>1. PICK f \in [0..(n - 1) -> S] : Follows(f, n - 1, a, h)
    BY <1>2
  <2> DEFINE y == h[n][f[n - 1]]
             g == [i \in 0..n |-> IF i = n THEN y ELSE f[i]]
  <2>2. y \in S /\ \A i \in 0..(n - 1) : f[i] \in S
    OBVIOUS
  <2>3. /\ g \in [0..n -> S] /\ g[n] = y
        /\ \A i \in 0..(n - 1) : g[i] = f[i]
    <3> HIDE DEF y
    <3> QED BY <2>2
  <2> HIDE DEF g
  <2>4. g[0] = a
    BY <2>1, <2>3
  <2>5. ASSUME NEW i \in 1..n
        PROVE  g[i] = h[i][g[i - 1]]
    <3>1. g[i - 1] = f[i - 1]
      BY <2>3
    <3>2. CASE i = n
      BY <2>3, <3>1, <3>2
    <3>3. CASE i # n
      <4>1. i \in 1..(n - 1) /\ g[i] = f[i]
        BY <2>3, <3>3
      <4> QED BY <2>1, <3>1, <4>1
    <3> QED BY <3>2, <3>3
  <2>6. \E e \in [0..n -> S] : Follows(e, n, a, h)
    BY <2>3, <2>4, <2>5
  <2>7. n \in 0..N
    OBVIOUS
  <2> QED BY <2>6, <2>7
<1>3. N \in P
  <2>1. N \in 0..N
    OBVIOUS
  <2> HIDE DEF P
  <2> QED BY <1>1, <1>2, <2>1, IntervalInduction
<1>4. ASSUME NEW f, Stays(f, N, a, h, S)
      PROVE  \A i \in 0..N : f[i] \in S
  <2> DEFINE Q == {i \in 0..N : f[i] \in S}
  <2>1. 0 \in Q
    BY <1>4
  <2>2. ASSUME NEW i \in 1..N, i - 1 \in Q
        PROVE  i \in Q
    <3>1. f[i - 1] \in S /\ h[i] \in [S -> S]
      BY <2>2
    <3>2. f[i] = h[i][f[i - 1]] /\ h[i][f[i - 1]] \in S
      BY <1>4, <3>1
    <3>3. f[i] \in S /\ i \in 0..N
      BY <3>2
    <3> QED BY <3>3
  <2>3. 0..N \subseteq Q
    <3> HIDE DEF Q
    <3> QED BY <2>1, <2>2, IntervalInduction
  <2> QED BY <2>3
<1> QED BY <1>3, <1>4

-----------------------------------------------------------------------------
(* Shifting by one more bit halves once more. *)
LEMMA ShiftFacts ==
  ASSUME NEW v \in Nat
  PROVE  /\ ShiftRight(v, 0) = v
         /\ \A i \in 0..16 : ShiftRight(v, i) \in Nat
         /\ \A i \in 1..16 : ShiftRight(v, i) = ShiftRight(v, i - 1) \div 2
<1> DEFINE Halving(f) == [i \in 0..16 |-> IF i = 0 THEN v ELSE f[i - 1] \div 2]
           shifted == CHOOSE f : f = Halving(f)
           h == [i \in 1..16 |-> [x \in Nat |-> x \div 2]]
<1>1. h \in [1..16 -> [Nat -> Nat]]
  OBVIOUS
<1>2. \A i \in 1..16, x \in Nat : h[i][x] = x \div 2
  OBVIOUS
<1>3. \A i : ShiftRight(v, i) = shifted[i]
  BY DEF ShiftRight
<1> HIDE DEF h, shifted, Halving
<1>4. /\ \E f \in [0..16 -> Nat] : Follows(f, 16, v, h)
      /\ \A f : Stays(f, 16, v, h, Nat) => \A i \in 0..16 : f[i] \in Nat
  BY <1>1, BoundedRecursion
<1>5. PICK f \in [0..16 -> Nat] : Follows(f, 16, v, h)
  BY <1>4
<1>6. f = Halving(f)
  BY <1>2, <1>5 DEF Halving, Follows
<1>7. shifted = Halving(shifted)
  BY <1>6 DEF shifted
<1>8. /\ shifted[0] = v
      /\ \A i \in 1..16 : shifted[i] = shifted[i - 1] \div 2
  BY <1>7 DEF Halving
<1>9. \A i \in 0..16 : shifted[i] \in Nat
  BY <1>2, <1>4, <1>8 DEF Stays
<1> QED BY <1>3, <1>8, <1>9

(* Each bit doubles the number of the bits before it. *)
LEMMA NumberFacts ==
  ASSUME NEW n \in Nat, NEW bits \in [1..n -> {0, 1}]
  PROVE  \E value \in [0..n -> Nat] :
           /\ value[0] = 0
           /\ \A i \in 1..n : value[i] = 2 * value[i - 1] + bits[i]
           /\ Number(bits) = value[n]
<1> DEFINE Doubling(f) == [i \in 0..n |-> IF i = 0 THEN 0 ELSE 2 * f[i - 1] + bits[i]]
           value == CHOOSE f : f = Doubling(f)
           h == [i \in 1..n |-> [x \in Nat |-> 2 * x + bits[i]]]
<1>1. \A i \in 1..n : bits[i] \in Nat
  OBVIOUS
<1>2. \A i \in 1..n, x \in Nat : h[i][x] = 2 * x + bits[i]
  OBVIOUS
<1>3. h \in [1..n -> [Nat -> Nat]]
  BY <1>1
<1>4. Len(bits) = n
  <2>1. bits \in Seq({0, 1})
    OBVIOUS
  <2> QED BY <2>1
<1>5. Number(bits) = value[n]
  BY <1>4 DEF Number
<1> HIDE DEF h, value, Doubling
<1>6. /\ \E f \in [0..n -> Nat] : Follows(f, n, 0, h)
      /\ \A f : Stays(f, n, 0, h, Nat) => \A i \in 0..n : f[i] \in Nat
  <2>1. 0 \in Nat
    OBVIOUS
  <2> QED BY <1>3, <2>1, BoundedRecursion
<1>7. PICK f \in [0..n -> Nat] : Follows(f, n, 0, h)
  BY <1>6
<1>8. f = Doubling(f)
  <2>1. ASSUME NEW i \in 1..n
        PROVE  f[i] = 2 * f[i - 1] + bits[i]
    <3>1. f[i - 1] \in Nat /\ f[i] = h[i][f[i - 1]]
      BY <1>7 DEF Follows
    <3> QED BY <1>2, <3>1
  <2>2. f[0] = 0
    BY <1>7 DEF Follows
  <2> QED BY <2>1, <2>2 DEF Doubling
<1>9. value = Doubling(value)
  BY <1>8 DEF value
<1>10. /\ value[0] = 0
       /\ \A i \in 1..n : value[i] = 2 * value[i - 1] + bits[i]
  BY <1>9 DEF Doubling
<1>11. \A i \in 0..n : value[i] \in Nat
  BY <1>2, <1>6, <1>10 DEF Stays
<1>12. value \in [0..n -> Nat]
  <2>1. value = [i \in 0..n |-> value[i]]
    BY <1>9 DEF Doubling
  <2> QED BY <1>11, <2>1
<1> QED BY <1>5, <1>10, <1>12

(* A byte is made of eight bits. *)
Weighted(b1, b2, b3, b4, b5, b6, b7, b8) ==
  128 * b1 + 64 * b2 + 32 * b3 + 16 * b4 + 8 * b5 + 4 * b6 + 2 * b7 + b8

(* A byte, as the sum of its eight bits.                                   *)
LEMMA EightBits ==
  ASSUME NEW bits \in [1..8 -> {0, 1}]
  PROVE  /\ Number(bits) = Weighted(bits[1], bits[2], bits[3], bits[4],
                                    bits[5], bits[6], bits[7], bits[8])
         /\ Number(bits) \in Byte
<1>1. PICK value \in [0..8 -> Nat] :
        /\ value[0] = 0
        /\ \A i \in 1..8 : value[i] = 2 * value[i - 1] + bits[i]
        /\ Number(bits) = value[8]
  BY NumberFacts
<1>2. \A i \in 1..8 : bits[i] \in 0..1
  OBVIOUS
<1>3. /\ value[1] = bits[1] /\ value[2] = 2 * value[1] + bits[2]
      /\ value[3] = 2 * value[2] + bits[3] /\ value[4] = 2 * value[3] + bits[4]
      /\ value[5] = 2 * value[4] + bits[5] /\ value[6] = 2 * value[5] + bits[6]
      /\ value[7] = 2 * value[6] + bits[7] /\ value[8] = 2 * value[7] + bits[8]
  BY <1>1, <1>2
<1>4. /\ bits[1] \in 0..1 /\ bits[2] \in 0..1 /\ bits[3] \in 0..1 /\ bits[4] \in 0..1
      /\ bits[5] \in 0..1 /\ bits[6] \in 0..1 /\ bits[7] \in 0..1 /\ bits[8] \in 0..1
  BY <1>2
<1>5. Number(bits) = Weighted(bits[1], bits[2], bits[3], bits[4],
                              bits[5], bits[6], bits[7], bits[8])
  <2>1. ASSUME NEW b1 \in 0..1, NEW b2 \in 0..1, NEW b3 \in 0..1, NEW b4 \in 0..1,
               NEW b5 \in 0..1, NEW b6 \in 0..1, NEW b7 \in 0..1, NEW b8 \in 0..1
        PROVE  Weighted(b1, b2, b3, b4, b5, b6, b7, b8) =
               2 * (2 * (2 * (2 * (2 * (2 * (2 * b1 + b2) + b3) + b4) + b5) + b6) + b7) + b8
    BY DEF Weighted
  <2>2. Number(bits) =
        2 * (2 * (2 * (2 * (2 * (2 * (2 * bits[1] + bits[2]) + bits[3]) + bits[4])
          + bits[5]) + bits[6]) + bits[7]) + bits[8]
    BY <1>1, <1>3
  <2> QED BY <1>4, <2>1, <2>2
<1>6. Number(bits) \in 0..255
  BY <1>4, <1>5 DEF Weighted
<1> QED BY <1>5, <1>6 DEF Byte

(* Eight bits of a number make what is left of it by the other bits. *)
LEMMA LowByte ==
  ASSUME NEW v \in Nat, NEW bits, bits = [i \in 1..8 |-> ShiftRight(v, 8 - i) % 2]
  PROVE  /\ bits \in [1..8 -> {0, 1}]
         /\ v = 256 * ShiftRight(v, 8) + Number(bits)
<1> DEFINE s(i) == ShiftRight(v, i)
<1>1. s(0) = v /\ \A i \in 0..16 : s(i) \in Nat
  BY ShiftFacts
<1>2. \A i \in 1..16 : s(i) = s(i - 1) \div 2
  BY ShiftFacts
<1>3. /\ bits \in [1..8 -> {0, 1}]
      /\ \A i \in 1..8 : bits[i] = s(8 - i) % 2
  <2>1. \A i \in 1..8 : s(8 - i) % 2 \in {0, 1}
    <3>1. \A x \in Nat : x % 2 \in {0, 1}
      OBVIOUS
    <3> QED BY <1>1, <3>1
  <2>2. bits = [i \in 1..8 |-> s(8 - i) % 2]
    OBVIOUS
  <2> HIDE DEF s
  <2> QED BY <2>1, <2>2
<1> HIDE DEF s
<1>4. /\ s(1) = v \div 2 /\ s(2) = s(1) \div 2 /\ s(3) = s(2) \div 2 /\ s(4) = s(3) \div 2
      /\ s(5) = s(4) \div 2 /\ s(6) = s(5) \div 2 /\ s(7) = s(6) \div 2
      /\ s(8) = s(7) \div 2
  BY <1>1, <1>2
<1>5. /\ bits[1] = s(7) % 2 /\ bits[2] = s(6) % 2 /\ bits[3] = s(5) % 2
      /\ bits[4] = s(4) % 2 /\ bits[5] = s(3) % 2 /\ bits[6] = s(2) % 2
      /\ bits[7] = s(1) % 2 /\ bits[8] = v % 2
  BY <1>1, <1>3
<1>6. Number(bits) = Weighted(bits[1], bits[2], bits[3], bits[4],
                              bits[5], bits[6], bits[7], bits[8])
  BY <1>3, EightBits
<1>7. v = 256 * s(8) + Number(bits)
  <2> DEFINE H(a, b) == a = 2 * b + (a % 2) /\ a % 2 \in 0..1
  <2>1. \A a \in Nat : H(a, a \div 2)
    OBVIOUS
  <2>2. /\ s(1) \in Nat /\ s(2) \in Nat /\ s(3) \in Nat /\ s(4) \in Nat
        /\ s(5) \in Nat /\ s(6) \in Nat /\ s(7) \in Nat /\ s(8) \in Nat
    BY <1>1
  <2>3. /\ H(v, s(1)) /\ H(s(1), s(2)) /\ H(s(2), s(3)) /\ H(s(3), s(4))
        /\ H(s(4), s(5)) /\ H(s(5), s(6)) /\ H(s(6), s(7)) /\ H(s(7), s(8))
    <3> HIDE DEF H
    <3> QED BY <1>4, <2>1, <2>2
  <2>4. v = 256 * s(8) + Weighted(s(7) % 2, s(6) % 2, s(5) % 2, s(4) % 2, s(3) % 2,
                                  s(2) % 2, s(1) % 2, v % 2)
    <3>1. v = 16 * s(4) + 8 * (s(3) % 2) + 4 * (s(2) % 2) + 2 * (s(1) % 2) + (v % 2)
      BY <2>2, <2>3
    <3>2. s(4) = 16 * s(8) + 8 * (s(7) % 2) + 4 * (s(6) % 2) + 2 * (s(5) % 2) + (s(4) % 2)
      BY <2>2, <2>3
    <3>3. /\ v % 2 \in Nat /\ s(1) % 2 \in Nat /\ s(2) % 2 \in Nat /\ s(3) % 2 \in Nat
          /\ s(4) % 2 \in Nat /\ s(5) % 2 \in Nat /\ s(6) % 2 \in Nat /\ s(7) % 2 \in Nat
      BY <2>3
    <3> QED BY <2>2, <3>1, <3>2, <3>3 DEF Weighted
  <2> QED BY <1>5, <1>6, <2>4
<1> QED BY <1>3, <1>7 DEF s

(* The bits of a byte make the byte. *)
LEMMA ByteBits ==
  ASSUME NEW v \in Byte
  PROVE  /\ ValueBits(v, 8) \in [1..8 -> {0, 1}]
         /\ Number(ValueBits(v, 8)) = v
<1>1. v \in 0..255 /\ v \in Nat
  BY DEF Byte
<1>2. /\ ValueBits(v, 8) \in [1..8 -> {0, 1}]
      /\ v = 256 * ShiftRight(v, 8) + Number(ValueBits(v, 8))
  BY <1>1, LowByte DEF ValueBits
<1>3. Number(ValueBits(v, 8)) \in 0..255
  BY <1>2, EightBits DEF Byte
<1>4. ShiftRight(v, 8) \in Nat
  BY <1>1, ShiftFacts
<1> QED BY <1>1, <1>2, <1>3, <1>4

(* The bits of a uint16_t make two bytes, the higher one first. *)
LEMMA PortBits ==
  ASSUME NEW v \in Port
  PROVE  /\ ValueBits(v, 16) \in [1..16 -> {0, 1}]
         /\ Number([i \in 1..8 |-> ValueBits(v, 16)[i]]) = v \div 256
         /\ Number([i \in 1..8 |-> ValueBits(v, 16)[8 + i]]) = v % 256
<1> DEFINE bits == ValueBits(v, 16)
           lower == [i \in 1..8 |-> bits[8 + i]]
           upper == [i \in 1..8 |-> bits[i]]
           w == ShiftRight(v, 8)
<1>0. v \in Nat
  BY DEF Port
<1>1. /\ \A i \in 0..16 : ShiftRight(v, i) \in Nat
      /\ w \in Nat
  <2>1. \A i \in 0..16 : ShiftRight(v, i) \in Nat
    <3> HIDE DEF bits, lower, upper, w
    <3> QED BY <1>0, ShiftFacts
  <2> QED BY <2>1
<1>2. \A i \in 0..16 : ShiftRight(v, i) % 2 \in {0, 1}
  <2>1. \A x \in Nat : x % 2 \in {0, 1}
    OBVIOUS
  <2> HIDE DEF w
  <2> QED BY <1>1, <2>1
<1>3. bits \in [1..16 -> {0, 1}] /\ \A i \in 1..16 : bits[i] = ShiftRight(v, 16 - i) % 2
  <2>1. \A i \in 1..16 : ShiftRight(v, 16 - i) % 2 \in {0, 1}
    BY <1>2
  <2> QED BY <2>1 DEF ValueBits
<1> HIDE DEF bits, w
<1>4. v = 256 * w + Number(lower) /\ Number(lower) \in 0..255
  <2>1. lower = [i \in 1..8 |-> ShiftRight(v, 8 - i) % 2]
    <3>1. \A i \in 1..8 : bits[8 + i] = ShiftRight(v, 8 - i) % 2
      BY <1>3
    <3> QED BY <3>1
  <2> HIDE DEF lower
  <2>2. lower \in [1..8 -> {0, 1}] /\ v = 256 * w + Number(lower)
    BY <1>0, <2>1, LowByte DEF w
  <2> QED BY <2>2, EightBits DEF Byte
<1>5. w = v \div 256 /\ Number(lower) = v % 256 /\ w \in 0..255
  <2> DEFINE b == Number(lower)
  <2>1. v \in Nat /\ v <= 65535
    BY DEF Port
  <2>2. v = 256 * w + b /\ b \in 0..255
    BY <1>4
  <2> HIDE DEF b
  <2>3. w = v \div 256 /\ b = v % 256 /\ w \in 0..255
    BY <1>1, <2>1, <2>2
  <2> QED BY <2>3 DEF b
<1>6. \A k \in 0..8 : ShiftRight(w, k) = ShiftRight(v, 8 + k)
  <2> DEFINE P == {k \in 0..8 : ShiftRight(w, k) = ShiftRight(v, 8 + k)}
  <2>1. 0 \in P
    BY <1>0, <1>1, ShiftFacts DEF w
  <2>2. ASSUME NEW k \in 1..8, k - 1 \in P
        PROVE  k \in P
    <3>1. /\ ShiftRight(w, k) = ShiftRight(w, k - 1) \div 2
          /\ ShiftRight(v, 8 + k) = ShiftRight(v, 8 + (k - 1)) \div 2
      <4>1. k \in 1..16 /\ 8 + k \in 1..16 /\ (8 + k) - 1 = 8 + (k - 1)
        OBVIOUS
      <4>2. ShiftRight(w, k) = ShiftRight(w, k - 1) \div 2
        BY <1>1, <4>1, ShiftFacts
      <4>3. ShiftRight(v, 8 + k) = ShiftRight(v, (8 + k) - 1) \div 2
        BY <1>0, <4>1, ShiftFacts
      <4> QED BY <4>1, <4>2, <4>3
    <3> QED BY <2>2, <3>1
  <2>3. 0..8 \subseteq P
    <3> HIDE DEF P
    <3> QED BY <2>1, <2>2, IntervalInduction
  <2> QED BY <2>3
<1>7. Number(upper) = w
  <2>1. upper = ValueBits(w, 8)
    <3>1. \A i \in 1..8 : bits[i] = ShiftRight(w, 8 - i) % 2
      <4>1. \A i \in 1..8 : 8 - i \in 0..8 /\ 8 + (8 - i) = 16 - i /\ i \in 1..16
        OBVIOUS
      <4> QED BY <1>3, <1>6, <4>1
    <3> QED BY <3>1 DEF ValueBits
  <2>2. w \in Byte
    BY <1>5 DEF Byte
  <2> HIDE DEF upper
  <2>3. Number(ValueBits(w, 8)) = w
    BY <2>2, ByteBits
  <2> QED BY <2>1, <2>3
<1> QED BY <1>3, <1>5, <1>7 DEF bits

-----------------------------------------------------------------------------
(* The eight bits at a byte of a string are the bits of that byte. *)
LEMMA BitsOfString ==
  ASSUME NEW str, NEW j \in Nat \ {0}
  PROVE  \A i \in 1..8 : Bit(str, 8 * (j - 1) + i - 1) = ValueBits(str[j], 8)[i]
<1> SUFFICES ASSUME NEW i \in 1..8
             PROVE  Bit(str, 8 * (j - 1) + i - 1) = ValueBits(str[j], 8)[i]
  OBVIOUS
<1> DEFINE k == 8 * (j - 1) + i - 1
<1>1. k \div 8 + 1 = j /\ 7 - (k % 8) = 8 - i
  OBVIOUS
<1> HIDE DEF k
<1>2. Bit(str, k) = ShiftRight(str[j], 8 - i) % 2
  BY <1>1 DEF Bit
<1> QED BY <1>2 DEF k, ValueBits

(* Reading eight bits at a byte gives the byte. *)
LEMMA ReadByte ==
  ASSUME NEW str, NEW j \in Nat \ {0}, str[j] \in Byte
  PROVE  get_bits(str, 8 * (j - 1), 8) = str[j]
<1>1. [i \in 1..8 |-> Bit(str, 8 * (j - 1) + i - 1)] = ValueBits(str[j], 8)
  BY BitsOfString DEF ValueBits
<1>2. Number(ValueBits(str[j], 8)) = str[j]
  BY ByteBits
<1> QED BY <1>1, <1>2 DEF get_bits

(* bits are those of the bytes t. *)
Spells(bits, t) ==
  /\ t \in Seq(Byte)
  /\ bits \in [1..(8 * Len(t)) -> {0, 1}]
  /\ \A j \in 1..Len(t) : Number([i \in 1..8 |-> bits[8 * (j - 1) + i]]) = t[j]

(* A buffer of n bytes holds s, and the cursor stands behind it. *)
Holds(c, n, s) ==
  /\ s \in Seq(Byte) /\ n \in Nat /\ Len(s) <= n
  /\ c.buffer \in [1..n -> Byte]
  /\ c.offset = 8 * Len(s)
  /\ \A j \in 1..n : c.buffer[j] = IF j <= Len(s) THEN s[j] ELSE 0

(* Eight bits of a value spell one byte, which is the value.               *)
LEMMA SpellsByte ==
  ASSUME NEW v \in Byte
  PROVE  Spells(ValueBits(v, 8), <<v>>)
<1> DEFINE t == <<v>>
           bits == ValueBits(v, 8)
<1>1. t \in Seq(Byte) /\ Len(t) = 1 /\ t[1] = v
  OBVIOUS
<1>2. bits \in [1..8 -> {0, 1}] /\ Number(bits) = v
  BY ByteBits
<1> HIDE DEF t, bits
<1>3. [i \in 1..8 |-> bits[8 * (1 - 1) + i]] = bits
  BY <1>2
<1>4. Spells(bits, t)
  BY <1>1, <1>2, <1>3 DEF Spells
<1> QED BY <1>4 DEF t, bits

(* Sixteen bits of a port spell two bytes, the high one first.             *)
LEMMA SpellsPort ==
  ASSUME NEW v \in Port
  PROVE  Spells(ValueBits(v, 16), <<v \div 256, v % 256>>)
<1> DEFINE t == <<v \div 256, v % 256>>
           bits == ValueBits(v, 16)
<1>1. t \in Seq(Byte) /\ Len(t) = 2 /\ t[1] = v \div 256 /\ t[2] = v % 256
  <2>1. v \div 256 \in Byte /\ v % 256 \in Byte
    <3>1. v \in Nat /\ v <= 65535
      BY DEF Port
    <3>2. v \div 256 \in 0..255 /\ v % 256 \in 0..255
      BY <3>1
    <3> QED BY <3>2 DEF Byte
  <2> QED BY <2>1
<1>2. /\ bits \in [1..16 -> {0, 1}]
      /\ Number([i \in 1..8 |-> bits[i]]) = v \div 256
      /\ Number([i \in 1..8 |-> bits[8 + i]]) = v % 256
  BY PortBits
<1> HIDE DEF t, bits
<1>3. /\ [i \in 1..8 |-> bits[8 * (1 - 1) + i]] = [i \in 1..8 |-> bits[i]]
      /\ [i \in 1..8 |-> bits[8 * (2 - 1) + i]] = [i \in 1..8 |-> bits[8 + i]]
  OBVIOUS
<1>4. Spells(bits, t)
  <2>1. \A j \in 1..2 : j = 1 \/ j = 2
    OBVIOUS
  <2> QED BY <1>1, <1>2, <1>3, <2>1 DEF Spells
<1> QED BY <1>4 DEF t, bits

(* The bits of the first m characters of a string spell these characters.  *)
LEMMA SpellsString ==
  ASSUME NEW str \in Seq(Byte), NEW m \in 0..Len(str)
  PROVE  Spells(StringBits(str, m), SubSeq(str, 1, m))
<1> DEFINE t == SubSeq(str, 1, m)
           bits == StringBits(str, m)
<1>1. t \in Seq(Byte) /\ Len(t) = m /\ \A j \in 1..m : t[j] = str[j]
  OBVIOUS
<1>2. m \in Nat /\ \A j \in 1..m : str[j] \in Byte /\ j \in Nat \ {0}
  OBVIOUS
<1> HIDE DEF t
<1>3. ASSUME NEW k \in 1..(8 * m)
      PROVE  bits[k] \in {0, 1}
  <2> DEFINE j == (k - 1) \div 8 + 1
             i == ((k - 1) % 8) + 1
  <2>1. j \in 1..m /\ i \in 1..8 /\ 8 * (j - 1) + i - 1 = k - 1
    BY <1>2
  <2> HIDE DEF i, j
  <2>2. bits[k] = ValueBits(str[j], 8)[i]
    <3>1. bits[k] = Bit(str, k - 1)
      BY DEF StringBits
    <3>2. Bit(str, 8 * (j - 1) + i - 1) = ValueBits(str[j], 8)[i]
      BY <1>2, <2>1, BitsOfString
    <3> QED BY <2>1, <3>1, <3>2
  <2>3. ValueBits(str[j], 8)[i] \in {0, 1}
    <3>1. ValueBits(str[j], 8) \in [1..8 -> {0, 1}]
      BY <1>2, <2>1, ByteBits
    <3> QED BY <2>1, <3>1
  <2> QED BY <2>2, <2>3
<1>4. bits \in [1..(8 * m) -> {0, 1}]
  <2>1. bits = [k \in 1..(8 * m) |-> bits[k]]
    BY DEF StringBits
  <2> HIDE DEF bits
  <2> QED BY <1>3, <2>1
<1>5. ASSUME NEW j \in 1..m
      PROVE  Number([i \in 1..8 |-> bits[8 * (j - 1) + i]]) = t[j]
  <2>1. ASSUME NEW i \in 1..8
        PROVE  bits[8 * (j - 1) + i] = ValueBits(str[j], 8)[i]
    <3>1. 8 * (j - 1) + i \in 1..(8 * m)
      BY <1>2
    <3>2. bits[8 * (j - 1) + i] = Bit(str, 8 * (j - 1) + i - 1)
      BY <3>1 DEF StringBits
    <3> QED BY <1>2, <3>2, BitsOfString
  <2>2. ValueBits(str[j], 8) = [i \in 1..8 |-> ValueBits(str[j], 8)[i]]
    BY DEF ValueBits
  <2>3. [i \in 1..8 |-> bits[8 * (j - 1) + i]] = ValueBits(str[j], 8)
    <3> HIDE DEF bits
    <3> QED BY <2>1, <2>2
  <2>4. Number(ValueBits(str[j], 8)) = str[j]
    BY <1>2, ByteBits
  <2> QED BY <1>1, <2>3, <2>4
<1>6. Spells(bits, t)
  <2> HIDE DEF bits
  <2> QED BY <1>1, <1>4, <1>5 DEF Spells
<1> QED BY <1>6 DEF t

(* set_bits appends bytes to what the buffer holds, and touches no other.  *)
LEMMA SetBytes ==
  ASSUME NEW c, NEW n, NEW s, Holds(c, n, s),
         NEW bits, NEW t, Spells(bits, t), Len(s) + Len(t) <= n
  PROVE  Holds(set_bits(c, bits), n, s \o t)
<1> DEFINE k == Len(s)
           m == Len(t)
           u == s \o t
           end == c.offset + Len(bits)
           Written(x) == IF x \in c.offset..(end - 1) THEN bits[x - c.offset + 1] ELSE 0
           NewBit(x) == IF Bit(c.buffer, x) + Written(x) > 0 THEN 1 ELSE 0
           NewByte(j) == Number([i \in 1..8 |-> NewBit(8 * (j - 1) + i - 1)])
           Touched == (c.offset \div 8 + 1)..((end + 7) \div 8)
           r == set_bits(c, bits)
<1>1. /\ n \in Nat /\ k \in Nat /\ m \in Nat /\ s \in Seq(Byte) /\ t \in Seq(Byte)
      /\ k + m <= n /\ c.offset = 8 * k /\ c.buffer \in [1..n -> Byte]
  BY DEF Holds, Spells
<1>2. /\ u \in Seq(Byte) /\ Len(u) = k + m
      /\ \A j \in 1..k : u[j] = s[j]
      /\ \A j \in 1..m : u[k + j] = t[j]
  BY <1>1
<1>3. Len(bits) = 8 * m
  <2>1. bits \in [1..(8 * m) -> {0, 1}] /\ 8 * m \in Nat
    BY <1>1 DEF Spells
  <2>2. bits \in Seq({0, 1})
    BY <2>1
  <2> HIDE DEF m
  <2> QED BY <2>1, <2>2
<1>4. /\ r.buffer = [j \in 1..n |-> IF j \in Touched THEN NewByte(j) ELSE c.buffer[j]]
      /\ r.offset = end
  <2>1. DOMAIN c.buffer = 1..n
    BY <1>1, SMTT(30)
  <2>2. r = [buffer |-> [j \in DOMAIN c.buffer |->
                           IF j \in Touched THEN NewByte(j) ELSE c.buffer[j]],
             offset |-> end]
    BY ZenonT(60) DEF set_bits
  <2> HIDE DEF r, Touched, NewByte, end
  <2> QED BY <2>1, <2>2
<1> HIDE DEF r, u
<1>5. end = 8 * (k + m) /\ Touched = (k + 1)..(k + m)
  <2> HIDE DEF k, m
  <2>1. end = 8 * (k + m)
    BY <1>1, <1>3
  <2>2. c.offset \div 8 + 1 = k + 1 /\ (end + 7) \div 8 = k + m
    <3> HIDE DEF end
    <3> QED BY <1>1, <2>1
  <2> QED BY <2>1, <2>2
<1>6. ASSUME NEW j \in 1..m
      PROVE  NewByte(k + j) = t[j]
  <2>1. ASSUME NEW i \in 1..8
        PROVE  NewBit(8 * (k + j - 1) + i - 1) = bits[8 * (j - 1) + i]
    <3> DEFINE x == 8 * (k + j - 1) + i - 1
    <3>1. /\ x \in c.offset..(end - 1) /\ x - c.offset + 1 = 8 * (j - 1) + i
          /\ 8 * (j - 1) + i \in 1..(8 * m) /\ k + j \in Nat \ {0} /\ k + j \in 1..n
      <4> HIDE DEF k, m, end
      <4> QED BY <1>1, <1>5
    <3>2. c.buffer[k + j] = 0
      <4> HIDE DEF m
      <4> QED BY <1>1, <3>1 DEF Holds
    <3>3. Bit(c.buffer, x) = 0
      <4>1. Bit(c.buffer, x) = ValueBits(0, 8)[i]
        <5> DEFINE l == k + j
        <5>1. l \in Nat \ {0} /\ c.buffer[l] = 0 /\ x = 8 * (l - 1) + i - 1
          BY <3>1, <3>2
        <5> HIDE DEF l, x
        <5>2. l \in Nat \ {0}
          BY <5>1
        <5>3. Bit(c.buffer, 8 * (l - 1) + i - 1) = ValueBits(c.buffer[l], 8)[i]
          BY <5>2, BitsOfString
        <5> QED BY <5>1, <5>3
      <4>2. ShiftRight(0, 8 - i) = 0
        <5> DEFINE P == {e \in 0..8 : ShiftRight(0, e) = 0}
        <5>1. 0 \in P
          BY ShiftFacts
        <5>2. ASSUME NEW e \in 1..8, e - 1 \in P
              PROVE  e \in P
          <6>1. e \in 1..16 /\ 0 \in Nat
            OBVIOUS
          <6>2. ShiftRight(0, e) = ShiftRight(0, e - 1) \div 2
            BY <6>1, ShiftFacts
          <6> QED BY <5>2, <6>2
        <5>3. 0..8 \subseteq P
          <6> HIDE DEF P
          <6> QED BY <5>1, <5>2, IntervalInduction
        <5>4. 8 - i \in 0..8
          OBVIOUS
        <5> QED BY <5>3, <5>4
      <4> QED BY <4>1, <4>2 DEF ValueBits
    <3>4. bits[8 * (j - 1) + i] \in {0, 1}
      BY <3>1 DEF Spells
    <3>5. Written(x) = bits[8 * (j - 1) + i]
      <4> HIDE DEF x, end
      <4> QED BY <3>1
    <3> HIDE DEF x, Written
    <3> QED BY <3>3, <3>4, <3>5 DEF x
  <2>2. [i \in 1..8 |-> NewBit(8 * (k + j - 1) + i - 1)] = [i \in 1..8 |-> bits[8 * (j - 1) + i]]
    <3> HIDE DEF NewBit
    <3> QED BY <2>1
  <2>3. Number([i \in 1..8 |-> bits[8 * (j - 1) + i]]) = t[j]
    BY DEF Spells
  <2> DEFINE l == k + j
             w == [i \in 1..8 |-> bits[8 * (j - 1) + i]]
  <2> HIDE DEF NewBit
  <2>4. NewByte(l) = Number([i \in 1..8 |-> NewBit(8 * (l - 1) + i - 1)])
    OBVIOUS
  <2>5. [i \in 1..8 |-> NewBit(8 * (l - 1) + i - 1)] = w
    BY <2>2
  <2>6. Number(w) = t[j]
    BY <2>3
  <2> HIDE DEF w, NewByte
  <2> QED BY <2>4, <2>5, <2>6
<1> HIDE DEF NewByte, Touched, end
<1>7. ASSUME NEW j \in 1..n
      PROVE  r.buffer[j] = IF j <= Len(u) THEN u[j] ELSE 0
  <2>0. r.buffer[j] = IF j \in (k + 1)..(k + m) THEN NewByte(j) ELSE c.buffer[j]
    BY <1>4, <1>5
  <2>1. CASE j <= k
    <3>1. j \in 1..k /\ j \notin (k + 1)..(k + m) /\ j <= k + m
      BY <1>1, <2>1
    <3>2. c.buffer[j] = s[j]
      BY <3>1 DEF Holds
    <3> QED BY <1>2, <2>0, <3>1, <3>2
  <2>2. CASE j > k /\ j <= k + m
    <3>1. j - k \in 1..m /\ k + (j - k) = j /\ j \in (k + 1)..(k + m)
      BY <1>1, <2>2
    <3>2. NewByte(j) = t[j - k] /\ u[j] = t[j - k]
      BY <1>2, <1>6, <3>1
    <3> QED BY <1>2, <2>0, <2>2, <3>1, <3>2
  <2>3. CASE j > k + m
    <3>1. j \notin (k + 1)..(k + m) /\ ~(j <= k) /\ ~(j <= k + m)
      BY <1>1, <2>3
    <3>2. c.buffer[j] = 0
      BY <3>1 DEF Holds
    <3> QED BY <1>2, <2>0, <3>1, <3>2
  <2> QED BY <1>1, <2>1, <2>2, <2>3
<1>8. r.buffer \in [1..n -> Byte]
  <2>1. \A j \in 1..n : r.buffer[j] \in Byte
    <3>1. ASSUME NEW j \in 1..n
          PROVE  r.buffer[j] \in Byte
      <4>1. CASE j <= Len(u)
        <5>1. j \in 1..Len(u)
          BY <1>1, <1>2, <4>1
        <5>2. u[j] \in Byte
          BY <1>2, <5>1
        <5> QED BY <1>7, <4>1, <5>2
      <4>2. CASE ~(j <= Len(u))
        <5>1. r.buffer[j] = 0
          BY <1>7, <4>2
        <5> QED BY <5>1 DEF Byte
      <4> QED BY <4>1, <4>2
    <3> QED BY <3>1
  <2>2. r.buffer = [j \in 1..n |-> r.buffer[j]]
    BY <1>4
  <2> QED BY <2>1, <2>2
<1>9. r.offset = 8 * Len(u) /\ Len(u) <= n
  BY <1>1, <1>2, <1>4, <1>5
<1>10. Holds(r, n, u)
  BY <1>1, <1>2, <1>7, <1>8, <1>9 DEF Holds
<1> QED BY <1>10 DEF r, u

-----------------------------------------------------------------------------
(* UpToNull stops at the first null, or at the end. *)
LEMMA UpToNullFacts ==
  ASSUME NEW str \in Seq(Byte)
  PROVE  \E k \in 0..Len(str) :
           /\ UpToNull(str) = SubSeq(str, 1, k)
           /\ \A i \in 1..k : str[i] # 0
           /\ k < Len(str) => str[k + 1] = 0
<1> DEFINE ended == Append(str, 0)
           nulls == {i \in 1..Len(ended) : ended[i] = 0}
           first == CHOOSE x \in nulls : \A y \in nulls : x <= y
<1>1. /\ Len(str) \in Nat /\ Len(ended) = Len(str) + 1 /\ ended[Len(str) + 1] = 0
      /\ \A i \in 1..Len(str) : ended[i] = str[i]
  OBVIOUS
<1>2. UpToNull(str) = SubSeq(str, 1, (IF nulls # {} THEN first ELSE 0) - 1)
  BY DEF UpToNull, SelectInSeq, Min
<1> HIDE DEF ended
<1>3. nulls # {} /\ nulls \in SUBSET Nat
  <2>1. Len(str) + 1 \in nulls
    BY <1>1
  <2> QED BY <2>1
<1>4. \E x \in nulls : \A y \in nulls : x <= y
  <2> HIDE DEF nulls
  <2> QED BY <1>3, Least
<1>5. first \in nulls /\ \A y \in nulls : first <= y
  <2> HIDE DEF nulls
  <2> QED BY <1>4
<1> HIDE DEF first
<1>6. first - 1 \in 0..Len(str)
  BY <1>1, <1>5
<1>7. \A i \in 1..(first - 1) : str[i] # 0
  <2> SUFFICES ASSUME NEW i \in 1..(first - 1), str[i] = 0
               PROVE  FALSE
    OBVIOUS
  <2>1. i \in 1..Len(str) /\ i \in 1..Len(ended) /\ ~(first <= i)
    BY <1>1, <1>5, <1>6
  <2>2. i \in nulls
    BY <1>1, <2>1
  <2> QED BY <1>5, <2>1, <2>2
<1>8. first - 1 < Len(str) => str[(first - 1) + 1] = 0
  BY <1>1, <1>5, <1>6
<1> HIDE DEF nulls
<1> QED BY <1>2, <1>3, <1>6, <1>7, <1>8

(* Bytes after the first null do not count. *)
LEMMA UpToNullPadded ==
  ASSUME NEW s \in Seq(Byte), NEW t \in Seq(Byte), Len(s) <= Len(t),
         \A i \in 1..Len(t) : t[i] = IF i <= Len(s) THEN s[i] ELSE 0
  PROVE  UpToNull(t) = UpToNull(s)
<1>1. PICK k \in 0..Len(s) : /\ UpToNull(s) = SubSeq(s, 1, k)
                             /\ \A i \in 1..k : s[i] # 0
                             /\ k < Len(s) => s[k + 1] = 0
  BY UpToNullFacts
<1>2. PICK l \in 0..Len(t) : /\ UpToNull(t) = SubSeq(t, 1, l)
                             /\ \A i \in 1..l : t[i] # 0
                             /\ l < Len(t) => t[l + 1] = 0
  BY UpToNullFacts
<1>3. Len(s) \in Nat /\ Len(t) \in Nat /\ k \in Nat /\ l \in Nat
  OBVIOUS
<1>4. ~(l < k)
  <2> SUFFICES ASSUME l < k
               PROVE  FALSE
    OBVIOUS
  <2>1. l + 1 \in 1..k /\ l + 1 \in 1..Len(t) /\ l < Len(t) /\ l + 1 <= Len(s)
    BY <1>3
  <2> QED BY <1>1, <1>2, <2>1
<1>5. ~(k < l)
  <2> SUFFICES ASSUME k < l
               PROVE  FALSE
    OBVIOUS
  <2>1. k + 1 \in 1..l /\ k + 1 \in 1..Len(t)
    BY <1>3
  <2>2. t[k + 1] = 0
    <3>1. CASE k < Len(s)
      BY <1>1, <1>3, <2>1, <3>1
    <3>2. CASE ~(k < Len(s))
      <4>1. ~(k + 1 <= Len(s))
        BY <1>3, <3>2
      <4> QED BY <2>1, <4>1
    <3> QED BY <3>1, <3>2
  <2> QED BY <1>2, <2>1, <2>2
<1>6. k = l
  BY <1>3, <1>4, <1>5
<1>7. SubSeq(t, 1, k) = SubSeq(s, 1, k)
  <2>1. \A i \in 1..k : t[i] = s[i]
    BY <1>3
  <2>2. k <= Len(t)
    BY <1>3
  <2> QED BY <2>1, <2>2
<1> QED BY <1>1, <1>2, <1>6, <1>7

(* What UpToNull leaves is a string, and has no null. *)
LEMMA UpToNullTwice ==
  ASSUME NEW s \in Seq(Byte)
  PROVE  UpToNull(s) \in Seq(Byte) /\ UpToNull(UpToNull(s)) = UpToNull(s)
<1>1. PICK k \in 0..Len(s) : /\ UpToNull(s) = SubSeq(s, 1, k)
                             /\ \A i \in 1..k : s[i] # 0
  BY UpToNullFacts
<1> DEFINE t == SubSeq(s, 1, k)
<1>2. t \in Seq(Byte) /\ Len(t) = k /\ \A i \in 1..k : t[i] = s[i]
  OBVIOUS
<1> HIDE DEF t
<1>3. PICK l \in 0..Len(t) : /\ UpToNull(t) = SubSeq(t, 1, l)
                             /\ l < Len(t) => t[l + 1] = 0
  BY <1>2, UpToNullFacts
<1>4. l = k
  <2> SUFFICES ASSUME l # k
               PROVE  FALSE
    OBVIOUS
  <2>1. l < Len(t) /\ l + 1 \in 1..k
    BY <1>2
  <2> QED BY <1>1, <1>2, <1>3, <2>1
<1>5. SubSeq(t, 1, k) = t
  BY <1>2
<1> QED BY <1>1, <1>2, <1>3, <1>4, <1>5 DEF t

-----------------------------------------------------------------------------
(* The packets of the manager, with an uint16_t for a port. *)
IsPing(p) ==
  /\ p.type = PING /\ p.payloadLengh = PING_PLAYLOADLENGTH
  /\ p.message \in Seq(Byte)
IsNotify(p) ==
  /\ p.type = NOTIFY /\ p.payloadLengh = NOTIFY_PLAYLOADLENGTH
  /\ p.message \in Seq(Byte) /\ p.typeNode \in Byte
  /\ p.port \in Port
  /\ p.portNodeNotify = SinPort(p.port) /\ p.stateNodeNotify = TIMEOUT

(* The bytes of a header, and those of a packet without the nulls.         *)
HeaderBytes(p) ==
  IF p.type = NOTIFY
  THEN <<p.type, p.payloadLengh, p.typeNode, p.portNodeNotify \div 256,
         p.portNodeNotify % 256, p.stateNodeNotify>>
  ELSE <<p.type, p.payloadLengh>>

Text(p) ==
  SubSeq(p.message, 1,
         Fitting(Len(p.message), p.payloadLengh - Len(HeaderBytes(p))))

Bytes(p) == HeaderBytes(p) \o Text(p)

(* The port's bytes change places. *)
Swaps(port, sinPort) ==
  /\ sinPort \in Port
  /\ sinPort \div 256 = port % 256
  /\ sinPort % 256 = port \div 256
  /\ port % 256 \in Byte /\ port \div 256 \in Byte
  /\ (port % 256) + 256 * (port \div 256) = port

(* sin_port read as a number has the bytes of the port, swapped.           *)
LEMMA PortSwapped ==
  ASSUME NEW port \in Port
  PROVE  Swaps(port, SinPort(port))
<1>0. port \in Nat /\ port <= 65535
  BY DEF Port
<1>1. port % 256 \in 0..255 /\ port \div 256 \in 0..255
  BY <1>0
<1>2. (port % 256) + 256 * (port \div 256) = port
  BY <1>0
<1> DEFINE a == port % 256
           b == port \div 256
<1>3. a \in 0..255 /\ b \in 0..255 /\ a \in Byte /\ b \in Byte
  BY <1>1 DEF Byte
<1>4. SinPort(port) = 256 * a + b /\ a + 256 * b = port
  BY <1>2 DEF SinPort
<1> HIDE DEF a, b
<1>5. SinPort(port) \in Nat /\ SinPort(port) <= 65535
  BY <1>3, <1>4
<1>6. SinPort(port) \div 256 = a /\ SinPort(port) % 256 = b
  BY <1>3, <1>4
<1>7. SinPort(port) \in Port
  BY <1>5 DEF Port
<1> QED BY <1>3, <1>4, <1>6, <1>7 DEF Swaps, a, b

(* One more field of the header. *)
LEMMA FieldAppended ==
  ASSUME NEW c, NEW n, NEW s, Holds(c, n, s), NEW bits, NEW t, Spells(bits, t),
         NEW w, s \o t = w, NEW k, k = Len(w), k <= n
  PROVE  Holds(set_bits(c, bits), n, w)
<1>1. s \in Seq(Byte) /\ t \in Seq(Byte)
  BY DEF Holds, Spells
<1>2. Len(s) + Len(t) = k
  BY <1>1
<1> QED BY <1>2, SetBytes

(* How to recognise a concatenation. *)
LEMMA Joined ==
  ASSUME NEW S, NEW s \in Seq(S), NEW t \in Seq(S), NEW w \in Seq(S),
         Len(w) = Len(s) + Len(t),
         \A i \in 1..Len(s) : w[i] = s[i], \A i \in 1..Len(t) : w[Len(s) + i] = t[i]
  PROVE  s \o t = w
<1>1. Len(s) \in Nat /\ Len(t) \in Nat /\ Len(s \o t) = Len(s) + Len(t) /\ s \o t \in Seq(S)
  OBVIOUS
<1>2. ASSUME NEW i \in 1..(Len(s) + Len(t))
      PROVE  (s \o t)[i] = w[i]
  <2>1. (s \o t)[i] = IF i <= Len(s) THEN s[i] ELSE t[i - Len(s)]
    BY ConcatProperties
  <2>2. CASE i <= Len(s)
    BY <1>1, <2>1, <2>2
  <2>3. CASE ~(i <= Len(s))
    <3>1. i - Len(s) \in 1..Len(t) /\ Len(s) + (i - Len(s)) = i
      BY <1>1, <2>3
    <3> QED BY <2>1, <2>3, <3>1
  <2> QED BY <2>2, <2>3
<1> QED BY <1>1, <1>2, SeqEqual

(* The header is put together from these pieces. *)
Pieces(b1, b2, b3, b4, b5, b6) ==
  /\ <<b1>> \o <<b2>> = <<b1, b2>>
  /\ <<b1, b2>> \o <<b3>> = <<b1, b2, b3>>
  /\ <<b1, b2, b3>> \o <<b4, b5>> = <<b1, b2, b3, b4, b5>>
  /\ <<b1, b2, b3, b4, b5>> \o <<b6>> = <<b1, b2, b3, b4, b5, b6>>

(* The header, byte after byte.                                            *)
LEMMA HeaderPieces ==
  ASSUME NEW b1 \in Byte, NEW b2 \in Byte, NEW b3 \in Byte,
         NEW b4 \in Byte, NEW b5 \in Byte, NEW b6 \in Byte
  PROVE  Pieces(b1, b2, b3, b4, b5, b6)
<1>1. <<b1>> \o <<b2>> = <<b1, b2>>
  <2> DEFINE u == <<b1>>
             v == <<b2>>
             w == <<b1, b2>>
  <2>1. /\ u \in Seq(Byte) /\ v \in Seq(Byte) /\ w \in Seq(Byte)
        /\ Len(u) = 1 /\ Len(v) = 1 /\ Len(w) = 2
    OBVIOUS
  <2>2. /\ \A i \in 1..1 : i = 1
        /\ \A i \in 1..1 : i = 1
    OBVIOUS
  <2>3. (\A i \in 1..1 : w[i] = u[i]) /\ (\A i \in 1..1 : w[1 + i] = v[i])
    BY <2>2
  <2> HIDE DEF u, v, w
  <2>4. /\ Len(w) = Len(u) + Len(v)
        /\ \A i \in 1..Len(u) : w[i] = u[i]
        /\ \A i \in 1..Len(v) : w[Len(u) + i] = v[i]
    BY <2>1, <2>3
  <2>5. u \o v = w
    BY <2>1, <2>4, Joined
  <2> QED BY <2>5 DEF u, v, w
<1>2. <<b1, b2>> \o <<b3>> = <<b1, b2, b3>>
  <2> DEFINE u == <<b1, b2>>
             v == <<b3>>
             w == <<b1, b2, b3>>
  <2>1. /\ u \in Seq(Byte) /\ v \in Seq(Byte) /\ w \in Seq(Byte)
        /\ Len(u) = 2 /\ Len(v) = 1 /\ Len(w) = 3
    OBVIOUS
  <2>2. /\ \A i \in 1..2 : i = 1 \/ i = 2
        /\ \A i \in 1..1 : i = 1
    OBVIOUS
  <2>3. (\A i \in 1..2 : w[i] = u[i]) /\ (\A i \in 1..1 : w[2 + i] = v[i])
    BY <2>2
  <2> HIDE DEF u, v, w
  <2>4. /\ Len(w) = Len(u) + Len(v)
        /\ \A i \in 1..Len(u) : w[i] = u[i]
        /\ \A i \in 1..Len(v) : w[Len(u) + i] = v[i]
    BY <2>1, <2>3
  <2>5. u \o v = w
    BY <2>1, <2>4, Joined
  <2> QED BY <2>5 DEF u, v, w
<1>3. <<b1, b2, b3>> \o <<b4, b5>> = <<b1, b2, b3, b4, b5>>
  <2> DEFINE u == <<b1, b2, b3>>
             v == <<b4, b5>>
             w == <<b1, b2, b3, b4, b5>>
  <2>1. /\ u \in Seq(Byte) /\ v \in Seq(Byte) /\ w \in Seq(Byte)
        /\ Len(u) = 3 /\ Len(v) = 2 /\ Len(w) = 5
    OBVIOUS
  <2>2. /\ \A i \in 1..3 : i = 1 \/ i = 2 \/ i = 3
        /\ \A i \in 1..2 : i = 1 \/ i = 2
    OBVIOUS
  <2>3. (\A i \in 1..3 : w[i] = u[i]) /\ (\A i \in 1..2 : w[3 + i] = v[i])
    BY <2>2
  <2> HIDE DEF u, v, w
  <2>4. /\ Len(w) = Len(u) + Len(v)
        /\ \A i \in 1..Len(u) : w[i] = u[i]
        /\ \A i \in 1..Len(v) : w[Len(u) + i] = v[i]
    BY <2>1, <2>3
  <2>5. u \o v = w
    BY <2>1, <2>4, Joined
  <2> QED BY <2>5 DEF u, v, w
<1>4. <<b1, b2, b3, b4, b5>> \o <<b6>> = <<b1, b2, b3, b4, b5, b6>>
  <2> DEFINE u == <<b1, b2, b3, b4, b5>>
             v == <<b6>>
             w == <<b1, b2, b3, b4, b5, b6>>
  <2>1. /\ u \in Seq(Byte) /\ v \in Seq(Byte) /\ w \in Seq(Byte)
        /\ Len(u) = 5 /\ Len(v) = 1 /\ Len(w) = 6
    OBVIOUS
  <2>2. /\ \A i \in 1..5 : i = 1 \/ i = 2 \/ i = 3 \/ i = 4 \/ i = 5
        /\ \A i \in 1..1 : i = 1
    OBVIOUS
  <2>3. (\A i \in 1..5 : w[i] = u[i]) /\ (\A i \in 1..1 : w[5 + i] = v[i])
    BY <2>2
  <2> HIDE DEF u, v, w
  <2>4. /\ Len(w) = Len(u) + Len(v)
        /\ \A i \in 1..Len(u) : w[i] = u[i]
        /\ \A i \in 1..Len(v) : w[Len(u) + i] = v[i]
    BY <2>1, <2>3
  <2>5. u \o v = w
    BY <2>1, <2>4, Joined
  <2> QED BY <2>5 DEF u, v, w
<1> QED BY <1>1, <1>2, <1>3, <1>4 DEF Pieces

(* What is assumed of the payload lengths. *)
LEMMA PayloadLengths ==
  /\ PING_PLAYLOADLENGTH \in 3..255
  /\ NOTIFY_PLAYLOADLENGTH \in 7..255
BY CodecAssumption

(* encode writes the header. *)
LEMMA HeaderHolds ==
  ASSUME NEW p, IsPing(p) \/ IsNotify(p), NEW c, Holds(c, p.payloadLengh + 1, <<>>)
  PROVE  /\ Holds(Header(p, c), p.payloadLengh + 1, HeaderBytes(p))
         /\ Len(HeaderBytes(p)) = IF p.type = NOTIFY THEN 6 ELSE 2
<1> DEFINE n == p.payloadLengh + 1
           b1 == p.type
           b2 == p.payloadLengh
           c1 == set_bits(c, ValueBits(b1, 8))
           c2 == set_bits(c1, ValueBits(b2, 8))
<1>1. /\ b1 \in Byte /\ b2 \in Byte /\ n \in Nat /\ 4 <= n
      /\ p.type = NOTIFY => IsNotify(p) /\ 8 <= n
  <2>0. ASSUME NEW b \in Byte, 3 <= b
        PROVE  b + 1 \in Nat /\ 4 <= b + 1
    BY <2>0 DEF Byte
  <2>1. CASE IsPing(p)
    <3>1. b1 = 1 /\ b2 = PING_PLAYLOADLENGTH
      BY <2>1 DEF IsPing, PING
    <3>2. PING_PLAYLOADLENGTH \in Byte /\ 3 <= PING_PLAYLOADLENGTH /\ 1 \in Byte
      BY PayloadLengths DEF Byte
    <3>3. b1 \in Byte /\ b2 \in Byte /\ 3 <= b2 /\ b1 # NOTIFY
      BY <3>1, <3>2 DEF NOTIFY
    <3> HIDE DEF b1, b2
    <3> QED BY <2>0, <3>3 DEF b1, b2
  <2>2. CASE IsNotify(p)
    <3>1. b1 = 3 /\ b2 = NOTIFY_PLAYLOADLENGTH
      BY <2>2 DEF IsNotify, NOTIFY
    <3>2. NOTIFY_PLAYLOADLENGTH \in Byte /\ 7 <= NOTIFY_PLAYLOADLENGTH /\ 3 \in Byte
      BY PayloadLengths DEF Byte
    <3>3. b1 \in Byte /\ b2 \in Byte /\ 7 <= b2
      BY <3>1, <3>2
    <3>4. 8 <= b2 + 1 /\ 3 <= b2
      <4> HIDE DEF b1, b2
      <4> QED BY <3>3 DEF Byte
    <3> QED BY <2>0, <2>2, <3>3, <3>4
  <2> QED BY <2>1, <2>2
<1>2. Header(p, c) = IF p.type = NOTIFY
                     THEN set_bits(set_bits(set_bits(c2, ValueBits(p.typeNode, 8)),
                                            ValueBits(p.portNodeNotify, 16)),
                                   ValueBits(p.stateNodeNotify, 8))
                     ELSE c2
  BY DEF Header
<1>3. HeaderBytes(p) = IF p.type = NOTIFY
                       THEN <<b1, b2, p.typeNode, p.portNodeNotify \div 256,
                              p.portNodeNotify % 256, p.stateNodeNotify>>
                       ELSE <<b1, b2>>
  BY DEF HeaderBytes
<1> HIDE DEF n, b1, b2, c1, c2
<1>4. Holds(c1, n, <<b1>>)
  <2>1. Spells(ValueBits(b1, 8), <<b1>>) /\ Len(<<b1>>) = 1 /\ 1 <= n
    BY <1>1, SpellsByte
  <2>2. <<>> \o <<b1>> = <<b1>>
    OBVIOUS
  <2>3. Holds(c, n, <<>>)
    BY DEF n
  <2> QED BY <2>1, <2>2, <2>3, FieldAppended DEF c1
<1>5. Holds(c2, n, <<b1, b2>>)
  <2>1. Spells(ValueBits(b2, 8), <<b2>>) /\ Len(<<b1, b2>>) = 2 /\ 2 <= n
    BY <1>1, SpellsByte
  <2>2. <<b1>> \o <<b2>> = <<b1, b2>>
    <3>1. Pieces(b1, b2, b2, b2, b2, b2)
      BY <1>1, HeaderPieces
    <3> QED BY <3>1 DEF Pieces
  <2> QED BY <1>4, <2>1, <2>2, FieldAppended DEF c2
<1>6. CASE p.type # NOTIFY
  <2>1. Len(<<b1, b2>>) = 2
    OBVIOUS
  <2> QED BY <1>2, <1>3, <1>5, <1>6, <2>1 DEF n
<1>7. CASE p.type = NOTIFY
  <2> DEFINE b3 == p.typeNode
             port == p.portNodeNotify
             b4 == port \div 256
             b5 == port % 256
             b6 == p.stateNodeNotify
             c3 == set_bits(c2, ValueBits(b3, 8))
             c5 == set_bits(c3, ValueBits(port, 16))
             c6 == set_bits(c5, ValueBits(b6, 8))
  <2>1. /\ b3 \in Byte /\ b6 \in Byte /\ port \in Port
        /\ b4 \in Byte /\ b5 \in Byte
    <3>1. IsNotify(p)
      BY <1>1, <1>7
    <3>2. /\ p.port \in Port /\ port = SinPort(p.port) /\ b3 \in Byte /\ b6 = 2
      BY <3>1 DEF IsNotify, TIMEOUT
    <3>3. Swaps(p.port, SinPort(p.port))
      BY <3>2, PortSwapped
    <3>4. port \in Port
      BY <3>2, <3>3 DEF Swaps
    <3>5. b4 \in Byte /\ b5 \in Byte
      BY <3>2, <3>3 DEF Swaps
    <3> QED BY <3>2, <3>4, <3>5 DEF Byte
  <2>2. Header(p, c) = c6 /\ HeaderBytes(p) = <<b1, b2, b3, b4, b5, b6>>
    BY <1>2, <1>3, <1>7
  <2>3. Spells(ValueBits(port, 16), <<b4, b5>>)
    BY <2>1, SpellsPort
  <2> HIDE DEF b3, port, b4, b5, b6, c3, c5, c6
  <2>4. 8 <= n
    BY <1>1, <1>7
  <2>9. /\ <<b1, b2>> \o <<b3>> = <<b1, b2, b3>>
        /\ <<b1, b2, b3>> \o <<b4, b5>> = <<b1, b2, b3, b4, b5>>
        /\ <<b1, b2, b3, b4, b5>> \o <<b6>> = <<b1, b2, b3, b4, b5, b6>>
    <3>1. b1 \in Byte /\ b2 \in Byte
      BY <1>1
    <3>2. b3 \in Byte /\ b4 \in Byte /\ b5 \in Byte /\ b6 \in Byte
      BY <2>1
    <3> HIDE <2>1
    <3>3. Pieces(b1, b2, b3, b4, b5, b6)
      BY <3>1, <3>2, HeaderPieces
    <3> QED BY <3>3 DEF Pieces
  <2>5. Holds(c3, n, <<b1, b2, b3>>)
    <3>1. Spells(ValueBits(b3, 8), <<b3>>)
      BY <2>1, SpellsByte
    <3>3. Len(<<b1, b2, b3>>) = 3
      OBVIOUS
    <3>4. 3 <= n
      BY <1>1, <2>4
    <3>2. <<b1, b2>> \o <<b3>> = <<b1, b2, b3>>
      BY <2>9
    <3> QED BY <1>5, <3>1, <3>2, <3>3, <3>4, FieldAppended DEF c3
  <2>6. Holds(c5, n, <<b1, b2, b3, b4, b5>>)
    <3>1. Len(<<b1, b2, b3, b4, b5>>) = 5
      OBVIOUS
    <3>3. 5 <= n
      BY <1>1, <2>4
    <3>2. <<b1, b2, b3>> \o <<b4, b5>> = <<b1, b2, b3, b4, b5>>
      BY <2>9
    <3> QED BY <2>3, <2>5, <3>1, <3>2, <3>3, FieldAppended DEF c5
  <2>7. Holds(c6, n, <<b1, b2, b3, b4, b5, b6>>)
    <3>1. Spells(ValueBits(b6, 8), <<b6>>)
      BY <2>1, SpellsByte
    <3>3. Len(<<b1, b2, b3, b4, b5, b6>>) = 6
      OBVIOUS
    <3>4. 6 <= n
      BY <1>1, <2>4
    <3>2. <<b1, b2, b3, b4, b5>> \o <<b6>> = <<b1, b2, b3, b4, b5, b6>>
      BY <2>9
    <3> QED BY <2>6, <3>1, <3>2, <3>3, <3>4, FieldAppended DEF c6
  <2>8. Len(<<b1, b2, b3, b4, b5, b6>>) = 6
    OBVIOUS
  <2> QED BY <1>7, <2>2, <2>7, <2>8 DEF n
<1> QED BY <1>6, <1>7

(* The zeroed buffer holds nothing.                                        *)
LEMMA EmptyHolds ==
  ASSUME NEW n \in Nat
  PROVE  Holds([buffer |-> [j \in 1..n |-> 0], offset |-> 0], n, <<>>)
<1> DEFINE empty == [buffer |-> [j \in 1..n |-> 0], offset |-> 0]
<1>1. /\ empty.buffer = [j \in 1..n |-> 0] /\ empty.offset = 0
      /\ <<>> \in Seq(Byte) /\ Len(<<>>) = 0 /\ 0 \in Byte
  BY DEF Byte
<1> HIDE DEF empty
<1>2. empty.buffer \in [1..n -> Byte]
  BY <1>1
<1>3. \A j \in 1..n : ~(j <= 0) /\ empty.buffer[j] = 0
  BY <1>1
<1>4. Holds(empty, n, <<>>)
  BY <1>1, <1>2, <1>3 DEF Holds
<1> QED BY <1>4 DEF empty

(* A packet has its header and then its text, of which as much is taken as *)
(* leaves room for a null.                                                 *)
BytesAre(p, h, t, s, L, m) ==
  /\ L \in 3..255 /\ p.message \in Seq(Byte)
  /\ h \in Seq(Byte) /\ Len(h) = (IF p.type = NOTIFY THEN 6 ELSE 2)
  /\ Len(h) <= L - 1
  /\ m \in 0..Len(p.message) /\ t = SubSeq(p.message, 1, m)
  /\ t \in Seq(Byte) /\ Len(t) = m
  /\ s \in Seq(Byte) /\ Len(s) = Len(h) + m /\ Len(s) <= L - 1
  /\ \A i \in 1..Len(h) : s[i] = h[i]
  /\ \A i \in 1..m : s[Len(h) + i] = t[i]

(* What encode writes is the header and as much text as fits behind it.    *)
LEMMA BytesFacts ==
  ASSUME NEW p, IsPing(p) \/ IsNotify(p)
  PROVE  BytesAre(p, HeaderBytes(p), Text(p), Bytes(p), p.payloadLengh,
                  Fitting(Len(p.message), p.payloadLengh - Len(HeaderBytes(p))))
<1> DEFINE L == p.payloadLengh
           h == HeaderBytes(p)
           message == p.message
           m == Fitting(Len(message), L - Len(h))
           t == Text(p)
           s == Bytes(p)
           empty == [buffer |-> [j \in 1..(L + 1) |-> 0], offset |-> 0]
<1>1. /\ L \in 3..255 /\ message \in Seq(Byte)
      /\ p.type = NOTIFY => L \in 7..255
  <2>1. CASE IsPing(p)
    BY <2>1, PayloadLengths DEF IsPing, PING, NOTIFY
  <2>2. CASE IsNotify(p)
    <3>1. L = NOTIFY_PLAYLOADLENGTH /\ message \in Seq(Byte)
      BY <2>2 DEF IsNotify
    <3>2. \A k \in 7..255 : k \in 3..255
      OBVIOUS
    <3> HIDE DEF message, L
    <3> QED BY <3>1, <3>2, PayloadLengths
  <2> QED BY <2>1, <2>2
<1>2. h \in Seq(Byte) /\ Len(h) = (IF p.type = NOTIFY THEN 6 ELSE 2)
  <2>1. L + 1 \in Nat
    <3> HIDE DEF L
    <3> QED BY <1>1
  <2>2. Holds(empty, L + 1, <<>>)
    BY <2>1, EmptyHolds
  <2> HIDE DEF empty
  <2>3. /\ Holds(Header(p, empty), L + 1, h)
        /\ Len(h) = IF p.type = NOTIFY THEN 6 ELSE 2
    BY <2>2, HeaderHolds
  <2> QED BY <2>3 DEF Holds
<1>3. Len(h) \in Nat /\ Len(h) <= L - 1
  <2> HIDE DEF h, L
  <2> QED BY <1>1, <1>2
<1>4. m \in 0..Len(message) /\ Len(h) + m <= L - 1
  <2> HIDE DEF h, L, message
  <2>1. Len(message) \in Nat /\ L \in Nat
    BY <1>1
  <2> QED BY <1>3, <2>1 DEF Fitting
<1>5. t = SubSeq(message, 1, m)
  BY DEF Text
<1>7. s = h \o t
  BY DEF Bytes
<1> HIDE DEF message, h, t, s, m, L
<1>6. t \in Seq(Byte) /\ Len(t) = m
  BY <1>1, <1>4, <1>5
<1>8. /\ s \in Seq(Byte) /\ Len(s) = Len(h) + m
      /\ \A i \in 1..Len(h) : s[i] = h[i]
      /\ \A i \in 1..m : s[Len(h) + i] = t[i]
  <2>1. h \in Seq(Byte) /\ t \in Seq(Byte) /\ Len(h) \in Nat /\ Len(t) = m
    BY <1>2, <1>3, <1>6
  <2>2. s \in Seq(Byte) /\ Len(s) = Len(h) + m
    <3>1. h \o t \in Seq(Byte) /\ Len(h \o t) = Len(h) + Len(t)
      BY <2>1, ConcatProperties
    <3> QED BY <1>7, <2>1, <3>1
  <2>3. \A i \in 1..Len(h) : s[i] = h[i]
    BY <1>7, <2>1
  <2>4. \A i \in 1..m : s[Len(h) + i] = t[i]
    BY <1>7, <2>1
  <2> QED BY <2>2, <2>3, <2>4
<1>9. Len(s) <= L - 1
  BY <1>4, <1>8
<1>10. BytesAre(p, h, t, s, L, m)
  BY <1>1, <1>2, <1>3, <1>4, <1>5, <1>6, <1>8, <1>9 DEF BytesAre, message
<1> QED BY <1>10 DEF h, t, s, L, m, message

(* encode writes them into a buffer that is zero after them, with at least *)
(* one null in the payload.                                                *)
LEMMA EncodeHolds ==
  ASSUME NEW p, IsPing(p) \/ IsNotify(p)
  PROVE  /\ Holds(encode(p), p.payloadLengh + 1, Bytes(p))
         /\ p.payloadLengh \in 3..255
<1> DEFINE L == p.payloadLengh
           n == L + 1
           empty == [buffer |-> [j \in 1..n |-> 0], offset |-> 0]
           header == Header(p, empty)
           h == HeaderBytes(p)
           message == p.message
           m == Fitting(Len(message), L - Len(h))
           t == Text(p)
           s == Bytes(p)
<1>1. BytesAre(p, h, t, s, L, m)
  BY BytesFacts
<1>2. encode(p) = set_bits(header, StringBits(message,
                                              Fitting(Len(message), L - header.offset \div 8)))
  BY DEF encode
<1>3. s = h \o t
  BY DEF Bytes
<1> HIDE DEF message, h, t, s
<1>4. /\ L \in 3..255 /\ n \in Nat /\ Len(s) <= n /\ Len(h) \in Nat
      /\ message \in Seq(Byte) /\ m \in 0..Len(message) /\ t = SubSeq(message, 1, m)
  <2> HIDE DEF L, m
  <2> QED BY <1>1 DEF BytesAre, message
<1>5. Holds(header, n, h)
  <2>1. Holds(empty, n, <<>>)
    BY <1>4, EmptyHolds
  <2> HIDE DEF empty
  <2> QED BY <2>1, HeaderHolds DEF h
<1> HIDE DEF L, empty, header
<1>6. header.offset \div 8 = Len(h)
  <2>1. header.offset = 8 * Len(h)
    BY <1>5 DEF Holds
  <2> QED BY <1>4, <2>1
<1>7. encode(p) = set_bits(header, StringBits(message, m))
  BY <1>2, <1>6
<1> HIDE DEF m
<1>8. Spells(StringBits(message, m), t)
  BY <1>4, SpellsString
<1>9. Holds(set_bits(header, StringBits(message, m)), n, s)
  <2> DEFINE k == Len(s)
  <2>1. k <= n
    BY <1>4
  <2> HIDE DEF n, k
  <2> QED BY <1>3, <1>5, <1>8, <2>1, FieldAppended DEF k
<1> QED BY <1>4, <1>7, <1>9 DEF L, n, s

(* What is sent of it. *)
Payload(p) == SubSeq(encode(p).buffer, 1, p.payloadLengh)

(* The payload consists of these bytes, and zeros behind them.             *)
LEMMA PayloadSpelled ==
  ASSUME NEW p, IsPing(p) \/ IsNotify(p)
  PROVE  /\ Payload(p) \in Seq(Byte) /\ Len(Payload(p)) = p.payloadLengh
         /\ \A j \in 1..p.payloadLengh :
              Payload(p)[j] = IF j <= Len(Bytes(p)) THEN Bytes(p)[j] ELSE 0
         /\ encode(p).offset = 8 * Len(Bytes(p))
<1> DEFINE L == p.payloadLengh
           b == encode(p).buffer
           s == Bytes(p)
<1>1. Holds(encode(p), L + 1, s) /\ L \in 3..255
  BY EncodeHolds
<1>2. /\ b \in [1..(L + 1) -> Byte] /\ encode(p).offset = 8 * Len(s)
      /\ \A j \in 1..(L + 1) : b[j] = IF j <= Len(s) THEN s[j] ELSE 0
  BY <1>1 DEF Holds
<1> HIDE DEF L, b, s
<1>3. /\ SubSeq(b, 1, L) \in Seq(Byte) /\ Len(SubSeq(b, 1, L)) = L
      /\ \A j \in 1..L : SubSeq(b, 1, L)[j] = b[j]
  <2>1. b \in Seq(Byte) /\ Len(b) = L + 1
    BY <1>1, <1>2
  <2> QED BY <1>1, <2>1
<1>4. ASSUME NEW j \in 1..L
      PROVE  SubSeq(b, 1, L)[j] = IF j <= Len(s) THEN s[j] ELSE 0
  <2>1. j \in 1..(L + 1)
    BY <1>1
  <2> QED BY <1>2, <1>3, <2>1
<1> QED BY <1>2, <1>3, <1>4 DEF Payload, L, b, s

(* All of a text that fits, but for the room of the null. *)
LEMMA FittingIsMin ==
  ASSUME NEW size \in Nat, NEW room \in Nat
  PROVE  Min({room, size}) = Fitting(size, room + 1)
<1> DEFINE S == {room, size}
           x == CHOOSE x \in S : \A y \in S : x <= y
<1>1. S # {} /\ S \in SUBSET Nat
  OBVIOUS
<1>2. \E y \in S : \A z \in S : y <= z
  <2> HIDE DEF S
  <2> QED BY <1>1, Least
<1>3. x \in S /\ \A y \in S : x <= y
  <2> HIDE DEF S
  <2> QED BY <1>2
<1> HIDE DEF x
<1>4. (x = room \/ x = size) /\ x <= room /\ x <= size
  BY <1>3
<1>5. x = Fitting(size, room + 1)
  BY <1>4 DEF Fitting
<1> QED BY <1>5 DEF Min, x

(* Where the payload has the fields. *)
LEMMA PayloadHeader ==
  ASSUME NEW p, IsPing(p) \/ IsNotify(p)
  PROVE  /\ Payload(p)[1] = p.type /\ Payload(p)[2] = p.payloadLengh
         /\ p.type = NOTIFY =>
              /\ Payload(p)[3] = p.typeNode /\ Payload(p)[4] = p.portNodeNotify \div 256
              /\ Payload(p)[5] = p.portNodeNotify % 256
              /\ Payload(p)[6] = p.stateNodeNotify
<1> DEFINE L == p.payloadLengh
           d == Payload(p)
           h == HeaderBytes(p)
           s == Bytes(p)
           m == Fitting(Len(p.message), L - Len(h))
<1>1. BytesAre(p, h, Text(p), s, L, m)
  BY BytesFacts
<1>2. \A j \in 1..L : d[j] = IF j <= Len(s) THEN s[j] ELSE 0
  BY PayloadSpelled
<1>3. ASSUME NEW j \in 1..Len(h)
      PROVE  d[j] = h[j]
  <2> HIDE DEF h, d, s, L, m
  <2>1. /\ Len(h) \in Nat /\ m \in Nat /\ L \in Nat
        /\ Len(s) = Len(h) + m /\ Len(s) <= L - 1 /\ s[j] = h[j]
    BY <1>1 DEF BytesAre
  <2>2. j <= Len(s) /\ j \in 1..L
    <3> HIDE <1>1
    <3> QED BY <2>1
  <2> QED BY <1>2, <2>1, <2>2
<1> HIDE DEF s
<1>4. CASE p.type # NOTIFY
  <2>1. h = <<p.type, L>> /\ Len(h) = 2
    BY <1>4 DEF HeaderBytes
  <2>2. h[1] = p.type /\ h[2] = L
    BY <2>1
  <2> HIDE DEF h, d, L
  <2>3. 1 \in 1..Len(h) /\ 2 \in 1..Len(h)
    BY <2>1
  <2>4. d[1] = p.type /\ d[2] = L
    BY <1>3, <2>2, <2>3
  <2> QED BY <1>4, <2>4 DEF d, L
<1>5. CASE p.type = NOTIFY
  <2>1. h = <<p.type, L, p.typeNode, p.portNodeNotify \div 256,
              p.portNodeNotify % 256, p.stateNodeNotify>> /\ Len(h) = 6
    BY <1>5 DEF HeaderBytes
  <2>2. /\ h[1] = p.type /\ h[2] = L /\ h[3] = p.typeNode
        /\ h[4] = p.portNodeNotify \div 256 /\ h[5] = p.portNodeNotify % 256
        /\ h[6] = p.stateNodeNotify
    BY <2>1
  <2> HIDE DEF h, d, L
  <2>3. /\ 1 \in 1..Len(h) /\ 2 \in 1..Len(h) /\ 3 \in 1..Len(h)
        /\ 4 \in 1..Len(h) /\ 5 \in 1..Len(h) /\ 6 \in 1..Len(h)
    BY <2>1
  <2>4. /\ d[1] = h[1] /\ d[2] = h[2] /\ d[3] = h[3]
        /\ d[4] = h[4] /\ d[5] = h[5] /\ d[6] = h[6]
    BY <1>3, <2>3
  <2> QED BY <2>2, <2>4 DEF d, L
<1> QED BY <1>4, <1>5

(* The rest of the payload is the text, as far as it fits, and nulls. *)
Arrives(p, t, room) ==
  /\ Last(t) = 0
  /\ UpToNull(t) = UpToNull(SubSeq(p.message, 1, Min({room, Len(p.message)})))

(* The end of the payload is a string with the text of the message.        *)
LEMMA TextArrives ==
  ASSUME NEW p, IsPing(p) \/ IsNotify(p),
         NEW k \in Nat, k = Len(HeaderBytes(p)), NEW t \in Seq(Byte),
         Len(t) = p.payloadLengh - k,
         \A i \in 1..Len(t) : t[i] = Payload(p)[k + i]
  PROVE  Arrives(p, t, p.payloadLengh - k - 1)
<1> DEFINE L == p.payloadLengh
           d == Payload(p)
           h == HeaderBytes(p)
           s == Bytes(p)
           text == Text(p)
           message == p.message
           m == Fitting(Len(message), L - k)
           room == L - k - 1
<1>1. BytesAre(p, h, text, s, L, m)
  BY BytesFacts
<1>2. \A j \in 1..L : d[j] = IF j <= Len(s) THEN s[j] ELSE 0
  BY PayloadSpelled
<1>3. Len(t) = L - k /\ Len(h) = k /\ \A i \in 1..Len(t) : t[i] = d[k + i]
  OBVIOUS
<1> HIDE DEF d, h, s, text
<1>4. /\ L \in 3..255 /\ k <= L - 1 /\ message \in Seq(Byte) /\ m \in 0..Len(message)
      /\ text = SubSeq(message, 1, m) /\ text \in Seq(Byte) /\ Len(text) = m
      /\ Len(s) = k + m /\ Len(s) <= L - 1 /\ Len(s) \in Nat
      /\ \A i \in 1..m : s[k + i] = text[i]
  <2> HIDE DEF L, m
  <2>1. /\ L \in 3..255 /\ Len(h) <= L - 1 /\ message \in Seq(Byte) /\ m \in 0..Len(message)
        /\ text = SubSeq(message, 1, m) /\ text \in Seq(Byte) /\ Len(text) = m
        /\ s \in Seq(Byte) /\ Len(s) = Len(h) + m /\ Len(s) <= L - 1
        /\ \A i \in 1..m : s[Len(h) + i] = text[i]
    BY <1>1 DEF BytesAre, message
  <2>2. Len(h) = k /\ Len(s) \in Nat
    BY <1>3, <2>1
  <2> HIDE DEF message
  <2> QED BY <2>1, <2>2
<1> HIDE DEF message, L
<1>5. room \in Nat /\ L - k = room + 1 /\ k + m <= L - 1 /\ m \in Nat
  <2> HIDE DEF m
  <2> QED BY <1>4
<1>6. m = Min({room, Len(message)})
  <2>1. Len(message) \in Nat
    BY <1>4
  <2> HIDE DEF room
  <2>2. Min({room, Len(message)}) = Fitting(Len(message), room + 1)
    BY <1>5, <2>1, FittingIsMin
  <2> QED BY <1>5, <2>2
<1> HIDE DEF m, room
<1>7. ASSUME NEW i \in 1..Len(t)
      PROVE  t[i] = IF i <= Len(text) THEN text[i] ELSE 0
  <2>1. i \in 1..(L - k) /\ k + i \in 1..L
    BY <1>3, <1>4, SMTT(30)
  <2>2. t[i] = IF k + i <= k + m THEN s[k + i] ELSE 0
    BY <1>2, <1>3, <1>4, <2>1
  <2>3. CASE i <= m
    <3>1. i \in 1..m /\ k + i <= k + m
      BY <1>5, <2>1, <2>3
    <3> QED BY <1>4, <2>2, <2>3, <3>1
  <2>4. CASE ~(i <= m)
    <3>1. ~(k + i <= k + m)
      BY <1>5, <2>1, <2>4
    <3> QED BY <1>4, <2>2, <2>4, <3>1
  <2> QED BY <2>3, <2>4
<1>8. Len(t) \in Nat /\ Len(t) \in 1..Len(t) /\ Len(text) <= Len(t) /\ ~(Len(t) <= Len(text))
  BY <1>3, <1>4, <1>5
<1>9. Last(t) = 0
  BY <1>7, <1>8 DEF Last
<1>10. UpToNull(t) = UpToNull(text)
  BY <1>4, <1>7, <1>8, UpToNullPadded
<1>11. Arrives(p, t, room)
  BY <1>4, <1>6, <1>9, <1>10 DEF Arrives, message
<1>12. Arrives(p, t, L - k - 1)
  BY <1>11 DEF room
<1> QED BY <1>12 DEF L


(* The client reads the packet that the manager meant. *)
Understands(p, g) ==
  /\ g # Nothing /\ g.type = p.type /\ g.message \in Seq(Byte)
  /\ Arrives(p, g.message, IF p.type = PING THEN PING_PLAYLOADLENGTH - 3
                                            ELSE NOTIFY_PLAYLOADLENGTH - 7)
  /\ p.type = NOTIFY =>
       g.typeNode = p.typeNode /\ g.port = p.port /\ g.state = TIMEOUT

(* The client's parser makes of a payload what the manager meant.          *)
LEMMA ClientDecodes ==
  ASSUME NEW p, IsPing(p) \/ IsNotify(p)
  PROVE  Understands(p, parse_incoming_packet(Payload(p)))
<1> DEFINE L == p.payloadLengh
           d == Payload(p)
           payload == SubSeq(d, 3, L)
           g == parse_incoming_packet(d)
<1>1. L \in 3..255 /\ d \in Seq(Byte) /\ Len(d) = L
  BY EncodeHolds, PayloadSpelled
<1>2. d[1] = p.type /\ d[2] = L
  BY PayloadHeader
<1>3. /\ payload \in Seq(Byte) /\ Len(payload) = L - 2
      /\ \A i \in 1..(L - 2) : payload[i] = d[i + 2]
  <2> HIDE DEF L, d
  <2>1. 3 \in 1..(Len(d) + 1) /\ L \in 0..Len(d) /\ L - 3 + 1 = L - 2
    BY <1>1
  <2>2. payload \in Seq(Byte) /\ Len(payload) = L - 2
    BY <1>1, <2>1
  <2>3. ASSUME NEW i \in 1..(L - 2)
        PROVE  payload[i] = d[i + 2]
    BY <1>1, <2>1
  <2> QED BY <2>2, <2>3
<1>4. g = CASE d[1] = PING -> [type |-> PING, message |-> payload]
            [] d[1] = NOTIFY /\ Len(payload) >= 4 ->
                 [type |-> NOTIFY, typeNode |-> payload[1],
                  port |-> payload[2] + 256 * payload[3], state |-> payload[4],
                  message |-> SubSeq(payload, 5, Len(payload))]
            [] OTHER -> Nothing
  <2>1. ~(Len(d) < 2 \/ Len(d) < d[2] \/ d[2] < 2) /\ SubSeq(d, 3, d[2]) = payload
    <3> HIDE DEF L, d, payload
    <3>1. ~(Len(d) < 2 \/ Len(d) < d[2] \/ d[2] < 2)
      BY <1>1, <1>2
    <3> QED BY <1>2, <3>1 DEF payload
  <2> HIDE DEF d, payload, L
  <2> QED BY <2>1 DEF parse_incoming_packet
<1> HIDE DEF g
<1>5. CASE IsPing(p)
  <2>1. p.type = 1 /\ L = PING_PLAYLOADLENGTH
    BY <1>5 DEF IsPing, PING
  <2> HIDE DEF d, payload, L
  <2>2. g = [type |-> PING, message |-> payload]
    <3> DEFINE r == [type |-> PING, message |-> payload]
    <3>1. d[1] = PING /\ d[1] # NOTIFY
      BY <1>2, <2>1 DEF PING, NOTIFY
    <3> HIDE DEF r
    <3>2. g = r
      BY <1>4, <3>1 DEF r
    <3> QED BY <3>2 DEF r
  <2>3. HeaderBytes(p) = <<p.type, p.payloadLengh>>
    BY <2>1 DEF HeaderBytes, NOTIFY
  <2>4. Len(HeaderBytes(p)) = 2
    BY <2>3
  <2>5. \A i \in 1..Len(payload) : payload[i] = d[2 + i]
    BY <1>1, <1>3
  <2>6. Arrives(p, payload, L - 2 - 1)
    BY <1>3, <2>4, <2>5, TextArrives DEF d, L
  <2>7. L - 2 - 1 = PING_PLAYLOADLENGTH - 3
    BY <1>1, <2>1
  <2> QED BY <1>3, <2>1, <2>2, <2>6, <2>7 DEF Understands, PING, NOTIFY, Nothing, g, d
<1>6. CASE IsNotify(p)
  <2>1. /\ p.type = 3 /\ L = NOTIFY_PLAYLOADLENGTH /\ p.stateNodeNotify = TIMEOUT
        /\ p.port \in Port /\ p.portNodeNotify = SinPort(p.port)
    BY <1>6 DEF IsNotify, NOTIFY
  <2>2. /\ d[3] = p.typeNode /\ d[4] = p.portNodeNotify \div 256
        /\ d[5] = p.portNodeNotify % 256 /\ d[6] = TIMEOUT
    BY <2>1, PayloadHeader DEF NOTIFY
  <2> DEFINE t == SubSeq(payload, 5, L - 2)
  <2>3. L \in 7..255
    <3> HIDE DEF L
    <3> QED BY <2>1, PayloadLengths
  <2> HIDE DEF d, payload, L
  <2>4. /\ Len(payload) >= 4 /\ payload[1] = d[3] /\ payload[2] = d[4]
        /\ payload[3] = d[5] /\ payload[4] = d[6]
    <3>1. L \in Nat /\ L - 2 >= 4
      BY <2>3
    <3>2. Len(payload) >= 4
      BY <1>3, <3>1
    <3>3. 1 \in 1..(L - 2) /\ 2 \in 1..(L - 2) /\ 3 \in 1..(L - 2) /\ 4 \in 1..(L - 2)
      BY <3>1
    <3>4. /\ payload[1] = d[1 + 2] /\ payload[2] = d[2 + 2]
          /\ payload[3] = d[3 + 2] /\ payload[4] = d[4 + 2]
      BY <1>3, <3>3, Zenon
    <3> QED BY <3>2, <3>4
  <2>5. g = [type |-> NOTIFY, typeNode |-> payload[1],
             port |-> payload[2] + 256 * payload[3], state |-> payload[4],
             message |-> t]
    <3> DEFINE r == [type |-> NOTIFY, typeNode |-> payload[1],
                     port |-> payload[2] + 256 * payload[3], state |-> payload[4],
                     message |-> SubSeq(payload, 5, Len(payload))]
    <3>1. d[1] # PING /\ d[1] = NOTIFY
      BY <1>2, <2>1 DEF PING, NOTIFY
    <3>2. g = r
      <4> HIDE DEF r
      <4> QED BY <1>4, <2>4, <3>1 DEF r
    <3>3. t = SubSeq(payload, 5, Len(payload))
      BY <1>3
    <3> QED BY <3>2, <3>3
  <2>6. /\ t \in Seq(Byte) /\ Len(t) = L - 6
        /\ \A i \in 1..Len(t) : t[i] = d[6 + i]
    <3>1. t \in Seq(Byte) /\ Len(t) = L - 6
      BY <1>3, <2>3
    <3>2. ASSUME NEW i \in 1..(L - 6)
          PROVE  t[i] = d[6 + i]
      <4>1. t[i] = payload[i + 4]
        BY <1>3, <2>3
      <4>2. i + 4 \in 1..(L - 2) /\ (i + 4) + 2 = 6 + i
        BY <2>3
      <4>3. payload[i + 4] = d[(i + 4) + 2]
        BY <1>3, <4>2
      <4> QED BY <4>1, <4>2, <4>3
    <3> QED BY <3>1, <3>2
  <2> HIDE DEF t
  <2>7. HeaderBytes(p) = <<p.type, p.payloadLengh, p.typeNode, p.portNodeNotify \div 256,
                           p.portNodeNotify % 256, p.stateNodeNotify>>
    BY <2>1 DEF HeaderBytes, NOTIFY
  <2>8. Len(HeaderBytes(p)) = 6
    BY <2>7
  <2>9. Arrives(p, t, L - 6 - 1)
    BY <2>6, <2>8, TextArrives DEF d, L
  <2>10. L - 6 - 1 = NOTIFY_PLAYLOADLENGTH - 7
    BY <2>1, <2>3
  <2>11. payload[2] + 256 * payload[3] = p.port
    <3> DEFINE port == p.port
               sinPort == SinPort(port)
    <3>1. port \in Port
      BY <2>1
    <3> HIDE DEF port
    <3>2. Swaps(port, sinPort)
      BY <3>1, PortSwapped
    <3>3. payload[2] = sinPort \div 256 /\ payload[3] = sinPort % 256
      BY <2>1, <2>2, <2>4 DEF port
    <3> HIDE DEF sinPort
    <3>4. payload[2] = port % 256 /\ payload[3] = port \div 256
      BY <3>2, <3>3 DEF Swaps
    <3>5. (port % 256) + 256 * (port \div 256) = port
      BY <3>2 DEF Swaps
    <3> QED BY <3>4, <3>5 DEF port
  <2>12. /\ g.type = 3 /\ g.typeNode = p.typeNode /\ g.port = p.port
         /\ g.state = TIMEOUT /\ g.message = t
    <3> DEFINE port == payload[2] + 256 * payload[3]
    <3>1. port = p.port
      BY <2>11
    <3> HIDE DEF port
    <3> QED BY <2>2, <2>4, <2>5, <3>1 DEF port, NOTIFY
  <2> QED BY <2>1, <2>6, <2>9, <2>10, <2>12 DEF Understands, PING, NOTIFY, Nothing, g, d
<1> QED BY <1>5, <1>6

-----------------------------------------------------------------------------
(* What the manager has in its buffer. *)
LEMMA Received ==
  ASSUME NEW d \in Seq(Byte)
  PROVE  /\ recvDataUDP(d) \in [1..256 -> Byte]
         /\ \A i \in 1..256 : recvDataUDP(d)[i] = IF i <= Len(d) THEN d[i] ELSE 0
<1>1. recvDataUDP(d) = [i \in 1..256 |-> IF i <= Len(d) THEN d[i] ELSE 0]
  BY DEF recvDataUDP, BUFFER_SIZE
<1>2. ASSUME NEW i \in 1..256
      PROVE  (IF i <= Len(d) THEN d[i] ELSE 0) \in Byte
  <2>1. CASE i <= Len(d)
    <3>1. i \in 1..Len(d)
      BY <2>1
    <3>2. d[i] \in Byte
      BY <3>1
    <3> QED BY <2>1, <3>2
  <2>2. CASE ~(i <= Len(d))
    BY <2>2 DEF Byte
  <2> QED BY <2>1, <2>2
<1> QED BY <1>1, <1>2

(* The message that the second byte delimits, behind a header of k bytes. *)
Message(b, k) == IF b[2] > k THEN [i \in 1..(b[2] - k) |-> b[k + i]] ELSE <<>>

Extracts(b, k, message) ==
  /\ message \in Seq(Byte)
  /\ Len(message) = (IF b[2] > k THEN b[2] - k ELSE 0)
  /\ \A i \in 1..Len(message) : message[i] = b[k + i]
  /\ message = IF b[2] - k > 0 THEN get_string(b, 8 * k, b[2] - k) ELSE <<>>

(* A function on 1..n is a sequence.                                       *)
LEMMA FunctionIsSeq ==
  ASSUME NEW S, NEW n \in Nat, NEW s \in [1..n -> S]
  PROVE  s \in Seq(S) /\ Len(s) = n
OBVIOUS

(* decode takes the text from behind the header, as the length byte says.  *)
LEMMA MessageFacts ==
  ASSUME NEW b \in [1..256 -> Byte], NEW k \in 2..3
  PROVE  Extracts(b, k, Message(b, k))
<1> DEFINE L == b[2]
           size == L - k
<1>1. L \in 0..255
  <2>1. 2 \in 1..256
    OBVIOUS
  <2>2. L \in Byte
    BY <2>1
  <2> QED BY <2>2 DEF Byte
<1> HIDE DEF L
<1>2. CASE ~(L > k)
  <2>1. ~(size > 0)
    BY <1>1, <1>2
  <2>2. Message(b, k) = <<>>
    BY <1>2 DEF Message, L
  <2> QED BY <1>2, <2>1, <2>2 DEF L, Extracts
<1>3. CASE L > k
  <2> DEFINE s == [i \in 1..size |-> b[k + i]]
  <2>1. size \in 1..255 /\ k + size = L
    BY <1>1, <1>3
  <2>2. Message(b, k) = s
    BY <1>3 DEF Message, L
  <2> HIDE DEF size
  <2>3. ASSUME NEW i \in 1..size
        PROVE  k + i \in 1..256 /\ k + i \in Nat \ {0} /\ b[k + i] \in Byte
               /\ get_bits(b, 8 * k + 8 * (i - 1), 8) = b[k + i]
    <3> DEFINE j == k + i
    <3>1. j \in 1..256 /\ j \in Nat \ {0} /\ 8 * k + 8 * (i - 1) = 8 * (j - 1)
      BY <1>1, <2>1
    <3> HIDE DEF j
    <3>2. b[j] \in Byte
      BY <3>1
    <3>3. get_bits(b, 8 * (j - 1), 8) = b[j]
      BY <3>1, <3>2, ReadByte
    <3>4. get_bits(b, 8 * k + 8 * (i - 1), 8) = b[j]
      BY <3>1, <3>3
    <3> QED BY <3>1, <3>2, <3>4 DEF j
  <2>4. s = get_string(b, 8 * k, size)
    <3>1. get_string(b, 8 * k, size) = [i \in 1..size |-> get_bits(b, 8 * k + 8 * (i - 1), 8)]
      BY DEF get_string
    <3>2. \A i \in 1..size : get_bits(b, 8 * k + 8 * (i - 1), 8) = b[k + i]
      BY <2>3
    <3> QED BY <3>1, <3>2
  <2>5. s \in Seq(Byte) /\ Len(s) = size /\ \A i \in 1..Len(s) : s[i] = b[k + i]
    <3>1. \A i \in 1..size : b[k + i] \in Byte
      BY <2>3
    <3>2. s \in [1..size -> Byte] /\ size \in Nat
      BY <2>1, <3>1, SMTT(30)
    <3>3. s \in Seq(Byte) /\ Len(s) = size
      <4> HIDE DEF s
      <4> QED BY <3>2, FunctionIsSeq
    <3>4. \A i \in 1..size : s[i] = b[k + i]
      OBVIOUS
    <3> HIDE DEF s
    <3> QED BY <3>3, <3>4
  <2> HIDE DEF s
  <2>6. size > 0
    BY <2>1
  <2> QED BY <1>3, <2>2, <2>4, <2>5, <2>6 DEF L, size, Extracts
<1> QED BY <1>2, <1>3

(* What it makes of the buffer. *)
Decoded(b, g) ==
  /\ b[1] = REGISTER =>
       g = [type |-> REGISTER, payloadLengh |-> b[2], typeNode |-> b[3],
            message |-> UpToNull(Message(b, 3))]
  /\ b[1] = PONG =>
       g = [type |-> PONG, payloadLengh |-> b[2], message |-> Message(b, 2)]
  /\ b[1] \notin {REGISTER, PONG} => g = Nothing

(* What decode makes of a buffer depends on the first byte.                *)
LEMMA DecodeFacts ==
  ASSUME NEW b \in [1..256 -> Byte]
  PROVE  Decoded(b, decode(b))
<1> DEFINE g == decode(b)
<1>1. b[1] \in Byte /\ b[2] \in Byte /\ b[3] \in Byte
  <2>1. 1 \in 1..256 /\ 2 \in 1..256 /\ 3 \in 1..256
    OBVIOUS
  <2> QED BY <2>1
<1>2. get_bits(b, 0, 8) = b[1] /\ get_bits(b, 8, 8) = b[2] /\ get_bits(b, 16, 8) = b[3]
  <2>1. ASSUME NEW j \in {1, 2, 3}, NEW k, k = 8 * (j - 1)
        PROVE  get_bits(b, k, 8) = b[j]
    <3>1. j \in Nat \ {0} /\ b[j] \in Byte
      BY <1>1
    <3> QED BY <2>1, <3>1, ReadByte
  <2>2. 0 = 8 * (1 - 1) /\ 8 = 8 * (2 - 1) /\ 16 = 8 * (3 - 1)
    OBVIOUS
  <2>3. get_bits(b, 0, 8) = b[1]
    BY <2>1, <2>2
  <2>4. get_bits(b, 8, 8) = b[2]
    BY <2>1, <2>2
  <2>5. get_bits(b, 16, 8) = b[3]
    BY <2>1, <2>2
  <2> QED BY <2>3, <2>4, <2>5
<1>3. CASE b[1] = REGISTER
  <2>1. HeaderLength(b[1]) = 3 /\ b[1] # PONG
    BY <1>3 DEF HeaderLength, REGISTER, PONG
  <2> DEFINE m == IF b[2] - 3 > 0 THEN get_string(b, 8 * 3, b[2] - 3) ELSE <<>>
  <2>2. m = Message(b, 3)
    <3>1. Extracts(b, 3, Message(b, 3))
      BY MessageFacts
    <3> QED BY <3>1 DEF Extracts
  <2>3. g = [type |-> REGISTER, payloadLengh |-> b[2], typeNode |-> b[3],
             message |-> UpToNull(m)]
    BY <1>2, <1>3, <2>1 DEF decode
  <2> HIDE DEF m, g
  <2> QED BY <1>3, <2>1, <2>2, <2>3 DEF Decoded, g
<1>4. CASE b[1] = PONG
  <2>1. HeaderLength(b[1]) = 2 /\ b[1] # REGISTER
    BY <1>4 DEF HeaderLength, REGISTER, PONG
  <2> DEFINE m == IF b[2] - 2 > 0 THEN get_string(b, 8 * 2, b[2] - 2) ELSE <<>>
  <2>2. m = Message(b, 2)
    <3>1. Extracts(b, 2, Message(b, 2))
      BY MessageFacts
    <3> QED BY <3>1 DEF Extracts
  <2>3. g = [type |-> PONG, payloadLengh |-> b[2], message |-> m]
    BY <1>2, <1>4, <2>1 DEF decode
  <2> HIDE DEF m, g
  <2> QED BY <1>4, <2>1, <2>2, <2>3 DEF Decoded, g
<1>5. CASE b[1] \notin {REGISTER, PONG}
  <2>1. g = Nothing
    BY <1>2, <1>5 DEF decode
  <2> QED BY <1>5, <2>1 DEF Decoded
<1> QED BY <1>3, <1>4, <1>5

(* The larger of two numbers is in their range. *)
LEMMA MaxOfTwo ==
  ASSUME NEW a \in 0..255, NEW b \in 0..255
  PROVE  Max({a, b}) \in 0..255
<1> DEFINE S == {a, b}
           x == CHOOSE x \in S : \A y \in S : x >= y
<1>1. \E y \in S : \A z \in S : y >= z
  <2>1. CASE a >= b
    BY <2>1
  <2>2. CASE ~(a >= b)
    BY <2>2
  <2> QED BY <2>1, <2>2
<1>2. x \in S
  <2> HIDE DEF S
  <2> QED BY <1>1
<1>3. x = a \/ x = b
  BY <1>2
<1> HIDE DEF x
<1>4. x \in 0..255
  BY <1>3
<1> QED BY <1>4 DEF Max, x

(* The offset stays in the buffer. *)
LEMMA OffsetInBuffer ==
  ASSUME NEW a \in 0..255, NEW b \in 0..255
  PROVE  8 * Max({a, b}) \in Nat /\ 8 * Max({a, b}) <= 8 * BUFFER_SIZE
<1> DEFINE m == Max({a, b})
<1>1. m \in 0..255
  BY MaxOfTwo
<1> HIDE DEF m
<1>2. 8 * m \in Nat /\ 8 * m <= 8 * BUFFER_SIZE
  BY <1>1 DEF BUFFER_SIZE
<1> QED BY <1>2 DEF m

(* Whatever datagram comes: what the manager decodes is a message with     *)
(* bytes in it, it has read no further than its buffer, and a REGISTER of  *)
(* a type other than BASE has its type from the datagram.                  *)
DecodesSafely(d, g) ==
  /\ g # Nothing => g.type \in {REGISTER, PONG} /\ g.message \in Seq(Byte)
  /\ DecodeOffset(g) \in Nat /\ DecodeOffset(g) <= 8 * BUFFER_SIZE
  /\ g.type = REGISTER /\ g.typeNode # BASE => Len(d) >= 3

(* Whatever arrives, decode is safe.                                       *)
LEMMA AnyDatagram ==
  ASSUME NEW d \in Seq(Byte)
  PROVE  DecodesSafely(d, decode(recvDataUDP(d)))
<1> DEFINE b == recvDataUDP(d)
           g == decode(b)
<1>1. b \in [1..256 -> Byte] /\ \A i \in 1..256 : b[i] = IF i <= Len(d) THEN d[i] ELSE 0
  BY Received
<1> HIDE DEF b
<1>2. Decoded(b, g)
  BY <1>1, DecodeFacts
<1> HIDE DEF g
<1>3. b[2] \in 0..255
  <2>1. 2 \in 1..256
    OBVIOUS
  <2>2. b[2] \in Byte
    BY <1>1, <2>1
  <2> QED BY <2>2 DEF Byte
<1>4. Message(b, 3) \in Seq(Byte) /\ Message(b, 2) \in Seq(Byte)
  <2>1. 2 \in 2..3 /\ 3 \in 2..3
    OBVIOUS
  <2>2. Extracts(b, 3, Message(b, 3)) /\ Extracts(b, 2, Message(b, 2))
    BY <1>1, <2>1, MessageFacts
  <2> QED BY <2>2 DEF Extracts
<1>5. ASSUME b[1] = REGISTER
      PROVE  DecodesSafely(d, g)
  <2> DEFINE message == UpToNull(Message(b, 3))
  <2>1. message \in Seq(Byte)
    BY <1>4, UpToNullTwice
  <2> HIDE DEF message
  <2>2. g = [type |-> REGISTER, payloadLengh |-> b[2], typeNode |-> b[3],
             message |-> message]
    BY <1>2, <1>5 DEF Decoded, message
  <2>3. /\ g.type = REGISTER /\ g.payloadLengh = b[2] /\ g.typeNode = b[3]
        /\ g.message \in Seq(Byte) /\ HeaderLength(g.type) = 3
    BY <2>1, <2>2 DEF HeaderLength
  <2>4. g # Nothing
    BY <2>3 DEF Nothing, REGISTER
  <2>6. DecodeOffset(g) = 8 * Max({3, b[2]})
    BY <2>3, <2>4 DEF DecodeOffset
  <2>7. DecodeOffset(g) \in Nat /\ DecodeOffset(g) <= 8 * BUFFER_SIZE
    <3>1. 3 \in 0..255
      OBVIOUS
    <3> QED BY <1>3, <2>6, <3>1, OffsetInBuffer
  <2>8. b[3] # 0 => Len(d) >= 3
    <3>1. 3 \in 1..256 /\ Len(d) \in Nat
      OBVIOUS
    <3>2. ~(3 <= Len(d)) => b[3] = 0
      BY <1>1, <3>1
    <3> QED BY <3>1, <3>2
  <2> QED BY <2>3, <2>7, <2>8 DEF DecodesSafely, BASE
<1>6. ASSUME b[1] = PONG
      PROVE  DecodesSafely(d, g)
  <2>1. g = [type |-> PONG, payloadLengh |-> b[2], message |-> Message(b, 2)]
    BY <1>2, <1>6 DEF Decoded
  <2>2. /\ g.type = PONG /\ g.payloadLengh = b[2] /\ g.message \in Seq(Byte)
        /\ HeaderLength(g.type) = 2 /\ g.type # REGISTER
    BY <1>4, <2>1 DEF HeaderLength, PONG, REGISTER
  <2>3. g # Nothing
    BY <2>2 DEF Nothing, PONG
  <2>5. DecodeOffset(g) = 8 * Max({2, b[2]})
    BY <2>2, <2>3 DEF DecodeOffset
  <2>6. DecodeOffset(g) \in Nat /\ DecodeOffset(g) <= 8 * BUFFER_SIZE
    <3>1. 2 \in 0..255
      OBVIOUS
    <3> QED BY <1>3, <2>5, <3>1, OffsetInBuffer
  <2> QED BY <2>2, <2>6 DEF DecodesSafely
<1>7. ASSUME b[1] \notin {REGISTER, PONG}
      PROVE  DecodesSafely(d, g)
  <2>1. g = Nothing /\ g.type # REGISTER
    BY <1>2, <1>7 DEF Decoded, Nothing, REGISTER
  <2>2. DecodeOffset(g) = 8
    BY <2>1 DEF DecodeOffset
  <2> QED BY <2>1, <2>2 DEF DecodesSafely, BUFFER_SIZE
<1>8. DecodesSafely(d, g)
  BY <1>5, <1>6, <1>7
<1> QED BY <1>8 DEF b, g

(* The messages of a client, and their bytes. *)
IsRegister(p) == p.type = REGISTER /\ p.typeNode \in Byte /\ p.message \in Seq(Byte)
IsPong(p) == p.type = PONG /\ p.message \in Seq(Byte)

Built(p) ==
  IF p.type = REGISTER THEN Build(REGISTER, <<p.typeNode>> \o p.message)
                       ELSE Build(PONG, p.message)

(* What Build makes is a string with the type, its length and the body. *)
BuiltIs(type, body, d) ==
  /\ d \in Seq(Byte) /\ Len(d) = 2 + Len(body)
  /\ d[1] = type /\ d[2] = Len(d)
  /\ \A i \in 1..Len(body) : d[2 + i] = body[i]

(* The builder of the clients writes type, length and body.                *)
LEMMA BuildFacts ==
  ASSUME NEW type \in Byte, NEW body \in Seq(Byte), Len(Build(type, body)) <= 255
  PROVE  BuiltIs(type, body, Build(type, body))
<1> DEFINE h == <<type, 2 + Len(body)>>
           d == h \o body
<1>1. Build(type, body) = d /\ Len(body) \in Nat
  BY DEF Build
<1>2. h \in Seq(Int) /\ body \in Seq(Int) /\ Len(h) = 2 /\ h[1] = type /\ h[2] = 2 + Len(body)
  <2>1. Byte \subseteq Int
    BY DEF Byte
  <2>2. type \in Int /\ 2 + Len(body) \in Int
    BY <1>1, <2>1
  <2>3. body \in Seq(Int)
    <3>1. body \in [1..Len(body) -> Byte] /\ Len(body) \in Nat
      OBVIOUS
    <3>2. body \in [1..Len(body) -> Int]
      BY <2>1, <3>1
    <3> QED BY <3>1, <3>2, FunctionIsSeq
  <2> QED BY <2>2, <2>3
<1> HIDE DEF h
<1>3. /\ Len(d) = Len(h) + Len(body)
      /\ \A i \in 1..(Len(h) + Len(body)) :
           d[i] = IF i <= Len(h) THEN h[i] ELSE body[i - Len(h)]
  <2> HIDE <1>1
  <2>1. Len(d) = Len(h) + Len(body)
    BY <1>2, ConcatProperties, ZenonT(60)
  <2>2. ASSUME NEW i \in 1..(Len(h) + Len(body))
        PROVE  d[i] = IF i <= Len(h) THEN h[i] ELSE body[i - Len(h)]
    BY <1>2, ConcatProperties, ZenonT(60)
  <2> QED BY <2>1, <2>2
<1>4. Len(d) <= 255
  BY <1>1
<1> HIDE DEF d
<1>5. Len(d) = 2 + Len(body) /\ 2 + Len(body) \in 0..255
  <2>1. Len(d) = 2 + Len(body)
    BY <1>2, <1>3
  <2>2. Len(body) \in Nat
    BY <1>1
  <2> DEFINE n == Len(body)
  <2>3. 2 + n <= 255 /\ n \in Nat
    BY <1>4, <2>1, <2>2
  <2> HIDE DEF n
  <2>4. 2 + n \in 0..255
    BY <2>3
  <2> QED BY <2>1, <2>4 DEF n
<1>6. d \in Seq(Byte)
  <2>1. 2 + Len(body) \in Byte
    BY <1>5 DEF Byte
  <2>2. h \in Seq(Byte)
    BY <2>1 DEF h
  <2> QED BY <2>2, ConcatProperties DEF d
<1>7. d[1] = type /\ d[2] = 2 + Len(body)
  <2>1. 1 \in 1..(2 + Len(body)) /\ 2 \in 1..(2 + Len(body))
    BY <1>1
  <2> QED BY <1>2, <1>3, <2>1
<1>8. ASSUME NEW i \in 1..Len(body)
      PROVE  d[2 + i] = body[i]
  <2>1. 2 + i \in 1..(2 + Len(body)) /\ ~(2 + i <= 2) /\ (2 + i) - 2 = i
    BY <1>1
  <2> QED BY <1>2, <1>3, <2>1
<1>9. BuiltIs(type, body, d)
  BY <1>5, <1>6, <1>7, <1>8 DEF BuiltIs
<1> QED BY <1>1, <1>9

(* The manager has the type of what a client built, and behind the header  *)
(* the rest of its body.                                                   *)
Carries(b, type, body) ==
  /\ b \in [1..256 -> Byte] /\ b[1] = type /\ b[2] = 2 + Len(body)
  /\ \A i \in 1..Len(body) : b[2 + i] = body[i]

(* The manager receives it byte by byte.                                   *)
LEMMA BuiltReceived ==
  ASSUME NEW type, NEW body \in Seq(Byte), NEW d, BuiltIs(type, body, d), Len(d) <= 255
  PROVE  Carries(recvDataUDP(d), type, body)
<1> DEFINE b == recvDataUDP(d)
           n == Len(body)
<1>1. /\ d \in Seq(Byte) /\ Len(d) = 2 + n /\ d[1] = type /\ d[2] = 2 + n
      /\ \A i \in 1..n : d[2 + i] = body[i]
  BY DEF BuiltIs
<1>2. b \in [1..256 -> Byte] /\ \A i \in 1..256 : b[i] = IF i <= Len(d) THEN d[i] ELSE 0
  BY <1>1, Received
<1>3. n \in Nat /\ 2 + n <= 255
  BY <1>1
<1> HIDE DEF n, b
<1>4. ASSUME NEW i \in 1..(2 + n)
      PROVE  b[i] = d[i]
  <2>1. i \in 1..256 /\ i <= Len(d)
    BY <1>1, <1>3
  <2> QED BY <1>2, <2>1
<1>5. b[1] = type /\ b[2] = 2 + n
  <2>1. 1 \in 1..(2 + n) /\ 2 \in 1..(2 + n)
    BY <1>3
  <2> QED BY <1>1, <1>4, <2>1
<1>6. ASSUME NEW i \in 1..n
      PROVE  b[2 + i] = body[i]
  <2>1. 2 + i \in 1..(2 + n)
    BY <1>3
  <2> QED BY <1>1, <1>4, <2>1
<1> QED BY <1>2, <1>5, <1>6 DEF Carries, b, n

(* The text the manager finds is the text the client put in.               *)
LEMMA BodyDecoded ==
  ASSUME NEW b, NEW type, NEW body \in Seq(Byte), Carries(b, type, body),
         NEW k \in 2..3, NEW m \in Seq(Byte), Len(body) = (k - 2) + Len(m),
         \A i \in 1..Len(m) : body[(k - 2) + i] = m[i]
  PROVE  Message(b, k) = m
<1> DEFINE s == Message(b, k)
           n == Len(m)
<1>1. /\ n \in Nat /\ Len(body) = (k - 2) + n
      /\ \A i \in 1..n : body[(k - 2) + i] = m[i]
  OBVIOUS
<1>2. /\ b \in [1..256 -> Byte] /\ b[2] = 2 + Len(body)
      /\ \A i \in 1..Len(body) : b[2 + i] = body[i]
  BY DEF Carries
<1> HIDE DEF n
<1>3. Extracts(b, k, s)
  BY <1>2, MessageFacts
<1> HIDE DEF s
<1>4. /\ s \in Seq(Byte) /\ Len(s) = (IF b[2] > k THEN b[2] - k ELSE 0)
      /\ \A i \in 1..Len(s) : s[i] = b[k + i]
  BY <1>3 DEF Extracts
<1>5. b[2] = k + n
  BY <1>1, <1>2
<1>6. Len(s) = n
  BY <1>1, <1>4, <1>5
<1>7. ASSUME NEW i \in 1..n
      PROVE  s[i] = m[i]
  <2>1. /\ (k - 2) + i \in 1..((k - 2) + n) /\ 2 + ((k - 2) + i) = k + i
    BY <1>1
  <2>2. b[2 + ((k - 2) + i)] = body[(k - 2) + i]
    BY <1>1, <1>2, <2>1
  <2>3. s[i] = b[k + i]
    BY <1>4, <1>6
  <2> QED BY <1>1, <2>1, <2>2, <2>3
<1>8. s = m
  BY <1>4, <1>6, <1>7, SeqEqual DEF n
<1> QED BY <1>8 DEF s

(* The manager decodes the message that the client meant. *)
Gets(p, g) ==
  /\ g.type = p.type /\ UpToNull(g.message) = UpToNull(p.message)
  /\ p.type = REGISTER => g.typeNode = p.typeNode
  /\ p.type = PONG => g.message = p.message

(* decode undoes what the clients build.                                   *)
LEMMA ManagerDecodes ==
  ASSUME NEW p, IsRegister(p) \/ IsPong(p), Len(Built(p)) <= 255
  PROVE  Built(p) \in Seq(Byte) /\ Gets(p, decode(recvDataUDP(Built(p))))
<1> DEFINE d == Built(p)
           b == recvDataUDP(d)
           g == decode(b)
           m == p.message
           typeNode == p.typeNode
<1>1. CASE IsRegister(p)
  <2> DEFINE body == <<typeNode>> \o m
  <2>1. p.type = REGISTER /\ typeNode \in Byte /\ m \in Seq(Byte) /\ d = Build(REGISTER, body)
    BY <1>1 DEF IsRegister, Built
  <2>2. p.type # PONG /\ REGISTER \in Byte /\ Len(Build(REGISTER, body)) <= 255
    BY <2>1 DEF REGISTER, PONG, Byte
  <2> HIDE DEF typeNode, m
  <2>3. /\ body \in Seq(Byte) /\ Len(body) = 1 + Len(m) /\ body[1] = typeNode
        /\ \A i \in 1..Len(m) : body[1 + i] = m[i]
    BY <2>1
  <2> HIDE DEF body, d, b, g
  <2>4. BuiltIs(REGISTER, body, d)
    BY <2>1, <2>2, <2>3, BuildFacts
  <2>5. Carries(b, REGISTER, body)
    BY <2>1, <2>2, <2>3, <2>4, BuiltReceived DEF b
  <2>6. Decoded(b, g)
    BY <2>5, DecodeFacts DEF Carries, g
  <2>7. b[1] = REGISTER /\ b[3] = typeNode
    <3>1. 1 \in 1..Len(body) /\ 2 + 1 = 3
      BY <2>1, <2>3
    <3>2. b[1] = REGISTER /\ b[2 + 1] = body[1]
      BY <2>5, <3>1 DEF Carries
    <3> QED BY <2>3, <3>1, <3>2
  <2>8. Message(b, 3) = m
    <3>1. 3 \in 2..3 /\ 3 - 2 = 1
      OBVIOUS
    <3>2. Len(body) = (3 - 2) + Len(m) /\ \A i \in 1..Len(m) : body[(3 - 2) + i] = m[i]
      BY <2>3, <3>1
    <3> QED BY <2>1, <2>3, <2>5, <3>1, <3>2, BodyDecoded
  <2>9. g = [type |-> REGISTER, payloadLengh |-> b[2], typeNode |-> typeNode,
             message |-> UpToNull(m)]
    BY <2>6, <2>7, <2>8 DEF Decoded
  <2>10. UpToNull(UpToNull(m)) = UpToNull(m)
    BY <2>1, UpToNullTwice
  <2>11. g.type = REGISTER /\ g.typeNode = typeNode /\ g.message = UpToNull(m)
    BY <2>9
  <2>12. Gets(p, g)
    BY <2>1, <2>2, <2>10, <2>11 DEF Gets, m, typeNode
  <2>13. d \in Seq(Byte)
    BY <2>4 DEF BuiltIs
  <2> QED BY <2>12, <2>13 DEF d, b, g
<1>2. CASE IsPong(p)
  <2>1. p.type = PONG /\ p.type # REGISTER /\ m \in Seq(Byte) /\ d = Build(PONG, m)
    BY <1>2 DEF IsPong, Built, PONG, REGISTER
  <2>2. PONG \in Byte /\ Len(Build(PONG, m)) <= 255
    BY <2>1 DEF PONG, Byte
  <2> HIDE DEF d, b, g, m
  <2>3. BuiltIs(PONG, m, d)
    BY <2>1, <2>2, BuildFacts
  <2>4. Carries(b, PONG, m)
    BY <2>1, <2>2, <2>3, BuiltReceived DEF b
  <2>5. Decoded(b, g)
    BY <2>4, DecodeFacts DEF Carries, g
  <2>6. Message(b, 2) = m
    <3>1. 2 \in 2..3 /\ 2 - 2 = 0
      OBVIOUS
    <3>2. Len(m) = (2 - 2) + Len(m) /\ \A i \in 1..Len(m) : m[(2 - 2) + i] = m[i]
      BY <2>1, <3>1
    <3> QED BY <2>1, <2>4, <3>1, <3>2, BodyDecoded
  <2>7. g = [type |-> PONG, payloadLengh |-> b[2], message |-> m]
    BY <2>4, <2>5, <2>6 DEF Decoded, Carries
  <2>8. g.type = PONG /\ g.message = m
    BY <2>7
  <2>9. Gets(p, g)
    BY <2>1, <2>8 DEF Gets, m
  <2>10. d \in Seq(Byte)
    BY <2>3 DEF BuiltIs
  <2> QED BY <2>9, <2>10 DEF d, b, g
<1> QED BY <1>1, <1>2

-----------------------------------------------------------------------------
(* What a state is in the middle of: the packet that somebody meant, if    *)
(* anybody, its bytes, and what the receiver has made of them.             *)
Down == packet.type \in {PING, NOTIFY}

PacketOK ==
  \/ packet = Nothing
  \/ IsPing(packet) \/ IsNotify(packet) \/ IsRegister(packet) \/ IsPong(packet)

AtOK ==
  /\ at \in {"idle", "down", "up", "read"}
  /\ at = "idle" => packet = Nothing /\ offset = 0
  /\ at = "down" => Down
  /\ at = "up" => ~Down /\ offset = 0
  /\ at # "read" => got = Nothing

DatagramOK ==
  /\ Down => datagram = Payload(packet)
  /\ ~Down => datagram \in Seq(Byte) /\ Len(datagram) <= 255
  /\ packet.type \in {REGISTER, PONG} => datagram = Built(packet)

ReadOK ==
  /\ Down => offset = encode(packet).offset
  /\ at = "read" /\ Down => got = parse_incoming_packet(datagram)
  /\ at = "read" /\ ~Down =>
       got = decode(recvDataUDP(datagram)) /\ offset = DecodeOffset(got)

CodecInv == PacketOK /\ AtOK /\ DatagramOK /\ ReadOK

(* A packet of each kind is of its type. *)
LEMMA Kinds ==
  ASSUME NEW p
  PROVE  /\ IsPing(p) => p.type = PING
         /\ IsNotify(p) => p.type = NOTIFY
         /\ IsRegister(p) => p.type = REGISTER
         /\ IsPong(p) => p.type = PONG
         /\ p = Nothing => p.type = -1
BY DEF IsPing, IsNotify, IsRegister, IsPong, Nothing

(* The type of a message says which kind of record it is.                  *)
LEMMA DownKinds ==
  ASSUME PacketOK
  PROVE  /\ Down => IsPing(packet) \/ IsNotify(packet)
         /\ packet.type \in {REGISTER, PONG} => IsRegister(packet) \/ IsPong(packet)
<1>1. /\ IsPing(packet) => packet.type = 1
      /\ IsNotify(packet) => packet.type = 3
      /\ IsRegister(packet) => packet.type = 0
      /\ IsPong(packet) => packet.type = 2
      /\ packet = Nothing => packet.type = -1
  BY Kinds DEF PING, NOTIFY, REGISTER, PONG
<1> QED BY <1>1 DEF PacketOK, Down, PING, NOTIFY, REGISTER, PONG

(* The invariant holds at the start.                                       *)
LEMMA CodecInit == Init => CodecInv
<1> SUFFICES ASSUME Init
             PROVE  CodecInv
  OBVIOUS
<1>1. at = "idle" /\ packet = Nothing /\ datagram = <<>> /\ got = Nothing /\ offset = 0
  BY DEF Init
<1>2. packet.type = -1
  BY <1>1, Kinds
<1>3. ~Down /\ packet.type \notin {REGISTER, PONG}
  BY <1>2 DEF Down, PING, NOTIFY, REGISTER, PONG
<1>4. datagram \in Seq(Byte) /\ Len(datagram) <= 255
  BY <1>1
<1> QED BY <1>1, <1>3, <1>4 DEF CodecInv, PacketOK, AtOK, DatagramOK, ReadOK

(* The manager sends a packet. *)
LEMMA SendStep ==
  ASSUME CodecInv, NEW p, IsPing(p) \/ IsNotify(p), Send(p)
  PROVE  CodecInv'
<1>1. /\ at = "idle" /\ at' = "down" /\ packet' = p /\ got' = got
      /\ datagram' = Payload(p) /\ offset' = encode(p).offset
  BY DEF Send, Payload
<1>2. got' = Nothing
  BY <1>1 DEF CodecInv, AtOK
<1>3. p.type \in {PING, NOTIFY} /\ p.type \notin {REGISTER, PONG}
  BY Kinds DEF PING, NOTIFY, REGISTER, PONG
<1>4. Down' /\ packet'.type \notin {REGISTER, PONG}
  BY <1>1, <1>3 DEF Down
<1>5. PacketOK' /\ AtOK'
  BY <1>1, <1>2, <1>4 DEF PacketOK, AtOK
<1>6. DatagramOK' /\ ReadOK'
  BY <1>1, <1>4 DEF DatagramOK, ReadOK
<1> QED BY <1>5, <1>6 DEF CodecInv

(* A client, or somebody else, sends a datagram. *)
LEMMA ArriveStep ==
  ASSUME CodecInv, NEW p, NEW d, Arrive(p, d),
         \/ p = Nothing /\ d \in Seq(Byte)
         \/ (IsRegister(p) \/ IsPong(p)) /\ d = Built(p)
  PROVE  CodecInv'
<1>1. /\ at = "idle" /\ at' = "up" /\ packet' = p /\ datagram' = d /\ Len(d) <= 255
      /\ got' = got /\ offset' = offset
  BY DEF Arrive
<1>2. got' = Nothing /\ offset' = 0
  BY <1>1 DEF CodecInv, AtOK
<1>3. p.type \notin {PING, NOTIFY}
  BY Kinds DEF PING, NOTIFY, REGISTER, PONG
<1>4. ~Down'
  BY <1>1, <1>3 DEF Down
<1>5. PacketOK' /\ AtOK'
  BY <1>1, <1>2, <1>4 DEF PacketOK, AtOK
<1>6. d \in Seq(Byte) /\ (p.type \in {REGISTER, PONG} => d = Built(p))
  <2>1. CASE p = Nothing /\ d \in Seq(Byte)
    <3>1. p.type = -1
      BY <2>1, Kinds
    <3> QED BY <2>1, <3>1 DEF REGISTER, PONG
  <2>2. CASE (IsRegister(p) \/ IsPong(p)) /\ d = Built(p)
    BY <1>1, <2>2, ManagerDecodes
  <2> QED BY <2>1, <2>2
<1>7. DatagramOK' /\ ReadOK'
  BY <1>1, <1>4, <1>6 DEF DatagramOK, ReadOK
<1> QED BY <1>5, <1>7 DEF CodecInv

(* Every step keeps the invariant. *)
LEMMA CodecStep == CodecInv /\ [Next]_vars => CodecInv'
<1> SUFFICES ASSUME CodecInv, [Next]_vars
             PROVE  CodecInv'
  OBVIOUS
<1>0. /\ \A text \in Texts : text \in Seq(Byte)
      /\ \A typeNode \in Types : typeNode \in Byte
      /\ \A port \in Ports : port \in Port
      /\ \A d \in Datagrams : d \in Seq(Byte)
  BY CodecAssumption
<1>1. ASSUME NEW text \in Texts, checkPingMessage(text)
      PROVE  CodecInv'
  <2> DEFINE p == [type |-> PING, payloadLengh |-> PING_PLAYLOADLENGTH, message |-> text]
  <2>1. text \in Seq(Byte) /\ Send(p)
    BY <1>0, <1>1 DEF checkPingMessage
  <2>2. IsPing(p)
    BY <2>1 DEF IsPing
  <2> HIDE DEF p
  <2> QED BY <2>1, <2>2, SendStep
<1>2. ASSUME NEW text \in Texts, NEW typeNode \in Types, NEW port \in Ports,
             checkNotifyMessage(typeNode, port, text)
      PROVE  CodecInv'
  <2> DEFINE p == [type |-> NOTIFY, payloadLengh |-> NOTIFY_PLAYLOADLENGTH,
                   typeNode |-> typeNode, portNodeNotify |-> SinPort(port),
                   stateNodeNotify |-> TIMEOUT, port |-> port, message |-> text]
  <2>1. Send(p)
    BY <1>2 DEF checkNotifyMessage
  <2>2. text \in Seq(Byte) /\ typeNode \in Byte /\ port \in Port
    BY <1>0
  <2>3. IsNotify(p)
    BY <2>2 DEF IsNotify
  <2> HIDE DEF p
  <2> QED BY <2>1, <2>3, SendStep
<1>3. ASSUME NEW text \in Texts, NEW typeNode \in Types, send_register(typeNode, text)
      PROVE  CodecInv'
  <2> DEFINE p == [type |-> REGISTER, typeNode |-> typeNode, message |-> text]
             d == Build(REGISTER, <<typeNode>> \o text)
  <2>1. Arrive(p, d)
    BY <1>3 DEF send_register
  <2>2. text \in Seq(Byte) /\ typeNode \in Byte
    BY <1>0
  <2>3. IsRegister(p) /\ d = Built(p)
    BY <2>2 DEF IsRegister, Built
  <2> HIDE DEF p, d
  <2> QED BY <2>1, <2>3, ArriveStep
<1>4. ASSUME NEW text \in Texts, send_pong(text)
      PROVE  CodecInv'
  <2> DEFINE p == [type |-> PONG, message |-> text]
             d == Build(PONG, text)
  <2>1. Arrive(p, d)
    BY <1>4 DEF send_pong
  <2>2. text \in Seq(Byte)
    BY <1>0
  <2>3. IsPong(p) /\ d = Built(p)
    BY <2>2 DEF IsPong, Built, PONG, REGISTER
  <2> HIDE DEF p, d
  <2> QED BY <2>1, <2>3, ArriveStep
<1>5. ASSUME NEW d \in Datagrams, Arrive(Nothing, d)
      PROVE  CodecInv'
  BY <1>0, <1>5, ArriveStep
<1>6. ASSUME udp_listener
      PROVE  CodecInv'
  <2>1. /\ at = "down" /\ at' = "read" /\ got' = parse_incoming_packet(datagram)
        /\ packet' = packet /\ datagram' = datagram /\ offset' = offset
    BY <1>6 DEF udp_listener
  <2>2. Down /\ Down'
    BY <2>1 DEF CodecInv, AtOK, Down
  <2>3. PacketOK' /\ AtOK'
    BY <2>1, <2>2 DEF CodecInv, PacketOK, AtOK
  <2>4. DatagramOK' /\ ReadOK'
    BY <2>1, <2>2 DEF CodecInv, DatagramOK, ReadOK
  <2> QED BY <2>3, <2>4 DEF CodecInv
<1>7. ASSUME pushMessageReceived
      PROVE  CodecInv'
  <2>1. /\ at = "up" /\ at' = "read" /\ got' = decode(recvDataUDP(datagram))
        /\ offset' = DecodeOffset(got') /\ packet' = packet /\ datagram' = datagram
    BY <1>7 DEF pushMessageReceived
  <2>2. ~Down /\ ~Down'
    BY <2>1 DEF CodecInv, AtOK, Down
  <2>3. PacketOK' /\ AtOK'
    BY <2>1, <2>2 DEF CodecInv, PacketOK, AtOK
  <2>4. DatagramOK' /\ ReadOK'
    BY <2>1, <2>2 DEF CodecInv, DatagramOK, ReadOK
  <2> QED BY <2>3, <2>4 DEF CodecInv
<1>8. ASSUME Finish
      PROVE  CodecInv'
  <2>1. /\ at' = "idle" /\ packet' = Nothing /\ datagram' = <<>> /\ got' = Nothing
        /\ offset' = 0
    BY <1>8 DEF Finish
  <2>2. packet'.type = -1
    BY <2>1 DEF Nothing
  <2>3. ~Down' /\ packet'.type \notin {REGISTER, PONG}
    BY <2>2 DEF Down, PING, NOTIFY, REGISTER, PONG
  <2>4. datagram' \in Seq(Byte) /\ Len(datagram') <= 255
    BY <2>1
  <2> QED BY <2>1, <2>3, <2>4 DEF CodecInv, PacketOK, AtOK, DatagramOK, ReadOK
<1>9. ASSUME UNCHANGED vars
      PROVE  CodecInv'
  <2>1. /\ at' = at /\ packet' = packet /\ datagram' = datagram /\ got' = got
        /\ offset' = offset
    BY <1>9 DEF vars
  <2> QED BY <2>1 DEF CodecInv, PacketOK, AtOK, DatagramOK, ReadOK, Down
<1> QED BY <1>1, <1>2, <1>3, <1>4, <1>5, <1>6, <1>7, <1>8, <1>9 DEF Next

(* The invariant holds in every reachable state.                           *)
LEMMA CodecInvariant == Spec => []CodecInv
BY CodecInit, CodecStep, PTL DEF Spec

-----------------------------------------------------------------------------
(* The variables keep their types: an offset is never lost, and what is    *)
(* received consists of bytes again.                                       *)
THEOREM CodecTypeCorrect == Spec => []TypeOK
<1>1. CodecInv => TypeOK
  <2> SUFFICES ASSUME CodecInv
               PROVE  TypeOK
    OBVIOUS
  <2>1. PacketOK /\ AtOK /\ DatagramOK /\ ReadOK
    BY DEF CodecInv
  <2>2. packet = Nothing \/ packet.type \in REGISTER..NOTIFY
    BY <2>1, Kinds DEF PacketOK, PING, NOTIFY, REGISTER, PONG
  <2>3. ASSUME Down
        PROVE  datagram \in Seq(Byte) /\ offset \in Nat
    <3>1. IsPing(packet) \/ IsNotify(packet)
      BY <2>1, <2>3, DownKinds
    <3>2. Bytes(packet) \in Seq(Byte)
      BY <3>1, EncodeHolds DEF Holds
    <3>3. datagram = Payload(packet) /\ offset = encode(packet).offset
      BY <2>1, <2>3 DEF DatagramOK, ReadOK
    <3>4. Payload(packet) \in Seq(Byte) /\ encode(packet).offset = 8 * Len(Bytes(packet))
      BY <3>1, PayloadSpelled
    <3>5. 8 * Len(Bytes(packet)) \in Nat
      <4> DEFINE n == Len(Bytes(packet))
      <4>1. n \in Nat
        BY <3>2
      <4> HIDE DEF n
      <4>2. 8 * n \in Nat
        BY <4>1
      <4> QED BY <4>2 DEF n
    <3> QED BY <3>3, <3>4, <3>5
  <2>4. ASSUME ~Down
        PROVE  datagram \in Seq(Byte) /\ offset \in Nat
    <3>1. datagram \in Seq(Byte)
      BY <2>1, <2>4 DEF DatagramOK
    <3>2. CASE at = "read"
      <4>1. offset = DecodeOffset(decode(recvDataUDP(datagram)))
        BY <2>1, <2>4, <3>2 DEF ReadOK
      <4> QED BY <3>1, <4>1, AnyDatagram DEF DecodesSafely
    <3>3. CASE at # "read"
      <4>1. offset = 0
        BY <2>1, <2>4, <3>3 DEF AtOK
      <4> QED BY <3>1, <4>1
    <3> QED BY <3>2, <3>3
  <2>5. ASSUME got # Nothing
        PROVE  got.type \in REGISTER..NOTIFY /\ got.message \in Seq(Byte)
    <3>1. at = "read"
      BY <2>1, <2>5 DEF AtOK
    <3>2. CASE Down
      <4>1. IsPing(packet) \/ IsNotify(packet)
        BY <2>1, <3>2, DownKinds
      <4>2. got = parse_incoming_packet(Payload(packet))
        BY <2>1, <3>1, <3>2 DEF DatagramOK, ReadOK
      <4>3. got.type = packet.type /\ got.message \in Seq(Byte)
        BY <4>1, <4>2, ClientDecodes DEF Understands
      <4>4. packet.type \in REGISTER..NOTIFY
        BY <3>2 DEF Down, PING, NOTIFY, REGISTER
      <4> QED BY <4>3, <4>4
    <3>3. CASE ~Down
      <4>1. got = decode(recvDataUDP(datagram)) /\ datagram \in Seq(Byte)
        BY <2>1, <2>4, <3>1, <3>3 DEF ReadOK
      <4>2. got.type \in {REGISTER, PONG} /\ got.message \in Seq(Byte)
        BY <2>5, <4>1, AnyDatagram DEF DecodesSafely
      <4> QED BY <4>2 DEF REGISTER, PONG, NOTIFY
    <3> QED BY <3>2, <3>3
  <2>6. at \in {"idle", "down", "up", "read"}
    BY <2>1 DEF AtOK
  <2> QED BY <2>2, <2>3, <2>4, <2>5, <2>6 DEF TypeOK
<1> QED BY <1>1, CodecInvariant, PTL

(* The client gets what the manager meant, for every text, type, port and  *)
(* payload length: PingPacket::encode and NotifyPacket::encode.            *)
THEOREM ClientUnderstandsCorrect == Spec => []ClientUnderstands
<1>1. CodecInv => ClientUnderstands
  <2> SUFFICES ASSUME CodecInv, at = "read", Down
               PROVE  ClientUnderstands
    BY DEF ClientUnderstands, Down
  <2>1. IsPing(packet) \/ IsNotify(packet)
    BY DownKinds DEF CodecInv
  <2>2. got = parse_incoming_packet(Payload(packet))
    BY DEF CodecInv, DatagramOK, ReadOK
  <2>3. Understands(packet, got)
    BY <2>1, <2>2, ClientDecodes
  <2> QED BY <2>3 DEF ClientUnderstands, Understands, Arrives
<1> QED BY <1>1, CodecInvariant, PTL

(* The manager gets what the client meant, for every text and type:        *)
(* recvDataUDP, RigisterPacket::decode and PongPacket::decode.             *)
THEOREM ManagerUnderstandsCorrect == Spec => []ManagerUnderstands
<1>1. CodecInv => ManagerUnderstands
  <2> SUFFICES ASSUME CodecInv, at = "read", packet.type \in {REGISTER, PONG}
               PROVE  ManagerUnderstands
    BY DEF ManagerUnderstands
  <2>1. IsRegister(packet) \/ IsPong(packet)
    BY DownKinds DEF CodecInv
  <2>2. ~Down
    BY DEF Down, PING, NOTIFY, REGISTER, PONG
  <2>3. /\ datagram = Built(packet) /\ Len(datagram) <= 255
        /\ got = decode(recvDataUDP(datagram))
    BY <2>2 DEF CodecInv, DatagramOK, ReadOK
  <2>4. Gets(packet, got)
    BY <2>1, <2>3, ManagerDecodes
  <2> QED BY <2>4 DEF ManagerUnderstands, Gets
<1> QED BY <1>1, CodecInvariant, PTL

(* Neither encode nor decode leaves its buffer, whatever the datagram.     *)
THEOREM InBoundsCorrect == Spec => []InBounds
<1>1. CodecInv => InBounds
  <2> SUFFICES ASSUME CodecInv
               PROVE  InBounds
    OBVIOUS
  <2>1. PacketOK /\ AtOK /\ DatagramOK /\ ReadOK
    BY DEF CodecInv
  <2>2. CASE Down
    <3> DEFINE L == packet.payloadLengh
               n == Len(Bytes(packet))
    <3>1. IsPing(packet) \/ IsNotify(packet)
      BY <2>1, <2>2, DownKinds
    <3>2. offset = 8 * n
      BY <2>1, <2>2, <3>1, PayloadSpelled DEF ReadOK
    <3>3. Bytes(packet) \in Seq(Byte) /\ L \in 3..255
      BY <3>1, EncodeHolds DEF Holds
    <3>4. n <= L - 1
      BY <3>1, BytesFacts DEF BytesAre
    <3>5. n \in Nat
      BY <3>3
    <3> HIDE DEF L, n
    <3>6. offset <= 8 * (L - 1)
      BY <3>2, <3>3, <3>4, <3>5
    <3> QED BY <2>2, <3>6 DEF InBounds, Down, L
  <2>3. CASE ~Down
    <3>1. CASE at = "read"
      <4>1. offset = DecodeOffset(decode(recvDataUDP(datagram))) /\ datagram \in Seq(Byte)
        BY <2>1, <2>3, <3>1 DEF ReadOK, DatagramOK
      <4>2. offset <= 8 * BUFFER_SIZE
        BY <4>1, AnyDatagram DEF DecodesSafely
      <4> QED BY <2>3, <4>2 DEF InBounds, Down
    <3>2. CASE at # "read"
      <4>1. offset <= 8 * BUFFER_SIZE
        BY <2>1, <2>3, <3>2 DEF AtOK, BUFFER_SIZE
      <4> QED BY <2>3, <4>1 DEF InBounds, Down
    <3> QED BY <3>1, <3>2
  <2> QED BY <2>2, <2>3
<1> QED BY <1>1, CodecInvariant, PTL

(* What recvDataUDP leaves zero registers no node: a REGISTER of a type    *)
(* other than BASE was in a datagram of three bytes at least.              *)
THEOREM NoNodeFromNothingCorrect == Spec => []NoNodeFromNothing
<1>1. CodecInv => NoNodeFromNothing
  <2> SUFFICES ASSUME CodecInv, at = "read", got.type = REGISTER, got.typeNode # BASE
               PROVE  Len(datagram) >= 3
    BY DEF NoNodeFromNothing
  <2>1. PacketOK /\ AtOK /\ DatagramOK /\ ReadOK
    BY DEF CodecInv
  <2>2. ~Down
    <3> SUFFICES ASSUME Down
                 PROVE  FALSE
      OBVIOUS
    <3>1. IsPing(packet) \/ IsNotify(packet)
      BY <2>1, DownKinds
    <3>2. got = parse_incoming_packet(Payload(packet))
      BY <2>1 DEF DatagramOK, ReadOK
    <3>3. got.type = packet.type
      BY <3>1, <3>2, ClientDecodes DEF Understands
    <3> QED BY <3>3 DEF Down, PING, NOTIFY, REGISTER
  <2>3. got = decode(recvDataUDP(datagram)) /\ datagram \in Seq(Byte)
    BY <2>1, <2>2 DEF ReadOK, DatagramOK
  <2> QED BY <2>3, AnyDatagram DEF DecodesSafely
<1> QED BY <1>1, CodecInvariant, PTL
=============================================================================
