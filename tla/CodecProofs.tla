----------------------------- MODULE CodecProofs -----------------------------
(***************************************************************************)
(* Proofs about Codec: that the frames encode makes are found again,       *)
(* whatever surrounds them, how much a connection buffers, and that the    *)
(* packets of a stream come out of it, however it is cut.                  *)
(***************************************************************************)
EXTENDS Codec, TLAPS, WellFoundedInduction, SequenceTheorems

-----------------------------------------------------------------------------
(* The length field. *)

LEMMA FirstOfEnds ==
  ASSUME NEW b \in Seq(Bytes), LengthEnds(b, 4) # {}
  PROVE  /\ FirstOf(LengthEnds(b, 4)) \in 1 .. 4 /\ FirstOf(LengthEnds(b, 4)) <= Len(b)
         /\ b[FirstOf(LengthEnds(b, 4))] < 128
         /\ \A k \in LengthEnds(b, 4) : FirstOf(LengthEnds(b, 4)) <= k
<1> DEFINE ends == LengthEnds(b, 4)
<1>1. ends \subseteq 1 .. 4 /\ \A k \in ends : k <= Len(b) /\ b[k] < 128
  BY DEF LengthEnds
<1> HIDE DEF ends
<1>2. \E k \in ends : \A j \in ends : k <= j
  <2>1. CASE 1 \in ends  BY <1>1, <2>1
  <2>2. CASE 1 \notin ends /\ 2 \in ends  BY <1>1, <2>2
  <2>3. CASE 1 \notin ends /\ 2 \notin ends /\ 3 \in ends  BY <1>1, <2>3
  <2>4. CASE 1 \notin ends /\ 2 \notin ends /\ 3 \notin ends
    <3>1. ends = {4}  BY <1>1, <2>4 DEF ends
    <3> QED  BY <3>1
  <2> QED  BY <2>1, <2>2, <2>3, <2>4
<1>3. FirstOf(ends) \in ends /\ \A j \in ends : FirstOf(ends) <= j
  BY <1>2 DEF FirstOf
<1> QED  BY <1>1, <1>3 DEF ends

LEMMA ByteNat == \A x : x \in Bytes <=> x \in Nat /\ x <= 255
  BY DEF Bytes

LEMMA Digit ==
  ASSUME NEW x \in Nat
  PROVE  x % 128 \in 0 .. 127
  OBVIOUS

LEMMA LengthValueType ==
  ASSUME NEW b \in Seq(Bytes), NEW n \in 1 .. 4, n <= Len(b)
  PROVE  LengthValue(b, n) \in Nat
<1>1. ASSUME NEW i \in 1 .. 4, i <= n PROVE b[i] % 128 \in Nat
  <2>1. i \in 1 .. Len(b)
    BY <1>1
  <2>2. b[i] \in Bytes
    BY <2>1
  <2>3. b[i] \in Nat
    BY <2>2, ByteNat
  <2> QED  BY <2>3, Digit
<1>2. \A i \in 1 .. 4 : (IF i <= n THEN b[i] % 128 ELSE 0) \in Nat
  BY <1>1
<1> DEFINE d(i) == IF i <= n THEN b[i] % 128 ELSE 0
<1>3. d(1) \in Nat /\ d(2) \in Nat /\ d(3) \in Nat /\ d(4) \in Nat
  BY <1>2
<1>4. LengthValue(b, n) = d(1) + 128 * d(2) + 16384 * d(3) + 2097152 * d(4)
  BY DEF LengthValue
<1> HIDE DEF d
<1> QED  BY <1>3, <1>4

\* read_size_check asks for more only if fewer than four bytes are there.
LEMMA SizeCheck ==
  ASSUME NEW b \in Seq(Bytes)
  PROVE  /\ read_size_check(b).res \in {"some", "none", "err"}
         /\ read_size_check(b).res = "none" => Len(b) < 4
         /\ read_size_check(b).res = "some" =>
               /\ read_size_check(b).len \in Nat
               /\ read_size_check(b).size \in 1 .. 4 /\ read_size_check(b).size <= Len(b)
<1>1. CASE LengthEnds(b, 4) # {}
  <2> DEFINE n == FirstOf(LengthEnds(b, 4))
             v == LengthValue(b, n)
  <2>1. n \in 1 .. 4 /\ n <= Len(b)
    BY <1>1, FirstOfEnds
  <2>2. v \in Nat
    BY <2>1, LengthValueType
  <2>3. read_size_check(b) = [res |-> "some", len |-> v, size |-> n]
    BY <1>1 DEF read_size_check
  <2> HIDE DEF n, v
  <2> QED  BY <2>1, <2>2, <2>3
<1>2. CASE LengthEnds(b, 4) = {}
  BY <1>2 DEF read_size_check
<1> QED  BY <1>1, <1>2

-----------------------------------------------------------------------------
(* encode_length. *)

\* One round of the loop, the rest of the loop being g.
Rounds(g, n) == IF n < 128 THEN <<n>> ELSE <<128 + (n % 128)>> \o g[n \div 128]

LEMMA Shorter ==
  ASSUME NEW n \in Nat, ~(n < 128)
  PROVE  n \div 128 \in Nat /\ n \div 128 < n
  OBVIOUS

\* A non-empty set of numbers has a least one.
LEMMA LeastOf ==
  ASSUME NEW T \in SUBSET Nat, T # {}
  PROVE  \E m \in T : \A k \in T : m <= k
<1> DEFINE R == OpToRel(<, Nat)
<1>1. PICK m \in T : \A k \in T : <<k, m>> \notin R
  BY NatLessThanWellFounded, WFMin, Zenon
<1>2. \A k \in T : ~(k < m)
  BY <1>1 DEF OpToRel
<1> QED  BY <1>2

\* The loop as far as it is needed for the numbers up to m.
UpTo(g, m) == \A n \in 0 .. m : g[n] = Rounds(g, n)

LEMMA UpToExists ==
  ASSUME NEW m \in Nat
  PROVE  \E g : UpTo(g, m)
<1> DEFINE Bad == {k \in Nat : ~\E g : UpTo(g, k)}
<1> SUFFICES ASSUME Bad # {} PROVE FALSE
  OBVIOUS
<1>1. PICK k \in Bad : \A j \in Bad : k <= j
  <2>1. Bad \in SUBSET Nat  OBVIOUS
  <2> HIDE DEF Bad
  <2> QED  BY <2>1, LeastOf
<1>2. k \in Nat /\ ~\E g : UpTo(g, k)
  BY <1>1
<1>3. CASE k = 0
  <2> DEFINE g == [n \in {0} |-> <<0>>]
  <2>1. UpTo(g, 0)
    BY DEF UpTo, Rounds
  <2> QED  BY <1>2, <1>3, <2>1
<1>4. CASE k # 0
  <2>1. k - 1 \in Nat /\ ~(k <= k - 1)
    BY <1>2, <1>4
  <2>2. k - 1 \notin Bad
    <3> HIDE DEF Bad
    <3> QED  BY <1>1, <2>1
  <2>3. PICK g : UpTo(g, k - 1)
    BY <2>1, <2>2
  <2> DEFINE h == [n \in 0 .. k |-> IF n = k THEN Rounds(g, n) ELSE g[n]]
  <2>4. ASSUME NEW n \in 0 .. k PROVE h[n] = Rounds(h, n)
    <3>1. n \in Nat /\ h[n] = IF n = k THEN Rounds(g, n) ELSE g[n]
      BY <1>2
    <3>2. h[n] = Rounds(g, n)
      BY <3>1, <2>1, <2>3, <1>2 DEF UpTo
    <3>3. ~(n < 128) => n \div 128 \in 0 .. (k - 1)
      BY <3>1, Shorter, <1>2
    <3>4. \A j \in 0 .. (k - 1) : h[j] = g[j]
      BY <1>2
    <3> HIDE DEF h
    <3> QED  BY <3>2, <3>3, <3>4 DEF Rounds
  <2> HIDE DEF h
  <2>5. UpTo(h, k)
    BY <2>4 DEF UpTo
  <2> QED  BY <1>2, <2>5
<1> QED  BY <1>3, <1>4

LEMMA UpToUnique ==
  ASSUME NEW m \in Nat, NEW l \in Nat, NEW g, NEW h, UpTo(g, m), UpTo(h, l),
         NEW n \in Nat, n <= m, n <= l
  PROVE  g[n] = h[n]
<1> DEFINE Bad == {k \in Nat : k <= m /\ k <= l /\ g[k] # h[k]}
<1> SUFFICES ASSUME Bad # {} PROVE FALSE
  OBVIOUS
<1>1. PICK k \in Bad : \A j \in Bad : k <= j
  <2>1. Bad \in SUBSET Nat  OBVIOUS
  <2> HIDE DEF Bad
  <2> QED  BY <2>1, LeastOf
<1>2. k \in Nat /\ k <= m /\ k <= l /\ g[k] # h[k]
  BY <1>1
<1>3. g[k] = Rounds(g, k) /\ h[k] = Rounds(h, k)
  BY <1>2 DEF UpTo
<1>4. ASSUME ~(k < 128) PROVE g[k \div 128] = h[k \div 128]
  <2>1. k \div 128 \in Nat /\ k \div 128 < k
    BY <1>2, <1>4, Shorter
  <2>2. k \div 128 <= m /\ k \div 128 <= l /\ ~(k <= k \div 128)
    BY <1>2, <2>1
  <2>3. k \div 128 \notin Bad
    <3> HIDE DEF Bad
    <3> QED  BY <1>1, <2>2
  <2> QED  BY <2>1, <2>2, <2>3
<1> QED  BY <1>2, <1>3, <1>4 DEF Rounds

\* encode_length is what its loop computes.
LEMMA EncodeLengthRounds ==
  ASSUME NEW n \in Nat
  PROVE  encode_length[n] = Rounds(encode_length, n)
<1> DEFINE G(k) == CHOOSE g : UpTo(g, k)
           f == [k \in Nat |-> G(k)[k]]
<1>1. \A k \in Nat : UpTo(G(k), k)
  <2> TAKE k \in Nat
  <2> QED  BY UpToExists
<1>2. ASSUME NEW k \in Nat PROVE f[k] = Rounds(f, k)
  <2>1. G(k)[k] = Rounds(G(k), k)
    <3> HIDE DEF G
    <3> QED  BY <1>1 DEF UpTo
  <2>2. ASSUME ~(k < 128) PROVE G(k)[k \div 128] = f[k \div 128]
    <3>1. k \div 128 \in Nat /\ k \div 128 <= k /\ k \div 128 <= k \div 128
      BY <2>2, Shorter
    <3>2. UpTo(G(k), k) /\ UpTo(G(k \div 128), k \div 128)
      <4> HIDE DEF G
      <4> QED  BY <1>1, <3>1
    <3>3. f[k \div 128] = G(k \div 128)[k \div 128]
      BY <3>1
    <3> HIDE DEF G
    <3>4. G(k)[k \div 128] = G(k \div 128)[k \div 128]
      BY <3>1, <3>2, UpToUnique
    <3> QED  BY <3>3, <3>4
  <2>3. f[k] = G(k)[k]
    OBVIOUS
  <2> HIDE DEF f, G
  <2> QED  BY <2>1, <2>2, <2>3 DEF Rounds
<1>3. f = [k \in Nat |-> Rounds(f, k)]
  <2>1. f = [k \in Nat |-> f[k]]
    OBVIOUS
  <2> HIDE DEF f
  <2> QED  BY <1>2, <2>1
<1>4. encode_length = CHOOSE g : g = [k \in Nat |-> Rounds(g, k)]
  BY DEF encode_length, Rounds
<1> HIDE DEF f
<1>5. encode_length = [k \in Nat |-> Rounds(encode_length, k)]
  BY <1>3, <1>4
<1> QED  BY <1>5

\* A field of k bytes for n: all but the last have their top bit set.
Encodes(e, k, n) ==
  /\ e \in Seq(Bytes) /\ Len(e) = k /\ k \in 1 .. 4
  /\ \A i \in 1 .. (k - 1) : e[i] >= 128
  /\ e[k] < 128
  /\ LengthValue(e, k) = n

\* The seven low bits and the rest.
LEMMA Split ==
  ASSUME NEW n \in Nat
  PROVE  n % 128 \in 0 .. 127 /\ n \div 128 \in Nat /\ n = 128 * (n \div 128) + (n % 128)
  OBVIOUS

LEMMA SevenBits ==
  ASSUME NEW d \in 0 .. 127
  PROVE  d % 128 = d /\ (128 + d) % 128 = d /\ d \in Bytes /\ 128 + d \in Bytes
<1>1. d % 128 = d /\ (128 + d) % 128 = d
  OBVIOUS
<1>2. d \in Bytes /\ 128 + d \in Bytes
  BY ByteNat
<1> QED  BY <1>1, <1>2

LEMMA LastByte ==
  ASSUME NEW n \in Nat, n < 128
  PROVE  Encodes(encode_length[n], 1, n)
<1>1. n % 128 = n /\ n \in Bytes
  BY SevenBits
<1>2. encode_length[n] = <<n>>
  BY EncodeLengthRounds DEF Rounds
<1>3. LengthValue(<<n>>, 1) = n
  BY <1>1 DEF LengthValue
<1> QED  BY <1>1, <1>2, <1>3 DEF Encodes

\* A digit in front of the others.
LEMMA Shift ==
  ASSUME NEW d \in Nat, NEW x \in Nat, NEW y \in Nat, NEW z \in Nat
  PROVE  d + 128 * x + 16384 * y + 2097152 * z = 128 * (x + 128 * y + 16384 * z + 2097152 * 0) + d
  BY SMT

LEMMA ByteBefore ==
  ASSUME NEW n \in Nat, ~(n < 128), NEW k \in 1 .. 3, Encodes(encode_length[n \div 128], k, n \div 128)
  PROVE  Encodes(encode_length[n], k + 1, n)
<1> DEFINE e == encode_length[n \div 128]
           p == n \div 128
           d == n % 128
           a == 128 + d
           s == <<a>> \o e
<1>1. d \in 0 .. 127 /\ p \in Nat /\ n = 128 * p + d
  BY Split
<1>2. a % 128 = d /\ a \in Bytes /\ a >= 128
  BY <1>1, SevenBits
<1>3. encode_length[n] = s
  BY EncodeLengthRounds DEF Rounds
<1> HIDE DEF e, p, d, a
<1>4. e \in Seq(Bytes) /\ Len(e) = k /\ (\A i \in 1 .. (k - 1) : e[i] >= 128) /\ e[k] < 128
      /\ LengthValue(e, k) = p
  BY DEF Encodes, e, p
<1>5. /\ s \in Seq(Bytes) /\ Len(s) = k + 1 /\ s[1] = a
      /\ \A i \in 1 .. k : s[i + 1] = e[i]
  BY <1>2, <1>4
<1> HIDE DEF s
<1>6. \A i \in 1 .. k : s[i] >= 128
  <2> TAKE i \in 1 .. k
  <2>1. CASE i = 1
    BY <2>1, <1>2, <1>5
  <2>2. CASE i # 1
    <3>1. i - 1 \in 1 .. (k - 1) /\ i - 1 \in 1 .. k /\ (i - 1) + 1 = i
      BY <2>2
    <3> QED  BY <3>1, <1>4, <1>5
  <2> QED  BY <2>1, <2>2
<1>7. s[k + 1] < 128
  BY <1>4, <1>5
<1>8. LengthValue(s, k + 1) = n
  <2> DEFINE D(i) == IF i <= k THEN e[i] % 128 ELSE 0
             S(i) == IF i <= k + 1 THEN s[i] % 128 ELSE 0
  <2>1. S(1) = d /\ S(2) = D(1) /\ S(3) = D(2) /\ S(4) = D(3) /\ D(4) = 0
    <3>1. \A i \in 1 .. 3 : S(i + 1) = D(i)
      BY <1>5, SMT
    <3>2. S(1 + 1) = D(1) /\ S(2 + 1) = D(2) /\ S(3 + 1) = D(3)
      <4> HIDE DEF S, D
      <4> QED  BY <3>1, SMT
    <3>3. S(1) = d /\ D(4) = 0
      BY <1>2, <1>5, SMT
    <3> QED  BY <3>2, <3>3, SMT
  <2>2. D(1) \in Nat /\ D(2) \in Nat /\ D(3) \in Nat
    <3>1. ASSUME NEW i \in 1 .. 3, i <= k PROVE e[i] % 128 \in Nat
      <4>1. e[i] \in Bytes
        BY <3>1, <1>4, SMT
      <4>2. e[i] \in Nat
        BY <4>1, ByteNat, SMT
      <4> QED  BY <4>2, Digit, SMT
    <3> QED  BY <3>1, SMT
  <2>3. LengthValue(e, k) = D(1) + 128 * D(2) + 16384 * D(3) + 2097152 * D(4)
    BY SMT DEF LengthValue
  <2>4. LengthValue(s, k + 1) = S(1) + 128 * S(2) + 16384 * S(3) + 2097152 * S(4)
    BY SMT DEF LengthValue
  <2> HIDE DEF S, D
  <2>5. d \in Nat
    BY <1>1, SMT
  <2>6. S(1) + 128 * S(2) + 16384 * S(3) + 2097152 * S(4)
        = 128 * (D(1) + 128 * D(2) + 16384 * D(3) + 2097152 * D(4)) + d
    <3>1. d + 128 * D(1) + 16384 * D(2) + 2097152 * D(3)
          = 128 * (D(1) + 128 * D(2) + 16384 * D(3) + 2097152 * 0) + d
      BY <2>2, <2>5, Shift, SMT
    <3> QED  BY <2>1, <3>1, SMT
  <2>7. LengthValue(s, k + 1) = 128 * LengthValue(e, k) + d
    BY <2>3, <2>4, <2>6, SMT
  <2> QED  BY <1>1, <1>4, <2>7, SMT
<1>9. k + 1 \in 1 .. 4 /\ (k + 1) - 1 = k
  OBVIOUS
<1> QED  BY <1>3, <1>5, <1>6, <1>7, <1>8, <1>9, SMT DEF Encodes

\* Every length up to MAX_LENGTH has a field of at most four bytes.
LEMMA FieldOfLength ==
  ASSUME NEW n \in Nat, n <= MAX_LENGTH
  PROVE  \E k \in 1 .. 4 : Encodes(encode_length[n], k, n)
<1>1. \A m \in Nat : m < 128 => Encodes(encode_length[m], 1, m)
  BY LastByte, SMT
<1>2. \A m \in Nat : m < 16384 => \E k \in 1 .. 2 : Encodes(encode_length[m], k, m)
  <2> TAKE m \in Nat
  <2>1. CASE m < 128
    BY <1>1, <2>1, SMT
  <2>2. CASE ~(m < 128) /\ m < 16384
    <3>1. m \div 128 \in Nat /\ m \div 128 < 128
      BY <2>2, SMT
    <3> QED  BY <1>1, <2>2, <3>1, ByteBefore, SMT
  <2> QED  BY <2>1, <2>2, SMT
<1>3. \A m \in Nat : m < 2097152 => \E k \in 1 .. 3 : Encodes(encode_length[m], k, m)
  <2> TAKE m \in Nat
  <2>1. CASE m < 128
    BY <1>1, <2>1, SMT
  <2>2. CASE ~(m < 128) /\ m < 2097152
    <3>1. m \div 128 \in Nat /\ m \div 128 < 16384
      BY <2>2, SMT
    <3>2. PICK k \in 1 .. 2 : Encodes(encode_length[m \div 128], k, m \div 128)
      BY <1>2, <3>1, SMT
    <3>3. k \in 1 .. 3 /\ k + 1 \in 1 .. 3
      OBVIOUS
    <3> QED  BY <2>2, <3>2, <3>3, ByteBefore, SMT
  <2> QED  BY <2>1, <2>2, SMT
<1>4. n < 268435456
  BY SMT DEF MAX_LENGTH
<1>5. CASE n < 128
  BY <1>1, <1>4, <1>5, SMT
<1>6. CASE ~(n < 128)
  <2>1. n \div 128 \in Nat /\ n \div 128 < 2097152
    BY <1>4, <1>6, SMT
  <2>2. PICK k \in 1 .. 3 : Encodes(encode_length[n \div 128], k, n \div 128)
    BY <1>3, <2>1, SMT
  <2>3. k + 1 \in 1 .. 4
    OBVIOUS
  <2> QED  BY <1>4, <1>6, <2>2, <2>3, ByteBefore, SMT
<1> QED  BY <1>5, <1>6, SMT

\* The field is read back, whatever follows it.
LEMMA FieldIsRead ==
  ASSUME NEW e, NEW k \in 1 .. 4, NEW n \in Nat, Encodes(e, k, n), NEW rest \in Seq(Bytes)
  PROVE  read_size_check(e \o rest) = [res |-> "some", len |-> n, size |-> k]
<1> DEFINE b == e \o rest
<1>1. /\ e \in Seq(Bytes) /\ Len(e) = k /\ e[k] < 128 /\ LengthValue(e, k) = n
      /\ \A i \in 1 .. (k - 1) : e[i] >= 128
  BY SMT DEF Encodes
<1>2. b \in Seq(Bytes) /\ Len(b) >= k /\ \A i \in 1 .. k : b[i] = e[i]
  BY <1>1, SMT
<1> HIDE DEF b
<1>3. k \in LengthEnds(b, 4)
  BY <1>1, <1>2, SMT DEF LengthEnds
<1>4. \A j \in LengthEnds(b, 4) : k <= j
  <2> SUFFICES ASSUME NEW j \in 1 .. 4, b[j] < 128, ~(k <= j) PROVE FALSE
    BY SMT DEF LengthEnds
  <2>1. j \in 1 .. (k - 1) /\ j \in 1 .. k
    BY SMT
  <2>2. b[j] = e[j] /\ e[j] >= 128 /\ e[j] \in Bytes
    BY <2>1, <1>1, <1>2, SMT
  <2>3. e[j] \in Nat
    BY <2>2, ByteNat, SMT
  <2> QED  BY <2>2, <2>3, SMT
<1>5. FirstOf(LengthEnds(b, 4)) = k
  <2>1. LengthEnds(b, 4) # {}
    BY <1>3, SMT
  <2> DEFINE f == FirstOf(LengthEnds(b, 4))
  <2>2. f \in 1 .. 4 /\ f <= Len(b) /\ b[f] < 128 /\ f <= k
    BY <2>1, <1>2, <1>3, FirstOfEnds, SMT
  <2> HIDE DEF f
  <2>3. f \in LengthEnds(b, 4)
    BY <2>2, SMT DEF LengthEnds
  <2>4. k <= f
    BY <2>3, <1>4, SMT
  <2>5. f = k
    BY <2>2, <2>4, SMT
  <2> QED  BY <2>5 DEF f
<1>6. LengthValue(b, k) = LengthValue(e, k)
  <2>1. \A i \in 1 .. 4 : (IF i <= k THEN b[i] % 128 ELSE 0) = (IF i <= k THEN e[i] % 128 ELSE 0)
    BY <1>2, SMT
  <2> QED  BY <2>1, SMT DEF LengthValue
<1>7. read_size_check(b) = [res |-> "some", len |-> LengthValue(b, k), size |-> k]
  BY <1>3, <1>5, SMT DEF read_size_check
<1> QED  BY <1>1, <1>6, <1>7 DEF b

\* A field of which a byte is missing is waited for.
LEMMA FieldIsAwaited ==
  ASSUME NEW e, NEW k \in 1 .. 4, NEW n, Encodes(e, k, n), NEW j \in 0 .. (k - 1)
  PROVE  read_size_check(SubSeq(e, 1, j)) = [res |-> "none"]
<1> DEFINE b == SubSeq(e, 1, j)
<1>1. e \in Seq(Bytes) /\ Len(e) = k /\ \A i \in 1 .. (k - 1) : e[i] >= 128
  BY SMT DEF Encodes
<1>2. Len(b) = j /\ \A i \in 1 .. j : b[i] = e[i]
  BY <1>1, SMT
<1> HIDE DEF b
<1>3. LengthEnds(b, 4) = {}
  <2> SUFFICES ASSUME NEW i \in 1 .. 4, i <= Len(b), b[i] < 128 PROVE FALSE
    BY SMT DEF LengthEnds
  <2>1. i \in 1 .. j /\ i \in 1 .. (k - 1) /\ i \in 1 .. Len(e)
    BY <1>1, <1>2, SMT
  <2>2. b[i] = e[i] /\ e[i] >= 128 /\ e[i] \in Bytes
    BY <2>1, <1>1, <1>2, SMT
  <2>3. e[i] \in Nat
    BY <2>2, ByteNat, SMT
  <2> QED  BY <2>2, <2>3, SMT
<1>4. ~(Len(b) >= 4)
  BY <1>2, SMT
<1>5. read_size_check(b) = [res |-> "none"]
  BY <1>3, <1>4, SMT DEF read_size_check
<1> QED  BY <1>5 DEF b


-----------------------------------------------------------------------------
(* Frames.  What Frame makes of a header byte and a body. *)

Framed(h, body) == <<h>> \o encode_length[Len(body)] \o body

LEMMA FrameIsFramed ==
  ASSUME NEW type, NEW flags, NEW body
  PROVE  Frame(type, flags, body) = Framed(16 * TypeNumber(type) + flags, body)
  BY DEF Frame, Framed

\* decode on a buffer whose length field is known.
LEMMA DecodeKnown ==
  ASSUME NEW b, NEW m, NEW n, NEW k, b # <<>>,
         read_size_check(Tail(b)) = [res |-> "some", len |-> n, size |-> k]
  PROVE  decode(b, m) = IF TooLong(n, m) THEN [res |-> "err", rest |-> b]
                        ELSE IF Len(b) < 1 + k + n THEN NeedMore(b)
                        ELSE SplitFrame(b, 1 + k + n)
<1> DEFINE length == read_size_check(Tail(b))
<1>1. decode(b, m) =
        IF b = <<>> \/ length.res = "none" THEN NeedMore(b)
        ELSE IF length.res = "err" \/ TooLong(length.len, m) THEN [res |-> "err", rest |-> b]
        ELSE IF Len(b) < FrameSize(length) THEN NeedMore(b)
        ELSE SplitFrame(b, FrameSize(length))
  BY SMT DEF decode
<1>2. length.res = "some" /\ length.len = n /\ length.size = k
  BY SMT
<1> HIDE DEF length
<1>3. FrameSize(length) = 1 + k + n
  BY <1>2, SMT DEF FrameSize
<1> QED  BY <1>1, <1>2, <1>3, SMT

\* The parts of a frame.
LEMMA FrameParts ==
  ASSUME NEW h \in Bytes, NEW body \in Seq(Bytes), Len(body) <= MAX_LENGTH
  PROVE  \E k \in 1 .. 4 :
           /\ Encodes(encode_length[Len(body)], k, Len(body))
           /\ Framed(h, body) \in Seq(Bytes) /\ Len(Framed(h, body)) = 1 + k + Len(body)
           /\ \A rest \in Seq(Bytes) :
                 Tail(Framed(h, body) \o rest) = encode_length[Len(body)] \o (body \o rest)
<1>1. Len(body) \in Nat
  BY SMT
<1>2. PICK k \in 1 .. 4 : Encodes(encode_length[Len(body)], k, Len(body))
  BY <1>1, FieldOfLength, SMT
<1> DEFINE e == encode_length[Len(body)]
<1>3. e \in Seq(Bytes) /\ Len(e) = k
  BY <1>2, SMT DEF Encodes
<1>4. Framed(h, body) = <<h>> \o e \o body
  BY SMT DEF Framed
<1> HIDE DEF e
<1>5. Framed(h, body) \in Seq(Bytes) /\ Len(Framed(h, body)) = 1 + k + Len(body)
  BY <1>1, <1>3, <1>4, SMT
<1>6. ASSUME NEW rest \in Seq(Bytes)
      PROVE  Tail(Framed(h, body) \o rest) = e \o (body \o rest)
  BY <1>3, <1>4, SMT
<1> QED  BY <1>2, <1>5, <1>6 DEF e


\* The first bytes of a frame.
LEMMA FrameFront ==
  ASSUME NEW h \in Bytes, NEW e \in Seq(Bytes), NEW body \in Seq(Bytes), NEW j \in Nat,
         j >= 1, j <= Len(<<h>> \o e \o body)
  PROVE  LET s == SubSeq(<<h>> \o e \o body, 1, j)
         IN  /\ s # <<>> /\ Len(s) = j
             /\ j - 1 < Len(e) => Tail(s) = SubSeq(e, 1, j - 1)
             /\ ~(j - 1 < Len(e)) => Tail(s) = e \o SubSeq(body, 1, (j - 1) - Len(e))
<1> DEFINE f == <<h>> \o e \o body
<1>1. /\ f \in Seq(Bytes) /\ Len(f) = 1 + Len(e) + Len(body) /\ f[1] = h
      /\ \A i \in 1 .. Len(e) : f[i + 1] = e[i]
      /\ \A i \in 1 .. Len(body) : f[1 + Len(e) + i] = body[i]
  BY SMT
<1>0. j <= Len(f)
  OBVIOUS
<1> HIDE DEF f
<1> DEFINE s == SubSeq(f, 1, j)
<1>2. s \in Seq(Bytes) /\ Len(s) = j /\ \A i \in 1 .. j : s[i] = f[i]
  BY <1>0, <1>1, SMT
<1> HIDE DEF s
<1>3. s # <<>>
  BY <1>2, SMT
<1> DEFINE t == Tail(s)
<1>4. t \in Seq(Bytes) /\ Len(t) = j - 1 /\ \A i \in 1 .. (j - 1) : t[i] = f[i + 1]
  BY <1>2, <1>3, SMT
<1> HIDE DEF t
<1>5. ASSUME j - 1 < Len(e) PROVE t = SubSeq(e, 1, j - 1)
  BY <1>0, <1>1, <1>4, <1>5, SMT
<1>6. ASSUME ~(j - 1 < Len(e)) PROVE t = e \o SubSeq(body, 1, (j - 1) - Len(e))
  <2> DEFINE l == (j - 1) - Len(e)
             q == SubSeq(body, 1, l)
             u == e \o q
  <2>1. l \in 0 .. Len(body)
    BY <1>0, <1>1, <1>6, SMT
  <2> HIDE DEF l
  <2>2. q \in Seq(Bytes) /\ Len(q) = l /\ \A i \in 1 .. l : q[i] = body[i]
    BY <2>1, SMT
  <2> HIDE DEF q
  <2>3. /\ u \in Seq(Bytes) /\ Len(u) = Len(e) + l
        /\ \A i \in 1 .. Len(e) : u[i] = e[i]
        /\ \A i \in 1 .. l : u[Len(e) + i] = q[i]
    <3>1. Len(e) \in Nat /\ l \in Nat
      BY <2>1, SMT
    <3>2. u \in Seq(Bytes) /\ Len(u) = Len(e) + l
      <4>1. u \in Seq(Bytes)
        BY <2>2, SMT
      <4>2. Len(u) = Len(e) + Len(q)
        BY <2>2, SMT
      <4> QED  BY <2>2, <4>1, <4>2, Zenon
    <3>3. \A i \in 1 .. Len(e) : u[i] = e[i]
      BY <2>2, SMT
    <3>4. \A i \in 1 .. l : u[Len(e) + i] = q[i]
      <4> TAKE i \in 1 .. l
      <4>1. Len(e) + i \in 1 .. (Len(e) + Len(q)) /\ ~(Len(e) + i <= Len(e)) /\ (Len(e) + i) - Len(e) = i
        BY <2>2, <3>1, SMT
      <4> QED  BY <2>2, <4>1, SMT
    <3> QED  BY <3>2, <3>3, <3>4, Zenon
  <2> HIDE DEF u
  <2>4. Len(e) + l = j - 1
    BY <1>1, SMT DEF l
  <2>5. ASSUME NEW i \in 1 .. (j - 1) PROVE t[i] = u[i]
    <3>1. CASE i <= Len(e)
      BY <3>1, <1>1, <1>4, <2>3, SMT
    <3>2. CASE ~(i <= Len(e))
      <4>1. i - Len(e) \in 1 .. l /\ Len(e) + (i - Len(e)) = i /\ 1 + Len(e) + (i - Len(e)) = i + 1
            /\ i - Len(e) \in 1 .. Len(body)
        BY <3>2, <2>1, <2>4, SMT
      <4>2. t[i] = f[i + 1]
        BY <1>4, Zenon
      <4>3. f[i + 1] = body[i - Len(e)]
        <5>1. f[1 + Len(e) + (i - Len(e))] = body[i - Len(e)]
          BY <4>1, <1>1, Zenon
        <5> QED  BY <4>1, <5>1, Zenon
      <4>4. u[i] = q[i - Len(e)]
        BY <4>1, <2>3, SMT
      <4>5. q[i - Len(e)] = body[i - Len(e)]
        BY <4>1, <2>2, SMT
      <4> QED  BY <4>2, <4>3, <4>4, <4>5, Zenon
    <3> QED  BY <3>1, <3>2
  <2>6. t = u
    BY <1>4, <2>3, <2>4, <2>5, SMT
  <2> QED  BY <2>6 DEF u, q, l
<1> QED  BY <1>2, <1>3, <1>5, <1>6, Zenon DEF s, t, f

\* A complete frame within the limit is given to the parser, that frame and no
\* other byte of the buffer, and what follows it is left for the next call
\* (MqttCodec::decode on what encode wrote).
THEOREM FrameIsFound ==
  ASSUME NEW h \in Bytes, NEW body \in Seq(Bytes), NEW rest \in Seq(Bytes), NEW m \in Nat,
         Len(body) <= m, Len(body) <= MAX_LENGTH
  PROVE  decode(Framed(h, body) \o rest, m) = Parsed(FromBytes(Framed(h, body)), rest)
<1> DEFINE f == Framed(h, body)
           e == encode_length[Len(body)]
           b == f \o rest
<1>1. PICK k \in 1 .. 4 : /\ Encodes(e, k, Len(body))
                          /\ f \in Seq(Bytes) /\ Len(f) = 1 + k + Len(body)
                          /\ Tail(b) = e \o (body \o rest)
  BY FrameParts, Zenon
<1> HIDE DEF f, e
<1>2. Len(body) \in Nat /\ body \o rest \in Seq(Bytes) /\ b # <<>> /\ ~(Len(b) < 1 + k + Len(body))
  BY <1>1, SMT
<1>3. SubSeq(b, 1, 1 + k + Len(body)) = f /\ SubSeq(b, 1 + k + Len(body) + 1, Len(b)) = rest
  <2>1. SubSeq(b, 1, Len(f)) = f
    BY <1>1, SMT
  <2>2. SubSeq(b, Len(f) + 1, Len(b)) = rest
    BY <1>1, SMT
  <2> QED  BY <1>1, <2>1, <2>2, SMT
<1> HIDE DEF b
<1>4. read_size_check(Tail(b)) = [res |-> "some", len |-> Len(body), size |-> k]
  BY <1>1, <1>2, FieldIsRead, Zenon
<1>5. ~TooLong(Len(body), m)
  BY <1>2, SMT DEF TooLong, MAX_LENGTH
<1>6. decode(b, m) = SplitFrame(b, 1 + k + Len(body))
  BY <1>2, <1>4, <1>5, DecodeKnown, SMT
<1>7. decode(b, m) = Parsed(FromBytes(f), rest)
  BY <1>3, <1>6, Zenon DEF SplitFrame
<1> QED  BY <1>7 DEF f, b

\* Any smaller part of it, cut anywhere, makes the codec wait and takes nothing
\* from the buffer (the Ok(None) returns of MqttCodec::decode).
THEOREM FrameIsAwaited ==
  ASSUME NEW h \in Bytes, NEW body \in Seq(Bytes), NEW m \in Nat,
         Len(body) <= m, Len(body) <= MAX_LENGTH,
         NEW j \in Nat, j < Len(Framed(h, body))
  PROVE  decode(SubSeq(Framed(h, body), 1, j), m) = NeedMore(SubSeq(Framed(h, body), 1, j))
<1> DEFINE f == Framed(h, body)
           e == encode_length[Len(body)]
           b == SubSeq(f, 1, j)
<1>1. PICK k \in 1 .. 4 : /\ Encodes(e, k, Len(body))
                          /\ f \in Seq(Bytes) /\ Len(f) = 1 + k + Len(body)
  BY FrameParts, Zenon
<1>2. f = <<h>> \o e \o body
  BY SMT DEF Framed
<1>3. e \in Seq(Bytes) /\ Len(e) = k /\ Len(body) \in Nat
  BY <1>1, SMT DEF Encodes
<1>4. j < Len(f)
  OBVIOUS
<1> HIDE DEF f, e
<1>5. CASE j = 0
  <2>1. b = <<>>
    BY <1>1, <1>5, SMT
  <2> HIDE DEF b
  <2> QED  BY <2>1, SMT DEF decode, f, b
<1>6. CASE j # 0
  <2>1. j >= 1 /\ j <= Len(f)
    BY <1>1, <1>3, <1>4, <1>6, SMT
  <2>2. /\ b # <<>> /\ Len(b) = j
        /\ j - 1 < k => Tail(b) = SubSeq(e, 1, j - 1)
        /\ ~(j - 1 < k) => Tail(b) = e \o SubSeq(body, 1, (j - 1) - k)
    <3>1. /\ b # <<>> /\ Len(b) = j
          /\ j - 1 < Len(e) => Tail(b) = SubSeq(e, 1, j - 1)
          /\ ~(j - 1 < Len(e)) => Tail(b) = e \o SubSeq(body, 1, (j - 1) - Len(e))
      <4> DEFINE c == SubSeq(<<h>> \o e \o body, 1, j)
      <4>1. j <= Len(<<h>> \o e \o body)
        BY <1>2, <2>1, Zenon
      <4>2. /\ c # <<>> /\ Len(c) = j
            /\ j - 1 < Len(e) => Tail(c) = SubSeq(e, 1, j - 1)
            /\ ~(j - 1 < Len(e)) => Tail(c) = e \o SubSeq(body, 1, (j - 1) - Len(e))
        BY <1>3, <2>1, <4>1, FrameFront
      <4>3. b = c
        BY <1>2, Zenon
      <4> HIDE DEF b, c
      <4> QED  BY <4>2, <4>3, Zenon
    <3> HIDE DEF b
    <3> QED  BY <1>3, <3>1, Zenon
  <2> HIDE DEF b
  <2>3. CASE j - 1 < k
    <3>1. j - 1 \in 0 .. (k - 1)
      BY <2>1, <2>3, SMT
    <3>2. read_size_check(Tail(b)) = [res |-> "none"]
      BY <1>1, <2>2, <2>3, <3>1, FieldIsAwaited, Zenon
    <3>3. read_size_check(Tail(b)).res = "none"
      BY <3>2, SMT
    <3>4. decode(b, m) = NeedMore(b)
      BY <3>3, SMT DEF decode
    <3> QED  BY <3>4 DEF b, f
  <2>4. CASE ~(j - 1 < k)
    <3>1. (j - 1) - k \in 0 .. Len(body)
      BY <1>1, <1>3, <2>1, <2>4, SMT
    <3>2. SubSeq(body, 1, (j - 1) - k) \in Seq(Bytes)
      BY <3>1, SMT
    <3>3. read_size_check(Tail(b)) = [res |-> "some", len |-> Len(body), size |-> k]
      <4>1. read_size_check(e \o SubSeq(body, 1, (j - 1) - k))
            = [res |-> "some", len |-> Len(body), size |-> k]
        BY <1>1, <1>3, <3>2, FieldIsRead, Zenon
      <4> QED  BY <2>2, <2>4, <4>1, Zenon
    <3>4. ~TooLong(Len(body), m)
      BY <1>3, SMT DEF TooLong, MAX_LENGTH
    <3>5. Len(b) < 1 + k + Len(body)
      BY <1>1, <1>4, <2>2, SMT
    <3>6. decode(b, m) = NeedMore(b)
      BY <2>2, <3>3, <3>4, <3>5, DecodeKnown, SMT
    <3> QED  BY <3>6 DEF b, f
  <2> QED  BY <2>3, <2>4
<1> QED  BY <1>5, <1>6

\* A frame over the limit is refused as soon as its length field is there,
\* whatever of its body has arrived (the max_packet_size check of decode, which
\* stands before the one for the bytes of the body).
THEOREM OverlongIsRefused ==
  ASSUME NEW h \in Bytes, NEW n \in Nat, NEW m \in Nat, n > m, n <= MAX_LENGTH,
         NEW part \in Seq(Bytes)
  PROVE  decode(<<h>> \o encode_length[n] \o part, m).res = "err"
<1> DEFINE e == encode_length[n]
           b == <<h>> \o e \o part
<1>1. PICK k \in 1 .. 4 : Encodes(e, k, n)
  BY FieldOfLength, SMT
<1>2. e \in Seq(Bytes)
  BY <1>1, SMT DEF Encodes
<1> HIDE DEF e
<1>3. b # <<>> /\ Tail(b) = e \o part
  BY <1>2, SMT
<1> HIDE DEF b
<1>4. read_size_check(Tail(b)) = [res |-> "some", len |-> n, size |-> k]
  <2>1. read_size_check(e \o part) = [res |-> "some", len |-> n, size |-> k]
    BY <1>1, FieldIsRead, Zenon
  <2> QED  BY <2>1, <1>3, Zenon
<1>5. TooLong(n, m)
  BY SMT DEF TooLong
<1>6. decode(b, m) = [res |-> "err", rest |-> b]
  BY <1>3, <1>4, <1>5, DecodeKnown, SMT
<1>7. decode(b, m).res = "err"
  BY <1>6, SMT
<1> QED  BY <1>7 DEF b, e


-----------------------------------------------------------------------------
(* Cutting a buffer. *)

\* The first field end, by what it is.
LEMMA FirstOfIs ==
  ASSUME NEW b \in Seq(Bytes), NEW k \in LengthEnds(b, 4), \A j \in LengthEnds(b, 4) : k <= j
  PROVE  FirstOf(LengthEnds(b, 4)) = k
<1> DEFINE f == FirstOf(LengthEnds(b, 4))
<1>1. f \in 1 .. 4 /\ f <= Len(b) /\ b[f] < 128 /\ f <= k
  BY FirstOfEnds, SMT
<1> HIDE DEF f
<1>2. f \in LengthEnds(b, 4)
  BY <1>1, SMT DEF LengthEnds
<1>3. k \in 1 .. 4 /\ k <= f
  BY <1>2, SMT DEF LengthEnds
<1>4. f = k
  BY <1>1, <1>3, SMT
<1> QED  BY <1>4 DEF f

\* What read_size_check makes of the first l bytes, knowing what it makes of all.
LEMMA SizeCheckOfPart ==
  ASSUME NEW b \in Seq(Bytes), NEW l \in 0 .. Len(b)
  PROVE  LET r == read_size_check(b)
             q == read_size_check(SubSeq(b, 1, l))
         IN  /\ r.res = "some" => q = IF l < r.size THEN [res |-> "none"] ELSE r
             /\ r.res = "err" => q = IF l < 4 THEN [res |-> "none"] ELSE r
             /\ r.res = "none" => q = r
<1> DEFINE s == SubSeq(b, 1, l)
<1>1. s \in Seq(Bytes) /\ Len(s) = l /\ \A i \in 1 .. l : s[i] = b[i]
  BY SMT
<1>l. l \in Nat /\ l <= Len(b) /\ Len(b) \in Nat
  BY SMT
<1> HIDE DEF s
<1>2. \A i : i \in LengthEnds(s, 4) <=> i \in LengthEnds(b, 4) /\ i <= l
  <2> TAKE i
  <2>1. CASE i \in 1 .. 4 /\ i <= l
    <3>1. s[i] = b[i] /\ i <= Len(s) /\ i <= Len(b)
      BY <1>1, <1>l, <2>1, SMT
    <3> QED  BY <2>1, <3>1, Zenon DEF LengthEnds
  <2>2. CASE ~(i \in 1 .. 4 /\ i <= l)
    BY <1>1, <2>2, Zenon DEF LengthEnds
  <2> QED  BY <2>1, <2>2
<1>3. CASE LengthEnds(b, 4) # {}
  <2> DEFINE k == FirstOf(LengthEnds(b, 4))
             v == LengthValue(b, k)
  <2>1. k \in 1 .. 4 /\ k <= Len(b) /\ b[k] < 128 /\ \A j \in LengthEnds(b, 4) : k <= j
    BY <1>3, FirstOfEnds, SMT
  <2>2. read_size_check(b) = [res |-> "some", len |-> v, size |-> k]
    BY <1>3, Zenon DEF read_size_check
  <2> HIDE DEF k, v
  <2>3. k \in LengthEnds(b, 4)
    BY <2>1, SMT DEF LengthEnds
  <2>4. CASE l < k
    <3>1. LengthEnds(s, 4) = {}
      <4> SUFFICES ASSUME NEW i \in LengthEnds(s, 4) PROVE FALSE
        BY SMT
      <4>1. i \in LengthEnds(b, 4) /\ i <= l /\ k <= i
        BY <1>2, <2>1, SMT
      <4>2. i \in Nat
        BY <4>1, SMT DEF LengthEnds
      <4> QED  BY <4>1, <4>2, <2>4, <2>1, <1>l, SMT
    <3>2. ~(Len(s) >= 4)
      BY <1>1, <1>l, <2>1, <2>4, SMT
    <3>3. read_size_check(s) = [res |-> "none"]
      BY <3>1, <3>2, Zenon DEF read_size_check
    <3> QED  BY <3>3, <2>2, <2>4, SMT DEF s
  <2>5. CASE ~(l < k)
    <3>1. k \in LengthEnds(s, 4)
      BY <1>2, <2>3, <2>5, <2>1, <1>l, SMT
    <3>2. \A j \in LengthEnds(s, 4) : k <= j
      BY <1>2, <2>1, Zenon
    <3>3. FirstOf(LengthEnds(s, 4)) = k
      BY <1>1, <3>1, <3>2, FirstOfIs, Zenon
    <3>4. LengthEnds(s, 4) # {}
      BY <3>1, Zenon
    <3>5. LengthValue(s, k) = v
      <4>1. \A i \in 1 .. 4 : (IF i <= k THEN s[i] % 128 ELSE 0) = (IF i <= k THEN b[i] % 128 ELSE 0)
        BY <1>1, <1>l, <2>1, <2>5, SMT
      <4> QED  BY <4>1, SMT DEF LengthValue, v
    <3>6. read_size_check(s) = [res |-> "some", len |-> v, size |-> k]
      BY <3>3, <3>4, <3>5, Zenon DEF read_size_check
    <3> QED  BY <3>6, <2>2, <2>5, SMT DEF s
  <2> QED  BY <2>4, <2>5
<1>4. CASE LengthEnds(b, 4) = {}
  <2>1. LengthEnds(s, 4) = {}
    BY <1>2, <1>4, Zenon
  <2>2. read_size_check(b) = IF Len(b) >= 4 THEN [res |-> "err"] ELSE [res |-> "none"]
    BY <1>4, Zenon DEF read_size_check
  <2>3. read_size_check(s) = IF l >= 4 THEN [res |-> "err"] ELSE [res |-> "none"]
    BY <1>1, <2>1, Zenon DEF read_size_check
  <2> QED  BY <1>l, <2>2, <2>3, SMT DEF s
<1> QED  BY <1>3, <1>4


LEMMA RestOfConcat ==
  ASSUME NEW S, NEW b \in Seq(S), NEW w \in Seq(S), NEW k \in 0 .. Len(b)
  PROVE  SubSeq(b \o w, k + 1, Len(b \o w)) = SubSeq(b, k + 1, Len(b)) \o w
<1> DEFINE c == b \o w
           u == SubSeq(c, k + 1, Len(c))
           q == SubSeq(b, k + 1, Len(b))
           v == q \o w
<1>1. /\ c \in Seq(S) /\ Len(c) = Len(b) + Len(w)
      /\ \A i \in 1 .. (Len(b) + Len(w)) : c[i] = IF i <= Len(b) THEN b[i] ELSE w[i - Len(b)]
  BY SMT
<1>n. Len(b) \in Nat /\ Len(w) \in Nat /\ k \in Nat /\ k <= Len(b)
  BY SMT
<1> HIDE DEF c
<1>2. /\ u \in Seq(S) /\ Len(u) = Len(c) - k
      /\ \A i \in 1 .. (Len(c) - k) : u[i] = c[k + i]
  BY <1>1, <1>n, SMT
<1>3. /\ q \in Seq(S) /\ Len(q) = Len(b) - k
      /\ \A i \in 1 .. (Len(b) - k) : q[i] = b[k + i]
  BY <1>n, SMT
<1> HIDE DEF u, q
<1>4. /\ v \in Seq(S) /\ Len(v) = Len(q) + Len(w)
      /\ \A i \in 1 .. (Len(q) + Len(w)) : v[i] = IF i <= Len(q) THEN q[i] ELSE w[i - Len(q)]
  BY <1>3, ConcatProperties, Zenon
<1> HIDE DEF v
<1>5. Len(u) = Len(v)
  BY <1>1, <1>2, <1>3, <1>4, <1>n, SMT
<1>6. ASSUME NEW i \in 1 .. Len(u) PROVE u[i] = v[i]
  <2>1. u[i] = c[k + i] /\ k + i \in 1 .. (Len(b) + Len(w))
    BY <1>1, <1>2, <1>n, SMT
  <2>2. CASE k + i <= Len(b)
    <3>1. c[k + i] = b[k + i]
      BY <1>1, <2>1, <2>2, Zenon
    <3>2. i \in 1 .. (Len(b) - k) /\ i <= Len(q) /\ i \in 1 .. (Len(q) + Len(w))
      BY <1>3, <1>n, <2>2, SMT
    <3>3. v[i] = q[i] /\ q[i] = b[k + i]
      BY <1>3, <1>4, <3>2, Zenon
    <3> QED  BY <2>1, <3>1, <3>3, Zenon
  <2>3. CASE ~(k + i <= Len(b))
    <3>1. c[k + i] = w[(k + i) - Len(b)]
      BY <1>1, <2>1, <2>3, Zenon
    <3>2. ~(i <= Len(q)) /\ i \in 1 .. (Len(q) + Len(w)) /\ (k + i) - Len(b) = i - Len(q)
      BY <1>1, <1>2, <1>3, <1>n, <2>3, SMT
    <3>3. v[i] = w[i - Len(q)]
      BY <1>4, <3>2, Zenon
    <3> QED  BY <2>1, <3>1, <3>2, <3>3, Zenon
  <2> QED  BY <2>2, <2>3
<1>7. u = v
  BY <1>2, <1>4, <1>5, <1>6, SeqEqual, Zenon
<1> QED  BY <1>7 DEF u, v, q, c

\* More bytes change nothing once read_size_check has an answer.
LEMMA SizeCheckIsLocal ==
  ASSUME NEW b \in Seq(Bytes), NEW w \in Seq(Bytes), read_size_check(b).res # "none"
  PROVE  read_size_check(b \o w) = read_size_check(b)
<1> DEFINE c == b \o w
           r == read_size_check(c)
           q == read_size_check(b)
<1>1. c \in Seq(Bytes) /\ Len(b) \in 0 .. Len(c)
  BY SMT
<1>2. SubSeq(c, 1, Len(b)) = b
  BY SMT
<1> HIDE DEF c
<1>3. r.res \in {"some", "none", "err"}
  BY <1>1, SizeCheck, Zenon
<1>4. /\ r.res = "some" => q = IF Len(b) < r.size THEN [res |-> "none"] ELSE r
      /\ r.res = "err" => q = IF Len(b) < 4 THEN [res |-> "none"] ELSE r
      /\ r.res = "none" => q = r
  BY <1>1, <1>2, SizeCheckOfPart
<1>5. q.res # "none"
  OBVIOUS
<1> HIDE DEF r, q
<1>6. r = q
  BY <1>3, <1>4, <1>5, SMT
<1> QED  BY <1>6 DEF r, q, c

\* decode by its cases: what a call that does not ask for more has seen.
LEMMA DecodeCases ==
  ASSUME NEW b \in Seq(Bytes), NEW m
  PROVE  LET r == read_size_check(Tail(b))
         IN  \/ decode(b, m) = NeedMore(b) /\ (b = <<>> \/ r.res = "none" \/ (r.res = "some" /\ ~TooLong(r.len, m)
                                                 /\ Len(b) < FrameSize(r)))
             \/ /\ b # <<>> /\ (r.res = "err" \/ (r.res = "some" /\ TooLong(r.len, m)))
                /\ decode(b, m) = [res |-> "err", rest |-> b]
             \/ /\ b # <<>> /\ r.res = "some" /\ ~TooLong(r.len, m) /\ ~(Len(b) < FrameSize(r))
                /\ decode(b, m) = SplitFrame(b, FrameSize(r))
<1> DEFINE r == read_size_check(Tail(b))
<1>1. decode(b, m) =
        IF b = <<>> \/ r.res = "none" THEN NeedMore(b)
        ELSE IF r.res = "err" \/ TooLong(r.len, m) THEN [res |-> "err", rest |-> b]
        ELSE IF Len(b) < FrameSize(r) THEN NeedMore(b)
        ELSE SplitFrame(b, FrameSize(r))
  BY Zenon DEF decode
<1>2. b # <<>> => r.res \in {"some", "none", "err"}
  <2>1. b # <<>> => Tail(b) \in Seq(Bytes)
    BY SMT
  <2> QED  BY <2>1, SizeCheck, Zenon
<1> HIDE DEF r
<1>3. CASE b = <<>> \/ r.res = "none"
  BY <1>1, <1>3, Zenon DEF r
<1>4. CASE b # <<>> /\ r.res = "err"
  <2>1. r.res # "none"
    BY <1>4, SMT
  <2> QED  BY <1>1, <1>4, <2>1, Zenon DEF r
<1>5. CASE b # <<>> /\ r.res = "some"
  <2>1. r.res # "none" /\ r.res # "err"
    BY <1>5, SMT
  <2>2. decode(b, m) = IF TooLong(r.len, m) THEN [res |-> "err", rest |-> b]
                       ELSE IF Len(b) < FrameSize(r) THEN NeedMore(b)
                       ELSE SplitFrame(b, FrameSize(r))
    BY <1>1, <1>5, <2>1, Zenon
  <2> QED  BY <1>5, <2>2, Zenon DEF r
<1> QED  BY <1>2, <1>3, <1>4, <1>5, Zenon

\* What decode answers does not depend on bytes that arrive later: a packet or
\* an error found in a buffer is found in every longer one, and what is left is
\* longer by the same bytes (MqttCodec::decode, however TCP cuts the stream).
THEOREM DecodeIsLocal ==
  ASSUME NEW b \in Seq(Bytes), NEW w \in Seq(Bytes), NEW m \in Nat, decode(b, m).res # "none"
  PROVE  /\ decode(b \o w, m).res = decode(b, m).res
         /\ decode(b \o w, m).rest = decode(b, m).rest \o w
         /\ decode(b, m).res = "some" => decode(b \o w, m).msg = decode(b, m).msg
<1> DEFINE r == read_size_check(Tail(b))
           c == b \o w
           d == decode(b, m)
           k == FrameSize(r)
<1>1. d # NeedMore(b)
  <2>1. NeedMore(b).res = "none"
    BY SMT DEF NeedMore
  <2> QED  BY <2>1, Zenon
<1>2. b # <<>> /\ r.res \in {"some", "err"}
  BY <1>1, DecodeCases, Zenon
<1>3. Tail(b) \in Seq(Bytes) /\ c \in Seq(Bytes) /\ c # <<>> /\ Tail(c) = Tail(b) \o w
  BY <1>2, SMT
<1>4. read_size_check(Tail(c)) = r
  <2>1. r.res # "none"
    BY <1>2, SMT
  <2>2. read_size_check(Tail(b) \o w) = r
    BY <1>3, <2>1, SizeCheckIsLocal, Zenon
  <2> QED  BY <1>3, <2>2, Zenon
<1>5. decode(c, m) = IF r.res = "err" \/ TooLong(r.len, m) THEN [res |-> "err", rest |-> c]
                     ELSE IF Len(c) < k THEN NeedMore(c) ELSE SplitFrame(c, k)
  <2>1. r.res # "none"
    BY <1>2, SMT
  <2> HIDE DEF c, r
  <2>2. decode(c, m) = LET length == read_size_check(Tail(c)) IN
         IF c = <<>> \/ length.res = "none" THEN NeedMore(c)
        ELSE IF length.res = "err" \/ TooLong(length.len, m) THEN [res |-> "err", rest |-> c]
        ELSE IF Len(c) < FrameSize(length) THEN NeedMore(c)
        ELSE SplitFrame(c, FrameSize(length))
    BY Zenon DEF decode
  <2> QED  BY <2>1, <2>2, <1>3, <1>4, Zenon
<1>6. CASE d = [res |-> "err", rest |-> b] /\ (r.res = "err" \/ (r.res = "some" /\ TooLong(r.len, m)))
  <2> HIDE DEF d, r, k
  <2>1. decode(c, m) = [res |-> "err", rest |-> c]
    BY <1>5, <1>6, Zenon
  <2>2. d.res = "err" /\ d.rest = b /\ decode(c, m).res = "err" /\ decode(c, m).rest = c
    BY <1>6, <2>1, SMT
  <2>3. d.res # "some"
    BY <2>2, SMT
  <2> QED  BY <2>2, <2>3, Zenon DEF d
<1>7. CASE d = SplitFrame(b, k) /\ r.res = "some" /\ ~TooLong(r.len, m) /\ ~(Len(b) < k)
  <2>1. k \in Nat
    <3>1. r.len \in Nat /\ r.size \in 1 .. 4
      BY <1>3, <1>7, SizeCheck, Zenon
    <3> HIDE DEF r
    <3> QED  BY <3>1, SMT DEF FrameSize
  <2>2. r.res # "err"
    BY <1>7, SMT
  <2> HIDE DEF d, r, k
  <2>3. Len(c) = Len(b) + Len(w) /\ ~(Len(c) < k)
    BY <1>7, <2>1, SMT
  <2>4. decode(c, m) = SplitFrame(c, k)
    BY <1>5, <1>7, <2>2, <2>3, Zenon
  <2>5. SubSeq(c, 1, k) = SubSeq(b, 1, k)
    BY <1>7, <2>1, SMT
  <2>6. SubSeq(c, k + 1, Len(c)) = SubSeq(b, k + 1, Len(b)) \o w
    <3>1. k \in 0 .. Len(b)
      BY <1>7, <2>1, SMT
    <3> QED  BY <3>1, RestOfConcat, Zenon
  <2> DEFINE answer == FromBytes(SubSeq(b, 1, k))
             rest == SubSeq(b, k + 1, Len(b))
  <2>7. d = Parsed(answer, rest) /\ decode(c, m) = Parsed(answer, rest \o w)
    BY <1>7, <2>4, <2>5, <2>6, Zenon DEF SplitFrame
  <2> HIDE DEF c, answer, rest
  <2>8. /\ decode(c, m).res = d.res /\ decode(c, m).rest = d.rest \o w
        /\ d.res = "some" => decode(c, m).msg = d.msg
    BY <2>7, SMT DEF Parsed
  <2> QED  BY <2>8 DEF d, c
<1> QED  BY <1>1, <1>6, <1>7, DecodeCases, Zenon


-----------------------------------------------------------------------------
(* The encoders and the parsers. *)

LEMMA ConcatThree ==
  ASSUME NEW b \in Seq(Bytes), NEW x \in Seq(Bytes), NEW c \in Seq(Bytes)
  PROVE  (b \o x) \o c = b \o (x \o c) /\ x \o c \in Seq(Bytes)
<1>1. (b \o x) \o c = b \o (x \o c)
  BY ConcatAssociative, SMT
<1>2. x \o c \in Seq(Bytes)
  BY ConcatProperties, Zenon
<1> QED  BY <1>1, <1>2

LEMMA Joins ==
  ASSUME NEW b \in Seq(Bytes), NEW x \in Seq(Bytes), NEW c, c = b \o x
  PROVE  /\ c \in Seq(Bytes) /\ Len(c) = Len(b) + Len(x)
         /\ Len(b) \in Nat /\ Len(x) \in Nat /\ Len(c) \in Nat
         /\ \A i \in 1 .. Len(b) : c[i] = b[i]
         /\ \A i \in 1 .. Len(x) : c[Len(b) + i] = x[i]
<1>1. /\ c \in Seq(Bytes) /\ Len(c) = Len(b) + Len(x)
      /\ \A i \in 1 .. (Len(b) + Len(x)) : c[i] = IF i <= Len(b) THEN b[i] ELSE x[i - Len(b)]
  BY ConcatProperties, SMT
<1>2. Len(b) \in Nat /\ Len(x) \in Nat
  BY LenProperties, Zenon
<1>3. Len(c) \in Nat
  BY <1>1, <1>2, SMT
<1>4. ASSUME NEW i \in 1 .. Len(b) PROVE c[i] = b[i]
  <2>1. i \in 1 .. (Len(b) + Len(x)) /\ i <= Len(b)
    BY <1>2, SMT
  <2> QED  BY <1>1, <2>1, Zenon
<1>5. ASSUME NEW i \in 1 .. Len(x) PROVE c[Len(b) + i] = x[i]
  <2>1. Len(b) + i \in 1 .. (Len(b) + Len(x)) /\ ~(Len(b) + i <= Len(b)) /\ (Len(b) + i) - Len(b) = i
    BY <1>2, SMT
  <2>2. c[Len(b) + i] = x[(Len(b) + i) - Len(b)]
    BY <1>1, <2>1, Zenon
  <2> QED  BY <2>1, <2>2, Zenon
<1> QED  BY <1>1, <1>2, <1>3, <1>4, <1>5

LEMMA JoinBegins ==
  ASSUME NEW b \in Seq(Bytes), NEW x \in Seq(Bytes)
  PROVE  (\A i \in 1 .. Len(b) : (b \o x)[i] = b[i]) /\ Len(b) \in Nat
<1> DEFINE c == b \o x
<1>1. c = b \o x
  OBVIOUS
<1> HIDE DEF c
<1>2. (\A i \in 1 .. Len(b) : c[i] = b[i]) /\ Len(b) \in Nat
  BY <1>1, Joins
<1> QED  BY <1>2 DEF c

LEMMA JoinEnds ==
  ASSUME NEW b \in Seq(Bytes), NEW x \in Seq(Bytes)
  PROVE  \A i \in 1 .. Len(x) : (b \o x)[Len(b) + i] = x[i]
<1> DEFINE c == b \o x
<1>1. c = b \o x
  OBVIOUS
<1> HIDE DEF c
<1>2. \A i \in 1 .. Len(x) : c[Len(b) + i] = x[i]
  BY <1>1, Joins
<1> QED  BY <1>2 DEF c

LEMMA JoinIs ==
  ASSUME NEW b \in Seq(Bytes), NEW x \in Seq(Bytes)
  PROVE  /\ b \o x \in Seq(Bytes) /\ Len(b \o x) = Len(b) + Len(x) /\ Len(x) \in Nat
         /\ (\A i \in 1 .. Len(b) : (b \o x)[i] = b[i])
         /\ (\A i \in 1 .. Len(x) : (b \o x)[Len(b) + i] = x[i])
<1>1. /\ b \o x \in Seq(Bytes) /\ Len(b \o x) = Len(b) + Len(x) /\ Len(x) \in Nat
  BY ConcatProperties, LenProperties, Zenon
<1> QED  BY <1>1, JoinBegins, JoinEnds, Zenon

\* read_varint and read_size_check read a complete field alike.
LEMMA VarintIsRead ==
  ASSUME NEW b, NEW n, NEW k, read_size_check(b) = [res |-> "some", len |-> n, size |-> k]
  PROVE  read_varint(b) = [ok |-> TRUE, len |-> n, size |-> k]
<1> DEFINE ends == LengthEnds(b, 4)
           v == LengthValue(b, FirstOf(ends))
           z == FirstOf(ends)
<1>1. read_size_check(b) = IF ends # {} THEN [res |-> "some", len |-> v, size |-> z]
                           ELSE IF Len(b) >= 4 THEN [res |-> "err"] ELSE [res |-> "none"]
  BY Zenon DEF read_size_check
<1>2. read_varint(b) = IF ends # {} THEN [ok |-> TRUE, len |-> v, size |-> z] ELSE [ok |-> FALSE]
  BY Zenon DEF read_varint
<1> HIDE DEF ends, v, z
<1>3. ends # {} /\ v = n /\ z = k
  BY <1>1, SMT
<1> QED  BY <1>2, <1>3, Zenon

LEMMA TypeNames ==
  /\ DOMAIN TypeName = 1 .. 14
  /\ TypeName[3] = "Publish" /\ TypeName[4] = "PubAck" /\ TypeName[5] = "PubRec"
  /\ TypeName[6] = "PubRel" /\ TypeName[7] = "PubComp" /\ TypeName[12] = "PingReq"
  /\ TypeName[14] = "Disconnect"
  BY SMT DEF TypeName

LEMMA TypeNumbers ==
  /\ TypeNumber("Publish") = 3 /\ TypeNumber("PubAck") = 4 /\ TypeNumber("PubRec") = 5
  /\ TypeNumber("PubRel") = 6 /\ TypeNumber("PubComp") = 7 /\ TypeNumber("PingReq") = 12
  /\ TypeNumber("Disconnect") = 14
<1>1. \A n \in 1 .. 14 : /\ TypeName[n] = "Publish" <=> n = 3
                         /\ TypeName[n] = "PubAck" <=> n = 4
                         /\ TypeName[n] = "PubRec" <=> n = 5
                         /\ TypeName[n] = "PubRel" <=> n = 6
                         /\ TypeName[n] = "PubComp" <=> n = 7
                         /\ TypeName[n] = "PingReq" <=> n = 12
                         /\ TypeName[n] = "Disconnect" <=> n = 14
  BY SMT DEF TypeName
<1>2. \A type : TypeNumber(type) = CHOOSE n \in 1 .. 14 : TypeName[n] = type
  BY TypeNames, Zenon DEF TypeNumber
<1> QED  BY <1>1, <1>2, SMT

\* What FromBytes makes of a frame: its type, its flags and its body.
LEMMA FrameIsOpened ==
  ASSUME NEW type \in 1 .. 14, NEW flags \in 0 .. 15, NEW body \in Seq(Bytes), Len(body) <= MAX_LENGTH
  PROVE  LET f == Framed(16 * type + flags, body)
             name == TypeName[type]
         IN  /\ name = "Disconnect" => FromBytes(f) = Ok([type |-> "Disconnect"])
             /\ name = "Publish" => FromBytes(f) = PublishFromBytes(flags, body)
             /\ name = "PingReq" => FromBytes(f) = PingReqFromBytes(flags, body)
             /\ name \in {"PubAck", "PubRec", "PubRel", "PubComp"} =>
                   FromBytes(f) = AckFromBytes(name, flags, body)
<1> DEFINE h == 16 * type + flags
           f == Framed(h, body)
           e == encode_length[Len(body)]
           name == TypeName[type]
<1>1. h \in Bytes /\ h \div 16 = type /\ h % 16 = flags
  BY SMT DEF Bytes
<1> HIDE DEF h
<1>2. PICK k \in 1 .. 4 : /\ Encodes(e, k, Len(body))
                          /\ f \in Seq(Bytes) /\ Len(f) = 1 + k + Len(body)
                          /\ \A rest \in Seq(Bytes) : Tail(f \o rest) = e \o (body \o rest)
  BY <1>1, FrameParts, Zenon
<1>3. f = <<h>> \o e \o body
  BY Zenon DEF Framed
<1>4. e \in Seq(Bytes) /\ Len(e) = k /\ Len(body) \in Nat
  BY <1>2, SMT DEF Encodes
<1> HIDE DEF f, e
<1>5. Tail(f) = e \o body
  <2>1. <<>> \in Seq(Bytes) /\ f \o <<>> = f /\ body \o <<>> = body
    BY <1>2, EmptySeq, ConcatEmptySeq, Zenon
  <2> QED  BY <1>2, <2>1, Zenon
<1>6. read_size_check(Tail(f)) = [res |-> "some", len |-> Len(body), size |-> k]
  <2>1. read_size_check(e \o body) = [res |-> "some", len |-> Len(body), size |-> k]
    BY <1>2, <1>4, FieldIsRead, Zenon
  <2> QED  BY <1>5, <2>1, Zenon
<1>7. read_varint(Tail(f)) = [ok |-> TRUE, len |-> Len(body), size |-> k]
  BY <1>6, VarintIsRead, Zenon
<1>8. f[1] = h /\ SubSeq(f, 2 + k, Len(f)) = body
  BY <1>1, <1>3, <1>4, SMT
<1> DEFINE length == read_varint(Tail(f))
<1>9. length.ok /\ length.size = k
  BY <1>7, SMT
<1>10. type \in DOMAIN TypeName
  BY TypeNames, Zenon
<1> HIDE DEF length
<1>11. FromBytes(f) =
         IF name = "Disconnect" THEN Ok([type |-> "Disconnect"])
         ELSE CASE name = "Connect" -> ConnectFromBytes(flags, body)
               [] name = "Publish" -> PublishFromBytes(flags, body)
               [] name = "Subscribe" -> SubscribeFromBytes(flags, body)
               [] name = "Unsubscribe" -> UnsubscribeFromBytes(flags, body)
               [] name = "PingReq" -> PingReqFromBytes(flags, body)
               [] name \in {"PubAck", "PubRec", "PubRel", "PubComp"} -> AckFromBytes(name, flags, body)
               [] OTHER -> Fail
  BY <1>1, <1>8, <1>9, <1>10, Zenon DEF FromBytes, length
<1> HIDE DEF name
<1>12. /\ name = "Disconnect" => FromBytes(f) = Ok([type |-> "Disconnect"])
       /\ name = "Publish" => FromBytes(f) = PublishFromBytes(flags, body)
       /\ name = "PingReq" => FromBytes(f) = PingReqFromBytes(flags, body)
       /\ name \in {"PubAck", "PubRec", "PubRel", "PubComp"} =>
             FromBytes(f) = AckFromBytes(name, flags, body)
  BY <1>11, SMT
<1> QED  BY <1>12 DEF f, h, name

\* A number of two bytes is read back.
U16 == 0 .. 65535

LEMMA U16IsRead ==
  ASSUME NEW n \in U16
  PROVE  /\ u16(n) \in Seq(Bytes) /\ Len(u16(n)) = 2
         /\ u16(n)[1] * 256 + u16(n)[2] = n
<1>1. n \div 256 \in Bytes /\ n % 256 \in Bytes /\ (n \div 256) * 256 + (n % 256) = n
  BY SMT DEF Bytes, U16
<1> QED  BY <1>1, SMT DEF u16

\* The packets of an exchange that only carry an identifier, and the PUBLISH packets,
\* without dup, which to_bytes drops, and without an identifier at QoS 0.
AckPackets == [type : {"PubAck", "PubRec", "PubRel", "PubComp"}, mid : U16]

PublishPackets ==
  {m \in [type : {"Publish"}, dup : {FALSE}, qos : 0 .. 2, retain : BOOLEAN, topic : Seq(Bytes),
          mid : U16, message : Seq(Bytes)] :
     /\ publish_topic_valid(m.topic) /\ from_utf8(m.topic) /\ Len(m.topic) \in U16
     /\ m.qos = 0 <=> m.mid = 0
     /\ 2 + Len(m.topic) + 2 + Len(m.message) <= MAX_LENGTH}

\* An encoding: a frame of the packet's type that is parsed as the packet.
EncodedAs(m, type, flags, body) ==
  /\ type \in 1 .. 14 /\ flags \in 0 .. 15 /\ body \in Seq(Bytes) /\ Len(body) <= MAX_LENGTH
  /\ encode(m) = Framed(16 * type + flags, body)
  /\ FromBytes(encode(m)) = Ok(m)

LEMMA AckIsParsed ==
  ASSUME NEW m \in AckPackets
  PROVE  \E type, flags : EncodedAs(m, type, flags, u16(m.mid))
<1> DEFINE type == TypeNumber(m.type)
           flags == IF m.type = "PubRel" THEN 2 ELSE 0
           body == u16(m.mid)
<1>1. m.type \in {"PubAck", "PubRec", "PubRel", "PubComp"} /\ m.mid \in U16
      /\ m = [type |-> m.type, mid |-> m.mid]
  BY DEF AckPackets
<1>2. type \in 1 .. 14 /\ TypeName[type] = m.type
  BY <1>1, TypeNumbers, TypeNames, SMT
<1>3. flags \in 0 .. 15
  BY SMT
<1>4. body \in Seq(Bytes) /\ Len(body) = 2 /\ body[1] * 256 + body[2] = m.mid
  BY <1>1, U16IsRead, Zenon
<1>5. Len(body) <= MAX_LENGTH
  BY <1>4, SMT DEF MAX_LENGTH
<1>6. encode(m) = Framed(16 * type + flags, body)
  <2>1. encode(m) = AckToBytes(m)
    BY <1>1, SMT DEF encode
  <2>2. AckToBytes(m) = Frame(m.type, flags, body)
    BY Zenon DEF AckToBytes
  <2> QED  BY <2>1, <2>2, FrameIsFramed, Zenon
<1> HIDE DEF type, body
<1>7. FromBytes(encode(m)) = AckFromBytes(m.type, flags, body)
  <2> HIDE DEF flags
  <2> QED  BY <1>1, <1>2, <1>3, <1>4, <1>5, <1>6, FrameIsOpened, Zenon
<1>8. ReadU16(body, 1) = m.mid
  <2>1. 1 + 1 = 2
    BY SMT
  <2> QED  BY <1>4, <2>1, Zenon DEF ReadU16
<1>9. AckFromBytes(m.type, flags, body) = Ok([type |-> m.type, mid |-> m.mid])
  BY <1>4, <1>8, Zenon DEF AckFromBytes
<1>10. FromBytes(encode(m)) = Ok(m)
  BY <1>1, <1>7, <1>9, Zenon
<1>11. EncodedAs(m, type, flags, body)
  <2> HIDE DEF flags
  <2> QED  BY <1>2, <1>3, <1>4, <1>5, <1>6, <1>10, Zenon DEF EncodedAs
<1> QED  BY <1>11, Zenon DEF body

\* The flags of a PUBLISH.
LEMMA PublishFlags ==
  ASSUME NEW retain \in BOOLEAN, NEW qos \in 0 .. 2
  PROVE  LET flags == Flag(retain, 0) + 2 * qos
         IN  /\ flags \in 0 .. 15 /\ ~Bit(flags, 3) /\ (flags \div 2) % 4 = qos
             /\ Bit(flags, 0) <=> retain
<1>1. Flag(retain, 0) = IF retain THEN 1 ELSE 0
  BY SMT DEF Flag
<1>2. 2^3 = 8 /\ 2^0 = 1
  BY SMT
<1> DEFINE f == Flag(retain, 0)
<1>3. f \in 0 .. 1 /\ (f = 1 <=> retain)
  BY <1>1, SMT
<1> HIDE DEF f
<1>4. /\ f + 2 * qos \in 0 .. 15 /\ ((f + 2 * qos) \div 8) % 2 = 0
      /\ ((f + 2 * qos) \div 2) % 4 = qos /\ ((f + 2 * qos) \div 1) % 2 = f
  BY <1>3, SMT
<1>5. 0 # 1
  BY SMT
<1> QED  BY <1>2, <1>3, <1>4, <1>5, Zenon DEF Bit, f

\* Where the parts of a PUBLISH are found in its body: the topic, the identifier if
\* there is one, and the payload.
LaidOut(b, topic, ids, message) ==
  LET id == PastString(b, 1)
  IN  /\ b \in Seq(Bytes) /\ Len(b) = 2 + Len(topic) + Len(ids) + Len(message)
      /\ HasString(b, 1) /\ ReadString(b, 1) = topic
      /\ id = 3 + Len(topic) /\ SubSeq(b, id + Len(ids), Len(b)) = message
      /\ Len(ids) = 2 => Has(b, id, 2) /\ ReadU16(b, id) = ids[1] * 256 + ids[2]

LEMMA PublishBody ==
  ASSUME NEW topic \in Seq(Bytes), Len(topic) \in U16, NEW ids \in Seq(Bytes), NEW message \in Seq(Bytes)
  PROVE  LaidOut(Prefixed(topic) \o ids \o message, topic, ids, message)
<1> DEFINE l == Len(topic)
           q == u16(l)
           b == q \o topic \o ids \o message
<1>1. l \in U16 /\ l \in Nat
  BY LenProperties, Zenon
<1>2. q \in Seq(Bytes) /\ Len(q) = 2 /\ q[1] * 256 + q[2] = l
  BY <1>1, U16IsRead, Zenon
<1>0. b = Prefixed(topic) \o ids \o message
  BY Zenon DEF Prefixed
<1>l. l = Len(topic)
  OBVIOUS
<1> HIDE DEF q, l
<1> DEFINE a == q \o topic
           c == a \o ids
<1>3. /\ a \in Seq(Bytes) /\ Len(a) = 2 + l
      /\ (\A i \in 1 .. 2 : a[i] = q[i]) /\ (\A i \in 1 .. l : a[2 + i] = topic[i])
  <2>1. /\ a \in Seq(Bytes) /\ Len(a) = Len(q) + Len(topic) /\ Len(topic) \in Nat
        /\ (\A i \in 1 .. Len(q) : a[i] = q[i]) /\ (\A i \in 1 .. Len(topic) : a[Len(q) + i] = topic[i])
    BY <1>2, JoinIs, Zenon
  <2> HIDE DEF a
  <2> QED  BY <1>2, <1>l, <2>1, Zenon
<1>b. b = c \o message
  OBVIOUS
<1> HIDE DEF a, b
<1>4. /\ c \in Seq(Bytes) /\ Len(c) = Len(a) + Len(ids) /\ Len(ids) \in Nat
      /\ (\A i \in 1 .. Len(a) : c[i] = a[i]) /\ (\A i \in 1 .. Len(ids) : c[Len(a) + i] = ids[i])
  BY <1>3, JoinIs, Zenon
<1> HIDE DEF c
<1>d. /\ c \o message \in Seq(Bytes) /\ Len(c \o message) = Len(c) + Len(message) /\ Len(message) \in Nat
      /\ (\A i \in 1 .. Len(c) : (c \o message)[i] = c[i])
      /\ (\A i \in 1 .. Len(message) : (c \o message)[Len(c) + i] = message[i])
  BY <1>4, JoinIs, Zenon
<1>5. /\ b \in Seq(Bytes) /\ Len(b) = Len(c) + Len(message) /\ Len(message) \in Nat
      /\ (\A i \in 1 .. Len(c) : b[i] = c[i]) /\ (\A i \in 1 .. Len(message) : b[Len(c) + i] = message[i])
  BY <1>b, <1>d
<1> DEFINE n == Len(ids)
           k == Len(message)
<1>6. /\ Len(c) = 2 + l + n /\ Len(b) = 2 + l + n + k /\ n \in Nat /\ k \in Nat
      /\ \A i \in 1 .. l : b[2 + i] = topic[i]
      /\ \A i \in 1 .. n : b[2 + l + i] = ids[i]
      /\ b[1] = q[1] /\ b[2] = q[2]
  <2>1. Len(c) = 2 + l + n /\ Len(b) = 2 + l + n + k /\ n \in Nat /\ k \in Nat
    BY <1>1, <1>3, <1>4, <1>5, SMT
  <2> HIDE DEF n, k
  <2>2. ASSUME NEW i \in 1 .. l PROVE b[2 + i] = topic[i]
    <3>1. 2 + i \in 1 .. Len(a) /\ 2 + i \in 1 .. Len(c)
      BY <1>1, <1>3, <2>1, SMT
    <3> QED  BY <1>3, <1>4, <1>5, <3>1, Zenon
  <2>3. ASSUME NEW i \in 1 .. n PROVE b[2 + l + i] = ids[i]
    <3>1. Len(a) + i \in 1 .. Len(c) /\ Len(a) + i = 2 + l + i
      BY <1>1, <1>3, <2>1, SMT
    <3>2. b[Len(a) + i] = c[Len(a) + i] /\ c[Len(a) + i] = ids[i]
      BY <1>4, <1>5, <3>1, Zenon DEF n
    <3> QED  BY <3>1, <3>2, Zenon
  <2>4. \A i \in 1 .. 2 : b[i] = q[i]
    <3> TAKE i \in 1 .. 2
    <3>1. i \in 1 .. Len(a) /\ i \in 1 .. Len(c)
      BY <1>1, <1>3, <2>1, SMT
    <3> QED  BY <1>3, <1>4, <1>5, <3>1, Zenon
  <2>5. 1 \in 1 .. 2 /\ 2 \in 1 .. 2
    BY SMT
  <2> QED  BY <2>1, <2>2, <2>3, <2>4, <2>5, Zenon
<1>7. ReadU16(b, 1) = l
  <2>1. 1 + 1 = 2
    BY SMT
  <2> QED  BY <1>2, <1>6, <2>1, Zenon DEF ReadU16
<1>8. HasString(b, 1)
  <2>1. 1 + 2 - 1 <= Len(b) /\ 1 + 2 + l - 1 <= Len(b)
    BY <1>1, <1>6, SMT
  <2> QED  BY <1>7, <2>1, Zenon DEF HasString, Has
<1>9. ReadString(b, 1) = topic
  <2> DEFINE r == SubSeq(b, 3, 2 + l)
  <2>1. ReadString(b, 1) = r
    <3>1. 1 + 2 = 3 /\ 1 + 1 + l = 2 + l
      BY <1>1, SMT
    <3> QED  BY <1>7, <3>1, Zenon DEF ReadString
  <2>2. r \in Seq(Bytes) /\ Len(r) = l /\ \A i \in 1 .. l : r[i] = b[2 + i]
    BY <1>1, <1>5, <1>6, SMT
  <2> HIDE DEF r
  <2>3. \A i \in 1 .. Len(r) : r[i] = topic[i]
    BY <1>6, <2>2, Zenon
  <2>4. r = topic
    BY <1>l, <2>2, <2>3, SeqEqual, Zenon
  <2> QED  BY <2>1, <2>4, Zenon
<1>10. PastString(b, 1) = 3 + l
  <2>1. 1 + 2 + l = 3 + l
    BY <1>1, SMT
  <2> QED  BY <1>7, <2>1, Zenon DEF PastString
<1>11. SubSeq(b, 3 + l + n, Len(b)) = message
  <2> DEFINE r == SubSeq(b, 3 + l + n, Len(b))
  <2> HIDE DEF n, k
  <2>0. Len(b) = 2 + l + n + k /\ n \in Nat /\ k \in Nat
    BY <1>6, Zenon
  <2> DEFINE o == 2 + l + n
  <2>o. o \in Nat /\ Len(b) = o + k /\ r = SubSeq(b, o + 1, Len(b))
    BY <1>1, <2>0, SMT
  <2>1. r \in Seq(Bytes) /\ Len(r) = k /\ \A i \in 1 .. k : r[i] = b[(2 + l + n) + i]
    <3> HIDE DEF o, r
    <3>1. r \in Seq(Bytes) /\ Len(r) = k /\ \A i \in 1 .. k : r[i] = b[o + i]
      BY <1>5, <2>0, <2>o, SMT
    <3> QED  BY <3>1 DEF o
  <2> HIDE DEF r
  <2>2. \A i \in 1 .. Len(r) : r[i] = message[i]
    <3>1. \A i \in 1 .. k : b[Len(c) + i] = message[i]
      BY <1>5, Zenon DEF k
    <3>2. \A i \in 1 .. k : b[(2 + l + n) + i] = message[i]
      BY <1>6, <3>1, Zenon
    <3> QED  BY <2>1, <3>2, Zenon
  <2>3. r = message
    BY <2>1, <2>2, SeqEqual, Zenon DEF k
  <2> QED  BY <2>3 DEF r
<1>12. ASSUME n = 2 PROVE Has(b, 3 + l, 2) /\ ReadU16(b, 3 + l) = ids[1] * 256 + ids[2]
  <2>1. 3 + l + 2 - 1 <= Len(b)
    BY <1>1, <1>6, <1>12, SMT
  <2>2. 1 \in 1 .. n /\ 2 \in 1 .. n /\ 2 + l + 1 = 3 + l /\ 2 + l + 2 = 3 + l + 1
    BY <1>1, <1>12, SMT
  <2>3. b[3 + l] = ids[1] /\ b[3 + l + 1] = ids[2]
    BY <1>6, <2>2, Zenon
  <2> QED  BY <2>1, <2>3, Zenon DEF Has, ReadU16
<1>13. Len(b) = 2 + l + n + k
  BY <1>6, Zenon
<1>14. LaidOut(b, topic, ids, message)
  BY <1>5, <1>8, <1>9, <1>10, <1>11, <1>12, <1>13, <1>l, Zenon DEF LaidOut
<1> QED  BY <1>0, <1>14, Zenon

LEMMA PublishIsParsed ==
  ASSUME NEW m \in PublishPackets
  PROVE  \E type, flags, body : EncodedAs(m, type, flags, body)
<1> DEFINE flags == Flag(m.retain, 0) + 2 * m.qos
           ids == IF m.qos > 0 THEN u16(m.mid) ELSE <<>>
           b == Prefixed(m.topic) \o ids \o m.message
           id == PastString(b, 1)
<1>1. /\ m.type = "Publish" /\ m.dup = FALSE /\ m.qos \in 0 .. 2 /\ m.retain \in BOOLEAN
      /\ m.topic \in Seq(Bytes) /\ m.mid \in U16 /\ m.message \in Seq(Bytes)
      /\ m = [type |-> m.type, dup |-> m.dup, qos |-> m.qos, retain |-> m.retain, topic |-> m.topic,
              mid |-> m.mid, message |-> m.message]
  BY DEF PublishPackets
<1>2. /\ publish_topic_valid(m.topic) /\ from_utf8(m.topic) /\ Len(m.topic) \in U16
      /\ m.qos = 0 <=> m.mid = 0
      /\ 2 + Len(m.topic) + 2 + Len(m.message) <= MAX_LENGTH
  BY DEF PublishPackets
<1>3. /\ flags \in 0 .. 15 /\ ~Bit(flags, 3) /\ (flags \div 2) % 4 = m.qos /\ (Bit(flags, 0) <=> m.retain)
  BY <1>1, PublishFlags, Zenon
<1>4. /\ ids \in Seq(Bytes) /\ (m.qos > 0 => Len(ids) = 2 /\ ids[1] * 256 + ids[2] = m.mid)
      /\ ~(m.qos > 0) => Len(ids) = 0
  <2>1. CASE m.qos > 0
    BY <1>1, <2>1, U16IsRead
  <2>2. CASE ~(m.qos > 0)
    BY <2>2
  <2> QED  BY <2>1, <2>2
<1> HIDE DEF ids
<1>5. /\ b \in Seq(Bytes) /\ Len(b) = 2 + Len(m.topic) + Len(ids) + Len(m.message)
      /\ HasString(b, 1) /\ ReadString(b, 1) = m.topic
      /\ id = 3 + Len(m.topic) /\ SubSeq(b, id + Len(ids), Len(b)) = m.message
      /\ Len(ids) = 2 => Has(b, id, 2) /\ ReadU16(b, id) = ids[1] * 256 + ids[2]
  <2>1. LaidOut(b, m.topic, ids, m.message)
    BY <1>1, <1>2, <1>4, PublishBody
  <2> HIDE DEF b
  <2> QED  BY <2>1, Zenon DEF LaidOut
<1>6. Len(b) <= MAX_LENGTH
  <2> DEFINE x == Len(m.topic)
             y == Len(m.message)
  <2>1. x \in Nat /\ y \in Nat /\ Len(ids) \in Nat /\ 2 + x + 2 + y <= MAX_LENGTH
        /\ Len(b) = 2 + x + Len(ids) + y
    BY <1>1, <1>2, <1>4, <1>5, LenProperties, Zenon
  <2> HIDE DEF x, y, b
  <2>2. Len(ids) <= 2
    <3>1. Len(ids) = 2 \/ Len(ids) = 0
      BY <1>4, Zenon
    <3> QED  BY <3>1, SMT
  <2> QED  BY <2>1, <2>2, SMT DEF MAX_LENGTH
<1>7. encode(m) = Framed(16 * 3 + flags, b)
  <2>1. encode(m) = PublishToBytes(m)
    BY <1>1, SMT DEF encode
  <2>2. PublishToBytes(m) = Frame("Publish", flags, b)
    BY Zenon DEF PublishToBytes, ids
  <2>3. TypeNumber("Publish") = 3
    BY TypeNumbers, Zenon
  <2> QED  BY <2>1, <2>2, <2>3, FrameIsFramed, Zenon
<1> HIDE DEF b, flags, id
<1>8. 3 \in 1 .. 14 /\ TypeName[3] = "Publish"
  BY TypeNames, SMT
<1>9. FromBytes(encode(m)) = PublishFromBytes(flags, b)
  BY <1>3, <1>5, <1>6, <1>7, <1>8, FrameIsOpened, Zenon
<1>10. m.qos > 0 => Has(b, id, 2) /\ ReadU16(b, id) = m.mid /\ m.mid # 0
  <2>1. m.qos > 0 => m.qos # 0
    BY <1>1, SMT
  <2> QED  BY <1>2, <1>4, <1>5, <2>1, Zenon
<1>11. m.mid = IF m.qos > 0 THEN ReadU16(b, id) ELSE 0
  <2>1. ~(m.qos > 0) => m.qos = 0
    BY <1>1, SMT
  <2> QED  BY <1>2, <1>10, <2>1, Zenon
<1>12. SubSeq(b, IF m.qos > 0 THEN id + 2 ELSE id, Len(b)) = m.message
  <2>1. id + 0 = id
    <3>1. Len(m.topic) \in Nat
      BY <1>1, LenProperties, Zenon
    <3> QED  BY <1>5, <3>1, SMT
  <2> QED  BY <1>4, <1>5, <2>1, Zenon
<1>13. qos_valid(m.qos)
  BY <1>1, SMT DEF qos_valid
<1> DEFINE top == ReadString(b, 1)
           mid == IF m.qos > 0 THEN ReadU16(b, id) ELSE 0
           pay == SubSeq(b, IF m.qos > 0 THEN id + 2 ELSE id, Len(b))
<1>14. PublishFromBytes(flags, b) =
         Ok([type |-> "Publish", dup |-> Bit(flags, 3), qos |-> m.qos, retain |-> Bit(flags, 0),
             topic |-> top, mid |-> mid, message |-> pay])
  <2>1. /\ qos_valid(m.qos) /\ ~(Bit(flags, 3) /\ m.qos = 0) /\ HasString(b, 1)
        /\ publish_topic_valid(top) /\ from_utf8(top)
        /\ m.qos > 0 => Has(b, id, 2) /\ ReadU16(b, id) # 0
    BY <1>2, <1>3, <1>5, <1>10, <1>13, Zenon
  <2>2. (flags \div 2) % 4 = m.qos
    BY <1>3
  <2> QED  BY <2>1, <2>2, Zenon DEF PublishFromBytes, id
<1>15. Bit(flags, 3) = FALSE /\ Bit(flags, 0) = m.retain
  BY <1>1, <1>3, Zenon DEF Bit
<1>16. top = m.topic /\ mid = m.mid /\ pay = m.message
  BY <1>5, <1>11, <1>12, Zenon
<1> HIDE DEF top, mid, pay
<1>17. PublishFromBytes(flags, b) = Ok(m)
  <2>1. PublishFromBytes(flags, b) =
          Ok([type |-> m.type, dup |-> m.dup, qos |-> m.qos, retain |-> m.retain, topic |-> m.topic,
              mid |-> m.mid, message |-> m.message])
    BY <1>1, <1>14, <1>15, <1>16
  <2> QED  BY <1>1, <2>1, Zenon
<1>18. EncodedAs(m, 3, flags, b)
  BY <1>3, <1>5, <1>6, <1>7, <1>8, <1>9, <1>17, Zenon DEF EncodedAs
<1> QED  BY <1>18, Zenon

\* Whatever the broker encodes of a QoS exchange, acknowledgements and PUBLISH packets
\* of any size with a topic the validator takes, the decoder gives back, and leaves
\* what follows (to_bytes and from_bytes of messages/mod.rs, encode and decode).
THEOREM EncodedIsDecoded ==
  ASSUME NEW m \in AckPackets \cup PublishPackets, NEW rest \in Seq(Bytes), NEW limit \in Nat,
         Len(encode(m)) <= limit
  PROVE  decode(encode(m) \o rest, limit) = [res |-> "some", msg |-> m, rest |-> rest]
<1>1. PICK type, flags, body : EncodedAs(m, type, flags, body)
  BY AckIsParsed, PublishIsParsed, Zenon
<1> DEFINE h == 16 * type + flags
           f == Framed(h, body)
<1>2. /\ type \in 1 .. 14 /\ flags \in 0 .. 15 /\ body \in Seq(Bytes) /\ Len(body) <= MAX_LENGTH
      /\ encode(m) = f /\ FromBytes(f) = Ok(m)
  BY <1>1, Zenon DEF EncodedAs
<1>3. h \in Bytes
  BY <1>2, SMT DEF Bytes
<1> HIDE DEF h
<1>4. Len(body) <= limit
  <2>1. PICK k \in 1 .. 4 : Len(f) = 1 + k + Len(body)
    BY <1>2, <1>3, FrameParts, Zenon
  <2>2. Len(f) <= limit /\ Len(body) \in Nat
    BY <1>2, LenProperties, Zenon
  <2> HIDE DEF f
  <2> QED  BY <2>1, <2>2, SMT
<1>5. decode(f \o rest, limit) = Parsed(FromBytes(f), rest)
  BY <1>2, <1>3, <1>4, FrameIsFound, Zenon
<1>6. Parsed(Ok(m), rest) = [res |-> "some", msg |-> m, rest |-> rest]
  BY SMT DEF Parsed, Ok
<1> QED  BY <1>2, <1>5, <1>6, Zenon

-----------------------------------------------------------------------------
(* The bytes of a stream. *)

\* One round of BytesOf, for pieces c.
Joined(g, c, i) == IF i = 0 THEN <<>> ELSE g[i - 1] \o c[i]

LEMMA JoinedExists ==
  ASSUME NEW n \in Nat, NEW c
  PROVE  \E g : g = [i \in 0 .. n |-> Joined(g, c, i)]
<1> DEFINE Bad == {k \in Nat : ~\E g : g = [i \in 0 .. k |-> Joined(g, c, i)]}
<1> SUFFICES ASSUME Bad # {} PROVE FALSE
  OBVIOUS
<1>1. PICK k \in Bad : \A j \in Bad : k <= j
  <2>1. Bad \in SUBSET Nat  OBVIOUS
  <2> HIDE DEF Bad
  <2> QED  BY <2>1, LeastOf
<1>2. k \in Nat /\ ~\E g : g = [i \in 0 .. k |-> Joined(g, c, i)]
  BY <1>1
<1>3. CASE k = 0
  <2> DEFINE g == [i \in 0 .. 0 |-> <<>>]
  <2>1. g = [i \in 0 .. 0 |-> Joined(g, c, i)]
    BY DEF Joined
  <2> QED  BY <1>2, <1>3, <2>1
<1>4. CASE k # 0
  <2>1. k - 1 \in Nat /\ ~(k <= k - 1)
    BY <1>2, <1>4
  <2>2. k - 1 \notin Bad
    <3> HIDE DEF Bad
    <3> QED  BY <1>1, <2>1
  <2>3. PICK g : g = [i \in 0 .. (k - 1) |-> Joined(g, c, i)]
    BY <2>1, <2>2
  <2> DEFINE h == [i \in 0 .. k |-> IF i = k THEN g[k - 1] \o c[k] ELSE g[i]]
  <2>4. ASSUME NEW i \in 0 .. k PROVE h[i] = Joined(h, c, i)
    <3>1. h[i] = IF i = k THEN g[k - 1] \o c[k] ELSE g[i]
      OBVIOUS
    <3>2. i # 0 => i - 1 \in 0 .. k /\ i - 1 # k /\ i - 1 \in 0 .. (k - 1)
      BY <1>2
    <3>3. i # 0 => h[i - 1] = g[i - 1]
      BY <3>2
    <3>4. i # k => i \in 0 .. (k - 1)
      BY <1>2
    <3>5. i # k => g[i] = Joined(g, c, i)
      BY <2>3, <3>4
    <3> HIDE DEF h
    <3> QED  BY <3>1, <3>3, <3>5, <1>4 DEF Joined
  <2>5. h = [i \in 0 .. k |-> h[i]]
    OBVIOUS
  <2> HIDE DEF h
  <2>6. h = [i \in 0 .. k |-> Joined(h, c, i)]
    BY <2>4, <2>5
  <2> QED  BY <1>2, <2>6
<1> QED  BY <1>3, <1>4

\* BytesOf is what its equation says.
LEMMA BytesOfRounds ==
  ASSUME NEW sent, Len(sent) \in Nat
  PROVE  /\ BytesOf(sent)[0] = <<>>
         /\ \A i \in 1 .. Len(sent) : BytesOf(sent)[i] = BytesOf(sent)[i - 1] \o ClientBytes(sent[i])
<1> DEFINE n == Len(sent)
           c == [i \in 1 .. n |-> ClientBytes(sent[i])]
           f == BytesOf(sent)
           F(g) == [i \in 0 .. n |-> IF i = 0 THEN <<>> ELSE g[i - 1] \o ClientBytes(sent[i])]
<1>1. PICK g : g = [i \in 0 .. n |-> Joined(g, c, i)]
  BY JoinedExists
<1>2. g = F(g)
  <2>1. \A i \in 0 .. n : Joined(g, c, i) = IF i = 0 THEN <<>> ELSE g[i - 1] \o ClientBytes(sent[i])
    <3> TAKE i \in 0 .. n
    <3>1. i # 0 => i \in 1 .. n
      BY SMT
    <3>2. i # 0 => c[i] = ClientBytes(sent[i])
      BY <3>1
    <3> HIDE DEF c
    <3> QED  BY <3>2, Zenon DEF Joined
  <2> HIDE DEF c
  <2> QED  BY <1>1, <2>1, Zenon
<1>3. f = CHOOSE h : h = F(h)
  BY DEF BytesOf
<1>4. f = F(f)
  <2> HIDE DEF F, f
  <2> QED  BY <1>2, <1>3, Zenon
<1> HIDE DEF f
<1>5. \A i \in 0 .. n : f[i] = IF i = 0 THEN <<>> ELSE f[i - 1] \o ClientBytes(sent[i])
  BY <1>4, Zenon
<1>6. f[0] = <<>>
  <2>1. 0 \in 0 .. n
    BY SMT
  <2> QED  BY <2>1, <1>5, Zenon
<1>7. \A i \in 1 .. n : f[i] = f[i - 1] \o ClientBytes(sent[i])
  <2> TAKE i \in 1 .. n
  <2>1. i \in 0 .. n /\ i # 0
    BY SMT
  <2> QED  BY <2>1, <1>5, Zenon
<1> QED  BY <1>6, <1>7 DEF f


\* What StreamsOK says of one stream.
LEMMA StreamShape ==
  ASSUME NEW s \in Streams
  PROVE  /\ Len(s.sent) \in Nat /\ Len(s.sent) >= 1 /\ DOMAIN s.sent = 1 .. Len(s.sent)
         /\ s.sent \in Seq(Range(s.sent)) /\ s.cut \in Nat
         /\ s.cut < Len(ClientBytes(s.sent[Len(s.sent)]))
         /\ \A i \in 1 .. Len(s.sent) :
               /\ ClientBytes(s.sent[i]) \in Seq(Bytes) /\ ClientBytes(s.sent[i]) # <<>>
               /\ SizeOf(s.sent[i]) \in Nat
               /\ Len(ClientBytes(s.sent[i])) <= WholeSize(s.sent[i])
               /\ i < Len(s.sent) => Len(ClientBytes(s.sent[i])) = WholeSize(s.sent[i])
               /\ read_size_check(Tail(ClientBytes(s.sent[i]))) =
                    IF SizeOf(s.sent[i]) > MAX_LENGTH THEN [res |-> "err"]
                    ELSE [res |-> "some", len |-> SizeOf(s.sent[i]),
                          size |-> Len(encode_length[SizeOf(s.sent[i])])]
<1>1. /\ s.sent \in Seq(Range(s.sent)) /\ s.sent # <<>> /\ s.cut \in Nat
      /\ s.cut < Len(ClientBytes(s.sent[Len(s.sent)]))
      /\ \A i \in DOMAIN s.sent :
             /\ ClientBytes(s.sent[i]) \in Seq(Bytes) /\ ClientBytes(s.sent[i]) # <<>>
             /\ SizeOf(s.sent[i]) \in Nat
             /\ Len(ClientBytes(s.sent[i])) <= WholeSize(s.sent[i])
             /\ i < Len(s.sent) => Len(ClientBytes(s.sent[i])) = WholeSize(s.sent[i])
             /\ read_size_check(Tail(ClientBytes(s.sent[i]))) =
                  IF SizeOf(s.sent[i]) > MAX_LENGTH THEN [res |-> "err"]
                  ELSE [res |-> "some", len |-> SizeOf(s.sent[i]),
                        size |-> Len(encode_length[SizeOf(s.sent[i])])]
  BY StreamsOK, Zenon
<1> DEFINE t == s.sent
           T == Range(s.sent)
<1>2. t \in Seq(T) /\ t # <<>>
  BY <1>1
<1> HIDE DEF t, T
<1>3. Len(t) \in Nat /\ Len(t) >= 1 /\ DOMAIN t = 1 .. Len(t)
  BY <1>2, SMT
<1> QED  BY <1>1, <1>3, Zenon DEF t

LEMMA BytesOfType ==
  ASSUME NEW s \in Streams, NEW k \in 0 .. Len(s.sent)
  PROVE  BytesOf(s.sent)[k] \in Seq(Bytes)
<1> DEFINE B == BytesOf(s.sent)
           n == Len(s.sent)
           c(i) == ClientBytes(s.sent[i])
           Bad == {j \in Nat : j <= n /\ B[j] \notin Seq(Bytes)}
<1>1. n \in Nat /\ \A i \in 1 .. n : c(i) \in Seq(Bytes)
  BY StreamShape, Zenon
<1>2. B[0] = <<>> /\ \A i \in 1 .. n : B[i] = B[i - 1] \o c(i)
  BY <1>1, BytesOfRounds, Zenon
<1>3. k \in Nat /\ k <= n
  BY <1>1, SMT
<1> HIDE DEF B, n, c
<1> SUFFICES ASSUME Bad # {} PROVE FALSE
  BY <1>3 DEF B, n
<1>4. PICK j \in Bad : \A i \in Bad : j <= i
  <2>1. Bad \in SUBSET Nat  OBVIOUS
  <2> HIDE DEF Bad
  <2> QED  BY <2>1, LeastOf
<1>5. j \in Nat /\ j <= n /\ B[j] \notin Seq(Bytes)
  BY <1>4
<1>6. j # 0
  <2>1. <<>> \in Seq(Bytes)
    BY SMT
  <2> QED  BY <1>2, <1>5, <2>1, Zenon
<1>7. j - 1 \in Nat /\ j - 1 <= n /\ ~(j <= j - 1) /\ j \in 1 .. n
  BY <1>1, <1>5, <1>6, SMT
<1>8. B[j - 1] \in Seq(Bytes)
  <2>1. j - 1 \notin Bad
    <3> HIDE DEF Bad
    <3> QED  BY <1>4, <1>7, Zenon
  <2> QED  BY <1>7, <2>1
<1>9. B[j] = B[j - 1] \o c(j) /\ c(j) \in Seq(Bytes)
  BY <1>1, <1>2, <1>7, Zenon
<1>10. B[j - 1] \o c(j) \in Seq(Bytes)
  BY <1>8, <1>9, ConcatProperties, Zenon
<1> QED  BY <1>5, <1>9, <1>10, Zenon

\* The packets before stay where they are.
LEMMA BytesOfGrows ==
  ASSUME NEW s \in Streams, NEW i \in 0 .. Len(s.sent), NEW k \in 0 .. Len(s.sent), i <= k
  PROVE  \E x \in Seq(Bytes) : BytesOf(s.sent)[k] = BytesOf(s.sent)[i] \o x
<1> DEFINE B == BytesOf(s.sent)
           n == Len(s.sent)
           c(j) == ClientBytes(s.sent[j])
           Bad == {j \in Nat : i <= j /\ j <= n /\ ~\E x \in Seq(Bytes) : B[j] = B[i] \o x}
<1>1. n \in Nat /\ \A j \in 1 .. n : c(j) \in Seq(Bytes)
  BY StreamShape, Zenon
<1>2. \A j \in 1 .. n : B[j] = B[j - 1] \o c(j)
  BY <1>1, BytesOfRounds, Zenon
<1>3. k \in Nat /\ k <= n /\ i \in Nat /\ i <= n
  BY <1>1, SMT
<1>t. B[i] \in Seq(Bytes)
  BY BytesOfType, Zenon
<1> HIDE DEF B, n, c
<1> SUFFICES ASSUME Bad # {} PROVE FALSE
  BY <1>3 DEF B, n
<1>4. PICK j \in Bad : \A l \in Bad : j <= l
  <2>1. Bad \in SUBSET Nat  OBVIOUS
  <2> HIDE DEF Bad
  <2> QED  BY <2>1, LeastOf
<1>5. j \in Nat /\ i <= j /\ j <= n /\ ~\E x \in Seq(Bytes) : B[j] = B[i] \o x
  BY <1>4
<1>6. j # i
  <2>1. <<>> \in Seq(Bytes) /\ B[i] = B[i] \o <<>>
    BY <1>t, ConcatEmptySeq, EmptySeq, Zenon
  <2> QED  BY <1>5, <2>1, Zenon
<1>7. j - 1 \in Nat /\ i <= j - 1 /\ j - 1 <= n /\ ~(j <= j - 1) /\ j \in 1 .. n
  BY <1>1, <1>3, <1>5, <1>6, SMT
<1>8. PICK x \in Seq(Bytes) : B[j - 1] = B[i] \o x
  <2>1. j - 1 \notin Bad
    <3> HIDE DEF Bad
    <3> QED  BY <1>4, <1>7, Zenon
  <2> QED  BY <1>7, <2>1
<1>9. B[j] = (B[i] \o x) \o c(j) /\ c(j) \in Seq(Bytes)
  BY <1>1, <1>2, <1>7, <1>8, Zenon
<1>10. B[j] = B[i] \o (x \o c(j)) /\ x \o c(j) \in Seq(Bytes)
  BY <1>t, <1>8, <1>9, ConcatThree, Zenon
<1> QED  BY <1>5, <1>10, Zenon


\* Where packet k is in the stream.
LEMMA PacketPlace ==
  ASSUME NEW s \in Streams, NEW k \in 1 .. Len(s.sent)
  PROVE  /\ StreamBytes(s) \in Seq(Bytes)
         /\ Len(BytesOf(s.sent)[k - 1]) \in Nat /\ There(s, k) \in Nat /\ There(s, k) >= 1
         /\ There(s, k) <= Len(ClientBytes(s.sent[k]))
         /\ k < Len(s.sent) => There(s, k) = Len(ClientBytes(s.sent[k]))
         /\ Len(BytesOf(s.sent)[k]) = Len(BytesOf(s.sent)[k - 1]) + Len(ClientBytes(s.sent[k]))
         /\ Len(BytesOf(s.sent)[k - 1]) + There(s, k) <= Len(StreamBytes(s))
         /\ k = Len(s.sent) => Len(BytesOf(s.sent)[k - 1]) + There(s, k) = Len(StreamBytes(s))
         /\ \A i \in 1 .. There(s, k) :
               StreamBytes(s)[Len(BytesOf(s.sent)[k - 1]) + i] = ClientBytes(s.sent[k])[i]
<1> DEFINE B == BytesOf(s.sent)
           n == Len(s.sent)
           cut == s.cut
           c == ClientBytes(s.sent[k])
           last == ClientBytes(s.sent[n])
           b == B[k - 1]
           t == There(s, k)
           all == B[n]
           u == StreamBytes(s)
<1>1. /\ n \in Nat /\ n >= 1 /\ cut \in Nat /\ cut < Len(last)
      /\ last \in Seq(Bytes) /\ c \in Seq(Bytes) /\ c # <<>>
  <2>1. n \in Nat /\ n >= 1 /\ cut \in Nat /\ cut < Len(last)
    BY StreamShape, Zenon
  <2>2. n \in 1 .. n
    BY <2>1, SMT
  <2> QED  BY <2>1, <2>2, StreamShape, Zenon
<1>2. k - 1 \in 0 .. n /\ k \in 0 .. n /\ k <= n /\ n \in 0 .. n /\ n - 1 \in 0 .. n /\ n \in 1 .. n
      /\ (k # n => k <= n - 1 /\ k < n) /\ k \in Nat
  BY <1>1, SMT
<1>3. b \in Seq(Bytes) /\ B[n - 1] \in Seq(Bytes) /\ all \in Seq(Bytes)
  BY <1>2, BytesOfType, Zenon
<1>4. B[k] = b \o c /\ all = B[n - 1] \o last
  BY <1>1, <1>2, BytesOfRounds, Zenon
<1>5. PICK x \in Seq(Bytes) : all = B[k] \o x
  BY <1>2, BytesOfGrows, Zenon
<1>6. k # n => \E y \in Seq(Bytes) : B[n - 1] = B[k] \o y
  BY <1>2, BytesOfGrows, Zenon
<1>7. u = SubSeq(all, 1, Len(all) - cut)
  BY Zenon DEF StreamBytes
<1>8. t = Len(c) - (IF k = n THEN cut ELSE 0)
  BY Zenon DEF There
<1> HIDE DEF B, n, cut, c, last, b, t, all, u
<1>9. Len(B[k]) = Len(b) + Len(c) /\ Len(all) = Len(B[n - 1]) + Len(last) /\ Len(all) = Len(B[k]) + Len(x)
      /\ B[k] \in Seq(Bytes)
  <2>1. Len(B[k]) = Len(b) + Len(c) /\ B[k] \in Seq(Bytes)
    BY <1>1, <1>3, <1>4, Joins, Zenon
  <2>2. Len(all) = Len(B[n - 1]) + Len(last)
    BY <1>1, <1>3, <1>4, Joins, Zenon
  <2>3. Len(all) = Len(B[k]) + Len(x)
    BY <1>5, <2>1, Joins, Zenon
  <2> QED  BY <2>1, <2>2, <2>3
<1>10. k # n => Len(B[n - 1]) >= Len(B[k])
  <2> SUFFICES ASSUME k # n PROVE Len(B[n - 1]) >= Len(B[k])
    OBVIOUS
  <2>1. PICK y \in Seq(Bytes) : B[n - 1] = B[k] \o y
    BY <1>6
  <2>2. Len(B[n - 1]) = Len(B[k]) + Len(y)
    BY <1>9, <2>1, Joins, Zenon
  <2>3. Len(y) \in Nat /\ Len(B[k]) \in Nat
    BY <1>9, <2>1, LenProperties, Zenon
  <2> QED  BY <2>2, <2>3, SMT
<1>11. /\ Len(b) \in Nat /\ Len(c) \in Nat /\ Len(last) \in Nat /\ Len(x) \in Nat /\ Len(all) \in Nat
       /\ Len(B[n - 1]) \in Nat /\ Len(B[k]) \in Nat
  BY <1>1, <1>3, <1>5, <1>9, LenProperties, Zenon
<1>12. Len(c) >= 1
  BY <1>1, SMT
<1>13. /\ k = n => c = last /\ b = B[n - 1]
  BY DEF c, last, b
<1> DEFINE L == Len(all) - cut
<1>14. L \in Nat /\ L <= Len(all) /\ t \in Nat /\ t >= 1 /\ t <= Len(c) /\ (k # n => t = Len(c)) /\ Len(b) + t <= L
       /\ (k = n => Len(b) + t = L)
  <2>1. CASE k = n
    <3>1. Len(all) = Len(b) + Len(c) /\ cut < Len(c) /\ t = Len(c) - cut
      BY <1>1, <1>8, <1>9, <1>13, <2>1, Zenon
    <3> QED  BY <3>1, <1>1, <1>11, <2>1, SMT
  <2>2. CASE k # n
    BY <1>1, <1>8, <1>9, <1>10, <1>11, <1>12, <2>2, SMT
  <2> QED  BY <2>1, <2>2
<1>15. u \in Seq(Bytes) /\ Len(u) = L /\ \A i \in 1 .. L : u[i] = all[i]
  BY <1>3, <1>7, <1>11, <1>14, SMT
<1> HIDE DEF L
<1>16. ASSUME NEW i \in 1 .. t PROVE u[Len(b) + i] = c[i]
  <2>1. /\ Len(b) + i \in 1 .. L /\ i \in 1 .. Len(c) /\ Len(b) + i \in 1 .. (Len(b) + Len(c))
        /\ Len(b) + i \in 1 .. (Len(B[k]) + Len(x)) /\ Len(b) + i <= Len(B[k])
        /\ ~(Len(b) + i <= Len(b)) /\ (Len(b) + i) - Len(b) = i
    BY <1>9, <1>11, <1>14, SMT
  <2>2. u[Len(b) + i] = all[Len(b) + i]
    BY <1>15, <2>1, Zenon
  <2>3. all[Len(b) + i] = B[k][Len(b) + i]
    <3>1. Len(b) + i \in 1 .. Len(B[k])
      BY <1>11, <2>1, SMT
    <3> QED  BY <1>5, <1>9, <3>1, Joins, Zenon
  <2>4. B[k][Len(b) + i] = c[i]
    <3>1. \A j \in 1 .. Len(c) : B[k][Len(b) + j] = c[j]
      <4> DEFINE z == B[k]
      <4>1. z = b \o c /\ b \in Seq(Bytes) /\ c \in Seq(Bytes)
        BY <1>1, <1>3, <1>4
      <4> HIDE DEF z
      <4>2. \A j \in 1 .. Len(c) : z[Len(b) + j] = c[j]
        BY <4>1, Joins
      <4> QED  BY <4>2 DEF z
    <3> QED  BY <2>1, <3>1, Zenon
  <2> QED  BY <2>1, <2>2, <2>3, <2>4, Zenon
<1>17. (k < n => t = Len(c)) /\ Len(b) + t <= Len(u) /\ (k = n => Len(b) + t = Len(u))
  <2>1. k < n => k # n
    BY <1>1, <1>2, SMT
  <2> QED  BY <1>14, <1>15, <2>1, Zenon
<1> QED  BY <1>9, <1>11, <1>14, <1>15, <1>16, <1>17, Zenon DEF u, b, B, n, c, t


\* The rest of the stream begins with what is there of the next packet.
LEMMA BehindSplits ==
  ASSUME NEW s \in Streams, NEW k \in 1 .. Len(s.sent)
  PROVE  /\ Behind(s, k - 1) = SubSeq(ClientBytes(s.sent[k]), 1, There(s, k)) \o Behind(s, k)
         /\ Behind(s, k) \in Seq(Bytes)
         /\ k = Len(s.sent) => Behind(s, k) = <<>>
<1> DEFINE u == StreamBytes(s)
           c == ClientBytes(s.sent[k])
           t == There(s, k)
           a == Len(BytesOf(s.sent)[k - 1])
           e == Len(BytesOf(s.sent)[k])
           n == Len(s.sent)
<1>1. /\ u \in Seq(Bytes) /\ a \in Nat /\ t \in Nat /\ t >= 1 /\ t <= Len(c) /\ (k < n => t = Len(c))
      /\ e = a + Len(c) /\ a + t <= Len(u) /\ (k = n => a + t = Len(u))
      /\ \A i \in 1 .. t : u[a + i] = c[i]
  BY PacketPlace, Zenon
<1>2. c \in Seq(Bytes) /\ n \in Nat
  BY StreamShape, Zenon
<1>3. Len(c) \in Nat /\ Len(u) \in Nat
  BY <1>1, <1>2, LenProperties, Zenon
<1>4. Behind(s, k - 1) = SubSeq(u, a + 1, Len(u)) /\ Behind(s, k) = SubSeq(u, e + 1, Len(u))
  BY Zenon DEF Behind
<1>5. k < n \/ k = n
  BY <1>2, SMT
<1> HIDE DEF u, c, t, a, e, n
<1>6. SubSeq(u, e + 1, Len(u)) = SubSeq(u, a + t + 1, Len(u))
  <2>1. CASE k < n
    BY <1>1, <2>1, Zenon
  <2>2. CASE k = n
    <3>1. e + 1 > Len(u) /\ a + t + 1 > Len(u) /\ e + 1 \in Int /\ a + t + 1 \in Int /\ Len(u) \in Int
      BY <1>1, <1>3, <2>2, SMT
    <3>2. SubSeq(u, e + 1, Len(u)) = <<>>
      BY <3>1, SubSeqEmpty, SMT
    <3>3. SubSeq(u, a + t + 1, Len(u)) = <<>>
      BY <3>1, SubSeqEmpty, SMT
    <3> QED  BY <3>2, <3>3
  <2> QED  BY <1>5, <2>1, <2>2
<1>7. SubSeq(u, a + 1, a + t) \o SubSeq(u, (a + t) + 1, Len(u)) = SubSeq(u, a + 1, Len(u))
  <2>1. a + 1 \in 1 .. (Len(u) + 1) /\ a + t \in ((a + 1) - 1) .. Len(u) /\ Len(u) \in (a + t) .. Len(u)
    BY <1>1, <1>3, SMT
  <2> QED  BY <1>1, <2>1, ConcatAdjacentSubSeq, Zenon
<1>8. SubSeq(u, a + 1, a + t) = SubSeq(c, 1, t)
  <2> DEFINE v == SubSeq(u, a + 1, a + t)
             w == SubSeq(c, 1, t)
  <2>1. v \in Seq(Bytes) /\ Len(v) = t /\ \A i \in 1 .. t : v[i] = u[a + i]
    BY <1>1, <1>3, SMT
  <2>2. w \in Seq(Bytes) /\ Len(w) = t /\ \A i \in 1 .. t : w[i] = c[i]
    BY <1>1, <1>2, <1>3, SMT
  <2> HIDE DEF v, w
  <2>3. v = w
    BY <1>1, <2>1, <2>2, SeqEqual, Zenon
  <2> QED  BY <2>3 DEF v, w
<1>9. Behind(s, k - 1) = SubSeq(c, 1, t) \o Behind(s, k)
  BY <1>4, <1>6, <1>7, <1>8, Zenon
<1>10. Behind(s, k) \in Seq(Bytes)
  <2>1. SubSeq(u, e + 1, Len(u)) \in Seq(Bytes)
    BY <1>1, <1>3, SMT
  <2> QED  BY <1>4, <2>1, Zenon
<1>11. k = n => Behind(s, k) = <<>>
  <2> SUFFICES ASSUME k = n PROVE Behind(s, k) = <<>>
    OBVIOUS
  <2>1. e + 1 > Len(u) /\ e + 1 \in Int /\ Len(u) \in Int
    BY <1>1, <1>3, SMT
  <2>2. SubSeq(u, e + 1, Len(u)) = <<>>
    BY <2>1, SubSeqEmpty, SMT
  <2> QED  BY <1>4, <2>2, Zenon
<1> QED  BY <1>9, <1>10, <1>11 DEF c, t, n


-----------------------------------------------------------------------------
(* What decode makes of the next packet of a stream. *)

LEMMA TailOfPart ==
  ASSUME NEW c \in Seq(Bytes), c # <<>>, NEW t \in Nat, t >= 1, t <= Len(c)
  PROVE  /\ Tail(c) \in Seq(Bytes) /\ t - 1 \in 0 .. Len(Tail(c))
         /\ SubSeq(c, 1, t) # <<>> /\ SubSeq(c, 1, t) \in Seq(Bytes) /\ Len(SubSeq(c, 1, t)) = t
         /\ Tail(SubSeq(c, 1, t)) = SubSeq(Tail(c), 1, t - 1)
<1>1. Tail(c) \in Seq(Bytes) /\ Len(Tail(c)) = Len(c) - 1 /\ \A i \in 1 .. (Len(c) - 1) : Tail(c)[i] = c[i + 1]
  BY SMT
<1>2. t - 1 \in 0 .. Len(Tail(c))
  BY <1>1, SMT
<1> DEFINE s == SubSeq(c, 1, t)
           v == Tail(s)
           d == Tail(c)
           w == SubSeq(d, 1, t - 1)
<1>3. s \in Seq(Bytes) /\ Len(s) = t /\ \A i \in 1 .. t : s[i] = c[i]
  BY SMT
<1> HIDE DEF s
<1>4. s # <<>>
  BY <1>3, SMT
<1>5. v \in Seq(Bytes) /\ Len(v) = t - 1 /\ \A i \in 1 .. (t - 1) : v[i] = s[i + 1]
  BY <1>3, <1>4, SMT
<1>6. d \in Seq(Bytes) /\ Len(d) = Len(c) - 1 /\ \A i \in 1 .. (Len(c) - 1) : d[i] = c[i + 1]
  BY <1>1
<1> HIDE DEF d, v
<1>7. w \in Seq(Bytes) /\ Len(w) = t - 1 /\ \A i \in 1 .. (t - 1) : w[i] = d[i]
  BY <1>6, SMT
<1> HIDE DEF w
<1>8. ASSUME NEW i \in 1 .. Len(v) PROVE v[i] = w[i]
  <2>1. i \in 1 .. (t - 1) /\ i + 1 \in 1 .. t /\ i \in 1 .. (Len(c) - 1)
    BY <1>5, SMT
  <2> QED  BY <2>1, <1>3, <1>5, <1>6, <1>7, Zenon
<1>9. v = w
  BY <1>5, <1>7, <1>8, SeqEqual, Zenon
<1> QED  BY <1>1, <1>2, <1>3, <1>4, <1>9 DEF s, v, w, d

\* A packet that is there in full and not too long is cut out and parsed.
LEMMA WholePacket ==
  ASSUME NEW s \in Streams, NEW k \in 1 .. Len(s.sent), NEW m \in Nat, NEW y \in Seq(Bytes),
         Len(ClientBytes(s.sent[k])) = WholeSize(s.sent[k]),
         ~(SizeOf(s.sent[k]) > MAX_LENGTH), ~(SizeOf(s.sent[k]) > m)
  PROVE  decode(ClientBytes(s.sent[k]) \o y, m) = Parsed(FromBytes(ClientBytes(s.sent[k])), y)
<1> DEFINE c == ClientBytes(s.sent[k])
           z == SizeOf(s.sent[k])
           e == Len(encode_length[z])
           b == c \o y
<1>1. /\ c \in Seq(Bytes) /\ c # <<>> /\ z \in Nat
      /\ read_size_check(Tail(c)) = [res |-> "some", len |-> z, size |-> e]
  BY StreamShape, Zenon
<1>2. Len(c) = 1 + e + z /\ ~(z > MAX_LENGTH) /\ ~(z > m)
  BY Zenon DEF WholeSize
<1> HIDE DEF c, z, e
<1>3. Tail(c) \in Seq(Bytes) /\ b # <<>> /\ Tail(b) = Tail(c) \o y
  BY <1>1, SMT
<1>4. read_size_check(Tail(b)) = [res |-> "some", len |-> z, size |-> e]
  <2>1. read_size_check(Tail(c)).res = "some"
    BY <1>1, SMT
  <2>2. read_size_check(Tail(c)).res # "none"
    BY <2>1, SMT
  <2> QED  BY <1>1, <1>3, <2>2, SizeCheckIsLocal, Zenon
<1>5. ~TooLong(z, m)
  BY <1>2, Zenon DEF TooLong
<1>6. Len(b) = Len(c) + Len(y) /\ Len(c) \in Nat /\ Len(y) \in Nat
  BY <1>1, Joins, Zenon
<1>7. ~(Len(b) < 1 + e + z)
  <2>1. ~(Len(b) < Len(c))
    BY <1>6, SMT
  <2> QED  BY <1>2, <2>1, Zenon
<1>8. decode(b, m) = SplitFrame(b, 1 + e + z)
  BY <1>3, <1>4, <1>5, <1>7, DecodeKnown, Zenon
<1>9. SubSeq(b, 1, Len(c)) = c /\ SubSeq(b, Len(c) + 1, Len(b)) = y
  BY <1>1, SMT
<1>10. decode(b, m) = Parsed(FromBytes(c), y)
  BY <1>2, <1>8, <1>9, Zenon DEF SplitFrame
<1> QED  BY <1>10 DEF b, c

\* One that is too long is refused as soon as that can be seen.
LEMMA LongPacket ==
  ASSUME NEW s \in Streams, NEW k \in 1 .. Len(s.sent), NEW m \in Nat,
         SizeOf(s.sent[k]) > MAX_LENGTH \/ SizeOf(s.sent[k]) > m,
         NEW t \in Nat, t >= HeadSize(s.sent[k]), t <= Len(ClientBytes(s.sent[k])), NEW y \in Seq(Bytes)
  PROVE  decode(SubSeq(ClientBytes(s.sent[k]), 1, t) \o y, m).res = "err"
<1> DEFINE c == ClientBytes(s.sent[k])
           z == SizeOf(s.sent[k])
           e == Len(encode_length[z])
           q == SubSeq(c, 1, t)
           r == read_size_check(Tail(c))
<1>1. /\ c \in Seq(Bytes) /\ c # <<>> /\ z \in Nat
      /\ r = IF z > MAX_LENGTH THEN [res |-> "err"] ELSE [res |-> "some", len |-> z, size |-> e]
  BY StreamShape, Zenon
<1>2. t >= IF z > MAX_LENGTH THEN 5 ELSE 1 + e
  BY Zenon DEF HeadSize
<1>3. z > MAX_LENGTH \/ z > m
  OBVIOUS
<1>4. t <= Len(c)
  OBVIOUS
<1> HIDE DEF c, z, e
<1>5. Tail(c) \in Seq(Bytes)
  BY <1>1, SMT
<1>6. ~(z > MAX_LENGTH) => e \in 1 .. 4
  <2> SUFFICES ASSUME ~(z > MAX_LENGTH) PROVE e \in 1 .. 4
    OBVIOUS
  <2>1. r = [res |-> "some", len |-> z, size |-> e]
    BY <1>1, Zenon
  <2> HIDE DEF r
  <2>2. r.res = "some" /\ r.size = e
    BY <2>1, SMT
  <2> QED  BY <1>5, <2>2, SizeCheck, Zenon DEF r
<1>7. t >= 1
  BY <1>2, <1>6, SMT
<1>8. /\ t - 1 \in 0 .. Len(Tail(c)) /\ q # <<>> /\ q \in Seq(Bytes)
      /\ Tail(q) = SubSeq(Tail(c), 1, t - 1)
  BY <1>1, <1>4, <1>7, TailOfPart, Zenon
<1>9. read_size_check(Tail(q)) = r
  <2>1. LET f == read_size_check(SubSeq(Tail(c), 1, t - 1))
        IN  /\ r.res = "some" => f = IF t - 1 < r.size THEN [res |-> "none"] ELSE r
            /\ r.res = "err" => f = IF t - 1 < 4 THEN [res |-> "none"] ELSE r
    BY <1>5, <1>8, SizeCheckOfPart
  <2> HIDE DEF r, q
  <2>2. CASE z > MAX_LENGTH
    <3>1. r.res = "err" /\ ~(t - 1 < 4)
      BY <1>1, <1>2, <2>2, SMT
    <3> QED  BY <1>8, <2>1, <3>1, Zenon
  <2>3. CASE ~(z > MAX_LENGTH)
    <3>1. r.res = "some" /\ r.size = e /\ ~(t - 1 < e)
      BY <1>1, <1>2, <1>6, <2>3, SMT
    <3> QED  BY <1>8, <2>1, <3>1, Zenon
  <2> QED  BY <2>2, <2>3
<1> HIDE DEF q, r
<1>10. decode(q, m) = [res |-> "err", rest |-> q]
  <2>1. CASE z > MAX_LENGTH
    <3>1. r.res = "err" /\ r.res # "none"
      BY <1>1, <2>1, SMT
    <3> QED  BY <1>8, <1>9, <3>1, Zenon DEF decode
  <2>2. CASE ~(z > MAX_LENGTH)
    <3>1. read_size_check(Tail(q)) = [res |-> "some", len |-> z, size |-> e]
      BY <1>1, <1>9, <2>2, Zenon
    <3>2. TooLong(z, m)
      BY <1>3, <2>2, Zenon DEF TooLong
    <3> QED  BY <1>8, <3>1, <3>2, DecodeKnown, Zenon
  <2> QED  BY <2>1, <2>2
<1>11. decode(q, m).res = "err"
  BY <1>10, SMT
<1>12. decode(q, m).res # "none"
  BY <1>11, SMT
<1>13. decode(q \o y, m).res = "err"
  BY <1>8, <1>11, <1>12, DecodeIsLocal, Zenon
<1> QED  BY <1>13 DEF q, c

\* Any other part of a packet is waited for.
LEMMA PartOfPacket ==
  ASSUME NEW s \in Streams, NEW k \in 1 .. Len(s.sent), NEW m \in Nat,
         NEW t \in Nat, t >= 1, t <= Len(ClientBytes(s.sent[k])), t # WholeSize(s.sent[k]),
         \/ ~(t >= HeadSize(s.sent[k]))
         \/ ~(SizeOf(s.sent[k]) > MAX_LENGTH \/ SizeOf(s.sent[k]) > m)
  PROVE  decode(SubSeq(ClientBytes(s.sent[k]), 1, t), m).res = "none"
<1> DEFINE c == ClientBytes(s.sent[k])
           z == SizeOf(s.sent[k])
           e == Len(encode_length[z])
           q == SubSeq(c, 1, t)
           r == read_size_check(Tail(c))
<1>1. /\ c \in Seq(Bytes) /\ c # <<>> /\ z \in Nat /\ Len(c) <= WholeSize(s.sent[k])
      /\ r = IF z > MAX_LENGTH THEN [res |-> "err"] ELSE [res |-> "some", len |-> z, size |-> e]
  BY StreamShape, Zenon
<1>2. /\ ~(t >= IF z > MAX_LENGTH THEN 5 ELSE 1 + e) \/ (~(z > MAX_LENGTH) /\ ~(z > m))
      /\ t <= Len(c)
  BY Zenon DEF HeadSize
<1>3. t # 1 + e + z /\ Len(c) <= 1 + e + z
  BY <1>1, Zenon DEF WholeSize
<1> HIDE DEF c, z, e
<1>5. Tail(c) \in Seq(Bytes) /\ Len(c) \in Nat
  BY <1>1, SMT
<1>6. ~(z > MAX_LENGTH) => e \in 1 .. 4
  <2> SUFFICES ASSUME ~(z > MAX_LENGTH) PROVE e \in 1 .. 4
    OBVIOUS
  <2>1. r = [res |-> "some", len |-> z, size |-> e]
    BY <1>1, Zenon
  <2> HIDE DEF r
  <2>2. r.res = "some" /\ r.size = e
    BY <2>1, SMT
  <2> QED  BY <1>5, <2>2, SizeCheck, Zenon DEF r
<1>8. /\ t - 1 \in 0 .. Len(Tail(c)) /\ q # <<>> /\ q \in Seq(Bytes) /\ Len(q) = t
      /\ Tail(q) = SubSeq(Tail(c), 1, t - 1)
  BY <1>1, <1>2, TailOfPart, Zenon
<1>9. LET f == read_size_check(Tail(q))
      IN  /\ r.res = "some" => f = IF t - 1 < r.size THEN [res |-> "none"] ELSE r
          /\ r.res = "err" => f = IF t - 1 < 4 THEN [res |-> "none"] ELSE r
  <2>1. LET f == read_size_check(SubSeq(Tail(c), 1, t - 1))
        IN  /\ r.res = "some" => f = IF t - 1 < r.size THEN [res |-> "none"] ELSE r
            /\ r.res = "err" => f = IF t - 1 < 4 THEN [res |-> "none"] ELSE r
    BY <1>5, <1>8, SizeCheckOfPart
  <2> HIDE DEF r, q
  <2> QED  BY <1>8, <2>1, Zenon
<1> HIDE DEF q, r
<1>10. CASE ~(t >= IF z > MAX_LENGTH THEN 5 ELSE 1 + e)
  <2>1. read_size_check(Tail(q)) = [res |-> "none"]
    <3>1. CASE z > MAX_LENGTH
      <4>1. r.res = "err" /\ t - 1 < 4
        BY <1>1, <1>10, <3>1, SMT
      <4> QED  BY <1>9, <4>1, Zenon
    <3>2. CASE ~(z > MAX_LENGTH)
      <4>1. r.res = "some" /\ r.size = e /\ t - 1 < e
        BY <1>1, <1>6, <1>10, <3>2, SMT
      <4> QED  BY <1>9, <4>1, Zenon
    <3> QED  BY <3>1, <3>2
  <2>2. read_size_check(Tail(q)).res = "none"
    BY <2>1, SMT
  <2>3. decode(q, m) = NeedMore(q)
    BY <2>2, Zenon DEF decode
  <2>4. decode(q, m).res = "none"
    BY <2>3, SMT DEF NeedMore
  <2> QED  BY <2>4 DEF q, c
<1>11. CASE (t >= IF z > MAX_LENGTH THEN 5 ELSE 1 + e) /\ ~(z > MAX_LENGTH) /\ ~(z > m)
  <2>1. r = [res |-> "some", len |-> z, size |-> e]
    BY <1>1, <1>11, Zenon
  <2>2. r.res = "some" /\ r.size = e
    BY <2>1, SMT
  <2>3. ~(t - 1 < e) /\ t < 1 + e + z
    BY <1>1, <1>2, <1>3, <1>5, <1>6, <1>11, SMT
  <2>4. read_size_check(Tail(q)) = [res |-> "some", len |-> z, size |-> e]
    BY <1>9, <2>1, <2>2, <2>3, Zenon
  <2>5. ~TooLong(z, m)
    BY <1>11, Zenon DEF TooLong
  <2>6. decode(q, m) = NeedMore(q)
    BY <1>8, <2>3, <2>4, <2>5, DecodeKnown, Zenon
  <2>7. decode(q, m).res = "none"
    BY <2>6, SMT DEF NeedMore
  <2> QED  BY <2>7 DEF q, c
<1> QED  BY <1>2, <1>10, <1>11, Zenon


\* The limit for packet k, and PacketsParse of a stream.
LimitOf(k) == IF k = 1 THEN PreAuth ELSE PostAuth

Parses(s) ==
  \A i \in DOMAIN s.sent :
     Len(ClientBytes(s.sent[i])) = WholeSize(s.sent[i]) =>
        FromBytes(ClientBytes(s.sent[i])) = IF Acceptable(s.sent[i]) THEN Ok(s.sent[i]) ELSE Fail

LEMMA HeadOfWhole ==
  ASSUME NEW s \in Streams, NEW k \in 1 .. Len(s.sent), Complete(s, k)
  PROVE  There(s, k) >= HeadSize(s.sent[k]) /\ There(s, k) = Len(ClientBytes(s.sent[k]))
         /\ Len(ClientBytes(s.sent[k])) = WholeSize(s.sent[k])
<1> DEFINE c == ClientBytes(s.sent[k])
           z == SizeOf(s.sent[k])
           e == Len(encode_length[z])
           t == There(s, k)
           r == read_size_check(Tail(c))
<1>1. /\ c \in Seq(Bytes) /\ c # <<>> /\ z \in Nat /\ Len(c) <= WholeSize(s.sent[k])
      /\ r = IF z > MAX_LENGTH THEN [res |-> "err"] ELSE [res |-> "some", len |-> z, size |-> e]
  BY StreamShape, Zenon
<1>2. t = WholeSize(s.sent[k])
  BY Zenon DEF Complete
<1>3. t <= Len(c) /\ t \in Nat
  BY PacketPlace, Zenon
<1>4. HeadSize(s.sent[k]) = IF z > MAX_LENGTH THEN 5 ELSE 1 + e
  BY Zenon DEF HeadSize
<1>5. WholeSize(s.sent[k]) = 1 + e + z
  BY Zenon DEF WholeSize
<1> HIDE DEF c, z, e, t
<1>6. Tail(c) \in Seq(Bytes) /\ Len(c) \in Nat /\ Len(Tail(c)) = Len(c) - 1 /\ Len(Tail(c)) \in 0 .. Len(Tail(c))
      /\ SubSeq(Tail(c), 1, Len(Tail(c))) = Tail(c)
  BY <1>1, SMT
<1>7. t = Len(c)
  BY <1>1, <1>2, <1>3, <1>6, SMT
<1>8. CASE z > MAX_LENGTH
  <2>1. r.res = "err" => r = IF Len(Tail(c)) < 4 THEN [res |-> "none"] ELSE r
    BY <1>6, SizeCheckOfPart
  <2> HIDE DEF r
  <2>2. r.res = "err"
    BY <1>1, <1>8, SMT
  <2>3. ~(Len(Tail(c)) < 4)
    <3> SUFFICES ASSUME Len(Tail(c)) < 4 PROVE FALSE
      OBVIOUS
    <3>1. r = [res |-> "none"]
      BY <2>1, <2>2, Zenon
    <3>2. r.res = "none"
      BY <3>1, SMT
    <3> QED  BY <2>2, <3>2, SMT
  <2>4. t >= 5
    BY <1>6, <1>7, <2>3, SMT
  <2>5. HeadSize(s.sent[k]) = 5
    BY <1>4, <1>8, Zenon
  <2> QED  BY <1>2, <1>7, <2>4, <2>5, Zenon DEF t, c
<1>9. CASE ~(z > MAX_LENGTH)
  <2>1. r = [res |-> "some", len |-> z, size |-> e]
    BY <1>1, <1>9, Zenon
  <2> HIDE DEF r
  <2>2. r.res = "some" /\ r.size = e
    BY <2>1, SMT
  <2>3. e \in 1 .. 4
    BY <1>6, <2>2, SizeCheck, Zenon DEF r
  <2>4. t = 1 + e + z
    BY <1>2, <1>5, Zenon
  <2>5. t >= 1 + e
    BY <1>1, <2>3, <2>4, SMT
  <2>6. HeadSize(s.sent[k]) = 1 + e
    BY <1>4, <1>9, Zenon
  <2> QED  BY <1>2, <1>7, <2>5, <2>6, Zenon DEF t, c
<1> QED  BY <1>8, <1>9

\* What decode answers if all the rest of the stream is in the buffer.
LEMMA PacketCases ==
  ASSUME NEW s \in Streams, NEW k \in 1 .. Len(s.sent), Parses(s), LimitsOK
  PROVE  LET d == decode(Behind(s, k - 1), LimitOf(k))
         IN  \/ Good(s, k) /\ d = [res |-> "some", msg |-> s.sent[k], rest |-> Behind(s, k)]
             \/ ~Good(s, k) /\ Refused(s, k) /\ d.res = "err"
             \/ ~Good(s, k) /\ ~Refused(s, k) /\ d.res = "none"
<1> DEFINE p == s.sent[k]
           c == ClientBytes(p)
           t == There(s, k)
           m == LimitOf(k)
           rest == Behind(s, k)
           d == decode(Behind(s, k - 1), m)
<1>1. m \in Nat
  BY LimitsOK DEF LimitOf
<1>2. /\ c \in Seq(Bytes) /\ SizeOf(p) \in Nat /\ Len(c) <= WholeSize(p)
      /\ k < Len(s.sent) => Len(c) = WholeSize(p)
  BY StreamShape, Zenon
<1>3. Behind(s, k - 1) = SubSeq(c, 1, t) \o rest /\ rest \in Seq(Bytes) /\ (k = Len(s.sent) => rest = <<>>)
  BY BehindSplits, Zenon
<1>4. t \in Nat /\ t >= 1 /\ t <= Len(c) /\ (k < Len(s.sent) => t = Len(c))
  BY PacketPlace, Zenon
<1>5. OverLimit(s, k) <=> SizeOf(p) > MAX_LENGTH \/ SizeOf(p) > m
  BY Zenon DEF OverLimit, LimitOf
<1>6. CASE OverLimit(s, k) /\ t >= HeadSize(p)
  <2>1. Refused(s, k) /\ ~Good(s, k)
    BY <1>6, Zenon DEF Refused, Good
  <2>2. decode(SubSeq(c, 1, t) \o rest, m).res = "err"
    BY <1>1, <1>3, <1>4, <1>5, <1>6, LongPacket, Zenon
  <2> QED  BY <1>3, <2>1, <2>2, Zenon
<1>7. CASE Complete(s, k) /\ ~OverLimit(s, k)
  <2>1. t = Len(c) /\ Len(c) = WholeSize(p)
    BY <1>7, HeadOfWhole, Zenon
  <2>2. SubSeq(c, 1, t) = c
    <3>1. SubSeq(c, 1, Len(c)) = c
      BY <1>2, SubSeqFull, Zenon
    <3> QED  BY <2>1, <3>1, Zenon
  <2>3. d = Parsed(FromBytes(c), rest)
    <3>1. decode(c \o rest, m) = Parsed(FromBytes(c), rest)
      BY <1>1, <1>3, <1>5, <1>7, <2>1, WholePacket, Zenon
    <3> QED  BY <1>3, <2>2, <3>1, Zenon
  <2>4. FromBytes(c) = IF Acceptable(p) THEN Ok(p) ELSE Fail
    <3>1. k \in DOMAIN s.sent
      BY StreamShape, Zenon
    <3> QED  BY <2>1, <3>1, Zenon DEF Parses
  <2> HIDE DEF c, rest, d
  <2>5. CASE Acceptable(p)
    <3>1. Good(s, k)
      BY <1>7, <2>5, Zenon DEF Good
    <3>2. d = Parsed(Ok(p), rest)
      BY <2>3, <2>4, <2>5, Zenon
    <3> HIDE DEF p
    <3>3. d = [res |-> "some", msg |-> p, rest |-> rest]
      BY <3>2, SMT DEF Parsed, Ok
    <3> QED  BY <3>1, <3>3, Zenon DEF d, rest, m, p
  <2>6. CASE ~Acceptable(p)
    <3>1. ~Good(s, k) /\ Refused(s, k)
      BY <1>7, <2>6, Zenon DEF Good, Refused
    <3>2. d = Parsed(Fail, rest)
      BY <2>3, <2>4, <2>6, Zenon
    <3>3. d.res = "err"
      BY <3>2, SMT DEF Parsed, Fail
    <3> QED  BY <3>1, <3>3, Zenon DEF d, m
  <2> QED  BY <2>5, <2>6
<1>8. CASE ~(OverLimit(s, k) /\ t >= HeadSize(p)) /\ ~(Complete(s, k) /\ ~OverLimit(s, k))
  <2>1. ~Complete(s, k)
    BY <1>8, HeadOfWhole, Zenon
  <2>2. ~Good(s, k) /\ ~Refused(s, k)
    BY <1>8, <2>1, Zenon DEF Good, Refused
  <2>3. t # WholeSize(p)
    BY <2>1, Zenon DEF Complete
  <2>4. rest = <<>>
    <3>1. ~(k < Len(s.sent))
      BY <1>2, <1>4, <2>3, Zenon
    <3>2. Len(s.sent) \in Nat
      BY StreamShape, Zenon
    <3>3. k = Len(s.sent)
      BY <3>1, <3>2, SMT
    <3> QED  BY <1>3, <3>3, Zenon
  <2>5. SubSeq(c, 1, t) \o rest = SubSeq(c, 1, t)
    <3>1. SubSeq(c, 1, t) \in Seq(Bytes)
      BY <1>2, <1>4, SMT
    <3> QED  BY <2>4, <3>1, ConcatEmptySeq, Zenon
  <2>6. decode(SubSeq(c, 1, t), m).res = "none"
    BY <1>1, <1>4, <1>5, <1>8, <2>3, PartOfPacket, Zenon
  <2> QED  BY <1>3, <2>2, <2>5, <2>6, Zenon
<1> QED  BY <1>6, <1>7, <1>8, Zenon

LEMMA GoodPacketsIs ==
  ASSUME NEW s \in Streams
  PROVE  /\ GoodPackets(s) \in 0 .. Len(s.sent)
         /\ \A i \in 1 .. GoodPackets(s) : Good(s, i)
         /\ GoodPackets(s) < Len(s.sent) => ~Good(s, GoodPackets(s) + 1)
<1> DEFINE len == Len(s.sent)
<1>1. len \in Nat
  BY StreamShape, Zenon
<1>2. \E k \in 0 .. len : GoodUpTo(s, k)
  <2> DEFINE T == {k \in Nat : k < len => ~Good(s, k + 1)}
  <2>1. T \in SUBSET Nat /\ len \in T
    BY <1>1, SMT
  <2>2. PICK k \in T : \A j \in T : k <= j
    <3> HIDE DEF T
    <3> QED  BY <2>1, LeastOf, Zenon
  <2>3. k \in 0 .. len
    <3>1. k <= len
      BY <2>1, <2>2, Zenon
    <3> QED  BY <1>1, <2>1, <2>2, <3>1, SMT
  <2>4. ASSUME NEW i \in 1 .. k PROVE Good(s, i)
    <3>1. i - 1 \in Nat /\ ~(k <= i - 1) /\ (i - 1) + 1 = i
      BY <2>3, SMT
    <3>2. i - 1 \notin T
      <4> HIDE DEF T
      <4> QED  BY <2>2, <3>1, Zenon
    <3>3. Good(s, (i - 1) + 1)
      BY <3>1, <3>2, Zenon
    <3> QED  BY <3>1, <3>3, Zenon
  <2>5. k < len => ~Good(s, k + 1)
    BY <2>2, Zenon
  <2> QED  BY <2>3, <2>4, <2>5, Zenon DEF GoodUpTo
<1>3. GoodPackets(s) \in 0 .. len /\ GoodUpTo(s, GoodPackets(s))
  BY <1>2, Zenon DEF GoodPackets
<1> QED  BY <1>3, Zenon DEF GoodUpTo


-----------------------------------------------------------------------------
(* The buffer. *)

\* decode asks for more only within the limit, and leaves bytes.
LEMMA DecodeLeaves ==
  ASSUME NEW b \in Seq(Bytes), NEW m \in Nat
  PROVE  /\ decode(b, m).res \in {"some", "none", "err"}
         /\ decode(b, m).rest \in Seq(Bytes)
         /\ decode(b, m).res = "none" => decode(b, m).rest = b /\ Len(b) < 1 + 4 + m
<1> DEFINE length == read_size_check(Tail(b))
<1>1. CASE b = <<>>
  <2>1. decode(b, m) = [res |-> "none", rest |-> b]
    BY <1>1 DEF decode, NeedMore
  <2> QED  BY <2>1, <1>1
<1>2. CASE b # <<>>
  <2>1. Tail(b) \in Seq(Bytes) /\ Len(b) = Len(Tail(b)) + 1 /\ Len(b) \in Nat /\ Len(Tail(b)) \in Nat
    BY <1>2
  <2>2. /\ length.res \in {"some", "none", "err"}
        /\ length.res = "none" => Len(Tail(b)) < 4
        /\ length.res = "some" => length.len \in Nat /\ length.size \in 1 .. 4
    BY <2>1, SizeCheck
  <2> HIDE DEF length
  <2>3. decode(b, m) =
          IF length.res = "none" THEN NeedMore(b)
          ELSE IF length.res = "err" \/ TooLong(length.len, m) THEN [res |-> "err", rest |-> b]
          ELSE IF Len(b) < FrameSize(length) THEN NeedMore(b)
          ELSE SplitFrame(b, FrameSize(length))
    BY <1>2 DEF decode, length
  <2>4. CASE length.res = "none"
    BY <2>1, <2>2, <2>3, <2>4 DEF NeedMore
  <2>5. CASE length.res = "err" \/ (length.res = "some" /\ TooLong(length.len, m))
    <3>1. decode(b, m) = [res |-> "err", rest |-> b]
      BY <2>3, <2>5
    <3> QED  BY <3>1
  <2>6. CASE length.res = "some" /\ ~TooLong(length.len, m)
    <3>1. length.len <= m /\ FrameSize(length) \in Nat /\ FrameSize(length) <= 1 + 4 + m
      BY <2>2, <2>6 DEF TooLong, FrameSize
    <3>2. CASE Len(b) < FrameSize(length)
      <4>1. decode(b, m) = [res |-> "none", rest |-> b]
        BY <2>3, <2>6, <3>2 DEF NeedMore
      <4> QED  BY <4>1, <3>1, <3>2, <2>1
    <3>3. CASE ~(Len(b) < FrameSize(length))
      <4> DEFINE size == FrameSize(length)
                 answer == FromBytes(SubSeq(b, 1, size))
                 rest == SubSeq(b, size + 1, Len(b))
      <4>1. decode(b, m) = Parsed(answer, rest)
        BY <2>3, <2>6, <3>3 DEF SplitFrame
      <4>2. rest \in Seq(Bytes)
        BY <3>1, <2>1
      <4> HIDE DEF answer, rest, size
      <4> QED  BY <4>1, <4>2 DEF Parsed
    <3> QED  BY <3>2, <3>3
  <2> QED  BY <2>2, <2>4, <2>5, <2>6
<1> QED  BY <1>1, <1>2

\* One call of decode with the first k packets gone, b read and w still to come.
LEMMA NextPacket ==
  ASSUME NEW s \in Streams, Parses(s), LimitsOK, NEW k \in Nat, k <= GoodPackets(s),
         NEW b \in Seq(Bytes), NEW w \in Seq(Bytes), b \o w = Behind(s, k)
  PROVE  LET d == decode(b, LimitOf(k + 1))
             n == GoodPackets(s)
         IN  /\ d.res = "some" => /\ k < n /\ d.msg = s.sent[k + 1]
                                  /\ d.rest \o w = Behind(s, k + 1)
             /\ d.res = "err" => k = n /\ n < Len(s.sent) /\ Refused(s, n + 1)
             /\ d.res = "none" /\ w = <<>> /\ b = <<>> => k = n /\ n = Len(s.sent)
             /\ d.res = "none" /\ w = <<>> /\ b # <<>> =>
                   k = n /\ n < Len(s.sent) /\ ~Refused(s, n + 1)
<1> DEFINE m == LimitOf(k + 1)
           d == decode(b, m)
           n == GoodPackets(s)
           len == Len(s.sent)
           all == decode(b \o w, m)
<1>1. m \in Nat
  BY LimitsOK DEF LimitOf
<1>2. /\ n \in 0 .. len /\ (\A i \in 1 .. n : Good(s, i)) /\ (n < len => ~Good(s, n + 1))
      /\ len \in Nat /\ len >= 1
  BY GoodPacketsIs, StreamShape, Zenon
<1>3. k <= n /\ n \in Nat /\ n <= len
  BY <1>2, SMT
<1>4. CASE k = len
  <2>1. Behind(s, k) = <<>>
    <3>1. len \in 1 .. len
      BY <1>2, SMT
    <3> QED  BY <1>4, <3>1, BehindSplits, Zenon
  <2>2. b = <<>> /\ w = <<>>
    BY <2>1, ConcatEqualIffEmpty, SMT
  <2>3. k = n /\ n = len
    BY <1>3, <1>4, SMT
  <2>4. d = NeedMore(b)
    BY <2>2, Zenon DEF decode
  <2> HIDE DEF d
  <2>5. d.res = "none"
    BY <2>4, SMT DEF NeedMore
  <2>6. d.res # "some" /\ d.res # "err"
    BY <2>5, SMT
  <2> QED  BY <2>2, <2>3, <2>6, Zenon DEF d, m, n, len
<1>5. CASE k # len
  <2>1. k + 1 \in 1 .. len /\ (k + 1) - 1 = k
    BY <1>2, <1>3, <1>5, SMT
  <2>2. \/ Good(s, k + 1) /\ all = [res |-> "some", msg |-> s.sent[k + 1], rest |-> Behind(s, k + 1)]
        \/ ~Good(s, k + 1) /\ Refused(s, k + 1) /\ all.res = "err"
        \/ ~Good(s, k + 1) /\ ~Refused(s, k + 1) /\ all.res = "none"
    <3>1. decode(Behind(s, (k + 1) - 1), LimitOf(k + 1)) = all
      BY <2>1, Zenon
    <3> HIDE DEF all
    <3> QED  BY <2>1, <3>1, PacketCases, Zenon
  <2>3. ~Good(s, k + 1) => k = n /\ n < len
    <3>1. k < n => k + 1 \in 1 .. n
      BY <1>3, SMT
    <3>2. ~Good(s, k + 1) => ~(k < n)
      BY <1>2, <3>1, Zenon
    <3>3. ~(k < n) => k = n
      BY <1>3, SMT
    <3>4. k = n => n < len
      BY <1>2, <1>3, <1>5, SMT
    <3> QED  BY <3>2, <3>3, <3>4, Zenon
  <2>4. Good(s, k + 1) => k < n
    <3>1. k < len
      BY <1>2, <1>3, <1>5, SMT
    <3>2. k = n => ~Good(s, k + 1)
      BY <1>2, <3>1, Zenon
    <3>3. k # n => k < n
      BY <1>3, SMT
    <3> QED  BY <3>2, <3>3, Zenon
  <2>5. d.res \in {"some", "none", "err"}
    BY <1>1, DecodeLeaves, Zenon
  <2>6. d.res # "none" => /\ all.res = d.res /\ all.rest = d.rest \o w
                          /\ d.res = "some" => all.msg = d.msg
    BY <1>1, DecodeIsLocal, Zenon
  <2>b. Behind(s, k) # <<>>
    <3>1. /\ Behind(s, k) = SubSeq(ClientBytes(s.sent[k + 1]), 1, There(s, k + 1)) \o Behind(s, k + 1)
          /\ Behind(s, k + 1) \in Seq(Bytes)
      BY <2>1, BehindSplits, Zenon
    <3>2. /\ There(s, k + 1) \in Nat /\ There(s, k + 1) >= 1
          /\ There(s, k + 1) <= Len(ClientBytes(s.sent[k + 1])) /\ ClientBytes(s.sent[k + 1]) \in Seq(Bytes)
      BY <2>1, PacketPlace, StreamShape, Zenon
    <3> DEFINE q == SubSeq(ClientBytes(s.sent[k + 1]), 1, There(s, k + 1))
    <3>3. q \in Seq(Bytes) /\ Len(q) = There(s, k + 1)
      BY <3>2, SMT
    <3> HIDE DEF q
    <3>4. q # <<>>
      BY <3>2, <3>3, SMT
    <3>5. q \o Behind(s, k + 1) # <<>>
      <4>1. Len(q \o Behind(s, k + 1)) = Len(q) + Len(Behind(s, k + 1))
            /\ Len(Behind(s, k + 1)) \in Nat
        BY <3>1, <3>3, Joins, Zenon
      <4>2. Len(q \o Behind(s, k + 1)) >= 1
        BY <3>2, <3>3, <4>1, SMT
      <4> QED  BY <4>2, SMT
    <3> QED  BY <3>1, <3>5, Zenon DEF q
  <2>w. w = <<>> => b = Behind(s, k) /\ all = d
    <3>1. b \o <<>> = b
      BY ConcatEmptySeq, Zenon
    <3> QED  BY <3>1, Zenon
  <2> HIDE DEF d, all, n, len
  <2>7. CASE d.res = "some"
    <3>1. all.res = "some" /\ all.rest = d.rest \o w /\ all.msg = d.msg
      BY <2>6, <2>7, SMT
    <3>2. all.res # "err" /\ all.res # "none"
      BY <3>1, SMT
    <3>3. Good(s, k + 1) /\ all = [res |-> "some", msg |-> s.sent[k + 1], rest |-> Behind(s, k + 1)]
      BY <2>2, <3>2, Zenon
    <3>4. all.msg = s.sent[k + 1] /\ all.rest = Behind(s, k + 1)
      BY <3>3, SMT
    <3>5. d.res # "err" /\ d.res # "none"
      BY <2>7, SMT
    <3> QED  BY <2>4, <3>1, <3>3, <3>4, <3>5, Zenon DEF d, m, n, len
  <2>8. CASE d.res = "err"
    <3>1. d.res # "some" /\ d.res # "none"
      BY <2>8, SMT
    <3>2. all.res = "err"
      BY <2>6, <2>8, <3>1, Zenon
    <3>3. all.res # "none" /\ all # [res |-> "some", msg |-> s.sent[k + 1], rest |-> Behind(s, k + 1)]
      BY <3>2, SMT
    <3>4. ~Good(s, k + 1) /\ Refused(s, k + 1)
      BY <2>2, <3>3, Zenon
    <3> QED  BY <2>3, <3>1, <3>4, Zenon DEF d, m, n, len
  <2>9. CASE d.res = "none"
    <3>1. d.res # "some" /\ d.res # "err"
      BY <2>9, SMT
    <3>2. ASSUME w = <<>> PROVE b # <<>> /\ k = n /\ n < len /\ ~Refused(s, n + 1)
      <4>1. all.res = "none"
        BY <2>w, <2>9, <3>2, Zenon
      <4>2. all.res # "err" /\ all # [res |-> "some", msg |-> s.sent[k + 1], rest |-> Behind(s, k + 1)]
        BY <4>1, SMT
      <4>3. ~Good(s, k + 1) /\ ~Refused(s, k + 1)
        BY <2>2, <4>2, Zenon
      <4> QED  BY <2>3, <2>b, <2>w, <3>2, <4>3, Zenon
    <3> QED  BY <3>1, <3>2, Zenon DEF d, m, n, len
  <2> QED  BY <2>5, <2>7, <2>8, <2>9, Zenon
<1> QED  BY <1>4, <1>5

LEMMA BufferStep ==
  ASSUME BufferInv, [Next]_vars
  PROVE  BufferInv'
<1> USE LimitsOK
<1>1. max \in Nat
  BY DEF BufferInv
<1>2. CASE Read
  <2>1. PICK n \in 1 .. Len(wire) : /\ buf' = buf \o SubSeq(wire, 1, n)
                                    /\ wire' = SubSeq(wire, n + 1, Len(wire))
    BY <1>2 DEF Read
  <2>2. SubSeq(wire, 1, n) \in Seq(Bytes) /\ SubSeq(wire, n + 1, Len(wire)) \in Seq(Bytes)
    BY DEF BufferInv
  <2>3. buf' \in Seq(Bytes) /\ wire' \in Seq(Bytes)
    BY <2>1, <2>2 DEF BufferInv
  <2> QED  BY <1>2, <2>3 DEF Read, BufferInv, WaitsWithinLimit
<1>3. CASE ReadEof
  BY <1>3 DEF ReadEof, BufferInv, WaitsWithinLimit
<1>4. CASE SetMaxPacketSize
  <2>1. msgs # <<>>
    <3>1. Len(<<>>) = 0
      OBVIOUS
    <3> QED  BY <1>4, <3>1 DEF SetMaxPacketSize
  <2> QED  BY <1>4, <2>1 DEF SetMaxPacketSize, BufferInv, WaitsWithinLimit
<1>5. CASE Decode
  <2> DEFINE d == decode(buf, max)
  <2>1. /\ d.res \in {"some", "none", "err"} /\ d.rest \in Seq(Bytes)
        /\ d.res = "none" => d.rest = buf /\ Len(buf) < 1 + 4 + max
    BY <1>1, DecodeLeaves DEF BufferInv
  <2>2. /\ readable /\ status \in {"open", "eof"} /\ (msgs = <<>> \/ max = PostAuth)
        /\ Decoded(d) /\ UNCHANGED <<stream, outcome, wire, max>>
    BY <1>5 DEF Decode
  <2> HIDE DEF d
  <2>3. CASE d.res = "some"
    BY <2>1, <2>2, <2>3 DEF Decoded, BufferInv, WaitsWithinLimit
  <2>4. CASE d.res = "none"
    BY <2>1, <2>2, <2>4 DEF Decoded, BufferInv, WaitsWithinLimit
  <2>5. CASE d.res = "err"
    BY <2>1, <2>2, <2>5 DEF Decoded, BufferInv, WaitsWithinLimit
  <2> QED  BY <2>1, <2>3, <2>4, <2>5
<1>6. CASE UNCHANGED vars
  BY <1>6 DEF vars, BufferInv, WaitsWithinLimit
<1> QED  BY <1>2, <1>3, <1>4, <1>5, <1>6 DEF Next

\* The buffer invariant holds of every stream of bytes, however it is cut.
THEOREM BufferInvariance == Spec => []BufferInv
<1>1. Init => BufferInv
  <2> SUFFICES ASSUME Init PROVE BufferInv
    OBVIOUS
  <2>1. StreamBytes(stream) \in Seq(Bytes) /\ <<>> \in Seq(Bytes) /\ Len(<<>>) = 0
    <3>1. stream \in Streams
      BY DEF Init
    <3>2. 1 \in 1 .. Len(stream.sent)
      <4>1. Len(stream.sent) \in Nat /\ Len(stream.sent) >= 1
        BY <3>1, StreamShape, Zenon
      <4> QED  BY <4>1, SMT
    <3>3. StreamBytes(stream) \in Seq(Bytes)
      BY <3>1, <3>2, PacketPlace, Zenon
    <3> QED  BY <3>3
  <2>2. Len(buf) < 1 + 4 + max
    BY <2>1, LimitsOK DEF Init
  <2> QED  BY <2>1, <2>2 DEF Init, BufferInv, WaitsWithinLimit
<1>2. BufferInv /\ [Next]_vars => BufferInv'
  BY BufferStep
<1> QED  BY <1>1, <1>2, PTL DEF Spec

\* A connection that waits for bytes holds less than one frame of the limit in
\* force, also while the limit changes (MqttCodec::decode, set_max_packet_size).
THEOREM BufferIsBounded == Spec => []WaitsWithinLimit
<1>1. BufferInv => WaitsWithinLimit
  BY DEF BufferInv
<1> QED  BY <1>1, BufferInvariance, PTL

-----------------------------------------------------------------------------
(* The stream. *)

\* What is never changed: the stream, and what is expected of it.
Fixed == stream \in Streams /\ outcome = Outcome(stream)

LEMMA OutcomeIs ==
  ASSUME NEW s \in Streams
  PROVE  LET o == Outcome(s)
             n == GoodPackets(s)
         IN  /\ n \in Nat /\ n <= Len(s.sent)
             /\ o.msgs = SubSeq(s.sent, 1, n) /\ Len(o.msgs) = n
             /\ DOMAIN o.ends = 1 .. n
             /\ \A k \in 1 .. n : o.ends[k] = Len(BytesOf(s.sent)[k])
             /\ o.refused <=> n < Len(s.sent) /\ Refused(s, n + 1)
<1> DEFINE n == GoodPackets(s)
           t == s.sent
           T == Range(s.sent)
           r == n < Len(t) /\ Refused(s, n + 1)
           ends == [k \in 1 .. n |-> Len(BytesOf(t)[k])]
           part == SubSeq(t, 1, n)
<1>1. n \in 0 .. Len(t) /\ Len(t) \in Nat /\ t \in Seq(T)
  BY GoodPacketsIs, StreamShape, Zenon
<1>2. Outcome(s) = [msgs |-> part, ends |-> ends, refused |-> r]
  BY DEF Outcome
<1>3. DOMAIN ends = 1 .. n /\ \A k \in 1 .. n : ends[k] = Len(BytesOf(t)[k])
  BY Zenon
<1> HIDE DEF n, t, T
<1>4. n \in Nat /\ n <= Len(t) /\ Len(part) = n
  BY <1>1, SMT
<1> HIDE DEF r, ends, part
<1>5. Outcome(s).msgs = part /\ Outcome(s).ends = ends /\ Outcome(s).refused = r
  BY <1>2, SMT
<1> QED  BY <1>3, <1>4, <1>5 DEF n, t, r, part

\* The first packets of a stream.
LEMMA FirstPackets ==
  ASSUME NEW s \in Streams, NEW k \in Nat, k <= Len(s.sent)
  PROVE  /\ Len(SubSeq(s.sent, 1, k)) = k
         /\ k < Len(s.sent) => SubSeq(s.sent, 1, k + 1) = Append(SubSeq(s.sent, 1, k), s.sent[k + 1])
         /\ \A n \in Nat : k <= n /\ n <= Len(s.sent) => IsPrefix(SubSeq(s.sent, 1, k), SubSeq(s.sent, 1, n))
<1> DEFINE t == s.sent
           T == Range(s.sent)
<1>1. Len(t) \in Nat /\ t \in Seq(T) /\ k <= Len(t)
  BY StreamShape, Zenon
<1> HIDE DEF t, T
<1>2. Len(SubSeq(t, 1, k)) = k
  BY <1>1, SMT
<1>3. k < Len(t) => SubSeq(t, 1, k + 1) = Append(SubSeq(t, 1, k), t[k + 1])
  BY <1>1, SMT
<1>4. ASSUME NEW n \in Nat, k <= n, n <= Len(t)
      PROVE  IsPrefix(SubSeq(t, 1, k), SubSeq(t, 1, n))
  <2> DEFINE a == SubSeq(t, 1, k)
             b == SubSeq(t, 1, n)
  <2>1. Len(a) = k /\ Len(b) = n /\ SubSeq(a, 1, k) = SubSeq(b, 1, k)
    BY <1>1, <1>4, SMT
  <2> HIDE DEF a, b
  <2>2. IsPrefix(a, b)
    BY <1>4, <2>1 DEF IsPrefix
  <2> QED  BY <2>2 DEF a, b
<1> QED  BY <1>2, <1>3, <1>4 DEF t

LEMMA ParsesIs ==
  ASSUME PacketsParse
  PROVE  Parses(stream)
  BY Zenon DEF PacketsParse, Parses

LEMMA StreamInit ==
  ASSUME Init
  PROVE  Fixed /\ StreamInv
<1>1. /\ stream \in Streams /\ outcome = Outcome(stream) /\ wire = StreamBytes(stream)
      /\ buf = <<>> /\ readable = FALSE /\ max = PreAuth /\ msgs = <<>> /\ status = "open"
  BY DEF Init
<1> DEFINE n == GoodPackets(stream)
           u == StreamBytes(stream)
<1>2. n \in Nat /\ n <= Len(stream.sent) /\ outcome.msgs = SubSeq(stream.sent, 1, n) /\ Len(outcome.msgs) = n
  BY <1>1, OutcomeIs, Zenon
<1>3. Len(msgs) = 0 /\ 0 \in Nat /\ 0 <= n
  BY <1>1, <1>2, SMT
<1>4. Len(stream.sent) \in Nat /\ Len(stream.sent) >= 1 /\ stream.sent \in Seq(Range(stream.sent))
  BY <1>1, StreamShape, Zenon
<1>5. SubSeq(stream.sent, 1, 0) = <<>> /\ 0 <= Len(stream.sent) /\ 1 \in 1 .. Len(stream.sent)
  BY <1>4, SMT
<1>6. IsPrefix(msgs, outcome.msgs)
  BY <1>1, <1>2, <1>3, <1>5, FirstPackets, Zenon
<1>7. buf \o wire = Behind(stream, 0)
  <2>1. u \in Seq(Bytes)
    BY <1>1, <1>5, PacketPlace, Zenon
  <2>2. BytesOf(stream.sent)[0] = <<>>
    BY <1>4, BytesOfRounds, Zenon
  <2>3. Len(<<>>) + 1 = 1 /\ SubSeq(u, 1, Len(u)) = u /\ <<>> \o u = u
    <3> HIDE DEF u
    <3> QED  BY <2>1, SMT
  <2>4. Behind(stream, 0) = SubSeq(u, Len(<<>>) + 1, Len(u))
    BY <2>2, Zenon DEF Behind
  <2> QED  BY <1>1, <2>3, <2>4, Zenon
<1>8. decode(buf, max).res = "none"
  <2>1. decode(buf, max) = NeedMore(buf)
    BY <1>1, Zenon DEF decode
  <2> QED  BY <2>1, SMT DEF NeedMore
<1>9. status \notin {"eof", "closed", "error"}
  BY <1>1, SMT
<1>10. DeliversWhatWasSent
  BY <1>6, <1>9, Zenon DEF DeliversWhatWasSent
<1>11. msgs = SubSeq(stream.sent, 1, Len(msgs)) /\ Len(msgs) \in 0 .. Len(outcome.msgs)
  <2>1. 0 \in 0 .. n
    BY <1>2, SMT
  <2> QED  BY <1>1, <1>2, <1>3, <1>5, <2>1, Zenon
<1>12. buf \o wire = Behind(stream, Len(msgs))
  BY <1>3, <1>7, Zenon
<1> QED  BY <1>1, <1>8, <1>9, <1>10, <1>11, <1>12, Zenon DEF Fixed, StreamInv

\* The limit in force when decode is called is that of the next packet.
LEMMA LimitInForce ==
  ASSUME LimitsOK, Len(msgs) \in Nat, msgs = <<>> => max = PreAuth,
         msgs = <<>> \/ max = PostAuth, msgs = SubSeq(stream.sent, 1, Len(msgs))
  PROVE  max = LimitOf(Len(msgs) + 1)
<1>1. CASE msgs = <<>>
  <2>1. Len(msgs) + 1 = 1
    BY <1>1, SMT
  <2> QED  BY <1>1, <2>1, Zenon DEF LimitOf
<1>2. CASE msgs # <<>>
  <2>1. Len(msgs) # 0
    <3>1. SubSeq(stream.sent, 1, 0) = <<>>
      BY SubSeqEmpty, SMT
    <3> QED  BY <1>2, <3>1, Zenon
  <2>2. Len(msgs) + 1 # 1
    BY <2>1, SMT
  <2> QED  BY <1>2, <2>2, Zenon DEF LimitOf
<1> QED  BY <1>1, <1>2

\* Reading moves bytes from the wire to the end of the buffer.
LEMMA ReadMoves ==
  ASSUME NEW b \in Seq(Bytes), NEW w \in Seq(Bytes), NEW n \in 1 .. Len(w)
  PROVE  (b \o SubSeq(w, 1, n)) \o SubSeq(w, n + 1, Len(w)) = b \o w
<1> DEFINE x == SubSeq(w, 1, n)
           y == SubSeq(w, n + 1, Len(w))
<1>1. x \in Seq(Bytes) /\ y \in Seq(Bytes) /\ x \o y = w
  BY SMT
<1> HIDE DEF x, y
<1>2. (b \o x) \o y = b \o (x \o y)
  BY <1>1, ConcatThree, Zenon
<1> QED  BY <1>1, <1>2 DEF x, y

\* What is left of DeliversWhatWasSent while a connection is open.
LEMMA PrefixIsDelivered ==
  ASSUME Fixed, NEW k \in Nat, k <= GoodPackets(stream)
  PROVE  /\ k <= Len(stream.sent) /\ Len(SubSeq(stream.sent, 1, k)) = k
         /\ IsPrefix(SubSeq(stream.sent, 1, k), outcome.msgs)
         /\ Len(outcome.msgs) = GoodPackets(stream)
         /\ k = GoodPackets(stream) => SubSeq(stream.sent, 1, k) = outcome.msgs
<1> DEFINE n == GoodPackets(stream)
           len == Len(stream.sent)
<1>1. stream \in Streams /\ outcome = Outcome(stream)
  BY DEF Fixed
<1>2. n \in Nat /\ n <= len /\ outcome.msgs = SubSeq(stream.sent, 1, n) /\ Len(outcome.msgs) = n
  BY <1>1, OutcomeIs, Zenon
<1>3. len \in Nat
  BY <1>1, StreamShape, Zenon
<1>4. k <= len
  <2> HIDE DEF n, len
  <2>1. k <= n
    BY Zenon DEF n
  <2> QED  BY <1>2, <1>3, <2>1, SMT
<1>5. Len(SubSeq(stream.sent, 1, k)) = k /\ IsPrefix(SubSeq(stream.sent, 1, k), SubSeq(stream.sent, 1, n))
  BY <1>1, <1>2, <1>4, FirstPackets, Zenon
<1> QED  BY <1>2, <1>4, <1>5, Zenon

\* One call of decode in a connection.
LEMMA DecodeStep ==
  ASSUME Fixed, PacketsParse, BufferInv, StreamInv, Decode
  PROVE  StreamInv'
<1> USE LimitsOK
<1> DEFINE k == Len(msgs)
           n == GoodPackets(stream)
           len == Len(stream.sent)
           d == decode(buf, max)
<1>1. /\ readable /\ status \in {"open", "eof"} /\ (msgs = <<>> \/ max = PostAuth)
      /\ Decoded(d) /\ UNCHANGED <<stream, outcome, wire, max>>
  BY DEF Decode
<1>2. /\ stream \in Streams /\ outcome = Outcome(stream)
      /\ k \in 0 .. Len(outcome.msgs) /\ msgs = SubSeq(stream.sent, 1, k)
      /\ msgs = <<>> => max = PreAuth
      /\ status \in {"eof", "closed"} => wire = <<>>
      /\ buf \in Seq(Bytes) /\ wire \in Seq(Bytes)
  BY Zenon DEF Fixed, StreamInv, BufferInv
<1>3. buf \o wire = Behind(stream, k)
  <2>1. status # "error"
    BY <1>1, SMT
  <2> QED  BY <2>1, Zenon DEF StreamInv
<1>4. n \in Nat /\ n <= len /\ Len(outcome.msgs) = n /\ outcome.msgs = SubSeq(stream.sent, 1, n)
      /\ (outcome.refused <=> n < len /\ Refused(stream, n + 1)) /\ len \in Nat
  BY <1>2, OutcomeIs, StreamShape, Zenon
<1>5. k \in Nat
  <2> HIDE DEF k, n
  <2> QED  BY <1>2, <1>4, SMT
<1>6. k <= n
  <2> HIDE DEF k, n
  <2> QED  BY <1>2, <1>4, SMT
<1>7. max = LimitOf(k + 1)
  BY <1>1, <1>2, <1>5, LimitInForce, Zenon
<1>8. Parses(stream)
  BY ParsesIs
<1>9. /\ d.res = "some" => k < n /\ d.msg = stream.sent[k + 1] /\ d.rest \o wire = Behind(stream, k + 1)
      /\ d.res = "err" => k = n /\ n < len /\ Refused(stream, n + 1)
      /\ d.res = "none" /\ wire = <<>> /\ buf = <<>> => k = n /\ n = len
      /\ d.res = "none" /\ wire = <<>> /\ buf # <<>> => k = n /\ n < len /\ ~Refused(stream, n + 1)
  BY <1>2, <1>3, <1>5, <1>6, <1>7, <1>8, NextPacket, Zenon
<1>10. max \in Nat
  BY <1>7 DEF LimitOf
<1>11. d.res \in {"some", "none", "err"} /\ (d.res = "none" => d.rest = buf)
  BY <1>2, <1>10, DecodeLeaves, Zenon
<1>12. stream' = stream /\ outcome' = outcome /\ wire' = wire /\ max' = max /\ buf' = d.rest
  BY <1>1 DEF Decoded
<1> HIDE DEF d
<1>13. CASE d.res = "some"
  <2>1. msgs' = Append(msgs, d.msg) /\ readable' = readable /\ status' = status
    BY <1>1, <1>13 DEF Decoded
  <2>2. k < n /\ k + 1 \in Nat /\ k + 1 <= n /\ k < len /\ k <= len /\ k + 1 <= len
    <3>1. k < n
      BY <1>9, <1>13, Zenon
    <3> HIDE DEF k, n, len
    <3> QED  BY <1>4, <1>5, <3>1, SMT
  <2>3. msgs' = SubSeq(stream.sent, 1, k + 1)
    BY <1>2, <1>5, <1>9, <1>13, <2>1, <2>2, FirstPackets, Zenon
  <2>4. Len(SubSeq(stream.sent, 1, k + 1)) = k + 1 /\ IsPrefix(msgs', outcome.msgs)
    BY <2>2, <2>3, PrefixIsDelivered, Zenon
  <2>5. Len(msgs') = k + 1
    BY <2>3, <2>4, Zenon
  <2>6. msgs' # <<>>
    <3>1. k + 1 # 0
      BY <1>5, SMT
    <3>2. Len(<<>>) = 0
      BY SMT
    <3> QED  BY <2>5, <3>1, <3>2, Zenon
  <2>7. buf' \o wire' = Behind(stream, k + 1)
    BY <1>9, <1>12, <1>13, Zenon
  <2>8. status' \notin {"closed", "error"} /\ status' # "error" /\ status' # "closed" /\ readable'
    BY <1>1, <2>1, SMT
  <2>9. DeliversWhatWasSent'
    BY <1>12, <2>4, <2>8, Zenon DEF DeliversWhatWasSent
  <2>i. k + 1 \in 0 .. n
    BY <1>4, <2>2, SMT
  <2>10. (buf \o wire = Behind(stream, Len(msgs)))' /\ (msgs = SubSeq(stream.sent, 1, Len(msgs)))'
         /\ (Len(msgs) \in 0 .. Len(outcome.msgs))'
    BY <1>4, <1>12, <2>3, <2>5, <2>7, <2>i, Zenon
  <2>11. status' \in {"eof", "closed"} => wire' = <<>>
    BY <1>2, <1>12, <2>1, Zenon
  <2> QED  BY <2>6, <2>8, <2>9, <2>10, <2>11, Zenon DEF StreamInv
<1>14. CASE d.res = "none"
  <2>1. /\ readable' = FALSE /\ msgs' = msgs
        /\ status' = IF status = "open" THEN "open" ELSE IF buf = <<>> THEN "closed" ELSE "error"
    BY <1>1, <1>14, SMT DEF Decoded
  <2>2. buf' = buf
    BY <1>11, <1>12, <1>14, Zenon
  <2>3. decode(buf', max').res = "none"
    BY <1>12, <1>14, <2>2, Zenon DEF d
  <2>4. /\ (buf \o wire = Behind(stream, Len(msgs)))' /\ (msgs = SubSeq(stream.sent, 1, Len(msgs)))'
        /\ (Len(msgs) \in 0 .. Len(outcome.msgs))' /\ (msgs = <<>> => max = PreAuth)'
    BY <1>2, <1>3, <1>12, <2>1, <2>2, Zenon
  <2>5. IsPrefix(msgs, outcome.msgs) /\ (k = n => msgs = outcome.msgs)
    BY <1>2, <1>5, <1>6, PrefixIsDelivered, Zenon
  <2>6. CASE status = "open"
    <3>1. status' = "open" /\ status' \notin {"eof", "closed", "error"}
      BY <2>1, <2>6, SMT
    <3>2. DeliversWhatWasSent'
      BY <1>12, <2>1, <2>5, <3>1, Zenon DEF DeliversWhatWasSent
    <3> QED  BY <2>3, <2>4, <3>1, <3>2, Zenon DEF StreamInv
  <2>7. CASE status = "eof"
    <3>1. wire = <<>> /\ (buf = <<>> => k = n /\ n = len) /\ (buf # <<>> => k = n /\ n < len)
      BY <1>2, <1>9, <1>14, <2>7, Zenon
    <3>2. status' = (IF buf = <<>> THEN "closed" ELSE "error") /\ status' # "open"
      BY <2>1, <2>7, SMT
    <3>3. (status' = "closed" => buf = <<>>) /\ (status' = "error" => buf # <<>>)
      BY <3>2, SMT
    <3>4. /\ msgs' = outcome' .msgs
          /\ status' = "error" => wire' = <<>> /\ Len(msgs') < Len(stream'.sent)
          /\ status' = "closed" => Len(msgs') = Len(stream'.sent)
      BY <1>12, <2>1, <2>5, <3>1, <3>3, Zenon
    <3>5. DeliversWhatWasSent'
      BY <1>12, <2>1, <2>5, <3>4, Zenon DEF DeliversWhatWasSent
    <3>6. status' \in {"eof", "closed"} => wire' = <<>>
      BY <1>12, <3>1, Zenon
    <3> QED  BY <2>4, <3>2, <3>5, <3>6, Zenon DEF StreamInv
  <2> QED  BY <1>1, <2>6, <2>7, Zenon
<1>15. CASE d.res = "err"
  <2>1. readable' = FALSE /\ msgs' = msgs /\ status' = "error"
    BY <1>1, <1>15, SMT DEF Decoded
  <2>2. k = n /\ n < len /\ Refused(stream, n + 1)
    BY <1>9, <1>15, Zenon
  <2>3. msgs = outcome.msgs /\ IsPrefix(msgs, outcome.msgs) /\ outcome.refused
    BY <1>2, <1>4, <1>5, <1>6, <2>2, PrefixIsDelivered, Zenon
  <2>4. status' # "closed" /\ status' \notin {"eof", "closed"} /\ status' # "open"
    BY <2>1, SMT
  <2>5. DeliversWhatWasSent'
    BY <1>12, <2>1, <2>3, <2>4, Zenon DEF DeliversWhatWasSent
  <2>6. (msgs = SubSeq(stream.sent, 1, Len(msgs)))' /\ (Len(msgs) \in 0 .. Len(outcome.msgs))'
        /\ (msgs = <<>> => max = PreAuth)'
    BY <1>2, <1>12, <2>1, Zenon
  <2> QED  BY <2>1, <2>4, <2>5, <2>6, Zenon DEF StreamInv
<1> QED  BY <1>11, <1>13, <1>14, <1>15, Zenon

LEMMA StreamStep ==
  ASSUME Fixed, PacketsParse, BufferInv, StreamInv, [Next]_vars
  PROVE  Fixed' /\ StreamInv'
<1>1. Fixed'
  <2>1. stream' = stream /\ outcome' = outcome
    BY Zenon DEF Next, Read, ReadEof, SetMaxPacketSize, Decode, vars
  <2> QED  BY <2>1, Zenon DEF Fixed
<1>2. CASE Read
  <2>1. PICK n \in 1 .. Len(wire) : /\ buf' = buf \o SubSeq(wire, 1, n)
                                    /\ wire' = SubSeq(wire, n + 1, Len(wire))
    BY <1>2 DEF Read
  <2>2. /\ status = "open" /\ readable' /\ stream' = stream /\ outcome' = outcome /\ max' = max
        /\ msgs' = msgs /\ status' = status
    BY <1>2 DEF Read
  <2>3. buf' \o wire' = buf \o wire
    BY <2>1, ReadMoves, Zenon DEF BufferInv
  <2>4. status \notin {"eof", "closed", "error"} /\ status # "error"
    BY <2>2, SMT
  <2>5. buf' \o wire' = Behind(stream', Len(msgs'))
    BY <2>2, <2>3, <2>4, Zenon DEF StreamInv
  <2>6. DeliversWhatWasSent'
    BY <2>2, <2>4, Zenon DEF StreamInv, DeliversWhatWasSent
  <2>7. (Len(msgs) \in 0 .. Len(outcome.msgs))' /\ (msgs = SubSeq(stream.sent, 1, Len(msgs)))'
        /\ (msgs = <<>> => max = PreAuth)'
    BY <2>2, Zenon DEF StreamInv
  <2> QED  BY <1>1, <2>2, <2>4, <2>5, <2>6, <2>7, Zenon DEF StreamInv
<1>3. CASE ReadEof
  <2>1. /\ status = "open" /\ wire = <<>> /\ readable' /\ status' = "eof"
        /\ stream' = stream /\ outcome' = outcome /\ wire' = wire /\ buf' = buf /\ max' = max /\ msgs' = msgs
    BY <1>3 DEF ReadEof
  <2>2. status # "error" /\ status' \notin {"closed", "error"} /\ status' # "open"
    BY <2>1, SMT
  <2>3. DeliversWhatWasSent'
    BY <2>1, <2>2, Zenon DEF StreamInv, DeliversWhatWasSent
  <2> QED  BY <1>1, <2>1, <2>2, <2>3, Zenon DEF StreamInv
<1>4. CASE SetMaxPacketSize
  <2>1. /\ Len(msgs) = 1 /\ max = PreAuth /\ max # PostAuth /\ status \in {"open", "eof"}
        /\ stream' = stream /\ outcome' = outcome /\ wire' = wire /\ buf' = buf
        /\ readable' = readable /\ msgs' = msgs /\ status' = status
    BY <1>4 DEF SetMaxPacketSize
  <2>2. msgs # <<>>
    <3>1. Len(<<>>) = 0
      BY SMT
    <3>2. 1 # 0
      BY SMT
    <3> QED  BY <2>1, <3>1, <3>2, Zenon
  <2>3. readable /\ status # "error"
    <3>1. status # "error"
      BY <2>1, SMT
    <3> QED  BY <2>1, <2>2, <3>1, Zenon DEF BufferInv
  <2>4. DeliversWhatWasSent'
    BY <2>1, Zenon DEF StreamInv, DeliversWhatWasSent
  <2> QED  BY <1>1, <2>1, <2>2, <2>3, <2>4, Zenon DEF StreamInv
<1>5. CASE Decode
  BY <1>1, <1>5, DecodeStep, Zenon
<1>6. CASE UNCHANGED vars
  <2>1. /\ stream' = stream /\ outcome' = outcome /\ wire' = wire /\ buf' = buf /\ max' = max
        /\ readable' = readable /\ msgs' = msgs /\ status' = status
    BY <1>6 DEF vars
  <2> QED  BY <1>1, <2>1, Zenon DEF StreamInv, DeliversWhatWasSent
<1> QED  BY <1>1, <1>2, <1>3, <1>4, <1>5, <1>6, Zenon DEF Next

\* Where a connection is in its stream, however TCP cuts it: of any stream whose
\* packets the parsers get right one by one (PacketsParse).
THEOREM StreamInvariance == Spec /\ PacketsParse => [](Fixed /\ PacketsParse /\ StreamInv)
<1>1. Init => Fixed /\ StreamInv
  BY StreamInit
<1>2. Fixed /\ PacketsParse /\ BufferInv /\ StreamInv /\ [Next]_vars => Fixed' /\ StreamInv'
  BY StreamStep
<1>3. PacketsParse /\ [Next]_vars => PacketsParse'
  <2> SUFFICES ASSUME PacketsParse, [Next]_vars PROVE PacketsParse'
    OBVIOUS
  <2>1. stream' = stream
    BY Zenon DEF Next, Read, ReadEof, SetMaxPacketSize, Decode, vars
  <2> QED  BY <2>1, Zenon DEF PacketsParse
<1> QED  BY <1>1, <1>2, <1>3, BufferInvariance, PTL DEF Spec

\* The packets of a stream are delivered complete, unchanged and in order up to the
\* first bad one, and an error means such a packet or an end inside one
\* (MqttCodec::decode on every cut of the stream).
THEOREM Delivered == Spec /\ PacketsParse => []DeliversWhatWasSent
<1>1. StreamInv => DeliversWhatWasSent
  BY Zenon DEF StreamInv
<1> QED  BY <1>1, StreamInvariance, PTL

\* Once a good packet is in the buffer decode does not ask for more.
LEMMA GoodIsNotAwaited ==
  ASSUME NEW s \in Streams, LimitsOK, NEW k \in Nat, k < Len(s.sent), Good(s, k + 1),
         NEW b \in Seq(Bytes), NEW w \in Seq(Bytes), b \o w = Behind(s, k),
         Len(BytesOf(s.sent)[k + 1]) <= Len(StreamBytes(s)) - Len(w)
  PROVE  decode(b, LimitOf(k + 1)).res # "none"
<1> DEFINE j == k + 1
           p == s.sent[j]
           c == ClientBytes(p)
           m == LimitOf(j)
           u == StreamBytes(s)
           rest == Behind(s, j)
           start == Len(BytesOf(s.sent)[k])
           len == Len(s.sent)
<1>1. j \in 1 .. len /\ j - 1 = k
  <2>1. len \in Nat /\ k < len
    BY StreamShape, Zenon
  <2> HIDE DEF len
  <2> QED  BY <2>1, SMT
<1>2. m \in Nat
  BY LimitsOK DEF LimitOf
<1>3. /\ Complete(s, j) /\ ~(SizeOf(p) > MAX_LENGTH) /\ ~(SizeOf(p) > m)
  BY Zenon DEF Good, OverLimit, LimitOf
<1>4. There(s, j) = Len(c) /\ Len(c) = WholeSize(p) /\ c \in Seq(Bytes)
  BY <1>1, <1>3, HeadOfWhole, StreamShape, Zenon
<1>5. /\ u \in Seq(Bytes) /\ start \in Nat
      /\ Len(BytesOf(s.sent)[j]) = start + Len(c) /\ start + Len(c) <= Len(u)
  BY <1>1, <1>4, PacketPlace, Zenon
<1>6. rest \in Seq(Bytes) /\ Behind(s, k) = SubSeq(c, 1, Len(c)) \o rest
  BY <1>1, <1>4, BehindSplits, Zenon
<1>7. Behind(s, k) = SubSeq(u, start + 1, Len(u))
  BY Zenon DEF Behind
<1>8. start + Len(c) <= Len(u) - Len(w)
  BY <1>5, Zenon
<1> HIDE DEF c, u, rest, start, m, j, p
<1>9. Len(b) >= Len(c)
  <2> DEFINE v == Behind(s, k)
  <2>1. Len(SubSeq(u, start + 1, Len(u))) = Len(u) - start /\ Len(u) \in Nat /\ Len(c) \in Nat
    BY <1>4, <1>5, SMT
  <2>2. v = b \o w
    BY Zenon
  <2>3. Len(v) = Len(u) - start
    BY <1>7, <2>1, Zenon
  <2> HIDE DEF v
  <2>4. Len(v) = Len(b) + Len(w) /\ Len(b) \in Nat /\ Len(w) \in Nat
    BY <2>2, Joins, Zenon
  <2> QED  BY <1>5, <1>8, <2>1, <2>3, <2>4, SMT
<1>10. SubSeq(c, 1, Len(c)) = c
  BY <1>4, SMT
<1>11. b \o w = c \o rest
  BY <1>6, <1>10, Zenon
<1> DEFINE y == SubSeq(b, Len(c) + 1, Len(b))
<1>12. b = c \o y /\ y \in Seq(Bytes)
  <2> DEFINE x == b \o w
  <2>x. x = b \o w /\ x = c \o rest
    BY <1>11
  <2> HIDE DEF x
  <2>1. /\ \A i \in 1 .. Len(b) : x[i] = b[i]
        /\ Len(b) \in Nat
    BY <2>x, JoinBegins, Zenon
  <2>2. /\ \A i \in 1 .. Len(c) : x[i] = c[i]
        /\ Len(c) \in Nat
    <3>1. \A i \in 1 .. Len(c) : (c \o rest)[i] = c[i]
      BY <1>4, <1>6, JoinBegins
    <3>2. x = c \o rest
      BY <2>x
    <3>3. \A i \in 1 .. Len(c) : x[i] = c[i]
      BY ONLY <3>1, <3>2, Zenon
    <3> QED  BY <1>4, <3>3, LenProperties
  <2>3. SubSeq(b, 1, Len(c)) = c
    <3> DEFINE f == SubSeq(b, 1, Len(c))
    <3>1. f \in Seq(Bytes) /\ Len(f) = Len(c) /\ \A i \in 1 .. Len(c) : f[i] = b[i]
      BY <1>9, <2>1, <2>2, SMT
    <3>2. \A i \in 1 .. Len(c) : i \in 1 .. Len(b)
      BY <1>9, <2>1, <2>2, SMT
    <3> HIDE DEF f
    <3>3. \A i \in 1 .. Len(c) : f[i] = c[i]
      BY <2>1, <2>2, <3>1, <3>2, Zenon
    <3>4. \A i \in 1 .. Len(f) : f[i] = c[i]
      BY <3>1, <3>3, Zenon
    <3>5. f = c
      BY <1>4, <3>1, <3>4, SeqEqual, Zenon
    <3> QED  BY <3>5 DEF f
  <2>4. y \in Seq(Bytes) /\ SubSeq(b, 1, Len(c)) \o y = b
    <3>1. y \in Seq(Bytes) /\ SubSeq(b, 1, Len(b)) = b
      BY <1>9, <2>1, <2>2, SMT
    <3>2. 1 \in 1 .. Len(b) + 1 /\ Len(c) \in 1 - 1 .. Len(b) /\ Len(b) \in Len(c) .. Len(b)
      BY <1>9, <2>1, <2>2, SMT
    <3>3. SubSeq(b, 1, Len(c)) \o y = SubSeq(b, 1, Len(b))
      BY <3>2, ConcatAdjacentSubSeq, Zenon
    <3> QED  BY <3>1, <3>3, Zenon
  <2> QED  BY <2>3, <2>4, Zenon
<1> HIDE DEF y
<1>13. decode(c \o y, m) = Parsed(FromBytes(c), y)
  BY <1>1, <1>2, <1>3, <1>4, <1>12, WholePacket, Zenon DEF c, p
<1>14. decode(b, m) = Parsed(FromBytes(c), y)
  BY <1>12, <1>13, Zenon
<1> DEFINE answer == FromBytes(c)
<1>15. decode(b, m) = Parsed(answer, y)
  BY <1>14
<1> HIDE DEF answer
<1>16. decode(b, m).res # "none"
  BY <1>15, SMT DEF Parsed
<1> QED  BY <1>16 DEF m, j

LEMMA WaitingIsJustified ==
  ASSUME Fixed, PacketsParse, BufferInv, StreamInv
  PROVE  NothingHeldBack
<1> USE LimitsOK
<1> SUFFICES ASSUME status = "open", ~readable
             PROVE  /\ \A i \in DOMAIN outcome.ends :
                          outcome.ends[i] <= Len(StreamBytes(stream)) - Len(wire) => i <= Len(msgs)
                    /\ wire = <<>> => ~outcome.refused
  BY Zenon DEF NothingHeldBack
<1> DEFINE k == Len(msgs)
           n == GoodPackets(stream)
           B == BytesOf(stream.sent)
           u == StreamBytes(stream)
           len == Len(stream.sent)
<1>1. /\ stream \in Streams /\ outcome = Outcome(stream)
      /\ k \in 0 .. Len(outcome.msgs) /\ msgs = SubSeq(stream.sent, 1, k)
      /\ msgs = <<>> => max = PreAuth
      /\ decode(buf, max).res = "none"
      /\ buf \in Seq(Bytes) /\ wire \in Seq(Bytes)
  BY Zenon DEF Fixed, StreamInv, BufferInv
<1>2. status # "error"
  BY SMT
<1>3. buf \o wire = Behind(stream, k) /\ (msgs = <<>> \/ max = PostAuth)
  BY <1>2, Zenon DEF StreamInv, BufferInv
<1>4. /\ n \in Nat /\ n <= len /\ len \in Nat /\ Len(outcome.msgs) = n
      /\ DOMAIN outcome.ends = 1 .. n /\ \A i \in 1 .. n : outcome.ends[i] = Len(B[i])
      /\ outcome.refused <=> n < len /\ Refused(stream, n + 1)
      /\ \A i \in 1 .. n : Good(stream, i)
  BY <1>1, OutcomeIs, StreamShape, GoodPacketsIs, Zenon
<1>5. k \in Nat /\ k <= n
  <2> HIDE DEF k, n
  <2> QED  BY <1>1, <1>4, SMT
<1>6. max = LimitOf(k + 1)
  BY <1>1, <1>3, <1>5, LimitInForce, Zenon
<1>7. ASSUME NEW i \in 1 .. n, Len(B[i]) <= Len(u) - Len(wire), ~(i <= k)
      PROVE  FALSE
  <2>1. /\ k < len /\ k + 1 \in 1 .. n /\ k + 1 \in 0 .. len /\ i \in 0 .. len /\ k + 1 <= i
    <3> HIDE DEF k, n, len
    <3> QED  BY <1>4, <1>5, <1>7, SMT
  <2>2. PICK x \in Seq(Bytes) : B[i] = B[k + 1] \o x
    BY <1>1, <2>1, BytesOfGrows, Zenon
  <2>3. B[k + 1] \in Seq(Bytes)
    BY <1>1, <2>1, BytesOfType, Zenon
  <2>4. Len(B[i]) = Len(B[k + 1]) + Len(x) /\ Len(B[k + 1]) \in Nat /\ Len(x) \in Nat
    <3> DEFINE f == B[i]
               g == B[k + 1]
    <3>1. f = g \o x /\ g \in Seq(Bytes) /\ x \in Seq(Bytes)
      BY <2>2, <2>3
    <3> HIDE DEF f, g
    <3>2. Len(f) = Len(g) + Len(x) /\ Len(g) \in Nat /\ Len(x) \in Nat
      BY <3>1, Joins, Zenon
    <3> QED  BY <3>2 DEF f, g
  <2>5. Len(u) \in Nat /\ Len(wire) \in Nat
    <3>1. 1 \in 1 .. len
      BY <1>4, <2>1, SMT
    <3>2. u \in Seq(Bytes)
      BY <1>1, <3>1, PacketPlace, Zenon
    <3> QED  BY <1>1, <3>2, LenProperties, Zenon
  <2>6. Len(B[k + 1]) <= Len(u) - Len(wire)
    <3> DEFINE q == B[k + 1]
               lu == Len(u)
    <3>1. Len(B[i]) = Len(q) + Len(x) /\ Len(q) \in Nat /\ Len(x) \in Nat /\ lu \in Nat
          /\ Len(B[i]) <= lu - Len(wire) /\ Len(wire) \in Nat
      BY <1>7, <2>4, <2>5
    <3> HIDE DEF q, lu, B
    <3> QED  BY <3>1, SMT DEF q, lu
  <2>7. Good(stream, k + 1)
    BY <1>4, <2>1, Zenon
  <2>8. decode(buf, LimitOf(k + 1)).res # "none"
    BY <1>1, <1>3, <1>5, <2>1, <2>6, <2>7, GoodIsNotAwaited, Zenon
  <2> QED  BY <1>1, <1>6, <2>8, Zenon
<1>8. ASSUME wire = <<>> PROVE ~outcome.refused
  <2>1. Parses(stream)
    BY ParsesIs
  <2>2. /\ buf = <<>> => k = n /\ n = len
        /\ buf # <<>> => ~Refused(stream, n + 1)
    BY <1>1, <1>3, <1>5, <1>6, <1>8, <2>1, NextPacket, Zenon
  <2>3. n = len => ~(n < len)
    BY <1>4, SMT
  <2> QED  BY <1>4, <2>2, <2>3, Zenon
<1> QED  BY <1>4, <1>7, <1>8, Zenon

\* A connection that waits for bytes has delivered every good packet that has
\* arrived in full, and does not wait on a packet that is to be refused.
THEOREM NothingIsHeldBack == Spec /\ PacketsParse => []NothingHeldBack
<1>1. Fixed /\ PacketsParse /\ BufferInv /\ StreamInv => NothingHeldBack
  BY WaitingIsJustified
<1> QED  BY <1>1, StreamInvariance, BufferInvariance, PTL
=============================================================================
