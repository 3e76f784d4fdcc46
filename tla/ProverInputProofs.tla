-------------------------- MODULE ProverInputProofs --------------------------
(***************************************************************************)
(* What the prover of a batch is given, for every base of the bytes, every *)
(* height of the tree and every set of transactions: batches decode to     *)
(* what was encoded, the tree follows the leaves of L1, and the leaves and *)
(* proofs that are collected for a batch are those of its own tree.        *)
(***************************************************************************)
EXTENDS ProverInput, L1InfoTreeProofs, SequenceTheorems

-----------------------------------------------------------------------------
(* Sequences of bytes, and their parts. *)

Bytes == Seq(Nat)

(* piece is the part of s behind the first pos bytes. *)
At(s, pos, piece) ==
  /\ pos + Len(piece) <= Len(s)
  /\ \A i \in 1 .. Len(piece) : s[pos + i] = piece[i]

(* A part of a sequence, and what it is when the place of a piece is known. *)
LEMMA SliceAt ==
  ASSUME NEW s \in Bytes, NEW piece \in Bytes, NEW pos \in Nat, At(s, pos, piece)
  PROVE  Slice(s, pos, pos + Len(piece)) = piece
<1>. DEFINE m == pos + 1
            n == pos + Len(piece)
            t == SubSeq(s, m, n)
<1>1. m \in Int /\ n \in Int /\ Len(piece) \in Nat /\ Len(s) \in Nat /\ n <= Len(s)
  BY DEF At, Bytes
<1>2. \A i \in m .. n : s[i] \in Nat
  BY <1>1 DEF Bytes
<1>3. /\ t \in Seq(Nat)
      /\ Len(t) = IF m <= n THEN n - m + 1 ELSE 0
      /\ \A i \in 1 .. n - m + 1 : t[i] = s[m + i - 1]
  <2>. HIDE DEF m, n
  <2>. QED BY <1>1, <1>2, SubSeqProperties
<1>4. Len(t) = Len(piece)
  BY <1>1, <1>3
<1>5. ASSUME NEW i \in 1 .. Len(t) PROVE t[i] = piece[i]
  <2>1. i \in 1 .. n - m + 1 /\ m + i - 1 = pos + i /\ i \in 1 .. Len(piece)
    BY <1>1, <1>4
  <2>. QED BY <1>3, <2>1 DEF At
<1>6. t = piece
  <2>. HIDE DEF t
  <2>. QED BY <1>3, <1>4, <1>5, SeqEqual DEF Bytes
<1>. QED BY <1>6 DEF Slice

LEMMA SliceBytes ==
  ASSUME NEW s \in Bytes, NEW from \in Nat, NEW to \in Nat, from <= to, to <= Len(s)
  PROVE  /\ Slice(s, from, to) \in Bytes
         /\ Len(Slice(s, from, to)) = to - from
         /\ At(s, from, Slice(s, from, to))
<1>. DEFINE m == from + 1
            t == SubSeq(s, m, to)
<1>1. m \in Int /\ Len(s) \in Nat /\ \A i \in m .. to : s[i] \in Nat
  BY DEF Bytes
<1>2. /\ t \in Seq(Nat)
      /\ Len(t) = IF m <= to THEN to - m + 1 ELSE 0
      /\ \A i \in 1 .. to - m + 1 : t[i] = s[m + i - 1]
  <2>. HIDE DEF m
  <2>. QED BY <1>1, SubSeqProperties
<1>3. Len(t) = to - from
  BY <1>2
<1>4. ASSUME NEW i \in 1 .. Len(t) PROVE s[from + i] = t[i]
  <2>1. i \in 1 .. to - m + 1 /\ m + i - 1 = from + i
    BY <1>3
  <2>. QED BY <1>2, <2>1
<1>5. At(s, from, t)
  <2>. HIDE DEF t
  <2>. QED BY <1>1, <1>3, <1>4 DEF At
<1>. QED BY <1>2, <1>3, <1>5 DEF Slice, Bytes

(* The places of the parts of a concatenation. *)
LEMMA ConcatAt ==
  ASSUME NEW a \in Bytes, NEW b \in Bytes
  PROVE  /\ a \o b \in Bytes
         /\ Len(a \o b) = Len(a) + Len(b) /\ Len(a) \in Nat /\ Len(b) \in Nat
         /\ At(a \o b, 0, a)
         /\ At(a \o b, Len(a), b)
<1>1. /\ a \o b \in Seq(Nat)
      /\ Len(a \o b) = Len(a) + Len(b) /\ Len(a) \in Nat /\ Len(b) \in Nat
      /\ \A i \in 1 .. Len(a) + Len(b) :
           (a \o b)[i] = IF i <= Len(a) THEN a[i] ELSE b[i - Len(a)]
  BY ConcatProperties, LenProperties DEF Bytes
<1>. DEFINE s == a \o b
<1>. HIDE DEF s
<1>2. \A i \in 1 .. Len(a) : s[0 + i] = a[i]
  BY <1>1 DEF s
<1>3. \A i \in 1 .. Len(b) : s[Len(a) + i] = b[i]
  BY <1>1 DEF s
<1>. QED BY <1>1, <1>2, <1>3 DEF At, Bytes, s

LEMMA AtConcat ==
  ASSUME NEW s \in Bytes, NEW pos \in Nat, NEW a \in Bytes, NEW b \in Bytes
  PROVE  At(s, pos, a \o b) <=> At(s, pos, a) /\ At(s, pos + Len(a), b)
<1>1. /\ Len(a \o b) = Len(a) + Len(b) /\ Len(a) \in Nat /\ Len(b) \in Nat
      /\ \A i \in 1 .. Len(a) : (a \o b)[i] = a[i]
      /\ \A i \in 1 .. Len(b) : (a \o b)[Len(a) + i] = b[i]
  BY ConcatAt DEF At
<1>2. Len(s) \in Nat
  BY DEF Bytes
<1>. DEFINE c == a \o b
<1>. HIDE DEF c
<1>3. ASSUME At(s, pos, c) PROVE At(s, pos, a) /\ At(s, pos + Len(a), b)
  <2>1. \A i \in 1 .. Len(a) : s[pos + i] = a[i]
    BY <1>1, <1>3 DEF At, c
  <2>2. ASSUME NEW i \in 1 .. Len(b) PROVE s[(pos + Len(a)) + i] = b[i]
    <3>1. Len(a) + i \in 1 .. Len(c) /\ pos + (Len(a) + i) = (pos + Len(a)) + i
      BY <1>1 DEF c
    <3>. QED BY <1>1, <1>3, <3>1 DEF At, c
  <2>. QED BY <1>1, <1>2, <1>3, <2>1, <2>2 DEF At, c
<1>4. ASSUME At(s, pos, a), At(s, pos + Len(a), b) PROVE At(s, pos, c)
  <2>1. ASSUME NEW i \in 1 .. Len(c) PROVE s[pos + i] = c[i]
    <3>1. CASE i <= Len(a)
      BY <1>1, <1>4, <3>1 DEF At, c
    <3>2. CASE ~ i <= Len(a)
      <4>1. i - Len(a) \in 1 .. Len(b) /\ Len(a) + (i - Len(a)) = i
            /\ (pos + Len(a)) + (i - Len(a)) = pos + i
        BY <1>1, <3>2 DEF c
      <4>. QED BY <1>1, <1>4, <4>1 DEF At, c
    <3>. QED BY <3>1, <3>2
  <2>2. pos + Len(c) <= Len(s)
    <3>1. Len(c) = Len(a) + Len(b) /\ (pos + Len(a)) + Len(b) <= Len(s)
      BY <1>1, <1>4 DEF At, c
    <3>. QED BY <1>1, <1>2, <3>1
  <2>. QED BY <2>1, <2>2 DEF At
<1>. QED BY <1>3, <1>4 DEF c

(* A part of a part. *)
LEMMA AtPart ==
  ASSUME NEW s \in Bytes, NEW t \in Bytes, NEW piece \in Bytes,
         NEW pos \in Nat, NEW from \in Nat, At(s, from, t), At(t, pos, piece)
  PROVE  At(s, from + pos, piece)
<1>1. Len(s) \in Nat /\ Len(t) \in Nat /\ Len(piece) \in Nat
  BY DEF Bytes
<1>2. (from + pos) + Len(piece) <= Len(s)
  BY <1>1 DEF At
<1>3. ASSUME NEW i \in 1 .. Len(piece) PROVE s[(from + pos) + i] = piece[i]
  <2>1. pos + i \in 1 .. Len(t) /\ from + (pos + i) = (from + pos) + i
    BY <1>1 DEF At
  <2>. QED BY <2>1 DEF At
<1>. QED BY <1>2, <1>3 DEF At

LEMMA SliceSeq ==
  ASSUME NEW S, NEW s \in Seq(S), NEW from \in Nat, NEW to \in Nat, from <= to, to <= Len(s)
  PROVE  /\ Slice(s, from, to) \in Seq(S)
         /\ Len(Slice(s, from, to)) = to - from
         /\ \A i \in 1 .. to - from : Slice(s, from, to)[i] = s[from + i]
<1>. DEFINE m == from + 1
            t == SubSeq(s, m, to)
<1>1. m \in Int /\ Len(s) \in Nat
  OBVIOUS
<1>2. \A i \in m .. to : s[i] \in S
  <2>1. ASSUME NEW i \in m .. to PROVE i \in 1 .. Len(s)
    BY <1>1
  <2>. HIDE DEF m
  <2>. QED BY <2>1, ElementOfSeq
<1>3. /\ t \in Seq(S)
      /\ Len(t) = IF m <= to THEN to - m + 1 ELSE 0
      /\ \A i \in 1 .. to - m + 1 : t[i] = s[m + i - 1]
  <2>. HIDE DEF m
  <2>. QED BY <1>1, <1>2, SubSeqProperties
<1>. HIDE DEF t
<1>4. Len(t) = to - from
  <2>1. m <= to => Len(t) = to - m + 1
    BY <1>3, Zenon
  <2>2. ~ m <= to => Len(t) = 0
    BY <1>3, Zenon
  <2>. QED BY <2>1, <2>2
<1>5. ASSUME NEW i \in 1 .. to - from PROVE t[i] = s[from + i]
  <2>1. i \in 1 .. to - m + 1 /\ m + i - 1 = from + i
    OBVIOUS
  <2>. QED BY <1>3, <2>1, Zenon
<1>. QED BY <1>3, <1>4, <1>5 DEF Slice, t

-----------------------------------------------------------------------------
(* Numbers of a given number of bytes. *)

(* What is needed of quotients and remainders. *)
LEMMA Division ==
  ASSUME NEW a \in Nat, NEW b \in Nat, b > 0
  PROVE  /\ a \div b \in Nat /\ a % b \in 0 .. b - 1
         /\ a = b * (a \div b) + (a % b)
         /\ a \div b <= a
         /\ a > 0 /\ b > 1 => a \div b < a
<1>1. a \div b \in Nat /\ a % b \in 0 .. b - 1
  OBVIOUS
<1>2. a = b * (a \div b) + (a % b)
  OBVIOUS
<1>3. a \div b <= a
  OBVIOUS
<1>4. ASSUME a > 0, b > 1 PROVE a \div b < a
  <2>. DEFINE q == a \div b
              r == a % b
  <2>1. q \in Nat /\ r \in Nat /\ a = b * q + r
    BY <1>1, <1>2
  <2>. HIDE DEF q, r
  <2>2. q >= a => q = a
    BY <1>3 DEF q
  <2>3. q = a => b * q >= 2 * q
    BY <1>4, <2>1
  <2>4. b * q \in Nat
    BY <2>1
  <2>5. ~ (q = a)
    BY <1>4, <2>1, <2>3, <2>4
  <2>. QED BY <2>1, <2>2, <2>5 DEF q
<1>. QED BY <1>1, <1>2, <1>3, <1>4

(* The recursive function of Shifted exists: its restrictions to 0 .. k do. *)
LEMMA ShiftedStep ==
  ASSUME NEW n
  PROVE  /\ Shifted(n)[0] = n
         /\ \A k \in Nat : Shifted(n)[k + 1] = Shifted(n)[k] \div Base
<1>. DEFINE Step(f, k) == IF k = 0 THEN n ELSE f[k - 1] \div Base
            T == {k \in Nat : \E f : f = [j \in 0 .. k |-> Step(f, j)]}
            Up(k) == CHOOSE f : f = [j \in 0 .. k |-> Step(f, j)]
<1>1. 0 \in T
  <2>. DEFINE f == [j \in 0 .. 0 |-> n]
  <2>1. f = [j \in 0 .. 0 |-> Step(f, j)]
    OBVIOUS
  <2>. HIDE DEF f
  <2>. QED BY <2>1
<1>2. ASSUME NEW k \in Nat, k \in T PROVE k + 1 \in T
  <2>1. PICK f : f = [j \in 0 .. k |-> Step(f, j)]
    BY <1>2
  <2>. DEFINE g == [j \in 0 .. k + 1 |-> IF j <= k THEN f[j] ELSE Step(f, k + 1)]
  <2>2. g = [j \in 0 .. k + 1 |-> Step(g, j)]
    BY <2>1
  <2>3. \E f1 : f1 = [j \in 0 .. k + 1 |-> Step(f1, j)]
    <3>. HIDE DEF g, Step
    <3>. QED BY <2>2
  <2>4. k + 1 \in Nat
    OBVIOUS
  <2>. QED BY <2>3, <2>4, Zenon
<1>3. Nat \subseteq T
  <2>. HIDE DEF T
  <2>. QED BY <1>1, <1>2, SetInduction
<1>4. ASSUME NEW k \in Nat PROVE Up(k) = [j \in 0 .. k |-> Step(Up(k), j)]
  <2>1. \E f : f = [j \in 0 .. k |-> Step(f, j)]
    BY <1>3
  <2>. HIDE DEF Step
  <2>. QED BY <2>1
<1>5. ASSUME NEW k \in Nat, NEW m \in Nat PROVE \A j \in 0 .. k : j <= m => Up(k)[j] = Up(m)[j]
  <2>. DEFINE U == {j \in Nat : j <= k /\ j <= m => Up(k)[j] = Up(m)[j]}
  <2>1. \A j \in 0 .. k : Up(k)[j] = Step(Up(k), j)
    <3>. HIDE DEF Up, Step
    <3>. QED BY <1>4
  <2>2. \A j \in 0 .. m : Up(m)[j] = Step(Up(m), j)
    <3>. HIDE DEF Up, Step
    <3>. QED BY <1>4
  <2>. HIDE DEF Up
  <2>3. 0 \in U
    BY <2>1, <2>2
  <2>4. ASSUME NEW j \in Nat, j \in U PROVE j + 1 \in U
    BY <2>1, <2>2, <2>4
  <2>5. Nat \subseteq U
    <3>. HIDE DEF U
    <3>. QED BY <2>3, <2>4, SetInduction
  <2>. QED BY <2>5
<1>6. \E f : f = [k \in Nat |-> Step(f, k)]
  <2>. DEFINE f == [k \in Nat |-> Up(k)[k]]
  <2>1. ASSUME NEW k \in Nat PROVE f[k] = Step(f, k)
    <3>1. Up(k)[k] = Step(Up(k), k)
      <4>. HIDE DEF Up, Step
      <4>. QED BY <1>4
    <3>2. k # 0 => k - 1 \in Nat /\ Up(k)[k - 1] = Up(k - 1)[k - 1]
      <4>. HIDE DEF Up
      <4>. QED BY <1>5
    <3>. HIDE DEF Up
    <3>. QED BY <3>1, <3>2
  <2>2. f = [k \in Nat |-> Step(f, k)]
    <3>. HIDE DEF Up, Step
    <3>. QED BY <2>1
  <2>. HIDE DEF f, Step
  <2>. QED BY <2>2
<1>7. Shifted(n) = [k \in Nat |-> Step(Shifted(n), k)]
  BY <1>6 DEF Shifted
<1>8. \A k \in Nat : Shifted(n)[k] = Step(Shifted(n), k)
  <2>. HIDE DEF Step
  <2>. QED BY <1>7, Zenon
<1>9. \A k \in Nat : k + 1 \in Nat /\ k + 1 # 0 /\ (k + 1) - 1 = k
  OBVIOUS
<1>. QED BY <1>8, <1>9, Zenon

(* Numbers in big-endian form. *)
LEMMA ShiftedNat ==
  ASSUME NEW n \in Nat
  PROVE  \A k \in Nat : Shifted(n)[k] \in Nat
<1>. DEFINE T == {k \in Nat : Shifted(n)[k] \in Nat}
<1>1. 0 \in T
  BY ShiftedStep
<1>2. ASSUME NEW k \in Nat, k \in T PROVE k + 1 \in T
  <2>1. Shifted(n)[k + 1] = Shifted(n)[k] \div Base /\ Base \in Nat /\ Base > 0
    BY ShiftedStep, CodecAssumption DEF ether155V
  <2>. QED BY <1>2, <2>1, Division
<1>3. Nat \subseteq T
  <2>. HIDE DEF T
  <2>. QED BY <1>1, <1>2, SetInduction
<1>. QED BY <1>3

(* The recursive function of Number. *)
Values(bytes) ==
  LET value[k \in 0 .. Len(bytes)] ==
        IF k = 0 THEN 0 ELSE value[k - 1] * Base + bytes[k]
  IN value

LEMMA ValuesStep ==
  ASSUME NEW bytes, Len(bytes) \in Nat
  PROVE  /\ Values(bytes)[0] = 0
         /\ \A k \in 0 .. Len(bytes) - 1 :
              Values(bytes)[k + 1] = Values(bytes)[k] * Base + bytes[k + 1]
<1>. DEFINE Step(f, k) == IF k = 0 THEN 0 ELSE f[k - 1] * Base + bytes[k]
            T == {n \in Nat : \E f : f = [k \in 0 .. n |-> Step(f, k)]}
<1>1. 0 \in T
  <2>. DEFINE f == [k \in 0 .. 0 |-> 0]
  <2>1. f = [k \in 0 .. 0 |-> Step(f, k)]
    OBVIOUS
  <2>. HIDE DEF f
  <2>. QED BY <2>1
<1>2. ASSUME NEW n \in Nat, n \in T PROVE n + 1 \in T
  <2>1. PICK f : f = [k \in 0 .. n |-> Step(f, k)]
    BY <1>2
  <2>. DEFINE g == [k \in 0 .. n + 1 |-> IF k <= n THEN f[k] ELSE Step(f, n + 1)]
  <2>2. g = [k \in 0 .. n + 1 |-> Step(g, k)]
    BY <2>1
  <2>3. \E f1 : f1 = [k \in 0 .. n + 1 |-> Step(f1, k)]
    <3>. HIDE DEF g, Step
    <3>. QED BY <2>2
  <2>4. n + 1 \in Nat
    OBVIOUS
  <2>. QED BY <2>3, <2>4, Zenon
<1>3. Nat \subseteq T
  <2>. HIDE DEF T
  <2>. QED BY <1>1, <1>2, SetInduction
<1>4. \E f : f = [k \in 0 .. Len(bytes) |-> Step(f, k)]
  BY <1>3
<1>5. Values(bytes) = [k \in 0 .. Len(bytes) |-> Step(Values(bytes), k)]
  BY <1>4 DEF Values
<1>6. \A k \in 0 .. Len(bytes) : Values(bytes)[k] = Step(Values(bytes), k)
  <2>. HIDE DEF Step
  <2>. QED BY <1>5, Zenon
<1>7. /\ 0 \in 0 .. Len(bytes)
      /\ \A k \in 0 .. Len(bytes) - 1 : k + 1 \in 0 .. Len(bytes) /\ k + 1 # 0 /\ (k + 1) - 1 = k
  OBVIOUS
<1>. QED BY <1>6, <1>7, Zenon

LEMMA NumberIsValue == \A bytes : Number(bytes) = Values(bytes)[Len(bytes)]
BY DEF Number, Values

LEMMA NumberNat ==
  ASSUME NEW bytes \in Bytes
  PROVE  Number(bytes) \in Nat
<1>. DEFINE T == {k \in Nat : k <= Len(bytes) => Values(bytes)[k] \in Nat}
<1>1. Len(bytes) \in Nat /\ Base \in Nat
  BY CodecAssumption DEF Bytes
<1>2. 0 \in T
  BY <1>1, ValuesStep
<1>3. ASSUME NEW k \in Nat, k \in T PROVE k + 1 \in T
  <2>. SUFFICES ASSUME k + 1 <= Len(bytes) PROVE Values(bytes)[k + 1] \in Nat
    OBVIOUS
  <2>1. k \in 0 .. Len(bytes) - 1 /\ k + 1 \in 1 .. Len(bytes)
    BY <1>1
  <2>2. Values(bytes)[k] \in Nat /\ bytes[k + 1] \in Nat
    BY <1>3, <2>1 DEF Bytes
  <2>3. Values(bytes)[k + 1] = Values(bytes)[k] * Base + bytes[k + 1]
    BY <1>1, <2>1, ValuesStep
  <2>. QED BY <1>1, <2>2, <2>3
<1>4. Nat \subseteq T
  <2>. HIDE DEF T
  <2>. QED BY <1>2, <1>3, SetInduction
<1>. QED BY <1>1, <1>4, NumberIsValue

(* A number takes as many bytes as it is given, and they are its digits. *)
LEMMA BigEndianBytes ==
  ASSUME NEW n \in Nat, NEW size \in Nat
  PROVE  /\ BigEndian(n, size) \in Seq(Byte) /\ BigEndian(n, size) \in Bytes
         /\ Len(BigEndian(n, size)) = size
         /\ \A i \in 1 .. size : BigEndian(n, size)[i] = Shifted(n)[size - i] % Base
<1>. DEFINE b == [i \in 1 .. size |-> Shifted(n)[size - i] % Base]
<1>1. ASSUME NEW i \in 1 .. size PROVE Shifted(n)[size - i] % Base \in Byte
  <2>1. size - i \in Nat /\ Base \in Nat /\ Base > 0
    BY CodecAssumption DEF ether155V
  <2>. QED BY <2>1, ShiftedNat, Division DEF Byte
<1>2. Byte \subseteq Nat
  BY DEF Byte
<1>3. b \in [1 .. size -> Byte]
  BY <1>1
<1>4. b \in Seq(Byte)
  <2>. HIDE DEF b
  <2>. QED BY <1>3
<1>5. b \in Seq(Nat)
  <2>. HIDE DEF b
  <2>. QED BY <1>2, <1>4, SeqMonotonic
<1>6. Len(b) = size
  <2>1. DOMAIN b = 1 .. Len(b) /\ Len(b) \in Nat
    <3>. HIDE DEF b
    <3>. QED BY <1>5, LenProperties
  <2>2. DOMAIN b = 1 .. size
    OBVIOUS
  <2>. QED BY <2>1, <2>2
<1>. QED BY <1>4, <1>5, <1>6 DEF BigEndian, Bytes

(* A number that fits into size bytes is read as it was written. *)
LEMMA NumberOfBigEndian ==
  ASSUME NEW size \in Nat, NEW n, Fits(n, size)
  PROVE  Number(BigEndian(n, size)) = n
<1>. DEFINE b == BigEndian(n, size)
            T == {k \in Nat : k <= size => Values(b)[k] = Shifted(n)[size - k]}
<1>1. n \in Nat /\ Shifted(n)[size] = 0 /\ Base \in Nat /\ Base > 0
  BY CodecAssumption DEF Fits, ether155V
<1>2. Len(b) = size /\ \A i \in 1 .. size : b[i] = Shifted(n)[size - i] % Base
  BY <1>1, BigEndianBytes
<1>. HIDE DEF b
<1>3. 0 \in T
  BY <1>1, <1>2, ValuesStep
<1>4. ASSUME NEW k \in Nat, k \in T PROVE k + 1 \in T
  <2>. SUFFICES ASSUME k + 1 <= size PROVE Values(b)[k + 1] = Shifted(n)[size - (k + 1)]
    OBVIOUS
  <2>. DEFINE m == size - (k + 1)
              rest == Shifted(n)[m]
  <2>1. m \in Nat /\ m + 1 = size - k /\ k + 1 \in 1 .. size /\ k \in 0 .. Len(b) - 1
    BY <1>2
  <2>2. rest \in Nat
    BY <1>1, <2>1, ShiftedNat
  <2>3. Shifted(n)[size - k] = rest \div Base
    BY <2>1, ShiftedStep
  <2>4. b[k + 1] = rest % Base
    BY <1>2, <2>1
  <2>5. Values(b)[k + 1] = Values(b)[k] * Base + b[k + 1]
    BY <1>2, <2>1, ValuesStep
  <2>6. Values(b)[k] = rest \div Base
    BY <1>4, <2>1, <2>3
  <2>. HIDE DEF rest, m
  <2>7. rest = Base * (rest \div Base) + (rest % Base)
    BY <1>1, <2>2, Division
  <2>8. rest \div Base \in Nat /\ rest % Base \in Nat
    BY <1>1, <2>2, Division
  <2>9. Values(b)[k + 1] = rest
    BY <1>1, <2>2, <2>4, <2>5, <2>6, <2>7, <2>8
  <2>. QED BY <2>9 DEF rest, m
<1>5. Nat \subseteq T
  <2>. HIDE DEF T
  <2>. QED BY <1>3, <1>4, SetInduction
<1>6. Values(b)[size] = Shifted(n)[size - size] /\ size - size = 0
  BY <1>5
<1>. QED BY <1>2, <1>6, NumberIsValue, ShiftedStep DEF b

-----------------------------------------------------------------------------
(* RLP lists. *)

(* What the encoder needs of the bounds of the program's bytes. *)
LEMMA Bounds ==
  /\ Base \in Nat /\ c0 \in Nat /\ shortRlp \in Nat /\ changeL2Block \in Nat
  /\ sizeUInt32 \in Nat /\ sizeUInt32 > 0 /\ changeL2Block > 0
  /\ changeL2Block < c0 /\ shortRlp > 0 /\ f7 = c0 + shortRlp /\ f7 + 2 < Base
  /\ Base > 28
BY CodecAssumption DEF f7, ether155V

Fields == {f \in [data : Seq(Byte), optional : Seq(Byte)] :
             Len(f.data) < Base /\ 1 + Len(f.data) + Len(f.optional) < 2 * Base}

Content(f) == <<Len(f.data)>> \o f.data \o f.optional

(* The length of the header of the list that starts with the given byte. *)
HeadLength(num) == IF num <= f7 THEN 1 ELSE 1 + (num - f7)

(* Sequences of bytes. *)
LEMMA ByteSeq ==
  ASSUME NEW s \in Seq(Byte)
  PROVE  s \in Bytes
<1>1. Byte \subseteq Nat
  BY DEF Byte
<1>. QED BY <1>1, SeqMonotonic DEF Bytes

LEMMA OneByte ==
  ASSUME NEW n \in Byte
  PROVE  <<n>> \in Seq(Byte) /\ <<n>> \in Bytes /\ Len(<<n>>) = 1 /\ <<n>>[1] = n
<1>1. <<n>> \in Seq(Byte) /\ Len(<<n>>) = 1 /\ <<n>>[1] = n
  OBVIOUS
<1>. QED BY <1>1, ByteSeq

LEMMA ByteConcat ==
  ASSUME NEW s \in Seq(Byte), NEW t \in Seq(Byte)
  PROVE  s \o t \in Seq(Byte) /\ Len(s \o t) = Len(s) + Len(t)
BY ConcatProperties

(* One digit or two are enough for the length of a content. *)
LEMMA DigitsOfLength ==
  ASSUME NEW n \in Nat, n > 0, n < 2 * Base
  PROVE  Digits(n) \in {1, 2} /\ Fits(n, Digits(n))
<1>1. Base \in Nat /\ Base > 28
  BY Bounds
<1>2. /\ Shifted(n)[1] = n \div Base
      /\ Shifted(n)[2] = (n \div Base) \div Base
  <2>1. 1 = 0 + 1 /\ 2 = 1 + 1 /\ 0 \in Nat /\ 1 \in Nat
    OBVIOUS
  <2>. QED BY <2>1, ShiftedStep
<1>3. n \div Base \in Nat /\ n \div Base < 2
  BY <1>1
<1>4. (n \div Base) \div Base = 0
  BY <1>1, <1>3
<1>5. Fits(n, 2)
  BY <1>2, <1>4 DEF Fits
<1>. DEFINE Least(k) == Fits(n, k) /\ \A j \in 1 .. k - 1 : ~ Fits(n, j)
<1>6. \E k \in 1 .. n + 1 : Least(k) /\ k \in {1, 2}
  <2>1. CASE Fits(n, 1)
    <3>1. Least(1) /\ 1 \in 1 .. n + 1
      BY <2>1
    <3>. QED BY <3>1
  <2>2. CASE ~ Fits(n, 1)
    <3>1. Least(2) /\ 2 \in 1 .. n + 1
      BY <1>5, <2>2
    <3>. QED BY <3>1
  <2>. QED BY <2>1, <2>2
<1>7. \A j, k \in 1 .. n + 1 : Least(j) /\ Least(k) => j = k
  <2>. SUFFICES ASSUME NEW j \in 1 .. n + 1, NEW k \in 1 .. n + 1, Least(j), Least(k), j # k
                PROVE FALSE
    OBVIOUS
  <2>1. j < k => j \in 1 .. k - 1
    OBVIOUS
  <2>2. k < j => k \in 1 .. j - 1
    OBVIOUS
  <2>. QED BY <2>1, <2>2
<1>8. Digits(n) = CHOOSE k \in 1 .. n + 1 : Least(k)
  BY DEF Digits
<1>. HIDE DEF Least
<1>9. Digits(n) \in {1, 2} /\ Least(Digits(n))
  BY <1>6, <1>7, <1>8
<1>. QED BY <1>9 DEF Least

(* What an RLP list has between its header and its end: a length, the data, and the
   optional fields. *)
LEMMA ContentBytes ==
  ASSUME NEW f \in Fields
  PROVE  /\ Content(f) \in Seq(Byte) /\ Content(f) \in Bytes
         /\ Len(Content(f)) = 1 + Len(f.data) + Len(f.optional)
         /\ Len(Content(f)) > 0 /\ Len(Content(f)) < 2 * Base
         /\ At(Content(f), 0, <<Len(f.data)>>)
         /\ At(Content(f), 1, f.data)
         /\ At(Content(f), 1 + Len(f.data), f.optional)
<1>1. f.data \in Seq(Byte) /\ f.optional \in Seq(Byte) /\ Len(f.data) \in Byte
      /\ Len(f.data) \in Nat /\ Len(f.optional) \in Nat
      /\ 1 + Len(f.data) + Len(f.optional) < 2 * Base
  <2>1. f.data \in Seq(Byte) /\ f.optional \in Seq(Byte)
        /\ Len(f.data) < Base /\ 1 + Len(f.data) + Len(f.optional) < 2 * Base
    BY DEF Fields
  <2>2. Len(f.data) \in Nat /\ Len(f.optional) \in Nat
    BY <2>1, LenProperties
  <2>3. \A n \in Nat : n < Base => n \in Byte
    BY Bounds DEF Byte
  <2>. QED BY <2>1, <2>2, <2>3, Zenon
<1>. DEFINE one == <<Len(f.data)>>
            front == one \o f.data
<1>2. one \in Seq(Byte) /\ Len(one) = 1
  BY <1>1, OneByte
<1>. HIDE DEF one
<1>3. front \in Seq(Byte) /\ Len(front) = 1 + Len(f.data)
  BY <1>1, <1>2, ByteConcat
<1>4. Content(f) \in Seq(Byte) /\ Content(f) = front \o f.optional
  BY <1>1, <1>3, ByteConcat DEF Content, one
<1>5. At(front, 0, one) /\ At(front, 1, f.data)
  BY <1>1, <1>2, ConcatAt, ByteSeq
<1>6. At(Content(f), 0, front) /\ At(Content(f), 1 + Len(f.data), f.optional)
      /\ Len(Content(f)) = Len(front) + Len(f.optional)
  <2>. HIDE DEF front
  <2>. QED BY <1>1, <1>3, <1>4, ConcatAt, ByteSeq
<1>7. At(Content(f), 0, one) /\ At(Content(f), 1, f.data)
  <2>1. 0 + 0 = 0 /\ 0 + 1 = 1 /\ 0 \in Nat /\ 1 \in Nat
    OBVIOUS
  <2>2. front \in Bytes /\ Content(f) \in Bytes /\ one \in Bytes /\ f.data \in Bytes
    BY <1>1, <1>2, <1>3, <1>4, ByteSeq
  <2>. HIDE DEF front
  <2>. QED BY <1>5, <1>6, <2>1, <2>2, AtPart
<1>8. Len(Content(f)) = 1 + Len(f.data) + Len(f.optional)
      /\ Len(Content(f)) > 0 /\ Len(Content(f)) < 2 * Base
  <2>1. Len(Content(f)) = 1 + Len(f.data) + Len(f.optional)
    BY <1>3, <1>6, Zenon
  <2>2. \A m, n \in Nat : 1 + m + n > 0
    OBVIOUS
  <2>. QED BY <1>1, <2>1, <2>2, Zenon
<1>. QED BY <1>4, <1>6, <1>7, <1>8, ByteSeq DEF one

(* The first byte of a list tells how long its header is, and the header how long the
   content is. *)
LEMMA EncodedShape ==
  ASSUME NEW f \in Fields
  PROVE  LET code == EncodeToBytes(f)
             num == code[1]
             size == Len(Content(f)) IN
         /\ code \in Seq(Byte) /\ code \in Bytes
         /\ num \in c0 .. f7 + 2
         /\ Len(code) = HeadLength(num) + size
         /\ At(code, HeadLength(num), Content(f))
         /\ num <= f7 => num = c0 + size
         /\ num > f7 => Number(Slice(code, 1, HeadLength(num))) = size
<1>. DEFINE code == EncodeToBytes(f)
            num == code[1]
            size == Len(Content(f))
            k == Digits(size)
<1>1. /\ Content(f) \in Seq(Byte) /\ Content(f) \in Bytes /\ size \in Nat /\ size > 0
      /\ size < 2 * Base
  <2>1. Content(f) \in Seq(Byte) /\ Content(f) \in Bytes /\ Len(Content(f)) > 0
        /\ Len(Content(f)) < 2 * Base
    BY ContentBytes
  <2>2. Len(Content(f)) \in Nat
    BY <2>1 DEF Bytes
  <2>. QED BY <2>1, <2>2
<1>2. code = IF size <= shortRlp THEN <<c0 + size>> \o Content(f)
             ELSE <<f7 + k>> \o BigEndian(size, k) \o Content(f)
  BY DEF EncodeToBytes, Content
<1>. HIDE DEF code, size
<1>3. CASE size <= shortRlp
  <2>. DEFINE one == <<c0 + size>>
  <2>1. c0 + size \in Byte /\ c0 + size \in c0 .. f7
    BY <1>1, <1>3, Bounds DEF Byte
  <2>2. one \in Seq(Byte) /\ one \in Bytes /\ Len(one) = 1 /\ one[1] = c0 + size
    BY <2>1, OneByte
  <2>. HIDE DEF one
  <2>3. code = one \o Content(f)
    BY <1>2, <1>3 DEF one
  <2>4. code \in Seq(Byte) /\ Len(code) = 1 + size
    BY <1>1, <2>2, <2>3, ByteConcat DEF size
  <2>5. At(code, 0, one) /\ At(code, 1, Content(f))
    BY <1>1, <2>2, <2>3, ConcatAt
  <2>6. num = c0 + size
    <3>1. code[0 + 1] = one[1]
      BY <2>2, <2>5 DEF At
    <3>. QED BY <2>2, <3>1
  <2>7. HeadLength(num) = 1 /\ num <= f7 /\ ~ num > f7 /\ num \in c0 .. f7 + 2
    BY <2>1, <2>6, Bounds DEF HeadLength
  <2>. QED BY <2>4, <2>5, <2>6, <2>7, ByteSeq DEF code, size
<1>4. CASE ~ size <= shortRlp
  <2>. DEFINE one == <<f7 + k>>
              be == BigEndian(size, k)
              head == one \o be
  <2>1. k \in {1, 2} /\ Fits(size, k)
    BY <1>1, DigitsOfLength
  <2>. HIDE DEF k
  <2>2. f7 + k \in Byte /\ f7 + k \in c0 .. f7 + 2 /\ f7 + k > f7 /\ k \in Nat
        /\ f7 \in Nat /\ c0 \in Nat
    BY <2>1, Bounds DEF Byte
  <2>3. one \in Seq(Byte) /\ one \in Bytes /\ Len(one) = 1 /\ one[1] = f7 + k
    BY <2>2, OneByte
  <2>4. be \in Seq(Byte) /\ be \in Bytes /\ Len(be) = k
    BY <1>1, <2>2, BigEndianBytes
  <2>5. Number(be) = size
    BY <2>1, <2>2, NumberOfBigEndian
  <2>. HIDE DEF one, be
  <2>6. head \in Seq(Byte) /\ head \in Bytes /\ Len(head) = 1 + k
    BY <2>3, <2>4, ByteConcat, ByteSeq
  <2>7. At(head, 0, one) /\ At(head, 1, be)
    BY <2>3, <2>4, ConcatAt
  <2>8. code = head \o Content(f)
    BY <1>2, <1>4 DEF one, be
  <2>. HIDE DEF head
  <2>9. code \in Seq(Byte) /\ code \in Bytes /\ Len(code) = 1 + k + size
    BY <1>1, <2>6, <2>8, ByteConcat, ByteSeq DEF size
  <2>10. At(code, 0, head) /\ At(code, 1 + k, Content(f))
    BY <1>1, <2>6, <2>8, ConcatAt
  <2>11. At(code, 0, one) /\ At(code, 1, be)
    <3>1. 0 + 0 = 0 /\ 0 + 1 = 1 /\ 0 \in Nat /\ 1 \in Nat
      OBVIOUS
    <3>. QED BY <2>3, <2>4, <2>6, <2>7, <2>9, <2>10, <3>1, AtPart
  <2>12. num = f7 + k
    <3>1. code[0 + 1] = one[1]
      BY <2>3, <2>11 DEF At
    <3>. QED BY <2>3, <3>1
  <2>13. HeadLength(num) = 1 + k /\ ~ num <= f7 /\ num > f7
    BY <2>2, <2>12 DEF HeadLength
  <2>14. Slice(code, 1, 1 + Len(be)) = be
    BY <2>4, <2>9, <2>11, SliceAt
  <2>15. Number(Slice(code, 1, HeadLength(num))) = size
    BY <2>4, <2>5, <2>13, <2>14
  <2>. QED BY <2>2, <2>9, <2>10, <2>12, <2>13, <2>15 DEF code, size
<1>. QED BY <1>3, <1>4 DEF code, size

(* A list decodes to what was encoded, only. *)
LEMMA CodeInjective ==
  ASSUME NEW f \in Fields, NEW g \in Fields, EncodeToBytes(f) = EncodeToBytes(g)
  PROVE  f = g
<1>. DEFINE code == EncodeToBytes(f)
            num == code[1]
<1>1. code \in Bytes /\ num \in c0 .. f7 + 2 /\ c0 \in Nat /\ f7 \in Nat
  BY EncodedShape, Bounds
<1>2. /\ At(code, HeadLength(num), Content(f))
      /\ num <= f7 => num = c0 + Len(Content(f))
      /\ num > f7 => Number(Slice(code, 1, HeadLength(num))) = Len(Content(f))
  BY EncodedShape
<1>3. /\ At(code, HeadLength(num), Content(g))
      /\ num <= f7 => num = c0 + Len(Content(g))
      /\ num > f7 => Number(Slice(code, 1, HeadLength(num))) = Len(Content(g))
  BY EncodedShape
<1>. HIDE DEF code
<1>4. /\ Content(f) \in Bytes /\ Content(g) \in Bytes
      /\ Len(Content(f)) \in Nat /\ Len(Content(g)) \in Nat /\ HeadLength(num) \in Nat
  <2>1. HeadLength(num) \in Nat
    BY <1>1 DEF HeadLength
  <2>2. Content(f) \in Bytes /\ Content(g) \in Bytes
    BY ContentBytes
  <2>. QED BY <2>1, <2>2, LenProperties DEF Bytes
<1>5. Len(Content(f)) = Len(Content(g))
  <2>1. num <= f7 \/ num > f7
    BY <1>1
  <2>2. \A m, n \in Nat : c0 + m = c0 + n => m = n
    BY <1>1
  <2>. QED BY <1>2, <1>3, <1>4, <2>1, <2>2, Zenon
<1>6. Content(f) = Content(g)
  <2>1. /\ Slice(code, HeadLength(num), HeadLength(num) + Len(Content(f))) = Content(f)
        /\ Slice(code, HeadLength(num), HeadLength(num) + Len(Content(g))) = Content(g)
    BY <1>1, <1>2, <1>3, <1>4, SliceAt
  <2>. QED BY <1>5, <2>1, Zenon
<1>7. /\ At(Content(f), 0, <<Len(f.data)>>) /\ At(Content(f), 1, f.data)
      /\ At(Content(f), 1 + Len(f.data), f.optional)
      /\ Len(Content(f)) = 1 + Len(f.data) + Len(f.optional)
  BY ContentBytes
<1>8. /\ At(Content(f), 0, <<Len(g.data)>>) /\ At(Content(f), 1, g.data)
      /\ At(Content(f), 1 + Len(g.data), g.optional)
      /\ Len(Content(f)) = 1 + Len(g.data) + Len(g.optional)
  BY <1>6, ContentBytes
<1>9. /\ f.data \in Bytes /\ g.data \in Bytes /\ f.optional \in Bytes /\ g.optional \in Bytes
      /\ Len(f.data) \in Nat /\ Len(g.data) \in Nat
      /\ Len(f.optional) \in Nat /\ Len(g.optional) \in Nat
  <2>1. f.data \in Seq(Byte) /\ g.data \in Seq(Byte) /\ f.optional \in Seq(Byte)
        /\ g.optional \in Seq(Byte)
    BY DEF Fields
  <2>. QED BY <2>1, ByteSeq, LenProperties
<1>10. Len(f.data) = Len(g.data)
  <2>1. \A n \in Nat : At(Content(f), 0, <<n>>) => Content(f)[0 + 1] = n
    <3>1. \A n \in Nat : Len(<<n>>) = 1 /\ <<n>>[1] = n /\ 1 \in 1 .. Len(<<n>>)
      OBVIOUS
    <3>. QED BY <3>1, Zenon DEF At
  <2>. QED BY <1>7, <1>8, <1>9, <2>1, Zenon
<1>11. f.data = g.data
  <2>1. /\ Slice(Content(f), 1, 1 + Len(f.data)) = f.data
        /\ Slice(Content(f), 1, 1 + Len(g.data)) = g.data
    BY <1>4, <1>7, <1>8, <1>9, SliceAt
  <2>. QED BY <1>10, <2>1, Zenon
<1>12. Len(f.optional) = Len(g.optional)
  <2>1. \A k, m, n \in Nat : 1 + k + m = 1 + k + n => m = n
    OBVIOUS
  <2>. QED BY <1>7, <1>8, <1>9, <1>10, <2>1, Zenon
<1>13. f.optional = g.optional
  <2>1. 1 + Len(f.data) \in Nat
    BY <1>9
  <2>2. /\ Slice(Content(f), 1 + Len(f.data), 1 + Len(f.data) + Len(f.optional)) = f.optional
        /\ Slice(Content(f), 1 + Len(f.data), 1 + Len(f.data) + Len(g.optional)) = g.optional
    BY <1>4, <1>7, <1>8, <1>9, <1>10, <2>1, SliceAt
  <2>. QED BY <1>12, <2>2, Zenon
<1>. QED BY <1>11, <1>13 DEF Fields

(* An RLP list decodes to its fields, and to nothing else. *)
LEMMA ListDecodes ==
  ASSUME NEW f \in Fields, Len(f.optional) <= 3
  PROVE  DecodeBytes(EncodeToBytes(f)) = {f}
<1>. DEFINE code == EncodeToBytes(f)
            num == code[1]
            h0 == HeadLength(num)
            size == Len(Content(f))
            starts == {h \in 1 .. Base - f7 :
                         h < Len(code) /\ h + 1 + code[h + 1] <= Len(code)}
            fields(h) == [data |-> Slice(code, h + 1, h + 1 + code[h + 1]),
                          optional |-> Slice(code, h + 1 + code[h + 1], Len(code))]
<1>1. /\ Base \in Nat /\ Base > 28 /\ f7 \in Nat /\ c0 \in Nat /\ f7 + 2 < Base
  BY Bounds
<1>2. /\ code \in Seq(Byte) /\ code \in Bytes /\ num \in c0 .. f7 + 2
      /\ Len(code) = h0 + size /\ At(code, h0, Content(f))
  BY EncodedShape
<1>3. /\ Content(f) \in Bytes /\ At(Content(f), 0, <<Len(f.data)>>)
      /\ At(Content(f), 1, f.data) /\ At(Content(f), 1 + Len(f.data), f.optional)
      /\ size = 1 + Len(f.data) + Len(f.optional)
  BY ContentBytes
<1>4. /\ f.data \in Seq(Byte) /\ f.optional \in Seq(Byte)
      /\ f.data \in Bytes /\ f.optional \in Bytes
      /\ Len(f.data) \in Nat /\ Len(f.optional) \in Nat /\ Len(f.data) < Base
      /\ f = [data |-> f.data, optional |-> f.optional]
  <2>1. f.data \in Seq(Byte) /\ f.optional \in Seq(Byte) /\ Len(f.data) < Base
        /\ f = [data |-> f.data, optional |-> f.optional]
    BY DEF Fields
  <2>. QED BY <2>1, ByteSeq, LenProperties
<1>. HIDE DEF code
<1>5. h0 \in {1, 2, 3} /\ h0 \in 1 .. Base - f7 /\ h0 \in Nat /\ h0 + 1 \in Nat
  BY <1>1, <1>2 DEF HeadLength
<1>6. code[h0 + 1] = Len(f.data)
  <2>1. At(code, h0 + 0, <<Len(f.data)>>)
    <3>1. <<Len(f.data)>> \in Bytes /\ 0 \in Nat
      BY <1>4 DEF Bytes
    <3>. QED BY <1>2, <1>3, <1>5, <3>1, AtPart
  <2>2. 1 \in 1 .. Len(<<Len(f.data)>>) /\ <<Len(f.data)>>[1] = Len(f.data) /\ h0 + 0 = h0
    BY <1>5
  <2>. QED BY <2>1, <2>2, Zenon DEF At
<1>7. At(code, h0 + 1, f.data) /\ At(code, h0 + (1 + Len(f.data)), f.optional)
  <2>1. 1 \in Nat /\ 1 + Len(f.data) \in Nat
    BY <1>4
  <2>. QED BY <1>2, <1>3, <1>4, <1>5, <2>1, AtPart
<1>. HIDE DEF h0, size
<1>8. /\ h0 < Len(code) /\ h0 + 1 + Len(f.data) <= Len(code)
      /\ h0 + (1 + Len(f.data)) = h0 + 1 + Len(f.data)
      /\ h0 + 1 + Len(f.data) \in Nat
      /\ Len(code) = h0 + 1 + Len(f.data) + Len(f.optional)
      /\ Len(code) < Base + 7 /\ Len(code) \in Nat
  <2>. DEFINE d == Len(f.data)
              o == Len(f.optional)
              c == Len(code)
  <2>1. d \in Nat /\ o \in 0 .. 3 /\ d < Base /\ c = h0 + (1 + d + o)
    <3>1. \A n \in Nat : n <= 3 => n \in 0 .. 3
      OBVIOUS
    <3>. QED BY <1>2, <1>3, <1>4, <3>1, Zenon DEF size
  <2>. HIDE DEF d, o, c
  <2>2. /\ h0 < c /\ h0 + 1 + d <= c /\ h0 + (1 + d) = h0 + 1 + d /\ h0 + 1 + d \in Nat
        /\ c = h0 + 1 + d + o /\ c < Base + 7 /\ c \in Nat
    BY <1>1, <1>5, <2>1
  <2>. QED BY <2>2 DEF d, o, c
<1>9. h0 \in starts /\ fields(h0) = f
  <2>1. h0 \in starts
    BY <1>5, <1>6, <1>8
  <2>2. Slice(code, h0 + 1, h0 + 1 + Len(f.data)) = f.data
    BY <1>2, <1>4, <1>5, <1>7, SliceAt
  <2>3. Slice(code, h0 + 1 + Len(f.data), Len(code)) = f.optional
    BY <1>2, <1>4, <1>7, <1>8, SliceAt
  <2>. QED BY <1>4, <1>6, <2>1, <2>2, <2>3, Zenon
<1>10. ASSUME NEW h \in starts PROVE fields(h) \in Fields
  <2>. DEFINE n == code[h + 1]
              from == h + 1
              mid == h + 1 + n
              c == Len(code)
  <2>1. h \in Nat /\ h >= 1 /\ h + 1 \in 1 .. Len(code) /\ mid <= c
    BY <1>1, <1>8
  <2>2. n \in 0 .. Base - 1
    <3>1. code[h + 1] \in Byte
      BY <1>2, <2>1, ElementOfSeq
    <3>. QED BY <3>1 DEF Byte
  <2>. HIDE DEF n, c
  <2>3. from \in Nat /\ mid \in Nat /\ from <= mid /\ mid <= c /\ c \in Nat
        /\ mid - from = n /\ c < Base + 7
    BY <1>8, <2>1, <2>2 DEF c
  <2>4. /\ Slice(code, from, mid) \in Seq(Byte) /\ Len(Slice(code, from, mid)) = n
        /\ Slice(code, mid, c) \in Seq(Byte) /\ Len(Slice(code, mid, c)) = c - mid
    <3>. HIDE DEF from, mid
    <3>1. /\ Slice(code, from, mid) \in Seq(Byte)
          /\ Len(Slice(code, from, mid)) = mid - from
      BY <1>2, <2>3, SliceSeq DEF c
    <3>2. c <= c /\ c = Len(code)
      BY <2>3 DEF c
    <3>3. Slice(code, mid, c) \in Seq(Byte) /\ Len(Slice(code, mid, c)) = c - mid
      BY <1>2, <2>3, <3>2, SliceSeq
    <3>. QED BY <2>3, <3>1, <3>3
  <2>5. n < Base /\ 1 + n + (c - mid) < 2 * Base
    BY <1>1, <2>1, <2>2, <2>3
  <2>. DEFINE g == [data |-> Slice(code, from, mid), optional |-> Slice(code, mid, c)]
  <2>6. g \in [data : Seq(Byte), optional : Seq(Byte)] /\ Len(g.data) = n
        /\ Len(g.optional) = c - mid
    <3>. HIDE DEF from, mid
    <3>. QED BY <2>4
  <2>7. g \in Fields
    <3>. HIDE DEF g, mid
    <3>. QED BY <2>5, <2>6, Zenon DEF Fields
  <2>. QED BY <2>7 DEF n, c
<1>11. DecodeBytes(code) = {g \in {fields(h) : h \in starts} : EncodeToBytes(g) = code}
  BY DEF DecodeBytes
<1>12. ASSUME NEW h \in starts, EncodeToBytes(fields(h)) = code PROVE fields(h) = f
  <2>. HIDE DEF starts, fields
  <2>. QED BY <1>10, <1>12, CodeInjective DEF code
<1>13. EncodeToBytes(f) = code
  BY DEF code
<1>. HIDE DEF starts, fields
<1>14. DecodeBytes(code) = {f}
  BY <1>9, <1>11, <1>12, <1>13, Zenon
<1>. QED BY <1>14 DEF code

-----------------------------------------------------------------------------
(* Transactions. *)

TxFields(tx) ==
  [data |-> tx.data, optional |-> IF IsPreEIP155Tx(tx) THEN <<>> ELSE <<ChainId(tx), 0, 0>>]

TxList(tx) == EncodeToBytes(TxFields(tx))

(* What the encoder writes for a transaction. *)
TxPiece(tx, percentage) == prepareRLPTxData(tx) \o <<percentage>>

(* The fields of a signed transaction. *)
LEMMA LegacyTx ==
  ASSUME NEW tx \in LegacyTxs
  PROVE  /\ tx.data \in Seq(Byte) /\ Len(tx.data) < Base
         /\ tx.v \in {27, 28} \cup 35 .. 2 * Base + 34
         /\ tx.r \in Nat /\ tx.s \in Nat
         /\ Fits(tx.r, rLength) /\ Fits(tx.s, sLength)
         /\ tx = [data |-> tx.data, v |-> tx.v, r |-> tx.r, s |-> tx.s]
BY DEF LegacyTxs

(* v tells the two forms of signatures apart, and the chain and the sign from it. *)
LEMMA ChainIdFits ==
  ASSUME NEW tx \in LegacyTxs
  PROVE  /\ IsPreEIP155Tx(tx) <=> tx.v \in {27, 28}
         /\ ChainId(tx) \in Byte
         /\ Sign(tx) \in {0, 1}
         /\ ~ IsPreEIP155Tx(tx) => tx.v = Sign(tx) + 2 * ChainId(tx) + 35
<1>1. tx.v \in {27, 28} \cup 35 .. 2 * Base + 34 /\ Base \in Nat /\ Base > 28
  BY LegacyTx, Bounds
<1>2. CASE tx.v \in {27, 28}
  <2>1. ChainId(tx) = 0
    BY <1>2 DEF ChainId
  <2>2. Sign(tx) \in {0, 1}
    BY <1>2 DEF Sign
  <2>3. 0 \in Byte
    BY <1>1 DEF Byte
  <2>. QED BY <1>2, <2>1, <2>2, <2>3 DEF IsPreEIP155Tx
<1>3. CASE tx.v \notin {27, 28}
  <2>. DEFINE w == tx.v - 35
              q == w \div 2
              b == w % 2
  <2>1. w \in 0 .. 2 * Base - 1
    BY <1>1, <1>3
  <2>2. ChainId(tx) = q
    BY <1>3 DEF ChainId
  <2>. HIDE DEF w
  <2>3. q \in 0 .. Base - 1 /\ w = 2 * q + b /\ b \in {0, 1}
    BY <1>1, <2>1
  <2>4. tx.v % 2 = 1 - b
    <3>1. tx.v = w + 35 /\ tx.v \in Nat
      BY <1>1 DEF w
    <3>. QED BY <2>1, <2>3, <3>1
  <2>5. Sign(tx) = b
    BY <2>3, <2>4 DEF Sign
  <2>6. tx.v = b + 2 * q + 35
    <3>1. tx.v = w + 35
      BY <1>1 DEF w
    <3>. QED BY <2>3, <3>1
  <2>. QED BY <1>3, <2>2, <2>3, <2>5, <2>6 DEF IsPreEIP155Tx, Byte
<1>. QED BY <1>2, <1>3

(* The fields that are encoded fit the list. *)
LEMMA TxFieldsFit ==
  ASSUME NEW tx \in LegacyTxs
  PROVE  TxFields(tx) \in Fields /\ Len(TxFields(tx).optional) <= 3
<1>. DEFINE o == IF IsPreEIP155Tx(tx) THEN <<>> ELSE <<ChainId(tx), 0, 0>>
<1>1. o \in Seq(Byte) /\ Len(o) \in 0 .. 3
  <2>1. ChainId(tx) \in Byte /\ 0 \in Byte
    BY ChainIdFits, Bounds DEF Byte
  <2>2. <<ChainId(tx), 0, 0>> \in Seq(Byte) /\ Len(<<ChainId(tx), 0, 0>>) = 3
    BY <2>1
  <2>3. <<>> \in Seq(Byte) /\ Len(<<>>) = 0
    OBVIOUS
  <2>. QED BY <2>2, <2>3
<1>2. tx.data \in Seq(Byte) /\ Len(tx.data) < Base /\ Len(tx.data) \in Nat
  BY LegacyTx, LenProperties
<1>. HIDE DEF o
<1>3. \A m \in Nat, n \in 0 .. 3 : m < Base => 1 + m + n < 2 * Base
  BY Bounds
<1>4. TxFields(tx) = [data |-> tx.data, optional |-> o]
  BY DEF TxFields, o
<1>5. TxFields(tx) \in [data : Seq(Byte), optional : Seq(Byte)]
      /\ TxFields(tx).data = tx.data /\ TxFields(tx).optional = o
  BY <1>1, <1>2, <1>4
<1>6. Len(o) <= 3
  <2>1. \A n \in 0 .. 3 : n <= 3
    OBVIOUS
  <2>. QED BY <1>1, <2>1, Zenon
<1>. DEFINE g == TxFields(tx)
<1>7. Len(g.data) < Base /\ 1 + Len(g.data) + Len(g.optional) < 2 * Base
  BY <1>1, <1>2, <1>3, <1>5, Zenon
<1>8. g \in [data : Seq(Byte), optional : Seq(Byte)] /\ g.optional = o
  BY <1>5
<1>. HIDE DEF g
<1>9. g \in Fields
  BY <1>7, <1>8 DEF Fields
<1>. QED BY <1>6, <1>8, <1>9, Zenon DEF g

(* The parts of a transaction, wherever it is. *)
LEMMA TxPieceParts ==
  ASSUME NEW tx \in LegacyTxs, NEW e \in Byte, NEW s \in Bytes, NEW pos \in Nat,
         At(s, pos, TxPiece(tx, e))
  PROVE  LET n == Len(TxList(tx)) IN
         /\ n \in Nat /\ n > 0
         /\ At(s, pos, TxList(tx))
         /\ At(s, pos + n, BigEndian(tx.r, rLength))
         /\ At(s, pos + n + rLength, BigEndian(tx.s, sLength))
         /\ At(s, pos + n + rLength + sLength, BigEndian(ether155V + Sign(tx), vLength))
         /\ s[pos + n + TailLength] = e
         /\ pos + n + TailLength <= Len(s)
<1>. DEFINE n == Len(TxList(tx))
            a == TxList(tx)
            b == BigEndian(tx.r, rLength)
            c == BigEndian(tx.s, sLength)
            d == BigEndian(ether155V + Sign(tx), vLength)
            o == <<e>>
<1>1. rLength = 2 /\ sLength = 2 /\ vLength = 1 /\ TailLength = 6
  BY DEF rLength, sLength, vLength, TailLength, EfficiencyPercentageByteLength
<1>2. a \in Bytes /\ n \in Nat /\ n > 0
  <2>. DEFINE num == a[1]
  <2>1. a \in Seq(Byte) /\ a \in Bytes /\ num \in c0 .. f7 + 2
        /\ Len(a) = HeadLength(num) + Len(Content(TxFields(tx)))
    BY EncodedShape, TxFieldsFit DEF TxList
  <2>2. Content(TxFields(tx)) \in Seq(Byte) /\ Len(Content(TxFields(tx))) > 0
    BY ContentBytes, TxFieldsFit
  <2>3. HeadLength(num) \in Nat
    BY <2>1, Bounds DEF HeadLength
  <2>4. Len(Content(TxFields(tx))) \in Nat
    BY <2>2, LenProperties
  <2>5. \A j, k \in Nat : k > 0 => j + k \in Nat /\ j + k > 0
    OBVIOUS
  <2>. QED BY <2>1, <2>2, <2>3, <2>4, <2>5, Zenon
<1>3. b \in Bytes /\ Len(b) = 2 /\ c \in Bytes /\ Len(c) = 2
  BY <1>1, LegacyTx, BigEndianBytes
<1>4. d \in Bytes /\ Len(d) = 1
  <2>1. ether155V + Sign(tx) \in Nat
    BY ChainIdFits DEF ether155V
  <2>. QED BY <1>1, <2>1, BigEndianBytes
<1>5. o \in Bytes /\ Len(o) = 1 /\ o[1] = e
  BY OneByte
<1>6. TxPiece(tx, e) = a \o b \o c \o d \o o
  BY DEF TxPiece, prepareRLPTxData, TxList, TxFields
<1>. HIDE DEF a, b, c, d, o
<1>7. /\ a \o b \in Bytes /\ Len(a \o b) = n + 2
  BY <1>2, <1>3, ConcatAt DEF a
<1>8. /\ a \o b \o c \in Bytes /\ Len(a \o b \o c) = n + 2 + 2
  <2>. DEFINE ab == a \o b
  <2>1. ab \in Bytes /\ Len(ab) = n + 2
    BY <1>7
  <2>. HIDE DEF ab
  <2>2. ab \o c \in Bytes /\ Len(ab \o c) = n + 2 + 2
    BY <1>3, <2>1, ConcatAt
  <2>. QED BY <2>2 DEF ab
<1>9. /\ a \o b \o c \o d \in Bytes /\ Len(a \o b \o c \o d) = n + 2 + 2 + 1
  <2>. DEFINE ab == a \o b \o c
  <2>1. ab \in Bytes /\ Len(ab) = n + 2 + 2
    BY <1>8
  <2>. HIDE DEF ab
  <2>2. ab \o d \in Bytes /\ Len(ab \o d) = n + 2 + 2 + 1
    BY <1>4, <2>1, ConcatAt
  <2>. QED BY <2>2 DEF ab
<1>10. At(s, pos, a \o b \o c \o d) /\ At(s, pos + (n + 2 + 2 + 1), o)
  <2>. DEFINE ab == a \o b \o c \o d
  <2>1. ab \in Bytes /\ Len(ab) = n + 2 + 2 + 1 /\ At(s, pos, ab \o o)
    BY <1>6, <1>9
  <2>. HIDE DEF ab
  <2>2. At(s, pos, ab) /\ At(s, pos + Len(ab), o)
    BY <1>5, <2>1, AtConcat
  <2>. QED BY <2>1, <2>2, Zenon DEF ab
<1>11. At(s, pos, a \o b \o c) /\ At(s, pos + (n + 2 + 2), d)
  <2>. DEFINE ab == a \o b \o c
  <2>1. ab \in Bytes /\ Len(ab) = n + 2 + 2 /\ At(s, pos, ab \o d)
    BY <1>8, <1>10
  <2>. HIDE DEF ab
  <2>2. At(s, pos, ab) /\ At(s, pos + Len(ab), d)
    BY <1>4, <2>1, AtConcat
  <2>. QED BY <2>1, <2>2, Zenon DEF ab
<1>12. At(s, pos, a \o b) /\ At(s, pos + (n + 2), c)
  <2>. DEFINE ab == a \o b
  <2>1. ab \in Bytes /\ Len(ab) = n + 2 /\ At(s, pos, ab \o c)
    BY <1>7, <1>11
  <2>. HIDE DEF ab
  <2>2. At(s, pos, ab) /\ At(s, pos + Len(ab), c)
    BY <1>3, <2>1, AtConcat
  <2>. QED BY <2>1, <2>2, Zenon DEF ab
<1>13. At(s, pos, a) /\ At(s, pos + n, b)
  BY <1>2, <1>3, <1>12, AtConcat DEF a
<1>14. /\ pos + (n + 2 + 2 + 1) + 1 = pos + n + 6
       /\ pos + (n + 2 + 2) = pos + n + 2 + 2 /\ pos + (n + 2) = pos + n + 2
  BY <1>2
<1>15. s[pos + n + 6] = e /\ pos + n + 6 <= Len(s)
  <2>1. 1 \in 1 .. 1
    OBVIOUS
  <2>. QED BY <1>5, <1>10, <1>14, <2>1, Zenon DEF At
<1>. QED BY <1>1, <1>2, <1>11, <1>12, <1>13, <1>14, <1>15, Zenon DEF a, b, c, d

(* A transaction in a batch: its list, r, s, v and the percentage. *)
LEMMA TxPieceBytes ==
  ASSUME NEW tx \in LegacyTxs, NEW e \in Byte
  PROVE  /\ TxPiece(tx, e) \in Seq(Byte) /\ TxPiece(tx, e) \in Bytes
         /\ Len(TxPiece(tx, e)) = Len(TxList(tx)) + TailLength
         /\ prepareRLPTxData(tx) \in Seq(Byte)
<1>. DEFINE a == TxList(tx)
            b == BigEndian(tx.r, rLength)
            c == BigEndian(tx.s, sLength)
            d == BigEndian(ether155V + Sign(tx), vLength)
            o == <<e>>
<1>1. rLength = 2 /\ sLength = 2 /\ vLength = 1 /\ TailLength = 6
  BY DEF rLength, sLength, vLength, TailLength, EfficiencyPercentageByteLength
<1>2. a \in Seq(Byte) /\ Len(a) \in Nat
  <2>1. a \in Seq(Byte)
    BY EncodedShape, TxFieldsFit DEF TxList
  <2>. QED BY <2>1, LenProperties
<1>3. b \in Seq(Byte) /\ Len(b) = 2 /\ c \in Seq(Byte) /\ Len(c) = 2
  BY <1>1, LegacyTx, BigEndianBytes
<1>4. d \in Seq(Byte) /\ Len(d) = 1
  <2>1. ether155V + Sign(tx) \in Nat
    BY ChainIdFits DEF ether155V
  <2>. QED BY <1>1, <2>1, BigEndianBytes
<1>5. o \in Seq(Byte) /\ Len(o) = 1
  BY OneByte
<1>6. TxPiece(tx, e) = a \o b \o c \o d \o o /\ prepareRLPTxData(tx) = a \o b \o c \o d
  BY DEF TxPiece, prepareRLPTxData, TxList, TxFields
<1>. HIDE DEF a, b, c, d, o
<1>. DEFINE ab == a \o b
<1>7. ab \in Seq(Byte) /\ Len(ab) = Len(a) + 2
  BY <1>2, <1>3, ByteConcat
<1>. HIDE DEF ab
<1>. DEFINE abc == ab \o c
<1>8. abc \in Seq(Byte) /\ Len(abc) = Len(a) + 2 + 2
  BY <1>3, <1>7, ByteConcat
<1>. HIDE DEF abc
<1>. DEFINE abcd == abc \o d
<1>9. abcd \in Seq(Byte) /\ Len(abcd) = Len(a) + 2 + 2 + 1
  BY <1>4, <1>8, ByteConcat
<1>. HIDE DEF abcd
<1>10. abcd \o o \in Seq(Byte) /\ Len(abcd \o o) = Len(a) + 2 + 2 + 1 + 1
  BY <1>5, <1>9, ByteConcat
<1>11. TxPiece(tx, e) = abcd \o o /\ prepareRLPTxData(tx) = abcd
  BY <1>6 DEF ab, abc, abcd
<1>12. Len(a) + 2 + 2 + 1 + 1 = Len(a) + 6
  BY <1>2
<1>. QED BY <1>1, <1>9, <1>10, <1>11, <1>12, ByteSeq, Zenon DEF a

Plained(tx, e) ==
  [TxAlreadyEncoded |-> FALSE, Data |-> <<>>, Tx |-> tx, EfficiencyPercentage |-> e]

(* The length of a list is found where the list is. *)
LEMMA ListLength ==
  ASSUME NEW tx \in LegacyTxs, NEW s \in Bytes, NEW pos \in Nat, At(s, pos, TxList(tx))
  PROVE  LET num == s[pos + 1]
             n == Len(TxList(tx)) IN
         /\ num \in c0 .. f7 + 2
         /\ pos + n <= Len(s) /\ n \in Nat /\ n > 0
         /\ num <= f7 => n = num - c0 + 1
         /\ num > f7 => /\ pos + 1 + (num - f7) <= Len(s)
                        /\ Number(Slice(s, pos + 1, pos + 1 + (num - f7))) + (num - f7) + 1 = n
<1>. DEFINE f == TxFields(tx)
            a == TxList(tx)
            num == a[1]
            h == HeadLength(num)
            size == Len(Content(f))
            n == Len(a)
<1>1. /\ a \in Seq(Byte) /\ a \in Bytes
      /\ num \in c0 .. f7 + 2
      /\ n = h + size
      /\ num <= f7 => num = c0 + size
      /\ num > f7 => Number(Slice(a, 1, h)) = size
  BY TxFieldsFit, EncodedShape DEF TxList
<1>2. size \in Nat /\ size > 0
  <2>1. Content(f) \in Seq(Byte) /\ size > 0
    BY TxFieldsFit, ContentBytes
  <2>. QED BY <2>1, LenProperties
<1>. HIDE DEF a, size, n
<1>3. c0 \in Nat /\ f7 \in Nat
  BY Bounds
<1>. HIDE DEF num
<1>4. /\ h \in Nat /\ h > 0
      /\ num <= f7 => h = 1
      /\ num > f7 => h = 1 + (num - f7)
  BY <1>1, <1>3 DEF HeadLength
<1>. HIDE DEF h
<1>5. n \in Nat /\ n > 0 /\ h <= n
  BY <1>1, <1>2, <1>3, <1>4 DEF HeadLength, h
<1>6. pos + n <= Len(s) /\ s[pos + 1] = num
  <2>1. 1 \in 1 .. n
    BY <1>5
  <2>. QED BY <2>1 DEF At, a, num, n
<1>7. ASSUME num <= f7 PROVE n = num - c0 + 1
  BY <1>1, <1>2, <1>3, <1>4, <1>7
<1>8. ASSUME num > f7
      PROVE  /\ pos + 1 + (num - f7) <= Len(s)
             /\ Number(Slice(s, pos + 1, pos + 1 + (num - f7))) + (num - f7) + 1 = n
  <2>. DEFINE k == num - f7
              p == Slice(a, 1, h)
  <2>1. k \in Nat /\ h = 1 + k /\ n = 1 + k + size /\ Len(s) \in Nat
    BY <1>1, <1>2, <1>3, <1>4, <1>8 DEF Bytes
  <2>2. p \in Bytes /\ Len(p) = h - 1 /\ At(a, 1, p)
    <3>1. 1 \in Nat /\ 1 <= h /\ h <= Len(a)
      BY <1>4, <1>5 DEF n
    <3>. QED BY <1>1, <1>4, <3>1, SliceBytes
  <2>. HIDE DEF k, p
  <2>3. Len(p) = k
    BY <2>1, <2>2
  <2>4. At(s, pos + 1, p)
    <3>1. 1 \in Nat /\ At(s, pos, a)
      BY DEF a
    <3>. QED BY <1>1, <2>2, <3>1, AtPart
  <2>5. Slice(s, pos + 1, pos + 1 + Len(p)) = p
    <3>1. pos + 1 \in Nat
      OBVIOUS
    <3>. QED BY <2>2, <2>4, <3>1, SliceAt
  <2>6. Number(p) = size
    BY <1>1, <1>8 DEF p
  <2>7. pos + 1 + k <= Len(s)
    BY <1>2, <1>6, <2>1
  <2>8. size + k + 1 = n
    BY <1>2, <2>1
  <2>. QED BY <2>3, <2>5, <2>6, <2>7, <2>8, Zenon DEF k
<1>. QED BY <1>1, <1>5, <1>6, <1>7, <1>8, Zenon DEF a, n

(* The fields of a transaction, and v, r and s, are those encoded. *)
LEMMA TxDecoded ==
  ASSUME NEW tx \in LegacyTxs, NEW e \in Byte, NEW s \in Bytes, NEW pos \in Nat,
         At(s, pos, TxPiece(tx, e))
  PROVE  TxAt(s, pos, Len(TxList(tx))) = {Plained(tx, e)}
<1>. DEFINE n == Len(TxList(tx))
            f == TxFields(tx)
            start == pos + n
            b == BigEndian(tx.r, rLength)
            c == BigEndian(tx.s, sLength)
            d == BigEndian(ether155V + Sign(tx), vLength)
            rData == Slice(s, start, start + rLength)
            sData == Slice(s, start + rLength, start + rLength + sLength)
            vData == Slice(s, start + rLength + sLength, start + rLength + sLength + vLength)
<1>1. /\ n \in Nat /\ n > 0 /\ At(s, pos, TxList(tx)) /\ At(s, start, b)
      /\ At(s, start + rLength, c) /\ At(s, start + rLength + sLength, d)
      /\ s[start + TailLength] = e
  BY TxPieceParts
<1>2. rLength = 2 /\ sLength = 2 /\ vLength = 1 /\ ether155V = 27 /\ etherPre155V = 35
  BY DEF rLength, sLength, vLength, ether155V, etherPre155V
<1>3. /\ Fits(tx.r, rLength) /\ Fits(tx.s, sLength) /\ tx.r \in Nat /\ tx.s \in Nat
      /\ tx = [data |-> tx.data, v |-> tx.v, r |-> tx.r, s |-> tx.s]
      /\ tx.v \in {27, 28} \cup 35 .. 2 * Base + 34 /\ tx.data \in Seq(Byte)
  BY LegacyTx
<1>4. b \in Bytes /\ Len(b) = rLength /\ c \in Bytes /\ Len(c) = sLength
      /\ Number(b) = tx.r /\ Number(c) = tx.s
  <2>1. rLength \in Nat /\ sLength \in Nat
    BY <1>2
  <2>. QED BY <1>3, <2>1, BigEndianBytes, NumberOfBigEndian
<1>5. Sign(tx) \in {0, 1}
  BY ChainIdFits
<1>6. d \in Bytes /\ Len(d) = vLength /\ Number(d) = 27 + Sign(tx)
  <2>. DEFINE m == 27 + Sign(tx)
  <2>1. m \in Nat /\ m < Base /\ m = ether155V + Sign(tx)
    BY <1>2, <1>5, Bounds
  <2>. HIDE DEF m
  <2>2. Fits(m, 1)
    <3>1. m \div Base = 0
      BY <2>1, Bounds
    <3>2. 1 = 0 + 1 /\ 0 \in Nat
      OBVIOUS
    <3>3. Shifted(m)[0] = m /\ Shifted(m)[0 + 1] = Shifted(m)[0] \div Base
      BY <3>2, ShiftedStep
    <3>. QED BY <2>1, <3>1, <3>2, <3>3, Zenon DEF Fits
  <2>3. BigEndian(m, 1) \in Bytes /\ Len(BigEndian(m, 1)) = 1 /\ Number(BigEndian(m, 1)) = m
    BY <2>1, <2>2, BigEndianBytes, NumberOfBigEndian
  <2>. QED BY <1>2, <2>1, <2>3, Zenon DEF m
<1>. HIDE DEF n, b, c, d
<1>7. start \in Nat /\ start + rLength \in Nat /\ start + rLength + sLength \in Nat
  BY <1>1, <1>2
<1>. HIDE DEF start
<1>8. rData = b /\ sData = c /\ vData = d
  BY <1>1, <1>4, <1>6, <1>7, SliceAt
<1>9. DecodeBytes(Slice(s, pos, start)) = {f}
  <2>1. TxList(tx) \in Bytes
    BY TxFieldsFit, EncodedShape DEF TxList
  <2>2. Slice(s, pos, pos + Len(TxList(tx))) = TxList(tx)
    BY <1>1, <2>1, SliceAt
  <2>3. DecodeBytes(TxList(tx)) = {f}
    BY TxFieldsFit, ListDecodes DEF TxList
  <2>. QED BY <2>2, <2>3 DEF start, n
<1>10. RlpFieldsToLegacyTx(f, vData, rData, sData) = tx
  <2>1. f.data = tx.data
        /\ f.optional = IF IsPreEIP155Tx(tx) THEN <<>> ELSE <<ChainId(tx), 0, 0>>
    BY DEF TxFields
  <2>2. RlpFieldsToLegacyTx(f, vData, rData, sData) =
          [data |-> tx.data, r |-> tx.r, s |-> tx.s,
           v |-> IF f.optional = <<>> THEN 27 + Sign(tx)
                 ELSE (27 + Sign(tx)) - 27 + 2 * f.optional[1] + 35]
    <3>1. RlpFieldsToLegacyTx(f, vData, rData, sData) = RlpFieldsToLegacyTx(f, d, b, c)
      BY <1>8
    <3>2. RlpFieldsToLegacyTx(f, d, b, c) =
            [data |-> f.data, r |-> Number(b), s |-> Number(c),
             v |-> IF f.optional = <<>> THEN Number(d)
                   ELSE Number(d) - ether155V + 2 * f.optional[1] + etherPre155V]
      BY Zenon DEF RlpFieldsToLegacyTx
    <3>. DEFINE v1 == IF f.optional = <<>> THEN Number(d)
                      ELSE Number(d) - ether155V + 2 * f.optional[1] + etherPre155V
                v2 == IF f.optional = <<>> THEN 27 + Sign(tx)
                      ELSE (27 + Sign(tx)) - 27 + 2 * f.optional[1] + 35
    <3>3. v1 = v2
      <4>. HIDE DEF f, d
      <4>. QED BY <1>2, <1>6, Zenon
    <3>4. f.data = tx.data
      BY <2>1
    <3>. HIDE DEF v1, v2, f, b, c
    <3>5. RlpFieldsToLegacyTx(f, d, b, c) =
            [data |-> f.data, r |-> Number(b), s |-> Number(c), v |-> v1]
      BY <3>2 DEF v1
    <3>6. RlpFieldsToLegacyTx(f, d, b, c) = [data |-> tx.data, r |-> tx.r, s |-> tx.s, v |-> v2]
      BY <1>4, <3>3, <3>4, <3>5
    <3>. QED BY <3>1, <3>6 DEF v2
  <2>3. CASE IsPreEIP155Tx(tx)
    <3>1. tx.v \in {27, 28}
      BY <2>3, ChainIdFits
    <3>2. 27 + Sign(tx) = tx.v
      BY <3>1 DEF Sign
    <3>3. f.optional = <<>>
      BY <2>1, <2>3
    <3>. QED BY <1>3, <2>2, <3>2, <3>3
  <2>4. CASE ~ IsPreEIP155Tx(tx)
    <3>1. tx.v = Sign(tx) + 2 * ChainId(tx) + 35 /\ ChainId(tx) \in Nat
      BY <2>4, ChainIdFits, Bounds DEF Byte
    <3>2. f.optional # <<>> /\ f.optional[1] = ChainId(tx)
      BY <2>1, <2>4
    <3>3. (27 + Sign(tx)) - 27 + 2 * ChainId(tx) + 35 = tx.v
      BY <1>5, <3>1
    <3>. QED BY <1>3, <2>2, <3>2, <3>3
  <2>. QED BY <2>3, <2>4
<1>11. s[start + TailLength] = e
  BY <1>1
<1>12. TxAt(s, pos, n) = {[TxAlreadyEncoded |-> FALSE, Data |-> <<>>,
                           Tx |-> RlpFieldsToLegacyTx(g, vData, rData, sData),
                           EfficiencyPercentage |-> s[start + TailLength]] :
                            g \in DecodeBytes(Slice(s, pos, start))}
  BY DEF TxAt, start
<1>. QED BY <1>9, <1>10, <1>11, <1>12, Zenon DEF Plained, n

-----------------------------------------------------------------------------
(* Items: headers and transactions. *)

(* What the encoder writes for a header. *)
HeaderPiece(delta, index) ==
  <<changeL2Block>> \o encodeUint32(delta) \o encodeUint32(index)

HeaderItem(delta, index, pos) ==
  [isHeader |-> TRUE, content |-> [DeltaTimestamp |-> delta, IndexL1InfoTree |-> index],
   end |-> pos + HeaderLength]

TxItem(tx, e, pos) ==
  [isHeader |-> FALSE, content |-> Plained(tx, e), end |-> pos + Len(TxPiece(tx, e))]

(* A block in a batch: the marker, the time and the index. *)
LEMMA HeaderPieceBytes ==
  ASSUME NEW delta, NEW index, Fits(delta, sizeUInt32), Fits(index, sizeUInt32)
  PROVE  /\ HeaderPiece(delta, index) \in Seq(Byte)
         /\ Len(HeaderPiece(delta, index)) = HeaderLength
         /\ HeaderLength \in Nat /\ HeaderLength > 0
<1>. DEFINE a == <<changeL2Block>>
            b == encodeUint32(delta)
            c == encodeUint32(index)
            ab == a \o b
<1>1. changeL2Block \in Byte /\ sizeUInt32 \in Nat /\ HeaderLength = 1 + sizeUInt32 + sizeUInt32
      /\ HeaderLength \in Nat /\ HeaderLength > 0
  BY Bounds DEF Byte, HeaderLength
<1>2. a \in Seq(Byte) /\ Len(a) = 1
  BY <1>1, OneByte
<1>3. b \in Seq(Byte) /\ Len(b) = sizeUInt32 /\ c \in Seq(Byte) /\ Len(c) = sizeUInt32
  <2>1. delta \in Nat /\ index \in Nat
    BY DEF Fits
  <2>. QED BY <1>1, <2>1, BigEndianBytes DEF encodeUint32
<1>. HIDE DEF a, b, c
<1>4. ab \in Seq(Byte) /\ Len(ab) = 1 + sizeUInt32
  BY <1>2, <1>3, ByteConcat
<1>. HIDE DEF ab
<1>5. ab \o c \in Seq(Byte) /\ Len(ab \o c) = 1 + sizeUInt32 + sizeUInt32
  BY <1>3, <1>4, ByteConcat
<1>6. HeaderPiece(delta, index) = ab \o c
  BY DEF HeaderPiece, ab, a, b, c
<1>. QED BY <1>1, <1>5, <1>6

(* A header is found where it is. *)
LEMMA HeaderNext ==
  ASSUME NEW delta, NEW index, Fits(delta, sizeUInt32), Fits(index, sizeUInt32),
         NEW s \in Bytes, NEW pos \in Nat, At(s, pos, HeaderPiece(delta, index))
  PROVE  NextItem(s, pos) = {HeaderItem(delta, index, pos)}
<1>. DEFINE a == <<changeL2Block>>
            b == encodeUint32(delta)
            c == encodeUint32(index)
            ab == a \o b
<1>1. changeL2Block \in Byte /\ sizeUInt32 \in Nat /\ HeaderLength = 1 + 2 * sizeUInt32
  BY Bounds DEF Byte, HeaderLength
<1>2. a \in Seq(Byte) /\ a \in Bytes /\ Len(a) = 1 /\ a[1] = changeL2Block
  BY <1>1, OneByte
<1>3. /\ b \in Seq(Byte) /\ b \in Bytes /\ Len(b) = sizeUInt32 /\ Number(b) = delta
      /\ c \in Seq(Byte) /\ c \in Bytes /\ Len(c) = sizeUInt32 /\ Number(c) = index
  <2>1. delta \in Nat /\ index \in Nat
    BY DEF Fits
  <2>. QED BY <1>1, <2>1, BigEndianBytes, NumberOfBigEndian DEF encodeUint32
<1>4. HeaderPiece(delta, index) = ab \o c
  BY DEF HeaderPiece
<1>. HIDE DEF a, b, c
<1>5. ab \in Bytes /\ Len(ab) = 1 + sizeUInt32
  BY <1>2, <1>3, ByteConcat, ByteSeq
<1>6. At(s, pos, ab) /\ At(s, pos + (1 + sizeUInt32), c)
  <2>1. At(s, pos, ab \o c)
    BY <1>4
  <2>. HIDE DEF ab
  <2>2. At(s, pos, ab) /\ At(s, pos + Len(ab), c)
    BY <1>3, <1>5, <2>1, AtConcat
  <2>. QED BY <1>5, <2>2, Zenon
<1>7. At(s, pos, a) /\ At(s, pos + 1, b)
  <2>1. At(s, pos, a) /\ At(s, pos + Len(a), b)
    BY <1>2, <1>3, <1>6, AtConcat
  <2>. QED BY <1>2, <2>1, Zenon
<1>8. s[pos + 1] = changeL2Block
  <2>1. 1 \in 1 .. Len(a)
    BY <1>2
  <2>. QED BY <1>2, <1>7, <2>1, Zenon DEF At
<1>9. pos + HeaderLength <= Len(s)
  <2>1. pos + (1 + sizeUInt32) + sizeUInt32 <= Len(s) /\ Len(s) \in Nat
    <3>1. Len(s) \in Nat
      BY DEF Bytes
    <3>. QED BY <1>3, <1>6, <3>1, Zenon DEF At
  <2>. QED BY <1>1, <2>1
<1>10. /\ Slice(s, pos + 1, pos + 1 + sizeUInt32) = b
       /\ Slice(s, pos + 1 + sizeUInt32, pos + 1 + 2 * sizeUInt32) = c
  <2>1. /\ pos + 1 \in Nat /\ pos + (1 + sizeUInt32) \in Nat
        /\ pos + (1 + sizeUInt32) = pos + 1 + sizeUInt32
        /\ pos + (1 + sizeUInt32) + sizeUInt32 = pos + 1 + 2 * sizeUInt32
    BY <1>1
  <2>2. Slice(s, pos + 1, pos + 1 + Len(b)) = b
    BY <1>3, <1>7, <2>1, SliceAt
  <2>3. Slice(s, pos + (1 + sizeUInt32), pos + (1 + sizeUInt32) + Len(c)) = c
    BY <1>3, <1>6, <2>1, SliceAt
  <2>. QED BY <1>3, <2>1, <2>2, <2>3, Zenon
<1>11. decodeBlockHeader(s, pos + 1) = [DeltaTimestamp |-> delta, IndexL1InfoTree |-> index]
  BY <1>3, <1>10 DEF decodeBlockHeader
<1>. HIDE DEF ab
<1>12. NextItem(s, pos) = {[isHeader |-> TRUE, content |-> decodeBlockHeader(s, pos + 1),
                            end |-> pos + HeaderLength]}
  BY <1>8, <1>9, Zenon DEF NextItem
<1>. QED BY <1>11, <1>12, Zenon DEF HeaderItem

(* The length in the header of the list is the length of the list. *)
LEMMA ListLengthFound ==
  ASSUME NEW tx \in LegacyTxs, NEW s \in Bytes, NEW pos \in Nat, At(s, pos, TxList(tx))
  PROVE  decodeRLPListLengthFromOffset(s, pos) = Len(TxList(tx))
<1>. DEFINE num == s[pos + 1]
            n == Len(TxList(tx))
            k == num - f7
            m == Number(Slice(s, pos + 1, pos + 1 + k))
<1>1. /\ num \in c0 .. f7 + 2
      /\ n \in Nat
      /\ num <= f7 => n = num - c0 + 1
      /\ num > f7 => pos + 1 + k <= Len(s) /\ m + k + 1 = n
  BY ListLength
<1>2. /\ f7 = c0 + shortRlp /\ c0 \in Nat /\ shortRlp \in Nat /\ Len(s) \in Nat
  BY Bounds DEF Bytes
<1>3. decodeRLPListLengthFromOffset(s, pos) =
        IF num < c0 THEN 0
        ELSE IF num - c0 <= shortRlp THEN num - c0 + 1
        ELSE IF pos + 1 + k > Len(s) THEN 0
        ELSE m + k + 1
  BY Zenon DEF decodeRLPListLengthFromOffset, LongLength, headerByteLength
<1>. HIDE DEF num, n, m
<1>4. ~ num < c0 /\ (num <= f7 <=> num - c0 <= shortRlp) /\ (~ num <= f7 => num > f7)
  BY <1>1, <1>2
<1>5. num > f7 => ~ pos + 1 + k > Len(s)
  BY <1>1, <1>2
<1>. QED BY <1>1, <1>3, <1>4, <1>5, Zenon DEF n

(* A transaction is found where it is. *)
LEMMA TxNext ==
  ASSUME NEW tx \in LegacyTxs, NEW e \in Byte, NEW s \in Bytes, NEW pos \in Nat,
         At(s, pos, TxPiece(tx, e))
  PROVE  NextItem(s, pos) = {TxItem(tx, e, pos)}
<1>. DEFINE num == s[pos + 1]
            n == Len(TxList(tx))
<1>1. At(s, pos, TxList(tx)) /\ pos + n + TailLength <= Len(s) /\ n > 0
  BY TxPieceParts
<1>2. num # changeL2Block
  BY <1>1, ListLength, Bounds
<1>3. decodeRLPListLengthFromOffset(s, pos) = n
  BY <1>1, ListLengthFound
<1>4. DecodeTxRLP(s, pos) = {Plained(tx, e)}
  BY <1>1, <1>3, TxDecoded, Zenon DEF DecodeTxRLP
<1>5. pos + n + TailLength = pos + Len(TxPiece(tx, e))
  <2>1. n \in Nat /\ TailLength \in Nat
    BY <1>1, ListLength DEF TailLength, rLength, sLength, vLength, EfficiencyPercentageByteLength
  <2>2. pos + n + TailLength = pos + (n + TailLength)
    BY <2>1
  <2>. QED BY <2>2, TxPieceBytes, Zenon
<1>6. NextItem(s, pos) =
        {[isHeader |-> FALSE, content |-> t, end |-> pos + n + TailLength] :
           t \in DecodeTxRLP(s, pos)}
  BY <1>2, <1>3, Zenon DEF NextItem
<1>. QED BY <1>4, <1>5, <1>6, Zenon DEF TxItem

(* DecodeTxs finds it as well. *)
LEMMA ForcedTxNext ==
  ASSUME NEW tx \in LegacyTxs, NEW e \in Byte, NEW s \in Bytes, NEW pos \in Nat,
         At(s, pos, TxPiece(tx, e))
  PROVE  /\ ~ LengthIsCut(s, pos)
         /\ NextTx(s, pos) = [end |-> pos + Len(TxPiece(tx, e)), txs |-> {Plained(tx, e)}]
<1>. DEFINE num == s[pos + 1]
            n == Len(TxList(tx))
            k == num - f7
            m == Number(Slice(s, pos + 1, pos + 1 + k))
            length == IF num - c0 > shortRlp THEN m + k ELSE num - c0
<1>1. At(s, pos, TxList(tx)) /\ pos + n + TailLength <= Len(s) /\ n > 0
  BY TxPieceParts
<1>2. /\ num \in c0 .. f7 + 2
      /\ n \in Nat
      /\ num <= f7 => n = num - c0 + 1
      /\ num > f7 => pos + 1 + k <= Len(s) /\ m + k + 1 = n
  BY <1>1, ListLength
<1>3. /\ f7 = c0 + shortRlp /\ c0 \in Nat /\ shortRlp \in Nat /\ Len(s) \in Nat
  BY Bounds DEF Bytes
<1>4. m \in Nat \/ ~ num > f7
  <2>. SUFFICES ASSUME num > f7 PROVE m \in Nat
    BY Zenon
  <2>1. pos + 1 \in Nat /\ pos + 1 + k \in Nat /\ pos + 1 <= pos + 1 + k /\ pos + 1 + k <= Len(s)
    BY <1>2, <1>3
  <2>. QED BY <2>1, SliceBytes, NumberNat
<1>5. LengthIsCut(s, pos) <=> num - c0 > shortRlp /\ pos + 1 + k > Len(s)
  BY Zenon DEF LengthIsCut
<1>6. NextTx(s, pos) =
        [end |-> EndPos(pos, length),
         txs |-> IF num < c0 \/ EndPos(pos, length) > Len(s) THEN {}
                 ELSE TxAt(s, pos, length + 1)]
  BY Zenon DEF NextTx, headerByteLength
<1>. HIDE DEF num, m
<1>7. (num - c0 > shortRlp) <=> num > f7
  BY <1>2, <1>3
<1>8. length = n - 1
  <2>. HIDE DEF n
  <2>1. CASE num > f7
    <3>1. length = m + k
      BY <1>7, <2>1
    <3>. HIDE DEF length
    <3>. QED BY <1>2, <1>3, <1>4, <2>1, <3>1
  <2>2. CASE ~ num > f7
    <3>1. length = num - c0 /\ num <= f7
      BY <1>2, <1>3, <1>7, <2>2
    <3>. HIDE DEF length
    <3>. QED BY <1>2, <1>3, <3>1
  <2>. QED BY <2>1, <2>2
<1>. HIDE DEF length
<1>9. ~ LengthIsCut(s, pos)
  <2>1. num > f7 => ~ pos + 1 + k > Len(s)
    BY <1>2, <1>3
  <2>. QED BY <1>5, <1>7, <2>1, Zenon
<1>10. TailLength = 6
  BY DEF TailLength, rLength, sLength, vLength, EfficiencyPercentageByteLength
<1>11. Len(TxPiece(tx, e)) = n + 6
  BY <1>10, TxPieceBytes, Zenon
<1>. HIDE DEF n
<1>12. EndPos(pos, length) = pos + Len(TxPiece(tx, e)) /\ length + 1 = n
       /\ EndPos(pos, length) <= Len(s)
  <2>1. EndPos(pos, length) = pos + length + 6 + 1
    BY <1>10, Zenon DEF EndPos, headerByteLength
  <2>2. length \in Int /\ pos + length + 6 + 1 = pos + (n + 6) /\ length + 1 = n
        /\ pos + n + 6 = pos + (n + 6)
    BY <1>2, <1>8
  <2>. QED BY <1>1, <1>10, <1>11, <2>1, <2>2, Zenon
<1>13. ~ (num < c0 \/ EndPos(pos, length) > Len(s))
  <2>1. ~ num < c0
    BY <1>2, <1>3
  <2>2. EndPos(pos, length) \in Nat
    BY <1>2, <1>11, <1>12
  <2>3. ~ EndPos(pos, length) > Len(s)
    BY <1>3, <1>12, <2>2
  <2>. QED BY <2>1, <2>3
<1>14. TxAt(s, pos, length + 1) = {Plained(tx, e)}
  BY <1>12, TxDecoded, Zenon DEF n
<1>. QED BY <1>6, <1>9, <1>12, <1>13, <1>14, Zenon

-----------------------------------------------------------------------------
(* What is decoded does not depend on the data behind it. *)

DecodedTxSet ==
  [TxAlreadyEncoded : {FALSE}, Data : {<<>>},
   Tx : [data : Bytes, r : Nat, s : Nat, v : Int], EfficiencyPercentage : Nat]

DecodedHeaders == [DeltaTimestamp : Nat, IndexL1InfoTree : Nat]

(* The sizes, as numbers. *)
LEMMA Lengths ==
  /\ TailLength = 6 /\ rLength = 2 /\ sLength = 2 /\ vLength = 1
  /\ ether155V = 27 /\ etherPre155V = 35 /\ headerByteLength = 1
BY DEF TailLength, rLength, sLength, vLength, EfficiencyPercentageByteLength,
       ether155V, etherPre155V, headerByteLength

(* A length read at any place is a number. *)
LEMMA LengthNat ==
  ASSUME NEW s \in Bytes, NEW pos \in 0 .. Len(s) - 1
  PROVE  decodeRLPListLengthFromOffset(s, pos) \in Nat
<1>. DEFINE num == s[pos + 1]
            k == num - f7
            m == Number(Slice(s, pos + 1, pos + 1 + k))
<1>1. /\ f7 = c0 + shortRlp /\ c0 \in Nat /\ shortRlp \in Nat /\ Len(s) \in Nat /\ pos \in Nat
  BY Bounds DEF Bytes
<1>2. num \in Nat
  <2>1. pos + 1 \in 1 .. Len(s)
    BY <1>1
  <2>. QED BY <2>1, ElementOfSeq DEF Bytes
<1>3. decodeRLPListLengthFromOffset(s, pos) =
        IF num < c0 THEN 0
        ELSE IF num - c0 <= shortRlp THEN num - c0 + 1
        ELSE IF pos + 1 + k > Len(s) THEN 0
        ELSE m + k + 1
  BY Zenon DEF decodeRLPListLengthFromOffset, LongLength, headerByteLength
<1>. HIDE DEF num
<1>4. ASSUME num - c0 > shortRlp, ~ pos + 1 + k > Len(s) PROVE m \in Nat /\ k \in Nat
  <2>1. pos + 1 \in Nat /\ pos + 1 + k \in Nat /\ pos + 1 <= pos + 1 + k /\ pos + 1 + k <= Len(s)
        /\ k \in Nat
    BY <1>1, <1>2, <1>4
  <2>. QED BY <2>1, SliceBytes, NumberNat
<1>. HIDE DEF m, k
<1>. QED BY <1>1, <1>2, <1>3, <1>4

(* What the decoder reads does not change when bytes follow. *)
LEMMA SliceKept ==
  ASSUME NEW s \in Bytes, NEW t \in Bytes, NEW from \in Nat, NEW to \in Nat,
         from <= to, to <= Len(s)
  PROVE  Slice(s \o t, from, to) = Slice(s, from, to)
<1>. DEFINE u == s \o t
<1>1. u \in Seq(Nat) /\ s \in Seq(Nat) /\ Len(s) \in Nat /\ Len(u) = Len(s) + Len(t)
      /\ Len(t) \in Nat /\ At(u, 0, s)
  BY ConcatAt DEF Bytes
<1>. HIDE DEF u
<1>2. to <= Len(u)
  BY <1>1
<1>3. /\ Slice(s, from, to) \in Seq(Nat) /\ Len(Slice(s, from, to)) = to - from
      /\ \A i \in 1 .. to - from : Slice(s, from, to)[i] = s[from + i]
  BY <1>1, SliceSeq
<1>4. /\ Slice(u, from, to) \in Seq(Nat) /\ Len(Slice(u, from, to)) = to - from
      /\ \A i \in 1 .. to - from : Slice(u, from, to)[i] = u[from + i]
  BY <1>1, <1>2, SliceSeq
<1>5. \A i \in 1 .. to - from : u[from + i] = s[from + i]
  <2>1. \A i \in 1 .. to - from : from + i \in 1 .. Len(s) /\ 0 + (from + i) = from + i
    BY <1>1
  <2>. QED BY <1>1, <2>1, Zenon DEF At
<1>6. \A i \in 1 .. to - from : Slice(u, from, to)[i] = Slice(s, from, to)[i]
  BY <1>3, <1>4, <1>5, Zenon
<1>7. Slice(u, from, to) = Slice(s, from, to)
  BY <1>3, <1>4, <1>6, SeqEqual
<1>. QED BY <1>7 DEF u

LEMMA ByteKept ==
  ASSUME NEW s \in Bytes, NEW t \in Bytes, NEW i \in 1 .. Len(s)
  PROVE  (s \o t)[i] = s[i] /\ s[i] \in Nat
<1>1. At(s \o t, 0, s) /\ s \in Seq(Nat) /\ 0 + i = i
  BY ConcatAt DEF Bytes
<1>. QED BY <1>1, ElementOfSeq DEF At

(* A length other than 0 was read from bytes that are there. *)
LEMMA LengthKept ==
  ASSUME NEW s \in Bytes, NEW t \in Bytes, NEW pos \in 0 .. Len(s) - 1,
         decodeRLPListLengthFromOffset(s, pos) > 0
  PROVE  decodeRLPListLengthFromOffset(s \o t, pos) = decodeRLPListLengthFromOffset(s, pos)
<1>. DEFINE u == s \o t
            num == s[pos + 1]
            k == num - f7
            m == Number(Slice(s, pos + 1, pos + 1 + k))
            n == decodeRLPListLengthFromOffset(s, pos)
            mu == Number(Slice(u, pos + 1, pos + 1 + k))
<1>1. /\ f7 = c0 + shortRlp /\ c0 \in Nat /\ shortRlp \in Nat /\ Len(s) \in Nat /\ pos \in Nat
      /\ pos + 1 \in 1 .. Len(s)
  BY Bounds DEF Bytes
<1>2. num \in Nat /\ u[pos + 1] = num
  BY <1>1, ByteKept
<1>3. n =
        IF num < c0 THEN 0
        ELSE IF num - c0 <= shortRlp THEN num - c0 + 1
        ELSE IF pos + 1 + k > Len(s) THEN 0
        ELSE m + k + 1
  BY Zenon DEF decodeRLPListLengthFromOffset, LongLength, headerByteLength
<1>. HIDE DEF u
<1>4. decodeRLPListLengthFromOffset(u, pos) =
        IF num < c0 THEN 0
        ELSE IF num - c0 <= shortRlp THEN num - c0 + 1
        ELSE IF pos + 1 + k > Len(u) THEN 0
        ELSE mu + k + 1
  BY <1>2, Zenon DEF decodeRLPListLengthFromOffset, LongLength, headerByteLength
<1>5. Len(u) = Len(s) + Len(t) /\ Len(t) \in Nat
  BY ConcatAt DEF u
<1>. HIDE DEF num
<1>6. n \in Nat
  BY LengthNat
<1>. HIDE DEF m, n, mu
<1>7. ~ num < c0
  BY <1>3, <1>6 DEF n
<1>8. ASSUME ~ num - c0 <= shortRlp PROVE ~ pos + 1 + k > Len(s) /\ ~ pos + 1 + k > Len(u) /\ mu = m
  <2>1. pos + 1 + k <= Len(s)
    <3>. SUFFICES ASSUME pos + 1 + k > Len(s) PROVE n = 0
      BY <1>1, <1>2 DEF n
    <3>. QED BY <1>3, <1>7, <1>8, Zenon
  <2>2. pos + 1 \in Nat /\ pos + 1 + k \in Nat /\ pos + 1 <= pos + 1 + k
    BY <1>1, <1>2, <1>8
  <2>3. pos + 1 + k <= Len(u)
    BY <1>1, <1>5, <2>1, <2>2
  <2>4. mu = m
    BY <2>1, <2>2, SliceKept DEF mu, m, u
  <2>. QED BY <1>1, <1>5, <2>1, <2>2, <2>3, <2>4
<1>9. decodeRLPListLengthFromOffset(u, pos) = n
  BY <1>3, <1>4, <1>7, <1>8, Zenon
<1>. QED BY <1>9 DEF u, n

(* A transaction is read from its own bytes. *)
LEMMA TxAtKept ==
  ASSUME NEW s \in Bytes, NEW t \in Bytes, NEW pos \in Nat, NEW length \in Nat,
         pos + length + TailLength <= Len(s)
  PROVE  TxAt(s \o t, pos, length) = TxAt(s, pos, length)
<1>. DEFINE u == s \o t
            x == pos + length
            x1 == x + rLength
            x2 == x + rLength + sLength
            x3 == x + rLength + sLength + vLength
            x4 == x + TailLength
<1>1. /\ x \in Nat /\ x1 \in Nat /\ x2 \in Nat /\ x3 \in Nat /\ x4 \in 1 .. Len(s)
      /\ pos <= x /\ x <= x1 /\ x1 <= x2 /\ x2 <= x3 /\ x3 <= Len(s) /\ x2 <= Len(s)
      /\ x1 <= Len(s) /\ x <= Len(s)
  BY Lengths DEF Bytes
<1>2. TxAt(s, pos, length) =
        {[TxAlreadyEncoded |-> FALSE, Data |-> <<>>,
          Tx |-> RlpFieldsToLegacyTx(f, Slice(s, x2, x3), Slice(s, x, x1), Slice(s, x1, x2)),
          EfficiencyPercentage |-> s[x4]] : f \in DecodeBytes(Slice(s, pos, x))}
  BY Zenon DEF TxAt
<1>3. TxAt(u, pos, length) =
        {[TxAlreadyEncoded |-> FALSE, Data |-> <<>>,
          Tx |-> RlpFieldsToLegacyTx(f, Slice(u, x2, x3), Slice(u, x, x1), Slice(u, x1, x2)),
          EfficiencyPercentage |-> u[x4]] : f \in DecodeBytes(Slice(u, pos, x))}
  BY Zenon DEF TxAt
<1>. HIDE DEF x, x1, x2, x3, x4
<1>4. /\ Slice(u, x2, x3) = Slice(s, x2, x3) /\ Slice(u, x, x1) = Slice(s, x, x1)
      /\ Slice(u, x1, x2) = Slice(s, x1, x2) /\ Slice(u, pos, x) = Slice(s, pos, x)
      /\ u[x4] = s[x4]
  BY <1>1, SliceKept, ByteKept
<1>. HIDE DEF u
<1>5. TxAt(u, pos, length) = TxAt(s, pos, length)
  BY <1>2, <1>3, <1>4, Zenon
<1>. QED BY <1>5 DEF u

(* What is decoded has the types of what is encoded. *)
LEMMA DecodedFields ==
  ASSUME NEW s \in Bytes
  PROVE  \A f \in DecodeBytes(s) : f.data \in Bytes /\ f.optional \in Bytes
<1>. DEFINE starts == {h \in 1 .. Base - f7 : h < Len(s) /\ h + 1 + s[h + 1] <= Len(s)}
            fields(h) == [data |-> Slice(s, h + 1, h + 1 + s[h + 1]),
                          optional |-> Slice(s, h + 1 + s[h + 1], Len(s))]
<1>1. DecodeBytes(s) = {f \in {fields(h) : h \in starts} : EncodeToBytes(f) = s}
  BY DEF DecodeBytes
<1>2. ASSUME NEW h \in starts PROVE fields(h).data \in Bytes /\ fields(h).optional \in Bytes
  <2>. DEFINE x == h + 1
              y == h + 1 + s[h + 1]
              z == Len(s)
  <2>1. h \in Nat /\ x \in 1 .. Len(s) /\ y <= z /\ z \in Nat
    BY Bounds DEF Bytes
  <2>2. s[h + 1] \in Nat
    BY <2>1, ElementOfSeq DEF Bytes
  <2>3. x \in Nat /\ y \in Nat /\ x <= y
    BY <2>1, <2>2
  <2>4. z <= Len(s)
    BY <2>1
  <2>. HIDE DEF x, y, z
  <2>5. Slice(s, x, y) \in Bytes /\ Slice(s, y, z) \in Bytes
    <3>1. y <= Len(s)
      BY <2>1 DEF z
    <3>. QED BY <2>1, <2>3, <2>4, <3>1, SliceBytes
  <2>. QED BY <2>5 DEF x, y, z
<1>. HIDE DEF starts, fields
<1>. QED BY <1>1, <1>2

LEMMA TxAtType ==
  ASSUME NEW s \in Bytes, NEW pos \in Nat, NEW length \in Nat,
         pos + length + TailLength <= Len(s)
  PROVE  TxAt(s, pos, length) \subseteq DecodedTxSet
<1>. DEFINE x == pos + length
            x1 == x + rLength
            x2 == x + rLength + sLength
            x3 == x + rLength + sLength + vLength
            x4 == x + TailLength
<1>1. /\ x \in Nat /\ x1 \in Nat /\ x2 \in Nat /\ x3 \in Nat /\ x4 \in 1 .. Len(s)
      /\ pos <= x /\ x <= x1 /\ x1 <= x2 /\ x2 <= x3 /\ x3 <= Len(s) /\ x2 <= Len(s)
      /\ x1 <= Len(s) /\ x <= Len(s)
  BY Lengths DEF Bytes
<1>2. TxAt(s, pos, length) =
        {[TxAlreadyEncoded |-> FALSE, Data |-> <<>>,
          Tx |-> RlpFieldsToLegacyTx(f, Slice(s, x2, x3), Slice(s, x, x1), Slice(s, x1, x2)),
          EfficiencyPercentage |-> s[x4]] : f \in DecodeBytes(Slice(s, pos, x))}
  BY Zenon DEF TxAt
<1>. HIDE DEF x, x1, x2, x3, x4
<1>3. /\ Slice(s, x2, x3) \in Bytes /\ Slice(s, x, x1) \in Bytes
      /\ Slice(s, x1, x2) \in Bytes /\ Slice(s, pos, x) \in Bytes
  BY <1>1, SliceBytes
<1>4. s[x4] \in Nat
  BY <1>1, ElementOfSeq DEF Bytes
<1>5. ASSUME NEW f \in DecodeBytes(Slice(s, pos, x)), NEW v \in Bytes, NEW r \in Bytes, NEW q \in Bytes
      PROVE  RlpFieldsToLegacyTx(f, v, r, q) \in [data : Bytes, r : Nat, s : Nat, v : Int]
  <2>1. f.data \in Bytes /\ f.optional \in Bytes
    BY <1>3, DecodedFields
  <2>2. Number(v) \in Nat /\ Number(r) \in Nat /\ Number(q) \in Nat
    BY NumberNat
  <2>. DEFINE w == IF f.optional = <<>> THEN Number(v)
                   ELSE Number(v) - ether155V + 2 * f.optional[1] + etherPre155V
  <2>3. w \in Int
    <3>1. CASE f.optional = <<>>
      BY <2>2, <3>1
    <3>2. CASE f.optional # <<>>
      <4>1. f.optional[1] \in Nat
        BY <2>1, <3>2 DEF Bytes
      <4>2. Number(v) - ether155V + 2 * f.optional[1] + etherPre155V \in Int
        BY <2>2, <4>1, Lengths
      <4>. QED BY <3>2, <4>2, Zenon
    <3>. QED BY <3>1, <3>2
  <2>4. RlpFieldsToLegacyTx(f, v, r, q) =
          [data |-> f.data, r |-> Number(r), s |-> Number(q), v |-> w]
    BY Zenon DEF RlpFieldsToLegacyTx
  <2>. HIDE DEF w
  <2>. QED BY <2>1, <2>2, <2>3, <2>4
<1>6. ASSUME NEW tx \in TxAt(s, pos, length) PROVE tx \in DecodedTxSet
  <2>1. PICK f \in DecodeBytes(Slice(s, pos, x)) :
          tx = [TxAlreadyEncoded |-> FALSE, Data |-> <<>>,
                Tx |-> RlpFieldsToLegacyTx(f, Slice(s, x2, x3), Slice(s, x, x1), Slice(s, x1, x2)),
                EfficiencyPercentage |-> s[x4]]
    BY <1>2, <1>6, Zenon
  <2>. DEFINE y == RlpFieldsToLegacyTx(f, Slice(s, x2, x3), Slice(s, x, x1), Slice(s, x1, x2))
  <2>2. y \in [data : Bytes, r : Nat, s : Nat, v : Int]
    BY <1>3, <1>5
  <2>. HIDE DEF y
  <2>3. tx = [TxAlreadyEncoded |-> FALSE, Data |-> <<>>, Tx |-> y, EfficiencyPercentage |-> s[x4]]
    BY <2>1, Zenon DEF y
  <2>. DEFINE Y == [data : Bytes, r : Nat, s : Nat, v : Int]
  <2>. HIDE DEF Y
  <2>4. tx \in [TxAlreadyEncoded : {FALSE}, Data : {<<>>}, Tx : Y, EfficiencyPercentage : Nat]
    BY <1>4, <2>2, <2>3 DEF Y
  <2>. QED BY <2>4 DEF DecodedTxSet, Y
<1>. QED BY <1>6

ItemAt(it, pos, size) ==
  /\ it.isHeader \in BOOLEAN
  /\ it.end \in pos + 1 .. size
  /\ it.isHeader => it.content \in DecodedHeaders
  /\ ~ it.isHeader => it.content \in DecodedTxSet

(* An item that is found ends behind its place, and not behind the data. *)
LEMMA NextItemType ==
  ASSUME NEW s \in Bytes, NEW pos \in 0 .. Len(s) - 1
  PROVE  \A it \in NextItem(s, pos) : ItemAt(it, pos, Len(s))
<1>. DEFINE n == decodeRLPListLengthFromOffset(s, pos)
<1>1. /\ sizeUInt32 \in Nat /\ sizeUInt32 > 0 /\ pos \in Nat /\ Len(s) \in Nat
      /\ HeaderLength = 1 + 2 * sizeUInt32 /\ n \in Nat
  BY Bounds, LengthNat DEF Bytes, HeaderLength
<1>. HIDE DEF n
<1>2. CASE s[pos + 1] # changeL2Block
  <2>1. NextItem(s, pos) = {[isHeader |-> FALSE, content |-> tx, end |-> pos + n + TailLength] :
                              tx \in DecodeTxRLP(s, pos)}
    BY <1>2, Zenon DEF NextItem, n
  <2>2. ASSUME NEW tx \in DecodeTxRLP(s, pos) PROVE tx \in DecodedTxSet /\ pos + n + TailLength <= Len(s)
    <3>1. n > 0 /\ pos + n + TailLength <= Len(s) /\ tx \in TxAt(s, pos, n)
      BY <2>2, Zenon DEF DecodeTxRLP, n
    <3>. QED BY <1>1, <3>1, TxAtType
  <2>3. ASSUME NEW it \in NextItem(s, pos) PROVE ItemAt(it, pos, Len(s))
    <3>1. PICK tx \in DecodeTxRLP(s, pos) :
            it = [isHeader |-> FALSE, content |-> tx, end |-> pos + n + TailLength]
      BY <2>1, Zenon
    <3>2. tx \in DecodedTxSet /\ pos + n + TailLength \in pos + 1 .. Len(s)
      BY <1>1, <2>2, Lengths
    <3>3. it.isHeader = FALSE /\ it.content = tx /\ it.end = pos + n + TailLength
      BY <3>1
    <3>. QED BY <3>2, <3>3, Zenon DEF ItemAt
  <2>. QED BY <2>3
<1>3. CASE s[pos + 1] = changeL2Block /\ pos + HeaderLength <= Len(s)
  <2>. DEFINE h == decodeBlockHeader(s, pos + 1)
  <2>1. NextItem(s, pos) = {[isHeader |-> TRUE, content |-> h, end |-> pos + HeaderLength]}
    BY <1>3, Zenon DEF NextItem
  <2>2. h \in DecodedHeaders
    <3>. DEFINE x == pos + 1
                y == pos + 1 + sizeUInt32
                z == pos + 1 + 2 * sizeUInt32
    <3>1. x \in Nat /\ y \in Nat /\ z \in Nat /\ x <= y /\ y <= z /\ z <= Len(s) /\ y <= Len(s)
      BY <1>1, <1>3
    <3>2. h = [DeltaTimestamp |-> Number(Slice(s, x, y)), IndexL1InfoTree |-> Number(Slice(s, y, z))]
      BY Zenon DEF decodeBlockHeader
    <3>. HIDE DEF x, y, z, h
    <3>3. Number(Slice(s, x, y)) \in Nat /\ Number(Slice(s, y, z)) \in Nat
      BY <3>1, SliceBytes, NumberNat
    <3>. QED BY <3>2, <3>3 DEF DecodedHeaders
  <2>3. pos + HeaderLength \in pos + 1 .. Len(s)
    BY <1>1, <1>3
  <2>. HIDE DEF h
  <2>4. ASSUME NEW it \in NextItem(s, pos) PROVE ItemAt(it, pos, Len(s))
    <3>1. it.isHeader = TRUE /\ it.content = h /\ it.end = pos + HeaderLength
      BY <2>1
    <3>. QED BY <2>2, <2>3, <3>1, Zenon DEF ItemAt
  <2>. QED BY <2>4
<1>4. CASE s[pos + 1] = changeL2Block /\ ~ pos + HeaderLength <= Len(s)
  <2>1. NextItem(s, pos) = {}
    BY <1>4, Zenon DEF NextItem
  <2>. QED BY <2>1
<1>. QED BY <1>2, <1>3, <1>4

(* An item that is found is found as well when bytes follow. *)
LEMMA NextItemKept ==
  ASSUME NEW s \in Bytes, NEW t \in Bytes, NEW pos \in 0 .. Len(s) - 1, NextItem(s, pos) # {}
  PROVE  NextItem(s \o t, pos) = NextItem(s, pos)
<1>. DEFINE n == decodeRLPListLengthFromOffset(s, pos)
            u == s \o t
<1>1. /\ sizeUInt32 \in Nat /\ sizeUInt32 > 0 /\ pos \in Nat /\ Len(s) \in Nat /\ Len(t) \in Nat
      /\ HeaderLength = 1 + 2 * sizeUInt32 /\ n \in Nat
      /\ Len(u) = Len(s) + Len(t) /\ u[pos + 1] = s[pos + 1]
  <2>1. pos + 1 \in 1 .. Len(s) /\ pos \in Nat /\ Len(s) \in Nat /\ Len(t) \in Nat
    BY DEF Bytes
  <2>. QED BY <2>1, Bounds, LengthNat, ByteKept, ConcatAt DEF HeaderLength
<1>. HIDE DEF n, u
<1>2. CASE s[pos + 1] # changeL2Block
  <2>1. NextItem(s, pos) = {[isHeader |-> FALSE, content |-> tx, end |-> pos + n + TailLength] :
                              tx \in DecodeTxRLP(s, pos)}
    BY <1>2, Zenon DEF NextItem, n
  <2>2. n > 0 /\ pos + n + TailLength <= Len(s) /\ DecodeTxRLP(s, pos) = TxAt(s, pos, n)
    <3>1. DecodeTxRLP(s, pos) # {}
      BY <2>1
    <3>. QED BY <3>1, Zenon DEF DecodeTxRLP, n
  <2>3. decodeRLPListLengthFromOffset(u, pos) = n
    BY <2>2, LengthKept DEF n, u
  <2>4. DecodeTxRLP(u, pos) = TxAt(u, pos, n)
    <3>1. pos + n + TailLength <= Len(u)
      BY <1>1, <2>2, Lengths
    <3>. QED BY <2>2, <2>3, <3>1, Zenon DEF DecodeTxRLP
  <2>5. TxAt(u, pos, n) = TxAt(s, pos, n)
    BY <1>1, <2>2, TxAtKept DEF u
  <2>6. NextItem(u, pos) = {[isHeader |-> FALSE, content |-> tx, end |-> pos + n + TailLength] :
                              tx \in DecodeTxRLP(u, pos)}
    BY <1>1, <1>2, <2>3, Zenon DEF NextItem
  <2>. QED BY <2>1, <2>2, <2>4, <2>5, <2>6, Zenon DEF u
<1>3. CASE s[pos + 1] = changeL2Block
  <2>1. pos + HeaderLength <= Len(s)
    BY <1>3, Zenon DEF NextItem
  <2>2. pos + HeaderLength <= Len(u)
    BY <1>1, <2>1
  <2>3. decodeBlockHeader(u, pos + 1) = decodeBlockHeader(s, pos + 1)
    <3>. DEFINE x == pos + 1
                y == pos + 1 + sizeUInt32
                z == pos + 1 + 2 * sizeUInt32
    <3>1. x \in Nat /\ y \in Nat /\ z \in Nat /\ x <= y /\ y <= z /\ z <= Len(s) /\ y <= Len(s)
      BY <1>1, <2>1
    <3>2. \A w : decodeBlockHeader(w, pos + 1) =
            [DeltaTimestamp |-> Number(Slice(w, x, y)), IndexL1InfoTree |-> Number(Slice(w, y, z))]
      BY Zenon DEF decodeBlockHeader
    <3>. HIDE DEF x, y, z
    <3>3. Slice(u, x, y) = Slice(s, x, y) /\ Slice(u, y, z) = Slice(s, y, z)
      BY <3>1, SliceKept DEF u
    <3>. QED BY <3>2, <3>3, Zenon
  <2>4. /\ NextItem(s, pos) = {[isHeader |-> TRUE, content |-> decodeBlockHeader(s, pos + 1),
                               end |-> pos + HeaderLength]}
        /\ NextItem(u, pos) = {[isHeader |-> TRUE, content |-> decodeBlockHeader(u, pos + 1),
                               end |-> pos + HeaderLength]}
    BY <1>1, <1>3, <2>1, <2>2, Zenon DEF NextItem
  <2>. QED BY <2>3, <2>4 DEF u
<1>. QED BY <1>2, <1>3

(* NextTx is kept, too, when the length is not cut. *)
LEMMA NextTxKept ==
  ASSUME NEW s \in Bytes, NEW t \in Bytes, NEW pos \in 0 .. Len(s) - 1,
         ~ LengthIsCut(s, pos), NextTx(s, pos).txs # {}
  PROVE  /\ ~ LengthIsCut(s \o t, pos) /\ NextTx(s \o t, pos) = NextTx(s, pos)
         /\ NextTx(s, pos).end \in pos + 1 .. Len(s)
         /\ NextTx(s, pos).txs \subseteq DecodedTxSet
<1>. DEFINE u == s \o t
            num == s[pos + 1]
            k == num - f7
            m == Number(Slice(s, pos + 1, pos + 1 + k))
            mu == Number(Slice(u, pos + 1, pos + 1 + k))
            long == num - c0 > shortRlp
            length == IF long THEN m + k ELSE num - c0
            lengthu == IF long THEN mu + k ELSE num - c0
            end == EndPos(pos, length)
<1>1. /\ f7 = c0 + shortRlp /\ c0 \in Nat /\ shortRlp \in Nat /\ Len(s) \in Nat /\ Len(t) \in Nat
      /\ Len(u) = Len(s) + Len(t) /\ u[pos + 1] = num /\ num \in Nat /\ pos \in Nat
  <2>1. pos + 1 \in 1 .. Len(s) /\ pos \in Nat /\ Len(s) \in Nat /\ Len(t) \in Nat
    BY DEF Bytes
  <2>. QED BY <2>1, Bounds, ByteKept, ConcatAt
<1>2. ~ (long /\ pos + 1 + k > Len(s))
  BY Zenon DEF LengthIsCut
<1>3. NextTx(s, pos) =
        [end |-> end,
         txs |-> IF num < c0 \/ end > Len(s) THEN {} ELSE TxAt(s, pos, length + 1)]
  BY Zenon DEF NextTx, headerByteLength
<1>. HIDE DEF u
<1>4. LengthIsCut(u, pos) <=> long /\ pos + 1 + k > Len(u)
  BY <1>1, Zenon DEF LengthIsCut
<1>5. NextTx(u, pos) =
        [end |-> EndPos(pos, lengthu),
         txs |-> IF num < c0 \/ EndPos(pos, lengthu) > Len(u) THEN {}
                 ELSE TxAt(u, pos, lengthu + 1)]
  BY <1>1, Zenon DEF NextTx, headerByteLength
<1>6. long => pos + 1 + k <= Len(s) /\ m \in Nat /\ mu = m /\ k \in Nat
  <2>. SUFFICES ASSUME long PROVE pos + 1 + k <= Len(s) /\ m \in Nat /\ mu = m /\ k \in Nat
    BY Zenon
  <2>1. k \in Nat /\ pos + 1 + k <= Len(s) /\ pos + 1 \in Nat /\ pos + 1 + k \in Nat
        /\ pos + 1 <= pos + 1 + k
    BY <1>1, <1>2
  <2>2. m \in Nat
    BY <2>1, SliceBytes, NumberNat
  <2>3. mu = m
    BY <2>1, SliceKept DEF u
  <2>. QED BY <2>1, <2>2, <2>3, Zenon
<1>. HIDE DEF m, mu, k
<1>7. ~ num < c0 /\ ~ end > Len(s) /\ NextTx(s, pos).txs = TxAt(s, pos, length + 1)
  <2>1. NextTx(s, pos).txs = IF num < c0 \/ end > Len(s) THEN {} ELSE TxAt(s, pos, length + 1)
    BY <1>3
  <2>. QED BY <2>1, Zenon
<1>8. length \in Nat /\ lengthu = length
  <2>1. CASE long
    BY <1>6, <2>1
  <2>2. CASE ~ long
    BY <1>1, <1>7, <2>2
  <2>. QED BY <2>1, <2>2
<1>. HIDE DEF num, long, length, lengthu
<1>9. end = pos + length + 6 + 1
  BY Lengths, Zenon DEF EndPos
<1>10. end \in pos + 1 .. Len(s) /\ pos + (length + 1) + TailLength <= Len(s) /\ length + 1 \in Nat
  <2>1. ~ end > Len(s) /\ pos \in Nat /\ Len(s) \in Nat /\ length \in Nat /\ TailLength = 6
    BY <1>1, <1>7, <1>8, Lengths, Zenon
  <2>. HIDE DEF end
  <2>. QED BY <1>9, <2>1
<1>11. TxAt(u, pos, length + 1) = TxAt(s, pos, length + 1)
       /\ TxAt(s, pos, length + 1) \subseteq DecodedTxSet
  BY <1>1, <1>10, TxAtKept, TxAtType DEF u
<1>12. ~ end > Len(u)
  BY <1>1, <1>10
<1>13. NextTx(u, pos) = [end |-> end, txs |-> TxAt(s, pos, length + 1)]
  BY <1>5, <1>7, <1>8, <1>11, <1>12, Zenon
<1>14. NextTx(s, pos) = [end |-> end, txs |-> TxAt(s, pos, length + 1)]
  BY <1>3, <1>7, Zenon
<1>15. ~ LengthIsCut(u, pos)
  <2>1. ASSUME long PROVE ~ pos + 1 + k > Len(u)
    BY <1>1, <1>6, <2>1
  <2>. QED BY <1>4, <2>1, Zenon
<1>16. NextTx(s, pos).end = end
  BY <1>14
<1>. QED BY <1>7, <1>10, <1>11, <1>13, <1>14, <1>15, <1>16, Zenon DEF u

-----------------------------------------------------------------------------
(* The decoders, from the end of the data to the start. *)

ItemOf(s, pos) == CHOOSE it \in NextItem(s, pos) : TRUE

(* There is an item, if any, and it is taken. *)
LEMMA ItemOfType ==
  ASSUME NEW s \in Bytes, NEW pos \in 0 .. Len(s) - 1, NextItem(s, pos) # {}
  PROVE  /\ ItemOf(s, pos) \in NextItem(s, pos)
         /\ ItemAt(ItemOf(s, pos), pos, Len(s))
         /\ ItemOf(s, pos).end \in pos + 1 .. Len(s)
BY NextItemType, Zenon DEF ItemOf, ItemAt

(* The decoder's loop, from an item to the next: it exists, by induction from the end. *)
LEMMA DecodedStep ==
  ASSUME NEW s \in Bytes
  PROVE  /\ Decoded(s)[Len(s)] = NoMore
         /\ \A pos \in 0 .. Len(s) - 1 :
              Decoded(s)[pos] =
                IF NextItem(s, pos) = {} THEN Malformed
                ELSE Before(ItemOf(s, pos), Decoded(s)[ItemOf(s, pos).end])
<1>. DEFINE L == Len(s)
            Step(f, pos) ==
              IF pos = L THEN NoMore
              ELSE IF NextItem(s, pos) = {} THEN Malformed
              ELSE Before(ItemOf(s, pos), f[ItemOf(s, pos).end])
            T == {n \in Nat : n <= L => \E f : f = [pos \in L - n .. L |-> Step(f, pos)]}
<1>1. L \in Nat
  BY DEF Bytes
<1>2. \A pos \in 0 .. L - 1 : NextItem(s, pos) # {} => ItemOf(s, pos).end \in pos + 1 .. L
  BY ItemOfType
<1>. HIDE DEF L
<1>3. 0 \in T
  <2>. DEFINE f == [pos \in L - 0 .. L |-> NoMore]
  <2>1. f = [pos \in L - 0 .. L |-> Step(f, pos)]
    <3>1. \A pos \in L - 0 .. L : Step(f, pos) = NoMore
      <4>1. \A pos \in L - 0 .. L : pos = L
        BY <1>1
      <4>. QED BY <4>1
    <3>. HIDE DEF Step
    <3>. QED BY <3>1
  <2>. HIDE DEF f
  <2>. QED BY <2>1
<1>4. ASSUME NEW n \in Nat, n \in T PROVE n + 1 \in T
  <2>. SUFFICES ASSUME n + 1 <= L
                PROVE \E g : g = [pos \in L - (n + 1) .. L |-> Step(g, pos)]
    <3>1. n + 1 \in Nat
      OBVIOUS
    <3>. HIDE DEF Step
    <3>. QED BY <3>1, Zenon
  <2>1. PICK f : f = [pos \in L - n .. L |-> Step(f, pos)]
    BY <1>1, <1>4
  <2>. DEFINE g == [pos \in L - (n + 1) .. L |-> IF pos \in L - n .. L THEN f[pos] ELSE Step(f, pos)]
  <2>2. ASSUME NEW pos \in L - (n + 1) .. L PROVE Step(g, pos) = Step(f, pos)
    <3>1. CASE pos = L
      BY <3>1
    <3>2. CASE pos # L
      <4>1. pos \in 0 .. L - 1
        BY <1>1, <3>2
      <4>2. NextItem(s, pos) # {} =>
              ItemOf(s, pos).end \in L - n .. L /\ ItemOf(s, pos).end \in L - (n + 1) .. L
        <5>. DEFINE e == ItemOf(s, pos).end
        <5>1. NextItem(s, pos) # {} => e \in pos + 1 .. L
          BY <1>2, <4>1
        <5>. HIDE DEF e
        <5>2. e \in pos + 1 .. L => e \in L - n .. L /\ e \in L - (n + 1) .. L
          BY <1>1, <4>1
        <5>. QED BY <5>1, <5>2, Zenon DEF e
      <4>3. NextItem(s, pos) # {} => g[ItemOf(s, pos).end] = f[ItemOf(s, pos).end]
        <5>. DEFINE e == ItemOf(s, pos).end
        <5>. HIDE DEF e
        <5>1. e \in L - n .. L /\ e \in L - (n + 1) .. L => g[e] = f[e]
          OBVIOUS
        <5>. QED BY <4>2, <5>1, Zenon DEF e
      <4>. HIDE DEF g
      <4>. QED BY <3>2, <4>3, Zenon
    <3>. QED BY <3>1, <3>2
  <2>3. ASSUME NEW pos \in L - (n + 1) .. L PROVE g[pos] = Step(f, pos)
    <3>. HIDE DEF Step
    <3>1. CASE pos \in L - n .. L
      BY <2>1, <3>1
    <3>2. CASE pos \notin L - n .. L
      BY <3>2
    <3>. QED BY <3>1, <3>2
  <2>4. g = [pos \in L - (n + 1) .. L |-> g[pos]]
    OBVIOUS
  <2>. HIDE DEF g, Step
  <2>5. g = [pos \in L - (n + 1) .. L |-> Step(g, pos)]
    BY <2>2, <2>3, <2>4
  <2>. QED BY <2>5
<1>5. Nat \subseteq T
  <2>. HIDE DEF T
  <2>. QED BY <1>3, <1>4, SetInduction
<1>6. \E f : f = [pos \in 0 .. L |-> Step(f, pos)]
  <2>1. L <= L /\ L - L = 0 /\ L \in T
    <3>. HIDE DEF T
    <3>. QED BY <1>1, <1>5
  <2>2. \E f : f = [pos \in L - L .. L |-> Step(f, pos)]
    <3>. HIDE DEF Step
    <3>. QED BY <2>1, Zenon
  <2>. HIDE DEF Step
  <2>. QED BY <2>1, <2>2, Zenon
<1>7. Decoded(s) = CHOOSE f : f = [pos \in 0 .. L |-> Step(f, pos)]
  BY Zenon DEF Decoded, L, ItemOf
<1>8. Decoded(s) = [pos \in 0 .. L |-> Step(Decoded(s), pos)]
  <2>. HIDE DEF Step
  <2>. QED BY <1>6, <1>7
<1>9. \A pos \in 0 .. L : Decoded(s)[pos] = Step(Decoded(s), pos)
  <2>. HIDE DEF Step
  <2>. QED BY <1>8, Zenon
<1>10. L \in 0 .. L /\ \A pos \in 0 .. L - 1 : pos \in 0 .. L /\ pos # L
  BY <1>1
<1>11. Decoded(s)[L] = NoMore
  BY <1>9, <1>10, Zenon
<1>12. ASSUME NEW pos \in 0 .. L - 1
       PROVE Decoded(s)[pos] =
                IF NextItem(s, pos) = {} THEN Malformed
                ELSE Before(ItemOf(s, pos), Decoded(s)[ItemOf(s, pos).end])
  BY <1>9, <1>10, Zenon
<1>. QED BY <1>11, <1>12, Zenon DEF L

(* Induction from the end of the data to their start. *)
LEMMA DownInduction ==
  ASSUME NEW L \in Nat, NEW T, L \in T,
         \A pos \in 0 .. L - 1 : (\A q \in pos + 1 .. L : q \in T) => pos \in T
  PROVE  0 .. L \subseteq T
<1>. DEFINE U == {n \in Nat : n <= L => \A q \in L - n .. L : q \in T}
<1>1. 0 \in U
  <2>1. \A q \in L - 0 .. L : q = L
    OBVIOUS
  <2>. QED BY <2>1
<1>2. ASSUME NEW n \in Nat, n \in U PROVE n + 1 \in U
  <2>. SUFFICES ASSUME n + 1 <= L, NEW q \in L - (n + 1) .. L PROVE q \in T
    OBVIOUS
  <2>1. \A r \in L - n .. L : r \in T
    BY <1>2
  <2>2. CASE q \in L - n .. L
    BY <2>1, <2>2
  <2>3. CASE q \notin L - n .. L
    <3>1. q \in 0 .. L - 1 /\ \A r \in q + 1 .. L : r \in L - n .. L
      BY <2>3
    <3>. QED BY <2>1, <3>1
  <2>. QED BY <2>2, <2>3
<1>3. Nat \subseteq U
  <2>. HIDE DEF U
  <2>. QED BY <1>1, <1>2, SetInduction
<1>4. \A q \in L - L .. L : q \in T
  BY <1>3
<1>. QED BY <1>4

DecodedBlocks ==
  [DeltaTimestamp : Nat, IndexL1InfoTree : Nat, Transactions : Seq(DecodedTxSet)]

DecodedParts == [ok : BOOLEAN, blocks : Seq(DecodedBlocks), open : Seq(DecodedTxSet)]

(* The last block with one transaction more. *)
Longer(bs, tx) == [bs EXCEPT ![Len(bs)].Transactions = Append(@, tx)]

(* One item more, behind what has been decoded. *)
Extend(rest, it) ==
  IF it.isHeader
    THEN [ok |-> TRUE, blocks |-> Append(rest.blocks, Block(it.content, <<>>)),
          open |-> rest.open]
  ELSE IF rest.blocks = <<>>
    THEN [ok |-> TRUE, blocks |-> <<>>, open |-> Append(rest.open, it.content)]
  ELSE [ok |-> TRUE, blocks |-> Longer(rest.blocks, it.content), open |-> rest.open]

(* The parts that the decoder puts together have their types. *)
LEMMA NoMoreParts == NoMore \in DecodedParts /\ Malformed \in DecodedParts
                     /\ ~ Malformed.ok /\ NoMore.ok
BY DEF NoMore, Malformed, DecodedParts

LEMMA BlockType ==
  ASSUME NEW h \in DecodedHeaders, NEW txs \in Seq(DecodedTxSet)
  PROVE  Block(h, txs) \in DecodedBlocks
BY DEF Block, DecodedHeaders, DecodedBlocks

LEMMA PartsOf ==
  ASSUME NEW p \in DecodedParts
  PROVE  /\ p.ok \in BOOLEAN /\ p.blocks \in Seq(DecodedBlocks) /\ p.open \in Seq(DecodedTxSet)
         /\ p = [ok |-> p.ok, blocks |-> p.blocks, open |-> p.open]
BY DEF DecodedParts

LEMMA PartsIn ==
  ASSUME NEW bs \in Seq(DecodedBlocks), NEW txs \in Seq(DecodedTxSet), NEW ok \in BOOLEAN
  PROVE  [ok |-> ok, blocks |-> bs, open |-> txs] \in DecodedParts
BY DEF DecodedParts

LEMMA OneSeq ==
  ASSUME NEW S, NEW e \in S
  PROVE  <<e>> \in Seq(S) /\ Len(<<e>>) = 1 /\ <<e>>[1] = e /\ <<>> \in Seq(S)
OBVIOUS

LEMMA BeforeType ==
  ASSUME NEW it, NEW pos, NEW size, ItemAt(it, pos, size), NEW rest \in DecodedParts
  PROVE  /\ Before(it, rest) \in DecodedParts
         /\ Before(it, rest).ok = rest.ok
<1>1. CASE ~ rest.ok
  <2>1. Before(it, rest) = Malformed
    BY <1>1, Zenon DEF Before
  <2>. QED BY <1>1, <2>1, NoMoreParts, PartsOf
<1>2. CASE rest.ok /\ it.isHeader
  <2>. DEFINE b == Block(it.content, rest.open)
              bs == <<b>> \o rest.blocks
  <2>1. Before(it, rest) = [ok |-> TRUE, blocks |-> bs, open |-> <<>>]
    BY <1>2, Zenon DEF Before
  <2>2. b \in DecodedBlocks
    BY <1>2, PartsOf, BlockType DEF ItemAt
  <2>. HIDE DEF b
  <2>3. bs \in Seq(DecodedBlocks) /\ <<>> \in Seq(DecodedTxSet)
    BY <2>2, PartsOf, OneSeq, ConcatProperties
  <2>. HIDE DEF bs
  <2>4. TRUE \in BOOLEAN /\ rest.ok = TRUE
    BY <1>2, PartsOf
  <2>5. Before(it, rest).ok = TRUE
    BY <2>1
  <2>. QED BY <2>1, <2>3, <2>4, <2>5, PartsIn, Zenon
<1>3. CASE rest.ok /\ ~ it.isHeader
  <2>. DEFINE txs == <<it.content>> \o rest.open
  <2>1. Before(it, rest) = [ok |-> TRUE, blocks |-> rest.blocks, open |-> txs]
    BY <1>3, Zenon DEF Before
  <2>2. it.content \in DecodedTxSet
    BY <1>3 DEF ItemAt
  <2>3. txs \in Seq(DecodedTxSet)
    BY <2>2, PartsOf, OneSeq, ConcatProperties
  <2>. HIDE DEF txs
  <2>4. TRUE \in BOOLEAN /\ rest.ok = TRUE /\ rest.blocks \in Seq(DecodedBlocks)
    BY <1>3, PartsOf
  <2>5. Before(it, rest).ok = TRUE
    BY <2>1
  <2>. QED BY <2>1, <2>3, <2>4, <2>5, PartsIn, Zenon
<1>. QED BY <1>1, <1>2, <1>3

LEMMA DecodedType ==
  ASSUME NEW s \in Bytes
  PROVE  \A pos \in 0 .. Len(s) : Decoded(s)[pos] \in DecodedParts
<1>. DEFINE T == {pos \in 0 .. Len(s) : Decoded(s)[pos] \in DecodedParts}
<1>1. Len(s) \in Nat
  BY DEF Bytes
<1>2. Len(s) \in T
  BY <1>1, DecodedStep, NoMoreParts
<1>3. ASSUME NEW pos \in 0 .. Len(s) - 1, \A q \in pos + 1 .. Len(s) : q \in T
      PROVE  pos \in T
  <2>1. CASE NextItem(s, pos) = {}
    <3>1. Decoded(s)[pos] = Malformed
      BY <2>1, DecodedStep
    <3>. QED BY <1>1, <3>1, NoMoreParts
  <2>2. CASE NextItem(s, pos) # {}
    <3>1. /\ ItemAt(ItemOf(s, pos), pos, Len(s))
          /\ ItemOf(s, pos).end \in pos + 1 .. Len(s)
      BY <2>2, ItemOfType
    <3>2. Decoded(s)[ItemOf(s, pos).end] \in DecodedParts
      BY <1>3, <3>1
    <3>3. Decoded(s)[pos] = Before(ItemOf(s, pos), Decoded(s)[ItemOf(s, pos).end])
      BY <2>2, DecodedStep
    <3>4. Decoded(s)[pos] \in DecodedParts
      BY <3>1, <3>2, <3>3, BeforeType
    <3>. QED BY <1>1, <3>4
  <2>. QED BY <2>1, <2>2
<1>4. 0 .. Len(s) \subseteq T
  <2>. HIDE DEF T
  <2>. QED BY <1>1, <1>2, <1>3, DownInduction
<1>. QED BY <1>4

(* The last block gets one more transaction. *)
LEMMA LongerType ==
  ASSUME NEW bs \in Seq(DecodedBlocks), bs # <<>>, NEW tx \in DecodedTxSet
  PROVE  /\ Len(bs) \in Nat /\ Len(bs) > 0
         /\ Longer(bs, tx) \in Seq(DecodedBlocks) /\ Len(Longer(bs, tx)) = Len(bs)
         /\ Longer(bs, tx) # <<>>
         /\ \A i \in 1 .. Len(bs) :
              Longer(bs, tx)[i] = IF i = Len(bs)
                                    THEN Block(bs[i], Append(bs[i].Transactions, tx))
                                  ELSE bs[i]
<1>. DEFINE n == Len(bs)
            e == [bs[n] EXCEPT !.Transactions = Append(@, tx)]
<1>1. n \in Nat /\ n > 0 /\ n \in 1 .. Len(bs)
  BY EmptySeq
<1>2. bs[n] \in DecodedBlocks
  BY <1>1, ElementOfSeq
<1>3. e \in DecodedBlocks /\ e = Block(bs[n], Append(bs[n].Transactions, tx))
  <2>1. Append(bs[n].Transactions, tx) \in Seq(DecodedTxSet)
    BY <1>2, AppendProperties DEF DecodedBlocks
  <2>. DEFINE b == bs[n]
              a == Append(b.Transactions, tx)
  <2>2. b = [DeltaTimestamp |-> b.DeltaTimestamp, IndexL1InfoTree |-> b.IndexL1InfoTree,
             Transactions |-> b.Transactions]
        /\ b.DeltaTimestamp \in Nat /\ b.IndexL1InfoTree \in Nat
    BY <1>2 DEF DecodedBlocks
  <2>3. e = [b EXCEPT !.Transactions = a]
    OBVIOUS
  <2>. HIDE DEF b, e
  <2>4. a \in Seq(DecodedTxSet)
    BY <2>1 DEF b
  <2>. HIDE DEF a
  <2>5. e = [DeltaTimestamp |-> b.DeltaTimestamp, IndexL1InfoTree |-> b.IndexL1InfoTree,
             Transactions |-> a]
    BY <2>2, <2>3
  <2>6. e \in DecodedBlocks
    BY <2>2, <2>4, <2>5 DEF DecodedBlocks
  <2>. QED BY <2>5, <2>6, Zenon DEF Block, a, b
<1>4. Longer(bs, tx) = [bs EXCEPT ![n] = e]
  BY DEF Longer
<1>. HIDE DEF e
<1>5. /\ [bs EXCEPT ![n] = e] \in Seq(DecodedBlocks)
      /\ Len([bs EXCEPT ![n] = e]) = n
      /\ \A j \in 1 .. n : [bs EXCEPT ![n] = e][j] = IF j = n THEN e ELSE bs[j]
  BY <1>1, <1>3, ExceptSeq
<1>6. Longer(bs, tx) # <<>>
  <2>1. Len(<<>>) = 0
    OBVIOUS
  <2>. QED BY <1>1, <1>4, <1>5, <2>1
<1>. QED BY <1>1, <1>3, <1>4, <1>5, <1>6, Zenon

(* Decoded data with one more item behind them. *)
LEMMA ExtendType ==
  ASSUME NEW it, NEW pos, NEW size, ItemAt(it, pos, size), NEW rest \in DecodedParts
  PROVE  /\ Extend(rest, it) \in DecodedParts /\ Extend(rest, it).ok
         /\ Extend(rest, it).open = IF ~ it.isHeader /\ rest.blocks = <<>>
                                      THEN Append(rest.open, it.content) ELSE rest.open
         /\ Extend(rest, it).blocks =
              IF it.isHeader THEN Append(rest.blocks, Block(it.content, <<>>))
              ELSE IF rest.blocks = <<>> THEN <<>>
              ELSE Longer(rest.blocks, it.content)
<1>0. /\ rest.blocks \in Seq(DecodedBlocks) /\ rest.open \in Seq(DecodedTxSet)
      /\ TRUE \in BOOLEAN /\ <<>> \in Seq(DecodedTxSet) /\ <<>> \in Seq(DecodedBlocks)
  BY PartsOf, EmptySeq
<1>1. CASE it.isHeader
  <2>. DEFINE bs == Append(rest.blocks, Block(it.content, <<>>))
  <2>1. Extend(rest, it) = [ok |-> TRUE, blocks |-> bs, open |-> rest.open]
    BY <1>1, Zenon DEF Extend
  <2>2. bs \in Seq(DecodedBlocks)
    <3>1. Block(it.content, <<>>) \in DecodedBlocks
      BY <1>0, <1>1, BlockType DEF ItemAt
    <3>. QED BY <1>0, <3>1, AppendProperties
  <2>3. Extend(rest, it) \in DecodedParts
    BY <1>0, <2>1, <2>2, PartsIn, Zenon
  <2>4. /\ Extend(rest, it).ok = TRUE /\ Extend(rest, it).blocks = bs
        /\ Extend(rest, it).open = rest.open
    <3>. HIDE DEF bs
    <3>. QED BY <2>1
  <2>. QED BY <1>1, <2>3, <2>4, Zenon
<1>2. CASE ~ it.isHeader /\ rest.blocks = <<>>
  <2>. DEFINE txs == Append(rest.open, it.content)
  <2>1. Extend(rest, it) = [ok |-> TRUE, blocks |-> <<>>, open |-> txs]
    BY <1>2, Zenon DEF Extend
  <2>2. txs \in Seq(DecodedTxSet)
    BY <1>0, <1>2, AppendProperties DEF ItemAt
  <2>3. Extend(rest, it) \in DecodedParts
    BY <1>0, <2>1, <2>2, PartsIn, Zenon
  <2>4. /\ Extend(rest, it).ok = TRUE /\ Extend(rest, it).blocks = <<>>
        /\ Extend(rest, it).open = txs
    <3>. HIDE DEF txs
    <3>. QED BY <2>1
  <2>. QED BY <1>2, <2>3, <2>4, Zenon
<1>3. CASE ~ it.isHeader /\ rest.blocks # <<>>
  <2>. DEFINE bs == Longer(rest.blocks, it.content)
  <2>1. Extend(rest, it) = [ok |-> TRUE, blocks |-> bs, open |-> rest.open]
    BY <1>3, Zenon DEF Extend
  <2>2. bs \in Seq(DecodedBlocks)
    BY <1>0, <1>3, LongerType DEF ItemAt
  <2>. HIDE DEF bs
  <2>3. Extend(rest, it) \in DecodedParts
    BY <1>0, <2>1, <2>2, PartsIn, Zenon
  <2>4. /\ Extend(rest, it).ok = TRUE /\ Extend(rest, it).blocks = bs
        /\ Extend(rest, it).open = rest.open
    BY <2>1
  <2>. QED BY <1>3, <2>3, <2>4, Zenon DEF bs
<1>. QED BY <1>1, <1>2, <1>3

(* Decoded data with one more item before them. *)
LEMMA BeforeOk ==
  ASSUME NEW it, NEW pos, NEW size, ItemAt(it, pos, size), NEW rest \in DecodedParts, rest.ok
  PROVE  /\ Before(it, rest).blocks =
              IF it.isHeader THEN <<Block(it.content, rest.open)>> \o rest.blocks
              ELSE rest.blocks
         /\ Before(it, rest).open =
              IF it.isHeader THEN <<>> ELSE <<it.content>> \o rest.open
<1>1. CASE it.isHeader
  <2>. DEFINE bs == <<Block(it.content, rest.open)>> \o rest.blocks
  <2>1. Before(it, rest) = [ok |-> TRUE, blocks |-> bs, open |-> <<>>]
    BY <1>1, Zenon DEF Before
  <2>. HIDE DEF bs
  <2>2. Before(it, rest).blocks = bs /\ Before(it, rest).open = <<>>
    BY <2>1
  <2>. QED BY <1>1, <2>2, Zenon DEF bs
<1>2. CASE ~ it.isHeader
  <2>. DEFINE txs == <<it.content>> \o rest.open
  <2>1. Before(it, rest) = [ok |-> TRUE, blocks |-> rest.blocks, open |-> txs]
    BY <1>2, Zenon DEF Before
  <2>. HIDE DEF txs
  <2>2. Before(it, rest).blocks = rest.blocks /\ Before(it, rest).open = txs
    BY <2>1
  <2>. QED BY <1>2, <2>2, Zenon DEF txs
<1>. QED BY <1>1, <1>2

(* Adding in front and behind commute. *)
LEMMA ConsAppend ==
  ASSUME NEW S, NEW a \in S, NEW q \in Seq(S), NEW e \in S
  PROVE  <<a>> \o Append(q, e) = Append(<<a>> \o q, e)
<1>1. <<a>> \in Seq(S) /\ <<e>> \in Seq(S) /\ <<a>> \o q \in Seq(S)
  BY OneSeq, ConcatProperties
<1>2. Append(q, e) = q \o <<e>> /\ Append(<<a>> \o q, e) = (<<a>> \o q) \o <<e>>
  BY <1>1, AppendIsConcat
<1>3. (<<a>> \o q) \o <<e>> = <<a>> \o (q \o <<e>>)
  BY <1>1, ConcatAssociative
<1>. QED BY <1>2, <1>3, Zenon

LEMMA ConsLonger ==
  ASSUME NEW b \in DecodedBlocks, NEW bs \in Seq(DecodedBlocks), bs # <<>>,
         NEW tx \in DecodedTxSet
  PROVE  <<b>> \o Longer(bs, tx) = Longer(<<b>> \o bs, tx)
<1>. DEFINE one == <<b>>
            n == Len(bs)
            cs == one \o bs
            ls == Longer(bs, tx)
            ms == Longer(cs, tx)
            new(x) == Block(x, Append(x.Transactions, tx))
<1>1. one \in Seq(DecodedBlocks) /\ Len(one) = 1 /\ one[1] = b
  BY OneSeq
<1>. HIDE DEF one
<1>2. /\ n \in Nat /\ n > 0 /\ ls \in Seq(DecodedBlocks) /\ Len(ls) = n
      /\ \A i \in 1 .. n : ls[i] = IF i = n THEN new(bs[i]) ELSE bs[i]
  BY LongerType
<1>3. /\ cs \in Seq(DecodedBlocks) /\ Len(cs) = 1 + n
      /\ \A i \in 1 .. 1 + n : cs[i] = IF i <= 1 THEN one[i] ELSE bs[i - 1]
  BY <1>1, ConcatProperties
<1>. HIDE DEF ls, cs, n
<1>4. cs # <<>>
  <2>1. Len(<<>>) = 0 /\ 1 + n > 0
    BY <1>2
  <2>. QED BY <1>3, <2>1
<1>5. /\ ms \in Seq(DecodedBlocks) /\ Len(ms) = 1 + n
      /\ \A i \in 1 .. 1 + n : ms[i] = IF i = 1 + n THEN new(cs[i]) ELSE cs[i]
  BY <1>3, <1>4, LongerType
<1>6. /\ one \o ls \in Seq(DecodedBlocks) /\ Len(one \o ls) = 1 + n
      /\ \A i \in 1 .. 1 + n : (one \o ls)[i] = IF i <= 1 THEN one[i] ELSE ls[i - 1]
  <2>1. /\ one \o ls \in Seq(DecodedBlocks) /\ Len(one \o ls) = Len(one) + Len(ls)
        /\ \A i \in 1 .. Len(one) + Len(ls) :
             (one \o ls)[i] = IF i <= Len(one) THEN one[i] ELSE ls[i - Len(one)]
    BY <1>1, <1>2, ConcatProperties
  <2>2. Len(one) = 1 /\ Len(ls) = n
    BY <1>1, <1>2
  <2>. QED BY <2>1, <2>2, Zenon
<1>. HIDE DEF ms, new
<1>7. ASSUME NEW i \in 1 .. 1 + n PROVE (one \o ls)[i] = ms[i]
  <2>1. CASE i = 1 + n
    <3>1. i - 1 \in 1 .. n /\ i - 1 = n /\ ~ i <= 1
      BY <1>2, <2>1
    <3>. QED BY <1>2, <1>3, <1>5, <1>6, <2>1, <3>1, Zenon
  <2>2. CASE i # 1 + n /\ i > 1
    <3>1. i - 1 \in 1 .. n /\ i - 1 # n /\ ~ i <= 1
      BY <1>2, <2>2
    <3>. QED BY <1>2, <1>3, <1>5, <1>6, <2>2, <3>1, Zenon
  <2>3. CASE i # 1 + n /\ ~ i > 1
    <3>1. i <= 1
      BY <1>2, <2>3
    <3>2. (one \o ls)[i] = one[i] /\ cs[i] = one[i]
      BY <1>3, <1>6, <3>1, Zenon
    <3>3. ms[i] = cs[i]
      BY <1>5, <2>3, Zenon
    <3>. QED BY <3>2, <3>3, Zenon
  <2>. QED BY <2>1, <2>2, <2>3
<1>8. one \o ls = ms
  <2>. DEFINE p == one \o ls
  <2>1. p \in Seq(DecodedBlocks) /\ Len(p) = Len(ms) /\ \A i \in 1 .. Len(p) : p[i] = ms[i]
    BY <1>5, <1>6, <1>7
  <2>. HIDE DEF p
  <2>2. p = ms
    BY <1>5, <2>1, SeqEqual
  <2>. QED BY <2>2 DEF p
<1>. QED BY <1>8 DEF one, ls, ms, cs

(* Whether the last item or the first one is taken first makes no difference. *)
LEMMA BeforeExtend ==
  ASSUME NEW it, NEW pos, NEW size, ItemAt(it, pos, size),
         NEW last, NEW lastPos, NEW lastSize, ItemAt(last, lastPos, lastSize),
         NEW rest \in DecodedParts, rest.ok
  PROVE  Before(it, Extend(rest, last)) = Extend(Before(it, rest), last)
<1>. DEFINE ext == Extend(rest, last)
            bef == Before(it, rest)
            lhs == Before(it, ext)
            rhs == Extend(bef, last)
            c == last.content
            bs == rest.blocks
            txs == rest.open
            b == Block(it.content, txs)
<1>1. ext \in DecodedParts /\ ext.ok /\ bef \in DecodedParts /\ bef.ok
  BY ExtendType, BeforeType
<1>2. lhs \in DecodedParts /\ rhs \in DecodedParts /\ lhs.ok /\ rhs.ok
  <2>. HIDE DEF ext, bef
  <2>. QED BY <1>1, ExtendType, BeforeType
<1>3. bs \in Seq(DecodedBlocks) /\ txs \in Seq(DecodedTxSet)
  BY PartsOf
<1>4. /\ ext.open = IF ~ last.isHeader /\ bs = <<>> THEN Append(txs, c) ELSE txs
      /\ ext.blocks = IF last.isHeader THEN Append(bs, Block(c, <<>>))
                      ELSE IF bs = <<>> THEN <<>> ELSE Longer(bs, c)
  BY ExtendType
<1>5. /\ bef.blocks = IF it.isHeader THEN <<b>> \o bs ELSE bs
      /\ bef.open = IF it.isHeader THEN <<>> ELSE <<it.content>> \o txs
  BY BeforeOk
<1>6. /\ lhs.blocks = IF it.isHeader THEN <<Block(it.content, ext.open)>> \o ext.blocks
                      ELSE ext.blocks
      /\ lhs.open = IF it.isHeader THEN <<>> ELSE <<it.content>> \o ext.open
  <2>. HIDE DEF ext
  <2>. QED BY <1>1, BeforeOk
<1>7. /\ rhs.open = IF ~ last.isHeader /\ bef.blocks = <<>> THEN Append(bef.open, c) ELSE bef.open
      /\ rhs.blocks = IF last.isHeader THEN Append(bef.blocks, Block(c, <<>>))
                      ELSE IF bef.blocks = <<>> THEN <<>> ELSE Longer(bef.blocks, c)
  <2>. HIDE DEF bef
  <2>. QED BY <1>1, ExtendType
<1>8. /\ it.isHeader => b \in DecodedBlocks
      /\ ~ it.isHeader => it.content \in DecodedTxSet
      /\ last.isHeader => Block(c, <<>>) \in DecodedBlocks
      /\ ~ last.isHeader => c \in DecodedTxSet
  BY <1>3, BlockType, EmptySeq DEF ItemAt
<1>. HIDE DEF ext, bef, lhs, rhs, bs, txs, c
<1>9. it.isHeader => <<b>> \o bs # <<>>
  BY <1>3, <1>8, OneSeq, ConcatEqualIffEmpty
<1>10. CASE it.isHeader /\ last.isHeader
  <2>1. <<b>> \o Append(bs, Block(c, <<>>)) = Append(<<b>> \o bs, Block(c, <<>>))
    BY <1>3, <1>8, <1>10, ConsAppend
  <2>2. lhs.blocks = rhs.blocks
    BY <1>4, <1>5, <1>6, <1>7, <1>10, <2>1, Zenon
  <2>3. lhs.open = rhs.open
    BY <1>4, <1>5, <1>6, <1>7, <1>10, Zenon
  <2>. QED BY <1>2, <2>2, <2>3, PartsOf DEF lhs, rhs, ext, bef
<1>11. CASE it.isHeader /\ ~ last.isHeader /\ bs # <<>>
  <2>. HIDE DEF b
  <2>1. <<b>> \o Longer(bs, c) = Longer(<<b>> \o bs, c)
    BY <1>3, <1>8, <1>11, ConsLonger
  <2>2. lhs.blocks = <<b>> \o Longer(bs, c)
    BY <1>4, <1>6, <1>11, Zenon DEF b
  <2>3. rhs.blocks = Longer(<<b>> \o bs, c)
    BY <1>5, <1>7, <1>9, <1>11, Zenon
  <2>4. lhs.open = rhs.open
    BY <1>4, <1>5, <1>6, <1>7, <1>9, <1>11, Zenon
  <2>. QED BY <1>2, <2>1, <2>2, <2>3, <2>4, PartsOf DEF lhs, rhs, ext, bef
<1>12. CASE it.isHeader /\ ~ last.isHeader /\ bs = <<>>
  <2>. DEFINE b2 == Block(it.content, Append(txs, c))
  <2>1. b2 \in DecodedBlocks
    BY <1>3, <1>8, <1>12, AppendProperties, BlockType DEF ItemAt
  <2>2. lhs.blocks = <<b2>> \o <<>>
    BY <1>4, <1>6, <1>12, Zenon
  <2>3. <<b2>> \o <<>> = <<b2>>
    <3>. HIDE DEF b2
    <3>. QED BY <2>1, OneSeq, ConcatEmptySeq
  <2>4. <<b>> \o bs = <<b>>
    <3>. HIDE DEF b
    <3>. QED BY <1>8, <1>12, OneSeq, ConcatEmptySeq
  <2>5. rhs.blocks = Longer(<<b>>, c)
    BY <1>5, <1>7, <1>9, <1>12, <2>4, Zenon
  <2>6. Longer(<<b>>, c) = <<b2>>
    <3>1. b.Transactions = txs /\ Block(b, Append(txs, c)) = b2
      BY DEF Block
    <3>. HIDE DEF b
    <3>2. <<b>> \in Seq(DecodedBlocks) /\ Len(<<b>>) = 1 /\ <<b>>[1] = b /\ <<b>> # <<>>
      BY <1>8, <1>12, OneSeq
    <3>. DEFINE one == <<b>>
                lo == Longer(one, c)
                two == <<b2>>
    <3>. HIDE DEF one, b2
    <3>3. two \in Seq(DecodedBlocks) /\ Len(two) = 1 /\ two[1] = b2
      BY <2>1, OneSeq
    <3>4. lo \in Seq(DecodedBlocks) /\ Len(lo) = Len(one)
          /\ \A i \in 1 .. Len(one) :
               lo[i] = IF i = Len(one) THEN Block(one[i], Append(one[i].Transactions, c)) ELSE one[i]
      BY <1>8, <1>12, <3>2, LongerType DEF one
    <3>5. Len(lo) = 1 /\ lo[1] = b2
      <4>1. Len(one) = 1 /\ one[1] = b /\ 1 \in 1 .. 1
        BY <3>2 DEF one
      <4>. QED BY <3>1, <3>4, <4>1, Zenon
    <3>. HIDE DEF lo, two
    <3>6. \A i \in 1 .. 1 : i = 1
      OBVIOUS
    <3>7. lo = two
      BY <3>3, <3>4, <3>5, <3>6, SeqEqual
    <3>. QED BY <3>7 DEF lo, two, one
  <2>7. lhs.open = rhs.open
    BY <1>4, <1>5, <1>6, <1>7, <1>9, <1>12, Zenon
  <2>. HIDE DEF b, b2
  <2>8. lhs.blocks = rhs.blocks
    BY <2>2, <2>3, <2>5, <2>6, Zenon
  <2>. QED BY <1>2, <2>7, <2>8, PartsOf DEF lhs, rhs, ext, bef
<1>13. CASE ~ it.isHeader
  <2>1. lhs.blocks = rhs.blocks
    BY <1>4, <1>5, <1>6, <1>7, <1>13, Zenon
  <2>2. CASE ~ last.isHeader /\ bs = <<>>
    <3>1. <<it.content>> \o Append(txs, c) = Append(<<it.content>> \o txs, c)
      BY <1>3, <1>8, <1>13, <2>2, ConsAppend
    <3>2. lhs.open = rhs.open
      BY <1>4, <1>5, <1>6, <1>7, <1>13, <2>2, <3>1, Zenon
    <3>. QED BY <1>2, <2>1, <3>2, PartsOf DEF lhs, rhs, ext, bef
  <2>3. CASE ~ (~ last.isHeader /\ bs = <<>>)
    <3>1. lhs.open = rhs.open
      BY <1>4, <1>5, <1>6, <1>7, <1>13, <2>3, Zenon
    <3>. QED BY <1>2, <2>1, <3>1, PartsOf DEF lhs, rhs, ext, bef
  <2>. QED BY <2>2, <2>3
<1>14. it.isHeader \in BOOLEAN /\ last.isHeader \in BOOLEAN
  BY DEF ItemAt
<1>. QED BY <1>10, <1>11, <1>12, <1>13, <1>14

(* One item more behind data that is decoded is one item more behind what is decoded. *)
LEMMA DecodedExtends ==
  ASSUME NEW s \in Bytes, NEW t \in Bytes,
         NEW last, NEW lastPos, NEW lastSize, ItemAt(last, lastPos, lastSize),
         Decoded(s \o t)[Len(s)] = Before(last, NoMore)
  PROVE  \A pos \in 0 .. Len(s) :
           Decoded(s)[pos].ok => Decoded(s \o t)[pos] = Extend(Decoded(s)[pos], last)
<1>. DEFINE u == s \o t
            T == {pos \in 0 .. Len(s) :
                    Decoded(s)[pos].ok => Decoded(u)[pos] = Extend(Decoded(s)[pos], last)}
<1>1. u \in Bytes /\ Len(u) = Len(s) + Len(t) /\ Len(s) \in Nat /\ Len(t) \in Nat
  BY ConcatAt
<1>2. Len(s) \in T
  <2>1. Decoded(s)[Len(s)] = NoMore
    BY DecodedStep
  <2>2. Before(last, NoMore) = Extend(NoMore, last)
    <3>1. NoMore.ok = TRUE /\ NoMore.blocks = <<>> /\ NoMore.open = <<>>
      BY DEF NoMore
    <3>2. CASE last.isHeader
      <4>. DEFINE b == Block(last.content, <<>>)
      <4>1. b \in DecodedBlocks
        BY <3>2, BlockType, EmptySeq DEF ItemAt
      <4>. HIDE DEF b
      <4>2. <<b>> \o <<>> = Append(<<>>, b)
        BY <4>1, EmptySeq, AppendIsConcat, ConcatEmptySeq, OneSeq
      <4>3. Before(last, NoMore) = [ok |-> TRUE, blocks |-> <<b>> \o <<>>, open |-> <<>>]
        BY <3>1, <3>2, Zenon DEF Before, b
      <4>4. Extend(NoMore, last) = [ok |-> TRUE, blocks |-> Append(<<>>, b), open |-> <<>>]
        BY <3>1, <3>2, Zenon DEF Extend, b
      <4>. QED BY <4>2, <4>3, <4>4, Zenon
    <3>3. CASE ~ last.isHeader
      <4>. DEFINE c == last.content
      <4>1. c \in DecodedTxSet
        BY <3>3 DEF ItemAt
      <4>. HIDE DEF c
      <4>2. <<c>> \o <<>> = Append(<<>>, c)
        BY <4>1, EmptySeq, AppendIsConcat, ConcatEmptySeq, OneSeq
      <4>3. Before(last, NoMore) = [ok |-> TRUE, blocks |-> <<>>, open |-> <<c>> \o <<>>]
        BY <3>1, <3>3, Zenon DEF Before, c
      <4>4. Extend(NoMore, last) = [ok |-> TRUE, blocks |-> <<>>, open |-> Append(<<>>, c)]
        BY <3>1, <3>3, Zenon DEF Extend, c
      <4>. QED BY <4>2, <4>3, <4>4, Zenon
    <3>. QED BY <3>2, <3>3
  <2>. QED BY <1>1, <2>1, <2>2
<1>3. ASSUME NEW pos \in 0 .. Len(s) - 1, \A q \in pos + 1 .. Len(s) : q \in T
      PROVE  pos \in T
  <2>. SUFFICES ASSUME Decoded(s)[pos].ok
                PROVE  Decoded(u)[pos] = Extend(Decoded(s)[pos], last)
    BY <1>1
  <2>. DEFINE it == ItemOf(s, pos)
              rest == Decoded(s)[it.end]
  <2>1. NextItem(s, pos) # {} /\ Decoded(s)[pos] = Before(it, rest)
    BY DecodedStep, NoMoreParts, Zenon
  <2>2. ItemAt(it, pos, Len(s)) /\ it.end \in pos + 1 .. Len(s)
    BY <2>1, ItemOfType
  <2>3. it.end \in 0 .. Len(s)
    BY <1>1, <2>2
  <2>4. rest \in DecodedParts
    BY <2>3, DecodedType
  <2>5. rest.ok
    BY <2>1, <2>2, <2>4, BeforeType
  <2>6. Decoded(u)[it.end] = Extend(rest, last)
    BY <1>3, <2>2, <2>5
  <2>7. NextItem(u, pos) = NextItem(s, pos) /\ ItemOf(u, pos) = it
    <3>1. NextItem(u, pos) = NextItem(s, pos)
      BY <2>1, NextItemKept
    <3>. QED BY <3>1, Zenon DEF ItemOf
  <2>8. Decoded(u)[pos] = Before(it, Extend(rest, last))
    <3>1. pos \in 0 .. Len(u) - 1
      BY <1>1
    <3>2. NextItem(u, pos) # {}
      BY <2>1, <2>7
    <3>. HIDE DEF u
    <3>3. Decoded(u)[pos] = Before(ItemOf(u, pos), Decoded(u)[ItemOf(u, pos).end])
      BY <1>1, <3>1, <3>2, DecodedStep
    <3>. HIDE DEF it
    <3>. QED BY <2>6, <2>7, <3>3, Zenon
  <2>. HIDE DEF it, rest
  <2>9. Before(it, Extend(rest, last)) = Extend(Before(it, rest), last)
    BY <2>2, <2>4, <2>5, BeforeExtend
  <2>. QED BY <2>1, <2>8, <2>9, Zenon
<1>4. 0 .. Len(s) \subseteq T
  <2>. HIDE DEF T
  <2>. QED BY <1>1, <1>2, <1>3, DownInduction
<1>. QED BY <1>4

(* What is wrong at the end is wrong from the start. *)
LEMMA DecodedFails ==
  ASSUME NEW s \in Bytes, NEW t \in Bytes, ~ Decoded(s \o t)[Len(s)].ok
  PROVE  \A pos \in 0 .. Len(s) : Decoded(s)[pos].ok => ~ Decoded(s \o t)[pos].ok
<1>. DEFINE u == s \o t
            T == {pos \in 0 .. Len(s) : Decoded(s)[pos].ok => ~ Decoded(u)[pos].ok}
<1>1. u \in Bytes /\ Len(u) = Len(s) + Len(t) /\ Len(s) \in Nat /\ Len(t) \in Nat
  BY ConcatAt
<1>2. Len(s) \in T
  BY <1>1
<1>3. ASSUME NEW pos \in 0 .. Len(s) - 1, \A q \in pos + 1 .. Len(s) : q \in T
      PROVE  pos \in T
  <2>. SUFFICES ASSUME Decoded(s)[pos].ok
                PROVE  ~ Decoded(u)[pos].ok
    BY <1>1
  <2>. DEFINE it == ItemOf(s, pos)
              rest == Decoded(s)[it.end]
              more == Decoded(u)[it.end]
  <2>1. NextItem(s, pos) # {} /\ Decoded(s)[pos] = Before(it, rest)
    BY DecodedStep, NoMoreParts, Zenon
  <2>2. ItemAt(it, pos, Len(s)) /\ it.end \in pos + 1 .. Len(s)
    BY <2>1, ItemOfType
  <2>3. it.end \in 0 .. Len(s) /\ it.end \in 0 .. Len(u)
    BY <1>1, <2>2
  <2>4. rest \in DecodedParts /\ more \in DecodedParts
    BY <1>1, <2>3, DecodedType
  <2>5. rest.ok
    BY <2>1, <2>2, <2>4, BeforeType
  <2>6. ~ more.ok
    BY <1>3, <2>2, <2>5
  <2>7. NextItem(u, pos) = NextItem(s, pos) /\ ItemOf(u, pos) = it
    <3>1. NextItem(u, pos) = NextItem(s, pos)
      BY <2>1, NextItemKept
    <3>. QED BY <3>1, Zenon DEF ItemOf
  <2>8. Decoded(u)[pos] = Before(it, more)
    <3>1. pos \in 0 .. Len(u) - 1
      BY <1>1
    <3>. HIDE DEF u
    <3>. QED BY <1>1, <2>1, <2>7, <3>1, DecodedStep, Zenon
  <2>. HIDE DEF it, more
  <2>9. Before(it, more).ok = more.ok
    BY <2>2, <2>4, BeforeType
  <2>. QED BY <2>6, <2>8, <2>9, Zenon
<1>4. 0 .. Len(s) \subseteq T
  <2>. HIDE DEF T
  <2>. QED BY <1>1, <1>2, <1>3, DownInduction
<1>. QED BY <1>4

(* Concatenation is associative. *)
LEMMA Associative ==
  ASSUME NEW S
  PROVE  \A a, b, c \in Seq(S) : (a \o b) \o c = a \o (b \o c)
BY ConcatAssociative

LEMMA NatAssociative ==
  \A a, b, c \in Seq(Nat) : (a \o b) \o c = a \o (b \o c)
<1>. TAKE a, b, c \in Seq(Nat)
<1>. QED BY ConcatAssociative

(* A cut behind s. *)
LEMMA CutParts ==
  ASSUME NEW s \in Bytes, NEW piece \in Bytes,
         NEW n \in Len(s) + 1 .. Len(s) + Len(piece) - 1
  PROVE  \E p, q \in Bytes :
           /\ piece = p \o q /\ Len(p) > 0 /\ Len(q) > 0 /\ Len(p) \in Nat /\ Len(q) \in Nat
           /\ Slice(s \o piece, 0, n) = s \o p
           /\ (s \o p) \o q = s \o piece
<1>. DEFINE k == n - Len(s)
            p == SubSeq(piece, 1, k)
            q == SubSeq(piece, k + 1, Len(piece))
<1>1. s \in Seq(Nat) /\ piece \in Seq(Nat) /\ Len(s) \in Nat /\ Len(piece) \in Nat
  BY DEF Bytes
<1>2. k \in 1 .. Len(piece) - 1 /\ n = Len(s) + k
  BY <1>1
<1>. HIDE DEF k
<1>3. p \in Seq(Nat) /\ Len(p) = k
  <2>1. k <= Len(piece) /\ k \in Nat /\ 0 <= k /\ 0 + 1 = 1 /\ k - 0 = k
    BY <1>1, <1>2
  <2>2. Slice(piece, 0, k) \in Seq(Nat) /\ Len(Slice(piece, 0, k)) = k - 0
    BY <1>1, <2>1, SliceSeq
  <2>. QED BY <2>1, <2>2, Zenon DEF Slice
<1>4. q \in Seq(Nat) /\ Len(q) = Len(piece) - k
  <2>1. k <= Len(piece) /\ k \in Nat /\ Len(piece) <= Len(piece)
    BY <1>1, <1>2
  <2>2. Slice(piece, k, Len(piece)) \in Seq(Nat) /\ Len(Slice(piece, k, Len(piece))) = Len(piece) - k
    BY <1>1, <2>1, SliceSeq
  <2>. QED BY <2>2, Zenon DEF Slice
<1>5. p \o q = piece
  <2>1. /\ 1 \in 1 .. Len(piece) + 1 /\ k \in 1 - 1 .. Len(piece)
        /\ Len(piece) \in k .. Len(piece)
    BY <1>1, <1>2
  <2>2. p \o q = SubSeq(piece, 1, Len(piece))
    BY <1>1, <2>1, ConcatAdjacentSubSeq
  <2>. QED BY <1>1, <2>2, SubSeqFull
<1>. HIDE DEF p, q
<1>6. (s \o p) \o q = s \o piece
  <2>1. s \in Seq(Nat) /\ p \in Seq(Nat) /\ q \in Seq(Nat)
    BY <1>1, <1>3, <1>4, Zenon
  <2>2. (s \o p) \o q = s \o (p \o q)
    BY <2>1, NatAssociative, Zenon
  <2>. QED BY <1>5, <2>2, Zenon
<1>7. Slice(s \o piece, 0, n) = s \o p
  <2>. DEFINE a == s \o p
  <2>1. a \in Bytes /\ Len(a) = n /\ q \in Bytes
    BY <1>1, <1>2, <1>3, <1>4, ConcatProperties DEF Bytes
  <2>. HIDE DEF a
  <2>2. At(a \o q, 0, a) /\ a \o q \in Bytes
    BY <2>1, ConcatAt
  <2>3. Slice(a \o q, 0, 0 + Len(a)) = a
    <3>. DEFINE aq == a \o q
    <3>1. 0 \in Nat
      OBVIOUS
    <3>. HIDE DEF aq
    <3>2. Slice(aq, 0, 0 + Len(a)) = a
      BY <2>1, <2>2, <3>1, SliceAt DEF aq
    <3>. QED BY <3>2 DEF aq
  <2>4. 0 + Len(a) = n
    BY <1>1, <2>1
  <2>. QED BY <1>6, <2>3, <2>4, Zenon DEF a
<1>8. Len(p) > 0 /\ Len(q) > 0 /\ Len(p) \in Nat /\ Len(q) \in Nat
  BY <1>1, <1>2, <1>3, <1>4
<1>. QED BY <1>3, <1>4, <1>5, <1>6, <1>7, <1>8 DEF Bytes

(* Data with one more item behind them decode to one more item, and are malformed when
   they break off inside of it. *)
LEMMA DecodedItem ==
  ASSUME NEW s \in Bytes, NEW piece \in Bytes, Len(piece) > 0,
         NEW it, NextItem(s \o piece, Len(s)) = {it}, it.end = Len(s) + Len(piece),
         Decoded(s)[0].ok
  PROVE  /\ Decoded(s \o piece)[0] = Extend(Decoded(s)[0], it)
         /\ \A n \in Len(s) + 1 .. Len(s) + Len(piece) - 1 :
              ~ Decoded(Slice(s \o piece, 0, n))[0].ok
<1>. DEFINE u == s \o piece
<1>1. u \in Bytes /\ Len(u) = Len(s) + Len(piece) /\ Len(s) \in Nat /\ Len(piece) \in Nat
  BY ConcatAt
<1>2. Len(s) \in 0 .. Len(u) - 1 /\ 0 \in 0 .. Len(s)
  BY <1>1
<1>3. ItemOf(u, Len(s)) = it /\ ItemAt(it, Len(s), Len(u))
  <2>1. ItemOf(u, Len(s)) = it
    BY DEF ItemOf
  <2>. QED BY <1>1, <1>2, <2>1, ItemOfType
<1>4. Decoded(u)[Len(s)] = Before(it, NoMore)
  <2>1. NextItem(u, Len(s)) # {} /\ it.end = Len(u)
    BY <1>1
  <2>. HIDE DEF u
  <2>2. Decoded(u)[Len(s)] = Before(ItemOf(u, Len(s)), Decoded(u)[ItemOf(u, Len(s)).end])
    BY <1>1, <1>2, <2>1, DecodedStep
  <2>3. Decoded(u)[Len(u)] = NoMore
    BY <1>1, DecodedStep
  <2>. QED BY <1>3, <2>1, <2>2, <2>3, Zenon
<1>5. Decoded(u)[0] = Extend(Decoded(s)[0], it)
  BY <1>2, <1>3, <1>4, DecodedExtends
<1>6. ASSUME NEW n \in Len(s) + 1 .. Len(s) + Len(piece) - 1
      PROVE  ~ Decoded(Slice(u, 0, n))[0].ok
  <2>1. PICK p \in Bytes, q \in Bytes :
          /\ piece = p \o q /\ Len(p) > 0 /\ Len(q) > 0 /\ Len(p) \in Nat /\ Len(q) \in Nat
          /\ Slice(u, 0, n) = s \o p
          /\ (s \o p) \o q = u
    BY CutParts
  <2>. DEFINE v == s \o p
  <2>2. v \in Bytes /\ Len(v) = Len(s) + Len(p) /\ Len(v \o q) = Len(v) + Len(q)
    <3>1. v \in Bytes /\ Len(v) = Len(s) + Len(p)
      BY ConcatAt
    <3>. HIDE DEF v
    <3>. QED BY <3>1, ConcatAt
  <2>3. v \o q = u
    BY <2>1
  <2>. HIDE DEF v, u
  <2>4. Len(s) \in 0 .. Len(v) - 1
    BY <1>1, <2>1, <2>2
  <2>5. NextItem(v, Len(s)) = {}
    <3>. SUFFICES ASSUME NextItem(v, Len(s)) # {} PROVE FALSE
      OBVIOUS
    <3>1. NextItem(u, Len(s)) = NextItem(v, Len(s))
      BY <2>2, <2>3, <2>4, NextItemKept
    <3>2. it \in NextItem(v, Len(s))
      BY <3>1 DEF u
    <3>3. ItemAt(it, Len(s), Len(v))
      BY <2>2, <2>4, <3>2, NextItemType
    <3>4. it.end \in Len(s) + 1 .. Len(v)
      BY <3>3 DEF ItemAt
    <3>. QED BY <1>1, <2>1, <2>2, <2>3, <3>4
  <2>6. ~ Decoded(v)[Len(s)].ok
    BY <2>2, <2>4, <2>5, DecodedStep, NoMoreParts
  <2>7. ~ Decoded(v)[0].ok
    BY <1>2, <2>1, <2>6, DecodedFails DEF v
  <2>. QED BY <2>1, <2>7 DEF v
<1>. QED BY <1>5, <1>6
-----------------------------------------------------------------------------
(* The decoder of forced batches. *)

NoTx == [ok |-> TRUE, cut |-> FALSE, txs |-> <<>>]
CutOff == [ok |-> TRUE, cut |-> TRUE, txs |-> <<>>]
WrongTx == [ok |-> FALSE, cut |-> FALSE, txs |-> <<>>]

TxOf(s, pos) == CHOOSE tx \in NextTx(s, pos).txs : TRUE

(* A transaction before the ones behind it. *)
TxBefore(tx, rest) ==
  IF ~ rest.ok \/ rest.cut THEN rest
  ELSE [ok |-> TRUE, cut |-> FALSE, txs |-> <<tx>> \o rest.txs]

(* A transaction of a forced batch that is found ends behind its place. *)
LEMMA NextTxEnd ==
  ASSUME NEW s \in Bytes, NEW pos \in 0 .. Len(s) - 1,
         ~ LengthIsCut(s, pos), NextTx(s, pos).txs # {}
  PROVE  /\ NextTx(s, pos).end \in pos + 1 .. Len(s)
         /\ TxOf(s, pos) \in DecodedTxSet
<1>1. <<>> \in Bytes
  BY EmptySeq DEF Bytes
<1>2. /\ NextTx(s, pos).end \in pos + 1 .. Len(s)
      /\ NextTx(s, pos).txs \subseteq DecodedTxSet
  BY <1>1, NextTxKept
<1>. QED BY <1>2, Zenon DEF TxOf

(* What DecodeTxs returns, from the end of the data to its start. *)
LEMMA DecodedTxsStep ==
  ASSUME NEW s \in Bytes
  PROVE  /\ DecodedTxs(s)[Len(s)] = NoTx
         /\ \A pos \in 0 .. Len(s) - 1 :
              DecodedTxs(s)[pos] =
                IF LengthIsCut(s, pos) THEN CutOff
                ELSE IF NextTx(s, pos).txs = {} THEN WrongTx
                ELSE TxBefore(TxOf(s, pos), DecodedTxs(s)[NextTx(s, pos).end])
<1>. DEFINE L == Len(s)
            Step(f, pos) ==
              IF pos = L THEN NoTx
              ELSE IF LengthIsCut(s, pos) THEN CutOff
              ELSE IF NextTx(s, pos).txs = {} THEN WrongTx
              ELSE TxBefore(TxOf(s, pos), f[NextTx(s, pos).end])
            Goes(pos) == ~ LengthIsCut(s, pos) /\ NextTx(s, pos).txs # {}
            T == {n \in Nat : n <= L => \E f : f = [pos \in L - n .. L |-> Step(f, pos)]}
<1>1. L \in Nat
  BY DEF Bytes
<1>2. \A pos \in 0 .. L - 1 : Goes(pos) => NextTx(s, pos).end \in pos + 1 .. L
  BY NextTxEnd
<1>. HIDE DEF L
<1>3. 0 \in T
  <2>. DEFINE f == [pos \in L - 0 .. L |-> NoTx]
  <2>1. f = [pos \in L - 0 .. L |-> Step(f, pos)]
    <3>1. \A pos \in L - 0 .. L : Step(f, pos) = NoTx
      <4>1. \A pos \in L - 0 .. L : pos = L
        BY <1>1
      <4>. QED BY <4>1
    <3>. HIDE DEF Step
    <3>. QED BY <3>1
  <2>. HIDE DEF f
  <2>. QED BY <2>1
<1>4. ASSUME NEW n \in Nat, n \in T PROVE n + 1 \in T
  <2>. SUFFICES ASSUME n + 1 <= L
                PROVE \E g : g = [pos \in L - (n + 1) .. L |-> Step(g, pos)]
    <3>1. n + 1 \in Nat
      OBVIOUS
    <3>. HIDE DEF Step
    <3>. QED BY <3>1, Zenon
  <2>1. PICK f : f = [pos \in L - n .. L |-> Step(f, pos)]
    BY <1>1, <1>4
  <2>. DEFINE g == [pos \in L - (n + 1) .. L |-> IF pos \in L - n .. L THEN f[pos] ELSE Step(f, pos)]
  <2>2. ASSUME NEW pos \in L - (n + 1) .. L PROVE Step(g, pos) = Step(f, pos)
    <3>1. CASE pos = L
      BY <3>1
    <3>2. CASE pos # L
      <4>1. pos \in 0 .. L - 1
        BY <1>1, <3>2
      <4>2. Goes(pos) =>
              NextTx(s, pos).end \in L - n .. L /\ NextTx(s, pos).end \in L - (n + 1) .. L
        <5>. DEFINE e == NextTx(s, pos).end
        <5>1. Goes(pos) => e \in pos + 1 .. L
          BY <1>2, <4>1
        <5>. HIDE DEF e, Goes
        <5>2. e \in pos + 1 .. L => e \in L - n .. L /\ e \in L - (n + 1) .. L
          BY <1>1, <4>1
        <5>. QED BY <5>1, <5>2, Zenon DEF e
      <4>3. Goes(pos) => g[NextTx(s, pos).end] = f[NextTx(s, pos).end]
        <5>. DEFINE e == NextTx(s, pos).end
        <5>. HIDE DEF e, Goes
        <5>1. e \in L - n .. L /\ e \in L - (n + 1) .. L => g[e] = f[e]
          OBVIOUS
        <5>. QED BY <4>2, <5>1, Zenon DEF e
      <4>. HIDE DEF g
      <4>. QED BY <3>2, <4>3, Zenon
    <3>. QED BY <3>1, <3>2
  <2>3. ASSUME NEW pos \in L - (n + 1) .. L PROVE g[pos] = Step(f, pos)
    <3>. HIDE DEF Step
    <3>1. CASE pos \in L - n .. L
      BY <2>1, <3>1
    <3>2. CASE pos \notin L - n .. L
      BY <3>2
    <3>. QED BY <3>1, <3>2
  <2>4. g = [pos \in L - (n + 1) .. L |-> g[pos]]
    OBVIOUS
  <2>. HIDE DEF g, Step
  <2>5. g = [pos \in L - (n + 1) .. L |-> Step(g, pos)]
    BY <2>2, <2>3, <2>4
  <2>. QED BY <2>5
<1>5. Nat \subseteq T
  <2>. HIDE DEF T
  <2>. QED BY <1>3, <1>4, SetInduction
<1>6. \E f : f = [pos \in 0 .. L |-> Step(f, pos)]
  <2>1. L <= L /\ L - L = 0 /\ L \in T
    <3>. HIDE DEF T
    <3>. QED BY <1>1, <1>5
  <2>2. \E f : f = [pos \in L - L .. L |-> Step(f, pos)]
    <3>. HIDE DEF Step
    <3>. QED BY <2>1, Zenon
  <2>. HIDE DEF Step
  <2>. QED BY <2>1, <2>2, Zenon
<1>7. DecodedTxs(s) = CHOOSE f : f = [pos \in 0 .. L |-> Step(f, pos)]
  BY Zenon DEF DecodedTxs, L, TxOf, TxBefore, NoTx, CutOff, WrongTx
<1>8. DecodedTxs(s) = [pos \in 0 .. L |-> Step(DecodedTxs(s), pos)]
  <2>. HIDE DEF Step
  <2>. QED BY <1>6, <1>7
<1>9. \A pos \in 0 .. L : DecodedTxs(s)[pos] = Step(DecodedTxs(s), pos)
  <2>. HIDE DEF Step
  <2>. QED BY <1>8, Zenon
<1>10. L \in 0 .. L /\ \A pos \in 0 .. L - 1 : pos \in 0 .. L /\ pos # L
  BY <1>1
<1>11. DecodedTxs(s)[L] = NoTx
  BY <1>9, <1>10, Zenon
<1>12. ASSUME NEW pos \in 0 .. L - 1
       PROVE DecodedTxs(s)[pos] =
                IF LengthIsCut(s, pos) THEN CutOff
                ELSE IF NextTx(s, pos).txs = {} THEN WrongTx
                ELSE TxBefore(TxOf(s, pos), DecodedTxs(s)[NextTx(s, pos).end])
  BY <1>9, <1>10, Zenon
<1>. QED BY <1>11, <1>12, Zenon DEF L

(* What the decoder of forced batches returns, with the flag for a cut. *)
ForcedParts == [ok : BOOLEAN, cut : BOOLEAN, txs : Seq(DecodedTxSet)]

(* The ways in which the forced decoder's loop ends. *)
LEMMA ForcedEnds ==
  /\ {NoTx, CutOff, WrongTx} \subseteq ForcedParts
  /\ NoTx.ok /\ ~ NoTx.cut /\ NoTx.txs = <<>>
  /\ CutOff.ok /\ CutOff.cut /\ CutOff.txs = <<>>
  /\ ~ WrongTx.ok
BY EmptySeq DEF NoTx, CutOff, WrongTx, ForcedParts

(* One more transaction in front. *)
LEMMA TxBeforeType ==
  ASSUME NEW tx \in DecodedTxSet, NEW rest \in ForcedParts
  PROVE  /\ TxBefore(tx, rest) \in ForcedParts
         /\ TxBefore(tx, rest).ok = rest.ok
         /\ TxBefore(tx, rest).cut = rest.cut
         /\ rest.ok /\ ~ rest.cut =>
              TxBefore(tx, rest) = [ok |-> TRUE, cut |-> FALSE, txs |-> <<tx>> \o rest.txs]
<1>1. /\ rest.ok \in BOOLEAN /\ rest.cut \in BOOLEAN /\ rest.txs \in Seq(DecodedTxSet)
  BY DEF ForcedParts
<1>2. CASE ~ rest.ok \/ rest.cut
  BY <1>1, <1>2 DEF TxBefore
<1>3. CASE rest.ok /\ ~ rest.cut
  <2>. DEFINE txs == <<tx>> \o rest.txs
  <2>1. TxBefore(tx, rest) = [ok |-> TRUE, cut |-> FALSE, txs |-> txs]
    BY <1>3, Zenon DEF TxBefore
  <2>2. txs \in Seq(DecodedTxSet)
    BY <1>1, OneSeq, ConcatProperties
  <2>. HIDE DEF txs
  <2>3. TxBefore(tx, rest) \in ForcedParts
    BY <2>1, <2>2 DEF ForcedParts
  <2>4. TxBefore(tx, rest).ok = TRUE /\ TxBefore(tx, rest).cut = FALSE
    BY <2>1
  <2>. QED BY <1>1, <1>3, <2>1, <2>3, <2>4 DEF txs
<1>. QED BY <1>1, <1>2, <1>3

LEMMA DecodedTxsType ==
  ASSUME NEW s \in Bytes
  PROVE  \A pos \in 0 .. Len(s) : DecodedTxs(s)[pos] \in ForcedParts
<1>. DEFINE T == {pos \in 0 .. Len(s) : DecodedTxs(s)[pos] \in ForcedParts}
<1>1. Len(s) \in Nat
  BY DEF Bytes
<1>2. Len(s) \in T
  <2>1. DecodedTxs(s)[Len(s)] \in ForcedParts
    BY DecodedTxsStep, ForcedEnds, Zenon
  <2>. QED BY <1>1, <2>1
<1>3. ASSUME NEW pos \in 0 .. Len(s) - 1, \A q \in pos + 1 .. Len(s) : q \in T
      PROVE  pos \in T
  <2>1. CASE LengthIsCut(s, pos) \/ NextTx(s, pos).txs = {}
    <3>1. DecodedTxs(s)[pos] \in {CutOff, WrongTx}
      BY <2>1, DecodedTxsStep, Zenon
    <3>. QED BY <1>1, <3>1, ForcedEnds
  <2>2. CASE ~ LengthIsCut(s, pos) /\ NextTx(s, pos).txs # {}
    <3>. DEFINE rest == DecodedTxs(s)[NextTx(s, pos).end]
    <3>1. rest \in ForcedParts /\ TxOf(s, pos) \in DecodedTxSet
      BY <1>3, <2>2, NextTxEnd
    <3>2. DecodedTxs(s)[pos] = TxBefore(TxOf(s, pos), rest)
      BY <2>2, DecodedTxsStep, Zenon
    <3>. HIDE DEF rest
    <3>3. TxBefore(TxOf(s, pos), rest) \in ForcedParts
      BY <3>1, TxBeforeType
    <3>. QED BY <1>1, <3>2, <3>3
  <2>. QED BY <2>1, <2>2
<1>4. 0 .. Len(s) \subseteq T
  <2>. HIDE DEF T
  <2>. QED BY <1>1, <1>2, <1>3, DownInduction
<1>. QED BY <1>4

(* The decoded transactions txs, before what is decoded behind them. *)
TxsBefore(txs, rest) ==
  IF ~ rest.ok \/ rest.cut THEN rest
  ELSE [ok |-> TRUE, cut |-> FALSE, txs |-> txs \o rest.txs]

(* Data behind decoded transactions changes them in no way: what is decoded from the
   end of s on is put behind them, or is what the decoder returns. *)
LEMMA ForcedExtends ==
  ASSUME NEW s \in Bytes, NEW t \in Bytes
  PROVE  \A pos \in 0 .. Len(s) :
           DecodedTxs(s)[pos].ok /\ ~ DecodedTxs(s)[pos].cut =>
             DecodedTxs(s \o t)[pos] =
               TxsBefore(DecodedTxs(s)[pos].txs, DecodedTxs(s \o t)[Len(s)])
<1>. DEFINE u == s \o t
            X == DecodedTxs(u)[Len(s)]
            Whole(pos) == DecodedTxs(s)[pos].ok /\ ~ DecodedTxs(s)[pos].cut
            T == {pos \in 0 .. Len(s) :
                    Whole(pos) => DecodedTxs(u)[pos] = TxsBefore(DecodedTxs(s)[pos].txs, X)}
<1>1. u \in Bytes /\ Len(u) = Len(s) + Len(t) /\ Len(s) \in Nat /\ Len(t) \in Nat
  BY ConcatAt
<1>2. X \in ForcedParts
  <2>1. Len(s) \in 0 .. Len(u)
    BY <1>1
  <2>. HIDE DEF u
  <2>. QED BY <1>1, <2>1, DecodedTxsType
<1>3. X.ok \in BOOLEAN /\ X.cut \in BOOLEAN /\ X.txs \in Seq(DecodedTxSet)
      /\ X = [ok |-> X.ok, cut |-> X.cut, txs |-> X.txs]
  <2>. HIDE DEF X
  <2>. QED BY <1>2 DEF ForcedParts
<1>4. Len(s) \in T
  <2>1. DecodedTxs(s)[Len(s)].txs = <<>>
    BY DecodedTxsStep, ForcedEnds
  <2>2. X = TxsBefore(<<>>, X)
    <3>. HIDE DEF X
    <3>1. <<>> \o X.txs = X.txs
      BY <1>3, ConcatEmptySeq
    <3>2. X.ok /\ ~ X.cut => X.ok = TRUE /\ X.cut = FALSE
      BY <1>3
    <3>. QED BY <1>3, <3>1, <3>2, Zenon DEF TxsBefore
  <2>. HIDE DEF X
  <2>3. X = TxsBefore(DecodedTxs(s)[Len(s)].txs, X)
    BY <2>1, <2>2, Zenon
  <2>. QED BY <1>1, <2>3 DEF X
<1>5. ASSUME NEW pos \in 0 .. Len(s) - 1, \A q \in pos + 1 .. Len(s) : q \in T
      PROVE  pos \in T
  <2>. SUFFICES ASSUME Whole(pos)
                PROVE  DecodedTxs(u)[pos] = TxsBefore(DecodedTxs(s)[pos].txs, X)
    BY <1>1
  <2>. DEFINE next == NextTx(s, pos)
              tx == TxOf(s, pos)
              rest == DecodedTxs(s)[next.end]
              more == DecodedTxs(u)[next.end]
  <2>1. ~ LengthIsCut(s, pos) /\ next.txs # {}
    BY DecodedTxsStep, ForcedEnds, Zenon
  <2>2. next.end \in pos + 1 .. Len(s) /\ tx \in DecodedTxSet
    BY <2>1, NextTxEnd
  <2>3. DecodedTxs(s)[pos] = TxBefore(tx, rest)
    BY <2>1, DecodedTxsStep, Zenon
  <2>4. ~ LengthIsCut(u, pos) /\ NextTx(u, pos) = next /\ TxOf(u, pos) = tx
    <3>1. ~ LengthIsCut(u, pos) /\ NextTx(u, pos) = next
      BY <2>1, NextTxKept
    <3>. QED BY <3>1, Zenon DEF TxOf
  <2>5. DecodedTxs(u)[pos] = TxBefore(tx, more)
    <3>1. pos \in 0 .. Len(u) - 1
      BY <1>1
    <3>. HIDE DEF u, tx, next
    <3>2. NextTx(u, pos).txs # {} /\ NextTx(u, pos).end = next.end
      BY <2>1, <2>4, Zenon
    <3>3. DecodedTxs(u)[pos] = TxBefore(TxOf(u, pos), DecodedTxs(u)[NextTx(u, pos).end])
      BY <1>1, <2>4, <3>1, <3>2, DecodedTxsStep, Zenon
    <3>. QED BY <2>4, <3>2, <3>3, Zenon
  <2>6. next.end \in 0 .. Len(s) /\ next.end \in 0 .. Len(u)
    BY <1>1, <2>2
  <2>7. rest \in ForcedParts
    BY <2>6, DecodedTxsType
  <2>8. rest.ok /\ ~ rest.cut
    BY <2>2, <2>3, <2>7, TxBeforeType
  <2>9. more = TxsBefore(rest.txs, X)
    BY <1>5, <2>2, <2>8
  <2>10. DecodedTxs(s)[pos].txs = <<tx>> \o rest.txs
    <3>. HIDE DEF tx, rest
    <3>1. TxBefore(tx, rest) = [ok |-> TRUE, cut |-> FALSE, txs |-> <<tx>> \o rest.txs]
      BY <2>2, <2>7, <2>8, TxBeforeType
    <3>. QED BY <2>3, <3>1
  <2>. HIDE DEF tx, rest, more, X
  <2>11. rest.txs \in Seq(DecodedTxSet)
    BY <2>7 DEF ForcedParts
  <2>12. TxBefore(tx, TxsBefore(rest.txs, X)) = TxsBefore(<<tx>> \o rest.txs, X)
    <3>1. CASE ~ X.ok \/ X.cut
      BY <3>1, Zenon DEF TxBefore, TxsBefore
    <3>2. CASE X.ok /\ ~ X.cut
      <4>. DEFINE txs == rest.txs \o X.txs
                  r == [ok |-> TRUE, cut |-> FALSE, txs |-> txs]
      <4>1. TxsBefore(rest.txs, X) = r
        BY <3>2, Zenon DEF TxsBefore
      <4>2. r.ok /\ ~ r.cut /\ r.txs = txs
        <5>. HIDE DEF txs
        <5>. QED OBVIOUS
      <4>. HIDE DEF r
      <4>3. TxBefore(tx, r) = [ok |-> TRUE, cut |-> FALSE, txs |-> <<tx>> \o txs]
        BY <4>2, Zenon DEF TxBefore
      <4>4. <<tx>> \o txs = (<<tx>> \o rest.txs) \o X.txs
        <5>1. <<tx>> \in Seq(DecodedTxSet)
          BY <2>2, OneSeq
        <5>. DEFINE S == Seq(DecodedTxSet)
        <5>2. X.txs \in S /\ rest.txs \in S /\ <<tx>> \in S
          BY <1>3, <2>11, <5>1
        <5>3. \A a, b, c \in S : (a \o b) \o c = a \o (b \o c)
          BY Associative
        <5>. HIDE DEF S
        <5>4. (<<tx>> \o rest.txs) \o X.txs = <<tx>> \o (rest.txs \o X.txs)
          BY <5>2, <5>3, Zenon
        <5>. QED BY <5>4, Zenon
      <4>5. TxsBefore(<<tx>> \o rest.txs, X)
              = [ok |-> TRUE, cut |-> FALSE, txs |-> (<<tx>> \o rest.txs) \o X.txs]
        BY <3>2, Zenon DEF TxsBefore
      <4>. HIDE DEF txs
      <4>. QED BY <4>1, <4>3, <4>4, <4>5, Zenon
    <3>. QED BY <1>3, <3>1, <3>2
  <2>. QED BY <2>5, <2>9, <2>10, <2>12, Zenon
<1>6. 0 .. Len(s) \subseteq T
  <2>. HIDE DEF T
  <2>. QED BY <1>1, <1>4, <1>5, DownInduction
<1>. QED BY <1>6

(* A transaction that is appended is decoded behind the others, and while it is not
   complete nothing is decoded at all. *)
LEMMA ForcedItem ==
  ASSUME NEW s \in Bytes, NEW piece \in Bytes, Len(piece) > 0, NEW tx,
         ~ LengthIsCut(s \o piece, Len(s)),
         NextTx(s \o piece, Len(s)) = [end |-> Len(s) + Len(piece), txs |-> {tx}],
         DecodedTxs(s)[0].ok, ~ DecodedTxs(s)[0].cut
  PROVE  /\ DecodedTxs(s \o piece)[0]
              = [ok |-> TRUE, cut |-> FALSE, txs |-> Append(DecodedTxs(s)[0].txs, tx)]
         /\ \A n \in Len(s) + 1 .. Len(s) + Len(piece) - 1 :
              LET forced == DecodedTxs(Slice(s \o piece, 0, n))[0] IN
              ~ forced.ok \/ forced.txs = <<>>
<1>. DEFINE u == s \o piece
            D == DecodedTxs(s)[0]
<1>1. u \in Bytes /\ Len(u) = Len(s) + Len(piece) /\ Len(s) \in Nat /\ Len(piece) \in Nat
  BY ConcatAt
<1>2. Len(s) \in 0 .. Len(u) - 1 /\ 0 \in 0 .. Len(s)
  BY <1>1
<1>3. /\ NextTx(u, Len(s)).end = Len(u) /\ NextTx(u, Len(s)).txs = {tx}
      /\ TxOf(u, Len(s)) = tx /\ tx \in DecodedTxSet
  <2>1. NextTx(u, Len(s)).end = Len(u) /\ NextTx(u, Len(s)).txs = {tx}
    BY <1>1
  <2>2. TxOf(u, Len(s)) = tx
    BY <2>1 DEF TxOf
  <2>. HIDE DEF u
  <2>3. TxOf(u, Len(s)) \in DecodedTxSet
    <3>1. ~ LengthIsCut(u, Len(s))
      BY DEF u
    <3>. QED BY <1>1, <1>2, <2>1, <3>1, NextTxEnd
  <2>. QED BY <2>1, <2>2, <2>3
<1>4. DecodedTxs(u)[Len(s)] = [ok |-> TRUE, cut |-> FALSE, txs |-> <<tx>>]
  <2>1. ~ LengthIsCut(u, Len(s))
    OBVIOUS
  <2>. HIDE DEF u
  <2>2. DecodedTxs(u)[Len(s)] = TxBefore(TxOf(u, Len(s)), DecodedTxs(u)[NextTx(u, Len(s)).end])
    BY <1>1, <1>2, <1>3, <2>1, DecodedTxsStep, Zenon
  <2>3. DecodedTxs(u)[Len(u)] = NoTx
    BY <1>1, DecodedTxsStep, Zenon
  <2>4. TxBefore(tx, NoTx) = [ok |-> TRUE, cut |-> FALSE, txs |-> <<tx>> \o <<>>]
    BY <1>3, TxBeforeType, ForcedEnds
  <2>5. <<tx>> \o <<>> = <<tx>>
    BY <1>3, OneSeq, ConcatEmptySeq
  <2>. QED BY <1>3, <2>2, <2>3, <2>4, <2>5, Zenon
<1>5. D \in ForcedParts
  BY <1>2, DecodedTxsType
<1>6. DecodedTxs(u)[0] = [ok |-> TRUE, cut |-> FALSE, txs |-> Append(D.txs, tx)]
  <2>1. DecodedTxs(u)[0] = TxsBefore(D.txs, DecodedTxs(u)[Len(s)])
    BY <1>2, ForcedExtends
  <2>. HIDE DEF D
  <2>2. D.txs \in Seq(DecodedTxSet)
    BY <1>5 DEF ForcedParts
  <2>3. TxsBefore(D.txs, [ok |-> TRUE, cut |-> FALSE, txs |-> <<tx>>])
          = [ok |-> TRUE, cut |-> FALSE, txs |-> D.txs \o <<tx>>]
    BY DEF TxsBefore
  <2>4. D.txs \o <<tx>> = Append(D.txs, tx)
    BY <1>3, <2>2, AppendIsConcat
  <2>. QED BY <1>4, <2>1, <2>3, <2>4, Zenon
<1>7. ASSUME NEW n \in Len(s) + 1 .. Len(s) + Len(piece) - 1
      PROVE  LET forced == DecodedTxs(Slice(u, 0, n))[0] IN ~ forced.ok \/ forced.txs = <<>>
  <2>1. PICK p \in Bytes, q \in Bytes :
          /\ piece = p \o q /\ Len(p) > 0 /\ Len(q) > 0 /\ Len(p) \in Nat /\ Len(q) \in Nat
          /\ Slice(u, 0, n) = s \o p
          /\ (s \o p) \o q = u
    BY CutParts
  <2>. DEFINE v == s \o p
              X == DecodedTxs(v)[Len(s)]
  <2>2. v \in Bytes /\ Len(v) = Len(s) + Len(p) /\ Len(v \o q) = Len(v) + Len(q)
    <3>1. v \in Bytes /\ Len(v) = Len(s) + Len(p)
      BY ConcatAt
    <3>. HIDE DEF v
    <3>. QED BY <3>1, ConcatAt
  <2>3. v \o q = u
    BY <2>1
  <2>4. DecodedTxs(v)[0] = TxsBefore(D.txs, X)
    BY <1>2, ForcedExtends
  <2>. HIDE DEF v, u
  <2>5. Len(s) \in 0 .. Len(v) - 1
    BY <1>1, <2>1, <2>2
  <2>6. LengthIsCut(v, Len(s)) \/ NextTx(v, Len(s)).txs = {}
    <3>. SUFFICES ASSUME ~ LengthIsCut(v, Len(s)), NextTx(v, Len(s)).txs # {} PROVE FALSE
      OBVIOUS
    <3>1. /\ NextTx(u, Len(s)) = NextTx(v, Len(s))
          /\ NextTx(v, Len(s)).end \in Len(s) + 1 .. Len(v)
      BY <2>2, <2>3, <2>5, NextTxKept
    <3>2. Len(u) \in Len(s) + 1 .. Len(v)
      BY <1>3, <3>1, Zenon
    <3>. QED BY <1>1, <2>1, <2>2, <2>3, <3>2
  <2>7. X \in {CutOff, WrongTx}
    BY <2>2, <2>5, <2>6, DecodedTxsStep, Zenon
  <2>. HIDE DEF X
  <2>8. (X.cut /\ X.txs = <<>>) \/ ~ X.ok
    BY <2>7, ForcedEnds
  <2>9. DecodedTxs(v)[0] = X
    BY <2>4, <2>8, Zenon DEF TxsBefore
  <2>. QED BY <2>1, <2>8, <2>9 DEF v
<1>. QED BY <1>6, <1>7

-----------------------------------------------------------------------------
(* The encoder. *)

(* The data after each of the transactions. *)
TxsData(transactions, batchData0) ==
  LET data[i \in 0 .. Len(transactions)] ==
        IF i = 0 THEN batchData0 ELSE EncodeTx(transactions[i], data[i - 1])
  IN data

(* The data of a block after so many of its transactions. *)
LEMMA TxsDataStep ==
  ASSUME NEW txs, NEW d, Len(txs) \in Nat
  PROVE  /\ TxsData(txs, d)[0] = d
         /\ \A k \in 0 .. Len(txs) - 1 :
              TxsData(txs, d)[k + 1] = EncodeTx(txs[k + 1], TxsData(txs, d)[k])
         /\ EncodeTransactions(txs, d) = TxsData(txs, d)[Len(txs)]
<1>. DEFINE Step(f, k) == IF k = 0 THEN d ELSE EncodeTx(txs[k], f[k - 1])
            T == {n \in Nat : \E f : f = [k \in 0 .. n |-> Step(f, k)]}
<1>1. 0 \in T
  <2>. DEFINE f == [k \in 0 .. 0 |-> d]
  <2>1. f = [k \in 0 .. 0 |-> Step(f, k)]
    OBVIOUS
  <2>. HIDE DEF f
  <2>. QED BY <2>1
<1>2. ASSUME NEW n \in Nat, n \in T PROVE n + 1 \in T
  <2>1. PICK f : f = [k \in 0 .. n |-> Step(f, k)]
    BY <1>2
  <2>. DEFINE g == [k \in 0 .. n + 1 |-> IF k <= n THEN f[k] ELSE Step(f, n + 1)]
  <2>2. g = [k \in 0 .. n + 1 |-> Step(g, k)]
    BY <2>1
  <2>3. \E f1 : f1 = [k \in 0 .. n + 1 |-> Step(f1, k)]
    <3>. HIDE DEF g, Step
    <3>. QED BY <2>2
  <2>4. n + 1 \in Nat
    OBVIOUS
  <2>. QED BY <2>3, <2>4, Zenon
<1>3. Nat \subseteq T
  <2>. HIDE DEF T
  <2>. QED BY <1>1, <1>2, SetInduction
<1>4. \E f : f = [k \in 0 .. Len(txs) |-> Step(f, k)]
  BY <1>3
<1>5. TxsData(txs, d) = [k \in 0 .. Len(txs) |-> Step(TxsData(txs, d), k)]
  <2>1. TxsData(txs, d) = CHOOSE f : f = [k \in 0 .. Len(txs) |-> Step(f, k)]
    BY Zenon DEF TxsData
  <2>. HIDE DEF Step
  <2>. QED BY <1>4, <2>1
<1>6. \A k \in 0 .. Len(txs) : TxsData(txs, d)[k] = Step(TxsData(txs, d), k)
  <2>. HIDE DEF Step
  <2>. QED BY <1>5, Zenon
<1>7. /\ 0 \in 0 .. Len(txs)
      /\ \A k \in 0 .. Len(txs) - 1 : k + 1 \in 0 .. Len(txs) /\ k + 1 # 0 /\ (k + 1) - 1 = k
  OBVIOUS
<1>8. EncodeTransactions(txs, d) = TxsData(txs, d)[Len(txs)]
  BY Zenon DEF EncodeTransactions, TxsData
<1>. QED BY <1>6, <1>7, <1>8, Zenon

(* Transactions are written one behind the other. *)
LEMMA TransactionsAppend ==
  ASSUME NEW S, NEW txs \in Seq(S), NEW tx \in S, NEW d
  PROVE  /\ EncodeTransactions(<<>>, d) = d
         /\ EncodeTransactions(Append(txs, tx), d) = EncodeTx(tx, EncodeTransactions(txs, d))
<1>. DEFINE n == Len(txs)
            new == Append(txs, tx)
            T == {k \in Nat : k <= n => TxsData(new, d)[k] = TxsData(txs, d)[k]}
<1>1. n \in Nat /\ Len(new) = n + 1 /\ new[n + 1] = tx /\ \A i \in 1 .. n : new[i] = txs[i]
  BY AppendProperties
<1>2. EncodeTransactions(<<>>, d) = d
  <2>1. Len(<<>>) = 0 /\ 0 \in Nat
    OBVIOUS
  <2>2. Len(<<>>) \in Nat
    BY <2>1
  <2>3. TxsData(<<>>, d)[0] = d /\ EncodeTransactions(<<>>, d) = TxsData(<<>>, d)[Len(<<>>)]
    BY <2>2, TxsDataStep
  <2>. QED BY <2>1, <2>3, Zenon
<1>3. /\ TxsData(txs, d)[0] = d
      /\ \A k \in 0 .. n - 1 : TxsData(txs, d)[k + 1] = EncodeTx(txs[k + 1], TxsData(txs, d)[k])
      /\ EncodeTransactions(txs, d) = TxsData(txs, d)[n]
  BY <1>1, TxsDataStep
<1>4. /\ TxsData(new, d)[0] = d
      /\ \A k \in 0 .. n : TxsData(new, d)[k + 1] = EncodeTx(new[k + 1], TxsData(new, d)[k])
      /\ EncodeTransactions(new, d) = TxsData(new, d)[n + 1]
  <2>1. Len(new) \in Nat /\ Len(new) = n + 1 /\ (n + 1) - 1 = n
    BY <1>1
  <2>. HIDE DEF new, n
  <2>2. /\ TxsData(new, d)[0] = d
        /\ \A k \in 0 .. Len(new) - 1 : TxsData(new, d)[k + 1] = EncodeTx(new[k + 1], TxsData(new, d)[k])
        /\ EncodeTransactions(new, d) = TxsData(new, d)[Len(new)]
    BY <2>1, TxsDataStep
  <2>. QED BY <2>1, <2>2, Zenon
<1>. HIDE DEF new, n
<1>5. 0 \in T
  BY <1>3, <1>4
<1>6. ASSUME NEW k \in Nat, k \in T PROVE k + 1 \in T
  <2>. SUFFICES ASSUME k + 1 <= n PROVE TxsData(new, d)[k + 1] = TxsData(txs, d)[k + 1]
    OBVIOUS
  <2>1. k \in 0 .. n - 1 /\ k \in 0 .. n /\ k + 1 \in 1 .. n /\ k <= n
    BY <1>1
  <2>2. TxsData(new, d)[k] = TxsData(txs, d)[k] /\ new[k + 1] = txs[k + 1]
    BY <1>1, <1>6, <2>1
  <2>. QED BY <1>3, <1>4, <2>1, <2>2, Zenon
<1>7. Nat \subseteq T
  <2>. HIDE DEF T
  <2>. QED BY <1>5, <1>6, SetInduction
<1>8. TxsData(new, d)[n] = TxsData(txs, d)[n]
  <2>1. n <= n /\ n \in T
    <3>. HIDE DEF T
    <3>. QED BY <1>1, <1>7
  <2>. QED BY <2>1
<1>9. n \in 0 .. n
  BY <1>1
<1>10. EncodeTransactions(new, d) = EncodeTx(tx, EncodeTransactions(txs, d))
  BY <1>1, <1>3, <1>4, <1>8, <1>9, Zenon
<1>. QED BY <1>2, <1>10 DEF new

(* A block behind the data of the blocks before it. *)
EncodeBlock(block, d) == EncodeTransactions(block.Transactions, EncodeHeader(block, d))

BlocksData(bs) ==
  LET data[i \in 0 .. Len(bs)] ==
        IF i = 0 THEN <<>>
        ELSE EncodeTransactions(bs[i].Transactions, EncodeHeader(bs[i], data[i - 1]))
  IN data

(* The data of a batch after so many of its blocks. *)
LEMMA BlocksDataStep ==
  ASSUME NEW bs, Len(bs) \in Nat
  PROVE  /\ BlocksData(bs)[0] = <<>>
         /\ \A k \in 0 .. Len(bs) - 1 :
              BlocksData(bs)[k + 1] = EncodeBlock(bs[k + 1], BlocksData(bs)[k])
         /\ EncodeBatchV2(bs) = BlocksData(bs)[Len(bs)]
<1>. DEFINE Step(f, k) == IF k = 0 THEN <<>> ELSE EncodeBlock(bs[k], f[k - 1])
            T == {n \in Nat : \E f : f = [k \in 0 .. n |-> Step(f, k)]}
<1>1. 0 \in T
  <2>. DEFINE f == [k \in 0 .. 0 |-> <<>>]
  <2>1. f = [k \in 0 .. 0 |-> Step(f, k)]
    OBVIOUS
  <2>. HIDE DEF f
  <2>. QED BY <2>1
<1>2. ASSUME NEW n \in Nat, n \in T PROVE n + 1 \in T
  <2>1. PICK f : f = [k \in 0 .. n |-> Step(f, k)]
    BY <1>2
  <2>. DEFINE g == [k \in 0 .. n + 1 |-> IF k <= n THEN f[k] ELSE Step(f, n + 1)]
  <2>2. g = [k \in 0 .. n + 1 |-> Step(g, k)]
    BY <2>1
  <2>3. \E f1 : f1 = [k \in 0 .. n + 1 |-> Step(f1, k)]
    <3>. HIDE DEF g, Step
    <3>. QED BY <2>2
  <2>4. n + 1 \in Nat
    OBVIOUS
  <2>. QED BY <2>3, <2>4, Zenon
<1>3. Nat \subseteq T
  <2>. HIDE DEF T
  <2>. QED BY <1>1, <1>2, SetInduction
<1>4. \E f : f = [k \in 0 .. Len(bs) |-> Step(f, k)]
  BY <1>3
<1>5. BlocksData(bs) = [k \in 0 .. Len(bs) |-> Step(BlocksData(bs), k)]
  <2>1. BlocksData(bs) = CHOOSE f : f = [k \in 0 .. Len(bs) |-> Step(f, k)]
    BY Zenon DEF BlocksData, EncodeBlock
  <2>. HIDE DEF Step
  <2>. QED BY <1>4, <2>1
<1>6. \A k \in 0 .. Len(bs) : BlocksData(bs)[k] = Step(BlocksData(bs), k)
  <2>. HIDE DEF Step
  <2>. QED BY <1>5, Zenon
<1>7. /\ 0 \in 0 .. Len(bs)
      /\ \A k \in 0 .. Len(bs) - 1 : k + 1 \in 0 .. Len(bs) /\ k + 1 # 0 /\ (k + 1) - 1 = k
  OBVIOUS
<1>8. EncodeBatchV2(bs) = BlocksData(bs)[Len(bs)]
  BY Zenon DEF EncodeBatchV2, BlocksData
<1>. QED BY <1>6, <1>7, <1>8, Zenon

(* Blocks are written one behind the other. *)
LEMMA BatchAppend ==
  ASSUME NEW S, NEW bs \in Seq(S), NEW b \in S
  PROVE  /\ EncodeBatchV2(<<>>) = <<>>
         /\ EncodeBatchV2(Append(bs, b)) = EncodeBlock(b, EncodeBatchV2(bs))
<1>. DEFINE n == Len(bs)
            new == Append(bs, b)
            T == {k \in Nat : k <= n => BlocksData(new)[k] = BlocksData(bs)[k]}
<1>1. n \in Nat /\ Len(new) = n + 1 /\ new[n + 1] = b /\ \A i \in 1 .. n : new[i] = bs[i]
  BY AppendProperties
<1>2. EncodeBatchV2(<<>>) = <<>>
  <2>1. Len(<<>>) = 0 /\ 0 \in Nat
    OBVIOUS
  <2>2. Len(<<>>) \in Nat
    BY <2>1
  <2>3. BlocksData(<<>>)[0] = <<>> /\ EncodeBatchV2(<<>>) = BlocksData(<<>>)[Len(<<>>)]
    BY <2>2, BlocksDataStep
  <2>. QED BY <2>1, <2>3, Zenon
<1>3. /\ BlocksData(bs)[0] = <<>>
      /\ \A k \in 0 .. n - 1 : BlocksData(bs)[k + 1] = EncodeBlock(bs[k + 1], BlocksData(bs)[k])
      /\ EncodeBatchV2(bs) = BlocksData(bs)[n]
  BY <1>1, BlocksDataStep
<1>4. /\ BlocksData(new)[0] = <<>>
      /\ \A k \in 0 .. n : BlocksData(new)[k + 1] = EncodeBlock(new[k + 1], BlocksData(new)[k])
      /\ EncodeBatchV2(new) = BlocksData(new)[n + 1]
  <2>1. Len(new) \in Nat /\ Len(new) = n + 1 /\ (n + 1) - 1 = n
    BY <1>1
  <2>. HIDE DEF new, n
  <2>2. /\ BlocksData(new)[0] = <<>>
        /\ \A k \in 0 .. Len(new) - 1 : BlocksData(new)[k + 1] = EncodeBlock(new[k + 1], BlocksData(new)[k])
        /\ EncodeBatchV2(new) = BlocksData(new)[Len(new)]
    BY <2>1, BlocksDataStep
  <2>. QED BY <2>1, <2>2, Zenon
<1>. HIDE DEF new, n
<1>5. 0 \in T
  BY <1>3, <1>4
<1>6. ASSUME NEW k \in Nat, k \in T PROVE k + 1 \in T
  <2>. SUFFICES ASSUME k + 1 <= n PROVE BlocksData(new)[k + 1] = BlocksData(bs)[k + 1]
    OBVIOUS
  <2>1. k \in 0 .. n - 1 /\ k \in 0 .. n /\ k + 1 \in 1 .. n /\ k <= n
    BY <1>1
  <2>2. BlocksData(new)[k] = BlocksData(bs)[k] /\ new[k + 1] = bs[k + 1]
    BY <1>1, <1>6, <2>1
  <2>. QED BY <1>3, <1>4, <2>1, <2>2, Zenon
<1>7. Nat \subseteq T
  <2>. HIDE DEF T
  <2>. QED BY <1>5, <1>6, SetInduction
<1>8. BlocksData(new)[n] = BlocksData(bs)[n]
  <2>1. n <= n /\ n \in T
    <3>. HIDE DEF T
    <3>. QED BY <1>1, <1>7
  <2>. QED BY <2>1
<1>9. n \in 0 .. n
  BY <1>1
<1>10. EncodeBatchV2(new) = EncodeBlock(b, EncodeBatchV2(bs))
  BY <1>1, <1>3, <1>4, <1>8, <1>9, Zenon
<1>. QED BY <1>2, <1>10 DEF new

(* A transaction more in the last block is a transaction more at the end of the data. *)
LEMMA BatchLonger ==
  ASSUME NEW bs \in Seq(DecodedBlocks), bs # <<>>, NEW tx \in DecodedTxSet
  PROVE  EncodeBatchV2(Longer(bs, tx)) = EncodeTx(tx, EncodeBatchV2(bs))
<1>1. PICK front \in Seq(DecodedBlocks), b \in DecodedBlocks : bs = Append(front, b)
  BY SequenceEmptyOrAppend
<1>. DEFINE txs == b.Transactions
            new == Block(b, Append(txs, tx))
            longer == Longer(bs, tx)
            d == EncodeHeader(b, EncodeBatchV2(front))
<1>2. /\ txs \in Seq(DecodedTxSet)
      /\ b.DeltaTimestamp \in Nat /\ b.IndexL1InfoTree \in Nat
  BY DEF DecodedBlocks
<1>3. new \in DecodedBlocks
  <2>1. Append(txs, tx) \in Seq(DecodedTxSet)
    BY <1>2, AppendProperties
  <2>. HIDE DEF txs
  <2>. QED BY <1>2, <2>1 DEF Block, DecodedBlocks
<1>4. longer = Append(front, new)
  <2>. DEFINE a == Append(front, new)
              n == Len(front)
  <2>1. a \in Seq(DecodedBlocks) /\ Len(a) = n + 1 /\ a[n + 1] = new /\ n \in Nat
        /\ \A i \in 1 .. n : a[i] = front[i]
    <3>. HIDE DEF new
    <3>. QED BY <1>3, AppendProperties
  <2>2. Len(bs) = n + 1 /\ bs[n + 1] = b /\ \A i \in 1 .. n : bs[i] = front[i]
    BY <1>1, AppendProperties
  <2>3. longer \in Seq(DecodedBlocks) /\ Len(longer) = Len(bs)
        /\ \A i \in 1 .. Len(bs) :
             longer[i] = IF i = Len(bs) THEN Block(bs[i], Append(bs[i].Transactions, tx)) ELSE bs[i]
    BY LongerType
  <2>. HIDE DEF a, n, longer, new
  <2>4. \A i \in 1 .. n + 1 : longer[i] = a[i]
    <3>. TAKE i \in 1 .. n + 1
    <3>1. CASE i = n + 1
      BY <2>1, <2>2, <2>3, <3>1, Zenon DEF new
    <3>2. CASE i # n + 1
      <4>1. i \in 1 .. n
        BY <2>1, <3>2
      <4>. QED BY <2>1, <2>2, <2>3, <3>2, <4>1, Zenon
    <3>. QED BY <3>1, <3>2
  <2>5. longer = a
    BY <2>1, <2>2, <2>3, <2>4, SeqEqual
  <2>. QED BY <2>5 DEF a
<1>5. EncodeBatchV2(longer) = EncodeBlock(new, EncodeBatchV2(front))
  <2>. HIDE DEF new, longer
  <2>. QED BY <1>3, <1>4, BatchAppend
<1>6. EncodeBatchV2(bs) = EncodeTransactions(txs, d)
  BY <1>1, BatchAppend DEF EncodeBlock
<1>7. EncodeBlock(new, EncodeBatchV2(front)) = EncodeTransactions(Append(txs, tx), d)
  <2>1. /\ new.DeltaTimestamp = b.DeltaTimestamp /\ new.IndexL1InfoTree = b.IndexL1InfoTree
        /\ new.Transactions = Append(txs, tx)
    BY DEF Block
  <2>. HIDE DEF new
  <2>. QED BY <2>1, Zenon DEF EncodeBlock, EncodeHeader
<1>8. EncodeTransactions(Append(txs, tx), d) = EncodeTx(tx, EncodeTransactions(txs, d))
  <2>. HIDE DEF txs, d
  <2>. QED BY <1>2, TransactionsAppend
<1>. QED BY <1>5, <1>6, <1>7, <1>8, Zenon

-----------------------------------------------------------------------------
(* What the encoder has written, and what is decoded from it. *)

(* What is decoded from data that breaks off: the blocks but the last one are those of
   the whole data, and all of them are encoded to the data that is left. *)
CutFits(cut, bs) ==
  LET decoded == Decoded(cut)[0] IN
  decoded.ok =>
    /\ decoded.open = <<>> => EncodeBatchV2(decoded.blocks) = cut
    /\ Len(decoded.blocks) <= Len(bs)
    /\ \A i \in 1 .. Len(decoded.blocks) - 1 : decoded.blocks[i] = bs[i]

(* The data d stands for the blocks bs behind the transactions txs. *)
StandsFor(d, bs, txs) ==
  /\ d \in Seq(Byte) /\ bs \in Seq(DecodedBlocks) /\ txs \in Seq(DecodedTxSet)
  /\ Decoded(d)[0] = [ok |-> TRUE, blocks |-> bs, open |-> txs]
  /\ txs = <<>> => EncodeBatchV2(bs) = d
  /\ \A n \in 0 .. Len(d) : CutFits(Slice(d, 0, n), bs)

(* Nothing is cut off. *)
LEMMA CutOfWhole ==
  ASSUME NEW s \in Bytes
  PROVE  Slice(s, 0, Len(s)) = s
<1>1. Slice(s, 0, Len(s)) = SubSeq(s, 1, Len(s))
  BY DEF Slice
<1>. QED BY <1>1, SubSeqFull DEF Bytes

(* An encoder that has been given nothing. *)
LEMMA EmptyStandsForNothing == StandsFor(<<>>, <<>>, <<>>)
<1>1. /\ <<>> \in Seq(Byte) /\ <<>> \in Seq(DecodedBlocks) /\ <<>> \in Seq(DecodedTxSet)
      /\ <<>> \in Bytes /\ Len(<<>>) = 0
  BY EmptySeq DEF Bytes
<1>2. Decoded(<<>>)[0] = [ok |-> TRUE, blocks |-> <<>>, open |-> <<>>]
  BY <1>1, DecodedStep DEF NoMore
<1>3. EncodeBatchV2(<<>>) = <<>>
  <2>1. <<>> \in Seq({0}) /\ 0 \in {0}
    BY EmptySeq
  <2>. QED BY <2>1, BatchAppend
<1>4. ASSUME NEW n \in 0 .. Len(<<>>) PROVE CutFits(Slice(<<>>, 0, n), <<>>)
  <2>1. n = 0
    BY <1>1
  <2>2. Slice(<<>>, 0, 0) = <<>>
    BY <1>1, CutOfWhole, Zenon
  <2>3. Decoded(<<>>)[0].blocks = <<>>
    BY <1>2
  <2>4. CutFits(<<>>, <<>>)
    <3>1. 0 <= 0 /\ \A i \in 1 .. 0 - 1 : FALSE
      OBVIOUS
    <3>. QED BY <1>1, <1>3, <2>3, <3>1, Zenon DEF CutFits
  <2>. QED BY <2>1, <2>2, <2>4, Zenon
<1>. QED BY <1>1, <1>2, <1>3, <1>4, Zenon DEF StandsFor

(* One item more behind the data. *)
LEMMA StandsForItem ==
  ASSUME NEW d, NEW bs, NEW txs, StandsFor(d, bs, txs),
         NEW piece \in Seq(Byte), Len(piece) > 0,
         NEW it, NextItem(d \o piece, Len(d)) = {it}, it.end = Len(d) + Len(piece),
         NEW bs2, NEW txs2,
         Extend([ok |-> TRUE, blocks |-> bs, open |-> txs], it)
           = [ok |-> TRUE, blocks |-> bs2, open |-> txs2],
         txs2 = <<>> => EncodeBatchV2(bs2) = d \o piece,
         Len(bs) <= Len(bs2), \A i \in 1 .. Len(bs) - 1 : bs2[i] = bs[i]
  PROVE  StandsFor(d \o piece, bs2, txs2)
<1>. DEFINE u == d \o piece
            parts == [ok |-> TRUE, blocks |-> bs, open |-> txs]
            parts2 == [ok |-> TRUE, blocks |-> bs2, open |-> txs2]
<1>1. /\ d \in Seq(Byte) /\ d \in Bytes /\ piece \in Bytes
      /\ bs \in Seq(DecodedBlocks) /\ txs \in Seq(DecodedTxSet)
      /\ Decoded(d)[0] = parts
      /\ \A n \in 0 .. Len(d) : CutFits(Slice(d, 0, n), bs)
  BY ByteSeq DEF StandsFor
<1>2. /\ u \in Seq(Byte) /\ u \in Bytes /\ Len(u) = Len(d) + Len(piece)
      /\ Len(d) \in Nat /\ Len(piece) \in Nat
  BY <1>1, ByteConcat, ConcatAt
<1>3. parts.ok /\ parts \in DecodedParts
  <2>1. parts \in DecodedParts
    BY <1>1, PartsIn
  <2>. QED BY <2>1
<1>4. ItemAt(it, Len(d), Len(u))
  <2>1. Len(d) \in 0 .. Len(u) - 1
    BY <1>2
  <2>2. it \in NextItem(u, Len(d))
    OBVIOUS
  <2>. HIDE DEF u
  <2>. QED BY <1>2, <2>1, <2>2, NextItemType
<1>5. bs2 \in Seq(DecodedBlocks) /\ txs2 \in Seq(DecodedTxSet)
  <2>. HIDE DEF parts
  <2>1. Extend(parts, it) \in DecodedParts
    BY <1>3, <1>4, ExtendType
  <2>2. Extend(parts, it) = parts2
    BY DEF parts
  <2>3. parts2 \in DecodedParts
    BY <2>1, <2>2, Zenon
  <2>4. parts2.blocks = bs2 /\ parts2.open = txs2
    OBVIOUS
  <2>. HIDE DEF parts2
  <2>. QED BY <2>3, <2>4, PartsOf
<1>6. /\ Decoded(u)[0] = parts2
      /\ \A n \in Len(d) + 1 .. Len(d) + Len(piece) - 1 : ~ Decoded(Slice(u, 0, n))[0].ok
  <2>1. Decoded(d)[0].ok
    BY <1>1, <1>3
  <2>2. /\ Decoded(u)[0] = Extend(Decoded(d)[0], it)
        /\ \A n \in Len(d) + 1 .. Len(d) + Len(piece) - 1 : ~ Decoded(Slice(u, 0, n))[0].ok
    BY <1>1, <2>1, DecodedItem
  <2>. QED BY <1>1, <2>2, Zenon
<1>7. ASSUME NEW n \in 0 .. Len(u) PROVE CutFits(Slice(u, 0, n), bs2)
  <2>1. CASE n <= Len(d)
    <3>1. n \in 0 .. Len(d) /\ 0 <= n /\ n \in Nat /\ 0 \in Nat
      BY <1>2, <2>1
    <3>2. Slice(u, 0, n) = Slice(d, 0, n)
      BY <1>1, <2>1, <3>1, SliceKept
    <3>. DEFINE decoded == Decoded(Slice(d, 0, n))[0]
                m == Len(decoded.blocks)
    <3>3. CutFits(Slice(d, 0, n), bs)
      BY <1>1, <3>1
    <3>4. Slice(d, 0, n) \in Bytes
      BY <1>1, <2>1, <3>1, SliceBytes
    <3>5. decoded \in DecodedParts
      <4>. DEFINE cut == Slice(d, 0, n)
      <4>. HIDE DEF cut
      <4>1. cut \in Bytes
        BY <3>4 DEF cut
      <4>2. 0 \in 0 .. Len(cut)
        BY <4>1 DEF Bytes
      <4>3. Decoded(cut)[0] \in DecodedParts
        BY <4>1, <4>2, DecodedType
      <4>. QED BY <4>3 DEF cut
    <3>6. Len(bs) \in Nat /\ Len(bs2) \in Nat /\ m \in Nat
      <4>1. decoded.blocks \in Seq(DecodedBlocks)
        <5>. HIDE DEF decoded
        <5>. QED BY <3>5, PartsOf
      <4>. HIDE DEF decoded
      <4>. QED BY <1>1, <1>5, <4>1, LenProperties
    <3>7. decoded.ok => m <= Len(bs) /\ \A i \in 1 .. m - 1 : decoded.blocks[i] = bs[i]
      BY <3>3, Zenon DEF CutFits
    <3>8. decoded.ok => m <= Len(bs2) /\ \A i \in 1 .. m - 1 : decoded.blocks[i] = bs2[i]
      <4>. HIDE DEF decoded, m
      <4>. QED BY <3>6, <3>7 DEF m
    <3>9. decoded.ok /\ decoded.open = <<>> => EncodeBatchV2(decoded.blocks) = Slice(d, 0, n)
      BY <3>3, Zenon DEF CutFits
    <3>10. CutFits(Slice(d, 0, n), bs2)
      BY <3>8, <3>9, Zenon DEF CutFits
    <3>. QED BY <3>2, <3>10, Zenon
  <2>2. CASE n > Len(d) /\ n < Len(u)
    <3>1. n \in Len(d) + 1 .. Len(d) + Len(piece) - 1
      BY <1>2, <2>2
    <3>. QED BY <1>6, <3>1, Zenon DEF CutFits
  <2>3. CASE n = Len(u)
    <3>. HIDE DEF u
    <3>1. Slice(u, 0, n) = u
      BY <1>2, <2>3, CutOfWhole
    <3>2. parts2.blocks = bs2 /\ parts2.open = txs2
      OBVIOUS
    <3>3. Len(bs2) \in Nat
      BY <1>5
    <3>4. Len(bs2) <= Len(bs2)
      BY <3>3
    <3>5. CutFits(u, bs2)
      <4>. HIDE DEF parts2
      <4>1. txs2 = <<>> => EncodeBatchV2(bs2) = u
        BY DEF u
      <4>. QED BY <1>6, <3>2, <3>4, <4>1, Zenon DEF CutFits
    <3>. QED BY <3>1, <3>5, Zenon
  <2>4. n <= Len(d) \/ (n > Len(d) /\ n < Len(u)) \/ n = Len(u)
    <3>1. \A a \in Nat, b \in Nat : \A m \in 0 .. b : m <= a \/ (m > a /\ m < b) \/ m = b
      OBVIOUS
    <3>2. Len(u) \in Nat
      BY <1>2
    <3>. HIDE DEF u
    <3>. QED BY <1>2, <3>1, <3>2, Zenon
  <2>. QED BY <2>1, <2>2, <2>3, <2>4, Zenon
<1>. QED BY <1>2, <1>5, <1>6, <1>7, Zenon DEF StandsFor

(* The header of a block more. *)
LEMMA StandsForHeader ==
  ASSUME NEW d, NEW bs, NEW txs, StandsFor(d, bs, txs),
         NEW delta, NEW index, Fits(delta, sizeUInt32), Fits(index, sizeUInt32)
  PROVE  LET header == [DeltaTimestamp |-> delta, IndexL1InfoTree |-> index,
                        Transactions |-> <<>>] IN
         /\ EncodeHeader(header, d) = d \o HeaderPiece(delta, index)
         /\ StandsFor(EncodeHeader(header, d), Append(bs, header), txs)
         /\ header \in DecodedBlocks
<1>. DEFINE header == [DeltaTimestamp |-> delta, IndexL1InfoTree |-> index,
                       Transactions |-> <<>>]
            piece == HeaderPiece(delta, index)
            it == HeaderItem(delta, index, Len(d))
            bs2 == Append(bs, header)
            u == d \o piece
<1>1. /\ d \in Seq(Byte) /\ d \in Bytes /\ Len(d) \in Nat
      /\ bs \in Seq(DecodedBlocks) /\ txs \in Seq(DecodedTxSet)
      /\ txs = <<>> => EncodeBatchV2(bs) = d
  BY ByteSeq, LenProperties DEF StandsFor
<1>2. piece \in Seq(Byte) /\ piece \in Bytes /\ Len(piece) = HeaderLength /\ Len(piece) > 0
  BY HeaderPieceBytes, ByteSeq
<1>3. EncodeHeader(header, d) = u
  <2>. DEFINE one == <<changeL2Block>>
              e1 == encodeUint32(delta)
              e2 == encodeUint32(index)
  <2>1. one \in Seq(Byte) /\ e1 \in Seq(Byte) /\ e2 \in Seq(Byte)
    <3>1. changeL2Block \in Byte
      BY Bounds DEF Byte
    <3>2. delta \in Nat /\ index \in Nat /\ sizeUInt32 \in Nat
      BY Bounds DEF Fits
    <3>. QED BY <3>1, <3>2, OneByte, BigEndianBytes DEF encodeUint32
  <2>2. EncodeHeader(header, d) = ((d \o one) \o e1) \o e2
    BY DEF EncodeHeader
  <2>3. piece = (one \o e1) \o e2
    BY DEF HeaderPiece
  <2>. HIDE DEF one, e1, e2, piece
  <2>4. ((d \o one) \o e1) \o e2 = d \o ((one \o e1) \o e2)
    <3>1. d \o one \in Seq(Byte) /\ one \o e1 \in Seq(Byte)
      BY <1>1, <2>1, ByteConcat
    <3>2. \A a, b, c \in Seq(Byte) : (a \o b) \o c = a \o (b \o c)
      BY Associative
    <3>. HIDE DEF Byte
    <3>3. (d \o one) \o e1 = d \o (one \o e1)
      BY <1>1, <2>1, <3>2, Zenon
    <3>4. (d \o (one \o e1)) \o e2 = d \o ((one \o e1) \o e2)
      BY <1>1, <2>1, <3>1, <3>2, Zenon
    <3>. QED BY <3>3, <3>4, Zenon
  <2>. QED BY <2>2, <2>3, <2>4, Zenon
<1>4. NextItem(u, Len(d)) = {it}
  <2>1. At(u, Len(d), piece)
    BY <1>1, <1>2, ConcatAt
  <2>2. u \in Bytes
    BY <1>1, <1>2, ConcatAt
  <2>. HIDE DEF u
  <2>3. At(u, Len(d), HeaderPiece(delta, index))
    BY <2>1
  <2>. QED BY <1>1, <2>2, <2>3, HeaderNext
<1>5. /\ it.isHeader = TRUE /\ it.end = Len(d) + Len(piece)
      /\ Block(it.content, <<>>) = header
  BY <1>2 DEF HeaderItem, Block
<1>6. header \in DecodedBlocks
  <2>1. delta \in Nat /\ index \in Nat /\ <<>> \in Seq(DecodedTxSet)
    BY EmptySeq DEF Fits
  <2>. QED BY <2>1 DEF DecodedBlocks
<1>7. Extend([ok |-> TRUE, blocks |-> bs, open |-> txs], it)
        = [ok |-> TRUE, blocks |-> bs2, open |-> txs]
  <2>. DEFINE parts == [ok |-> TRUE, blocks |-> bs, open |-> txs]
  <2>1. parts.blocks = bs /\ parts.open = txs
    OBVIOUS
  <2>. HIDE DEF parts, it, header
  <2>2. Extend(parts, it) = [ok |-> TRUE, blocks |-> bs2, open |-> txs]
    BY <1>5, <2>1, Zenon DEF Extend
  <2>. QED BY <2>2 DEF parts
<1>8. txs = <<>> => EncodeBatchV2(bs2) = u
  <2>. SUFFICES ASSUME txs = <<>> PROVE EncodeBatchV2(bs2) = u
    OBVIOUS
  <2>1. EncodeBatchV2(bs2) = EncodeBlock(header, d)
    <3>. HIDE DEF header
    <3>. QED BY <1>1, <1>6, BatchAppend
  <2>2. header.Transactions = <<>>
    OBVIOUS
  <2>3. EncodeTransactions(<<>>, EncodeHeader(header, d)) = EncodeHeader(header, d)
    <3>1. <<>> \in Seq({0}) /\ 0 \in {0}
      BY EmptySeq
    <3>. HIDE DEF header
    <3>. QED BY <3>1, TransactionsAppend
  <2>. HIDE DEF header, u
  <2>. QED BY <1>3, <2>1, <2>2, <2>3, Zenon DEF EncodeBlock
<1>9. Len(bs) <= Len(bs2) /\ \A i \in 1 .. Len(bs) - 1 : bs2[i] = bs[i]
  <2>. HIDE DEF header
  <2>1. Len(bs2) = Len(bs) + 1 /\ Len(bs) \in Nat /\ \A i \in 1 .. Len(bs) : bs2[i] = bs[i]
    BY <1>1, <1>6, AppendProperties
  <2>. HIDE DEF bs2
  <2>. QED BY <2>1
<1>. HIDE DEF header, it, piece, bs2
<1>10. StandsFor(u, bs2, txs)
  BY <1>2, <1>4, <1>5, <1>7, <1>8, <1>9, StandsForItem
<1>. QED BY <1>3, <1>6, <1>10 DEF header, piece, bs2

(* What is left of a transaction when it has been encoded is encoded to the same bytes. *)
LEMMA PlainedTx ==
  ASSUME NEW tx \in LegacyTxs, NEW e \in Byte, NEW d \in Seq(Byte)
  PROVE  /\ Plained(tx, e) \in DecodedTxSet
         /\ EncodeTx(Plained(tx, e), d) = d \o TxPiece(tx, e)
         /\ Append(d \o prepareRLPTxData(tx), e) = d \o TxPiece(tx, e)
<1>1. Plained(tx, e) \in DecodedTxSet
  <2>1. tx \in [data : Bytes, r : Nat, s : Nat, v : Int]
    <3>1. /\ tx.data \in Bytes /\ tx.r \in Nat /\ tx.s \in Nat
          /\ tx = [data |-> tx.data, v |-> tx.v, r |-> tx.r, s |-> tx.s]
      BY LegacyTx, ByteSeq
    <3>2. tx.v \in Int
      <4>1. tx.v \in {27, 28} \cup 35 .. 2 * Base + 34
        BY LegacyTx
      <4>. QED BY <4>1, Bounds
    <3>. QED BY <3>1, <3>2
  <2>2. e \in Nat
    BY Bounds DEF Byte
  <2>. QED BY <2>1, <2>2 DEF Plained, DecodedTxSet
<1>. DEFINE data == prepareRLPTxData(tx)
<1>2. data \in Seq(Byte)
  BY TxPieceBytes
<1>3. TxPiece(tx, e) = data \o <<e>>
  BY DEF TxPiece
<1>4. /\ Plained(tx, e).TxAlreadyEncoded = FALSE /\ Plained(tx, e).Tx = tx
      /\ Plained(tx, e).EfficiencyPercentage = e
  BY DEF Plained
<1>5. EncodeTx(Plained(tx, e), d) = Append(d \o data, e)
  BY <1>4, Zenon DEF EncodeTx
<1>. HIDE DEF data
<1>6. Append(d \o data, e) = (d \o data) \o <<e>>
  <2>1. d \o data \in Seq(Byte)
    BY <1>2, ByteConcat
  <2>. QED BY <2>1, AppendIsConcat
<1>7. (d \o data) \o <<e>> = d \o (data \o <<e>>)
  <2>1. <<e>> \in Seq(Byte)
    BY OneByte
  <2>2. \A a, b, c \in Seq(Byte) : (a \o b) \o c = a \o (b \o c)
    BY Associative
  <2>. HIDE DEF Byte
  <2>. QED BY <1>2, <2>1, <2>2, Zenon
<1>8. Append(d \o data, e) = d \o TxPiece(tx, e)
  BY <1>3, <1>6, <1>7, Zenon
<1>. QED BY <1>1, <1>5, <1>8, Zenon DEF data

(* A transaction the sequencer adds is written as its list and what follows it,
   whether it comes encoded or not. *)
LEMMA RawTxEncoded ==
  ASSUME NEW raw \in RawTxs, NEW d \in Seq(Byte)
  PROVE  /\ raw.Tx \in LegacyTxs /\ raw.EfficiencyPercentage \in Byte
         /\ Plain(raw) = Plained(raw.Tx, raw.EfficiencyPercentage)
         /\ EncodeTx(raw, d) = d \o TxPiece(raw.Tx, raw.EfficiencyPercentage)
<1>1. /\ raw \in [TxAlreadyEncoded : BOOLEAN, Data : Seq(Byte), Tx : LegacyTxs,
                  EfficiencyPercentage : Byte]
      /\ raw.Data = IF raw.TxAlreadyEncoded THEN prepareRLPTxData(raw.Tx) ELSE <<>>
  BY RawTxsAssumption
<1>2. raw.Tx \in LegacyTxs /\ raw.EfficiencyPercentage \in Byte /\ raw.TxAlreadyEncoded \in BOOLEAN
  BY <1>1
<1>3. raw = [TxAlreadyEncoded |-> raw.TxAlreadyEncoded, Data |-> raw.Data, Tx |-> raw.Tx,
             EfficiencyPercentage |-> raw.EfficiencyPercentage]
  BY <1>1
<1>4. Plain(raw) = Plained(raw.Tx, raw.EfficiencyPercentage)
  <2>. DEFINE a == raw.TxAlreadyEncoded
              b == raw.Data
              tx == raw.Tx
              e == raw.EfficiencyPercentage
  <2>1. raw = [TxAlreadyEncoded |-> a, Data |-> b, Tx |-> tx, EfficiencyPercentage |-> e]
    BY <1>3
  <2>2. Plain(raw) = [raw EXCEPT !.TxAlreadyEncoded = FALSE, !.Data = <<>>]
    BY DEF Plain
  <2>. HIDE DEF a, b, tx, e
  <2>3. Plain(raw) = [TxAlreadyEncoded |-> FALSE, Data |-> <<>>, Tx |-> tx,
                      EfficiencyPercentage |-> e]
    BY <2>1, <2>2
  <2>. QED BY <2>3 DEF Plained, tx, e
<1>5. EncodeTx(raw, d) = Append(d \o prepareRLPTxData(raw.Tx), raw.EfficiencyPercentage)
  BY <1>1, Zenon DEF EncodeTx
<1>. QED BY <1>2, <1>4, <1>5, PlainedTx, Zenon

(* A transaction more: in the last block, or before the first one. *)
LEMMA StandsForTx ==
  ASSUME NEW d, NEW bs, NEW txs, StandsFor(d, bs, txs), NEW raw \in RawTxs
  PROVE  LET tx == Plain(raw) IN
         /\ bs = <<>> => StandsFor(EncodeTx(raw, d), bs, Append(txs, tx))
         /\ bs # <<>> => StandsFor(EncodeTx(raw, d), Longer(bs, tx), txs)
<1>. DEFINE tx == raw.Tx
            e == raw.EfficiencyPercentage
            plain == Plained(tx, e)
            piece == TxPiece(tx, e)
            it == TxItem(tx, e, Len(d))
            u == d \o piece
            parts == [ok |-> TRUE, blocks |-> bs, open |-> txs]
<1>1. /\ d \in Seq(Byte) /\ d \in Bytes /\ Len(d) \in Nat
      /\ bs \in Seq(DecodedBlocks) /\ txs \in Seq(DecodedTxSet)
      /\ txs = <<>> => EncodeBatchV2(bs) = d
  BY ByteSeq, LenProperties DEF StandsFor
<1>2. tx \in LegacyTxs /\ e \in Byte /\ Plain(raw) = plain /\ EncodeTx(raw, d) = u
  BY <1>1, RawTxEncoded
<1>. HIDE DEF tx, e
<1>3. plain \in DecodedTxSet /\ EncodeTx(plain, d) = u
  BY <1>1, <1>2, PlainedTx
<1>4. piece \in Seq(Byte) /\ piece \in Bytes /\ Len(piece) > 0
  <2>1. /\ piece \in Seq(Byte) /\ piece \in Bytes
        /\ Len(piece) = Len(TxList(tx)) + TailLength
    BY <1>2, TxPieceBytes
  <2>2. Len(TxList(tx)) \in Nat
    <3>1. At(piece, 0, piece) /\ 0 \in Nat
      <4>1. <<>> \in Bytes /\ piece \o <<>> = piece
        BY <2>1, EmptySeq, ConcatEmptySeq DEF Bytes
      <4>2. At(piece \o <<>>, 0, piece)
        BY <2>1, <4>1, ConcatAt
      <4>. QED BY <4>1, <4>2
    <3>. QED BY <1>2, <2>1, <3>1, TxPieceParts
  <2>. HIDE DEF piece
  <2>. QED BY <2>1, <2>2, Lengths
<1>5. NextItem(u, Len(d)) = {it}
  <2>1. At(u, Len(d), piece) /\ u \in Bytes
    BY <1>1, <1>4, ConcatAt
  <2>. HIDE DEF u
  <2>2. At(u, Len(d), TxPiece(tx, e))
    BY <2>1
  <2>. QED BY <1>1, <1>2, <2>1, <2>2, TxNext
<1>6. it.isHeader = FALSE /\ it.end = Len(d) + Len(piece) /\ it.content = plain
  BY DEF TxItem
<1>7. parts.blocks = bs /\ parts.open = txs
  OBVIOUS
<1>8. ASSUME bs = <<>> PROVE StandsFor(u, bs, Append(txs, plain))
  <2>. DEFINE txs2 == Append(txs, plain)
  <2>. HIDE DEF it, plain
  <2>1. txs2 # <<>>
    BY <1>1, <1>3, AppendProperties
  <2>2. Extend(parts, it) = [ok |-> TRUE, blocks |-> bs, open |-> txs2]
    <3>. HIDE DEF parts
    <3>. QED BY <1>6, <1>7, <1>8, Zenon DEF Extend
  <2>3. Len(bs) \in Nat
    BY <1>1
  <2>4. Len(bs) <= Len(bs) /\ \A i \in 1 .. Len(bs) - 1 : bs[i] = bs[i]
    BY <2>3
  <2>. HIDE DEF piece, txs2
  <2>5. it.end = Len(d) + Len(piece)
    BY <1>6
  <2>6. StandsFor(d \o piece, bs, txs2)
    BY <1>4, <1>5, <2>5, <2>1, <2>2, <2>4, StandsForItem, Zenon
  <2>. QED BY <2>6 DEF txs2
<1>9. ASSUME bs # <<>> PROVE StandsFor(u, Longer(bs, plain), txs)
  <2>. DEFINE bs2 == Longer(bs, plain)
  <2>. HIDE DEF it, plain
  <2>1. Extend(parts, it) = [ok |-> TRUE, blocks |-> bs2, open |-> txs]
    <3>. HIDE DEF parts
    <3>. QED BY <1>6, <1>7, <1>9, Zenon DEF Extend
  <2>2. txs = <<>> => EncodeBatchV2(bs2) = u
    <3>1. EncodeBatchV2(bs2) = EncodeTx(plain, EncodeBatchV2(bs))
      BY <1>1, <1>3, <1>9, BatchLonger
    <3>. HIDE DEF bs2, u
    <3>. QED BY <1>1, <1>3, <3>1, Zenon
  <2>3. Len(bs) <= Len(bs2) /\ \A i \in 1 .. Len(bs) - 1 : bs2[i] = bs[i]
    <3>1. /\ Len(bs) \in Nat /\ Len(bs2) = Len(bs)
          /\ \A i \in 1 .. Len(bs) :
              bs2[i] = IF i = Len(bs) THEN Block(bs[i], Append(bs[i].Transactions, plain)) ELSE bs[i]
      BY <1>1, <1>3, <1>9, LongerType
    <3>. HIDE DEF bs2
    <3>2. Len(bs) <= Len(bs) /\ \A i \in 1 .. Len(bs) - 1 : i \in 1 .. Len(bs) /\ i # Len(bs)
      BY <3>1
    <3>. QED BY <3>1, <3>2, Zenon
  <2>. HIDE DEF piece, bs2
  <2>4. it.end = Len(d) + Len(piece)
    BY <1>6
  <2>5. StandsFor(d \o piece, bs2, txs)
    BY <1>4, <1>5, <2>1, <2>2, <2>3, <2>4, StandsForItem
  <2>. QED BY <2>5 DEF bs2
<1>. QED BY <1>2, <1>8, <1>9

(* The transactions s come first in t. *)
Starts(s, t) == Len(s) <= Len(t) /\ \A i \in 1 .. Len(s) : t[i] = s[i]

(* Starts, which compares elements, says what IsPrefix says. *)
LEMMA StartsIsPrefix ==
  ASSUME NEW S, NEW s \in Seq(S), NEW t \in Seq(S), Starts(s, t)
  PROVE  IsPrefix(s, t)
<1>. DEFINE n == Len(s)
            p == SubSeq(t, 1, n)
<1>1. n \in Nat /\ Len(t) \in Nat /\ n <= Len(t) /\ \A i \in 1 .. n : t[i] = s[i]
  BY LenProperties DEF Starts
<1>2. \A i \in 1 .. n : t[i] \in S
  <2>1. \A i \in 1 .. n : i \in 1 .. Len(t)
    BY <1>1
  <2>. QED BY <2>1, ElementOfSeq
<1>3. 1 \in Int /\ n \in Int
  BY <1>1
<1>4. p \in Seq(S) /\ Len(p) = n /\ \A i \in 1 .. n : p[i] = s[i]
  <2>. HIDE DEF n
  <2>1. /\ p \in Seq(S) /\ Len(p) = (IF 1 <= n THEN n - 1 + 1 ELSE 0)
        /\ \A i \in 1 .. n - 1 + 1 : p[i] = t[1 + i - 1]
    BY <1>2, <1>3, SubSeqProperties
  <2>2. (IF 1 <= n THEN n - 1 + 1 ELSE 0) = n /\ n - 1 + 1 = n /\ \A i \in 1 .. n : 1 + i - 1 = i
    BY <1>1
  <2>. QED BY <1>1, <2>1, <2>2, Zenon
<1>. HIDE DEF p
<1>5. p = s
  BY <1>4, SeqEqual
<1>6. SubSeq(s, 1, Len(s)) = s
  BY SubSeqFull
<1>. QED BY <1>1, <1>5, <1>6 DEF IsPrefix, p

(* The data d of a forced batch stands for the transactions txs; what is decoded from
   data that breaks off comes first in them. *)
ForcedCutFits(cut, txs) == DecodedTxs(cut)[0].ok => Starts(DecodedTxs(cut)[0].txs, txs)

ForcedStandsFor(d, txs) ==
  /\ d \in Seq(Byte) /\ txs \in Seq(DecodedTxSet)
  /\ DecodedTxs(d)[0] = [ok |-> TRUE, cut |-> FALSE, txs |-> txs]
  /\ \A n \in 0 .. Len(d) : ForcedCutFits(Slice(d, 0, n), txs)

(* A sequence starts itself and what is longer. *)
LEMMA StartsItself ==
  ASSUME NEW S, NEW t \in Seq(S), NEW e \in S
  PROVE  /\ Starts(t, t) /\ Starts(<<>>, t)
         /\ \A s \in Seq(S) : Starts(s, t) => Starts(s, Append(t, e))
<1>1. Len(t) \in Nat /\ Len(<<>>) = 0
  OBVIOUS
<1>2. Starts(t, t) /\ Starts(<<>>, t)
  BY <1>1 DEF Starts
<1>3. ASSUME NEW s \in Seq(S), Starts(s, t) PROVE Starts(s, Append(t, e))
  <2>. DEFINE u == Append(t, e)
  <2>1. Len(u) = Len(t) + 1 /\ (\A i \in 1 .. Len(t) : u[i] = t[i]) /\ Len(s) \in Nat
    BY AppendProperties
  <2>. HIDE DEF u
  <2>2. Starts(s, u)
    BY <1>1, <1>3, <2>1 DEF Starts
  <2>. QED BY <2>2 DEF u
<1>. QED BY <1>2, <1>3

(* The forced decoder reads nothing from nothing. *)
LEMMA EmptyForcedStands == ForcedStandsFor(<<>>, <<>>)
<1>1. /\ <<>> \in Seq(Byte) /\ <<>> \in Seq(DecodedTxSet) /\ <<>> \in Bytes /\ Len(<<>>) = 0
  BY EmptySeq DEF Bytes
<1>2. DecodedTxs(<<>>)[0] = [ok |-> TRUE, cut |-> FALSE, txs |-> <<>>]
  BY <1>1, DecodedTxsStep DEF NoTx
<1>3. ASSUME NEW n \in 0 .. Len(<<>>) PROVE ForcedCutFits(Slice(<<>>, 0, n), <<>>)
  <2>1. n = 0
    BY <1>1
  <2>2. Slice(<<>>, 0, 0) = <<>>
    BY <1>1, CutOfWhole, Zenon
  <2>3. DecodedTxs(<<>>)[0].txs = <<>>
    BY <1>2
  <2>4. Starts(<<>>, <<>>)
    BY DEF Starts
  <2>. QED BY <2>1, <2>2, <2>3, <2>4, Zenon DEF ForcedCutFits
<1>. QED BY <1>1, <1>2, <1>3, Zenon DEF ForcedStandsFor

(* A transaction more in a forced batch. *)
LEMMA ForcedStandsForTx ==
  ASSUME NEW d, NEW txs, ForcedStandsFor(d, txs), NEW raw \in RawTxs
  PROVE  ForcedStandsFor(EncodeTx(raw, d), Append(txs, Plain(raw)))
<1>. DEFINE tx == raw.Tx
            e == raw.EfficiencyPercentage
            plain == Plained(tx, e)
            piece == TxPiece(tx, e)
            u == d \o piece
            txs2 == Append(txs, plain)
            whole == [ok |-> TRUE, cut |-> FALSE, txs |-> txs]
            whole2 == [ok |-> TRUE, cut |-> FALSE, txs |-> txs2]
<1>1. /\ d \in Seq(Byte) /\ d \in Bytes /\ Len(d) \in Nat
      /\ txs \in Seq(DecodedTxSet)
      /\ DecodedTxs(d)[0] = whole
      /\ \A n \in 0 .. Len(d) : ForcedCutFits(Slice(d, 0, n), txs)
  BY ByteSeq, LenProperties DEF ForcedStandsFor
<1>2. tx \in LegacyTxs /\ e \in Byte /\ Plain(raw) = plain /\ EncodeTx(raw, d) = u
  BY <1>1, RawTxEncoded
<1>. HIDE DEF tx, e
<1>3. plain \in DecodedTxSet
  BY <1>1, <1>2, PlainedTx
<1>4. piece \in Seq(Byte) /\ piece \in Bytes /\ Len(piece) > 0
  <2>1. /\ piece \in Seq(Byte) /\ piece \in Bytes
        /\ Len(piece) = Len(TxList(tx)) + TailLength
    BY <1>2, TxPieceBytes
  <2>2. Len(TxList(tx)) \in Nat
    <3>1. At(piece, 0, piece) /\ 0 \in Nat
      <4>1. <<>> \in Bytes /\ piece \o <<>> = piece
        BY <2>1, EmptySeq, ConcatEmptySeq DEF Bytes
      <4>2. At(piece \o <<>>, 0, piece)
        BY <2>1, <4>1, ConcatAt
      <4>. QED BY <4>1, <4>2
    <3>. QED BY <1>2, <2>1, <3>1, TxPieceParts
  <2>. HIDE DEF piece
  <2>. QED BY <2>1, <2>2, Lengths
<1>5. ~ LengthIsCut(u, Len(d)) /\ NextTx(u, Len(d)) = [end |-> Len(d) + Len(piece), txs |-> {plain}]
  <2>1. At(u, Len(d), piece) /\ u \in Bytes
    BY <1>1, <1>4, ConcatAt
  <2>. HIDE DEF u
  <2>2. At(u, Len(d), TxPiece(tx, e))
    BY <2>1
  <2>. QED BY <1>1, <1>2, <2>1, <2>2, ForcedTxNext
<1>6. /\ u \in Seq(Byte) /\ u \in Bytes /\ Len(u) = Len(d) + Len(piece)
      /\ Len(d) \in Nat /\ Len(piece) \in Nat
  BY <1>1, <1>4, ByteConcat, ConcatAt
<1>7. whole.ok /\ ~ whole.cut /\ whole.txs = txs
  OBVIOUS
<1>. HIDE DEF plain, piece, whole
<1>8. /\ DecodedTxs(u)[0] = whole2
      /\ \A n \in Len(d) + 1 .. Len(d) + Len(piece) - 1 :
           ~ DecodedTxs(Slice(u, 0, n))[0].ok \/ DecodedTxs(Slice(u, 0, n))[0].txs = <<>>
  <2>1. DecodedTxs(d)[0].ok /\ ~ DecodedTxs(d)[0].cut /\ DecodedTxs(d)[0].txs = txs
    BY <1>1, <1>7
  <2>2. /\ DecodedTxs(u)[0]
             = [ok |-> TRUE, cut |-> FALSE, txs |-> Append(DecodedTxs(d)[0].txs, plain)]
        /\ \A n \in Len(d) + 1 .. Len(d) + Len(piece) - 1 :
             ~ DecodedTxs(Slice(u, 0, n))[0].ok \/ DecodedTxs(Slice(u, 0, n))[0].txs = <<>>
    BY <1>1, <1>4, <1>5, <2>1, ForcedItem
  <2>. QED BY <2>1, <2>2, Zenon
<1>9. txs2 \in Seq(DecodedTxSet) /\ Starts(txs2, txs2) /\ Starts(<<>>, txs2)
      /\ \A s \in Seq(DecodedTxSet) : Starts(s, txs) => Starts(s, txs2)
  <2>1. txs2 \in Seq(DecodedTxSet)
    BY <1>1, <1>3, AppendProperties
  <2>2. \A s \in Seq(DecodedTxSet) : Starts(s, txs) => Starts(s, txs2)
    BY <1>1, <1>3, StartsItself
  <2>. HIDE DEF txs2
  <2>3. Starts(txs2, txs2) /\ Starts(<<>>, txs2)
    BY <1>3, <2>1, StartsItself
  <2>. QED BY <2>1, <2>2, <2>3
<1>. HIDE DEF txs2
<1>10. ASSUME NEW n \in 0 .. Len(u) PROVE ForcedCutFits(Slice(u, 0, n), txs2)
  <2>1. CASE n <= Len(d)
    <3>1. n \in 0 .. Len(d) /\ 0 <= n /\ n \in Nat /\ 0 \in Nat
      BY <1>6, <2>1
    <3>2. Slice(u, 0, n) = Slice(d, 0, n)
      BY <1>1, <1>4, <2>1, <3>1, SliceKept
    <3>. DEFINE cut == Slice(d, 0, n)
    <3>3. cut \in Bytes
      BY <1>1, <2>1, <3>1, SliceBytes
    <3>4. ForcedCutFits(cut, txs)
      BY <1>1, <3>1
    <3>. HIDE DEF cut
    <3>5. 0 \in 0 .. Len(cut)
      BY <3>3 DEF Bytes
    <3>6. DecodedTxs(cut)[0] \in ForcedParts
      BY <3>3, <3>5, DecodedTxsType
    <3>7. DecodedTxs(cut)[0].txs \in Seq(DecodedTxSet)
      BY <3>6 DEF ForcedParts
    <3>8. ForcedCutFits(cut, txs2)
      BY <1>9, <3>4, <3>7, Zenon DEF ForcedCutFits
    <3>. QED BY <3>2, <3>8, Zenon DEF cut
  <2>2. CASE n > Len(d) /\ n < Len(u)
    <3>1. n \in Len(d) + 1 .. Len(d) + Len(piece) - 1
      BY <1>6, <2>2
    <3>. QED BY <1>8, <1>9, <3>1, Zenon DEF ForcedCutFits
  <2>3. CASE n = Len(u)
    <3>. HIDE DEF u
    <3>1. Slice(u, 0, n) = u
      BY <1>6, <2>3, CutOfWhole
    <3>2. DecodedTxs(u)[0].txs = txs2
      BY <1>8
    <3>. QED BY <1>9, <3>1, <3>2, Zenon DEF ForcedCutFits
  <2>4. n <= Len(d) \/ (n > Len(d) /\ n < Len(u)) \/ n = Len(u)
    <3>1. \A a \in Nat, b \in Nat : \A m \in 0 .. b : m <= a \/ (m > a /\ m < b) \/ m = b
      OBVIOUS
    <3>2. Len(u) \in Nat
      BY <1>6
    <3>. HIDE DEF u
    <3>. QED BY <1>6, <3>1, <3>2, Zenon
  <2>. QED BY <2>1, <2>2, <2>3, <2>4, Zenon
<1>11. ForcedStandsFor(u, txs2)
  <2>. HIDE DEF u
  <2>. QED BY <1>6, <1>8, <1>9, <1>10, Zenon DEF ForcedStandsFor
<1>. QED BY <1>2, <1>11, Zenon DEF txs2

(* What DecodeBatchV2 returns for data and for data that breaks off. *)
LEMMA StandsForDecodes ==
  ASSUME NEW d, NEW bs, NEW txs, StandsFor(d, bs, txs)
  PROVE  /\ d = <<>> <=> bs = <<>> /\ txs = <<>>
         /\ txs # <<>> => ~ DecodeBatchV2(d).ok
         /\ txs = <<>> => /\ DecodeBatchV2(d).ok
                          /\ DecodeBatchV2(d).blocks = bs
                          /\ EncodeBatchV2(DecodeBatchV2(d).blocks) = d
<1>. DEFINE parts == [ok |-> TRUE, blocks |-> bs, open |-> txs]
<1>1. Decoded(d)[0] = parts /\ (txs = <<>> => EncodeBatchV2(bs) = d)
  BY DEF StandsFor
<1>2. parts.ok = TRUE /\ parts.blocks = bs /\ parts.open = txs
  OBVIOUS
<1>. HIDE DEF parts
<1>3. txs = <<>> => DecodeBatchV2(d) = parts
  BY <1>1, <1>2, Zenon DEF DecodeBatchV2
<1>4. txs # <<>> => DecodeBatchV2(d) = Malformed
  BY <1>1, <1>2, Zenon DEF DecodeBatchV2
<1>5. d = <<>> => bs = <<>> /\ txs = <<>>
  <2>. SUFFICES ASSUME d = <<>> PROVE bs = <<>> /\ txs = <<>>
    OBVIOUS
  <2>1. StandsFor(<<>>, <<>>, <<>>)
    BY EmptyStandsForNothing
  <2>2. Decoded(<<>>)[0] = [ok |-> TRUE, blocks |-> <<>>, open |-> <<>>]
    BY <2>1, Zenon DEF StandsFor
  <2>3. Decoded(<<>>)[0].blocks = <<>> /\ Decoded(<<>>)[0].open = <<>>
    BY <2>2
  <2>. QED BY <1>1, <1>2, <2>3, Zenon
<1>6. bs = <<>> /\ txs = <<>> => d = <<>>
  <2>1. <<>> \in Seq({0}) /\ 0 \in {0}
    BY EmptySeq
  <2>2. EncodeBatchV2(<<>>) = <<>>
    BY <2>1, BatchAppend
  <2>. QED BY <1>1, <2>2
<1>. QED BY <1>1, <1>2, <1>3, <1>4, <1>5, <1>6, NoMoreParts

(* The decoder of batches on data that break off. *)
LEMMA CutDecodes ==
  ASSUME NEW d, NEW bs, NEW txs, StandsFor(d, bs, txs), NEW n \in 0 .. Len(d)
  PROVE  LET cut == Slice(d, 0, n)
             decoded == DecodeBatchV2(cut) IN
         decoded.ok /\ n > 0 =>
           /\ IsPrefix(SubSeq(decoded.blocks, 1, Len(decoded.blocks) - 1), bs)
           /\ EncodeBatchV2(decoded.blocks) = cut
<1>. DEFINE cut == Slice(d, 0, n)
            parts == Decoded(cut)[0]
            cs == parts.blocks
            front == SubSeq(cs, 1, Len(cs) - 1)
<1>1. /\ d \in Seq(Byte) /\ d \in Bytes /\ Len(d) \in Nat /\ bs \in Seq(DecodedBlocks)
      /\ CutFits(cut, bs)
  BY ByteSeq, LenProperties DEF StandsFor
<1>2. cut \in Bytes /\ Len(cut) = n
  <2>1. 0 \in Nat /\ n \in Nat /\ 0 <= n /\ n <= Len(d) /\ n - 0 = n
    BY <1>1
  <2>. QED BY <1>1, <2>1, SliceBytes
<1>. SUFFICES ASSUME DecodeBatchV2(cut).ok, n > 0
              PROVE  /\ IsPrefix(SubSeq(DecodeBatchV2(cut).blocks, 1,
                                        Len(DecodeBatchV2(cut).blocks) - 1), bs)
                     /\ EncodeBatchV2(DecodeBatchV2(cut).blocks) = cut
  OBVIOUS
<1>. HIDE DEF cut
<1>3. parts \in DecodedParts
  <2>1. 0 \in 0 .. Len(cut)
    BY <1>2
  <2>. QED BY <1>2, <2>1, DecodedType
<1>4. parts.open = <<>> /\ DecodeBatchV2(cut) = parts /\ parts.ok
  <2>. HIDE DEF parts
  <2>1. DecodeBatchV2(cut) = IF parts.open = <<>> THEN parts ELSE Malformed
    BY Zenon DEF DecodeBatchV2, parts
  <2>. QED BY <2>1, NoMoreParts
<1>5. /\ EncodeBatchV2(cs) = cut /\ Len(cs) <= Len(bs)
      /\ \A i \in 1 .. Len(cs) - 1 : cs[i] = bs[i]
  BY <1>1, <1>4, Zenon DEF CutFits
<1>6. cs \in Seq(DecodedBlocks)
  <2>. HIDE DEF parts
  <2>. QED BY <1>3, PartsOf
<1>. HIDE DEF parts, cs
<1>7. cs # <<>>
  <2>1. <<>> \in Seq({0}) /\ 0 \in {0} /\ Len(<<>>) = 0
    BY EmptySeq
  <2>2. EncodeBatchV2(<<>>) = <<>>
    BY <2>1, BatchAppend
  <2>3. cut # <<>>
    BY <1>2, <2>1
  <2>. QED BY <1>5, <2>2, <2>3
<1>8. Len(cs) \in Nat /\ Len(cs) > 0 /\ Len(bs) \in Nat
  BY <1>1, <1>6, <1>7, EmptySeq
<1>9. front \in Seq(DecodedBlocks) /\ Starts(front, bs)
  <2>. DEFINE m == Len(cs) - 1
  <2>1. m \in Nat /\ m <= Len(cs) /\ m <= Len(bs) /\ 0 \in Nat /\ 0 <= m /\ m - 0 = m
    BY <1>5, <1>8
  <2>2. \A i \in 1 .. m : cs[i] = bs[i]
    BY <1>5
  <2>3. \A i \in 1 .. m : 0 + i = i
    OBVIOUS
  <2>4. front = Slice(cs, 0, m)
    BY DEF Slice
  <2>. HIDE DEF m
  <2>5. /\ Slice(cs, 0, m) \in Seq(DecodedBlocks) /\ Len(Slice(cs, 0, m)) = m - 0
        /\ \A i \in 1 .. m - 0 : Slice(cs, 0, m)[i] = cs[0 + i]
    BY <1>6, <2>1, SliceSeq
  <2>. HIDE DEF front
  <2>6. front \in Seq(DecodedBlocks) /\ Len(front) = m /\ \A i \in 1 .. m : bs[i] = front[i]
    BY <2>1, <2>2, <2>3, <2>4, <2>5, Zenon
  <2>. QED BY <2>1, <2>6, Zenon DEF Starts
<1>10. IsPrefix(front, bs)
  <2>. HIDE DEF front
  <2>. QED BY <1>1, <1>9, StartsIsPrefix
<1>. QED BY <1>4, <1>5, <1>10 DEF front, cs

(* The decoder of forced batches, on whole data and on data that break off. *)
LEMMA ForcedDecodes ==
  ASSUME NEW d, NEW txs, ForcedStandsFor(d, txs)
  PROVE  /\ DecodeForcedBatchV2(d) = [ok |-> TRUE, txs |-> txs]
         /\ \A n \in 0 .. Len(d) :
              DecodeForcedBatchV2(Slice(d, 0, n)).ok =>
                IsPrefix(DecodeForcedBatchV2(Slice(d, 0, n)).txs, txs)
<1>1. /\ d \in Seq(Byte) /\ d \in Bytes /\ Len(d) \in Nat /\ txs \in Seq(DecodedTxSet)
      /\ DecodedTxs(d)[0] = [ok |-> TRUE, cut |-> FALSE, txs |-> txs]
      /\ \A n \in 0 .. Len(d) : ForcedCutFits(Slice(d, 0, n), txs)
  BY ByteSeq, LenProperties DEF ForcedStandsFor
<1>2. DecodeForcedBatchV2(d) = [ok |-> TRUE, txs |-> txs]
  BY <1>1 DEF DecodeForcedBatchV2
<1>3. ASSUME NEW n \in 0 .. Len(d), DecodeForcedBatchV2(Slice(d, 0, n)).ok
      PROVE  IsPrefix(DecodeForcedBatchV2(Slice(d, 0, n)).txs, txs)
  <2>. DEFINE cut == Slice(d, 0, n)
              forced == DecodedTxs(cut)[0]
  <2>1. cut \in Bytes
    <3>1. 0 \in Nat /\ n \in Nat /\ 0 <= n /\ n <= Len(d)
      BY <1>1
    <3>. QED BY <1>1, <3>1, SliceBytes
  <2>2. ForcedCutFits(cut, txs)
    BY <1>1
  <2>3. DecodeForcedBatchV2(cut).ok = forced.ok /\ DecodeForcedBatchV2(cut).txs = forced.txs
    <3>1. DecodeForcedBatchV2(cut) = [ok |-> forced.ok, txs |-> forced.txs]
      BY Zenon DEF DecodeForcedBatchV2
    <3>. HIDE DEF forced, cut
    <3>. QED BY <3>1
  <2>4. forced.ok
    BY <1>3, <2>3
  <2>. HIDE DEF cut
  <2>5. forced \in ForcedParts
    <3>1. 0 \in 0 .. Len(cut)
      BY <2>1 DEF Bytes
    <3>. QED BY <2>1, <3>1, DecodedTxsType
  <2>6. forced.txs \in Seq(DecodedTxSet)
    <3>. HIDE DEF forced
    <3>. QED BY <2>5 DEF ForcedParts
  <2>7. Starts(forced.txs, txs)
    BY <2>2, <2>4, Zenon DEF ForcedCutFits
  <2>. HIDE DEF forced
  <2>8. IsPrefix(forced.txs, txs)
    BY <1>1, <2>6, <2>7, StartsIsPrefix
  <2>. QED BY <2>3, <2>8, Zenon DEF cut
<1>. QED BY <1>2, <1>3

(* The bounds of the model, as numbers. *)
LEMMA ZeroFits == \A size \in Nat : Fits(0, size)
<1>. DEFINE T == {k \in Nat : Shifted(0)[k] = 0}
<1>1. 0 \in T
  BY ShiftedStep
<1>2. ASSUME NEW k \in Nat, k \in T PROVE k + 1 \in T
  <2>1. Shifted(0)[k + 1] = Shifted(0)[k] \div Base
    BY ShiftedStep
  <2>2. Shifted(0)[k] = 0
    BY <1>2
  <2>3. 0 \div Base = 0
    BY Bounds
  <2>4. k + 1 \in Nat
    OBVIOUS
  <2>. QED BY <2>1, <2>2, <2>3, <2>4, Zenon
<1>3. Nat \subseteq T
  <2>. HIDE DEF T
  <2>. QED BY <1>1, <1>2, SetInduction
<1>. QED BY <1>3 DEF Fits

LEMMA InputBounds ==
  /\ MaxItems \in Nat /\ MaxReorgs \in Nat /\ MaxLeaves \in Nat
  /\ MaxLeaves <= PowersOf2[Height] /\ PowersOf2[Height] \in Nat
  /\ \A n \in DeltaTimestamps : Fits(n, sizeUInt32)
  /\ \A n \in 0 .. MaxLeaves - 1 : Fits(n, sizeUInt32)
<1>1. Height \in 0 .. Height
  BY HeightAssumption
<1>2. PowersOf2[Height] \in Nat
  BY <1>1, PowersPositive
<1>. QED BY <1>2, InputAssumption

(* A new leaf is one of the leaves. *)
LEMMA LeafInLeaves ==
  ASSUME NEW n \in Nat, NEW r \in 0 .. MaxReorgs, n < MaxLeaves
  PROVE  (n + 1) + r * MaxLeaves \in Leaves
<1>1. \A m, k \in Nat : k > 0 /\ r <= k - 1 /\ n < m => r * m + (n + 1) <= m * k
  <2>. TAKE m, k \in Nat
  <2>. HAVE k > 0 /\ r <= k - 1 /\ n < m
  <2>1. r * m <= (k - 1) * m
    BY SMT
  <2>2. (k - 1) * m = m * k - m
    BY SMT
  <2>3. r * m \in Nat /\ m * k \in Nat
    BY SMT
  <2>. QED BY <2>1, <2>2, <2>3
<1>2. MaxReorgs + 1 \in Nat /\ MaxReorgs + 1 > 0 /\ r <= (MaxReorgs + 1) - 1
      /\ MaxLeaves \in Nat
  BY InputBounds
<1>3. r * MaxLeaves + (n + 1) <= MaxLeaves * (MaxReorgs + 1)
  BY <1>1, <1>2
<1>4. r * MaxLeaves \in Nat /\ MaxLeaves * (MaxReorgs + 1) \in Nat
  BY <1>2, SMT
<1>. DEFINE a == r * MaxLeaves
            b == MaxLeaves * (MaxReorgs + 1)
<1>5. a \in Nat /\ b \in Nat /\ a + (n + 1) <= b
  BY <1>3, <1>4
<1>. HIDE DEF a, b
<1>6. (n + 1) + a \in 1 .. b
  BY <1>5
<1>. QED BY <1>6 DEF Leaves, a, b

-----------------------------------------------------------------------------
(* The inductive invariant. *)

(* The indices of the first n blocks, but 0, which stands for no leaf. *)
Indices(n) == {blocks[i].IndexL1InfoTree : i \in 1 .. n} \ {0}

TreeInv ==
  /\ leaves \in Seq(Leaves) /\ Len(leaves) <= MaxLeaves
  /\ reorgs \in 0 .. MaxReorgs
  /\ TreeOf(tree, leaves)

EncoderInv ==
  /\ StandsFor(batchData, blocks, orphans)
  /\ blocks = <<>> => ForcedStandsFor(batchData, orphans)

(* The batch was closed with the tree of the leaves closed, to which its blocks refer. *)
ClosedWith(closed) ==
  /\ closed \in Seq(Leaves) /\ Len(closed) <= MaxLeaves
  /\ batch.L1InfoRoot = ReferenceRoot(closed)
  /\ batch.reorgs \in 0 .. reorgs
  /\ batch.reorgs = reorgs => Starts(closed, leaves)
  /\ Indices(Len(blocks)) \subseteq 1 .. Len(closed) - 1

(* The leaves that buildInputProver has read are of one tree, and of the batch's as
   long as L1 has not been reorganised. *)
Collecting ==
  /\ ~ IsForcedBatch /\ orphans = <<>>
  /\ build.aLeaves \in Seq(Leaves) /\ Len(build.aLeaves) <= MaxLeaves
  /\ build.reorgs \in batch.reorgs .. reorgs
  /\ build.reorgs = reorgs => Starts(build.aLeaves, leaves)
  /\ batch.reorgs = reorgs => ReferenceRoot(build.aLeaves) = batch.L1InfoRoot
  /\ DOMAIN build.l1InfoTreeData = Indices(build.next - 1)

ProofsFit ==
  \A index \in DOMAIN build.l1InfoTreeData :
    RootOfProof(index, build.l1InfoTreeData[index].leaf, build.l1InfoTreeData[index].smtProof)
      = batch.L1InfoRoot

Built ==
  /\ build = [step |-> build.step, aLeaves |-> build.aLeaves, reorgs |-> build.reorgs,
              next |-> build.next, l1InfoTreeData |-> build.l1InfoTreeData,
              torn |-> build.torn]
  /\ build.torn \in BOOLEAN
  /\ build.next \in 1 .. Len(blocks) + 1
  /\ build.torn \/ ProofsFit
  /\ build.step = "leaves" => Collecting
  /\ build.step # "leaves" => build.next = 1
  /\ build.step = "done" =>
       IF IsForcedBatch THEN build.l1InfoTreeData = <<>>
       ELSE DOMAIN build.l1InfoTreeData = Indices(Len(blocks))
  /\ build.step \notin {"leaves", "done"} => build.l1InfoTreeData = <<>>
  /\ build.step = "mismatch" => reorgs # batch.reorgs

BatchInv ==
  /\ batch.kind \in {"none", "regular", "first", "forced"}
  /\ build.step \in Steps
  /\ build.step = "none" <=> batch.kind = "none"
  /\ batch.kind = "none" =>
       build = NoBuild /\ Indices(Len(blocks)) \subseteq 1 .. Len(leaves) - 1
  /\ batch.kind # "none" => \E closed \in Seq(Leaves) : ClosedWith(closed)
  /\ Built

InputInv == TreeInv /\ EncoderInv /\ BatchInv

(* The tree is that of the leaves, in every step. *)
LEMMA InitTree == Init => TreeInv
<1>. SUFFICES ASSUME Init PROVE TreeInv
  OBVIOUS
<1>1. leaves = <<>> /\ reorgs = 0 /\ tree = NewL1InfoTree(<<>>)
  BY DEF Init
<1>2. <<>> \in Seq(Leaves) /\ Len(<<>>) = 0
  BY EmptySeq
<1>3. TreeOf(NewL1InfoTree(<<>>), <<>>)
  <2>1. Len(<<>>) <= PowersOf2[Height]
    BY <1>2, InputBounds
  <2>. QED BY <1>2, <2>1, NewTreeFits
<1>. QED BY <1>1, <1>2, <1>3, InputBounds DEF TreeInv

LEMMA TreeStep == TreeInv /\ [Next]_vars => TreeInv'
<1>. SUFFICES ASSUME TreeInv, [Next]_vars PROVE TreeInv'
  OBVIOUS
<1>. USE DEF TreeInv
<1>1. CASE L1Grows
  <2>. DEFINE leaf == Leaf(Len(leaves) + 1)
  <2>1. /\ Len(leaves) < MaxLeaves /\ leaves' = Append(leaves, leaf)
        /\ tree' = AddLeaf(tree, Len(leaves), leaf) /\ reorgs' = reorgs
    BY <1>1 DEF L1Grows
  <2>2. leaf \in Leaves
    <3>1. Len(leaves) \in Nat
      OBVIOUS
    <3>. QED BY <2>1, <3>1, LeafInLeaves DEF Leaf
  <2>. HIDE DEF leaf
  <2>3. Append(leaves, leaf) \in Seq(Leaves) /\ Len(Append(leaves, leaf)) = Len(leaves) + 1
    BY <2>2, AppendProperties
  <2>4. Len(leaves) < PowersOf2[Height] /\ Len(leaves) + 1 <= MaxLeaves
    BY <2>1, InputBounds
  <2>5. TreeOf(AddLeaf(tree, Len(leaves), leaf), Append(leaves, leaf))
    BY <2>2, <2>4, AddLeafFits
  <2>. QED BY <2>1, <2>3, <2>4, <2>5
<1>2. CASE L1Reorg
  <2>1. PICK n \in 0 .. Len(leaves) - 1 : leaves' = SubSeq(leaves, 1, n)
    BY <1>2 DEF L1Reorg
  <2>2. reorgs < MaxReorgs /\ reorgs' = reorgs + 1 /\ tree' = NewL1InfoTree(leaves')
    BY <1>2 DEF L1Reorg
  <2>3. leaves' \in Seq(Leaves) /\ Len(leaves') = n
    <3>1. n \in Nat /\ 0 \in Nat /\ 0 <= n /\ n <= Len(leaves) /\ n - 0 = n
      OBVIOUS
    <3>2. Slice(leaves, 0, n) \in Seq(Leaves) /\ Len(Slice(leaves, 0, n)) = n - 0
      BY <3>1, SliceSeq
    <3>. QED BY <2>1, <3>1, <3>2 DEF Slice
  <2>4. Len(leaves') <= MaxLeaves /\ Len(leaves') <= PowersOf2[Height]
    BY <2>3, InputBounds
  <2>5. TreeOf(tree', leaves')
    BY <2>2, <2>3, <2>4, NewTreeFits
  <2>6. reorgs' \in 0 .. MaxReorgs
    BY <2>2, InputBounds
  <2>. QED BY <2>3, <2>4, <2>5, <2>6
<1>3. CASE UNCHANGED l1Vars
  BY <1>3 DEF l1Vars
<1>4. [Next]_vars => L1Grows \/ L1Reorg \/ UNCHANGED l1Vars
  BY DEF Next, L1, Encoder, Builder, AddBlockHeader, AddTransaction, Close, BuildInputProver,
         AddL1Data, BuildDone, BuildFails, Retry, NextBatch, vars, l1Vars
<1>. QED BY <1>1, <1>2, <1>3, <1>4

(* The data stand for what the encoder has been given, in every step. *)
LEMMA InitEncoder == Init => EncoderInv
BY EmptyStandsForNothing, EmptyForcedStands DEF Init, EncoderInv

LEMMA EncoderStep == TreeInv /\ EncoderInv /\ [Next]_vars => EncoderInv'
<1>. SUFFICES ASSUME TreeInv, EncoderInv, [Next]_vars PROVE EncoderInv'
  OBVIOUS
<1>. USE DEF EncoderInv
<1>1. CASE AddBlockHeader
  <2>1. PICK index \in {0} \cup 1 .. Len(leaves) - 1, delta \in DeltaTimestamps :
          LET header == [DeltaTimestamp |-> delta, IndexL1InfoTree |-> index,
                         Transactions |-> <<>>]
          IN batchData' = EncodeHeader(header, batchData) /\ blocks' = Append(blocks, header)
    BY <1>1 DEF AddBlockHeader
  <2>2. orphans' = orphans
    BY <1>1 DEF AddBlockHeader
  <2>3. Fits(delta, sizeUInt32) /\ Fits(index, sizeUInt32)
    <3>1. index = 0 \/ index \in 0 .. MaxLeaves - 1
      BY InputBounds DEF TreeInv
    <3>2. Fits(0, sizeUInt32)
      BY ZeroFits, Bounds
    <3>. QED BY <3>1, <3>2, InputBounds
  <2>. DEFINE header == [DeltaTimestamp |-> delta, IndexL1InfoTree |-> index,
                         Transactions |-> <<>>]
  <2>4. /\ StandsFor(EncodeHeader(header, batchData), Append(blocks, header), orphans)
        /\ header \in DecodedBlocks
    BY <2>3, StandsForHeader
  <2>5. Append(blocks, header) # <<>>
    <3>1. blocks \in Seq(DecodedBlocks)
      BY DEF StandsFor
    <3>. HIDE DEF header
    <3>. QED BY <2>4, <3>1, AppendProperties
  <2>. QED BY <2>1, <2>2, <2>4, <2>5
<1>2. CASE AddTransaction
  <2>1. PICK tx \in RawTxs :
          /\ batchData' = EncodeTx(tx, batchData)
          /\ \/ /\ blocks = <<>>
                /\ orphans' = Append(orphans, Plain(tx))
                /\ UNCHANGED blocks
             \/ /\ blocks # <<>>
                /\ blocks' = [blocks EXCEPT ![Len(blocks)].Transactions = Append(@, Plain(tx))]
                /\ UNCHANGED orphans
    BY <1>2 DEF AddTransaction
  <2>2. CASE blocks = <<>>
    <3>1. orphans' = Append(orphans, Plain(tx)) /\ blocks' = blocks
      BY <2>1, <2>2
    <3>2. StandsFor(EncodeTx(tx, batchData), blocks, Append(orphans, Plain(tx)))
      BY <2>2, StandsForTx
    <3>3. ForcedStandsFor(EncodeTx(tx, batchData), Append(orphans, Plain(tx)))
      BY <2>2, ForcedStandsForTx
    <3>. QED BY <2>1, <3>1, <3>2, <3>3
  <2>3. CASE blocks # <<>>
    <3>1. orphans' = orphans /\ blocks' = Longer(blocks, Plain(tx))
      BY <2>1, <2>3 DEF Longer
    <3>2. StandsFor(EncodeTx(tx, batchData), Longer(blocks, Plain(tx)), orphans)
      BY <2>3, StandsForTx
    <3>3. Longer(blocks, Plain(tx)) # <<>>
      <4>1. blocks \in Seq(DecodedBlocks) /\ batchData \in Seq(Byte)
        BY DEF StandsFor
      <4>2. Plain(tx) \in DecodedTxSet
        BY <4>1, RawTxEncoded, PlainedTx
      <4>. QED BY <2>3, <4>1, <4>2, LongerType
    <3>. QED BY <2>1, <3>1, <3>2, <3>3
  <2>. QED BY <2>2, <2>3
<1>3. CASE NextBatch
  BY <1>3, EmptyStandsForNothing, EmptyForcedStands DEF NextBatch
<1>4. CASE UNCHANGED encoderVars
  BY <1>4 DEF encoderVars
<1>5. [Next]_vars => AddBlockHeader \/ AddTransaction \/ NextBatch \/ UNCHANGED encoderVars
  BY DEF Next, L1, Encoder, Builder, L1Grows, L1Reorg, Close, BuildInputProver,
         AddL1Data, BuildDone, BuildFails, Retry, vars, encoderVars
<1>. QED BY <1>1, <1>2, <1>3, <1>4, <1>5

(* buildInputProver that holds nothing. *)
LEMMA EndedFields ==
  ASSUME NEW step
  PROVE  /\ Ended(step) = [step |-> step, aLeaves |-> <<>>, reorgs |-> 0, next |-> 1,
                           l1InfoTreeData |-> <<>>, torn |-> FALSE]
         /\ Ended(step).step = step /\ Ended(step).next = 1 /\ Ended(step).torn = FALSE
         /\ Ended(step).aLeaves = <<>> /\ Ended(step).reorgs = 0
         /\ Ended(step).l1InfoTreeData = <<>> /\ DOMAIN <<>> = {}
         /\ NoBuild = Ended("none")
<1>1. NoBuild = [step |-> "none", aLeaves |-> <<>>, reorgs |-> 0, next |-> 1,
                 l1InfoTreeData |-> <<>>, torn |-> FALSE]
  BY DEF NoBuild
<1>2. Ended(step) = [NoBuild EXCEPT !.step = step] /\ Ended("none") = [NoBuild EXCEPT !.step = "none"]
  BY DEF Ended
<1>. DEFINE e == <<>>
<1>3. DOMAIN e = {}
  <2>1. e \in Seq({0})
    BY EmptySeq
  <2>2. DOMAIN e = 1 .. Len(e) /\ Len(e) = 0
    BY <2>1, LenProperties
  <2>3. 1 .. 0 = {}
    OBVIOUS
  <2>. QED BY <2>2, <2>3, Zenon
<1>. HIDE DEF e
<1>4. Ended(step) = [step |-> step, aLeaves |-> e, reorgs |-> 0, next |-> 1,
                     l1InfoTreeData |-> e, torn |-> FALSE]
  BY <1>1, <1>2 DEF e
<1>5. /\ Ended(step).step = step /\ Ended(step).next = 1 /\ Ended(step).torn = FALSE
      /\ Ended(step).aLeaves = e /\ Ended(step).reorgs = 0
      /\ Ended(step).l1InfoTreeData = e
  BY <1>4
<1>6. NoBuild = Ended("none")
  BY <1>1, <1>2
<1>. QED BY <1>3, <1>4, <1>5, <1>6, Zenon DEF e

(* buildInputProver that has got nowhere, or has returned without an input. *)
LEMMA EndedBuilt ==
  ASSUME NEW step \in Steps, EncoderInv', build' = Ended(step), step # "leaves",
         step = "mismatch" => reorgs' # batch.reorgs',
         step = "done" => IsForcedBatch'
  PROVE  Built'
<1>1. Len(blocks') \in Nat
  BY LenProperties DEF EncoderInv, StandsFor
<1>2. 1 \in 1 .. Len(blocks') + 1 /\ FALSE \in BOOLEAN
  BY <1>1
<1>3. build' = [step |-> step, aLeaves |-> <<>>, reorgs |-> 0, next |-> 1,
                l1InfoTreeData |-> <<>>, torn |-> FALSE]
  BY EndedFields, Zenon
<1>4. /\ build'.step = step /\ build'.next = 1 /\ build'.torn = FALSE
      /\ build'.aLeaves = <<>> /\ build'.reorgs = 0
      /\ build'.l1InfoTreeData = <<>> /\ DOMAIN build'.l1InfoTreeData = {}
  BY EndedFields, Zenon
<1>5. ProofsFit'
  BY <1>4 DEF ProofsFit
<1>6. build' = [step |-> build'.step, aLeaves |-> build'.aLeaves, reorgs |-> build'.reorgs,
                next |-> build'.next, l1InfoTreeData |-> build'.l1InfoTreeData,
                torn |-> build'.torn]
  BY <1>3, <1>4, Zenon
<1>. QED BY <1>2, <1>4, <1>5, <1>6, Zenon DEF Built

(* One more block is looked at. *)
LEMMA IndicesNext ==
  ASSUME NEW n \in Nat
  PROVE  /\ Indices(0) = {}
         /\ Indices(n + 1) = Indices(n) \cup ({blocks[n + 1].IndexL1InfoTree} \ {0})
<1>1. 1 .. n + 1 = (1 .. n) \cup {n + 1} /\ 1 .. 0 = {}
  OBVIOUS
<1>. QED BY <1>1 DEF Indices

(* What the steps of buildInputProver need of the invariant. *)
LEMMA InputInvIn ==
  ASSUME InputInv
  PROVE  /\ batchData \in Seq(Byte) /\ blocks \in Seq(DecodedBlocks) /\ Len(blocks) \in Nat
         /\ leaves \in Seq(Leaves) /\ Len(leaves) \in Nat /\ Len(leaves) <= MaxLeaves
         /\ batchData = <<>> <=> blocks = <<>> /\ orphans = <<>>
         /\ orphans = <<>> =>
              DecodeBatchV2(batchData).ok /\ DecodeBatchV2(batchData).blocks = blocks
         /\ orphans # <<>> => ~ DecodeBatchV2(batchData).ok
<1>1. StandsFor(batchData, blocks, orphans)
  BY DEF InputInv, EncoderInv
<1>2. batchData \in Seq(Byte) /\ blocks \in Seq(DecodedBlocks) /\ Len(blocks) \in Nat
  BY <1>1, LenProperties DEF StandsFor
<1>3. leaves \in Seq(Leaves) /\ Len(leaves) \in Nat /\ Len(leaves) <= MaxLeaves
  BY DEF InputInv, TreeInv
<1>. QED BY <1>1, <1>2, <1>3, StandsForDecodes

(* A step of L1 is seen by nobody but those who read it. *)
LEMMA BatchL1 == InputInv /\ EncoderInv' /\ L1 => BatchInv'
<1>. SUFFICES ASSUME InputInv, EncoderInv', L1 PROVE BatchInv'
  OBVIOUS
<1>1. /\ batchData' = batchData /\ blocks' = blocks /\ orphans' = orphans
      /\ batch' = batch /\ build' = build /\ ~ Encoding
  BY DEF L1, L1Grows, L1Reorg, encoderVars
<1>2. /\ BatchInv /\ TreeInv
      /\ leaves \in Seq(Leaves) /\ Len(leaves) \in Nat
  BY InputInvIn DEF InputInv
<1>3. \/ /\ reorgs' = reorgs
         /\ \A s \in Seq(Leaves) : Starts(s, leaves) => Starts(s, leaves')
      \/ reorgs' = reorgs + 1
  <2>1. CASE L1Grows
    <3>. DEFINE leaf == Leaf(Len(leaves) + 1)
    <3>1. Len(leaves) < MaxLeaves /\ leaves' = Append(leaves, leaf) /\ reorgs' = reorgs
      BY <2>1 DEF L1Grows
    <3>2. leaf \in Leaves
      BY <1>2, <3>1, LeafInLeaves DEF Leaf, TreeInv
    <3>. HIDE DEF leaf
    <3>3. \A s \in Seq(Leaves) : Starts(s, leaves) => Starts(s, Append(leaves, leaf))
      BY <1>2, <3>2, StartsItself
    <3>. QED BY <3>1, <3>3
  <2>2. CASE L1Reorg
    BY <2>2 DEF L1Reorg
  <2>. QED BY <2>1, <2>2 DEF L1
<1>4. reorgs \in Nat
  BY <1>2, InputBounds DEF TreeInv
<1>5. CASE batch.kind = "none"
  <2>1. Len(blocks) = 0
    <3>1. blocks = <<>>
      BY <1>1, <1>5, InputInvIn DEF Encoding
    <3>. QED BY <3>1
  <2>2. Indices(Len(blocks))' = {}
    BY <1>1, <2>1, IndicesNext DEF Indices
  <2>3. build = NoBuild /\ build'.step = "none"
    BY <1>1, <1>2, <1>5, EndedFields DEF BatchInv
  <2>4. Built'
    BY <1>1, <2>3, EndedFields, EndedBuilt DEF Steps
  <2>. QED BY <1>1, <1>2, <1>5, <2>2, <2>3, <2>4, Zenon DEF BatchInv
<1>6. CASE batch.kind # "none"
  <2>1. PICK closed \in Seq(Leaves) : ClosedWith(closed)
    BY <1>2, <1>6 DEF BatchInv
  <2>2. batch.reorgs \in 0 .. reorgs
    BY <2>1 DEF ClosedWith
  <2>3. ClosedWith(closed)'
    <3>1. batch.reorgs = reorgs' => Starts(closed, leaves')
      <4>1. reorgs' = reorgs + 1 => batch.reorgs # reorgs'
        BY <1>4, <2>2
      <4>. QED BY <1>3, <2>1, <4>1 DEF ClosedWith
    <3>2. batch.reorgs \in 0 .. reorgs'
      BY <1>3, <1>4, <2>2
    <3>3. Indices(Len(blocks))' = Indices(Len(blocks))
      BY <1>1 DEF Indices
    <3>. QED BY <1>1, <2>1, <3>1, <3>2, <3>3 DEF ClosedWith
  <2>4. Built
    BY <1>2 DEF BatchInv
  <2>5. build.step = "leaves" => Collecting'
    <3>. SUFFICES ASSUME Collecting PROVE Collecting'
      BY <2>4 DEF Built
    <3>1. /\ build.aLeaves \in Seq(Leaves) /\ build.reorgs \in batch.reorgs .. reorgs
          /\ build.reorgs = reorgs => Starts(build.aLeaves, leaves)
          /\ batch.reorgs = reorgs => ReferenceRoot(build.aLeaves) = batch.L1InfoRoot
      BY DEF Collecting
    <3>2. reorgs' = reorgs + 1 =>
            /\ batch.reorgs # reorgs' /\ build.reorgs # reorgs'
            /\ build.reorgs \in batch.reorgs .. reorgs'
      BY <1>4, <2>2, <3>1
    <3>3. /\ build.reorgs = reorgs' => Starts(build.aLeaves, leaves')
          /\ batch.reorgs = reorgs' => ReferenceRoot(build.aLeaves) = batch.L1InfoRoot
          /\ build.reorgs \in batch.reorgs .. reorgs'
      BY <1>3, <3>1, <3>2
    <3>4. Indices(build.next - 1)' = Indices(build.next - 1)
      BY <1>1 DEF Indices
    <3>. QED BY <1>1, <3>3, <3>4 DEF Collecting, IsForcedBatch
  <2>6. build.step = "mismatch" => reorgs' # batch.reorgs
    BY <1>3, <1>4, <2>2, <2>4 DEF Built
  <2>7. ProofsFit => ProofsFit'
    BY <1>1 DEF ProofsFit
  <2>8. Indices(Len(blocks))' = Indices(Len(blocks))
    BY <1>1 DEF Indices
  <2>9. Built'
    BY <1>1, <2>4, <2>5, <2>6, <2>7, <2>8, Zenon DEF Built, IsForcedBatch
  <2>. QED BY <1>1, <1>2, <1>6, <2>3, <2>9, Zenon DEF BatchInv
<1>. QED BY <1>5, <1>6

(* A block refers to a leaf that is there. *)
LEMMA BatchAddBlockHeader == InputInv /\ EncoderInv' /\ AddBlockHeader => BatchInv'
<1>. SUFFICES ASSUME InputInv, EncoderInv', AddBlockHeader PROVE BatchInv'
  OBVIOUS
<1>1. /\ batch' = batch /\ build' = build /\ leaves' = leaves /\ reorgs' = reorgs
      /\ batch.kind = "none" /\ BatchInv
      /\ blocks \in Seq(DecodedBlocks) /\ Len(blocks) \in Nat
      /\ leaves \in Seq(Leaves) /\ Len(leaves) \in Nat
  BY InputInvIn DEF AddBlockHeader, l1Vars, InputInv
<1>2. PICK index \in {0} \cup 1 .. Len(leaves) - 1, delta \in DeltaTimestamps :
        blocks' = Append(blocks, [DeltaTimestamp |-> delta, IndexL1InfoTree |-> index,
                                  Transactions |-> <<>>])
  BY DEF AddBlockHeader
<1>. DEFINE header == [DeltaTimestamp |-> delta, IndexL1InfoTree |-> index, Transactions |-> <<>>]
            n == Len(blocks)
<1>3. header \in DecodedBlocks /\ header.IndexL1InfoTree = index
  <2>1. delta \in Nat /\ index \in Nat
    BY <1>1, InputBounds DEF Fits
  <2>2. <<>> \in Seq(DecodedTxSet)
    BY EmptySeq
  <2>. QED BY <2>1, <2>2 DEF DecodedBlocks
<1>. HIDE DEF header
<1>4. /\ Len(blocks') = n + 1 /\ blocks'[n + 1] = header
      /\ \A i \in 1 .. n : blocks'[i] = blocks[i]
  BY <1>1, <1>2, <1>3, AppendProperties DEF header
<1>5. Indices(Len(blocks)) \subseteq 1 .. Len(leaves) - 1 /\ build = NoBuild
  BY <1>1 DEF BatchInv
<1>6. Indices(Len(blocks))' \subseteq 1 .. Len(leaves') - 1
  <2>1. \A i \in 1 .. n + 1 : i \in 1 .. n \/ i = n + 1
    BY <1>1
  <2>2. \A i \in 1 .. n + 1 : blocks'[i].IndexL1InfoTree \in Indices(n) \cup {0, index}
    BY <1>3, <1>4, <2>1 DEF Indices
  <2>3. Indices(Len(blocks))' \subseteq (Indices(n) \cup {index}) \ {0}
    <3>1. Indices(Len(blocks))' = {blocks'[i].IndexL1InfoTree : i \in 1 .. n + 1} \ {0}
      BY <1>4 DEF Indices
    <3>. QED BY <2>2, <3>1
  <2>. QED BY <1>1, <1>5, <2>3
<1>7. Built'
  BY <1>1, <1>5, EndedFields, EndedBuilt DEF Steps
<1>. QED BY <1>1, <1>5, <1>6, <1>7, Zenon DEF BatchInv

(* A transaction refers to no leaf. *)
LEMMA BatchAddTransaction == InputInv /\ EncoderInv' /\ AddTransaction => BatchInv'
<1>. SUFFICES ASSUME InputInv, EncoderInv', AddTransaction PROVE BatchInv'
  OBVIOUS
<1>1. /\ batch' = batch /\ build' = build /\ leaves' = leaves /\ reorgs' = reorgs
      /\ batch.kind = "none" /\ BatchInv
      /\ blocks \in Seq(DecodedBlocks) /\ Len(blocks) \in Nat
      /\ batchData \in Seq(Byte)
  BY InputInvIn DEF AddTransaction, l1Vars, InputInv
<1>2. Indices(Len(blocks)) \subseteq 1 .. Len(leaves) - 1 /\ build = NoBuild
  BY <1>1 DEF BatchInv
<1>3. Indices(Len(blocks))' = Indices(Len(blocks))
  <2>1. CASE blocks' = blocks
    BY <2>1 DEF Indices
  <2>2. CASE blocks' # blocks
    <3>1. PICK tx \in RawTxs : blocks # <<>> /\ blocks' = Longer(blocks, Plain(tx))
      BY <2>2 DEF AddTransaction, Longer
    <3>2. Plain(tx) \in DecodedTxSet
      BY <1>1, RawTxEncoded, PlainedTx
    <3>3. /\ Len(blocks') = Len(blocks)
          /\ \A i \in 1 .. Len(blocks) :
               blocks'[i] = IF i = Len(blocks)
                              THEN Block(blocks[i], Append(blocks[i].Transactions, Plain(tx)))
                            ELSE blocks[i]
      BY <1>1, <3>1, <3>2, LongerType
    <3>4. \A i \in 1 .. Len(blocks) : blocks'[i].IndexL1InfoTree = blocks[i].IndexL1InfoTree
      <4>1. \A b, txs : Block(b, txs).IndexL1InfoTree = b.IndexL1InfoTree
        BY DEF Block
      <4>. QED BY <3>3, <4>1, Zenon
    <3>. QED BY <3>3, <3>4 DEF Indices
  <2>. QED BY <2>1, <2>2
<1>4. Built'
  BY <1>1, <1>2, EndedFields, EndedBuilt DEF Steps
<1>. QED BY <1>1, <1>2, <1>3, <1>4, Zenon DEF BatchInv

(* The root of a closed batch is that of the leaves then. *)
LEMMA BatchClose == InputInv /\ EncoderInv' /\ Close => BatchInv'
<1>. SUFFICES ASSUME InputInv, EncoderInv', Close PROVE BatchInv'
  OBVIOUS
<1>1. PICK kind \in {"regular", "first", "forced"} :
        batch' = [kind |-> kind, L1InfoRoot |-> ReferenceRoot(leaves), reorgs |-> reorgs]
  BY DEF Close
<1>2. /\ build' = Ended("start") /\ leaves' = leaves /\ reorgs' = reorgs /\ blocks' = blocks
      /\ batch.kind = "none" /\ BatchInv /\ TreeInv
      /\ leaves \in Seq(Leaves) /\ Len(leaves) <= MaxLeaves
  BY InputInvIn DEF Close, l1Vars, encoderVars, InputInv
<1>3. batch'.kind = kind /\ batch'.L1InfoRoot = ReferenceRoot(leaves) /\ batch'.reorgs = reorgs
  BY <1>1
<1>4. Indices(Len(blocks)) \subseteq 1 .. Len(leaves) - 1
  BY <1>2 DEF BatchInv
<1>5. Indices(Len(blocks))' = Indices(Len(blocks))
  BY <1>2 DEF Indices
<1>6. ClosedWith(leaves)'
  <2>1. Starts(leaves, leaves)
    <3>1. Len(leaves) <= Len(leaves)
      BY <1>2, LenProperties
    <3>. QED BY <3>1 DEF Starts
  <2>2. reorgs \in 0 .. reorgs
    BY <1>2, InputBounds DEF TreeInv
  <2>. QED BY <1>2, <1>3, <1>4, <1>5, <2>1, <2>2 DEF ClosedWith
<1>7. Built'
  BY <1>2, EndedBuilt DEF Steps
<1>8. build'.step = "start"
  BY <1>2, EndedFields
<1>9. \E closed \in Seq(Leaves) : ClosedWith(closed)'
  BY <1>2, <1>6
<1>. QED BY <1>3, <1>7, <1>8, <1>9 DEF BatchInv, Steps

(* The leaves of the tree with the batch's root are its leaves, while L1 has not been
   reorganised: when L1 has grown since, a prefix of its leaves has the root. *)
LEMMA LeafsByRoot ==
  ASSUME TreeInv, NEW root
  PROVE  LET found == GetLeafsByL1InfoRoot(root) IN
         /\ found \in Seq(Leaves) /\ Len(found) <= MaxLeaves /\ Starts(found, leaves)
         /\ \A closed \in Seq(Leaves) :
              Starts(closed, leaves) /\ ReferenceRoot(closed) = root => ReferenceRoot(found) = root
<1>. DEFINE sizes == {n \in 0 .. Len(leaves) : ReferenceRoot(SubSeq(leaves, 1, n)) = root}
            size == CHOOSE n \in sizes : TRUE
            found == GetLeafsByL1InfoRoot(root)
<1>1. leaves \in Seq(Leaves) /\ Len(leaves) \in Nat /\ Len(leaves) <= MaxLeaves /\ MaxLeaves \in Nat
  BY InputBounds DEF TreeInv
<1>2. ASSUME NEW n \in 0 .. Len(leaves)
      PROVE  LET s == SubSeq(leaves, 1, n) IN
             s \in Seq(Leaves) /\ Len(s) = n /\ \A i \in 1 .. n : leaves[i] = s[i]
  <2>1. /\ n \in Nat /\ 0 \in Nat /\ 0 <= n /\ n <= Len(leaves) /\ n - 0 = n
        /\ \A i \in 1 .. n : 0 + i = i
    BY <1>1
  <2>2. /\ Slice(leaves, 0, n) \in Seq(Leaves) /\ Len(Slice(leaves, 0, n)) = n - 0
        /\ \A i \in 1 .. n - 0 : Slice(leaves, 0, n)[i] = leaves[0 + i]
    BY <1>1, <2>1, SliceSeq
  <2>3. Slice(leaves, 0, n) = SubSeq(leaves, 1, n)
    BY DEF Slice
  <2>. QED BY <2>1, <2>2, <2>3, Zenon
<1>3. found = IF sizes = {} THEN <<>> ELSE SubSeq(leaves, 1, size)
  BY Zenon DEF GetLeafsByL1InfoRoot
<1>4. sizes # {} => size \in sizes
  <2>. HIDE DEF sizes
  <2>. QED BY Zenon
<1>5. CASE sizes = {}
  <2>1. found = <<>>
    BY <1>3, <1>5
  <2>2. found \in Seq(Leaves) /\ Len(found) <= MaxLeaves /\ Starts(found, leaves)
    BY <1>1, <2>1, EmptySeq DEF Starts
  <2>3. ASSUME NEW closed \in Seq(Leaves), Starts(closed, leaves), ReferenceRoot(closed) = root
        PROVE  FALSE
    <3>1. IsPrefix(closed, leaves) /\ SubSeq(closed, 1, Len(closed)) = closed /\ Len(closed) \in Nat
      BY <1>1, <2>3, StartsIsPrefix, SubSeqFull
    <3>2. SubSeq(leaves, 1, Len(closed)) = closed /\ Len(closed) <= Len(leaves)
      BY <3>1 DEF IsPrefix
    <3>3. Len(closed) \in 0 .. Len(leaves)
      BY <1>1, <3>1, <3>2
    <3>4. ReferenceRoot(SubSeq(leaves, 1, Len(closed))) = root
      BY <2>3, <3>2
    <3>5. Len(closed) \in sizes
      BY <3>3, <3>4, Zenon
    <3>. QED BY <1>5, <3>5
  <2>. QED BY <2>2, <2>3
<1>6. CASE sizes # {}
  <2>1. found = SubSeq(leaves, 1, size) /\ size \in 0 .. Len(leaves)
    <3>1. size \in sizes
      BY <1>4, <1>6
    <3>. HIDE DEF size
    <3>2. size \in 0 .. Len(leaves)
      BY <3>1
    <3>. QED BY <1>3, <1>6, <3>2
  <2>2. ReferenceRoot(found) = root
    <3>1. size \in sizes
      BY <1>4, <1>6
    <3>. HIDE DEF size
    <3>2. ReferenceRoot(SubSeq(leaves, 1, size)) = root
      BY <3>1
    <3>. QED BY <2>1, <3>2
  <2>. HIDE DEF found, size
  <2>3. found \in Seq(Leaves) /\ Len(found) = size /\ \A i \in 1 .. size : leaves[i] = found[i]
    BY <1>2, <2>1
  <2>4. Len(found) <= MaxLeaves /\ Len(found) <= Len(leaves)
    BY <1>1, <2>1, <2>3
  <2>. QED BY <2>2, <2>3, <2>4 DEF Starts, found
<1>. QED BY <1>5, <1>6

(* buildInputProver is somewhere else; the batch, the encoder and L1 are as they were. *)
LEMMA ClosedKept ==
  ASSUME InputInv, EncoderInv', UNCHANGED l1Vars, UNCHANGED encoderVars, UNCHANGED batch,
         batch.kind # "none", build'.step \in Steps \ {"none"}, Built'
  PROVE  BatchInv'
<1>1. PICK closed \in Seq(Leaves) : ClosedWith(closed)
  BY DEF InputInv, BatchInv
<1>2. /\ batch' = batch /\ blocks' = blocks /\ leaves' = leaves /\ reorgs' = reorgs
      /\ batch.kind \in {"none", "regular", "first", "forced"}
  BY DEF l1Vars, encoderVars, InputInv, BatchInv
<1>3. Indices(Len(blocks))' = Indices(Len(blocks))
  BY <1>2 DEF Indices
<1>4. ClosedWith(closed)'
  BY <1>1, <1>2, <1>3 DEF ClosedWith
<1>5. /\ batch'.kind # "none" /\ batch'.kind \in {"none", "regular", "first", "forced"}
      /\ build'.step # "none" /\ build'.step \in Steps
  BY <1>2 DEF Steps
<1>. QED BY <1>4, <1>5, Zenon DEF BatchInv

(* build has six fields. *)
LEMMA BuildRecord ==
  ASSUME NEW step, NEW aLeaves, NEW r, NEW next, NEW data, NEW torn,
         build' = [step |-> step, aLeaves |-> aLeaves, reorgs |-> r, next |-> next,
                   l1InfoTreeData |-> data, torn |-> torn]
  PROVE  /\ build'.step = step /\ build'.aLeaves = aLeaves /\ build'.reorgs = r
         /\ build'.next = next /\ build'.l1InfoTreeData = data /\ build'.torn = torn
         /\ build' = [step |-> build'.step, aLeaves |-> build'.aLeaves,
                      reorgs |-> build'.reorgs, next |-> build'.next,
                      l1InfoTreeData |-> build'.l1InfoTreeData, torn |-> build'.torn]
<1>1. /\ build'.step = step /\ build'.aLeaves = aLeaves /\ build'.reorgs = r
      /\ build'.next = next /\ build'.l1InfoTreeData = data /\ build'.torn = torn
  OBVIOUS
<1>. QED BY <1>1, Zenon

(* The steps of buildInputProver that return without an input, and the one that starts
   again. *)
LEMMA BatchEnds ==
  ASSUME InputInv, EncoderInv', UNCHANGED l1Vars, UNCHANGED encoderVars, UNCHANGED batch,
         batch.kind # "none", NEW step \in Steps \ {"none", "leaves"}, build' = Ended(step),
         step = "mismatch" => reorgs # batch.reorgs,
         step = "done" => IsForcedBatch
  PROVE  BatchInv'
<1>1. batch' = batch /\ reorgs' = reorgs
  BY DEF l1Vars
<1>2. build'.step = step
  BY EndedFields
<1>3. step \in Steps /\ step # "leaves" /\ step # "none"
  OBVIOUS
<1>4. (step = "mismatch" => reorgs' # batch.reorgs') /\ (step = "done" => IsForcedBatch')
  BY <1>1 DEF IsForcedBatch
<1>5. Built'
  BY <1>3, <1>4, EndedBuilt
<1>6. build'.step \in Steps \ {"none"}
  BY <1>2, <1>3
<1>. QED BY <1>5, <1>6, ClosedKept

(* buildInputProver is at work on a closed batch only. *)
LEMMA StepOfBatch ==
  ASSUME InputInv, build.step # "none"
  PROVE  batch.kind # "none"
BY DEF InputInv, BatchInv

(* A failed read leaves nothing behind. *)
LEMMA BatchBuildFails == InputInv /\ EncoderInv' /\ BuildFails => BatchInv'
<1>. SUFFICES ASSUME InputInv, EncoderInv', BuildFails PROVE BatchInv'
  OBVIOUS
<1>1. /\ UNCHANGED l1Vars /\ UNCHANGED encoderVars /\ UNCHANGED batch
      /\ build' = Ended("failed") /\ build.step # "none"
  BY DEF BuildFails, l1Vars, encoderVars
<1>2. "failed" \in Steps \ {"none", "leaves"}
  BY DEF Steps
<1>. QED BY <1>1, <1>2, StepOfBatch, BatchEnds

(* Another attempt starts from nothing. *)
LEMMA BatchRetry == InputInv /\ EncoderInv' /\ Retry => BatchInv'
<1>. SUFFICES ASSUME InputInv, EncoderInv', Retry PROVE BatchInv'
  OBVIOUS
<1>1. /\ UNCHANGED l1Vars /\ UNCHANGED encoderVars /\ UNCHANGED batch
      /\ build' = Ended("start") /\ build.step # "none"
  BY DEF Retry, l1Vars, encoderVars
<1>2. "start" \in Steps \ {"none", "leaves"}
  BY DEF Steps
<1>. QED BY <1>1, <1>2, StepOfBatch, BatchEnds

(* The data are decoded, and the leaves of the batch's tree are read. *)
LEMMA BatchBuildInputProver == InputInv /\ EncoderInv' /\ BuildInputProver => BatchInv'
<1>. SUFFICES ASSUME InputInv, EncoderInv', BuildInputProver PROVE BatchInv'
  OBVIOUS
<1>1. /\ UNCHANGED l1Vars /\ UNCHANGED encoderVars /\ UNCHANGED batch
      /\ build.step = "start" /\ batch.kind # "none"
  BY StepOfBatch DEF BuildInputProver, l1Vars, encoderVars
<1>2. CASE IsForcedBatch
  <2>1. build' = Ended("done") /\ "done" \in Steps \ {"none", "leaves"}
    BY <1>2 DEF BuildInputProver, Steps
  <2>. QED BY <1>1, <1>2, <2>1, BatchEnds
<1>3. CASE ~ IsForcedBatch /\ ~ DecodeBatchV2(batchData).ok
  <2>1. build' = Ended("malformed") /\ "malformed" \in Steps \ {"none", "leaves"}
    BY <1>3 DEF BuildInputProver, Steps
  <2>. QED BY <1>1, <1>3, <2>1, BatchEnds
<1>4. CASE ~ IsForcedBatch /\ DecodeBatchV2(batchData).ok
  <2>. DEFINE found == GetLeafsByL1InfoRoot(batch.L1InfoRoot)
  <2>1. build' = [build EXCEPT !.step = "leaves", !.reorgs = reorgs, !.aLeaves = found]
    BY <1>4 DEF BuildInputProver
  <2>2. orphans = <<>> /\ Len(blocks) \in Nat
    BY <1>4, InputInvIn
  <2>3. PICK closed \in Seq(Leaves) : ClosedWith(closed)
    BY <1>1 DEF InputInv, BatchInv
  <2>4. TreeInv /\ Built
    BY DEF InputInv, BatchInv
  <2>5. /\ found \in Seq(Leaves) /\ Len(found) <= MaxLeaves /\ Starts(found, leaves)
        /\ Starts(closed, leaves) /\ ReferenceRoot(closed) = batch.L1InfoRoot
             => ReferenceRoot(found) = batch.L1InfoRoot
    BY <2>4, LeafsByRoot
  <2>. HIDE DEF found
  <2>6. build.next = 1 /\ build.l1InfoTreeData = <<>> /\ build.torn \in BOOLEAN
    BY <1>1, <2>4 DEF Built
  <2>. DEFINE torn == build.torn
  <2>7. build' = [step |-> "leaves", aLeaves |-> found, reorgs |-> reorgs, next |-> 1,
                  l1InfoTreeData |-> <<>>, torn |-> torn]
    <3>1. build = [step |-> build.step, aLeaves |-> build.aLeaves, reorgs |-> build.reorgs,
                   next |-> 1, l1InfoTreeData |-> <<>>, torn |-> torn]
      BY <2>4, <2>6, Zenon DEF Built
    <3>. DEFINE e == <<>>
                step == build.step
                aLeaves == build.aLeaves
                r == build.reorgs
    <3>. HIDE DEF e, step, aLeaves, r, torn
    <3>2. build = [step |-> step, aLeaves |-> aLeaves, reorgs |-> r,
                   next |-> 1, l1InfoTreeData |-> e, torn |-> torn]
      BY <3>1 DEF e, step, aLeaves, r
    <3>3. build' = [step |-> "leaves", aLeaves |-> found, reorgs |-> reorgs, next |-> 1,
                    l1InfoTreeData |-> e, torn |-> torn]
      BY <2>1, <3>2
    <3>. QED BY <3>3 DEF e
  <2>8. /\ build'.step = "leaves" /\ build'.aLeaves = found /\ build'.reorgs = reorgs
        /\ build'.next = 1 /\ build'.l1InfoTreeData = <<>> /\ build'.torn = torn
        /\ build' = [step |-> build'.step, aLeaves |-> build'.aLeaves,
                     reorgs |-> build'.reorgs, next |-> build'.next,
                     l1InfoTreeData |-> build'.l1InfoTreeData, torn |-> build'.torn]
    BY <2>7, BuildRecord, Zenon
  <2>9. DOMAIN build'.l1InfoTreeData = {} /\ ProofsFit'
    <3>1. DOMAIN build'.l1InfoTreeData = {}
      BY <2>8, EndedFields, Zenon
    <3>. QED BY <3>1 DEF ProofsFit
  <2>10. batch' = batch /\ blocks' = blocks /\ leaves' = leaves /\ reorgs' = reorgs
         /\ orphans' = orphans
    BY <1>1 DEF l1Vars, encoderVars
  <2>11. Collecting'
    <3>1. reorgs \in batch.reorgs .. reorgs
      BY <2>3, <2>4, InputBounds DEF ClosedWith, TreeInv
    <3>2. batch.reorgs = reorgs => ReferenceRoot(found) = batch.L1InfoRoot
      BY <2>3, <2>5 DEF ClosedWith
    <3>3. Indices(build.next - 1)' = {}
      <4>1. build'.next - 1 = 0
        BY <2>8
      <4>2. Indices(build.next - 1)' = {blocks'[i].IndexL1InfoTree : i \in 1 .. 0} \ {0}
        BY <4>1 DEF Indices
      <4>. QED BY <4>2
    <3>. QED BY <1>4, <2>2, <2>5, <2>8, <2>9, <2>10, <3>1, <3>2, <3>3
             DEF Collecting, IsForcedBatch
  <2>12. 1 \in 1 .. Len(blocks') + 1
    BY <2>2, <2>10
  <2>13. Built'
    BY <2>6, <2>8, <2>9, <2>11, <2>12, Zenon DEF Built
  <2>14. build'.step \in Steps \ {"none"}
    BY <2>8 DEF Steps
  <2>. QED BY <1>1, <2>13, <2>14, ClosedKept
<1>. QED BY <1>2, <1>3, <1>4

(* One more index has data. *)
LEMMA WithData ==
  ASSUME NEW f, NEW index, NEW data
  PROVE  LET g == [i \in {index} \cup DOMAIN f |-> IF i = index THEN data ELSE f[i]] IN
         /\ DOMAIN g = DOMAIN f \cup {index}
         /\ g[index] = data
         /\ \A i \in DOMAIN f : i # index => g[i] = f[i]
OBVIOUS

(* The next block refers to the tree by index 0, or by an index looked at already, or a
   leaf is read for it. *)
LEMMA AddL1DataCases ==
  ASSUME InputInv, AddL1Data
  PROVE  LET index == blocks[build.next].IndexL1InfoTree
             data == [leaf |-> leaves[index + 1],
                      smtProof |-> ComputeMerkleProof(index, build.aLeaves)]
         IN /\ build.next \in 1 .. Len(blocks) /\ index \in Nat
            /\ \/ /\ index \in {0} \cup DOMAIN build.l1InfoTreeData
                  /\ build' = [build EXCEPT !.next = @ + 1]
               \/ build' = Ended("failed")
               \/ /\ build' = Ended("mismatch")
                  /\ batch.L1InfoRoot # ReferenceRoot(build.aLeaves)
               \/ /\ index \notin {0} \cup DOMAIN build.l1InfoTreeData
                  /\ index < Len(leaves)
                  /\ batch.L1InfoRoot = ReferenceRoot(build.aLeaves)
                  /\ build' = [build EXCEPT !.next = @ + 1, !.torn = @ \/ reorgs # build.reorgs,
                                 !.l1InfoTreeData = [i \in {index} \cup DOMAIN @ |->
                                                       IF i = index THEN data ELSE @[i]]]
<1>. DEFINE index == blocks[build.next].IndexL1InfoTree
            data == [leaf |-> leaves[index + 1],
                     smtProof |-> ComputeMerkleProof(index, build.aLeaves)]
<1>1. build.step = "leaves" /\ build.next <= Len(blocks) /\ Built /\ Len(blocks) \in Nat
      /\ Len(leaves) \in Nat
  BY InputInvIn DEF AddL1Data, InputInv, BatchInv
<1>2. Collecting
  BY <1>1 DEF Built
<1>3. build.next \in 1 .. Len(blocks)
  BY <1>1 DEF Built
<1>4. index \in Nat
  <2>1. blocks[build.next] \in DecodedBlocks
    BY <1>3, InputInvIn, ElementOfSeq
  <2>. QED BY <2>1 DEF DecodedBlocks
<1>5. NextBlock.IndexL1InfoTree = index
  BY <1>2, InputInvIn DEF NextBlock, Collecting
<1>6. BuildL1InfoRoot(build.aLeaves) = ReferenceRoot(build.aLeaves)
  <2>1. build.aLeaves \in Seq(Leaves) /\ Len(build.aLeaves) <= PowersOf2[Height]
    BY <1>2, InputBounds DEF Collecting
  <2>. QED BY <2>1, RootIsReference
<1>. HIDE DEF index
<1>7. build' = IF ~ NeedsLeaf(index) THEN [build EXCEPT !.next = @ + 1]
               ELSE IF index >= Len(leaves) THEN Ended("failed")
               ELSE IF batch.L1InfoRoot # ReferenceRoot(build.aLeaves)
                 THEN Ended("mismatch")
               ELSE [build EXCEPT !.next = @ + 1, !.torn = @ \/ reorgs # build.reorgs,
                                  !.l1InfoTreeData = [i \in {index} \cup DOMAIN @ |->
                                                        IF i = index THEN data ELSE @[i]]]
  BY <1>5, <1>6, Zenon DEF AddL1Data
<1>8. NeedsLeaf(index) <=> index \notin {0} \cup DOMAIN build.l1InfoTreeData
  BY DEF NeedsLeaf
<1>9. ~ (index >= Len(leaves)) <=> index < Len(leaves)
  BY <1>1, <1>4 DEF index
<1>. HIDE DEF data
<1>10. CASE ~ NeedsLeaf(index)
  <2>1. build' = [build EXCEPT !.next = @ + 1]
    BY <1>7, <1>10, Zenon
  <2>. QED BY <1>3, <1>4, <1>8, <1>10, <2>1, Zenon DEF index, data
<1>11. CASE NeedsLeaf(index) /\ index >= Len(leaves)
  <2>1. build' = Ended("failed")
    BY <1>7, <1>11, Zenon
  <2>. QED BY <1>3, <1>4, <2>1, Zenon DEF index, data
<1>12. CASE /\ NeedsLeaf(index) /\ ~ (index >= Len(leaves))
            /\ batch.L1InfoRoot # ReferenceRoot(build.aLeaves)
  <2>1. build' = Ended("mismatch")
    BY <1>7, <1>12, Zenon
  <2>. QED BY <1>3, <1>4, <1>12, <2>1, Zenon DEF index, data
<1>13. CASE /\ NeedsLeaf(index) /\ ~ (index >= Len(leaves))
            /\ batch.L1InfoRoot = ReferenceRoot(build.aLeaves)
  <2>1. build' = [build EXCEPT !.next = @ + 1, !.torn = @ \/ reorgs # build.reorgs,
                               !.l1InfoTreeData = [i \in {index} \cup DOMAIN @ |->
                                                     IF i = index THEN data ELSE @[i]]]
    BY <1>7, <1>13, Zenon
  <2>. QED BY <1>3, <1>4, <1>8, <1>9, <1>13, <2>1, Zenon DEF index, data
<1>. QED BY <1>10, <1>11, <1>12, <1>13, Zenon

(* A block is looked at, and its index has data or needs none. *)
LEMMA Looked ==
  ASSUME InputInv, EncoderInv', UNCHANGED l1Vars, UNCHANGED encoderVars, UNCHANGED batch,
         build.step = "leaves", build.next \in 1 .. Len(blocks),
         NEW data, NEW torn \in BOOLEAN,
         build' = [step |-> "leaves", aLeaves |-> build.aLeaves, reorgs |-> build.reorgs,
                   next |-> build.next + 1, l1InfoTreeData |-> data, torn |-> torn],
         DOMAIN data = DOMAIN build.l1InfoTreeData
                         \cup ({blocks[build.next].IndexL1InfoTree} \ {0}),
         torn \/ \A index \in DOMAIN data :
                   RootOfProof(index, data[index].leaf, data[index].smtProof) = batch.L1InfoRoot
  PROVE  BatchInv'
<1>. DEFINE aLeaves == build.aLeaves
            r == build.reorgs
            next == build.next
<1>1. /\ batch' = batch /\ blocks' = blocks /\ leaves' = leaves /\ reorgs' = reorgs
      /\ orphans' = orphans /\ Built /\ Len(blocks) \in Nat /\ batch.kind # "none"
  BY InputInvIn, StepOfBatch DEF l1Vars, encoderVars, InputInv, BatchInv
<1>2. Collecting
  BY <1>1 DEF Built
<1>. HIDE DEF aLeaves, r, next
<1>3. build' = [step |-> "leaves", aLeaves |-> aLeaves, reorgs |-> r, next |-> next + 1,
                l1InfoTreeData |-> data, torn |-> torn]
  BY DEF aLeaves, r, next
<1>4. /\ build'.step = "leaves" /\ build'.aLeaves = aLeaves /\ build'.reorgs = r
      /\ build'.next = next + 1 /\ build'.l1InfoTreeData = data /\ build'.torn = torn
      /\ build' = [step |-> build'.step, aLeaves |-> build'.aLeaves,
                   reorgs |-> build'.reorgs, next |-> build'.next,
                   l1InfoTreeData |-> build'.l1InfoTreeData, torn |-> build'.torn]
  <2>. DEFINE n == next + 1
  <2>1. build' = [step |-> "leaves", aLeaves |-> aLeaves, reorgs |-> r, next |-> n,
                  l1InfoTreeData |-> data, torn |-> torn]
    BY <1>3
  <2>. HIDE DEF n
  <2>2. /\ build'.step = "leaves" /\ build'.aLeaves = aLeaves /\ build'.reorgs = r
        /\ build'.next = n /\ build'.l1InfoTreeData = data /\ build'.torn = torn
    BY <2>1, BuildRecord
  <2>3. build' = [step |-> build'.step, aLeaves |-> build'.aLeaves,
                  reorgs |-> build'.reorgs, next |-> build'.next,
                  l1InfoTreeData |-> build'.l1InfoTreeData, torn |-> build'.torn]
    BY <2>1, BuildRecord
  <2>. QED BY <2>2, <2>3 DEF n
<1>5. DOMAIN data = Indices(next)
  <2>1. next - 1 \in Nat /\ (next - 1) + 1 = next
    BY <1>1 DEF next
  <2>2. DOMAIN build.l1InfoTreeData = Indices(next - 1)
    BY <1>2 DEF Collecting, next
  <2>3. Indices((next - 1) + 1) = Indices(next - 1) \cup ({blocks[(next - 1) + 1].IndexL1InfoTree} \ {0})
    BY <2>1, IndicesNext
  <2>. QED BY <2>1, <2>2, <2>3 DEF next
<1>6. Indices(build.next - 1)' = Indices(next)
  <2>1. build'.next - 1 = next
    BY <1>1, <1>4 DEF next
  <2>. QED BY <1>1, <2>1 DEF Indices
<1>7. Collecting'
  BY <1>1, <1>2, <1>4, <1>5, <1>6 DEF Collecting, IsForcedBatch, aLeaves, r
<1>8. torn \/ ProofsFit'
  BY <1>1, <1>4 DEF ProofsFit
<1>9. next + 1 \in 1 .. Len(blocks') + 1
  BY <1>1 DEF next
<1>10. Built'
  BY <1>4, <1>7, <1>8, <1>9, Zenon DEF Built
<1>11. build'.step \in Steps \ {"none"}
  BY <1>4 DEF Steps
<1>. QED BY <1>1, <1>10, <1>11, ClosedKept

(* A leaf and its proof are of the batch's own tree, unless L1 has been reorganised since
   the leaves of the tree were read. *)
LEMMA BatchAddL1Data == InputInv /\ EncoderInv' /\ AddL1Data => BatchInv'
<1>. SUFFICES ASSUME InputInv, EncoderInv', AddL1Data PROVE BatchInv'
  OBVIOUS
<1>. DEFINE index == blocks[build.next].IndexL1InfoTree
            data == [leaf |-> leaves[index + 1],
                     smtProof |-> ComputeMerkleProof(index, build.aLeaves)]
            old == build.l1InfoTreeData
            new == [i \in {index} \cup DOMAIN old |-> IF i = index THEN data ELSE old[i]]
<1>1. /\ UNCHANGED l1Vars /\ UNCHANGED encoderVars /\ UNCHANGED batch
      /\ build.step = "leaves" /\ batch.kind # "none"
      /\ Built /\ TreeInv /\ Len(blocks) \in Nat
  BY StepOfBatch, InputInvIn DEF AddL1Data, l1Vars, encoderVars, InputInv, BatchInv
<1>2. Collecting /\ build.torn \in BOOLEAN
  BY <1>1 DEF Built
<1>3. PICK closed \in Seq(Leaves) : ClosedWith(closed)
  BY <1>1 DEF InputInv, BatchInv
<1>4. /\ build.next \in 1 .. Len(blocks) /\ index \in Nat
      /\ \/ /\ index \in {0} \cup DOMAIN old
            /\ build' = [build EXCEPT !.next = @ + 1]
         \/ build' = Ended("failed")
         \/ /\ build' = Ended("mismatch")
            /\ batch.L1InfoRoot # ReferenceRoot(build.aLeaves)
         \/ /\ index \notin {0} \cup DOMAIN old
            /\ index < Len(leaves)
            /\ batch.L1InfoRoot = ReferenceRoot(build.aLeaves)
            /\ build' = [build EXCEPT !.next = @ + 1, !.torn = @ \/ reorgs # build.reorgs,
                                      !.l1InfoTreeData = new]
  BY AddL1DataCases
<1>. DEFINE aLeaves == build.aLeaves
            r == build.reorgs
            next == build.next
            torn == build.torn
<1>5. build = [step |-> "leaves", aLeaves |-> aLeaves, reorgs |-> r, next |-> next,
               l1InfoTreeData |-> old, torn |-> torn]
  BY <1>1, Zenon DEF Built
<1>6. CASE index \in {0} \cup DOMAIN old /\ build' = [build EXCEPT !.next = @ + 1]
  <2>1. DOMAIN old = DOMAIN old \cup ({index} \ {0})
    BY <1>6
  <2>2. torn \/ \A i \in DOMAIN old :
                  RootOfProof(i, old[i].leaf, old[i].smtProof) = batch.L1InfoRoot
    BY <1>1 DEF Built, ProofsFit
  <2>3. build' = [step |-> "leaves", aLeaves |-> aLeaves, reorgs |-> r, next |-> next + 1,
                  l1InfoTreeData |-> old, torn |-> torn]
    <3>. HIDE DEF aLeaves, r, next, old, torn, index
    <3>. QED BY <1>5, <1>6
  <2>. HIDE DEF new, data
  <2>. QED BY <1>1, <1>2, <1>4, <2>1, <2>2, <2>3, Looked
<1>7. CASE build' = Ended("failed")
  <2>1. "failed" \in Steps \ {"none", "leaves"}
    BY DEF Steps
  <2>. QED BY <1>1, <1>7, <2>1, BatchEnds
<1>8. CASE build' = Ended("mismatch") /\ batch.L1InfoRoot # ReferenceRoot(build.aLeaves)
  <2>1. "mismatch" \in Steps \ {"none", "leaves"}
    BY DEF Steps
  <2>2. reorgs # batch.reorgs
    BY <1>2, <1>8 DEF Collecting
  <2>. QED BY <1>1, <1>8, <2>1, <2>2, BatchEnds
<1>9. CASE /\ index \notin {0} \cup DOMAIN old
           /\ index < Len(leaves)
           /\ batch.L1InfoRoot = ReferenceRoot(build.aLeaves)
           /\ build' = [build EXCEPT !.next = @ + 1, !.torn = @ \/ reorgs # build.reorgs,
                                     !.l1InfoTreeData = new]
  <2>1. aLeaves = closed
    <3>1. 0 \notin Leaves
      BY DEF Leaves
    <3>2. /\ aLeaves \in Seq(Leaves) /\ Len(aLeaves) <= PowersOf2[Height]
          /\ Len(closed) <= PowersOf2[Height]
      BY <1>2, <1>3, InputBounds DEF Collecting, ClosedWith
    <3>3. ReferenceRoot(aLeaves) = ReferenceRoot(closed)
      BY <1>3, <1>9 DEF ClosedWith
    <3>. QED BY <3>1, <3>2, <3>3, SameRootSameLeaves
  <2>2. index \in Nat /\ index < Len(aLeaves)
    <3>1. index \in Indices(Len(blocks))
      BY <1>4, <1>9 DEF Indices
    <3>2. index \in 1 .. Len(closed) - 1 /\ Len(closed) <= MaxLeaves
      BY <1>3, <3>1 DEF ClosedWith
    <3>. HIDE DEF index, aLeaves
    <3>3. Len(closed) \in Nat
      OBVIOUS
    <3>. QED BY <2>1, <3>2, <3>3, InputBounds
  <2>3. reorgs = r => leaves[index + 1] = aLeaves[index + 1]
    <3>1. aLeaves \in Seq(Leaves) /\ Len(aLeaves) \in Nat
      BY <1>2 DEF Collecting
    <3>2. index + 1 \in 1 .. Len(aLeaves)
      BY <2>2, <3>1
    <3>. QED BY <1>2, <3>2 DEF Collecting, Starts
  <2>4. RootOfProof(index, aLeaves[index + 1], ComputeMerkleProof(index, aLeaves))
          = batch.L1InfoRoot
    <3>1. aLeaves \in Seq(Leaves) /\ Len(aLeaves) <= PowersOf2[Height]
      BY <1>2, InputBounds DEF Collecting
    <3>. HIDE DEF index, aLeaves
    <3>2. RootOfProof(index, aLeaves[index + 1], ComputeMerkleProof(index, aLeaves))
            = BuildL1InfoRoot(aLeaves)
      BY <2>2, <3>1, ProofsVerify
    <3>3. BuildL1InfoRoot(aLeaves) = ReferenceRoot(aLeaves)
      BY <3>1, RootIsReference
    <3>4. ReferenceRoot(aLeaves) = batch.L1InfoRoot
      BY <1>9 DEF aLeaves
    <3>. QED BY <3>2, <3>3, <3>4
  <2>. DEFINE torn2 == torn \/ reorgs # r
  <2>5. /\ DOMAIN new = DOMAIN old \cup {index} /\ new[index] = data
        /\ \A i \in DOMAIN old : i # index => new[i] = old[i]
    <3>. HIDE DEF data, index, old
    <3>. QED BY WithData
  <2>6. data.leaf = leaves[index + 1] /\ data.smtProof = ComputeMerkleProof(index, aLeaves)
    OBVIOUS
  <2>7. build' = [step |-> "leaves", aLeaves |-> aLeaves, reorgs |-> r, next |-> next + 1,
                  l1InfoTreeData |-> new, torn |-> torn2]
    <3>1. build' = [build EXCEPT !.next = @ + 1, !.torn = @ \/ reorgs # r,
                                 !.l1InfoTreeData = new]
      BY <1>9
    <3>. HIDE DEF aLeaves, r, next, old, new, torn, index
    <3>. QED BY <1>5, <3>1
  <2>. HIDE DEF new, data
  <2>8. torn2 \/ \A i \in DOMAIN new :
                   RootOfProof(i, new[i].leaf, new[i].smtProof) = batch.L1InfoRoot
    <3>. SUFFICES ASSUME ~ torn2, NEW i \in DOMAIN new
                  PROVE  RootOfProof(i, new[i].leaf, new[i].smtProof) = batch.L1InfoRoot
      OBVIOUS
    <3>1. CASE i = index
      BY <2>3, <2>4, <2>5, <2>6, <3>1
    <3>2. CASE i # index
      <4>1. i \in DOMAIN old /\ new[i] = old[i]
        BY <2>5, <3>2
      <4>. QED BY <1>1, <4>1 DEF Built, ProofsFit
    <3>. QED BY <3>1, <3>2
  <2>9. DOMAIN new = DOMAIN old \cup ({index} \ {0}) /\ torn2 \in BOOLEAN
    BY <1>9, <2>5
  <2>. HIDE DEF torn2
  <2>. QED BY <1>1, <1>4, <2>7, <2>8, <2>9, Looked
<1>. QED BY <1>4, <1>6, <1>7, <1>8, <1>9, Zenon

(* Every block has been looked at. *)
LEMMA BatchBuildDone == InputInv /\ EncoderInv' /\ BuildDone => BatchInv'
<1>. SUFFICES ASSUME InputInv, EncoderInv', BuildDone PROVE BatchInv'
  OBVIOUS
<1>1. /\ UNCHANGED l1Vars /\ UNCHANGED encoderVars /\ UNCHANGED batch
      /\ build.step = "leaves" /\ batch.kind # "none"
      /\ build.next > Len(blocks) /\ Built /\ Len(blocks) \in Nat
  BY StepOfBatch, InputInvIn DEF BuildDone, l1Vars, encoderVars, InputInv, BatchInv
<1>2. Collecting /\ build.torn \in BOOLEAN /\ build.next \in 1 .. Len(blocks) + 1
  BY <1>1 DEF Built
<1>3. batch' = batch /\ blocks' = blocks /\ reorgs' = reorgs
  BY <1>1 DEF l1Vars, encoderVars
<1>. DEFINE data == build.l1InfoTreeData
            torn == build.torn
            e == <<>>
<1>4. DOMAIN data = Indices(Len(blocks))
  <2>1. build.next - 1 = Len(blocks)
    BY <1>1, <1>2
  <2>. QED BY <1>2, <2>1 DEF Collecting
<1>5. torn \/ \A index \in DOMAIN data :
                RootOfProof(index, data[index].leaf, data[index].smtProof) = batch.L1InfoRoot
  BY <1>1 DEF Built, ProofsFit
<1>6. build' = [step |-> "done", aLeaves |-> e, reorgs |-> 0, next |-> 1,
                l1InfoTreeData |-> data, torn |-> torn]
  <2>1. build' = [Ended("done") EXCEPT !.l1InfoTreeData = data, !.torn = torn]
    BY DEF BuildDone
  <2>2. Ended("done") = [step |-> "done", aLeaves |-> e, reorgs |-> 0, next |-> 1,
                         l1InfoTreeData |-> e, torn |-> FALSE]
    BY EndedFields
  <2>. HIDE DEF e, data, torn
  <2>3. build' = [[step |-> "done", aLeaves |-> e, reorgs |-> 0, next |-> 1,
                   l1InfoTreeData |-> e, torn |-> FALSE]
                    EXCEPT !.l1InfoTreeData = data, !.torn = torn]
    BY <2>1, <2>2, Zenon
  <2>. QED BY <2>3
<1>. HIDE DEF e, data, torn
<1>7. /\ build'.step = "done" /\ build'.next = 1
      /\ build'.l1InfoTreeData = data /\ build'.torn = torn
      /\ build' = [step |-> build'.step, aLeaves |-> build'.aLeaves,
                   reorgs |-> build'.reorgs, next |-> build'.next,
                   l1InfoTreeData |-> build'.l1InfoTreeData, torn |-> build'.torn]
  BY <1>6, BuildRecord, Zenon
<1>8. Indices(Len(blocks))' = DOMAIN data
  BY <1>3, <1>4 DEF Indices
<1>9. torn \/ ProofsFit'
  BY <1>3, <1>5, <1>7 DEF ProofsFit
<1>10. ~ IsForcedBatch'
  BY <1>2, <1>3 DEF Collecting, IsForcedBatch
<1>11. 1 \in 1 .. Len(blocks') + 1 /\ torn \in BOOLEAN
  BY <1>1, <1>2, <1>3 DEF torn
<1>12. Built'
  BY <1>7, <1>8, <1>9, <1>10, <1>11, Zenon DEF Built
<1>13. build'.step \in Steps \ {"none"}
  BY <1>7 DEF Steps
<1>. QED BY <1>1, <1>12, <1>13, ClosedKept

(* The next batch starts from nothing. *)
LEMMA BatchNextBatch == InputInv /\ EncoderInv' /\ NextBatch => BatchInv'
<1>. SUFFICES ASSUME InputInv, EncoderInv', NextBatch PROVE BatchInv'
  OBVIOUS
<1>1. blocks' = <<>> /\ batch' = NoBatch /\ build' = NoBuild
  BY DEF NextBatch
<1>2. batch'.kind = "none" /\ build' = Ended("none") /\ build'.step = "none"
  BY <1>1, EndedFields DEF NoBatch
<1>3. Indices(Len(blocks))' = {}
  <2>1. Len(blocks') = 0
    BY <1>1
  <2>2. Indices(Len(blocks))' = {blocks'[i].IndexL1InfoTree : i \in 1 .. 0} \ {0}
    BY <2>1 DEF Indices
  <2>. QED BY <2>2
<1>4. Built'
  BY <1>2, EndedBuilt DEF Steps
<1>. QED BY <1>1, <1>2, <1>3, <1>4, Zenon DEF BatchInv, Steps

(* A step that changes nothing. *)
LEMMA BatchUnchanged == InputInv /\ UNCHANGED vars => BatchInv'
BY DEF InputInv, BatchInv, Built, ProofsFit, Collecting, ClosedWith, Indices, IsForcedBatch, vars

(* At first there is no batch. *)
LEMMA InitBatch == Init => BatchInv
<1>. SUFFICES ASSUME Init PROVE BatchInv
  OBVIOUS
<1>1. blocks = <<>> /\ batch = NoBatch /\ build = NoBuild
  BY DEF Init
<1>2. batch.kind = "none" /\ build = Ended("none")
  BY <1>1, EndedFields DEF NoBatch
<1>3. /\ build.step = "none" /\ build.next = 1 /\ build.torn = FALSE
      /\ build.l1InfoTreeData = <<>> /\ DOMAIN build.l1InfoTreeData = {}
  BY <1>2, EndedFields, Zenon
<1>4. Len(blocks) = 0 /\ 1 \in 1 .. Len(blocks) + 1
  BY <1>1
<1>5. Indices(Len(blocks)) = {}
  <2>1. Indices(Len(blocks)) = {blocks[i].IndexL1InfoTree : i \in 1 .. 0} \ {0}
    BY <1>4 DEF Indices
  <2>. QED BY <2>1
<1>6. build = [step |-> build.step, aLeaves |-> build.aLeaves, reorgs |-> build.reorgs,
               next |-> build.next, l1InfoTreeData |-> build.l1InfoTreeData,
               torn |-> build.torn]
  <2>1. build = [step |-> "none", aLeaves |-> <<>>, reorgs |-> 0, next |-> 1,
                 l1InfoTreeData |-> <<>>, torn |-> FALSE]
    BY <1>2, EndedFields, Zenon
  <2>2. build.aLeaves = <<>> /\ build.reorgs = 0
    BY <1>2, EndedFields, Zenon
  <2>. QED BY <1>3, <2>1, <2>2, Zenon
<1>7. ProofsFit
  BY <1>3 DEF ProofsFit
<1>8. Built
  BY <1>3, <1>4, <1>6, <1>7, Zenon DEF Built
<1>. QED BY <1>1, <1>2, <1>3, <1>5, <1>8, Zenon DEF BatchInv, Steps

(* The invariant is inductive: one step for each action. *)
LEMMA InputStep == InputInv /\ [Next]_vars => InputInv'
<1>. SUFFICES ASSUME InputInv, [Next]_vars PROVE InputInv'
  OBVIOUS
<1>1. TreeInv' /\ EncoderInv'
  BY TreeStep, EncoderStep DEF InputInv
<1>2. CASE L1
  BY <1>1, <1>2, BatchL1 DEF InputInv
<1>3. CASE AddBlockHeader
  BY <1>1, <1>3, BatchAddBlockHeader DEF InputInv
<1>4. CASE AddTransaction
  BY <1>1, <1>4, BatchAddTransaction DEF InputInv
<1>5. CASE Close
  BY <1>1, <1>5, BatchClose DEF InputInv
<1>6. CASE BuildInputProver
  BY <1>1, <1>6, BatchBuildInputProver DEF InputInv
<1>7. CASE AddL1Data
  BY <1>1, <1>7, BatchAddL1Data DEF InputInv
<1>8. CASE BuildDone
  BY <1>1, <1>8, BatchBuildDone DEF InputInv
<1>9. CASE BuildFails
  BY <1>1, <1>9, BatchBuildFails DEF InputInv
<1>10. CASE Retry
  BY <1>1, <1>10, BatchRetry DEF InputInv
<1>11. CASE NextBatch
  BY <1>1, <1>11, BatchNextBatch DEF InputInv
<1>12. CASE UNCHANGED vars
  BY <1>1, <1>12, BatchUnchanged DEF InputInv
<1>. QED BY <1>2, <1>3, <1>4, <1>5, <1>6, <1>7, <1>8, <1>9, <1>10, <1>11, <1>12
         DEF Next, Encoder, Builder

-----------------------------------------------------------------------------
(* The theorems. *)

(* The tree follows the leaves of L1; the data stand for what was encoded; and what is
   collected for a batch fits the batch. *)
THEOREM InputInvariant == Spec => []InputInv
<1>1. Init => InputInv
  BY InitTree, InitEncoder, InitBatch DEF InputInv
<1>. QED BY <1>1, InputStep, PTL DEF Spec

(* The variables keep their types, and the data, the blocks and the tree their sizes. *)
THEOREM InputTypeOK == Spec => []TypeOK
<1>1. InputInv => TypeOK
  <2>. SUFFICES ASSUME InputInv PROVE TypeOK
    OBVIOUS
  <2>1. /\ leaves \in Seq(Leaves) /\ Len(leaves) <= MaxLeaves /\ reorgs \in 0 .. MaxReorgs
        /\ tree.count = Len(leaves) /\ Len(tree.siblings) = Height
    BY DEF InputInv, TreeInv, TreeOf
  <2>2. batchData \in Seq(Byte) /\ (Len(batchData) > 0 <=> blocks # <<>> \/ orphans # <<>>)
    <3>1. Len(batchData) > 0 <=> batchData # <<>>
      BY InputInvIn, EmptySeq
    <3>. QED BY <3>1, InputInvIn
  <2>3. Built /\ BatchInv
    BY DEF InputInv, BatchInv
  <2>4. DOMAIN build.l1InfoTreeData \subseteq 1 .. MaxLeaves - 1
    <3>1. CASE build.l1InfoTreeData = <<>>
      BY <3>1, EndedFields
    <3>2. CASE build.l1InfoTreeData # <<>>
      <4>1. DOMAIN build.l1InfoTreeData \subseteq Indices(Len(blocks))
        <5>1. CASE build.step = "leaves"
          <6>1. /\ DOMAIN build.l1InfoTreeData = Indices(build.next - 1)
                /\ build.next \in 1 .. Len(blocks) + 1 /\ Len(blocks) \in Nat
            BY <2>3, <5>1, InputInvIn DEF Built, Collecting
          <6>2. 1 .. build.next - 1 \subseteq 1 .. Len(blocks)
            BY <6>1
          <6>. QED BY <6>1, <6>2 DEF Indices
        <5>2. CASE build.step # "leaves"
          BY <2>3, <3>2, <5>2 DEF Built
        <5>. QED BY <5>1, <5>2
      <4>2. PICK closed \in Seq(Leaves) : ClosedWith(closed)
        <5>1. build.step # "none"
          BY <2>3, <3>2, EndedFields DEF Built
        <5>. QED BY <2>3, <5>1 DEF BatchInv
      <4>3. /\ Len(closed) \in Nat /\ Len(closed) <= MaxLeaves
            /\ Indices(Len(blocks)) \subseteq 1 .. Len(closed) - 1
        BY <4>2 DEF ClosedWith
      <4>. QED BY <4>1, <4>3, InputBounds
    <3>. QED BY <3>1, <3>2
  <2>5. build.next \in 1 .. Len(blocks) + 1
    BY <2>3 DEF Built
  <2>. QED BY <2>1, <2>2, <2>3, <2>4, <2>5 DEF TypeOK, BatchInv
<1>. QED BY <1>1, InputInvariant, PTL

(* AddLeaf, which looks at one leaf and the siblings kept, and NewL1InfoTree, which
   computes every level, agree with the tree of 2 ^ Height leaves. *)
THEOREM TreeFollows == Spec => []TreeFollowsLeaves
<1>1. InputInv => TreeFollowsLeaves
  <2>. SUFFICES ASSUME InputInv PROVE TreeFollowsLeaves
    OBVIOUS
  <2>1. leaves \in Seq(Leaves) /\ Len(leaves) <= PowersOf2[Height]
    BY InputBounds DEF InputInv, TreeInv
  <2>2. tree.currentRoot = ReferenceRoot(leaves)
    BY DEF InputInv, TreeInv, TreeOf
  <2>. QED BY <2>1, <2>2, RootIsReference DEF TreeFollowsLeaves
<1>. QED BY <1>1, InputInvariant, PTL

(* DecodeBatchV2 returns the blocks that the encoder was given, for any transactions and
   any base of the bytes, and they are encoded as they were. *)
THEOREM BatchesDecode == Spec => []DecodesToBlocks
<1>1. InputInv => DecodesToBlocks
  <2>. SUFFICES ASSUME InputInv PROVE DecodesToBlocks
    OBVIOUS
  <2>1. StandsFor(batchData, blocks, orphans)
    BY DEF InputInv, EncoderInv
  <2>. QED BY <2>1, StandsForDecodes DEF DecodesToBlocks
<1>. QED BY <1>1, InputInvariant, PTL

(* DecodeForcedBatchV2 returns the transactions that the encoder was given. *)
THEOREM ForcedDecode == Spec => []ForcedBatchesDecode
<1>1. InputInv => ForcedBatchesDecode
  <2>. SUFFICES ASSUME InputInv, blocks = <<>>
                PROVE  DecodeForcedBatchV2(batchData) = [ok |-> TRUE, txs |-> orphans]
    BY DEF ForcedBatchesDecode
  <2>1. ForcedStandsFor(batchData, orphans)
    BY DEF InputInv, EncoderInv
  <2>. QED BY <2>1, ForcedDecodes
<1>. QED BY <1>1, InputInvariant, PTL

(* The decoders take no data that break off for another batch: the lengths in the headers
   of the transactions and blocks say where each of them ends. *)
THEOREM CutDataIsAnError == Spec => []CutDataNeverMisread
<1>1. InputInv => CutDataNeverMisread
  <2>. SUFFICES ASSUME InputInv, NEW n \in 0 .. Len(batchData) - 1
                PROVE  LET cut == Slice(batchData, 0, n)
                           decoded == DecodeBatchV2(cut)
                           forced == DecodeForcedBatchV2(cut)
                       IN /\ decoded.ok /\ n > 0 =>
                               /\ IsPrefix(SubSeq(decoded.blocks, 1, Len(decoded.blocks) - 1),
                                           blocks)
                               /\ EncodeBatchV2(decoded.blocks) = cut
                          /\ blocks = <<>> /\ forced.ok => IsPrefix(forced.txs, orphans)
    BY Zenon DEF CutDataNeverMisread
  <2>1. StandsFor(batchData, blocks, orphans)
    BY DEF InputInv, EncoderInv
  <2>2. blocks = <<>> => ForcedStandsFor(batchData, orphans)
    BY DEF InputInv, EncoderInv
  <2>3. n \in 0 .. Len(batchData)
    BY InputInvIn, LenProperties
  <2>4. LET cut == Slice(batchData, 0, n)
            decoded == DecodeBatchV2(cut)
        IN decoded.ok /\ n > 0 =>
             /\ IsPrefix(SubSeq(decoded.blocks, 1, Len(decoded.blocks) - 1), blocks)
             /\ EncodeBatchV2(decoded.blocks) = cut
    BY <2>1, <2>3, CutDecodes, Zenon
  <2>5. blocks = <<>> =>
          (DecodeForcedBatchV2(Slice(batchData, 0, n)).ok =>
             IsPrefix(DecodeForcedBatchV2(Slice(batchData, 0, n)).txs, orphans))
    BY <2>2, <2>3, ForcedDecodes, Zenon
  <2>. QED BY <2>4, <2>5, Zenon
<1>. QED BY <1>1, InputInvariant, PTL

(* buildInputProver returns a leaf and a proof for the indices of the blocks, each once,
   and the proofs lead to the batch's L1InfoRoot unless L1 was reorganised meanwhile. *)
THEOREM InputFits == Spec => []InputFitsBatch
<1>1. InputInv => InputFitsBatch
  <2>. SUFFICES ASSUME InputInv, build.step = "done", ~ IsForcedBatch
                PROVE  /\ DOMAIN build.l1InfoTreeData =
                            {blocks[i].IndexL1InfoTree : i \in DOMAIN blocks} \ {0}
                       /\ build.torn \/ ProofsFit
    BY Zenon DEF InputFitsBatch, ProofsFit
  <2>1. Built
    BY DEF InputInv, BatchInv
  <2>2. DOMAIN blocks = 1 .. Len(blocks)
    BY InputInvIn
  <2>3. DOMAIN build.l1InfoTreeData = Indices(Len(blocks))
    BY <2>1 DEF Built
  <2>. QED BY <2>1, <2>2, <2>3 DEF Built, Indices
<1>. QED BY <1>1, InputInvariant, PTL

(* buildInputProver finds another root than the batch's after a reorganisation only: no
   growth of L1 makes it give up. *)
THEOREM MismatchNeedsReorg == Spec => []MismatchAfterReorgOnly
<1>1. InputInv => MismatchAfterReorgOnly
  BY DEF InputInv, BatchInv, Built, MismatchAfterReorgOnly
<1>. QED BY <1>1, InputInvariant, PTL
=============================================================================
