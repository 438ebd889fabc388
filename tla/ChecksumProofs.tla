--------------------------- MODULE ChecksumProofs ---------------------------
(***************************************************************************)
(* Theorems about the Internet checksum and the two programs that rely on  *)
(* it: the packets of program3, of any content and any length a datagram   *)
(* has, for any request, file and window and machines of either byte       *)
(* order; and the packet trace of program1, for captures of any number of  *)
(* frames laid out as the standards say.                                   *)
(***************************************************************************)
EXTENDS Packet, Trace, CommonLemmas, TLAPS

-----------------------------------------------------------------------------
(* The sum, the residue it leaves, and the checksum. *)

Octet == 0 .. 255

\* The k-th word of a packet.
WordOf(o, b, k) == Word(o, b[2 * k - 1], b[2 * k])

LEMMA OctetIs ==
    ASSUME NEW x
    PROVE  x \in Octet <=> x \in Nat /\ x <= 255
BY DEF Octet

LEMMA WordIs ==
    ASSUME NEW o, NEW x \in Octet, NEW y \in Octet
    PROVE  Word(o, x, y) \in Nat /\ Word(o, x, y) <= 65535
<1>1. x \in Nat /\ x <= 255 /\ y \in Nat /\ y <= 255
  BY OctetIs
<1> QED
  BY <1>1 DEF Word

LEMMA WordRange ==
    ASSUME NEW o, NEW b \in Seq(Octet), NEW k \in 1 .. Len(b) \div 2
    PROVE  /\ 2 * k - 1 \in 1 .. Len(b) /\ 2 * k \in 1 .. Len(b)
           /\ b[2 * k - 1] \in Octet /\ b[2 * k] \in Octet
           /\ WordOf(o, b, k) \in Nat /\ WordOf(o, b, k) <= 65535
<1>1. Len(b) \in Nat
  OBVIOUS
<1>2. 2 * k - 1 \in 1 .. Len(b) /\ 2 * k \in 1 .. Len(b)
  BY <1>1
<1>3. b[2 * k - 1] \in Octet /\ b[2 * k] \in Octet
  BY <1>2
<1>4. WordOf(o, b, k) \in Nat /\ WordOf(o, b, k) <= 65535
  BY <1>3, WordIs DEF WordOf
<1> QED
  BY <1>2, <1>3, <1>4

\* The loop's sums exist, and each is the one before and a word more.
LEMMA SumAfterIs ==
    ASSUME NEW o, NEW b \in Seq(Octet)
    PROVE  /\ SumAfter(o, b)[0] = 0
           /\ \A k \in 1 .. Len(b) \div 2 :
                SumAfter(o, b)[k] = SumAfter(o, b)[k - 1] + WordOf(o, b, k)
<1> DEFINE W(k) == WordOf(o, b, k)
           Sums(f, k) == f[0] = 0 /\ \A j \in 1 .. k : f[j] = f[j - 1] + W(j)
<1>1. PICK m \in Nat : m = Len(b) \div 2
  OBVIOUS
<1>2. \A k \in 1 .. m : W(k) \in Nat
  BY <1>1, WordRange
<1> DEFINE P == {k \in 0 .. m : \E f \in [0 .. k -> Int] : Sums(f, k)}
<1>3. 0 \in P
  <2> HIDE DEF W
  <2> DEFINE f == [j \in 0 .. 0 |-> 0]
  <2>1. f \in [0 .. 0 -> Int] /\ f[0] = 0 /\ 0 \in 0 .. m
    BY <1>1
  <2>2. Sums(f, 0)
    BY <2>1
  <2> QED
    BY <2>1, <2>2
<1>4. ASSUME NEW k \in 1 .. m, k - 1 \in P PROVE k \in P
  <2> HIDE DEF W
  <2>1. PICK f \in [0 .. k - 1 -> Int] : Sums(f, k - 1)
    BY <1>4
  <2>2. W(k) \in Int /\ k \in Nat /\ k - 1 \in 0 .. k - 1
    BY <1>1, <1>2
  <2> DEFINE g == [j \in 0 .. k |-> IF j = k THEN f[k - 1] + W(k) ELSE f[j]]
  <2>3. g \in [0 .. k -> Int]
    <3>1. \A j \in 0 .. k : j # k => j \in 0 .. k - 1
      BY <2>2
    <3> QED
      BY <2>2, <3>1
  <2>4. g[0] = 0
    BY <2>1, <2>2
  <2>5. ASSUME NEW j \in 1 .. k PROVE g[j] = g[j - 1] + W(j)
    <3>1. CASE j = k
      <4>1. g[k] = f[k - 1] + W(k) /\ g[k - 1] = f[k - 1]
        BY <2>2
      <4> QED
        BY <3>1, <4>1
    <3>2. CASE j # k
      <4>1. j \in 1 .. k - 1 /\ j - 1 \in 0 .. k - 1 /\ j - 1 # k /\ j \in 0 .. k
        BY <2>2, <3>2
      <4>2. g[j] = f[j] /\ g[j - 1] = f[j - 1]
        BY <2>2, <3>2, <4>1
      <4> QED
        BY <2>1, <4>1, <4>2
    <3> QED
      BY <3>1, <3>2
  <2>6. Sums(g, k)
    BY <2>4, <2>5
  <2>7. k \in 0 .. m
    BY <1>1
  <2> HIDE DEF g, Sums
  <2> QED
    BY <2>3, <2>6, <2>7
<1>5. m \in P
  <2>1. \A k \in 0 .. m : k \in P
    <3> HIDE DEF P
    <3> QED
      BY <1>1, <1>3, <1>4, UpTo
  <2>2. m \in 0 .. m
    BY <1>1
  <2> HIDE DEF P
  <2> QED
    BY <2>1, <2>2
<1>6. PICK f \in [0 .. m -> Int] : Sums(f, m)
  BY <1>5
<1> DEFINE Body(s) == [k \in 0 .. m |->
              IF k = 0 THEN 0 ELSE s[k - 1] + Word(o, b[2 * k - 1], b[2 * k])]
<1>7. f = Body(f)
  <2>1. ASSUME NEW k \in 0 .. m PROVE f[k] = Body(f)[k]
    <3>1. k # 0 => k \in 1 .. m
      BY <1>1
    <3> QED
      BY <1>6, <3>1 DEF WordOf
  <2> QED
    BY <1>6, <2>1
<1>8. \E s : s = Body(s)
  BY <1>7
<1>9. SumAfter(o, b) = CHOOSE s : s = Body(s)
  BY <1>1, Zenon DEF SumAfter
<1> DEFINE g == SumAfter(o, b)
<1>10. g = Body(g)
  <2> HIDE DEF Body
  <2> QED
    BY <1>8, <1>9
<1> HIDE DEF g
<1>11. g[0] = 0
  BY <1>1, <1>10
<1>12. ASSUME NEW k \in 1 .. m PROVE g[k] = g[k - 1] + WordOf(o, b, k)
  <2>1. k \in 0 .. m /\ k # 0
    BY <1>1
  <2> QED
    BY <1>10, <2>1 DEF WordOf
<1> QED
  BY <1>1, <1>11, <1>12 DEF g

LEMMA SumAfterRange ==
    ASSUME NEW o, NEW b \in Seq(Octet)
    PROVE  \A k \in 0 .. Len(b) \div 2 :
             SumAfter(o, b)[k] \in Nat /\ SumAfter(o, b)[k] <= 65535 * k
<1> DEFINE f == SumAfter(o, b)
           W(k) == WordOf(o, b, k)
<1>1. PICK m \in Nat : m = Len(b) \div 2
  OBVIOUS
<1>2. f[0] = 0 /\ \A k \in 1 .. m : f[k] = f[k - 1] + W(k)
  BY <1>1, SumAfterIs
<1>3. \A k \in 1 .. m : W(k) \in Nat /\ W(k) <= 65535
  BY <1>1, WordRange
<1> HIDE DEF W, f
<1> DEFINE P == {k \in 0 .. m : f[k] \in Nat /\ f[k] <= 65535 * k}
<1>4. 0 \in P
  BY <1>1, <1>2
<1>5. ASSUME NEW k \in 1 .. m, k - 1 \in P PROVE k \in P
  <2>1. k \in 0 .. m /\ k - 1 \in Int /\ f[k - 1] \in Nat /\ f[k - 1] <= 65535 * (k - 1)
    BY <1>1, <1>5
  <2>2. f[k] = f[k - 1] + W(k) /\ W(k) \in Nat /\ W(k) <= 65535
    BY <1>2, <1>3
  <2> QED
    BY <2>1, <2>2
<1>6. \A k \in 0 .. m : k \in P
  <2> HIDE DEF P
  <2> QED
    BY <1>1, <1>4, <1>5, UpTo
<1> QED
  BY <1>1, <1>6 DEF f

LEMMA Halves ==
    ASSUME NEW n \in Nat
    PROVE  /\ n \div 2 \in Nat /\ n = 2 * (n \div 2) + (n % 2)
           /\ n % 2 = 0 \/ n % 2 = 1
OBVIOUS

\* The sum of the loop and of what is left behind it.
LEMMA SumIs ==
    ASSUME NEW o, NEW b \in Seq(Octet), NEW m \in Nat, m = Len(b) \div 2
    PROVE  /\ Len(b) = 2 * m => SumOfWords(o, b) = SumAfter(o, b)[m]
           /\ Len(b) = 2 * m + 1 =>
                /\ SumOfWords(o, b) = SumAfter(o, b)[m] + Word(o, b[2 * m + 1], 0)
                /\ 2 * m + 1 \in 1 .. Len(b) /\ b[2 * m + 1] \in Octet
           /\ Len(b) = 2 * m \/ Len(b) = 2 * m + 1
           /\ Len(b) \in Nat
<1>1. PICK n \in Nat : n = Len(b)
  OBVIOUS
<1>2. n = 2 * m + (n % 2) /\ (n % 2 = 0 \/ n % 2 = 1)
  BY <1>1, Halves
<1>3. SumOfWords(o, b) = SumAfter(o, b)[m] + (IF n % 2 = 1 THEN Word(o, b[n], 0) ELSE 0)
  BY <1>1 DEF SumOfWords
<1>4. SumAfter(o, b)[m] \in Nat
  <2>1. m \in 0 .. Len(b) \div 2
    OBVIOUS
  <2> QED
    BY <2>1, SumAfterRange
<1>5. ASSUME n = 2 * m + 1 PROVE 2 * m + 1 \in 1 .. n /\ b[2 * m + 1] \in Octet
  <2>1. n \in 1 .. Len(b)
    BY <1>1, <1>5
  <2>2. b[n] \in Octet
    BY <2>1
  <2> QED
    BY <1>1, <1>5, <2>1, <2>2
<1>6. n = 2 * m => SumOfWords(o, b) = SumAfter(o, b)[m]
  BY <1>2, <1>3, <1>4
<1>7. n = 2 * m + 1 => SumOfWords(o, b) = SumAfter(o, b)[m] + Word(o, b[2 * m + 1], 0)
  BY <1>2, <1>3
<1> QED
  BY <1>1, <1>2, <1>5, <1>6, <1>7

LEMMA SumRange ==
    ASSUME NEW o, NEW b \in Seq(Octet)
    PROVE  /\ SumOfWords(o, b) \in Nat
           /\ SumOfWords(o, b) <= 65535 * ((Len(b) + 1) \div 2)
<1>1. PICK m \in Nat : m = Len(b) \div 2
  OBVIOUS
<1>2. SumAfter(o, b)[m] \in Nat /\ SumAfter(o, b)[m] <= 65535 * m
  <2>1. m \in 0 .. Len(b) \div 2
    BY <1>1
  <2> QED
    BY <2>1, SumAfterRange
<1>3. CASE Len(b) = 2 * m
  <2>1. (Len(b) + 1) \div 2 = m
    BY <1>3
  <2>2. SumOfWords(o, b) = SumAfter(o, b)[m]
    BY <1>1, <1>3, SumIs
  <2> QED
    BY <1>2, <2>1, <2>2
<1>4. CASE Len(b) = 2 * m + 1
  <2>1. (Len(b) + 1) \div 2 = m + 1
    BY <1>4
  <2>2. /\ SumOfWords(o, b) = SumAfter(o, b)[m] + Word(o, b[2 * m + 1], 0)
        /\ b[2 * m + 1] \in Octet
    BY <1>1, <1>4, SumIs
  <2>3. 0 \in Octet
    BY OctetIs
  <2>4. Word(o, b[2 * m + 1], 0) \in Nat /\ Word(o, b[2 * m + 1], 0) <= 65535
    BY <2>2, <2>3, WordIs
  <2> QED
    BY <1>2, <2>1, <2>2, <2>4
<1> QED
  BY <1>1, <1>3, <1>4, SumIs

-----------------------------------------------------------------------------
\* What a byte contributes to the sum.
Share(o, i, x) == IF (o = "little") <=> (i % 2 = 1) THEN x ELSE 256 * x

LEMMA WordChange ==
    ASSUME NEW o \in Orders, NEW b \in Seq(Octet), NEW i \in 1 .. Len(b), NEW v \in Octet,
           NEW k \in 1 .. Len(b) \div 2
    PROVE  WordOf(o, [b EXCEPT ![i] = v], k)
               = WordOf(o, b, k) + IF k = (i + 1) \div 2 THEN Share(o, i, v - b[i]) ELSE 0
<1>1. /\ 2 * k - 1 \in 1 .. Len(b) /\ 2 * k \in 1 .. Len(b)
      /\ b[2 * k - 1] \in Octet /\ b[2 * k] \in Octet
  BY WordRange
<1>2. PICK c : c = [b EXCEPT ![i] = v]
  OBVIOUS
<1>3. /\ c[2 * k - 1] = IF i = 2 * k - 1 THEN v ELSE b[2 * k - 1]
      /\ c[2 * k] = IF i = 2 * k THEN v ELSE b[2 * k]
  BY <1>1, <1>2
<1>4. PICK x \in Nat, y \in Nat, w \in Nat : x = b[2 * k - 1] /\ y = b[2 * k] /\ w = v
  BY <1>1, OctetIs
<1>5. o = "little" \/ o = "big"
  BY DEF Orders
<1>6. i \in Nat /\ k \in Nat
  OBVIOUS
<1>7. WordOf(o, b, k) = IF o = "little" THEN x + 256 * y ELSE 256 * x + y
  BY <1>4 DEF WordOf, Word
<1>8. CASE i = 2 * k - 1
  <2>1. (i + 1) \div 2 = k /\ i % 2 = 1 /\ i # 2 * k
    BY <1>6, <1>8
  <2>2. WordOf(o, c, k) = IF o = "little" THEN w + 256 * y ELSE 256 * w + y
    BY <1>3, <1>4, <1>8, <2>1 DEF WordOf, Word
  <2>3. Share(o, i, v - b[i]) = IF o = "little" THEN w - x ELSE 256 * (w - x)
    BY <1>4, <1>8, <2>1 DEF Share
  <2>4. WordOf(o, c, k) = WordOf(o, b, k) + Share(o, i, v - b[i])
    <3>1. CASE o = "little"
      <4>1. WordOf(o, c, k) = w + 256 * y /\ WordOf(o, b, k) = x + 256 * y
        BY <1>7, <2>2, <3>1
      <4>2. Share(o, i, v - b[i]) = w - x
        BY <2>3, <3>1
      <4> QED
        BY <4>1, <4>2
    <3>2. CASE o # "little"
      <4>1. WordOf(o, c, k) = 256 * w + y /\ WordOf(o, b, k) = 256 * x + y
        BY <1>7, <2>2, <3>2
      <4>2. Share(o, i, v - b[i]) = 256 * (w - x) /\ 256 * (w - x) = 256 * w - 256 * x
        BY <2>3, <3>2
      <4> QED
        BY <4>1, <4>2
    <3> QED
      BY <3>1, <3>2
  <2> QED
    BY <1>2, <2>1, <2>4
<1>9. CASE i = 2 * k
  <2>1. (i + 1) \div 2 = k /\ i % 2 = 0 /\ i # 2 * k - 1
    BY <1>6, <1>9
  <2>2. WordOf(o, c, k) = IF o = "little" THEN x + 256 * w ELSE 256 * x + w
    BY <1>3, <1>4, <1>9, <2>1 DEF WordOf, Word
  <2>3. Share(o, i, v - b[i]) = IF o = "little" THEN 256 * (w - y) ELSE w - y
    BY <1>4, <1>5, <1>9, <2>1 DEF Share
  <2>4. WordOf(o, c, k) = WordOf(o, b, k) + Share(o, i, v - b[i])
    <3>1. CASE o = "little"
      <4>1. WordOf(o, c, k) = x + 256 * w /\ WordOf(o, b, k) = x + 256 * y
        BY <1>7, <2>2, <3>1
      <4>2. Share(o, i, v - b[i]) = 256 * (w - y) /\ 256 * (w - y) = 256 * w - 256 * y
        BY <2>3, <3>1
      <4> QED
        BY <4>1, <4>2
    <3>2. CASE o # "little"
      <4>1. WordOf(o, c, k) = 256 * x + w /\ WordOf(o, b, k) = 256 * x + y
        BY <1>7, <2>2, <3>2
      <4>2. Share(o, i, v - b[i]) = w - y
        BY <2>3, <3>2
      <4> QED
        BY <4>1, <4>2
    <3> QED
      BY <3>1, <3>2
  <2> QED
    BY <1>2, <2>1, <2>4
<1>10. CASE i # 2 * k - 1 /\ i # 2 * k
  <2>1. (i + 1) \div 2 # k
    BY <1>6, <1>10
  <2>2. WordOf(o, c, k) = WordOf(o, b, k)
    <3>1. c[2 * k - 1] = b[2 * k - 1] /\ c[2 * k] = b[2 * k]
      BY <1>3, <1>10
    <3> QED
      BY <3>1, Zenon DEF WordOf, Word
  <2>3. WordOf(o, b, k) + 0 = WordOf(o, b, k)
    <3>1. WordOf(o, b, k) \in Nat
      BY WordRange
    <3> QED
      BY <3>1
  <2> QED
    BY <1>2, <2>1, <2>2, <2>3
<1> QED
  BY <1>8, <1>9, <1>10

\* What a changed byte does to the sum.
LEMMA SumChange ==
    ASSUME NEW o \in Orders, NEW b \in Seq(Octet), NEW i \in 1 .. Len(b), NEW v \in Octet
    PROVE  /\ [b EXCEPT ![i] = v] \in Seq(Octet)
           /\ Len([b EXCEPT ![i] = v]) = Len(b)
           /\ SumOfWords(o, [b EXCEPT ![i] = v]) = SumOfWords(o, b) + Share(o, i, v - b[i])
<1>1. PICK c : c = [b EXCEPT ![i] = v]
  OBVIOUS
<1>2. /\ c \in Seq(Octet) /\ Len(c) = Len(b) /\ i \in Nat
      /\ \A k \in 1 .. Len(b) : c[k] = IF k = i THEN v ELSE b[k]
  BY <1>1
<1>3. PICK m \in Nat, j \in Nat : m = Len(b) \div 2 /\ j = (i + 1) \div 2
  BY <1>2
<1>4. PICK d \in Int : d = Share(o, i, v - b[i])
  <2>1. b[i] \in Octet
    OBVIOUS
  <2>2. v - b[i] \in Int
    BY <2>1, OctetIs
  <2> QED
    BY <2>2 DEF Share
<1> DEFINE f == SumAfter(o, b)
           g == SumAfter(o, c)
           W(k) == WordOf(o, b, k)
           V(k) == WordOf(o, c, k)
<1>5. f[0] = 0 /\ \A k \in 1 .. m : f[k] = f[k - 1] + W(k)
  BY <1>3, SumAfterIs
<1>6. g[0] = 0 /\ \A k \in 1 .. m : g[k] = g[k - 1] + V(k)
  BY <1>2, <1>3, SumAfterIs
<1>7. \A k \in 1 .. m : V(k) = W(k) + IF k = j THEN d ELSE 0
  BY <1>1, <1>3, <1>4, WordChange
<1>8. \A k \in 1 .. m : W(k) \in Nat
  BY <1>3, WordRange
<1>9. \A k \in 0 .. m : f[k] \in Nat
  BY <1>3, SumAfterRange
<1>10. j \in Nat \ {0}
  BY <1>2, <1>3
<1> HIDE DEF f, g, W, V
<1> DEFINE P == {k \in 0 .. m : g[k] = f[k] + IF j <= k THEN d ELSE 0}
<1>11. 0 \in P
  BY <1>3, <1>5, <1>6, <1>10
<1>12. ASSUME NEW k \in 1 .. m, k - 1 \in P PROVE k \in P
  <2>1. k \in 0 .. m /\ k - 1 \in 0 .. m /\ k \in Nat
    BY <1>3
  <2>2. g[k - 1] = f[k - 1] + IF j <= k - 1 THEN d ELSE 0
    BY <1>12
  <2>3. f[k - 1] \in Nat /\ W(k) \in Nat
    BY <1>8, <1>9, <2>1
  <2>4. f[k] = f[k - 1] + W(k) /\ g[k] = g[k - 1] + V(k)
    BY <1>5, <1>6
  <2>5. V(k) = W(k) + IF k = j THEN d ELSE 0
    BY <1>7
  <2>6. g[k] = f[k] + IF j <= k THEN d ELSE 0
    <3>1. CASE k = j
      BY <1>10, <2>1, <2>2, <2>3, <2>4, <2>5, <3>1
    <3>2. CASE k # j
      BY <1>10, <2>1, <2>2, <2>3, <2>4, <2>5, <3>2
    <3> QED
      BY <3>1, <3>2
  <2> QED
    BY <2>1, <2>6
<1>13. \A k \in 0 .. m : k \in P
  <2> HIDE DEF P
  <2> QED
    BY <1>3, <1>11, <1>12, UpTo
<1>14. g[m] = f[m] + IF j <= m THEN d ELSE 0
  BY <1>3, <1>13
<1>15. f[m] \in Nat
  BY <1>3, <1>9
<1>16. CASE Len(b) = 2 * m
  <2>0. c \in Seq(Octet) /\ m = Len(c) \div 2 /\ Len(c) = 2 * m
    BY <1>2, <1>3, <1>16
  <2>1. SumOfWords(o, b) = f[m] /\ SumOfWords(o, c) = g[m]
    BY <1>3, <1>16, <2>0, SumIs DEF f, g
  <2>2. j <= m
    BY <1>2, <1>3, <1>16
  <2> QED
    BY <1>1, <1>2, <1>4, <1>14, <2>1, <2>2
<1>17. CASE Len(b) = 2 * m + 1
  <2>1. /\ SumOfWords(o, b) = f[m] + Word(o, b[2 * m + 1], 0)
        /\ 2 * m + 1 \in 1 .. Len(b) /\ b[2 * m + 1] \in Octet
    BY <1>3, <1>17, SumIs DEF f
  <2>0. c \in Seq(Octet) /\ m = Len(c) \div 2 /\ Len(c) = 2 * m + 1
    BY <1>2, <1>3, <1>17
  <2>2. SumOfWords(o, c) = g[m] + Word(o, c[2 * m + 1], 0)
    <3>1. SumOfWords(o, c) = SumAfter(o, c)[m] + Word(o, c[2 * m + 1], 0)
      <4>1. m \in Nat
        BY <1>3
      <4> QED
        BY ONLY <2>0, <4>1, SumIs
    <3> QED
      BY <3>1 DEF g
  <2>3. PICK x \in Nat : x = b[2 * m + 1]
    BY <2>1, OctetIs
  <2>4. PICK w \in Nat : w = v
    BY OctetIs
  <2>5. Word(o, b[2 * m + 1], 0) = IF o = "little" THEN x ELSE 256 * x
    BY <2>3 DEF Word
  <2>6. CASE i = 2 * m + 1
    <3>1. ~(j <= m) /\ i % 2 = 1
      BY <1>3, <2>6
    <3>2. Word(o, c[2 * m + 1], 0) = IF o = "little" THEN w ELSE 256 * w
      BY <1>2, <2>1, <2>4, <2>6 DEF Word
    <3>3. d = IF o = "little" THEN w - x ELSE 256 * (w - x)
      BY <1>4, <2>3, <2>4, <2>6, <3>1 DEF Share
    <3>4. g[m] = f[m]
      BY <1>14, <1>15, <3>1
    <3>5. SumOfWords(o, c) = SumOfWords(o, b) + d
      <4>1. CASE o = "little"
        BY <1>15, <2>1, <2>2, <2>5, <3>2, <3>3, <3>4, <4>1
      <4>2. CASE o # "little"
        BY <1>15, <2>1, <2>2, <2>5, <3>2, <3>3, <3>4, <4>2
      <4> QED
        BY <4>1, <4>2
    <3> QED
      BY <1>1, <1>2, <1>4, <3>5
  <2>7. CASE i # 2 * m + 1
    <3>1. j <= m
      <4>1. i <= 2 * m
        BY <1>3, <1>17, <2>7
      <4> QED
        BY <1>2, <1>3, <4>1
    <3>2. c[2 * m + 1] = b[2 * m + 1]
      BY <1>2, <2>1, <2>7
    <3>3. PICK y \in Nat : y = Word(o, b[2 * m + 1], 0)
      BY <2>3, <2>5
    <3>4. SumOfWords(o, c) = SumOfWords(o, b) + d
      BY <1>14, <1>15, <2>1, <2>2, <3>1, <3>2, <3>3
    <3> QED
      BY <1>1, <1>2, <1>4, <3>4
  <2> QED
    BY <2>6, <2>7
<1> QED
  BY <1>3, <1>16, <1>17, SumIs

-----------------------------------------------------------------------------
\* The sum of a machine of the other order is 256 times this one's, modulo 2^16 - 1.
Turned(x, y) == \E e \in Nat : x + 65535 * e = 256 * y

LEMMA TurnedBoth ==
    ASSUME NEW x \in Nat, NEW y \in Nat, Turned(x, y), NEW u \in Nat, NEW v \in Nat, Turned(u, v)
    PROVE  Turned(x + u, y + v)
<1>1. PICK e \in Nat : x + 65535 * e = 256 * y
  BY DEF Turned
<1>2. PICK h \in Nat : u + 65535 * h = 256 * v
  BY DEF Turned
<1>3. e + h \in Nat /\ (x + u) + 65535 * (e + h) = 256 * (y + v)
  BY <1>1, <1>2
<1> QED
  BY <1>3 DEF Turned

LEMMA WordTurned ==
    ASSUME NEW o \in Orders, NEW p \in Orders, o # p, NEW x \in Octet, NEW y \in Octet
    PROVE  Turned(Word(o, x, y), Word(p, x, y))
<1>1. x \in Nat /\ y \in Nat
  BY OctetIs
<1>2. CASE o = "little" /\ p = "big"
  <2>1. Word(o, x, y) = x + 256 * y /\ Word(p, x, y) = 256 * x + y
    BY <1>2 DEF Word
  <2>2. (x + 256 * y) + 65535 * x = 256 * (256 * x + y)
    BY <1>1
  <2> QED
    BY <1>1, <2>1, <2>2 DEF Turned
<1>3. CASE o = "big" /\ p = "little"
  <2>1. Word(o, x, y) = 256 * x + y /\ Word(p, x, y) = x + 256 * y
    BY <1>3 DEF Word
  <2>2. (256 * x + y) + 65535 * y = 256 * (x + 256 * y)
    BY <1>1
  <2> QED
    BY <1>1, <2>1, <2>2 DEF Turned
<1> QED
  BY <1>2, <1>3 DEF Orders

LEMMA SumTurned ==
    ASSUME NEW o \in Orders, NEW p \in Orders, o # p, NEW b \in Seq(Octet)
    PROVE  Turned(SumOfWords(o, b), SumOfWords(p, b))
<1>1. PICK m \in Nat : m = Len(b) \div 2
  OBVIOUS
<1> DEFINE f == SumAfter(o, b)
           g == SumAfter(p, b)
           W(k) == WordOf(o, b, k)
           V(k) == WordOf(p, b, k)
<1>2. f[0] = 0 /\ \A k \in 1 .. m : f[k] = f[k - 1] + W(k)
  BY <1>1, SumAfterIs
<1>3. g[0] = 0 /\ \A k \in 1 .. m : g[k] = g[k - 1] + V(k)
  BY <1>1, SumAfterIs
<1>4. \A k \in 0 .. m : f[k] \in Nat /\ g[k] \in Nat
  BY <1>1, SumAfterRange
<1>5. ASSUME NEW k \in 1 .. m PROVE W(k) \in Nat /\ V(k) \in Nat /\ Turned(W(k), V(k))
  <2>1. b[2 * k - 1] \in Octet /\ b[2 * k] \in Octet /\ W(k) \in Nat /\ V(k) \in Nat
    BY <1>1, WordRange
  <2> QED
    BY <2>1, WordTurned DEF WordOf
<1> HIDE DEF f, g, W, V
<1> DEFINE P == {k \in 0 .. m : Turned(f[k], g[k])}
<1>6. 0 \in P
  <2>1. 0 \in 0 .. m /\ f[0] + 65535 * 0 = 256 * g[0]
    BY <1>1, <1>2, <1>3
  <2> QED
    BY <2>1 DEF Turned
<1>7. ASSUME NEW k \in 1 .. m, k - 1 \in P PROVE k \in P
  <2>1. k \in 0 .. m /\ k - 1 \in 0 .. m
    BY <1>1
  <2>2. PICK x \in Nat, y \in Nat : x = f[k - 1] /\ y = g[k - 1]
    BY <1>4, <2>1
  <2>3. PICK u \in Nat, v \in Nat : u = W(k) /\ v = V(k)
    BY <1>5
  <2>4. Turned(x, y) /\ Turned(u, v)
    BY <1>5, <1>7, <2>2, <2>3
  <2>5. Turned(x + u, y + v)
    BY <2>4, TurnedBoth
  <2>6. f[k] = x + u /\ g[k] = y + v
    BY <1>2, <1>3, <2>2, <2>3
  <2> QED
    BY <2>1, <2>5, <2>6
<1>8. \A k \in 0 .. m : k \in P
  <2> HIDE DEF P
  <2> QED
    BY <1>1, <1>6, <1>7, UpTo
<1>9. m \in 0 .. m
  BY <1>1
<1>10. PICK x \in Nat, y \in Nat : x = f[m] /\ y = g[m]
  BY <1>4, <1>9
<1>11. Turned(x, y)
  <2>1. m \in P
    <3> HIDE DEF P
    <3> QED
      BY <1>8, <1>9
  <2> QED
    BY <1>10, <2>1
<1>12. CASE Len(b) = 2 * m
  <2>1. SumOfWords(o, b) = x /\ SumOfWords(p, b) = y
    BY <1>1, <1>10, <1>12, SumIs DEF f, g
  <2> QED
    BY <1>11, <2>1
<1>13. CASE Len(b) = 2 * m + 1
  <2>0. 0 \in Octet
    BY OctetIs
  <2>1. b[2 * m + 1] \in Octet
    BY <1>1, <1>13, SumIs
  <2>2. PICK u \in Nat, v \in Nat : u = Word(o, b[2 * m + 1], 0) /\ v = Word(p, b[2 * m + 1], 0)
    BY <2>0, <2>1, WordIs
  <2>3. SumOfWords(o, b) = x + u /\ SumOfWords(p, b) = y + v
    BY <1>1, <1>10, <1>13, <2>2, SumIs DEF f, g
  <2>4. Turned(u, v)
    BY <2>0, <2>1, <2>2, WordTurned
  <2> QED
    BY <1>11, <2>3, <2>4, TurnedBoth
<1> QED
  BY <1>1, <1>12, <1>13, SumIs

-----------------------------------------------------------------------------
\* The one's complement sum: s modulo 2^16 - 1, with 0 for 0 only.
Residue(s) == IF s = 0 THEN 0 ELSE ((s - 1) % 65535) + 1

Reduces(s, r) == \E q \in Int : s = 65535 * q + r

LEMMA ResidueIs ==
    ASSUME NEW s \in Nat
    PROVE  /\ Residue(s) \in Nat /\ Residue(s) <= 65535
           /\ Residue(s) = 0 <=> s = 0
           /\ Reduces(s, Residue(s))
<1>1. CASE s = 0
  <2>1. 0 \in Nat /\ s = 65535 * 0 + 0
    BY <1>1
  <2> QED
    BY <1>1, <2>1 DEF Residue, Reduces
<1>2. CASE s # 0
  <2>1. PICK q \in Nat, r \in Nat : s - 1 = 65535 * q + r /\ r < 65535 /\ r = (s - 1) % 65535
    <3>1. s - 1 \in Nat
      BY <1>2
    <3>2. PICK t \in Nat : t = s - 1
      BY <3>1
    <3>3. PICK q \in Int, r \in Int : q = t \div 65535 /\ r = t % 65535
      BY <3>2
    <3>4. t = 65535 * q + r /\ 0 <= r /\ r < 65535
      BY <3>2, <3>3
    <3>5. q \in Nat /\ r \in Nat
      BY <3>2, <3>4
    <3> QED
      BY <3>2, <3>3, <3>4, <3>5
  <2>2. Residue(s) = r + 1
    BY <1>2, <2>1 DEF Residue
  <2>3. s = 65535 * q + (r + 1) /\ r + 1 <= 65535 /\ r + 1 # 0
    BY <2>1
  <2> QED
    BY <1>2, <2>1, <2>2, <2>3 DEF Reduces
<1> QED
  BY <1>1, <1>2

\* The representative is the only one in its range.
LEMMA ResidueOnly ==
    ASSUME NEW s \in Nat, NEW r \in Nat, r <= 65535,
           Reduces(s, r), r = 0 <=> s = 0
    PROVE  Residue(s) = r
<1>1. PICK u \in Nat : u = Residue(s)
  BY ResidueIs
<1>2. u <= 65535 /\ (u = 0 <=> s = 0) /\ Reduces(s, u)
  BY <1>1, ResidueIs
<1>3. PICK p \in Int : s = 65535 * p + u
  BY <1>2 DEF Reduces
<1>0. PICK q \in Int : s = 65535 * q + r
  BY DEF Reduces
<1>4. PICK k \in Int : k = p - q
  OBVIOUS
<1>5. r - u = 65535 * k
  BY <1>0, <1>3, <1>4
<1>6. k = 0 \/ k = 1 \/ k = -1
  BY <1>2, <1>5
<1> QED
  BY <1>1, <1>2, <1>5, <1>6

\* The two folds of the code on a sum that fits the accumulator.
LEMMA FoldsAre ==
    ASSUME NEW o, NEW b, SumOfWords(o, b) \in Nat, SumOfWords(o, b) < 2147483648
    PROVE  in_cksum(o, b) = 65535 - Residue(SumOfWords(o, b))
<1>1. PICK s \in Nat : s = SumOfWords(o, b)
  OBVIOUS
<1>2. PICK q \in Int, r \in Int : q = s \div 65536 /\ r = s % 65536
  BY <1>1
<1>3. s = 65536 * q + r /\ 0 <= r /\ r < 65536
  BY <1>2
<1>4. 0 <= q /\ q < 32768
  BY <1>1, <1>3
<1>5. PICK t \in Nat : t = q + r
  BY <1>3, <1>4
<1>6. in_cksum(o, b) = 65535 - ((t + (t \div 65536)) % 65536)
  BY <1>1, <1>2, <1>5 DEF in_cksum
<1>8. CASE t < 65536
  <2>1. t \div 65536 = 0 /\ (t + 0) % 65536 = t
    BY <1>8
  <2>2. s = 65535 * q + t /\ t <= 65535 /\ (t = 0 <=> s = 0)
    BY <1>3, <1>4, <1>5, <1>8
  <2>3. Residue(s) = t
    <3>1. Reduces(s, t)
      BY <2>2 DEF Reduces
    <3> QED
      BY <2>2, <3>1, ResidueOnly
  <2> QED
    BY <1>1, <1>6, <2>1, <2>3
<1>9. CASE ~(t < 65536)
  <2>1. t \div 65536 = 1 /\ (t + 1) % 65536 = t - 65535
    BY <1>3, <1>4, <1>5, <1>9
  <2>2. PICK u \in Nat : u = t - 65535
    BY <1>9
  <2>3. /\ q + 1 \in Int /\ s = 65535 * (q + 1) + u /\ u <= 65535
        /\ (u = 0 <=> s = 0)
    BY <1>3, <1>4, <1>5, <1>9, <2>2
  <2>4. Residue(s) = u
    <3>1. Reduces(s, u)
      BY <2>3 DEF Reduces
    <3> QED
      BY <2>3, <3>1, ResidueOnly
  <2> QED
    BY <1>1, <1>6, <2>1, <2>2, <2>4
<1> QED
  BY <1>8, <1>9

-----------------------------------------------------------------------------
(* The Internet checksum of the definition: the words are added in one's   *)
(* complement, one by one, behind a padding of a byte 0.                   *)

LEMMA OnesSumIs ==
    ASSUME NEW s \in Nat, NEW w \in Nat, w <= 65535
    PROVE  OnesSum(Residue(s), w) = Residue(s + w)
<1>1. PICK r \in Nat : r = Residue(s) /\ r <= 65535 /\ (r = 0 <=> s = 0) /\ Reduces(s, r)
  BY ResidueIs
<1>2. PICK q \in Int : s = 65535 * q + r
  BY <1>1 DEF Reduces
<1>3. PICK t \in Nat : t = s + w
  OBVIOUS
<1>4. CASE r + w > 65535
  <2>1. PICK u \in Nat : u = r + w - 65535
    BY <1>4
  <2>2. q + 1 \in Int /\ t = 65535 * (q + 1) + u /\ u <= 65535 /\ (u = 0 <=> t = 0)
    <3>1. s \in Nat /\ w \in Nat /\ w <= 65535 /\ r \in Nat /\ r <= 65535 /\ (s = 0 => r = 0)
      BY <1>1
    <3>2. t \in Nat /\ u \in Nat /\ q \in Int
      OBVIOUS
    <3>3. u # 0 /\ u <= 65535 /\ t # 0
      BY ONLY <1>3, <1>4, <2>1, <3>1, <3>2
    <3>4. q + 1 \in Int /\ t = 65535 * (q + 1) + u
      BY ONLY <1>2, <1>3, <2>1, <3>1, <3>2
    <3> QED
      BY ONLY <3>3, <3>4
  <2>3. Reduces(t, u)
    BY <2>2 DEF Reduces
  <2>4. Residue(t) = u
    BY <2>2, <2>3, ResidueOnly
  <2>5. OnesSum(r, w) = u
    BY <1>4, <2>1 DEF OnesSum
  <2> QED
    BY ONLY <1>1, <1>3, <2>4, <2>5
<1>5. CASE ~(r + w > 65535)
  <2>1. PICK u \in Nat : u = r + w
    OBVIOUS
  <2>2. t = 65535 * q + u /\ u <= 65535 /\ (u = 0 <=> t = 0)
    <3>1. s \in Nat /\ w \in Nat /\ r \in Nat /\ (s = 0 <=> r = 0)
      BY <1>1
    <3>2. t \in Nat /\ u \in Nat /\ q \in Int
      OBVIOUS
    <3>3. u <= 65535 /\ (u = 0 <=> t = 0)
      BY ONLY <1>3, <1>5, <2>1, <3>1, <3>2
    <3>4. t = 65535 * q + u
      BY ONLY <1>2, <1>3, <2>1, <3>1, <3>2
    <3> QED
      BY ONLY <3>3, <3>4
  <2>3. Reduces(t, u)
    BY <2>2 DEF Reduces
  <2>4. Residue(t) = u
    BY <2>2, <2>3, ResidueOnly
  <2>5. OnesSum(r, w) = u
    BY <1>5, <2>1 DEF OnesSum
  <2> QED
    BY ONLY <1>1, <1>3, <2>4, <2>5
<1> QED
  BY <1>4, <1>5

\* The one's complement sums exist: they are the residues of the code's sums.
LEMMA OnesSumAfterIs ==
    ASSUME NEW o, NEW b \in Seq(Octet), NEW m \in Nat, m = Len(b) \div 2
    PROVE  OnesSumAfter(o, b)[m] = Residue(SumAfter(o, b)[m])
<1> DEFINE W(k) == Word(o, b[2 * k - 1], b[2 * k])
           f == SumAfter(o, b)
           Body(s) == [k \in 0 .. m |->
              IF k = 0 THEN 0 ELSE OnesSum(s[k - 1], Word(o, b[2 * k - 1], b[2 * k]))]
           r == [k \in 0 .. m |-> Residue(f[k])]
<1>1. /\ f[0] = 0
      /\ \A k \in 1 .. m : f[k] = f[k - 1] + W(k)
  BY SumAfterIs DEF WordOf
<1>2. /\ \A k \in 1 .. m : W(k) \in Nat /\ W(k) <= 65535
      /\ \A k \in 0 .. m : f[k] \in Nat
  <2>1. \A k \in 1 .. Len(b) \div 2 : WordOf(o, b, k) \in Nat /\ WordOf(o, b, k) <= 65535
    BY WordRange
  <2>2. \A k \in 0 .. Len(b) \div 2 : SumAfter(o, b)[k] \in Nat
    BY SumAfterRange
  <2> QED
    BY ONLY <2>1, <2>2, m = Len(b) \div 2 DEF WordOf
<1>3. \A k \in 1 .. m : OnesSum(Residue(f[k - 1]), W(k)) = Residue(f[k])
  <2> HIDE DEF W, f
  <2> TAKE k \in 1 .. m
  <2>1. k - 1 \in 0 .. m
    OBVIOUS
  <2>2. f[k - 1] \in Nat /\ W(k) \in Nat /\ W(k) <= 65535 /\ f[k] = f[k - 1] + W(k)
    BY <1>1, <1>2, <2>1
  <2>3. PICK x \in Nat, w \in Nat : x = f[k - 1] /\ w = W(k)
    BY <2>2
  <2>4. OnesSum(Residue(x), w) = Residue(x + w)
    <3>1. x \in Nat /\ w \in Nat /\ w <= 65535
      BY <2>2, <2>3
    <3> QED
      BY ONLY <3>1, OnesSumIs
  <2> QED
    BY ONLY <2>2, <2>3, <2>4
<1>4. Residue(f[0]) = 0
  BY <1>1 DEF Residue
<1>5. r = Body(r)
  <2>1. ASSUME NEW k \in 0 .. m PROVE r[k] = Body(r)[k]
    <3>1. CASE k = 0
      BY <1>4, <3>1
    <3>2. CASE k # 0
      <4>1. k \in 1 .. m /\ k - 1 \in 0 .. m
        BY <3>2
      <4>2. r[k - 1] = Residue(f[k - 1]) /\ r[k] = Residue(f[k])
        BY <4>1
      <4>3. Body(r)[k] = OnesSum(r[k - 1], W(k))
        BY <3>2
      <4> QED
        BY <1>3, <4>1, <4>2, <4>3
    <3> QED
      BY <3>1, <3>2
  <2> QED
    BY <2>1
<1>6. OnesSumAfter(o, b) = CHOOSE s : s = Body(s)
  BY Zenon DEF OnesSumAfter
<1> DEFINE g == OnesSumAfter(o, b)
<1>7. g = Body(g)
  <2>1. \E s : s = Body(s)
    BY <1>5
  <2> HIDE DEF Body
  <2> QED
    BY <1>6, <2>1
<1> HIDE DEF g, f, r
<1> DEFINE P == {k \in 0 .. m : g[k] = Residue(f[k])}
<1>8. 0 \in P
  BY <1>4, <1>7
<1>9. ASSUME NEW k \in 1 .. m, k - 1 \in P PROVE k \in P
  <2>1. k \in 0 .. m /\ k # 0 /\ g[k - 1] = Residue(f[k - 1])
    BY <1>9
  <2>2. g[k] = OnesSum(g[k - 1], W(k))
    BY <1>7, <2>1
  <2>3. OnesSum(Residue(f[k - 1]), W(k)) = Residue(f[k])
    BY <1>3
  <2> QED
    BY <2>1, <2>2, <2>3
<1>10. \A k \in 0 .. m : k \in P
  <2> HIDE DEF P
  <2> QED
    BY <1>8, <1>9, UpTo
<1>11. m \in 0 .. m
  OBVIOUS
<1> QED
  BY <1>10, <1>11 DEF g, f

\* The byte that the code mops up is the word the padding makes of it.
LEMMA PaddedSum ==
    ASSUME NEW o, NEW b \in Seq(Octet)
    PROVE  /\ Padded(b) \in Seq(Octet)
           /\ SumAfter(o, Padded(b))[Len(Padded(b)) \div 2] = SumOfWords(o, b)
<1>1. PICK m \in Nat : m = Len(b) \div 2
  OBVIOUS
<1>2. CASE Len(b) = 2 * m
  <2>1. Padded(b) = b
    BY <1>2 DEF Padded
  <2> QED
    BY <1>1, <1>2, <2>1, SumIs
<1>3. CASE Len(b) = 2 * m + 1
  <2>1. PICK c : c = Append(b, 0)
    OBVIOUS
  <2>2. Padded(b) = c
    BY <1>3, <2>1 DEF Padded
  <2>3. 0 \in Octet
    BY OctetIs
  <2>4. /\ c \in Seq(Octet) /\ Len(c) = 2 * (m + 1) /\ Len(c) \div 2 = m + 1
        /\ \A i \in 1 .. Len(b) : c[i] = b[i]
        /\ c[2 * m + 2] = 0
    BY <1>3, <2>1, <2>3
  <2> DEFINE f == SumAfter(o, b)
             g == SumAfter(o, c)
  <2>5. f[0] = 0 /\ \A k \in 1 .. m : f[k] = f[k - 1] + WordOf(o, b, k)
    BY <1>1, SumAfterIs
  <2>6. g[0] = 0 /\ \A k \in 1 .. m + 1 : g[k] = g[k - 1] + WordOf(o, c, k)
    BY <2>4, SumAfterIs
  <2>7. \A k \in 1 .. m : WordOf(o, c, k) = WordOf(o, b, k)
    <3> TAKE k \in 1 .. m
    <3>1. 2 * k - 1 \in 1 .. Len(b) /\ 2 * k \in 1 .. Len(b)
      BY <1>3
    <3>2. c[2 * k - 1] = b[2 * k - 1] /\ c[2 * k] = b[2 * k]
      BY <2>4, <3>1
    <3> QED
      BY <3>2 DEF WordOf
  <2> HIDE DEF f, g
  <2> DEFINE P == {k \in 0 .. m : g[k] = f[k]}
  <2>8. 0 \in P
    BY <2>5, <2>6
  <2>9. ASSUME NEW k \in 1 .. m, k - 1 \in P PROVE k \in P
    <3>1. k \in 0 .. m /\ k \in 1 .. m + 1 /\ g[k - 1] = f[k - 1]
      BY <2>9
    <3> QED
      BY <2>5, <2>6, <2>7, <3>1
  <2>10. \A k \in 0 .. m : k \in P
    <3> HIDE DEF P
    <3> QED
      BY <2>8, <2>9, UpTo
  <2>11. g[m] = f[m]
    <3>1. m \in 0 .. m
      OBVIOUS
    <3> QED
      BY <2>10, <3>1
  <2>12. g[m + 1] = g[m] + Word(o, b[2 * m + 1], 0)
    <3>1. m + 1 \in 1 .. m + 1 /\ (m + 1) - 1 = m
      OBVIOUS
    <3>2. g[m + 1] = g[m] + WordOf(o, c, m + 1)
      BY <2>6, <3>1
    <3>3. 2 * (m + 1) - 1 = 2 * m + 1 /\ 2 * (m + 1) = 2 * m + 2 /\ 2 * m + 1 \in 1 .. Len(b)
      BY <1>3
    <3>4. c[2 * (m + 1) - 1] = b[2 * m + 1] /\ c[2 * (m + 1)] = 0
      BY <2>4, <3>3
    <3>5. WordOf(o, c, m + 1) = Word(o, b[2 * m + 1], 0)
      BY <3>4 DEF WordOf
    <3> QED
      BY <3>2, <3>5
  <2>13. SumOfWords(o, b) = f[m] + Word(o, b[2 * m + 1], 0)
    BY <1>1, <1>3, SumIs DEF f
  <2> QED
    BY <2>2, <2>4, <2>11, <2>12, <2>13 DEF g
<1> QED
  BY <1>1, <1>2, <1>3, SumIs

\* The definition gives the residue of the sum the code takes, of odd lengths too.
LEMMA InternetIs ==
    ASSUME NEW o, NEW b \in Seq(Octet)
    PROVE  InternetChecksum(o, b) = 65535 - Residue(SumOfWords(o, b))
<1>1. PICK c : c = Padded(b)
  OBVIOUS
<1>2. c \in Seq(Octet) /\ SumAfter(o, c)[Len(c) \div 2] = SumOfWords(o, b)
  BY <1>1, PaddedSum
<1>3. PICK m \in Nat : m = Len(c) \div 2
  BY <1>2
<1>4. OnesSumAfter(o, c)[m] = Residue(SumAfter(o, c)[m])
  BY <1>2, <1>3, OnesSumAfterIs
<1> QED
  BY <1>1, <1>2, <1>3, <1>4 DEF InternetChecksum

-----------------------------------------------------------------------------
\* A sequence of bytes that fits a datagram.
Datagram == {b \in Seq(Octet) : Len(b) <= 65527}

LEMMA DatagramSum ==
    ASSUME NEW o, NEW b \in Datagram
    PROVE  SumOfWords(o, b) \in Nat /\ SumOfWords(o, b) < 2147483648
<1>1. b \in Seq(Octet) /\ Len(b) \in Nat /\ Len(b) <= 65527
  BY DEF Datagram
<1>2. (Len(b) + 1) \div 2 <= 32764 /\ (Len(b) + 1) \div 2 \in Int
  BY <1>1
<1>3. SumOfWords(o, b) \in Nat /\ SumOfWords(o, b) <= 65535 * ((Len(b) + 1) \div 2)
  BY <1>1, SumRange
<1> QED
  BY <1>2, <1>3

LEMMA CksumIs ==
    ASSUME NEW o, NEW b \in Datagram
    PROVE  /\ in_cksum(o, b) = 65535 - Residue(SumOfWords(o, b))
           /\ in_cksum(o, b) = InternetChecksum(o, b)
           /\ in_cksum(o, b) \in Nat /\ in_cksum(o, b) <= 65535
<1>1. SumOfWords(o, b) \in Nat /\ SumOfWords(o, b) < 2147483648
  BY DatagramSum
<1>2. in_cksum(o, b) = 65535 - Residue(SumOfWords(o, b))
  BY <1>1, FoldsAre
<1>4. in_cksum(o, b) = InternetChecksum(o, b)
  BY <1>2, InternetIs DEF Datagram
<1>3. Residue(SumOfWords(o, b)) \in Nat /\ Residue(SumOfWords(o, b)) <= 65535
  BY <1>1, ResidueIs
<1> QED
  BY <1>2, <1>3, <1>4

\* The two bytes of a number.
LEMMA SwappedIs ==
    ASSUME NEW n \in Nat, n <= 65535
    PROVE  \E h \in Nat, l \in Nat :
             /\ h <= 255 /\ l <= 255
             /\ n = 256 * h + l /\ Swapped(n) = 256 * l + h
<1>1. PICK h \in Int, l \in Int : h = n \div 256 /\ l = n % 256
  OBVIOUS
<1>2. n = 256 * h + l /\ 0 <= l /\ l <= 255
  BY <1>1
<1>3. h \in Nat /\ h <= 255 /\ l \in Nat
  BY <1>2
<1>4. Swapped(n) = 256 * l + h
  BY <1>1 DEF Swapped
<1> QED
  BY <1>2, <1>3, <1>4

LEMMA BytesOf ==
    ASSUME NEW h \in Nat, NEW l \in Nat, h <= 255, l <= 255
    PROVE  (256 * h + l) \div 256 = h /\ (256 * h + l) % 256 = l
OBVIOUS

LEMMA SwappedRange ==
    ASSUME NEW n \in Nat, n <= 65535
    PROVE  /\ Swapped(n) \in Nat /\ Swapped(n) <= 65535
           /\ Swapped(n) = 0 <=> n = 0
           /\ Swapped(65535 - n) = 65535 - Swapped(n)
<1>1. PICK h \in Nat, l \in Nat : /\ h <= 255 /\ l <= 255
                                  /\ n = 256 * h + l /\ Swapped(n) = 256 * l + h
  BY SwappedIs
<1>2. PICK k \in Nat, m \in Nat : k = 255 - h /\ m = 255 - l
  BY <1>1
<1>3. 65535 - n = 256 * k + m /\ k <= 255 /\ m <= 255
  BY <1>1, <1>2
<1>4. Swapped(256 * k + m) = 256 * m + k
  BY <1>3, BytesOf DEF Swapped
<1>5. Swapped(65535 - n) = 256 * m + k
  BY <1>3, <1>4
<1>6. 256 * m + k = 65535 - Swapped(n)
  BY <1>1, <1>2
<1> QED
  BY <1>1, <1>5, <1>6

\* Machines of the two byte orders find the same checksum, each in its own order.
LEMMA CksumTurned ==
    ASSUME NEW b \in Datagram
    PROVE  in_cksum("big", b) = Swapped(in_cksum("little", b))
<1>0. b \in Seq(Octet) /\ "big" \in Orders /\ "little" \in Orders /\ "big" # "little"
  BY DEF Datagram, Orders
<1>1. PICK s \in Nat, t \in Nat : s = SumOfWords("big", b) /\ t = SumOfWords("little", b)
  BY <1>0, SumRange
<1>2. Turned(s, t) /\ Turned(t, s)
  BY <1>0, <1>1, SumTurned
<1>3. PICK e \in Nat : s + 65535 * e = 256 * t
  BY <1>2 DEF Turned
<1>4. PICK d \in Nat : t + 65535 * d = 256 * s
  BY <1>2 DEF Turned
<1>5. s = 0 <=> t = 0
  BY <1>3, <1>4
<1>6. PICK r \in Nat : r = Residue(t) /\ r <= 65535 /\ (r = 0 <=> t = 0) /\ Reduces(t, r)
  BY ResidueIs
<1>7. PICK q \in Int : t = 65535 * q + r
  BY <1>6 DEF Reduces
<1>8. PICK h \in Nat, l \in Nat : /\ h <= 255 /\ l <= 255
                                  /\ r = 256 * h + l /\ Swapped(r) = 256 * l + h
  <2>1. r \in Nat /\ r <= 65535
    BY <1>6
  <2> QED
    BY ONLY <2>1, SwappedIs
<1>9. PICK u \in Nat : u = 256 * l + h /\ u = Swapped(r)
  BY <1>8
<1>10. PICK k \in Int : k = 256 * q + h - e
  OBVIOUS
<1>11. s = 65535 * k + u
  BY <1>3, <1>7, <1>8, <1>9, <1>10
<1>12. u <= 65535 /\ (u = 0 <=> s = 0)
  BY <1>5, <1>6, <1>8, <1>9
<1>13. Residue(s) = u
  <2>1. Reduces(s, u)
    BY <1>11 DEF Reduces
  <2> QED
    BY <1>12, <2>1, ResidueOnly
<1>14. in_cksum("big", b) = 65535 - u /\ in_cksum("little", b) = 65535 - r
  BY <1>1, <1>6, <1>13, CksumIs
<1>15. Swapped(65535 - r) = 65535 - u
  <2>1. r \in Nat /\ r <= 65535
    BY <1>6
  <2>2. Swapped(65535 - r) = 65535 - Swapped(r)
    BY ONLY <2>1, SwappedRange
  <2> QED
    BY <1>9, <2>2
<1> QED
  BY <1>14, <1>15

\* One byte inverted changes the checksum, whatever the byte is.
LEMMA InvertedIs ==
    ASSUME NEW a \in Octet
    PROVE  255 - a \in Octet
BY OctetIs, SMT

LEMMA ShareOfInverted ==
    ASSUME NEW o, NEW i \in Nat, NEW a \in Octet
    PROVE  /\ 255 - a \in Octet
           /\ Share(o, i, (255 - a) - a) \in Int /\ Share(o, i, (255 - a) - a) # 0
           /\ Share(o, i, (255 - a) - a) < 65535 /\ -65535 < Share(o, i, (255 - a) - a)
<1>1. a \in Nat /\ a <= 255
  BY OctetIs
<1>2. PICK d \in Int : d = (255 - a) - a
  BY <1>1
<1>3. d # 0 /\ -255 <= d /\ d <= 255
  BY <1>1, <1>2
<1>4. 255 - a \in Octet
  BY <1>1, OctetIs
<1>5. Share(o, i, d) = d \/ Share(o, i, d) = 256 * d
  BY DEF Share
<1> QED
  BY <1>2, <1>3, <1>4, <1>5

LEMMA ResidueApart ==
    ASSUME NEW s \in Nat, NEW t \in Nat, NEW d \in Int, t = s + d,
           d # 0, d < 65535, -65535 < d
    PROVE  Residue(s) # Residue(t)
<1> SUFFICES ASSUME Residue(s) = Residue(t) PROVE FALSE
  OBVIOUS
<1>1. PICK r \in Nat : r = Residue(s)
  BY ResidueIs
<1>2. PICK p \in Int : s = 65535 * p + r
  BY <1>1, ResidueIs DEF Reduces
<1>3. PICK q \in Int : t = 65535 * q + r
  BY <1>1, ResidueIs DEF Reduces
<1>4. PICK k \in Int : k = q - p
  OBVIOUS
<1>5. d = 65535 * k
  BY <1>2, <1>3, <1>4
<1> QED
  BY <1>5

LEMMA CksumOfInverted ==
    ASSUME NEW o \in Orders, NEW b \in Datagram, NEW i \in 1 .. Len(b)
    PROVE  /\ [b EXCEPT ![i] = 255 - b[i]] \in Datagram
           /\ in_cksum(o, [b EXCEPT ![i] = 255 - b[i]]) # in_cksum(o, b)
<1>1. PICK a \in Octet : a = b[i]
  BY DEF Datagram
<1>2. PICK v \in Octet : v = 255 - a
  BY InvertedIs, SMT
<1>3. PICK c : c = [b EXCEPT ![i] = v]
  OBVIOUS
<1>4. b \in Seq(Octet) /\ i \in Nat
  BY DEF Datagram
<1>5. /\ c \in Seq(Octet) /\ Len(c) = Len(b)
      /\ SumOfWords(o, c) = SumOfWords(o, b) + Share(o, i, v - a)
  BY <1>1, <1>3, <1>4, SumChange
<1>6. c \in Datagram
  BY <1>5 DEF Datagram
<1>7. PICK d \in Int : d = Share(o, i, v - a) /\ d # 0 /\ d < 65535 /\ -65535 < d
  BY <1>2, <1>4, ShareOfInverted
<1>8. PICK s \in Nat, t \in Nat : s = SumOfWords(o, b) /\ t = SumOfWords(o, c)
  BY <1>4, <1>5, SumRange
<1>9. Residue(s) # Residue(t)
  BY <1>5, <1>7, <1>8, ResidueApart
<1>10. in_cksum(o, b) = 65535 - Residue(s) /\ in_cksum(o, c) = 65535 - Residue(t)
  BY <1>6, <1>8, CksumIs
<1>11. Residue(s) \in Nat /\ Residue(t) \in Nat
  BY ResidueIs
<1>12. in_cksum(o, c) # in_cksum(o, b)
  BY <1>9, <1>10, <1>11
<1> QED
  BY <1>1, <1>2, <1>3, <1>6, <1>12

-----------------------------------------------------------------------------
\* When a word more makes the sum full, which is when the checksum is 0.
LEMMA FullWhen ==
    ASSUME NEW s \in Nat, NEW n \in Nat, n <= 65535
    PROVE  Residue(s + n) = 65535
               <=> (Residue(s) + n = 65535 \/ Residue(s) + n = 131070)
<1>1. PICK r \in Nat : r = Residue(s) /\ r <= 65535 /\ (r = 0 <=> s = 0)
  BY ResidueIs
<1>2. PICK q \in Int : s = 65535 * q + r
  BY <1>1, ResidueIs DEF Reduces
<1>3. PICK t \in Nat : t = s + n
  OBVIOUS
<1>4. CASE r + n <= 65535
  <2>1. PICK u \in Nat : u = r + n
    OBVIOUS
  <2>2. t = 65535 * q + u /\ u <= 65535 /\ (u = 0 <=> t = 0)
    <3>1. t = 65535 * q + u /\ u <= 65535
      BY <1>2, <1>3, <1>4, <2>1
    <3>2. u = 0 <=> r = 0 /\ n = 0
      BY <2>1
    <3>3. t = 0 <=> s = 0 /\ n = 0
      BY <1>3
    <3> QED
      BY <1>1, <3>1, <3>2, <3>3
  <2>3. Reduces(t, u)
    BY <2>2 DEF Reduces
  <2>4. Residue(t) = u
    BY <2>2, <2>3, ResidueOnly
  <2> QED
    BY <1>1, <1>3, <1>4, <2>1, <2>4
<1>5. CASE ~(r + n <= 65535)
  <2>1. PICK u \in Nat : u = (r + n) - 65535
    BY <1>5
  <2>2. q + 1 \in Int /\ t = 65535 * (q + 1) + u /\ u <= 65535 /\ u # 0 /\ t # 0
    <3>0. u <= 65535 /\ u # 0
      BY <1>1, <1>5, <2>1
    <3>1. t = 65535 * (q + 1) + u /\ u <= 65535 /\ u # 0
      BY <1>2, <1>3, <2>1, <3>0
    <3>2. t # 0
      BY <1>1, <1>3, <1>5
    <3> QED
      BY <3>1, <3>2
  <2>3. Reduces(t, u)
    BY <2>2 DEF Reduces
  <2>4. Residue(t) = u
    BY <2>2, <2>3, ResidueOnly
  <2> QED
    BY <1>1, <1>3, <1>5, <2>1, <2>4
<1> QED
  BY <1>4, <1>5

\* A word put where there was none adds itself to the sum.
LEMMA FilledSum ==
    ASSUME NEW o \in Orders, NEW b \in Datagram, NEW at \in Nat, at % 2 = 1,
           at \in 1 .. Len(b), at + 1 \in 1 .. Len(b), b[at] = 0, b[at + 1] = 0,
           NEW x \in Octet, NEW y \in Octet
    PROVE  /\ [b EXCEPT ![at] = x, ![at + 1] = y] \in Datagram
           /\ Len([b EXCEPT ![at] = x, ![at + 1] = y]) = Len(b)
           /\ SumOfWords(o, [b EXCEPT ![at] = x, ![at + 1] = y])
                  = SumOfWords(o, b) + Word(o, x, y)
<1>1. PICK c : c = [b EXCEPT ![at] = x]
  OBVIOUS
<1>2. PICK d : d = [c EXCEPT ![at + 1] = y]
  OBVIOUS
<1>3. d = [b EXCEPT ![at] = x, ![at + 1] = y]
  BY <1>1, <1>2
<1>4. b \in Seq(Octet)
  BY DEF Datagram
<1>5. PICK u \in Nat, v \in Nat : u = x /\ v = y
  BY OctetIs
<1>6. /\ c \in Seq(Octet) /\ Len(c) = Len(b)
      /\ SumOfWords(o, c) = SumOfWords(o, b) + Share(o, at, x - 0)
  <2>1. /\ [b EXCEPT ![at] = x] \in Seq(Octet) /\ Len([b EXCEPT ![at] = x]) = Len(b)
        /\ SumOfWords(o, [b EXCEPT ![at] = x]) = SumOfWords(o, b) + Share(o, at, x - b[at])
    BY <1>4, SumChange
  <2> QED
    BY <1>1, <2>1
<1>7. c[at + 1] = 0 /\ at + 1 \in 1 .. Len(c)
  BY <1>1, <1>4, <1>6
<1>8. /\ d \in Seq(Octet) /\ Len(d) = Len(c)
      /\ SumOfWords(o, d) = SumOfWords(o, c) + Share(o, at + 1, y - 0)
  <2>1. /\ [c EXCEPT ![at + 1] = y] \in Seq(Octet) /\ Len([c EXCEPT ![at + 1] = y]) = Len(c)
        /\ SumOfWords(o, [c EXCEPT ![at + 1] = y])
               = SumOfWords(o, c) + Share(o, at + 1, y - c[at + 1])
    BY <1>6, <1>7, SumChange
  <2> QED
    BY <1>2, <1>7, <2>1
<1>9. d \in Datagram
  BY <1>6, <1>8 DEF Datagram
<1>10. (at + 1) % 2 # 1 /\ x - 0 = u /\ y - 0 = v
  BY <1>5
<1>11. PICK s \in Nat : s = SumOfWords(o, b)
  BY <1>4, SumRange
<1>12. SumOfWords(o, d) = s + Word(o, x, y)
  <2>1. CASE o = "little"
    <3>1. Share(o, at, u) = u /\ Share(o, at + 1, v) = 256 * v /\ Word(o, x, y) = u + 256 * v
      BY <1>5, <1>10, <2>1 DEF Share, Word
    <3> QED
      BY <1>6, <1>8, <1>10, <1>11, <3>1
  <2>2. CASE o # "little"
    <3>1. Share(o, at, u) = 256 * u /\ Share(o, at + 1, v) = v /\ Word(o, x, y) = 256 * u + v
      BY <1>5, <1>10, <2>2 DEF Share, Word
    <3> QED
      BY <1>6, <1>8, <1>10, <1>11, <3>1
  <2> QED
    BY <2>1, <2>2
<1> QED
  BY <1>3, <1>6, <1>8, <1>9, <1>11, <1>12

\* A checksum put in its place in this machine's order makes the sum full; one put
\* the other way round does so only if its two bytes are the same.
LEMMA FullWithChecksum ==
    ASSUME NEW o \in Orders, NEW b \in Datagram, NEW w \in Datagram,
           NEW n \in Nat, n <= 65535, SumOfWords(o, w) = SumOfWords(o, b) + n
    PROVE  /\ n = in_cksum(o, b) => in_cksum(o, w) = 0
           /\ n = Swapped(in_cksum(o, b)) =>
                (in_cksum(o, w) = 0 <=> Swapped(in_cksum(o, b)) = in_cksum(o, b))
<1>1. PICK s \in Nat : s = SumOfWords(o, b)
  BY DatagramSum
<1>2. PICK r \in Nat : r = Residue(s) /\ r <= 65535
  BY ResidueIs
<1>3. in_cksum(o, b) = 65535 - r
  BY <1>1, <1>2, CksumIs
<1>4. PICK t \in Nat : t = Residue(s + n) /\ t <= 65535
  <2>1. s + n \in Nat
    OBVIOUS
  <2> QED
    BY <2>1, ResidueIs
<1>5. in_cksum(o, w) = 65535 - t
  BY <1>1, <1>4, CksumIs
<1>6. t = 65535 <=> (r + n = 65535 \/ r + n = 131070)
  <2>1. Residue(s + n) = 65535 <=> (Residue(s) + n = 65535 \/ Residue(s) + n = 131070)
    BY FullWhen
  <2> QED
    BY <1>2, <1>4, <2>1
<1>7. ASSUME n = in_cksum(o, b) PROVE in_cksum(o, w) = 0
  BY <1>2, <1>3, <1>5, <1>6, <1>7
<1>8. ASSUME n = Swapped(in_cksum(o, b))
      PROVE  in_cksum(o, w) = 0 <=> Swapped(in_cksum(o, b)) = in_cksum(o, b)
  <2>1. PICK u \in Nat : /\ u = Swapped(r) /\ u <= 65535 /\ (u = 0 <=> r = 0)
                         /\ Swapped(65535 - r) = 65535 - u
    <3>0. r \in Nat /\ r <= 65535
      BY <1>2
    <3>1. /\ Swapped(r) \in Nat /\ Swapped(r) <= 65535 /\ (Swapped(r) = 0 <=> r = 0)
          /\ Swapped(65535 - r) = 65535 - Swapped(r)
      BY ONLY <3>0, SwappedRange
    <3> QED
      BY <3>1
  <2>2. n = 65535 - u
    BY <1>3, <1>8, <2>1
  <2>3. in_cksum(o, w) = 0 <=> r = u
    BY <1>2, <1>5, <1>4, <1>6, <2>1, <2>2
  <2> QED
    BY <1>2, <1>3, <2>1, <2>3
<1> QED
  BY <1>7, <1>8

-----------------------------------------------------------------------------
(* Packets: seven bytes, then the payload. *)

LEMMA FourAt ==
    ASSUME NEW S, NEW a \in S, NEW b \in S, NEW c \in S, NEW d \in S
    PROVE  /\ <<a, b, c, d>> \in Seq(S) /\ Len(<<a, b, c, d>>) = 4
           /\ <<a, b, c, d>>[1] = a /\ <<a, b, c, d>>[2] = b
           /\ <<a, b, c, d>>[3] = c /\ <<a, b, c, d>>[4] = d
OBVIOUS

LEMMA ThreeAt ==
    ASSUME NEW S, NEW a \in S, NEW b \in S, NEW c \in S
    PROVE  /\ <<a, b, c>> \in Seq(S) /\ Len(<<a, b, c>>) = 3
           /\ <<a, b, c>>[1] = a /\ <<a, b, c>>[2] = b /\ <<a, b, c>>[3] = c
OBVIOUS

LEMMA TwoAt ==
    ASSUME NEW S, NEW a \in S, NEW b \in S
    PROVE  /\ <<a, b>> \in Seq(S) /\ Len(<<a, b>>) = 2
           /\ <<a, b>>[1] = a /\ <<a, b>>[2] = b
OBVIOUS

LEMMA OneAt ==
    ASSUME NEW S, NEW a \in S
    PROVE  <<a>> \in Seq(S) /\ Len(<<a>>) = 1 /\ <<a>>[1] = a
OBVIOUS

\* What a packet is, byte by byte.
IsPacket(p, four, x, y, f, buf) ==
    /\ p \in Seq(Octet) /\ Len(p) = 7 + Len(buf)
    /\ \A i \in 1 .. 4 : p[i] = four[i]
    /\ p[5] = x /\ p[6] = y /\ p[7] = f
    /\ \A j \in 1 .. Len(buf) : p[7 + j] = buf[j]

LEMMA Joined ==
    ASSUME NEW s \in Seq(Octet), NEW t \in Seq(Octet)
    PROVE  /\ s \o t \in Seq(Octet) /\ Len(s \o t) = Len(s) + Len(t)
           /\ \A i \in 1 .. Len(s) : (s \o t)[i] = s[i]
           /\ \A j \in 1 .. Len(t) : (s \o t)[Len(s) + j] = t[j]
<1> HIDE DEF Octet
<1> QED
  BY ConcatAt

LEMMA JoinedAs ==
    ASSUME NEW s \in Seq(Octet), NEW t \in Seq(Octet), NEW u, u = s \o t
    PROVE  /\ u \in Seq(Octet) /\ Len(u) = Len(s) + Len(t)
           /\ \A i \in 1 .. Len(s) : u[i] = s[i]
           /\ \A j \in 1 .. Len(t) : u[Len(s) + j] = t[j]
<1> HIDE DEF Octet
<1>1. /\ s \o t \in Seq(Octet) /\ Len(s \o t) = Len(s) + Len(t)
      /\ \A i \in 1 .. Len(s) : (s \o t)[i] = s[i]
      /\ \A j \in 1 .. Len(t) : (s \o t)[Len(s) + j] = t[j]
  BY Joined
<1> QED
  BY <1>1, Zenon

LEMMA PacketUnsummed ==
    ASSUME NEW four \in Seq(Octet), Len(four) = 4, NEW x \in Octet, NEW y \in Octet, NEW f \in Octet,
           NEW buf \in Seq(Octet)
    PROVE  IsPacket(four \o <<x, y, f>> \o buf, four, x, y, f, buf)
<1>0. PICK t : t = <<x, y, f>>
  OBVIOUS
<1>1. t \in Seq(Octet) /\ Len(t) = 3 /\ t[1] = x /\ t[2] = y /\ t[3] = f
  BY <1>0, ThreeAt
<1>2. PICK u : u = four \o t
  OBVIOUS
<1>3. /\ u \in Seq(Octet) /\ Len(u) = 7
      /\ \A i \in 1 .. 4 : u[i] = four[i]
      /\ \A j \in 1 .. 3 : u[4 + j] = t[j]
  <2>1. /\ u \in Seq(Octet) /\ Len(u) = Len(four) + Len(t)
        /\ \A i \in 1 .. Len(four) : u[i] = four[i]
        /\ \A j \in 1 .. Len(t) : u[Len(four) + j] = t[j]
    <3>1. four \in Seq(Octet) /\ t \in Seq(Octet)
      BY <1>1
    <3> QED
      BY ONLY <3>1, <1>2, JoinedAs
  <2> QED
    BY <1>1, <2>1
<1>4. u[5] = x /\ u[6] = y /\ u[7] = f
  <2>1. u[4 + 1] = t[1] /\ u[4 + 2] = t[2] /\ u[4 + 3] = t[3]
    BY <1>3
  <2> QED
    BY <1>1, <2>1
<1>5. PICK p : p = u \o buf
  OBVIOUS
<1>6. /\ p \in Seq(Octet) /\ Len(p) = 7 + Len(buf)
      /\ \A i \in 1 .. 7 : p[i] = u[i]
      /\ \A j \in 1 .. Len(buf) : p[7 + j] = buf[j]
  <2>1. /\ p \in Seq(Octet) /\ Len(p) = Len(u) + Len(buf)
        /\ \A i \in 1 .. Len(u) : p[i] = u[i]
        /\ \A j \in 1 .. Len(buf) : p[Len(u) + j] = buf[j]
    <3>1. u \in Seq(Octet) /\ buf \in Seq(Octet)
      BY <1>3
    <3> QED
      BY ONLY <3>1, <1>5, JoinedAs
  <2> QED
    BY <1>3, <2>1
<1> QED
  BY <1>0, <1>1, <1>2, <1>3, <1>4, <1>5, <1>6 DEF IsPacket

LEMMA PacketSummed ==
    ASSUME NEW four \in Seq(Octet), Len(four) = 4, NEW x \in Octet, NEW y \in Octet, NEW f \in Octet,
           NEW buf \in Seq(Octet)
    PROVE  IsPacket(four \o <<x, y>> \o <<f>> \o buf, four, x, y, f, buf)
<1>0. PICK t : t = <<x, y>>
  OBVIOUS
<1>1. t \in Seq(Octet) /\ Len(t) = 2 /\ t[1] = x /\ t[2] = y
  BY <1>0, TwoAt
<1>2. PICK u : u = four \o t
  OBVIOUS
<1>3. /\ u \in Seq(Octet) /\ Len(u) = 6
      /\ \A i \in 1 .. 4 : u[i] = four[i]
      /\ \A j \in 1 .. 2 : u[4 + j] = t[j]
  <2>1. /\ u \in Seq(Octet) /\ Len(u) = Len(four) + Len(t)
        /\ \A i \in 1 .. Len(four) : u[i] = four[i]
        /\ \A j \in 1 .. Len(t) : u[Len(four) + j] = t[j]
    <3>1. four \in Seq(Octet) /\ t \in Seq(Octet)
      BY <1>1
    <3> QED
      BY ONLY <3>1, <1>2, JoinedAs
  <2> QED
    BY <1>1, <2>1
<1>4. u[5] = x /\ u[6] = y
  <2>1. u[4 + 1] = t[1] /\ u[4 + 2] = t[2]
    BY <1>3
  <2> QED
    BY <1>1, <2>1
<1>5. PICK o \in Seq(Octet) : o = <<f>> /\ Len(o) = 1 /\ o[1] = f
  BY OneAt
<1>6. PICK v : v = u \o o
  OBVIOUS
<1>7. /\ v \in Seq(Octet) /\ Len(v) = 7
      /\ \A i \in 1 .. 6 : v[i] = u[i]
      /\ \A j \in 1 .. 1 : v[6 + j] = o[j]
  <2>1. /\ v \in Seq(Octet) /\ Len(v) = Len(u) + Len(o)
        /\ \A i \in 1 .. Len(u) : v[i] = u[i]
        /\ \A j \in 1 .. Len(o) : v[Len(u) + j] = o[j]
    <3>1. u \in Seq(Octet) /\ o \in Seq(Octet)
      BY <1>3
    <3> QED
      BY <1>6, <3>1, Joined
  <2> QED
    BY <1>3, <1>5, <2>1
<1>8. v[7] = f
  <2>1. v[6 + 1] = o[1]
    BY <1>7
  <2> QED
    BY <1>5, <2>1
<1>9. PICK p : p = v \o buf
  OBVIOUS
<1>10. /\ p \in Seq(Octet) /\ Len(p) = 7 + Len(buf)
       /\ \A i \in 1 .. 7 : p[i] = v[i]
       /\ \A j \in 1 .. Len(buf) : p[7 + j] = buf[j]
  <2>1. /\ p \in Seq(Octet) /\ Len(p) = Len(v) + Len(buf)
        /\ \A i \in 1 .. Len(v) : p[i] = v[i]
        /\ \A j \in 1 .. Len(buf) : p[Len(v) + j] = buf[j]
    <3>1. v \in Seq(Octet)
      BY <1>7
    <3> QED
      BY <1>9, <3>1, Joined
  <2> QED
    BY <1>7, <2>1
<1>11. \A i \in 1 .. 4 : i \in 1 .. 7 /\ i \in 1 .. 6
  OBVIOUS
<1>12. \A i \in 1 .. 4 : p[i] = four[i]
  BY <1>3, <1>7, <1>10, <1>11
<1>13. p[5] = x /\ p[6] = y /\ p[7] = f
  BY <1>4, <1>7, <1>8, <1>10
<1>14. p = four \o <<x, y>> \o <<f>> \o buf
  BY <1>0, <1>1, <1>2, <1>5, <1>6, <1>9
<1>15. IsPacket(p, four, x, y, f, buf)
  BY <1>10, <1>12, <1>13 DEF IsPacket
<1> QED
  BY <1>14, <1>15

\* Nothing else has those bytes.
LEMMA OnePacket ==
    ASSUME NEW p, NEW q, NEW four, NEW x, NEW y, NEW f, NEW buf \in Seq(Octet),
           IsPacket(p, four, x, y, f, buf), IsPacket(q, four, x, y, f, buf)
    PROVE  p = q
<1>1. PICK n \in Nat : n = Len(buf)
  OBVIOUS
<1>2. p \in Seq(Octet) /\ q \in Seq(Octet) /\ Len(p) = 7 + n /\ Len(q) = 7 + n
  BY <1>1 DEF IsPacket
<1>3. ASSUME NEW i \in 1 .. 7 + n PROVE p[i] = q[i]
  <2>1. CASE i <= 7
    <3>1. i \in 1 .. 4 \/ i = 5 \/ i = 6 \/ i = 7
      BY <1>1, <2>1
    <3> QED
      BY <3>1 DEF IsPacket
  <2>2. CASE ~(i <= 7)
    <3>1. PICK j \in 1 .. n : i = 7 + j
      <4>1. i - 7 \in 1 .. n /\ i = 7 + (i - 7)
        BY <1>1, <2>2
      <4> QED
        BY <4>1
    <3> QED
      BY <1>1, <3>1 DEF IsPacket
  <2> QED
    BY <2>1, <2>2
<1> QED
  BY <1>2, <1>3, SeqEqual

-----------------------------------------------------------------------------
(* What the two checks say of a packet. *)

Zeroed(p) == [p EXCEPT ![5] = 0, ![6] = 0]

\* Two changes, and taking them back.
LEMMA ChangedTwice ==
    ASSUME NEW S, NEW p \in Seq(S), NEW i \in 1 .. Len(p), NEW j \in 1 .. Len(p), i # j,
           NEW x \in S, NEW y \in S
    PROVE  [[p EXCEPT ![i] = x, ![j] = y] EXCEPT ![i] = p[i], ![j] = p[j]] = p
<1> DEFINE q == [[p EXCEPT ![i] = x, ![j] = y] EXCEPT ![i] = p[i], ![j] = p[j]]
<1>1. DOMAIN p = 1 .. Len(p) /\ p = [k \in 1 .. Len(p) |-> p[k]]
  OBVIOUS
<1>2. DOMAIN q = 1 .. Len(p) /\ q = [k \in 1 .. Len(p) |-> q[k]]
  BY <1>1
<1>3. \A k \in 1 .. Len(p) : q[k] = p[k]
  BY <1>1
<1> HIDE DEF q
<1>4. q = p
  BY <1>1, <1>2, <1>3
<1> QED
  BY <1>4 DEF q

LEMMA ZeroedMoved ==
    ASSUME NEW p, NEW k, k # 5, k # 6, NEW v
    PROVE  Zeroed([p EXCEPT ![k] = v]) = [Zeroed(p) EXCEPT ![k] = v]
BY DEF Zeroed

LEMMA ZeroedLost ==
    ASSUME NEW p, NEW v
    PROVE  /\ Zeroed([p EXCEPT ![5] = v]) = Zeroed(p)
           /\ Zeroed([p EXCEPT ![6] = v]) = Zeroed(p)
BY DEF Zeroed

LEMMA SwappedApart ==
    ASSUME NEW m \in Nat, NEW n \in Nat, m <= 65535, n <= 65535, Swapped(m) = Swapped(n)
    PROVE  m = n
<1>1. PICK h \in Nat, l \in Nat : h <= 255 /\ l <= 255 /\ m = 256 * h + l /\ Swapped(m) = 256 * l + h
  BY SwappedIs
<1>2. PICK g \in Nat, k \in Nat : g <= 255 /\ k <= 255 /\ n = 256 * g + k /\ Swapped(n) = 256 * k + g
  BY SwappedIs
<1>3. 256 * l + h = 256 * k + g
  BY <1>1, <1>2
<1>4. l = k
  BY <1>1, <1>2, <1>3
<1>5. h = g
  BY <1>1, <1>2, <1>3, <1>4
<1> QED
  BY <1>1, <1>2, <1>4, <1>5

\* The number that sendData puts into the header, and verifyData compares it with.
NumberFor(o, p) == ntohs(o, in_cksum(o, Zeroed(p)))

\* A packet as sendData leaves it.
Summed(o, p) ==
    /\ p \in Datagram /\ 7 <= Len(p)
    /\ Word(o, p[5], p[6]) = NumberFor(o, p)

LEMMA SwappedSame ==
    ASSUME NEW n \in Nat, n <= 65535, NEW a \in Nat, NEW b \in Nat, a <= 255, b <= 255,
           Swapped(n) = a + 256 * b
    PROVE  Swapped(n) = n <=> a = b
<1>1. PICK h \in Nat, l \in Nat : /\ h <= 255 /\ l <= 255
                                  /\ n = 256 * h + l /\ Swapped(n) = 256 * l + h
  BY SwappedIs
<1>2. 256 * l + h = a + 256 * b
  BY <1>1
<1>3. l = b
  BY <1>1, <1>2
<1>4. h = a
  BY <1>1, <1>2, <1>3
<1> QED
  BY <1>1, <1>3, <1>4

LEMMA ZeroedIs ==
    ASSUME NEW p \in Datagram, 7 <= Len(p)
    PROVE  /\ Zeroed(p) \in Datagram /\ Len(Zeroed(p)) = Len(p)
           /\ Zeroed(p)[5] = 0 /\ Zeroed(p)[6] = 0
           /\ 5 \in 1 .. Len(p) /\ 6 \in 1 .. Len(p)
           /\ p[5] \in Octet /\ p[6] \in Octet
           /\ \A i \in 1 .. Len(p) : i # 5 /\ i # 6 => Zeroed(p)[i] = p[i]
<1>1. /\ p \in Seq(Octet) /\ Len(p) \in Nat /\ Len(p) <= 65527 /\ DOMAIN p = 1 .. Len(p)
      /\ \A i \in 1 .. Len(p) : p[i] \in Octet
  BY DEF Datagram
<1>2. 5 \in 1 .. Len(p) /\ 6 \in 1 .. Len(p) /\ 0 \in Octet
  BY <1>1 DEF Octet
<1>3. Zeroed(p) \in Seq(Octet) /\ Len(Zeroed(p)) = Len(p)
  <2> HIDE DEF Octet
  <2> QED
    BY <1>1, <1>2 DEF Zeroed
<1> QED
  BY <1>1, <1>2, <1>3 DEF Zeroed, Datagram

LEMMA NumberIs ==
    ASSUME NEW o \in Orders, NEW p \in Datagram, 7 <= Len(p)
    PROVE  /\ NumberFor(o, p) = in_cksum("big", Zeroed(p))
           /\ NumberFor(o, p) \in Nat /\ NumberFor(o, p) <= 65535
<1>1. Zeroed(p) \in Datagram
  BY ZeroedIs
<1>2. in_cksum("big", Zeroed(p)) = Swapped(in_cksum("little", Zeroed(p)))
  BY <1>1, CksumTurned
<1>3. in_cksum("big", Zeroed(p)) \in Nat /\ in_cksum("big", Zeroed(p)) <= 65535
  BY <1>1, CksumIs
<1>4. o = "big" \/ o = "little"
  BY DEF Orders
<1> QED
  BY <1>2, <1>3, <1>4 DEF NumberFor, ntohs

\* verifyData on the machine it was sent from, or on another of its order.
LEMMA IntactPasses ==
    ASSUME NEW o \in Orders, NEW p, Summed(o, p)
    PROVE  NumberFor(o, p) - Word(o, p[5], p[6]) = 0
<1>1. p \in Datagram /\ 7 <= Len(p) /\ Word(o, p[5], p[6]) = NumberFor(o, p)
  BY DEF Summed
<1>2. NumberFor(o, p) \in Nat
  BY <1>1, NumberIs
<1> QED
  BY <1>1, <1>2

LEMMA NumbersApart ==
    ASSUME NEW o \in Orders, NEW p \in Datagram, NEW q \in Datagram,
           7 <= Len(p), 7 <= Len(q), in_cksum(o, Zeroed(p)) # in_cksum(o, Zeroed(q))
    PROVE  NumberFor(o, p) # NumberFor(o, q)
<1>1. Zeroed(p) \in Datagram /\ Zeroed(q) \in Datagram
  BY ZeroedIs
<1>2. PICK m \in Nat, n \in Nat : m = in_cksum(o, Zeroed(p)) /\ n = in_cksum(o, Zeroed(q))
                                  /\ m <= 65535 /\ n <= 65535
  BY <1>1, CksumIs
<1>3. m # n => Swapped(m) # Swapped(n)
  <2>1. m \in Nat /\ n \in Nat /\ m <= 65535 /\ n <= 65535
    BY <1>2
  <2> QED
    BY <2>1, SwappedApart
<1> QED
  BY <1>2, <1>3 DEF NumberFor, ntohs

LEMMA WordsApart ==
    ASSUME NEW o, NEW a \in Octet, NEW b \in Octet, NEW c \in Octet, NEW d \in Octet,
           Word(o, a, b) = Word(o, c, d)
    PROVE  a = c /\ b = d
<1>1. a \in Nat /\ b \in Nat /\ c \in Nat /\ d \in Nat /\ a <= 255 /\ b <= 255 /\ c <= 255 /\ d <= 255
  BY OctetIs
<1> QED
  BY <1>1 DEF Word

\* One byte inverted shows, wherever it is.
LEMMA InvertedFails ==
    ASSUME NEW o \in Orders, NEW p, Summed(o, p), NEW q,
           \E i \in 1 .. Len(p) : q = [p EXCEPT ![i] = 255 - p[i]]
    PROVE  NumberFor(o, q) - Word(o, q[5], q[6]) # 0
<1>0. PICK i \in 1 .. Len(p) : q = [p EXCEPT ![i] = 255 - p[i]]
  OBVIOUS
<1>1. p \in Datagram /\ 7 <= Len(p) /\ Word(o, p[5], p[6]) = NumberFor(o, p)
  BY DEF Summed
<1>2. /\ p \in Seq(Octet) /\ Len(p) \in Nat /\ DOMAIN p = 1 .. Len(p)
      /\ \A j \in 1 .. Len(p) : p[j] \in Octet
      /\ i \in Nat
  BY <1>1 DEF Datagram
<1>3. q \in Datagram /\ Len(q) = Len(p)
  <2>1. q \in Datagram
    <3>1. [p EXCEPT ![i] = 255 - p[i]] \in Datagram
      <4>1. o \in Orders /\ p \in Datagram /\ i \in 1 .. Len(p)
        BY <1>1
      <4> QED
        BY ONLY <4>1, CksumOfInverted
    <3> QED
      BY <1>0, <3>1
  <2>2. DOMAIN q = DOMAIN p
    BY <1>0
  <2> QED
    BY <1>2, <2>1, <2>2 DEF Datagram
<1>4. 7 <= Len(q)
  BY <1>1, <1>3
<1>5. /\ Zeroed(p) \in Datagram /\ Len(Zeroed(p)) = Len(p)
      /\ 5 \in 1 .. Len(p) /\ 6 \in 1 .. Len(p) /\ p[5] \in Octet /\ p[6] \in Octet
      /\ \A j \in 1 .. Len(p) : j # 5 /\ j # 6 => Zeroed(p)[j] = p[j]
  BY <1>1, ZeroedIs
<1>6. q[5] \in Octet /\ q[6] \in Octet
  BY <1>3, <1>4, ZeroedIs
<1>7. NumberFor(o, p) \in Nat /\ NumberFor(o, q) \in Nat
  <2>1. NumberFor(o, p) \in Nat
    BY <1>1, NumberIs
  <2>2. NumberFor(o, q) \in Nat
    <3>1. o \in Orders /\ q \in Datagram /\ 7 <= Len(q)
      BY <1>3, <1>4
    <3> QED
      BY ONLY <3>1, NumberIs
  <2> QED
    BY <2>1, <2>2
<1>8. Word(o, p[5], p[6]) \in Nat /\ Word(o, q[5], q[6]) \in Nat
  BY <1>5, <1>6, WordIs
<1>9. CASE i = 5 \/ i = 6
  <2>0. PICK v : v = 255 - p[i]
    OBVIOUS
  <2>1. Zeroed(q) = Zeroed(p)
    <3>1. CASE i = 5
      <4>1. q = [p EXCEPT ![5] = v]
        BY <1>0, <2>0, <3>1
      <4>2. Zeroed([p EXCEPT ![5] = v]) = Zeroed(p)
        BY ONLY ZeroedLost
      <4> QED
        BY ONLY <4>1, <4>2
    <3>2. CASE i = 6
      <4>1. q = [p EXCEPT ![6] = v]
        BY <1>0, <2>0, <3>2
      <4>2. Zeroed([p EXCEPT ![6] = v]) = Zeroed(p)
        BY ONLY ZeroedLost
      <4> QED
        BY ONLY <4>1, <4>2
    <3> QED
      BY <1>9, <3>1, <3>2
  <2>2. NumberFor(o, q) = NumberFor(o, p)
    BY <2>1 DEF NumberFor
  <2>3. q[i] = 255 - p[i] /\ p[i] \in Nat
    BY <1>0, <1>2, OctetIs
  <2>4. q[i] # p[i]
    BY <2>3
  <2>5. Word(o, q[5], q[6]) # Word(o, p[5], p[6])
    BY <1>5, <1>6, <1>9, <2>4, WordsApart
  <2> QED
    BY <1>1, <1>7, <1>8, <2>2, <2>5
<1>10. CASE i # 5 /\ i # 6
  <2>1. Zeroed(q) = [Zeroed(p) EXCEPT ![i] = 255 - Zeroed(p)[i]]
    <3>1. Zeroed(p)[i] = p[i]
      BY <1>5, <1>10
    <3>2. PICK x : x = 255 - p[i]
      OBVIOUS
    <3>3. Zeroed([p EXCEPT ![i] = x]) = [Zeroed(p) EXCEPT ![i] = x]
      BY ONLY <1>10, ZeroedMoved
    <3> QED
      BY <1>0, <3>1, <3>2, <3>3
  <2>2. i \in 1 .. Len(Zeroed(p))
    BY <1>5
  <2>3. in_cksum(o, Zeroed(q)) # in_cksum(o, Zeroed(p))
    BY <1>5, <2>1, <2>2, CksumOfInverted
  <2>4. NumberFor(o, q) # NumberFor(o, p)
    BY <1>1, <1>3, <1>4, <2>3, NumbersApart
  <2>5. q[5] = p[5] /\ q[6] = p[6]
    BY <1>0, <1>2, <1>5, <1>10
  <2> QED
    BY <1>1, <1>7, <1>8, <2>4, <2>5
<1> QED
  BY <1>9, <1>10

\* verifyData on a machine of the other order.
LEMMA IntactAcross ==
    ASSUME NEW o \in Orders, NEW r \in Orders, o # r, NEW p, Summed(o, p)
    PROVE  NumberFor(r, p) - Word(r, p[5], p[6]) = 0 <=> p[5] = p[6]
<1>1. p \in Datagram /\ 7 <= Len(p) /\ Word(o, p[5], p[6]) = NumberFor(o, p)
  BY DEF Summed
<1>2. NumberFor(r, p) = NumberFor(o, p) /\ NumberFor(r, p) \in Nat
  BY <1>1, NumberIs
<1>3. p[5] \in Octet /\ p[6] \in Octet
  BY <1>1, ZeroedIs
<1>4. PICK a \in Nat, b \in Nat : a = p[5] /\ b = p[6] /\ a <= 255 /\ b <= 255
  BY <1>3, OctetIs
<1>5. Word(o, a, b) = Word(r, a, b) <=> a = b
  <2>1. (o = "big" /\ r = "little") \/ (o = "little" /\ r = "big")
    BY DEF Orders
  <2> QED
    BY <1>4, <2>1 DEF Word
<1>6. Word(r, a, b) \in Nat
  BY <1>3, <1>4, WordIs
<1> QED
  BY <1>1, <1>2, <1>4, <1>5, <1>6

\* The library's check, on a machine of either order.
LEMMA IntactReported ==
    ASSUME NEW o \in Orders, NEW r \in Orders, NEW p, Summed(o, p)
    PROVE  in_cksum(r, p) # 0 <=> o = "little" /\ p[5] # p[6]
<1>1. p \in Datagram /\ 7 <= Len(p) /\ Word(o, p[5], p[6]) = NumberFor(o, p)
  BY DEF Summed
<1>2. p \in Seq(Octet) /\ Len(p) \in Nat /\ DOMAIN p = 1 .. Len(p)
  BY <1>1 DEF Datagram
<1> DEFINE z == Zeroed(p)
<1>3. /\ z \in Datagram /\ Len(z) = Len(p) /\ z[5] = 0 /\ z[6] = 0
      /\ 5 \in 1 .. Len(p) /\ 6 \in 1 .. Len(p) /\ p[5] \in Octet /\ p[6] \in Octet
  BY <1>1, ZeroedIs
<1>4. p = [z EXCEPT ![5] = p[5], ![6] = p[6]]
  <2>1. 0 \in Octet
    BY DEF Octet
  <2> HIDE DEF Octet
  <2>2. [[p EXCEPT ![5] = 0, ![6] = 0] EXCEPT ![5] = p[5], ![6] = p[6]] = p
    BY <1>2, <1>3, <2>1, ChangedTwice
  <2> QED
    BY <2>2 DEF Zeroed
<1> HIDE DEF z
<1>5. PICK n \in Nat : n = Word(o, p[5], p[6]) /\ n <= 65535
  BY <1>3, WordIs
<1>6. SumOfWords(o, p) = SumOfWords(o, z) + n
  <2>1. 5 % 2 = 1 /\ 5 + 1 = 6 /\ 5 \in Nat
    OBVIOUS
  <2>2. SumOfWords(o, [z EXCEPT ![5] = p[5], ![5 + 1] = p[6]]) = SumOfWords(o, z) + Word(o, p[5], p[6])
    <3>1. 5 \in 1 .. Len(z) /\ 5 + 1 \in 1 .. Len(z) /\ z[5] = 0 /\ z[5 + 1] = 0
      BY <1>3
    <3> QED
      BY <1>3, <2>1, <3>1, FilledSum
  <2>3. SumOfWords(o, [z EXCEPT ![5] = p[5], ![6] = p[6]]) = SumOfWords(o, z) + Word(o, p[5], p[6])
    BY <2>2
  <2> QED
    <3> DEFINE w == [z EXCEPT ![5] = p[5], ![6] = p[6]]
    <3>1. SumOfWords(o, w) = SumOfWords(o, z) + Word(o, p[5], p[6]) /\ w = p
      BY <1>4, <2>3
    <3> HIDE DEF w
    <3> QED
      BY <1>5, <3>1
<1>7. /\ n = in_cksum(o, z) => in_cksum(o, p) = 0
      /\ n = Swapped(in_cksum(o, z)) =>
            (in_cksum(o, p) = 0 <=> Swapped(in_cksum(o, z)) = in_cksum(o, z))
  BY <1>1, <1>3, <1>5, <1>6, FullWithChecksum
<1>8. n = ntohs(o, in_cksum(o, z))
  BY <1>1, <1>5 DEF NumberFor, z
<1>9. in_cksum(o, p) # 0 <=> o = "little" /\ p[5] # p[6]
  <2>1. CASE o = "big"
    BY <1>7, <1>8, <2>1 DEF ntohs
  <2>2. CASE o = "little"
    <3>1. n = Swapped(in_cksum(o, z))
      BY <1>8, <2>2 DEF ntohs
    <3>2. PICK c \in Nat : c = in_cksum(o, z) /\ c <= 65535
      BY <1>3, CksumIs
    <3>3. PICK a \in Nat, b \in Nat : a = p[5] /\ b = p[6] /\ a <= 255 /\ b <= 255
      BY <1>3, OctetIs
    <3>4. Swapped(c) = a + 256 * b
      BY <1>5, <2>2, <3>1, <3>2, <3>3 DEF Word
    <3>5. Swapped(c) = c <=> a = b
      BY <3>2, <3>3, <3>4, SwappedSame
    <3> QED
      BY <1>7, <2>2, <3>1, <3>2, <3>3, <3>5
  <2> QED
    BY <2>1, <2>2 DEF Orders
<1>10. in_cksum(r, p) = 0 <=> in_cksum(o, p) = 0
  <2>1. in_cksum("big", p) = Swapped(in_cksum("little", p))
    BY <1>1, CksumTurned
  <2>2. in_cksum("little", p) \in Nat /\ in_cksum("little", p) <= 65535
    BY <1>1, CksumIs
  <2>3. in_cksum("big", p) = 0 <=> in_cksum("little", p) = 0
    <3>1. PICK m \in Nat : m = in_cksum("little", p) /\ m <= 65535
      BY <2>2
    <3>2. Swapped(m) = 0 <=> m = 0
      <4>1. m \in Nat /\ m <= 65535
        BY <3>1
      <4> QED
        BY ONLY <4>1, SwappedRange
    <3> QED
      BY <2>1, <3>1, <3>2
  <2> QED
    BY <2>3 DEF Orders
<1> QED
  BY <1>9, <1>10

-----------------------------------------------------------------------------
(* What is on its way, what has arrived, and what is left of a transfer. *)

\* What goes into a datagram behind the header.
Payload == {b \in Seq(Octet) : Len(b) <= 65520}

\* The packet that sendData makes of buf with number n and flag f, but for its checksum.
Built(p, n, f, buf) ==
    /\ Len(p) = 7 + Len(buf)
    /\ \A i \in 1 .. 4 : p[i] = NetworkLong(n)[i]
    /\ p[7] = f
    /\ \A j \in 1 .. Len(buf) : p[7 + j] = buf[j]

\* One byte of an intact packet is inverted, or none.
Sent(orders, w) ==
    /\ w \in UdpPacket
    /\ \E p : /\ Summed(orders[w.from], p)
              /\ IF w.flipped THEN \E i \in 1 .. Len(p) : w.bytes = [p EXCEPT ![i] = 255 - p[i]]
                              ELSE w.bytes = p

\* What an arrival says of its packet.
Judged(orders, a) ==
    /\ a \in Arrival
    /\ Sent(orders, a.packet)
    /\ a.at # a.packet.from
    /\ a.verdict # None =>
         a.verdict = NumberFor(orders[a.at], a.buf) - Word(orders[a.at], a.buf[5], a.buf[6])
    /\ a.reported <=> in_cksum(orders[a.at], a.buf) # 0

TypeInv ==
    /\ order \in [{"rcopy", "server"} -> Orders]
    /\ request \in Requests /\ file \in Files
    /\ seq \in Nat /\ flips \in Nat /\ udpHeader \in BOOLEAN

\* All that is sent carries its checksum, and all that has arrived was judged by it.
WireInv == wire # None => Sent(order, wire)
WaitingInv ==
    /\ waiting \in Seq(UdpPacket)
    /\ \A k \in 1 .. Len(waiting) : Sent(order, waiting[k]) /\ waiting[k].from = "rcopy"
ArrivalInv == arrival # None => Judged(order, arrival)

ChecksInv == TypeInv /\ WireInv /\ WaitingInv /\ ArrivalInv

\* The connect packet holds rcopy's arguments and is sent once; nothing else that is sent
\* is taken for one.
RequestBytes == request.name \o NetworkLong(request.window) \o NetworkShort(request.size)

ConnectInv ==
    wire # None /\ wire.from = "rcopy" /\ ~wire.flipped /\ wire.bytes[7] = FlagConnect =>
        child = "none" /\ Built(wire.bytes, 0, FlagConnect, RequestBytes)

NoConnect(w) == ~w.flipped => w.bytes[7] # FlagConnect

DataInv ==
    /\ wire # None /\ wire.from = "server" => NoConnect(wire)
    /\ \A k \in 1 .. Len(waiting) : NoConnect(waiting[k])

\* Before the request has arrived; with nothing under way, the child's answer, a block, or
\* a block's RR.
Quiet ==
    /\ seq = 0 /\ blocks = << >> /\ acks = << >> /\ waiting = << >>
    /\ held = None
    /\ wire # None => wire.from = "rcopy" /\ wire.bytes[7] = FlagConnect

BetweenBlocks == wire = None /\ Len(blocks) = seq /\ Len(acks) + Len(waiting) = seq

AnswerUnderWay ==
    /\ wire # None /\ wire.from = "server" /\ wire.bytes[7] = FlagAnswer
    /\ Len(blocks) = seq /\ Len(acks) + Len(waiting) = seq

BlockUnderWay ==
    /\ wire # None /\ wire.from = "server" /\ seq # 0
    /\ Len(blocks) = seq - 1 /\ Len(acks) + Len(waiting) = seq - 1
    /\ \E pad \in Padding : Built(wire.bytes, seq - 1, FlagData, Block(seq - 1, pad))

AckUnderWay ==
    /\ wire # None /\ wire.from = "rcopy" /\ seq # 0
    /\ Len(blocks) = seq /\ Len(acks) + Len(waiting) = seq - 1
    /\ NumberIn(wire.bytes) = NetworkLong(seq - 1)

UnderWay == BetweenBlocks \/ AnswerUnderWay \/ BlockUnderWay \/ AckUnderWay

\* BlocksArrive of the k-th block.
InPlace(k, payload) ==
    /\ Len(payload) = Min({Size, MAXBUF - Header})
    /\ \A j \in DOMAIN payload :
        LET at == (k - 1) * Size + j IN
        IF at <= Len(file) THEN payload[j] = file[at] ELSE payload[j] \in Padding

\* The RRs that wait follow those that the server has received.
AcksInOrder ==
    /\ acks \in Seq(Seq(Octet) \cup {None})
    /\ \A k \in 1 .. Len(acks) : acks[k] = NetworkLong(k - 1) \/ acks[k] = None
    /\ \A k \in 1 .. Len(waiting) : NumberIn(waiting[k].bytes) = NetworkLong(Len(acks) + k - 1)

\* Without errors there are as many blocks and RRs as the child's count and the packet
\* on its way say, each with its own number.
BlocksInv ==
    flips = 0 =>
        /\ wire # None => ~wire.flipped
        /\ blocks \in Seq(Seq(Octet))
        /\ IF child = "none" THEN Quiet ELSE UnderWay
        /\ \A k \in 1 .. Len(blocks) : InPlace(k, blocks[k])
        /\ AcksInOrder

\* A number that has nothing to do with the blocks, or that of one of the first n.
Known(x, n) == x \in Elsewhere \/ \E m \in 0 .. n - 1 : x = NetworkLong(m)

\* rrBuf has a number of the RRs received, and trails the one that buf holds.
TrailsInv ==
    flips = 0 =>
        /\ Known(rrBuf, Len(acks))
        /\ child # "none" =>
             /\ Known(held.number, Len(acks))
             /\ held.from = "rcopy" =>
                  \E n \in 0 .. Len(acks) - 1 : held.number = NetworkLong(n) /\ Known(rrBuf, n)

-----------------------------------------------------------------------------
(* Numbers in network byte order, and in the machine's own. *)

LEMMA LowByte ==
    ASSUME NEW m \in Nat
    PROVE  m % 256 \in Octet
<1>1. PICK r \in Int : r = m % 256
  OBVIOUS
<1>2. 0 <= r /\ r <= 255
  BY <1>1
<1> QED
  BY <1>1, <1>2, OctetIs

LEMMA LongIs ==
    ASSUME NEW n \in Nat
    PROVE  NetworkLong(n) \in Seq(Octet) /\ Len(NetworkLong(n)) = 4
<1>1. n \div 16777216 \in Nat /\ n \div 65536 \in Nat /\ n \div 256 \in Nat
  BY SMT
<1>2. PICK a \in Octet, b \in Octet, c \in Octet, d \in Octet :
        /\ a = (n \div 16777216) % 256 /\ b = (n \div 65536) % 256
        /\ c = (n \div 256) % 256 /\ d = n % 256
  BY <1>1, LowByte, SMT
<1>3. NetworkLong(n) = <<a, b, c, d>>
  BY <1>2, SMT DEF NetworkLong
<1> QED
  BY <1>3, FourAt

LEMMA LongAt ==
    ASSUME NEW n \in Nat
    PROVE  /\ NetworkLong(n)[1] = (n \div 16777216) % 256
           /\ n <= 2147483647 => (NetworkLong(n)[1] = 0 <=> n < 16777216)
<1>1. PICK h \in Int : h = n \div 16777216
  BY SMT
<1>2. NetworkLong(n)[1] = h % 256
  BY <1>1, SMT DEF NetworkLong
<1>3. ASSUME n <= 2147483647 PROVE h % 256 = 0 <=> n < 16777216
  <2>1. 0 <= h /\ h < 128 /\ (h = 0 <=> n < 16777216)
    BY <1>1, <1>3, SMT
  <2>2. h % 256 = h
    BY <2>1, SMT
  <2> QED
    BY <2>1, <2>2, SMT
<1> QED
  BY <1>1, <1>2, <1>3, SMT

LEMMA ShortIs ==
    ASSUME NEW n \in Nat, n <= 65535
    PROVE  /\ NetworkShort(n) \in Seq(Octet) /\ Len(NetworkShort(n)) = 2
           /\ 256 * NetworkShort(n)[1] + NetworkShort(n)[2] = n
<1>1. PICK h \in Int, l \in Int : h = n \div 256 /\ l = n % 256
  OBVIOUS
<1>2. n = 256 * h + l /\ 0 <= l /\ l <= 255
  BY <1>1
<1>3. h \in Nat /\ h <= 255 /\ l \in Nat /\ h % 256 = h
  BY <1>2
<1>4. h \in Octet /\ l \in Octet
  BY <1>2, <1>3, OctetIs
<1>5. NetworkShort(n) = <<h, l>>
  BY <1>1, <1>3 DEF NetworkShort
<1>6. <<h, l>> \in Seq(Octet) /\ Len(<<h, l>>) = 2 /\ <<h, l>>[1] = h /\ <<h, l>>[2] = l
  BY <1>4, TwoAt
<1> DEFINE t == <<h, l>>
<1>7. t \in Seq(Octet) /\ Len(t) = 2 /\ t[1] = h /\ t[2] = l /\ NetworkShort(n) = t
  BY <1>5, <1>6
<1> HIDE DEF t
<1>8. 256 * t[1] + t[2] = n
  BY <1>2, <1>7
<1> QED
  BY <1>7, <1>8

LEMMA NativeIs ==
    ASSUME NEW o, NEW n \in Nat, n <= 65535
    PROVE  \E x \in Octet, y \in Octet : Native(o, n) = <<x, y>> /\ Word(o, x, y) = n
<1>1. PICK h \in Int, l \in Int : h = n \div 256 /\ l = n % 256
  OBVIOUS
<1>2. n = 256 * h + l /\ 0 <= l /\ l <= 255
  BY <1>1
<1>3. h \in Nat /\ h <= 255 /\ l \in Nat
  BY <1>2
<1>4. h \in Octet /\ l \in Octet
  BY <1>2, <1>3, OctetIs
<1>5. CASE o = "little"
  <2>1. Native(o, n) = <<l, h>> /\ Word(o, l, h) = n
    BY <1>1, <1>2, <1>5 DEF Native, Word
  <2> QED
    BY <1>4, <2>1
<1>6. CASE o # "little"
  <2>1. Native(o, n) = <<h, l>> /\ Word(o, h, l) = n
    BY <1>1, <1>2, <1>6 DEF Native, Word
  <2> QED
    BY <1>4, <2>1
<1> QED
  BY <1>5, <1>6

LEMMA MinOfTwo ==
    ASSUME NEW a \in Nat, NEW b \in Nat
    PROVE  Min({a, b}) = IF a <= b THEN a ELSE b
<1>1. CASE a <= b
  <2>1. {a, b} \in SUBSET Nat /\ a \in {a, b} /\ \A j \in {a, b} : a <= j
    BY <1>1
  <2> QED
    BY <1>1, <2>1, LeastChosen DEF Min
<1>2. CASE ~(a <= b)
  <2>1. {a, b} \in SUBSET Nat /\ b \in {a, b} /\ \A j \in {a, b} : b <= j
    BY <1>2
  <2> QED
    BY <1>2, <2>1, LeastChosen DEF Min
<1> QED
  BY <1>1, <1>2

\* What sendData makes.
LEMMA SendDataIs ==
    ASSUME order \in [{"rcopy", "server"} -> Orders], NEW from \in {"rcopy", "server"},
           NEW buf \in Payload, NEW n \in Nat, NEW f \in Octet
    PROVE  /\ Summed(order[from], sendData(from, buf, n, f))
           /\ Built(sendData(from, buf, n, f), n, f, buf)
<1>1. PICK o \in Orders : o = order[from]
  OBVIOUS
<1>2. PICK four : four = NetworkLong(n) /\ four \in Seq(Octet) /\ Len(four) = 4
  BY LongIs
<1>3. buf \in Seq(Octet) /\ 0 \in Octet /\ Len(buf) \in Nat
  BY DEF Octet, Payload
<1> DEFINE z == four \o <<0, 0, f>> \o buf
<1>5. IsPacket(z, four, 0, 0, f, buf)
  BY <1>2, <1>3, PacketUnsummed
<1>4. z = NetworkLong(n) \o <<0, 0, f>> \o buf
  BY <1>2
<1> HIDE DEF z
<1>6. z \in Datagram /\ 7 <= Len(z)
  BY <1>3, <1>5, SMT DEF IsPacket, Datagram, Payload
<1>7. PICK m \in Nat : m = ntohs(o, in_cksum(o, z)) /\ m <= 65535
  <2>1. PICK c \in Nat : c = in_cksum(o, z) /\ c <= 65535
    BY <1>6, CksumIs
  <2>2. Swapped(c) \in Nat /\ Swapped(c) <= 65535
    BY <2>1, SwappedRange
  <2> QED
    BY <2>1, <2>2 DEF ntohs
<1>8. PICK x \in Octet, y \in Octet : Native(o, m) = <<x, y>> /\ Word(o, x, y) = m
  BY <1>7, NativeIs
<1> DEFINE p == four \o <<x, y>> \o <<f>> \o buf
<1>10. IsPacket(p, four, x, y, f, buf)
  BY <1>2, <1>3, PacketSummed
<1>9. p = NetworkLong(n) \o Native(o, m) \o <<f>> \o buf
  BY <1>2, <1>8
<1> HIDE DEF p
<1>11. p = sendData(from, buf, n, f)
  <2>1. m = ntohs(o, in_cksum(o, NetworkLong(n) \o <<0, 0, f>> \o buf))
    BY <1>4, <1>7
  <2>2. sendData(from, buf, n, f) = NetworkLong(n) \o Native(o, m) \o <<f>> \o buf
    BY ONLY <1>1, <2>1 DEF sendData
  <2> QED
    BY ONLY <1>9, <2>2
<1>12. p \in Datagram /\ 7 <= Len(p)
  BY <1>3, <1>10, SMT DEF IsPacket, Datagram, Payload
<1>13. Zeroed(p) = z
  <2>1. /\ Zeroed(p) \in Datagram /\ Len(Zeroed(p)) = Len(p)
        /\ Zeroed(p)[5] = 0 /\ Zeroed(p)[6] = 0
        /\ \A i \in 1 .. Len(p) : i # 5 /\ i # 6 => Zeroed(p)[i] = p[i]
    BY <1>12, ZeroedIs
  <2>2. \A i \in 1 .. 4 : i \in 1 .. Len(p) /\ i # 5 /\ i # 6
    BY <1>12
  <2>3. 7 \in 1 .. Len(p)
    BY <1>3, <1>10 DEF IsPacket
  <2>4. \A j \in 1 .. Len(buf) : 7 + j \in 1 .. Len(p) /\ 7 + j # 5 /\ 7 + j # 6
    BY <1>3, <1>10 DEF IsPacket
  <2>5. IsPacket(Zeroed(p), four, 0, 0, f, buf)
    BY <1>10, <2>1, <2>2, <2>3, <2>4 DEF IsPacket, Datagram
  <2> QED
    BY <1>3, <1>5, <2>5, OnePacket
<1>14. Summed(o, p)
  BY <1>7, <1>8, <1>10, <1>12, <1>13, SMT DEF Summed, NumberFor, IsPacket
<1>15. Built(p, n, f, buf)
  BY <1>2, <1>10 DEF Built, IsPacket
<1> QED
  BY <1>1, <1>11, <1>14, <1>15

Ends == {"rcopy", "server"}

LEMMA BytesAre == Octet = 0 .. 255
BY DEF Octet

LEMMA PacketIs ==
    ASSUME NEW w \in UdpPacket
    PROVE  /\ w.from \in Ends /\ w.flipped \in BOOLEAN
           /\ w.bytes \in Seq(Octet) /\ Len(w.bytes) \in Nat
           /\ w = [from |-> w.from, bytes |-> w.bytes, flipped |-> w.flipped]
<1> USE BytesAre
<1>1. w \in [from : Ends, bytes : Seq(Octet), flipped : BOOLEAN]
  BY DEF UdpPacket, Ends
<1> HIDE DEF Octet
<1> QED
  BY <1>1

LEMMA NonePacket == None \notin UdpPacket /\ None \notin SetupInfo /\ None \notin Arrival
BY PacketAssumption

LEMMA MadePacket ==
    ASSUME NEW from \in Ends, NEW bytes \in Seq(Octet), NEW flipped \in BOOLEAN
    PROVE  [from |-> from, bytes |-> bytes, flipped |-> flipped] \in UdpPacket
BY BytesAre DEF UdpPacket, Ends

LEMMA SentIs ==
    ASSUME NEW orders \in [Ends -> Orders], NEW w, Sent(orders, w)
    PROVE  /\ w \in UdpPacket /\ w.from \in Ends /\ w.flipped \in BOOLEAN
           /\ w.bytes \in Datagram /\ 7 <= Len(w.bytes)
<1>1. w \in UdpPacket
  BY DEF Sent
<1>2. PICK p : /\ Summed(orders[w.from], p)
               /\ IF w.flipped THEN \E i \in 1 .. Len(p) : w.bytes = [p EXCEPT ![i] = 255 - p[i]]
                               ELSE w.bytes = p
  BY DEF Sent
<1>3. p \in Datagram /\ 7 <= Len(p)
  BY <1>2 DEF Summed
<1>4. CASE ~w.flipped
  BY <1>1, <1>2, <1>3, <1>4, PacketIs
<1>5. CASE w.flipped
  <2>1. PICK i \in 1 .. Len(p) : w.bytes = [p EXCEPT ![i] = 255 - p[i]]
    BY <1>2, <1>5
  <2>2. "big" \in Orders
    BY DEF Orders
  <2>3. [p EXCEPT ![i] = 255 - p[i]] \in Datagram
    BY <1>3, <2>2, CksumOfInverted
  <2>4. Len(w.bytes) = Len(p)
    <3>1. Len(p) \in Nat /\ p \in Seq(Octet) /\ w.bytes \in Seq(Octet)
      BY <1>3, <2>1, <2>3 DEF Datagram
    <3>2. DOMAIN p = 1 .. Len(p) /\ DOMAIN w.bytes = 1 .. Len(w.bytes) /\ Len(w.bytes) \in Nat
      BY <3>1
    <3>3. DOMAIN w.bytes = DOMAIN p
      BY <2>1
    <3> QED
      BY <3>1, <3>2, <3>3
  <2> QED
    BY <1>1, <1>3, <2>1, <2>3, <2>4, PacketIs
<1> QED
  BY <1>4, <1>5

LEMMA SentNew ==
    ASSUME NEW orders \in [Ends -> Orders], NEW from \in Ends, NEW p, Summed(orders[from], p)
    PROVE  Sent(orders, [from |-> from, bytes |-> p, flipped |-> FALSE])
<1>1. p \in Seq(Octet)
  BY DEF Summed, Datagram
<1> QED
  BY <1>1, MadePacket DEF Sent

LEMMA SentFlipped ==
    ASSUME NEW orders \in [Ends -> Orders], NEW w, Sent(orders, w), ~w.flipped,
           NEW i \in DOMAIN w.bytes
    PROVE  Sent(orders, [from |-> w.from, flipped |-> TRUE,
                         bytes |-> [w.bytes EXCEPT ![i] = 255 - @]])
<1>1. /\ w \in UdpPacket /\ w.from \in Ends /\ w.bytes \in Datagram
  BY SentIs
<1>2. PICK p : p = w.bytes /\ Summed(orders[w.from], p)
  BY DEF Sent
<1>3. p \in Seq(Octet) /\ i \in 1 .. Len(p) /\ p \in Datagram
  BY <1>1, <1>2 DEF Datagram
<1> DEFINE q == [p EXCEPT ![i] = 255 - p[i]]
<1>4. q \in Seq(Octet)
  <2>1. "big" \in Orders
    BY DEF Orders
  <2>2. q \in Datagram
    BY <1>3, <2>1, CksumOfInverted
  <2> QED
    BY <2>2 DEF Datagram
<1> DEFINE v == [from |-> w.from, flipped |-> TRUE, bytes |-> q]
<1>5. v \in UdpPacket
  <2> HIDE DEF q
  <2> QED
    BY <1>1, <1>4, MadePacket
<1>6. v.from = w.from /\ v.flipped /\ v.bytes = q
  OBVIOUS
<1>7. v = [from |-> w.from, flipped |-> TRUE, bytes |-> [w.bytes EXCEPT ![i] = 255 - @]]
  BY <1>2
<1> HIDE DEF v
<1>8. Sent(orders, v)
  <2>1. p \in Seq(Octet) /\ Summed(orders[v.from], p) /\ i \in 1 .. Len(p)
    BY <1>2, <1>3, <1>6
  <2>2. v.bytes = [p EXCEPT ![i] = 255 - p[i]]
    BY <1>6
  <2> HIDE DEF q
  <2> QED
    BY <1>5, <1>6, <2>1, <2>2, Zenon DEF Sent
<1> QED
  BY <1>7, <1>8

\* The first bytes of a packet, as recvfrom leaves them.
LEMMA ReceivedIs ==
    ASSUME NEW b \in Datagram, 7 <= Len(b), NEW room \in Nat, 7 <= room
    PROVE  /\ Min({room, Len(b)}) \in Nat /\ 7 <= Min({room, Len(b)}) /\ Min({room, Len(b)}) <= Len(b)
           /\ SubSeq(b, 1, Min({room, Len(b)})) \in Datagram
           /\ Len(SubSeq(b, 1, Min({room, Len(b)}))) = Min({room, Len(b)})
           /\ \A i \in 1 .. Min({room, Len(b)}) : SubSeq(b, 1, Min({room, Len(b)}))[i] = b[i]
<1>1. b \in Seq(Octet) /\ Len(b) \in Nat
  BY DEF Datagram
<1> DEFINE m == Min({room, Len(b)})
<1>2. m \in Nat /\ 7 <= m /\ m <= Len(b)
  BY <1>1, MinOfTwo
<1> HIDE DEF m
<1>3. m \in 0 .. Len(b)
  BY <1>1, <1>2
<1>4. /\ SubSeq(b, 1, m) \in Seq(Octet) /\ Len(SubSeq(b, 1, m)) = m
      /\ \A i \in 1 .. m : SubSeq(b, 1, m)[i] = b[i]
  BY <1>1, <1>3, CutAt
<1>5. m <= 65527
  BY <1>1, <1>2 DEF Datagram
<1> DEFINE buf == SubSeq(b, 1, m)
<1>6. buf \in Datagram /\ Len(buf) = m /\ \A i \in 1 .. m : buf[i] = b[i]
  <2>1. buf \in Seq(Octet) /\ Len(buf) = m /\ \A i \in 1 .. m : buf[i] = b[i]
    BY <1>4
  <2> HIDE DEF buf
  <2> QED
    BY <1>5, <2>1 DEF Datagram
<1> QED
  BY <1>2, <1>6 DEF m

LEMMA VerdictIs ==
    ASSUME NEW orders \in [Ends -> Orders], NEW at \in Ends, NEW buf \in Datagram, 7 <= Len(buf)
    PROVE  NumberFor(orders[at], buf) - Word(orders[at], buf[5], buf[6]) \in Int
<1>1. NumberFor(orders[at], buf) \in Nat
  BY NumberIs
<1>2. buf[5] \in Octet /\ buf[6] \in Octet
  BY ZeroedIs
<1>3. Word(orders[at], buf[5], buf[6]) \in Nat
  BY <1>2, WordIs
<1> QED
  BY <1>1, <1>3

LEMMA JudgedNew ==
    ASSUME NEW orders \in [Ends -> Orders], NEW w, Sent(orders, w), NEW at \in Ends, at # w.from,
           NEW buf \in Datagram, 7 <= Len(buf),
           NEW verdict \in {None, NumberFor(orders[at], buf) - Word(orders[at], buf[5], buf[6])}
    PROVE  Judged(orders, [packet |-> w, at |-> at, buf |-> buf, verdict |-> verdict,
                           reported |-> in_cksum(orders[at], buf) # 0])
<1>1. w \in UdpPacket
  BY SentIs
<1>2. verdict \in Int \cup {None}
  BY VerdictIs
<1>3. buf \in Seq(0 .. 255)
  BY BytesAre DEF Datagram
<1>4. [packet |-> w, at |-> at, buf |-> buf, verdict |-> verdict,
       reported |-> in_cksum(orders[at], buf) # 0] \in Arrival
  BY <1>1, <1>2, <1>3 DEF Arrival, Ends
<1> QED
  BY <1>4 DEF Judged

LEMMA RequestIs ==
    ASSUME NEW r \in Requests
    PROVE  /\ r.name \in Seq(1 .. 255) /\ Len(r.name) \in Nat /\ Len(r.name) < NameSize
           /\ Len(r.name) <= 255
           /\ r.window \in Nat /\ r.size \in Nat /\ 1 <= r.size
           /\ NameSize \in Nat /\ MAXBUF \in Nat /\ 8 <= MAXBUF
BY PacketAssumption, SMT DEF Header

LEMMA RequestBounds ==
    ASSUME NEW r \in Requests
    PROVE  r.window <= 2147483647 /\ r.size <= 65520
BY PacketAssumption, SMT DEF Header

LEMMA RequestBytesAre ==
    ASSUME request \in Requests
    PROVE  /\ RequestBytes \in Payload
           /\ Len(RequestBytes) = Len(request.name) + 6
           /\ \A i \in 1 .. Len(request.name) : RequestBytes[i] = request.name[i]
           /\ \A i \in 1 .. 4 : RequestBytes[Len(request.name) + i] = NetworkLong(request.window)[i]
           /\ \A i \in 1 .. 2 : RequestBytes[Len(request.name) + 4 + i] = NetworkShort(request.size)[i]
<1>1. PICK n \in Nat : n = Len(request.name) /\ n <= 255
  BY RequestIs
<1>2. request.window \in Nat /\ request.size \in Nat /\ request.size <= 65535
  BY RequestIs, RequestBounds, SMT
<1>3. PICK name : name = request.name /\ name \in Seq(Octet) /\ Len(name) = n
  <2>1. request.name \in Seq(1 .. 255)
    BY RequestIs
  <2>2. request.name \in Seq(Octet)
    BY <2>1 DEF Octet
  <2> QED
    BY <1>1, <2>2
<1>4. PICK four : four = NetworkLong(request.window) /\ four \in Seq(Octet) /\ Len(four) = 4
  BY <1>2, LongIs
<1>5. PICK two : two = NetworkShort(request.size) /\ two \in Seq(Octet) /\ Len(two) = 2
  BY <1>2, ShortIs
<1> DEFINE u == name \o four
<1>6. /\ u \in Seq(Octet) /\ Len(u) = n + 4
      /\ \A i \in 1 .. n : u[i] = name[i]
      /\ \A i \in 1 .. 4 : u[n + i] = four[i]
  <2>1. /\ u \in Seq(Octet) /\ Len(u) = Len(name) + Len(four)
        /\ \A i \in 1 .. Len(name) : u[i] = name[i]
        /\ \A i \in 1 .. Len(four) : u[Len(name) + i] = four[i]
    <3>1. name \in Seq(Octet) /\ four \in Seq(Octet)
      BY <1>3, <1>4
    <3> QED
      BY <3>1, Joined
  <2> HIDE DEF u
  <2> QED
    BY <1>3, <1>4, <2>1
<1> DEFINE v == u \o two
<1>7. /\ v \in Seq(Octet) /\ Len(v) = n + 6
      /\ \A i \in 1 .. n + 4 : v[i] = u[i]
      /\ \A i \in 1 .. 2 : v[n + 4 + i] = two[i]
  <2> HIDE DEF u
  <2>1. /\ v \in Seq(Octet) /\ Len(v) = Len(u) + Len(two)
        /\ \A i \in 1 .. Len(u) : v[i] = u[i]
        /\ \A i \in 1 .. Len(two) : v[Len(u) + i] = two[i]
    <3>1. u \in Seq(Octet) /\ two \in Seq(Octet)
      BY <1>5, <1>6
    <3> QED
      BY <3>1, Joined
  <2> HIDE DEF v
  <2>2. Len(u) = n + 4 /\ Len(two) = 2
    BY <1>5, <1>6
  <2>3. /\ \A i \in 1 .. n + 4 : v[i] = u[i]
        /\ \A i \in 1 .. 2 : v[n + 4 + i] = two[i]
    BY <2>1, <2>2
  <2>4. Len(v) = n + 6
    BY <1>1, <2>1, <2>2
  <2> QED
    BY <2>1, <2>3, <2>4
<1>8. v = RequestBytes
  BY <1>3, <1>4, <1>5 DEF RequestBytes
<1> HIDE DEF u, v
<1>9. \A i \in 1 .. n : i \in 1 .. n + 4
  OBVIOUS
<1>10. \A i \in 1 .. 4 : n + i \in 1 .. n + 4
  OBVIOUS
<1>12. \A i \in 1 .. n : v[i] = name[i]
  BY <1>6, <1>7, <1>9
<1>13. \A i \in 1 .. 4 : v[n + i] = four[i]
  BY <1>6, <1>7, <1>10
<1>14. v \in Payload /\ Len(v) = n + 6
  BY <1>1, <1>7, SMT DEF Payload
<1> QED
  BY <1>1, <1>3, <1>4, <1>5, <1>7, <1>8, <1>12, <1>13, <1>14

LEMMA BlockIs ==
    ASSUME request \in Requests, file \in Files, NEW k \in Nat, NEW pad \in Padding
    PROVE  /\ Block(k, pad) \in Payload /\ Len(Block(k, pad)) = request.size
           /\ \A j \in 1 .. request.size :
                Block(k, pad)[j] = IF k * request.size + j <= Len(file) THEN file[k * request.size + j]
                                   ELSE pad
<1>1. PICK m \in Nat : m = request.size
  BY RequestIs
<1>2. file \in Seq(Octet) /\ Len(file) \in Nat /\ pad \in Octet
  BY PacketAssumption, BytesAre
<1>3. PICK base \in Nat : base = k * m
  BY <1>1
<1> DEFINE b == [j \in 1 .. m |-> IF base + j <= Len(file) THEN file[base + j] ELSE pad]
<1>4. b = Block(k, pad)
  BY <1>1, <1>3 DEF Block, Size
<1>5. ASSUME NEW j \in 1 .. m
      PROVE  (IF base + j <= Len(file) THEN file[base + j] ELSE pad) \in Octet
  <2>1. base + j <= Len(file) => base + j \in 1 .. Len(file)
    BY <1>2
  <2> HIDE DEF Octet
  <2> QED
    BY <1>2, <2>1
<1>6. b \in Seq(Octet) /\ Len(b) = m
  <2> HIDE DEF Octet
  <2> QED
    BY <1>5
<1> HIDE DEF b
<1>7. b \in Payload
  BY <1>1, <1>6, RequestBounds, SMT DEF Payload
<1> QED
  BY <1>1, <1>3, <1>4, <1>6, <1>7 DEF b

LEMMA FourFits ==
    ASSUME NEW s \in Seq(Octet), Len(s) = 4
    PROVE  s \in Payload
BY SMT DEF Payload

LEMMA FlagsAre ==
    /\ FlagRR \in Octet /\ FlagConnect \in Octet /\ FlagData \in Octet /\ FlagAnswer \in Octet
    /\ 0 \in Octet
BY DEF FlagRR, FlagConnect, FlagData, FlagAnswer, Octet

LEMMA FewFit ==
    ASSUME NEW s \in Seq(Octet), NEW n \in Nat, n < 10, Len(s) = n
    PROVE  s \in Payload
BY SMT DEF Payload

LEMMA AnswersFit == GoodFile \in Payload /\ BadFile \in Payload
<1>1. GoodFile \in Seq(Octet) /\ Len(GoodFile) = 9
  BY SMT DEF GoodFile, Octet
<1>2. BadFile \in Seq(Octet) /\ Len(BadFile) = 8
  BY SMT DEF BadFile, Octet
<1>3. GoodFile \in Payload
  <2>1. 9 \in Nat /\ 9 < 10
    BY ONLY SMT
  <2> QED
    BY ONLY <1>1, <2>1, FewFit
<1>4. BadFile \in Payload
  <2>1. 8 \in Nat /\ 8 < 10
    BY ONLY SMT
  <2> QED
    BY ONLY <1>2, <2>1, FewFit
<1> QED
  BY ONLY <1>3, <1>4

\* A packet sent is one that WireInv allows.
LEMMA SendSent ==
    ASSUME order \in [Ends -> Orders], NEW from \in Ends, NEW buf \in Payload,
           NEW n \in Nat, NEW f \in Octet,
           NEW w, w = [from |-> from, bytes |-> sendData(from, buf, n, f), flipped |-> FALSE]
    PROVE  /\ Sent(order, w) /\ w.from = from /\ ~w.flipped
           /\ Built(w.bytes, n, f, buf)
<1>1. /\ Summed(order[from], sendData(from, buf, n, f))
      /\ Built(sendData(from, buf, n, f), n, f, buf)
  BY SendDataIs DEF Ends
<1>2. Sent(order, w)
  BY <1>1, SentNew
<1> QED
  BY <1>1, <1>2

\* What recvfrom gives a receiver of a packet of the other end.
LEMMA ReceiveJudged ==
    ASSUME order \in [Ends -> Orders], NEW w, Sent(order, w), NEW at \in Ends, at # w.from,
           NEW room \in Nat, 7 <= room, NEW compares, Receive(w, at, room, compares)
    PROVE  Judged(order, arrival') /\ arrival'.packet = w /\ arrival' # None
<1>1. w.bytes \in Datagram /\ 7 <= Len(w.bytes) /\ Len(w.bytes) \in Nat
  BY SentIs DEF Datagram
<1> DEFINE buf == Received(w, room)
           verdict == IF compares THEN verifyData(at, buf) ELSE None
<1>2. buf \in Datagram /\ 7 <= Len(buf)
  BY <1>1, ReceivedIs DEF Received
<1>3. arrival' = [packet |-> w, at |-> at, buf |-> buf, verdict |-> verdict,
                  reported |-> recvfrom_Mod(at, buf)]
  BY DEF Receive
<1> HIDE DEF buf
<1>4. /\ verifyData(at, buf) = NumberFor(order[at], buf) - Word(order[at], buf[5], buf[6])
      /\ recvfrom_Mod(at, buf) = (in_cksum(order[at], buf) # 0)
  BY DEF verifyData, recvfrom_Mod, NumberFor, Zeroed
<1>5. verdict \in {None, NumberFor(order[at], buf) - Word(order[at], buf[5], buf[6])}
  BY <1>4
<1> HIDE DEF verdict
<1>6. Judged(order, [packet |-> w, at |-> at, buf |-> buf, verdict |-> verdict,
                     reported |-> in_cksum(order[at], buf) # 0])
  BY <1>2, <1>5, JudgedNew
<1>7. Judged(order, arrival')
  BY <1>3, <1>4, <1>6
<1> QED
  BY <1>3, <1>7, NonePacket DEF Judged

\* The packet that a process of the server takes from the socket, and those it leaves.
LEMMA FirstOfWaiting ==
    ASSUME order \in [Ends -> Orders], WaitingInv, waiting # << >>
    PROVE  /\ Sent(order, Head(waiting)) /\ Head(waiting) = waiting[1]
           /\ Head(waiting).from = "rcopy" /\ 1 \in 1 .. Len(waiting)
           /\ Head(waiting).bytes \in Datagram /\ 7 <= Len(Head(waiting).bytes)
           /\ Len(Head(waiting).bytes) \in Nat
           /\ Tail(waiting) \in Seq(UdpPacket) /\ Len(Tail(waiting)) = Len(waiting) - 1
           /\ \A k \in 1 .. Len(Tail(waiting)) :
                k + 1 \in 1 .. Len(waiting) /\ Tail(waiting)[k] = waiting[k + 1]
<1>1. waiting \in Seq(UdpPacket) /\ Len(waiting) \in Nat /\ Len(waiting) # 0
  BY DEF WaitingInv
<1>2. /\ Head(waiting) = waiting[1] /\ 1 \in 1 .. Len(waiting)
      /\ Tail(waiting) \in Seq(UdpPacket) /\ Len(Tail(waiting)) = Len(waiting) - 1
      /\ \A k \in 1 .. Len(waiting) - 1 : Tail(waiting)[k] = waiting[k + 1]
  BY <1>1
<1>3. \A k \in 1 .. Len(waiting) - 1 : k + 1 \in 1 .. Len(waiting)
  BY <1>1
<1>4. Sent(order, Head(waiting)) /\ Head(waiting).from = "rcopy"
  BY <1>2 DEF WaitingInv
<1>5. /\ Head(waiting).bytes \in Datagram /\ 7 <= Len(Head(waiting).bytes)
      /\ Len(Head(waiting).bytes) \in Nat
  BY <1>4, SentIs DEF Datagram
<1> QED
  BY <1>2, <1>3, <1>4, <1>5

\* What a round of the child's loop receives of the RR, or the parent.
LEMMA WaitingReceived ==
    ASSUME order \in [Ends -> Orders], WaitingInv, waiting # << >>, NEW compares,
           Receive(Head(waiting), "server", Len(Head(waiting).bytes), compares),
           waiting' = Tail(waiting), order' = order
    PROVE  /\ Judged(order, arrival') /\ arrival'.packet = waiting[1] /\ arrival' # None
           /\ WaitingInv'
<1>1. /\ Sent(order, Head(waiting)) /\ Head(waiting).from # "server"
      /\ Len(Head(waiting).bytes) \in Nat /\ 7 <= Len(Head(waiting).bytes)
      /\ Head(waiting) = waiting[1]
  BY FirstOfWaiting
<1>2. Judged(order, arrival') /\ arrival'.packet = Head(waiting) /\ arrival' # None
  <2>1. "server" \in Ends
    BY DEF Ends
  <2> QED
    BY <1>1, <2>1, ReceiveJudged
<1>3. WaitingInv'
  <2>1. waiting' \in Seq(UdpPacket)
    BY FirstOfWaiting
  <2>2. ASSUME NEW k \in 1 .. Len(waiting')
        PROVE  Sent(order, waiting'[k]) /\ waiting'[k].from = "rcopy"
    <3>1. k + 1 \in 1 .. Len(waiting) /\ waiting'[k] = waiting[k + 1]
      BY FirstOfWaiting
    <3> QED
      BY <3>1 DEF WaitingInv
  <2> QED
    BY <2>1, <2>2 DEF WaitingInv
<1> QED
  BY <1>1, <1>2, <1>3

LEMMA WaitingArrived ==
    ASSUME order \in [Ends -> Orders], WaitingInv, Sent(order, wire), wire.from = "rcopy",
           waiting' = Append(waiting, wire), order' = order
    PROVE  WaitingInv'
<1>1. waiting \in Seq(UdpPacket) /\ wire \in UdpPacket
  BY SentIs DEF WaitingInv
<1>2. /\ waiting' \in Seq(UdpPacket) /\ Len(waiting') = Len(waiting) + 1
      /\ \A k \in 1 .. Len(waiting) : waiting'[k] = waiting[k]
      /\ waiting'[Len(waiting) + 1] = wire
  BY <1>1, AppendProperties
<1>3. ASSUME NEW k \in 1 .. Len(waiting')
      PROVE  Sent(order, waiting'[k]) /\ waiting'[k].from = "rcopy"
  <2>1. k \in 1 .. Len(waiting) \/ k = Len(waiting) + 1
    <3>1. Len(waiting) \in Nat
      BY <1>1
    <3> QED
      BY <1>2, <3>1
  <2> QED
    BY <1>2, <2>1 DEF WaitingInv
<1> QED
  BY <1>2, <1>3 DEF WaitingInv

-----------------------------------------------------------------------------
(* What is sent, and what the checks say of it. *)

\* The number that rcopy answers a packet with.
LEMMA AnswerIs ==
    ASSUME order \in [Ends -> Orders], Sent(order, wire), MAXBUF \in Nat, 7 <= MAXBUF
    PROVE  SubSeq(Received(wire, MAXBUF), 1, 4) \in Payload
<1> DEFINE buf == Received(wire, MAXBUF)
<1>1. buf \in Seq(Octet) /\ Len(buf) \in Nat /\ 7 <= Len(buf)
  <2>1. wire.bytes \in Datagram /\ 7 <= Len(wire.bytes)
    BY SentIs
  <2>2. buf \in Datagram /\ 7 <= Len(buf)
    <3>1. /\ SubSeq(wire.bytes, 1, Min({MAXBUF, Len(wire.bytes)})) \in Datagram
          /\ Len(SubSeq(wire.bytes, 1, Min({MAXBUF, Len(wire.bytes)}))) = Min({MAXBUF, Len(wire.bytes)})
          /\ 7 <= Min({MAXBUF, Len(wire.bytes)})
      BY <2>1, ReceivedIs
    <3> QED
      BY <3>1 DEF Received
  <2> HIDE DEF buf
  <2> QED
    BY <2>2 DEF Datagram
<1> HIDE DEF buf
<1>2. 4 \in 0 .. Len(buf)
  BY <1>1
<1>3. SubSeq(buf, 1, 4) \in Seq(Octet) /\ Len(SubSeq(buf, 1, 4)) = 4
  BY <1>1, <1>2, CutAt
<1> QED
  BY <1>3, FourFits DEF buf

LEMMA ChecksInit == ASSUME Init PROVE ChecksInv
<1>1. TypeInv
  <2>1. 0 \in Nat /\ FALSE \in BOOLEAN
    BY ONLY SMT
  <2> QED
    BY <2>1 DEF Init, TypeInv
<1>2. WireInv
  BY DEF Init, WireInv
<1>3. WaitingInv
  <2>1. << >> \in Seq(UdpPacket) /\ Len(<< >>) = 0
    OBVIOUS
  <2>2. \A k \in 1 .. 0 : FALSE
    BY ONLY SMT
  <2>3. waiting = << >>
    BY DEF Init
  <2> QED
    BY <2>1, <2>2, <2>3, Zenon DEF WaitingInv
<1>4. ArrivalInv
  BY DEF Init, ArrivalInv
<1> QED
  BY <1>1, <1>2, <1>3, <1>4 DEF ChecksInv

LEMMA ChecksStep ==
    ASSUME ChecksInv, [Next]_vars
    PROVE  ChecksInv'
<1> USE DEF ChecksInv
<1>0. /\ order \in [Ends -> Orders] /\ request \in Requests /\ file \in Files
      /\ seq \in Nat /\ flips \in Nat /\ udpHeader \in BOOLEAN
  BY DEF TypeInv, Ends
<1>1. CASE connectBuf
  <2>1. request.window \in Nat /\ RequestBytes \in Payload
    BY <1>0, RequestIs, RequestBytesAre
  <2>2. /\ wire' = [from |-> "rcopy", flipped |-> FALSE,
                    bytes |-> sendData("rcopy", RequestBytes, 0, FlagConnect)]
        /\ UNCHANGED <<order, request, file, seq, arrival, flips, waiting, udpHeader>>
    BY <1>1 DEF connectBuf, Send, RequestBytes, server
  <2>3. Sent(order, wire')
    BY <1>0, <2>1, <2>2, FlagsAre, SendSent DEF Ends
  <2> QED
    BY <2>2, <2>3 DEF TypeInv, WireInv, WaitingInv, ArrivalInv
<1>2. CASE Flip
  <2>1. PICK i \in DOMAIN wire.bytes :
          wire' = [from |-> wire.from, flipped |-> TRUE,
                   bytes |-> [wire.bytes EXCEPT ![i] = 255 - @]]
    BY <1>2 DEF Flip
  <2>2. /\ wire # None /\ ~wire.flipped /\ flips' = flips + 1
        /\ UNCHANGED <<order, request, file, seq, arrival, waiting, udpHeader>>
    BY <1>2 DEF Flip, server
  <2>3. Sent(order, wire')
    BY <1>0, <2>1, <2>2, SentFlipped DEF WireInv
  <2>4. flips' \in Nat
    BY <1>0, <2>2
  <2> QED
    BY <2>2, <2>3, <2>4 DEF TypeInv, WireInv, WaitingInv, ArrivalInv
<1>3. CASE processClient
  <2>1. /\ wire # None /\ wire.from = "rcopy" /\ Receive(wire, "server", Len(wire.bytes), TRUE)
        /\ wire' = None /\ UNCHANGED <<order, request, file, seq, flips, waiting, udpHeader>>
    BY <1>3 DEF processClient
  <2>2. Sent(order, wire)
    BY <2>1 DEF WireInv
  <2>3. Len(wire.bytes) \in Nat /\ 7 <= Len(wire.bytes)
    BY <1>0, <2>2, SentIs DEF Datagram
  <2>4. Judged(order, arrival')
    BY <1>0, <2>1, <2>2, <2>3, ReceiveJudged DEF Ends
  <2> QED
    BY <2>1, <2>4 DEF TypeInv, WireInv, WaitingInv, ArrivalInv
<1>8. CASE handleSend_open
  <2>1. PICK answer \in {GoodFile, BadFile} :
          wire' = [from |-> "server", flipped |-> FALSE,
                   bytes |-> sendData("server", answer, 0, FlagAnswer)]
    BY <1>8 DEF handleSend_open, Send
  <2>2. UNCHANGED <<order, request, file, seq, arrival, flips, waiting, udpHeader>>
    BY <1>8 DEF handleSend_open
  <2>3. answer \in Payload
    BY AnswersFit
  <2>4. Sent(order, wire')
    BY <1>0, <2>1, <2>3, FlagsAre, SendSent DEF Ends
  <2> QED
    BY <2>2, <2>4 DEF TypeInv, WireInv, WaitingInv, ArrivalInv
<1>4. CASE handleSend
  <2>1. PICK pad \in Padding :
          wire' = [from |-> "server", flipped |-> FALSE,
                   bytes |-> sendData("server", Block(seq, pad), seq, FlagData)]
    BY <1>4 DEF handleSend, Send
  <2>2. seq' = seq + 1 /\ UNCHANGED <<order, request, file, arrival, flips, waiting, udpHeader>>
    BY <1>4 DEF handleSend
  <2>3. Block(seq, pad) \in Payload
    BY <1>0, BlockIs
  <2>4. Sent(order, wire')
    BY <1>0, <2>1, <2>3, FlagsAre, SendSent DEF Ends
  <2>5. seq' \in Nat
    BY <1>0, <2>2
  <2> QED
    BY <2>2, <2>4, <2>5 DEF TypeInv, WireInv, WaitingInv, ArrivalInv
<1>5. CASE talkToServer
  <2>1. /\ wire # None /\ wire.from = "server" /\ Receive(wire, "rcopy", MAXBUF, udpHeader)
        /\ udpHeader' = TRUE
        /\ UNCHANGED <<order, request, file, seq, flips, waiting>>
    BY <1>5 DEF talkToServer, server
  <2>2. Sent(order, wire)
    BY <2>1 DEF WireInv
  <2>3. MAXBUF \in Nat /\ 7 <= MAXBUF
    BY <1>0, RequestIs
  <2>4. Judged(order, arrival')
    BY <1>0, <2>1, <2>2, <2>3, ReceiveJudged DEF Ends
  <2> DEFINE four == SubSeq(Received(wire, MAXBUF), 1, 4)
  <2>6. \/ wire' = None
        \/ wire' = [from |-> "rcopy", flipped |-> FALSE,
                    bytes |-> sendData("rcopy", four, 0, FlagRR)]
    BY <1>5 DEF talkToServer
  <2>7. four \in Payload
    BY <1>0, <2>2, <2>3, AnswerIs
  <2> HIDE DEF four
  <2>8. wire' # None => Sent(order, wire')
    BY <1>0, <2>6, <2>7, FlagsAre, SendSent DEF Ends
  <2> QED
    BY <2>1, <2>4, <2>8 DEF TypeInv, WireInv, WaitingInv, ArrivalInv
<1>9. CASE Arrive
  <2>1. /\ wire # None /\ wire.from = "rcopy" /\ waiting' = Append(waiting, wire) /\ wire' = None
        /\ UNCHANGED <<order, request, file, seq, flips, arrival, udpHeader>>
    BY <1>9 DEF Arrive, server
  <2>2. Sent(order, wire)
    BY <2>1 DEF WireInv
  <2>3. WaitingInv'
    BY <1>0, <2>1, <2>2, WaitingArrived
  <2> QED
    BY <2>1, <2>3 DEF TypeInv, WireInv, ArrivalInv
<1>6. CASE handleSend_RR
  <2>1. /\ waiting # << >> /\ waiting' = Tail(waiting)
        /\ Receive(Head(waiting), "server", Len(Head(waiting).bytes), FALSE)
        /\ UNCHANGED <<order, request, file, seq, flips, wire, udpHeader>>
    BY <1>6 DEF handleSend_RR
  <2>2. Judged(order, arrival') /\ WaitingInv'
    BY <1>0, <2>1, WaitingReceived
  <2> QED
    BY <2>1, <2>2 DEF TypeInv, WireInv, ArrivalInv
<1>10. CASE handleSend_other
  BY <1>10 DEF handleSend_other, TypeInv, WireInv, WaitingInv, ArrivalInv
<1>11. CASE processClient_RR
  <2>1. /\ waiting # << >> /\ waiting' = Tail(waiting)
        /\ Receive(Head(waiting), "server", Len(Head(waiting).bytes), TRUE)
        /\ UNCHANGED <<order, request, file, seq, flips, wire, udpHeader>>
    BY <1>11 DEF processClient_RR, server
  <2>2. Judged(order, arrival') /\ WaitingInv'
    BY <1>0, <2>1, WaitingReceived
  <2> QED
    BY <2>1, <2>2 DEF TypeInv, WireInv, ArrivalInv
<1>7. CASE UNCHANGED vars
  BY <1>7 DEF vars, server, TypeInv, WireInv, WaitingInv, ArrivalInv
<1> QED
  BY <1>1, <1>2, <1>3, <1>4, <1>5, <1>6, <1>7, <1>8, <1>9, <1>10, <1>11 DEF Next

LEMMA ChecksHold == Spec => []ChecksInv
<1> QED
  BY ChecksInit, ChecksStep, PTL DEF Spec

\* checksum.c:40-70.  Whatever goes over the wire, both machines find the Internet
\* checksum of it.
THEOREM WireChecksumRight == Spec => []ChecksumRight
<1>1. ASSUME ChecksInv PROVE ChecksumRight
  <2>1. ASSUME wire # None PROVE wire.bytes \in Datagram
    <3>1. order \in [Ends -> Orders] /\ Sent(order, wire)
      BY <1>1, <2>1 DEF ChecksInv, TypeInv, WireInv, Ends
    <3> QED
      BY <3>1, SentIs
  <2> QED
    BY <2>1, CksumIs, CksumTurned DEF ChecksumRight
<1> QED
  BY <1>1, ChecksHold, PTL

\* sendData.c:60-74, PacketManager.cpp:410-429.
THEOREM WireChecksTell == Spec => []ChecksTell
<1>1. ASSUME ChecksInv PROVE ChecksTell
  <2>1. SUFFICES ASSUME arrival # None, arrival.buf = arrival.packet.bytes
                 PROVE  /\ arrival.verdict # None => VerdictTellsFlips
                        /\ LibraryMisreports
    BY DEF ChecksTell, VerdictTellsFlips, LibraryMisreports
  <2>2. order \in [Ends -> Orders] /\ Judged(order, arrival)
    BY <1>1, <2>1 DEF ChecksInv, TypeInv, ArrivalInv, Ends
  <2> DEFINE w == arrival.packet
             o == order[w.from]
             r == order[arrival.at]
             b == arrival.buf
  <2>3. /\ arrival.at \in Ends /\ w.from \in Ends /\ arrival.at # w.from
        /\ Sent(order, w) /\ o \in Orders /\ r \in Orders
        /\ arrival.verdict # None => arrival.verdict = NumberFor(r, b) - Word(r, b[5], b[6])
        /\ arrival.reported <=> in_cksum(r, b) # 0
    <3>1. arrival.at \in Ends
      BY <2>2 DEF Judged, Arrival, Ends
    <3> QED
      BY <2>2, <3>1, SentIs DEF Judged
  <2>4. order.rcopy = order.server <=> o = r
    BY <2>3 DEF Ends
  <2>5. PICK p : /\ Summed(o, p)
                 /\ IF w.flipped THEN \E i \in 1 .. Len(p) : b = [p EXCEPT ![i] = 255 - p[i]]
                                 ELSE b = p
    BY <2>1, <2>3 DEF Sent
  <2> HIDE DEF o, r, b
  <2>6. CASE w.flipped
    <3>1. \E i \in 1 .. Len(p) : b = [p EXCEPT ![i] = 255 - p[i]]
      BY <2>5, <2>6
    <3>2. o = r => NumberFor(r, b) - Word(r, b[5], b[6]) # 0
      <4>1. o \in Orders /\ Summed(o, p)
        BY <2>3, <2>5
      <4>2. NumberFor(o, b) - Word(o, b[5], b[6]) # 0
        BY ONLY <3>1, <4>1, InvertedFails
      <4> QED
        BY <4>2
    <3> QED
      BY <2>3, <2>4, <2>6, <3>2 DEF VerdictTellsFlips, LibraryMisreports
  <2>7. CASE ~w.flipped
    <3>1. Summed(o, b)
      BY <2>5, <2>7
    <3>2. o = r => NumberFor(r, b) - Word(r, b[5], b[6]) = 0
      BY <2>3, <3>1, IntactPasses
    <3>3. o # r => (NumberFor(r, b) - Word(r, b[5], b[6]) = 0 <=> b[5] = b[6])
      BY <2>3, <3>1, IntactAcross
    <3>4. in_cksum(r, b) # 0 <=> o = "little" /\ b[5] # b[6]
      BY <2>3, <3>1, IntactReported
    <3>5. arrival.verdict # None => VerdictTellsFlips
      BY <2>3, <2>4, <2>7, <3>2, <3>3 DEF VerdictTellsFlips, b
    <3>6. LibraryMisreports
      BY <2>3, <3>4 DEF LibraryMisreports, b, o
    <3> QED
      BY <3>5, <3>6
  <2> QED
    BY <2>6, <2>7
<1> QED
  BY <1>1, ChecksHold, PTL

-----------------------------------------------------------------------------
(* The request in the server's buffer. *)

LEMMA CutFrom ==
    ASSUME NEW s \in Seq(Octet), NEW m \in Nat, NEW n \in Nat, m + n <= Len(s)
    PROVE  /\ SubSeq(s, m + 1, m + n) \in Seq(Octet) /\ Len(SubSeq(s, m + 1, m + n)) = n
           /\ \A i \in 1 .. n : SubSeq(s, m + 1, m + n)[i] = s[m + i]
<1> HIDE DEF Octet
<1>1. Len(s) \in Nat /\ \A i \in 1 .. Len(s) : s[i] \in Octet
  OBVIOUS
<1>2. \A i \in 1 .. n : m + i \in 1 .. Len(s) /\ i + (m + 1) - 1 = m + i
  BY <1>1
<1>3. (m + n) - (m + 1) + 1 = n
  OBVIOUS
<1> QED
  BY <1>1, <1>2, <1>3

LEMMA ElementsOf ==
    ASSUME NEW S, NEW s \in Seq(S), NEW i \in 1 .. Len(s)
    PROVE  s[i] \in S
OBVIOUS

\* The request as the server finds it in its buffer.
LEMMA ParsedIs ==
    ASSUME request \in Requests, NEW b \in Seq(Octet),
           Len(b) = Len(request.name) + NameSize + 19,
           \A j \in 1 .. Len(RequestBytes) : b[7 + j] = RequestBytes[j]
    PROVE  Parsed(b) = [name |-> request.name, window |-> NetworkLong(request.window),
                        size |-> request.size]
               <=> NetworkLong(request.window)[1] = 0
<1> DEFINE n == Len(request.name)
           four == NetworkLong(request.window)
           two == NetworkShort(request.size)
           L == NameLength(b)
           S == {i \in 0 .. NameSize : b[Header + 1 + i] = 0} \cup {NameSize}
<1>1. n \in Nat /\ n < NameSize /\ NameSize \in Nat /\ request.name \in Seq(1 .. 255)
  BY RequestIs
<1>2. /\ four \in Seq(Octet) /\ Len(four) = 4
      /\ two \in Seq(Octet) /\ Len(two) = 2 /\ 256 * two[1] + two[2] = request.size
  <2>1. request.window \in Nat /\ request.size \in Nat
    BY RequestIs
  <2>2. four \in Seq(Octet) /\ Len(four) = 4
    BY <2>1, LongIs
  <2>3. two \in Seq(Octet) /\ Len(two) = 2 /\ 256 * two[1] + two[2] = request.size
    <3>1. request.size <= 65535
      BY <2>1, RequestBounds, SMT
    <3> QED
      BY <2>1, <3>1, ShortIs, SMT
  <2> QED
    BY <2>2, <2>3
<1>3. /\ \A i \in 1 .. n : b[7 + i] = request.name[i]
      /\ \A i \in 1 .. 4 : b[7 + n + i] = four[i]
      /\ \A i \in 1 .. 2 : b[7 + n + 4 + i] = two[i]
  <2>1. /\ Len(RequestBytes) = n + 6
        /\ \A i \in 1 .. n : RequestBytes[i] = request.name[i]
        /\ \A i \in 1 .. 4 : RequestBytes[n + i] = four[i]
        /\ \A i \in 1 .. 2 : RequestBytes[n + 4 + i] = two[i]
    BY RequestBytesAre
  <2> HIDE DEF n, four, two
  <2>2. \A i \in 1 .. n : i \in 1 .. n + 6
    BY <1>1
  <2>3. \A i \in 1 .. 4 : n + i \in 1 .. n + 6 /\ 7 + (n + i) = 7 + n + i
    BY <1>1
  <2>4. \A i \in 1 .. 2 : n + 4 + i \in 1 .. n + 6 /\ 7 + (n + 4 + i) = 7 + n + 4 + i
    BY <1>1
  <2>5. \A j \in 1 .. n + 6 : b[7 + j] = RequestBytes[j]
    BY <2>1
  <2>6. \A i \in 1 .. n : b[7 + i] = request.name[i]
    BY <2>1, <2>2, <2>5
  <2>7. \A i \in 1 .. 4 : b[7 + (n + i)] = four[i]
    BY <2>1, <2>3, <2>5
  <2>8. \A i \in 1 .. 2 : b[7 + (n + 4 + i)] = two[i]
    BY <2>1, <2>4, <2>5
  <2> QED
    BY <2>3, <2>4, <2>6, <2>7, <2>8
<1>4. Len(b) = n + NameSize + 19
  OBVIOUS
<1>5. \A i \in 1 .. n : request.name[i] # 0
  <2>1. \A i \in 1 .. n : request.name[i] \in 1 .. 255
    BY <1>1, ElementsOf
  <2>2. \A x \in 1 .. 255 : x # 0
    OBVIOUS
  <2> HIDE DEF n
  <2> QED
    BY <2>1, <2>2
<1>7. S \in SUBSET Nat /\ NameSize \in S
  BY <1>1
<1>8. PICK k \in S : \A j \in S : k <= j
  BY <1>7, LeastExists
<1>9. L = k
  <2>1. (CHOOSE x \in S : \A y \in S : x <= y) = k
    <3> HIDE DEF S
    <3> QED
      BY <1>7, <1>8, LeastChosen
  <2> QED
    BY <2>1 DEF NameLength, Min
<1>10. k \in Nat /\ k <= NameSize
  BY <1>1, <1>7, <1>8
<1>6. Parsed(b) = [name |-> SubSeq(b, 8, 7 + k), window |-> SubSeq(b, 8 + k, 11 + k),
                   size |-> 256 * b[12 + k] + b[13 + k]]
  <2>1. /\ Header + 1 = 8 /\ Header + k = 7 + k /\ Header + k + 1 = 8 + k /\ Header + k + 4 = 11 + k
        /\ Header + k + 5 = 12 + k /\ Header + k + 5 + 1 = 13 + k
    BY <1>10 DEF Header
  <2>2. Parsed(b) = [name |-> SubSeq(b, Header + 1, Header + k),
                     window |-> SubSeq(b, Header + k + 1, Header + k + 4),
                     size |-> Short(b, Header + k + 5)]
    BY <1>9 DEF Parsed
  <2>3. Short(b, Header + k + 5) = 256 * b[12 + k] + b[13 + k]
    BY <2>1 DEF Short
  <2> QED
    BY <2>1, <2>2, <2>3
<1>11. n \in S <=> four[1] = 0
  <2>1. b[7 + n + 1] = four[1]
    BY <1>3
  <2>2. Header + 1 + n = 7 + n + 1 /\ n \in 0 .. NameSize /\ n # NameSize
    BY <1>1 DEF Header
  <2> HIDE DEF n, four
  <2> QED
    BY <2>1, <2>2
<1>12. ASSUME NEW j \in S PROVE n <= j
  <2>1. SUFFICES ASSUME j \in Nat, j < n PROVE FALSE
    BY <1>1, <1>7
  <2>2. j + 1 \in 1 .. n /\ Header + 1 + j = 7 + (j + 1) /\ j # NameSize
    BY <1>1, <2>1 DEF Header
  <2>3. b[Header + 1 + j] = 0
    BY <2>2
  <2> QED
    <3>1. b[7 + (j + 1)] = request.name[j + 1] /\ request.name[j + 1] # 0
      BY <1>3, <1>5, <2>2
    <3> QED
      BY <2>2, <2>3, <3>1
<1> HIDE DEF S
<1>13. CASE four[1] = 0
  <2>1. k = n
    <3>1. n \in S
      BY <1>11, <1>13
    <3> QED
      BY <1>1, <1>8, <1>10, <1>12, <3>1
  <2>2. SubSeq(b, 8, 7 + n) = request.name
    <3>1. /\ SubSeq(b, 7 + 1, 7 + n) \in Seq(Octet) /\ Len(SubSeq(b, 7 + 1, 7 + n)) = n
          /\ \A i \in 1 .. n : SubSeq(b, 7 + 1, 7 + n)[i] = b[7 + i]
      <4>1. 7 + n <= Len(b)
        BY <1>1, <1>4
      <4> QED
        BY <1>1, <4>1, CutFrom
    <3>2. request.name \in Seq(Octet)
      BY <1>1 DEF Octet
    <3> DEFINE s == SubSeq(b, 7 + 1, 7 + n)
    <3>3. s \in Seq(Octet) /\ Len(s) = n /\ \A i \in 1 .. n : s[i] = request.name[i]
      BY <1>3, <3>1
    <3> HIDE DEF s
    <3>4. s = request.name
      BY <3>2, <3>3, SeqEqual
    <3> QED
      BY <3>4 DEF s
  <2>3. SubSeq(b, 8 + n, 11 + n) = four
    <3>1. /\ SubSeq(b, (7 + n) + 1, (7 + n) + 4) \in Seq(Octet)
          /\ Len(SubSeq(b, (7 + n) + 1, (7 + n) + 4)) = 4
          /\ \A i \in 1 .. 4 : SubSeq(b, (7 + n) + 1, (7 + n) + 4)[i] = b[(7 + n) + i]
      <4>1. (7 + n) + 4 <= Len(b) /\ 7 + n \in Nat /\ 4 \in Nat
        BY <1>1, <1>4
      <4> QED
        BY ONLY b \in Seq(Octet), <4>1, CutFrom
    <3> DEFINE s == SubSeq(b, (7 + n) + 1, (7 + n) + 4)
    <3>2. s \in Seq(Octet) /\ Len(s) = 4 /\ \A i \in 1 .. 4 : s[i] = four[i]
      BY <1>3, <3>1
    <3>3. s = SubSeq(b, 8 + n, 11 + n)
      <4>1. (7 + n) + 1 = 8 + n /\ (7 + n) + 4 = 11 + n
        BY <1>1
      <4> QED
        BY <4>1
    <3> HIDE DEF s, four
    <3>4. s = four
      <4>1. PICK t \in Seq(Octet) : t = four /\ Len(t) = 4
        BY <1>2
      <4>2. s \in Seq(Octet) /\ Len(s) = Len(t) /\ \A i \in 1 .. Len(s) : s[i] = t[i]
        BY <3>2, <4>1
      <4>3. s = t
        BY ONLY <4>1, <4>2, SeqEqual
      <4> QED
        BY <4>1, <4>3
    <3> QED
      BY <3>3, <3>4
  <2>4. 256 * b[12 + n] + b[13 + n] = request.size
    <3>1. b[7 + n + 4 + 1] = two[1] /\ b[7 + n + 4 + 2] = two[2]
      BY <1>3
    <3>2. 7 + n + 4 + 1 = 12 + n /\ 7 + n + 4 + 2 = 13 + n
      BY <1>1
    <3> QED
      BY <1>2, <3>1, <3>2
  <2> HIDE DEF n, four, two
  <2> QED
    <3>1. Parsed(b) = [name |-> request.name, window |-> four, size |-> request.size]
      BY <1>6, <2>1, <2>2, <2>3, <2>4
    <3> QED
      BY <1>13, <3>1 DEF four
<1>14. CASE four[1] # 0
  <2>1. k # n
    BY <1>8, <1>11, <1>14
  <2>2. Len(SubSeq(b, 7 + 1, 7 + k)) = k
    <3>1. 7 + k <= Len(b)
      BY <1>1, <1>4, <1>10
    <3> QED
      BY <1>10, <3>1, CutFrom
  <2>3. SubSeq(b, 8, 7 + k) # request.name
    <3>0. SubSeq(b, 7 + 1, 7 + k) = SubSeq(b, 8, 7 + k)
      <4>1. 7 + 1 = 8
        OBVIOUS
      <4> QED
        BY <4>1
    <3>1. Len(SubSeq(b, 8, 7 + k)) = k
      BY <2>2, <3>0
    <3> QED
      BY <2>1, <3>1
  <2> QED
    <3>1. Parsed(b).name # request.name
      <4>1. Parsed(b).name = SubSeq(b, 8, 7 + k)
        <5> DEFINE w == SubSeq(b, 8 + k, 11 + k)
                   z == 256 * b[12 + k] + b[13 + k]
                   m == SubSeq(b, 8, 7 + k)
        <5>1. Parsed(b) = [name |-> m, window |-> w, size |-> z]
          BY <1>6
        <5> HIDE DEF w, z, m
        <5>2. Parsed(b).name = m
          BY <5>1
        <5> QED
          BY <5>2 DEF m
      <4> QED
        BY <2>3, <4>1
    <3> HIDE DEF four
    <3>2. Parsed(b) # [name |-> request.name, window |-> four, size |-> request.size]
      <4>1. [name |-> request.name, window |-> four, size |-> request.size].name = request.name
        OBVIOUS
      <4> QED
        BY <3>1, <4>1, Zenon
    <3>3. ~ (four[1] = 0)
      BY <1>14
    <3> QED
      BY <3>2, <3>3, Zenon DEF four
<1> QED
  BY <1>13, <1>14

-----------------------------------------------------------------------------
(* The request arrives. *)

\* What the server makes of an intact request, whatever its buffer held.
LEMMA IntactParsed ==
    ASSUME request \in Requests, NEW p \in Datagram, Built(p, 0, FlagConnect, RequestBytes),
           NEW behind \in Padding
    PROVE  LET s == Parsed(p \o [i \in 1 .. NameSize + 6 |-> behind]) IN
           s # None /\ s = [name |-> request.name, window |-> NetworkLong(request.window),
                            size |-> request.size]
               <=> NetworkLong(request.window)[1] = 0
<1> DEFINE rest == [i \in 1 .. NameSize + 6 |-> behind]
           b == p \o rest
           made == [name |-> request.name, window |-> NetworkLong(request.window),
                    size |-> request.size]
<1>1. NameSize \in Nat /\ behind \in Octet
  BY RequestIs, PacketAssumption, BytesAre, SMT
<1>2. rest \in Seq(Octet) /\ Len(rest) = NameSize + 6
  <2> HIDE DEF Octet
  <2> QED
    BY <1>1
<1>3. p \in Seq(Octet) /\ Len(p) = Len(request.name) + 13 /\ Len(request.name) \in Nat
  <2>1. Len(RequestBytes) = Len(request.name) + 6 /\ Len(request.name) \in Nat
    BY RequestBytesAre, RequestIs
  <2>2. p \in Seq(Octet) /\ Len(p) = 7 + Len(RequestBytes)
    BY SMT DEF Built, Datagram
  <2> QED
    BY <2>1, <2>2
<1> HIDE DEF rest
<1>4. /\ b \in Seq(Octet) /\ Len(b) = Len(p) + Len(rest)
      /\ \A i \in 1 .. Len(p) : b[i] = p[i]
  BY <1>2, <1>3, Joined
<1> HIDE DEF b
<1>5. Len(b) = Len(request.name) + NameSize + 19
  <2>1. PICK n \in Nat, m \in Nat : n = Len(request.name) /\ m = NameSize
    BY <1>1, <1>3
  <2>2. Len(b) = (n + 13) + (m + 6)
    BY <1>2, <1>3, <1>4, <2>1
  <2>3. (n + 13) + (m + 6) = n + m + 19
    OBVIOUS
  <2>4. Len(b) = n + m + 19
    BY <2>2, <2>3
  <2> QED
    BY <2>1, <2>4
<1>6. \A j \in 1 .. Len(RequestBytes) : b[7 + j] = RequestBytes[j]
  <2>1. Len(RequestBytes) = Len(request.name) + 6
    BY RequestBytesAre
  <2>2. \A j \in 1 .. Len(RequestBytes) : 7 + j \in 1 .. Len(p)
    BY <1>3, <2>1
  <2>3. \A j \in 1 .. Len(RequestBytes) : p[7 + j] = RequestBytes[j]
    BY DEF Built
  <2> QED
    BY <1>4, <2>2, <2>3
<1>7. Parsed(b) = made <=> NetworkLong(request.window)[1] = 0
  BY <1>4, <1>5, <1>6, ParsedIs
<1>8. made # None
  <2>1. request.name \in Seq(0 .. 255) /\ request.window \in Nat /\ request.size \in Nat
    <3>1. request.name \in Seq(1 .. 255) /\ request.window \in Nat /\ request.size \in Nat
      BY RequestIs
    <3> QED
      BY <3>1
  <2>2. NetworkLong(request.window) \in Seq(0 .. 255)
    BY <2>1, LongIs, BytesAre
  <2>3. made \in SetupInfo
    BY <2>1, <2>2 DEF SetupInfo
  <2> QED
    BY <2>3, NonePacket
<1> QED
  BY <1>7, <1>8 DEF b, rest

\* The connect request has to be told apart from the rest.
LEMMA FlagsApart ==
    /\ FlagRR # FlagConnect /\ FlagData # FlagConnect /\ FlagAnswer # FlagConnect
    /\ FlagData # FlagRR /\ FlagAnswer # FlagData
BY DEF FlagRR, FlagConnect, FlagData, FlagAnswer

WindowFits == NetworkLong(request.window)[1] = 0

LEMMA FitsWhen ==
    ASSUME request \in Requests
    PROVE  WindowFits <=> request.window < 16777216
<1>1. request.window \in Nat /\ request.window <= 2147483647
  BY RequestIs, RequestBounds, SMT
<1>2. NetworkLong(request.window)[1] = 0 <=> request.window < 16777216
  BY <1>1, LongAt, SMT
<1> QED
  BY <1>2, SMT DEF WindowFits

\* RequestArrives with the bound of the window as a byte.
Arrived ==
    arrival # None /\ ~arrival.packet.flipped /\ arrival.packet.bytes[7] = FlagConnect =>
        (AsRequested <=> WindowFits)

RequestInv == (arrival = None => child = "none") /\ ConnectInv /\ DataInv /\ Arrived

LEMMA RequestInit == ASSUME Init PROVE RequestInv
<1>1. Len(<< >>) = 0
  OBVIOUS
<1> QED
  BY <1>1 DEF Init, RequestInv, ConnectInv, DataInv, Arrived

\* A round of the child's loop, or of the parent's, leaves the packets behind the first.
LEMMA WaitingKept ==
    ASSUME order \in [Ends -> Orders], WaitingInv, DataInv, waiting # << >>,
           waiting' = Tail(waiting), wire' = wire
    PROVE  DataInv' /\ NoConnect(waiting[1])
<1>1. /\ 1 \in 1 .. Len(waiting)
      /\ \A k \in 1 .. Len(Tail(waiting)) :
           k + 1 \in 1 .. Len(waiting) /\ Tail(waiting)[k] = waiting[k + 1]
  BY FirstOfWaiting
<1>2. \A k \in 1 .. Len(waiting') : NoConnect(waiting'[k])
  BY <1>1 DEF DataInv
<1> QED
  BY <1>1, <1>2 DEF DataInv, NoConnect

LEMMA RequestStep ==
    ASSUME ChecksInv, RequestInv, [Next]_vars
    PROVE  RequestInv'
<1> USE DEF RequestInv
<1>0. /\ order \in [Ends -> Orders] /\ request \in Requests /\ file \in Files
      /\ seq \in Nat /\ flips \in Nat
      /\ WireInv /\ WaitingInv
  BY DEF ChecksInv, TypeInv, Ends
<1>1. CASE connectBuf
  <2>1. /\ wire' = [from |-> "rcopy", flipped |-> FALSE,
                    bytes |-> sendData("rcopy", RequestBytes, 0, FlagConnect)]
        /\ arrival = None
        /\ UNCHANGED <<order, request, file, seq, arrival, setup, child, flips, waiting>>
    BY <1>1 DEF connectBuf, Send, RequestBytes, server
  <2>2. RequestBytes \in Payload
    BY <1>0, RequestBytesAre
  <2>3. Built(wire'.bytes, 0, FlagConnect, RequestBytes) /\ wire'.from = "rcopy"
    BY <1>0, <2>1, <2>2, FlagsAre, SendSent DEF Ends
  <2>4. RequestBytes' = RequestBytes
    BY <2>1 DEF RequestBytes
  <2> QED
    BY <2>1, <2>3, <2>4 DEF ConnectInv, DataInv, NoConnect, Arrived
<1>2. CASE Flip
  <2>1. wire'.flipped /\ UNCHANGED <<order, request, arrival, setup, child, waiting>>
    BY <1>2 DEF Flip, server
  <2> QED
    BY <2>1 DEF ConnectInv, DataInv, NoConnect, Arrived, AsRequested, WindowFits, Size
<1>3. CASE processClient
  <2>1. /\ wire # None /\ wire.from = "rcopy" /\ Receive(wire, "server", Len(wire.bytes), TRUE)
        /\ child = "none"
        /\ wire' = None /\ UNCHANGED <<order, request, file, seq, flips, waiting>>
    BY <1>3 DEF processClient
  <2>2. wire.bytes[7] = FlagConnect => \E behind \in Padding :
          setup' = Parsed(wire.bytes \o [i \in 1 .. NameSize + 6 |-> behind])
    BY <1>3 DEF processClient
  <2>3. Sent(order, wire)
    BY <1>0, <2>1 DEF WireInv
  <2>4. wire.bytes \in Datagram /\ Len(wire.bytes) \in Nat /\ 7 <= Len(wire.bytes)
    BY <1>0, <2>3, SentIs DEF Datagram
  <2>5. arrival'.packet = wire /\ arrival' # None
    BY <1>0, <2>1, <2>3, <2>4, ReceiveJudged DEF Ends
  <2>6. ASSUME ~wire.flipped, wire.bytes[7] = FlagConnect
        PROVE  AsRequested' <=> WindowFits'
    <3>1. Built(wire.bytes, 0, FlagConnect, RequestBytes)
      BY <2>1, <2>6 DEF ConnectInv
    <3>3. PICK behind \in Padding :
            setup' = Parsed(wire.bytes \o [i \in 1 .. NameSize + 6 |-> behind])
      BY <2>2, <2>6
    <3>2. setup' # None /\ setup' = [name |-> request.name, window |-> NetworkLong(request.window),
                                     size |-> request.size]
            <=> NetworkLong(request.window)[1] = 0
      BY <1>0, <2>4, <2>6, <3>1, <3>3, IntactParsed
    <3> QED
      BY <2>1, <3>2 DEF AsRequested, WindowFits, Size
  <2> QED
    BY <2>1, <2>5, <2>6 DEF ConnectInv, DataInv, NoConnect, Arrived
<1>8. CASE handleSend_open
  <2>1. PICK answer \in {GoodFile, BadFile} :
          wire' = [from |-> "server", flipped |-> FALSE,
                   bytes |-> sendData("server", answer, 0, FlagAnswer)]
    BY <1>8 DEF handleSend_open, Send
  <2>2. child = "started" /\ UNCHANGED <<order, request, file, setup, arrival, waiting>>
    BY <1>8 DEF handleSend_open
  <2>3. answer \in Payload
    BY AnswersFit
  <2>4. Built(wire'.bytes, 0, FlagAnswer, answer) /\ wire'.from = "server"
    BY <1>0, <2>1, <2>3, FlagsAre, SendSent DEF Ends
  <2>5. wire'.bytes[7] # FlagConnect
    BY <2>4, FlagsApart DEF Built
  <2> QED
    BY <2>2, <2>4, <2>5 DEF ConnectInv, DataInv, NoConnect, Arrived, AsRequested, WindowFits, Size
<1>4. CASE handleSend
  <2>1. PICK pad \in Padding :
          wire' = [from |-> "server", flipped |-> FALSE,
                   bytes |-> sendData("server", Block(seq, pad), seq, FlagData)]
    BY <1>4 DEF handleSend, Send
  <2>2. UNCHANGED <<order, request, file, setup, child, arrival, waiting>>
    BY <1>4 DEF handleSend
  <2>3. Block(seq, pad) \in Payload
    BY <1>0, BlockIs
  <2>4. Built(wire'.bytes, seq, FlagData, Block(seq, pad)) /\ wire'.from = "server"
    BY <1>0, <2>1, <2>3, FlagsAre, SendSent DEF Ends
  <2>5. wire'.bytes[7] # FlagConnect
    BY <2>4, FlagsApart DEF Built
  <2> QED
    BY <2>2, <2>4, <2>5 DEF ConnectInv, DataInv, NoConnect, Arrived, AsRequested, WindowFits, Size
<1>5. CASE talkToServer
  <2>1. /\ wire # None /\ wire.from = "server" /\ Receive(wire, "rcopy", MAXBUF, udpHeader)
        /\ UNCHANGED <<order, request, file, seq, setup, child, flips, waiting>>
    BY <1>5 DEF talkToServer, server
  <2>2. Sent(order, wire)
    BY <1>0, <2>1 DEF WireInv
  <2>3. MAXBUF \in Nat /\ 7 <= MAXBUF
    BY <1>0, RequestIs
  <2>4. arrival'.packet = wire /\ arrival' # None
    BY <1>0, <2>1, <2>2, <2>3, ReceiveJudged DEF Ends
  <2>5. ~wire.flipped => wire.bytes[7] # FlagConnect
    BY <2>1 DEF DataInv, NoConnect
  <2>6. wire' # None => wire'.from = "rcopy" /\ wire'.bytes[7] = FlagRR
    <3>1. wire' = None \/ \E four \in Payload :
             wire' = [from |-> "rcopy", flipped |-> FALSE, bytes |-> sendData("rcopy", four, 0, FlagRR)]
      <4>1. \/ wire' = None
            \/ wire' = [from |-> "rcopy", flipped |-> FALSE,
                        bytes |-> sendData("rcopy", SubSeq(Received(wire, MAXBUF), 1, 4), 0, FlagRR)]
        BY <1>5 DEF talkToServer
      <4>2. SubSeq(Received(wire, MAXBUF), 1, 4) \in Payload
        BY <1>0, <2>2, <2>3, AnswerIs
      <4> QED
        BY <4>1, <4>2
    <3> QED
      BY <1>0, <3>1, FlagsAre, SendSent DEF Ends, Built
  <2> QED
    BY <2>1, <2>4, <2>5, <2>6, FlagsApart DEF ConnectInv, DataInv, NoConnect, Arrived
<1>9. CASE Arrive
  <2>1. /\ wire # None /\ wire.from = "rcopy" /\ waiting' = Append(waiting, wire) /\ wire' = None
        /\ child # "none" /\ UNCHANGED <<order, request, file, seq, flips, arrival, setup, child>>
    BY <1>9 DEF Arrive, server
  <2>2. NoConnect(wire)
    BY <2>1 DEF ConnectInv, NoConnect
  <2>3. waiting \in Seq(UdpPacket) /\ wire \in UdpPacket /\ Len(waiting) \in Nat
    <3>1. Sent(order, wire)
      BY <1>0, <2>1 DEF WireInv
    <3> QED
      BY <1>0, <3>1, SentIs DEF WaitingInv
  <2>4. /\ Len(waiting') = Len(waiting) + 1
        /\ \A k \in 1 .. Len(waiting) : waiting'[k] = waiting[k]
        /\ waiting'[Len(waiting) + 1] = wire
    BY <2>1, <2>3, AppendProperties
  <2>5. ASSUME NEW k \in 1 .. Len(waiting') PROVE NoConnect(waiting'[k])
    <3>1. k \in 1 .. Len(waiting) \/ k = Len(waiting) + 1
      BY <2>3, <2>4
    <3> QED
      BY <2>2, <2>4, <3>1 DEF DataInv
  <2>6. DataInv'
    BY <2>1, <2>5 DEF DataInv, NoConnect
  <2> QED
    BY <2>1, <2>6 DEF ConnectInv, Arrived, AsRequested, WindowFits, Size
<1>6. CASE handleSend_RR
  <2>1. /\ waiting # << >> /\ waiting' = Tail(waiting)
        /\ Receive(Head(waiting), "server", Len(Head(waiting).bytes), FALSE)
        /\ child # "none" /\ UNCHANGED <<order, request, setup, wire>>
    BY <1>6 DEF handleSend_RR, ChildReceives
  <2>2. arrival'.packet = waiting[1] /\ arrival' # None
    BY <1>0, <2>1, WaitingReceived
  <2>3. DataInv' /\ NoConnect(waiting[1])
    BY <1>0, <2>1, WaitingKept
  <2>4. ConnectInv'
    BY <2>1 DEF ConnectInv
  <2> QED
    BY <2>2, <2>3, <2>4 DEF Arrived, NoConnect
<1>10. CASE handleSend_other
  BY <1>10 DEF handleSend_other, ChildReceives, NextRound, ConnectInv, DataInv, NoConnect, Arrived, AsRequested,
               WindowFits, Size, RequestBytes
<1>11. CASE processClient_RR
  <2>1. /\ waiting # << >> /\ waiting' = Tail(waiting)
        /\ Receive(Head(waiting), "server", Len(Head(waiting).bytes), TRUE)
        /\ UNCHANGED <<order, request, setup, child, wire>>
    BY <1>11 DEF processClient_RR, server
  <2>2. arrival'.packet = waiting[1] /\ arrival' # None
    BY <1>0, <2>1, WaitingReceived
  <2>3. DataInv' /\ NoConnect(waiting[1])
    BY <1>0, <2>1, WaitingKept
  <2>4. ConnectInv'
    BY <2>1 DEF ConnectInv, RequestBytes
  <2> QED
    BY <2>2, <2>3, <2>4 DEF Arrived, NoConnect
<1>7. CASE UNCHANGED vars
  BY <1>7 DEF vars, server, ConnectInv, DataInv, NoConnect, Arrived, AsRequested, WindowFits, Size,
              RequestBytes
<1> QED
  BY <1>1, <1>2, <1>3, <1>4, <1>5, <1>6, <1>7, <1>8, <1>9, <1>10, <1>11 DEF Next

-----------------------------------------------------------------------------
(* The blocks and their numbers. *)

\* The first four bytes behind the header, or of it, when they hold a number.
LEMMA FourIs ==
    ASSUME NEW b \in Seq(Octet), NEW m \in Nat, m + 4 <= Len(b), NEW n \in Nat,
           \A i \in 1 .. 4 : b[m + i] = NetworkLong(n)[i]
    PROVE  SubSeq(b, m + 1, m + 4) = NetworkLong(n)
<1> DEFINE s == SubSeq(b, m + 1, m + 4)
           four == NetworkLong(n)
<1>1. s \in Seq(Octet) /\ Len(s) = 4 /\ \A i \in 1 .. 4 : s[i] = b[m + i]
  <2>1. 4 \in Nat
    OBVIOUS
  <2> QED
    BY <2>1, CutFrom
<1>2. four \in Seq(Octet) /\ Len(four) = 4
  BY LongIs
<1>3. \A i \in 1 .. 4 : b[m + i] = four[i]
  OBVIOUS
<1> HIDE DEF s, four
<1>4. \A i \in 1 .. Len(s) : s[i] = four[i]
  BY <1>1, <1>3
<1>5. s = four
  BY <1>1, <1>2, <1>4, SeqEqual
<1> QED
  BY <1>5 DEF s, four

\* What a receiver has of b, and of the block in it.
StartOf(b, buf) == \A i \in 1 .. Len(buf) : buf[i] = b[i]

CutOf(block, n, buf) ==
    /\ buf[7] = FlagData
    /\ SubSeq(buf, 1, 4) = NetworkLong(n)
    /\ SubSeq(buf, Header + 1, Len(buf)) \in Seq(Octet)
    /\ Len(SubSeq(buf, Header + 1, Len(buf))) = Len(buf) - 7
    /\ \A j \in 1 .. Len(buf) - 7 : SubSeq(buf, Header + 1, Len(buf))[j] = block[j]

\* What of a block arrives when all of it or only its first m bytes are received.
LEMMA BlockCut ==
    ASSUME NEW n \in Nat, NEW block \in Seq(Octet),
           NEW b \in Seq(Octet), Built(b, n, FlagData, block),
           NEW buf \in Seq(Octet), 8 <= Len(buf), Len(buf) <= 7 + Len(block), StartOf(b, buf)
    PROVE  CutOf(block, n, buf)
<1>0. PICK m \in Nat, size \in Nat : m = Len(buf) /\ size = Len(block) /\ 8 <= m /\ m <= 7 + size
  OBVIOUS
<1>1. /\ Len(b) = 7 + size /\ b[7] = FlagData
      /\ \A i \in 1 .. 4 : b[i] = NetworkLong(n)[i]
      /\ \A j \in 1 .. size : b[7 + j] = block[j]
  BY <1>0 DEF Built
<1>2. buf[7] = FlagData
  <2>1. 7 \in 1 .. m
    BY <1>0
  <2> QED
    BY <1>0, <1>1, <2>1 DEF StartOf
<1>3. SubSeq(buf, 1, 4) = NetworkLong(n)
  <2>1. PICK z \in Nat : z = 0
    OBVIOUS
  <2>2. \A i \in 1 .. 4 : i \in 1 .. m /\ z + i = i
    BY <1>0, <2>1
  <2>3. z + 4 <= Len(buf) /\ z + 1 = 1 /\ z + 4 = 4
    BY <1>0, <2>1
  <2>4. \A i \in 1 .. 4 : buf[z + i] = NetworkLong(n)[i]
    BY <1>0, <1>1, <2>2 DEF StartOf
  <2>5. SubSeq(buf, z + 1, z + 4) = NetworkLong(n)
    BY <2>3, <2>4, FourIs
  <2> QED
    BY <2>3, <2>5
<1>4. PICK k \in Nat : k = m - 7 /\ 7 + k = m
  BY <1>0
<1>5. 7 \in Nat /\ 7 + k <= Len(buf) /\ Header + 1 = 7 + 1 /\ Len(buf) = 7 + k
  BY <1>0, <1>4 DEF Header
<1>6. /\ SubSeq(buf, 7 + 1, 7 + k) \in Seq(Octet) /\ Len(SubSeq(buf, 7 + 1, 7 + k)) = k
      /\ \A j \in 1 .. k : SubSeq(buf, 7 + 1, 7 + k)[j] = buf[7 + j]
  BY <1>4, <1>5, CutFrom
<1>7. \A j \in 1 .. k : 7 + j \in 1 .. m /\ j \in 1 .. size
  BY <1>0, <1>4
<1>8. \A j \in 1 .. k : buf[7 + j] = block[j]
  BY <1>0, <1>1, <1>7 DEF StartOf
<1>9. SubSeq(buf, Header + 1, Len(buf)) = SubSeq(buf, 7 + 1, 7 + k)
  BY <1>5
<1> QED
  BY <1>0, <1>2, <1>3, <1>4, <1>6, <1>8, <1>9 DEF CutOf

\* What rcopy makes of a block.
LEMMA BlockReceived ==
    ASSUME request \in Requests, file \in Files, NEW b \in Datagram, NEW n \in Nat,
           NEW pad \in Padding, Built(b, n, FlagData, Block(n, pad))
    PROVE  LET buf == SubSeq(b, 1, Min({MAXBUF, Len(b)})) IN
           /\ buf[7] = FlagData
           /\ SubSeq(buf, 1, 4) = NetworkLong(n)
           /\ SubSeq(buf, Header + 1, Len(buf)) \in Seq(Octet)
           /\ InPlace(n + 1, SubSeq(buf, Header + 1, Len(buf)))
<1>1. PICK size \in Nat : size = request.size /\ 1 <= size
  BY RequestIs
<1>2. MAXBUF \in Nat /\ 8 <= MAXBUF
  BY RequestIs
<1> DEFINE block == Block(n, pad)
<1>3. /\ block \in Seq(Octet) /\ Len(block) = size
      /\ \A j \in 1 .. size : block[j] = IF n * size + j <= Len(file) THEN file[n * size + j] ELSE pad
  BY <1>1, BlockIs DEF Payload
<1>4. Built(b, n, FlagData, block)
  OBVIOUS
<1> HIDE DEF block
<1>5. b \in Seq(Octet) /\ Len(b) = 7 + size
  BY <1>3, <1>4 DEF Built, Datagram
<1> DEFINE m == Min({MAXBUF, Len(b)})
           buf == SubSeq(b, 1, m)
<1>6. m \in Nat /\ 8 <= m /\ m <= 7 + size /\ m = IF MAXBUF <= 7 + size THEN MAXBUF ELSE 7 + size
  BY <1>1, <1>2, <1>5, MinOfTwo
<1>7. buf \in Datagram /\ Len(buf) = m /\ \A i \in 1 .. m : buf[i] = b[i]
  <2>1. 7 <= Len(b) /\ 7 <= MAXBUF
    BY <1>1, <1>2, <1>5
  <2> QED
    BY <1>2, <2>1, ReceivedIs
<1> HIDE DEF m, buf
<1>8. buf \in Seq(Octet)
  BY <1>7 DEF Datagram
<1> DEFINE payload == SubSeq(buf, Header + 1, Len(buf))
<1>9. /\ buf[7] = FlagData /\ SubSeq(buf, 1, 4) = NetworkLong(n)
      /\ payload \in Seq(Octet) /\ Len(payload) = m - 7
      /\ \A j \in 1 .. m - 7 : payload[j] = block[j]
  <2>1. /\ n \in Nat /\ block \in Seq(Octet) /\ b \in Seq(Octet) /\ Built(b, n, FlagData, block)
        /\ buf \in Seq(Octet) /\ 8 <= Len(buf) /\ Len(buf) <= 7 + Len(block)
        /\ StartOf(b, buf)
    BY <1>1, <1>3, <1>4, <1>5, <1>6, <1>7, <1>8 DEF StartOf
  <2>2. CutOf(block, n, buf)
    BY ONLY <2>1, BlockCut
  <2> QED
    BY <1>7, <2>2 DEF CutOf
<1> HIDE DEF payload
<1>10. Len(payload) = Min({Size, MAXBUF - Header})
  <2>1. PICK room \in Nat : room = MAXBUF - Header /\ room = MAXBUF - 7
    BY <1>2 DEF Header
  <2>2. Min({size, room}) = IF size <= room THEN size ELSE room
    BY MinOfTwo
  <2>3. m - 7 = IF size <= room THEN size ELSE room
    BY <1>1, <1>2, <1>6, <2>1
  <2> QED
    BY <1>1, <1>9, <2>1, <2>2, <2>3 DEF Size
<1>11. ASSUME NEW j \in DOMAIN payload
       PROVE  LET at == ((n + 1) - 1) * Size + j IN
              IF at <= Len(file) THEN payload[j] = file[at] ELSE payload[j] \in Padding
  <2>1. j \in 1 .. m - 7
    BY <1>9
  <2>2. j \in 1 .. size
    BY <1>6, <2>1
  <2>3. payload[j] = block[j]
    BY <1>9, <2>1
  <2>4. (n + 1) - 1 = n /\ Size = size
    BY <1>1 DEF Size
  <2> QED
    BY <1>3, <2>2, <2>3, <2>4
<1>12. InPlace(n + 1, payload)
  BY <1>10, <1>11 DEF InPlace
<1> QED
  BY <1>9, <1>12 DEF payload, buf, m

\* An answer is not taken for a block.
LEMMA AnswerReceived ==
    ASSUME NEW w \in UdpPacket, w.bytes \in Datagram, 7 <= Len(w.bytes), MAXBUF \in Nat, 7 <= MAXBUF
    PROVE  Received(w, MAXBUF)[7] = w.bytes[7]
<1>1. PICK m \in Nat : m = Min({MAXBUF, Len(w.bytes)}) /\ 7 <= m
  BY ReceivedIs
<1>2. \A i \in 1 .. m : SubSeq(w.bytes, 1, m)[i] = w.bytes[i]
  BY <1>1, ReceivedIs
<1>3. 7 \in 1 .. m
  BY <1>1
<1> QED
  BY <1>1, <1>2, <1>3 DEF Received

\* What an RR has behind its header, and what the request has there.
LEMMA NumberOf ==
    ASSUME NEW b \in Seq(Octet), NEW n \in Nat, Built(b, 0, FlagRR, NetworkLong(n))
    PROVE  NumberIn(b) = NetworkLong(n)
<1>1. Len(NetworkLong(n)) = 4
  BY LongIs
<1>2. 7 \in Nat /\ 7 + 4 <= Len(b)
  <2>1. Len(b) = 7 + 4
    BY <1>1 DEF Built
  <2> QED
    BY <2>1
<1>3. \A i \in 1 .. 4 : b[7 + i] = NetworkLong(n)[i]
  BY <1>1 DEF Built
<1>4. SubSeq(b, 7 + 1, 7 + 4) = NetworkLong(n)
  BY <1>2, <1>3, FourIs
<1> QED
  BY <1>4 DEF NumberIn, Header

LEMMA StartOfRequest ==
    ASSUME request \in Requests, NEW b \in Seq(Octet), Built(b, 0, FlagConnect, RequestBytes)
    PROVE  NumberIn(b) \in Elsewhere
<1>1. PICK r \in Seq(Octet) : r = RequestBytes
  BY RequestBytesAre DEF Payload
<1>2. Len(r) \in Nat /\ 4 <= Len(r)
  <2>1. Len(RequestBytes) = Len(request.name) + 6 /\ Len(request.name) \in Nat
    BY RequestBytesAre, RequestIs
  <2> QED
    BY <1>1, <2>1
<1>3. /\ Len(b) = 7 + Len(r)
      /\ \A j \in 1 .. Len(r) : b[7 + j] = r[j]
  BY <1>1 DEF Built
<1> DEFINE s == SubSeq(b, 7 + 1, 7 + 4)
           t == SubSeq(r, 1, 4)
<1>4. s \in Seq(Octet) /\ Len(s) = 4 /\ \A i \in 1 .. 4 : s[i] = b[7 + i]
  <2>1. 7 \in Nat /\ 4 \in Nat /\ 7 + 4 <= Len(b)
    BY <1>2, <1>3
  <2> QED
    BY <2>1, CutFrom
<1>5. t \in Seq(Octet) /\ Len(t) = 4 /\ \A i \in 1 .. 4 : t[i] = r[i]
  <2>1. 4 \in 0 .. Len(r)
    BY <1>2
  <2> QED
    BY <2>1, CutAt
<1> HIDE DEF s, t
<1>6. \A i \in 1 .. Len(s) : s[i] = t[i]
  <2>1. \A i \in 1 .. 4 : i \in 1 .. Len(r)
    BY <1>2
  <2> QED
    BY <1>3, <1>4, <1>5, <2>1
<1>7. s = t
  BY <1>4, <1>5, <1>6, SeqEqual
<1>8. NumberIn(b) = s
  BY DEF NumberIn, Header, s
<1>9. t \in Elsewhere
  BY <1>1 DEF Elsewhere, RequestBytes, t
<1> QED
  BY <1>7, <1>8, <1>9

LEMMA BlocksInit == ASSUME Init PROVE BlocksInv
<1>1. << >> \in Seq(Seq(Octet)) /\ << >> \in Seq(Seq(Octet) \cup {None}) /\ Len(<< >>) = 0
  OBVIOUS
<1> QED
  BY <1>1 DEF Init, BlocksInv, Quiet, AcksInOrder

\* A process of the server takes the first RR that waits, and notes it.
LEMMA AcksNext ==
    ASSUME order \in [Ends -> Orders], WaitingInv, AcksInOrder, waiting # << >>,
           waiting' = Tail(waiting),
           NEW x, x = NumberIn(waiting[1].bytes) \/ x = None, acks' = Append(acks, x)
    PROVE  /\ AcksInOrder'
           /\ Len(acks) \in Nat /\ Len(waiting) \in Nat /\ Len(acks') = Len(acks) + 1
           /\ Len(acks') + Len(waiting') = Len(acks) + Len(waiting)
           /\ NumberIn(waiting[1].bytes) = NetworkLong(Len(acks))
<1>1. /\ waiting \in Seq(UdpPacket) /\ Len(waiting) \in Nat /\ 1 \in 1 .. Len(waiting)
      /\ Len(waiting') = Len(waiting) - 1
      /\ \A k \in 1 .. Len(waiting') : k + 1 \in 1 .. Len(waiting) /\ waiting'[k] = waiting[k + 1]
  BY FirstOfWaiting DEF WaitingInv
<1>2. PICK m \in Nat : m = Len(acks)
  BY DEF AcksInOrder
<1>3. NumberIn(waiting[1].bytes) = NetworkLong(m)
  <2>1. NumberIn(waiting[1].bytes) = NetworkLong(m + 1 - 1)
    BY <1>1, <1>2 DEF AcksInOrder
  <2>2. m + 1 - 1 = m
    OBVIOUS
  <2> QED
    BY <2>1, <2>2
<1>4. x \in Seq(Octet) \cup {None} /\ (x = NetworkLong(m) \/ x = None)
  BY <1>3, LongIs
<1>5. /\ acks' \in Seq(Seq(Octet) \cup {None}) /\ Len(acks') = m + 1
      /\ \A k \in 1 .. m : acks'[k] = acks[k]
      /\ acks'[m + 1] = x
  <2>1. acks \in Seq(Seq(Octet) \cup {None})
    BY DEF AcksInOrder
  <2> QED
    BY <1>2, <1>4, <2>1, AppendProperties
<1>6. ASSUME NEW k \in 1 .. Len(acks') PROVE acks'[k] = NetworkLong(k - 1) \/ acks'[k] = None
  <2>1. k \in 1 .. m \/ k = m + 1
    BY <1>5
  <2>2. CASE k \in 1 .. m
    BY <1>2, <1>5, <2>2 DEF AcksInOrder
  <2>3. CASE k = m + 1
    <3>1. k - 1 = m
      BY <2>3
    <3> QED
      BY <1>4, <1>5, <2>3, <3>1
  <2> QED
    BY <2>1, <2>2, <2>3
<1>7. ASSUME NEW k \in 1 .. Len(waiting')
      PROVE  NumberIn(waiting'[k].bytes) = NetworkLong(Len(acks') + k - 1)
  <2>1. k + 1 \in 1 .. Len(waiting) /\ waiting'[k] = waiting[k + 1]
    BY <1>1
  <2>2. NumberIn(waiting[k + 1].bytes) = NetworkLong(m + (k + 1) - 1)
    BY <1>2, <2>1 DEF AcksInOrder
  <2>3. m + (k + 1) - 1 = Len(acks') + k - 1
    BY <1>1, <1>5
  <2> QED
    BY <2>1, <2>2, <2>3
<1>8. Len(acks') + Len(waiting') = Len(acks) + Len(waiting)
  BY <1>1, <1>2, <1>5
<1>9. AcksInOrder'
  BY <1>5, <1>6, <1>7 DEF AcksInOrder, NumberIn
<1> QED
  BY <1>1, <1>2, <1>3, <1>5, <1>8, <1>9

\* What stands between the two ends is told by these variables.
LEMMA UnderWayKept ==
    ASSUME request' = request, file' = file, seq' = seq, wire' = wire, blocks' = blocks,
           Len(acks') + Len(waiting') = Len(acks) + Len(waiting), UnderWay
    PROVE  UnderWay'
<1>1. \A pad : Block(seq - 1, pad)' = Block(seq - 1, pad)
  BY DEF Block, Size
<1> QED
  BY <1>1, SMT DEF UnderWay, BetweenBlocks, AnswerUnderWay, BlockUnderWay, AckUnderWay, Built,
                   NumberIn

LEMMA InPlaceKept ==
    ASSUME request' = request, file' = file
    PROVE  \A k, payload : InPlace(k, payload)' <=> InPlace(k, payload)
BY DEF InPlace, Size

LEMMA BlocksStep ==
    ASSUME ChecksInv, RequestInv, BlocksInv, [Next]_vars
    PROVE  BlocksInv'
<1> SUFFICES ASSUME flips' = 0
             PROVE  /\ wire' # None => ~wire'.flipped
                    /\ blocks' \in Seq(Seq(Octet))
                    /\ IF child' = "none" THEN Quiet' ELSE UnderWay'
                    /\ \A k \in 1 .. Len(blocks') : InPlace(k, blocks[k])'
                    /\ AcksInOrder'
  BY DEF BlocksInv
<1>0. /\ order \in [Ends -> Orders] /\ request \in Requests /\ file \in Files
      /\ seq \in Nat /\ flips \in Nat
      /\ WireInv /\ WaitingInv
  BY DEF ChecksInv, TypeInv, Ends
<1>a. ASSUME flips = 0
      PROVE  /\ wire # None => ~wire.flipped
             /\ blocks \in Seq(Seq(Octet))
             /\ IF child = "none" THEN Quiet ELSE UnderWay
             /\ \A k \in 1 .. Len(blocks) : InPlace(k, blocks[k])
             /\ AcksInOrder
  BY <1>a DEF BlocksInv
<1>1. CASE connectBuf
  <2>1. /\ wire' = [from |-> "rcopy", flipped |-> FALSE,
                    bytes |-> sendData("rcopy", RequestBytes, 0, FlagConnect)]
        /\ wire = None /\ arrival = None
        /\ UNCHANGED <<order, request, file, setup, child, seq, held, waiting, arrival, blocks, acks,
                       flips>>
    BY <1>1 DEF connectBuf, Send, RequestBytes, server
  <2>2. RequestBytes \in Payload
    BY <1>0, RequestBytesAre
  <2>3. Built(wire'.bytes, 0, FlagConnect, RequestBytes) /\ wire'.from = "rcopy" /\ ~wire'.flipped
    BY <1>0, <2>1, <2>2, FlagsAre, SendSent DEF Ends
  <2>4. wire'.bytes[7] = FlagConnect
    BY <2>3 DEF Built
  <2>5. child = "none" /\ Quiet
    BY <1>a, <2>1 DEF RequestInv
  <2>6. Quiet'
    BY <2>1, <2>3, <2>4, <2>5 DEF Quiet
  <2>7. AcksInOrder'
    BY <1>a, <2>1 DEF AcksInOrder, NumberIn
  <2> QED
    BY <1>a, <2>1, <2>3, <2>5, <2>6, <2>7, InPlaceKept
<1>2. CASE Flip
  <2>1. flips' = flips + 1
    BY <1>2 DEF Flip
  <2> QED
    BY <1>0, <2>1
<1>3. CASE processClient
  <2>1. /\ wire # None /\ wire.from = "rcopy" /\ child = "none" /\ wire' = None
        /\ UNCHANGED <<request, file, seq, waiting, blocks, acks, flips>>
    BY <1>3 DEF processClient
  <2>2. Quiet /\ flips = 0
    BY <1>a, <2>1
  <2>3. wire.bytes[7] = FlagConnect
    BY <2>1, <2>2 DEF Quiet
  <2>4. BetweenBlocks'
    <3>1. Len(<< >>) = 0 /\ 0 + 0 = 0
      OBVIOUS
    <3> QED
      BY <2>1, <2>2, <3>1 DEF Quiet, BetweenBlocks
  <2>5. child' # "none"
    BY <1>3, <2>3 DEF processClient
  <2>6. AcksInOrder'
    BY <1>a, <2>1 DEF AcksInOrder, NumberIn
  <2> QED
    BY <1>a, <2>1, <2>4, <2>5, <2>6, InPlaceKept DEF UnderWay
<1>8. CASE handleSend_open
  <2>1. PICK answer \in {GoodFile, BadFile} :
          wire' = [from |-> "server", flipped |-> FALSE,
                   bytes |-> sendData("server", answer, 0, FlagAnswer)]
    BY <1>8 DEF handleSend_open, Send
  <2>2. /\ wire = None /\ child = "started" /\ child' # "none"
        /\ UNCHANGED <<order, request, file, setup, seq, waiting, blocks, acks, flips>>
    BY <1>8 DEF handleSend_open
  <2>3. answer \in Payload
    BY AnswersFit
  <2>4. /\ Built(wire'.bytes, 0, FlagAnswer, answer) /\ wire'.from = "server" /\ Sent(order, wire')
        /\ ~wire'.flipped
    BY <1>0, <2>1, <2>3, FlagsAre, SendSent DEF Ends
  <2>5. wire' # None /\ wire'.bytes[7] = FlagAnswer
    BY <2>4, NonePacket DEF Sent, Built
  <2>6. BetweenBlocks
    BY <1>a, <2>2 DEF Quiet, UnderWay, BetweenBlocks, AnswerUnderWay, BlockUnderWay, AckUnderWay
  <2>7. AnswerUnderWay'
    BY <2>2, <2>4, <2>5, <2>6 DEF BetweenBlocks, AnswerUnderWay
  <2>8. AcksInOrder'
    BY <1>a, <2>2 DEF AcksInOrder, NumberIn
  <2> QED
    BY <1>a, <2>2, <2>4, <2>6, <2>7, <2>8, InPlaceKept DEF UnderWay
<1>4. CASE handleSend
  <2>1. PICK pad \in Padding :
          wire' = [from |-> "server", flipped |-> FALSE,
                   bytes |-> sendData("server", Block(seq, pad), seq, FlagData)]
    BY <1>4 DEF handleSend, Send
  <2>2. /\ seq' = seq + 1 /\ child # "none" /\ wire = None
        /\ UNCHANGED <<order, request, file, child, waiting, arrival, blocks, acks, flips>>
    BY <1>4 DEF handleSend
  <2>3. Block(seq, pad) \in Payload
    BY <1>0, BlockIs
  <2>4. /\ Built(wire'.bytes, seq, FlagData, Block(seq, pad)) /\ wire'.from = "server"
        /\ Sent(order, wire') /\ ~wire'.flipped
    BY <1>0, <2>1, <2>3, FlagsAre, SendSent DEF Ends
  <2>5. wire' # None
    BY <2>4, NonePacket DEF Sent
  <2>6. Len(blocks) = seq /\ Len(acks) + Len(waiting) = seq
    BY <1>a, <2>2 DEF UnderWay, BetweenBlocks, AnswerUnderWay, BlockUnderWay, AckUnderWay
  <2>7. seq' - 1 = seq /\ seq' # 0
    BY <1>0, <2>2
  <2>8. Built(wire.bytes, seq - 1, FlagData, Block(seq - 1, pad))'
    <3>1. Block(seq - 1, pad)' = Block(seq, pad)
      BY <2>2, <2>7 DEF Block, Size
    <3> QED
      BY <2>4, <2>7, <3>1 DEF Built
  <2>9. BlockUnderWay'
    BY <2>2, <2>4, <2>5, <2>6, <2>7, <2>8 DEF BlockUnderWay
  <2>10. AcksInOrder'
    BY <1>a, <2>2 DEF AcksInOrder, NumberIn
  <2> QED
    BY <1>a, <2>2, <2>4, <2>9, <2>10, InPlaceKept DEF UnderWay
<1>5. CASE talkToServer
  <2> DEFINE buf == Received(wire, MAXBUF)
             four == SubSeq(buf, 1, 4)
             payload == SubSeq(buf, Header + 1, Len(buf))
  <2>1. /\ wire # None /\ wire.from = "server"
        /\ UNCHANGED <<order, request, file, seq, child, waiting, acks, flips>>
        /\ IF buf[7] = FlagData
           THEN /\ blocks' = Append(blocks, payload)
                /\ wire' = [from |-> "rcopy", flipped |-> FALSE,
                            bytes |-> sendData("rcopy", four, 0, FlagRR)]
           ELSE wire' = None /\ UNCHANGED blocks
    BY <1>5 DEF talkToServer, server
  <2>2. child # "none" /\ (AnswerUnderWay \/ BlockUnderWay)
    BY <1>a, <2>1 DEF Quiet, UnderWay, BetweenBlocks, AckUnderWay
  <2>3. Sent(order, wire) /\ wire \in UdpPacket /\ wire.bytes \in Datagram /\ 7 <= Len(wire.bytes)
    <3>1. Sent(order, wire)
      BY <1>0, <2>1 DEF WireInv
    <3> QED
      BY <1>0, <3>1, SentIs
  <2>4. AcksInOrder'
    BY <1>a, <2>1 DEF AcksInOrder, NumberIn
  <2>5. CASE AnswerUnderWay
    <3>1. MAXBUF \in Nat /\ 7 <= MAXBUF
      BY <1>0, RequestIs
    <3>2. buf[7] # FlagData
      BY <2>3, <2>5, <3>1, AnswerReceived, FlagsApart DEF AnswerUnderWay
    <3>3. wire' = None /\ blocks' = blocks
      BY <2>1, <3>2
    <3>4. BetweenBlocks'
      BY <2>1, <2>5, <3>3 DEF BetweenBlocks, AnswerUnderWay
    <3> QED
      BY <1>a, <2>1, <2>2, <2>4, <3>3, <3>4, InPlaceKept DEF UnderWay
  <2>6. CASE BlockUnderWay
    <3>1. PICK pad \in Padding : Built(wire.bytes, seq - 1, FlagData, Block(seq - 1, pad))
      BY <2>6 DEF BlockUnderWay
    <3>2. seq - 1 \in Nat /\ (seq - 1) + 1 = seq
      BY <1>0, <2>6 DEF BlockUnderWay
    <3>3. /\ buf[7] = FlagData /\ four = NetworkLong(seq - 1)
          /\ payload \in Seq(Octet) /\ InPlace((seq - 1) + 1, payload)
      BY <1>0, <2>3, <3>1, <3>2, BlockReceived DEF Received
    <3> HIDE DEF buf, four, payload
    <3>4. four \in Payload
      <4>1. four \in Seq(Octet) /\ Len(four) = 4
        BY <3>2, <3>3, LongIs
      <4> QED
        BY <4>1, FourFits
    <3>5. /\ Built(wire'.bytes, 0, FlagRR, four) /\ wire'.from = "rcopy"
          /\ Sent(order, wire') /\ ~wire'.flipped
      <4>1. wire' = [from |-> "rcopy", flipped |-> FALSE,
                     bytes |-> sendData("rcopy", four, 0, FlagRR)]
        BY <2>1, <3>3
      <4> QED
        BY <1>0, <3>4, <4>1, FlagsAre, SendSent DEF Ends
    <3>6. wire' # None /\ wire'.bytes \in Seq(Octet)
      BY <1>0, <3>5, NonePacket, SentIs DEF Sent, Datagram
    <3>7. NumberIn(wire'.bytes) = NetworkLong(seq - 1)
      <4>1. Built(wire'.bytes, 0, FlagRR, NetworkLong(seq - 1))
        BY <3>3, <3>5
      <4> QED
        BY <3>2, <3>6, <4>1, NumberOf
    <3>8. /\ blocks' \in Seq(Seq(Octet)) /\ Len(blocks') = Len(blocks) + 1
          /\ \A k \in 1 .. Len(blocks) : blocks'[k] = blocks[k]
          /\ blocks'[Len(blocks) + 1] = payload
      <4>1. blocks \in Seq(Seq(Octet)) /\ blocks' = Append(blocks, payload)
        BY <1>a, <2>1, <3>3
      <4> QED
        BY <3>3, <4>1, AppendProperties
    <3>9. Len(blocks) = seq - 1 /\ Len(acks) + Len(waiting) = seq - 1 /\ seq # 0
      BY <2>6 DEF BlockUnderWay
    <3>10. Len(blocks') = seq
      BY <3>2, <3>8, <3>9
    <3>11. AckUnderWay'
      BY <2>1, <3>5, <3>6, <3>7, <3>9, <3>10 DEF AckUnderWay, NumberIn
    <3>12. ASSUME NEW k \in 1 .. Len(blocks') PROVE InPlace(k, blocks'[k])
      <4>1. k \in 1 .. Len(blocks) \/ k = Len(blocks) + 1
        BY <3>2, <3>8, <3>9
      <4>2. CASE k \in 1 .. Len(blocks)
        BY <1>a, <2>1, <3>8, <4>2
      <4>3. CASE k = Len(blocks) + 1
        BY <3>2, <3>3, <3>8, <3>9, <4>3
      <4> QED
        BY <4>1, <4>2, <4>3
    <3>13. \A k \in 1 .. Len(blocks') : InPlace(k, blocks[k])'
      BY <2>1, <3>12, InPlaceKept
    <3> QED
      BY <2>1, <2>2, <2>4, <3>5, <3>8, <3>11, <3>13 DEF UnderWay
  <2> QED
    BY <2>2, <2>5, <2>6
<1>9. CASE Arrive
  <2>1. /\ child # "none" /\ wire # None /\ wire.from = "rcopy"
        /\ waiting' = Append(waiting, wire) /\ wire' = None
        /\ UNCHANGED <<order, request, file, seq, flips, child, blocks, acks>>
    BY <1>9 DEF Arrive, server
  <2>2. AckUnderWay
    BY <1>a, <2>1 DEF UnderWay, BetweenBlocks, AnswerUnderWay, BlockUnderWay
  <2>3. waiting \in Seq(UdpPacket) /\ wire \in UdpPacket /\ Len(waiting) \in Nat
    <3>1. Sent(order, wire)
      BY <1>0, <2>1 DEF WireInv
    <3> QED
      BY <1>0, <3>1, SentIs DEF WaitingInv
  <2>4. /\ Len(waiting') = Len(waiting) + 1
        /\ \A k \in 1 .. Len(waiting) : waiting'[k] = waiting[k]
        /\ waiting'[Len(waiting) + 1] = wire
    BY <2>1, <2>3, AppendProperties
  <2>5. PICK m \in Nat : m = Len(acks)
    BY <1>a, <2>1 DEF AcksInOrder
  <2>6. /\ Len(blocks) = seq /\ m + Len(waiting) = seq - 1
        /\ NumberIn(wire.bytes) = NetworkLong(seq - 1)
    BY <2>2, <2>5 DEF AckUnderWay
  <2>7. BetweenBlocks'
    <3>1. m + Len(waiting') = seq
      BY <1>0, <2>3, <2>4, <2>6
    <3> QED
      BY <2>1, <2>5, <2>6, <3>1 DEF BetweenBlocks
  <2>8. ASSUME NEW k \in 1 .. Len(waiting')
        PROVE  NumberIn(waiting'[k].bytes) = NetworkLong(m + k - 1)
    <3>1. k \in 1 .. Len(waiting) \/ k = Len(waiting) + 1
      BY <2>3, <2>4
    <3>2. CASE k \in 1 .. Len(waiting)
      BY <1>a, <2>1, <2>4, <2>5, <3>2 DEF AcksInOrder
    <3>3. CASE k = Len(waiting) + 1
      <4>1. m + k - 1 = seq - 1
        BY <1>0, <2>3, <2>6, <3>3
      <4> QED
        BY <2>4, <2>6, <3>3, <4>1
    <3> QED
      BY <3>1, <3>2, <3>3
  <2>9. AcksInOrder'
    BY <1>a, <2>1, <2>5, <2>8 DEF AcksInOrder, NumberIn
  <2> QED
    BY <1>a, <2>1, <2>7, <2>9, InPlaceKept DEF UnderWay
<1>6. CASE handleSend_RR
  <2>1. /\ waiting # << >> /\ waiting' = Tail(waiting) /\ child # "none" /\ child' # "none"
        /\ acks' = Append(acks, NumberIn(Head(waiting).bytes))
        /\ UNCHANGED <<order, request, file, seq, wire, blocks, flips>>
    BY <1>6 DEF handleSend_RR, ChildReceives, NextRound
  <2>2. AcksInOrder' /\ Len(acks') + Len(waiting') = Len(acks) + Len(waiting)
    <3>1. Head(waiting) = waiting[1]
      BY <1>0, <2>1, FirstOfWaiting
    <3> QED
      BY <1>0, <1>a, <2>1, <3>1, AcksNext
  <2>3. UnderWay'
    BY <1>a, <2>1, <2>2, UnderWayKept
  <2> QED
    BY <1>a, <2>1, <2>2, <2>3, InPlaceKept
<1>10. CASE handleSend_other
  <2>1. /\ child # "none" /\ child' # "none"
        /\ UNCHANGED <<order, request, file, seq, wire, waiting, blocks, acks, flips>>
    BY <1>10 DEF handleSend_other, ChildReceives, NextRound
  <2>2. UnderWay' /\ AcksInOrder'
    BY <1>a, <2>1, UnderWayKept DEF AcksInOrder, NumberIn
  <2> QED
    BY <1>a, <2>1, <2>2, InPlaceKept
<1>11. CASE processClient_RR
  <2>1. /\ waiting # << >> /\ waiting' = Tail(waiting) /\ acks' = Append(acks, None)
        /\ UNCHANGED <<order, request, file, child, seq, wire, blocks, flips>>
    BY <1>11 DEF processClient_RR, server
  <2>2. AcksInOrder' /\ Len(acks') + Len(waiting') = Len(acks) + Len(waiting)
    BY <1>0, <1>a, <2>1, AcksNext
  <2>3. child # "none"
    BY <1>a, <2>1 DEF Quiet
  <2>4. UnderWay'
    BY <1>a, <2>1, <2>2, <2>3, UnderWayKept
  <2> QED
    BY <1>a, <2>1, <2>2, <2>3, <2>4, InPlaceKept
<1>7. CASE UNCHANGED vars
  <2>1. UNCHANGED <<order, request, file, setup, child, seq, held, waiting, blocks, acks, wire, flips>>
    BY <1>7 DEF vars, server
  <2>2. (Quiet' <=> Quiet) /\ (AcksInOrder' <=> AcksInOrder)
    BY <2>1 DEF Quiet, AcksInOrder, NumberIn
  <2>3. UnderWay => UnderWay'
    BY <2>1, UnderWayKept
  <2> QED
    BY <1>a, <2>1, <2>2, <2>3, InPlaceKept
<1> QED
  BY <1>1, <1>2, <1>3, <1>4, <1>5, <1>6, <1>7, <1>8, <1>9, <1>10, <1>11 DEF Next

-----------------------------------------------------------------------------
(* What the child makes of the RRs. *)

LEMMA KnownSince ==
    ASSUME NEW x, NEW n \in Nat, NEW m \in Nat, n <= m, Known(x, n)
    PROVE  Known(x, m)
<1>1. ASSUME NEW i \in 0 .. n - 1 PROVE i \in 0 .. m - 1
  OBVIOUS
<1> QED
  BY <1>1 DEF Known

LEMMA KnownOne ==
    ASSUME NEW n \in Nat
    PROVE  Known(NetworkLong(n), n + 1)
<1>1. n \in 0 .. (n + 1) - 1
  OBVIOUS
<1> QED
  BY <1>1 DEF Known

LEMMA TrailsInit == ASSUME Init PROVE TrailsInv
BY DEF Init, TrailsInv, Known, Elsewhere

LEMMA KnownKept ==
    ASSUME request' = request
    PROVE  \A x, n : Known(x, n)' <=> Known(x, n)
BY DEF Known, Elsewhere

LEMMA TrailsStep ==
    ASSUME ChecksInv, RequestInv, BlocksInv, TrailsInv, [Next]_vars
    PROVE  TrailsInv'
<1> SUFFICES ASSUME flips' = 0
             PROVE  /\ Known(rrBuf', Len(acks'))
                    /\ child' # "none" =>
                         /\ Known(held'.number, Len(acks'))
                         /\ held'.from = "rcopy" =>
                              \E n \in 0 .. Len(acks') - 1 :
                                 held'.number = NetworkLong(n) /\ Known(rrBuf', n)
  <2>1. request' = request
    BY DEF Next, vars, connectBuf, Flip, processClient, handleSend_open, handleSend, talkToServer,
           Arrive, handleSend_RR, handleSend_other, processClient_RR
  <2> QED
    BY <2>1, KnownKept DEF TrailsInv
<1>0. /\ order \in [Ends -> Orders] /\ request \in Requests /\ flips \in Nat
      /\ WireInv /\ WaitingInv
  BY DEF ChecksInv, TypeInv, Ends
<1>f. flips = 0
  <2>1. CASE Flip
    <3>1. flips' = flips + 1
      BY <2>1 DEF Flip
    <3> QED
      BY <1>0, <3>1
  <2>2. CASE ~Flip
    BY <2>2 DEF Next, vars, connectBuf, processClient, handleSend_open, handleSend, talkToServer,
                Arrive, handleSend_RR, handleSend_other, processClient_RR
  <2> QED
    BY <2>1, <2>2
<1>a. /\ Known(rrBuf, Len(acks))
      /\ child # "none" =>
           /\ Known(held.number, Len(acks))
           /\ held.from = "rcopy" =>
                \E n \in 0 .. Len(acks) - 1 : held.number = NetworkLong(n) /\ Known(rrBuf, n)
  BY <1>f DEF TrailsInv
<1>b. /\ wire # None => ~wire.flipped
      /\ IF child = "none" THEN Quiet ELSE UnderWay
      /\ AcksInOrder
      /\ Len(acks) \in Nat
  BY <1>f DEF BlocksInv, AcksInOrder
<1>1. CASE UNCHANGED <<held, rrBuf, acks>> /\ (child # "none" <=> child' # "none")
  BY <1>1, <1>a
<1>2. CASE processClient
  <2>1. /\ wire # None /\ wire.from = "rcopy" /\ child = "none"
        /\ UNCHANGED <<rrBuf, acks>>
    BY <1>2 DEF processClient
  <2>2. wire.bytes[7] = FlagConnect /\ ~wire.flipped
    BY <1>b, <2>1 DEF Quiet
  <2>3. held' = [from |-> "connect", number |-> NumberIn(wire.bytes)]
    BY <1>2, <2>2 DEF processClient
  <2>4. Built(wire.bytes, 0, FlagConnect, RequestBytes)
    BY <2>1, <2>2 DEF RequestInv, ConnectInv
  <2>5. wire.bytes \in Seq(Octet)
    <3>1. Sent(order, wire)
      BY <1>0, <2>1 DEF WireInv
    <3> QED
      BY <1>0, <3>1, SentIs DEF Datagram
  <2>6. Known(held'.number, Len(acks'))
    BY <1>0, <2>3, <2>4, <2>5, StartOfRequest DEF Known
  <2>7. held'.from # "rcopy"
    BY <2>3
  <2> QED
    BY <1>a, <2>1, <2>6, <2>7
<1>3. CASE handleSend_RR
  <2>1. /\ waiting # << >> /\ waiting' = Tail(waiting) /\ child # "none"
        /\ acks' = Append(acks, NumberIn(Head(waiting).bytes))
        /\ rrBuf' \in {rrBuf, held.number}
        /\ held' = [from |-> "rcopy", number |-> NumberIn(Head(waiting).bytes)]
    BY <1>3 DEF handleSend_RR, ChildReceives, NextRound
  <2>2. PICK n \in Nat : n = Len(acks)
    BY <1>b
  <2>3. Len(acks') = n + 1 /\ NumberIn(Head(waiting).bytes) = NetworkLong(n)
    <3>1. Head(waiting) = waiting[1]
      BY <1>0, <2>1, FirstOfWaiting
    <3> QED
      BY <1>0, <1>b, <2>1, <2>2, <3>1, AcksNext
  <2>4. Known(rrBuf', n)
    BY <1>a, <2>1, <2>2
  <2>5. Known(rrBuf', n + 1)
    BY <2>4, KnownSince
  <2>6. held'.number = NetworkLong(n) /\ Known(held'.number, n + 1)
    BY <2>1, <2>3, KnownOne
  <2>7. n \in 0 .. (n + 1) - 1
    OBVIOUS
  <2> QED
    BY <2>3, <2>4, <2>5, <2>6, <2>7
<1>4. CASE handleSend_other
  <2>1. PICK number \in Others : NextRound("other", number)
    BY <1>4 DEF handleSend_other
  <2>2. child # "none" /\ acks' = acks
    BY <1>4 DEF handleSend_other, ChildReceives
  <2>3. rrBuf' \in {rrBuf, held.number} /\ held'.number = number /\ held'.from # "rcopy"
    BY <2>1 DEF NextRound
  <2>4. Known(number, Len(acks))
    BY DEF Known, Elsewhere
  <2> QED
    BY <1>a, <2>2, <2>3, <2>4
<1>5. CASE processClient_RR
  <2>1. /\ waiting # << >> /\ waiting' = Tail(waiting) /\ acks' = Append(acks, None)
        /\ UNCHANGED <<child, held, rrBuf>>
    BY <1>5 DEF processClient_RR, server
  <2>2. PICK m \in Nat : m = Len(acks)
    BY <1>b
  <2>3. Len(acks') = m + 1
    BY <1>0, <1>b, <2>1, <2>2, AcksNext
  <2>4. \A x : Known(x, m) => Known(x, m + 1)
    BY KnownSince
  <2>5. \A n \in 0 .. m - 1 : n \in 0 .. (m + 1) - 1
    OBVIOUS
  <2> QED
    BY <1>a, <2>1, <2>2, <2>3, <2>4, <2>5
<1>6. ASSUME [Next]_vars, ~processClient, ~handleSend_RR, ~handleSend_other, ~processClient_RR
      PROVE  UNCHANGED <<held, rrBuf, acks>> /\ (child # "none" <=> child' # "none")
  BY <1>6 DEF Next, vars, server, connectBuf, Flip, handleSend_open, handleSend, talkToServer, Arrive
<1> QED
  BY <1>1, <1>2, <1>3, <1>4, <1>5, <1>6

\* All that the theorems rest on.
PacketInv == ChecksInv /\ RequestInv /\ BlocksInv /\ TrailsInv

LEMMA PacketInvHolds == Spec => []PacketInv
<1>1. Init => PacketInv
  BY ChecksInit, RequestInit, BlocksInit, TrailsInit DEF PacketInv
<1>2. PacketInv /\ [Next]_vars => PacketInv'
  BY ChecksStep, RequestStep, BlocksStep, TrailsStep DEF PacketInv
<1> QED
  BY <1>1, <1>2, PTL DEF Spec

\* rcopy.c:127-200, 280-303, server.c:65-131, 181-264.  The request, the blocks and the
\* numbers in the RRs are read as they were written, and rrBuf trails.
THEOREM TransferEndsAgree == Spec => []EndsAgree
<1>1. ASSUME PacketInv PROVE EndsAgree
  <2>0. request \in Requests /\ seq \in Nat /\ waiting \in Seq(UdpPacket)
    BY <1>1 DEF PacketInv, ChecksInv, TypeInv, WaitingInv
  <2>1. RequestArrives
    BY <1>1, <2>0, FitsWhen, SMT DEF PacketInv, RequestInv, Arrived, RequestArrives
  <2>2. ASSUME flips = 0
        PROVE  /\ blocks \in Seq(Seq(Octet))
               /\ IF child = "none" THEN Quiet ELSE UnderWay
               /\ \A k \in 1 .. Len(blocks) : InPlace(k, blocks[k])
               /\ AcksInOrder
    BY <1>1, <2>2 DEF PacketInv, BlocksInv
  <2>3. BlocksArrive
    <3>1. SUFFICES ASSUME flips = 0, NEW k \in DOMAIN blocks PROVE InPlace(k, blocks[k])
      BY DEF BlocksArrive, InPlace
    <3>2. DOMAIN blocks = 1 .. Len(blocks)
      BY <2>2, <3>1
    <3> QED
      BY <2>2, <3>1, <3>2
  <2>4. NumbersComeBack
    <3> SUFFICES ASSUME flips = 0
                 PROVE  /\ Len(acks) <= Len(blocks)
                        /\ \A k \in DOMAIN acks : acks[k] = NetworkLong(k - 1) \/ acks[k] = None
                        /\ held # None /\ held.from = "rcopy" =>
                             \E n \in 0 .. Len(acks) - 1 :
                                held.number = NetworkLong(n) /\ Known(rrBuf, n)
      BY DEF NumbersComeBack, Known
    <3>1. Len(acks) \in Nat /\ DOMAIN acks = 1 .. Len(acks) /\ Len(waiting) \in Nat
      BY <2>0, <2>2 DEF AcksInOrder
    <3>2. Len(acks) <= Len(blocks)
      <4>1. CASE child = "none"
        BY <2>2, <3>1, <4>1 DEF Quiet
      <4>2. CASE child # "none"
        <5>1. \/ Len(blocks) = seq /\ Len(acks) + Len(waiting) = seq
              \/ Len(blocks) = seq - 1 /\ Len(acks) + Len(waiting) = seq - 1
              \/ Len(blocks) = seq /\ Len(acks) + Len(waiting) = seq - 1
          BY <2>2, <4>2 DEF UnderWay, BetweenBlocks, AnswerUnderWay, BlockUnderWay, AckUnderWay
        <5> QED
          BY <2>0, <3>1, <5>1
      <4> QED
        BY <4>1, <4>2
    <3>3. \A k \in DOMAIN acks : acks[k] = NetworkLong(k - 1) \/ acks[k] = None
      BY <2>2, <3>1 DEF AcksInOrder
    <3>4. ASSUME held # None, held.from = "rcopy"
          PROVE  \E n \in 0 .. Len(acks) - 1 : held.number = NetworkLong(n) /\ Known(rrBuf, n)
      <4>1. child # "none"
        BY <2>2, <3>4 DEF Quiet
      <4> QED
        BY <1>1, <3>4, <4>1 DEF PacketInv, TrailsInv
    <3> QED
      BY <3>2, <3>3, <3>4
  <2> QED
    BY <2>1, <2>3, <2>4 DEF EndsAgree
<1> QED
  BY <1>1, PacketInvHolds, PTL

-----------------------------------------------------------------------------
(* Where bytes are found in a packet. *)

Holds(p, at, part) ==
    /\ at + Len(part) <= Len(p)
    /\ \A i \in 1 .. Len(part) : p[at + i] = part[i]

LEMMA HoldsJoined ==
    ASSUME NEW a \in Seq(Octet), NEW b \in Seq(Octet)
    PROVE  /\ a \o b \in Seq(Octet) /\ Len(a \o b) = Len(a) + Len(b)
           /\ Holds(a \o b, 0, a) /\ Holds(a \o b, Len(a), b)
<1>1. PICK m \in Nat, n \in Nat : m = Len(a) /\ n = Len(b)
  OBVIOUS
<1>2. PICK p : p = a \o b
  OBVIOUS
<1>3. /\ p \in Seq(Octet) /\ Len(p) = m + n
      /\ \A i \in 1 .. m : p[i] = a[i]
      /\ \A j \in 1 .. n : p[m + j] = b[j]
  BY <1>1, <1>2, Joined
<1>4. \A i \in 1 .. m : 0 + i = i
  OBVIOUS
<1>5. Holds(p, 0, a)
  BY <1>1, <1>3, <1>4 DEF Holds
<1>6. Holds(p, m, b)
  BY <1>1, <1>3 DEF Holds
<1> QED
  BY <1>1, <1>2, <1>3, <1>5, <1>6

LEMMA HoldsWithin ==
    ASSUME NEW p \in Seq(Octet), NEW q \in Seq(Octet), NEW part \in Seq(Octet),
           NEW m \in Nat, NEW k \in Nat, Holds(p, m, q), Holds(q, k, part)
    PROVE  Holds(p, m + k, part)
<1>1. PICK a \in Nat, b \in Nat, c \in Nat : a = Len(p) /\ b = Len(q) /\ c = Len(part)
  OBVIOUS
<1>2. /\ m + b <= a /\ k + c <= b
      /\ \A i \in 1 .. b : p[m + i] = q[i]
      /\ \A i \in 1 .. c : q[k + i] = part[i]
  BY <1>1 DEF Holds
<1>3. \A i \in 1 .. c : k + i \in 1 .. b /\ m + (k + i) = (m + k) + i
  BY <1>2
<1>4. \A i \in 1 .. c : p[(m + k) + i] = part[i]
  BY <1>2, <1>3
<1>5. (m + k) + c <= a
  BY <1>2
<1> QED
  BY <1>1, <1>4, <1>5 DEF Holds

LEMMA HoldsFirst ==
    ASSUME NEW p \in Seq(Octet), NEW q \in Seq(Octet), NEW part \in Seq(Octet),
           NEW k \in Nat, Holds(p, 0, q), Holds(q, k, part)
    PROVE  Holds(p, k, part)
<1>1. PICK z \in Nat : z = 0 /\ z + k = k
  OBVIOUS
<1>2. Holds(p, z + k, part)
  <2>1. Holds(p, z, q)
    BY <1>1
  <2> QED
    BY <2>1, HoldsWithin
<1> QED
  BY <1>1, <1>2

LEMMA AfterIs ==
    ASSUME NEW p \in Seq(Octet), NEW m \in Nat, m <= Len(p)
    PROVE  /\ After(p, m) \in Seq(Octet) /\ Len(After(p, m)) = Len(p) - m
           /\ \A i \in 1 .. Len(p) - m : After(p, m)[i] = p[m + i]
<1> HIDE DEF Octet
<1>1. m \in 0 .. Len(p)
  OBVIOUS
<1> QED
  BY <1>1, CutAt DEF After

LEMMA HoldsAfter ==
    ASSUME NEW p \in Seq(Octet), NEW part \in Seq(Octet), NEW m \in Nat, NEW k \in Nat,
           Holds(p, m + k, part)
    PROVE  Holds(After(p, m), k, part)
<1>1. PICK a \in Nat, c \in Nat : a = Len(p) /\ c = Len(part)
  OBVIOUS
<1>2. (m + k) + c <= a /\ \A i \in 1 .. c : p[(m + k) + i] = part[i]
  BY <1>1 DEF Holds
<1>3. PICK r : r = After(p, m)
  OBVIOUS
<1>4. Len(r) = a - m /\ \A i \in 1 .. a - m : r[i] = p[m + i]
  <2>1. m <= Len(p)
    BY <1>1, <1>2
  <2> QED
    BY <1>1, <1>3, <2>1, AfterIs
<1>5. \A i \in 1 .. c : k + i \in 1 .. a - m /\ m + (k + i) = (m + k) + i
  BY <1>2
<1>6. \A i \in 1 .. c : r[k + i] = part[i]
  BY <1>2, <1>4, <1>5
<1>7. k + c <= Len(r)
  BY <1>2, <1>4
<1> QED
  BY <1>1, <1>3, <1>6, <1>7 DEF Holds

LEMMA FieldIs ==
    ASSUME NEW p \in Seq(Octet), NEW part \in Seq(Octet), NEW at \in Nat, Holds(p, at, part)
    PROVE  Field(p, at, Len(part)) = part
<1>1. PICK n \in Nat : n = Len(part)
  OBVIOUS
<1>2. at + n <= Len(p) /\ \A i \in 1 .. n : p[at + i] = part[i]
  BY <1>1 DEF Holds
<1>3. PICK f : f = SubSeq(p, at + 1, at + n)
  OBVIOUS
<1>4. f \in Seq(Octet) /\ Len(f) = n /\ \A i \in 1 .. n : f[i] = p[at + i]
  BY <1>2, <1>3, CutFrom
<1>5. f = part
  BY <1>1, <1>2, <1>4, SeqEqual
<1> QED
  BY <1>1, <1>3, <1>5 DEF Field

LEMMA ShortHeld ==
    ASSUME NEW p, NEW n, IsShort(n), NEW at \in Nat, Holds(p, at, NetworkShort(n))
    PROVE  ntohs_at(p, at) = n
<1>1. PICK s \in Seq(Octet) : /\ s = NetworkShort(n) /\ Len(s) = 2 /\ 256 * s[1] + s[2] = n
  BY ShortIs DEF IsShort
<1>2. 1 \in 1 .. Len(s) /\ 2 \in 1 .. Len(s) /\ \A i \in 1 .. Len(s) : p[at + i] = s[i]
  BY <1>1 DEF Holds
<1>3. p[at + 1] = s[1] /\ p[at + 2] = s[2]
  BY <1>2
<1>4. (at + 1) + 1 = at + 2
  OBVIOUS
<1> QED
  BY <1>1, <1>3, <1>4 DEF ntohs_at, Short

LEMMA HoldsChanged ==
    ASSUME NEW p \in Seq(Octet), NEW part \in Seq(Octet), NEW at \in Nat, Holds(p, at, part),
           NEW j \in Nat, j <= at \/ at + Len(part) < j, NEW x
    PROVE  Holds([p EXCEPT ![j] = x], at, part)
<1>1. PICK c \in Nat : c = Len(part)
  OBVIOUS
<1>2. PICK q : q = [p EXCEPT ![j] = x]
  OBVIOUS
<1>3. DOMAIN p = 1 .. Len(p) /\ Len(p) \in Nat /\ DOMAIN q = DOMAIN p /\ Len(q) = Len(p)
  BY <1>2
<1>4. \A i \in 1 .. c : at + i \in DOMAIN p /\ at + i # j
  BY <1>1, <1>3 DEF Holds
<1>5. \A i \in 1 .. c : q[at + i] = p[at + i]
  BY <1>2, <1>4
<1> QED
  BY <1>1, <1>2, <1>3, <1>5 DEF Holds

-----------------------------------------------------------------------------
(* Ethernet and ARP *)

LEMMA BytesOfFrame ==
    ASSUME NEW b, NEW n, IsBytes(b, n)
    PROVE  b \in Seq(Octet) /\ Len(b) = n
BY BytesAre DEF IsBytes

\* A type and what follows it, behind two addresses.
FrameLaid(p, dest, src, type, body) ==
    /\ IsBytes(dest, 6) /\ IsBytes(src, 6) /\ IsShort(type)
    /\ body \in Seq(Octet) /\ Holds(body, 0, NetworkShort(type))
    /\ p = dest \o src \o body

LEMMA EthernetIs ==
    ASSUME NEW p, NEW dest, NEW src, NEW type, NEW body, FrameLaid(p, dest, src, type, body)
    PROVE  /\ p \in Seq(Octet) /\ Len(p) = 12 + Len(body)
           /\ Field(p, 0, 6) = dest /\ Field(p, 6, 6) = src /\ ntohs_at(p, 12) = type
           /\ After(p, 14) \in Seq(Octet) /\ Len(After(p, 14)) = Len(body) - 2
           /\ \A k \in Nat : \A part \in Seq(Octet) :
                Holds(body, 2 + k, part) => Holds(After(p, 14), k, part)
<1>0. /\ IsBytes(dest, 6) /\ IsBytes(src, 6) /\ IsShort(type)
      /\ body \in Seq(Octet) /\ Holds(body, 0, NetworkShort(type))
      /\ p = dest \o src \o body
  BY Zenon DEF FrameLaid
<1>1. dest \in Seq(Octet) /\ Len(dest) = 6 /\ src \in Seq(Octet) /\ Len(src) = 6
  BY <1>0, BytesOfFrame
<1>2. PICK macs : macs = dest \o src
  OBVIOUS
<1>3. macs \in Seq(Octet) /\ Len(macs) = 12 /\ Holds(macs, 0, dest) /\ Holds(macs, 6, src)
  <2>1. /\ macs \in Seq(Octet) /\ Len(macs) = Len(dest) + Len(src)
        /\ Holds(macs, 0, dest) /\ Holds(macs, Len(dest), src)
    BY <1>1, <1>2, HoldsJoined
  <2> QED
    BY <1>1, <2>1
<1>4. /\ p \in Seq(Octet) /\ Len(p) = 12 + Len(body) /\ Holds(p, 0, macs) /\ Holds(p, 12, body)
  <2>1. /\ macs \o body \in Seq(Octet) /\ Len(macs \o body) = Len(macs) + Len(body)
        /\ Holds(macs \o body, 0, macs) /\ Holds(macs \o body, Len(macs), body)
    BY <1>0, <1>3, HoldsJoined
  <2> QED
    BY <1>0, <1>2, <1>3, <2>1
<1>5. Field(p, 0, 6) = dest /\ Field(p, 6, 6) = src
  <2>1. 0 \in Nat /\ 6 \in Nat
    OBVIOUS
  <2>2. Holds(p, 0, dest) /\ Holds(p, 6, src)
    BY <1>1, <1>3, <1>4, <2>1, HoldsFirst
  <2>3. Field(p, 0, Len(dest)) = dest /\ Field(p, 6, Len(src)) = src
    BY <1>1, <1>4, <2>1, <2>2, FieldIs
  <2> QED
    BY <1>1, <2>3
<1>6. ntohs_at(p, 12) = type
  <2>1. NetworkShort(type) \in Seq(Octet)
    BY <1>0, ShortIs DEF IsShort
  <2>2. 12 \in Nat /\ 0 \in Nat /\ 12 + 0 = 12
    OBVIOUS
  <2>3. Holds(p, 12 + 0, NetworkShort(type))
    BY ONLY <1>0, <1>4, <2>1, <2>2, HoldsWithin
  <2> QED
    BY <1>0, <2>2, <2>3, ShortHeld
<1>7. 14 \in Nat /\ 14 <= Len(p)
  <2>1. Len(NetworkShort(type)) = 2
    BY <1>0, ShortIs DEF IsShort
  <2>2. 0 + 2 <= Len(body) /\ Len(body) \in Nat
    BY <1>0, <2>1 DEF Holds
  <2> QED
    BY <1>4, <2>2
<1>8. After(p, 14) \in Seq(Octet) /\ Len(After(p, 14)) = Len(p) - 14
  BY <1>4, <1>7, AfterIs
<1>9. ASSUME NEW k \in Nat, NEW part \in Seq(Octet), Holds(body, 2 + k, part)
      PROVE  Holds(After(p, 14), k, part)
  <2>1. 12 \in Nat /\ 2 + k \in Nat /\ 12 + (2 + k) = 14 + k
    OBVIOUS
  <2>2. Holds(p, 12 + (2 + k), part)
    BY <1>0, <1>4, <1>9, <2>1, HoldsWithin
  <2> QED
    BY <1>4, <1>7, <2>1, <2>2, HoldsAfter
<1>10. Len(p) - 14 = Len(body) - 2
  BY <1>0, <1>4
<1> QED
  BY <1>4, <1>5, <1>6, <1>8, <1>9, <1>10

LEMMA ArpIs ==
    ASSUME NEW d, IsFrame(d), d.kind = "arp"
    PROVE  /\ ArpBytes(d) \in Seq(Octet) /\ Len(ArpBytes(d)) = 28
           /\ Holds(ArpBytes(d), 6, NetworkShort(d.op))
           /\ Holds(ArpBytes(d), 8, d.senderMac) /\ Holds(ArpBytes(d), 14, d.senderIp)
           /\ Holds(ArpBytes(d), 18, d.targetMac) /\ Holds(ArpBytes(d), 24, d.targetIp)
<1>1. /\ IsShort(d.op) /\ IsBytes(d.senderMac, 6) /\ IsBytes(d.senderIp, 4)
      /\ IsBytes(d.targetMac, 6) /\ IsBytes(d.targetIp, 4)
  BY DEF IsFrame
<1>2. PICK a, b, c, e, f : /\ a = d.senderMac /\ b = d.senderIp /\ c = d.targetMac
                           /\ e = d.targetIp /\ f = NetworkShort(d.op)
  OBVIOUS
<1>3. /\ a \in Seq(Octet) /\ Len(a) = 6 /\ b \in Seq(Octet) /\ Len(b) = 4
      /\ c \in Seq(Octet) /\ Len(c) = 6 /\ e \in Seq(Octet) /\ Len(e) = 4
  BY <1>1, <1>2, BytesOfFrame
<1>4. f \in Seq(Octet) /\ Len(f) = 2
  BY <1>1, <1>2, ShortIs DEF IsShort
<1>5. PICK fixed : fixed = <<0, 1, 8, 0, 6, 4>>
  OBVIOUS
<1>6. fixed \in Seq(Octet) /\ Len(fixed) = 6
  <2>1. 0 \in Octet /\ 1 \in Octet /\ 8 \in Octet /\ 6 \in Octet /\ 4 \in Octet
    BY OctetIs
  <2> HIDE DEF Octet
  <2> QED
    BY <1>5, <2>1
<1>7. PICK p1 : p1 = fixed \o f
  OBVIOUS
<1>8. p1 \in Seq(Octet) /\ Len(p1) = 8 /\ Holds(p1, 6, f)
  <2>1. /\ p1 \in Seq(Octet) /\ Len(p1) = Len(fixed) + Len(f)
        /\ Holds(p1, 0, fixed) /\ Holds(p1, Len(fixed), f)
    BY <1>4, <1>6, <1>7, HoldsJoined
  <2> QED
    BY <1>4, <1>6, <2>1
<1>9. PICK p2 : p2 = p1 \o a
  OBVIOUS
<1>10. p2 \in Seq(Octet) /\ Len(p2) = 14 /\ Holds(p2, 0, p1) /\ Holds(p2, 8, a)
  <2>1. /\ p2 \in Seq(Octet) /\ Len(p2) = Len(p1) + Len(a)
        /\ Holds(p2, 0, p1) /\ Holds(p2, Len(p1), a)
    BY <1>3, <1>8, <1>9, HoldsJoined
  <2> QED
    BY <1>3, <1>8, <2>1
<1>11. PICK p3 : p3 = p2 \o b
  OBVIOUS
<1>12. p3 \in Seq(Octet) /\ Len(p3) = 18 /\ Holds(p3, 0, p2) /\ Holds(p3, 14, b)
  <2>1. /\ p3 \in Seq(Octet) /\ Len(p3) = Len(p2) + Len(b)
        /\ Holds(p3, 0, p2) /\ Holds(p3, Len(p2), b)
    BY <1>3, <1>10, <1>11, HoldsJoined
  <2> QED
    BY <1>3, <1>10, <2>1
<1>13. PICK p4 : p4 = p3 \o c
  OBVIOUS
<1>14. p4 \in Seq(Octet) /\ Len(p4) = 24 /\ Holds(p4, 0, p3) /\ Holds(p4, 18, c)
  <2>1. /\ p4 \in Seq(Octet) /\ Len(p4) = Len(p3) + Len(c)
        /\ Holds(p4, 0, p3) /\ Holds(p4, Len(p3), c)
    BY <1>3, <1>12, <1>13, HoldsJoined
  <2> QED
    BY <1>3, <1>12, <2>1
<1>15. PICK p5 : p5 = p4 \o e
  OBVIOUS
<1>16. p5 \in Seq(Octet) /\ Len(p5) = 28 /\ Holds(p5, 0, p4) /\ Holds(p5, 24, e)
  <2>1. /\ p5 \in Seq(Octet) /\ Len(p5) = Len(p4) + Len(e)
        /\ Holds(p5, 0, p4) /\ Holds(p5, Len(p4), e)
    BY <1>3, <1>14, <1>15, HoldsJoined
  <2> QED
    BY <1>3, <1>14, <2>1
<1>17. 6 \in Nat /\ 8 \in Nat /\ 14 \in Nat /\ 18 \in Nat
  OBVIOUS
<1>18. Holds(p2, 6, f)
  BY <1>4, <1>8, <1>10, <1>17, HoldsFirst
<1>19. Holds(p3, 6, f) /\ Holds(p3, 8, a)
  BY <1>3, <1>4, <1>10, <1>12, <1>17, <1>18, HoldsFirst
<1>20. Holds(p4, 6, f) /\ Holds(p4, 8, a) /\ Holds(p4, 14, b)
  BY <1>3, <1>4, <1>12, <1>14, <1>17, <1>19, HoldsFirst
<1>21. Holds(p5, 6, f) /\ Holds(p5, 8, a) /\ Holds(p5, 14, b) /\ Holds(p5, 18, c)
  BY <1>3, <1>4, <1>14, <1>16, <1>17, <1>20, HoldsFirst
<1>22. ArpBytes(d) = p5
  BY <1>2, <1>5, <1>7, <1>9, <1>11, <1>13, <1>15 DEF ArpBytes
<1> QED
  BY <1>2, <1>16, <1>21, <1>22

-----------------------------------------------------------------------------
(* A checksum put into a packet, and a byte inverted behind it. *)

\* What the definition of the checksum gives, for any number of bytes.
LEMMA ChecksumRange ==
    ASSUME NEW o, NEW b \in Seq(Octet)
    PROVE  InternetChecksum(o, b) \in Nat /\ InternetChecksum(o, b) <= 65535
<1>1. PICK s \in Nat : s = SumOfWords(o, b)
  BY SumRange
<1>2. Residue(s) \in Nat /\ Residue(s) <= 65535
  BY ResidueIs
<1> QED
  BY <1>1, <1>2, InternetIs

LEMMA TwoBytes ==
    ASSUME NEW n \in Nat, n <= 65535
    PROVE  /\ n \div 256 \in Octet /\ n % 256 \in Octet
           /\ Word("big", n \div 256, n % 256) = n
<1>1. PICK h \in Int, l \in Int : h = n \div 256 /\ l = n % 256
  BY SMT
<1>2. n = 256 * h + l /\ 0 <= l /\ l <= 255
  BY <1>1, SMT
<1>3. 0 <= h /\ h <= 255
  BY <1>2, SMT
<1>4. h \in Octet /\ l \in Octet
  BY <1>2, <1>3, OctetIs, SMT
<1>5. Word("big", h, l) = 256 * h + l
  BY DEF Word
<1> QED
  BY <1>1, <1>2, <1>4, <1>5

\* What puts a checksum in its place changes its two bytes.
LEMMA FilledIs ==
    ASSUME NEW b, NEW at, NEW n, NEW x, NEW y, x = n \div 256, y = n % 256
    PROVE  WithChecksum(b, at, n) = [b EXCEPT ![at] = x, ![at + 1] = y]
<1>1. WithChecksum(b, at, n) = [b EXCEPT ![at] = n \div 256, ![at + 1] = n % 256]
  BY Zenon DEF WithChecksum
<1> QED
  BY <1>1, Zenon

LEMMA ChangedIs ==
    ASSUME NEW b \in Seq(Octet), NEW i \in 1 .. Len(b), NEW x \in Octet,
           NEW w, w = [b EXCEPT ![i] = x]
    PROVE  /\ w \in Seq(Octet) /\ Len(w) = Len(b)
           /\ \A k \in 1 .. Len(b) : w[k] = IF k = i THEN x ELSE b[k]
OBVIOUS

LEMMA ChangedBoth ==
    ASSUME NEW b \in Seq(Octet), NEW i \in 1 .. Len(b), NEW j \in 1 .. Len(b),
           NEW x \in Octet, NEW y \in Octet, NEW w, w = [b EXCEPT ![i] = x, ![j] = y]
    PROVE  /\ w \in Seq(Octet) /\ Len(w) = Len(b)
           /\ \A k \in 1 .. Len(b) : k # i /\ k # j => w[k] = b[k]
<1>1. PICK v : v = [b EXCEPT ![i] = x]
  OBVIOUS
<1>2. /\ v \in Seq(Octet) /\ Len(v) = Len(b)
      /\ \A k \in 1 .. Len(b) : v[k] = IF k = i THEN x ELSE b[k]
  BY <1>1, ChangedIs
<1>3. w = [v EXCEPT ![j] = y] /\ j \in 1 .. Len(v)
  BY <1>1, <1>2
<1>4. /\ w \in Seq(Octet) /\ Len(w) = Len(v)
      /\ \A k \in 1 .. Len(v) : w[k] = IF k = j THEN y ELSE v[k]
  BY ONLY <1>2, <1>3, ChangedIs, y \in Octet
<1> QED
  BY <1>2, <1>4

LEMMA ChecksumFilled ==
    ASSUME NEW b \in Datagram, NEW at \in Nat, at % 2 = 1, at \in 1 .. Len(b), at + 1 \in 1 .. Len(b),
           b[at] = 0, b[at + 1] = 0, NEW x \in Octet, NEW y \in Octet,
           Word("big", x, y) = InternetChecksum("big", b)
    PROVE  /\ [b EXCEPT ![at] = x, ![at + 1] = y] \in Datagram
           /\ in_cksum("little", [b EXCEPT ![at] = x, ![at + 1] = y]) = 0
<1>0. "big" \in Orders /\ "little" \in Orders
  BY DEF Orders
<1>1. PICK n \in Nat : n <= 65535 /\ n = InternetChecksum("big", b) /\ n = in_cksum("big", b)
  BY CksumIs
<1>4. PICK w : w = [b EXCEPT ![at] = x, ![at + 1] = y]
  OBVIOUS
<1>6. w \in Datagram /\ SumOfWords("big", w) = SumOfWords("big", b) + n
  <2>1. /\ [b EXCEPT ![at] = x, ![at + 1] = y] \in Datagram
        /\ SumOfWords("big", [b EXCEPT ![at] = x, ![at + 1] = y])
              = SumOfWords("big", b) + Word("big", x, y)
    BY <1>0, FilledSum
  <2> QED
    BY <1>1, <1>4, <2>1
<1>7. in_cksum("big", w) = 0
  BY <1>0, <1>1, <1>6, FullWithChecksum
<1>8. in_cksum("big", w) = Swapped(in_cksum("little", w))
  BY <1>6, CksumTurned
<1>9. PICK m \in Nat : m = in_cksum("little", w) /\ m <= 65535
  BY <1>6, CksumIs
<1>10. m = 0
  <2>1. Swapped(m) = 0
    BY <1>7, <1>8, <1>9
  <2> QED
    BY <1>9, <2>1, SwappedRange
<1> QED
  BY <1>4, <1>6, <1>9, <1>10

LEMMA DamageShows ==
    ASSUME NEW w \in Datagram, in_cksum("little", w) = 0, NEW j \in 1 .. Len(w)
    PROVE  /\ Damaged(w, j) \in Datagram /\ Len(Damaged(w, j)) = Len(w)
           /\ in_cksum("little", Damaged(w, j)) # 0
           /\ \E x \in Octet : Damaged(w, j) = [w EXCEPT ![j] = x]
<1>1. "little" \in Orders
  BY DEF Orders
<1>2. PICK v : v = [w EXCEPT ![j] = 255 - w[j]]
  OBVIOUS
<1>3. v \in Datagram /\ in_cksum("little", v) # 0
  <2>1. /\ [w EXCEPT ![j] = 255 - w[j]] \in Datagram
        /\ in_cksum("little", [w EXCEPT ![j] = 255 - w[j]]) # in_cksum("little", w)
    BY <1>1, CksumOfInverted
  <2> QED
    BY <1>2, <2>1, Zenon
<1>4. Damaged(w, j) = v
  BY <1>2 DEF Damaged
<1>5. w \in Seq(Octet) /\ v \in Seq(Octet)
  BY <1>3 DEF Datagram
<1>6. 255 - w[j] \in Octet
  BY <1>5, InvertedIs
<1>7. Len(v) = Len(w)
  BY ONLY <1>2, <1>5, <1>6, ChangedIs, j \in 1 .. Len(w)
<1> QED
  BY <1>2, <1>3, <1>4, <1>6, <1>7

-----------------------------------------------------------------------------
(* The IP header *)

\* A header laid out as RFC 791 says, before its checksum.
HeaderLaid(v, s, tot, frag, ttl, proto, src, dest, opts) ==
    <<v, s>> \o tot \o <<0, 7>> \o frag \o <<ttl, proto, 0, 0>> \o src \o dest \o opts

LEMMA HeaderIs ==
    ASSUME NEW v \in Octet, NEW s \in Octet, NEW ttl \in Octet, NEW proto \in Octet,
           NEW total \in Seq(Octet), Len(total) = 2, NEW frag \in Seq(Octet), Len(frag) = 2,
           NEW src \in Seq(Octet), Len(src) = 4, NEW dest \in Seq(Octet), Len(dest) = 4,
           NEW opts \in Seq(Octet),
           NEW h, h = HeaderLaid(v, s, total, frag, ttl, proto, src, dest, opts)
    PROVE  /\ h \in Seq(Octet) /\ Len(h) = 20 + Len(opts)
           /\ Holds(h, 0, <<v, s>>) /\ Holds(h, 2, total) /\ Holds(h, 8, <<ttl, proto, 0, 0>>)
           /\ Holds(h, 12, src) /\ Holds(h, 16, dest)
<1>0. 0 \in Octet /\ 7 \in Octet
  BY SMT DEF Octet
<1>1. PICK p1 : p1 = <<v, s>>
  OBVIOUS
<1>2. p1 \in Seq(Octet) /\ Len(p1) = 2
  BY <1>1, TwoAt
<1>3. PICK i : i = <<0, 7>>
  OBVIOUS
<1>4. i \in Seq(Octet) /\ Len(i) = 2
  BY <1>0, <1>3, TwoAt
<1>5. PICK t : t = <<ttl, proto, 0, 0>>
  OBVIOUS
<1>6. t \in Seq(Octet) /\ Len(t) = 4
  BY <1>0, <1>5, FourAt
<1>7. PICK p2 : p2 = p1 \o total
  OBVIOUS
<1>8. p2 \in Seq(Octet) /\ Len(p2) = 4 /\ Holds(p2, 2, total) /\ Holds(p2, 0, p1)
  <2>1. /\ p2 \in Seq(Octet) /\ Len(p2) = Len(p1) + Len(total)
        /\ Holds(p2, 0, p1) /\ Holds(p2, Len(p1), total)
    BY <1>2, <1>7, HoldsJoined
  <2> QED
    BY <1>2, <2>1
<1>9. PICK p3 : p3 = p2 \o i
  OBVIOUS
<1>10. p3 \in Seq(Octet) /\ Len(p3) = 6 /\ Holds(p3, 0, p2)
  <2>1. p3 \in Seq(Octet) /\ Len(p3) = Len(p2) + Len(i) /\ Holds(p3, 0, p2)
    BY <1>4, <1>8, <1>9, HoldsJoined
  <2> QED
    BY <1>4, <1>8, <2>1
<1>11. PICK p4 : p4 = p3 \o frag
  OBVIOUS
<1>12. p4 \in Seq(Octet) /\ Len(p4) = 8 /\ Holds(p4, 0, p3)
  <2>1. p4 \in Seq(Octet) /\ Len(p4) = Len(p3) + Len(frag) /\ Holds(p4, 0, p3)
    BY <1>10, <1>11, HoldsJoined
  <2> QED
    BY <1>10, <2>1
<1>13. PICK p5 : p5 = p4 \o t
  OBVIOUS
<1>14. p5 \in Seq(Octet) /\ Len(p5) = 12 /\ Holds(p5, 0, p4) /\ Holds(p5, 8, t)
  <2>1. /\ p5 \in Seq(Octet) /\ Len(p5) = Len(p4) + Len(t)
        /\ Holds(p5, 0, p4) /\ Holds(p5, Len(p4), t)
    BY <1>6, <1>12, <1>13, HoldsJoined
  <2> QED
    BY <1>6, <1>12, <2>1
<1>15. PICK p6 : p6 = p5 \o src
  OBVIOUS
<1>16. p6 \in Seq(Octet) /\ Len(p6) = 16 /\ Holds(p6, 0, p5) /\ Holds(p6, 12, src)
  <2>1. /\ p6 \in Seq(Octet) /\ Len(p6) = Len(p5) + Len(src)
        /\ Holds(p6, 0, p5) /\ Holds(p6, Len(p5), src)
    BY <1>14, <1>15, HoldsJoined
  <2> QED
    BY <1>14, <2>1
<1>17. PICK p7 : p7 = p6 \o dest
  OBVIOUS
<1>18. p7 \in Seq(Octet) /\ Len(p7) = 20 /\ Holds(p7, 0, p6) /\ Holds(p7, 16, dest)
  <2>1. /\ p7 \in Seq(Octet) /\ Len(p7) = Len(p6) + Len(dest)
        /\ Holds(p7, 0, p6) /\ Holds(p7, Len(p6), dest)
    BY <1>16, <1>17, HoldsJoined
  <2> QED
    BY <1>16, <2>1
<1>19. h = p7 \o opts
  BY <1>1, <1>3, <1>5, <1>7, <1>9, <1>11, <1>13, <1>15, <1>17 DEF HeaderLaid
<1>20. h \in Seq(Octet) /\ Len(h) = 20 + Len(opts) /\ Holds(h, 0, p7)
  <2>1. h \in Seq(Octet) /\ Len(h) = Len(p7) + Len(opts) /\ Holds(h, 0, p7)
    <3>1. p7 \in Seq(Octet) /\ opts \in Seq(Octet)
      BY <1>18
    <3> QED
      BY ONLY <1>19, <3>1, HoldsJoined
  <2> QED
    BY <1>18, <2>1
<1>21. 0 \in Nat /\ 2 \in Nat /\ 8 \in Nat /\ 12 \in Nat /\ 16 \in Nat
  OBVIOUS
<1>22. Holds(p4, 0, p1) /\ Holds(p4, 2, total)
  <2>1. Holds(p3, 0, p1) /\ Holds(p3, 2, total)
    BY <1>2, <1>8, <1>10, <1>21, HoldsFirst
  <2> QED
    BY <1>2, <1>10, <1>12, <1>21, <2>1, HoldsFirst
<1>23. Holds(p5, 0, p1) /\ Holds(p5, 2, total)
  BY <1>2, <1>12, <1>14, <1>21, <1>22, HoldsFirst
<1>24. Holds(p6, 0, p1) /\ Holds(p6, 2, total) /\ Holds(p6, 8, t)
  BY <1>2, <1>6, <1>14, <1>16, <1>21, <1>23, HoldsFirst
<1>25. Holds(p7, 0, p1) /\ Holds(p7, 2, total) /\ Holds(p7, 8, t) /\ Holds(p7, 12, src)
  BY <1>2, <1>6, <1>16, <1>18, <1>21, <1>24, HoldsFirst
<1>26. Holds(h, 0, p1) /\ Holds(h, 2, total) /\ Holds(h, 8, t) /\ Holds(h, 12, src) /\ Holds(h, 16, dest)
  BY <1>2, <1>6, <1>18, <1>20, <1>21, <1>25, HoldsFirst
<1> QED
  BY <1>1, <1>5, <1>20, <1>26

\* What a part of a packet may have had done to it behind its checksum.
LEMMA JudgedIs ==
    ASSUME NEW w \in Datagram, in_cksum("little", w) = 0, NEW j \in 1 .. Len(w),
           NEW intact \in BOOLEAN, NEW r, r = IF intact THEN w ELSE Damaged(w, j)
    PROVE  /\ r \in Datagram /\ Len(r) = Len(w)
           /\ \A k \in 1 .. Len(w) : k # j => r[k] = w[k]
           /\ in_cksum("little", r) = 0 <=> intact
<1>1. CASE intact
  <2>1. r = w
    BY <1>1
  <2> QED
    BY <1>1, <2>1
<1>2. CASE ~intact
  <2>1. r = Damaged(w, j)
    BY <1>2
  <2>2. r \in Datagram /\ Len(r) = Len(w) /\ in_cksum("little", r) # 0
    BY <2>1, DamageShows
  <2>3. PICK x \in Octet : r = [w EXCEPT ![j] = x]
    BY <2>1, DamageShows
  <2>4. w \in Seq(Octet)
    BY DEF Datagram
  <2>5. \A k \in 1 .. Len(w) : r[k] = IF k = j THEN x ELSE w[k]
    BY ONLY <2>3, <2>4, ChangedIs, j \in 1 .. Len(w)
  <2> QED
    BY <1>2, <2>2, <2>5
<1> QED
  BY <1>1, <1>2

LEMMA ChangedBehind ==
    ASSUME NEW a \in Seq(Octet), NEW b \in Seq(Octet), NEW i \in 1 .. Len(b), NEW x \in Octet
    PROVE  a \o [b EXCEPT ![i] = x] = [a \o b EXCEPT ![Len(a) + i] = x]
<1>1. PICK m \in Nat, n \in Nat : m = Len(a) /\ n = Len(b)
  OBVIOUS
<1>2. PICK c : c = [b EXCEPT ![i] = x]
  OBVIOUS
<1>3. c \in Seq(Octet) /\ Len(c) = n /\ \A k \in 1 .. n : c[k] = IF k = i THEN x ELSE b[k]
  BY <1>1, <1>2, ChangedIs
<1>4. PICK p : p = a \o b
  OBVIOUS
<1>5. /\ p \in Seq(Octet) /\ Len(p) = m + n
      /\ \A k \in 1 .. m : p[k] = a[k]
      /\ \A k \in 1 .. n : p[m + k] = b[k]
  BY <1>1, <1>4, Joined
<1>6. PICK q : q = a \o c
  OBVIOUS
<1>7. /\ q \in Seq(Octet) /\ Len(q) = m + n
      /\ \A k \in 1 .. m : q[k] = a[k]
      /\ \A k \in 1 .. n : q[m + k] = c[k]
  <2>1. /\ q \in Seq(Octet) /\ Len(q) = Len(a) + Len(c)
        /\ \A k \in 1 .. Len(a) : q[k] = a[k]
        /\ \A k \in 1 .. Len(c) : q[Len(a) + k] = c[k]
    <3>1. a \in Seq(Octet) /\ c \in Seq(Octet)
      BY <1>3
    <3> QED
      BY ONLY <1>6, <3>1, JoinedAs
  <2> QED
    BY <1>1, <1>3, <2>1
<1>8. PICK r : r = [p EXCEPT ![m + i] = x]
  OBVIOUS
<1>9. /\ r \in Seq(Octet) /\ Len(r) = m + n
      /\ \A k \in 1 .. m + n : r[k] = IF k = m + i THEN x ELSE p[k]
  <2>1. m + i \in 1 .. Len(p)
    BY <1>1, <1>5
  <2> QED
    BY <1>5, <1>8, <2>1, ChangedIs
<1>10. ASSUME NEW k \in 1 .. m + n PROVE q[k] = r[k]
  <2>1. CASE k \in 1 .. m
    BY <1>1, <1>5, <1>7, <1>9, <2>1
  <2>2. CASE k \notin 1 .. m
    <3>1. PICK h \in Nat : k = m + h /\ h \in 1 .. n
      <4>1. k - m \in 1 .. n /\ k = m + (k - m)
        BY <2>2
      <4> QED
        BY <4>1
    <3>2. q[k] = IF h = i THEN x ELSE b[h]
      BY <1>3, <1>7, <3>1
    <3>3. r[k] = IF h = i THEN x ELSE b[h]
      BY <1>1, <1>5, <1>9, <3>1
    <3> QED
      BY <3>2, <3>3
  <2> QED
    BY <2>1, <2>2
<1>11. q = r
  BY <1>7, <1>9, <1>10, SeqEqual
<1> QED
  BY <1>1, <1>2, <1>4, <1>6, <1>8, <1>11

Agree(p, q, at, part) ==
    Len(q) = Len(p) /\ \A i \in 1 .. Len(part) : q[at + i] = p[at + i]

LEMMA HoldsKept ==
    ASSUME NEW p, NEW q, NEW part, NEW at, Holds(p, at, part), Agree(p, q, at, part)
    PROVE  Holds(q, at, part)
BY DEF Holds, Agree

\* A part with its checksum put in place, sound or not.
Finished(h, at, j, intact) ==
    LET w == WithChecksum(h, at, InternetChecksum("big", h))
    IN  IF intact THEN w ELSE Damaged(w, j)

LEMMA FinishedIs ==
    ASSUME NEW h \in Datagram, NEW at \in Nat, at % 2 = 1, at \in 1 .. Len(h), at + 1 \in 1 .. Len(h),
           h[at] = 0, h[at + 1] = 0, NEW j \in 1 .. Len(h), NEW intact \in BOOLEAN,
           NEW r, r = Finished(h, at, j, intact)
    PROVE  /\ r \in Datagram /\ Len(r) = Len(h)
           /\ \A k \in 1 .. Len(h) : k # at /\ k # at + 1 /\ k # j => r[k] = h[k]
           /\ in_cksum("little", r) = 0 <=> intact
<1>0. h \in Seq(Octet)
  BY DEF Datagram
<1>8. PICK w : w = WithChecksum(h, at, InternetChecksum("big", h))
  OBVIOUS
<1>9. r = IF intact THEN w ELSE Damaged(w, j)
  BY <1>8, Zenon DEF Finished
<1>1. PICK c \in Nat : c <= 65535 /\ c = InternetChecksum("big", h)
  BY <1>0, ChecksumRange
<1>2. PICK x \in Octet, y \in Octet : x = c \div 256 /\ y = c % 256 /\ Word("big", x, y) = c
  BY <1>1, TwoBytes
<1>3. w = [h EXCEPT ![at] = x, ![at + 1] = y]
  <2>1. WithChecksum(h, at, c) = [h EXCEPT ![at] = x, ![at + 1] = y]
    BY ONLY <1>2, FilledIs
  <2> QED
    BY <1>1, <1>8, <2>1
<1>4. w \in Datagram /\ in_cksum("little", w) = 0
  <2>1. Word("big", x, y) = InternetChecksum("big", h)
    BY <1>1, <1>2
  <2>2. /\ [h EXCEPT ![at] = x, ![at + 1] = y] \in Datagram
        /\ in_cksum("little", [h EXCEPT ![at] = x, ![at + 1] = y]) = 0
    BY <2>1, ChecksumFilled
  <2> QED
    BY <1>3, <2>2
<1>5. Len(w) = Len(h) /\ \A k \in 1 .. Len(h) : k # at /\ k # at + 1 => w[k] = h[k]
  BY <1>0, <1>3, ChangedBoth
<1>6. j \in 1 .. Len(w)
  BY <1>5
<1>7. /\ r \in Datagram /\ Len(r) = Len(w)
      /\ \A k \in 1 .. Len(w) : k # j => r[k] = w[k]
      /\ in_cksum("little", r) = 0 <=> intact
  BY ONLY <1>4, <1>6, <1>9, JudgedIs, intact \in BOOLEAN
<1> QED
  BY <1>5, <1>7

-----------------------------------------------------------------------------
(* What an IP header holds *)

IsHeader(h, v, s, tot, ttl, proto, src, dest) ==
    /\ h \in Seq(Octet) /\ 20 <= Len(h) /\ Len(h) <= 60
    /\ Len(tot) = 2 /\ Len(src) = 4 /\ Len(dest) = 4
    /\ h[1] = v /\ h[2] = s /\ h[9] = ttl /\ h[10] = proto
    /\ Holds(h, 2, tot) /\ Holds(h, 12, src) /\ Holds(h, 16, dest)

LEMMA HeaderHeld ==
    ASSUME NEW v, NEW s, NEW ttl, NEW proto, NEW tot, NEW src, NEW dest,
           Len(tot) = 2, Len(src) = 4, Len(dest) = 4,
           NEW h \in Seq(Octet), 20 <= Len(h), Len(h) <= 60, Holds(h, 0, <<v, s>>), Holds(h, 2, tot), Holds(h, 8, <<ttl, proto, 0, 0>>),
           Holds(h, 12, src), Holds(h, 16, dest)
    PROVE  IsHeader(h, v, s, tot, ttl, proto, src, dest) /\ h[11] = 0 /\ h[12] = 0
<1>1. PICK t, u : t = <<v, s>> /\ u = <<ttl, proto, 0, 0>>
  OBVIOUS
<1>2. Len(t) = 2 /\ t[1] = v /\ t[2] = s
  BY <1>1
<1>3. Len(u) = 4 /\ u[1] = ttl /\ u[2] = proto /\ u[3] = 0 /\ u[4] = 0
  BY <1>1
<1>4. Holds(h, 0, t) /\ Holds(h, 8, u)
  BY <1>1
<1>5. h[0 + 1] = t[1] /\ h[0 + 2] = t[2]
  BY <1>2, <1>4 DEF Holds
<1>6. h[8 + 1] = u[1] /\ h[8 + 2] = u[2] /\ h[8 + 3] = u[3] /\ h[8 + 4] = u[4]
  BY <1>3, <1>4 DEF Holds
<1>7. h[1] = v /\ h[2] = s /\ h[9] = ttl /\ h[10] = proto /\ h[11] = 0 /\ h[12] = 0
  BY <1>2, <1>3, <1>5, <1>6
<1> QED
  BY <1>7, Zenon DEF IsHeader

LEMMA HeaderKept ==
    ASSUME NEW v, NEW s, NEW ttl, NEW proto, NEW tot, NEW src, NEW dest, NEW h,
           NEW r \in Seq(Octet), IsHeader(h, v, s, tot, ttl, proto, src, dest), Len(r) = Len(h),
           \A k \in 1 .. Len(h) : k # 11 /\ k # 12 /\ k # 6 => r[k] = h[k]
    PROVE  IsHeader(r, v, s, tot, ttl, proto, src, dest)
<1>0. Len(h) \in Nat /\ 20 <= Len(h) /\ Len(tot) = 2 /\ Len(src) = 4 /\ Len(dest) = 4
  BY DEF IsHeader
<1>1. \A k \in 1 .. 20 : k # 11 /\ k # 12 /\ k # 6 => r[k] = h[k]
  <2>1. \A k \in 1 .. 20 : k \in 1 .. Len(h)
    BY <1>0
  <2> QED
    BY <2>1
<1>2. r[1] = h[1] /\ r[2] = h[2] /\ r[9] = h[9] /\ r[10] = h[10]
  BY <1>1
<1>3. \A i \in 1 .. 2 : r[2 + i] = h[2 + i]
  <2>1. \A i \in 1 .. 2 : 2 + i \in 1 .. 20 /\ 2 + i # 11 /\ 2 + i # 12 /\ 2 + i # 6
    OBVIOUS
  <2> QED
    BY <1>1, <2>1
<1>4. \A i \in 1 .. 4 : r[12 + i] = h[12 + i]
  <2>1. \A i \in 1 .. 4 : 12 + i \in 1 .. 20 /\ 12 + i # 11 /\ 12 + i # 12 /\ 12 + i # 6
    OBVIOUS
  <2> QED
    BY <1>1, <2>1
<1>5. \A i \in 1 .. 4 : r[16 + i] = h[16 + i]
  <2>1. \A i \in 1 .. 4 : 16 + i \in 1 .. 20 /\ 16 + i # 11 /\ 16 + i # 12 /\ 16 + i # 6
    OBVIOUS
  <2> QED
    BY <1>1, <2>1
<1>6. Holds(h, 2, tot) /\ Holds(h, 12, src) /\ Holds(h, 16, dest)
  BY DEF IsHeader
<1>7. Holds(r, 2, tot) /\ Holds(r, 12, src) /\ Holds(r, 16, dest)
  <2>1. Len(r) = Len(h)
    OBVIOUS
  <2>2. Agree(h, r, 2, tot)
    BY ONLY <1>0, <1>3, <2>1 DEF Agree
  <2>3. Agree(h, r, 12, src)
    BY ONLY <1>0, <1>4, <2>1 DEF Agree
  <2>4. Agree(h, r, 16, dest)
    BY ONLY <1>0, <1>5, <2>1 DEF Agree
  <2> QED
    BY ONLY <1>6, <2>2, <2>3, <2>4, HoldsKept
<1> QED
  BY <1>2, <1>7, Zenon DEF IsHeader

\* What becomes of the header with its checksum.
LEMMA HeaderMade ==
    ASSUME NEW v, NEW s, NEW ttl, NEW proto, NEW tot, NEW src, NEW dest, NEW h,
           IsHeader(h, v, s, tot, ttl, proto, src, dest), h[11] = 0, h[12] = 0,
           NEW intact \in BOOLEAN, NEW r, r = Finished(h, 11, 6, intact)
    PROVE  /\ IsHeader(r, v, s, tot, ttl, proto, src, dest) /\ Len(r) = Len(h)
           /\ in_cksum("little", r) = 0 <=> intact
<1>1. h \in Seq(Octet)
  BY DEF IsHeader
<1>2. IsHeader(h, v, s, tot, ttl, proto, src, dest) /\ h[11] = 0 /\ h[12] = 0
  OBVIOUS
<1>3. Len(h) \in Nat /\ 20 <= Len(h) /\ Len(h) <= 60
  BY DEF IsHeader
<1>4. /\ 11 \in Nat /\ 11 % 2 = 1 /\ 11 \in 1 .. Len(h) /\ 11 + 1 \in 1 .. Len(h)
      /\ 6 \in 1 .. Len(h) /\ 11 + 1 = 12
  BY ONLY <1>3
<1>5. h \in Datagram
  BY ONLY <1>1, <1>3, SMT DEF Datagram
<1>6. h[11 + 1] = 0
  BY ONLY <1>2, <1>4
<1>7. /\ r \in Datagram /\ Len(r) = Len(h)
      /\ \A k \in 1 .. Len(h) : k # 11 /\ k # 11 + 1 /\ k # 6 => r[k] = h[k]
      /\ in_cksum("little", r) = 0 <=> intact
  BY ONLY <1>2, <1>4, <1>5, <1>6, FinishedIs, intact \in BOOLEAN,
          r = Finished(h, 11, 6, intact)
<1>8. \A k \in 1 .. Len(h) : k # 11 /\ k # 12 /\ k # 6 => r[k] = h[k]
  BY ONLY <1>4, <1>7
<1>10. r \in Seq(Octet)
  BY ONLY <1>7 DEF Datagram
<1>9. IsHeader(r, v, s, tot, ttl, proto, src, dest)
  BY ONLY <1>2, <1>7, <1>8, <1>10, HeaderKept
<1> QED
  BY ONLY <1>7, <1>9

LEMMA ShortBytes ==
    ASSUME NEW n \in Nat
    PROVE  NetworkShort(n) \in Seq(Octet) /\ Len(NetworkShort(n)) = 2
<1>1. PICK h, l : h = (n \div 256) % 256 /\ l = n % 256
  OBVIOUS
<1>2. h \in Octet /\ l \in Octet
  BY <1>1, OctetIs
<1>3. NetworkShort(n) = <<h, l>>
  BY <1>1 DEF NetworkShort
<1> QED
  BY ONLY <1>2, <1>3, TwoAt

LEMMA IpPacketIs ==
    ASSUME NEW d, IsIpPacket(d)
    PROVE  /\ d.ihl \in Nat /\ 5 <= d.ihl /\ d.ihl <= 15
           /\ d.dscp \in Nat /\ d.dscp <= 63 /\ d.ecn \in Nat /\ d.ecn <= 3
           /\ d.ttl \in Octet /\ d.transport.proto \in Octet
           /\ IsBytes(d.src, 4) /\ IsBytes(d.dest, 4) /\ d.pad \in Seq(Octet)
           /\ IsShort(d.fragment) /\ d.intact \in BOOLEAN /\ d.offloaded \in BOOLEAN
           /\ IsTransport(d.transport)
<1>1. /\ d.ihl \in 5 .. 15 /\ d.dscp \in 0 .. 63 /\ d.ecn \in 0 .. 3 /\ d.ttl \in 0 .. 255
      /\ IsBytes(d.src, 4) /\ IsBytes(d.dest, 4) /\ d.pad \in Seq(0 .. 255)
      /\ IsShort(d.fragment) /\ d.intact \in BOOLEAN /\ d.offloaded \in BOOLEAN
      /\ IsTransport(d.transport)
  BY Zenon DEF IsIpPacket
<1>2. PICK i, s, e : i = d.ihl /\ s = d.dscp /\ e = d.ecn
  OBVIOUS
<1>3. i \in Nat /\ 5 <= i /\ i <= 15 /\ s \in Nat /\ s <= 63 /\ e \in Nat /\ e <= 3
  <2>1. i \in 5 .. 15 /\ s \in 0 .. 63 /\ e \in 0 .. 3
    BY <1>1, <1>2, Zenon
  <2> QED
    BY ONLY <2>1
<1>4. d.transport.proto \in Octet
  BY <1>1, Zenon DEF IsTransport, Octet
<1>5. d.ttl \in Octet /\ d.pad \in Seq(Octet)
  BY <1>1, Zenon DEF Octet
<1> QED
  BY <1>1, <1>2, <1>3, <1>4, <1>5, Zenon

\* The IP header of any packet, with its options, sound or not.
LEMMA IpHeaderIs ==
    ASSUME NEW d, IsIpPacket(d), NEW total, IsShort(total),
           total = IF d.offloaded THEN 0 ELSE 4 * d.ihl + Len(Segment(d))
    PROVE  /\ IpHeader(d) \in Seq(Octet) /\ Len(IpHeader(d)) = 4 * d.ihl
           /\ IsHeader(IpHeader(d), 64 + d.ihl, 4 * d.dscp + d.ecn, NetworkShort(total),
                       d.ttl, d.transport.proto, d.src, d.dest)
           /\ in_cksum("little", IpHeader(d)) = 0 <=> d.intact
<1>1. PICK ihl \in Nat, dscp \in Nat, ecn \in Nat :
        /\ ihl = d.ihl /\ 5 <= ihl /\ ihl <= 15
        /\ dscp = d.dscp /\ dscp <= 63 /\ ecn = d.ecn /\ ecn <= 3
  BY IpPacketIs
<1>2. PICK v, s : v = 64 + ihl /\ s = 4 * dscp + ecn
  OBVIOUS
<1>3. v \in Octet /\ s \in Octet
  BY ONLY <1>1, <1>2, SMT DEF Octet
<1>4. PICK ttl \in Octet, proto \in Octet : ttl = d.ttl /\ proto = d.transport.proto
  BY IpPacketIs
<1>5. PICK src \in Seq(Octet), dest \in Seq(Octet) :
        src = d.src /\ dest = d.dest /\ Len(src) = 4 /\ Len(dest) = 4
  BY IpPacketIs, BytesOfFrame
<1>6. PICK tot \in Seq(Octet), frag \in Seq(Octet) :
        tot = NetworkShort(total) /\ frag = NetworkShort(d.fragment) /\ Len(tot) = 2 /\ Len(frag) = 2
  <2>1. IsShort(total) /\ IsShort(d.fragment)
    BY IpPacketIs
  <2>2. total \in Nat /\ d.fragment \in Nat
    BY ONLY <2>1 DEF IsShort
  <2>3. /\ NetworkShort(total) \in Seq(Octet) /\ Len(NetworkShort(total)) = 2
        /\ NetworkShort(d.fragment) \in Seq(Octet) /\ Len(NetworkShort(d.fragment)) = 2
    BY ONLY <2>2, ShortBytes
  <2> QED
    BY ONLY <2>3
<1>7. PICK opts : opts = [i \in 1 .. 4 * (ihl - 5) |-> 1]
  OBVIOUS
<1>8. opts \in Seq(Octet) /\ Len(opts) = 4 * (ihl - 5)
  <2>1. 1 \in Octet /\ 4 * (ihl - 5) \in Nat
    BY ONLY <1>1, SMT DEF Octet
  <2> HIDE DEF Octet
  <2> QED
    BY ONLY <1>7, <2>1
<1>9. PICK h : h = HeaderLaid(v, s, tot, frag, ttl, proto, src, dest, opts)
  OBVIOUS
<1>10. PICK intact \in BOOLEAN : intact = d.intact
  BY IpPacketIs
<1>12. PICK r : r = Finished(h, 11, 6, intact)
  OBVIOUS
<1>13. /\ r \in Seq(Octet) /\ Len(r) = 20 + Len(opts)
       /\ IsHeader(r, v, s, tot, ttl, proto, src, dest)
       /\ in_cksum("little", r) = 0 <=> intact
  <2>1. /\ ttl \in Octet /\ proto \in Octet /\ tot \in Seq(Octet) /\ frag \in Seq(Octet)
        /\ src \in Seq(Octet) /\ dest \in Seq(Octet)
        /\ Len(tot) = 2 /\ Len(frag) = 2 /\ Len(src) = 4 /\ Len(dest) = 4
    BY <1>5, <1>6
  <2>2. /\ h \in Seq(Octet) /\ Len(h) = 20 + Len(opts)
        /\ Holds(h, 0, <<v, s>>) /\ Holds(h, 2, tot) /\ Holds(h, 8, <<ttl, proto, 0, 0>>)
        /\ Holds(h, 12, src) /\ Holds(h, 16, dest)
    BY ONLY <1>3, <1>8, <1>9, <2>1, HeaderIs
  <2>3. 20 <= Len(h) /\ Len(h) <= 60
    <3>1. \A i \in Nat : 5 <= i /\ i <= 15 => 20 <= 20 + 4 * (i - 5) /\ 20 + 4 * (i - 5) <= 60
      OBVIOUS
    <3>2. ihl \in Nat /\ 5 <= ihl /\ ihl <= 15
      BY <1>1
    <3>3. Len(h) = 20 + 4 * (ihl - 5)
      BY ONLY <1>8, <2>2
    <3> QED
      BY ONLY <3>1, <3>2, <3>3
  <2>4. IsHeader(h, v, s, tot, ttl, proto, src, dest) /\ h[11] = 0 /\ h[12] = 0
    BY ONLY <2>1, <2>2, <2>3, HeaderHeld
  <2>5. intact \in BOOLEAN
    OBVIOUS
  <2>6. /\ IsHeader(r, v, s, tot, ttl, proto, src, dest) /\ Len(r) = Len(h)
        /\ in_cksum("little", r) = 0 <=> intact
    BY ONLY <1>12, <2>4, <2>5, HeaderMade
  <2> QED
    BY ONLY <2>2, <2>6, Zenon DEF IsHeader
<1>14. r = IpHeader(d)
  <2>1. h = <<64 + d.ihl, 4 * d.dscp + d.ecn>> \o NetworkShort(total)
                \o <<0, 7>> \o NetworkShort(d.fragment)
                \o <<d.ttl, d.transport.proto, 0, 0>> \o d.src \o d.dest
                \o [i \in 1 .. 4 * (d.ihl - 5) |-> 1]
    BY ONLY <1>1, <1>2, <1>4, <1>5, <1>6, <1>7, <1>9, Zenon DEF HeaderLaid
  <2>2. r = Finished(h, 11, 6, d.intact)
    BY <1>10, <1>12
  <2> QED
    BY <2>1, <2>2, Zenon DEF IpHeader, Finished
<1>15. Len(r) = 4 * ihl
  <2>1. Len(r) = 20 + Len(opts) /\ Len(opts) = 4 * (ihl - 5)
    BY <1>8, <1>13
  <2>2. ihl \in Nat
    OBVIOUS
  <2> QED
    BY ONLY <2>1, <2>2
<1> QED
  BY ONLY <1>1, <1>2, <1>4, <1>5, <1>6, <1>10, <1>13, <1>14, <1>15

-----------------------------------------------------------------------------
(* The TCP segment *)

\* A segment laid out as RFC 793 says, before its checksum.
SegmentLaid(sp, dp, seqNum, ack, a, b, win, opts, payload) ==
    sp \o dp \o seqNum \o ack \o <<a, b>> \o win \o <<0, 0, 0, 0>> \o opts \o payload

SegmentParts(sp, dp, seqNum, ack, a, b, win, opts, payload) ==
    /\ sp \in Seq(Octet) /\ Len(sp) = 2 /\ dp \in Seq(Octet) /\ Len(dp) = 2
    /\ seqNum \in Seq(Octet) /\ Len(seqNum) = 4 /\ ack \in Seq(Octet) /\ Len(ack) = 4
    /\ a \in Octet /\ b \in Octet /\ win \in Seq(Octet) /\ Len(win) = 2
    /\ opts \in Seq(Octet) /\ payload \in Seq(Octet)

LEMMA SegmentLaidIs ==
    ASSUME NEW sp, NEW dp, NEW seqNum, NEW ack, NEW a, NEW b, NEW win, NEW opts, NEW payload,
           SegmentParts(sp, dp, seqNum, ack, a, b, win, opts, payload),
           NEW s, s = SegmentLaid(sp, dp, seqNum, ack, a, b, win, opts, payload)
    PROVE  /\ s \in Seq(Octet) /\ Len(s) = 20 + Len(opts) + Len(payload)
           /\ Holds(s, 0, sp) /\ Holds(s, 2, dp) /\ Holds(s, 4, seqNum) /\ Holds(s, 8, ack)
           /\ Holds(s, 12, <<a, b>>) /\ Holds(s, 14, win) /\ Holds(s, 16, <<0, 0, 0, 0>>)
<1>0. a \in Octet /\ b \in Octet
  BY Zenon DEF SegmentParts
<1>1. PICK ab, zero : ab = <<a, b>> /\ zero = <<0, 0, 0, 0>>
  OBVIOUS
<1>2. ab \in Seq(Octet) /\ Len(ab) = 2 /\ zero \in Seq(Octet) /\ Len(zero) = 4
  <2>1. 0 \in Octet
    BY SMT DEF Octet
  <2>2. ab \in Seq(Octet) /\ Len(ab) = 2
    BY <1>0, <1>1, TwoAt
  <2>3. zero \in Seq(Octet) /\ Len(zero) = 4
    BY <1>1, <2>1, FourAt
  <2> QED
    BY <2>2, <2>3
<1>3. /\ sp \in Seq(Octet) /\ Len(sp) = 2 /\ dp \in Seq(Octet) /\ Len(dp) = 2
      /\ seqNum \in Seq(Octet) /\ Len(seqNum) = 4 /\ ack \in Seq(Octet) /\ Len(ack) = 4
      /\ win \in Seq(Octet) /\ Len(win) = 2 /\ opts \in Seq(Octet) /\ payload \in Seq(Octet)
  BY Zenon DEF SegmentParts
<1>4. 0 \in Nat /\ 2 \in Nat /\ 4 \in Nat /\ 8 \in Nat /\ 12 \in Nat /\ 14 \in Nat /\ 16 \in Nat
  OBVIOUS
<1>5. PICK p1 : p1 = sp \o dp
  OBVIOUS
<1>6. p1 \in Seq(Octet) /\ Len(p1) = 4 /\ Holds(p1, 0, sp) /\ Holds(p1, 2, dp)
  <2>1. sp \in Seq(Octet) /\ dp \in Seq(Octet)
    BY ONLY <1>2, <1>3
  <2>2. p1 \in Seq(Octet) /\ Len(p1) = Len(sp) + Len(dp) /\ Holds(p1, 0, sp) /\ Holds(p1, Len(sp), dp)
    BY ONLY <1>5, <2>1, HoldsJoined
  <2> QED
    BY ONLY <1>2, <1>3, <2>2
<1>7. PICK p2 : p2 = p1 \o seqNum
  OBVIOUS
<1>8. p2 \in Seq(Octet) /\ Len(p2) = 8 /\ Holds(p2, 0, p1) /\ Holds(p2, 4, seqNum)
  <2>1. p1 \in Seq(Octet) /\ seqNum \in Seq(Octet)
    BY ONLY <1>2, <1>3, <1>6
  <2>2. p2 \in Seq(Octet) /\ Len(p2) = Len(p1) + Len(seqNum) /\ Holds(p2, 0, p1) /\ Holds(p2, Len(p1), seqNum)
    BY ONLY <1>7, <2>1, HoldsJoined
  <2> QED
    BY ONLY <1>2, <1>3, <1>6, <2>2
<1>9. Holds(p2, 0, sp) /\ Holds(p2, 2, dp)
  BY ONLY <1>2, <1>3, <1>4, <1>8, <1>6, HoldsFirst
<1>10. PICK p3 : p3 = p2 \o ack
  OBVIOUS
<1>11. p3 \in Seq(Octet) /\ Len(p3) = 12 /\ Holds(p3, 0, p2) /\ Holds(p3, 8, ack)
  <2>1. p2 \in Seq(Octet) /\ ack \in Seq(Octet)
    BY ONLY <1>2, <1>3, <1>8
  <2>2. p3 \in Seq(Octet) /\ Len(p3) = Len(p2) + Len(ack) /\ Holds(p3, 0, p2) /\ Holds(p3, Len(p2), ack)
    BY ONLY <1>10, <2>1, HoldsJoined
  <2> QED
    BY ONLY <1>2, <1>3, <1>8, <2>2
<1>12. Holds(p3, 0, sp) /\ Holds(p3, 2, dp) /\ Holds(p3, 4, seqNum)
  BY ONLY <1>2, <1>3, <1>4, <1>11, <1>8, <1>9, HoldsFirst
<1>13. PICK p4 : p4 = p3 \o ab
  OBVIOUS
<1>14. p4 \in Seq(Octet) /\ Len(p4) = 14 /\ Holds(p4, 0, p3) /\ Holds(p4, 12, ab)
  <2>1. p3 \in Seq(Octet) /\ ab \in Seq(Octet)
    BY ONLY <1>2, <1>3, <1>11
  <2>2. p4 \in Seq(Octet) /\ Len(p4) = Len(p3) + Len(ab) /\ Holds(p4, 0, p3) /\ Holds(p4, Len(p3), ab)
    BY ONLY <1>13, <2>1, HoldsJoined
  <2> QED
    BY ONLY <1>2, <1>3, <1>11, <2>2
<1>15. Holds(p4, 0, sp) /\ Holds(p4, 2, dp) /\ Holds(p4, 4, seqNum) /\ Holds(p4, 8, ack)
  BY ONLY <1>2, <1>3, <1>4, <1>14, <1>11, <1>12, HoldsFirst
<1>16. PICK p5 : p5 = p4 \o win
  OBVIOUS
<1>17. p5 \in Seq(Octet) /\ Len(p5) = 16 /\ Holds(p5, 0, p4) /\ Holds(p5, 14, win)
  <2>1. p4 \in Seq(Octet) /\ win \in Seq(Octet)
    BY ONLY <1>2, <1>3, <1>14
  <2>2. p5 \in Seq(Octet) /\ Len(p5) = Len(p4) + Len(win) /\ Holds(p5, 0, p4) /\ Holds(p5, Len(p4), win)
    BY ONLY <1>16, <2>1, HoldsJoined
  <2> QED
    BY ONLY <1>2, <1>3, <1>14, <2>2
<1>18. Holds(p5, 0, sp) /\ Holds(p5, 2, dp) /\ Holds(p5, 4, seqNum) /\ Holds(p5, 8, ack) /\ Holds(p5, 12, ab)
  BY ONLY <1>2, <1>3, <1>4, <1>17, <1>14, <1>15, HoldsFirst
<1>19. PICK p6 : p6 = p5 \o zero
  OBVIOUS
<1>20. p6 \in Seq(Octet) /\ Len(p6) = 20 /\ Holds(p6, 0, p5) /\ Holds(p6, 16, zero)
  <2>1. p5 \in Seq(Octet) /\ zero \in Seq(Octet)
    BY ONLY <1>2, <1>3, <1>17
  <2>2. p6 \in Seq(Octet) /\ Len(p6) = Len(p5) + Len(zero) /\ Holds(p6, 0, p5) /\ Holds(p6, Len(p5), zero)
    BY ONLY <1>19, <2>1, HoldsJoined
  <2> QED
    BY ONLY <1>2, <1>3, <1>17, <2>2
<1>21. Holds(p6, 0, sp) /\ Holds(p6, 2, dp) /\ Holds(p6, 4, seqNum) /\ Holds(p6, 8, ack) /\ Holds(p6, 12, ab) /\ Holds(p6, 14, win)
  BY ONLY <1>2, <1>3, <1>4, <1>20, <1>17, <1>18, HoldsFirst
<1>22. PICK p7 : p7 = p6 \o opts
  OBVIOUS
<1>23. p7 \in Seq(Octet) /\ Len(p7) = 20 + Len(opts) /\ Holds(p7, 0, p6)
  <2>1. p6 \in Seq(Octet) /\ opts \in Seq(Octet)
    BY ONLY <1>2, <1>3, <1>20
  <2>2. p7 \in Seq(Octet) /\ Len(p7) = Len(p6) + Len(opts) /\ Holds(p7, 0, p6)
    BY ONLY <1>22, <2>1, HoldsJoined
  <2> QED
    BY ONLY <1>2, <1>3, <1>20, <2>2
<1>24. Holds(p7, 0, sp) /\ Holds(p7, 2, dp) /\ Holds(p7, 4, seqNum) /\ Holds(p7, 8, ack) /\ Holds(p7, 12, ab) /\ Holds(p7, 14, win) /\ Holds(p7, 16, zero)
  BY ONLY <1>2, <1>3, <1>4, <1>23, <1>20, <1>21, HoldsFirst
<1>25. PICK p8 : p8 = p7 \o payload
  OBVIOUS
<1>26. p8 \in Seq(Octet) /\ Len(p8) = 20 + Len(opts) + Len(payload) /\ Holds(p8, 0, p7)
  <2>1. p7 \in Seq(Octet) /\ payload \in Seq(Octet)
    BY ONLY <1>2, <1>3, <1>23
  <2>2. p8 \in Seq(Octet) /\ Len(p8) = Len(p7) + Len(payload) /\ Holds(p8, 0, p7)
    BY ONLY <1>25, <2>1, HoldsJoined
  <2> QED
    BY ONLY <1>2, <1>3, <1>23, <2>2
<1>27. Holds(p8, 0, sp) /\ Holds(p8, 2, dp) /\ Holds(p8, 4, seqNum) /\ Holds(p8, 8, ack) /\ Holds(p8, 12, ab) /\ Holds(p8, 14, win) /\ Holds(p8, 16, zero)
  BY ONLY <1>2, <1>3, <1>4, <1>26, <1>23, <1>24, HoldsFirst
<1>28. s = p8
  BY <1>1, <1>5, <1>7, <1>10, <1>13, <1>16, <1>19, <1>22, <1>25, Zenon DEF SegmentLaid
<1> QED
  BY <1>1, <1>26, <1>27, <1>28, Zenon

IsSegment(s, sp, dp, seqNum, ack, a, b, win) ==
    /\ s \in Seq(Octet) /\ 20 <= Len(s) /\ Len(s) <= 65515
    /\ Len(sp) = 2 /\ Len(dp) = 2 /\ Len(seqNum) = 4 /\ Len(ack) = 4 /\ Len(win) = 2
    /\ s[13] = a /\ s[14] = b
    /\ Holds(s, 0, sp) /\ Holds(s, 2, dp) /\ Holds(s, 4, seqNum) /\ Holds(s, 8, ack)
    /\ Holds(s, 14, win)

SegmentBegins(s, sp, dp, seqNum, ack, a, b, win) ==
    /\ s \in Seq(Octet) /\ 20 <= Len(s)
    /\ Len(sp) = 2 /\ Len(dp) = 2 /\ Len(seqNum) = 4 /\ Len(ack) = 4 /\ Len(win) = 2
    /\ Holds(s, 0, sp) /\ Holds(s, 2, dp) /\ Holds(s, 4, seqNum) /\ Holds(s, 8, ack)
    /\ Holds(s, 12, <<a, b>>) /\ Holds(s, 14, win) /\ Holds(s, 16, <<0, 0, 0, 0>>)

LEMMA SegmentHeld ==
    ASSUME NEW sp, NEW dp, NEW seqNum, NEW ack, NEW a, NEW b, NEW win, NEW s,
           SegmentBegins(s, sp, dp, seqNum, ack, a, b, win), Len(s) <= 65515
    PROVE  IsSegment(s, sp, dp, seqNum, ack, a, b, win) /\ s[17] = 0 /\ s[18] = 0
<1>0. SegmentBegins(s, sp, dp, seqNum, ack, a, b, win)
  OBVIOUS
<1>1. PICK t, u : t = <<a, b>> /\ u = <<0, 0, 0, 0>>
  BY ONLY <1>0, Zenon
<1>2. Len(t) = 2 /\ t[1] = a /\ t[2] = b
  BY ONLY <1>1
<1>3. Len(u) = 4 /\ u[1] = 0 /\ u[2] = 0
  BY ONLY <1>1
<1>8. /\ s \in Seq(Octet) /\ 20 <= Len(s)
      /\ Len(sp) = 2 /\ Len(dp) = 2 /\ Len(seqNum) = 4 /\ Len(ack) = 4 /\ Len(win) = 2
      /\ Holds(s, 0, sp) /\ Holds(s, 2, dp) /\ Holds(s, 4, seqNum) /\ Holds(s, 8, ack)
      /\ Holds(s, 14, win)
  BY ONLY <1>0, Zenon DEF SegmentBegins
<1>4. Holds(s, 12, t) /\ Holds(s, 16, u)
  BY ONLY <1>0, <1>1, Zenon DEF SegmentBegins
<1>5. s[12 + 1] = t[1] /\ s[12 + 2] = t[2]
  BY ONLY <1>2, <1>4 DEF Holds
<1>6. s[16 + 1] = u[1] /\ s[16 + 2] = u[2]
  BY ONLY <1>3, <1>4 DEF Holds
<1>7. s[13] = a /\ s[14] = b /\ s[17] = 0 /\ s[18] = 0
  BY ONLY <1>2, <1>3, <1>5, <1>6
<1> QED
  BY <1>7, <1>8 DEF IsSegment

LEMMA SegmentKept ==
    ASSUME NEW sp, NEW dp, NEW seqNum, NEW ack, NEW a, NEW b, NEW win, NEW s,
           NEW r \in Seq(Octet), IsSegment(s, sp, dp, seqNum, ack, a, b, win), Len(r) = Len(s),
           \A k \in 1 .. Len(s) : k # 17 /\ k # 18 /\ k # Len(s) => r[k] = s[k]
    PROVE  IsSegment(r, sp, dp, seqNum, ack, a, b, win)
<1>0. /\ Len(s) \in Nat /\ 20 <= Len(s)
      /\ Len(sp) = 2 /\ Len(dp) = 2 /\ Len(seqNum) = 4 /\ Len(ack) = 4 /\ Len(win) = 2
  BY DEF IsSegment
<1>1. \A k \in 1 .. 16 : r[k] = s[k]
  <2>1. \A k \in 1 .. 16 : k \in 1 .. Len(s) /\ k # 17 /\ k # 18 /\ k # Len(s)
    BY ONLY <1>0
  <2> QED
    BY <2>1
<1>2. r[13] = s[13] /\ r[14] = s[14]
  BY ONLY <1>1
<1>3. \A i \in 1 .. 2 : r[0 + i] = s[0 + i] /\ r[2 + i] = s[2 + i] /\ r[14 + i] = s[14 + i]
  <2>1. \A i \in 1 .. 2 : 0 + i \in 1 .. 16 /\ 2 + i \in 1 .. 16 /\ 14 + i \in 1 .. 16
    OBVIOUS
  <2> QED
    BY ONLY <1>1, <2>1
<1>4. \A i \in 1 .. 4 : r[4 + i] = s[4 + i] /\ r[8 + i] = s[8 + i]
  <2>1. \A i \in 1 .. 4 : 4 + i \in 1 .. 16 /\ 8 + i \in 1 .. 16
    OBVIOUS
  <2> QED
    BY ONLY <1>1, <2>1
<1>5. /\ Holds(s, 0, sp) /\ Holds(s, 2, dp) /\ Holds(s, 4, seqNum) /\ Holds(s, 8, ack)
      /\ Holds(s, 14, win)
  BY DEF IsSegment
<1>8. Len(r) = Len(s)
  OBVIOUS
<1>6. Holds(r, 0, sp) /\ Holds(r, 2, dp) /\ Holds(r, 14, win)
  <2>1. Agree(s, r, 0, sp) /\ Agree(s, r, 2, dp) /\ Agree(s, r, 14, win)
    BY ONLY <1>0, <1>3, <1>8 DEF Agree
  <2> QED
    BY ONLY <1>5, <2>1, HoldsKept
<1>7. Holds(r, 4, seqNum) /\ Holds(r, 8, ack)
  <2>1. Agree(s, r, 4, seqNum) /\ Agree(s, r, 8, ack)
    BY ONLY <1>0, <1>4, <1>8 DEF Agree
  <2> QED
    BY ONLY <1>5, <2>1, HoldsKept
<1> QED
  BY <1>2, <1>6, <1>7 DEF IsSegment

\* A segment with its checksum, which is taken over the pseudo header before it too.
SegmentFinished(p, s, intact) ==
    LET whole == WithChecksum(s, 17, InternetChecksum("big", p \o s))
    IN  IF intact THEN whole ELSE Damaged(whole, Len(whole))

LEMMA DamagedIs ==
    ASSUME NEW w \in Seq(Octet), NEW j \in 1 .. Len(w)
    PROVE  /\ Damaged(w, j) = [w EXCEPT ![j] = 255 - w[j]] /\ 255 - w[j] \in Octet
<1>1. w[j] \in Octet
  OBVIOUS
<1>2. 255 - w[j] \in Octet
  BY ONLY <1>1, InvertedIs
<1>3. Damaged(w, j) = [w EXCEPT ![j] = 255 - w[j]]
  BY Zenon DEF Damaged
<1> QED
  BY <1>2, <1>3, Zenon

\* The place of what stands at "at" in a part that p stands before.
Behind(p, at, to) == to = Len(p) + at

InTwoBytes(n) == n \div 256 \in Octet /\ n % 256 \in Octet

LEMMA FilledBehind ==
    ASSUME NEW p \in Seq(Octet), NEW s \in Seq(Octet),
           NEW n, InTwoBytes(n), NEW at \in 1 .. Len(s), at + 1 \in 1 .. Len(s),
           NEW to, Behind(p, at, to)
    PROVE  /\ WithChecksum(s, at, n) \in Seq(Octet) /\ Len(WithChecksum(s, at, n)) = Len(s)
           /\ p \o WithChecksum(s, at, n) = WithChecksum(p \o s, to, n)
           /\ \A k \in 1 .. Len(s) : k # at /\ k # at + 1 => WithChecksum(s, at, n)[k] = s[k]
<1>1. PICK x \in Octet, y \in Octet : x = n \div 256 /\ y = n % 256
  BY DEF InTwoBytes
<1>2. PICK w : w = WithChecksum(s, at, n)
  OBVIOUS
<1>3. w = [s EXCEPT ![at] = x, ![at + 1] = y]
  BY ONLY <1>1, <1>2, FilledIs
<1>14. WithChecksum(p \o s, to, n) = [p \o s EXCEPT ![to] = x, ![to + 1] = y]
  <2>1. PICK q : q = p \o s
    OBVIOUS
  <2>2. WithChecksum(q, to, n) = [q EXCEPT ![to] = x, ![to + 1] = y]
    BY ONLY <1>1, FilledIs
  <2> QED
    BY ONLY <2>1, <2>2, Zenon
<1>4. at \in 1 .. Len(s) /\ at + 1 \in 1 .. Len(s)
  OBVIOUS
<1>5. s \in Seq(Octet) /\ p \in Seq(Octet) /\ x \in Octet /\ y \in Octet
  OBVIOUS
<1>6. /\ w \in Seq(Octet) /\ Len(w) = Len(s)
      /\ \A k \in 1 .. Len(s) : k # at /\ k # at + 1 => w[k] = s[k]
  BY ONLY <1>3, <1>4, <1>5, ChangedBoth
<1>7. PICK c : c = [s EXCEPT ![at] = x]
  OBVIOUS
<1>8. c \in Seq(Octet) /\ Len(c) = Len(s)
  BY ONLY <1>4, <1>5, <1>7, ChangedIs
<1>9. w = [c EXCEPT ![at + 1] = y]
  BY ONLY <1>3, <1>7, Zenon
<1>15. Len(p) + at = to
  BY DEF Behind
<1>10. p \o c = [p \o s EXCEPT ![to] = x]
  <2>1. p \o [s EXCEPT ![at] = x] = [p \o s EXCEPT ![Len(p) + at] = x]
    BY ONLY <1>4, <1>5, ChangedBehind
  <2> QED
    BY ONLY <1>7, <1>15, <2>1, Zenon
<1>11. p \o w = [p \o c EXCEPT ![to + 1] = y]
  <2>1. at + 1 \in 1 .. Len(c)
    BY ONLY <1>4, <1>8
  <2>4. PICK k : k = at + 1
    OBVIOUS
  <2>5. k \in 1 .. Len(c) /\ p \in Seq(Octet) /\ c \in Seq(Octet) /\ y \in Octet
    BY <1>5, <1>8, <2>1, <2>4
  <2>6. p \o [c EXCEPT ![k] = y] = [p \o c EXCEPT ![Len(p) + k] = y]
    BY ONLY <2>5, ChangedBehind
  <2>2. p \o [c EXCEPT ![at + 1] = y] = [p \o c EXCEPT ![Len(p) + (at + 1)] = y]
    BY ONLY <2>4, <2>6, Zenon
  <2>3. Len(p) + (at + 1) = to + 1
    <3>1. Len(p) \in Nat /\ at \in Nat
      OBVIOUS
    <3> QED
      BY ONLY <1>15, <3>1
  <2> QED
    BY ONLY <1>9, <2>2, <2>3, Zenon
<1>12. p \o w = [p \o s EXCEPT ![to] = x, ![to + 1] = y]
  BY ONLY <1>10, <1>11, Zenon
<1> QED
  BY ONLY <1>2, <1>6, <1>12, <1>14, Zenon

LEMMA DamagedBehind ==
    ASSUME NEW p \in Seq(Octet), Len(p) = 12, NEW w \in Seq(Octet), NEW j \in 1 .. Len(w)
    PROVE  p \o Damaged(w, j) = Damaged(p \o w, 12 + j)
<1>1. Damaged(w, j) = [w EXCEPT ![j] = 255 - w[j]] /\ 255 - w[j] \in Octet
  BY DamagedIs
<1>2. p \o [w EXCEPT ![j] = 255 - w[j]] = [p \o w EXCEPT ![Len(p) + j] = 255 - w[j]]
  <2>1. PICK x : x = 255 - w[j]
    OBVIOUS
  <2>2. p \in Seq(Octet) /\ w \in Seq(Octet) /\ x \in Octet /\ j \in 1 .. Len(w)
    BY <1>1, <2>1
  <2>3. p \o [w EXCEPT ![j] = x] = [p \o w EXCEPT ![Len(p) + j] = x]
    BY ONLY <2>2, ChangedBehind
  <2> QED
    BY ONLY <2>1, <2>3, Zenon
<1>3. (p \o w)[Len(p) + j] = w[j]
  BY Joined
<1>4. PICK i : i = 12 + j
  OBVIOUS
<1>5. Len(p) + j = i
  BY <1>4
<1>6. Damaged(p \o w, i) = [p \o w EXCEPT ![i] = 255 - (p \o w)[i]]
  BY Zenon DEF Damaged
<1>7. PICK x : x = 255 - w[j]
  OBVIOUS
<1>8. p \o Damaged(w, j) = [p \o w EXCEPT ![i] = x]
  BY ONLY <1>1, <1>2, <1>5, <1>7
<1>9. Damaged(p \o w, i) = [p \o w EXCEPT ![i] = x]
  BY ONLY <1>3, <1>5, <1>6, <1>7
<1> QED
  BY ONLY <1>4, <1>8, <1>9

LEMMA SegmentMade ==
    ASSUME NEW sp, NEW dp, NEW seqNum, NEW ack, NEW a, NEW b, NEW win, NEW s,
           IsSegment(s, sp, dp, seqNum, ack, a, b, win), s[17] = 0, s[18] = 0,
           NEW p \in Seq(Octet), Len(p) = 12,
           NEW intact \in BOOLEAN, NEW r, r = SegmentFinished(p, s, intact)
    PROVE  /\ IsSegment(r, sp, dp, seqNum, ack, a, b, win) /\ Len(r) = Len(s)
           /\ in_cksum("little", p \o r) = 0 <=> intact
<1>1. s \in Seq(Octet) /\ Len(s) \in Nat /\ 20 <= Len(s) /\ Len(s) <= 65515
  BY DEF IsSegment
<1>2. PICK q : q = p \o s
  OBVIOUS
<1>3. p \in Seq(Octet) /\ Len(p) = 12 /\ intact \in BOOLEAN
  OBVIOUS
<1>4. q \in Seq(Octet) /\ Len(q) = 12 + Len(s) /\ \A k \in 1 .. Len(s) : q[12 + k] = s[k]
  <2>1. /\ q \in Seq(Octet) /\ Len(q) = Len(p) + Len(s)
        /\ \A k \in 1 .. Len(s) : q[Len(p) + k] = s[k]
    <3>1. p \in Seq(Octet) /\ s \in Seq(Octet)
      BY <1>1
    <3> QED
      BY ONLY <1>2, <3>1, JoinedAs
  <2> QED
    BY ONLY <1>3, <2>1
<1>5. q \in Datagram
  <2>1. Len(q) <= 65527
    BY ONLY <1>1, <1>4, SMT
  <2> QED
    <3>1. q \in Seq(Octet)
      BY <1>4
    <3> QED
      BY ONLY <2>1, <3>1, SMT DEF Datagram
<1>6. PICK n \in Nat : /\ n = InternetChecksum("big", q)
                      /\ n \div 256 \in Octet /\ n % 256 \in Octet
  <2>1. PICK n \in Nat : n <= 65535 /\ n = InternetChecksum("big", q)
    BY <1>4, ChecksumRange
  <2>2. n \div 256 \in Octet /\ n % 256 \in Octet
    BY <2>1, TwoBytes
  <2> QED
    BY <2>1, <2>2
<1>7. PICK w : w = WithChecksum(s, 17, n)
  OBVIOUS
<1>8. /\ w \in Seq(Octet) /\ Len(w) = Len(s) /\ p \o w = WithChecksum(q, 29, n)
      /\ \A k \in 1 .. Len(s) : k # 17 /\ k # 18 => w[k] = s[k]
  <2>1. InTwoBytes(n)
    BY <1>6 DEF InTwoBytes
  <2>2. PICK at \in Nat, to \in Nat : at = 17 /\ to = 29
    OBVIOUS
  <2>3. at \in 1 .. Len(s) /\ at + 1 \in 1 .. Len(s) /\ Behind(p, at, to)
    BY <1>1, <1>3, <2>2 DEF Behind
  <2>6. at + 1 = 18
    BY <2>2
  <2>4. s \in Seq(Octet) /\ p \in Seq(Octet)
    BY <1>1, <1>3
  <2>5. /\ WithChecksum(s, at, n) \in Seq(Octet) /\ Len(WithChecksum(s, at, n)) = Len(s)
        /\ p \o WithChecksum(s, at, n) = WithChecksum(p \o s, to, n)
        /\ \A k \in 1 .. Len(s) : k # at /\ k # at + 1 => WithChecksum(s, at, n)[k] = s[k]
    BY ONLY <2>1, <2>3, <2>4, FilledBehind
  <2> QED
    BY ONLY <1>2, <1>7, <2>2, <2>5, <2>6, Zenon
<1>9. Len(w) \in 1 .. Len(w)
  BY ONLY <1>1, <1>8
<1>10. r = IF intact THEN w ELSE Damaged(w, Len(w))
  BY <1>2, <1>6, <1>7, Zenon DEF SegmentFinished
<1>11. p \o r = Finished(q, 29, 12 + Len(w), intact)
  <2>1. p \o Damaged(w, Len(w)) = Damaged(p \o w, 12 + Len(w))
    BY ONLY <1>3, <1>8, <1>9, DamagedBehind
  <2>2. WithChecksum(q, 29, InternetChecksum("big", q)) = p \o w
    BY ONLY <1>6, <1>8, Zenon
  <2>3. CASE intact
    BY <1>10, <2>2, <2>3, Zenon DEF Finished
  <2>4. CASE ~intact
    BY <1>10, <2>1, <2>2, <2>4, Zenon DEF Finished
  <2> QED
    BY <2>3, <2>4
<1>12. in_cksum("little", p \o r) = 0 <=> intact
  <2>1. /\ 29 \in Nat /\ 29 % 2 = 1 /\ 29 \in 1 .. Len(q) /\ 29 + 1 \in 1 .. Len(q)
        /\ 12 + Len(w) \in 1 .. Len(q)
    BY ONLY <1>1, <1>4, <1>8
  <2>2. q[29] = 0 /\ q[29 + 1] = 0
    <3>1. 17 \in 1 .. Len(s) /\ 18 \in 1 .. Len(s) /\ 12 + 17 = 29 /\ 12 + 18 = 29 + 1
      BY ONLY <1>1
    <3>2. q[12 + 17] = s[17] /\ q[12 + 18] = s[18]
      BY ONLY <1>4, <3>1
    <3> QED
      BY <3>1, <3>2, Zenon
  <2> QED
    BY ONLY <1>3, <1>5, <1>11, <2>1, <2>2, FinishedIs
<1>13. /\ r \in Seq(Octet) /\ Len(r) = Len(s)
       /\ \A k \in 1 .. Len(s) : k # 17 /\ k # 18 /\ k # Len(s) => r[k] = s[k]
  <2>1. CASE intact
    <3>1. r = w
      BY <1>10, <2>1
    <3> QED
      BY ONLY <1>8, <3>1
  <2>2. CASE ~intact
    <3>1. r = [w EXCEPT ![Len(w)] = 255 - w[Len(w)]] /\ 255 - w[Len(w)] \in Octet
      <4>1. r = Damaged(w, Len(w))
        BY <1>10, <2>2
      <4> QED
        BY ONLY <1>8, <1>9, <4>1, DamagedIs
    <3>2. /\ r \in Seq(Octet) /\ Len(r) = Len(w)
          /\ \A k \in 1 .. Len(w) : r[k] = IF k = Len(w) THEN 255 - w[Len(w)] ELSE w[k]
      BY ONLY <1>8, <1>9, <3>1, ChangedIs
    <3> QED
      BY ONLY <1>8, <3>2
  <2> QED
    BY <2>1, <2>2
<1>14. IsSegment(r, sp, dp, seqNum, ack, a, b, win)
  <2>1. IsSegment(s, sp, dp, seqNum, ack, a, b, win)
    OBVIOUS
  <2> QED
    BY ONLY <1>13, <2>1, SegmentKept
<1> QED
  BY <1>12, <1>13, <1>14

-----------------------------------------------------------------------------
(* The flags *)

LEMMA FlagsSum ==
    ASSUME NEW f \in 0 .. 1, NEW s \in 0 .. 1, NEW r \in 0 .. 1,
           NEW h \in 0 .. 1, NEW a \in 0 .. 1, NEW u \in 0 .. 1,
           NEW n, n = f + 2 * s + 4 * r + 8 * h + 16 * a + 32 * u
    PROVE  /\ n \in Octet
           /\ Bit(n, 1) <=> f = 1
           /\ Bit(n, 2) <=> s = 1
           /\ Bit(n, 4) <=> r = 1
           /\ Bit(n, 16) <=> a = 1
<1>1. /\ f = 0 \/ f = 1
      /\ s = 0 \/ s = 1
      /\ r = 0 \/ r = 1
      /\ h = 0 \/ h = 1
      /\ a = 0 \/ a = 1
      /\ u = 0 \/ u = 1
  OBVIOUS
<1>2. n \in Nat /\ n = f + 2 * s + 4 * r + 8 * h + 16 * a + 32 * u
  BY <1>1
<1>3. n <= 255
  BY ONLY <1>1, <1>2
<1>4. n % 2 = f
  BY ONLY <1>1, <1>2
<1>5. (n \div 2) % 2 = s
  BY ONLY <1>1, <1>2
<1>6. (n \div 4) % 2 = r
  BY ONLY <1>1, <1>2
<1>7. (n \div 16) % 2 = a
  BY ONLY <1>1, <1>2
<1>8. n \div 1 = n
  BY ONLY <1>2
<1>9. n \in Octet
  BY <1>2, <1>3, OctetIs
<1>10. Bit(n, 1) <=> f = 1
  BY ONLY <1>4, <1>8 DEF Bit
<1>11. Bit(n, 2) <=> s = 1
  BY ONLY <1>5 DEF Bit
<1>12. Bit(n, 4) <=> r = 1
  BY ONLY <1>6 DEF Bit
<1>13. Bit(n, 16) <=> a = 1
  BY ONLY <1>7 DEF Bit
<1> QED
  BY ONLY <1>9, <1>10, <1>11, <1>12, <1>13

One(f, flags) == IF f \in flags THEN 1 ELSE 0

LEMMA FlagBitsAre ==
    ASSUME NEW flags, NEW n, n = FlagsByte(flags)
    PROVE  /\ n \in Octet
           /\ Bit(n, 1) <=> "FIN" \in flags
           /\ Bit(n, 2) <=> "SYN" \in flags
           /\ Bit(n, 4) <=> "RST" \in flags
           /\ Bit(n, 16) <=> "ACK" \in flags
<1>1. \A x : One(x, flags) \in 0 .. 1 /\ (One(x, flags) = 1 <=> x \in flags)
  <2> TAKE x
  <2>1. CASE x \in flags
    <3>1. One(x, flags) = 1
      BY <2>1, Zenon DEF One
    <3> QED
      BY <2>1, <3>1
  <2>2. CASE x \notin flags
    <3>1. One(x, flags) = 0
      BY <2>2, Zenon DEF One
    <3> QED
      BY <2>2, <3>1
  <2> QED
    BY <2>1, <2>2
<1>2. n = One("FIN", flags) + 2 * One("SYN", flags) + 4 * One("RST", flags) + 8 * One("PSH", flags)
              + 16 * One("ACK", flags) + 32 * One("URG", flags)
  BY DEF FlagsByte, One
<1>3. /\ One("FIN", flags) \in 0 .. 1 /\ One("SYN", flags) \in 0 .. 1
      /\ One("RST", flags) \in 0 .. 1 /\ One("PSH", flags) \in 0 .. 1
      /\ One("ACK", flags) \in 0 .. 1 /\ One("URG", flags) \in 0 .. 1
  BY ONLY <1>1
<1>4. /\ n \in Octet
      /\ Bit(n, 1) <=> One("FIN", flags) = 1
      /\ Bit(n, 2) <=> One("SYN", flags) = 1
      /\ Bit(n, 4) <=> One("RST", flags) = 1
      /\ Bit(n, 16) <=> One("ACK", flags) = 1
  BY ONLY <1>2, <1>3, FlagsSum
<1>5. /\ One("FIN", flags) = 1 <=> "FIN" \in flags
      /\ One("SYN", flags) = 1 <=> "SYN" \in flags
      /\ One("RST", flags) = 1 <=> "RST" \in flags
      /\ One("ACK", flags) = 1 <=> "ACK" \in flags
  BY ONLY <1>1
<1>6. Bit(n, 1) <=> "FIN" \in flags
  BY ONLY <1>4, <1>5
<1>7. Bit(n, 2) <=> "SYN" \in flags
  BY ONLY <1>4, <1>5
<1>8. Bit(n, 4) <=> "RST" \in flags
  BY ONLY <1>4, <1>5
<1>9. Bit(n, 16) <=> "ACK" \in flags
  BY ONLY <1>4, <1>5
<1> QED
  BY <1>4, <1>6, <1>7, <1>8, <1>9

LEMMA SegmentSized ==
    ASSUME NEW p \in Seq(Octet), NEW s \in Seq(Octet), 20 <= Len(s), NEW intact \in BOOLEAN,
           NEW r, r = SegmentFinished(p, s, intact)
    PROVE  Len(r) = Len(s)
<1>11. PICK q : q = p \o s
  OBVIOUS
<1>1. q \in Seq(Octet)
  BY <1>11, Joined
<1>2. PICK n \in Nat : n <= 65535 /\ n = InternetChecksum("big", q)
  BY <1>1, ChecksumRange
<1>3. PICK x \in Octet, y \in Octet : x = n \div 256 /\ y = n % 256
  BY <1>2, TwoBytes
<1>4. PICK w : w = WithChecksum(s, 17, n)
  OBVIOUS
<1>5. w = [s EXCEPT ![17] = x, ![18] = y]
  <2>1. WithChecksum(s, 17, n) = [s EXCEPT ![17] = x, ![17 + 1] = y]
    BY ONLY <1>3, FilledIs
  <2>2. 17 + 1 = 18
    OBVIOUS
  <2> QED
    BY ONLY <1>4, <2>1, <2>2
<1>6. s \in Seq(Octet) /\ 17 \in 1 .. Len(s) /\ 18 \in 1 .. Len(s) /\ x \in Octet /\ y \in Octet
  OBVIOUS
<1>7. w \in Seq(Octet) /\ Len(w) = Len(s)
  BY ONLY <1>5, <1>6, ChangedBoth
<1>8. r = IF intact THEN w ELSE Damaged(w, Len(w))
  <2>1. r = SegmentFinished(p, s, intact)
    OBVIOUS
  <2>2. n = InternetChecksum("big", q)
    BY <1>2
  <2> QED
    BY ONLY <1>4, <1>11, <2>1, <2>2, Zenon DEF SegmentFinished
<1>9. Len(w) \in 1 .. Len(w)
  BY <1>6, <1>7
<1>10. Len(Damaged(w, Len(w))) = Len(w)
  <2>1. PICK c : c = Damaged(w, Len(w))
    OBVIOUS
  <2>2. c = [w EXCEPT ![Len(w)] = 255 - w[Len(w)]] /\ 255 - w[Len(w)] \in Octet
    BY ONLY <1>7, <1>9, <2>1, DamagedIs
  <2>3. Len(c) = Len(w)
    BY ONLY <1>7, <1>9, <2>2, ChangedIs
  <2> QED
    BY <2>1, <2>3
<1> QED
  BY <1>7, <1>8, <1>10

\* struct tcp_ps_head
PseudoLaid(src, dest, proto, n) == src \o dest \o <<0, proto>> \o NetworkShort(n)

LEMMA PseudoIs ==
    ASSUME NEW src \in Seq(Octet), Len(src) = 4, NEW dest \in Seq(Octet), Len(dest) = 4,
           NEW proto \in Octet, NEW n \in Nat, NEW p, p = PseudoLaid(src, dest, proto, n)
    PROVE  p \in Seq(Octet) /\ Len(p) = 12
<1>1. PICK c, e : c = <<0, proto>> /\ e = NetworkShort(n)
  OBVIOUS
<1>2. c \in Seq(Octet) /\ Len(c) = 2
  <2>1. 0 \in Octet /\ proto \in Octet
    BY OctetIs
  <2> QED
    BY ONLY <1>1, <2>1, TwoAt
<1>3. e \in Seq(Octet) /\ Len(e) = 2
  BY <1>1, ShortBytes
<1>4. PICK u : u = src \o dest
  OBVIOUS
<1>5. src \in Seq(Octet) /\ Len(src) = 4 /\ dest \in Seq(Octet) /\ Len(dest) = 4
  OBVIOUS
<1>6. u \in Seq(Octet) /\ Len(u) = Len(src) + Len(dest)
  <2>1. src \in Seq(Octet) /\ dest \in Seq(Octet)
    OBVIOUS
  <2> QED
    BY ONLY <1>4, <2>1, JoinedAs
<1>7. PICK v : v = u \o c
  OBVIOUS
<1>8. v \in Seq(Octet) /\ Len(v) = Len(u) + Len(c)
  <2>1. u \in Seq(Octet) /\ c \in Seq(Octet)
    BY <1>2, <1>6
  <2> QED
    BY ONLY <1>7, <2>1, JoinedAs
<1>9. PICK w : w = v \o e
  OBVIOUS
<1>10. w \in Seq(Octet) /\ Len(w) = Len(v) + Len(e)
  <2>1. v \in Seq(Octet) /\ e \in Seq(Octet)
    BY <1>3, <1>8
  <2> QED
    BY ONLY <1>9, <2>1, JoinedAs
<1>11. p = w
  BY <1>1, <1>4, <1>7, <1>9, Zenon DEF PseudoLaid
<1>12. Len(w) = 12
  BY ONLY <1>2, <1>3, <1>5, <1>6, <1>8, <1>10
<1> QED
  BY ONLY <1>10, <1>11, <1>12

LEMMA TcpTransportIs ==
    ASSUME NEW t, IsTransport(t), t.proto = 6
    PROVE  /\ IsShort(t.srcPort) /\ IsShort(t.destPort) /\ IsShort(t.window)
           /\ IsBytes(t.seqNum, 4) /\ IsBytes(t.ack, 4)
           /\ t.dataOffset \in Nat /\ 5 <= t.dataOffset /\ t.dataOffset <= 15
           /\ t.intact \in BOOLEAN /\ t.payload \in Seq(Octet)
<1>1. t.proto \in {6, 17} /\ t.proto \notin {1, 17}
  OBVIOUS
<1>2. /\ IsShort(t.srcPort) /\ IsShort(t.destPort) /\ IsShort(t.window)
      /\ IsBytes(t.seqNum, 4) /\ IsBytes(t.ack, 4) /\ t.intact \in BOOLEAN
      /\ t.dataOffset \in 5 .. 15 /\ t.payload \in Seq(0 .. 255)
  BY <1>1, Zenon DEF IsTransport
<1>3. t.payload \in Seq(Octet)
  BY <1>2, Zenon DEF Octet
<1>4. \A k \in 5 .. 15 : k \in Nat /\ 5 <= k /\ k <= 15
  OBVIOUS
<1> QED
  BY <1>2, <1>3, <1>4, Zenon

LEMMA SegmentCases ==
    ASSUME NEW d
    PROVE  /\ d.transport.proto = 6 => Segment(d) = TcpSegment(d, d.transport)
           /\ d.transport.proto = 17 =>
                Segment(d) = NetworkShort(d.transport.srcPort) \o NetworkShort(d.transport.destPort)
                                 \o <<0, 8, 0, 0>>
           /\ d.transport.proto = 1 => Segment(d) = <<d.transport.type, 0, 0, 0, 0, 0, 0, 0>>
           /\ d.transport.proto \notin {1, 6, 17} => Segment(d) = d.transport.payload
<1>1. PICK tcp, udp, icmp, data :
        /\ tcp = TcpSegment(d, d.transport)
        /\ udp = NetworkShort(d.transport.srcPort) \o NetworkShort(d.transport.destPort)
                     \o <<0, 8, 0, 0>>
        /\ icmp = <<d.transport.type, 0, 0, 0, 0, 0, 0, 0>>
        /\ data = d.transport.payload
  OBVIOUS
<1>2. PICK n : n = d.transport.proto
  OBVIOUS
<1>3. Segment(d) = CASE n = 6 -> tcp [] n = 17 -> udp [] n = 1 -> icmp [] OTHER -> data
  BY <1>1, <1>2, Zenon DEF Segment
<1>4. /\ n = 6 => Segment(d) = tcp
      /\ n = 17 => Segment(d) = udp
      /\ n = 1 => Segment(d) = icmp
      /\ n \notin {1, 6, 17} => Segment(d) = data
  BY ONLY <1>3
<1> QED
  BY ONLY <1>1, <1>2, <1>4, Zenon

LEMMA OptionsAre ==
    ASSUME NEW k \in Nat, 5 <= k, k <= 15, NEW opts, opts = [i \in 1 .. 4 * (k - 5) |-> 1]
    PROVE  opts \in Seq(Octet) /\ Len(opts) = 4 * (k - 5)
<1>1. 1 \in Octet /\ 4 * (k - 5) \in Nat
  BY OctetIs
<1>2. PICK n \in Nat : n = 4 * (k - 5)
  BY <1>1
<1>3. opts = [i \in 1 .. n |-> 1]
  BY <1>2
<1> HIDE DEF Octet
<1>4. opts \in Seq(Octet) /\ Len(opts) = n
  BY ONLY <1>1, <1>2, <1>3
<1> QED
  BY ONLY <1>2, <1>4

\* What TcpSegment puts together.
LEMMA TcpSegmentMade ==
    ASSUME NEW d, NEW t, NEW g, g = TcpSegment(d, t),
           NEW s, s = TcpHeader(t) \o t.payload
    PROVE  g = SegmentFinished(PseudoLaid(d.src, d.dest, 6, Len(s)), s, t.intact)
BY Zenon DEF TcpSegment, SegmentFinished, PseudoLaid

LEMMA TcpSegmentIs ==
    ASSUME NEW d, IsIpPacket(d), d.transport.proto = 6, NEW t, t = d.transport,
           NEW g, g = Segment(d), NEW p, p = PseudoLaid(d.src, d.dest, 6, Len(g))
    PROVE  /\ IsSegment(g, NetworkShort(t.srcPort), NetworkShort(t.destPort), t.seqNum, t.ack,
                        16 * t.dataOffset, FlagsByte(t.flags), NetworkShort(t.window))
           /\ 4 * d.ihl + Len(g) <= 65535
           /\ p \in Seq(Octet) /\ Len(p) = 12
           /\ in_cksum("little", p \o g) = 0 <=> t.intact
<1>1. IsTransport(t) /\ t.proto = 6
  BY IpPacketIs
<1>2. /\ IsShort(t.srcPort) /\ IsShort(t.destPort) /\ IsShort(t.window)
      /\ IsBytes(t.seqNum, 4) /\ IsBytes(t.ack, 4)
      /\ t.dataOffset \in Nat /\ 5 <= t.dataOffset /\ t.dataOffset <= 15
      /\ t.intact \in BOOLEAN /\ t.payload \in Seq(Octet)
  BY <1>1, TcpTransportIs
<1>3. PICK sp, dp, win : /\ sp = NetworkShort(t.srcPort) /\ dp = NetworkShort(t.destPort)
                         /\ win = NetworkShort(t.window)
  OBVIOUS
<1>4. /\ sp \in Seq(Octet) /\ Len(sp) = 2 /\ dp \in Seq(Octet) /\ Len(dp) = 2
      /\ win \in Seq(Octet) /\ Len(win) = 2
  BY <1>2, <1>3, ShortBytes DEF IsShort
<1>5. PICK seqNum, ack : seqNum = t.seqNum /\ ack = t.ack
  OBVIOUS
<1>6. seqNum \in Seq(Octet) /\ Len(seqNum) = 4 /\ ack \in Seq(Octet) /\ Len(ack) = 4
  BY <1>2, <1>5, BytesOfFrame
<1>7. PICK k \in Nat : k = t.dataOffset /\ 5 <= k /\ k <= 15
  BY <1>2
<1>8. PICK a, b : a = 16 * k /\ b = FlagsByte(t.flags)
  OBVIOUS
<1>9. a \in Octet
  <2>1. k \in Nat /\ k <= 15
    BY <1>7
  <2>2. 16 * k \in Nat /\ 16 * k <= 255
    BY ONLY <2>1
  <2> QED
    BY ONLY <1>8, <2>2, OctetIs
<1>10. b \in Octet
  BY <1>8, FlagBitsAre
<1>11. PICK opts, payload : opts = [i \in 1 .. 4 * (k - 5) |-> 1] /\ payload = t.payload
  OBVIOUS
<1>12. opts \in Seq(Octet) /\ payload \in Seq(Octet)
  <2>1. k \in Nat /\ 5 <= k /\ k <= 15
    BY <1>7
  <2>2. opts \in Seq(Octet)
    BY ONLY <1>11, <2>1, OptionsAre
  <2> QED
    BY ONLY <1>2, <1>11, <2>2
<1>13. PICK s : s = SegmentLaid(sp, dp, seqNum, ack, a, b, win, opts, payload)
  OBVIOUS
<1>14. /\ s \in Seq(Octet) /\ Len(s) = 20 + Len(opts) + Len(payload)
       /\ Holds(s, 0, sp) /\ Holds(s, 2, dp) /\ Holds(s, 4, seqNum) /\ Holds(s, 8, ack)
       /\ Holds(s, 12, <<a, b>>) /\ Holds(s, 14, win) /\ Holds(s, 16, <<0, 0, 0, 0>>)
  <2>1. SegmentParts(sp, dp, seqNum, ack, a, b, win, opts, payload)
    BY <1>4, <1>6, <1>9, <1>10, <1>12, Zenon DEF SegmentParts
  <2> QED
    BY ONLY <1>13, <2>1, SegmentLaidIs
<1>15. 20 <= Len(s) /\ Len(s) \in Nat
  <2>1. Len(opts) \in Nat /\ Len(payload) \in Nat
    BY ONLY <1>12
  <2> QED
    BY ONLY <1>14, <2>1
<1>16. s = TcpHeader(t) \o t.payload
  BY <1>3, <1>5, <1>7, <1>8, <1>11, <1>13, Zenon DEF TcpHeader, SegmentLaid
<1>17. PICK intact \in BOOLEAN : intact = t.intact
  BY <1>2
<1>18. PICK q : q = PseudoLaid(d.src, d.dest, 6, Len(s))
  OBVIOUS
<1>19. g = SegmentFinished(q, s, intact)
  <2>1. g = TcpSegment(d, t)
    BY SegmentCases
  <2> QED
    <3>1. g = SegmentFinished(PseudoLaid(d.src, d.dest, 6, Len(s)), s, t.intact)
      BY ONLY <1>16, <2>1, TcpSegmentMade
    <3> QED
      BY ONLY <1>17, <1>18, <3>1, Zenon
<1>20. PICK src, dest : src = d.src /\ dest = d.dest
  OBVIOUS
<1>21. src \in Seq(Octet) /\ Len(src) = 4 /\ dest \in Seq(Octet) /\ Len(dest) = 4
  BY <1>20, IpPacketIs, BytesOfFrame
<1>22. q \in Seq(Octet) /\ Len(q) = 12
  <2>1. 6 \in Octet
    BY OctetIs
  <2>2. Len(s) \in Nat
    BY <1>15
  <2>3. q = PseudoLaid(src, dest, 6, Len(s))
    BY <1>18, <1>20
  <2> QED
    BY ONLY <1>21, <2>1, <2>2, <2>3, PseudoIs
<1>23. intact \in BOOLEAN
  OBVIOUS
<1>24. Len(g) = Len(s)
  <2>1. q \in Seq(Octet) /\ s \in Seq(Octet) /\ 20 <= Len(s)
    BY <1>14, <1>15, <1>22
  <2> QED
    BY ONLY <1>19, <1>23, <2>1, SegmentSized
<1>25. p = q
  BY ONLY <1>18, <1>24, p = PseudoLaid(d.src, d.dest, 6, Len(g))
<1>26. 4 * d.ihl + Len(g) <= 65535
  <2>1. IsShort(4 * d.ihl + Len(g))
    BY Zenon DEF IsIpPacket
  <2> QED
    BY ONLY <2>1 DEF IsShort
<1>27. Len(s) <= 65515
  <2>1. PICK i \in Nat : i = d.ihl /\ 5 <= i
    BY IpPacketIs
  <2>2. 4 * i + Len(s) <= 65535
    BY <1>24, <1>26, <2>1
  <2> QED
    BY ONLY <1>15, <2>1, <2>2
<1>28. IsSegment(s, sp, dp, seqNum, ack, a, b, win) /\ s[17] = 0 /\ s[18] = 0
  <2>1. SegmentBegins(s, sp, dp, seqNum, ack, a, b, win)
    BY <1>4, <1>6, <1>14, <1>15, Zenon DEF SegmentBegins
  <2> QED
    BY ONLY <1>27, <2>1, SegmentHeld
<1>29. /\ IsSegment(g, sp, dp, seqNum, ack, a, b, win) /\ Len(g) = Len(s)
       /\ in_cksum("little", q \o g) = 0 <=> intact
  BY ONLY <1>19, <1>22, <1>23, <1>28, SegmentMade
<1>30. a = 16 * t.dataOffset
  BY <1>7, <1>8
<1> QED
  <2>1. IsSegment(g, NetworkShort(t.srcPort), NetworkShort(t.destPort), t.seqNum, t.ack,
                  16 * t.dataOffset, FlagsByte(t.flags), NetworkShort(t.window))
    BY ONLY <1>3, <1>5, <1>8, <1>29, <1>30
  <2>2. in_cksum("little", p \o g) = 0 <=> t.intact
    BY ONLY <1>17, <1>25, <1>29
  <2> QED
    BY ONLY <1>22, <1>25, <1>26, <2>1, <2>2

LEMMA UdpSegmentIs ==
    ASSUME NEW d, IsIpPacket(d), d.transport.proto = 17, NEW t, t = d.transport,
           NEW g, g = Segment(d)
    PROVE  /\ IsShort(t.srcPort) /\ IsShort(t.destPort) /\ g \in Seq(Octet)
           /\ Holds(g, 0, NetworkShort(t.srcPort)) /\ Holds(g, 2, NetworkShort(t.destPort))
<1>1. IsShort(t.srcPort) /\ IsShort(t.destPort)
  <2>1. IsTransport(t) /\ t.proto \in {6, 17}
    BY IpPacketIs
  <2> QED
    BY <2>1, Zenon DEF IsTransport
<1>2. PICK a, b : a = NetworkShort(t.srcPort) /\ b = NetworkShort(t.destPort)
  OBVIOUS
<1>3. a \in Seq(Octet) /\ Len(a) = 2 /\ b \in Seq(Octet) /\ Len(b) = 2
  BY <1>1, <1>2, ShortBytes DEF IsShort
<1>4. PICK c : c = <<0, 8, 0, 0>>
  OBVIOUS
<1>5. c \in Seq(Octet)
  <2>1. 0 \in Octet /\ 8 \in Octet
    BY OctetIs
  <2> QED
    BY ONLY <1>4, <2>1, FourAt
<1>6. PICK u : u = a \o b
  OBVIOUS
<1>7. u \in Seq(Octet) /\ Holds(u, 0, a) /\ Holds(u, 2, b)
  <2>1. a \in Seq(Octet) /\ b \in Seq(Octet)
    BY <1>3
  <2>2. u \in Seq(Octet) /\ Holds(u, 0, a) /\ Holds(u, Len(a), b)
    BY ONLY <1>6, <2>1, HoldsJoined
  <2> QED
    BY ONLY <1>3, <2>2
<1>8. PICK v : v = u \o c
  OBVIOUS
<1>9. v \in Seq(Octet) /\ Holds(v, 0, u)
  <2>1. u \in Seq(Octet) /\ c \in Seq(Octet)
    BY <1>5, <1>7
  <2> QED
    BY ONLY <1>8, <2>1, HoldsJoined
<1>10. Holds(v, 0, a) /\ Holds(v, 2, b)
  <2>1. 0 \in Nat /\ 2 \in Nat
    OBVIOUS
  <2> QED
    BY ONLY <1>3, <1>7, <1>9, <2>1, HoldsFirst
<1>11. v = g
  BY <1>2, <1>4, <1>6, <1>8, SegmentCases, Zenon
<1> QED
  BY ONLY <1>1, <1>2, <1>9, <1>10, <1>11

LEMMA EightAre ==
    ASSUME NEW S, NEW x \in S, NEW z \in S
    PROVE  <<x, z, z, z, z, z, z, z>> \in Seq(S) /\ Len(<<x, z, z, z, z, z, z, z>>) = 8
           /\ <<x, z, z, z, z, z, z, z>>[1] = x
OBVIOUS

LEMMA IcmpSegmentIs ==
    ASSUME NEW d, IsIpPacket(d), d.transport.proto = 1, NEW t, t = d.transport,
           NEW g, g = Segment(d)
    PROVE  g \in Seq(Octet) /\ Len(g) = 8 /\ g[1] = t.type
<1>1. t.type \in Octet
  <2>1. IsTransport(t) /\ t.proto = 1
    BY IpPacketIs
  <2> QED
    BY <2>1, Zenon DEF IsTransport, Octet
<1>2. PICK x, z : x = t.type /\ z = 0
  OBVIOUS
<1>3. x \in Octet /\ z \in Octet
  BY <1>1, <1>2, OctetIs
<1>4. g = <<x, z, z, z, z, z, z, z>>
  BY <1>2, SegmentCases
<1>5. g \in Seq(Octet) /\ Len(g) = 8 /\ g[1] = x
  BY ONLY <1>3, <1>4, EightAre
<1> QED
  BY ONLY <1>2, <1>5

LEMMA SegmentIs ==
    ASSUME NEW d, IsIpPacket(d)
    PROVE  Segment(d) \in Seq(Octet)
<1>1. PICK n : n = d.transport.proto
  OBVIOUS
<1>2. CASE n = 6
  <2>1. PICK g, p, t : /\ g = Segment(d) /\ p = PseudoLaid(d.src, d.dest, 6, Len(g))
                       /\ t = d.transport
    OBVIOUS
  <2>2. IsIpPacket(d) /\ d.transport.proto = 6
    BY <1>1, <1>2
  <2>3. IsSegment(g, NetworkShort(t.srcPort), NetworkShort(t.destPort), t.seqNum, t.ack,
                  16 * t.dataOffset, FlagsByte(t.flags), NetworkShort(t.window))
    BY ONLY <2>1, <2>2, TcpSegmentIs
  <2>4. g \in Seq(Octet)
    BY ONLY <2>3 DEF IsSegment
  <2> QED
    BY <2>1, <2>4
<1>3. CASE n = 17
  BY <1>1, <1>3, UdpSegmentIs
<1>4. CASE n = 1
  BY <1>1, <1>4, IcmpSegmentIs
<1>5. CASE n \notin {1, 6, 17}
  <2>1. IsTransport(d.transport)
    BY IpPacketIs
  <2>2. d.transport.payload \in Seq(0 .. 255)
    <3>1. d.transport.proto \notin {1, 17}
      BY <1>1, <1>5
    <3> QED
      BY <2>1, <3>1, Zenon DEF IsTransport
  <2>3. Segment(d) = d.transport.payload
    BY <1>1, <1>5, SegmentCases
  <2> QED
    BY <2>2, <2>3, Zenon DEF Octet
<1> QED
  BY <1>2, <1>3, <1>4, <1>5

\* The total length that the header carries, and what the parsers make of it.
TotalOf(d) == IF d.offloaded THEN 0 ELSE 4 * d.ihl + Len(Segment(d))

LEMMA TotalIs ==
    ASSUME NEW d, IsIpPacket(d), NEW total, total = TotalOf(d)
    PROVE  /\ IsShort(total)
           /\ (total - 4 * d.ihl) % 65536 =
                  IF d.offloaded THEN 65536 - 4 * d.ihl ELSE Len(Segment(d))
<1>1. PICK i \in Nat : i = d.ihl /\ 5 <= i /\ i <= 15
  BY IpPacketIs
<1>2. PICK n \in Nat : n = Len(Segment(d))
  BY SegmentIs
<1>3. 4 * i + n <= 65535
  <2>1. IsShort(4 * i + n)
    BY <1>1, <1>2, Zenon DEF IsIpPacket
  <2> QED
    BY <2>1 DEF IsShort
<1>4. i \in Nat /\ 5 <= i /\ i <= 15 /\ n \in Nat
  BY <1>1
<1>5. CASE d.offloaded
  <2>1. total = 0
    BY <1>5 DEF TotalOf
  <2>2. IsShort(0) /\ (0 - 4 * i) % 65536 = 65536 - 4 * i
    BY ONLY <1>4 DEF IsShort
  <2> QED
    BY <1>1, <1>5, <2>1, <2>2
<1>6. CASE ~d.offloaded
  <2>1. total = 4 * i + n
    BY <1>1, <1>2, <1>6 DEF TotalOf
  <2>2. IsShort(total)
    BY ONLY <1>3, <1>4, <2>1 DEF IsShort
  <2>3. total - 4 * i = n /\ n % 65536 = n
    BY ONLY <1>3, <1>4, <2>1
  <2> QED
    BY <1>1, <1>2, <1>6, <2>2, <2>3
<1> QED
  BY <1>5, <1>6

-----------------------------------------------------------------------------
(* What the parsers read *)

\* A part at the start of a packet, byte by byte.
LEMMA HeldAt ==
    ASSUME NEW p, NEW part, Holds(p, 0, part), NEW i \in 1 .. Len(part)
    PROVE  p[i] = part[i]
<1>1. i \in Nat /\ 0 + i = i
  OBVIOUS
<1>2. p[0 + i] = part[i]
  BY DEF Holds
<1> QED
  BY <1>1, <1>2

\* The checks of a checksum over what stands at the start.
LEMMA VerdictOf ==
    ASSUME NEW p \in Seq(Octet), NEW part \in Seq(Octet), Holds(p, 0, part),
           NEW n, n = Len(part), NEW sound \in BOOLEAN, in_cksum("little", part) = 0 <=> sound
    PROVE  ChecksumVerdicts(p, n) = {IF sound THEN "Correct" ELSE "Incorrect"}
<1>1. Field(p, 0, Len(part)) = part
  <2>1. 0 \in Nat
    OBVIOUS
  <2> QED
    BY <2>1, FieldIs
<1>2. SubSeq(p, 1, n) = part
  <2>1. n \in Nat /\ 0 + 1 = 1 /\ 0 + n = n
    OBVIOUS
  <2>2. SubSeq(p, 0 + 1, 0 + n) = part
    BY <1>1 DEF Field
  <2> QED
    BY <2>1, <2>2
<1>3. ~(n > Len(p))
  <2>1. n \in Nat /\ Len(p) \in Nat
    OBVIOUS
  <2>2. 0 + n <= Len(p)
    BY DEF Holds
  <2> QED
    BY <2>1, <2>2
<1>4. ChecksumVerdicts(p, n) = {IF in_cksum("little", part) = 0 THEN "Correct" ELSE "Incorrect"}
  BY ONLY <1>2, <1>3, Zenon DEF ChecksumVerdicts
<1> QED
  BY <1>4

\* The fixed part of the IP header.
LEMMA HeaderRead ==
    ASSUME NEW d, IsIpPacket(d), NEW h, h = IpHeader(d), NEW total, total = TotalOf(d),
           NEW q \in Seq(Octet), Holds(q, 0, h)
    PROVE  /\ q[1] = 64 + d.ihl /\ q[2] = 4 * d.dscp + d.ecn
           /\ q[9] = d.ttl /\ q[10] = d.transport.proto
           /\ ntohs_at(q, 2) = total
           /\ Field(q, 12, 4) = d.src /\ Field(q, 16, 4) = d.dest
           /\ Len(h) = 4 * d.ihl /\ h \in Seq(Octet)
           /\ ChecksumVerdicts(q, 4 * d.ihl) = {IF d.intact THEN "Correct" ELSE "Incorrect"}
<1>1. IsShort(total)
  BY TotalIs
<1>2. PICK src, dest, tot, v, s, ttl, proto :
        /\ src = d.src /\ dest = d.dest /\ tot = NetworkShort(total)
        /\ v = 64 + d.ihl /\ s = 4 * d.dscp + d.ecn /\ ttl = d.ttl /\ proto = d.transport.proto
  OBVIOUS
<1>3. /\ h \in Seq(Octet) /\ Len(h) = 4 * d.ihl
      /\ IsHeader(h, v, s, tot, ttl, proto, src, dest)
      /\ in_cksum("little", h) = 0 <=> d.intact
  <2>1. total = IF d.offloaded THEN 0 ELSE 4 * d.ihl + Len(Segment(d))
    BY Zenon DEF TotalOf
  <2>2. IsIpPacket(d) /\ h = IpHeader(d)
    OBVIOUS
  <2> QED
    BY ONLY <1>1, <1>2, <2>1, <2>2, IpHeaderIs
<1>4. /\ h \in Seq(Octet) /\ 20 <= Len(h)
      /\ Len(tot) = 2 /\ Len(src) = 4 /\ Len(dest) = 4
      /\ h[1] = v /\ h[2] = s /\ h[9] = ttl /\ h[10] = proto
      /\ Holds(h, 2, tot) /\ Holds(h, 12, src) /\ Holds(h, 16, dest)
  BY <1>3, Zenon DEF IsHeader
<1>5. src \in Seq(Octet) /\ dest \in Seq(Octet)
  BY <1>2, IpPacketIs, BytesOfFrame
<1>6. tot \in Seq(Octet)
  BY <1>1, <1>2, ShortBytes DEF IsShort
<1>7. Holds(q, 2, tot) /\ Holds(q, 12, src) /\ Holds(q, 16, dest)
  <2>1. 2 \in Nat /\ 12 \in Nat /\ 16 \in Nat
    OBVIOUS
  <2>2. q \in Seq(Octet) /\ Holds(q, 0, h)
    OBVIOUS
  <2> QED
    BY ONLY <1>4, <1>5, <1>6, <2>1, <2>2, HoldsFirst
<1>8. q[1] = v /\ q[2] = s /\ q[9] = ttl /\ q[10] = proto
  <2>1. 1 \in 1 .. Len(h) /\ 2 \in 1 .. Len(h) /\ 9 \in 1 .. Len(h) /\ 10 \in 1 .. Len(h)
    BY ONLY <1>4
  <2>2. Holds(q, 0, h)
    OBVIOUS
  <2>3. q[1] = h[1] /\ q[2] = h[2] /\ q[9] = h[9] /\ q[10] = h[10]
    BY ONLY <2>1, <2>2, HeldAt
  <2> QED
    BY <1>4, <2>3
<1>9. ntohs_at(q, 2) = total
  <2>1. 2 \in Nat /\ Holds(q, 2, NetworkShort(total))
    BY <1>2, <1>7
  <2> QED
    BY ONLY <1>1, <2>1, ShortHeld
<1>10. Field(q, 12, 4) = src /\ Field(q, 16, 4) = dest
  <2>1. 12 \in Nat /\ 16 \in Nat /\ q \in Seq(Octet)
    OBVIOUS
  <2>2. Field(q, 12, Len(src)) = src /\ Field(q, 16, Len(dest)) = dest
    BY ONLY <1>5, <1>7, <2>1, FieldIs
  <2> QED
    BY <1>4, <2>2
<1>11. ChecksumVerdicts(q, 4 * d.ihl) = {IF d.intact THEN "Correct" ELSE "Incorrect"}
  <2>1. d.intact \in BOOLEAN
    BY IpPacketIs
  <2>2. q \in Seq(Octet) /\ Holds(q, 0, h)
    OBVIOUS
  <2>3. PICK n : n = 4 * d.ihl
    OBVIOUS
  <2>4. n = Len(h)
    BY <1>3, <2>3
  <2>5. ChecksumVerdicts(q, n) = {IF d.intact THEN "Correct" ELSE "Incorrect"}
    BY ONLY <1>3, <2>1, <2>2, <2>4, VerdictOf
  <2> QED
    BY <2>3, <2>5
<1> QED
  BY ONLY <1>2, <1>3, <1>8, <1>9, <1>10, <1>11

\* The values in its bit fields.
LEMMA BitFields ==
    ASSUME NEW i \in Nat, 5 <= i, i <= 15, NEW s \in Nat, s <= 63, NEW e \in Nat, e <= 3
    PROVE  /\ (64 + i) \div 16 = 4 /\ (64 + i) % 16 = i
           /\ (4 * s + e) \div 4 = s /\ (4 * s + e) % 4 = e
OBVIOUS

LEMMA OffsetField ==
    ASSUME NEW k \in Nat
    PROVE  4 * ((16 * k) \div 16) = 4 * k
<1>1. (16 * k) \div 16 = k
  OBVIOUS
<1> QED
  BY <1>1

\* The fixed part of the TCP header.
LEMMA SegmentRead ==
    ASSUME NEW x \in Seq(Octet), NEW g, Holds(x, 0, g),
           NEW sp, IsShort(sp), NEW dp, IsShort(dp), NEW win, IsShort(win),
           NEW seqNum \in Seq(Octet), NEW ack \in Seq(Octet), NEW a, NEW b,
           IsSegment(g, NetworkShort(sp), NetworkShort(dp), seqNum, ack, a, b, NetworkShort(win))
    PROVE  /\ ntohs_at(x, 0) = sp /\ ntohs_at(x, 2) = dp /\ ntohs_at(x, 14) = win
           /\ Field(x, 4, 4) = seqNum /\ Field(x, 8, 4) = ack
           /\ x[13] = a /\ x[14] = b
<1>1. PICK p, r, w : p = NetworkShort(sp) /\ r = NetworkShort(dp) /\ w = NetworkShort(win)
  OBVIOUS
<1>2. p \in Seq(Octet) /\ r \in Seq(Octet) /\ w \in Seq(Octet)
  BY <1>1, ShortBytes DEF IsShort
<1>3. /\ g \in Seq(Octet) /\ 20 <= Len(g)
      /\ Len(seqNum) = 4 /\ Len(ack) = 4 /\ g[13] = a /\ g[14] = b
      /\ Holds(g, 0, p) /\ Holds(g, 2, r) /\ Holds(g, 4, seqNum) /\ Holds(g, 8, ack)
      /\ Holds(g, 14, w)
  BY <1>1 DEF IsSegment
<1>4. 0 \in Nat /\ 2 \in Nat /\ 4 \in Nat /\ 8 \in Nat /\ 14 \in Nat
  OBVIOUS
<1>5. x \in Seq(Octet) /\ Holds(x, 0, g) /\ seqNum \in Seq(Octet) /\ ack \in Seq(Octet)
  OBVIOUS
<1>6. /\ Holds(x, 0, p) /\ Holds(x, 2, r) /\ Holds(x, 4, seqNum) /\ Holds(x, 8, ack)
      /\ Holds(x, 14, w)
  BY ONLY <1>2, <1>3, <1>4, <1>5, HoldsFirst
<1>7. ntohs_at(x, 0) = sp /\ ntohs_at(x, 2) = dp /\ ntohs_at(x, 14) = win
  BY <1>1, <1>4, <1>6, ShortHeld
<1>8. Field(x, 4, Len(seqNum)) = seqNum /\ Field(x, 8, Len(ack)) = ack
  BY ONLY <1>4, <1>5, <1>6, FieldIs
<1>9. x[13] = a /\ x[14] = b
  <2>1. 13 \in 1 .. Len(g) /\ 14 \in 1 .. Len(g)
    BY ONLY <1>3
  <2>2. x[13] = g[13] /\ x[14] = g[14]
    BY ONLY <1>5, <2>1, HeldAt
  <2> QED
    BY <1>3, <2>2
<1> QED
  BY ONLY <1>3, <1>7, <1>8, <1>9

-----------------------------------------------------------------------------
(* The transport header's report *)

LEMMA PortNamed ==
    ASSUME NEW n, IsShort(n)
    PROVE  Names(PortPrinted(n), n)
<1>1. n \in Nat
  BY DEF IsShort
<1>2. ASSUME NEW name, PortPrinted(n) = <<name>>, AssignedPort[name] = n PROVE Names(PortPrinted(n), n)
  <2>1. Len(<<name>>) = 1 /\ <<name>>[1] = name
    OBVIOUS
  <2> QED
    BY <1>2, <2>1 DEF Names
<1>4. CASE n = 53
  <2>1. PortPrinted(n) = <<"DNS">> /\ AssignedPort["DNS"] = n
    BY <1>4 DEF PortPrinted, AssignedPort
  <2> QED
    BY <1>2, <2>1
<1>5. CASE n = 23
  <2>1. PortPrinted(n) = <<"Telnet">> /\ AssignedPort["Telnet"] = n
    BY <1>5 DEF PortPrinted, AssignedPort
  <2> QED
    BY <1>2, <2>1
<1>6. CASE n = 80
  <2>1. PortPrinted(n) = <<"HTTP">> /\ AssignedPort["HTTP"] = n
    BY <1>6 DEF PortPrinted, AssignedPort
  <2> QED
    BY <1>2, <2>1
<1>7. CASE n = 20
  <2>1. PortPrinted(n) = <<"FTP">> /\ AssignedPort["FTP"] = n
    BY <1>7 DEF PortPrinted, AssignedPort
  <2> QED
    BY <1>2, <2>1
<1>8. CASE n = 110
  <2>1. PortPrinted(n) = <<"POP3">> /\ AssignedPort["POP3"] = n
    BY <1>8 DEF PortPrinted, AssignedPort
  <2> QED
    BY <1>2, <2>1
<1>9. CASE n = 25
  <2>1. PortPrinted(n) = <<"SMTP">> /\ AssignedPort["SMTP"] = n
    BY <1>9 DEF PortPrinted, AssignedPort
  <2> QED
    BY <1>2, <2>1
<1>3. CASE n \notin {53, 23, 80, 20, 110, 25}
  <2>1. PortPrinted(n) = <<"", n>>
    BY <1>3 DEF PortPrinted
  <2> QED
    BY <2>1 DEF Names
<1> QED
  BY <1>3, <1>4, <1>5, <1>6, <1>7, <1>8, <1>9

LEMMA FlagsRead ==
    ASSUME NEW flags, NEW r, r = tcp_t_flags(FlagsByte(flags))
    PROVE  \A f \in DOMAIN r : r[f] <=> f \in flags
<1>1. PICK n : n = FlagsByte(flags)
  OBVIOUS
<1>2. /\ Bit(n, 1) <=> "FIN" \in flags
      /\ Bit(n, 2) <=> "SYN" \in flags
      /\ Bit(n, 4) <=> "RST" \in flags
      /\ Bit(n, 16) <=> "ACK" \in flags
  BY ONLY <1>1, FlagBitsAre
<1>3. r = [SYN |-> Bit(n, 2), RST |-> Bit(n, 4), FIN |-> Bit(n, 1), ACK |-> Bit(n, 16)]
  BY <1>1, Zenon DEF tcp_t_flags
<1>4. DOMAIN r = {"SYN", "RST", "FIN", "ACK"}
  BY ONLY <1>3
<1>5. /\ r["SYN"] = Bit(n, 2) /\ r["RST"] = Bit(n, 4)
      /\ r["FIN"] = Bit(n, 1) /\ r["ACK"] = Bit(n, 16)
  BY ONLY <1>3
<1> QED
  <2> TAKE f \in DOMAIN r
  <2>1. f \in {"SYN", "RST", "FIN", "ACK"}
    BY <1>4
  <2>2. CASE f = "SYN"
    BY <1>2, <1>5, <2>2, Zenon
  <2>3. CASE f = "RST"
    BY <1>2, <1>5, <2>3, Zenon
  <2>4. CASE f = "FIN"
    BY <1>2, <1>5, <2>4, Zenon
  <2>5. CASE f = "ACK"
    BY <1>2, <1>5, <2>5, Zenon
  <2> QED
    BY <2>1, <2>2, <2>3, <2>4, <2>5

LEMMA ReportCases ==
    ASSUME NEW r, NEW t
    PROVE  /\ (/\ t.proto = 1 /\ r.section = "ICMP"
               /\ r.type \in {<<"", t.type>>} \cup
                    (CASE t.type = 0 -> {<<"Reply">>} [] t.type = 8 -> {<<"Request">>}
                       [] OTHER -> {}))
               => TransportReported(r, t)
           /\ t.proto \notin {1, 6, 17} /\ r.section = "none" => TransportReported(r, t)
<1>1. PICK tcp, udp, icmp, none, n :
        /\ tcp = (/\ r.section = "TCP" /\ Names(r.srcPort, t.srcPort) /\ Names(r.destPort, t.destPort)
                  /\ r.seqNum = t.seqNum /\ r.ack = t.ack /\ r.window = t.window
                  /\ r.dataOffset = 4 * t.dataOffset
                  /\ \A f \in DOMAIN r.flags : r.flags[f] <=> f \in t.flags)
        /\ udp = (r.section = "UDP" /\ Names(r.srcPort, t.srcPort) /\ Names(r.destPort, t.destPort))
        /\ icmp = (/\ r.section = "ICMP"
                   /\ r.type \in {<<"", t.type>>} \cup
                        (CASE t.type = 0 -> {<<"Reply">>} [] t.type = 8 -> {<<"Request">>}
                           [] OTHER -> {}))
        /\ none = (r.section = "none")
        /\ n = t.proto
  OBVIOUS
<1>2. TransportReported(r, t) = CASE n = 6 -> tcp [] n = 17 -> udp [] n = 1 -> icmp [] OTHER -> none
  BY <1>1, Zenon DEF TransportReported
<1>3. n = 1 => TransportReported(r, t) = icmp
  BY ONLY <1>2
<1>4. n \notin {1, 6, 17} => TransportReported(r, t) = none
  BY ONLY <1>2
<1> QED
  BY ONLY <1>1, <1>3, <1>4, Zenon

LEMMA UdpReported ==
    ASSUME NEW d, IsIpPacket(d), d.transport.proto = 17,
           NEW x \in Seq(Octet), Holds(x, 0, Segment(d))
    PROVE  TransportReported(get_udp_info(x), d.transport)
<1>1. PICK g, t : g = Segment(d) /\ t = d.transport
  OBVIOUS
<1>2. /\ IsShort(t.srcPort) /\ IsShort(t.destPort) /\ g \in Seq(Octet)
      /\ Holds(g, 0, NetworkShort(t.srcPort)) /\ Holds(g, 2, NetworkShort(t.destPort))
  BY <1>1, UdpSegmentIs
<1>3. PICK p, r : p = NetworkShort(t.srcPort) /\ r = NetworkShort(t.destPort)
  OBVIOUS
<1>4. p \in Seq(Octet) /\ r \in Seq(Octet)
  BY <1>2, <1>3, ShortBytes DEF IsShort
<1>5. 0 \in Nat /\ 2 \in Nat
  OBVIOUS
<1>6. Holds(x, 0, p) /\ Holds(x, 2, r)
  <2>1. x \in Seq(Octet) /\ Holds(x, 0, g) /\ Holds(g, 0, p) /\ Holds(g, 2, r)
    BY <1>1, <1>2, <1>3
  <2> QED
    BY ONLY <1>2, <1>4, <1>5, <2>1, HoldsFirst
<1>7. ntohs_at(x, 0) = t.srcPort /\ ntohs_at(x, 2) = t.destPort
  BY <1>2, <1>3, <1>5, <1>6, ShortHeld
<1>8. PICK u : u = get_udp_info(x)
  OBVIOUS
<1>9. u.section = "UDP" /\ Names(u.srcPort, t.srcPort) /\ Names(u.destPort, t.destPort)
  <2>1. /\ u.section = "UDP" /\ u.srcPort = PortPrinted(t.srcPort)
        /\ u.destPort = PortPrinted(t.destPort)
    BY <1>7, <1>8 DEF get_udp_info
  <2> QED
    BY <1>2, <2>1, PortNamed
<1>10. t.proto = 17
  BY <1>1
<1>11. TransportReported(u, t)
  BY ONLY <1>9, <1>10 DEF TransportReported
<1> QED
  BY <1>1, <1>8, <1>11

LEMMA IcmpReported ==
    ASSUME NEW d, IsIpPacket(d), d.transport.proto = 1,
           NEW x \in Seq(Octet), Holds(x, 0, Segment(d))
    PROVE  TransportReported(get_icmp_info(x), d.transport)
<1>1. PICK g, t : g = Segment(d) /\ t = d.transport
  OBVIOUS
<1>2. g \in Seq(Octet) /\ Len(g) = 8 /\ g[1] = t.type
  BY <1>1, IcmpSegmentIs
<1>3. x[1] = t.type
  <2>1. 1 \in 1 .. Len(g) /\ Holds(x, 0, g)
    BY <1>1, <1>2
  <2>2. x[1] = g[1]
    BY ONLY <2>1, HeldAt
  <2> QED
    BY <1>2, <2>2
<1>4. PICK u : u = get_icmp_info(x)
  OBVIOUS
<1>5. PICK n : n = t.type
  OBVIOUS
<1>6. /\ u.section = "ICMP"
      /\ u.type = CASE n = 0 -> <<"Reply">> [] n = 8 -> <<"Request">> [] OTHER -> <<"", n>>
  BY <1>3, <1>4, <1>5 DEF get_icmp_info
<1>7. u.type \in {<<"", n>>} \cup
          (CASE n = 0 -> {<<"Reply">>} [] n = 8 -> {<<"Request">>} [] OTHER -> {})
  <2>1. CASE n = 0
    BY ONLY <1>6, <2>1
  <2>2. CASE n = 8
    BY ONLY <1>6, <2>2
  <2>3. CASE n # 0 /\ n # 8
    BY ONLY <1>6, <2>3
  <2> QED
    BY <2>1, <2>2, <2>3
<1>8. t.proto = 1
  BY <1>1
<1>9. TransportReported(u, t)
  <2>1. u.section = "ICMP"
    BY <1>6
  <2>2. u.type \in {<<"", t.type>>} \cup
            (CASE t.type = 0 -> {<<"Reply">>} [] t.type = 8 -> {<<"Request">>} [] OTHER -> {})
    BY ONLY <1>5, <1>7, Zenon
  <2> QED
    BY ONLY <1>8, <2>1, <2>2, ReportCases, Zenon
<1> QED
  BY <1>1, <1>4, <1>9

LEMMA HoldsBehind ==
    ASSUME NEW p \in Seq(Octet), NEW x \in Seq(Octet), NEW g \in Seq(Octet), Holds(x, 0, g)
    PROVE  Holds(p \o x, 0, p \o g)
<1>1. PICK u, v, m, n, k : u = p \o x /\ v = p \o g /\ m = Len(p) /\ n = Len(g) /\ k = Len(x)
  OBVIOUS
<1>2. /\ u \in Seq(Octet) /\ Len(u) = m + k
      /\ \A i \in 1 .. m : u[i] = p[i]
      /\ \A j \in 1 .. k : u[m + j] = x[j]
  BY <1>1, JoinedAs
<1>3. /\ v \in Seq(Octet) /\ Len(v) = m + n
      /\ \A i \in 1 .. m : v[i] = p[i]
      /\ \A j \in 1 .. n : v[m + j] = g[j]
  BY <1>1, JoinedAs
<1>4. m \in Nat /\ n \in Nat /\ k \in Nat
  BY <1>1
<1>5. n <= k /\ \A j \in 1 .. n : x[j] = g[j]
  <2>1. 0 + n <= k
    BY <1>1 DEF Holds
  <2>2. \A j \in 1 .. n : x[j] = g[j]
    BY <1>1, HeldAt
  <2> QED
    BY ONLY <1>4, <2>1, <2>2
<1>6. 0 + Len(v) <= Len(u)
  BY ONLY <1>2, <1>3, <1>4, <1>5
<1>7. \A i \in 1 .. Len(v) : u[0 + i] = v[i]
  <2> TAKE i \in 1 .. Len(v)
  <2>1. i \in Nat /\ 0 + i = i /\ 1 <= i /\ i <= m + n
    BY <1>3, <1>4
  <2>2. CASE i <= m
    <3>1. i \in 1 .. m
      BY ONLY <1>4, <2>1, <2>2
    <3> QED
      BY <1>2, <1>3, <2>1, <3>1
  <2>3. CASE ~(i <= m)
    <3>1. PICK j \in 1 .. n : i = m + j
      <4>1. i - m \in 1 .. n /\ i = m + (i - m)
        BY ONLY <1>4, <2>1, <2>3
      <4> QED
        BY <4>1
    <3>2. j \in 1 .. k
      BY <1>4, <1>5
    <3>3. u[m + j] = x[j] /\ v[m + j] = g[j] /\ x[j] = g[j]
      BY <1>2, <1>3, <1>5, <3>2
    <3> QED
      BY <2>1, <3>1, <3>3
  <2> QED
    BY <2>2, <2>3
<1> QED
  BY <1>1, <1>6, <1>7 DEF Holds

\* The checksum over the pseudo header and the segment, whatever follows them.
LEMMA TcpVerdict ==
    ASSUME NEW d, IsIpPacket(d), d.transport.proto = 6, NEW g, g = Segment(d),
           NEW x \in Seq(Octet), Holds(x, 0, g),
           NEW p, p = PseudoLaid(d.src, d.dest, 6, Len(g))
    PROVE  get_tcp_info_verdicts(x, p, Len(g)) =
               {IF d.transport.intact THEN "Correct" ELSE "Incorrect"}
<1>1. PICK t : t = d.transport
  OBVIOUS
<1>2. g \in Seq(Octet)
  BY SegmentIs
<1>3. /\ p \in Seq(Octet) /\ Len(p) = 12
      /\ in_cksum("little", p \o g) = 0 <=> t.intact
  <2>1. IsIpPacket(d) /\ d.transport.proto = 6 /\ g = Segment(d)
    OBVIOUS
  <2>2. p = PseudoLaid(d.src, d.dest, 6, Len(g))
    OBVIOUS
  <2> QED
    BY ONLY <1>1, <2>1, <2>2, TcpSegmentIs
<1>4. t.intact \in BOOLEAN
  BY <1>1, IpPacketIs, TcpTransportIs
<1>5. PICK u, v, n : u = p \o x /\ v = p \o g /\ n = 12 + Len(g)
  OBVIOUS
<1>6. x \in Seq(Octet) /\ Holds(x, 0, g)
  OBVIOUS
<1>7. Holds(u, 0, v)
  <2>1. p \in Seq(Octet)
    BY <1>3
  <2>2. Holds(p \o x, 0, p \o g)
    BY ONLY <1>2, <1>6, <2>1, HoldsBehind
  <2> QED
    BY <1>5, <2>2
<1>8. u \in Seq(Octet) /\ v \in Seq(Octet) /\ n = Len(v)
  <2>1. p \in Seq(Octet) /\ x \in Seq(Octet) /\ g \in Seq(Octet)
    BY <1>2, <1>3
  <2>2. u \in Seq(Octet)
    BY ONLY <1>5, <2>1, JoinedAs
  <2>3. v \in Seq(Octet) /\ Len(v) = Len(p) + Len(g)
    BY ONLY <1>5, <2>1, JoinedAs
  <2> QED
    BY ONLY <1>3, <1>5, <2>2, <2>3
<1>9. in_cksum("little", v) = 0 <=> t.intact
  BY ONLY <1>3, <1>5
<1>10. ChecksumVerdicts(u, n) = {IF t.intact THEN "Correct" ELSE "Incorrect"}
  BY ONLY <1>4, <1>7, <1>8, <1>9, VerdictOf
<1> QED
  BY <1>1, <1>5, <1>10, Zenon DEF get_tcp_info_verdicts

LEMMA TcpCase ==
    ASSUME NEW r, NEW t, t.proto = 6,
           r.section = "TCP", Names(r.srcPort, t.srcPort), Names(r.destPort, t.destPort),
           r.seqNum = t.seqNum, r.ack = t.ack, r.window = t.window,
           r.dataOffset = 4 * t.dataOffset,
           \A f \in DOMAIN r.flags : r.flags[f] <=> f \in t.flags
    PROVE  TransportReported(r, t)
BY DEF TransportReported

LEMMA TcpReported ==
    ASSUME NEW d, IsIpPacket(d), d.transport.proto = 6,
           NEW x \in Seq(Octet), Holds(x, 0, Segment(d)),
           NEW p, NEW n, NEW r \in get_tcp_info(x, p, n)
    PROVE  /\ TransportReported(r, d.transport)
           /\ r.covered = n /\ r.checksum \in get_tcp_info_verdicts(x, p, n)
<1>1. PICK g, t, e : /\ g = Segment(d) /\ t = d.transport
                     /\ e = PseudoLaid(d.src, d.dest, 6, Len(g))
  OBVIOUS
<1>2. IsTransport(t) /\ t.proto = 6
  BY <1>1, IpPacketIs
<1>3. /\ IsShort(t.srcPort) /\ IsShort(t.destPort) /\ IsShort(t.window)
      /\ IsBytes(t.seqNum, 4) /\ IsBytes(t.ack, 4) /\ t.dataOffset \in Nat
  BY <1>2, TcpTransportIs
<1>4. t.seqNum \in Seq(Octet) /\ t.ack \in Seq(Octet)
  BY <1>3, BytesOfFrame
<1>5. IsSegment(g, NetworkShort(t.srcPort), NetworkShort(t.destPort), t.seqNum, t.ack,
                16 * t.dataOffset, FlagsByte(t.flags), NetworkShort(t.window))
  <2>1. IsIpPacket(d) /\ d.transport.proto = 6
    OBVIOUS
  <2> QED
    BY ONLY <1>1, <2>1, TcpSegmentIs
<1>6. /\ ntohs_at(x, 0) = t.srcPort /\ ntohs_at(x, 2) = t.destPort /\ ntohs_at(x, 14) = t.window
      /\ Field(x, 4, 4) = t.seqNum /\ Field(x, 8, 4) = t.ack
      /\ x[13] = 16 * t.dataOffset /\ x[14] = FlagsByte(t.flags)
  <2>1. x \in Seq(Octet) /\ Holds(x, 0, g)
    BY <1>1
  <2> QED
    BY ONLY <1>3, <1>4, <1>5, <2>1, SegmentRead
<1>7. /\ r.section \in {"TCP"}
      /\ r.srcPort \in {PortPrinted(ntohs_at(x, 0))}
      /\ r.destPort \in {PortPrinted(ntohs_at(x, 2))}
      /\ r.seqNum \in {Field(x, 4, 4)} /\ r.ack \in {Field(x, 8, 4)}
      /\ r.dataOffset \in {4 * (x[13] \div 16)}
      /\ r.flags \in {tcp_t_flags(x[14])}
      /\ r.window \in {ntohs_at(x, 14)}
      /\ r.covered \in {n}
      /\ r.checksum \in get_tcp_info_verdicts(x, p, n)
  BY Zenon DEF get_tcp_info
<1>8. 4 * (x[13] \div 16) = 4 * t.dataOffset
  BY ONLY <1>3, <1>6, OffsetField
<1>9. /\ r.section = "TCP" /\ r.srcPort = PortPrinted(t.srcPort)
      /\ r.destPort = PortPrinted(t.destPort)
      /\ r.seqNum = t.seqNum /\ r.ack = t.ack /\ r.window = t.window
      /\ r.dataOffset = 4 * t.dataOffset /\ r.flags = tcp_t_flags(FlagsByte(t.flags))
      /\ r.covered = n
  BY ONLY <1>6, <1>7, <1>8
<1>10. Names(r.srcPort, t.srcPort) /\ Names(r.destPort, t.destPort)
  BY <1>3, <1>9, PortNamed
<1>11. \A f \in DOMAIN r.flags : r.flags[f] <=> f \in t.flags
  BY ONLY <1>9, FlagsRead
<1>12. TransportReported(r, t)
  BY ONLY <1>2, <1>9, <1>10, <1>11, TcpCase
<1> QED
  BY <1>1, <1>7, <1>9, <1>12

-----------------------------------------------------------------------------
(* The IP header's report *)

\* How many bytes the checksum of TCP is taken over.
LengthCovered(d) == IF d.offloaded THEN 65536 - 4 * d.ihl ELSE Len(Segment(d))

\* What may be claimed of the report of the next header.
NextRight(d, r) ==
    LET t == d.transport IN
    /\ TransportReported(r, t)
    /\ t.proto = 6 => r.covered = LengthCovered(d)
    /\ t.proto = 6 /\ ~d.offloaded => ((r.checksum = "Correct") <=> t.intact)

LEMMA NextReported ==
    ASSUME NEW d, IsIpPacket(d), NEW q \in Seq(Octet),
           Holds(q, 0, IpHeader(d)), Holds(q, 4 * d.ihl, Segment(d)),
           NEW r \in NextHeaders(q)
    PROVE  NextRight(d, r)
<1>1. PICK h, g, total, t : /\ h = IpHeader(d) /\ g = Segment(d) /\ total = TotalOf(d)
                            /\ t = d.transport
  OBVIOUS
<1>2. /\ q[1] = 64 + d.ihl /\ q[10] = t.proto
      /\ ntohs_at(q, 2) = total
      /\ Field(q, 12, 4) = d.src /\ Field(q, 16, 4) = d.dest
  <2>1. q \in Seq(Octet) /\ Holds(q, 0, h) /\ IsIpPacket(d)
    BY <1>1
  <2> QED
    BY ONLY <1>1, <2>1, HeaderRead
<1>3. PICK i \in Nat : i = d.ihl /\ 5 <= i /\ i <= 15
  BY IpPacketIs
<1>4. HeaderLen(q) = 4 * i
  <2>1. (64 + i) % 16 = i
    BY ONLY <1>3
  <2>2. q[1] = 64 + i
    BY <1>2, <1>3
  <2> QED
    BY ONLY <2>1, <2>2 DEF HeaderLen
<1>5. PICK m \in Nat : m = 4 * i
  OBVIOUS
<1>6. PICK x : x = After(q, m)
  OBVIOUS
<1>7. g \in Seq(Octet)
  BY <1>1, SegmentIs
<1>8. x \in Seq(Octet) /\ Holds(x, 0, g)
  <2>1. Holds(q, m, g) /\ m + 0 = m /\ 0 \in Nat
    BY <1>1, <1>3, <1>5
  <2>2. m <= Len(q)
    <3>1. m + Len(g) <= Len(q)
      BY <2>1 DEF Holds
    <3>2. Len(g) \in Nat /\ Len(q) \in Nat /\ m \in Nat
      BY <1>7
    <3> QED
      BY ONLY <3>1, <3>2
  <2>3. q \in Seq(Octet) /\ m \in Nat
    OBVIOUS
  <2>4. x \in Seq(Octet)
    BY ONLY <1>6, <2>2, <2>3, AfterIs
  <2>5. Holds(q, m + 0, g)
    BY <2>1
  <2>6. Holds(x, 0, g)
    BY ONLY <1>6, <1>7, <2>1, <2>3, <2>5, HoldsAfter
  <2> QED
    BY <2>4, <2>6
<1>9. PICK n : n = tcp_len(q)
  OBVIOUS
<1>10. n = IF d.offloaded THEN 65536 - 4 * d.ihl ELSE Len(g)
  <2>1. n = (total - 4 * d.ihl) % 65536
    BY ONLY <1>2, <1>3, <1>4, <1>9, SMT DEF tcp_len
  <2>2. (total - 4 * d.ihl) % 65536 = IF d.offloaded THEN 65536 - 4 * d.ihl ELSE Len(Segment(d))
    BY <1>1, TotalIs
  <2> QED
    BY ONLY <1>1, <2>1, <2>2
<1>18. n = LengthCovered(d)
  BY ONLY <1>1, <1>10 DEF LengthCovered
<1>11. PICK k : k = q[10]
  OBVIOUS
<1>12. k = t.proto
  BY <1>2, <1>11
<1>13. /\ k = 1 => r = get_icmp_info(x)
       /\ k = 6 => r \in get_tcp_info(x, ps_head(q), n)
       /\ k = 17 => r = get_udp_info(x)
       /\ k \notin {1, 6, 17} => r = [section |-> "none"]
  <2>1. x = After(q, HeaderLen(q))
    BY <1>4, <1>5, <1>6
  <2>2. PICK icmp, tcp, udp, none : /\ icmp = {get_icmp_info(x)}
                                    /\ tcp = get_tcp_info(x, ps_head(q), n)
                                    /\ udp = {get_udp_info(x)}
                                    /\ none = {[section |-> "none"]}
    OBVIOUS
  <2>3. NextHeaders(q) = CASE k = 1 -> icmp [] k = 6 -> tcp [] k = 17 -> udp [] OTHER -> none
    BY ONLY <1>9, <1>11, <2>1, <2>2, Zenon DEF NextHeaders
  <2>4. r \in NextHeaders(q)
    OBVIOUS
  <2>5. /\ k = 1 => r \in icmp
        /\ k = 6 => r \in tcp
        /\ k = 17 => r \in udp
        /\ k \notin {1, 6, 17} => r \in none
    BY ONLY <2>3, <2>4
  <2> QED
    BY ONLY <2>2, <2>5, Zenon
<1>14. CASE k = 1
  <2>1. TransportReported(get_icmp_info(x), t)
    BY <1>1, <1>8, <1>12, <1>14, IcmpReported
  <2>2. TransportReported(r, t) /\ t.proto # 6
    BY <1>12, <1>13, <1>14, <2>1
  <2> QED
    BY ONLY <1>1, <2>2, Zenon DEF NextRight
<1>15. CASE k = 17
  <2>1. TransportReported(get_udp_info(x), t)
    BY <1>1, <1>8, <1>12, <1>15, UdpReported
  <2>2. TransportReported(r, t) /\ t.proto # 6
    BY <1>12, <1>13, <1>15, <2>1
  <2> QED
    BY ONLY <1>1, <2>2, Zenon DEF NextRight
<1>16. CASE k \notin {1, 6, 17}
  <2>1. t.proto \notin {1, 6, 17} /\ t.proto # 6
    BY <1>12, <1>16
  <2>2. r.section = "none"
    BY <1>13, <1>16
  <2>3. TransportReported(r, t)
    BY ONLY <2>1, <2>2, ReportCases
  <2> QED
    BY ONLY <1>1, <2>1, <2>3, Zenon DEF NextRight
<1>17. CASE k = 6
  <2>1. IsIpPacket(d) /\ d.transport.proto = 6 /\ x \in Seq(Octet) /\ Holds(x, 0, Segment(d))
    BY <1>1, <1>8, <1>12, <1>17
  <2>2. PICK p : p = ps_head(q)
    OBVIOUS
  <2>3. r \in get_tcp_info(x, p, n)
    BY <1>13, <1>17, <2>2
  <2>4. /\ TransportReported(r, d.transport)
        /\ r.covered = n /\ r.checksum \in get_tcp_info_verdicts(x, p, n)
    BY ONLY <2>1, <2>3, TcpReported
  <2>5. p = PseudoLaid(d.src, d.dest, 6, n)
    BY ONLY <1>2, <1>9, <1>11, <1>17, <2>2, Zenon DEF ps_head, PseudoLaid
  <2>6. ~d.offloaded => ((r.checksum = "Correct") <=> t.intact)
    <3> SUFFICES ASSUME ~d.offloaded PROVE (r.checksum = "Correct") <=> t.intact
      OBVIOUS
    <3>1. n = Len(g)
      BY <1>10
    <3>2. p = PseudoLaid(d.src, d.dest, 6, Len(g))
      BY <2>5, <3>1
    <3>3. g = Segment(d) /\ Holds(x, 0, g)
      BY <1>1, <1>8
    <3>4. get_tcp_info_verdicts(x, p, Len(g)) =
              {IF d.transport.intact THEN "Correct" ELSE "Incorrect"}
      BY ONLY <2>1, <3>2, <3>3, TcpVerdict
    <3>5. r.checksum = IF t.intact THEN "Correct" ELSE "Incorrect"
      BY <1>1, <2>4, <3>1, <3>4
    <3> QED
      BY ONLY <3>5
  <2> QED
    BY ONLY <1>1, <1>18, <2>4, <2>6, Zenon DEF NextRight
<1> QED
  BY <1>14, <1>15, <1>16, <1>17

\* What may be claimed of the report of a packet's IP header.
IpRight(d, n) ==
    /\ n.version = 4 /\ n.headerLen = 4 * d.ihl
    /\ n.dscp = d.dscp /\ n.ecn = d.ecn /\ n.ttl = d.ttl
    /\ n.sender = d.src /\ n.dest = d.dest
    /\ (n.checksum = "Correct") <=> d.intact
    /\ NextRight(d, n.next)

LEMMA IpReported ==
    ASSUME NEW d, IsIpPacket(d), NEW q \in Seq(Octet),
           Holds(q, 0, IpHeader(d)), Holds(q, 4 * d.ihl, Segment(d)),
           NEW n \in get_ip_info(q)
    PROVE  IpRight(d, n)
<1>1. PICK h, total : h = IpHeader(d) /\ total = TotalOf(d)
  OBVIOUS
<1>2. /\ q[1] = 64 + d.ihl /\ q[2] = 4 * d.dscp + d.ecn /\ q[9] = d.ttl
      /\ Field(q, 12, 4) = d.src /\ Field(q, 16, 4) = d.dest
      /\ ChecksumVerdicts(q, 4 * d.ihl) = {IF d.intact THEN "Correct" ELSE "Incorrect"}
  <2>1. q \in Seq(Octet) /\ Holds(q, 0, h) /\ IsIpPacket(d)
    BY <1>1
  <2> QED
    BY ONLY <1>1, <2>1, HeaderRead
<1>3. PICK i \in Nat, s \in Nat, e \in Nat :
        /\ i = d.ihl /\ 5 <= i /\ i <= 15
        /\ s = d.dscp /\ s <= 63 /\ e = d.ecn /\ e <= 3
  BY IpPacketIs
<1>4. /\ (64 + i) \div 16 = 4 /\ (64 + i) % 16 = i
      /\ (4 * s + e) \div 4 = s /\ (4 * s + e) % 4 = e
  <2>1. i \in Nat /\ s \in Nat /\ e \in Nat /\ 5 <= i /\ i <= 15 /\ s <= 63 /\ e <= 3
    BY <1>3
  <2> QED
    BY ONLY <2>1, BitFields
<1>5. q[1] = 64 + i /\ q[2] = 4 * s + e
  BY <1>2, <1>3
<1>6. HeaderLen(q) = 4 * i
  BY ONLY <1>4, <1>5 DEF HeaderLen
<1>7. /\ n.version \in {q[1] \div 16} /\ n.headerLen \in {HeaderLen(q)}
      /\ n.dscp \in {q[2] \div 4} /\ n.ecn \in {q[2] % 4} /\ n.ttl \in {q[9]}
      /\ n.checksum \in get_ip_info_verdicts(q)
      /\ n.sender \in {Field(q, 12, 4)} /\ n.dest \in {Field(q, 16, 4)}
      /\ n.next \in NextHeaders(q)
  BY Zenon DEF get_ip_info
<1>8. /\ n.version = 4 /\ n.headerLen = 4 * d.ihl
      /\ n.dscp = d.dscp /\ n.ecn = d.ecn /\ n.ttl = d.ttl
      /\ n.sender = d.src /\ n.dest = d.dest
  BY ONLY <1>2, <1>3, <1>4, <1>5, <1>6, <1>7
<1>9. (n.checksum = "Correct") <=> d.intact
  <2>1. get_ip_info_verdicts(q) = {IF d.intact THEN "Correct" ELSE "Incorrect"}
    BY <1>2, <1>3, <1>6, Zenon DEF get_ip_info_verdicts
  <2>2. n.checksum = IF d.intact THEN "Correct" ELSE "Incorrect"
    BY ONLY <1>7, <2>1
  <2> QED
    BY ONLY <2>2
<1>10. NextRight(d, n.next)
  <2>1. /\ IsIpPacket(d) /\ q \in Seq(Octet)
        /\ Holds(q, 0, IpHeader(d)) /\ Holds(q, 4 * d.ihl, Segment(d))
    OBVIOUS
  <2>2. n.next \in NextHeaders(q)
    BY <1>7
  <2> QED
    BY ONLY <2>1, <2>2, NextReported
<1> QED
  BY <1>8, <1>9, <1>10, Zenon DEF IpRight

-----------------------------------------------------------------------------
(* The report of a frame *)

LEMMA FrameCases ==
    ASSUME NEW d, IsFrame(d), NEW p, p = FrameBytes(d)
    PROVE  /\ IsBytes(d.destMac, 6) /\ IsBytes(d.srcMac, 6)
           /\ d.kind \in {"arp", "ip", "other"}
           /\ d.kind = "arp" =>
                p = d.destMac \o d.srcMac \o (NetworkShort(TypeOf.arp) \o ArpBytes(d))
           /\ d.kind = "ip" =>
                /\ IsIpPacket(d)
                /\ p = d.destMac \o d.srcMac
                           \o (NetworkShort(TypeOf.ip) \o IpHeader(d) \o Segment(d) \o d.pad)
           /\ d.kind = "other" =>
                /\ IsShort(d.type) /\ d.type \notin {TypeOf.ip, TypeOf.arp}
                /\ p = d.destMac \o d.srcMac \o NetworkShort(d.type)
<1>1. PICK arp, ip, other, k :
        /\ arp = NetworkShort(TypeOf.arp) \o ArpBytes(d)
        /\ ip = NetworkShort(TypeOf.ip) \o IpHeader(d) \o Segment(d) \o d.pad
        /\ other = NetworkShort(d.type)
        /\ k = d.kind
  OBVIOUS
<1>2. PICK body : body = CASE k = "arp" -> arp [] k = "ip" -> ip [] k = "other" -> other
  OBVIOUS
<1>3. p = d.destMac \o d.srcMac \o body
  BY ONLY <1>1, <1>2, p = FrameBytes(d), Zenon DEF FrameBytes
<1>4. /\ k = "arp" => body = arp
      /\ k = "ip" => body = ip
      /\ k = "other" => body = other
  BY ONLY <1>2
<1>5. /\ IsBytes(d.destMac, 6) /\ IsBytes(d.srcMac, 6)
      /\ k \in {"arp", "ip", "other"}
      /\ k = "ip" => IsIpPacket(d)
      /\ k = "other" => IsShort(d.type) /\ d.type \notin {TypeOf.ip, TypeOf.arp}
  BY <1>1 DEF IsFrame
<1> QED
  BY ONLY <1>1, <1>3, <1>4, <1>5, Zenon

LEMMA TypesAre == /\ TypeOf.ip = 2048 /\ TypeOf.arp = 2054
                  /\ IsShort(TypeOf.ip) /\ IsShort(TypeOf.arp)
BY DEF TypeOf, IsShort

\* A packet behind its type and before its padding.
LEMMA IpBodyIs ==
    ASSUME NEW e \in Seq(Octet), Len(e) = 2, NEW h \in Seq(Octet), NEW g \in Seq(Octet),
           NEW pad \in Seq(Octet), NEW body, body = e \o h \o g \o pad,
           NEW n, n = 2 + Len(h)
    PROVE  /\ body \in Seq(Octet) /\ Holds(body, 0, e)
           /\ Holds(body, 2, h) /\ Holds(body, n, g)
<1>1. PICK u, v : u = e \o h /\ v = u \o g
  OBVIOUS
<1>2. u \in Seq(Octet) /\ Len(u) = n /\ Holds(u, 0, e) /\ Holds(u, 2, h)
  <2>1. e \in Seq(Octet) /\ h \in Seq(Octet)
    OBVIOUS
  <2>2. u \in Seq(Octet) /\ Len(u) = Len(e) + Len(h) /\ Holds(u, 0, e) /\ Holds(u, Len(e), h)
    BY ONLY <1>1, <2>1, HoldsJoined
  <2> QED
    BY <2>2
<1>3. v \in Seq(Octet) /\ Holds(v, 0, u) /\ Holds(v, n, g)
  <2>1. u \in Seq(Octet) /\ g \in Seq(Octet)
    BY <1>2
  <2>2. v \in Seq(Octet) /\ Holds(v, 0, u) /\ Holds(v, Len(u), g)
    BY ONLY <1>1, <2>1, HoldsJoined
  <2> QED
    BY ONLY <1>2, <2>2
<1>4. body \in Seq(Octet) /\ Holds(body, 0, v)
  <2>1. v \in Seq(Octet) /\ pad \in Seq(Octet)
    BY <1>3
  <2>2. body = v \o pad
    BY <1>1
  <2> QED
    BY ONLY <2>1, <2>2, HoldsJoined
<1>5. /\ 0 \in Nat /\ 2 \in Nat /\ n \in Nat
      /\ e \in Seq(Octet) /\ h \in Seq(Octet) /\ g \in Seq(Octet)
  OBVIOUS
<1>6. Holds(v, 0, e) /\ Holds(v, 2, h)
  BY ONLY <1>2, <1>3, <1>5, HoldsFirst
<1> QED
  BY ONLY <1>3, <1>4, <1>5, <1>6, HoldsFirst

\* What may be claimed of the report of a frame of each kind.
ArpRight(d, n) ==
    /\ d.op \in {1, 2} => n.opcode = <<"Request", "Reply">>[d.op]
    /\ n.senderMac = d.senderMac /\ n.senderIp = d.senderIp
    /\ n.targetMac = d.targetMac /\ n.targetIp = d.targetIp

FrameRight(d, r) ==
    /\ r.dest = d.destMac /\ r.src = d.srcMac
    /\ d.kind \in {"arp", "ip", "other"}
    /\ d.kind = "other" => r.type = "Unknown" /\ r.next.section = "none"
    /\ d.kind = "arp" => r.type = "ARP" /\ ArpRight(d, r.next)
    /\ d.kind = "ip" => r.type = "IP" /\ IpRight(d, r.next)

LEMMA ArpReported ==
    ASSUME NEW d, IsFrame(d), d.kind = "arp", NEW q \in Seq(Octet), Holds(q, 0, ArpBytes(d))
    PROVE  ArpRight(d, get_arp_info(q))
<1>1. PICK a : a = ArpBytes(d)
  OBVIOUS
<1>2. /\ a \in Seq(Octet)
      /\ Holds(a, 6, NetworkShort(d.op))
      /\ Holds(a, 8, d.senderMac) /\ Holds(a, 14, d.senderIp)
      /\ Holds(a, 18, d.targetMac) /\ Holds(a, 24, d.targetIp)
  BY <1>1, ArpIs
<1>3. /\ IsShort(d.op) /\ IsBytes(d.senderMac, 6) /\ IsBytes(d.senderIp, 4)
      /\ IsBytes(d.targetMac, 6) /\ IsBytes(d.targetIp, 4)
  BY DEF IsFrame
<1>4. PICK o, b, c, e, f : /\ o = NetworkShort(d.op) /\ b = d.senderMac /\ c = d.senderIp
                           /\ e = d.targetMac /\ f = d.targetIp
  OBVIOUS
<1>5. /\ o \in Seq(Octet) /\ b \in Seq(Octet) /\ Len(b) = 6 /\ c \in Seq(Octet) /\ Len(c) = 4
      /\ e \in Seq(Octet) /\ Len(e) = 6 /\ f \in Seq(Octet) /\ Len(f) = 4
  <2>1. o \in Seq(Octet)
    BY <1>3, <1>4, ShortBytes DEF IsShort
  <2> QED
    BY <1>3, <1>4, <2>1, BytesOfFrame
<1>6. 6 \in Nat /\ 8 \in Nat /\ 14 \in Nat /\ 18 \in Nat /\ 24 \in Nat
  OBVIOUS
<1>7. Holds(q, 6, o) /\ Holds(q, 8, b) /\ Holds(q, 14, c) /\ Holds(q, 18, e) /\ Holds(q, 24, f)
  <2>1. /\ q \in Seq(Octet) /\ Holds(q, 0, a)
        /\ Holds(a, 6, o) /\ Holds(a, 8, b) /\ Holds(a, 14, c) /\ Holds(a, 18, e) /\ Holds(a, 24, f)
    BY <1>1, <1>2, <1>4
  <2> QED
    BY ONLY <1>2, <1>5, <1>6, <2>1, HoldsFirst
<1>8. ntohs_at(q, 6) = d.op
  BY <1>3, <1>4, <1>6, <1>7, ShortHeld
<1>9. /\ Field(q, 8, 6) = b /\ Field(q, 14, 4) = c /\ Field(q, 18, 6) = e /\ Field(q, 24, 4) = f
  <2>1. q \in Seq(Octet)
    OBVIOUS
  <2>2. /\ Field(q, 8, Len(b)) = b /\ Field(q, 14, Len(c)) = c
        /\ Field(q, 18, Len(e)) = e /\ Field(q, 24, Len(f)) = f
    BY ONLY <1>5, <1>6, <1>7, <2>1, FieldIs
  <2> QED
    BY ONLY <1>5, <2>2
<1>10. PICK n : n = get_arp_info(q)
  OBVIOUS
<1>11. /\ n.opcode = CASE d.op = 1 -> "Request" [] d.op = 2 -> "Reply" [] OTHER -> ""
       /\ n.senderMac = b /\ n.senderIp = c /\ n.targetMac = e /\ n.targetIp = f
  BY <1>8, <1>9, <1>10 DEF get_arp_info
<1>12. d.op \in {1, 2} => n.opcode = <<"Request", "Reply">>[d.op]
  <2>1. CASE d.op = 1
    <3>1. n.opcode = "Request"
      BY ONLY <1>11, <2>1
    <3>2. <<"Request", "Reply">>[1] = "Request"
      OBVIOUS
    <3> QED
      BY ONLY <2>1, <3>1, <3>2
  <2>2. CASE d.op = 2
    <3>1. n.opcode = "Reply"
      BY ONLY <1>11, <2>2
    <3>2. <<"Request", "Reply">>[2] = "Reply"
      OBVIOUS
    <3> QED
      BY ONLY <2>2, <3>1, <3>2
  <2> QED
    BY <2>1, <2>2
<1> QED
  BY ONLY <1>4, <1>10, <1>11, <1>12, Zenon DEF ArpRight

LEMMA EthernetReported ==
    ASSUME NEW p, NEW r \in get_eth_info(p), NEW type, ntohs_at(p, 12) = type,
           NEW q, q = After(p, 14)
    PROVE  /\ r.dest = Field(p, 0, 6) /\ r.src = Field(p, 6, 6)
           /\ type = 2048 => r.type = "IP" /\ r.next \in get_ip_info(q)
           /\ type = 2054 => r.type = "ARP" /\ r.next = get_arp_info(q)
           /\ type \notin {2048, 2054} => r.type = "Unknown" /\ r.next.section = "none"
<1>1. PICK ip, arp, none : /\ ip = get_ip_info(q) /\ arp = {get_arp_info(q)}
                           /\ none = {[section |-> "none"]}
  OBVIOUS
<1>2. PICK a, b : a = TypeOf.ip /\ b = TypeOf.arp
  OBVIOUS
<1>3. /\ r.dest \in {Field(p, 0, 6)} /\ r.src \in {Field(p, 6, 6)}
      /\ r.type \in {CASE type = a -> "IP" [] type = b -> "ARP" [] OTHER -> "Unknown"}
      /\ r.next \in CASE type = a -> ip [] type = b -> arp [] OTHER -> none
  BY <1>1, <1>2, Zenon DEF get_eth_info
<1>4. a = 2048 /\ b = 2054
  BY <1>2, TypesAre
<1>5. /\ type = 2048 => r.type = "IP" /\ r.next \in ip
      /\ type = 2054 => r.type = "ARP" /\ r.next \in arp
      /\ type \notin {2048, 2054} => r.type = "Unknown" /\ r.next \in none
  BY ONLY <1>3, <1>4
<1>6. type \notin {2048, 2054} => r.next.section = "none"
  BY ONLY <1>1, <1>5
<1>7. type = 2048 => r.next \in get_ip_info(q)
  BY ONLY <1>1, <1>5
<1>8. type = 2054 => r.next = get_arp_info(q)
  BY ONLY <1>1, <1>5
<1>9. r.dest = Field(p, 0, 6) /\ r.src = Field(p, 6, 6)
  BY ONLY <1>3
<1> QED
  BY ONLY <1>5, <1>6, <1>7, <1>8, <1>9

LEMMA OtherReported ==
    ASSUME NEW d, IsFrame(d), d.kind = "other", NEW r \in get_eth_info(FrameBytes(d))
    PROVE  FrameRight(d, r)
<1>1. PICK p, type, body : p = FrameBytes(d) /\ type = d.type /\ body = NetworkShort(type)
  OBVIOUS
<1>2. /\ IsBytes(d.destMac, 6) /\ IsBytes(d.srcMac, 6) /\ IsShort(type)
      /\ type \notin {2048, 2054} /\ p = d.destMac \o d.srcMac \o body
  <2>1. IsFrame(d) /\ d.kind = "other"
    OBVIOUS
  <2>2. /\ IsBytes(d.destMac, 6) /\ IsBytes(d.srcMac, 6)
        /\ IsShort(d.type) /\ d.type \notin {TypeOf.ip, TypeOf.arp}
        /\ p = d.destMac \o d.srcMac \o NetworkShort(d.type)
    BY ONLY <1>1, <2>1, FrameCases
  <2> QED
    BY ONLY <1>1, <2>2, TypesAre
<1>3. body \in Seq(Octet)
  BY <1>1, <1>2, ShortBytes DEF IsShort
<1>4. Holds(body, 0, NetworkShort(type))
  <2>1. Len(body) \in Nat
    BY <1>3
  <2>2. \A i \in 1 .. Len(body) : body[0 + i] = body[i]
    BY <2>1
  <2>3. 0 + Len(body) <= Len(body)
    BY <2>1
  <2> QED
    BY <1>1, <2>2, <2>3 DEF Holds
<1>5. Field(p, 0, 6) = d.destMac /\ Field(p, 6, 6) = d.srcMac /\ ntohs_at(p, 12) = type
  <2>1. FrameLaid(p, d.destMac, d.srcMac, type, body)
    <3>1. /\ IsBytes(d.destMac, 6) /\ IsBytes(d.srcMac, 6) /\ IsShort(type)
          /\ p = d.destMac \o d.srcMac \o body
      BY <1>2
    <3> QED
      BY ONLY <1>3, <1>4, <3>1, Zenon DEF FrameLaid
  <2> QED
    BY ONLY <2>1, EthernetIs
<1>6. /\ r.dest = Field(p, 0, 6) /\ r.src = Field(p, 6, 6)
      /\ r.type = "Unknown" /\ r.next.section = "none"
  <2>1. PICK q : q = After(p, 14)
    OBVIOUS
  <2>2. r \in get_eth_info(p)
    BY <1>1
  <2>3. type \notin {2048, 2054}
    BY <1>2
  <2> QED
    BY ONLY <1>5, <2>1, <2>2, <2>3, EthernetReported
<1>7. d.kind = "other" /\ d.kind \in {"arp", "ip", "other"} /\ d.kind # "arp" /\ d.kind # "ip"
  OBVIOUS
<1> QED
  BY ONLY <1>5, <1>6, <1>7 DEF FrameRight

LEMMA ArpFrameReported ==
    ASSUME NEW d, IsFrame(d), d.kind = "arp", NEW r \in get_eth_info(FrameBytes(d))
    PROVE  FrameRight(d, r)
<1>1. PICK p, type, a, e, body : /\ p = FrameBytes(d) /\ type = TypeOf.arp
                                 /\ a = ArpBytes(d) /\ e = NetworkShort(type) /\ body = e \o a
  OBVIOUS
<1>2. /\ IsBytes(d.destMac, 6) /\ IsBytes(d.srcMac, 6)
      /\ IsShort(type) /\ type = 2054 /\ p = d.destMac \o d.srcMac \o body
  <2>1. IsFrame(d) /\ d.kind = "arp"
    OBVIOUS
  <2>2. /\ IsBytes(d.destMac, 6) /\ IsBytes(d.srcMac, 6)
        /\ p = d.destMac \o d.srcMac \o (NetworkShort(TypeOf.arp) \o ArpBytes(d))
    BY ONLY <1>1, <2>1, FrameCases
  <2> QED
    BY ONLY <1>1, <2>2, TypesAre
<1>3. a \in Seq(Octet)
  BY <1>1, ArpIs
<1>4. e \in Seq(Octet) /\ Len(e) = 2
  BY <1>1, <1>2, ShortBytes DEF IsShort
<1>5. body \in Seq(Octet) /\ Holds(body, 0, e) /\ Holds(body, 2, a)
  <2>1. a \in Seq(Octet) /\ e \in Seq(Octet) /\ body = e \o a
    BY <1>1, <1>3, <1>4
  <2>2. body \in Seq(Octet) /\ Holds(body, 0, e) /\ Holds(body, Len(e), a)
    BY ONLY <2>1, HoldsJoined
  <2> QED
    BY ONLY <1>4, <2>2
<1>6. PICK q : q = After(p, 14)
  OBVIOUS
<1>7. /\ Field(p, 0, 6) = d.destMac /\ Field(p, 6, 6) = d.srcMac /\ ntohs_at(p, 12) = type
      /\ q \in Seq(Octet)
      /\ \A k \in Nat : \A part \in Seq(Octet) : Holds(body, 2 + k, part) => Holds(q, k, part)
  <2>1. Holds(body, 0, NetworkShort(type))
    BY <1>1, <1>5
  <2>2. body \in Seq(Octet)
    BY <1>5
  <2> QED
    <3>1. FrameLaid(p, d.destMac, d.srcMac, type, body)
      BY ONLY <1>2, <2>1, <2>2, Zenon DEF FrameLaid
    <3> QED
      BY ONLY <1>6, <3>1, EthernetIs
<1>8. Holds(q, 0, a)
  <2>1. 0 \in Nat /\ 2 + 0 = 2
    OBVIOUS
  <2>2. Holds(body, 2 + 0, a)
    BY <1>5, <2>1
  <2> QED
    BY ONLY <1>3, <1>7, <2>1, <2>2
<1>9. ArpRight(d, get_arp_info(q))
  <2>1. IsFrame(d) /\ d.kind = "arp" /\ q \in Seq(Octet) /\ Holds(q, 0, ArpBytes(d))
    BY <1>1, <1>7, <1>8
  <2> QED
    BY ONLY <2>1, ArpReported
<1>10. /\ r.dest = Field(p, 0, 6) /\ r.src = Field(p, 6, 6)
       /\ r.type = "ARP" /\ r.next = get_arp_info(q)
  <2>1. r \in get_eth_info(p)
    BY <1>1
  <2> QED
    BY ONLY <1>2, <1>6, <1>7, <2>1, EthernetReported
<1>11. d.kind = "arp" /\ d.kind \in {"arp", "ip", "other"} /\ d.kind # "other" /\ d.kind # "ip"
  OBVIOUS
<1> QED
  BY ONLY <1>7, <1>9, <1>10, <1>11 DEF FrameRight

LEMMA IpFrameReported ==
    ASSUME NEW d, IsFrame(d), d.kind = "ip", NEW r \in get_eth_info(FrameBytes(d))
    PROVE  FrameRight(d, r)
<1>1. PICK p, type, e : p = FrameBytes(d) /\ type = TypeOf.ip /\ e = NetworkShort(type)
  OBVIOUS
<1>2. PICK h, g, pad, body : /\ h = IpHeader(d) /\ g = Segment(d) /\ pad = d.pad
                             /\ body = e \o h \o g \o pad
  OBVIOUS
<1>3. /\ IsBytes(d.destMac, 6) /\ IsBytes(d.srcMac, 6) /\ IsIpPacket(d)
      /\ IsShort(type) /\ type = 2048 /\ p = d.destMac \o d.srcMac \o body
  <2>1. IsFrame(d) /\ d.kind = "ip"
    OBVIOUS
  <2>2. /\ IsBytes(d.destMac, 6) /\ IsBytes(d.srcMac, 6) /\ IsIpPacket(d)
        /\ p = d.destMac \o d.srcMac
                   \o (NetworkShort(TypeOf.ip) \o IpHeader(d) \o Segment(d) \o d.pad)
    BY ONLY <1>1, <2>1, FrameCases
  <2> QED
    BY ONLY <1>1, <1>2, <2>2, TypesAre
<1>4. g \in Seq(Octet) /\ pad \in Seq(Octet)
  BY <1>2, <1>3, SegmentIs, IpPacketIs
<1>5. e \in Seq(Octet) /\ Len(e) = 2
  BY <1>1, <1>3, ShortBytes DEF IsShort
<1>6. h \in Seq(Octet) /\ Len(h) = 4 * d.ihl
  <2>1. PICK total : total = TotalOf(d)
    OBVIOUS
  <2>2. IsShort(total)
    BY <1>3, <2>1, TotalIs
  <2>3. total = IF d.offloaded THEN 0 ELSE 4 * d.ihl + Len(Segment(d))
    BY <2>1, Zenon DEF TotalOf
  <2>4. IpHeader(d) \in Seq(Octet) /\ Len(IpHeader(d)) = 4 * d.ihl
    BY ONLY <1>3, <2>2, <2>3, IpHeaderIs
  <2> QED
    BY <1>2, <2>4
<1>7. PICK m \in Nat : m = 4 * d.ihl
  BY <1>6
<1>8. body \in Seq(Octet) /\ Holds(body, 0, e) /\ Holds(body, 2, h) /\ Holds(body, 2 + m, g)
  <2>1. 2 + m = 2 + Len(h)
    BY <1>6, <1>7
  <2> QED
    BY ONLY <1>2, <1>4, <1>5, <1>6, <2>1, IpBodyIs
<1>9. PICK q : q = After(p, 14)
  OBVIOUS
<1>10. /\ Field(p, 0, 6) = d.destMac /\ Field(p, 6, 6) = d.srcMac /\ ntohs_at(p, 12) = type
       /\ q \in Seq(Octet)
       /\ \A k \in Nat : \A part \in Seq(Octet) : Holds(body, 2 + k, part) => Holds(q, k, part)
  <2>1. Holds(body, 0, NetworkShort(type))
    BY <1>1, <1>8
  <2>2. body \in Seq(Octet)
    BY <1>8
  <2> QED
    <3>1. FrameLaid(p, d.destMac, d.srcMac, type, body)
      BY ONLY <1>3, <2>1, <2>2, Zenon DEF FrameLaid
    <3> QED
      BY ONLY <1>9, <3>1, EthernetIs
<1>11. Holds(q, 0, h) /\ Holds(q, m, g)
  <2>1. 0 \in Nat /\ 2 + 0 = 2 /\ m \in Nat
    OBVIOUS
  <2>2. Holds(body, 2 + 0, h) /\ Holds(body, 2 + m, g)
    BY <1>8, <2>1
  <2> QED
    BY ONLY <1>4, <1>6, <1>10, <2>1, <2>2
<1>12. /\ r.dest = Field(p, 0, 6) /\ r.src = Field(p, 6, 6)
       /\ r.type = "IP" /\ r.next \in get_ip_info(q)
  <2>1. r \in get_eth_info(p)
    BY <1>1
  <2> QED
    BY ONLY <1>3, <1>9, <1>10, <2>1, EthernetReported
<1>13. IpRight(d, r.next)
  <2>1. /\ IsIpPacket(d) /\ q \in Seq(Octet)
        /\ Holds(q, 0, IpHeader(d)) /\ Holds(q, 4 * d.ihl, Segment(d))
    BY <1>2, <1>3, <1>7, <1>10, <1>11
  <2>2. r.next \in get_ip_info(q)
    BY <1>12
  <2> QED
    BY ONLY <2>1, <2>2, IpReported
<1>14. d.kind = "ip" /\ d.kind \in {"arp", "ip", "other"} /\ d.kind # "other" /\ d.kind # "arp"
  OBVIOUS
<1> QED
  BY ONLY <1>10, <1>12, <1>13, <1>14 DEF FrameRight

LEMMA FrameReported ==
    ASSUME NEW d, IsFrame(d), NEW r \in get_eth_info(FrameBytes(d))
    PROVE  FrameRight(d, r)
<1>1. d.kind \in {"arp", "ip", "other"}
  BY FrameCases
<1> QED
  BY <1>1, ArpFrameReported, IpFrameReported, OtherReported

-----------------------------------------------------------------------------
(* The trace *)

ReportsOf == [number : Nat, eth : UNION {get_eth_info(FrameBytes(d)) : d \in Frames}]

\* Every report is one that its frame may get.
Reported(frames, said) ==
    /\ frames \in Seq(Frames) /\ said \in Seq(ReportsOf) /\ Len(said) = Len(frames)
    /\ \A k \in 1 .. Len(frames) :
         said[k].number = k /\ said[k].eth \in get_eth_info(FrameBytes(frames[k]))

ReportsInv == Reported(captured, reports)

LEMMA AppendedIs ==
    ASSUME NEW S, NEW c \in Seq(S), NEW x \in S
    PROVE  /\ Append(c, x) \in Seq(S) /\ Len(Append(c, x)) = Len(c) + 1
           /\ \A k \in 1 .. Len(c) : Append(c, x)[k] = c[k]
           /\ Append(c, x)[Len(c) + 1] = x
OBVIOUS

LEMMA ReportsAppended ==
    ASSUME NEW frames, NEW said, Reported(frames, said),
           NEW d \in Frames, NEW r \in get_eth_info(FrameBytes(d)),
           NEW c, c = Append(frames, d),
           NEW s, s = Append(said, [number |-> Len(frames) + 1, eth |-> r])
    PROVE  Reported(c, s)
<1>1. PICK n \in Nat : n = Len(frames)
  BY DEF Reported
<1>2. /\ frames \in Seq(Frames) /\ said \in Seq(ReportsOf) /\ Len(said) = n
      /\ \A k \in 1 .. n :
           said[k].number = k /\ said[k].eth \in get_eth_info(FrameBytes(frames[k]))
  BY <1>1 DEF Reported
<1>3. PICK x : x = [number |-> n + 1, eth |-> r]
  OBVIOUS
<1>4. x.number = n + 1 /\ x.eth = r
  BY ONLY <1>3
<1>5. x \in ReportsOf
  <2>1. r \in UNION {get_eth_info(FrameBytes(e)) : e \in Frames}
    OBVIOUS
  <2>2. n + 1 \in Nat
    OBVIOUS
  <2> QED
    BY ONLY <1>3, <2>1, <2>2 DEF ReportsOf
<1>6. /\ c \in Seq(Frames) /\ Len(c) = n + 1
      /\ \A k \in 1 .. n : c[k] = frames[k]
      /\ c[n + 1] = d
  BY <1>1, <1>2, AppendedIs
<1>7. /\ s \in Seq(ReportsOf) /\ Len(s) = n + 1
      /\ \A k \in 1 .. n : s[k] = said[k]
      /\ s[n + 1] = x
  BY <1>1, <1>2, <1>3, <1>5, AppendedIs
<1>8. ASSUME NEW k \in 1 .. n + 1
      PROVE  s[k].number = k /\ s[k].eth \in get_eth_info(FrameBytes(c[k]))
  <2>1. CASE k = n + 1
    <3>1. s[k].number = k /\ s[k].eth = r /\ c[k] = d
      BY ONLY <1>4, <1>6, <1>7, <2>1
    <3> QED
      BY <3>1
  <2>2. CASE k # n + 1
    <3>1. k \in 1 .. n
      BY <2>2
    <3>2. s[k] = said[k] /\ c[k] = frames[k]
      BY <1>6, <1>7, <3>1
    <3> QED
      BY <1>2, <3>1, <3>2
  <2> QED
    BY <2>1, <2>2
<1> QED
  BY <1>6, <1>7, <1>8 DEF Reported

\* Every report of a capture of any length is one that its frame may get.
LEMMA EveryReport == TraceSpec => []ReportsInv
<1>1. TraceInit => ReportsInv
  BY DEF TraceInit, ReportsInv, Reported
<1>2. ReportsInv /\ [NextPacket]_traceVars => ReportsInv'
  <2> SUFFICES ASSUME ReportsInv, [NextPacket]_traceVars PROVE ReportsInv'
    OBVIOUS
  <2>1. CASE NextPacket
    <3>1. PICK d \in Frames :
            /\ captured' = Append(captured, d)
            /\ \E report \in get_eth_info(FrameBytes(d)) :
                 reports' = Append(reports, [number |-> Len(captured) + 1, eth |-> report])
      BY <2>1 DEF NextPacket
    <3>2. PICK r \in get_eth_info(FrameBytes(d)) :
            reports' = Append(reports, [number |-> Len(captured) + 1, eth |-> r])
      BY <3>1
    <3>3. Reported(captured, reports)
      BY DEF ReportsInv
    <3>4. Reported(Append(captured, d),
                   Append(reports, [number |-> Len(captured) + 1, eth |-> r]))
      BY <3>3, ReportsAppended
    <3>5. Reported(captured', reports')
      BY ONLY <3>1, <3>2, <3>4, Zenon
    <3> QED
      BY ONLY <3>5 DEF ReportsInv
  <2>2. CASE UNCHANGED traceVars
    BY <2>2 DEF traceVars, ReportsInv
  <2> QED
    BY <2>1, <2>2
<1> QED
  BY <1>1, <1>2, PTL DEF TraceSpec

LEMMA EveryFrame ==
    ASSUME ReportsInv, NEW k \in DOMAIN reports
    PROVE  reports[k].number = k /\ FrameRight(captured[k], reports[k].eth)
<1>1. k \in 1 .. Len(captured)
  BY DEF ReportsInv, Reported
<1>2. reports[k].number = k /\ reports[k].eth \in get_eth_info(FrameBytes(captured[k]))
  BY <1>1, Zenon DEF ReportsInv, Reported
<1>3. captured[k] \in Frames
  BY <1>1 DEF ReportsInv, Reported
<1>4. IsFrame(captured[k])
  BY <1>3, FramesAssumption
<1> QED
  BY ONLY <1>2, <1>4, FrameReported

LEMMA FrameSays ==
    ASSUME NEW d, NEW r, FrameRight(d, r)
    PROVE  /\ r.dest = d.destMac /\ r.src = d.srcMac
           /\ CASE d.kind = "other" -> r.type = "Unknown" /\ r.next.section = "none"
                [] d.kind = "arp" ->
                     /\ r.type = "ARP"
                     /\ d.op \in {1, 2} => r.next.opcode = <<"Request", "Reply">>[d.op]
                     /\ r.next.senderMac = d.senderMac /\ r.next.senderIp = d.senderIp
                     /\ r.next.targetMac = d.targetMac /\ r.next.targetIp = d.targetIp
                [] d.kind = "ip" ->
                     /\ r.type = "IP"
                     /\ r.next.version = 4 /\ r.next.headerLen = 4 * d.ihl
                     /\ r.next.dscp = d.dscp /\ r.next.ecn = d.ecn /\ r.next.ttl = d.ttl
                     /\ r.next.sender = d.src /\ r.next.dest = d.dest
                     /\ d.fragment = 0 => TransportReported(r.next.next, d.transport)
<1>1. PICK n : n = r.next
  OBVIOUS
<1>2. /\ r.dest = d.destMac /\ r.src = d.srcMac
      /\ d.kind \in {"arp", "ip", "other"}
      /\ d.kind = "other" => r.type = "Unknown" /\ n.section = "none"
      /\ d.kind = "arp" => r.type = "ARP" /\ ArpRight(d, n)
      /\ d.kind = "ip" => r.type = "IP" /\ IpRight(d, n)
  BY <1>1, Zenon DEF FrameRight
<1>3. CASE d.kind = "other"
  BY <1>1, <1>2, <1>3
<1>4. CASE d.kind = "arp"
  BY <1>1, <1>2, <1>4 DEF ArpRight
<1>5. CASE d.kind = "ip"
  <2>1. IpRight(d, n)
    BY <1>2, <1>5
  <2>2. /\ n.version = 4 /\ n.headerLen = 4 * d.ihl
        /\ n.dscp = d.dscp /\ n.ecn = d.ecn /\ n.ttl = d.ttl
        /\ n.sender = d.src /\ n.dest = d.dest
        /\ NextRight(d, n.next)
    BY <2>1, Zenon DEF IpRight
  <2>3. TransportReported(n.next, d.transport)
    BY <2>2, Zenon DEF NextRight
  <2> QED
    BY <1>1, <1>2, <1>5, <2>2, <2>3
<1> QED
  BY <1>2, <1>3, <1>4, <1>5

\* main of trace.c and every parser it calls: whatever a capture holds, each frame's
\* report says what was sent, every field of it, behind headers of any length.
THEOREM TraceReports == TraceSpec => []ReportsWhatWasSent
<1>1. ReportsInv => ReportsWhatWasSent
  <2> SUFFICES ASSUME ReportsInv PROVE ReportsWhatWasSent
    OBVIOUS
  <2>1. \A k \in DOMAIN reports :
          reports[k].number = k /\ FrameRight(captured[k], reports[k].eth)
    BY EveryFrame
  <2> QED
    BY <2>1, FrameSays, Zenon DEF ReportsWhatWasSent
<1> QED
  BY <1>1, EveryReport, PTL

\* get_ip_info and get_tcp_info: for packets of any content and length, the verdict on
\* each checksum is right, options, odd lengths and padding included, and TCP's covers
\* the segment, or runs past it when the total length is 0.
THEOREM TraceVerdicts == TraceSpec => []ChecksumsRight
<1>1. ReportsInv => ChecksumsRight
  <2> SUFFICES ASSUME ReportsInv PROVE ChecksumsRight
    OBVIOUS
  <2>1. ASSUME NEW k \in DOMAIN reports, captured[k].kind = "ip"
        PROVE  IpRight(captured[k], reports[k].eth.next)
    <3>1. FrameRight(captured[k], reports[k].eth)
      BY EveryFrame
    <3> QED
      BY <2>1, <3>1, Zenon DEF FrameRight
  <2>2. ASSUME NEW k \in DOMAIN reports, captured[k].kind = "ip"
        PROVE  /\ (reports[k].eth.next.checksum = "Correct") <=> captured[k].intact
               /\ NextRight(captured[k], reports[k].eth.next.next)
    BY <2>1, <2>2, Zenon DEF IpRight
  <2>3. ChecksumsJudged
    BY <2>2, Zenon DEF ChecksumsJudged, NextRight
  <2>4. CoversTheSegment
    <3>1. ASSUME NEW k \in DOMAIN reports, captured[k].kind = "ip",
                 captured[k].transport.proto = 6
          PROVE  reports[k].eth.next.next.covered = LengthCovered(captured[k])
      BY <2>2, <3>1, Zenon DEF NextRight
    <3> QED
      BY ONLY <3>1 DEF CoversTheSegment, LengthCovered
  <2> QED
    BY <2>3, <2>4 DEF ChecksumsRight
<1> QED
  BY <1>1, EveryReport, PTL
=============================================================================
