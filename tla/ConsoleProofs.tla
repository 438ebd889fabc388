--------------------------- MODULE ConsoleProofs ---------------------------
(***************************************************************************)
(* What Segmentation and Console promise, for every line, handle and size  *)
(* of the buffer: a line is cut into parts without loss, and lines are     *)
(* worked on in the order they were typed.                                 *)
(***************************************************************************)
EXTENDS Console, CommonLemmas

PartType == [bytes : Seq(Byte), from : Nat]

\* Behind the client's own handle and, in a message, the number of recipients.
ListStart(l) == Len(myHandle) + (IF l.flag = 4 THEN 2 ELSE 3)

\* The first bytes, as far as end, are the header of a line with n of its handles: the
\* k-th is behind place[k], its length first.
Listed(bytes, l, n, place, end) ==
    /\ bytes[1] = l.flag /\ bytes[2] = Len(myHandle)
    /\ l.flag # 4 => bytes[Len(myHandle) + 3] = Len(l.to)
    /\ place[1] = ListStart(l) /\ place[n + 1] = end
    /\ \A k \in 1 .. n + 1 : ListStart(l) <= place[k] /\ place[k] <= end
    /\ \A k \in 1 .. n :
        /\ place[k + 1] = place[k] + 1 + Len(l.to[k])
        /\ bytes[place[k] + 1] = Len(l.to[k])
        /\ \A j \in 1 .. Len(l.to[k]) : bytes[place[k] + 1 + j] = l.to[k][j]

Headed(bytes, l, end) ==
    \E place \in [1 .. Len(l.to) + 1 -> Nat] : Listed(bytes, l, Len(l.to), place, end)

\* Behind the header is the text from this place on.
Carries(bytes, from, end, text) ==
    /\ end <= Len(bytes) /\ from + (Len(bytes) - end) <= Len(text)
    /\ \A i \in 1 .. Len(bytes) - end : bytes[end + i] = text[from + i]

\* How far in the text a part goes, and all parts together.
EndOf(part, end) == part.from + (Len(part.bytes) - end)
Reached(ps, end) == IF ps = << >> THEN 0 ELSE EndOf(ps[Len(ps)], end)

\* Each part has the header and its piece of the text, which begins where the part
\* before ended.
Sound(ps, l, end) ==
    \A k \in DOMAIN ps :
        /\ Headed(ps[k].bytes, l, end)
        /\ Carries(ps[k].bytes, ps[k].from, end, l.text)
        /\ ps[k].from = IF k = 1 THEN 0 ELSE EndOf(ps[k - 1], end)
        /\ end < BufferSize => Len(ps[k].bytes) <= BufferSize

SegmentationTypes ==
    /\ pc \in {"idle", "handles", "text"} /\ line \in Lines \cup {NoLine}
    /\ buf \in Seq(Byte) /\ handleNext \in Nat \ {0} /\ headerEnd \in Nat /\ input \in Nat
    /\ parts \in Seq(PartType)

InHandles ==
    pc = "handles" =>
        /\ line \in Lines
        /\ headerEnd = 0 /\ input = 0 /\ parts = << >> /\ handleNext - 1 <= Len(line.to)
        /\ \E place \in [1 .. handleNext -> Nat] :
             Listed(buf, line, handleNext - 1, place, Len(buf))

InText ==
    pc = "text" =>
        /\ line \in Lines /\ headerEnd > 0
        /\ Headed(buf, line, headerEnd)
        /\ Carries(buf, Reached(parts, headerEnd), headerEnd, line.text)
        /\ input = Reached(parts, headerEnd) + (Len(buf) - headerEnd)
        /\ Len(buf) < PartLimit \/ Len(buf) = headerEnd
        /\ \A k \in DOMAIN parts : Len(parts[k].bytes) > headerEnd

AtRest ==
    pc = "idle" =>
        \/ parts = << >> /\ headerEnd = 0 /\ buf = << >>
        \/ /\ line \in Lines /\ headerEnd > 0 /\ parts # << >>
           /\ Reached(parts, headerEnd) = Len(line.text)
           /\ HeaderFits => Len(buf) <= BufferSize
           /\ \A k \in DOMAIN parts : k < Len(parts) => Len(parts[k].bytes) > headerEnd

SegmentationIInv ==
    SegmentationTypes /\ InHandles /\ InText /\ AtRest /\ Sound(parts, line, headerEnd)

-----------------------------------------------------------------------------
(* Lines and headers *)

\* The widths and sizes, and what a line is.
LEMMA Sizes ==
    /\ UInt8 \in Nat /\ BufferSize \in Nat /\ PartLimit \in Nat /\ Len(myHandle) \in Nat
    /\ 5 < PartLimit /\ PartLimit < BufferSize /\ BufferSize + 2 < UInt8
    /\ myHandle \in Seq(Byte) /\ Len(myHandle) + 2 < BufferSize
    /\ Len(myHandle) \in Byte
BY SegmentationAssumption DEF Byte

LEMMA ListStartIs == \A l : ListStart(l) \in Nat
<1> SUFFICES ASSUME NEW l PROVE ListStart(l) \in Nat
  OBVIOUS
<1>1. Len(myHandle) \in Nat
  BY Sizes
<1> QED
  BY <1>1 DEF ListStart

LEMMA LineFacts ==
    ASSUME NEW l \in Lines
    PROVE  /\ l.flag \in {4, 5, 6} /\ l.flag \in Byte
           /\ l.to \in Seq(Seq(Byte)) /\ Len(l.to) \in Nat /\ Len(l.to) \in Byte
           /\ \A i \in DOMAIN l.to : Len(l.to[i]) \in Byte /\ Len(l.to[i]) \in Nat
           /\ l.text \in Seq(Byte) /\ Len(l.text) \in Nat
           /\ \A i \in DOMAIN l.text : l.text[i] = 0 <=> i = Len(l.text)
           /\ l.flag = 4 => l.to = << >>
           /\ l.flag # 4 => l.text # << >>
<1>1. /\ l.flag \in {4, 5, 6}
      /\ l.to \in Seq(Seq(Byte)) /\ Len(l.to) \in Byte
      /\ \A i \in DOMAIN l.to : Len(l.to[i]) \in Byte
      /\ l.text \in Seq(Byte)
      /\ \A i \in DOMAIN l.text : l.text[i] = 0 <=> i = Len(l.text)
      /\ l.flag = 4 => l.to = << >>
      /\ l.flag # 4 => l.text # << >>
  BY SegmentationAssumption
<1>2. l.flag \in Byte
  <2>1. UInt8 \in Nat /\ 6 < UInt8
    BY Sizes
  <2> QED
    BY <1>1, <2>1 DEF Byte
<1>3. \A n \in Byte : n \in Nat
  BY Sizes DEF Byte
<1>4. Len(l.text) \in Nat /\ Len(l.to) \in Nat
  BY <1>1
<1> QED
  BY <1>1, <1>2, <1>3, <1>4

SameUpTo(c, b, end) == \A i \in 1 .. end : c[i] = b[i]

\* A header is what its own bytes are.
LEMMA ListedKept ==
    ASSUME NEW l \in Lines, NEW n \in 0 .. Len(l.to), NEW end \in Nat,
           NEW place \in [1 .. n + 1 -> Nat],
           NEW b, NEW c, Listed(b, l, n, place, end), SameUpTo(c, b, end)
    PROVE  Listed(c, l, n, place, end)
<1>0. \A i \in 1 .. end : c[i] = b[i]
  BY DEF SameUpTo
<1>1. /\ n \in Nat /\ Len(myHandle) \in Nat /\ 1 \in 1 .. n + 1
      /\ ListStart(l) = Len(myHandle) + (IF l.flag = 4 THEN 2 ELSE 3)
  BY LineFacts, Sizes DEF ListStart
<1>2. ListStart(l) <= end
  BY <1>1 DEF Listed
<1>3. 1 \in 1 .. end /\ 2 \in 1 .. end /\ (l.flag # 4 => Len(myHandle) + 3 \in 1 .. end)
  BY <1>1, <1>2
<1>4. ASSUME NEW k \in 1 .. n
      PROVE  /\ place[k] + 1 \in 1 .. end
             /\ \A j \in 1 .. Len(l.to[k]) : place[k] + 1 + j \in 1 .. end
  <2>1. k \in 1 .. n + 1 /\ k + 1 \in 1 .. n + 1 /\ k \in DOMAIN l.to
    BY <1>1, LineFacts
  <2>2. place[k] \in Nat /\ place[k + 1] <= end /\ place[k + 1] = place[k] + 1 + Len(l.to[k])
    BY <2>1 DEF Listed
  <2>3. Len(l.to[k]) \in Nat
    BY <2>1, LineFacts
  <2> DEFINE a == place[k]  m == Len(l.to[k])
  <2>4. a \in Nat /\ m \in Nat /\ a + 1 + m <= end
    BY <2>2, <2>3
  <2> HIDE DEF a, m
  <2>5. a + 1 \in 1 .. end /\ \A j \in 1 .. m : a + 1 + j \in 1 .. end
    BY <2>4
  <2> QED
    BY <2>5 DEF a, m
<1>5. ASSUME NEW k \in 1 .. n
      PROVE  /\ place[k + 1] = place[k] + 1 + Len(l.to[k])
             /\ c[place[k] + 1] = Len(l.to[k])
             /\ \A j \in 1 .. Len(l.to[k]) : c[place[k] + 1 + j] = l.to[k][j]
  <2>1. /\ place[k + 1] = place[k] + 1 + Len(l.to[k])
        /\ b[place[k] + 1] = Len(l.to[k])
        /\ \A j \in 1 .. Len(l.to[k]) : b[place[k] + 1 + j] = l.to[k][j]
    BY DEF Listed
  <2> QED
    BY <1>0, <1>4, <2>1
<1>6. /\ c[1] = l.flag /\ c[2] = Len(myHandle)
      /\ l.flag # 4 => c[Len(myHandle) + 3] = Len(l.to)
  BY <1>0, <1>3 DEF Listed
<1> QED
  BY <1>5, <1>6 DEF Listed

LEMMA HeadedKept ==
    ASSUME NEW l \in Lines, NEW end \in Nat, NEW b, NEW c,
           Headed(b, l, end), SameUpTo(c, b, end)
    PROVE  Headed(c, l, end)
<1>1. PICK place \in [1 .. Len(l.to) + 1 -> Nat] : Listed(b, l, Len(l.to), place, end)
  BY DEF Headed
<1>2. Len(l.to) \in 0 .. Len(l.to)
  BY LineFacts
<1>3. Listed(c, l, Len(l.to), place, end)
  BY <1>1, <1>2, ListedKept
<1> QED
  BY <1>3 DEF Headed

LEMMA OneByte ==
    ASSUME NEW x \in Byte
    PROVE  <<x>> \in Seq(Byte) /\ Len(<<x>>) = 1 /\ <<x>>[1] = x
OBVIOUS

LEMMA TwoBytes ==
    ASSUME NEW x \in Byte, NEW y \in Byte
    PROVE  <<x, y>> \in Seq(Byte) /\ Len(<<x, y>>) = 2 /\ <<x, y>>[1] = x /\ <<x, y>>[2] = y
OBVIOUS

\* What messageSend writes before it comes to the handles.
LEMMA HeaderBegins ==
    ASSUME NEW l \in Lines, NEW b,
           b = <<l.flag, Len(myHandle)>> \o myHandle \o (IF l.flag = 4 THEN << >> ELSE <<Len(l.to)>>)
    PROVE  /\ b \in Seq(Byte)
           /\ \E place \in [1 .. 1 -> Nat] : Listed(b, l, 0, place, Len(b))
<1>1. PICK n \in Nat : n = Len(myHandle)
  BY Sizes
<1>2. PICK m \in Nat : m = Len(l.to) /\ m \in Byte
  BY LineFacts
<1>3. l.flag \in Byte /\ n \in Byte /\ myHandle \in Seq(Byte)
  BY <1>1, LineFacts, Sizes
<1>4. PICK f \in Byte : f = l.flag
  BY <1>3
<1>5. PICK u \in Seq(Byte) : u = <<f, n>> /\ Len(u) = 2 /\ u[1] = f /\ u[2] = n
  <2>1. n \in Byte /\ f \in Byte
    BY <1>3
  <2>2. <<f, n>> \in Seq(Byte) /\ Len(<<f, n>>) = 2 /\ <<f, n>>[1] = f /\ <<f, n>>[2] = n
    BY <2>1, TwoBytes
  <2> QED
    BY <2>2
<1>6. PICK v \in Seq(Byte) : /\ v = u \o myHandle /\ Len(v) = n + 2
                             /\ v[1] = f /\ v[2] = n
  <2>1. /\ u \o myHandle \in Seq(Byte) /\ Len(u \o myHandle) = Len(u) + Len(myHandle)
        /\ \A i \in 1 .. Len(u) : (u \o myHandle)[i] = u[i]
    BY <1>3, <1>5, ConcatAt
  <2>2. 1 \in 1 .. Len(u) /\ 2 \in 1 .. Len(u) /\ Len(u) + Len(myHandle) = n + 2
    BY <1>1, <1>5
  <2> QED
    BY <1>5, <2>1, <2>2
<1>7. PICK w \in Seq(Byte) : /\ w = (IF f = 4 THEN << >> ELSE <<m>>)
                             /\ f = 4 => Len(w) = 0
                             /\ f # 4 => Len(w) = 1 /\ w[1] = m
  <2>1. << >> \in Seq(Byte) /\ <<m>> \in Seq(Byte) /\ Len(<<m>>) = 1 /\ <<m>>[1] = m
    BY <1>2
  <2> QED
    BY <2>1
<1>8. b = v \o w
  BY <1>1, <1>2, <1>4, <1>5, <1>6, <1>7
<1>9. /\ b \in Seq(Byte) /\ Len(b) = Len(v) + Len(w)
      /\ \A i \in 1 .. Len(v) : b[i] = v[i]
      /\ \A j \in 1 .. Len(w) : b[Len(v) + j] = w[j]
  <2>1. /\ v \o w \in Seq(Byte) /\ Len(v \o w) = Len(v) + Len(w)
        /\ \A i \in 1 .. Len(v) : (v \o w)[i] = v[i]
        /\ \A j \in 1 .. Len(w) : (v \o w)[Len(v) + j] = w[j]
    BY ConcatAt
  <2> QED
    BY <1>8, <2>1
<1>10. b[1] = f /\ b[2] = n
  <2>1. 1 \in 1 .. Len(v) /\ 2 \in 1 .. Len(v)
    BY <1>6
  <2> QED
    BY <1>6, <1>9, <2>1
<1>11. f # 4 => b[n + 3] = m
  <2>1. (n + 2) + 1 = n + 3 /\ (f # 4 => 1 \in 1 .. Len(w))
    BY <1>7
  <2>2. f # 4 => b[(n + 2) + 1] = w[1]
    BY <1>6, <1>9, <2>1
  <2> QED
    BY <1>7, <2>1, <2>2
<1>12. Len(b) = ListStart(l)
  BY <1>1, <1>4, <1>6, <1>7, <1>9 DEF ListStart
<1>13. PICK place \in [1 .. 1 -> Nat] : place[1] = Len(b)
  <2>1. Len(b) \in Nat /\ 1 \in 1 .. 1
    BY <1>9
  <2>2. PICK p : p = [k \in 1 .. 1 |-> Len(b)]
    OBVIOUS
  <2>3. p \in [1 .. 1 -> Nat] /\ p[1] = Len(b)
    BY <2>1, <2>2
  <2> QED
    BY <2>3
<1>14. Listed(b, l, 0, place, Len(b))
  <2>1. /\ b[1] = l.flag /\ b[2] = Len(myHandle)
        /\ l.flag # 4 => b[Len(myHandle) + 3] = Len(l.to)
    BY <1>1, <1>2, <1>4, <1>10, <1>11
  <2>2. \A k \in 1 .. 0 + 1 : k = 1
    OBVIOUS
  <2>3. \A k \in 1 .. 0 : FALSE
    OBVIOUS
  <2>4. Len(b) \in Nat /\ 0 + 1 = 1 /\ Len(b) <= Len(b)
    BY <1>9
  <2> QED
    BY <1>12, <1>13, <2>1, <2>2, <2>3, <2>4 DEF Listed
<1> QED
  BY <1>9, <1>14

\* CopyHandle adds a handle to the list.
LEMMA HandleAdded ==
    ASSUME NEW l \in Lines, NEW n \in Nat, n < Len(l.to), NEW b \in Seq(Byte),
           NEW place \in [1 .. n + 1 -> Nat], Listed(b, l, n, place, Len(b)),
           NEW c, c = b \o <<Len(l.to[n + 1])>> \o l.to[n + 1]
    PROVE  /\ c \in Seq(Byte)
           /\ \E places \in [1 .. n + 2 -> Nat] : Listed(c, l, n + 1, places, Len(c))
<1>1. n + 1 \in DOMAIN l.to /\ n \in 0 .. Len(l.to)
  BY LineFacts
<1>2. PICK h \in Seq(Byte) : h = l.to[n + 1] /\ Len(h) \in Byte /\ Len(h) \in Nat
  BY <1>1, LineFacts
<1>3. PICK m \in Nat : m = Len(h) /\ m \in Byte
  BY <1>2
<1>4. PICK e \in Nat : e = Len(b)
  OBVIOUS
<1>5. PICK u \in Seq(Byte) : u = <<m>> /\ Len(u) = 1 /\ u[1] = m
  <2>1. m \in Byte
    BY <1>3
  <2> QED
    BY <2>1, OneByte
<1>6. PICK v \in Seq(Byte) : /\ v = b \o u /\ Len(v) = e + 1 /\ v[e + 1] = m
                             /\ \A i \in 1 .. e : v[i] = b[i]
  <2>1. /\ b \o u \in Seq(Byte) /\ Len(b \o u) = Len(b) + Len(u)
        /\ \A i \in 1 .. Len(b) : (b \o u)[i] = b[i]
        /\ \A j \in 1 .. Len(u) : (b \o u)[Len(b) + j] = u[j]
    BY ConcatAt
  <2>2. 1 \in 1 .. Len(u)
    BY <1>5
  <2> QED
    BY <1>4, <1>5, <2>1, <2>2
<1>7. /\ c \in Seq(Byte) /\ Len(c) = e + 1 + m
      /\ \A i \in 1 .. e + 1 : c[i] = v[i]
      /\ \A j \in 1 .. m : c[e + 1 + j] = h[j]
  <2>1. c = v \o h
    BY <1>2, <1>3, <1>5, <1>6
  <2>2. /\ v \o h \in Seq(Byte) /\ Len(v \o h) = Len(v) + Len(h)
        /\ \A i \in 1 .. Len(v) : (v \o h)[i] = v[i]
        /\ \A j \in 1 .. Len(h) : (v \o h)[Len(v) + j] = h[j]
    BY ConcatAt
  <2> QED
    BY <1>3, <1>6, <2>1, <2>2
<1>8. /\ \A i \in 1 .. e : c[i] = b[i]
      /\ c[e + 1] = m
  <2>1. \A i \in 1 .. e : i \in 1 .. e + 1
    OBVIOUS
  <2>2. e + 1 \in 1 .. e + 1
    OBVIOUS
  <2> QED
    BY <1>6, <1>7, <2>1, <2>2
<1>9. Listed(c, l, n, place, e)
  <2>1. Listed(b, l, n, place, e) /\ n \in 0 .. Len(l.to)
    BY <1>1, <1>4
  <2>2. SameUpTo(c, b, e)
    BY <1>8 DEF SameUpTo
  <2> QED
    BY <2>1, <2>2, ListedKept
<1>10. PICK places \in [1 .. n + 2 -> Nat] :
          /\ \A k \in 1 .. n + 1 : places[k] = place[k]
          /\ places[n + 2] = e + 1 + m
  <2>1. PICK p : p = [k \in 1 .. n + 2 |-> IF k = n + 2 THEN e + 1 + m ELSE place[k]]
    OBVIOUS
  <2>2. \A k \in 1 .. n + 2 : k = n + 2 \/ k \in 1 .. n + 1
    OBVIOUS
  <2>3. e + 1 + m \in Nat /\ n + 2 \in 1 .. n + 2 /\ \A k \in 1 .. n + 1 : k # n + 2 /\ k \in 1 .. n + 2
    OBVIOUS
  <2>4. p \in [1 .. n + 2 -> Nat]
    BY <2>1, <2>2, <2>3
  <2>5. (\A k \in 1 .. n + 1 : p[k] = place[k]) /\ p[n + 2] = e + 1 + m
    BY <2>1, <2>3
  <2> QED
    BY <2>4, <2>5, Zenon
<1>11. /\ place[n + 1] = e /\ place[1] = ListStart(l)
       /\ \A k \in 1 .. n + 1 : ListStart(l) <= place[k] /\ place[k] <= e
  BY <1>9 DEF Listed
<1>12. ListStart(l) \in Nat
  BY ListStartIs, Zenon
<1>13. \A k \in 1 .. n + 2 : ListStart(l) <= places[k] /\ places[k] <= e + 1 + m
  <2>1. \A k \in 1 .. n + 2 : k = n + 2 \/ k \in 1 .. n + 1
    OBVIOUS
  <2>2. n + 1 \in 1 .. n + 1
    OBVIOUS
  <2>3. ListStart(l) <= e + 1 + m
    BY <1>11, <1>12, <2>2
  <2>4. ASSUME NEW k \in 1 .. n + 1 PROVE ListStart(l) <= places[k] /\ places[k] <= e + 1 + m
    BY <1>10, <1>11, <1>12
  <2>5. ListStart(l) <= places[n + 2] /\ places[n + 2] <= e + 1 + m
    BY <1>10, <2>3
  <2> QED
    BY <2>1, <2>4, <2>5
<1>14. ASSUME NEW k \in 1 .. n + 1
       PROVE  /\ places[k + 1] = places[k] + 1 + Len(l.to[k])
              /\ c[places[k] + 1] = Len(l.to[k])
              /\ \A j \in 1 .. Len(l.to[k]) : c[places[k] + 1 + j] = l.to[k][j]
  <2>1. CASE k \in 1 .. n
    <3>1. k + 1 \in 1 .. n + 1 /\ k \in 1 .. n + 1
      BY <2>1
    <3>2. places[k] = place[k] /\ places[k + 1] = place[k + 1]
      BY <1>10, <3>1
    <3>3. /\ place[k + 1] = place[k] + 1 + Len(l.to[k])
          /\ c[place[k] + 1] = Len(l.to[k])
          /\ \A j \in 1 .. Len(l.to[k]) : c[place[k] + 1 + j] = l.to[k][j]
      BY <1>9, <2>1 DEF Listed
    <3> QED
      BY <3>2, <3>3
  <2>2. CASE k = n + 1
    <3>1. places[n + 1] = e /\ places[(n + 1) + 1] = e + 1 + m
      <4>1. n + 1 \in 1 .. n + 1 /\ (n + 1) + 1 = n + 2
        OBVIOUS
      <4> QED
        BY <1>10, <1>11, <4>1
    <3> QED
      BY <1>2, <1>3, <1>7, <1>8, <2>2, <3>1
  <2>3. k \in 1 .. n \/ k = n + 1
    OBVIOUS
  <2> QED
    BY <2>1, <2>2, <2>3
<1>15. /\ c[1] = l.flag /\ c[2] = Len(myHandle)
       /\ l.flag # 4 => c[Len(myHandle) + 3] = Len(l.to)
  BY <1>9 DEF Listed
<1>16. places[1] = ListStart(l) /\ places[(n + 1) + 1] = Len(c)
  <2>1. 1 \in 1 .. n + 1 /\ (n + 1) + 1 = n + 2
    OBVIOUS
  <2> QED
    BY <1>7, <1>10, <1>11, <2>1
<1>17. Listed(c, l, n + 1, places, Len(c))
  <2>1. (n + 1) + 1 = n + 2
    OBVIOUS
  <2>2. Len(c) = e + 1 + m
    BY <1>7
  <2> QED
    BY <1>13, <1>14, <1>15, <1>16, <2>1, <2>2 DEF Listed
<1> QED
  BY <1>7, <1>17

-----------------------------------------------------------------------------
(* Parts *)

\* Of what is kept of a full buffer: its header and no text.
LEMMA CarriesNothing ==
    ASSUME NEW end \in Nat, NEW bytes \in Seq(Byte), Len(bytes) = end,
           NEW text \in Seq(Byte), NEW from \in 0 .. Len(text)
    PROVE  Carries(bytes, from, end, text)
BY DEF Carries

\* A byte more.
LEMMA CarriesMore ==
    ASSUME NEW end \in Nat, NEW bytes \in Seq(Byte), NEW text \in Seq(Byte), NEW from \in Nat,
           Carries(bytes, from, end, text),
           NEW n \in Nat, n = from + (Len(bytes) - end), n < Len(text),
           NEW x \in Byte, x = text[n + 1],
           NEW c \in Seq(Byte), c = Append(bytes, x)
    PROVE  Carries(c, from, end, text)
<1>1. PICK m \in Nat : m = Len(bytes)
  OBVIOUS
<1>2. Len(c) = m + 1 /\ c[m + 1] = x /\ \A i \in 1 .. m : c[i] = bytes[i]
  <2>1. /\ Len(Append(bytes, x)) = Len(bytes) + 1 /\ DOMAIN bytes = 1 .. Len(bytes)
        /\ \A k \in DOMAIN bytes : Append(bytes, x)[k] = bytes[k]
        /\ Append(bytes, x)[Len(bytes) + 1] = x
    BY LastOf
  <2> QED
    BY <1>1, <2>1
<1>3. end <= m /\ from + (m - end) <= Len(text) /\ Len(text) \in Nat /\ n = from + (m - end)
      /\ \A i \in 1 .. m - end : bytes[end + i] = text[from + i]
  BY <1>1 DEF Carries
<1>4. end <= Len(c) /\ from + (Len(c) - end) <= Len(text)
  BY <1>2, <1>3
<1>5. ASSUME NEW i \in 1 .. Len(c) - end PROVE c[end + i] = text[from + i]
  <2>1. CASE i \in 1 .. m - end
    <3>1. end + i \in 1 .. m
      BY <1>3, <2>1
    <3> QED
      BY <1>2, <1>3, <2>1, <3>1
  <2>2. CASE i \notin 1 .. m - end
    <3>1. end + i = m + 1 /\ from + i = n + 1
      BY <1>2, <1>3, <2>2
    <3> QED
      BY <1>2, <3>1
  <2> QED
    BY <2>1, <2>2
<1> QED
  BY <1>4, <1>5 DEF Carries

\* The text goes on where the parts so far have ended.
LEMMA ReachedInText ==
    ASSUME NEW l \in Lines, NEW end \in Nat, NEW ps \in Seq(PartType), Sound(ps, l, end)
    PROVE  /\ Reached(ps, end) \in 0 .. Len(l.text)
           /\ \A k \in DOMAIN ps : EndOf(ps[k], end) \in 0 .. Len(l.text)
<1>1. ASSUME NEW k \in DOMAIN ps PROVE EndOf(ps[k], end) \in 0 .. Len(l.text)
  <2>1. ps[k] \in PartType
    OBVIOUS
  <2>2. ps[k].bytes \in Seq(Byte) /\ ps[k].from \in Nat
    BY <2>1 DEF PartType
  <2>3. end <= Len(ps[k].bytes) /\ ps[k].from + (Len(ps[k].bytes) - end) <= Len(l.text)
    BY DEF Sound, Carries
  <2>4. Len(l.text) \in Nat /\ Len(ps[k].bytes) \in Nat
    BY <2>2, LineFacts
  <2> QED
    BY <2>2, <2>3, <2>4 DEF EndOf
<1>2. Len(l.text) \in Nat
  BY LineFacts
<1>3. ps # << >> => Len(ps) \in DOMAIN ps
  OBVIOUS
<1> QED
  BY <1>1, <1>2, <1>3 DEF Reached

LEMMA PartAdded ==
    ASSUME NEW l \in Lines, NEW end \in Nat, NEW ps \in Seq(PartType), Sound(ps, l, end),
           NEW p \in PartType, p.from = Reached(ps, end),
           Headed(p.bytes, l, end), Carries(p.bytes, p.from, end, l.text),
           end < BufferSize => Len(p.bytes) <= BufferSize
    PROVE  /\ Append(ps, p) \in Seq(PartType) /\ Append(ps, p) # << >>
           /\ Sound(Append(ps, p), l, end)
           /\ Reached(Append(ps, p), end) = EndOf(p, end)
<1>1. PICK qs \in Seq(PartType) : qs = Append(ps, p)
  BY LastOf
<1>2. PICK n \in Nat : n = Len(ps)
  OBVIOUS
<1>3. /\ Len(qs) = n + 1 /\ DOMAIN qs = 1 .. n + 1 /\ DOMAIN ps = 1 .. n
      /\ \A k \in 1 .. n : qs[k] = ps[k]
      /\ qs[n + 1] = p
  <2>1. /\ Len(Append(ps, p)) = Len(ps) + 1
        /\ DOMAIN Append(ps, p) = 1 .. Len(ps) + 1 /\ DOMAIN ps = 1 .. Len(ps)
        /\ \A k \in DOMAIN ps : Append(ps, p)[k] = ps[k]
        /\ Append(ps, p)[Len(ps) + 1] = p
    BY LastOf
  <2> QED
    BY <1>1, <1>2, <2>1
<1>4. qs # << >>
  BY <1>2, <1>3
<1>5. Reached(qs, end) = EndOf(p, end)
  BY <1>3, <1>4 DEF Reached
<1>6. ASSUME NEW k \in DOMAIN qs
      PROVE  /\ Headed(qs[k].bytes, l, end)
             /\ Carries(qs[k].bytes, qs[k].from, end, l.text)
             /\ qs[k].from = IF k = 1 THEN 0 ELSE EndOf(qs[k - 1], end)
             /\ end < BufferSize => Len(qs[k].bytes) <= BufferSize
  <2>1. CASE k \in 1 .. n
    <3>1. k \in DOMAIN ps /\ qs[k] = ps[k]
      BY <1>3, <2>1
    <3>2. k # 1 => qs[k - 1] = ps[k - 1]
      <4>1. k # 1 => k - 1 \in 1 .. n
        BY <2>1
      <4> QED
        BY <1>3, <4>1
    <3>3. /\ Headed(ps[k].bytes, l, end)
          /\ Carries(ps[k].bytes, ps[k].from, end, l.text)
          /\ ps[k].from = IF k = 1 THEN 0 ELSE EndOf(ps[k - 1], end)
          /\ end < BufferSize => Len(ps[k].bytes) <= BufferSize
      BY <3>1 DEF Sound
    <3> QED
      BY <3>1, <3>2, <3>3
  <2>2. CASE k = n + 1
    <3>1. qs[k] = p
      BY <1>3, <2>2
    <3>2. p.from = IF k = 1 THEN 0 ELSE EndOf(qs[k - 1], end)
      <4>1. CASE n = 0
        <5>1. ps = << >> /\ k = 1
          <6>1. Len(ps) = 0 /\ k = 1
            BY <1>2, <2>2, <4>1
          <6> QED
            BY <6>1, EmptySeq
        <5> QED
          BY <5>1 DEF Reached
      <4>2. CASE n # 0
        <5>1. ps # << >> /\ k # 1 /\ k - 1 = n /\ n \in 1 .. n
          BY <1>2, <2>2, <4>2
        <5>2. qs[k - 1] = ps[Len(ps)]
          BY <1>2, <1>3, <5>1
        <5> QED
          BY <5>1, <5>2 DEF Reached
      <4> QED
        BY <4>1, <4>2
    <3> QED
      BY <3>1, <3>2
  <2>3. k \in 1 .. n \/ k = n + 1
    BY <1>3
  <2> QED
    BY <2>1, <2>2, <2>3
<1>7. Sound(qs, l, end)
  BY <1>6 DEF Sound
<1> QED
  BY <1>1, <1>4, <1>5, <1>7

-----------------------------------------------------------------------------
(* The invariant of Segmentation *)

LEMMA SegmentationStarts == SegmentationInit => SegmentationIInv
<1> SUFFICES ASSUME SegmentationInit PROVE SegmentationIInv
  OBVIOUS
<1>1. << >> \in Seq(Byte) /\ << >> \in Seq(PartType) /\ DOMAIN << >> = {}
  OBVIOUS
<1>2. SegmentationTypes
  BY <1>1 DEF SegmentationInit, SegmentationTypes
<1>3. Sound(parts, line, headerEnd)
  BY <1>1 DEF SegmentationInit, Sound
<1> QED
  BY <1>2, <1>3 DEF SegmentationInit, SegmentationIInv, InHandles, InText, AtRest

LEMMA MessageSendKeeps ==
    ASSUME SegmentationIInv, NEW l \in Lines, messageSend(l)
    PROVE  SegmentationIInv'
<1>1. /\ pc' = "handles" /\ line' = l /\ handleNext' = 1 /\ headerEnd' = 0 /\ input' = 0
      /\ parts' = << >>
      /\ buf' = <<l.flag, Len(myHandle)>> \o myHandle \o (IF l.flag = 4 THEN << >> ELSE <<Len(l.to)>>)
  BY DEF messageSend
<1>2. buf' \in Seq(Byte) /\ \E place \in [1 .. 1 -> Nat] : Listed(buf', l, 0, place, Len(buf'))
  BY <1>1, HeaderBegins
<1>3. << >> \in Seq(PartType) /\ DOMAIN << >> = {}
  OBVIOUS
<1>4. SegmentationTypes'
  BY <1>1, <1>2, <1>3 DEF SegmentationTypes
<1>5. InHandles'
  <2>1. handleNext' - 1 = 0 /\ 0 <= Len(l.to)
    BY <1>1, LineFacts
  <2> QED
    BY <1>1, <1>2, <2>1 DEF InHandles
<1>6. Sound(parts, line, headerEnd)'
  BY <1>1, <1>3 DEF Sound
<1> QED
  BY <1>1, <1>4, <1>5, <1>6 DEF SegmentationIInv, InText, AtRest

LEMMA CopyHandleKeeps ==
    ASSUME SegmentationIInv, CopyHandle
    PROVE  SegmentationIInv'
<1>1. /\ pc = "handles" /\ handleNext <= Len(line.to)
      /\ buf' = buf \o <<Len(line.to[handleNext])>> \o line.to[handleNext]
      /\ handleNext' = handleNext + 1
      /\ UNCHANGED <<pc, line, headerEnd, input, parts>>
  BY DEF CopyHandle
<1>2. PICK l \in Lines : l = line
  BY <1>1 DEF SegmentationIInv, InHandles
<1>3. PICK n \in Nat : n + 1 = handleNext
  <2>1. handleNext \in Nat \ {0}
    BY DEF SegmentationIInv, SegmentationTypes
  <2>2. handleNext - 1 \in Nat /\ (handleNext - 1) + 1 = handleNext
    BY <2>1
  <2> QED
    BY <2>2
<1>4. n < Len(l.to) /\ handleNext - 1 = n /\ handleNext + 1 = n + 2 /\ (n + 2) - 1 = n + 1
      /\ n + 2 \in Nat \ {0} /\ n + 1 <= Len(l.to)
  BY <1>1, <1>2, <1>3, LineFacts
<1>5. buf \in Seq(Byte)
  BY DEF SegmentationIInv, SegmentationTypes
<1>6. PICK place \in [1 .. n + 1 -> Nat] : Listed(buf, l, n, place, Len(buf))
  BY <1>1, <1>2, <1>3, <1>4 DEF SegmentationIInv, InHandles
<1>7. buf' = buf \o <<Len(l.to[n + 1])>> \o l.to[n + 1]
  BY <1>1, <1>2, <1>3
<1>8. buf' \in Seq(Byte) /\ \E place2 \in [1 .. n + 2 -> Nat] : Listed(buf', l, n + 1, place2, Len(buf'))
  BY <1>4, <1>5, <1>6, <1>7, HandleAdded
<1>9. handleNext' = n + 2
  BY <1>1, <1>4
<1>10. SegmentationTypes'
  BY <1>1, <1>4, <1>8, <1>9 DEF SegmentationIInv, SegmentationTypes
<1>11. InHandles'
  BY <1>1, <1>2, <1>4, <1>8, <1>9 DEF SegmentationIInv, InHandles
<1>12. Sound(parts, line, headerEnd)'
  BY <1>1 DEF SegmentationIInv, Sound
<1> QED
  BY <1>1, <1>10, <1>11, <1>12 DEF SegmentationIInv, InText, AtRest

LEMMA EndOfHeaderKeeps ==
    ASSUME SegmentationIInv, EndOfHeader
    PROVE  SegmentationIInv'
<1>1. /\ pc = "handles" /\ handleNext > Len(line.to) /\ pc' = "text" /\ headerEnd' = Len(buf)
      /\ UNCHANGED <<line, buf, handleNext, input, parts>>
  BY DEF EndOfHeader
<1>2. PICK l \in Lines : l = line
  BY <1>1 DEF SegmentationIInv, InHandles
<1>3. input = 0 /\ parts = << >> /\ handleNext = Len(l.to) + 1
  <2>1. /\ handleNext \in Nat \ {0} /\ handleNext - 1 <= Len(l.to) /\ handleNext > Len(l.to)
        /\ Len(l.to) \in Nat
    BY <1>1, <1>2, LineFacts DEF SegmentationIInv, SegmentationTypes, InHandles
  <2>2. handleNext = Len(l.to) + 1
    BY <2>1
  <2> QED
    BY <1>1, <2>2 DEF SegmentationIInv, InHandles
<1>4. buf \in Seq(Byte) /\ Len(buf) \in Nat
  BY DEF SegmentationIInv, SegmentationTypes
<1>5. PICK place \in [1 .. Len(l.to) + 1 -> Nat] : Listed(buf, l, Len(l.to), place, Len(buf))
  <2>1. (Len(l.to) + 1) - 1 = Len(l.to)
    BY LineFacts
  <2> QED
    BY <1>1, <1>2, <1>3, <2>1 DEF SegmentationIInv, InHandles
<1>6. Headed(buf, l, Len(buf))
  BY <1>5 DEF Headed
<1>7. Len(buf) > 0
  <2>1. 1 \in 1 .. Len(l.to) + 1
    BY LineFacts
  <2>2. ListStart(l) <= Len(buf)
    BY <1>5, <2>1 DEF Listed
  <2>3. ListStart(l) >= 2 /\ ListStart(l) \in Nat
    BY Sizes DEF ListStart
  <2> QED
    BY <1>4, <2>2, <2>3
<1>8. Carries(buf, 0, Len(buf), l.text)
  <2>1. l.text \in Seq(Byte) /\ 0 \in 0 .. Len(l.text)
    BY LineFacts
  <2> QED
    BY <1>4, <2>1, CarriesNothing
<1>9. Reached(parts, Len(buf)) = 0 /\ 0 = 0 + (Len(buf) - Len(buf)) /\ DOMAIN parts = {}
  BY <1>3, <1>4 DEF Reached
<1>10. SegmentationTypes'
  BY <1>1, <1>4 DEF SegmentationIInv, SegmentationTypes
<1>11. InText'
  BY <1>1, <1>2, <1>3, <1>6, <1>7, <1>8, <1>9 DEF InText
<1>12. Sound(parts, line, headerEnd)'
  BY <1>1, <1>9 DEF Sound
<1> QED
  BY <1>1, <1>10, <1>11, <1>12 DEF SegmentationIInv, InHandles, AtRest

\* What InText and Sound say of a state in which text is copied.
LEMMA TextState ==
    ASSUME SegmentationIInv, pc = "text"
    PROVE  /\ line \in Lines /\ headerEnd \in Nat /\ headerEnd > 0 /\ buf \in Seq(Byte)
           /\ parts \in Seq(PartType) /\ Sound(parts, line, headerEnd)
           /\ input \in Nat /\ Reached(parts, headerEnd) \in 0 .. Len(line.text)
           /\ input = Reached(parts, headerEnd) + (Len(buf) - headerEnd)
           /\ input - (Len(buf) - headerEnd) = Reached(parts, headerEnd)
           /\ headerEnd <= Len(buf) /\ input <= Len(line.text)
           /\ Headed(buf, line, headerEnd)
           /\ Carries(buf, Reached(parts, headerEnd), headerEnd, line.text)
           /\ Len(buf) < PartLimit \/ Len(buf) = headerEnd
<1>1. /\ line \in Lines /\ headerEnd \in Nat /\ headerEnd > 0 /\ buf \in Seq(Byte)
      /\ parts \in Seq(PartType) /\ Sound(parts, line, headerEnd)
      /\ input \in Nat
      /\ input = Reached(parts, headerEnd) + (Len(buf) - headerEnd)
      /\ Headed(buf, line, headerEnd)
      /\ Carries(buf, Reached(parts, headerEnd), headerEnd, line.text)
      /\ Len(buf) < PartLimit \/ Len(buf) = headerEnd
  BY DEF SegmentationIInv, SegmentationTypes, InText
<1>2. Reached(parts, headerEnd) \in 0 .. Len(line.text)
  BY <1>1, ReachedInText
<1>3. /\ headerEnd <= Len(buf)
      /\ Reached(parts, headerEnd) + (Len(buf) - headerEnd) <= Len(line.text)
  BY <1>1 DEF Carries
<1>4. input - (Len(buf) - headerEnd) = Reached(parts, headerEnd)
  <2>1. Len(buf) \in Nat /\ Reached(parts, headerEnd) \in Nat
    BY <1>1, <1>2, LineFacts
  <2> QED
    BY <1>1, <2>1
<1> QED
  BY <1>1, <1>2, <1>3, <1>4

LEMMA CopyByteKeeps ==
    ASSUME SegmentationIInv, CopyByte
    PROVE  SegmentationIInv'
<1>1. /\ pc = "text" /\ input < Len(line.text) /\ input' = input + 1
      /\ UNCHANGED <<pc, line, handleNext, headerEnd>>
  BY DEF CopyByte
<1>2. PICK l \in Lines, h \in Nat, r \in Nat, b \in Seq(Byte), n \in Nat :
        /\ l = line /\ h = headerEnd /\ r = Reached(parts, h) /\ b = buf /\ n = input
        /\ h > 0 /\ h <= Len(b) /\ n = r + (Len(b) - h) /\ n - (Len(b) - h) = r /\ n < Len(l.text)
        /\ Headed(b, l, h) /\ Carries(b, r, h, l.text)
        /\ Len(b) < PartLimit \/ Len(b) = h
  BY <1>1, TextState
<1>3. parts \in Seq(PartType) /\ Sound(parts, l, h)
  BY <1>1, <1>2, TextState
<1>4. l.text \in Seq(Byte) /\ Len(b) \in Nat /\ Len(l.text) \in Nat
  BY LineFacts
<1>5. PICK c \in Seq(Byte) : /\ c = Append(b, l.text[n + 1]) /\ Len(c) = Len(b) + 1
                             /\ Carries(c, r, h, l.text)
                             /\ \A i \in 1 .. h : c[i] = b[i]
  <2>1. PICK t \in Seq(Byte) : t = l.text
    BY <1>4
  <2>2. PICK x \in Byte : x = t[n + 1]
    <3>1. n < Len(t)
      BY <1>2, <2>1
    <3>2. n + 1 \in DOMAIN t
      BY <3>1
    <3> QED
      BY <3>2
  <2>3. PICK c \in Seq(Byte) : c = Append(b, x)
    BY LastOf
  <2>4. Carries(c, r, h, t)
    <3>1. Carries(b, r, h, t) /\ n = r + (Len(b) - h) /\ n < Len(t)
      BY <1>2, <2>1
    <3> QED
      BY <2>2, <2>3, <3>1, CarriesMore
  <2>5. Len(c) = Len(b) + 1 /\ \A i \in 1 .. Len(b) : c[i] = b[i]
    <3>1. /\ Len(Append(b, x)) = Len(b) + 1 /\ DOMAIN b = 1 .. Len(b)
          /\ \A k \in DOMAIN b : Append(b, x)[k] = b[k]
      BY LastOf
    <3> QED
      BY <2>3, <3>1
  <2>6. \A i \in 1 .. h : i \in 1 .. Len(b)
    BY <1>2, <1>4
  <2> QED
    BY <2>1, <2>2, <2>3, <2>4, <2>5, <2>6
<1>6. Headed(c, l, h)
  <2>1. Headed(b, l, h) /\ SameUpTo(c, b, h)
    BY <1>2, <1>5 DEF SameUpTo
  <2> QED
    BY <2>1, HeadedKept
<1>7. Part = [bytes |-> c, from |-> r]
  BY <1>2, <1>5 DEF Part
<1>8. CASE Len(buf) + 1 >= PartLimit
  <2>1. parts' = Append(parts, Part) /\ buf' = SubSeq(b, 1, h)
    BY <1>2, <1>8 DEF CopyByte
  <2>2. PICK p \in PartType : p = Part /\ p.bytes = c /\ p.from = r
    <3>1. [bytes |-> c, from |-> r] \in PartType
      BY DEF PartType
    <3>2. PICK q \in PartType : q = [bytes |-> c, from |-> r]
      BY <3>1
    <3> QED
      BY <1>7, <3>2
  <2>3. h < BufferSize => Len(p.bytes) <= BufferSize
    <3>1. PICK m \in Nat : /\ m = Len(b) /\ Len(p.bytes) = m + 1
                           /\ m < PartLimit \/ m = h
      BY <1>2, <1>4, <1>5, <2>2
    <3>2. BufferSize \in Nat /\ PartLimit \in Nat /\ PartLimit < BufferSize
      BY Sizes
    <3> QED
      BY <3>1, <3>2
  <2>4. /\ parts' \in Seq(PartType) /\ Sound(parts', l, h)
        /\ Reached(parts', h) = EndOf(p, h)
    <3>1. p.from = Reached(parts, h) /\ Headed(p.bytes, l, h) /\ Carries(p.bytes, p.from, h, l.text)
      BY <1>2, <1>5, <1>6, <2>2
    <3>2. /\ Append(parts, p) \in Seq(PartType) /\ Sound(Append(parts, p), l, h)
          /\ Reached(Append(parts, p), h) = EndOf(p, h)
      BY <1>3, <2>3, <3>1, PartAdded
    <3> QED
      BY <2>1, <2>2, <3>2
  <2>5. EndOf(p, h) = n + 1
    BY <1>2, <1>4, <1>5, <2>2 DEF EndOf
  <2>6. buf' \in Seq(Byte) /\ Len(buf') = h /\ \A i \in 1 .. h : buf'[i] = b[i]
    <3>1. h \in 0 .. Len(b)
      BY <1>2, <1>4
    <3> QED
      BY <2>1, <3>1, CutAt
  <2>7. Headed(buf', l, h)
    <3>1. PICK d : d = buf'
      OBVIOUS
    <3>2. Headed(b, l, h) /\ SameUpTo(d, b, h)
      BY <1>2, <2>6, <3>1 DEF SameUpTo
    <3>3. Headed(d, l, h)
      BY <3>2, HeadedKept
    <3> QED
      BY <3>1, <3>3
  <2>8. Carries(buf', n + 1, h, l.text)
    <3>1. PICK d \in Seq(Byte), t \in Seq(Byte) : d = buf' /\ Len(d) = h /\ t = l.text
      BY <1>4, <2>6
    <3>2. PICK m \in 0 .. Len(t) : m = n + 1
      <4>1. n < Len(t) /\ Len(t) \in Nat
        BY <1>2, <3>1
      <4>2. n + 1 \in 0 .. Len(t)
        BY <4>1
      <4> QED
        BY <4>2
    <3>3. Carries(d, m, h, t)
      BY <3>1, CarriesNothing
    <3> QED
      BY <3>1, <3>2, <3>3
  <2>9. \A k \in DOMAIN parts' : Len(parts'[k].bytes) > h
    <3>1. /\ DOMAIN parts' = 1 .. Len(parts) + 1 /\ DOMAIN parts = 1 .. Len(parts)
          /\ Len(parts) \in Nat
          /\ \A k \in DOMAIN parts : parts'[k] = parts[k]
          /\ parts'[Len(parts) + 1] = p
      BY <1>3, <2>1, <2>2, LastOf
    <3>2. \A k \in DOMAIN parts : Len(parts[k].bytes) > h
      BY <1>1, <1>2 DEF SegmentationIInv, InText
    <3>3. Len(p.bytes) > h
      BY <1>2, <1>4, <1>5, <2>2
    <3>4. \A k \in DOMAIN parts' : k \in DOMAIN parts \/ k = Len(parts) + 1
      BY <3>1
    <3> QED
      BY <3>1, <3>2, <3>3, <3>4
  <2>10. n + 1 = (n + 1) + (h - h) /\ n + 1 \in Nat
    OBVIOUS
  <2>11. SegmentationTypes'
    BY <1>1, <1>2, <2>4, <2>6, <2>10 DEF SegmentationIInv, SegmentationTypes
  <2>12. InText'
    BY <1>1, <1>2, <2>4, <2>5, <2>6, <2>7, <2>8, <2>9, <2>10 DEF InText
  <2>13. Sound(parts, line, headerEnd)'
    BY <1>1, <1>2, <2>4
  <2> QED
    BY <1>1, <2>11, <2>12, <2>13 DEF SegmentationIInv, InHandles, AtRest
<1>9. CASE ~(Len(buf) + 1 >= PartLimit)
  <2>1. parts' = parts /\ buf' = c
    BY <1>2, <1>5, <1>9 DEF CopyByte
  <2>2. Len(c) < PartLimit /\ n + 1 \in Nat /\ n + 1 = r + (Len(c) - h)
    <3>1. PartLimit \in Nat
      BY Sizes
    <3>2. n = r + (Len(b) - h) /\ Len(c) = Len(b) + 1 /\ ~(Len(b) + 1 >= PartLimit)
      BY <1>2, <1>5, <1>9
    <3> QED
      BY <1>4, <3>1, <3>2
  <2>3. \A k \in DOMAIN parts : Len(parts[k].bytes) > h
    BY <1>1, <1>2 DEF SegmentationIInv, InText
  <2>4. SegmentationTypes'
    BY <1>1, <1>2, <1>3, <2>1, <2>2 DEF SegmentationIInv, SegmentationTypes
  <2>5. InText'
    BY <1>1, <1>2, <1>5, <1>6, <2>1, <2>2, <2>3 DEF InText
  <2>6. Sound(parts, line, headerEnd)'
    BY <1>1, <1>2, <1>3, <2>1
  <2> QED
    BY <1>1, <2>4, <2>5, <2>6 DEF SegmentationIInv, InHandles, AtRest
<1> QED
  BY <1>8, <1>9

LEMMA SendRestKeeps ==
    ASSUME SegmentationIInv, SendRest
    PROVE  SegmentationIInv'
<1>1. /\ pc = "text" /\ input = Len(line.text) /\ pc' = "idle"
      /\ parts' = Append(parts, [bytes |-> buf, from |-> input - (Len(buf) - headerEnd)])
      /\ UNCHANGED <<line, buf, handleNext, headerEnd, input>>
  BY DEF SendRest
<1>2. PICK l \in Lines, h \in Nat, r \in Nat, b \in Seq(Byte), n \in Nat :
        /\ l = line /\ h = headerEnd /\ r = Reached(parts, h) /\ b = buf /\ n = input
        /\ h > 0 /\ h <= Len(b) /\ n = r + (Len(b) - h) /\ n - (Len(b) - h) = r /\ n = Len(l.text)
        /\ Headed(b, l, h) /\ Carries(b, r, h, l.text)
        /\ Len(b) < PartLimit \/ Len(b) = h
  <2>1. /\ line \in Lines /\ headerEnd \in Nat /\ headerEnd > 0 /\ buf \in Seq(Byte)
        /\ input \in Nat /\ Reached(parts, headerEnd) \in Nat
        /\ input = Reached(parts, headerEnd) + (Len(buf) - headerEnd)
        /\ input - (Len(buf) - headerEnd) = Reached(parts, headerEnd)
        /\ headerEnd <= Len(buf) /\ Headed(buf, line, headerEnd)
        /\ Carries(buf, Reached(parts, headerEnd), headerEnd, line.text)
        /\ Len(buf) < PartLimit \/ Len(buf) = headerEnd
    BY <1>1, TextState
  <2> QED
    BY <1>1, <2>1
<1>3. parts \in Seq(PartType) /\ Sound(parts, l, h)
  BY <1>1, <1>2, TextState
<1>4. PICK p \in PartType : p = [bytes |-> b, from |-> r] /\ p.bytes = b /\ p.from = r
  <2>1. PICK q : q = [bytes |-> b, from |-> r]
    OBVIOUS
  <2>2. q \in PartType
    BY <2>1 DEF PartType
  <2> QED
    BY <2>1, <2>2
<1>5. h < BufferSize => Len(b) <= BufferSize
  <2>1. Len(b) \in Nat
    OBVIOUS
  <2> QED
    BY <1>2, <2>1, Sizes
<1>6. parts' = Append(parts, p)
  BY <1>1, <1>2, <1>4
<1>7. /\ parts' \in Seq(PartType) /\ parts' # << >> /\ Sound(parts', l, h)
      /\ Reached(parts', h) = EndOf(p, h)
  <2>1. p.from = Reached(parts, h)
    BY <1>2, <1>4
  <2>2. Headed(p.bytes, l, h) /\ Carries(p.bytes, p.from, h, l.text)
    BY <1>2, <1>4
  <2>3. h < BufferSize => Len(p.bytes) <= BufferSize
    BY <1>4, <1>5
  <2>4. /\ Append(parts, p) \in Seq(PartType) /\ Append(parts, p) # << >>
        /\ Sound(Append(parts, p), l, h) /\ Reached(Append(parts, p), h) = EndOf(p, h)
    BY <1>3, <2>1, <2>2, <2>3, PartAdded
  <2> QED
    BY <1>6, <2>4
<1>8. EndOf(p, h) = Len(l.text)
  BY <1>2, <1>4 DEF EndOf
<1>9. \A k \in DOMAIN parts' : k < Len(parts') => Len(parts'[k].bytes) > h
  <2>1. /\ DOMAIN parts' = 1 .. Len(parts) + 1 /\ DOMAIN parts = 1 .. Len(parts)
        /\ Len(parts) \in Nat /\ Len(parts') = Len(parts) + 1
        /\ \A k \in DOMAIN parts : parts'[k] = parts[k]
    BY <1>3, <1>6, LastOf
  <2>2. \A k \in DOMAIN parts : Len(parts[k].bytes) > h
    BY <1>1, <1>2 DEF SegmentationIInv, InText
  <2>3. \A k \in DOMAIN parts' : k < Len(parts') => k \in DOMAIN parts
    BY <2>1
  <2> QED
    BY <2>1, <2>2, <2>3
<1>10. SegmentationTypes'
  BY <1>1, <1>7 DEF SegmentationIInv, SegmentationTypes
<1>11. AtRest'
  BY <1>1, <1>2, <1>5, <1>7, <1>8, <1>9 DEF AtRest, HeaderFits
<1>12. Sound(parts, line, headerEnd)'
  BY <1>1, <1>2, <1>7
<1> QED
  BY <1>1, <1>10, <1>11, <1>12 DEF SegmentationIInv, InHandles, InText

LEMMA SegmentationKeeps ==
    SegmentationIInv /\ [SegmentationNext]_segmentationVars => SegmentationIInv'
<1> SUFFICES ASSUME SegmentationIInv, [SegmentationNext]_segmentationVars
             PROVE  SegmentationIInv'
  OBVIOUS
<1>1. CASE UNCHANGED segmentationVars
  BY <1>1 DEF segmentationVars, SegmentationIInv, SegmentationTypes, InHandles, InText,
              AtRest, Sound, HeaderFits
<1>2. CASE SegmentationNext
  BY <1>2, MessageSendKeeps, CopyHandleKeeps, EndOfHeaderKeeps, CopyByteKeeps, SendRestKeeps
     DEF SegmentationNext, Segment
<1> QED
  BY <1>1, <1>2

-----------------------------------------------------------------------------
(* What the invariant says of the parts *)

\* A piece of a text in terms of its elements.
LEMMA PieceIs ==
    ASSUME NEW text \in Seq(Byte), NEW from \in Nat, NEW b \in Seq(Byte),
           NEW n \in Nat, n = Len(b), from + n <= Len(text),
           \A i \in 1 .. n : b[i] = text[from + i]
    PROVE  b = SubSeq(text, from + 1, from + n)
<1>1. PICK m \in Nat : m = Len(text)
  OBVIOUS
<1>2. \A i \in 1 .. m : text[i] \in Byte
  BY <1>1
<1>3. \A i \in from + 1 .. from + n : text[i] \in Byte
  <2>1. \A i \in from + 1 .. from + n : i \in 1 .. m
    BY <1>1
  <2> QED
    BY <1>2, <2>1
<1>4. PICK f \in Int, g \in Int : f = from + 1 /\ g = from + n
  OBVIOUS
<1>5. PICK s : s = SubSeq(text, f, g)
  OBVIOUS
<1>6. /\ s \in Seq(Byte) /\ Len(s) = IF f <= g THEN g - f + 1 ELSE 0
      /\ \A i \in 1 .. g - f + 1 : s[i] = text[f + i - 1]
  <2>1. \A i \in f .. g : text[i] \in Byte
    BY <1>3, <1>4
  <2> QED
    BY <1>5, <2>1, SubSeqProperties
<1>7. Len(s) = n /\ \A i \in 1 .. n : i \in 1 .. g - f + 1 /\ f + i - 1 = from + i
  BY <1>4, <1>6
<1>8. \A i \in 1 .. n : b[i] = s[i]
  BY <1>6, <1>7
<1>9. b = s
  BY <1>6, <1>7, <1>8, SeqEqual
<1> QED
  BY <1>4, <1>5, <1>9

\* The text of a part.
LEMMA BodyFacts ==
    ASSUME SegmentationIInv, NEW k \in DOMAIN parts
    PROVE  /\ line \in Lines /\ headerEnd \in Nat /\ pc # "handles"
           /\ parts \in Seq(PartType) /\ parts[k] \in PartType
           /\ parts[k].bytes \in Seq(Byte) /\ parts[k].from \in Nat
           /\ headerEnd <= Len(parts[k].bytes)
           /\ Body(parts[k]) \in Seq(Byte)
           /\ Len(Body(parts[k])) = Len(parts[k].bytes) - headerEnd
           /\ parts[k].from + Len(Body(parts[k])) = EndOf(parts[k], headerEnd)
           /\ EndOf(parts[k], headerEnd) <= Len(line.text)
           /\ \A i \in 1 .. Len(Body(parts[k])) :
                Body(parts[k])[i] = line.text[parts[k].from + i]
<1>1. line \in Lines /\ headerEnd \in Nat /\ pc # "handles" /\ parts \in Seq(PartType)
  <2>1. parts # << >>
    OBVIOUS
  <2> QED
    BY <2>1 DEF SegmentationIInv, SegmentationTypes, InHandles, InText, AtRest
<1>2. PICK p \in PartType : p = parts[k] /\ p.bytes \in Seq(Byte) /\ p.from \in Nat
  <2>1. parts[k] \in PartType
    BY <1>1
  <2> QED
    BY <2>1 DEF PartType
<1>3. Carries(p.bytes, p.from, headerEnd, line.text)
  BY <1>2 DEF SegmentationIInv, Sound
<1>4. PICK h \in Nat, b \in Seq(Byte), from \in Nat, text \in Seq(Byte) :
        h = headerEnd /\ b = p.bytes /\ from = p.from /\ text = line.text
  BY <1>1, <1>2, LineFacts
<1>5. /\ h <= Len(b) /\ from + (Len(b) - h) <= Len(text) /\ Len(b) \in Nat /\ Len(text) \in Nat
      /\ \A i \in 1 .. Len(b) - h : b[h + i] = text[from + i]
  BY <1>3, <1>4 DEF Carries
<1>6. PICK body : body = Body(parts[k]) /\ body = SubSeq(b, h + 1, Len(b))
  BY <1>2, <1>4 DEF Body
<1>7. /\ body \in Seq(Byte) /\ Len(body) = Len(b) - h
      /\ \A i \in 1 .. Len(b) - h : body[i] = b[h + i]
  <2>1. h \in 0 .. Len(b)
    BY <1>5
  <2>2. /\ SubSeq(b, h + 1, Len(b)) \in Seq(Byte) /\ Len(SubSeq(b, h + 1, Len(b))) = Len(b) - h
        /\ \A i \in 1 .. Len(b) - h : SubSeq(b, h + 1, Len(b))[i] = b[h + i]
    BY <2>1, CutAt
  <2> QED
    BY <1>6, <2>2
<1>8. EndOf(p, headerEnd) = from + Len(body)
  BY <1>4, <1>7 DEF EndOf
<1>9. \A i \in 1 .. Len(body) : body[i] = text[from + i]
  BY <1>5, <1>7
<1>10. from + Len(body) <= Len(text)
  BY <1>5, <1>7
<1> QED
  BY <1>1, <1>2, <1>4, <1>5, <1>6, <1>7, <1>8, <1>9, <1>10

\* NothingLost follows from the invariant.
LEMMA IInvNothingLost == SegmentationIInv => NothingLost
<1> SUFFICES ASSUME SegmentationIInv, pc # "handles", headerEnd > 0
             PROVE  /\ \A k \in DOMAIN parts :
                        /\ parts[k].from = IF k = 1 THEN 0
                                           ELSE parts[k - 1].from + Len(Body(parts[k - 1]))
                        /\ Body(parts[k]) = SubSeq(line.text, parts[k].from + 1,
                                                   parts[k].from + Len(Body(parts[k])))
                    /\ pc = "idle" =>
                        parts[Len(parts)].from + Len(Body(parts[Len(parts)])) = Len(line.text)
  BY DEF NothingLost
<1>1. ASSUME NEW k \in DOMAIN parts
      PROVE  parts[k].from = IF k = 1 THEN 0 ELSE parts[k - 1].from + Len(Body(parts[k - 1]))
  <2>1. parts[k].from = IF k = 1 THEN 0 ELSE EndOf(parts[k - 1], headerEnd)
    BY DEF SegmentationIInv, Sound
  <2>2. CASE k = 1
    BY <2>1, <2>2
  <2>3. CASE k # 1
    <3>1. k - 1 \in DOMAIN parts
      <4>1. DOMAIN parts = 1 .. Len(parts) /\ Len(parts) \in Nat
        BY BodyFacts
      <4> QED
        BY <2>3, <4>1
    <3>2. PICK j \in DOMAIN parts : j = k - 1
      BY <3>1
    <3>3. parts[j].from + Len(Body(parts[j])) = EndOf(parts[j], headerEnd)
      BY BodyFacts
    <3> QED
      BY <2>1, <2>3, <3>2, <3>3
  <2> QED
    BY <2>2, <2>3
<1>2. ASSUME NEW k \in DOMAIN parts
      PROVE  Body(parts[k]) = SubSeq(line.text, parts[k].from + 1,
                                     parts[k].from + Len(Body(parts[k])))
  <2>1. PICK b \in Seq(Byte), from \in Nat, n \in Nat, l \in Lines :
          /\ b = Body(parts[k]) /\ from = parts[k].from /\ n = Len(b) /\ l = line
          /\ from + n <= Len(l.text) /\ \A i \in 1 .. n : b[i] = l.text[from + i]
    <3>1. /\ line \in Lines /\ parts[k].from \in Nat /\ Body(parts[k]) \in Seq(Byte)
          /\ parts[k].from + Len(Body(parts[k])) <= Len(line.text)
          /\ \A i \in 1 .. Len(Body(parts[k])) :
               Body(parts[k])[i] = line.text[parts[k].from + i]
      BY BodyFacts
    <3>2. Len(Body(parts[k])) \in Nat
      BY <3>1
    <3> QED
      BY <3>1, <3>2
  <2>2. PICK text \in Seq(Byte) : text = l.text
    BY LineFacts
  <2>3. from + n <= Len(text) /\ \A i \in 1 .. n : b[i] = text[from + i]
    BY <2>1, <2>2
  <2>4. b = SubSeq(text, from + 1, from + n)
    <3>1. n = Len(b)
      BY <2>1
    <3> QED
      BY <2>3, <3>1, PieceIs, Zenon
  <2> QED
    BY <2>1, <2>2, <2>4
<1>3. ASSUME pc = "idle"
      PROVE  parts[Len(parts)].from + Len(Body(parts[Len(parts)])) = Len(line.text)
  <2>1. parts # << >> /\ Reached(parts, headerEnd) = Len(line.text) /\ parts \in Seq(PartType)
    BY <1>3 DEF SegmentationIInv, SegmentationTypes, AtRest
  <2>2. PICK k \in DOMAIN parts : k = Len(parts)
    BY <2>1
  <2>3. parts[k].from + Len(Body(parts[k])) = EndOf(parts[k], headerEnd)
    BY BodyFacts
  <2> QED
    BY <2>1, <2>2, <2>3 DEF Reached
<1> QED
  BY <1>1, <1>2, <1>3

\* The header of a message that has a text is followed by some of it in the first part.
LEMMA TextSent ==
    ASSUME SegmentationIInv, pc = "idle", parts # << >>, line.flag # 4
    PROVE  1 \in DOMAIN parts /\ Len(parts[1].bytes) > headerEnd
<1>1. /\ line \in Lines /\ parts \in Seq(PartType) /\ Reached(parts, headerEnd) = Len(line.text)
      /\ \A k \in DOMAIN parts : k < Len(parts) => Len(parts[k].bytes) > headerEnd
  BY DEF SegmentationIInv, SegmentationTypes, AtRest
<1>2. 1 \in DOMAIN parts /\ Len(parts) \in Nat /\ DOMAIN parts = 1 .. Len(parts)
  BY <1>1
<1>3. CASE 1 < Len(parts)
  BY <1>1, <1>2, <1>3
<1>4. CASE ~(1 < Len(parts))
  <2>1. Len(parts) = 1
    BY <1>2, <1>4
  <2>2. EndOf(parts[1], headerEnd) = Len(line.text)
    BY <1>1, <2>1 DEF Reached
  <2>3. parts[1].from = 0
    BY <1>2 DEF SegmentationIInv, Sound
  <2>4. Len(line.text) \in Nat /\ Len(line.text) # 0
    BY <1>1, LineFacts, EmptySeq
  <2>5. headerEnd \in Nat /\ Len(parts[1].bytes) \in Nat
    BY <1>2, BodyFacts
  <2> QED
    BY <1>2, <2>2, <2>3, <2>4, <2>5 DEF EndOf
<1> QED
  BY <1>3, <1>4

LEMMA IInvStaysInBuffer == SegmentationIInv => StaysInBuffer
<1> SUFFICES ASSUME SegmentationIInv PROVE StaysInBuffer
  OBVIOUS
<1>1. buf \in Seq(Byte) /\ Len(buf) \in Nat /\ headerEnd \in Nat /\ parts \in Seq(PartType)
  BY DEF SegmentationIInv, SegmentationTypes
<1>2. ASSUME pc # "handles", HeaderFits PROVE Len(buf) <= BufferSize
  <2>1. CASE pc = "text"
    <3>1. Len(buf) < PartLimit \/ Len(buf) = headerEnd
      BY <2>1 DEF SegmentationIInv, InText
    <3>2. headerEnd < BufferSize
      BY <1>2 DEF HeaderFits
    <3> QED
      BY <1>1, <3>1, <3>2, Sizes
  <2>2. CASE pc = "idle"
    <3>1. buf = << >> \/ Len(buf) <= BufferSize
      BY <1>2, <2>2 DEF SegmentationIInv, AtRest
    <3>2. buf = << >> => Len(buf) = 0
      OBVIOUS
    <3> QED
      BY <3>1, <3>2, Sizes
  <2>3. pc = "text" \/ pc = "idle"
    BY <1>2 DEF SegmentationIInv, SegmentationTypes
  <2> QED
    BY <2>1, <2>2, <2>3
<1>3. ASSUME pc = "idle", parts # << >>
      PROVE  HeaderFits <=> \A k \in DOMAIN parts : Len(parts[k].bytes) <= BufferSize
  <2>1. HeaderFits => \A k \in DOMAIN parts : Len(parts[k].bytes) <= BufferSize
    BY DEF SegmentationIInv, Sound, HeaderFits
  <2>2. ASSUME ~HeaderFits PROVE \E k \in DOMAIN parts : ~(Len(parts[k].bytes) <= BufferSize)
    <3>1. headerEnd >= BufferSize /\ BufferSize \in Nat
      BY <1>1, <2>2, Sizes DEF HeaderFits
    <3>2. line \in Lines /\ 1 \in DOMAIN parts
      BY <1>1, <1>3 DEF SegmentationIInv, AtRest
    <3>3. line.flag # 4
      <4>1. SUFFICES ASSUME line.flag = 4 PROVE FALSE
        OBVIOUS
      <4>2. line.to = << >> /\ Len(line.to) = 0
        BY <3>2, <4>1, LineFacts
      <4>3. PICK place \in [1 .. Len(line.to) + 1 -> Nat] :
              Listed(parts[1].bytes, line, Len(line.to), place, headerEnd)
        BY <3>2 DEF SegmentationIInv, Sound, Headed
      <4>4. place[1] = ListStart(line) /\ place[0 + 1] = headerEnd
        BY <4>2, <4>3 DEF Listed
      <4>5. headerEnd = Len(myHandle) + 2
        BY <4>1, <4>4 DEF ListStart
      <4> QED
        BY <3>1, <4>5, Sizes
    <3>4. Len(parts[1].bytes) > headerEnd /\ Len(parts[1].bytes) \in Nat
      BY <1>3, <3>2, <3>3, TextSent, BodyFacts
    <3> QED
      BY <1>1, <3>1, <3>2, <3>4
  <2> QED
    BY <2>1, <2>2
<1> QED
  BY <1>2, <1>3 DEF StaysInBuffer

\* The bytes of a text but for its last two are before its terminator.
LEMMA CutBeforeEnd ==
    ASSUME NEW text \in Seq(Byte), NEW from \in Nat, NEW body \in Seq(Byte),
           \A i \in DOMAIN text : text[i] = 0 <=> i = Len(text),
           from + Len(body) <= Len(text),
           \A i \in 1 .. Len(body) : body[i] = text[from + i]
    PROVE  ~HasTerminator(SubSeq(body, 1, Len(body) - 2))
<1>1. PICK m \in Nat, n \in Nat : m = Len(text) /\ n = Len(body)
  OBVIOUS
<1>2. /\ \A i \in 1 .. m : text[i] = 0 <=> i = m
      /\ \A i \in 1 .. n : body[i] = text[from + i]
      /\ from + n <= m
  BY <1>1
<1>3. CASE n < 2
  <2>1. n - 2 \in Int /\ n - 2 < 1
    BY <1>3
  <2>2. SubSeq(body, 1, n - 2) = << >>
    BY <1>1, <2>1, SubSeqEmpty
  <2> QED
    BY <1>1, <2>2 DEF HasTerminator
<1>4. CASE n >= 2
  <2>1. PICK w \in Nat : w = n - 2 /\ w <= n
    BY <1>4
  <2>2. PICK s : s = SubSeq(body, 1, w)
    OBVIOUS
  <2>3. DOMAIN s = 1 .. w /\ \A i \in 1 .. w : s[i] = body[i]
    BY <1>1, <2>1, <2>2
  <2>4. \A i \in 1 .. w : i \in 1 .. n /\ from + i \in 1 .. m /\ from + i # m
    BY <1>2, <2>1
  <2>5. \A i \in 1 .. w : s[i] # 0
    BY <1>2, <2>3, <2>4
  <2> QED
    BY <1>1, <2>1, <2>2, <2>3, <2>5 DEF HasTerminator
<1> QED
  BY <1>3, <1>4

LEMMA BroadcastUnterminated ==
    ASSUME SegmentationIInv, NEW k \in DOMAIN parts
    PROVE  ~HasTerminator(SubSeq(Body(parts[k]), 1, Len(Body(parts[k])) - 2))
<1>1. /\ line \in Lines /\ Body(parts[k]) \in Seq(Byte) /\ parts[k].from \in Nat
      /\ parts[k].from + Len(Body(parts[k])) <= Len(line.text)
      /\ \A i \in 1 .. Len(Body(parts[k])) : Body(parts[k])[i] = line.text[parts[k].from + i]
  BY BodyFacts
<1>2. /\ line.text \in Seq(Byte)
      /\ \A i \in DOMAIN line.text : line.text[i] = 0 <=> i = Len(line.text)
  BY <1>1, SegmentationAssumption
<1> QED
  BY ONLY <1>1, <1>2, CutBeforeEnd

LEMMA MessageTerminated ==
    ASSUME SegmentationIInv, pc = "idle", NEW k \in DOMAIN parts
    PROVE  (\E i \in DOMAIN Body(parts[k]) : Body(parts[k])[i] = 0) <=>
             \/ k = Len(parts) /\ Body(parts[k]) # << >>
             \/ k = Len(parts) - 1 /\ Body(parts[k + 1]) = << >>
<1>1. PICK l \in Lines : l = line
  BY BodyFacts
<1>2. PICK n \in Nat : n = Len(parts) /\ k \in 1 .. n /\ DOMAIN parts = 1 .. n
  <2>1. parts \in Seq(PartType)
    BY BodyFacts
  <2>2. Len(parts) \in Nat /\ DOMAIN parts = 1 .. Len(parts)
    BY <2>1
  <2>3. k \in 1 .. Len(parts)
    BY <2>2
  <2> QED
    BY <2>2, <2>3
<1>3. PICK m \in Nat : m = Len(l.text)
  BY LineFacts
<1>4. PICK body \in Seq(Byte), from \in Nat, size \in Nat :
        /\ body = Body(parts[k]) /\ from = parts[k].from /\ size = Len(body)
        /\ from + size = EndOf(parts[k], headerEnd) /\ from + size <= m
        /\ \A i \in 1 .. size : body[i] = l.text[from + i]
  <2>1. /\ Body(parts[k]) \in Seq(Byte) /\ parts[k].from \in Nat
        /\ parts[k].from + Len(Body(parts[k])) = EndOf(parts[k], headerEnd)
        /\ EndOf(parts[k], headerEnd) <= Len(line.text)
        /\ \A i \in 1 .. Len(Body(parts[k])) :
             Body(parts[k])[i] = line.text[parts[k].from + i]
    BY BodyFacts
  <2>2. Len(Body(parts[k])) \in Nat
    BY <2>1
  <2> QED
    BY <1>1, <1>3, <2>1, <2>2
<1>5. \A j \in 1 .. m : l.text[j] = 0 <=> j = m
  <2>1. DOMAIN l.text = 1 .. m
    BY <1>3, LineFacts
  <2> QED
    BY <1>3, <2>1, LineFacts
<1>6. (\E i \in DOMAIN body : body[i] = 0) <=> size # 0 /\ from + size = m
  <2>1. DOMAIN body = 1 .. size
    BY <1>4
  <2>2. \A i \in 1 .. size : from + i \in 1 .. m /\ (from + i = m => i = size /\ from + size = m)
    BY <1>4
  <2>3. ASSUME NEW i \in 1 .. size, body[i] = 0 PROVE size # 0 /\ from + size = m
    <3>1. l.text[from + i] = 0 /\ from + i \in 1 .. m
      BY <1>4, <2>2, <2>3
    <3>2. from + i = m
      BY <1>5, <3>1
    <3> QED
      BY <2>2, <3>2
  <2>4. ASSUME size # 0, from + size = m PROVE size \in 1 .. size /\ body[size] = 0
    <3>1. size \in 1 .. size
      BY <2>4
    <3>2. body[size] = l.text[m] /\ m \in 1 .. m
      BY <1>4, <2>2, <2>4, <3>1
    <3> QED
      BY <1>5, <3>1, <3>2
  <2> QED
    BY <2>1, <2>3, <2>4
<1>7. body = << >> <=> size = 0
  BY <1>4, EmptySeq
<1>8. \A j \in 1 .. n : j < n => Len(Body(parts[j])) > 0
  <2>1. ASSUME NEW j \in 1 .. n, j < n PROVE Len(Body(parts[j])) > 0
    <3>1. j \in DOMAIN parts /\ Len(parts[j].bytes) > headerEnd
      BY <1>2, <2>1 DEF SegmentationIInv, AtRest
    <3>2. /\ Len(Body(parts[j])) = Len(parts[j].bytes) - headerEnd
          /\ parts[j].bytes \in Seq(Byte) /\ headerEnd \in Nat
      BY <3>1, BodyFacts
    <3> QED
      BY <3>1, <3>2
  <2> QED
    BY <2>1
<1>9. EndOf(parts[n], headerEnd) = m
  BY <1>1, <1>2, <1>3 DEF SegmentationIInv, AtRest, Reached
<1>10. CASE k = n
  <2>1. from + size = m
    BY <1>4, <1>9, <1>10
  <2>2. k # Len(parts) - 1
    BY <1>2, <1>10
  <2> QED
    BY <1>2, <1>4, <1>6, <1>7, <1>10, <2>1, <2>2
<1>11. CASE k # n
  <2>1. k < n /\ k + 1 \in 1 .. n /\ k + 1 # 1
    BY <1>2, <1>11
  <2>2. size # 0
    BY <1>2, <1>4, <1>8, <2>1
  <2>3. PICK next \in DOMAIN parts : next = k + 1
    BY <1>2, <2>1
  <2>4. PICK rest \in Seq(Byte), w \in Nat :
          /\ rest = Body(parts[next]) /\ w = Len(rest)
          /\ parts[next].from + w = EndOf(parts[next], headerEnd) /\ parts[next].from + w <= m
    <3>1. /\ Body(parts[next]) \in Seq(Byte)
          /\ parts[next].from + Len(Body(parts[next])) = EndOf(parts[next], headerEnd)
          /\ EndOf(parts[next], headerEnd) <= Len(line.text)
      BY BodyFacts
    <3>2. Len(Body(parts[next])) \in Nat
      BY <3>1
    <3> QED
      BY <1>1, <1>3, <3>1, <3>2
  <2>5. parts[next].from = from + size
    <3>1. parts[next].from = IF next = 1 THEN 0 ELSE EndOf(parts[next - 1], headerEnd)
      BY DEF SegmentationIInv, Sound
    <3>2. next # 1 /\ next - 1 = k
      BY <1>2, <2>1, <2>3
    <3> QED
      BY <1>4, <3>1, <3>2
  <2>6. rest = << >> <=> w = 0
    BY <2>4, EmptySeq
  <2>7. next < n => w > 0
    BY <1>2, <1>8, <2>3, <2>4
  <2>8. next = n => from + size + w = m
    BY <1>9, <2>4, <2>5
  <2>9. from + size = m <=> next = n /\ w = 0
    BY <1>2, <1>4, <2>3, <2>4, <2>5, <2>7, <2>8
  <2>10. next = n <=> k = Len(parts) - 1
    BY <1>2, <2>3
  <2> QED
    BY <1>2, <1>4, <1>6, <1>11, <2>2, <2>3, <2>4, <2>6, <2>9, <2>10
<1> QED
  BY <1>10, <1>11

LEMMA IInvTerminatedOnlyAtEnd == SegmentationIInv => TerminatedOnlyAtEnd
<1> SUFFICES ASSUME SegmentationIInv, pc = "idle", NEW k \in DOMAIN parts
             PROVE  IF line.flag = 4
                    THEN ~HasTerminator(SubSeq(Body(parts[k]), 1, Len(Body(parts[k])) - 2))
                    ELSE HasTerminator(Body(parts[k])) <=>
                           \/ k = Len(parts) /\ Body(parts[k]) # << >>
                           \/ k = Len(parts) - 1 /\ Body(parts[k + 1]) = << >>
  BY DEF TerminatedOnlyAtEnd
<1> QED
  BY BroadcastUnterminated, MessageTerminated DEF HasTerminator

-----------------------------------------------------------------------------
(* How a reader finds its way *)

\* A position that fits its byte does not wrap.
LEMMA NoWrap ==
    ASSUME NEW x \in Nat, x < UInt8
    PROVE  x % UInt8 = x
<1>1. UInt8 \in Nat
  BY Sizes
<1> QED
  BY <1>1

\* One step of the reader: behind the first i - 1 handles of the list.
Behind(part, f, i) ==
    IF i = 1 THEN (handleListStart(part) + 1) % UInt8
    ELSE (f[i - 1] + At(part, f[i - 1]) + 1) % UInt8

Finds(part, n, f) == f = [i \in 1 .. n |-> Behind(part, f, i)]

\* The recursion has one solution only.
LEMMA ReaderIsUnique ==
    ASSUME NEW part, NEW n \in Nat, NEW f, NEW g, Finds(part, n, f), Finds(part, n, g)
    PROVE  f = g
<1>0. f = [i \in 1 .. n |-> Behind(part, f, i)] /\ g = [i \in 1 .. n |-> Behind(part, g, i)]
  BY DEF Finds
<1> SUFFICES ASSUME NEW k \in 1 .. n, f[k] # g[k] PROVE FALSE
  BY <1>0
<1> DEFINE S == {i \in 1 .. n : f[i] # g[i]}
<1>1. S \in SUBSET Nat /\ S # {}
  OBVIOUS
<1>2. PICK i \in S : \A j \in S : i <= j
  BY <1>1, LeastExists
<1>3. i \in 1 .. n /\ f[i] # g[i] /\ \A j \in 1 .. n : f[j] # g[j] => i <= j
  BY <1>2
<1> HIDE DEF S
<1>4. CASE i = 1
  BY <1>0, <1>3, <1>4 DEF Behind
<1>5. CASE i # 1
  <2>1. i - 1 \in 1 .. n /\ ~(i <= i - 1)
    BY <1>3, <1>5
  <2>2. f[i - 1] = g[i - 1]
    BY <1>3, <2>1
  <2> QED
    BY <1>0, <1>3, <1>5, <2>2 DEF Behind
<1> QED
  BY <1>4, <1>5

LEMMA ReaderIs ==
    ASSUME NEW part, NEW n \in Nat, n = At(part, handleListStart(part)),
           NEW g, Finds(part, n + 1, g)
    PROVE  readerLocation(part) = g
<1> DEFINE f == CHOOSE f : f = [i \in 1 .. n + 1 |->
                                  IF i = 1 THEN (handleListStart(part) + 1) % UInt8
                                  ELSE (f[i - 1] + At(part, f[i - 1]) + 1) % UInt8]
<1>1. readerLocation(part) = f
  BY DEF readerLocation
<1>2. f = [i \in 1 .. n + 1 |->
             IF i = 1 THEN (handleListStart(part) + 1) % UInt8
             ELSE (f[i - 1] + At(part, f[i - 1]) + 1) % UInt8]
  <2>1. g = [i \in 1 .. n + 1 |->
               IF i = 1 THEN (handleListStart(part) + 1) % UInt8
               ELSE (g[i - 1] + At(part, g[i - 1]) + 1) % UInt8]
    BY DEF Behind, Finds
  <2>2. \E e : e = [i \in 1 .. n + 1 |->
                      IF i = 1 THEN (handleListStart(part) + 1) % UInt8
                      ELSE (e[i - 1] + At(part, e[i - 1]) + 1) % UInt8]
    BY <2>1
  <2> QED
    BY <2>2, Zenon
<1> HIDE DEF f
<1>3. Finds(part, n + 1, f)
  BY <1>2 DEF Behind, Finds
<1>4. f = g
  <2>1. PICK m \in Nat : m = n + 1
    OBVIOUS
  <2>2. Finds(part, m, f) /\ Finds(part, m, g)
    BY <1>3, <2>1
  <2> QED
    BY <2>2, ReaderIsUnique
<1> QED
  BY <1>1, <1>4

ReadsAt(b, n, place) == readerLocation(b) = [i \in 1 .. n + 1 |-> place[i] + 2]

\* In a header that fitted the sender's buffer the reader's positions are those of the
\* list, two bytes on, where the length of the PDU is.
LEMMA ReaderFinds ==
    ASSUME NEW l \in Lines, l.flag # 4, NEW n \in Nat, n = Len(l.to),
           NEW b, NEW end \in Nat, end < BufferSize,
           NEW place \in [1 .. n + 1 -> Nat], Listed(b, l, n, place, end)
    PROVE  ReadsAt(b, n, place)
<1>1. PICK m \in Nat, U \in Nat, B \in Nat :
        m = Len(myHandle) /\ U = UInt8 /\ B = BufferSize /\ m + 2 < B /\ B + 2 < U
  BY Sizes
<1>2. handleListStart(b) = m + 4
  <2>1. At(b, 3) = m
    BY <1>1 DEF At, Listed
  <2>2. 4 + m \in Nat /\ 4 + m < UInt8 /\ 4 + m = m + 4
    BY <1>1
  <2>3. (4 + m) % UInt8 = 4 + m
    BY <2>2, NoWrap
  <2> QED
    BY <2>1, <2>2, <2>3 DEF handleListStart
<1>3. At(b, handleListStart(b)) = n
  <2>1. (m + 4) - 1 = m + 3
    OBVIOUS
  <2> QED
    BY <1>1, <1>2, <2>1 DEF At, Listed
<1>4. PICK g : g = [i \in 1 .. n + 1 |-> place[i] + 2]
  OBVIOUS
<1>5. ASSUME NEW i \in 1 .. n + 1 PROVE place[i] + 2 = Behind(b, g, i)
  <2>1. place[i] \in Nat /\ place[i] <= end /\ place[i] + 2 < UInt8 /\ place[i] + 2 \in Nat
    <3>1. place[i] \in Nat /\ place[i] <= end
      BY DEF Listed
    <3> QED
      BY <1>1, <3>1
  <2>2. (place[i] + 2) % UInt8 = place[i] + 2
    BY <2>1, NoWrap
  <2>3. CASE i = 1
    <3>1. place[1] = m + 3
      BY <1>1 DEF Listed, ListStart
    <3>2. handleListStart(b) + 1 = place[1] + 2
      BY <1>2, <3>1
    <3> QED
      BY <2>2, <2>3, <3>2 DEF Behind
  <2>4. CASE i # 1
    <3>1. PICK k \in 1 .. n : k + 1 = i /\ i - 1 = k
      <4>1. i - 1 \in 1 .. n /\ (i - 1) + 1 = i
        BY <2>4
      <4> QED
        BY <4>1
    <3>2. place[k + 1] = place[k] + 1 + Len(l.to[k]) /\ b[place[k] + 1] = Len(l.to[k])
      BY DEF Listed
    <3>3. k \in 1 .. n + 1 /\ place[k] \in Nat
      OBVIOUS
    <3>4. g[k] = place[k] + 2 /\ (place[k] + 2) - 1 = place[k] + 1
      BY <1>4, <3>3
    <3>5. At(b, g[k]) = Len(l.to[k]) /\ Len(l.to[k]) \in Nat
      <4>1. k \in DOMAIN l.to
        BY LineFacts
      <4> QED
        BY <3>2, <3>4, <4>1, LineFacts DEF At
    <3>6. g[k] + At(b, g[k]) + 1 = place[i] + 2
      <4>1. PICK p \in Nat, w \in Nat : p = place[k] /\ w = Len(l.to[k])
        BY <3>3, <3>5
      <4>2. g[k] = p + 2 /\ At(b, g[k]) = w /\ place[i] = p + 1 + w
        BY <3>1, <3>2, <3>4, <3>5, <4>1
      <4>3. p + 2 + w + 1 = p + 1 + w + 2
        OBVIOUS
      <4> QED
        BY <4>2, <4>3
    <3> QED
      BY <2>2, <2>4, <3>1, <3>6 DEF Behind
  <2> QED
    BY <2>3, <2>4
<1>6. Finds(b, n + 1, g)
  BY <1>4, <1>5 DEF Finds
<1> QED
  BY <1>3, <1>4, <1>6, ReaderIs DEF ReadsAt

\* From any part the recipients and the text come out.
LEMMA PartIsRead ==
    ASSUME NEW l \in Lines, NEW b \in Seq(Byte), NEW end \in Nat, end < BufferSize,
           end <= Len(b), Headed(b, l, end)
    PROVE  /\ b[1] = l.flag
           /\ b[1] # 4 => RecipientsOf(b) = l.to
           /\ TextOf(b) = SubSeq(b, end + 1, Len(b))
<1>1. PICK n \in Nat : n = Len(l.to) /\ n \in Byte
  BY LineFacts
<1>2. PICK place \in [1 .. n + 1 -> Nat] : Listed(b, l, n, place, end)
  BY <1>1 DEF Headed
<1>3. b[1] = l.flag /\ b[2] = Len(myHandle) /\ place[1] = ListStart(l) /\ place[n + 1] = end
  BY <1>2 DEF Listed
<1>4. CASE l.flag = 4
  <2>1. n = 0
    BY <1>1, <1>4, LineFacts
  <2>2. end = Len(myHandle) + 2 /\ Len(myHandle) \in Nat
    BY <1>3, <1>4, <2>1, Sizes DEF ListStart
  <2>3. At(b, 3) = Len(myHandle)
    BY <1>3 DEF At
  <2>4. TextStart(b) = 4 + Len(myHandle)
    BY <1>3, <1>4, <2>3 DEF TextStart
  <2>5. TextStart(b) - 1 = end + 1
    BY <2>2, <2>4
  <2>6. TextOf(b) = SubSeq(b, end + 1, Len(b))
    BY <2>5 DEF TextOf
  <2> QED
    BY <1>3, <1>4, <2>6
<1>5. CASE l.flag # 4
  <2>1. PICK g : g = [i \in 1 .. n + 1 |-> place[i] + 2] /\ g = readerLocation(b)
    <3>1. n = Len(l.to) /\ l.flag # 4 /\ Listed(b, l, n, place, end)
      BY <1>1, <1>2, <1>5
    <3>2. ReadsAt(b, n, place)
      BY <3>1, ReaderFinds
    <3> QED
      BY <3>2 DEF ReadsAt
  <2>2. g \in Seq(Nat) /\ Len(g) = n + 1 /\ n + 1 \in Nat /\ (n + 1) - 1 = n /\ n + 1 \in 1 .. n + 1
    <3>1. n + 1 \in Nat /\ (n + 1) - 1 = n /\ n + 1 \in 1 .. n + 1
      OBVIOUS
    <3>2. g \in [1 .. n + 1 -> Nat]
      BY <2>1
    <3> QED
      BY <3>1, <3>2
  <2>3. TextOf(b) = SubSeq(b, end + 1, Len(b))
    <3>1. TextStart(b) = place[n + 1] + 2
      BY <1>3, <1>5, <2>1, <2>2 DEF TextStart
    <3>2. TextStart(b) - 1 = end + 1
      BY <1>3, <3>1
    <3> QED
      BY <3>2 DEF TextOf
  <2>4. ASSUME NEW i \in 1 .. n
        PROVE  SubSeq(b, g[i], g[i] + At(b, g[i]) - 1) = l.to[i]
    <3>1. PICK h \in Seq(Byte), w \in Nat : h = l.to[i] /\ w = Len(h)
      <4>1. i \in DOMAIN l.to
        BY <1>1, LineFacts
      <4> QED
        BY <4>1, LineFacts
    <3>2. PICK p \in Nat : p = place[i] /\ g[i] = p + 2
      <4>1. i \in 1 .. n + 1
        OBVIOUS
      <4>2. place[i] \in Nat /\ g[i] = place[i] + 2
        BY <2>1, <4>1
      <4> QED
        BY <4>2
    <3>3. /\ place[i + 1] = p + 1 + w /\ b[p + 1] = w
          /\ \A j \in 1 .. w : b[p + 1 + j] = h[j]
      BY <1>2, <3>1, <3>2 DEF Listed
    <3>4. p + 1 + w <= Len(b)
      <4>1. i + 1 \in 1 .. n + 1
        OBVIOUS
      <4>2. place[i + 1] <= end
        BY <1>2, <4>1 DEF Listed
      <4>3. PICK m \in Nat : m = Len(b) /\ end <= m
        OBVIOUS
      <4>4. p + 1 + w <= end
        BY <3>3, <4>2
      <4> QED
        BY <4>3, <4>4
    <3>5. At(b, g[i]) = w
      <4>1. (p + 2) - 1 = p + 1
        OBVIOUS
      <4>2. At(b, g[i]) = b[(p + 2) - 1]
        BY <3>2 DEF At
      <4>3. b[p + 1] = w
        BY <3>3
      <4> QED
        BY <4>1, <4>2, <4>3
    <3>6. PICK q \in Nat : q = p + 1
      OBVIOUS
    <3>7. q + w <= Len(b) /\ \A j \in 1 .. w : h[j] = b[q + j]
      BY <3>3, <3>4, <3>6
    <3>8. h = SubSeq(b, q + 1, q + w)
      <4>1. w = Len(h)
        BY <3>1
      <4> QED
        BY <3>7, <4>1, PieceIs, Zenon
    <3>9. q + 1 = p + 2 /\ q + w = (p + 2) + w - 1
      BY <3>6
    <3> QED
      BY <3>1, <3>2, <3>5, <3>8, <3>9
  <2>5. RecipientsOf(b) = [i \in 1 .. n |-> SubSeq(b, g[i], g[i] + At(b, g[i]) - 1)]
    BY <2>1, <2>2 DEF RecipientsOf
  <2>6. RecipientsOf(b) = [i \in 1 .. n |-> l.to[i]]
    BY <2>4, <2>5
  <2>7. l.to = [i \in 1 .. n |-> l.to[i]]
    BY <1>1, LineFacts
  <2> QED
    BY <1>3, <2>3, <2>6, <2>7
<1> QED
  BY <1>4, <1>5

\* The client finds its way in a part of a broadcast that lost its last bytes as in
\* the whole.
LEMMA CutPartIsRead ==
    ASSUME NEW l \in Lines, l.flag = 4, NEW b \in Seq(Byte), NEW end \in Nat,
           end + 2 <= Len(b), Headed(b, l, end)
    PROVE  TextOf(messageBroadcast(b)) = SubSeq(b, end + 1, Len(b) - 2)
<1>1. PICK place \in [1 .. Len(l.to) + 1 -> Nat] : Listed(b, l, Len(l.to), place, end)
  BY DEF Headed
<1>2. /\ b[1] = 4 /\ b[2] = Len(myHandle) /\ Len(myHandle) \in Nat
      /\ end = Len(myHandle) + 2
  <2>1. Len(l.to) = 0
    BY LineFacts
  <2>2. place[0 + 1] = end /\ place[1] = ListStart(l)
    BY <1>1, <2>1 DEF Listed
  <2> QED
    BY <1>1, <2>2, Sizes DEF Listed, ListStart
<1>3. PICK n \in Nat, w \in Nat : n = Len(b) /\ w = n - 2 /\ end <= w /\ w <= n
  BY SMT
<1>4. PICK cut : cut = SubSeq(b, 1, w) /\ cut = messageBroadcast(b)
  BY <1>3 DEF messageBroadcast
<1>5. cut \in Seq(Byte) /\ Len(cut) = w /\ \A i \in 1 .. w : cut[i] = b[i]
  BY <1>3, <1>4
<1>6. 1 \in 1 .. w /\ 2 \in 1 .. w
  BY <1>2, <1>3
<1>7. cut[1] = 4 /\ At(cut, 3) = Len(myHandle)
  BY <1>2, <1>5, <1>6 DEF At
<1>8. TextStart(cut) - 1 = end + 1
  BY <1>2, <1>7 DEF TextStart
<1>9. TextOf(cut) = SubSeq(cut, end + 1, w)
  BY <1>5, <1>8 DEF TextOf
<1>10. SubSeq(cut, end + 1, w) = SubSeq(b, end + 1, w)
  BY <1>3, <1>5
<1> QED
  BY <1>3, <1>4, <1>9, <1>10

\* Two bytes less of a part are two bytes less of its text.
LEMMA CutBody ==
    ASSUME NEW b \in Seq(Byte), NEW end \in Nat, NEW body, end + 2 <= Len(b),
           body = SubSeq(b, end + 1, Len(b))
    PROVE  SubSeq(body, 1, Len(body) - 2) = SubSeq(b, end + 1, Len(b) - 2)
OBVIOUS

LEMMA IInvPartsStandAlone == SegmentationIInv => PartsStandAlone
<1> SUFFICES ASSUME SegmentationIInv, HeaderFits, NEW k \in DOMAIN parts
             PROVE  LET part == parts[k].bytes
                        body == Body(parts[k])
                    IN  /\ part[1] # 4 => RecipientsOf(part) = line.to /\ TextOf(part) = body
                        /\ part[1] = 4 /\ Len(body) >= 2 =>
                             TextOf(messageBroadcast(part)) = SubSeq(body, 1, Len(body) - 2)
  BY DEF PartsStandAlone
<1>1. PICK l \in Lines, b \in Seq(Byte), end \in Nat :
        l = line /\ b = parts[k].bytes /\ end = headerEnd /\ end <= Len(b)
  BY BodyFacts
<1>2. Headed(b, l, end)
  BY <1>1 DEF SegmentationIInv, Sound
<1>3. end < BufferSize
  BY <1>1 DEF HeaderFits
<1>4. /\ b[1] = l.flag
      /\ b[1] # 4 => RecipientsOf(b) = l.to
      /\ TextOf(b) = SubSeq(b, end + 1, Len(b))
  BY <1>1, <1>2, <1>3, PartIsRead
<1>5. PICK body : body = Body(parts[k]) /\ body = SubSeq(b, end + 1, Len(b))
  BY <1>1 DEF Body
<1>6. ASSUME b[1] = 4, Len(body) >= 2
      PROVE  TextOf(messageBroadcast(b)) = SubSeq(body, 1, Len(body) - 2)
  <2>1. Len(body) = Len(b) - end
    BY <1>1, <1>5, BodyFacts
  <2>2. end + 2 <= Len(b)
    <3>1. PICK n \in Nat : n = Len(b)
      OBVIOUS
    <3> QED
      BY <1>6, <2>1, <3>1
  <2>3. TextOf(messageBroadcast(b)) = SubSeq(b, end + 1, Len(b) - 2)
    BY <1>2, <1>4, <1>6, <2>2, CutPartIsRead
  <2> QED
    BY <1>5, <2>2, <2>3, CutBody
<1> QED
  BY <1>1, <1>4, <1>5, <1>6

\* What the invariant of the sender says of its parts.
LEMMA IInvPartsCarryTheText == SegmentationIInv => PartsCarryTheText
BY IInvNothingLost, IInvStaysInBuffer, IInvPartsStandAlone, IInvTerminatedOnlyAtEnd
   DEF PartsCarryTheText

-----------------------------------------------------------------------------
(* The queues in front of the client *)

Typed == Lines \cup {Warned}

OneEnd(q) == \A i, j \in Ends(q) : i = j

\* s is q without what is at the place e.
Without(q, e, s) ==
    /\ Len(s) + 1 = Len(q)
    /\ \A i \in 1 .. Len(s) : s[i] = IF i < e THEN q[i] ELSE q[i + 1]

LEMMA TypedFacts ==
    /\ EndOfFile \notin Typed
    /\ \A q \in Seq(Typed \cup {EndOfFile}) : Ends(q) = {} => q \in Seq(Typed)
<1>1. EndOfFile \notin Typed
  BY ConsoleAssumption DEF Typed
<1>2. ASSUME NEW q \in Seq(Typed \cup {EndOfFile}), Ends(q) = {} PROVE q \in Seq(Typed)
  <2>1. Len(q) \in Nat /\ DOMAIN q = 1 .. Len(q) /\ q = [i \in 1 .. Len(q) |-> q[i]]
    OBVIOUS
  <2>2. \A i \in 1 .. Len(q) : q[i] \in Typed
    BY <1>2, <2>1 DEF Ends
  <2>3. q \in [1 .. Len(q) -> Typed]
    BY <2>1, <2>2
  <2> QED
    BY <2>1, <2>3
<1> QED
  BY <1>1, <1>2

\* The lines in a queue that holds the end of file at the place e.
LEMMA LinesBesideEnd ==
    ASSUME NEW q \in Seq(Typed \cup {EndOfFile}), OneEnd(q), NEW e \in Ends(q)
    PROVE  LinesIn(q) \in Seq(Typed) /\ Without(q, e, LinesIn(q))
<1>1. PICK m \in Nat : m = Len(q) /\ DOMAIN q = 1 .. m
  OBVIOUS
<1>2. e \in 1 .. m /\ e \in Nat
  BY <1>1 DEF Ends
<1>3. \A i \in 1 .. m : i # e => q[i] \in Typed
  BY <1>1 DEF Ends, OneEnd
<1>4. LinesIn(q) = SubSeq(q, 1, e - 1) \o SubSeq(q, e + 1, m)
  <2>1. (CHOOSE i \in Ends(q) : TRUE) = e
    BY DEF OneEnd
  <2> QED
    BY <1>1, <2>1 DEF LinesIn
<1>5. PICK s : /\ s = SubSeq(q, 1, e - 1) /\ s \in Seq(Typed) /\ Len(s) = e - 1
               /\ \A i \in 1 .. e - 1 : s[i] = q[i]
  <2>1. e - 1 \in 0 .. Len(q) /\ \A i \in 1 .. e - 1 : i \in 1 .. m /\ i # e
    BY <1>1, <1>2
  <2>2. /\ Len(SubSeq(q, 1, e - 1)) = e - 1
        /\ SubSeq(q, 1, e - 1) \in Seq(Typed \cup {EndOfFile})
        /\ \A i \in 1 .. e - 1 : SubSeq(q, 1, e - 1)[i] = q[i]
    BY <2>1, CutAt
  <2>3. PICK s : s = SubSeq(q, 1, e - 1)
    OBVIOUS
  <2>4. \A i \in 1 .. e - 1 : s[i] \in Typed
    BY <1>3, <2>1, <2>2, <2>3
  <2>5. s \in Seq(Typed \cup {EndOfFile}) /\ Ends(s) = {}
    BY <2>2, <2>3, <2>4, TypedFacts DEF Ends
  <2>6. s \in Seq(Typed)
    BY <2>5, TypedFacts
  <2> QED
    BY <2>2, <2>3, <2>6
<1>6. PICK t : /\ t = SubSeq(q, e + 1, m) /\ t \in Seq(Typed) /\ Len(t) = m - e
               /\ \A i \in 1 .. m - e : t[i] = q[e + i]
  <2>1. e \in 0 .. Len(q) /\ \A i \in 1 .. m - e : e + i \in 1 .. m /\ e + i # e
    BY <1>1, <1>2
  <2>2. /\ Len(SubSeq(q, e + 1, m)) = m - e
        /\ SubSeq(q, e + 1, m) \in Seq(Typed \cup {EndOfFile})
        /\ \A i \in 1 .. m - e : SubSeq(q, e + 1, m)[i] = q[e + i]
    BY <1>1, <2>1, CutAt
  <2>3. PICK t : t = SubSeq(q, e + 1, m)
    OBVIOUS
  <2>4. \A i \in 1 .. m - e : t[i] \in Typed
    BY <1>3, <2>1, <2>2, <2>3
  <2>5. t \in Seq(Typed \cup {EndOfFile}) /\ Ends(t) = {}
    BY <2>2, <2>3, <2>4, TypedFacts DEF Ends
  <2>6. t \in Seq(Typed)
    BY <2>5, TypedFacts
  <2> QED
    BY <2>2, <2>3, <2>6
<1>7. PICK u : u = s \o t
  OBVIOUS
<1>8. /\ u \in Seq(Typed) /\ Len(u) = Len(s) + Len(t)
      /\ \A i \in 1 .. Len(s) : u[i] = s[i]
      /\ \A j \in 1 .. Len(t) : u[Len(s) + j] = t[j]
  <2>1. s \in Seq(Typed) /\ t \in Seq(Typed)
    BY <1>5, <1>6
  <2>2. /\ s \o t \in Seq(Typed) /\ Len(s \o t) = Len(s) + Len(t)
        /\ \A i \in 1 .. Len(s) : (s \o t)[i] = s[i]
        /\ \A j \in 1 .. Len(t) : (s \o t)[Len(s) + j] = t[j]
    BY <2>1, ConcatAt
  <2> QED
    BY <1>7, <2>2
<1>9. Len(u) + 1 = m
  BY <1>2, <1>5, <1>6, <1>8
<1>10. ASSUME NEW i \in 1 .. Len(u) PROVE u[i] = IF i < e THEN q[i] ELSE q[i + 1]
  <2>1. CASE i < e
    <3>1. i \in 1 .. Len(s) /\ i \in 1 .. e - 1
      BY <1>2, <1>5, <2>1
    <3> QED
      BY <1>5, <1>8, <2>1, <3>1
  <2>2. CASE ~(i < e)
    <3>1. PICK j \in 1 .. Len(t) : Len(s) + j = i /\ e + j = i + 1 /\ j \in 1 .. m - e
      <4>1. /\ i - (e - 1) \in 1 .. Len(t) /\ Len(s) + (i - (e - 1)) = i
            /\ e + (i - (e - 1)) = i + 1 /\ i - (e - 1) \in 1 .. m - e
        BY <1>1, <1>2, <1>5, <1>6, <1>9, <2>2
      <4> QED
        BY <4>1
    <3> QED
      BY <1>6, <1>8, <2>2, <3>1
  <2> QED
    BY <2>1, <2>2
<1> QED
  BY <1>1, <1>4, <1>5, <1>6, <1>7, <1>8, <1>9, <1>10 DEF Without

\* In a queue without the end of file every entry is a line.
LEMMA LinesWithoutEnd ==
    ASSUME NEW q \in Seq(Typed \cup {EndOfFile}), Ends(q) = {}
    PROVE  LinesIn(q) = q /\ q \in Seq(Typed)
BY TypedFacts DEF LinesIn

LEMMA LinesAreTyped ==
    ASSUME NEW q \in Seq(Typed \cup {EndOfFile}), OneEnd(q)
    PROVE  LinesIn(q) \in Seq(Typed)
<1>1. CASE Ends(q) = {}
  BY <1>1, LinesWithoutEnd
<1>2. CASE Ends(q) # {}
  BY <1>2, LinesBesideEnd
<1> QED
  BY <1>1, <1>2

\* A sequence is known from what it is when one place of another is left out.
LEMMA WithoutIsUnique ==
    ASSUME NEW q, Len(q) \in Nat, NEW e \in Nat, NEW s \in Seq(Typed), NEW t \in Seq(Typed),
           Without(q, e, s), Without(q, e, t)
    PROVE  s = t
<1>1. Len(s) \in Nat /\ Len(t) \in Nat /\ Len(s) = Len(t)
  BY DEF Without
<1>2. \A i \in 1 .. Len(s) : s[i] = t[i]
  BY <1>1 DEF Without
<1> QED
  BY <1>1, <1>2, SeqEqual

\* A line that is typed comes behind the lines that wait.
LEMMA LinesOfTyped ==
    ASSUME NEW q \in Seq(Typed \cup {EndOfFile}), OneEnd(q), NEW l \in Typed
    PROVE  /\ Ends(Append(q, l)) = Ends(q)
           /\ LinesIn(Append(q, l)) = Append(LinesIn(q), l)
<1>1. PICK r \in Seq(Typed \cup {EndOfFile}) : r = Append(q, l)
  BY LastOf
<1>2. PICK m \in Nat :
        /\ m = Len(q) /\ Len(r) = m + 1 /\ DOMAIN r = 1 .. m + 1 /\ DOMAIN q = 1 .. m
        /\ r[m + 1] = l /\ \A k \in 1 .. m : r[k] = q[k]
  BY <1>1, LastOf
<1>3. l # EndOfFile
  BY TypedFacts
<1>4. Ends(r) = Ends(q)
  <2>1. \A i \in 1 .. m + 1 : i \in 1 .. m \/ i = m + 1
    BY <1>2
  <2>2. \A i \in 1 .. m : i \in 1 .. m + 1
    BY <1>2
  <2> QED
    BY <1>2, <1>3, <2>1, <2>2 DEF Ends
<1>5. OneEnd(r)
  BY <1>4 DEF OneEnd
<1>6. CASE Ends(q) = {}
  BY <1>1, <1>4, <1>6, LinesWithoutEnd
<1>7. CASE Ends(q) # {}
  <2>1. PICK e \in Nat : e \in Ends(q) /\ e \in 1 .. m
    BY <1>2, <1>7 DEF Ends
  <2>2. PICK s \in Seq(Typed) : s = LinesIn(q) /\ Without(q, e, s)
    BY <2>1, LinesBesideEnd
  <2>3. PICK t \in Seq(Typed) : t = LinesIn(r) /\ Without(r, e, t)
    BY <1>4, <1>5, <2>1, LinesBesideEnd
  <2>4. PICK u \in Seq(Typed) : u = Append(s, l)
    BY LastOf
  <2>5. PICK n \in Nat : /\ n = Len(s) /\ n + 1 = m /\ Len(u) = m
                         /\ u[m] = l /\ \A k \in 1 .. n : u[k] = s[k]
    <3>1. /\ Len(s) \in Nat /\ Len(s) + 1 = m /\ Len(u) = Len(s) + 1
          /\ u[Len(s) + 1] = l /\ \A k \in 1 .. Len(s) : u[k] = s[k]
      BY <1>2, <2>2, <2>4, LastOf DEF Without
    <3> QED
      BY <3>1
  <2>6. ASSUME NEW i \in 1 .. m PROVE u[i] = IF i < e THEN r[i] ELSE r[i + 1]
    <3>1. CASE i \in 1 .. n
      <4>1. u[i] = IF i < e THEN q[i] ELSE q[i + 1]
        BY <2>2, <2>5, <3>1 DEF Without
      <4>2. i \in 1 .. m /\ i + 1 \in 1 .. m
        BY <2>5, <3>1
      <4> QED
        BY <1>2, <4>1, <4>2
    <3>2. CASE i \notin 1 .. n
      <4>1. i = m /\ ~(i < e)
        BY <2>1, <2>5, <3>2
      <4> QED
        BY <1>2, <2>5, <4>1
    <3> QED
      BY <3>1, <3>2
  <2>7. Without(r, e, u)
    BY <1>2, <2>5, <2>6 DEF Without
  <2>8. u = t
    <3>1. Len(r) \in Nat /\ Without(r, e, t)
      BY <2>3
    <3> QED
      BY <2>7, <3>1, WithoutIsUnique
  <2> QED
    BY <1>1, <1>4, <2>2, <2>3, <2>4, <2>8
<1> QED
  BY <1>6, <1>7

\* The end of file is no line.
LEMMA LinesOfEnd ==
    ASSUME NEW q \in Seq(Typed \cup {EndOfFile}), Ends(q) = {}
    PROVE  /\ OneEnd(Append(q, EndOfFile)) /\ Ends(Append(q, EndOfFile)) # {}
           /\ LinesIn(Append(q, EndOfFile)) = LinesIn(q)
<1>1. PICK r \in Seq(Typed \cup {EndOfFile}) : r = Append(q, EndOfFile)
  BY LastOf
<1>2. PICK m \in Nat :
        /\ m = Len(q) /\ Len(r) = m + 1 /\ DOMAIN r = 1 .. m + 1 /\ DOMAIN q = 1 .. m
        /\ r[m + 1] = EndOfFile /\ \A k \in 1 .. m : r[k] = q[k]
  BY <1>1, LastOf
<1>3. Ends(r) = {m + 1}
  <2>1. \A i \in 1 .. m + 1 : i \in 1 .. m \/ i = m + 1
    BY <1>2
  <2>2. m + 1 \in 1 .. m + 1
    BY <1>2
  <2> QED
    BY <1>2, <2>1, <2>2 DEF Ends
<1>4. OneEnd(r) /\ Ends(r) # {}
  BY <1>3 DEF OneEnd
<1>5. LinesIn(q) = q /\ q \in Seq(Typed)
  BY LinesWithoutEnd
<1>6. PICK t \in Seq(Typed) : t = LinesIn(r) /\ Without(r, m + 1, t)
  BY <1>3, <1>4, LinesBesideEnd
<1>7. Without(r, m + 1, q)
  <2>1. \A i \in 1 .. m : i < m + 1 /\ q[i] = r[i]
    BY <1>2
  <2> QED
    BY <1>2, <2>1 DEF Without
<1>8. t = q
  BY <1>2, <1>5, <1>6, <1>7, WithoutIsUnique
<1> QED
  BY <1>1, <1>4, <1>5, <1>6, <1>8

\* What is taken from the head of a queue.
LEMMA LinesOfTail ==
    ASSUME NEW q \in Seq(Typed \cup {EndOfFile}), OneEnd(q), q # << >>
    PROVE  /\ OneEnd(Tail(q)) /\ (Ends(q) = {} => Ends(Tail(q)) = {})
           /\ Head(q) = EndOfFile => LinesIn(Tail(q)) = LinesIn(q)
           /\ Head(q) # EndOfFile =>
                /\ LinesIn(q) # << >> /\ Head(LinesIn(q)) = Head(q)
                /\ LinesIn(Tail(q)) = Tail(LinesIn(q))
<1>1. PICK r \in Seq(Typed \cup {EndOfFile}), m \in Nat :
        /\ r = Tail(q) /\ Len(q) = m + 1 /\ Len(r) = m /\ Head(q) = q[1]
        /\ DOMAIN r = 1 .. m /\ DOMAIN q = 1 .. m + 1
        /\ \A k \in 1 .. m : r[k] = q[k + 1]
  <2>1. /\ Head(q) = q[1] /\ Tail(q) \in Seq(Typed \cup {EndOfFile})
        /\ Len(Tail(q)) = Len(q) - 1 /\ Len(q) \in Nat \ {0} /\ DOMAIN q = 1 .. Len(q)
        /\ DOMAIN Tail(q) = 1 .. Len(q) - 1
        /\ \A k \in DOMAIN Tail(q) : Tail(q)[k] = q[k + 1]
    BY HeadOf
  <2>2. PICK m \in Nat : Len(q) = m + 1 /\ Len(q) - 1 = m
    <3>1. Len(q) - 1 \in Nat /\ Len(q) = (Len(q) - 1) + 1
      BY <2>1
    <3> QED
      BY <3>1
  <2> QED
    BY <2>1, <2>2
<1>2. \A i \in Ends(r) : i \in 1 .. m /\ i + 1 \in Ends(q)
  <2>1. \A i \in 1 .. m : i + 1 \in 1 .. m + 1
    BY <1>1
  <2> QED
    BY <1>1, <2>1 DEF Ends
<1>3. OneEnd(r)
  <2> SUFFICES ASSUME NEW i \in Ends(r), NEW j \in Ends(r) PROVE i = j
    BY DEF OneEnd
  <2>1. i \in 1 .. m /\ j \in 1 .. m /\ i + 1 \in Ends(q) /\ j + 1 \in Ends(q)
    BY <1>2
  <2>2. i + 1 = j + 1
    BY <2>1 DEF OneEnd
  <2> QED
    BY <2>1, <2>2
<1>4. Ends(q) = {} => Ends(r) = {}
  BY <1>2
<1>5. CASE Ends(q) = {}
  <2>1. LinesIn(q) = q /\ LinesIn(r) = r
    BY <1>4, <1>5, LinesWithoutEnd
  <2>2. Head(q) # EndOfFile
    <3>1. 1 \in DOMAIN q
      BY <1>1
    <3> QED
      BY <1>1, <1>5, <3>1 DEF Ends
  <2> QED
    BY <1>1, <1>3, <1>4, <2>1, <2>2
<1>6. CASE Ends(q) # {}
  <2>1. PICK e \in Nat : e \in Ends(q) /\ e \in 1 .. m + 1
    BY <1>1, <1>6 DEF Ends
  <2>2. PICK s \in Seq(Typed) : s = LinesIn(q) /\ Without(q, e, s)
    BY <2>1, LinesBesideEnd
  <2>3. Len(s) = m /\ m \in Nat
    <3>1. Len(s) \in Nat /\ Len(s) + 1 = m + 1
      BY <1>1, <2>2 DEF Without
    <3> QED
      BY <3>1
  <2>4. CASE Head(q) = EndOfFile
    <3>1. e = 1
      <4>1. 1 \in Ends(q)
        <5>1. 1 \in 1 .. m + 1
          BY <1>1
        <5> QED
          BY <1>1, <2>4, <5>1 DEF Ends
      <4> QED
        BY <2>1, <4>1 DEF OneEnd
    <3>2. Ends(r) = {}
      <4> SUFFICES ASSUME NEW i \in Ends(r) PROVE FALSE
        OBVIOUS
      <4>1. i \in 1 .. m /\ i + 1 \in Ends(q)
        BY <1>2
      <4>2. i + 1 = 1
        BY <2>1, <3>1, <4>1 DEF OneEnd
      <4> QED
        BY <4>1, <4>2
    <3>3. LinesIn(r) = r /\ r \in Seq(Typed)
      BY <3>2, LinesWithoutEnd
    <3>4. \A i \in 1 .. m : s[i] = r[i]
      <4>1. \A i \in 1 .. m : ~(i < 1)
        OBVIOUS
      <4> QED
        BY <1>1, <2>2, <2>3, <3>1, <4>1 DEF Without
    <3>5. s = r
      BY <1>1, <2>3, <3>3, <3>4, SeqEqual
    <3> QED
      BY <1>1, <1>3, <1>6, <2>2, <2>4, <3>3, <3>5
  <2>5. CASE Head(q) # EndOfFile
    <3>1. e # 1
      BY <1>1, <2>1, <2>5 DEF Ends
    <3>2. PICK d \in Nat : e = d + 1 /\ d \in 1 .. m
      <4>1. e - 1 \in Nat /\ e = (e - 1) + 1 /\ e - 1 \in 1 .. m
        BY <2>1, <3>1
      <4> QED
        BY <4>1
    <3>3. d \in Ends(r)
      BY <1>1, <2>1, <3>2 DEF Ends
    <3>4. PICK t \in Seq(Typed) : t = LinesIn(r) /\ Without(r, d, t)
      BY <1>3, <3>3, LinesBesideEnd
    <3>5. s # << >> /\ Head(s) = s[1] /\ s[1] = q[1]
      <4>1. 1 \in 1 .. m /\ 1 < e
        BY <2>1, <3>1, <3>2
      <4>2. s # << >>
        BY <2>3, <4>1
      <4>3. s[1] = q[1]
        BY <2>2, <2>3, <4>1 DEF Without
      <4> QED
        BY <4>2, <4>3, HeadOf
    <3>6. PICK u \in Seq(Typed) :
            u = Tail(s) /\ Len(u) = m - 1 /\ \A k \in 1 .. m - 1 : u[k] = s[k + 1]
      <4>1. /\ Tail(s) \in Seq(Typed) /\ Len(Tail(s)) = m - 1 /\ DOMAIN Tail(s) = 1 .. m - 1
            /\ \A k \in DOMAIN Tail(s) : Tail(s)[k] = s[k + 1]
        BY <2>3, <3>5, HeadOf
      <4> QED
        BY <4>1
    <3>7. ASSUME NEW i \in 1 .. m - 1 PROVE u[i] = IF i < d THEN r[i] ELSE r[i + 1]
      <4>1. i + 1 \in 1 .. m /\ i \in 1 .. m /\ (i < d <=> i + 1 < e)
        BY <2>3, <3>2
      <4>2. u[i] = IF i + 1 < e THEN q[i + 1] ELSE q[(i + 1) + 1]
        BY <2>2, <2>3, <3>6, <4>1 DEF Without
      <4> QED
        BY <1>1, <4>1, <4>2
    <3>8. Without(r, d, u)
      <4>1. Len(u) = m - 1 /\ Len(u) + 1 = Len(r)
        BY <1>1, <2>3, <3>6
      <4> QED
        BY <3>7, <4>1 DEF Without
    <3>9. u = t
      <4>1. Len(r) \in Nat /\ Without(r, d, t)
        BY <3>4
      <4> QED
        BY <3>8, <4>1, WithoutIsUnique
    <3> QED
      BY <1>1, <1>3, <1>6, <2>2, <2>5, <3>4, <3>5, <3>6, <3>9
  <2> QED
    BY <2>4, <2>5
<1> QED
  BY <1>5, <1>6

-----------------------------------------------------------------------------
(* The client between its user and the server *)

ConsoleTypes ==
    /\ stdin \in {"terminal", "pipe"} /\ ended \in BOOLEAN /\ eof \in BOOLEAN
    /\ client \in {"loop", "exited"} /\ server \in {"up", "exited"}
    /\ fromServer \in Nat /\ sentByServer \in Nat
    /\ kernel \in Seq(Typed \cup {EndOfFile}) /\ stdio \in Seq(Typed)
    /\ typed \in Seq(Typed) /\ processed \in Seq(Typed)

\* The user ends the input once.
OneEndOfFile == OneEnd(kernel) /\ (~ended => Ends(kernel) = {})

\* getchar has nothing left when it meets the end, and nothing is sent after it.
NothingAfterEnd == eof => stdio = << >> /\ pc = "idle"

ConsoleIInv ==
    ConsoleTypes /\ OneEndOfFile /\ NothingAfterEnd /\ LinesInOrder /\ SegmentationIInv

\* The parts of it that Segmentation knows nothing of.
Queues == ConsoleTypes /\ OneEndOfFile /\ LinesInOrder

LEMMA ConsoleStarts == Init => ConsoleIInv
<1> SUFFICES ASSUME Init PROVE ConsoleIInv
  OBVIOUS
<1>1. << >> \in Seq(Typed \cup {EndOfFile}) /\ << >> \in Seq(Typed)
  OBVIOUS
<1>2. Inputs \subseteq {"terminal", "pipe"}
  BY ConsoleAssumption
<1>3. ConsoleTypes
  BY <1>1, <1>2 DEF Init, ConsoleTypes
<1>4. Ends(kernel) = {}
  BY DEF Init, Ends
<1>5. OneEndOfFile
  BY <1>4 DEF OneEndOfFile, OneEnd
<1>6. LinesInOrder
  <2>1. LinesIn(kernel) = << >>
    BY <1>4 DEF Init, LinesIn
  <2>2. << >> \o << >> \o << >> = << >>
    OBVIOUS
  <2> QED
    BY <2>1, <2>2 DEF Init, LinesInOrder
<1> QED
  BY <1>3, <1>5, <1>6, SegmentationStarts DEF Init, ConsoleIInv, NothingAfterEnd

\* What waits, and what has been worked on, in the order of typing.
LEMMA Waiting ==
    ASSUME Queues
    PROVE  /\ kernel \in Seq(Typed \cup {EndOfFile}) /\ stdio \in Seq(Typed)
           /\ typed \in Seq(Typed) /\ processed \in Seq(Typed)
           /\ OneEnd(kernel) /\ LinesIn(kernel) \in Seq(Typed)
           /\ processed \o stdio \o LinesIn(kernel) = typed
<1>1. kernel \in Seq(Typed \cup {EndOfFile}) /\ OneEnd(kernel)
  BY DEF Queues, ConsoleTypes, OneEndOfFile
<1>2. LinesIn(kernel) \in Seq(Typed)
  BY <1>1, LinesAreTyped
<1> QED
  BY <1>1, <1>2 DEF Queues, ConsoleTypes, LinesInOrder

LEMMA AppendToBoth ==
    ASSUME NEW S, NEW a \in Seq(S), NEW k \in Seq(S), NEW x \in S
    PROVE  a \o Append(k, x) = Append(a \o k, x)
<1>1. <<x>> \in Seq(S)
  OBVIOUS
<1>2. PICK u \in Seq(S) : u = <<x>>
  BY <1>1
<1>3. a \o k \in Seq(S)
  BY ConcatAt
<1>4. Append(k, x) = k \o u /\ Append(a \o k, x) = (a \o k) \o u
  BY <1>2, <1>3, AppendIsConcat
<1>5. (a \o k) \o u = a \o (k \o u)
  BY ConcatAssociative
<1> QED
  BY <1>4, <1>5

LEMMA AppendToAll ==
    ASSUME NEW S, NEW p \in Seq(S), NEW s \in Seq(S), NEW k \in Seq(S), NEW x \in S
    PROVE  p \o s \o Append(k, x) = Append(p \o s \o k, x)
<1>1. PICK a \in Seq(S) : a = p \o s
  BY ConcatAt
<1>2. a \o Append(k, x) = Append(a \o k, x)
  BY AppendToBoth
<1> QED
  BY <1>1, <1>2

LEMMA TypeKeeps == Queues /\ Type => Queues'
<1> SUFFICES ASSUME Queues, Type PROVE Queues'
  OBVIOUS
<1>1. PICK l \in Typed : typed' = Append(typed, l) /\ kernel' = Append(kernel, l)
  BY DEF Type, Typed
<1>2. UNCHANGED <<stdin, ended, eof, stdio, processed, client, server, fromServer, sentByServer>>
  BY DEF Type, serverVars
<1>3. ConsoleTypes'
  <2>1. Append(typed, l) \in Seq(Typed) /\ Append(kernel, l) \in Seq(Typed \cup {EndOfFile})
    BY Waiting
  <2> QED
    BY <1>1, <1>2, <2>1 DEF Queues, ConsoleTypes
<1>4. Ends(kernel)' = Ends(kernel) /\ LinesIn(kernel)' = Append(LinesIn(kernel), l)
  <2>1. /\ Ends(Append(kernel, l)) = Ends(kernel)
        /\ LinesIn(Append(kernel, l)) = Append(LinesIn(kernel), l)
    BY Waiting, LinesOfTyped
  <2>2. Ends(kernel)' = Ends(kernel') /\ LinesIn(kernel)' = LinesIn(kernel')
    BY DEF Ends, LinesIn
  <2> QED
    BY <1>1, <2>1, <2>2
<1>5. OneEndOfFile'
  BY <1>2, <1>4 DEF Queues, OneEndOfFile, OneEnd
<1>6. LinesInOrder'
  <2>1. processed \o stdio \o Append(LinesIn(kernel), l)
          = Append(processed \o stdio \o LinesIn(kernel), l)
    <3>1. processed \in Seq(Typed) /\ stdio \in Seq(Typed) /\ LinesIn(kernel) \in Seq(Typed)
      BY Waiting
    <3> QED
      BY <3>1, AppendToAll
  <2> QED
    BY <1>1, <1>2, <1>4, <2>1, Waiting DEF LinesInOrder
<1> QED
  BY <1>3, <1>5, <1>6 DEF Queues

LEMMA EndInputKeeps == Queues /\ EndInput => Queues'
<1> SUFFICES ASSUME Queues, EndInput PROVE Queues'
  OBVIOUS
<1>1. ~ended /\ ended' = TRUE /\ kernel' = Append(kernel, EndOfFile) /\ Ends(kernel) = {}
  BY DEF EndInput, Queues, OneEndOfFile
<1>2. UNCHANGED <<stdin, eof, stdio, processed, typed, client, server, fromServer, sentByServer>>
  BY DEF EndInput, serverVars
<1>3. ConsoleTypes'
  <2>1. Append(kernel, EndOfFile) \in Seq(Typed \cup {EndOfFile})
    BY Waiting
  <2> QED
    BY <1>1, <1>2, <2>1 DEF Queues, ConsoleTypes
<1>4. /\ OneEnd(Append(kernel, EndOfFile))
      /\ LinesIn(Append(kernel, EndOfFile)) = LinesIn(kernel)
  BY <1>1, Waiting, LinesOfEnd
<1>5. OneEndOfFile'
  BY <1>1, <1>4 DEF OneEndOfFile, OneEnd, Ends
<1>6. LinesInOrder'
  BY <1>1, <1>2, <1>4 DEF Queues, LinesInOrder, LinesIn, Ends
<1> QED
  BY <1>3, <1>5, <1>6 DEF Queues

LEMMA FromBufferKeeps == Queues /\ FromBuffer => Queues'
<1> SUFFICES ASSUME Queues, FromBuffer PROVE Queues'
  OBVIOUS
<1>1. /\ stdio # << >> /\ stdio' = Tail(stdio) /\ processed' = Append(processed, Head(stdio))
      /\ UNCHANGED <<stdin, kernel, ended, eof, typed, client, server, fromServer, sentByServer>>
  BY DEF FromBuffer, Process, serverVars
<1>2. Head(stdio) \in Typed /\ Tail(stdio) \in Seq(Typed)
  BY <1>1, Waiting, HeadOf
<1>3. Append(processed, Head(stdio)) \in Seq(Typed)
  BY <1>2, Waiting, LastOf
<1>4. ConsoleTypes'
  BY <1>1, <1>2, <1>3 DEF Queues, ConsoleTypes
<1>5. Append(processed, Head(stdio)) \o Tail(stdio) = processed \o stdio
  BY <1>1, Waiting, HeadMoves
<1>6. OneEndOfFile' /\ LinesInOrder'
  BY <1>1, <1>5 DEF Queues, OneEndOfFile, OneEnd, LinesInOrder, LinesIn, Ends
<1> QED
  BY <1>4, <1>6 DEF Queues

\* What one read takes and leaves are together what there was.
LEMMA ReadKeeps ==
    ASSUME Queues, kernel # << >>, Head(kernel) # EndOfFile
    PROVE  /\ Read[1] \in Seq(Typed) /\ Read[1] # << >>
           /\ Read[2] \in Seq(Typed \cup {EndOfFile})
           /\ OneEnd(Read[2]) /\ (Ends(kernel) = {} => Ends(Read[2]) = {})
           /\ Read[1] \o LinesIn(Read[2]) = LinesIn(kernel)
<1>1. PICK k \in Seq(Typed) : /\ k = LinesIn(kernel) /\ k # << >> /\ Head(k) = Head(kernel)
                              /\ LinesIn(Tail(kernel)) = Tail(k)
  BY Waiting, LinesOfTail
<1>2. CASE stdin = "terminal"
  <2>1. Read[1] = <<Head(kernel)>> /\ Read[2] = Tail(kernel)
    BY <1>2 DEF Read
  <2>2. PICK x \in Typed : x = Head(kernel) /\ x = Head(k)
    BY <1>1, HeadOf
  <2>3. <<x>> \in Seq(Typed) /\ <<x>> # << >>
    OBVIOUS
  <2>4. /\ Tail(kernel) \in Seq(Typed \cup {EndOfFile}) /\ OneEnd(Tail(kernel))
        /\ Ends(kernel) = {} => Ends(Tail(kernel)) = {}
    BY Waiting, LinesOfTail, HeadOf
  <2>5. <<x>> \o Tail(k) = k
    <3>1. << >> \in Seq(Typed) /\ Append(<< >>, x) = <<x>> /\ << >> \o k = k
      BY ConcatEmptySeq
    <3>2. Append(<< >>, Head(k)) \o Tail(k) = << >> \o k
      BY <1>1, <3>1, HeadMoves
    <3> QED
      BY <2>2, <3>1, <3>2
  <2>6. Read[1] = <<x>>
    BY <2>1, <2>2
  <2>7. <<x>> \o LinesIn(Tail(kernel)) = LinesIn(kernel)
    <3>1. LinesIn(Tail(kernel)) = Tail(k) /\ LinesIn(kernel) = k
      BY <1>1
    <3> QED
      BY <2>5, <3>1
  <2> QED
    BY <2>1, <2>3, <2>4, <2>6, <2>7
<1>3. CASE stdin # "terminal"
  <2>1. Read[1] = k /\ Read[2] = IF Ends(kernel) = {} THEN << >> ELSE <<EndOfFile>>
    BY <1>1, <1>3 DEF Read
  <2>2. PICK r \in Seq(Typed \cup {EndOfFile}) : r = Read[2] /\ (r = << >> \/ r = <<EndOfFile>>)
    <3>1. << >> \in Seq(Typed \cup {EndOfFile}) /\ <<EndOfFile>> \in Seq(Typed \cup {EndOfFile})
      OBVIOUS
    <3> QED
      BY <2>1, <3>1
  <2>3. Ends(<< >>) = {} /\ LinesIn(<< >>) = << >>
    BY DEF Ends, LinesIn
  <2>4. OneEnd(<<EndOfFile>>) /\ LinesIn(<<EndOfFile>>) = << >>
    <3>1. /\ << >> \in Seq(Typed \cup {EndOfFile})
          /\ Append(<< >>, EndOfFile) = <<EndOfFile>>
      OBVIOUS
    <3>2. /\ OneEnd(Append(<< >>, EndOfFile))
          /\ LinesIn(Append(<< >>, EndOfFile)) = LinesIn(<< >>)
      BY <2>3, <3>1, LinesOfEnd
    <3> QED
      BY <2>3, <3>1, <3>2
  <2>5. OneEnd(r) /\ LinesIn(r) = << >> /\ (Ends(kernel) = {} => Ends(r) = {})
    BY <2>1, <2>2, <2>3, <2>4 DEF OneEnd
  <2>6. k \o << >> = k
    BY ConcatEmptySeq
  <2> QED
    BY <1>1, <2>1, <2>2, <2>5, <2>6
<1> QED
  BY <1>2, <1>3

LEMMA FromKernelKeeps == Queues /\ FromKernel => Queues'
<1> SUFFICES ASSUME Queues, FromKernel PROVE Queues'
  OBVIOUS
<1>1. /\ kernel # << >> /\ Head(kernel) # EndOfFile /\ stdio = << >>
      /\ processed' = Append(processed, Head(Read[1]))
      /\ stdio' = Tail(Read[1]) /\ kernel' = Read[2]
      /\ UNCHANGED <<stdin, ended, eof, typed, client, server, fromServer, sentByServer>>
  BY DEF FromKernel, Process, serverVars, Readable
<1>2. PICK taken \in Seq(Typed), left \in Seq(Typed \cup {EndOfFile}) :
        /\ taken = Read[1] /\ taken # << >> /\ left = Read[2]
        /\ OneEnd(left) /\ (Ends(kernel) = {} => Ends(left) = {})
        /\ taken \o LinesIn(left) = LinesIn(kernel)
  BY <1>1, ReadKeeps
<1>3. Head(taken) \in Typed /\ Tail(taken) \in Seq(Typed)
  BY <1>2, HeadOf
<1>4. PICK p \in Seq(Typed) : p = Append(processed, Head(taken))
  BY <1>3, Waiting, LastOf
<1>5. ConsoleTypes'
  BY <1>1, <1>2, <1>3, <1>4 DEF Queues, ConsoleTypes
<1>6. kernel' = left /\ stdio' = Tail(taken) /\ processed' = p
  BY <1>1, <1>2, <1>4
<1>7. OneEndOfFile'
  BY <1>1, <1>2, <1>6 DEF Queues, OneEndOfFile, OneEnd, Ends
<1>8. LinesInOrder'
  <2>1. PICK rest \in Seq(Typed) : rest = LinesIn(left)
    BY <1>2, LinesAreTyped
  <2>2. processed \in Seq(Typed) /\ processed \o << >> = processed
    BY Waiting, ConcatEmptySeq
  <2>3. p \o Tail(taken) = processed \o taken
    BY <1>2, <1>4, <2>2, HeadMoves
  <2>4. (processed \o taken) \o rest = processed \o (taken \o rest)
    BY <2>2, ConcatAssociative
  <2>5. processed \o LinesIn(kernel) = typed
    BY <1>1, <2>2, Waiting
  <2>6. p \o Tail(taken) \o LinesIn(left) = typed
    BY <1>2, <2>1, <2>3, <2>4, <2>5
  <2>7. LinesInOrder' <=> processed' \o stdio' \o LinesIn(kernel') = typed'
    BY DEF LinesInOrder, LinesIn, Ends
  <2> QED
    BY <1>1, <1>6, <2>6, <2>7
<1> QED
  BY <1>5, <1>7, <1>8 DEF Queues

LEMMA AtEndKeeps == Queues /\ NothingAfterEnd /\ AtEnd => Queues'
<1> SUFFICES ASSUME Queues, NothingAfterEnd, AtEnd PROVE Queues'
  OBVIOUS
<1>1. /\ kernel # << >> /\ eof' = TRUE /\ stdio = << >>
      /\ kernel' = IF stdin = "terminal" /\ ~eof THEN Tail(kernel) ELSE kernel
      /\ eof \/ Head(kernel) = EndOfFile
      /\ UNCHANGED <<stdin, ended, stdio, typed, processed, client, server, fromServer,
                     sentByServer>>
  BY DEF AtEnd, serverVars, Readable
<1>2. CASE stdin = "terminal" /\ ~eof
  <2>1. kernel' = Tail(kernel) /\ Head(kernel) = EndOfFile
    BY <1>1, <1>2
  <2>2. /\ OneEnd(Tail(kernel)) /\ (Ends(kernel) = {} => Ends(Tail(kernel)) = {})
        /\ LinesIn(Tail(kernel)) = LinesIn(kernel)
        /\ Tail(kernel) \in Seq(Typed \cup {EndOfFile})
    BY <1>1, <2>1, Waiting, LinesOfTail, HeadOf
  <2>3. ConsoleTypes'
    BY <1>1, <2>1, <2>2 DEF Queues, ConsoleTypes
  <2>4. OneEndOfFile' /\ LinesInOrder'
    BY <1>1, <2>1, <2>2 DEF Queues, OneEndOfFile, OneEnd, LinesInOrder, LinesIn, Ends
  <2> QED
    BY <2>3, <2>4 DEF Queues
<1>3. CASE ~(stdin = "terminal" /\ ~eof)
  <2>1. kernel' = kernel
    BY <1>1, <1>3
  <2> QED
    BY <1>1, <2>1 DEF Queues, ConsoleTypes, OneEndOfFile, OneEnd, LinesInOrder, LinesIn, Ends
<1> QED
  BY <1>2, <1>3

\* What concerns the server, and the sending of a line, leaves the queues alone.
LEMMA OthersKeep ==
    /\ Queues
    /\ ServerSends \/ ServerExits \/ processMsgFromServer \/ ServerTerminated \/ SendingLine
    => Queues' /\ UNCHANGED consoleVars
<1> SUFFICES ASSUME Queues, ServerSends \/ ServerExits \/ processMsgFromServer
                            \/ ServerTerminated \/ SendingLine
             PROVE  Queues' /\ UNCHANGED consoleVars
  OBVIOUS
<1>1. UNCHANGED consoleVars
  BY DEF ServerSends, ServerExits, processMsgFromServer, ServerTerminated, SendingLine
<1>2. ConsoleTypes
  BY DEF Queues
<1>3. /\ client' \in {"loop", "exited"} /\ server' \in {"up", "exited"}
      /\ fromServer' \in Nat /\ sentByServer' \in Nat
  <2>1. CASE ServerSends
    BY <1>2, <2>1 DEF ConsoleTypes, ServerSends
  <2>2. CASE ServerExits
    BY <1>2, <2>2 DEF ConsoleTypes, ServerExits
  <2>3. CASE processMsgFromServer
    BY <1>2, <2>3 DEF ConsoleTypes, processMsgFromServer
  <2>4. CASE ServerTerminated
    BY <1>2, <2>4 DEF ConsoleTypes, ServerTerminated, serverVars
  <2>5. CASE SendingLine
    BY <1>2, <2>5 DEF ConsoleTypes, SendingLine, serverVars
  <2> QED
    BY <2>1, <2>2, <2>3, <2>4, <2>5
<1>4. ConsoleTypes'
  BY <1>1, <1>2, <1>3 DEF ConsoleTypes, consoleVars
<1>5. OneEndOfFile' /\ LinesInOrder'
  BY <1>1 DEF consoleVars, Queues, OneEndOfFile, OneEnd, LinesInOrder, LinesIn, Ends
<1> QED
  BY <1>1, <1>4, <1>5 DEF Queues

LEMMA QueuesKeep ==
    Queues /\ NothingAfterEnd /\ [Next]_vars => Queues'
<1> SUFFICES ASSUME Queues, NothingAfterEnd, [Next]_vars PROVE Queues'
  OBVIOUS
<1>1. CASE UNCHANGED vars
  BY <1>1 DEF vars, consoleVars, serverVars, Queues, ConsoleTypes, OneEndOfFile, OneEnd,
              LinesInOrder, LinesIn, Ends
<1>2. CASE Next
  BY <1>2, TypeKeeps, EndInputKeeps, FromBufferKeeps, FromKernelKeeps, AtEndKeeps, OthersKeep
     DEF Next, clientControl, processStdin
<1> QED
  BY <1>1, <1>2

\* What the client does with its queues is, to the sender of lines, a line it is
\* given, a step of its own, or nothing.
LEMMA ConsoleSegments ==
    Queues /\ [Next]_vars => [SegmentationNext]_segmentationVars
<1> SUFFICES ASSUME Queues, [Next]_vars PROVE [SegmentationNext]_segmentationVars
  OBVIOUS
<1>1. ASSUME NEW l \in Typed, Process(l) PROVE [SegmentationNext]_segmentationVars
  BY <1>1 DEF Process, Typed, SegmentationNext
<1>2. CASE FromBuffer
  <2>1. stdio # << >> /\ Process(Head(stdio))
    BY <1>2 DEF FromBuffer
  <2>2. Head(stdio) \in Typed
    BY <2>1, Waiting, HeadOf
  <2> QED
    BY <1>1, <2>1, <2>2
<1>3. CASE FromKernel
  <2>1. kernel # << >> /\ Head(kernel) # EndOfFile /\ Process(Head(Read[1]))
    BY <1>3 DEF FromKernel, Readable
  <2>2. Read[1] \in Seq(Typed) /\ Read[1] # << >>
    BY <2>1, ReadKeeps
  <2>3. Head(Read[1]) \in Typed
    BY <2>2, HeadOf
  <2> QED
    BY <1>1, <2>1, <2>3
<1>4. CASE SendingLine
  BY <1>4 DEF SendingLine, SegmentationNext
<1>5. CASE UNCHANGED segmentationVars
  BY <1>5
<1>6. ASSUME ~FromBuffer, ~FromKernel, ~SendingLine PROVE UNCHANGED segmentationVars
  BY <1>6 DEF Next, vars, clientControl, processStdin, Type, EndInput, ServerSends, ServerExits,
              AtEnd, processMsgFromServer, ServerTerminated
<1> QED
  BY <1>2, <1>3, <1>4, <1>5, <1>6

LEMMA NothingAfterEndKept ==
    NothingAfterEnd /\ [Next]_vars => NothingAfterEnd'
<1> SUFFICES ASSUME NothingAfterEnd, [Next]_vars PROVE NothingAfterEnd'
  OBVIOUS
<1>1. CASE FromBuffer
  BY <1>1 DEF NothingAfterEnd, FromBuffer
<1>2. CASE FromKernel
  BY <1>2 DEF NothingAfterEnd, FromKernel
<1>3. CASE AtEnd
  BY <1>3 DEF NothingAfterEnd, AtEnd, Loop, segmentationVars
<1>4. CASE SendingLine
  BY <1>4 DEF NothingAfterEnd, SendingLine, consoleVars, Segment, CopyHandle, EndOfHeader,
              CopyByte, SendRest
<1>5. CASE Type \/ EndInput \/ ServerSends \/ ServerExits \/ processMsgFromServer
           \/ ServerTerminated \/ UNCHANGED vars
  BY <1>5 DEF NothingAfterEnd, Type, EndInput, ServerSends, ServerExits, processMsgFromServer,
              ServerTerminated, vars, consoleVars, segmentationVars
<1> QED
  BY <1>1, <1>2, <1>3, <1>4, <1>5 DEF Next, clientControl, processStdin

-----------------------------------------------------------------------------
(* The theorems *)

\* The invariant of the client, its sender of lines included.
LEMMA ConsoleInvariant == Spec => []ConsoleIInv
<1>1. Init => ConsoleIInv
  BY ConsoleStarts
<1>2. ConsoleIInv /\ [Next]_vars => ConsoleIInv'
  <2> SUFFICES ASSUME ConsoleIInv, [Next]_vars PROVE ConsoleIInv'
    OBVIOUS
  <2>1. Queues /\ NothingAfterEnd /\ SegmentationIInv
    BY DEF ConsoleIInv, Queues
  <2>2. Queues' /\ NothingAfterEnd'
    BY <2>1, QueuesKeep, NothingAfterEndKept
  <2>3. SegmentationIInv'
    BY <2>1, ConsoleSegments, SegmentationKeeps
  <2> QED
    BY <2>2, <2>3 DEF ConsoleIInv, Queues
<1> QED
  BY <1>1, <1>2, PTL DEF Spec

\* cclient.c:331-345, server.c:127, 191-218.  For every line, every handle and every size
\* of the buffer: the parts a text is cut into follow each other without gap or overlap
\* and lie in the buffer exactly when the header left room in it.  If the handles fit
\* the readers' arrays, each part of a message is read alone for what it is and only
\* the end of its text is terminated; each part of a broadcast is read without its last
\* two bytes, and none is terminated.
THEOREM TextIsCarried == SegmentationSpec => []PartsCarryTheText
<1>1. SegmentationInit => SegmentationIInv
  BY SegmentationStarts
<1>2. SegmentationIInv /\ [SegmentationNext]_segmentationVars => SegmentationIInv'
  BY SegmentationKeeps
<1>3. SegmentationIInv => PartsCarryTheText
  BY IInvPartsCarryTheText
<1> QED
  BY <1>1, <1>2, <1>3, PTL DEF SegmentationSpec

\* cclient.c:116-150.  Whatever the user types and the server does, the client sends its
\* lines as Segmentation says: one line at a time, to its end.
THEOREM ConsoleImplementsSegmentation == Spec => SegmentationSpec
<1>1. Init => SegmentationInit
  BY DEF Init
<1>2. ConsoleIInv /\ [Next]_vars => [SegmentationNext]_segmentationVars
  BY ConsoleSegments DEF ConsoleIInv, Queues
<1> QED
  BY <1>1, <1>2, ConsoleInvariant, PTL DEF Spec, SegmentationSpec

\* The texts of a client's lines are carried as well when its user goes on typing, ends
\* the input or loses the server meanwhile.
THEOREM ClientTextIsCarried == Spec => []PartsCarryTheText
BY ConsoleImplementsSegmentation, TextIsCarried, PTL

\* cclient.c:116-180.  Lines are worked on in the order they were typed and each once,
\* from a terminal and from a pipe, however many and wherever they wait.
THEOREM LinesKeepOrder == Spec => []LinesInOrder
<1>1. ConsoleIInv => LinesInOrder
  BY DEF ConsoleIInv
<1> QED
  BY <1>1, ConsoleInvariant, PTL

\* cclient.c:168.  Once the client has met an end of its input that poll reports again,
\* it takes nothing from the server, does not notice that it is gone, and the end stays.
THEOREM DeafFromThen == Spec => DeafAfterEnd
<1>1. ConsoleIInv /\ [Next]_vars =>
        (eof /\ Readable /\ client = "loop" =>
            fromServer' >= fromServer /\ client' = "loop" /\ Readable')
  <2> SUFFICES ASSUME ConsoleIInv, [Next]_vars, eof, Readable, client = "loop"
               PROVE  fromServer' >= fromServer /\ client' = "loop" /\ Readable'
    OBVIOUS
  <2>1. stdio = << >> /\ pc = "idle" /\ fromServer \in Nat
    BY DEF ConsoleIInv, NothingAfterEnd, ConsoleTypes
  <2>2. kernel # << >> /\ kernel \in Seq(Typed \cup {EndOfFile})
    BY DEF Readable, ConsoleIInv, ConsoleTypes
  <2>3. CASE Type \/ EndInput
    <3>1. \A x \in Typed \cup {EndOfFile} : Append(kernel, x) # << >>
      BY <2>2, LastOf
    <3>2. PICK x \in Typed \cup {EndOfFile} : kernel' = Append(kernel, x)
      BY <2>3 DEF Type, EndInput, Typed
    <3>3. UNCHANGED <<fromServer, client>>
      BY <2>3 DEF Type, EndInput, serverVars
    <3> QED
      BY <2>1, <3>1, <3>2, <3>3 DEF Readable
  <2>4. CASE ServerSends
    BY <2>1, <2>4 DEF ServerSends, consoleVars, Readable
  <2>5. CASE AtEnd
    BY <2>1, <2>5 DEF AtEnd, serverVars, Readable
  <2>6. CASE ServerExits \/ UNCHANGED vars
    <3>1. CASE ServerExits
      BY <2>1, <3>1 DEF ServerExits, consoleVars, Readable
    <3>2. CASE UNCHANGED vars
      BY <2>1, <3>2 DEF vars, consoleVars, serverVars, Readable
    <3> QED
      BY <2>6, <3>1, <3>2
  <2>7. ~FromBuffer /\ ~FromKernel /\ ~processMsgFromServer /\ ~ServerTerminated /\ ~SendingLine
    BY <2>1 DEF FromBuffer, FromKernel, processMsgFromServer, ServerTerminated, SendingLine,
                Segment, CopyHandle, EndOfHeader, CopyByte, SendRest, Loop
  <2> QED
    BY <2>3, <2>4, <2>5, <2>6, <2>7 DEF Next, clientControl, processStdin
<1> QED
  BY <1>1, ConsoleInvariant, PTL DEF Spec, DeafAfterEnd
=============================================================================
