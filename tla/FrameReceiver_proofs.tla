------------------------ MODULE FrameReceiver_proofs ------------------------
(***************************************************************************)
(* Proofs about FrameReceiver for any payloads, any buffer and any chunks, *)
(* and for any number of frames and lost connections.                      *)
(***************************************************************************)
EXTENDS FrameReceiver, SequenceTheorems, FiniteSetTheorems, WellFoundedInduction, TLAPS

-----------------------------------------------------------------------------
(* Numbers. *)

LEMMA LeastNumber ==
    ASSUME NEW T, T \subseteq Nat, T # {}
    PROVE  \E n \in T : \A m \in T : n <= m
<1> DEFINE R == {ss \in Nat \X Nat : ss[1] < ss[2]}
<1>1. IsWellFoundedOn(R, Nat)
  BY NatLessThanWellFounded DEF OpToRel
<1> HIDE DEF R
<1>2. PICK n \in T : \A m \in T : <<m, n>> \notin R
  BY <1>1, WFMin
<1>3. ASSUME NEW m \in T
      PROVE  n <= m
  <2>1. m \in Nat /\ n \in Nat
    OBVIOUS
  <2>2. m < n => <<m, n>> \in R
    BY <2>1 DEF R
  <2> QED
    BY <1>2, <2>1, <2>2
<1> QED
  BY <1>3

\* Induction, for a set instead of a predicate.
LEMMA InductionOnSet ==
    ASSUME NEW T, 0 \in T, \A n \in Nat : n \in T => n + 1 \in T
    PROVE  Nat \subseteq T
<1> SUFFICES ASSUME NEW k \in Nat, k \notin T PROVE FALSE
  OBVIOUS
<1>1. PICK n \in Nat \ T : \A m \in Nat \ T : n <= m
  <2>1. Nat \ T # {} /\ Nat \ T \subseteq Nat
    OBVIOUS
  <2> QED
    BY <2>1, LeastNumber
<1>2. n # 0
  OBVIOUS
<1>3. n - 1 \in Nat /\ ~ (n <= n - 1)
  BY <1>2
<1>4. n - 1 \in T
  BY <1>1, <1>3
<1> QED
  BY <1>3, <1>4

\* Least finds the least element.
LEMMA LeastIsLeast ==
    ASSUME NEW T, T \subseteq Nat, T # {}
    PROVE  Least(T) \in T /\ \A m \in T : Least(T) <= m
BY LeastNumber DEF Least

\* The least element is the one that no other precedes.
LEMMA LeastIs ==
    ASSUME NEW T, T \subseteq Nat, NEW n \in T, \A m \in T : n <= m
    PROVE  Least(T) = n
<1>1. Least(T) \in T /\ Least(T) <= n
  BY LeastIsLeast
<1>2. n <= Least(T) /\ n \in Nat /\ Least(T) \in Nat
  BY <1>1
<1> QED
  BY <1>1, <1>2

-----------------------------------------------------------------------------
(* Sequences of bytes. *)

\* What is behind position i - 1.
LEMMA Behind ==
    ASSUME NEW S, NEW b \in Seq(S), NEW i \in 1..(Len(b) + 1)
    PROVE  /\ From(b, i) \in Seq(S)
           /\ Len(From(b, i)) = Len(b) - i + 1
           /\ \A j \in 1..(Len(b) - i + 1) : From(b, i)[j] = b[i + j - 1]
<1>1. \A j \in i..Len(b) : b[j] \in S
  OBVIOUS
<1>2. /\ From(b, i) \in Seq(S)
      /\ Len(From(b, i)) = IF i <= Len(b) THEN Len(b) - i + 1 ELSE 0
      /\ \A j \in 1..(Len(b) - i + 1) : From(b, i)[j] = b[i + j - 1]
  BY <1>1, SubSeqProperties DEF From
<1> QED
  BY <1>2

LEMMA BehindNothing ==
    ASSUME NEW S, NEW b \in Seq(S)
    PROVE  From(b, 1) = b
BY SubSeqFull DEF From

\* The first n bytes and the others.
LEMMA Split ==
    ASSUME NEW S, NEW b \in Seq(S), NEW n \in 0..Len(b)
    PROVE  /\ SubSeq(b, 1, n) \in Seq(S)
           /\ Len(SubSeq(b, 1, n)) = n
           /\ \A i \in 1..n : SubSeq(b, 1, n)[i] = b[i]
           /\ SubSeq(b, 1, n) \o From(b, n + 1) = b
<1>1. \A j \in 1..n : b[j] \in S
  OBVIOUS
<1>2. /\ SubSeq(b, 1, n) \in Seq(S)
      /\ Len(SubSeq(b, 1, n)) = n
      /\ \A i \in 1..n : SubSeq(b, 1, n)[i] = b[i]
  BY <1>1, SubSeqProperties
<1>3. SubSeq(b, 1, n) \o SubSeq(b, n + 1, Len(b)) = SubSeq(b, 1, Len(b))
  <2>1. /\ 1 \in 1..Len(b) + 1
        /\ n \in (1 - 1)..Len(b)
        /\ Len(b) \in n..Len(b)
    OBVIOUS
  <2> QED
    BY <2>1, ConcatAdjacentSubSeq
<1> QED
  BY <1>2, <1>3, SubSeqFull DEF From

\* The same sequence, cut in two ways.
Same(b, w, a, r) == b \o w = a \o r

Assoc(s, t, u) == (s \o t) \o u = s \o (t \o u)

LEMMA Associates == \A S : \A s, t, u \in Seq(S) : Assoc(s, t, u)
BY ConcatAssociative DEF Assoc

\* If b is at least as long as a, then a is its beginning.
LEMMA Prefix ==
    ASSUME NEW S, NEW b \in Seq(S), NEW w \in Seq(S), NEW a \in Seq(S), NEW r \in Seq(S),
           Same(b, w, a, r), Len(a) <= Len(b)
    PROVE  /\ SubSeq(b, 1, Len(a)) = a
           /\ From(b, Len(a) + 1) \o w = r
           /\ \A i \in 1..Len(a) : b[i] = a[i]
<1> DEFINE h == SubSeq(b, 1, Len(a))
           t == From(b, Len(a) + 1)
<1>1. /\ h \in Seq(S) /\ Len(h) = Len(a) /\ (\A i \in 1..Len(a) : h[i] = b[i])
      /\ h \o t = b
  <2>1. Len(a) \in 0..Len(b)
    OBVIOUS
  <2> QED
    BY <2>1, Split
<1>2. t \in Seq(S)
  <2>1. Len(a) + 1 \in 1..(Len(b) + 1)
    OBVIOUS
  <2> QED
    BY <2>1, Behind
<1> HIDE DEF h, t
<1>3. ASSUME NEW i \in 1..Len(a)
      PROVE  b[i] = a[i]
  <2>1. (b \o w)[i] = b[i] /\ (a \o r)[i] = a[i]
    OBVIOUS
  <2> QED
    BY <2>1 DEF Same
<1>4. h = a
  BY <1>1, <1>3, SeqEqual
<1>5. Assoc(a, t, w)
  <2>1. a \in Seq(S) /\ t \in Seq(S) /\ w \in Seq(S)
    BY <1>2
  <2> QED
    BY <2>1, Associates
<1>6. a \o (t \o w) = a \o r
  BY <1>1, <1>4, <1>5 DEF Same, Assoc
<1>7. t \o w \in Seq(S)
  BY <1>2
<1>8. t \o w = r
  BY <1>6, <1>7, ConcatSimplifications
<1> QED
  BY <1>3, <1>4, <1>8 DEF h, t

\* The two parts of a joined sequence.
LEMMA Joined ==
    ASSUME NEW S, NEW s \in Seq(S), NEW t \in Seq(S)
    PROVE  /\ s \o t \in Seq(S)
           /\ Len(s \o t) = Len(s) + Len(t)
           /\ \A i \in 1..Len(s) : (s \o t)[i] = s[i]
           /\ \A i \in 1..Len(t) : (s \o t)[Len(s) + i] = t[i]
<1>1. /\ s \o t \in Seq(S)
      /\ Len(s \o t) = Len(s) + Len(t)
      /\ \A i \in 1..(Len(s) + Len(t)) :
             (s \o t)[i] = IF i <= Len(s) THEN s[i] ELSE t[i - Len(s)]
  BY ConcatProperties
<1>2. Len(s) \in Nat /\ Len(t) \in Nat
  OBVIOUS
<1>3. ASSUME NEW i \in 1..Len(t)
      PROVE  (s \o t)[Len(s) + i] = t[i]
  <2>1. /\ Len(s) + i \in 1..(Len(s) + Len(t)) /\ ~ (Len(s) + i <= Len(s))
        /\ Len(s) + i - Len(s) = i
    BY <1>2
  <2> QED
    BY <1>1, <2>1
<1>4. ASSUME NEW i \in 1..Len(s)
      PROVE  (s \o t)[i] = s[i]
  <2>1. i \in 1..(Len(s) + Len(t)) /\ i <= Len(s)
    BY <1>2
  <2> QED
    BY <1>1, <2>1
<1> QED
  BY <1>1, <1>3, <1>4

\* What is behind a position, with one element more at the end, and with one
\* element less in front.
LEMMA BehindAppend ==
    ASSUME NEW S, NEW s \in Seq(S), NEW e \in S, NEW n \in Nat, n <= Len(s)
    PROVE  From(Append(s, e), n + 1) = Append(From(s, n + 1), e)
<1> DEFINE x == Append(s, e)
           l == From(x, n + 1)
           m == From(s, n + 1)
<1>1. x \in Seq(S) /\ Len(x) = Len(s) + 1 /\ (\A i \in 1..Len(s) : x[i] = s[i]) /\ x[Len(s) + 1] = e
  BY AppendProperties
<1>2. Len(s) \in Nat /\ n + 1 \in 1..(Len(s) + 1) /\ n + 1 \in 1..(Len(x) + 1)
  BY <1>1
<1> HIDE DEF x
<1>3. l \in Seq(S) /\ Len(l) = Len(x) - (n + 1) + 1
      /\ \A j \in 1..(Len(x) - (n + 1) + 1) : l[j] = x[n + 1 + j - 1]
  BY <1>1, <1>2, Behind
<1>4. m \in Seq(S) /\ Len(m) = Len(s) - (n + 1) + 1
      /\ \A j \in 1..(Len(s) - (n + 1) + 1) : m[j] = s[n + 1 + j - 1]
  BY <1>2, Behind
<1> HIDE DEF l, m
<1> DEFINE y == Append(m, e)
<1>5. y \in Seq(S) /\ Len(y) = Len(m) + 1 /\ (\A i \in 1..Len(m) : y[i] = m[i]) /\ y[Len(m) + 1] = e
  BY <1>4, AppendProperties
<1> HIDE DEF y
<1>6. Len(m) = Len(s) - n /\ Len(l) = Len(s) - n + 1 /\ Len(y) = Len(l)
  BY <1>1, <1>2, <1>3, <1>4, <1>5
<1>7. ASSUME NEW j \in 1..Len(l)
      PROVE  l[j] = y[j]
  <2>1. l[j] = x[n + j]
    <3>1. j \in 1..(Len(x) - (n + 1) + 1) /\ n + 1 + j - 1 = n + j
      BY <1>3
    <3> QED
      BY <1>3, <3>1
  <2>2. CASE j = Len(l)
    <3>1. n + j = Len(s) + 1 /\ j = Len(m) + 1
      BY <1>2, <1>6, <2>2
    <3> QED
      BY <1>1, <1>5, <2>1, <3>1
  <2>3. CASE j # Len(l)
    <3>1. j \in 1..Len(m) /\ n + j \in 1..Len(s) /\ j \in 1..(Len(s) - (n + 1) + 1) /\ n + 1 + j - 1 = n + j
      BY <1>2, <1>6, <2>3
    <3>2. y[j] = m[j] /\ m[j] = s[n + j] /\ x[n + j] = s[n + j]
      BY <1>1, <1>4, <1>5, <3>1
    <3> QED
      BY <2>1, <3>2
  <2> QED
    BY <2>2, <2>3
<1>8. l = y
  BY <1>3, <1>5, <1>6, <1>7, SeqEqual
<1> QED
  BY <1>8 DEF l, m, x, y

LEMMA BehindNext ==
    ASSUME NEW S, NEW s \in Seq(S), NEW n \in Nat, n < Len(s)
    PROVE  From(From(s, n + 1), 2) = From(s, n + 2) /\ From(s, n + 1)[1] = s[n + 1]
           /\ From(s, n + 1) # <<>>
<1> DEFINE m == From(s, n + 1)
           k == From(s, n + 2)
           l == From(m, 2)
<1>1. Len(s) \in Nat /\ n + 1 \in 1..(Len(s) + 1) /\ n + 2 \in 1..(Len(s) + 1)
  OBVIOUS
<1>2. m \in Seq(S) /\ Len(m) = Len(s) - (n + 1) + 1
      /\ \A j \in 1..(Len(s) - (n + 1) + 1) : m[j] = s[n + 1 + j - 1]
  BY <1>1, Behind
<1>3. k \in Seq(S) /\ Len(k) = Len(s) - (n + 2) + 1
      /\ \A j \in 1..(Len(s) - (n + 2) + 1) : k[j] = s[n + 2 + j - 1]
  BY <1>1, Behind
<1> HIDE DEF m, k
<1>4. 2 \in 1..(Len(m) + 1)
  BY <1>1, <1>2
<1>5. l \in Seq(S) /\ Len(l) = Len(m) - 2 + 1
      /\ \A j \in 1..(Len(m) - 2 + 1) : l[j] = m[2 + j - 1]
  BY <1>2, <1>4, Behind
<1> HIDE DEF l
<1>6. Len(l) = Len(s) - n - 1 /\ Len(k) = Len(l) /\ Len(m) = Len(s) - n
  BY <1>1, <1>2, <1>3, <1>5
<1>7. ASSUME NEW j \in 1..Len(l)
      PROVE  l[j] = k[j]
  <2>1. /\ j \in 1..(Len(m) - 2 + 1) /\ j \in 1..(Len(s) - (n + 2) + 1)
        /\ 2 + j - 1 \in 1..(Len(s) - (n + 1) + 1)
        /\ n + 1 + (2 + j - 1) - 1 = n + 2 + j - 1
    BY <1>1, <1>6
  <2> QED
    BY <1>2, <1>3, <1>5, <2>1
<1>8. l = k
  BY <1>3, <1>5, <1>6, <1>7, SeqEqual
<1>9. m[1] = s[n + 1] /\ m # <<>>
  <2>1. 1 \in 1..(Len(s) - (n + 1) + 1) /\ n + 1 + 1 - 1 = n + 1 /\ Len(m) # 0
    BY <1>1, <1>6
  <2> QED
    BY <1>2, <2>1
<1> QED
  BY <1>8, <1>9 DEF l, k, m

-----------------------------------------------------------------------------
(* The frames, with the dialect as a parameter. *)

Payloads(d) == IF d = "A" THEN PayloadsA ELSE PayloadsB

Framed(d, p) ==
    IF d = "A" THEN <<STX>> \o p \o <<ETX>>
    ELSE Magic \o <<Len(p)>> \o p \o <<Xor(p)>>

\* The checksum of bytes is a byte.
LEMMA XorIsByte ==
    ASSUME NEW p \in Seq(Byte)
    PROVE  Xor(p) \in Byte
<1>1. ASSUME NEW n \in Nat
      PROVE  XorBit(n, p) \in 0..1
  <2> DEFINE T == {i \in DOMAIN p : Bit(n, p[i]) = 1}
  <2>1. IsFiniteSet(1..Len(p))
    BY FS_Interval
  <2>2. T \subseteq 1..Len(p)
    OBVIOUS
  <2> HIDE DEF T
  <2>3. Cardinality(T) \in Nat
    BY <2>1, <2>2, FS_Subset, FS_CardinalityType
  <2>4. Cardinality(T) % 2 \in 0..1
    BY <2>3
  <2> QED
    BY <2>4 DEF XorBit, T
<1>2. /\ XorBit(0, p) \in 0..1 /\ XorBit(1, p) \in 0..1
      /\ XorBit(2, p) \in 0..1 /\ XorBit(3, p) \in 0..1
  BY <1>1
<1> QED
  BY <1>2 DEF Xor, Byte

\* A CoLa-A frame: <STX> first, <ETX> last and nowhere else.
LEMMA FrameOfText ==
    ASSUME NEW p \in PayloadsA
    PROVE  /\ Framed("A", p) \in Seq(Byte)
           /\ Len(Framed("A", p)) = Len(p) + 2
           /\ Framed("A", p)[1] = STX
           /\ Framed("A", p)[Len(p) + 2] = ETX
           /\ \A i \in 1..(Len(p) + 1) : Framed("A", p)[i] # ETX
<1>1. p \in Seq(Byte \ {STX, ETX})
  BY FrameAssumption
<1>2. p \in Seq(Byte) /\ \A i \in 1..Len(p) : p[i] # ETX
  <2>1. Byte \ {STX, ETX} \subseteq Byte
    OBVIOUS
  <2> QED
    BY <1>1, <2>1, SeqMonotonic
<1> DEFINE s == <<STX>>
           e == <<ETX>>
<1>3. /\ s \in Seq(Byte) /\ Len(s) = 1 /\ s[1] = STX
      /\ e \in Seq(Byte) /\ Len(e) = 1 /\ e[1] = ETX
  BY DEF STX, ETX, Byte
<1>4. STX # ETX
  BY DEF STX, ETX
<1> HIDE DEF s, e
<1> DEFINE h == s \o p
<1>5. /\ h \in Seq(Byte) /\ Len(h) = 1 + Len(p)
      /\ \A i \in 1..1 : h[i] = s[i]
      /\ \A i \in 1..Len(p) : h[1 + i] = p[i]
  BY <1>2, <1>3, Joined, SMTT(30)
<1> HIDE DEF h
<1>6. /\ h \o e \in Seq(Byte) /\ Len(h \o e) = Len(h) + 1
      /\ \A i \in 1..Len(h) : (h \o e)[i] = h[i]
      /\ \A i \in 1..1 : (h \o e)[Len(h) + i] = e[i]
  <2>0. h \in Seq(Byte) /\ e \in Seq(Byte)
    BY <1>3, <1>5
  <2>1. /\ h \o e \in Seq(Byte) /\ Len(h \o e) = Len(h) + Len(e)
        /\ \A i \in 1..Len(h) : (h \o e)[i] = h[i]
        /\ \A i \in 1..Len(e) : (h \o e)[Len(h) + i] = e[i]
    BY <2>0, Joined
  <2> QED
    BY <1>3, <2>1
<1>7. Framed("A", p) = h \o e
  BY DEF Framed, h, s, e
<1>8. Len(p) \in Nat /\ Len(h) + 1 = Len(p) + 2 /\ Len(h) = Len(p) + 1
  BY <1>2, <1>5
<1>9. ASSUME NEW i \in 1..(Len(p) + 1)
      PROVE  h[i] # ETX
  <2>1. CASE i = 1
    BY <1>3, <1>4, <1>5, <2>1
  <2>2. CASE i # 1
    <3>1. i - 1 \in 1..Len(p) /\ 1 + (i - 1) = i
      BY <1>8, <2>2
    <3>2. h[1 + (i - 1)] = p[i - 1] /\ p[i - 1] # ETX
      BY <1>2, <1>5, <3>1
    <3> QED
      BY <3>1, <3>2
  <2> QED
    BY <2>1, <2>2
<1>10. (h \o e)[1] = STX
  <2>1. 1 \in 1..1 /\ 1 \in 1..Len(h)
    BY <1>8
  <2> QED
    BY <1>3, <1>5, <1>6, <2>1
<1>11. (h \o e)[Len(p) + 2] = ETX
  <2>1. 1 \in 1..1
    OBVIOUS
  <2> QED
    BY <1>3, <1>6, <1>8, <2>1
<1>12. \A i \in 1..(Len(p) + 1) : (h \o e)[i] # ETX
  BY <1>6, <1>8, <1>9
<1>13. Len(h \o e) = Len(p) + 2
  BY <1>6, <1>8
<1> QED
  BY <1>6, <1>7, <1>10, <1>11, <1>12, <1>13

\* A CoLa-B frame: the magic word, the length, the payload and its checksum.
LEMMA FrameOfBytes ==
    ASSUME NEW p \in PayloadsB
    PROVE  /\ Framed("B", p) \in Seq(Byte)
           /\ Len(Framed("B", p)) = Len(p) + Overhead
           /\ \A i \in 1..MagicLength : Framed("B", p)[i] = STX
           /\ Framed("B", p)[MagicLength + 1] = Len(p)
           /\ \A i \in 1..Len(p) : Framed("B", p)[MagicLength + 1 + i] = p[i]
           /\ Framed("B", p)[Len(p) + Overhead] = Xor(p)
<1>1. p \in Seq(Byte) /\ Len(p) \in Byte /\ Xor(p) \in Byte /\ MagicLength \in Nat
  BY FrameAssumption, XorIsByte
<1> DEFINE l == <<Len(p)>>
           x == <<Xor(p)>>
<1>2. /\ l \in Seq(Byte) /\ Len(l) = 1 /\ l[1] = Len(p)
      /\ x \in Seq(Byte) /\ Len(x) = 1 /\ x[1] = Xor(p)
  BY <1>1
<1>3. Magic \in Seq(Byte) /\ Len(Magic) = MagicLength /\ \A i \in 1..MagicLength : Magic[i] = STX
  <2>1. STX \in Byte
    BY DEF STX, Byte
  <2> QED
    BY <1>1, <2>1 DEF Magic
<1> HIDE DEF l, x
<1> DEFINE h == Magic \o l
<1>4. /\ h \in Seq(Byte) /\ Len(h) = MagicLength + 1
      /\ \A i \in 1..MagicLength : h[i] = Magic[i]
      /\ \A i \in 1..1 : h[MagicLength + i] = l[i]
  <2>0. Magic \in Seq(Byte) /\ l \in Seq(Byte)
    BY <1>2, <1>3
  <2>1. /\ h \in Seq(Byte) /\ Len(h) = Len(Magic) + Len(l)
        /\ \A i \in 1..Len(Magic) : h[i] = Magic[i]
        /\ \A i \in 1..Len(l) : h[Len(Magic) + i] = l[i]
    BY <2>0, Joined
  <2> QED
    BY <1>2, <1>3, <2>1
<1> HIDE DEF h
<1> DEFINE g == h \o p
<1>5. /\ g \in Seq(Byte) /\ Len(g) = MagicLength + 1 + Len(p)
      /\ \A i \in 1..(MagicLength + 1) : g[i] = h[i]
      /\ \A i \in 1..Len(p) : g[MagicLength + 1 + i] = p[i]
  <2>0. h \in Seq(Byte) /\ p \in Seq(Byte)
    BY <1>1, <1>4
  <2>1. /\ g \in Seq(Byte) /\ Len(g) = Len(h) + Len(p)
        /\ \A i \in 1..Len(h) : g[i] = h[i]
        /\ \A i \in 1..Len(p) : g[Len(h) + i] = p[i]
    BY <2>0, Joined
  <2> QED
    BY <1>4, <2>1
<1> HIDE DEF g
<1>6. /\ g \o x \in Seq(Byte) /\ Len(g \o x) = Len(g) + 1
      /\ \A i \in 1..Len(g) : (g \o x)[i] = g[i]
      /\ \A i \in 1..1 : (g \o x)[Len(g) + i] = x[i]
  <2>0. g \in Seq(Byte) /\ x \in Seq(Byte)
    BY <1>2, <1>5
  <2>1. /\ g \o x \in Seq(Byte) /\ Len(g \o x) = Len(g) + Len(x)
        /\ \A i \in 1..Len(g) : (g \o x)[i] = g[i]
        /\ \A i \in 1..Len(x) : (g \o x)[Len(g) + i] = x[i]
    BY <2>0, Joined
  <2> QED
    BY <1>2, <2>1
<1>7. /\ Len(p) \in Nat /\ Overhead = MagicLength + 2
      /\ Len(g) + 1 = Len(p) + Overhead
  BY <1>1, <1>5 DEF Overhead
<1>8. /\ 1 \in 1..1
      /\ \A i \in 1..MagicLength : i \in 1..(MagicLength + 1) /\ i \in 1..Len(g)
      /\ MagicLength + 1 \in 1..(MagicLength + 1) /\ MagicLength + 1 \in 1..Len(g)
      /\ \A i \in 1..Len(p) : MagicLength + 1 + i \in 1..Len(g)
  BY <1>1, <1>5, <1>7
<1>9. Framed("B", p) = g \o x
  BY DEF Framed, g, h, l, x
<1>10. \A i \in 1..MagicLength : (g \o x)[i] = STX
  BY <1>3, <1>4, <1>5, <1>6, <1>8
<1>11. (g \o x)[MagicLength + 1] = Len(p)
  <2>1. h[MagicLength + 1] = Len(p)
    BY <1>2, <1>4, <1>8
  <2>2. g[MagicLength + 1] = Len(p)
    BY <1>5, <1>8, <2>1
  <2> QED
    BY <1>6, <1>8, <2>2
<1>12. \A i \in 1..Len(p) : (g \o x)[MagicLength + 1 + i] = p[i]
  BY <1>5, <1>6, <1>8
<1>13. (g \o x)[Len(p) + Overhead] = Xor(p)
  BY <1>2, <1>6, <1>7, <1>8
<1>14. Len(g \o x) = Len(p) + Overhead
  BY <1>6, <1>7
<1> QED
  BY <1>6, <1>9, <1>10, <1>11, <1>12, <1>13, <1>14

LEMMA FrameIsBytes ==
    ASSUME NEW d \in {"A", "B"}, NEW p \in Payloads(d)
    PROVE  /\ Framed(d, p) \in Seq(Byte)
           /\ Len(Framed(d, p)) = Len(p) + (IF d = "A" THEN 2 ELSE Overhead)
           /\ Framed(d, p)[1] = STX
           /\ Len(p) \in Nat
<1>1. CASE d = "A"
  <2>1. p \in PayloadsA
    BY <1>1 DEF Payloads
  <2>2. Len(p) \in Nat
    BY <2>1, FrameAssumption
  <2> QED
    BY <1>1, <2>1, <2>2, FrameOfText
<1>2. CASE d = "B"
  <2>1. p \in PayloadsB /\ 1 \in 1..MagicLength
    BY <1>2, FrameAssumption DEF Payloads
  <2>2. Len(p) \in Nat
    BY <2>1, FrameAssumption
  <2> QED
    BY <1>2, <2>1, <2>2, FrameOfBytes
<1> QED
  BY <1>1, <1>2

LEMMA FramesAreNotEmpty ==
    ASSUME NEW d \in {"A", "B"}, NEW p \in Payloads(d)
    PROVE  Len(Framed(d, p)) \in Nat \ {0}
<1>1. Len(Framed(d, p)) = Len(p) + (IF d = "A" THEN 2 ELSE Overhead) /\ Len(p) \in Nat
  BY FrameIsBytes
<1>2. (IF d = "A" THEN 2 ELSE Overhead) \in Nat \ {0}
  BY FrameAssumption DEF Overhead
<1> QED
  BY <1>1, <1>2

-----------------------------------------------------------------------------
(* A row of frames.                                                        *)

Stream(d, ps) ==
    LET f[n \in 0..Len(ps)] == IF n = 0 THEN <<>> ELSE f[n - 1] \o Framed(d, ps[n])
    IN  f[Len(ps)]

\* f joins the frames of ps one by one.
Joins(f, d, ps) ==
    /\ f[0] = <<>>
    /\ \A n \in 1..Len(ps) : f[n] = f[n - 1] \o Framed(d, ps[n])

\* The recursive definition of Stream defines a function.
LEMMA StreamExists ==
    ASSUME NEW d, NEW ps, Len(ps) \in Nat
    PROVE  \E f : Joins(f, d, ps) /\ Stream(d, ps) = f[Len(ps)]
<1> DEFINE Eq(f, m) == f = [n \in 0..m |-> IF n = 0 THEN <<>> ELSE f[n - 1] \o Framed(d, ps[n])]
           T == {m \in Nat : \E f : Eq(f, m)}
<1>1. 0 \in T
  <2>1. Eq([n \in 0..0 |-> <<>>], 0)
    OBVIOUS
  <2> QED
    BY <2>1
<1>2. ASSUME NEW m \in Nat, m \in T
      PROVE  m + 1 \in T
  <2>1. PICK f : Eq(f, m)
    BY <1>2
  <2> DEFINE g == [n \in 0..(m + 1) |-> IF n = m + 1 THEN f[m] \o Framed(d, ps[m + 1]) ELSE f[n]]
  <2>2. \A n \in 0..(m + 1) : g[n] = IF n = 0 THEN <<>> ELSE g[n - 1] \o Framed(d, ps[n])
    BY <2>1
  <2>3. Eq(g, m + 1)
    <3>1. g = [n \in 0..(m + 1) |-> g[n]]
      OBVIOUS
    <3> QED
      BY <2>2, <3>1
  <2> HIDE DEF g
  <2>4. \E e : Eq(e, m + 1)
    BY <2>3
  <2> HIDE DEF Eq
  <2> QED
    BY <2>4
<1> HIDE DEF T
<1>3. Len(ps) \in T
  BY <1>1, <1>2, InductionOnSet
<1>4. \E f : Eq(f, Len(ps))
  BY <1>3 DEF T
<1> DEFINE h == CHOOSE f : Eq(f, Len(ps))
<1>5. Eq(h, Len(ps))
  BY <1>4
<1>6. Stream(d, ps) = h[Len(ps)]
  BY DEF Stream
<1> HIDE DEF h
<1>7. \A n \in 0..Len(ps) : h[n] = IF n = 0 THEN <<>> ELSE h[n - 1] \o Framed(d, ps[n])
  BY <1>5
<1>8. h[0] = <<>> /\ \A n \in 1..Len(ps) : n \in 0..Len(ps) /\ n # 0
  BY <1>7
<1>9. Joins(h, d, ps)
  BY <1>7, <1>8 DEF Joins
<1> QED
  BY <1>6, <1>9

\* However the frames are joined one by one, the result is the same.
LEMMA StreamIs ==
    ASSUME NEW d, NEW ps, Len(ps) \in Nat, NEW h, Joins(h, d, ps)
    PROVE  Stream(d, ps) = h[Len(ps)]
<1>1. PICK f : Joins(f, d, ps) /\ Stream(d, ps) = f[Len(ps)]
  BY StreamExists
<1> DEFINE T == {n \in Nat : n <= Len(ps) => f[n] = h[n]}
<1>2. 0 \in T
  BY <1>1 DEF Joins
<1>3. ASSUME NEW n \in Nat, n \in T
      PROVE  n + 1 \in T
  <2>1. CASE n + 1 <= Len(ps)
    <3>1. n + 1 \in 1..Len(ps) /\ (n + 1) - 1 = n /\ n <= Len(ps)
      BY <2>1
    <3>2. f[n] = h[n]
      BY <1>3, <3>1
    <3> DEFINE m == n + 1
    <3>3. m \in 1..Len(ps) /\ m - 1 = n
      BY <3>1
    <3> HIDE DEF m
    <3>4. f[m] = f[m - 1] \o Framed(d, ps[m]) /\ h[m] = h[m - 1] \o Framed(d, ps[m])
      BY <1>1, <3>3 DEF Joins
    <3>5. f[m] = h[m]
      BY <3>2, <3>3, <3>4
    <3> QED
      BY <3>5 DEF m
  <2> QED
    BY <2>1
<1> HIDE DEF T
<1>4. Len(ps) \in T
  BY <1>2, <1>3, InductionOnSet
<1>5. f[Len(ps)] = h[Len(ps)]
  BY <1>4 DEF T
<1> QED
  BY <1>1, <1>5

LEMMA StreamOfNothing ==
    ASSUME NEW d
    PROVE  Stream(d, <<>>) = <<>>
<1>1. Len(<<>>) = 0 /\ 0 \in Nat
  OBVIOUS
<1>2. \E f : Joins(f, d, <<>>) /\ Stream(d, <<>>) = f[Len(<<>>)]
  BY <1>1, StreamExists
<1> QED
  BY <1>1, <1>2 DEF Joins

\* The partial results are sequences of bytes.
LEMMA StreamIsBytes ==
    ASSUME NEW d \in {"A", "B"}, NEW ps \in Seq(Payloads(d)), NEW f, Joins(f, d, ps)
    PROVE  \A n \in 0..Len(ps) : f[n] \in Seq(Byte)
<1> DEFINE T == {n \in Nat : n <= Len(ps) => f[n] \in Seq(Byte)}
<1>1. 0 \in T
  BY EmptySeq DEF Joins
<1>2. ASSUME NEW n \in Nat, n \in T
      PROVE  n + 1 \in T
  <2>1. CASE n + 1 <= Len(ps)
    <3>1. n + 1 \in 1..Len(ps) /\ (n + 1) - 1 = n /\ n <= Len(ps)
      BY <2>1
    <3>2. f[n] \in Seq(Byte)
      BY <1>2, <3>1
    <3>3. ps[n + 1] \in Payloads(d)
      BY <3>1
    <3>4. Framed(d, ps[n + 1]) \in Seq(Byte)
      BY <3>3, FrameIsBytes
    <3>5. f[n + 1] = f[n] \o Framed(d, ps[n + 1])
      BY <3>1 DEF Joins
    <3>6. f[n + 1] \in Seq(Byte)
      BY <3>2, <3>4, <3>5
    <3> QED
      BY <3>6
  <2> QED
    BY <2>1
<1> HIDE DEF T
<1>3. Nat \subseteq T
  BY <1>1, <1>2, InductionOnSet
<1> QED
  BY <1>3 DEF T

LEMMA StreamType ==
    ASSUME NEW d \in {"A", "B"}, NEW ps \in Seq(Payloads(d))
    PROVE  Stream(d, ps) \in Seq(Byte)
<1>1. Len(ps) \in Nat /\ Len(ps) \in 0..Len(ps)
  OBVIOUS
<1>2. PICK f : Joins(f, d, ps) /\ Stream(d, ps) = f[Len(ps)]
  BY <1>1, StreamExists
<1>3. f[Len(ps)] \in Seq(Byte)
  BY <1>1, <1>2, StreamIsBytes
<1> QED
  BY <1>2, <1>3

\* One more frame at the end.
LEMMA StreamAppend ==
    ASSUME NEW d, NEW S, NEW ps \in Seq(S), NEW p \in S
    PROVE  Stream(d, Append(ps, p)) = Stream(d, ps) \o Framed(d, p)
<1> DEFINE qs == Append(ps, p)
<1>1. /\ Len(ps) \in Nat /\ Len(qs) = Len(ps) + 1 /\ qs[Len(ps) + 1] = p
      /\ \A i \in 1..Len(ps) : qs[i] = ps[i]
  OBVIOUS
<1> HIDE DEF qs
<1>2. PICK f : Joins(f, d, ps) /\ Stream(d, ps) = f[Len(ps)]
  BY <1>1, StreamExists
<1> DEFINE h == [n \in 0..(Len(ps) + 1) |-> IF n = Len(ps) + 1 THEN f[Len(ps)] \o Framed(d, p) ELSE f[n]]
<1>3. ASSUME NEW n \in 1..Len(qs)
      PROVE  h[n] = h[n - 1] \o Framed(d, qs[n])
  <2>1. CASE n = Len(ps) + 1
    <3>1. n - 1 = Len(ps) /\ n - 1 \in 0..(Len(ps) + 1) /\ n \in 0..(Len(ps) + 1)
          /\ n - 1 # Len(ps) + 1
      BY <1>1, <2>1, SMTT(30)
    <3>2. h[n] = f[Len(ps)] \o Framed(d, p) /\ h[n - 1] = f[n - 1]
      BY <2>1, <3>1
    <3> QED
      BY <1>1, <2>1, <3>1, <3>2
  <2>2. CASE n # Len(ps) + 1
    <3>1. n \in 1..Len(ps) /\ n - 1 \in 0..Len(ps) /\ n - 1 # Len(ps) + 1
      BY <1>1, <2>2
    <3>2. h[n] = f[n] /\ h[n - 1] = f[n - 1] /\ qs[n] = ps[n]
      BY <1>1, <3>1
    <3> QED
      BY <1>2, <3>1, <3>2 DEF Joins
  <2> QED
    BY <2>1, <2>2
<1>4. h[0] = <<>>
  BY <1>1, <1>2 DEF Joins
<1>5. h[Len(qs)] = f[Len(ps)] \o Framed(d, p)
  BY <1>1
<1> HIDE DEF h
<1>6. Joins(h, d, qs)
  BY <1>3, <1>4 DEF Joins
<1>7. Stream(d, qs) = h[Len(qs)]
  BY <1>1, <1>6, StreamIs
<1> QED
  BY <1>2, <1>5, <1>7 DEF qs

\* The frame in front and the others.
LEMMA StreamFront ==
    ASSUME NEW d \in {"A", "B"}, NEW ps \in Seq(Payloads(d)), ps # <<>>
    PROVE  Stream(d, ps) = Framed(d, ps[1]) \o Stream(d, From(ps, 2))
<1> DEFINE qs == From(ps, 2)
           F == Framed(d, ps[1])
<1>1. /\ Len(ps) \in Nat /\ Len(ps) >= 1 /\ 1 \in 1..Len(ps) /\ 2 \in 1..(Len(ps) + 1)
      /\ ps[1] \in Payloads(d)
  OBVIOUS
<1>2. /\ qs \in Seq(Payloads(d)) /\ Len(qs) = Len(ps) - 2 + 1
      /\ \A j \in 1..(Len(ps) - 2 + 1) : qs[j] = ps[2 + j - 1]
  BY <1>1, Behind
<1>3. F \in Seq(Byte)
  BY <1>1, FrameIsBytes
<1> HIDE DEF qs, F
<1>4. Len(qs) \in Nat /\ Len(ps) = Len(qs) + 1
  BY <1>1, <1>2
<1>5. PICK g : Joins(g, d, qs) /\ Stream(d, qs) = g[Len(qs)]
  BY <1>4, StreamExists
<1>6. \A n \in 0..Len(qs) : g[n] \in Seq(Byte)
  BY <1>2, <1>5, StreamIsBytes
<1> DEFINE h == [n \in 0..Len(ps) |-> IF n = 0 THEN <<>> ELSE F \o g[n - 1]]
<1>7. ASSUME NEW n \in 1..Len(ps)
      PROVE  h[n] = h[n - 1] \o Framed(d, ps[n])
  <2>1. CASE n = 1
    <3>1. h[1] = F \o g[0] /\ h[0] = <<>>
      BY <1>1
    <3>2. g[0] = <<>> /\ F \o <<>> = F /\ <<>> \o F = F
      BY <1>3, <1>5, ConcatEmptySeq DEF Joins
    <3> QED
      BY <2>1, <3>1, <3>2 DEF F
  <2>2. CASE n # 1
    <3>1. n - 1 \in 1..Len(qs) /\ n - 2 \in 0..Len(qs) /\ (n - 1) - 1 = n - 2
      BY <1>4, <2>2
    <3>2. h[n] = F \o g[n - 1] /\ h[n - 1] = F \o g[n - 2]
      <4>1. n \in 0..Len(ps) /\ n - 1 \in 0..Len(ps) /\ n # 0 /\ n - 1 # 0
        BY <1>4, <2>2
      <4>2. \A m \in 0..Len(ps) : m # 0 => h[m] = F \o g[m - 1]
        OBVIOUS
      <4>3. h[n] = F \o g[n - 1] /\ h[n - 1] = F \o g[(n - 1) - 1]
        BY <4>1, <4>2
      <4> QED
        BY <3>1, <4>3
    <3>3. qs[n - 1] = ps[n]
      <4>1. n - 1 \in 1..(Len(ps) - 2 + 1) /\ 2 + (n - 1) - 1 = n
        BY <1>4, <3>1
      <4> QED
        BY <1>2, <4>1
    <3>4. g[n - 1] = g[n - 2] \o Framed(d, ps[n])
      BY <1>5, <3>1, <3>3 DEF Joins
    <3>5. ps[n] \in Payloads(d)
      OBVIOUS
    <3>6. Framed(d, ps[n]) \in Seq(Byte) /\ g[n - 2] \in Seq(Byte)
      BY <1>6, <3>1, <3>5, FrameIsBytes
    <3> DEFINE x == g[n - 2]
               y == Framed(d, ps[n])
    <3>7. x \in Seq(Byte) /\ y \in Seq(Byte) /\ g[n - 1] = x \o y
          /\ h[n] = F \o g[n - 1] /\ h[n - 1] = F \o x
      BY <3>2, <3>4, <3>6
    <3> HIDE DEF x, y
    <3>8. Assoc(F, x, y)
      <4>1. F \in Seq(Byte) /\ x \in Seq(Byte) /\ y \in Seq(Byte)
        BY <1>3, <3>7
      <4> QED
        BY <4>1, Associates
    <3>9. h[n] = h[n - 1] \o y
      BY <3>7, <3>8 DEF Assoc
    <3> QED
      BY <3>9 DEF y
  <2> QED
    BY <2>1, <2>2
<1>8. h[0] = <<>>
  BY <1>1
<1>9. h[Len(ps)] = F \o g[Len(qs)]
  BY <1>4
<1> HIDE DEF h
<1>10. Joins(h, d, ps)
  BY <1>7, <1>8 DEF Joins
<1>11. Stream(d, ps) = h[Len(ps)]
  BY <1>1, <1>10, StreamIs
<1> QED
  BY <1>5, <1>9, <1>11 DEF qs, F

\* The same behind what is carried over.
LEMMA CarriedFront ==
    ASSUME NEW d \in {"A", "B"}, NEW ps \in Seq(Payloads(d)), ps # <<>>, NEW c \in Seq(Byte)
    PROVE  c \o Stream(d, ps) = (c \o Framed(d, ps[1])) \o Stream(d, From(ps, 2))
<1> DEFINE F == Framed(d, ps[1])
           r == Stream(d, From(ps, 2))
<1>1. ps[1] \in Payloads(d) /\ 2 \in 1..(Len(ps) + 1)
  OBVIOUS
<1>2. From(ps, 2) \in Seq(Payloads(d))
  BY <1>1, Behind
<1>3. F \in Seq(Byte) /\ r \in Seq(Byte)
  BY <1>1, <1>2, FrameIsBytes, StreamType
<1>4. Stream(d, ps) = F \o r
  BY StreamFront
<1> HIDE DEF F, r
<1>5. Assoc(c, F, r)
  BY <1>3, Associates
<1> QED
  BY <1>4, <1>5 DEF F, r, Assoc

-----------------------------------------------------------------------------
(* findFrameInReceiveBuffer.                                               *)

Find(d, b) == IF d = "A" THEN FindA(b) ELSE FindB(b)

\* A search may drop bytes in front, and finds a frame within the rest.
WithinBuffer(found, b) ==
    /\ found.buffer \in Seq(Byte)
    /\ Len(found.buffer) <= Len(b)
    /\ found.size \in 0..Len(found.buffer)

LEMMA NothingFound ==
    ASSUME NEW b \in Seq(Byte)
    PROVE  WithinBuffer(NoFrame(b), b) /\ WithinBuffer(NoFrame(<<>>), b)
<1>1. Len(b) \in Nat /\ <<>> \in Seq(Byte) /\ Len(<<>>) = 0
  BY EmptySeq
<1> QED
  BY <1>1 DEF WithinBuffer, NoFrame, Found

LEMMA SomethingFound ==
    ASSUME NEW b \in Seq(Byte), NEW n \in 0..Len(b)
    PROVE  WithinBuffer(Found(b, n), b)
BY DEF WithinBuffer, Found

LEMMA FindTextType ==
    ASSUME NEW b \in Seq(Byte)
    PROVE  WithinBuffer(FindA(b), b)
<1> DEFINE starts == {i \in 1..Len(b) : b[i] = STX}
           c == From(b, Least(starts))
           ends == {i \in 2..Len(c) : c[i] = ETX}
<1>1. CASE starts = {}
  BY <1>1, NothingFound DEF FindA
<1>2. CASE starts # {}
  <2>1. Least(starts) \in 1..(Len(b) + 1)
    <3>1. starts \subseteq Nat /\ starts \subseteq 1..Len(b)
      OBVIOUS
    <3> HIDE DEF starts
    <3>2. Least(starts) \in starts
      BY <1>2, <3>1, LeastIsLeast
    <3>3. Least(starts) \in 1..Len(b)
      BY <3>1, <3>2, Zenon
    <3> QED
      BY <3>3
  <2>2. c \in Seq(Byte) /\ Len(c) = Len(b) - Least(starts) + 1
    BY <2>1, Behind
  <2>3. Len(c) <= Len(b)
    BY <2>1, <2>2
  <2>4. FindA(b) = FrameA(c)
    BY <1>2 DEF FindA
  <2> HIDE DEF c
  <2>5. WithinBuffer(FrameA(c), c)
    <3>1. CASE ends = {}
      BY <2>2, <3>1, NothingFound DEF FrameA
    <3>2. CASE ends # {}
      <4>1. ends \subseteq Nat /\ ends \subseteq 0..Len(c)
        BY <2>2
      <4>2. FrameA(c) = Found(c, Least(ends))
        BY <3>2 DEF FrameA
      <4> HIDE DEF ends
      <4>3. Least(ends) \in ends
        BY <3>2, <4>1, LeastIsLeast
      <4> QED
        BY <2>2, <4>1, <4>2, <4>3, SomethingFound
    <3> QED
      BY <3>1, <3>2
  <2>6. Len(FrameA(c).buffer) \in Nat
    BY <2>5 DEF WithinBuffer
  <2> QED
    BY <2>2, <2>3, <2>4, <2>5, <2>6 DEF WithinBuffer
<1> QED
  BY <1>1, <1>2

LEMMA FrameBytesType ==
    ASSUME NEW c \in Seq(Byte)
    PROVE  WithinBuffer(FrameB(c), c)
<1>1. MagicLength \in Nat /\ Overhead = MagicLength + 2 /\ Len(c) \in Nat
  BY FrameAssumption DEF Overhead
<1> DEFINE length == c[MagicLength + 1]
           size == length + Overhead
<1>2. CASE Len(c) < Overhead
  BY <1>2, NothingFound DEF FrameB
<1>3. CASE ~ (Len(c) < Overhead)
  <2>1. MagicLength + 1 \in 1..Len(c)
    BY <1>1, <1>3
  <2>2. length \in Byte
    BY <2>1
  <2> HIDE DEF length
  <2>3. size \in Nat
    BY <1>1, <2>2 DEF Byte
  <2>4. FrameB(c) = IF length > Capacity - Overhead THEN NoFrame(<<>>)
                    ELSE IF size > Len(c) THEN NoFrame(c)
                    ELSE IF Xor(SubSeq(c, MagicLength + 2, size - 1)) # c[size] THEN NoFrame(<<>>)
                    ELSE Found(c, size)
    BY <1>3 DEF FrameB, length
  <2> HIDE DEF size
  <2>5. CASE FrameB(c) = NoFrame(<<>>) \/ FrameB(c) = NoFrame(c)
    BY <2>5, NothingFound
  <2>6. CASE FrameB(c) = Found(c, size) /\ ~ (size > Len(c))
    <3>1. size \in 0..Len(c)
      BY <1>1, <2>3, <2>6
    <3> QED
      BY <2>6, <3>1, SomethingFound
  <2> QED
    BY <2>4, <2>5, <2>6
<1> QED
  BY <1>2, <1>3

LEMMA FindBytesType ==
    ASSUME NEW b \in Seq(Byte)
    PROVE  WithinBuffer(FindB(b), b)
<1>1. CASE Len(b) < MagicLength
  BY <1>1, NothingFound DEF FindB
<1>2. CASE ~ (Len(b) < MagicLength) /\ Starts(b) = {}
  BY <1>2, NothingFound DEF FindB
<1>3. CASE ~ (Len(b) < MagicLength) /\ Starts(b) # {}
  <2> DEFINE c == From(b, Least(Starts(b)))
  <2>1. Starts(b) \subseteq Nat /\ Starts(b) \subseteq 1..(Len(b) + 1)
    BY FrameAssumption DEF Starts
  <2>2. Least(Starts(b)) \in 1..(Len(b) + 1)
    BY <1>3, <2>1, LeastIsLeast
  <2>3. c \in Seq(Byte) /\ Len(c) = Len(b) - Least(Starts(b)) + 1
    BY <2>2, Behind
  <2>4. Len(c) <= Len(b)
    BY <2>2, <2>3
  <2>5. FindB(b) = FrameB(c)
    BY <1>3 DEF FindB
  <2> HIDE DEF c
  <2>6. WithinBuffer(FrameB(c), c)
    BY <2>3, FrameBytesType
  <2>7. Len(FrameB(c).buffer) \in Nat
    BY <2>6 DEF WithinBuffer
  <2> QED
    BY <2>3, <2>4, <2>5, <2>6, <2>7 DEF WithinBuffer
<1> QED
  BY <1>1, <1>2, <1>3

LEMMA FindType ==
    ASSUME NEW d, NEW b \in Seq(Byte)
    PROVE  WithinBuffer(Find(d, b), b)
BY FindTextType, FindBytesType DEF Find

-----------------------------------------------------------------------------

\* The beginning of a CoLa-A frame, or nothing.
Half(b) == b = <<>> \/ (b[1] = STX /\ \A i \in 1..Len(b) : b[i] # ETX)

LEMMA NothingFromHalf ==
    ASSUME NEW b \in Seq(Byte), Half(b)
    PROVE  FindA(b) = NoFrame(b)
<1> DEFINE starts == {i \in 1..Len(b) : b[i] = STX}
<1>1. CASE b = <<>>
  <2>1. starts = {}
    BY <1>1
  <2> QED
    BY <1>1, <2>1 DEF FindA
<1>2. CASE b # <<>>
  <2>1. 1 \in starts /\ starts \subseteq Nat /\ \A m \in starts : 1 <= m
    BY <1>2 DEF Half
  <2>2. FindA(b) = FrameA(From(b, Least(starts)))
    BY <2>1 DEF FindA
  <2> HIDE DEF starts
  <2>3. Least(starts) = 1
    BY <2>1, LeastIs
  <2>4. From(b, 1) = b
    BY BehindNothing
  <2>5. {i \in 2..Len(b) : b[i] = ETX} = {}
    BY <1>2 DEF Half
  <2> QED
    BY <2>2, <2>3, <2>4, <2>5 DEF FrameA
<1> QED
  BY <1>1, <1>2

LEMMA TextFound ==
    ASSUME NEW b \in Seq(Byte), NEW n \in 2..Len(b), b[1] = STX, b[n] = ETX,
           \A i \in 1..(n - 1) : b[i] # ETX
    PROVE  FindA(b) = Found(b, n)
<1> DEFINE starts == {i \in 1..Len(b) : b[i] = STX}
           ends == {i \in 2..Len(b) : b[i] = ETX}
<1>1. 1 \in starts /\ starts \subseteq Nat /\ \A m \in starts : 1 <= m
  OBVIOUS
<1>2. FindA(b) = FrameA(From(b, Least(starts)))
  BY <1>1 DEF FindA
<1> HIDE DEF starts
<1>3. Least(starts) = 1
  BY <1>1, LeastIs
<1>4. From(b, 1) = b
  BY BehindNothing
<1>5. n \in ends /\ ends \subseteq Nat
  OBVIOUS
<1>6. ASSUME NEW m \in ends
      PROVE  n <= m
  <2>1. m \in 1..Len(b) /\ b[m] = ETX
    OBVIOUS
  <2>2. ~ (m \in 1..(n - 1))
    BY <2>1
  <2> QED
    BY <2>1, <2>2
<1>7. FrameA(b) = Found(b, Least(ends))
  BY <1>5 DEF FrameA
<1> HIDE DEF ends
<1>8. Least(ends) = n
  BY <1>5, <1>6, LeastIs
<1> QED
  BY <1>2, <1>3, <1>4, <1>7, <1>8

\* If b begins with a magic word the search begins at its start.
LEMMA MagicInFront ==
    ASSUME NEW b \in Seq(Byte), Len(b) >= MagicLength, \A i \in 1..MagicLength : b[i] = STX
    PROVE  FindB(b) = FrameB(b)
<1>1. MagicLength \in Nat \ {0} /\ MagicLength \in 0..Len(b) /\ Len(b) \in Nat
  BY FrameAssumption
<1>2. SubSeq(b, 1, MagicLength) = Magic
  <2>1. /\ SubSeq(b, 1, MagicLength) \in Seq(Byte)
        /\ Len(SubSeq(b, 1, MagicLength)) = MagicLength
        /\ \A i \in 1..MagicLength : SubSeq(b, 1, MagicLength)[i] = b[i]
    BY <1>1, Split
  <2>2. Magic \in Seq(Byte) /\ Len(Magic) = MagicLength /\ \A i \in 1..MagicLength : Magic[i] = STX
    <3>1. STX \in Byte
      BY DEF STX, Byte
    <3> QED
      BY <1>1, <3>1 DEF Magic
  <2> DEFINE m == SubSeq(b, 1, MagicLength)
  <2> HIDE DEF m
  <2>3. /\ m \in Seq(Byte) /\ Magic \in Seq(Byte) /\ Len(m) = Len(Magic)
        /\ \A i \in 1..Len(m) : m[i] = Magic[i]
    BY <2>1, <2>2 DEF m
  <2>4. m = Magic
    BY <2>3, SeqEqual
  <2> QED
    BY <2>4 DEF m
<1>3. 1 \in Starts(b) /\ Starts(b) \subseteq Nat /\ \A j \in Starts(b) : 1 <= j
  <2>1. 1 \in 1..(Len(b) - MagicLength + 1) /\ 1 + MagicLength - 1 = MagicLength
    BY <1>1
  <2> QED
    BY <1>2, <2>1 DEF Starts
<1>4. Least(Starts(b)) = 1
  BY <1>3, LeastIs
<1>5. From(b, 1) = b
  BY BehindNothing
<1> QED
  BY <1>1, <1>3, <1>4, <1>5 DEF FindB

\* No CoLa-B frame is longer than the buffer.
FramesFit == \A p \in PayloadsB : Len(p) + Overhead <= Capacity

\* The beginning of a frame is kept.
LEMMA NothingFromPart ==
    ASSUME FramesFit, NEW b \in Seq(Byte), NEW p \in PayloadsB,
           Len(b) < Len(p) + Overhead, \A i \in 1..Len(b) : b[i] = Framed("B", p)[i]
    PROVE  FindB(b) = NoFrame(b)
<1> DEFINE F == Framed("B", p)
<1>1. /\ \A i \in 1..MagicLength : F[i] = STX
      /\ F[MagicLength + 1] = Len(p)
  BY FrameOfBytes
<1>2. /\ MagicLength \in Nat \ {0} /\ Overhead = MagicLength + 2 /\ Len(b) \in Nat /\ Len(p) \in Nat
      /\ Capacity \in Nat /\ Len(p) + Overhead <= Capacity
  BY FrameAssumption DEF Overhead, FramesFit
<1> HIDE DEF F
<1>3. CASE Len(b) < MagicLength
  BY <1>3 DEF FindB
<1>4. CASE Len(b) >= MagicLength
  <2>1. \A i \in 1..MagicLength : b[i] = STX
    <3>1. \A i \in 1..MagicLength : i \in 1..Len(b)
      BY <1>2, <1>4
    <3> QED
      BY <1>1, <3>1 DEF F
  <2>2. FindB(b) = FrameB(b)
    BY <1>4, <2>1, MagicInFront
  <2>3. CASE Len(b) < Overhead
    BY <2>2, <2>3 DEF FrameB
  <2>4. CASE ~ (Len(b) < Overhead)
    <3>1. MagicLength + 1 \in 1..Len(b)
      BY <1>2, <2>4
    <3>2. b[MagicLength + 1] = Len(p)
      BY <1>1, <3>1 DEF F
    <3>3. ~ (Len(p) > Capacity - Overhead) /\ Len(p) + Overhead > Len(b)
      BY <1>2
    <3> QED
      BY <2>2, <2>4, <3>2, <3>3 DEF FrameB
  <2> QED
    BY <2>3, <2>4
<1> QED
  BY <1>2, <1>3, <1>4

\* A whole frame is found.
LEMMA BytesFound ==
    ASSUME FramesFit, NEW b \in Seq(Byte), NEW p \in PayloadsB,
           Len(p) + Overhead <= Len(b),
           \A i \in 1..(Len(p) + Overhead) : b[i] = Framed("B", p)[i]
    PROVE  FindB(b) = Found(b, Len(p) + Overhead)
<1> DEFINE F == Framed("B", p)
           size == Len(p) + Overhead
<1>1. /\ \A i \in 1..MagicLength : F[i] = STX
      /\ F[MagicLength + 1] = Len(p)
      /\ \A i \in 1..Len(p) : F[MagicLength + 1 + i] = p[i]
      /\ F[size] = Xor(p)
  BY FrameOfBytes
<1>2. /\ MagicLength \in Nat \ {0} /\ Overhead = MagicLength + 2 /\ Len(b) \in Nat /\ Len(p) \in Nat
      /\ Capacity \in Nat /\ Len(p) + Overhead <= Capacity /\ p \in Seq(Byte)
  BY FrameAssumption DEF Overhead, FramesFit
<1> HIDE DEF F
<1>3. /\ \A i \in 1..MagicLength : i \in 1..size
      /\ MagicLength + 1 \in 1..size /\ size \in 1..size
      /\ \A i \in 1..Len(p) : MagicLength + 1 + i \in 1..size
  BY <1>2
<1>4. \A i \in 1..MagicLength : b[i] = STX
  BY <1>1, <1>3 DEF F
<1>5. FindB(b) = FrameB(b)
  <2>1. Len(b) >= MagicLength
    BY <1>2
  <2> QED
    BY <1>4, <2>1, MagicInFront
<1>6. b[MagicLength + 1] = Len(p) /\ b[size] = Xor(p)
  BY <1>1, <1>3 DEF F
<1>7. SubSeq(b, MagicLength + 2, size - 1) = p
  <2> DEFINE s == SubSeq(b, MagicLength + 2, size - 1)
  <2>1. /\ \A i \in (MagicLength + 2)..(size - 1) : b[i] \in Byte
        /\ MagicLength + 2 \in Int /\ size - 1 \in Int
    <3>1. \A i \in (MagicLength + 2)..(size - 1) : i \in 1..Len(b)
      BY <1>2
    <3> QED
      BY <1>2, <3>1
  <2>2. /\ s \in Seq(Byte)
        /\ Len(s) = IF MagicLength + 2 <= size - 1 THEN size - 1 - (MagicLength + 2) + 1 ELSE 0
        /\ \A i \in 1..(size - 1 - (MagicLength + 2) + 1) : s[i] = b[MagicLength + 2 + i - 1]
    BY <2>1, SubSeqProperties
  <2> HIDE DEF s
  <2>3. Len(s) = Len(p) /\ size - 1 - (MagicLength + 2) + 1 = Len(p)
    BY <1>2, <2>2
  <2>4. ASSUME NEW i \in 1..Len(p)
        PROVE  s[i] = p[i]
    <3>1. MagicLength + 2 + i - 1 = MagicLength + 1 + i /\ MagicLength + 1 + i \in 1..size
      BY <1>2, <1>3
    <3>2. s[i] = b[MagicLength + 1 + i]
      BY <2>2, <2>3, <3>1
    <3> QED
      BY <1>1, <3>1, <3>2 DEF F
  <2>5. s \in Seq(Byte) /\ p \in Seq(Byte) /\ Len(s) = Len(p) /\ \A i \in 1..Len(s) : s[i] = p[i]
    BY <1>2, <2>2, <2>3, <2>4
  <2>6. s = p
    BY <2>5, SeqEqual
  <2> QED
    BY <2>6 DEF s
<1>8. ~ (Len(b) < Overhead) /\ ~ (Len(p) > Capacity - Overhead) /\ ~ (size > Len(b))
  BY <1>2
<1> QED
  BY <1>5, <1>6, <1>7, <1>8 DEF FrameB

-----------------------------------------------------------------------------
(* The front of the buffer: what is carried over from the last connection, *)
(* c, and the frames to come.                                              *)

\* b is the beginning of a, and a is the beginning of b.
IsPart(b, a) == Len(b) < Len(a) /\ \A i \in 1..Len(b) : b[i] = a[i]
Begins(b, a) == Len(a) <= Len(b) /\ \A i \in 1..Len(a) : b[i] = a[i]

FirstLength(d, ps) == IF ps = <<>> THEN 1 ELSE Len(Framed(d, ps[1]))

Kept(d, b, c, ps) ==
    /\ Find(d, b) = NoFrame(b)
    /\ Len(b) < Len(c) + FirstLength(d, ps)
    /\ d = "A" => Half(b)

Taken(d, b, w, c, ps) ==
    LET a == c \o Framed(d, ps[1])
    IN  /\ ps # <<>>
        /\ a \in Seq(Byte) /\ Len(a) <= Len(b) /\ Len(a) = Len(c) + Len(Framed(d, ps[1]))
        /\ Find(d, b) = Found(b, Len(a)) /\ Len(a) > 0
        /\ SubSeq(b, 1, Len(a)) = a
        /\ From(b, Len(a) + 1) \o w = Stream(d, From(ps, 2))

LEMMA FirstLengthType ==
    ASSUME NEW d \in {"A", "B"}, NEW ps \in Seq(Payloads(d))
    PROVE  FirstLength(d, ps) \in Nat \ {0}
<1>1. ps # <<>> => ps[1] \in Payloads(d)
  OBVIOUS
<1> QED
  BY <1>1, FramesAreNotEmpty DEF FirstLength

\* Nothing is sent and nothing is found.
LEMMA FrontOfNothing ==
    ASSUME NEW d \in {"A", "B"}, NEW b \in Seq(Byte), NEW w \in Seq(Byte), NEW c \in Seq(Byte),
           IF d = "A" THEN Half(c) ELSE c = <<>>,
           b \o w = c, Len(c) <= Len(b)
    PROVE  Kept(d, b, c, <<>>)
<1>1. b = c
  <2>1. Len(b \o w) = Len(b) + Len(w) /\ \A i \in 1..Len(b) : (b \o w)[i] = b[i]
    BY Joined
  <2>2. Len(b) = Len(c)
    <3>1. Len(b) \in Nat /\ Len(w) \in Nat /\ Len(c) \in Nat
      OBVIOUS
    <3> QED
      BY <2>1, <3>1
  <2>3. \A i \in 1..Len(b) : b[i] = c[i]
    BY <2>1
  <2> QED
    BY <2>2, <2>3, SeqEqual
<1>2. Find(d, b) = NoFrame(b)
  <2>1. CASE d = "A"
    BY <1>1, <2>1, NothingFromHalf DEF Find
  <2>2. CASE d = "B"
    <3>1. Len(b) = 0 /\ MagicLength > 0
      BY <1>1, <2>2, FrameAssumption
    <3> QED
      BY <2>2, <3>1 DEF Find, FindB
  <2> QED
    BY <2>1, <2>2
<1>3. Len(c) \in Nat
  OBVIOUS
<1> QED
  BY <1>1, <1>2, <1>3 DEF Kept, FirstLength

\* The position after c \o F is the end of c \o F and no <ETX> is before it.
LEMMA TextBehindHalf ==
    ASSUME NEW c \in Seq(Byte), Half(c), NEW p \in PayloadsA
    PROVE  LET a == c \o Framed("A", p)
           IN  /\ a \in Seq(Byte) /\ Len(a) = Len(c) + Len(p) + 2
               /\ a[1] = STX /\ a[Len(a)] = ETX
               /\ \A i \in 1..(Len(a) - 1) : a[i] # ETX
<1> DEFINE F == Framed("A", p)
           a == c \o F
<1>1. /\ F \in Seq(Byte) /\ Len(F) = Len(p) + 2 /\ F[1] = STX /\ F[Len(p) + 2] = ETX
      /\ \A i \in 1..(Len(p) + 1) : F[i] # ETX
  BY FrameOfText
<1>2. Len(c) \in Nat /\ Len(p) \in Nat
  BY FrameAssumption
<1> HIDE DEF F
<1>3. /\ a \in Seq(Byte) /\ Len(a) = Len(c) + Len(F)
      /\ \A i \in 1..Len(c) : a[i] = c[i]
      /\ \A i \in 1..Len(F) : a[Len(c) + i] = F[i]
  <2>1. F \in Seq(Byte)
    BY <1>1
  <2> QED
    BY <2>1, Joined
<1> HIDE DEF a
<1>4. Len(a) = Len(c) + Len(p) + 2 /\ Len(a) = Len(c) + Len(F) /\ Len(F) \in 1..Len(F)
  BY <1>1, <1>2, <1>3
<1>5. a[Len(a)] = ETX
  BY <1>1, <1>3, <1>4
<1>6. a[1] = STX
  <2>1. CASE c = <<>>
    <3>1. Len(c) = 0 /\ 1 \in 1..Len(F) /\ Len(c) + 1 = 1
      BY <1>1, <1>2, <2>1
    <3> QED
      BY <1>1, <1>3, <3>1
  <2>2. CASE c # <<>>
    <3>1. 1 \in 1..Len(c) /\ c[1] = STX
      BY <2>2 DEF Half
    <3> QED
      BY <1>3, <3>1
  <2> QED
    BY <2>1, <2>2
<1>7. ASSUME NEW i \in 1..(Len(a) - 1)
      PROVE  a[i] # ETX
  <2>1. CASE i \in 1..Len(c)
    BY <1>3, <2>1 DEF Half
  <2>2. CASE ~ (i \in 1..Len(c))
    <3>1. i - Len(c) \in 1..(Len(p) + 1) /\ i - Len(c) \in 1..Len(F) /\ Len(c) + (i - Len(c)) = i
      BY <1>1, <1>2, <1>4, <2>2
    <3>2. a[Len(c) + (i - Len(c))] = F[i - Len(c)] /\ F[i - Len(c)] # ETX
      BY <1>1, <1>3, <3>1
    <3> QED
      BY <3>1, <3>2
  <2> QED
    BY <2>1, <2>2
<1> QED
  BY <1>3, <1>4, <1>5, <1>6, <1>7 DEF a, F

\* The frame is not complete: the search leaves the buffer as it is.
LEMMA PartIsKept ==
    ASSUME FramesFit, NEW d \in {"A", "B"}, NEW b \in Seq(Byte), NEW c \in Seq(Byte),
           IF d = "A" THEN Half(c) ELSE c = <<>>, NEW p \in Payloads(d),
           IsPart(b, c \o Framed(d, p))
    PROVE  Find(d, b) = NoFrame(b) /\ (d = "A" => Half(b))
<1>1. CASE d = "A"
  <2> DEFINE a == c \o Framed("A", p)
  <2>1. p \in PayloadsA
    BY <1>1 DEF Payloads
  <2>2. /\ a \in Seq(Byte) /\ Len(a) = Len(c) + Len(p) + 2
        /\ a[1] = STX /\ \A i \in 1..(Len(a) - 1) : a[i] # ETX
    BY <1>1, <2>1, TextBehindHalf
  <2>3. Len(Framed("A", p)) = Len(p) + 2 /\ Len(b) \in Nat /\ Len(c) \in Nat /\ Len(p) \in Nat
    BY <2>1, FrameOfText, FrameAssumption
  <2>4. Len(b) < Len(a) /\ \A i \in 1..Len(b) : b[i] = a[i]
    BY <1>1 DEF IsPart
  <2> HIDE DEF a
  <2>5. Half(b)
    <3>1. ASSUME b # <<>>
          PROVE  b[1] = STX
      <4>1. 1 \in 1..Len(b)
        BY <3>1
      <4> QED
        BY <2>2, <2>4, <4>1
    <3>2. ASSUME NEW i \in 1..Len(b)
          PROVE  b[i] # ETX
      <4>1. i \in 1..(Len(a) - 1)
        BY <2>2, <2>3, <2>4
      <4> QED
        BY <2>2, <2>4, <4>1
    <3> QED
      BY <3>1, <3>2 DEF Half
  <2> QED
    BY <1>1, <2>5, NothingFromHalf DEF Find
<1>2. CASE d = "B"
  <2>1. p \in PayloadsB /\ c = <<>>
    BY <1>2 DEF Payloads
  <2>2. /\ Framed("B", p) \in Seq(Byte) /\ Len(Framed("B", p)) = Len(p) + Overhead
        /\ Len(p) \in Nat /\ Overhead \in Nat /\ Len(c) = 0
    BY <2>1, FrameOfBytes, FrameAssumption DEF Overhead
  <2>3. c \o Framed(d, p) = Framed("B", p)
    BY <1>2, <2>1, <2>2, ConcatEmptySeq
  <2>4. Len(b) < Len(p) + Overhead
    BY <2>2, <2>3 DEF IsPart
  <2>5. \A i \in 1..Len(b) : b[i] = Framed("B", p)[i]
    BY <2>3 DEF IsPart
  <2>6. FindB(b) = NoFrame(b)
    BY <2>1, <2>4, <2>5, NothingFromPart
  <2> QED
    BY <1>2, <2>6 DEF Find
<1> QED
  BY <1>1, <1>2

\* The frame is complete: the search finds it with what is carried over.
LEMMA WholeIsFound ==
    ASSUME FramesFit, NEW d \in {"A", "B"}, NEW b \in Seq(Byte), NEW c \in Seq(Byte),
           IF d = "A" THEN Half(c) ELSE c = <<>>, NEW p \in Payloads(d),
           Begins(b, c \o Framed(d, p))
    PROVE  Find(d, b) = Found(b, Len(c \o Framed(d, p)))
<1>1. CASE d = "A"
  <2> DEFINE a == c \o Framed("A", p)
  <2>1. p \in PayloadsA
    BY <1>1 DEF Payloads
  <2>2. /\ a \in Seq(Byte) /\ Len(a) = Len(c) + Len(p) + 2
        /\ a[1] = STX /\ a[Len(a)] = ETX /\ \A i \in 1..(Len(a) - 1) : a[i] # ETX
    BY <1>1, <2>1, TextBehindHalf
  <2>3. Len(b) \in Nat /\ Len(c) \in Nat /\ Len(p) \in Nat
    BY <2>1, FrameAssumption
  <2>4. Len(a) <= Len(b) /\ \A i \in 1..Len(a) : b[i] = a[i]
    BY <1>1 DEF Begins
  <2> HIDE DEF a
  <2>5. Len(a) \in 2..Len(b) /\ 1 \in 1..Len(a) /\ Len(a) \in 1..Len(a)
        /\ \A i \in 1..(Len(a) - 1) : i \in 1..Len(a)
    BY <2>2, <2>3, <2>4
  <2>6. b[1] = STX /\ b[Len(a)] = ETX /\ \A i \in 1..(Len(a) - 1) : b[i] # ETX
    BY <2>2, <2>4, <2>5
  <2>7. FindA(b) = Found(b, Len(a))
    BY <2>5, <2>6, TextFound
  <2> QED
    BY <1>1, <2>7 DEF Find, a
<1>2. CASE d = "B"
  <2>1. p \in PayloadsB /\ c = <<>>
    BY <1>2 DEF Payloads
  <2>2. Framed("B", p) \in Seq(Byte) /\ Len(Framed("B", p)) = Len(p) + Overhead
    BY <2>1, FrameOfBytes
  <2>3. c \o Framed(d, p) = Framed("B", p)
    BY <1>2, <2>1, <2>2, ConcatEmptySeq
  <2>5. Len(p) + Overhead <= Len(b) /\ \A i \in 1..(Len(p) + Overhead) : b[i] = Framed("B", p)[i]
    BY <2>2, <2>3 DEF Begins
  <2>6. FindB(b) = Found(b, Len(p) + Overhead)
    BY <2>1, <2>5, BytesFound
  <2> QED
    BY <1>2, <2>2, <2>3, <2>6 DEF Find
<1> QED
  BY <1>1, <1>2

\* The bytes read are the beginning of what there is.
LEMMA PartOrWhole ==
    ASSUME NEW S, NEW b \in Seq(S), NEW w \in Seq(S), NEW a \in Seq(S), NEW r \in Seq(S),
           Same(b, w, a, r)
    PROVE  \/ IsPart(b, a)
           \/ /\ Begins(b, a)
              /\ SubSeq(b, 1, Len(a)) = a
              /\ From(b, Len(a) + 1) \o w = r
<1>1. Len(b) \in Nat /\ Len(a) \in Nat /\ Same(a, r, b, w)
  BY DEF Same
<1>2. ASSUME Len(b) < Len(a)
      PROVE  IsPart(b, a)
  <2>1. Len(b) <= Len(a)
    BY <1>1, <1>2
  <2>2. /\ SubSeq(a, 1, Len(b)) = b
        /\ From(a, Len(b) + 1) \o r = w
        /\ \A i \in 1..Len(b) : a[i] = b[i]
    BY <1>1, <2>1, Prefix
  <2> QED
    BY <1>2, <2>2 DEF IsPart
<1>3. ASSUME Len(a) <= Len(b)
      PROVE  /\ Begins(b, a)
             /\ SubSeq(b, 1, Len(a)) = a
             /\ From(b, Len(a) + 1) \o w = r
  <2>1. /\ SubSeq(b, 1, Len(a)) = a
        /\ From(b, Len(a) + 1) \o w = r
        /\ \A i \in 1..Len(a) : b[i] = a[i]
    BY <1>3, Prefix
  <2> QED
    BY <1>3, <2>1 DEF Begins
<1> QED
  BY <1>1, <1>2, <1>3

\* The search finds the next frame as soon as it is complete.
LEMMA Front ==
    ASSUME FramesFit, NEW d \in {"A", "B"}, NEW b \in Seq(Byte), NEW w \in Seq(Byte),
           NEW c \in Seq(Byte), IF d = "A" THEN Half(c) ELSE c = <<>>,
           NEW ps \in Seq(Payloads(d)), b \o w = c \o Stream(d, ps), Len(c) <= Len(b)
    PROVE  Kept(d, b, c, ps) \/ Taken(d, b, w, c, ps)
<1>1. CASE ps = <<>>
  <2>1. c \o Stream(d, ps) = c
    BY <1>1, StreamOfNothing, ConcatEmptySeq
  <2>2. b \o w = c
    BY <2>1
  <2> QED
    BY <1>1, <2>2, FrontOfNothing
<1>2. CASE ps # <<>>
  <2> DEFINE p == ps[1]
             F == Framed(d, p)
             r == Stream(d, From(ps, 2))
  <2>1. p \in Payloads(d) /\ 2 \in 1..(Len(ps) + 1)
    BY <1>2
  <2>2. F \in Seq(Byte) /\ Len(F) \in Nat \ {0}
    <3>1. F \in Seq(Byte) /\ Len(F) = Len(p) + (IF d = "A" THEN 2 ELSE Overhead) /\ Len(p) \in Nat
      BY <2>1, FrameIsBytes
    <3>2. (IF d = "A" THEN 2 ELSE Overhead) \in Nat \ {0}
      BY FrameAssumption DEF Overhead
    <3> QED
      BY <3>1, <3>2
  <2>3. From(ps, 2) \in Seq(Payloads(d))
    BY <2>1, Behind
  <2>4. r \in Seq(Byte)
    BY <2>3, StreamType
  <2>5. c \o Stream(d, ps) = (c \o F) \o r
    BY <1>2, CarriedFront
  <2> HIDE DEF F, r
  <2>6. c \o F \in Seq(Byte) /\ Len(c \o F) = Len(c) + Len(F) /\ Len(c) \in Nat
    <3>1. F \in Seq(Byte)
      BY <2>2
    <3> QED
      BY <3>1, Joined
  <2>7. \/ IsPart(b, c \o F)
        \/ /\ Begins(b, c \o F)
           /\ SubSeq(b, 1, Len(c \o F)) = c \o F
           /\ From(b, Len(c \o F) + 1) \o w = r
    <3>1. b \in Seq(Byte) /\ w \in Seq(Byte) /\ c \o F \in Seq(Byte) /\ r \in Seq(Byte)
          /\ Same(b, w, c \o F, r)
      BY <2>4, <2>5, <2>6 DEF Same
    <3> DEFINE a == c \o F
    <3>2. a \in Seq(Byte) /\ Same(b, w, a, r)
      BY <3>1
    <3> HIDE DEF a
    <3>3. \/ IsPart(b, a)
          \/ /\ Begins(b, a)
             /\ SubSeq(b, 1, Len(a)) = a
             /\ From(b, Len(a) + 1) \o w = r
      BY <3>1, <3>2, PartOrWhole
    <3> QED
      BY <3>3 DEF a
  <2> HIDE DEF p
  <2>8. ASSUME IsPart(b, c \o F)
        PROVE  Kept(d, b, c, ps)
    <3>1. IsPart(b, c \o Framed(d, p))
      BY <2>8 DEF F
    <3>2. Find(d, b) = NoFrame(b) /\ (d = "A" => Half(b))
      BY <2>1, <3>1, PartIsKept
    <3>3. FirstLength(d, ps) = Len(F)
      BY <1>2 DEF FirstLength, F, p
    <3>4. Len(b) < Len(c) + Len(F)
      BY <2>6, <2>8 DEF IsPart
    <3> QED
      BY <3>2, <3>3, <3>4 DEF Kept
  <2>9. ASSUME Begins(b, c \o F), SubSeq(b, 1, Len(c \o F)) = c \o F,
               From(b, Len(c \o F) + 1) \o w = r
        PROVE  Taken(d, b, w, c, ps)
    <3>1. Begins(b, c \o Framed(d, p))
      BY <2>9 DEF F
    <3>2. Find(d, b) = Found(b, Len(c \o Framed(d, p)))
      BY <2>1, <3>1, WholeIsFound
    <3>3. Find(d, b) = Found(b, Len(c \o F)) /\ F = Framed(d, ps[1])
      BY <3>2 DEF F, p
    <3>4. Len(c \o F) > 0 /\ Len(c \o F) <= Len(b)
      BY <2>2, <2>6, <2>9 DEF Begins
    <3>5. From(b, Len(c \o F) + 1) \o w = Stream(d, From(ps, 2))
      BY <2>9 DEF r
    <3> QED
      BY <1>2, <2>6, <2>9, <3>3, <3>4, <3>5 DEF Taken
  <2> QED
    BY <2>7, <2>8, <2>9
<1> QED
  BY <1>1, <1>2

-----------------------------------------------------------------------------
(* Types. *)

Typed ==
    /\ dialect \in {"A", "B"} /\ dialect \in Dialects /\ reading \in BOOLEAN
    /\ buffer \in Seq(Byte) /\ Len(buffer) <= Capacity
    /\ wire \in Seq(Byte)
    /\ losses \in 0..MaxLosses
    /\ sent \in Seq(Payloads(dialect))
    /\ recvQueue \in Seq(Seq(Byte))
    /\ stale \in Seq(Byte)

LEMMA FrameIsFramed ==
    /\ \A p : Frame(p) = Framed(dialect, p)
    /\ \A ps : Frames(ps) = Stream(dialect, ps)
    /\ findFrameInReceiveBuffer = Find(dialect, buffer)
BY DEF Frame, Framed, Frames, Stream, findFrameInReceiveBuffer, Find

LEMMA InitTyped == Init => Typed
<1> SUFFICES ASSUME Init
             PROVE  Typed
  OBVIOUS
<1>1. dialect \in {"A", "B"} /\ dialect \in Dialects /\ 0 \in 0..MaxLosses /\ 0 <= Capacity
  BY FrameAssumption DEF Init
<1>2. /\ <<>> \in Seq(Byte) /\ Len(<<>>) = 0 /\ <<>> \in Seq(Payloads(dialect))
      /\ <<>> \in Seq(Seq(Byte))
  BY EmptySeq
<1>3. /\ buffer = <<>> /\ wire = <<>> /\ sent = <<>> /\ recvQueue = <<>> /\ stale = <<>>
      /\ reading = FALSE /\ losses = 0
  BY DEF Init
<1>4. Len(buffer) <= Capacity
  BY <1>1, <1>2, <1>3
<1>5. buffer \in Seq(Byte) /\ wire \in Seq(Byte) /\ stale \in Seq(Byte)
  BY <1>2, <1>3
<1>6. sent \in Seq(Payloads(dialect)) /\ recvQueue \in Seq(Seq(Byte))
  BY <1>2, <1>3
<1> QED
  BY <1>1, <1>3, <1>4, <1>5, <1>6 DEF Typed

\* What a chunk does to the wire and the buffer, and how it is limited.
LEMMA ReadCallbackTyped ==
    ASSUME Typed, ReadCallback
    PROVE  /\ Typed' /\ Len(wire) > 0
           /\ Len(buffer) + ChunkMax <= Capacity =>
                  /\ buffer' \o wire' = buffer \o wire
                  /\ Len(buffer') >= Len(buffer) /\ reading'
<1> DEFINE space == Capacity - Len(buffer)
<1>1. PICK n \in 1..ChunkMax :
          /\ n <= Len(wire)
          /\ wire' = From(wire, n + 1)
          /\ buffer' = IF space = 0 THEN <<>>
                       ELSE buffer \o SubSeq(wire, 1, IF n <= space THEN n ELSE space)
          /\ reading' = (space # 0)
  BY DEF ReadCallback
<1>2. /\ buffer \in Seq(Byte) /\ wire \in Seq(Byte) /\ space \in Nat
      /\ Len(wire) \in Nat /\ Len(buffer) \in Nat /\ ChunkMax \in Nat /\ Capacity \in Nat
  BY FrameAssumption DEF Typed
<1>3. UNCHANGED <<dialect, losses, recvQueue, sent, stale>>
  BY DEF ReadCallback
<1>4. wire' \in Seq(Byte)
  <2>1. n + 1 \in 1..(Len(wire) + 1)
    BY <1>1, <1>2
  <2> QED
    BY <1>1, <1>2, <2>1, Behind
<1> DEFINE m == IF n <= space THEN n ELSE space
           chunk == SubSeq(wire, 1, m)
<1>5. m \in 0..Len(wire) /\ m <= space
  BY <1>1, <1>2
<1> HIDE DEF m, space
<1>6. chunk \in Seq(Byte) /\ Len(chunk) = m /\ chunk \o From(wire, m + 1) = wire
  BY <1>2, <1>5, Split
<1> HIDE DEF chunk
<1>7. buffer \o chunk \in Seq(Byte) /\ Len(buffer \o chunk) = Len(buffer) + m
  BY <1>2, <1>6, Joined
<1>8. buffer' = IF space = 0 THEN <<>> ELSE buffer \o chunk
  BY <1>1 DEF m, chunk
<1>9. Typed'
  <2>1. buffer' \in Seq(Byte)
    BY <1>7, <1>8, EmptySeq
  <2>2. Len(buffer') <= Capacity
    <3>1. Len(<<>>) <= Capacity
      BY <1>2
    <3>2. Len(buffer \o chunk) <= Capacity
      BY <1>2, <1>5, <1>7 DEF space
    <3> QED
      BY <1>8, <3>1, <3>2
  <2>3. reading' \in BOOLEAN
    BY <1>1
  <2> QED
    BY <1>3, <1>4, <2>1, <2>2, <2>3 DEF Typed
<1>10. ASSUME Len(buffer) + ChunkMax <= Capacity
       PROVE  buffer' \o wire' = buffer \o wire /\ Len(buffer') >= Len(buffer) /\ reading'
  <2>1. space # 0 /\ m = n
    BY <1>1, <1>2, <1>10 DEF space, m
  <2>2. buffer' = buffer \o chunk /\ wire' = From(wire, m + 1) /\ reading'
    BY <1>1, <1>8, <2>1
  <2> DEFINE r == From(wire, m + 1)
  <2>3. r \in Seq(Byte) /\ chunk \in Seq(Byte) /\ buffer \in Seq(Byte)
    BY <1>2, <1>4, <1>6, <2>2
  <2>4. Assoc(buffer, chunk, r)
    <3> HIDE DEF r
    <3> QED
      BY <2>3, Associates
  <2>5. buffer' \o wire' = buffer \o wire
    BY <1>6, <2>2, <2>4 DEF Assoc
  <2>6. Len(buffer') >= Len(buffer)
    BY <1>2, <1>5, <1>7, <2>2
  <2> QED
    BY <2>2, <2>5, <2>6
<1>11. Len(wire) > 0
  BY <1>1, <1>2
<1> QED
  BY <1>9, <1>10, <1>11

\* A turn of the loop leaves a part of the buffer.
LEMMA TakesFrameTyped ==
    ASSUME Typed, TakesFrame
    PROVE  Typed'
<1> DEFINE found == findFrameInReceiveBuffer
<1>1. WithinBuffer(found, buffer)
  <2>1. buffer \in Seq(Byte)
    BY DEF Typed
  <2> QED
    BY <2>1, FindType, FrameIsFramed
<1>2. /\ buffer' = From(found.buffer, found.size + 1)
      /\ reading' = reading \/ reading' = FALSE
      /\ recvQueue' = recvQueue \/ recvQueue' = Append(recvQueue, SubSeq(found.buffer, 1, found.size))
      /\ UNCHANGED <<dialect, wire, losses, sent, stale>>
  BY DEF TakesFrame
<1> HIDE DEF found
<1>3. /\ found.buffer \in Seq(Byte) /\ found.size \in 0..Len(found.buffer)
      /\ Len(found.buffer) <= Len(buffer) /\ Len(buffer) <= Capacity
      /\ Len(found.buffer) \in Nat /\ Len(buffer) \in Nat /\ Capacity \in Nat
  BY <1>1, FrameAssumption DEF WithinBuffer, Typed
<1>4. SubSeq(found.buffer, 1, found.size) \in Seq(Byte)
  BY <1>3, Split
<1>5. buffer' \in Seq(Byte) /\ Len(buffer') <= Capacity
  <2>1. found.size + 1 \in 1..(Len(found.buffer) + 1)
    BY <1>3
  <2>2. /\ From(found.buffer, found.size + 1) \in Seq(Byte)
        /\ Len(From(found.buffer, found.size + 1)) = Len(found.buffer) - (found.size + 1) + 1
    BY <1>3, <2>1, Behind
  <2> QED
    BY <1>2, <1>3, <2>2
<1>6. recvQueue' \in Seq(Seq(Byte))
  <2> DEFINE e == SubSeq(found.buffer, 1, found.size)
             S == Seq(Byte)
  <2>1. recvQueue \in Seq(S) /\ e \in S
        /\ (recvQueue' = recvQueue \/ recvQueue' = Append(recvQueue, e))
    BY <1>2, <1>4 DEF Typed
  <2> HIDE DEF e, S
  <2>2. recvQueue' \in Seq(S)
    BY <2>1, AppendProperties
  <2> QED
    BY <2>2 DEF S
<1>7. reading' \in BOOLEAN
  BY <1>2 DEF Typed
<1> QED
  BY <1>2, <1>5, <1>6, <1>7 DEF Typed

\* The lidar appends a whole frame to the wire.
LEMMA LidarSendsTyped ==
    ASSUME Typed, LidarSends
    PROVE  /\ Typed'
           /\ \E p \in Payloads(dialect) :
                  /\ sent' = Append(sent, p) /\ wire' = wire \o Framed(dialect, p)
                  /\ Framed(dialect, p) \in Seq(Byte)
<1>1. PICK p \in Payloads(dialect) : sent' = Append(sent, p) /\ wire' = wire \o Frame(p)
  BY DEF LidarSends, Payloads
<1>2. Framed(dialect, p) \in Seq(Byte)
  BY FrameIsBytes DEF Typed
<1>3. wire' = wire \o Framed(dialect, p)
  BY <1>1, FrameIsFramed
<1>4. UNCHANGED <<dialect, buffer, reading, losses, recvQueue, stale>>
  BY DEF LidarSends
<1>5. wire' \in Seq(Byte)
  <2>1. wire \in Seq(Byte)
    BY DEF Typed
  <2> QED
    BY <1>2, <1>3, <2>1
<1>6. sent' \in Seq(Payloads(dialect))
  <2>1. sent \in Seq(Payloads(dialect))
    BY DEF Typed
  <2> QED
    BY <1>1, <2>1
<1>7. Typed'
  BY <1>4, <1>5, <1>6 DEF Typed
<1> QED
  BY <1>1, <1>2, <1>3, <1>7

LEMMA ReconnectTyped ==
    ASSUME Typed, Reconnect
    PROVE  Typed'
<1>1. losses' \in 0..MaxLosses
  BY FrameAssumption DEF Typed, Reconnect
<1>2. <<>> \in Seq(Byte) /\ <<>> \in Seq(Payloads(dialect)) /\ <<>> \in Seq(Seq(Byte))
  BY EmptySeq
<1> QED
  BY <1>1, <1>2 DEF Typed, Reconnect

LEMMA NextTyped == Typed /\ [Next]_vars => Typed'
<1> SUFFICES ASSUME Typed, [Next]_vars
             PROVE  Typed'
  OBVIOUS
<1>1. CASE UNCHANGED vars
  BY <1>1 DEF vars, Typed
<1> QED
  BY <1>1, LidarSendsTyped, ReadCallbackTyped, TakesFrameTyped, ReconnectTyped DEF Next

\* The parts of the stream keep their types.
LEMMA AlwaysTyped == Spec => []Typed
BY InitTyped, NextTyped, PTL DEF Spec

\* m_receiveBuffer never holds more than it has room for, whatever the lidar
\* sends and however it is cut into chunks.
THEOREM TypeCorrect == Spec => []TypeOK
<1>1. Typed => TypeOK
  BY DEF Typed, TypeOK
<1> QED
  BY <1>1, AlwaysTyped, PTL

-----------------------------------------------------------------------------
(* What is delivered, and what is still to come.                           *)

\* The code has 480000 bytes for m_receiveBuffer and reads at most 8192 at
\* once: a chunk fits behind the longest part of a frame, and behind the parts
\* that MaxLosses connections in a row leave in CoLa-A.
BufferSuffices ==
    /\ \A p \in PayloadsA : (MaxLosses + 1) * (Len(p) + 1) + ChunkMax <= Capacity
    /\ \A p \in PayloadsB : Len(p) + Overhead - 1 + ChunkMax <= Capacity

\* In CoLa-B nothing is known after a connection was lost within a frame.
Clean == dialect = "A" \/ stale = <<>>

\* What the first frame of the connection is damaged by.
Before(i) == IF i = 1 THEN stale ELSE <<>>

Carry == Before(Len(recvQueue) + 1)
Rest == From(sent, Len(recvQueue) + 1)

Delivered ==
    /\ Len(recvQueue) <= Len(sent)
    /\ \A i \in 1..Len(recvQueue) : recvQueue[i] = Before(i) \o Framed(dialect, sent[i])

\* Nothing is lost of what is not delivered.
ToCome ==
    /\ buffer \o wire = Carry \o Stream(dialect, Rest)
    /\ Len(Carry) <= Len(buffer)

\* The loop of the read callback does not end with a whole frame.
Exhausted == ~reading => Len(buffer) < Len(Carry) + FirstLength(dialect, Rest)

\* The lost connections left parts of frames.
PartsLeft ==
    dialect = "A" =>
        /\ Half(stale)
        /\ stale # <<>> => \E p \in PayloadsA : Len(stale) <= losses * (Len(p) + 1)

IInv == Typed /\ PartsLeft /\ (Clean => Delivered /\ ToCome /\ Exhausted)

LEMMA SufficientFits == BufferSuffices => FramesFit
<1> SUFFICES ASSUME BufferSuffices, NEW p \in PayloadsB
             PROVE  Len(p) + Overhead <= Capacity
  BY DEF FramesFit
<1>1. Len(p) \in Nat /\ Overhead \in Nat /\ ChunkMax \in Nat \ {0} /\ Capacity \in Nat
  BY FrameAssumption DEF Overhead
<1> QED
  BY <1>1 DEF BufferSuffices

\* The types of the parts.
LEMMA Parts ==
    ASSUME Typed
    PROVE  /\ Carry \in Seq(Byte) /\ Len(Carry) \in Nat
           /\ Len(recvQueue) \in Nat /\ Len(sent) \in Nat /\ Len(buffer) \in Nat /\ Len(wire) \in Nat
           /\ Len(recvQueue) <= Len(sent) =>
                  /\ Rest \in Seq(Payloads(dialect))
                  /\ Len(Rest) = Len(sent) - Len(recvQueue)
                  /\ Rest # <<>> => Rest[1] \in Payloads(dialect)
           /\ \A i : Before(i) \in Seq(Byte)
<1>1. /\ Len(recvQueue) \in Nat /\ Len(sent) \in Nat /\ Len(buffer) \in Nat /\ Len(wire) \in Nat
      /\ sent \in Seq(Payloads(dialect))
  BY DEF Typed
<1>2. \A i : Before(i) \in Seq(Byte)
  BY EmptySeq DEF Typed, Before
<1>3. Carry \in Seq(Byte)
  BY <1>2 DEF Carry
<1>4. ASSUME Len(recvQueue) <= Len(sent)
      PROVE  /\ Rest \in Seq(Payloads(dialect))
             /\ Len(Rest) = Len(sent) - Len(recvQueue)
             /\ Rest # <<>> => Rest[1] \in Payloads(dialect)
  <2> DEFINE i == Len(recvQueue) + 1
             S == Payloads(dialect)
  <2>1. i \in 1..(Len(sent) + 1) /\ sent \in Seq(S)
    BY <1>1, <1>4
  <2> HIDE DEF S, i
  <2>2. From(sent, i) \in Seq(S) /\ Len(From(sent, i)) = Len(sent) - i + 1
    BY <2>1, Behind
  <2>3. Rest \in Seq(S) /\ Len(Rest) = Len(sent) - i + 1
    BY <2>2 DEF Rest, i
  <2>4. Rest # <<>> => Rest[1] \in S
    BY <2>3
  <2>5. Len(sent) - i + 1 = Len(sent) - Len(recvQueue)
    BY <1>1 DEF i
  <2> QED
    BY <2>3, <2>4, <2>5 DEF S
<1> QED
  BY <1>1, <1>2, <1>3, <1>4

LEMMA InitIInv == Init => IInv
<1> SUFFICES ASSUME Init
             PROVE  IInv
  OBVIOUS
<1>1. /\ buffer = <<>> /\ wire = <<>> /\ sent = <<>> /\ recvQueue = <<>> /\ stale = <<>>
  BY DEF Init
<1>2. Typed
  BY InitTyped
<1>3. Len(sent) = 0 /\ Len(recvQueue) = 0 /\ Len(buffer) = 0
  BY <1>1
<1>4. Carry = <<>> /\ Rest = <<>>
  <2>1. From(<<>>, 1) = <<>>
    BY EmptySeq, BehindNothing
  <2> QED
    BY <1>1, <1>3, <2>1 DEF Carry, Before, Rest
<1>5. ToCome
  <2>1. <<>> \o <<>> = <<>>
    BY EmptySeq, ConcatEmptySeq
  <2> QED
    BY <1>1, <1>3, <1>4, <2>1, StreamOfNothing DEF ToCome
<1>6. Exhausted
  BY <1>1, <1>3, <1>4 DEF Exhausted, FirstLength
<1>7. Delivered
  BY <1>3 DEF Delivered
<1>8. PartsLeft
  BY <1>1 DEF PartsLeft, Half
<1> QED
  BY <1>2, <1>5, <1>6, <1>7, <1>8 DEF IInv

\* More frames to come do not complete the one in front.
LEMMA LidarSendsIInv ==
    ASSUME IInv, LidarSends
    PROVE  IInv'
<1>1. Typed /\ Typed'
  BY LidarSendsTyped DEF IInv
<1>2. PICK p \in Payloads(dialect) :
          /\ sent' = Append(sent, p) /\ wire' = wire \o Framed(dialect, p)
          /\ Framed(dialect, p) \in Seq(Byte)
  BY <1>1, LidarSendsTyped
<1>3. UNCHANGED <<dialect, buffer, reading, losses, recvQueue, stale>>
  BY DEF LidarSends
<1>4. PartsLeft'
  BY <1>3 DEF IInv, PartsLeft, Half
<1>5. ASSUME Clean
      PROVE  Delivered' /\ ToCome' /\ Exhausted'
  <2> DEFINE n == Len(recvQueue)
             F == Framed(dialect, p)
             d == dialect
             c == Carry
             ps == Rest
  <2>1. /\ Delivered /\ ToCome /\ Exhausted
        /\ c \in Seq(Byte) /\ Len(c) \in Nat /\ n \in Nat /\ Len(sent) \in Nat /\ n <= Len(sent)
        /\ ps \in Seq(Payloads(d)) /\ d \in {"A", "B"}
        /\ buffer \in Seq(Byte) /\ wire \in Seq(Byte) /\ Len(buffer) \in Nat
        /\ sent \in Seq(Payloads(d))
    BY <1>1, <1>5, Parts DEF IInv, Delivered, Typed
  <2>2. /\ Len(sent') = Len(sent) + 1 /\ \A i \in 1..Len(sent) : sent'[i] = sent[i]
    BY <1>2, <2>1
  <2>3. c' = c
    BY <1>3 DEF Carry, Before
  <2>4. Rest' = Append(ps, p)
    <3>1. Rest' = From(sent', n + 1)
      BY <1>3 DEF Rest
    <3>2. From(Append(sent, p), n + 1) = Append(From(sent, n + 1), p)
      BY <2>1, BehindAppend
    <3> QED
      BY <1>2, <3>1, <3>2 DEF Rest
  <2>5. Delivered'
    <3>1. \A i \in 1..n : i \in 1..Len(sent)
      BY <2>1
    <3>2. ASSUME NEW i \in 1..n
          PROVE  recvQueue[i] = Before(i) \o Framed(dialect, sent'[i])
      BY <2>1, <2>2, <3>1, <3>2 DEF Delivered
    <3>3. n <= Len(sent')
      BY <2>1, <2>2
    <3> QED
      BY <1>3, <3>2, <3>3 DEF Delivered, Before
  <2> HIDE DEF F, c, ps, d
  <2>6. Stream(d, Append(ps, p)) = Stream(d, ps) \o F
    BY <1>2, <2>1, StreamAppend DEF F, d
  <2>7. Stream(d, ps) \in Seq(Byte) /\ F \in Seq(Byte)
    BY <1>2, <2>1, StreamType DEF F, d
  <2>8. buffer \o (wire \o F) = c \o (Stream(d, ps) \o F)
    <3> DEFINE s == Stream(d, ps)
    <3>1. s \in Seq(Byte) /\ buffer \o wire = c \o s
      BY <2>1, <2>7 DEF ToCome, c, d, ps
    <3> HIDE DEF s
    <3>2. Assoc(buffer, wire, F)
      <4>1. buffer \in Seq(Byte) /\ wire \in Seq(Byte) /\ F \in Seq(Byte)
        BY <2>1, <2>7
      <4> QED
        BY <4>1, Associates
    <3>3. Assoc(c, s, F)
      <4>1. c \in Seq(Byte) /\ s \in Seq(Byte) /\ F \in Seq(Byte)
        BY <2>1, <2>7, <3>1
      <4> QED
        BY <4>1, Associates
    <3> QED
      BY <3>1, <3>2, <3>3 DEF s, Assoc
  <2>9. ToCome'
    <3>1. buffer' \o wire' = c' \o Stream(d, Rest')
      BY <1>2, <1>3, <2>3, <2>4, <2>6, <2>8 DEF F, d
    <3>2. Len(c') <= Len(buffer')
      BY <1>3, <2>1, <2>3 DEF ToCome, c
    <3> QED
      BY <1>3, <3>1, <3>2 DEF ToCome, c, d
  <2>10. Exhausted'
    <3>1. FirstLength(d, ps) <= FirstLength(d, Append(ps, p))
      <4>1. CASE ps = <<>>
        <5>1. Append(ps, p) # <<>> /\ Append(ps, p)[1] = p
          BY <2>1, <4>1
        <5>2. Len(F) \in Nat \ {0}
          BY <1>2, <2>1, FramesAreNotEmpty DEF F, d
        <5> QED
          BY <4>1, <5>1, <5>2 DEF FirstLength, F, d
      <4>2. CASE ps # <<>>
        <5>0. 1 \in 1..Len(ps) /\ ps[1] \in Payloads(d)
          BY <2>1, <4>2
        <5>1. Append(ps, p) # <<>> /\ Append(ps, p)[1] = ps[1] /\ ps[1] \in Payloads(d)
          <6>1. ps \in Seq(Payloads(d)) /\ p \in Payloads(d)
            BY <2>1 DEF d
          <6> QED
            BY <5>0, <6>1, AppendProperties
        <5>2. Len(Framed(d, ps[1])) \in Nat
          BY <2>1, <5>1, FramesAreNotEmpty
        <5> QED
          BY <4>2, <5>1, <5>2 DEF FirstLength
      <4> QED
        BY <4>1, <4>2
    <3>2. FirstLength(d, ps) \in Nat /\ FirstLength(d, Append(ps, p)) \in Nat
      <4>1. ps \in Seq(Payloads(d)) /\ Append(ps, p) \in Seq(Payloads(d)) /\ d \in {"A", "B"}
        BY <2>1 DEF d
      <4> QED
        BY <4>1, FirstLengthType
    <3>3. ~reading => Len(buffer) < Len(c) + FirstLength(d, ps)
      BY <2>1 DEF Exhausted, c, d, ps
    <3>4. ~reading => Len(buffer) < Len(c) + FirstLength(d, Append(ps, p))
      BY <2>1, <3>1, <3>2, <3>3
    <3> QED
      BY <1>3, <2>3, <2>4, <3>4 DEF Exhausted, c, d
  <2> QED
    BY <2>5, <2>9, <2>10
<1>6. Clean' => Clean
  BY <1>3 DEF Clean
<1> QED
  BY <1>1, <1>4, <1>5, <1>6 DEF IInv

LEMMA Products ==
    ASSUME NEW k \in Nat, NEW l \in Nat, NEW a \in Nat, NEW b \in Nat, k <= l, a <= b
    PROVE  /\ k * a \in Nat /\ k * b \in Nat /\ l * b \in Nat
           /\ k * a <= k * b /\ k * b <= l * b /\ (k + 1) * b = k * b + b
OBVIOUS

\* Before a chunk is read the buffer holds parts of frames only.
LEMMA BufferShort ==
    ASSUME IInv, Clean, ~reading, dialect = "A", buffer # <<>>
    PROVE  \E m \in PayloadsA : Len(buffer) <= (losses + 1) * (Len(m) + 1)
<1>1. /\ Len(buffer) < Len(Carry) + FirstLength("A", Rest)
      /\ Len(buffer) \in Nat /\ Len(Carry) \in Nat /\ losses \in Nat
      /\ Rest # <<>> => Rest[1] \in PayloadsA
      /\ Carry = <<>> \/ Carry = stale
      /\ Len(buffer) > 0
  <2>1. Typed /\ Len(recvQueue) <= Len(sent)
    BY DEF IInv, Delivered
  <2>2. /\ Carry \in Seq(Byte) /\ Len(Carry) \in Nat /\ Len(buffer) \in Nat
        /\ Rest # <<>> => Rest[1] \in PayloadsA
    BY <2>1, Parts DEF Payloads
  <2>3. losses \in Nat /\ buffer \in Seq(Byte)
    BY <2>1 DEF Typed
  <2>4. Len(buffer) > 0
    BY <2>3
  <2>5. Len(buffer) < Len(Carry) + FirstLength("A", Rest)
    BY DEF IInv, Exhausted
  <2>6. Carry = <<>> \/ Carry = stale
    BY DEF Carry, Before
  <2> QED
    BY <2>2, <2>3, <2>4, <2>5, <2>6
<1>2. \A p \in PayloadsA : Len(p) \in Nat /\ Len(Framed("A", p)) = Len(p) + 2
  BY FrameOfText, FrameAssumption
<1>3. ASSUME Carry # <<>>
      PROVE  \E q \in PayloadsA : Len(Carry) <= losses * (Len(q) + 1)
  BY <1>1, <1>3 DEF IInv, PartsLeft
<1>4. Carry = <<>> => Len(Carry) = 0
  OBVIOUS
<1>5. CASE Rest = <<>>
  <2>1. Len(buffer) <= Len(Carry)
    BY <1>1, <1>5 DEF FirstLength
  <2>2. Carry # <<>>
    BY <1>1, <1>4, <2>1
  <2>3. PICK q \in PayloadsA : Len(Carry) <= losses * (Len(q) + 1)
    BY <1>3, <2>2
  <2> DEFINE x == Len(q) + 1
  <2>4. x \in Nat /\ Len(Carry) <= losses * x
    BY <1>2, <2>3
  <2> HIDE DEF x
  <2>5. losses * x \in Nat /\ (losses + 1) * x = losses * x + x
    BY <1>1, <2>4, Products
  <2>6. Len(buffer) <= (losses + 1) * x
    BY <1>1, <2>1, <2>4, <2>5
  <2> QED
    BY <2>6 DEF x
<1>6. CASE Rest # <<>>
  <2> DEFINE p == Rest[1]
             y == Len(p) + 1
  <2>1. p \in PayloadsA /\ y \in Nat /\ FirstLength("A", Rest) = y + 1
    BY <1>1, <1>2, <1>6 DEF FirstLength
  <2> HIDE DEF p, y
  <2>2. Len(buffer) <= Len(Carry) + y
    BY <1>1, <2>1
  <2>3. CASE Carry = <<>>
    <3>1. losses * y \in Nat /\ (losses + 1) * y = losses * y + y
      BY <1>1, <2>1, Products
    <3>2. Len(buffer) <= (losses + 1) * y
      BY <1>1, <1>4, <2>1, <2>2, <2>3, <3>1
    <3> QED
      BY <2>1, <3>2 DEF y
  <2>4. CASE Carry # <<>>
    <3>1. PICK q \in PayloadsA : Len(Carry) <= losses * (Len(q) + 1)
      BY <1>3, <2>4
    <3> DEFINE x == Len(q) + 1
    <3>2. x \in Nat /\ Len(Carry) <= losses * x
      BY <1>2, <3>1
    <3> HIDE DEF x
    <3>3. CASE x <= y
      <4>1. losses * x \in Nat /\ losses * y \in Nat /\ losses * x <= losses * y
            /\ (losses + 1) * y = losses * y + y
        BY <1>1, <2>1, <3>2, <3>3, Products
      <4>2. Len(buffer) <= (losses + 1) * y
        BY <1>1, <2>1, <2>2, <3>2, <4>1
      <4> QED
        BY <2>1, <4>2 DEF y
    <3>4. CASE y <= x
      <4>1. losses * x \in Nat /\ (losses + 1) * x = losses * x + x
        BY <1>1, <2>1, <3>2, <3>4, Products
      <4>2. Len(buffer) <= (losses + 1) * x
        BY <1>1, <2>1, <2>2, <3>2, <3>4, <4>1
      <4> QED
        BY <4>2 DEF x
    <3> QED
      BY <2>1, <3>2, <3>3, <3>4
  <2> QED
    BY <2>3, <2>4
<1> QED
  BY <1>5, <1>6

\* There is room for a chunk.
LEMMA ChunkFits ==
    ASSUME BufferSuffices, IInv, Clean, ~reading, Rest # <<>>
    PROVE  Len(buffer) + ChunkMax <= Capacity
<1>1. Typed /\ Len(recvQueue) <= Len(sent)
  BY DEF IInv, Delivered
<1>2. /\ Len(buffer) \in Nat /\ Len(Carry) \in Nat /\ Rest[1] \in Payloads(dialect)
  BY <1>1, Parts
<1>3. /\ ChunkMax \in Nat /\ Capacity \in Nat /\ MaxLosses \in Nat /\ losses \in Nat
      /\ losses <= MaxLosses /\ \A p \in PayloadsA : Len(p) \in Nat
  BY <1>1, FrameAssumption DEF Typed
<1>4. CASE dialect = "A"
  <2>1. PICK m \in PayloadsA : Len(buffer) <= (MaxLosses + 1) * (Len(m) + 1)
    <3>1. CASE buffer = <<>>
      <4>1. Rest[1] \in PayloadsA /\ Len(buffer) = 0
        BY <1>2, <1>4, <3>1 DEF Payloads
      <4> DEFINE x == Len(Rest[1]) + 1
      <4>2. x \in Nat /\ MaxLosses + 1 \in Nat
        BY <1>3, <4>1
      <4> HIDE DEF x
      <4>3. Len(buffer) <= (MaxLosses + 1) * x
        BY <4>1, <4>2, Products
      <4> QED
        BY <4>1, <4>3 DEF x
    <3>2. CASE buffer # <<>>
      <4>1. PICK m \in PayloadsA : Len(buffer) <= (losses + 1) * (Len(m) + 1)
        BY <1>4, <3>2, BufferShort
      <4> DEFINE x == Len(m) + 1
      <4>2. x \in Nat /\ losses + 1 \in Nat /\ MaxLosses + 1 \in Nat /\ losses + 1 <= MaxLosses + 1
            /\ Len(buffer) <= (losses + 1) * x
        BY <1>3, <4>1
      <4> HIDE DEF x
      <4>3. (losses + 1) * x \in Nat /\ (MaxLosses + 1) * x \in Nat
            /\ (losses + 1) * x <= (MaxLosses + 1) * x
        BY <4>2, Products
      <4>4. Len(buffer) <= (MaxLosses + 1) * x
        BY <1>2, <4>2, <4>3
      <4> QED
        BY <4>4 DEF x
    <3> QED
      BY <3>1, <3>2
  <2> DEFINE z == (MaxLosses + 1) * (Len(m) + 1)
  <2>2. z \in Nat /\ z + ChunkMax <= Capacity /\ Len(buffer) <= z
    <3>1. Len(m) + 1 \in Nat /\ MaxLosses + 1 \in Nat
      BY <1>3
    <3> QED
      BY <2>1, <3>1, Products DEF BufferSuffices
  <2> HIDE DEF z
  <2> QED
    BY <1>2, <1>3, <2>2
<1>5. CASE dialect = "B"
  <2>1. Rest[1] \in PayloadsB /\ stale = <<>>
    BY <1>2, <1>5 DEF Payloads, Clean
  <2>2. Len(Carry) = 0
    BY <2>1 DEF Carry, Before
  <2>3. FirstLength(dialect, Rest) = Len(Rest[1]) + Overhead /\ Len(Rest[1]) \in Nat /\ Overhead \in Nat
    <3>1. Len(Framed("B", Rest[1])) = Len(Rest[1]) + Overhead
      BY <2>1, FrameOfBytes
    <3>2. Rest[1] \in Seq(Byte) /\ Overhead \in Nat
      BY <2>1, FrameAssumption DEF Overhead
    <3>3. Len(Rest[1]) \in Nat
      BY <3>2
    <3> QED
      BY <1>5, <3>1, <3>2, <3>3 DEF FirstLength
  <2>4. Len(buffer) < Len(Carry) + FirstLength(dialect, Rest)
    BY DEF IInv, Exhausted
  <2>5. Len(Rest[1]) + Overhead - 1 + ChunkMax <= Capacity
    BY <2>1 DEF BufferSuffices
  <2> QED
    BY <1>2, <1>3, <2>2, <2>3, <2>4, <2>5
<1> QED
  BY <1>1, <1>4, <1>5 DEF Typed

\* A chunk moves from the wire to the buffer.
LEMMA ReadCallbackIInv ==
    ASSUME BufferSuffices, IInv, ReadCallback
    PROVE  IInv'
<1>1. Typed /\ ~reading /\ UNCHANGED <<dialect, losses, recvQueue, sent, stale>>
  BY DEF IInv, ReadCallback
<1>2. /\ Typed' /\ Len(wire) > 0
      /\ Len(buffer) + ChunkMax <= Capacity =>
             /\ buffer' \o wire' = buffer \o wire
             /\ Len(buffer') >= Len(buffer) /\ reading'
  BY <1>1, ReadCallbackTyped
<1>3. PartsLeft'
  BY <1>1 DEF IInv, PartsLeft, Half
<1>4. Clean' => Clean
  BY <1>1 DEF Clean
<1>5. ASSUME Clean
      PROVE  Delivered' /\ ToCome' /\ Exhausted'
  <2>1. Delivered /\ ToCome
    BY <1>5 DEF IInv
  <2>2. /\ Carry \in Seq(Byte) /\ Len(Carry) \in Nat /\ Len(buffer) \in Nat /\ Len(wire) \in Nat
        /\ buffer \in Seq(Byte) /\ wire \in Seq(Byte)
    BY <1>1, Parts DEF Typed
  <2>3. Rest # <<>>
    <3> SUFFICES ASSUME Rest = <<>> PROVE FALSE
      OBVIOUS
    <3>1. Carry \o Stream(dialect, Rest) = Carry
      <4>1. Carry \o <<>> = Carry
        BY <2>2, ConcatEmptySeq
      <4> QED
        BY <4>1, StreamOfNothing
    <3>2. buffer \o wire = Carry /\ Len(Carry) <= Len(buffer)
      BY <2>1, <3>1 DEF ToCome
    <3>3. Len(buffer \o wire) = Len(buffer) + Len(wire)
      BY <2>2, Joined
    <3> QED
      BY <1>2, <2>2, <3>2, <3>3
  <2>4. Len(buffer) + ChunkMax <= Capacity
    BY <1>1, <1>5, <2>3, ChunkFits
  <2>5. buffer' \o wire' = buffer \o wire /\ Len(buffer') >= Len(buffer) /\ reading'
    BY <1>2, <2>4
  <2>6. Len(buffer') \in Nat
    BY <1>2 DEF Typed
  <2>7. Carry' = Carry /\ Rest' = Rest
    BY <1>1 DEF Carry, Rest, Before
  <2>8. ToCome'
    BY <1>1, <2>1, <2>2, <2>5, <2>6, <2>7 DEF ToCome
  <2>9. Delivered'
    BY <1>1, <2>1 DEF Delivered, Before
  <2>10. Exhausted'
    BY <2>5 DEF Exhausted
  <2> QED
    BY <2>8, <2>9, <2>10
<1> QED
  BY <1>2, <1>3, <1>4, <1>5 DEF IInv

\* When the loop has ended the buffer holds the beginning of a CoLa-A frame.
LEMMA BufferIsHalf ==
    ASSUME BufferSuffices, IInv, Clean, ~reading, dialect = "A"
    PROVE  Half(buffer)
<1> DEFINE c == Carry
           ps == Rest
<1>1. Typed /\ Delivered /\ ToCome /\ Exhausted
  BY DEF IInv
<1>2. /\ buffer \in Seq(Byte) /\ wire \in Seq(Byte) /\ c \in Seq(Byte)
      /\ ps \in Seq(Payloads("A")) /\ Len(buffer) \in Nat
      /\ ps # <<>> => ps[1] \in Payloads("A")
  BY <1>1, Parts DEF Typed, Delivered
<1>3. Half(c)
  BY DEF IInv, PartsLeft, Carry, Before, Half
<1>4. buffer \o wire = c \o Stream("A", ps) /\ Len(c) <= Len(buffer)
  BY <1>1 DEF ToCome
<1>5. Len(buffer) < Len(c) + FirstLength("A", ps)
  BY <1>1 DEF Exhausted
<1> HIDE DEF c, ps
<1>6. Kept("A", buffer, c, ps) \/ Taken("A", buffer, wire, c, ps)
  BY <1>2, <1>3, <1>4, Front, SufficientFits
<1>7. ~ Taken("A", buffer, wire, c, ps)
  <2> SUFFICES ASSUME Taken("A", buffer, wire, c, ps) PROVE FALSE
    OBVIOUS
  <2> DEFINE n == Len(c) + Len(Framed("A", ps[1]))
  <2>1. ps # <<>> /\ n <= Len(buffer)
    BY DEF Taken
  <2>2. Len(buffer) < n
    BY <1>5, <2>1 DEF FirstLength
  <2>3. n \in Nat
    <3>1. Len(Framed("A", ps[1])) \in Nat
      BY <1>2, <2>1, FramesAreNotEmpty
    <3>2. Len(c) \in Nat
      BY <1>2
    <3> QED
      BY <3>1, <3>2
  <2> HIDE DEF n
  <2> QED
    BY <1>2, <2>1, <2>2, <2>3
<1> QED
  BY <1>6, <1>7 DEF Kept

\* The frame in front goes to recvQueue, or the loop ends.
LEMMA TakesFrameIInv ==
    ASSUME BufferSuffices, IInv, TakesFrame
    PROVE  IInv'
<1>1. Typed /\ reading /\ UNCHANGED <<dialect, wire, losses, sent, stale>>
  BY DEF IInv, TakesFrame
<1>2. Typed'
  BY <1>1, TakesFrameTyped
<1>3. PartsLeft'
  BY <1>1 DEF IInv, PartsLeft, Half
<1>4. Clean' => Clean
  BY <1>1 DEF Clean
<1> DEFINE d == dialect
           c == Carry
           ps == Rest
           n == Len(recvQueue)
           found == Find(dialect, buffer)
<1>5. /\ buffer' = From(found.buffer, found.size + 1)
      /\ found.size = 0 => ~reading' /\ recvQueue' = recvQueue
      /\ found.size # 0 => recvQueue' = Append(recvQueue, SubSeq(found.buffer, 1, found.size))
                           /\ reading'
  BY <1>1, FrameIsFramed DEF TakesFrame
<1>6. ASSUME Clean
      PROVE  Delivered' /\ ToCome' /\ Exhausted'
  <2>1. Delivered /\ ToCome
    BY <1>6 DEF IInv
  <2>2. /\ d \in {"A", "B"} /\ buffer \in Seq(Byte) /\ wire \in Seq(Byte) /\ c \in Seq(Byte)
        /\ ps \in Seq(Payloads(d)) /\ n \in Nat /\ Len(sent) \in Nat /\ n <= Len(sent)
        /\ Len(ps) = Len(sent) - n
        /\ sent \in Seq(Payloads(d)) /\ recvQueue \in Seq(Seq(Byte))
    BY <1>1, <2>1, Parts DEF Typed, Delivered
  <2>3. IF d = "A" THEN Half(c) ELSE c = <<>>
    <3>1. Half(<<>>)
      BY DEF Half
    <3>2. c = <<>> \/ c = stale
      BY DEF Carry, Before
    <3>3. d = "A" => Half(stale)
      BY DEF IInv, PartsLeft
    <3>4. d # "A" => stale = <<>>
      BY <1>6 DEF Clean
    <3> QED
      BY <3>1, <3>2, <3>3, <3>4
  <2>4. buffer \o wire = c \o Stream(d, ps) /\ Len(c) <= Len(buffer)
    BY <2>1 DEF ToCome
  <2> HIDE DEF c, ps, n, d
  <2>5. Kept(d, buffer, c, ps) \/ Taken(d, buffer, wire, c, ps)
    BY <2>2, <2>3, <2>4, Front, SufficientFits
  <2>6. CASE Kept(d, buffer, c, ps)
    <3>1. found = Found(buffer, 0) /\ Len(buffer) < Len(c) + FirstLength(d, ps)
      BY <2>6 DEF Kept, NoFrame, d
    <3>2. found.size = 0 /\ found.buffer = buffer
      BY <3>1 DEF Found
    <3>3. buffer' = From(buffer, 0 + 1) /\ recvQueue' = recvQueue /\ ~reading'
      BY <1>5, <3>2
    <3>4. buffer' = buffer
      BY <2>2, <3>3, BehindNothing
    <3>5. Carry' = c /\ Rest' = ps /\ dialect' = d
      BY <1>1, <3>3 DEF Carry, Rest, Before, c, ps, d
    <3>6. Delivered'
      BY <1>1, <2>1, <3>3 DEF Delivered, Before
    <3>7. ToCome'
      BY <1>1, <2>4, <3>4, <3>5 DEF ToCome
    <3>8. Exhausted'
      BY <3>1, <3>4, <3>5 DEF Exhausted
    <3> QED
      BY <3>6, <3>7, <3>8
  <2>7. CASE Taken(d, buffer, wire, c, ps)
    <3> DEFINE a == c \o Framed(d, ps[1])
    <3>1. /\ ps # <<>> /\ a \in Seq(Byte) /\ Len(a) <= Len(buffer) /\ Len(a) > 0
          /\ found = Found(buffer, Len(a))
          /\ SubSeq(buffer, 1, Len(a)) = a
          /\ From(buffer, Len(a) + 1) \o wire = Stream(d, From(ps, 2))
      BY <2>7 DEF Taken, d
    <3>2. found.size = Len(a) /\ found.buffer = buffer
      BY <3>1 DEF Found
    <3>3. buffer' = From(buffer, Len(a) + 1) /\ recvQueue' = Append(recvQueue, a) /\ reading'
      BY <1>5, <3>1, <3>2
    <3> HIDE DEF a
    <3>4. /\ Len(recvQueue') = n + 1 /\ recvQueue'[n + 1] = a
          /\ \A i \in 1..n : recvQueue'[i] = recvQueue[i]
      <4> DEFINE S == Seq(Byte)
      <4>1. recvQueue \in Seq(S) /\ a \in S /\ recvQueue' = Append(recvQueue, a)
        BY <2>2, <3>1, <3>3
      <4> HIDE DEF S
      <4> QED
        BY <4>1, AppendProperties DEF n
    <3>5. n < Len(sent)
      <4>1. Len(ps) # 0
        BY <2>2, <3>1, EmptySeq
      <4> QED
        BY <2>2, <4>1
    <3>6. From(ps, 2) = From(sent, n + 2) /\ ps[1] = sent[n + 1]
      <4>1. /\ From(From(sent, n + 1), 2) = From(sent, n + 2)
            /\ From(sent, n + 1)[1] = sent[n + 1]
            /\ From(sent, n + 1) # <<>>
        BY <2>2, <3>5, BehindNext
      <4> QED
        BY <4>1 DEF ps, Rest, n
    <3>7. Carry' = <<>>
      BY <2>2, <3>4 DEF Carry, Before
    <3>8. Rest' = From(ps, 2)
      <4>1. Len(recvQueue') + 1 = n + 2
        BY <2>2, <3>4
      <4> QED
        BY <1>1, <3>6, <4>1 DEF Rest
    <3>9. Delivered'
      <4>1. n + 1 <= Len(sent)
        BY <2>2, <3>5
      <4>2. c = Before(n + 1) /\ a = Before(n + 1) \o Framed(dialect, sent[n + 1])
        BY <3>6 DEF a, d, c, Carry, n
      <4>3. ASSUME NEW i \in 1..(n + 1)
            PROVE  recvQueue'[i] = Before(i) \o Framed(dialect, sent[i])
        <5>1. CASE i = n + 1
          BY <3>4, <4>2, <5>1
        <5>2. CASE i # n + 1
          <6>1. i \in 1..n
            BY <2>2, <5>2
          <6> QED
            BY <2>1, <3>4, <6>1 DEF Delivered, n
        <5> QED
          BY <5>1, <5>2
      <4> QED
        BY <1>1, <3>4, <4>1, <4>3 DEF Delivered, Before
    <3>10. ToCome'
      <4>1. Carry' \o Stream(dialect', Rest') = Stream(d, From(ps, 2))
        <5>1. From(ps, 2) \in Seq(Payloads(d))
          <6>1. 2 \in 1..(Len(ps) + 1)
            BY <2>2, <3>5
          <6> QED
            BY <2>2, <6>1, Behind
        <5>2. Stream(d, From(ps, 2)) \in Seq(Byte)
          BY <2>2, <5>1, StreamType
        <5>3. <<>> \o Stream(d, From(ps, 2)) = Stream(d, From(ps, 2))
          BY <5>2, ConcatEmptySeq
        <5> QED
          BY <1>1, <3>7, <3>8, <5>3 DEF d
      <4>2. buffer' \o wire' = Stream(d, From(ps, 2))
        BY <1>1, <3>1, <3>3
      <4>3. Len(Carry') <= Len(buffer')
        <5>1. Len(buffer') \in Nat /\ Len(Carry') = 0
          BY <1>2, <3>7 DEF Typed
        <5> QED
          BY <5>1
      <4> QED
        BY <4>1, <4>2, <4>3 DEF ToCome
    <3>11. Exhausted'
      BY <3>3 DEF Exhausted
    <3> QED
      BY <3>9, <3>10, <3>11
  <2> QED
    BY <2>5, <2>6, <2>7
<1> QED
  BY <1>2, <1>3, <1>4, <1>6 DEF IInv

\* The buffer keeps the part of a frame that a lost connection leaves.
LEMMA ReconnectIInv ==
    ASSUME BufferSuffices, IInv, Reconnect
    PROVE  IInv'
<1>1. Typed /\ ~reading /\ UNCHANGED <<dialect, buffer, reading>>
  BY DEF IInv, Reconnect
<1>2. /\ losses' = losses + 1 /\ wire' = <<>> /\ sent' = <<>> /\ recvQueue' = <<>>
      /\ stale' = buffer
  BY DEF Reconnect
<1>3. Typed'
  BY <1>1, ReconnectTyped
<1>4. buffer \in Seq(Byte) /\ Len(buffer) \in Nat
  BY <1>1 DEF Typed
<1>5. Len(sent') = 0 /\ Len(recvQueue') = 0
  BY <1>2
<1>6. Carry' = buffer /\ Rest' = <<>>
  <2>1. From(<<>>, 1) = <<>>
    BY EmptySeq, BehindNothing
  <2> QED
    BY <1>2, <1>5, <2>1 DEF Carry, Before, Rest
<1>7. ToCome'
  <2>1. buffer \o <<>> = buffer
    BY <1>4, ConcatEmptySeq
  <2> QED
    BY <1>1, <1>2, <1>4, <1>6, <2>1, StreamOfNothing DEF ToCome
<1>8. Exhausted'
  BY <1>1, <1>4, <1>6 DEF Exhausted, FirstLength
<1>9. Delivered'
  BY <1>5 DEF Delivered
<1>10. PartsLeft'
  <2> SUFFICES ASSUME dialect = "A"
               PROVE  /\ Half(buffer)
                      /\ buffer # <<>> => \E p \in PayloadsA : Len(buffer) <= (losses + 1) * (Len(p) + 1)
    BY <1>1, <1>2 DEF PartsLeft, Half
  <2>1. Clean
    BY DEF Clean
  <2>2. buffer # <<>> => \E p \in PayloadsA : Len(buffer) <= (losses + 1) * (Len(p) + 1)
    BY <1>1, <2>1, BufferShort
  <2>3. Half(buffer)
    BY <1>1, <2>1, BufferIsHalf
  <2> QED
    BY <2>2, <2>3
<1> QED
  BY <1>3, <1>7, <1>8, <1>9, <1>10 DEF IInv

LEMMA NextIInv == BufferSuffices => (IInv /\ [Next]_vars => IInv')
<1> SUFFICES ASSUME BufferSuffices, IInv, [Next]_vars
             PROVE  IInv'
  OBVIOUS
<1>1. CASE UNCHANGED vars
  BY <1>1 DEF vars, IInv, Typed, PartsLeft, Half, Clean, Delivered, ToCome, Exhausted,
           Carry, Rest, Before
<1> QED
  BY <1>1, LidarSendsIInv, ReadCallbackIInv, TakesFrameIInv, ReconnectIInv DEF Next

LEMMA AlwaysIInv ==
    ASSUME BufferSuffices
    PROVE  Spec => []IInv
BY InitIInv, NextIInv, PTL DEF Spec

\* However the stream is cut into chunks, every frame of a connection that
\* began with an empty buffer is delivered once and in order, and what is not
\* delivered is still there.
THEOREM NothingIsLost ==
    ASSUME BufferSuffices
    PROVE  Spec => []NothingLost
<1>1. IInv => NothingLost
  <2> SUFFICES ASSUME IInv, stale = <<>>
               PROVE  LET n == Len(recvQueue)
                      IN  /\ n <= Len(sent)
                          /\ \A i \in 1..n : recvQueue[i] = Frame(sent[i])
                          /\ buffer \o wire = Frames(SubSeq(sent, n + 1, Len(sent)))
    BY DEF NothingLost
  <2>1. Delivered /\ ToCome /\ Typed
    BY DEF IInv, Clean
  <2>2. Len(recvQueue) <= Len(sent)
    BY <2>1 DEF Delivered
  <2>3. ASSUME NEW i \in 1..Len(recvQueue)
        PROVE  recvQueue[i] = Frame(sent[i])
    <3>1. i \in 1..Len(sent) /\ dialect \in {"A", "B"} /\ sent \in Seq(Payloads(dialect))
      BY <2>1, <2>2, Parts DEF Typed
    <3>2. sent[i] \in Payloads(dialect)
      BY <3>1
    <3>3. Framed(dialect, sent[i]) \in Seq(Byte)
      BY <3>1, <3>2, FrameIsBytes
    <3>4. <<>> \o Framed(dialect, sent[i]) = Framed(dialect, sent[i])
      BY <3>3, ConcatEmptySeq
    <3>5. recvQueue[i] = <<>> \o Framed(dialect, sent[i])
      BY <2>1 DEF Delivered, Before
    <3> QED
      BY <3>4, <3>5, FrameIsFramed
  <2>4. buffer \o wire = Frames(Rest)
    <3>1. Rest \in Seq(Payloads(dialect)) /\ dialect \in {"A", "B"}
      BY <2>1, <2>2, Parts DEF Typed
    <3>2. Stream(dialect, Rest) \in Seq(Byte)
      BY <3>1, StreamType
    <3>3. <<>> \o Stream(dialect, Rest) = Stream(dialect, Rest)
      BY <3>2, ConcatEmptySeq
    <3>4. buffer \o wire = <<>> \o Stream(dialect, Rest)
      BY <2>1 DEF ToCome, Carry, Before
    <3> QED
      BY <3>3, <3>4, FrameIsFramed
  <2> QED
    BY <2>2, <2>3, <2>4 DEF Rest, From
<1> QED
  BY <1>1, AlwaysIInv, PTL

\* Half a CoLa-A frame that a lost connection left damages the first frame of
\* the next one and no other.
THEOREM OnlyOneFrameIsDamaged ==
    ASSUME BufferSuffices
    PROVE  Spec => []OneFrameDamaged
<1>1. IInv => OneFrameDamaged
  <2> SUFFICES ASSUME IInv, dialect = "A", NEW i \in DOMAIN recvQueue
               PROVE  recvQueue[i] = (IF i = 1 THEN stale ELSE <<>>) \o Frame(sent[i])
    BY DEF OneFrameDamaged
  <2>1. Delivered /\ Typed
    BY DEF IInv, Clean
  <2>2. DOMAIN recvQueue = 1..Len(recvQueue)
    BY <2>1 DEF Typed
  <2> QED
    BY <2>1, <2>2, FrameIsFramed DEF Delivered, Before
<1> QED
  BY <1>1, AlwaysIInv, PTL
=============================================================================
