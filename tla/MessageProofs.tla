---------------------------- MODULE MessageProofs ----------------------------
(***************************************************************************)
(* The messages of the peer, whatever their data: a size in digits reads   *)
(* back as the size, and where on the wire the size lines, the data and    *)
(* the line ends of the chunks are.                                        *)
(***************************************************************************)
EXTENDS ChunkedRecv, TLAPS, WellFoundedInduction, SequenceTheorems

\* Induction over the natural numbers, for a set instead of a predicate: no
\* smallest number is outside of it.
LEMMA SetInduction ==
  ASSUME NEW S, 0 \in S, \A n \in Nat : n \in S => n + 1 \in S
  PROVE  Nat \subseteq S
<1> DEFINE T == Nat \ S
<1>1. SUFFICES ASSUME T # {} PROVE FALSE
  OBVIOUS
<1>2. IsWellFoundedOn(OpToRel(<, Nat), Nat)
  BY NatLessThanWellFounded
<1>3. PICK x \in T : \A y \in T : ~ (<<y, x>> \in OpToRel(<, Nat))
  BY <1>1, <1>2, WFMin
<1>4. x # 0 /\ x - 1 \in Nat
  OBVIOUS
<1>5. x - 1 \in T
  BY <1>4
<1>6. <<x - 1, x>> \in OpToRel(<, Nat)
  <2>1. x - 1 < x
    BY <1>4
  <2> QED
    BY <1>4, <2>1 DEF OpToRel
<1> QED
  BY <1>3, <1>5, <1>6

\* t begins with s, position by position.
Begins(t, s) == Len(s) <= Len(t) /\ \A i \in 1 .. Len(s) : t[i] = s[i]

LEMMA BeginsIsPrefix ==
  ASSUME NEW S, NEW s \in Seq(S), NEW t \in Seq(S), Begins(t, s)
  PROVE  IsPrefix(s, t)
BY DEF Begins, IsPrefix

\* What begins with a beginning of t begins with less of it.
LEMMA BeginsTransitive ==
  ASSUME NEW S, NEW r \in Seq(S), NEW s \in Seq(S), NEW t \in Seq(S),
         Begins(t, s), Begins(s, r)
  PROVE  Begins(t, r)
BY DEF Begins

\* A concatenation begins with its first part and goes on with its second.
LEMMA ConcatBegins ==
  ASSUME NEW S, NEW s \in Seq(S), NEW t \in Seq(S)
  PROVE  /\ s \o t \in Seq(S)
         /\ Begins(s \o t, s)
         /\ Len(s \o t) = Len(s) + Len(t)
         /\ \A i \in 1 .. Len(t) : (s \o t)[Len(s) + i] = t[i]
BY DEF Begins

\* The concatenation of the first k elements of d.
Concats(d, n, f) ==
    f = [k \in 0 .. n |-> IF k = 0 THEN <<>> ELSE f[k - 1] \o d[k]]

\* The recursive function has a value.
LEMMA ConcatsExist ==
  ASSUME NEW d, NEW n \in Nat
  PROVE  \E f : Concats(d, n, f)
<1> DEFINE S == {k \in Nat : \E f : Concats(d, k, f)}
<1>1. 0 \in S
  <2> DEFINE f == [k \in 0 .. 0 |-> <<>>]
  <2>1. f = [k \in 0 .. 0 |-> IF k = 0 THEN <<>> ELSE f[k - 1] \o d[k]]
    OBVIOUS
  <2> QED
    BY <2>1 DEF Concats
<1>2. ASSUME NEW j \in Nat, j \in S PROVE j + 1 \in S
  <2>1. PICK f : Concats(d, j, f)
    BY <1>2
  <2> DEFINE g == [k \in 0 .. j + 1 |-> IF k = 0 THEN <<>> ELSE f[k - 1] \o d[k]]
  <2>2. ASSUME NEW k \in 0 .. j PROVE g[k] = f[k]
    <3>1. f[k] = IF k = 0 THEN <<>> ELSE f[k - 1] \o d[k]
      BY <2>1 DEF Concats
    <3> QED
      BY <3>1
  <2>3. ASSUME NEW k \in 0 .. j + 1, k # 0 PROVE g[k] = g[k - 1] \o d[k]
    <3>1. k - 1 \in 0 .. j
      BY <2>3
    <3>2. g[k] = f[k - 1] \o d[k]
      BY <2>3
    <3> QED
      BY <3>1, <3>2, <2>2
  <2>4. Concats(d, j + 1, g)
    BY <2>3 DEF Concats
  <2> QED
    BY <2>4
<1>3. n \in S
  BY <1>1, <1>2, SetInduction
<1> QED
  BY <1>3

\* Each concatenation begins with the ones before.
LEMMA ConcatsGrow ==
  ASSUME NEW S, NEW n \in Nat, NEW d, \A k \in 1 .. n : d[k] \in Seq(S),
         NEW f, Concats(d, n, f)
  PROVE  /\ f[0] = <<>>
         /\ \A k \in 1 .. n : f[k] = f[k - 1] \o d[k]
         /\ \A k \in 0 .. n : f[k] \in Seq(S)
         /\ \A k \in 0 .. n : \A j \in 0 .. k : Begins(f[k], f[j])
<1>1. f[0] = <<>> /\ \A k \in 1 .. n : f[k] = f[k - 1] \o d[k]
  <2>1. \A k \in 0 .. n : f[k] = IF k = 0 THEN <<>> ELSE f[k - 1] \o d[k]
    BY DEF Concats
  <2>2. 0 \in 0 .. n /\ \A k \in 1 .. n : k \in 0 .. n /\ k # 0
    OBVIOUS
  <2> QED
    BY ONLY <2>1, <2>2
<1> DEFINE T == {k \in Nat : k <= n => /\ f[k] \in Seq(S)
                                      /\ \A j \in 0 .. k : f[j] \in Seq(S) /\ Begins(f[k], f[j])}
<1>2. 0 \in T
  <2>1. <<>> \in Seq(S) /\ Begins(<<>>, <<>>)
    BY DEF Begins
  <2>2. f[0] \in Seq(S) /\ Begins(f[0], f[0])
    BY <1>1, <2>1
  <2>3. \A j \in 0 .. 0 : f[j] \in Seq(S) /\ Begins(f[0], f[j])
    BY <2>2
  <2> QED
    BY <2>2, <2>3
<1>3. ASSUME NEW k \in Nat, k \in T PROVE k + 1 \in T
  <2>1. SUFFICES ASSUME k + 1 <= n
                 PROVE  /\ f[k + 1] \in Seq(S)
                        /\ \A j \in 0 .. k + 1 : f[j] \in Seq(S) /\ Begins(f[k + 1], f[j])
    OBVIOUS
  <2>2. f[k + 1] = f[k] \o d[k + 1] /\ d[k + 1] \in Seq(S) /\ f[k] \in Seq(S)
    <3>1. k + 1 \in 1 .. n /\ (k + 1) - 1 = k /\ k <= n
      BY <2>1
    <3>2. f[k + 1] = f[(k + 1) - 1] \o d[k + 1]
      BY <1>1, <3>1
    <3> QED
      BY <1>3, <3>1, <3>2
  <2>3. f[k + 1] \in Seq(S) /\ Begins(f[k + 1], f[k])
    BY <2>2, ConcatBegins
  <2>4. ASSUME NEW j \in 0 .. k PROVE f[j] \in Seq(S) /\ Begins(f[k + 1], f[j])
    <3>1. f[j] \in Seq(S) /\ Begins(f[k], f[j])
      BY <1>3, <2>1
    <3> QED
      BY <2>2, <2>3, <3>1, BeginsTransitive
  <2>5. Begins(f[k + 1], f[k + 1])
    BY <2>3 DEF Begins
  <2> QED
    BY <2>3, <2>4, <2>5
<1>4. Nat \subseteq T
  BY <1>2, <1>3, SetInduction
<1>5. ASSUME NEW k \in 0 .. n
      PROVE  f[k] \in Seq(S) /\ \A j \in 0 .. k : Begins(f[k], f[j])
  <2>1. k \in T /\ k <= n
    BY <1>4
  <2> QED
    BY <2>1
<1> QED
  BY <1>1, <1>5

-----------------------------------------------------------------------------
(* Sizes *)

USE BaseAssumption, MaxDigitsAssumption, SymbolAssumption, BufLenAssumption, BoundsAssumption

\* The last digit, and the number without it.
LEMMA Quotient ==
  ASSUME NEW n \in Nat, n >= Base
  PROVE  /\ n \div Base \in 1 .. n - 1
         /\ n % Base \in Digit
         /\ n = ((n \div Base) * Base) + (n % Base)
BY DEF Digit

\* The recursive definition of the digits, up to k.
HexFrom(h, k) ==
    h = [n \in 0 .. k |-> IF n < Base THEN <<n>> ELSE Append(h[n \div Base], n % Base)]

LEMMA HexExists == \E h : HexFrom(h, MaxPayload)
<1> DEFINE S == {k \in Nat : \E h : HexFrom(h, k)}
<1>1. 0 \in S
  <2> DEFINE h == [n \in 0 .. 0 |-> <<0>>]
  <2>1. \A n \in 0 .. 0 : h[n] = IF n < Base THEN <<n>> ELSE Append(h[n \div Base], n % Base)
    OBVIOUS
  <2>2. h = [n \in 0 .. 0 |-> IF n < Base THEN <<n>> ELSE Append(h[n \div Base], n % Base)]
    BY <2>1
  <2> QED
    BY <2>2 DEF HexFrom
<1>2. ASSUME NEW k \in Nat, k \in S PROVE k + 1 \in S
  <2>1. PICK h : HexFrom(h, k)
    BY <1>2
  <2> DEFINE g == [n \in 0 .. k + 1 |-> IF n < Base THEN <<n>> ELSE Append(h[n \div Base], n % Base)]
  <2>2. ASSUME NEW n \in 0 .. k PROVE g[n] = h[n]
    <3>1. h[n] = IF n < Base THEN <<n>> ELSE Append(h[n \div Base], n % Base)
      BY <2>1 DEF HexFrom
    <3> QED
      BY <3>1
  <2>3. ASSUME NEW n \in 0 .. k + 1, ~ (n < Base)
        PROVE  g[n] = Append(g[n \div Base], n % Base)
    <3>1. n \div Base \in 0 .. k
      BY <2>3, Quotient
    <3>2. g[n] = Append(h[n \div Base], n % Base)
      BY <2>3
    <3> QED
      BY <3>1, <3>2, <2>2
  <2>4. HexFrom(g, k + 1)
    BY <2>3 DEF HexFrom
  <2> QED
    BY <2>4
<1>3. MaxPayload \in S
  BY <1>1, <1>2, SetInduction
<1> QED
  BY <1>3

\* Hex is the function its definition describes.
LEMMA HexDef == HexFrom(Hex, MaxPayload)
BY HexExists DEF Hex, HexFrom

\* v are the numbers that reading s digit by digit goes through; the last is n.
Reads(s, n, v) ==
    /\ v \in [0 .. Len(s) -> Nat]
    /\ v[0] = 0
    /\ \A i \in 1 .. Len(s) : v[i] = v[i - 1] * Base + s[i]
    /\ v[Len(s)] = n

\* The digits of a size are digits, at least one, and reading them gives the size.
LEMMA HexIsRead ==
  ASSUME NEW n \in 0 .. MaxPayload
  PROVE  /\ Hex[n] \in Seq(Digit)
         /\ Len(Hex[n]) >= 1
         /\ \E v : Reads(Hex[n], n, v)
<1> DEFINE Good(m) == /\ Hex[m] \in Seq(Digit)
                      /\ Len(Hex[m]) >= 1
                      /\ \E v : Reads(Hex[m], m, v)
           S == {k \in Nat : \A m \in 0 .. k : m <= MaxPayload => Good(m)}
<1>1. ASSUME NEW m \in 0 .. MaxPayload, m < Base PROVE Good(m)
  <2>1. Hex[m] = <<m>>
    BY <1>1, HexDef DEF HexFrom
  <2> DEFINE v == [i \in 0 .. 1 |-> IF i = 0 THEN 0 ELSE m]
  <2>2. Reads(<<m>>, m, v)
    BY DEF Reads
  <2> QED
    BY <1>1, <2>1, <2>2 DEF Digit
<1>2. ASSUME NEW m \in 0 .. MaxPayload, m >= Base, Good(m \div Base) PROVE Good(m)
  <2> DEFINE q == m \div Base
             r == m % Base
  <2>1. r \in Digit /\ r \in Nat /\ q \in Nat /\ m = q * Base + r
    BY <1>2, Quotient DEF Digit
  <2>2. Hex[m] = Append(Hex[q], r)
    <3>1. Hex[m] = IF m < Base THEN <<m>> ELSE Append(Hex[q], r)
      BY HexDef DEF HexFrom
    <3> QED
      BY <1>2, <3>1
  <2>3. PICK v : Reads(Hex[q], q, v)
    BY <1>2
  <2> HIDE DEF q, r
  <2> DEFINE s == Hex[q]
             n1 == Len(s) + 1
             w == [i \in 0 .. n1 |-> IF i <= Len(s) THEN v[i] ELSE m]
  <2>4. s \in Seq(Digit) /\ Len(s) \in Nat
    BY <1>2 DEF q
  <2>5. Append(s, r) \in Seq(Digit) /\ Len(Append(s, r)) = n1
           /\ Append(s, r)[n1] = r /\ \A i \in 1 .. Len(s) : Append(s, r)[i] = s[i]
    BY <2>1, <2>4
  <2>6. Reads(Append(s, r), m, w)
    <3>1. w \in [0 .. n1 -> Nat]
      BY <2>3, <2>4 DEF Reads
    <3>2. w[0] = 0 /\ w[n1] = m /\ \A i \in 0 .. Len(s) : w[i] = v[i]
      BY <2>3, <2>4 DEF Reads
    <3>3. ASSUME NEW i \in 1 .. n1 PROVE w[i] = w[i - 1] * Base + Append(s, r)[i]
      <4>1. CASE i <= Len(s)
        <5>1. i \in 1 .. Len(s) /\ i - 1 \in 0 .. Len(s) /\ i \in 0 .. Len(s)
          BY <2>4, <4>1
        <5> QED
          BY <2>3, <2>5, <3>2, <5>1 DEF Reads
      <4>2. CASE i = n1
        <5>1. w[i - 1] = q
          BY <2>3, <2>4, <3>2, <4>2 DEF Reads
        <5> QED
          BY <2>1, <2>5, <3>2, <4>2, <5>1
      <4> QED
        BY <2>4, <4>1, <4>2
    <3> QED
      BY <2>5, <3>1, <3>2, <3>3 DEF Reads
  <2> QED
    BY <2>2, <2>4, <2>5, <2>6
<1> HIDE DEF Good
<1>3. 0 \in S
  BY <1>1
<1>4. ASSUME NEW k \in Nat, k \in S PROVE k + 1 \in S
  <2>1. SUFFICES ASSUME k + 1 <= MaxPayload PROVE Good(k + 1)
    BY <1>4
  <2>2. CASE k + 1 < Base
    BY <1>1, <2>1, <2>2
  <2>3. CASE k + 1 >= Base
    <3>1. (k + 1) \div Base \in 0 .. k
      BY <2>3, Quotient
    <3>2. Good((k + 1) \div Base)
      BY <1>4, <2>1, <3>1
    <3> QED
      BY <1>2, <2>1, <2>3, <3>2
  <2> QED
    BY <2>2, <2>3
<1>5. Nat \subseteq S
  BY <1>3, <1>4, SetInduction
<1>6. Good(n)
  BY <1>5
<1> QED
  BY <1>6 DEF Good
-----------------------------------------------------------------------------
(* Messages *)

Byte == Digit \cup {Lf, Other}

\* The chunks of a message have data, up to the empty one at the end.
LEMMA MessageType ==
  ASSUME NEW cs \in Messages
  PROVE  /\ cs \in Seq(Seq(Byte))
         /\ Len(cs) \in Nat \ {0}
         /\ \A k \in 1 .. Len(cs) : /\ cs[k] \in Seq(Byte)
                                    /\ Len(cs[k]) \in 0 .. MaxPayload
                                    /\ Len(cs[k]) = 0 <=> k = Len(cs)
<1>1. PICK n \in 0 .. MaxChunks : \E m \in [1 .. n -> Payloads] : cs = Append(m, <<>>)
  BY DEF Messages
<1>2. PICK m \in [1 .. n -> Payloads] : cs = Append(m, <<>>)
  BY <1>1
<1>3. ASSUME NEW k \in 1 .. n
      PROVE  m[k] \in Seq(Byte) /\ Len(m[k]) \in 1 .. MaxPayload
  <2>1. PICK i \in 1 .. MaxPayload : m[k] \in [1 .. i -> DataBytes]
    BY <1>2 DEF Payloads, Payload
  <2>2. DataBytes \subseteq Byte
    BY DataAssumption DEF Byte
  <2>3. m[k] \in [1 .. i -> Byte]
    BY <2>1, <2>2
  <2>4. Len(m[k]) = i
    BY <2>1
  <2> QED
    BY <2>3, <2>4
<1>4. m \in Seq(Seq(Byte)) /\ Len(m) = n /\ n \in Nat
  BY <1>2, <1>3
<1>5. <<>> \in Seq(Byte) /\ Len(<<>>) = 0
  OBVIOUS
<1>6. cs \in Seq(Seq(Byte)) /\ Len(cs) = n + 1 /\ cs[n + 1] = <<>>
        /\ \A k \in 1 .. n : cs[k] = m[k]
  BY <1>2, <1>4, <1>5
<1>7. ASSUME NEW k \in 1 .. Len(cs)
      PROVE  /\ cs[k] \in Seq(Byte)
             /\ Len(cs[k]) \in 0 .. MaxPayload
             /\ Len(cs[k]) = 0 <=> k = Len(cs)
  <2>1. CASE k = n + 1
    BY <1>4, <1>5, <1>6, <2>1
  <2>2. CASE k \in 1 .. n
    <3>1. cs[k] = m[k] /\ k # Len(cs) /\ MaxPayload \in Nat
      BY <1>4, <1>6, <2>2
    <3>2. m[k] \in Seq(Byte) /\ Len(m[k]) \in 1 .. MaxPayload
      BY <1>3, <2>2
    <3> QED
      BY ONLY <3>1, <3>2
  <2> QED
    BY <1>4, <1>6, <2>1, <2>2
<1> QED
  BY <1>4, <1>6, <1>7

\* The size of the k-th chunk, and where the chunk and its data begin.
Digits(cs, k) == Hex[Len(cs[k])]
From(cs, k) == Len(Upto(cs)[k - 1])
DataFrom(cs, k) == From(cs, k) + Len(Digits(cs, k)) + 2
\* The n positions behind a.
Run(a, n) == [i \in 1 .. n |-> a + i]

\* The places of the first n bytes of data of the k-th chunk.
Part(cs, k, n) == Run(DataFrom(cs, k), n)

LEMMA DigitsType ==
  ASSUME NEW cs \in Messages, NEW k \in 1 .. Len(cs)
  PROVE  /\ Digits(cs, k) \in Seq(Digit)
         /\ Len(Digits(cs, k)) \in 1 .. MaxDigits
         /\ \E v : Reads(Digits(cs, k), Len(cs[k]), v)
BY MessageType, HexIsRead, SizesFit DEF Digits

\* The bytes of a chunk: digits, a line end, data, a line end.
LEMMA ChunkIs ==
  ASSUME NEW cs \in Messages, NEW k \in 1 .. Len(cs)
  PROVE  LET c == Chunk(cs[k])
             l == Len(Digits(cs, k))
             n == Len(cs[k])
         IN  /\ c \in Seq(Byte)
             /\ Len(c) = l + n + 4
             /\ \A i \in 1 .. l : c[i] = Digits(cs, k)[i]
             /\ c[l + 1] = Other /\ c[l + 2] = Lf
             /\ c[l + n + 3] = Other /\ c[l + n + 4] = Lf
             /\ Len(SizeLine(cs[k])) = l + 2
<1> DEFINE h == Digits(cs, k)
           d == cs[k]
           e == <<Other, Lf>>
<1>1. h \in Seq(Byte) /\ Len(h) \in Nat
  BY DigitsType DEF Byte
<1>2. d \in Seq(Byte) /\ Len(d) \in Nat
  BY MessageType
<1>3. e \in Seq(Byte) /\ Len(e) = 2 /\ e[1] = Other /\ e[2] = Lf
  BY DEF Byte
<1>4. Chunk(cs[k]) = ((h \o e) \o d) \o e /\ SizeLine(cs[k]) = h \o e
  BY DEF Chunk, SizeLine, Digits
<1> HIDE DEF h, d, e
<1>5. /\ h \o e \in Seq(Byte) /\ Len(h \o e) = Len(h) + 2
      /\ \A i \in 1 .. Len(h) : (h \o e)[i] = h[i]
      /\ (h \o e)[Len(h) + 1] = Other /\ (h \o e)[Len(h) + 2] = Lf
  <2>1. /\ h \o e \in Seq(Byte) /\ Begins(h \o e, h)
        /\ Len(h \o e) = Len(h) + Len(e)
        /\ \A i \in 1 .. Len(e) : (h \o e)[Len(h) + i] = e[i]
    <3>1. h \in Seq(Byte) /\ e \in Seq(Byte)
      BY <1>1, <1>3
    <3> QED
      BY <3>1, ConcatBegins
  <2> QED
    BY <1>3, <2>1 DEF Begins
<1>6. /\ (h \o e) \o d \in Seq(Byte) /\ Len((h \o e) \o d) = Len(h) + 2 + Len(d)
      /\ \A i \in 1 .. Len(h) + 2 : ((h \o e) \o d)[i] = (h \o e)[i]
  BY <1>1, <1>2, <1>5, ConcatBegins DEF Begins
<1>7. /\ ((h \o e) \o d) \o e \in Seq(Byte)
      /\ Len(((h \o e) \o d) \o e) = Len(h) + Len(d) + 4
      /\ \A i \in 1 .. Len(h) + 2 : (((h \o e) \o d) \o e)[i] = (h \o e)[i]
      /\ (((h \o e) \o d) \o e)[Len(h) + Len(d) + 3] = Other
      /\ (((h \o e) \o d) \o e)[Len(h) + Len(d) + 4] = Lf
  <2> DEFINE x == (h \o e) \o d
  <2>1. x \in Seq(Byte) /\ Len(x) = Len(h) + 2 + Len(d)
          /\ \A i \in 1 .. Len(h) + 2 : x[i] = (h \o e)[i]
    BY <1>6
  <2> HIDE DEF x
  <2>2. /\ x \o e \in Seq(Byte) /\ Begins(x \o e, x)
        /\ Len(x \o e) = Len(x) + Len(e)
        /\ \A i \in 1 .. Len(e) : (x \o e)[Len(x) + i] = e[i]
    <3>1. x \in Seq(Byte) /\ e \in Seq(Byte)
      BY <1>3, <2>1
    <3> QED
      BY <3>1, ConcatBegins
  <2>3. (x \o e)[Len(x) + 1] = Other /\ (x \o e)[Len(x) + 2] = Lf
    BY <1>3, <2>2
  <2>4. Len(x) + 1 = Len(h) + Len(d) + 3 /\ Len(x) + 2 = Len(h) + Len(d) + 4
    BY <1>1, <1>2, <2>1
  <2>5. \A i \in 1 .. Len(h) + 2 : (x \o e)[i] = (h \o e)[i]
    <3>1. \A i \in 1 .. Len(h) + 2 : i \in 1 .. Len(x)
      BY <1>1, <1>2, <2>1
    <3> QED
      BY <2>1, <2>2, <3>1 DEF Begins
  <2>6. x \o e \in Seq(Byte) /\ Len(x \o e) = Len(h) + Len(d) + 4
    BY <1>1, <1>2, <1>3, <2>1, <2>2
  <2>7. (x \o e)[Len(h) + Len(d) + 3] = Other /\ (x \o e)[Len(h) + Len(d) + 4] = Lf
    BY <2>3, <2>4
  <2> QED
    BY <2>5, <2>6, <2>7 DEF x
<1>8. Len(h) + 1 \in 1 .. Len(h) + 2 /\ Len(h) + 2 \in 1 .. Len(h) + 2
        /\ \A i \in 1 .. Len(h) : i \in 1 .. Len(h) + 2
  BY <1>1
<1>9. /\ Chunk(cs[k]) \in Seq(Byte)
      /\ Len(Chunk(cs[k])) = Len(h) + Len(d) + 4
      /\ \A i \in 1 .. Len(h) : Chunk(cs[k])[i] = h[i]
      /\ Chunk(cs[k])[Len(h) + 1] = Other /\ Chunk(cs[k])[Len(h) + 2] = Lf
      /\ Chunk(cs[k])[Len(h) + Len(d) + 3] = Other
      /\ Chunk(cs[k])[Len(h) + Len(d) + 4] = Lf
      /\ Len(SizeLine(cs[k])) = Len(h) + 2
  BY <1>4, <1>5, <1>7, <1>8
<1> QED
  BY <1>9 DEF h, d

\* The wire grows chunk by chunk.
LEMMA UptoIs ==
  ASSUME NEW cs \in Messages
  PROVE  /\ Upto(cs)[0] = <<>>
         /\ \A k \in 1 .. Len(cs) : Upto(cs)[k] = Upto(cs)[k - 1] \o Chunk(cs[k])
         /\ \A k \in 0 .. Len(cs) : Upto(cs)[k] \in Seq(Byte)
         /\ \A k \in 0 .. Len(cs) : \A j \in 0 .. k : Begins(Upto(cs)[k], Upto(cs)[j])
<1> DEFINE n == Len(cs)
           d == [k \in 1 .. n |-> Chunk(cs[k])]
<1>1. n \in Nat
  BY MessageType
<1>2. \A k \in 1 .. n : d[k] \in Seq(Byte) /\ d[k] = Chunk(cs[k])
  BY ChunkIs
<1>3. ASSUME NEW f
      PROVE  Concats(d, n, f) <=>
               f = [k \in 0 .. n |-> IF k = 0 THEN <<>> ELSE f[k - 1] \o Chunk(cs[k])]
  <2>1. [k \in 0 .. n |-> IF k = 0 THEN <<>> ELSE f[k - 1] \o d[k]]
          = [k \in 0 .. n |-> IF k = 0 THEN <<>> ELSE f[k - 1] \o Chunk(cs[k])]
    BY <1>1, <1>2
  <2> QED
    BY <2>1 DEF Concats
<1>4. \E f : f = [k \in 0 .. n |-> IF k = 0 THEN <<>> ELSE f[k - 1] \o Chunk(cs[k])]
  BY <1>1, <1>3, ConcatsExist
<1>5. Upto(cs) = [k \in 0 .. n |-> IF k = 0 THEN <<>> ELSE Upto(cs)[k - 1] \o Chunk(cs[k])]
  BY <1>4 DEF Upto
<1>6. Concats(d, n, Upto(cs))
  BY <1>3, <1>5
<1> HIDE DEF d
<1>7. /\ Upto(cs)[0] = <<>>
      /\ \A k \in 1 .. n : Upto(cs)[k] = Upto(cs)[k - 1] \o d[k]
      /\ \A k \in 0 .. n : Upto(cs)[k] \in Seq(Byte)
      /\ \A k \in 0 .. n : \A j \in 0 .. k : Begins(Upto(cs)[k], Upto(cs)[j])
  <2>1. \A k \in 1 .. n : d[k] \in Seq(Byte)
    BY <1>2
  <2> HIDE DEF n
  <2> QED
    BY <1>1, <1>6, <2>1, ConcatsGrow
<1> QED
  BY <1>2, <1>7

\* So do the places of the data.
LEMMA DataUptoIs ==
  ASSUME NEW cs \in Messages
  PROVE  /\ DataUpto(cs)[0] = <<>>
         /\ \A k \in 1 .. Len(cs) : DataUpto(cs)[k] = DataUpto(cs)[k - 1] \o Places(cs, k)
         /\ \A k \in 0 .. Len(cs) : DataUpto(cs)[k] \in Seq(Nat)
         /\ \A k \in 0 .. Len(cs) : \A j \in 0 .. k : Begins(DataUpto(cs)[k], DataUpto(cs)[j])
         /\ \A k \in 1 .. Len(cs) : Places(cs, k) = Part(cs, k, Len(cs[k]))
<1> DEFINE n == Len(cs)
           d == [k \in 1 .. n |-> Places(cs, k)]
<1>1. n \in Nat
  BY MessageType
<1>2. ASSUME NEW k \in 1 .. n
      PROVE  /\ Places(cs, k) \in Seq(Nat)
             /\ Places(cs, k) = Part(cs, k, Len(cs[k]))
  <2>1. Upto(cs)[k - 1] \in Seq(Byte)
    <3>1. k - 1 \in 0 .. Len(cs)
      BY <1>1
    <3> QED
      BY <3>1, UptoIs
  <2>2. From(cs, k) \in Nat
    BY <2>1 DEF From
  <2>3. Len(cs[k]) \in Nat /\ Len(Digits(cs, k)) \in Nat
    BY MessageType, DigitsType
  <2>4. Len(SizeLine(cs[k])) = Len(Digits(cs, k)) + 2
    BY ChunkIs
  <2>5. Places(cs, k) = Part(cs, k, Len(cs[k]))
    <3>1. ASSUME NEW i \in 1 .. Len(cs[k])
          PROVE  From(cs, k) + Len(SizeLine(cs[k])) + i = DataFrom(cs, k) + i
      BY <2>2, <2>3, <2>4 DEF DataFrom
    <3> QED
      BY <3>1 DEF Places, Part, Run, From
  <2>6. Part(cs, k, Len(cs[k])) \in Seq(Nat)
    BY <2>2, <2>3 DEF Part, Run, DataFrom
  <2> QED
    BY <2>5, <2>6
<1>3. ASSUME NEW f
      PROVE  Concats(d, n, f) <=>
               f = [k \in 0 .. n |-> IF k = 0 THEN <<>> ELSE f[k - 1] \o Places(cs, k)]
  <2>1. [k \in 0 .. n |-> IF k = 0 THEN <<>> ELSE f[k - 1] \o d[k]]
          = [k \in 0 .. n |-> IF k = 0 THEN <<>> ELSE f[k - 1] \o Places(cs, k)]
    BY <1>1, <1>2
  <2> QED
    BY <2>1 DEF Concats
<1>4. \E f : f = [k \in 0 .. n |-> IF k = 0 THEN <<>> ELSE f[k - 1] \o Places(cs, k)]
  BY <1>1, <1>3, ConcatsExist
<1>5. DataUpto(cs)
        = [k \in 0 .. n |-> IF k = 0 THEN <<>> ELSE DataUpto(cs)[k - 1] \o Places(cs, k)]
  BY <1>4 DEF DataUpto
<1>6. Concats(d, n, DataUpto(cs))
  BY <1>3, <1>5
<1>7. \A k \in 1 .. n : d[k] \in Seq(Nat) /\ d[k] = Places(cs, k)
  BY <1>2
<1> HIDE DEF d
<1>8. /\ DataUpto(cs)[0] = <<>>
      /\ \A k \in 1 .. n : DataUpto(cs)[k] = DataUpto(cs)[k - 1] \o d[k]
      /\ \A k \in 0 .. n : DataUpto(cs)[k] \in Seq(Nat)
      /\ \A k \in 0 .. n : \A j \in 0 .. k : Begins(DataUpto(cs)[k], DataUpto(cs)[j])
  <2>1. \A k \in 1 .. n : d[k] \in Seq(Nat)
    BY <1>7
  <2> HIDE DEF n
  <2> QED
    BY <1>1, <1>6, <2>1, ConcatsGrow
<1> QED
  BY <1>2, <1>7, <1>8

\* Where the bytes of the k-th chunk are on the wire.
LEMMA Layout ==
  ASSUME NEW cs \in Messages, NEW k \in 1 .. Len(cs)
  PROVE  LET w == Message(cs)
             l == Len(Digits(cs, k))
             o == From(cs, k)
         IN  /\ w \in Seq(Byte) /\ o \in Nat
             /\ \A i \in 1 .. l : w[o + i] = Digits(cs, k)[i]
             /\ w[o + l + 1] = Other /\ w[o + l + 2] = Lf
             /\ k < Len(cs) =>
                  /\ From(cs, k + 1) = DataFrom(cs, k) + Len(cs[k]) + 2
                  /\ w[From(cs, k + 1) - 1] = Other
                  /\ w[From(cs, k + 1)] = Lf
<1> DEFINE w == Message(cs)
           l == Len(Digits(cs, k))
           n == Len(cs[k])
           o == From(cs, k)
           a == Upto(cs)[k - 1]
           b == Upto(cs)[k]
           c == Chunk(cs[k])
<1>1. l \in Nat /\ n \in Nat /\ Len(cs) \in Nat /\ k \in Nat
  BY MessageType, DigitsType
<1>2. a \in Seq(Byte) /\ b \in Seq(Byte) /\ w \in Seq(Byte) /\ Begins(w, b) /\ b = a \o c
  <2>1. k - 1 \in 0 .. Len(cs) /\ k \in 0 .. Len(cs) /\ Len(cs) \in 0 .. Len(cs)
    BY <1>1
  <2>2. a \in Seq(Byte) /\ b \in Seq(Byte) /\ w \in Seq(Byte)
    BY <2>1, UptoIs DEF Message
  <2>3. Begins(w, b)
    BY <2>1, UptoIs DEF Message
  <2>4. b = a \o c
    BY UptoIs
  <2> QED
    BY <2>2, <2>3, <2>4
<1>3. o = Len(a) /\ (k < Len(cs) => From(cs, k + 1) = Len(b))
  BY <1>1 DEF From
<1>4. /\ c \in Seq(Byte) /\ Len(c) = l + n + 4
      /\ \A i \in 1 .. l : c[i] = Digits(cs, k)[i]
      /\ c[l + 1] = Other /\ c[l + 2] = Lf
      /\ c[l + n + 3] = Other /\ c[l + n + 4] = Lf
  BY ChunkIs
<1>5. DataFrom(cs, k) = o + l + 2
  BY DEF DataFrom
<1> HIDE DEF w, l, n, o, a, b, c
<1>6. Len(b) = o + Len(c) /\ o \in Nat /\ \A i \in 1 .. Len(c) : b[o + i] = c[i]
  <2>1. Len(a \o c) = Len(a) + Len(c) /\ \A i \in 1 .. Len(c) : (a \o c)[Len(a) + i] = c[i]
    <3>1. a \in Seq(Byte) /\ c \in Seq(Byte)
      BY <1>2, <1>4
    <3> QED
      BY <3>1, ConcatBegins
  <2> QED
    BY <1>2, <1>3, <2>1
<1>7. \A i \in 1 .. Len(c) : w[o + i] = c[i]
  <2>1. \A i \in 1 .. Len(c) : o + i \in 1 .. Len(b)
    BY <1>1, <1>4, <1>6
  <2> QED
    BY <1>2, <1>6, <2>1 DEF Begins
<1>8. \A i \in 1 .. l : w[o + i] = Digits(cs, k)[i]
  BY <1>1, <1>4, <1>7
<1>9. w[o + l + 1] = Other /\ w[o + l + 2] = Lf
  <2>1. l + 1 \in 1 .. Len(c) /\ l + 2 \in 1 .. Len(c)
    BY <1>1, <1>4
  <2>2. w[o + (l + 1)] = Other /\ w[o + (l + 2)] = Lf
    BY <1>4, <1>7, <2>1
  <2> QED
    BY <1>1, <1>6, <2>2
<1>10. ASSUME k < Len(cs)
       PROVE  /\ From(cs, k + 1) = DataFrom(cs, k) + n + 2
              /\ w[From(cs, k + 1) - 1] = Other
              /\ w[From(cs, k + 1)] = Lf
  <2>1. From(cs, k + 1) = o + (l + n + 4)
    BY <1>3, <1>4, <1>6, <1>10
  <2>2. l + n + 3 \in 1 .. Len(c) /\ l + n + 4 \in 1 .. Len(c)
    BY <1>1, <1>4
  <2>3. w[o + (l + n + 3)] = Other /\ w[o + (l + n + 4)] = Lf
    BY <1>4, <1>7, <2>2
  <2>4. From(cs, k + 1) - 1 = o + (l + n + 3)
    BY <1>1, <1>6, <2>1
  <2> QED
    BY <1>1, <1>5, <1>6, <2>1, <2>3, <2>4
<1> QED
  BY <1>2, <1>6, <1>8, <1>9, <1>10 DEF w, l, n, o
=============================================================================
