---------------------------- MODULE MakeUriProofs ----------------------------
(***************************************************************************)
(* MakeUri for every address, name, password and buffer size.  The buffer  *)
(* always holds a text followed by terminators only; each library call     *)
(* appends to that text, and the one check bounds the last of them.        *)
(***************************************************************************)
EXTENDS MakeUri, WellFoundedInduction, TLAPS

Bytes == Chars \union {Nul}

\* The buffer b holds the text t and nothing else.
Holds(b, t) ==
    /\ Len(t) <= Len(b)
    /\ \A k \in 1 .. Len(t) : b[k] = t[k]
    /\ \A k \in 1 .. Len(b) : k > Len(t) => b[k] = Nul

\* strlen of a buffer that holds a text is the length of the text.
LEMMA StrLenOfText ==
    ASSUME NEW b \in Seq(Bytes), NEW t \in Seq(Chars), Holds(b, t)
    PROVE  StrLen(b) = Len(t)
  <1>1. Len(t) \in 0 .. Len(b) /\ IsStrLen(b, Len(t))
    BY MakeUriAssumption DEF Holds, IsStrLen
  <1>2. ASSUME NEW n \in 0 .. Len(b), IsStrLen(b, n)
        PROVE  n = Len(t)
    <2>1. CASE n < Len(t)
      <3>1. b[n + 1] = Nul /\ n + 1 \in 1 .. Len(t)
        BY <1>2, <2>1, <1>1 DEF IsStrLen
      <3>2. t[n + 1] \in Chars
        BY <3>1
      <3> QED
        BY <3>1, <3>2, MakeUriAssumption DEF Holds
    <2>2. CASE n > Len(t)
      <3>1. Len(t) + 1 \in 1 .. n /\ Len(t) + 1 \in 1 .. Len(b)
        BY <2>2, <1>1
      <3>2. b[Len(t) + 1] = Nul /\ b[Len(t) + 1] # Nul
        BY <3>1, <1>2 DEF Holds, IsStrLen
      <3> QED
        BY <3>2
    <2> QED
      BY <1>1, <2>1, <2>2
  <1> QED
    BY <1>1, <1>2 DEF StrLen

\* A number below the modulus is its own remainder.
LEMMA SmallRemainder ==
    ASSUME NEW n \in Nat, NEW w \in Nat \ {0}, n < w
    PROVE  n % w = n
  <1>1. n = w * 0 + n
    OBVIOUS
  <1> QED
    BY <1>1, Z3

\* Writing a text behind the text of the buffer appends to it, and stays in
\* the buffer if there is room, with or without the terminator.
LEMMA PutAppends ==
    ASSUME NEW b \in Seq(Bytes), NEW t \in Seq(Chars), NEW s \in Seq(Chars),
           Holds(b, t), NEW w \in {s, Terminated(s)},
           Len(t) + Len(w) <= Len(b)
    PROVE  /\ Put(b, Len(t), w) \in Seq(Bytes)
           /\ Len(Put(b, Len(t), w)) = Len(b)
           /\ Holds(Put(b, Len(t), w), t \o s)
  <1> DEFINE p == Put(b, Len(t), w)
  <1>1. w \in Seq(Bytes) /\ Len(w) \in Nat /\ Len(t) \in Nat /\ Len(b) \in Nat
        /\ Len(s) \in Nat /\ Len(s) <= Len(w)
    BY DEF Bytes, Terminated
  <1>2. \A k \in 1 .. Len(w) : w[k] = IF k <= Len(s) THEN s[k] ELSE Nul
    <2>1. CASE w = s
      BY <2>1
    <2>2. CASE w = Append(s, Nul)
      BY <2>2
    <2> QED
      BY <2>1, <2>2 DEF Terminated
  <1>3. p = [k \in 1 .. Len(b) |->
                IF k > Len(t) /\ k <= Len(t) + Len(w) THEN w[k - Len(t)] ELSE b[k]]
    BY <1>1 DEF Put
  <1>4. \A k \in 1 .. Len(b) : p[k] \in Bytes
    <2> SUFFICES ASSUME NEW k \in 1 .. Len(b) PROVE p[k] \in Bytes
      OBVIOUS
    <2>1. CASE k > Len(t) /\ k <= Len(t) + Len(w)
      <3>1. k - Len(t) \in 1 .. Len(w)
        BY <1>1, <2>1
      <3> QED
        BY <1>1, <1>3, <2>1, <3>1
    <2>2. CASE ~(k > Len(t) /\ k <= Len(t) + Len(w))
      BY <1>3, <2>2
    <2> QED
      BY <2>1, <2>2
  <1>5. p \in Seq(Bytes) /\ Len(p) = Len(b)
    BY <1>1, <1>3, <1>4
  <1>6. /\ Len(t \o s) = Len(t) + Len(s)
        /\ \A k \in 1 .. Len(t) + Len(s) :
              (t \o s)[k] = IF k <= Len(t) THEN t[k] ELSE s[k - Len(t)]
    OBVIOUS
  <1>7. \A k \in 1 .. Len(t \o s) : p[k] = (t \o s)[k]
    <2> SUFFICES ASSUME NEW k \in 1 .. Len(t) + Len(s) PROVE p[k] = (t \o s)[k]
      BY <1>6
    <2>1. CASE k <= Len(t)
      BY <1>1, <1>3, <1>6, <2>1 DEF Holds
    <2>2. CASE k > Len(t)
      <3>1. k - Len(t) \in 1 .. Len(s) /\ k - Len(t) \in 1 .. Len(w) /\ k \in 1 .. Len(b)
        BY <1>1, <2>2
      <3> QED
        BY <1>1, <1>2, <1>3, <1>6, <2>2, <3>1
    <2> QED
      BY <1>1, <2>1, <2>2
  <1>8. \A k \in 1 .. Len(p) : k > Len(t \o s) => p[k] = Nul
    <2> SUFFICES ASSUME NEW k \in 1 .. Len(b), k > Len(t) + Len(s) PROVE p[k] = Nul
      BY <1>5, <1>6
    <2>1. CASE k <= Len(t) + Len(w)
      <3>1. k - Len(t) \in 1 .. Len(w) /\ k - Len(t) > Len(s) /\ k > Len(t)
        BY <1>1, <2>1
      <3> QED
        BY <1>2, <1>3, <2>1, <3>1
    <2>2. CASE k > Len(t) + Len(w)
      BY <1>1, <1>3, <2>2 DEF Holds
    <2> QED
      BY <1>1, <2>1, <2>2
  <1> HIDE DEF p
  <1>9. Holds(p, t \o s)
    BY <1>1, <1>5, <1>6, <1>7, <1>8 DEF Holds
  <1> QED
    BY <1>5, <1>9 DEF p


\* The first "//" exists if there is one at all.
LEMMA SomeFirst ==
    ASSUME NEW T, T \subseteq Nat, T # {}
    PROVE  \E x \in T : \A y \in T : x <= y
  <1> DEFINE R == OpToRel(<, Nat)
  <1>1. IsWellFoundedOn(R, Nat)
    BY NatLessThanWellFounded
  <1>2. PICK x \in T : \A y \in T : <<y, x>> \notin R
    <2> HIDE DEF R
    <2> QED
      BY <1>1, WFMin
  <1>3. \A y \in T : ~(y < x)
    BY <1>2 DEF OpToRel
  <1> QED
    BY <1>3

\* The parts an address is cut into are texts, together as long as the whole.
LEMMA SchemeParts ==
    ASSUME src \in Seq(Chars), HasScheme
    PROVE  /\ SchemeEnd \in 1 .. Len(src)
           /\ Scheme \in Seq(Chars) /\ Rest \in Seq(Chars)
           /\ Len(Scheme) + Len(Rest) = Len(src)
  <1>1. \E k \in 1 .. Len(src) :
            DoubleSlash(k) /\ \A j \in 1 .. (k - 1) : ~DoubleSlash(j)
    <2> DEFINE T == {k \in 1 .. Len(src) : DoubleSlash(k)}
    <2>1. T \subseteq Nat /\ T # {}
      BY DEF HasScheme
    <2>2. PICK k \in T : \A j \in T : k <= j
      <3> HIDE DEF T
      <3> QED
        BY <2>1, SomeFirst
    <2>3. k \in 1 .. Len(src) /\ \A j \in 1 .. (k - 1) : ~DoubleSlash(j)
      BY <2>2
    <2> QED
      BY <2>3
  <1>2. \E k \in 1 .. Len(src) : SchemeEnd = 1 + k /\ DoubleSlash(k)
    BY <1>1 DEF SchemeEnd
  <1>3. SchemeEnd \in 1 .. Len(src)
    BY <1>2 DEF DoubleSlash
  <1>4. Scheme \in Seq(Chars) /\ Len(Scheme) = SchemeEnd
    BY <1>3 DEF Scheme
  <1>5. Rest \in Seq(Chars) /\ Len(Rest) = Len(src) - SchemeEnd
    BY <1>3 DEF Rest
  <1> QED
    BY <1>3, <1>4, <1>5

-----------------------------------------------------------------------------
Room == Len(src) + Len(user) + Len(pass) + 3 <= size

\* The inputs are texts and the buffer is a string of bytes.
BytesOK ==
    /\ src \in Seq(Chars) /\ user \in Seq(Chars) /\ pass \in Seq(Chars)
    /\ size \in Nat
    /\ dest \in Seq(Bytes)
    /\ pc \in {"memset", "check", "strcpy", "strstr", "memcpy", "sprintf", "strcat", "exit"}
    /\ pc \in {"memcpy", "sprintf", "strcat"} => HasScheme

\* What the buffer holds at each call.
Progress ==
    /\ Len(dest) = size
    /\ pc \notin {"memset", "check", "exit"} => Room
    /\ pc = "strcpy" => Anonymous
    /\ pc \in {"strstr", "memcpy", "sprintf", "strcat"} => ~Anonymous
    /\ pc \in {"memset", "check", "strcpy", "strstr", "memcpy", "sprintf", "strcat"} =>
           result = 0
    /\ pc \in {"check", "strcpy", "strstr", "memcpy"} => dest = Fill(Nul, size)
    /\ pc = "sprintf" => Holds(dest, Scheme)
    /\ pc = "strcat" => Holds(dest, Scheme \o Auth)
    /\ pc = "exit" =>
           IF result = 0
           THEN Expected \in Seq(Chars) /\ Len(Expected) < size /\ Holds(dest, Expected)
           ELSE dest = Fill(Nul, size)

UInv == BytesOK /\ (Representable => Progress)

\* A cleared buffer holds the empty text, and writing at its start is writing
\* behind that.
LEMMA ClearedHoldsNothing ==
    ASSUME NEW n \in Nat
    PROVE  /\ Fill(Nul, n) \in Seq(Bytes) /\ Len(Fill(Nul, n)) = n
           /\ << >> \in Seq(Chars) /\ Len(<< >>) = 0
           /\ Holds(Fill(Nul, n), << >>)
  <1>1. Fill(Nul, n) \in [1 .. n -> Bytes]
    BY DEF Fill, Bytes
  <1>2. Fill(Nul, n) \in Seq(Bytes) /\ Len(Fill(Nul, n)) = n
    BY <1>1
  <1> QED
    BY <1>2 DEF Holds, Fill

\* A write never takes a buffer of bytes to anything else.
LEMMA PutBytes ==
    ASSUME NEW b \in Seq(Bytes), NEW n \in 0 .. Len(b), NEW w \in Seq(Bytes)
    PROVE  Put(b, n, w) \in Seq(Bytes)
  <1> DEFINE m == IF n + Len(w) > Len(b) THEN n + Len(w) ELSE Len(b)
  <1>1. m \in Nat
    OBVIOUS
  <1>2. \A k \in 1 .. m :
            (IF k > n /\ k <= n + Len(w) THEN w[k - n] ELSE b[k]) \in Bytes
    <2> SUFFICES ASSUME NEW k \in 1 .. m
                 PROVE  (IF k > n /\ k <= n + Len(w) THEN w[k - n] ELSE b[k]) \in Bytes
      OBVIOUS
    <2>1. CASE k > n /\ k <= n + Len(w)
      <3>1. k - n \in 1 .. Len(w)
        BY <1>1, <2>1
      <3> QED
        BY <2>1, <3>1
    <2>2. CASE ~(k > n /\ k <= n + Len(w))
      <3>1. k \in 1 .. Len(b)
        BY <2>2
      <3> QED
        BY <2>2, <3>1
    <2> QED
      BY <2>1, <2>2
  <1>3. Put(b, n, w) \in [1 .. m -> Bytes]
    BY <1>2 DEF Put
  <1> QED
    BY <1>1, <1>3

\* strlen of a buffer lies in the buffer, even if it holds no terminator.
LEMMA StrLenInBuffer ==
    ASSUME NEW b \in Seq(Bytes)
    PROVE  StrLen(b) \in 0 .. Len(b)
  <1> DEFINE T == {n \in 0 .. Len(b) : n = Len(b) \/ b[n + 1] = Nul}
  <1>1. T \subseteq Nat /\ T # {}
    <2>1. Len(b) \in T
      OBVIOUS
    <2> QED
      BY <2>1
  <1>2. PICK n \in T : \A m \in T : n <= m
    <2> HIDE DEF T
    <2> QED
      BY <1>1, SomeFirst
  <1>3. IsStrLen(b, n)
    <2>1. ASSUME NEW k \in 1 .. n, b[k] = Nul
          PROVE  FALSE
      <3>1. k - 1 \in 0 .. Len(b) /\ b[(k - 1) + 1] = Nul
        BY <2>1, <1>2
      <3>2. k - 1 \in T
        BY <3>1
      <3>3. n \in Nat /\ k \in Nat /\ k <= n
        BY <1>2
      <3> HIDE DEF T
      <3>4. n <= k - 1
        BY <3>2, <1>2
      <3> QED
        BY <3>3, <3>4
    <2> QED
      BY <1>2, <2>1 DEF IsStrLen
  <1> QED
    BY <1>2, <1>3 DEF StrLen

\* The credentials with their separators are a text.
LEMMA AuthText ==
    ASSUME BytesOK
    PROVE  /\ Auth \in Seq(Chars) /\ Len(Auth) = Len(user) + Len(pass) + 2
           /\ Terminated(Auth) \in Seq(Bytes)
  <1>1. Colon \in Chars /\ At \in Chars
    BY DEF Chars
  <1>2. Auth \in Seq(Chars) /\ Len(Auth) = Len(user) + Len(pass) + 2
    BY <1>1 DEF Auth, BytesOK
  <1>3. Terminated(Auth) \in Seq(Bytes)
    BY <1>2 DEF Terminated, Bytes
  <1> QED
    BY <1>2, <1>3

\* Every call is given bytes and leaves bytes.
LEMMA StepBytes ==
    ASSUME BytesOK, [Next]_vars
    PROVE  BytesOK'
  <1>1. CASE Clear
    BY <1>1, ClearedHoldsNothing DEF Clear, inputs, BytesOK
  <1>2. CASE Check
    BY <1>2 DEF Check, inputs, BytesOK
  <1>3. CASE CopyPlain
    <2>1. Terminated(src) \in Seq(Bytes)
      BY DEF BytesOK, Terminated, Bytes
    <2>2. Put(dest, 0, Terminated(src)) \in Seq(Bytes)
      BY <2>1, PutBytes DEF BytesOK
    <2> QED
      BY <1>3, <2>2 DEF CopyPlain, inputs, BytesOK
  <1>4. CASE FindScheme
    BY <1>4 DEF FindScheme, inputs, BytesOK, HasScheme, DoubleSlash
  <1>5. CASE CopyScheme
    <2>1. Scheme \in Seq(Chars)
      BY <1>5, SchemeParts DEF CopyScheme, BytesOK
    <2>2. Scheme \in Seq(Bytes)
      BY <2>1 DEF Bytes
    <2>3. Put(dest, 0, Scheme) \in Seq(Bytes)
      BY <2>2, PutBytes DEF BytesOK
    <2> QED
      BY <1>5, <2>3 DEF CopyScheme, inputs, BytesOK, HasScheme, DoubleSlash
  <1>6. CASE PrintAuth
    <2>1. Put(dest, StrLen(dest), Terminated(Auth)) \in Seq(Bytes)
      BY StrLenInBuffer, AuthText, PutBytes DEF BytesOK
    <2> QED
      BY <1>6, <2>1 DEF PrintAuth, inputs, BytesOK, HasScheme, DoubleSlash
  <1>7. CASE AppendRest
    <2>1. Rest \in Seq(Chars)
      BY <1>7, SchemeParts DEF AppendRest, BytesOK
    <2>2. Terminated(Rest) \in Seq(Bytes)
      BY <2>1 DEF Terminated, Bytes
    <2>3. Put(dest, StrLen(dest), Terminated(Rest)) \in Seq(Bytes)
      BY <2>2, StrLenInBuffer, PutBytes DEF BytesOK
    <2> QED
      BY <1>7, <2>3 DEF AppendRest, inputs, BytesOK
  <1>8. CASE UNCHANGED vars
    BY <1>8 DEF vars, BytesOK, HasScheme, DoubleSlash
  <1> QED
    BY <1>1, <1>2, <1>3, <1>4, <1>5, <1>6, <1>7, <1>8 DEF Next, Returned

\* Every call leaves the buffer as Progress says, if the sum of the lengths
\* is the sum it stands for.
LEMMA StepProgress ==
    ASSUME BytesOK, Representable, Progress, [Next]_vars
    PROVE  Progress'
  <1>0. /\ Len(src) \in Nat /\ Len(user) \in Nat /\ Len(pass) \in Nat /\ size \in Nat
        /\ Need = Len(src) + Len(user) + Len(pass) + 3
    <2>1. Len(src) \in Nat /\ Len(user) \in Nat /\ Len(pass) \in Nat /\ size \in Nat
      BY DEF BytesOK
    <2>2. /\ Len(src) + Len(user) + Len(pass) + 3 \in Nat
          /\ Len(src) + Len(user) + Len(pass) + 3 < Wrap
      BY <2>1 DEF Representable
    <2> QED
      BY <2>1, <2>2, SmallRemainder, MakeUriAssumption DEF Need
  <1>1. CASE Clear
    BY <1>1, ClearedHoldsNothing DEF Clear, inputs, Progress, BytesOK
  <1>2. CASE Check
    BY <1>0, <1>2 DEF Check, inputs, Progress, BytesOK, Room, Anonymous
  <1>3. CASE CopyPlain
    <2>1. Len(Terminated(src)) = Len(src) + 1 /\ src \in Seq(Chars)
      BY DEF Terminated, BytesOK
    <2>2. dest = Fill(Nul, size) /\ Len(dest) = size /\ Room /\ Anonymous /\ result = 0
      BY <1>3 DEF CopyPlain, Progress
    <2>3. /\ Len(Put(dest, 0, Terminated(src))) = size
          /\ Holds(Put(dest, 0, Terminated(src)), << >> \o src)
      <3>1. /\ dest \in Seq(Bytes) /\ << >> \in Seq(Chars) /\ Holds(dest, << >>)
            /\ Len(<< >>) = 0
        BY <1>0, <2>2, ClearedHoldsNothing
      <3>2. Len(<< >>) + Len(Terminated(src)) <= Len(dest)
        BY <1>0, <2>1, <2>2, <3>1 DEF Room
      <3>3. /\ Len(Put(dest, Len(<< >>), Terminated(src))) = Len(dest)
            /\ Holds(Put(dest, Len(<< >>), Terminated(src)), << >> \o src)
        BY <2>1, <3>1, <3>2, PutAppends
      <3> QED
        BY <2>2, <3>1, <3>3
    <2>4. << >> \o src = src /\ Expected = src
      BY <2>1, <2>2 DEF Expected
    <2>5. Expected' = Expected
      BY <1>3 DEF CopyPlain, inputs, Expected, Anonymous, Scheme, SchemeEnd,
                  DoubleSlash, Auth, Rest
    <2>6. Len(src) < size
      BY <1>0, <2>2 DEF Room
    <2> QED
      BY <1>3, <2>1, <2>2, <2>3, <2>4, <2>5, <2>6 DEF CopyPlain, inputs, Progress
  <1>4. CASE FindScheme
    BY <1>4 DEF FindScheme, inputs, Progress, Room, Anonymous
  <1>5. CASE CopyScheme
    <2>1. /\ Scheme \in Seq(Chars) /\ Rest \in Seq(Chars)
          /\ Len(Scheme) + Len(Rest) = Len(src)
      BY <1>5, SchemeParts DEF CopyScheme, BytesOK
    <2>2. dest = Fill(Nul, size) /\ Len(dest) = size /\ Room /\ ~Anonymous /\ result = 0
      BY <1>5 DEF CopyScheme, Progress
    <2>3. /\ Len(Put(dest, 0, Scheme)) = size
          /\ Holds(Put(dest, 0, Scheme), << >> \o Scheme)
      <3>1. /\ dest \in Seq(Bytes) /\ << >> \in Seq(Chars) /\ Holds(dest, << >>)
            /\ Len(<< >>) = 0
        BY <1>0, <2>2, ClearedHoldsNothing
      <3>2. Len(<< >>) + Len(Scheme) <= Len(dest)
        BY <1>0, <2>1, <2>2, <3>1 DEF Room
      <3>3. /\ Len(Put(dest, Len(<< >>), Scheme)) = Len(dest)
            /\ Holds(Put(dest, Len(<< >>), Scheme), << >> \o Scheme)
        BY <2>1, <3>1, <3>2, PutAppends
      <3> QED
        BY <2>2, <3>1, <3>3
    <2>4. << >> \o Scheme = Scheme
      BY <2>1
    <2>5. Scheme' = Scheme
      BY <1>5 DEF CopyScheme, inputs, Scheme, SchemeEnd, DoubleSlash
    <2> QED
      BY <1>5, <2>2, <2>3, <2>4, <2>5
      DEF CopyScheme, inputs, Progress, Room, Anonymous
  <1>6. CASE PrintAuth
    <2>1. /\ Scheme \in Seq(Chars) /\ Rest \in Seq(Chars)
          /\ Len(Scheme) + Len(Rest) = Len(src)
      BY <1>6, SchemeParts DEF PrintAuth, BytesOK
    <2>2. Holds(dest, Scheme) /\ Len(dest) = size /\ Room /\ ~Anonymous /\ result = 0
      BY <1>6 DEF PrintAuth, Progress
    <2>3. StrLen(dest) = Len(Scheme)
      BY <2>1, <2>2, StrLenOfText DEF BytesOK
    <2>4. Auth \in Seq(Chars) /\ Len(Terminated(Auth)) = Len(user) + Len(pass) + 3
      BY <1>0, AuthText DEF Terminated
    <2>5. /\ Len(Put(dest, Len(Scheme), Terminated(Auth))) = size
          /\ Holds(Put(dest, Len(Scheme), Terminated(Auth)), Scheme \o Auth)
      BY <1>0, <2>1, <2>2, <2>4, PutAppends DEF Room, BytesOK
    <2>6. Scheme' = Scheme /\ Auth' = Auth
      BY <1>6 DEF PrintAuth, inputs, Scheme, SchemeEnd, DoubleSlash, Auth
    <2> QED
      BY <1>6, <2>2, <2>3, <2>5, <2>6
      DEF PrintAuth, inputs, Progress, Room, Anonymous
  <1>7. CASE AppendRest
    <2>1. /\ Scheme \in Seq(Chars) /\ Rest \in Seq(Chars)
          /\ Len(Scheme) + Len(Rest) = Len(src)
      BY <1>7, SchemeParts DEF AppendRest, BytesOK
    <2>2. Auth \in Seq(Chars) /\ Len(Auth) = Len(user) + Len(pass) + 2
      BY AuthText
    <2>3. /\ Scheme \o Auth \in Seq(Chars)
          /\ Len(Scheme \o Auth) = Len(Scheme) + Len(user) + Len(pass) + 2
      BY <1>0, <2>1, <2>2
    <2>4. Holds(dest, Scheme \o Auth) /\ Len(dest) = size /\ Room /\ ~Anonymous
          /\ result = 0
      BY <1>7 DEF AppendRest, Progress
    <2>5. StrLen(dest) = Len(Scheme \o Auth)
      BY <2>3, <2>4, StrLenOfText DEF BytesOK
    <2>6. Len(Terminated(Rest)) = Len(Rest) + 1
      BY <2>1 DEF Terminated
    <2>7. /\ Len(Put(dest, Len(Scheme \o Auth), Terminated(Rest))) = size
          /\ Holds(Put(dest, Len(Scheme \o Auth), Terminated(Rest)), (Scheme \o Auth) \o Rest)
      <3> DEFINE t == Scheme \o Auth
      <3>1. t \in Seq(Chars) /\ Holds(dest, t) /\ dest \in Seq(Bytes)
        BY <2>3, <2>4 DEF BytesOK
      <3>2. Len(t) + Len(Terminated(Rest)) <= Len(dest)
        BY <1>0, <2>1, <2>3, <2>4, <2>6 DEF Room
      <3> HIDE DEF t
      <3>3. /\ Len(Put(dest, Len(t), Terminated(Rest))) = Len(dest)
            /\ Holds(Put(dest, Len(t), Terminated(Rest)), t \o Rest)
        BY <2>1, <3>1, <3>2, PutAppends
      <3> QED
        BY <2>4, <3>3 DEF t
    <2>8. Expected = Scheme \o Auth \o Rest
      BY <2>4 DEF Expected
    <2>9. Expected' = Expected
      BY <1>7 DEF AppendRest, inputs, Expected, Anonymous, Scheme, SchemeEnd,
                  DoubleSlash, Auth, Rest
    <2>10. Expected \in Seq(Chars) /\ Len(Expected) < size
      BY <1>0, <2>1, <2>3, <2>4, <2>8 DEF Room
    <2>11. dest' = Put(dest, Len(Scheme \o Auth), Terminated(Rest)) /\ pc' = "exit"
           /\ result' = 0 /\ size' = size
      BY <1>7, <2>4, <2>5 DEF AppendRest, inputs
    <2> QED
      BY <2>7, <2>8, <2>9, <2>10, <2>11 DEF Progress
  <1>8. CASE UNCHANGED vars
    BY <1>8 DEF vars, Progress, Room, Anonymous, Expected, Scheme, SchemeEnd,
                DoubleSlash, Auth, Rest
  <1> QED
    BY <1>1, <1>2, <1>3, <1>4, <1>5, <1>6, <1>7, <1>8 DEF Next, Returned

\* The invariant holds throughout.
LEMMA UriInvariant == Spec => []UInv
<1>1. Init => UInv
  <2> SUFFICES ASSUME Init PROVE UInv
    OBVIOUS
  <2>1. ASSUME NEW n \in Nat, NEW s \in Texts(n)
        PROVE  s \in Seq(Chars)
    BY <2>1 DEF Texts
  <2>2. src \in Seq(Chars) /\ user \in Seq(Chars) /\ pass \in Seq(Chars) /\ size \in Nat
    BY <2>1, MakeUriAssumption DEF Init
  <2>3. dest \in Seq(Bytes) /\ Len(dest) = size
    <3>1. PICK c \in Letters \union {Nul} : dest = Fill(c, size)
      BY DEF Init
    <3>2. dest \in [1 .. size -> Bytes]
      BY <3>1 DEF Fill, Bytes, Chars
    <3> QED
      BY <2>2, <3>2
  <2> QED
    BY <2>2, <2>3 DEF Init, UInv, BytesOK, Progress
<1>2. UInv /\ [Next]_vars => UInv'
  <2> SUFFICES ASSUME UInv, [Next]_vars PROVE UInv'
    OBVIOUS
  <2>1. UNCHANGED inputs
    BY DEF Next, Clear, Check, CopyPlain, FindScheme, CopyScheme, PrintAuth,
           AppendRest, Returned, inputs, vars
  <2>2. Representable' = Representable
    BY <2>1 DEF inputs, Representable
  <2> QED
    BY <2>2, StepBytes, StepProgress DEF UInv
<1> QED
  BY <1>1, <1>2, PTL DEF Spec

\* No library call of ONVIF_MakeUriWithAuth writes behind the caller's buffer,
\* at any length of the address, the name, the password and the buffer.
THEOREM UriStaysInBuffer == Spec => []StaysInBuffer
<1>1. UInv => StaysInBuffer
  BY DEF UInv, Progress, StaysInBuffer
<1> QED
  BY <1>1, UriInvariant, PTL

\* What the caller finds is the whole address with its credentials or, on
\* failure, the empty text.
THEOREM UriIsWholeOrEmpty == Spec => []TextIsWholeOrEmpty
<1>1. UInv => TextIsWholeOrEmpty
  <2> SUFFICES ASSUME UInv, pc = "exit", Representable
               PROVE  IF result = 0
                      THEN /\ StrLen(dest) < size
                           /\ SubSeq(dest, 1, StrLen(dest)) = Expected
                      ELSE dest = Fill(Nul, size)
    BY DEF TextIsWholeOrEmpty
  <2>1. CASE result = 0
    <3>1. /\ dest \in Seq(Bytes) /\ Expected \in Seq(Chars)
          /\ Len(Expected) < size /\ Len(dest) = size /\ Holds(dest, Expected)
      BY <2>1 DEF UInv, BytesOK, Progress
    <3>2. StrLen(dest) = Len(Expected)
      BY <3>1, StrLenOfText
    <3>3. SubSeq(dest, 1, Len(Expected)) = Expected
      BY <3>1 DEF Holds
    <3> QED
      BY <2>1, <3>1, <3>2, <3>3
  <2>2. CASE result # 0
    BY <2>2 DEF UInv, Progress
  <2> QED
    BY <2>1, <2>2
<1> QED
  BY <1>1, UriInvariant, PTL
=============================================================================
