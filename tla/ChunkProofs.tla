----------------------------- MODULE ChunkProofs -----------------------------
(***************************************************************************)
(* The buffered reader of chunks implements reading the wire byte by byte, *)
(* for buffers of every length, every segmentation and every message, and  *)
(* so gives the parser the data that the peer put into the chunks.         *)
(***************************************************************************)
EXTENDS MessageProofs

USE BaseAssumption, MaxDigitsAssumption, SymbolAssumption, BufLenAssumption, BoundsAssumption

Mid == pc \notin {"end", "eof"}

\* What lies unread in the buffer are the bytes received last, in order.
InOrder ==
    Mid => \A i \in bufidx .. Filled - 1 : buf[i] = got - Filled + i + 1

\* The marks of the buffer, and which of them matter where.
Marks ==
    /\ Mid => bufidx <= buflen /\ buflen <= Filled /\ Filled - bufidx <= got
    /\ InLine => buflen = chunkbuflen /\ chunksize = 0
    /\ pc = "full" => bufidx < buflen
    /\ pc \in {"recv", "full"} /\ chunkbuflen > 0 => chunksize = 0

\* The peer's bytes.
Bytes == wire \in Seq(Byte)

IInv ==
    /\ Bytes
    /\ TypeOK
    /\ InOrder
    /\ Marks

LEMMA ProductIsNat ==
  ASSUME NEW m \in Nat, NEW n \in Nat
  PROVE  m * n \in Nat
OBVIOUS

LEMMA FilledType == TypeOK => Filled \in 0 .. BufLen
BY DEF TypeOK, Filled

LEMMA WireLength == Bytes => Len(wire) \in Nat
BY DEF Bytes

-----------------------------------------------------------------------------
LEMMA ChunkInit == Init => IInv
<1> SUFFICES ASSUME Init PROVE IInv
  OBVIOUS
<1>0. Bytes /\ Len(wire) \in Nat
  <2>1. chunks \in Messages /\ wire = Message(chunks)
    BY DEF Init
  <2>2. 1 \in 1 .. Len(chunks)
    BY <2>1, MessageType
  <2>3. wire \in Seq(Byte)
    BY <2>1, <2>2, Layout
  <2> QED
    BY <2>3, WireLength DEF Bytes
<1>1. PICK h \in 1 .. BufLen, n \in 0 .. BufLen :
          n <= Len(wire) /\ h + n <= BufLen /\ Start(h, n)
  BY DEF Init
<1>2. TypeOK
  <2>1. \A i \in 0 .. BufLen - 1 : buf[i] \in 0 .. Len(wire)
    BY <1>0, <1>1 DEF Start
  <2>2. buf \in [0 .. BufLen - 1 -> 0 .. Len(wire)]
    BY <1>1, <2>1 DEF Start
  <2>3. out \in Seq(1 .. Len(wire))
    BY <1>0, <1>1 DEF Start
  <2>4. got \in 0 .. Len(wire) /\ {bufidx, buflen, chunkbuflen} \subseteq 0 .. BufLen
    BY <1>0, <1>1 DEF Start
  <2>5. {chunksize, size} \subseteq Nat /\ digits \in 0 .. MaxDigits
    BY <1>1 DEF Start
  <2>6. {ahead, draining} \subseteq BOOLEAN /\ pc \in Stages
    BY <1>1 DEF Start, Stages
  <2> QED
    BY <2>2, <2>3, <2>4, <2>5, <2>6 DEF TypeOK
<1>3. Filled = h + n
  BY <1>1 DEF Start, Filled
<1>4. InOrder
  BY <1>0, <1>1, <1>3 DEF Start, InOrder, Mid
<1>5. Marks
  BY <1>0, <1>1, <1>3 DEF Start, Marks, InLine, Mid
<1> QED
  BY <1>0, <1>2, <1>4, <1>5 DEF IInv

\* What frecv has put into the buffer.
LEMMA FrecvFills ==
  ASSUME IInv, wire' = wire, NEW n \in 1 .. BufLen, Frecv(n)
  PROVE  /\ got' \in 0 .. Len(wire') /\ n <= got'
         /\ buf' \in [0 .. BufLen - 1 -> 0 .. Len(wire')]
         /\ \A i \in 0 .. n - 1 : buf'[i] = got' - n + i + 1
<1>1. Len(wire) \in Nat
  BY WireLength DEF IInv
<1> QED
  BY <1>1 DEF IInv, TypeOK, Frecv

LEMMA ReceiveKeeps ==
  ASSUME IInv, Direct \/ Fill \/ Refill
  PROVE  IInv'
<1> USE DEF IInv
<1>1. CASE Direct
  <2>1. PICK n \in 1 .. Smaller(chunksize, BufLen) :
            Frecv(n) /\ buflen' = n /\ chunksize' = chunksize - n
    BY <1>1 DEF Direct
  <2>2. n \in 1 .. BufLen /\ n <= chunksize
    BY <2>1 DEF TypeOK, Smaller
  <2>3. chunkbuflen = 0 /\ chunkbuflen' = 0 /\ Filled' = n
    BY <1>1, <2>1, <2>2 DEF Direct, Marks, TypeOK, Filled
  <2>4. wire' = wire /\ bufidx' = 0 /\ pc' = "full"
    BY <1>1 DEF sent, Direct
  <2>5. TypeOK'
    BY <1>1, <2>1, <2>2, <2>4, FrecvFills DEF Direct, TypeOK, sent, number, Stages
  <2>6. InOrder'
    BY <2>1, <2>2, <2>3, <2>4, FrecvFills DEF InOrder
  <2>7. Marks'
    BY <2>1, <2>2, <2>3, <2>4, <2>5, FrecvFills DEF Marks, InLine, TypeOK
  <2> QED
    BY <2>4, <2>5, <2>6, <2>7 DEF Bytes
<1>2. CASE Fill \/ Refill
  <2>1. PICK n \in 1 .. BufLen : Frecv(n) /\ chunkbuflen' = n /\ buflen' = n
    BY <1>2 DEF Fill, Refill
  <2>2. wire' = wire /\ bufidx' = 0 /\ pc' \in {"skip", "digits", "line"}
    BY <1>2 DEF sent, Fill, Refill, InLine
  <2>3. chunksize' = 0
    BY <1>2 DEF Fill, Refill, Marks
  <2>4. TypeOK'
    <3>1. got' \in 0 .. Len(wire') /\ buf' \in [0 .. BufLen - 1 -> 0 .. Len(wire')]
      BY <2>1, <2>2, FrecvFills
    <3>2. /\ size' = size /\ digits' = digits /\ ahead' = ahead
          /\ draining' = draining /\ out' = out
      BY <1>2 DEF Fill, Refill, number
    <3> QED
      BY <2>1, <2>2, <2>3, <3>1, <3>2 DEF TypeOK, Stages
  <2>5. Filled' = n
    BY <2>1 DEF Filled
  <2>6. InOrder'
    BY <2>1, <2>2, <2>5, FrecvFills DEF InOrder
  <2>7. Marks'
    BY <2>1, <2>2, <2>3, <2>4, <2>5, FrecvFills DEF Marks, InLine, TypeOK
  <2> QED
    BY <2>2, <2>4, <2>6, <2>7 DEF Bytes
<1> QED
  BY <1>1, <1>2

LEMMA StopKeeps ==
  ASSUME IInv, Lost \/ LastChunk
  PROVE  IInv'
<1> USE DEF IInv
<1>1. wire' = wire /\ pc' \in {"end", "eof"}
  BY DEF sent, Lost, DirectEof, FillEof, RefillEof, Eof, LastChunk
<1>2. TypeOK'
  <2>1. CASE LastChunk
    BY <2>1 DEF LastChunk, TypeOK, sent, number, Stages
  <2>2. CASE DirectEof
    BY <2>2 DEF DirectEof, Eof, TypeOK, sent, number, Stages
  <2>3. CASE FillEof
    BY <2>3 DEF FillEof, Eof, TypeOK, sent, number, Stages
  <2>4. CASE RefillEof
    BY <2>4 DEF RefillEof, Eof, TypeOK, sent, number, Stages
  <2> QED
    BY <2>1, <2>2, <2>3, <2>4 DEF Lost
<1> QED
  BY <1>1, <1>2 DEF Bytes, InOrder, Marks, Mid, InLine

LEMMA ResumeKeeps ==
  ASSUME IInv, Resume
  PROVE  IInv'
<1> USE DEF IInv
<1>1. Filled = chunkbuflen /\ Filled' = chunkbuflen
  BY DEF Resume, Filled
<1>2. TypeOK'
  BY DEF Resume, TypeOK, sent, number, Stages
<1>3. InOrder'
  BY <1>1 DEF Resume, InOrder, Marks, Mid, TypeOK
<1>4. Marks'
  BY <1>1 DEF Resume, Marks, Mid, InLine, TypeOK
<1> QED
  BY <1>2, <1>3, <1>4 DEF sent, Resume, Bytes

\* The byte soap_getchunkchar takes is the next one on the wire.
LEMMA NextChar ==
  ASSUME IInv, InLine, bufidx < buflen
  PROVE  /\ buf[bufidx] = got - (Filled - bufidx) + 1
         /\ buf[bufidx] \in 1 .. Len(wire)
         /\ Filled = buflen /\ Len(wire) \in Nat
         /\ Char = wire[got - (Filled - bufidx) + 1]
<1> USE DEF IInv
<1>1. Filled = buflen /\ Len(wire) \in Nat
  BY WireLength DEF Marks, Filled
<1>2. buf[bufidx] = got - (Filled - bufidx) + 1
  BY <1>1 DEF InOrder, InLine, Mid, TypeOK
<1> QED
  BY <1>1, <1>2 DEF Marks, Mid, InLine, TypeOK, Char

LEMMA ReadingKeeps ==
  ASSUME IInv, Skip \/ First \/ Another \/ Rest
  PROVE  IInv'
<1> USE DEF IInv
<1>1. Reading /\ InLine /\ pc' \in {"skip", "digits", "line"}
  BY DEF Skip, First, Another, Rest, InLine
<1>2. size' \in Nat /\ digits' \in 0 .. MaxDigits
  <2>1. CASE Skip \/ Rest
    BY <2>1 DEF Skip, Rest, TypeOK, number
  <2>2. CASE First
    BY <2>2 DEF First, Hexadecimal, Digit
  <2>3. CASE Another
    <3>1. Char \in Nat /\ size * Base \in Nat
      BY <2>3, ProductIsNat DEF Another, Hexadecimal, Digit, TypeOK
    <3>2. size' \in Nat
      BY <2>3, <3>1 DEF Another
    <3> QED
      BY <2>3, <3>2 DEF Another, TypeOK
  <2> QED
    BY <2>1, <2>2, <2>3
<1>3. Filled' = Filled
  BY <1>1 DEF Reading, GetChar, Filled
<1>4. TypeOK'
  <2>1. /\ wire' = wire /\ got' = got /\ buf' = buf /\ buflen' = buflen
        /\ chunkbuflen' = chunkbuflen /\ chunksize' = chunksize /\ ahead' = ahead
        /\ draining' = draining /\ out' = out
    BY <1>1 DEF sent, Reading, GetChar
  <2>2. bufidx' \in 0 .. BufLen
    BY <1>1 DEF Reading, GetChar, TypeOK
  <2> QED
    BY <1>1, <1>2, <2>1, <2>2 DEF TypeOK, Stages
<1>5. InOrder'
  BY <1>1, <1>3 DEF Reading, GetChar, InOrder, InLine, Mid, TypeOK
<1>6. Marks'
  <2>1. /\ bufidx < buflen /\ bufidx' = bufidx + 1 /\ got' = got /\ buflen' = buflen
        /\ chunkbuflen' = chunkbuflen /\ chunksize' = chunksize
    BY <1>1 DEF Reading, GetChar
  <2>2. buflen <= Filled /\ Filled - bufidx <= got /\ Filled \in Nat
          /\ buflen = chunkbuflen /\ chunksize = 0
    BY <1>1, FilledType DEF Marks, Mid, InLine
  <2>3. bufidx' <= buflen' /\ buflen' <= Filled' /\ Filled' - bufidx' <= got'
    BY <1>3, <2>1, <2>2 DEF TypeOK
  <2> QED
    BY <1>1, <2>1, <2>2, <2>3 DEF Marks, InLine
<1> QED
  BY <1>1, <1>4, <1>5, <1>6 DEF sent, Reading, GetChar, Bytes

LEMMA ChunkKeeps ==
  ASSUME IInv, WholeChunk \/ PartOfChunk
  PROVE  IInv'
<1> USE DEF IInv
<1>0. InLine /\ GetChar /\ bufidx < buflen /\ size > 0 /\ buflen = chunkbuflen
  BY DEF WholeChunk, PartOfChunk, Line, InLine, GetChar, Marks
<1>1. CASE WholeChunk
  <2>1. TypeOK'
    BY <1>0, <1>1 DEF WholeChunk, GetChar, TypeOK, sent, number, Stages
  <2>2. Filled = chunkbuflen /\ Filled' = chunkbuflen
    BY <1>0, <1>1 DEF WholeChunk, Filled, TypeOK
  <2>3. InOrder'
    BY <1>0, <1>1, <2>2 DEF WholeChunk, GetChar, InOrder, InLine, Mid, TypeOK
  <2>4. Marks'
    BY <1>0, <1>1, <2>2 DEF WholeChunk, GetChar, Marks, InLine, Mid, TypeOK
  <2> QED
    BY <1>0, <2>1, <2>3, <2>4 DEF sent, GetChar, Bytes
<1>2. CASE PartOfChunk
  <2>1. TypeOK'
    BY <1>0, <1>2 DEF PartOfChunk, GetChar, TypeOK, sent, number, Stages
  <2>2. Filled = chunkbuflen /\ Filled' = chunkbuflen
    BY <1>0, <1>2 DEF PartOfChunk, Filled, TypeOK
  <2>3. InOrder'
    BY <1>0, <1>2, <2>2 DEF PartOfChunk, GetChar, InOrder, InLine, Mid, TypeOK
  <2>4. Marks'
    BY <1>0, <1>2, <2>2 DEF PartOfChunk, GetChar, Marks, InLine, Mid, TypeOK
  <2> QED
    BY <1>0, <2>1, <2>3, <2>4 DEF sent, GetChar, Bytes
<1> QED
  BY <1>1, <1>2

\* What the parser reads is what comes next on the wire.
LEMMA ReadNext ==
  ASSUME IInv, pc = "full", NEW k \in 1 .. buflen - bufidx
  PROVE  /\ [i \in 1 .. k |-> buf[bufidx + i - 1]]
              = [i \in 1 .. k |-> got - (Filled - bufidx) + i]
         /\ [i \in 1 .. k |-> buf[bufidx + i - 1]] \in Seq(1 .. Len(wire))
         /\ got - (Filled - bufidx) + k <= Len(wire)
<1> USE DEF IInv
<1>1. Len(wire) \in Nat /\ Filled \in Nat /\ Filled >= buflen /\ k \in Nat
  BY WireLength DEF Filled, TypeOK, Marks, Mid
<1>2. ASSUME NEW i \in 1 .. k
      PROVE  /\ buf[bufidx + i - 1] = got - (Filled - bufidx) + i
             /\ got - (Filled - bufidx) + i \in 1 .. Len(wire)
  <2>1. bufidx + i - 1 \in bufidx .. Filled - 1
    BY <1>1 DEF TypeOK
  <2> QED
    BY <1>1, <2>1 DEF InOrder, Mid, Marks, TypeOK
<1>3. [i \in 1 .. k |-> buf[bufidx + i - 1]] \in [1 .. k -> 1 .. Len(wire)]
  BY <1>2
<1>4. [i \in 1 .. k |-> buf[bufidx + i - 1]] \in Seq(1 .. Len(wire))
  BY <1>1, <1>3
<1>5. got - (Filled - bufidx) + k \in 1 .. Len(wire)
  BY <1>1, <1>2
<1> QED
  BY <1>2, <1>4, <1>5, <1>1

LEMMA ParserKeeps ==
  ASSUME IInv, Read \/ Drain
  PROVE  IInv'
<1> USE DEF IInv
<1>1. CASE Read
  <2>1. PICK k \in 1 .. buflen - bufidx :
            /\ out' = out \o [i \in 1 .. k |-> buf[bufidx + i - 1]]
            /\ bufidx' = bufidx + k
            /\ pc' = IF bufidx + k = buflen THEN "recv" ELSE "full"
    BY <1>1 DEF Read
  <2>2. out' \in Seq(1 .. Len(wire))
    <3>1. [i \in 1 .. k |-> buf[bufidx + i - 1]] \in Seq(1 .. Len(wire))
      BY <1>1, ReadNext DEF Read
    <3> QED
      BY <2>1, <3>1 DEF TypeOK
  <2>3. TypeOK'
    <3>1. /\ wire' = wire /\ got' = got /\ buf' = buf /\ buflen' = buflen
          /\ chunkbuflen' = chunkbuflen /\ chunksize' = chunksize /\ ahead' = ahead
          /\ size' = size /\ digits' = digits /\ draining' = draining
      BY <1>1 DEF Read, sent, number
    <3>2. bufidx' \in 0 .. BufLen
      BY <2>1 DEF TypeOK
    <3> QED
      BY <2>1, <2>2, <3>1, <3>2 DEF TypeOK, Stages
  <2>4. Filled' = Filled
    BY <1>1 DEF Read, Filled
  <2>5. InOrder'
    BY <1>1, <2>1, <2>4, FilledType DEF Read, InOrder, Mid, TypeOK
  <2>6. Marks'
    <3>1. /\ pc = "full" /\ got' = got /\ buflen' = buflen
          /\ chunkbuflen' = chunkbuflen /\ chunksize' = chunksize
      BY <1>1 DEF Read
    <3>2. buflen <= Filled /\ Filled - bufidx <= got /\ Filled \in Nat
            /\ (chunkbuflen > 0 => chunksize = 0)
      BY <3>1, FilledType DEF Marks, Mid
    <3>3. bufidx' <= buflen' /\ buflen' <= Filled' /\ Filled' - bufidx' <= got'
            /\ (pc' = "full" => bufidx' < buflen')
      BY <2>1, <2>4, <3>1, <3>2 DEF TypeOK
    <3> QED
      BY <2>1, <3>1, <3>2, <3>3 DEF Marks, InLine
  <2> QED
    BY <1>1, <2>3, <2>5, <2>6 DEF sent, Read, Bytes
<1>2. CASE Drain
  <2>1. Filled' = Filled
    BY <1>2 DEF Drain, Filled
  <2>2. TypeOK'
    BY <1>2 DEF Drain, TypeOK, sent, number, Stages
  <2>3. InOrder' /\ Marks'
    BY <1>2, <2>1 DEF Drain, InOrder, Marks, InLine, Mid
  <2> QED
    BY <1>2, <2>2, <2>3 DEF sent, Drain, Bytes
<1> QED
  BY <1>1, <1>2

LEMMA ChunkStutter ==
  ASSUME IInv, UNCHANGED vars
  PROVE  IInv'
BY DEF IInv, vars, number, Bytes, TypeOK, InOrder, Marks, Mid, InLine, Filled

LEMMA ChunkStep == IInv /\ [Next]_vars => IInv'
<1> SUFFICES ASSUME IInv, [Next]_vars PROVE IInv'
  OBVIOUS
<1>1. CASE Recv
  BY <1>1, ReceiveKeeps, ResumeKeeps, ReadingKeeps, StopKeeps, ChunkKeeps DEF Recv
<1>2. CASE Lost
  BY <1>2, StopKeeps
<1>3. CASE Read \/ Drain
  BY <1>3, ParserKeeps
<1>4. CASE Returned \/ UNCHANGED vars
  BY <1>4, ChunkStutter DEF Returned
<1> QED
  BY <1>1, <1>2, <1>3, <1>4 DEF Next

LEMMA ChunkInvariant == Spec => []IInv
BY ChunkInit, ChunkStep, PTL DEF Spec

-----------------------------------------------------------------------------
(* Refinement *)

LEMMA WireInit == Init => Wire!Begin
<1> SUFFICES ASSUME Init PROVE Wire!Begin
  OBVIOUS
<1>1. PICK h \in 1 .. BufLen, n \in 0 .. BufLen :
          n <= Len(wire) /\ h + n <= BufLen /\ Start(h, n)
  BY DEF Init
<1>2. Filled = h + n
  BY <1>1 DEF Start, Filled
<1> QED
  BY <1>1, <1>2 DEF Start, At, Mode, Left, Wire!Begin

\* The steps that fill the buffer do not move the reader.
LEMMA ReceiveStutters ==
  ASSUME IInv, Direct \/ Fill \/ Refill \/ Resume
  PROVE  UNCHANGED Wire!cvars
<1> USE DEF IInv
<1>0. /\ wire' = wire /\ digits' = digits /\ draining' = draining /\ out' = out
      /\ pc \notin {"end", "eof"}
  BY DEF sent, Direct, Fill, Refill, Resume, number, InLine
<1>1. CASE Direct
  <2>1. PICK n \in 1 .. Smaller(chunksize, BufLen) :
            Frecv(n) /\ buflen' = n /\ chunksize' = chunksize - n
    BY <1>1 DEF Direct
  <2>2. n \in Nat /\ chunksize \in Nat
    BY <2>1 DEF TypeOK, Smaller
  <2>3. Filled = buflen /\ Filled' = n
    BY <1>1, <2>1 DEF Direct, Marks, TypeOK, Filled
  <2>4. pc = "recv" /\ pc' = "full" /\ bufidx' = 0 /\ chunksize > 0
    BY <1>1 DEF Direct
  <2>5. got' = got + n
    BY <2>1 DEF Frecv
  <2>6. At' = At
    BY <2>2, <2>3, <2>4, <2>5 DEF At, TypeOK
  <2> QED
    BY <1>0, <2>1, <2>2, <2>4, <2>6 DEF Wire!cvars, Mode, Left
<1>2. CASE Fill \/ Refill
  <2>1. PICK n \in 1 .. BufLen : Frecv(n) /\ chunkbuflen' = n /\ buflen' = n
    BY <1>2 DEF Fill, Refill
  <2>2. Filled' = n /\ got' = got + n /\ bufidx' = 0 /\ n \in Nat
    BY <1>2, <2>1 DEF Fill, Refill, Filled, Frecv
  <2>3. pc' \in {"skip", "digits", "line"} /\ pc' = IF pc = "recv" THEN "skip" ELSE pc
    BY <1>2 DEF Fill, Refill, InLine
  <2>4. Filled = IF pc = "recv" THEN buflen ELSE bufidx
    BY <1>2, FilledType DEF Fill, Refill, Marks, Mid, InLine, Filled, TypeOK
  <2>5. At' = At
    BY <2>2, <2>3, <2>4 DEF At, TypeOK
  <2>6. pc = "recv" => chunksize = 0
    BY <1>2 DEF Fill, Refill, InLine
  <2>7. size' = size
    BY <1>2 DEF Fill, Refill, number
  <2> QED
    BY <1>0, <2>3, <2>5, <2>6, <2>7 DEF Wire!cvars, Mode, Left
<1>3. CASE Resume
  <2>1. At' = At
    BY <1>3 DEF Resume, At, Filled
  <2> QED
    BY <1>0, <1>3, <2>1 DEF Wire!cvars, Mode, Left, Resume
<1> QED
  BY <1>1, <1>2, <1>3

\* A byte of a size line is a byte taken from the wire.
LEMMA ReadingTakes ==
  ASSUME IInv, Skip \/ First \/ Another \/ Rest
  PROVE  Wire!ChunkNext
<1> USE DEF IInv
<1>1. Reading /\ InLine /\ pc \in {"skip", "digits", "line"} /\ pc' \in {"skip", "digits", "line"}
  BY DEF Skip, First, Another, Rest, InLine
<1>2. Filled' = Filled /\ Filled \in Nat
  BY <1>1, FilledType DEF Reading, GetChar, Filled
<1>3. At' = At + 1 /\ At < Len(wire) /\ Char = wire[At + 1]
  BY <1>1, <1>2, NextChar DEF Reading, GetChar, At, TypeOK
<1>4. Wire!Take
  BY <1>1, <1>3 DEF sent, Reading, GetChar, Wire!Take
<1>5. Wire!Byte = Char
  BY <1>1, <1>3 DEF Wire!Byte
<1>6. Wire!Digit = Digit
  BY DEF Wire!Digit, Digit
<1>7. CASE Skip
  BY <1>4, <1>5, <1>6, <1>7 DEF Skip, Hexadecimal, number, Mode, Left, Wire!Between, Wire!ChunkNext
<1>8. CASE First
  BY <1>4, <1>5, <1>6, <1>8 DEF First, Hexadecimal, Mode, Left, Wire!FirstDigit, Wire!ChunkNext
<1>9. CASE Another
  BY <1>4, <1>5, <1>6, <1>9 DEF Another, Hexadecimal, Mode, Left, Wire!NextDigit, Wire!ChunkNext
<1>10. CASE Rest
  BY <1>4, <1>5, <1>6, <1>10 DEF Rest, Hexadecimal, number, Mode, Left, Wire!Extension, Wire!ChunkNext
<1> QED
  BY <1>7, <1>8, <1>9, <1>10

\* The end of a size line opens its chunk, or ends the message.
LEMMA LineEnds ==
  ASSUME IInv, LastChunk \/ WholeChunk \/ PartOfChunk
  PROVE  Wire!EndOfLine
<1> USE DEF IInv
<1>1. Line /\ InLine /\ pc \in {"digits", "line"} /\ wire' = wire /\ out' = out
        /\ size' = size /\ digits' = digits /\ draining' = draining
        /\ buflen = chunkbuflen /\ bufidx < buflen
  BY DEF sent, LastChunk, WholeChunk, PartOfChunk, Line, InLine, GetChar, number, Marks
<1>2. At < Len(wire) /\ Char = wire[At + 1]
  <2>1. buf[bufidx] = got - (Filled - bufidx) + 1 /\ buf[bufidx] \in 1 .. Len(wire)
          /\ Char = wire[got - (Filled - bufidx) + 1] /\ Len(wire) \in Nat
    BY <1>1, NextChar
  <2>2. At = got - (Filled - bufidx)
    BY <1>1 DEF At
  <2> QED
    BY <1>1, <2>1, <2>2, FilledType DEF TypeOK
<1>3. Wire!Byte = Lf
  BY <1>1, <1>2 DEF Wire!Byte, Line
<1>4. CASE LastChunk
  BY <1>1, <1>2, <1>3, <1>4 DEF LastChunk, At, Mode, Left, Wire!EndOfLine
<1>5. CASE WholeChunk
  <2>1. GetChar /\ pc' = "full" /\ size > 0 /\ Filled = chunkbuflen /\ Filled' = chunkbuflen
    BY <1>1, <1>5 DEF WholeChunk, Filled, TypeOK, GetChar, Line
  <2>2. At' = At + 1
    BY <1>1, <2>1 DEF At, GetChar, TypeOK
  <2>3. buflen' - bufidx' + chunksize' = size
    BY <1>5 DEF WholeChunk, GetChar, TypeOK
  <2> QED
    BY <1>1, <1>2, <1>3, <2>1, <2>2, <2>3 DEF Mode, Left, Wire!EndOfLine
<1>6. CASE PartOfChunk
  <2>1. GetChar /\ size > 0 /\ Filled = chunkbuflen /\ Filled' = chunkbuflen
    BY <1>1, <1>6 DEF PartOfChunk, Filled, TypeOK, GetChar, Line
  <2>2. CASE pc' = "full"
    <3>1. At' = At + 1
      BY <1>1, <2>1, <2>2 DEF At, GetChar, TypeOK
    <3>2. buflen' - bufidx' + chunksize' = size
      BY <1>6 DEF PartOfChunk, GetChar, TypeOK
    <3> QED
      BY <1>1, <1>2, <1>3, <2>1, <2>2, <3>1, <3>2 DEF Mode, Left, Wire!EndOfLine
  <2>3. CASE pc' = "recv"
    <3>1. bufidx' = chunkbuflen /\ buflen' = chunkbuflen /\ chunksize' = size
      BY <1>1, <1>6, <2>1, <2>3 DEF PartOfChunk, GetChar, TypeOK
    <3>2. At' = At + 1
      BY <1>1, <2>1, <2>3, <3>1 DEF At, GetChar, TypeOK
    <3> QED
      BY <1>1, <1>2, <1>3, <2>1, <2>3, <3>1, <3>2 DEF Mode, Left, Wire!EndOfLine
  <2> QED
    BY <1>6, <2>2, <2>3 DEF PartOfChunk
<1> QED
  BY <1>4, <1>5, <1>6

LEMMA ParserTakes ==
  ASSUME IInv, Read \/ Drain
  PROVE  Wire!Data
<1> USE DEF IInv
<1>0. pc = "full" /\ wire' = wire /\ digits' = digits /\ Filled' = Filled /\ Filled \in Nat
  BY FilledType DEF sent, Read, Drain, number, Filled
<1>1. PICK k \in 1 .. buflen - bufidx :
          /\ out' = IF draining' THEN out ELSE out \o [i \in 1 .. k |-> At + i]
          /\ draining' \in {draining, TRUE}
          /\ At' = At + k
          /\ At + k <= Len(wire)
          /\ pc' = IF bufidx + k = buflen THEN "recv" ELSE "full"
          /\ chunksize' = chunksize /\ buflen' = buflen
          /\ pc' = "full" => bufidx' = bufidx + k
  <2>1. CASE Read
    <3>1. PICK k \in 1 .. buflen - bufidx :
            /\ out' = out \o [i \in 1 .. k |-> buf[bufidx + i - 1]]
            /\ bufidx' = bufidx + k
            /\ pc' = IF bufidx + k = buflen THEN "recv" ELSE "full"
      BY <2>1 DEF Read
    <3>2. At = got - (Filled - bufidx)
      BY <1>0 DEF At
    <3>3. At' = At + k
      BY <1>0, <2>1, <3>1, <3>2 DEF At, Read, TypeOK
    <3>4. At + k <= Len(wire) /\ out' = out \o [i \in 1 .. k |-> At + i]
      BY <1>0, <3>1, <3>2, ReadNext
    <3> QED
      BY <2>1, <3>1, <3>3, <3>4 DEF Read
  <2>2. CASE Drain
    <3> DEFINE k == buflen - bufidx
    <3>1. k \in 1 .. buflen - bufidx /\ bufidx + k = buflen
      BY <1>0 DEF Marks, TypeOK
    <3>2. At' = At + k
      BY <1>0, <2>2 DEF At, Drain, TypeOK
    <3>3. At + k <= Len(wire)
      BY <1>0, <3>1, ReadNext DEF At
    <3> QED
      BY <2>2, <3>1, <3>2, <3>3 DEF Drain
  <2> QED
    BY <2>1, <2>2
<1>2. Mode = "data" /\ Left = buflen - bufidx + chunksize /\ Left \in Nat
  BY <1>0 DEF Mode, Left, TypeOK, Marks
<1>3. k \in 1 .. Left
  BY <1>1, <1>2 DEF TypeOK
<1>4. Left' = Left - k
  <2>1. CASE pc' = "full"
    <3>1. bufidx' = bufidx + k /\ buflen' = buflen /\ chunksize' = chunksize
      BY <1>1, <2>1
    <3>2. Left' = buflen - (bufidx + k) + chunksize
      BY <2>1, <3>1 DEF Left
    <3>3. k \in Int
      BY <1>3, <1>2
    <3> QED
      BY <1>2, <3>2, <3>3 DEF TypeOK
  <2>2. CASE pc' = "recv"
    <3>1. bufidx + k = buflen
      BY <1>1, <2>2
    <3> QED
      BY <1>1, <1>2, <2>2, <3>1 DEF Left, TypeOK
  <2> QED
    BY <1>1, <2>1, <2>2
<1>5. Mode' = IF Left = k THEN "skip" ELSE "data"
  BY <1>1, <1>2 DEF Mode, TypeOK
<1> QED
  BY <1>0, <1>1, <1>2, <1>3, <1>4, <1>5 DEF Wire!Data

LEMMA LostCuts ==
  ASSUME IInv, Lost
  PROVE  Wire!Cut
BY DEF sent, Lost, DirectEof, FillEof, RefillEof, Eof, InLine, number, At, Mode, Left, Wire!Cut

LEMMA WireStep ==
  ASSUME IInv, [Next]_vars
  PROVE  [Wire!ChunkNext]_Wire!cvars
<1>1. CASE Recv
  BY <1>1, ReceiveStutters, ReadingTakes, LineEnds DEF Recv, Wire!ChunkNext
<1>2. CASE Lost
  BY <1>2, LostCuts DEF Wire!ChunkNext
<1>3. CASE Read \/ Drain
  BY <1>3, ParserTakes DEF Wire!ChunkNext
<1>4. CASE Returned \/ UNCHANGED vars
  <2>1. UNCHANGED vars
    BY <1>4 DEF Returned
  <2> QED
    BY <2>1 DEF vars, number, Filled, At, Mode, Left, Wire!cvars
<1> QED
  BY <1>1, <1>2, <1>3, <1>4 DEF Next

-----------------------------------------------------------------------------
\* Every variable keeps its range: no segment overruns the buffer.
THEOREM ChunkTypeCorrect == Spec => []TypeOK
<1>1. IInv => TypeOK
  BY DEF IInv
<1> QED
  BY <1>1, ChunkInvariant, PTL

\* However the wire is cut into segments and whatever the length of the
\* buffer, the parser is given what reading byte by byte gives.
THEOREM ChunkSegmentation == Spec => Segmentation
BY WireInit, WireStep, ChunkInvariant, PTL DEF Spec, Segmentation, Wire!ChunkSpecification
-----------------------------------------------------------------------------
(* Delivery: where the reader is in the message, and what the parser has of it *)

\* The reader is at the k-th chunk: behind the one before, in the size, behind
\* the size, or in the data.
AtChunk(cs, k) ==
    \/ /\ Mode = "skip"
       /\ At \in From(cs, k) - 2 .. From(cs, k)
       /\ k = 1 => At = From(cs, k)
    \/ /\ Mode = "digits"
       /\ digits \in 1 .. Len(Digits(cs, k))
       /\ At = From(cs, k) + digits
       /\ \E v : Reads(Digits(cs, k), Len(cs[k]), v) /\ Left = v[digits]
    \/ /\ Mode = "line"
       /\ At = From(cs, k) + Len(Digits(cs, k)) + 1
       /\ Left = Len(cs[k])
    \/ /\ Mode = "data"
       /\ Left \in 1 .. Len(cs[k])
       /\ At = DataFrom(cs, k) + Len(cs[k]) - Left

Got(cs, k) == IF Mode = "data" THEN Len(cs[k]) - Left ELSE 0

\* A parser that has not had enough has the data of the chunks before and what
\* was read of this one.
HasAll(cs, k) ==
    ~ draining => out = DataUpto(cs)[k - 1] \o Part(cs, k, Got(cs, k))

Progress(cs) ==
    /\ Mode \notin {"end", "cut"} => \E k \in 1 .. Len(cs) : AtChunk(cs, k) /\ HasAll(cs, k)
    /\ Mode = "end" /\ ~ draining => out = DataOf(cs)
    /\ Begins(DataOf(cs), out)

LEMMA PartType ==
  ASSUME NEW cs \in Messages, NEW k \in 1 .. Len(cs), NEW m \in 0 .. Len(cs[k])
  PROVE  /\ Part(cs, k, m) \in Seq(Nat) /\ Len(Part(cs, k, m)) = m
         /\ DataFrom(cs, k) \in Nat
<1>1. From(cs, k) \in Nat /\ Len(Digits(cs, k)) \in Nat /\ Len(cs[k]) \in Nat
  BY Layout, DigitsType, MessageType
<1>2. DataFrom(cs, k) \in Nat
  BY <1>1 DEF DataFrom
<1> QED
  BY <1>1, <1>2 DEF Part, Run

LEMMA NoneYet ==
  ASSUME NEW cs \in Messages, NEW k \in 1 .. Len(cs)
  PROVE  /\ DataUpto(cs)[k - 1] \in Seq(Nat)
         /\ DataUpto(cs)[k - 1] \o Part(cs, k, 0) = DataUpto(cs)[k - 1]
<1>1. k - 1 \in 0 .. Len(cs)
  BY MessageType
<1>2. DataUpto(cs)[k - 1] \in Seq(Nat)
  BY <1>1, DataUptoIs
<1>3. Part(cs, k, 0) = <<>>
  BY DEF Part, Run
<1> QED
  BY <1>2, <1>3

LEMMA AllOfIt ==
  ASSUME NEW cs \in Messages, NEW k \in 1 .. Len(cs)
  PROVE  DataUpto(cs)[k - 1] \o Part(cs, k, Len(cs[k])) = DataUpto(cs)[k]
BY DataUptoIs

LEMMA PartBegins ==
  ASSUME NEW cs \in Messages, NEW k \in 1 .. Len(cs), NEW m \in 0 .. Len(cs[k])
  PROVE  /\ DataUpto(cs)[k - 1] \o Part(cs, k, m) \in Seq(Nat)
         /\ Begins(DataOf(cs), DataUpto(cs)[k - 1] \o Part(cs, k, m))
<1> DEFINE s == DataUpto(cs)[k - 1]
           p == Part(cs, k, m)
           q == Part(cs, k, Len(cs[k]))
<1>1. Len(cs[k]) \in Nat /\ Len(cs) \in Nat
  BY MessageType
<1>2. s \in Seq(Nat)
  BY NoneYet
<1>3. p \in Seq(Nat) /\ q \in Seq(Nat) /\ Len(p) = m /\ Len(q) = Len(cs[k])
  BY <1>1, PartType
<1>4. s \o q = DataUpto(cs)[k]
  BY AllOfIt
<1>5. \A i \in 1 .. m : q[i] = p[i]
  BY <1>1 DEF Part, Run
<1>6. k \in 0 .. Len(cs) /\ Len(cs) \in 0 .. Len(cs)
  BY <1>1
<1>7. Begins(DataOf(cs), s \o q) /\ DataOf(cs) \in Seq(Nat)
  BY <1>4, <1>6, DataUptoIs DEF DataOf
<1> HIDE DEF s, p, q
<1>8. s \o p \in Seq(Nat) /\ s \o q \in Seq(Nat)
  BY <1>2, <1>3
<1>9. Begins(s \o q, s \o p)
  <2>1. Len(s \o p) <= Len(s \o q)
    BY <1>1, <1>2, <1>3
  <2>2. \A i \in 1 .. Len(s \o p) : (s \o q)[i] = (s \o p)[i]
    BY <1>1, <1>2, <1>3, <1>5
  <2> QED
    BY <2>1, <2>2 DEF Begins
<1>10. Begins(DataOf(cs), s \o p)
  BY <1>7, <1>8, <1>9, BeginsTransitive
<1> QED
  BY <1>8, <1>10 DEF s, p

LEMMA RunOn ==
  ASSUME NEW s \in Seq(Nat), NEW a \in Nat, NEW m \in Nat, NEW j \in Nat
  PROVE  (s \o Run(a, m)) \o Run(a + m, j) = s \o Run(a, m + j)
<1> DEFINE p == [i \in 1 .. m |-> a + i]
           q == [i \in 1 .. j |-> (a + m) + i]
           r == [i \in 1 .. m + j |-> a + i]
<1>1. p \in Seq(Nat) /\ q \in Seq(Nat) /\ r \in Seq(Nat)
  OBVIOUS
<1>2. Len(p) = m /\ Len(q) = j /\ Len(r) = m + j
  OBVIOUS
<1>3. p \o q \in Seq(Nat) /\ Len(p \o q) = m + j
  BY <1>1, <1>2
<1>4. ASSUME NEW i \in 1 .. m + j PROVE (p \o q)[i] = r[i]
  <2>1. CASE i <= m
    BY <1>1, <1>2, <2>1
  <2>2. CASE i > m
    BY <1>1, <1>2, <2>2
  <2> QED
    BY <2>1, <2>2
<1>5. p \o q = r
  BY <1>1, <1>2, <1>3, <1>4
<1>6. (s \o p) \o q = s \o (p \o q)
  BY <1>1, ConcatAssociative
<1> QED
  BY <1>5, <1>6 DEF Run

\* The next bytes of a chunk go on with what was read of it.
LEMMA ReadsOn ==
  ASSUME NEW cs \in Messages, NEW k \in 1 .. Len(cs), NEW m \in Nat, NEW j \in Nat
  PROVE  (DataUpto(cs)[k - 1] \o Part(cs, k, m)) \o Run(DataFrom(cs, k) + m, j)
           = DataUpto(cs)[k - 1] \o Part(cs, k, m + j)
<1>1. DataUpto(cs)[k - 1] \in Seq(Nat)
  BY NoneYet
<1>2. DataFrom(cs, k) \in Nat
  <2>1. 0 \in 0 .. Len(cs[k])
    BY MessageType
  <2> QED
    BY <2>1, PartType
<1>3. \A s \in Seq(Nat), a \in Nat, x \in Nat, y \in Nat :
          (s \o Run(a, x)) \o Run(a + x, y) = s \o Run(a, x + y)
  BY ONLY RunOn
<1>4. m \in Nat /\ j \in Nat
  OBVIOUS
<1>5. (DataUpto(cs)[k - 1] \o Run(DataFrom(cs, k), m)) \o Run(DataFrom(cs, k) + m, j)
        = DataUpto(cs)[k - 1] \o Run(DataFrom(cs, k), m + j)
  BY ONLY <1>1, <1>2, <1>3, <1>4, Zenon
<1> QED
  BY ONLY <1>5 DEF Part

LEMMA LineBytes ==
  ASSUME NEW cs \in Messages, NEW k \in 1 .. Len(cs), wire = Message(cs),
         wire' = wire, AtChunk(cs, k), At < Len(wire)
  PROVE  LET b == wire[At + 1]
             l == Len(Digits(cs, k))
         IN  /\ Mode = "skip" => /\ At = From(cs, k) => b = Digits(cs, k)[1]
                                 /\ At # From(cs, k) => b \in {Lf, Other}
             /\ Mode = "digits" => /\ digits < l => b = Digits(cs, k)[digits + 1]
                                   /\ digits = l => b = Other
             /\ Mode = "line" => b = Lf
             /\ \A i \in 1 .. l : Digits(cs, k)[i] \in Digit
             /\ Digit \subseteq Nat /\ {Lf, Other} \cap Digit = {}
             /\ From(cs, k) \in Nat /\ l \in 1 .. MaxDigits
<1> DEFINE l == Len(Digits(cs, k))
           o == From(cs, k)
<1>1. /\ o \in Nat /\ l \in 1 .. MaxDigits /\ Digits(cs, k) \in Seq(Digit)
      /\ \A i \in 1 .. l : wire[o + i] = Digits(cs, k)[i]
      /\ wire[o + l + 1] = Other /\ wire[o + l + 2] = Lf
  BY Layout, DigitsType
<1>2. Digit \subseteq Nat /\ {Lf, Other} \cap Digit = {}
  BY DEF Digit
<1>3. \A i \in 1 .. l : Digits(cs, k)[i] \in Digit
  BY <1>1
<1>4. ASSUME Mode = "skip"
      PROVE  /\ At = o => wire[At + 1] = Digits(cs, k)[1]
             /\ At # o => wire[At + 1] \in {Lf, Other}
  <2>1. At \in o - 2 .. o /\ (k = 1 => At = o)
    BY <1>4 DEF AtChunk
  <2>2. ASSUME At # o PROVE wire[At + 1] \in {Lf, Other}
    <3>1. PICK j \in 1 .. Len(cs) : j < Len(cs) /\ j + 1 = k
      <4>1. k - 1 \in 1 .. Len(cs) /\ k - 1 < Len(cs) /\ (k - 1) + 1 = k
        BY <2>1, <2>2, MessageType
      <4> QED
        BY ONLY <4>1
    <3>2. wire[From(cs, j + 1) - 1] = Other /\ wire[From(cs, j + 1)] = Lf
      BY <3>1, Layout
    <3>3. wire[o - 1] = Other /\ wire[o] = Lf
      BY <3>1, <3>2
    <3>4. o \in Nat
      BY <1>1
    <3>5. At + 1 = o - 1 \/ At + 1 = o
      BY ONLY <3>4, <2>1, <2>2
    <3> QED
      BY <3>3, <3>5
  <2>3. ASSUME At = o PROVE wire[At + 1] = Digits(cs, k)[1]
    BY <1>1, <2>3
  <2> QED
    BY <2>2, <2>3
<1>5. ASSUME Mode = "digits"
      PROVE  /\ digits < l => wire[At + 1] = Digits(cs, k)[digits + 1]
             /\ digits = l => wire[At + 1] = Other
  <2>1. digits \in 1 .. l /\ At = o + digits
    BY <1>5 DEF AtChunk
  <2>2. At + 1 = o + (digits + 1)
    BY <1>1, <2>1
  <2>3. digits < l => digits + 1 \in 1 .. l
    BY <1>1, <2>1
  <2>4. digits = l => At + 1 = o + l + 1
    BY <1>1, <2>1
  <2> QED
    BY <1>1, <2>2, <2>3, <2>4
<1>6. ASSUME Mode = "line" PROVE wire[At + 1] = Lf
  <2>1. At + 1 = o + l + 2
    BY <1>1, <1>6 DEF AtChunk
  <2> QED
    BY <1>1, <2>1
<1> QED
  BY <1>1, <1>2, <1>3, <1>4, <1>5, <1>6

\* A step in a size line that stays at its chunk.
LEMMA StaysAtChunk ==
  ASSUME NEW cs \in Messages, NEW k \in 1 .. Len(cs), Progress(cs), HasAll(cs, k),
         Mode \in {"skip", "digits", "line"},
         Mode' \in {"skip", "digits", "line"},
         draining' = draining, out' = out, AtChunk(cs, k)'
  PROVE  Progress(cs)'
<1>1. Got(cs, k) = 0 /\ Got(cs, k)' = 0
  BY DEF Got
<1>2. HasAll(cs, k)'
  BY <1>1 DEF HasAll
<1> QED
  BY <1>2 DEF Progress

LEMMA BetweenProgress ==
  ASSUME NEW cs \in Messages, wire = Message(cs), Progress(cs), Wire!Between
  PROVE  Progress(cs)'
<1>1. /\ Mode = "skip" /\ Mode' = "skip" /\ At < Len(wire) /\ At' = At + 1
      /\ wire' = wire /\ draining' = draining /\ out' = out /\ wire[At + 1] \notin Digit
  BY DEF Wire!Between, Wire!Take, Wire!Byte, Wire!Digit, Digit
<1>2. PICK k \in 1 .. Len(cs) : AtChunk(cs, k) /\ HasAll(cs, k)
  BY <1>1 DEF Progress
<1>3. At # From(cs, k) /\ From(cs, k) \in Nat
  BY <1>1, <1>2, LineBytes
<1>4. AtChunk(cs, k)'
  BY <1>1, <1>2, <1>3 DEF AtChunk
<1> QED
  BY <1>1, <1>2, <1>4, StaysAtChunk

LEMMA FirstDigitProgress ==
  ASSUME NEW cs \in Messages, wire = Message(cs), Progress(cs), Wire!FirstDigit
  PROVE  Progress(cs)'
<1>1. /\ Mode = "skip" /\ Mode' = "digits" /\ At < Len(wire) /\ At' = At + 1
      /\ wire' = wire /\ draining' = draining /\ out' = out /\ wire[At + 1] \in Digit
      /\ Left' = wire[At + 1] /\ digits' = 1
  BY DEF Wire!FirstDigit, Wire!Take, Wire!Byte, Wire!Digit, Digit
<1>2. PICK k \in 1 .. Len(cs) : AtChunk(cs, k) /\ HasAll(cs, k)
  BY <1>1 DEF Progress
<1>3. /\ At = From(cs, k) /\ From(cs, k) \in Nat /\ Len(Digits(cs, k)) \in 1 .. MaxDigits
      /\ Left' = Digits(cs, k)[1] /\ Digits(cs, k)[1] \in Nat
  BY <1>1, <1>2, LineBytes
<1>4. PICK v : Reads(Digits(cs, k), Len(cs[k]), v)
  BY DigitsType
<1>5. v[1] = Digits(cs, k)[1]
  BY <1>3, <1>4 DEF Reads
<1>6. AtChunk(cs, k)'
  BY <1>1, <1>3, <1>4, <1>5 DEF AtChunk
<1> QED
  BY <1>1, <1>2, <1>6, StaysAtChunk

LEMMA NextDigitProgress ==
  ASSUME NEW cs \in Messages, wire = Message(cs), Progress(cs), Wire!NextDigit
  PROVE  Progress(cs)'
<1>1. /\ Mode = "digits" /\ Mode' = "digits" /\ At < Len(wire) /\ At' = At + 1
      /\ wire' = wire /\ draining' = draining /\ out' = out /\ wire[At + 1] \in Digit
      /\ Left' = Left * Base + wire[At + 1] /\ digits' = digits + 1
  BY DEF Wire!NextDigit, Wire!Take, Wire!Byte, Wire!Digit, Digit
<1>2. PICK k \in 1 .. Len(cs) : AtChunk(cs, k) /\ HasAll(cs, k)
  BY <1>1 DEF Progress
<1>3. PICK v : Reads(Digits(cs, k), Len(cs[k]), v) /\ Left = v[digits]
  BY <1>1, <1>2 DEF AtChunk
<1>4. digits \in 1 .. Len(Digits(cs, k)) /\ At = From(cs, k) + digits
  BY <1>1, <1>2 DEF AtChunk
<1>5. /\ digits < Len(Digits(cs, k)) /\ wire[At + 1] = Digits(cs, k)[digits + 1]
      /\ From(cs, k) \in Nat /\ Len(Digits(cs, k)) \in Nat
  <2>1. From(cs, k) \in Nat /\ Len(Digits(cs, k)) \in Nat
    BY DigitsType, Layout
  <2>2. digits < Len(Digits(cs, k)) => wire[At + 1] = Digits(cs, k)[digits + 1]
    BY <1>1, <1>2, LineBytes
  <2>3. digits = Len(Digits(cs, k)) => wire[At + 1] = Other /\ Other \notin Digit
    BY <1>1, <1>2, LineBytes
  <2>4. digits # Len(Digits(cs, k))
    BY <1>1, <2>3
  <2> QED
    BY <1>4, <2>1, <2>2, <2>4
<1>6. digits + 1 \in 1 .. Len(Digits(cs, k)) /\ (digits + 1) - 1 = digits
  BY <1>4, <1>5
<1>7. v[digits + 1] = Left'
  BY <1>1, <1>3, <1>5, <1>6 DEF Reads
<1>8. At' = From(cs, k) + digits'
  BY <1>1, <1>4, <1>5
<1>9. AtChunk(cs, k)'
  BY <1>1, <1>3, <1>6, <1>7, <1>8 DEF AtChunk
<1> QED
  BY <1>1, <1>2, <1>9, StaysAtChunk

LEMMA ExtensionProgress ==
  ASSUME NEW cs \in Messages, wire = Message(cs), Progress(cs), Wire!Extension
  PROVE  Progress(cs)'
<1>1. /\ Mode \in {"digits", "line"} /\ Mode' = "line" /\ At < Len(wire) /\ At' = At + 1
      /\ wire' = wire /\ draining' = draining /\ out' = out /\ Left' = Left
      /\ wire[At + 1] # Lf
      /\ Mode = "digits" => ~ (wire[At + 1] \in Digit /\ digits < MaxDigits)
  BY DEF Wire!Extension, Wire!Take, Wire!Byte, Wire!Digit, Digit
<1>2. PICK k \in 1 .. Len(cs) : AtChunk(cs, k) /\ HasAll(cs, k)
  BY <1>1 DEF Progress
<1>3. Mode = "digits" /\ From(cs, k) \in Nat /\ Len(Digits(cs, k)) \in 1 .. MaxDigits
  BY <1>1, <1>2, LineBytes
<1>4. PICK v : Reads(Digits(cs, k), Len(cs[k]), v) /\ Left = v[digits]
  BY <1>2, <1>3 DEF AtChunk
<1>5. digits \in 1 .. Len(Digits(cs, k)) /\ At = From(cs, k) + digits
  BY <1>2, <1>3 DEF AtChunk
<1>6. digits = Len(Digits(cs, k))
  <2>1. SUFFICES ASSUME digits < Len(Digits(cs, k)) PROVE FALSE
    BY <1>3, <1>5
  <2>2. digits + 1 \in 1 .. Len(Digits(cs, k)) /\ digits < MaxDigits
    BY <1>3, <1>5, <2>1
  <2>3. wire[At + 1] \in Digit
    BY <1>1, <1>2, <1>3, <2>1, <2>2, LineBytes
  <2> QED
    BY <1>1, <1>3, <2>2, <2>3
<1>7. Left = Len(cs[k])
  BY <1>4, <1>6 DEF Reads
<1>8. At' = From(cs, k) + Len(Digits(cs, k)) + 1
  BY <1>1, <1>5, <1>6
<1>9. AtChunk(cs, k)'
  BY <1>1, <1>7, <1>8 DEF AtChunk
<1> QED
  BY <1>1, <1>2, <1>9, StaysAtChunk

LEMMA EndOfLineProgress ==
  ASSUME NEW cs \in Messages, wire = Message(cs), Progress(cs), Wire!EndOfLine
  PROVE  Progress(cs)'
<1>1. /\ Mode \in {"digits", "line"} /\ At < Len(wire) /\ wire[At + 1] = Lf
      /\ Mode' = (IF Left = 0 THEN "end" ELSE "data")
      /\ At' = (IF Left = 0 THEN Len(wire) ELSE At + 1)
      /\ wire' = wire /\ draining' = draining /\ out' = out /\ Left' = Left
  BY DEF Wire!EndOfLine, Wire!Byte
<1>2. PICK k \in 1 .. Len(cs) : AtChunk(cs, k) /\ HasAll(cs, k)
  BY <1>1 DEF Progress
<1>3. Mode = "line"
  <2>1. SUFFICES ASSUME Mode = "digits" PROVE FALSE
    BY <1>1
  <2>2. digits \in 1 .. Len(Digits(cs, k))
    BY <1>2, <2>1 DEF AtChunk
  <2>3. Len(Digits(cs, k)) \in Nat /\ Lf \notin Digit
    BY <1>1, <1>2, LineBytes
  <2>4. CASE digits < Len(Digits(cs, k))
    <3>1. digits + 1 \in 1 .. Len(Digits(cs, k))
      BY <2>2, <2>3, <2>4
    <3>2. wire[At + 1] = Digits(cs, k)[digits + 1] /\ Digits(cs, k)[digits + 1] \in Digit
      BY <1>1, <1>2, <2>1, <2>4, <3>1, LineBytes
    <3> QED
      BY <1>1, <2>3, <3>2
  <2>5. CASE digits = Len(Digits(cs, k))
    BY <1>1, <1>2, <2>1, <2>5, LineBytes
  <2> QED
    BY <2>2, <2>3, <2>4, <2>5
<1>4. /\ At = From(cs, k) + Len(Digits(cs, k)) + 1 /\ Left = Len(cs[k])
      /\ From(cs, k) \in Nat /\ Len(Digits(cs, k)) \in Nat /\ Len(cs[k]) \in Nat
  BY <1>1, <1>2, <1>3, LineBytes, MessageType DEF AtChunk
<1>5. ~ draining => out = DataUpto(cs)[k - 1]
  BY <1>2, <1>3, NoneYet DEF HasAll, Got
<1>6. CASE Left = 0
  <2>1. k = Len(cs)
    BY <1>4, <1>6, MessageType
  <2>2. DataUpto(cs)[k - 1] = DataUpto(cs)[k]
    BY <1>4, <1>6, NoneYet, AllOfIt
  <2>3. ~ draining => out = DataOf(cs)
    BY <1>5, <2>1, <2>2 DEF DataOf
  <2> QED
    BY <1>1, <1>6, <2>3 DEF Progress
<1>7. CASE Left # 0
  <2>1. Mode' = "data" /\ At' = At + 1
    BY <1>1, <1>7
  <2>2. AtChunk(cs, k)'
    BY <1>1, <1>4, <1>7, <2>1 DEF AtChunk, DataFrom
  <2>3. Got(cs, k)' = 0
    BY <1>1, <1>4, <2>1 DEF Got
  <2>4. HasAll(cs, k)'
    BY <1>1, <1>5, <2>3, NoneYet DEF HasAll
  <2> QED
    BY <1>1, <2>1, <2>2, <2>4 DEF Progress
<1> QED
  BY <1>6, <1>7

LEMMA DataProgress ==
  ASSUME NEW cs \in Messages, wire = Message(cs), Progress(cs), Wire!Data
  PROVE  Progress(cs)'
<1>1. PICK j \in 1 .. Left :
          /\ At' = At + j /\ Left' = Left - j
          /\ Mode' = IF Left = j THEN "skip" ELSE "data"
          /\ out' = IF draining' THEN out ELSE out \o [i \in 1 .. j |-> At + i]
  BY DEF Wire!Data
<1>2. Mode = "data" /\ wire' = wire /\ draining' \in {draining, TRUE}
  BY DEF Wire!Data
<1>3. PICK k \in 1 .. Len(cs) : AtChunk(cs, k) /\ HasAll(cs, k)
  BY <1>2 DEF Progress
<1> DEFINE n == Len(cs[k])
           b == DataFrom(cs, k)
           s == DataUpto(cs)[k - 1]
<1>4. n \in Nat /\ b \in Nat /\ s \in Seq(Nat) /\ Len(cs) \in Nat
  <2>1. n \in Nat /\ Len(cs) \in Nat
    BY MessageType
  <2>2. b \in Nat
    BY <2>1, PartType
  <2> QED
    BY <2>1, <2>2, NoneYet
<1>5. Left \in 1 .. n /\ At = b + n - Left
  BY <1>2, <1>3 DEF AtChunk
<1>6. Got(cs, k) = n - Left
  BY <1>2 DEF Got
<1> DEFINE m == n - Left
<1> HIDE DEF n, b, s
<1>7. m \in Nat /\ j \in Nat /\ m + j \in 1 .. n /\ At = b + m
  BY <1>1, <1>4, <1>5
<1>12. Got(cs, k) = m /\ n - Left = m
  BY <1>6 DEF n
<1> HIDE DEF m
<1>8. ASSUME ~ draining' PROVE out' = s \o Part(cs, k, m + j)
  <2>1. ~ draining
    BY <1>2, <1>8, Zenon
  <2>2. out' = out \o Run(b + m, j)
    BY <1>1, <1>7, <1>8 DEF Run
  <2>3. out = s \o Part(cs, k, m)
    BY <1>3, <1>12, <2>1 DEF HasAll, s
  <2>4. m \in Nat /\ j \in Nat /\ cs \in Messages /\ k \in 1 .. Len(cs)
    BY <1>7
  <2>5. (s \o Part(cs, k, m)) \o Run(b + m, j) = s \o Part(cs, k, m + j)
    BY ONLY <2>4, ReadsOn, Zenon DEF s, b
  <2> QED
    BY <2>2, <2>3, <2>5
<1>9. Begins(DataOf(cs), out')
  <2>1. CASE draining'
    BY <1>1, <2>1 DEF Progress
  <2>2. CASE ~ draining'
    <3>1. m + j \in 0 .. Len(cs[k])
      BY <1>4, <1>7, <1>5 DEF n
    <3>2. out' = DataUpto(cs)[k - 1] \o Part(cs, k, m + j)
      BY <1>8, <2>2 DEF s
    <3> QED
      BY <3>1, <3>2, PartBegins
  <2> QED
    BY <2>1, <2>2
<1>10. CASE j = Left
  <2>1. Mode' = "skip" /\ m + j = n /\ At' = b + n /\ n # 0
    BY <1>1, <1>4, <1>5, <1>10, <1>12
  <2>2. k + 1 \in 1 .. Len(cs) /\ k < Len(cs) /\ (k + 1) - 1 = k
    BY <1>4, <2>1, MessageType DEF n
  <2>3. From(cs, k + 1) = b + n + 2
    BY <2>2, Layout DEF b, n
  <2>4. AtChunk(cs, k + 1)'
    BY <1>4, <2>1, <2>2, <2>3 DEF AtChunk
  <2>5. ~ draining' => out' = DataUpto(cs)[k]
    BY <1>8, <2>1, AllOfIt DEF s, n
  <2>6. DataUpto(cs)[(k + 1) - 1] \o Part(cs, k + 1, 0) = DataUpto(cs)[k]
    BY <2>2, NoneYet
  <2>7. Got(cs, k + 1)' = 0
    BY <2>1 DEF Got
  <2>8. HasAll(cs, k + 1)'
    BY <2>5, <2>6, <2>7 DEF HasAll
  <2> QED
    BY <1>9, <2>1, <2>2, <2>4, <2>8 DEF Progress
<1>11. CASE j # Left
  <2>1. Mode' = "data" /\ Left' = Left - j /\ Left' \in 1 .. n /\ At' = b + n - Left'
    BY <1>1, <1>4, <1>5, <1>11
  <2>2. AtChunk(cs, k)'
    BY <2>1 DEF AtChunk, n, b
  <2>3. Got(cs, k)' = m + j
    <3>1. Got(cs, k)' = n - Left'
      BY <2>1 DEF Got, n
    <3> QED
      BY <1>1, <1>4, <1>5, <1>12, <3>1
  <2>4. HasAll(cs, k)'
    BY <1>8, <2>3 DEF HasAll, s
  <2> QED
    BY <1>9, <2>1, <2>2, <2>4 DEF Progress
<1> QED
  BY <1>10, <1>11

LEMMA ProgressStep ==
  ASSUME NEW cs \in Messages, wire = Message(cs), Progress(cs), [Wire!ChunkNext]_Wire!cvars
  PROVE  Progress(cs)'
<1>1. CASE Wire!Cut
  <2>1. Mode' = "cut" /\ out' = out
    BY <1>1 DEF Wire!Cut
  <2> QED
    BY <2>1 DEF Progress
<1>2. CASE UNCHANGED Wire!cvars
  <2>1. At' = At /\ Mode' = Mode /\ Left' = Left /\ digits' = digits
           /\ draining' = draining /\ out' = out
    BY <1>2 DEF Wire!cvars
  <2> QED
    BY <2>1 DEF Progress, AtChunk, HasAll, Got
<1> QED
  BY <1>1, <1>2, BetweenProgress, FirstDigitProgress, NextDigitProgress,
     ExtensionProgress, EndOfLineProgress, DataProgress DEF Wire!ChunkNext

LEMMA ProgressInit ==
  ASSUME NEW cs \in Messages, Wire!Begin
  PROVE  Progress(cs)
<1>1. Mode = "skip" /\ At = 0 /\ out = <<>>
  BY DEF Wire!Begin
<1>2. 1 \in 1 .. Len(cs) /\ 0 \in 0 .. Len(cs) /\ Len(cs) \in 0 .. Len(cs)
  BY MessageType
<1>3. From(cs, 1) = 0
  <2>1. 1 - 1 = 0 /\ Len(<<>>) = 0
    OBVIOUS
  <2>2. Upto(cs)[1 - 1] = <<>>
    BY <2>1, UptoIs
  <2> QED
    BY <2>1, <2>2 DEF From
<1>4. AtChunk(cs, 1)
  BY <1>1, <1>3 DEF AtChunk
<1>5. out = DataUpto(cs)[0]
  BY <1>1, DataUptoIs
<1>6. HasAll(cs, 1)
  BY <1>1, <1>2, <1>5, NoneYet DEF HasAll, Got
<1>7. Begins(DataOf(cs), out)
  BY <1>2, <1>5, DataUptoIs DEF DataOf
<1> QED
  BY <1>1, <1>2, <1>4, <1>6, <1>7 DEF Progress

Sent == chunks \in Messages /\ wire = Message(chunks)

LEMMA SentKept == Next => UNCHANGED sent
<1>1. Recv => UNCHANGED sent
  BY DEF Recv, Direct, Fill, Resume, Refill, Skip, First, Another, Rest, Reading,
         LastChunk, WholeChunk, PartOfChunk, GetChar, sent
<1>2. Lost => UNCHANGED sent
  BY DEF Lost, DirectEof, FillEof, RefillEof, Eof, sent
<1> QED
  BY <1>1, <1>2 DEF Next, Read, Drain, Returned, vars, sent

LEMMA DeliveryInit == Init => Sent /\ Progress(chunks)
<1> SUFFICES ASSUME Init PROVE Sent /\ Progress(chunks)
  OBVIOUS
<1>1. Sent
  BY DEF Init, Sent
<1>2. Wire!Begin
  BY WireInit
<1> QED
  BY <1>1, <1>2, ProgressInit DEF Sent

LEMMA DeliveryStep ==
  ASSUME IInv, Sent, Progress(chunks), [Next]_vars
  PROVE  Sent' /\ Progress(chunks)'
<1>1. chunks' = chunks /\ wire' = wire
  BY SentKept DEF sent, vars
<1>2. PICK cs : cs = chunks
  OBVIOUS
<1>3. cs \in Messages /\ wire = Message(cs)
  BY <1>2 DEF Sent
<1>4. Progress(cs)
  BY <1>2 DEF Progress, AtChunk, HasAll, Got
<1>5. Progress(cs)'
  BY <1>3, <1>4, WireStep, ProgressStep
<1>6. chunks' = cs
  BY <1>1, <1>2
<1>7. Progress(chunks)'
  BY <1>5, <1>6 DEF Progress, AtChunk, HasAll, Got
<1> QED
  BY <1>1, <1>7 DEF Sent

\* However the wire is cut into segments, and whatever the length of the
\* buffer and the digits of the sizes, the parser is given the bytes that the
\* peer put into the chunks, in order, none twice and none missing up to where
\* it stopped; at the end of the message it has them all.
THEOREM ChunkPayload == Spec => []PayloadDelivered
<1>1. Spec => [](IInv /\ Sent /\ Progress(chunks))
  BY ChunkInvariant, DeliveryInit, DeliveryStep, PTL DEF Spec
<1>2. IInv /\ Sent /\ Progress(chunks) => PayloadDelivered
  <2> SUFFICES ASSUME IInv, Sent, Progress(chunks) PROVE PayloadDelivered
    OBVIOUS
  <2>1. out \in Seq(Nat)
    <3>1. out \in Seq(1 .. Len(wire)) /\ Len(wire) \in Nat
      BY WireLength DEF IInv, TypeOK
    <3> QED
      BY <3>1
  <2>2. DataOf(chunks) \in Seq(Nat)
    <3>1. Len(chunks) \in 0 .. Len(chunks)
      BY MessageType DEF Sent
    <3> QED
      BY <3>1, DataUptoIs DEF Sent, DataOf
  <2>3. IsPrefix(out, DataOf(chunks))
    BY <2>1, <2>2, BeginsIsPrefix DEF Progress
  <2>4. ASSUME pc = "end", ~ draining PROVE out = DataOf(chunks)
    BY <2>4 DEF Progress, Mode
  <2> QED
    BY <2>3, <2>4 DEF PayloadDelivered
<1> QED
  BY <1>1, <1>2, PTL
-----------------------------------------------------------------------------
(* Progress of the loop *)

\* The reader is on the wire.
LEMMA AtRange == IInv => At \in 0 .. Len(wire) /\ Len(wire) \in Nat
<1> SUFFICES ASSUME IInv PROVE At \in 0 .. Len(wire) /\ Len(wire) \in Nat
  OBVIOUS
<1>1. Len(wire) \in Nat /\ got \in 0 .. Len(wire)
  BY WireLength DEF IInv, TypeOK
<1>2. CASE ~ Mid
  BY <1>1, <1>2 DEF At, Mid
<1>3. CASE Mid
  <2>1. bufidx <= buflen /\ buflen <= Filled /\ Filled - bufidx <= got
    BY <1>3 DEF IInv, Marks
  <2>2. bufidx \in Nat /\ buflen \in Nat /\ Filled \in Nat
    BY FilledType DEF IInv, TypeOK
  <2> QED
    BY <1>1, <1>3, <2>1, <2>2 DEF At, Mid
<1> QED
  BY <1>2, <1>3

\* A step of the reader of single bytes takes at least one of them, or is its last.
LEMMA WireAdvances ==
  ASSUME IInv, Wire!ChunkNext
  PROVE  /\ wire' = wire
         /\ At' >= At + 1 \/ (Mode' \in {"end", "cut"} /\ At' = Len(wire))
<1>1. At \in Nat /\ Left \in Int
  BY AtRange DEF IInv, TypeOK, Left
<1>2. CASE Wire!Between \/ Wire!FirstDigit \/ Wire!NextDigit \/ Wire!Extension
  BY <1>1, <1>2 DEF Wire!Between, Wire!FirstDigit, Wire!NextDigit, Wire!Extension, Wire!Take
<1>3. CASE Wire!EndOfLine
  BY <1>1, <1>3 DEF Wire!EndOfLine
<1>4. CASE Wire!Data
  BY <1>1, <1>4 DEF Wire!Data
<1>5. CASE Wire!Cut
  BY <1>5 DEF Wire!Cut
<1> QED
  BY <1>2, <1>3, <1>4, <1>5 DEF Wire!ChunkNext

LEMMA StepAdvances ==
  ASSUME IInv, IInv', Next, vars' # vars
  PROVE  ToGo' \in 0 .. ToGo - 1
<1> DEFINE Calls == IF pc = "recv" THEN 2 ELSE IF pc \in {"end", "eof"} THEN 0 ELSE 1
<1>1. /\ At \in Nat /\ Len(wire) \in Nat /\ At <= Len(wire)
      /\ got \in Nat /\ got <= Len(wire)
  <2>1. At \in 0 .. Len(wire) /\ Len(wire) \in Nat
    BY AtRange
  <2>2. got \in 0 .. Len(wire)
    BY DEF IInv, TypeOK
  <2> QED
    BY ONLY <2>1, <2>2
<1>2. wire' = wire
  BY SentKept DEF sent
<1>3. /\ At' \in Nat /\ At' <= Len(wire) /\ got' \in Nat /\ got' <= Len(wire)
  <2>1. (At \in 0 .. Len(wire) /\ Len(wire) \in Nat)'
    BY AtRange, PTL
  <2>2. got' \in 0 .. Len(wire')
    BY DEF IInv, TypeOK
  <2> QED
    BY <1>1, <1>2, <2>1, <2>2
<1>4. ToGo = 2 * (Len(wire) - At) + (Len(wire) - got) + Calls
  BY DEF ToGo
<1>5. ToGo' = 2 * (Len(wire) - At') + (Len(wire) - got') + Calls'
  BY <1>2 DEF ToGo
<1>6. Calls \in 0 .. 2 /\ Calls' \in 0 .. 2
  OBVIOUS
<1>7. SUFFICES ASSUME ToGo' \notin 0 .. ToGo - 1
               PROVE  \/ At' >= At + 1 /\ got' = got /\ Calls >= 1
                      \/ At' >= At /\ got' >= got + 1 /\ Calls' <= Calls
                      \/ At' >= At /\ got' = got /\ Calls' < Calls
  <2>1. ASSUME \/ At' >= At + 1 /\ got' = got /\ Calls >= 1
               \/ At' >= At /\ got' >= got + 1 /\ Calls' <= Calls
               \/ At' >= At /\ got' = got /\ Calls' < Calls
        PROVE  ToGo' \in 0 .. ToGo - 1
    <3> HIDE DEF Calls
    <3>1. PICK l, a, b, g, h, c, d :
              /\ l = Len(wire) /\ a = At /\ b = At' /\ g = got /\ h = got'
              /\ c = Calls /\ d = Calls'
      BY ONLY TRUE
    <3>2. l \in Nat /\ a \in 0 .. l /\ b \in 0 .. l /\ g \in 0 .. l /\ h \in 0 .. l
      BY ONLY <1>1, <1>3, <3>1
    <3>3. c \in 0 .. 2 /\ d \in 0 .. 2
      BY ONLY <1>6, <3>1
    <3>4. \/ b >= a + 1 /\ h = g /\ c >= 1
          \/ b >= a /\ h >= g + 1 /\ d <= c
          \/ b >= a /\ h = g /\ d < c
      BY ONLY <2>1, <3>1
    <3>5. (2 * (l - b)) + (l - h) + d \in 0 .. ((2 * (l - a)) + (l - g) + c) - 1
      BY ONLY <3>2, <3>3, <3>4
    <3>6. ToGo = (2 * (l - a)) + (l - g) + c /\ ToGo' = (2 * (l - b)) + (l - h) + d
      BY ONLY <1>4, <1>5, <3>1
    <3> QED
      BY ONLY <3>5, <3>6
  <2> QED
    BY <2>1
<1>8. CASE Direct \/ Fill \/ Refill
  <2>1. At' = At
    BY <1>8, ReceiveStutters DEF Wire!cvars
  <2>2. PICK n \in Nat \ {0} : Frecv(n)
    <3>1. CASE Direct
      <4>1. PICK n \in 1 .. Smaller(chunksize, BufLen) : Frecv(n)
        BY <3>1 DEF Direct
      <4>2. n \in Nat \ {0}
        BY <4>1 DEF Smaller, IInv, TypeOK
      <4> QED
        BY <4>1, <4>2
    <3>2. CASE Fill \/ Refill
      <4>1. PICK n \in 1 .. BufLen : Frecv(n)
        BY <3>2 DEF Fill, Refill
      <4> QED
        BY <4>1
    <3> QED
      BY <1>8, <3>1, <3>2
  <2>3. Calls' <= Calls
    BY <1>8 DEF Direct, Fill, Refill, InLine
  <2> QED
    BY <1>1, <2>1, <2>2, <2>3 DEF Frecv
<1>9. CASE Resume
  <2>1. At' = At
    BY <1>9, ReceiveStutters DEF Wire!cvars
  <2> QED
    BY <1>1, <1>9, <2>1 DEF Resume
<1>10. CASE Skip \/ First \/ Another \/ Rest
  <2>1. got' = got /\ pc' \in {"skip", "digits", "line"} /\ pc \in {"skip", "digits", "line"}
    BY <1>10 DEF Skip, First, Another, Rest, Reading, GetChar
  <2>2. At' >= At + 1
    BY <1>10, <2>1, ReadingTakes, WireAdvances DEF Mode
  <2> QED
    BY <2>1, <2>2
<1>11. CASE WholeChunk \/ PartOfChunk
  <2>1. got' = got /\ pc \in {"digits", "line"} /\ pc' \in {"full", "recv"}
    BY <1>11 DEF WholeChunk, PartOfChunk, Line, GetChar
  <2>2. At' >= At + 1
    BY <1>11, <2>1, LineEnds, WireAdvances DEF Mode, Wire!ChunkNext
  <2> QED
    BY <2>1, <2>2
<1>12. CASE Read \/ Drain
  <2>1. got' = got /\ pc = "full" /\ pc' \in {"full", "recv"}
    BY <1>12 DEF Read, Drain
  <2>2. At' >= At + 1
    BY <1>12, <2>1, ParserTakes, WireAdvances DEF Mode, Wire!ChunkNext
  <2> QED
    BY <2>1, <2>2
<1>13. CASE LastChunk \/ Lost
  <2>1. got' = got /\ pc \notin {"end", "eof"} /\ pc' \in {"end", "eof"}
    BY <1>13 DEF LastChunk, Line, Lost, DirectEof, FillEof, RefillEof, Eof, InLine
  <2>2. At' = Len(wire)
    BY <1>2, <2>1 DEF At
  <2> QED
    BY <1>1, <2>1, <2>2
<1>14. ~ Returned
  BY DEF Returned
<1> QED
  BY <1>8, <1>9, <1>10, <1>11, <1>12, <1>13, <1>14 DEF Next, Recv

\* Whatever the messages, the buffer and the segments, reading takes at most
\* three steps for each byte of the wire, and two.
THEOREM ChunkReadingAdvances == Spec => ReadingAdvances
<1>1. IInv /\ IInv' /\ [Next]_vars => [ToGo' \in 0 .. ToGo - 1]_vars
  BY StepAdvances
<1> QED
  BY <1>1, ChunkInvariant, PTL DEF Spec, ReadingAdvances
=============================================================================
