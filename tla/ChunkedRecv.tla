----------------------------- MODULE ChunkedRecv -----------------------------
(***************************************************************************)
(* Chunked transfer in stdsoap2.c: soap_recv_raw fills the context's       *)
(* buffer from frecv, which returns any number of bytes, finds the size    *)
(* line of the next chunk in it, wherever the segments were cut, and       *)
(* leaves the data of the chunk between bufidx and buflen.  The parser     *)
(* reads it from there, and soap_end_recv drains what it did not want.     *)
(*                                                                         *)
(* The buffer holds positions of the wire, so that a byte delivered twice, *)
(* never or in the wrong order is told apart.  Sizes fit their type, and   *)
(* no byte 0xFF occurs outside the chunks.                                 *)
(***************************************************************************)
EXTENDS Integers, Sequences, SequencesExt

CONSTANTS
    Base, MaxDigits, Lf, Other,
    BufLen,       \* SOAP_BUFLEN
    DataBytes,    \* the bytes that occur in the data of a chunk
    MaxChunks,    \* bound on the chunks of a message
    MaxPayload    \* bound on the bytes of a message

ASSUME BaseAssumption == Base \in Nat \ {0, 1}
ASSUME MaxDigitsAssumption == MaxDigits \in Nat \ {0}
ASSUME SymbolAssumption == Lf \notin Int /\ Other \notin Int /\ Lf # Other
ASSUME BufLenAssumption == BufLen \in Nat \ {0}
ASSUME BoundsAssumption == MaxChunks \in Nat /\ MaxPayload \in Nat

VARIABLES
    chunks,       \* what the peer means to send: data, and an empty chunk at the end
    wire,         \* the bytes the peer sends: a response after its header
    got,          \* how many of them frecv has returned
    buf,          \* soap->buf: positions on the wire
    bufidx, buflen, chunkbuflen, chunksize,   \* fields of the context
    ahead,        \* soap->ahead is EOF
    pc,           \* where soap_recv_raw is, or that the parser has the data
    size,         \* the digits collected in tmp, as a number
    digits,       \* t - tmp
    draining,     \* soap_end_recv calls, not the parser
    out           \* what the parser has read

vars == <<chunks, wire, got, buf, bufidx, buflen, chunkbuflen, chunksize, ahead, pc,
          size, digits, draining, out>>
number == <<size, digits>>
sent == <<chunks, wire>>

Digit == 0 .. Base - 1
Stages == {"recv", "skip", "digits", "line", "full", "end", "eof"}

-----------------------------------------------------------------------------
(* Messages *)

\* n in digits, most significant first.
Hex[n \in 0 .. MaxPayload] ==
    IF n < Base THEN <<n>> ELSE Append(Hex[n \div Base], n % Base)

\* No size is longer than what tmp holds.
ASSUME SizesFit == \A n \in 0 .. MaxPayload : Len(Hex[n]) <= MaxDigits

SizeLine(data) == Hex[Len(data)] \o <<Other, Lf>>

Chunk(data) == SizeLine(data) \o data \o <<Other, Lf>>

\* The wire up to the end of each chunk
Upto(cs) ==
    LET upto[k \in 0 .. Len(cs)] ==
            IF k = 0 THEN <<>> ELSE upto[k - 1] \o Chunk(cs[k])
    IN  upto

Message(cs) == Upto(cs)[Len(cs)]

\* The places on the wire of the data of the k-th chunk, and of the first k.
Places(cs, k) ==
    [i \in 1 .. Len(cs[k]) |-> Len(Upto(cs)[k - 1]) + Len(SizeLine(cs[k])) + i]

DataUpto(cs) ==
    LET data[k \in 0 .. Len(cs)] ==
            IF k = 0 THEN <<>> ELSE data[k - 1] \o Places(cs, k)
    IN  data

DataOf(cs) == DataUpto(cs)[Len(cs)]

\* Data may look like a size, or end a line.
ASSUME DataAssumption == DataBytes \subseteq Digit \cup {Lf, Other}

Payload(n) == [1 .. n -> DataBytes]
Payloads == UNION {Payload(n) : n \in 1 .. MaxPayload}

\* The empty chunk ends the message; behind it comes an empty trailer.
Messages ==
    {Append(m, <<>>) :
        m \in {m \in UNION {[1 .. k -> Payloads] : k \in 0 .. MaxChunks} :
                  FoldLeft(LAMBDA n, d : n + Len(d), 0, m) <= MaxPayload}}

-----------------------------------------------------------------------------
\* The buffer holds h bytes of the header, and behind them the beginning of
\* the body: soap_begin_recv sets chunkbuflen to the end of what it holds.
Start(h, n) ==
    /\ got = n
    /\ buf = [i \in 0 .. BufLen - 1 |-> IF i \in h .. h + n - 1 THEN i - h + 1 ELSE 0]
    /\ bufidx = h
    /\ buflen = h
    /\ chunkbuflen = h + n
    /\ chunksize = 0
    /\ ahead = FALSE
    /\ pc = "recv"
    /\ size = 0
    /\ digits = 0
    /\ draining = FALSE
    /\ out = <<>>

Init ==
    /\ chunks \in Messages
    /\ wire = Message(chunks)
    /\ \E h \in 1 .. BufLen, n \in 0 .. BufLen :
          n <= Len(wire) /\ h + n <= BufLen /\ Start(h, n)

\* The bytes in the buffer up to here came from the socket.
Filled == IF chunkbuflen > 0 THEN chunkbuflen ELSE buflen

Hexadecimal(c) == c \in Digit

\* frecv puts n of the next bytes at the start of the buffer.
Frecv(n) ==
    /\ got + n <= Len(wire)
    /\ got' = got + n
    /\ buf' = [i \in 0 .. BufLen - 1 |-> IF i < n THEN got + i + 1 ELSE buf[i]]

\* frecv returns 0: end of file, an error or a timeout.
Eof ==
    /\ ahead' = TRUE
    /\ pc' = "eof"
    /\ bufidx' = 0
    /\ UNCHANGED <<sent, got, buf, chunksize, number, draining, out>>

Smaller(a, b) == IF a < b THEN a ELSE b

-----------------------------------------------------------------------------
(* soap_recv_raw *)

\* Faulty: frecv is asked for the whole chunk.
DirectWhole ==
    /\ pc = "recv" /\ chunksize > 0
    /\ \E n \in 1 .. chunksize :
          /\ Frecv(n)
          /\ buflen' = n
          /\ chunksize' = chunksize - n
    /\ bufidx' = 0
    /\ pc' = "full"
    /\ UNCHANGED <<sent, chunkbuflen, ahead, number, draining, out>>

\* Inside a chunk: straight into the buffer, not beyond the chunk.
Direct ==
    /\ pc = "recv" /\ chunksize > 0
    /\ \E n \in 1 .. Smaller(chunksize, BufLen) :
          /\ Frecv(n)
          /\ buflen' = n
          /\ chunksize' = chunksize - n
    /\ bufidx' = 0
    /\ pc' = "full"
    /\ UNCHANGED <<sent, chunkbuflen, ahead, number, draining, out>>

DirectEof ==
    /\ pc = "recv" /\ chunksize > 0
    /\ Eof
    /\ buflen' = 0
    /\ UNCHANGED chunkbuflen

\* Nothing left in the buffer: fill it.
Fill ==
    /\ pc = "recv" /\ chunksize = 0 /\ chunkbuflen = 0
    /\ \E n \in 1 .. BufLen :
          /\ Frecv(n)
          /\ chunkbuflen' = n
          /\ buflen' = n
    /\ bufidx' = 0
    /\ pc' = "skip"
    /\ UNCHANGED <<sent, chunksize, ahead, number, draining, out>>

FillEof ==
    /\ pc = "recv" /\ chunksize = 0 /\ chunkbuflen = 0
    /\ Eof
    /\ UNCHANGED <<buflen, chunkbuflen>>

\* Faulty: what the parser has left of the last chunk is not skipped.
ResumeAtIdx ==
    /\ pc = "recv" /\ chunksize = 0 /\ chunkbuflen > 0
    /\ buflen' = chunkbuflen
    /\ pc' = "skip"
    /\ UNCHANGED <<sent, got, buf, bufidx, chunkbuflen, chunksize, ahead, number, draining, out>>

\* The next size line begins behind the chunk that was delivered.
Resume ==
    /\ pc = "recv" /\ chunksize = 0 /\ chunkbuflen > 0
    /\ bufidx' = buflen
    /\ buflen' = chunkbuflen
    /\ pc' = "skip"
    /\ UNCHANGED <<sent, got, buf, chunkbuflen, chunksize, ahead, number, draining, out>>

InLine == pc \in {"skip", "digits", "line"}

\* soap_getchunkchar at the end of the buffer.
Refill ==
    /\ InLine /\ bufidx >= buflen
    /\ \E n \in 1 .. BufLen :
          /\ Frecv(n)
          /\ buflen' = n
          /\ chunkbuflen' = n
    /\ bufidx' = 0
    /\ UNCHANGED <<sent, chunksize, ahead, pc, number, draining, out>>

RefillEof ==
    /\ InLine /\ bufidx >= buflen
    /\ Eof
    /\ buflen' = 0
    /\ chunkbuflen' = 0

\* soap_getchunkchar: the next byte of the buffer.
GetChar ==
    /\ bufidx < buflen
    /\ bufidx' = bufidx + 1
    /\ UNCHANGED <<sent, got, buf, draining, out>>

Char == wire[buf[bufidx]]

\* Inside the line: the sizes and the marks of the buffer stay as they are.
Reading ==
    /\ GetChar
    /\ UNCHANGED <<buflen, chunkbuflen, chunksize, ahead>>

Skip ==
    /\ pc = "skip"
    /\ Reading
    /\ ~ Hexadecimal(Char)
    /\ UNCHANGED <<pc, number>>

First ==
    /\ pc = "skip"
    /\ Reading
    /\ Hexadecimal(Char)
    /\ pc' = "digits"
    /\ size' = Char
    /\ digits' = 1

Another ==
    /\ pc = "digits"
    /\ Reading
    /\ Hexadecimal(Char) /\ digits < MaxDigits
    /\ size' = size * Base + Char
    /\ digits' = digits + 1
    /\ UNCHANGED pc

Rest ==
    /\ pc \in {"digits", "line"}
    /\ Reading
    /\ Char # Lf
    /\ pc = "digits" => ~ (Hexadecimal(Char) /\ digits < MaxDigits)
    /\ pc' = "line"
    /\ UNCHANGED number

\* The line is complete.
Line ==
    /\ pc \in {"digits", "line"}
    /\ bufidx < buflen
    /\ Char = Lf

LastChunk ==
    /\ Line /\ size = 0
    /\ bufidx' = 0
    /\ buflen' = 0
    /\ chunkbuflen' = 0
    /\ chunksize' = 0
    /\ ahead' = TRUE
    /\ pc' = "end"
    /\ UNCHANGED <<sent, got, buf, number, draining, out>>

\* The chunk ends in the buffer: bytes behind it stay for the next line.
WholeChunk ==
    /\ Line /\ size > 0
    /\ GetChar
    /\ bufidx' + size <= chunkbuflen
    /\ buflen' = bufidx' + size
    /\ chunksize' = 0
    /\ pc' = "full"
    /\ UNCHANGED <<chunkbuflen, ahead, number>>

\* Faulty: the part of the chunk that is in the buffer is not taken off.
PartOfChunkUncounted ==
    /\ Line /\ size > 0
    /\ GetChar
    /\ bufidx' + size > chunkbuflen
    /\ buflen' = chunkbuflen
    /\ chunksize' = size
    /\ chunkbuflen' = 0
    /\ pc' = IF bufidx' < chunkbuflen THEN "full" ELSE "recv"
    /\ UNCHANGED <<ahead, number>>

\* The chunk goes on behind the buffer; when nothing of it is in the buffer
\* the loop begins anew.
PartOfChunk ==
    /\ Line /\ size > 0
    /\ GetChar
    /\ bufidx' + size > chunkbuflen
    /\ buflen' = chunkbuflen
    /\ chunksize' = size - (chunkbuflen - bufidx')
    /\ chunkbuflen' = 0
    /\ pc' = IF bufidx' < chunkbuflen THEN "full" ELSE "recv"
    /\ UNCHANGED <<ahead, number>>

-----------------------------------------------------------------------------
(* The callers of soap_recv_raw *)

\* soap_getchar, any number of times; at the end of the data the next one
\* calls soap_recv_raw.
Read ==
    /\ pc = "full" /\ ~ draining
    /\ \E k \in 1 .. buflen - bufidx :
          /\ out' = out \o [i \in 1 .. k |-> buf[bufidx + i - 1]]
          /\ bufidx' = bufidx + k
          /\ pc' = IF bufidx + k = buflen THEN "recv" ELSE "full"
    /\ UNCHANGED <<sent, got, buf, buflen, chunkbuflen, chunksize, ahead, number, draining>>

\* soap_end_recv: what is in the buffer is dropped and the rest of the
\* message read until its last chunk.
Drain ==
    /\ pc = "full"
    /\ draining' = TRUE
    /\ pc' = "recv"
    /\ UNCHANGED <<sent, got, buf, bufidx, buflen, chunkbuflen, chunksize, ahead, number, out>>

Returned ==
    /\ pc \in {"end", "eof"}
    /\ UNCHANGED vars

Recv ==
    \/ Direct
    \/ Fill
    \/ Resume
    \/ Refill
    \/ Skip
    \/ First
    \/ Another
    \/ Rest
    \/ LastChunk
    \/ WholeChunk
    \/ PartOfChunk

Lost == DirectEof \/ FillEof \/ RefillEof

Next == Recv \/ Lost \/ Read \/ Drain \/ Returned

Spec == Init /\ [][Next]_vars

\* The code runs, and a peer that is not lost sends its bytes.
FairSpec == Spec /\ WF_vars(Recv) /\ WF_vars(Read \/ Drain)

-----------------------------------------------------------------------------
TypeOK ==
    /\ got \in 0 .. Len(wire)
    /\ buf \in [0 .. BufLen - 1 -> 0 .. Len(wire)]
    /\ bufidx \in 0 .. BufLen
    /\ buflen \in 0 .. BufLen
    /\ chunkbuflen \in 0 .. BufLen
    /\ chunksize \in Nat
    /\ ahead \in BOOLEAN
    /\ pc \in Stages
    /\ size \in Nat
    /\ digits \in 0 .. MaxDigits
    /\ draining \in BOOLEAN
    /\ out \in Seq(1 .. Len(wire))

\* The place of the reader on the wire: what has been received less what lies
\* unread in the buffer.
At == IF pc \in {"end", "eof"} THEN Len(wire)
      ELSE got - (Filled - IF pc = "recv" THEN buflen ELSE bufidx)

\* What the next byte there is.
Mode ==
    IF pc = "eof" THEN "cut"
    ELSE IF pc = "full" \/ (pc = "recv" /\ chunksize > 0) THEN "data"
    ELSE IF pc = "recv" THEN "skip"
    ELSE pc

\* The size of the line, or the rest of the chunk.
Left ==
    IF pc = "full" THEN buflen - bufidx + chunksize
    ELSE IF pc = "recv" THEN chunksize
    ELSE IF pc \in {"skip", "eof"} THEN 0
    ELSE size

\* How many steps reading can still take: a byte may have to be received and to
\* be read, after each of which soap_recv_raw may be called once more.
ToGo ==
    2 * (Len(wire) - At) + (Len(wire) - got)
      + (IF pc = "recv" THEN 2 ELSE IF pc \in {"end", "eof"} THEN 0 ELSE 1)

Wire == INSTANCE ChunkSpec WITH consumed <- At, mode <- Mode, size <- Left, dropping <- draining

\* The buffered reader does what reading the wire byte by byte does, however
\* the segments fall on size lines and chunks.
Segmentation == Wire!ChunkSpecification

\* The parser is given the data of the chunks in order, and all of it unless
\* the connection was lost or the parser stopped before.
PayloadDelivered ==
    /\ IsPrefix(out, DataOf(chunks))
    /\ pc = "end" /\ ~ draining => out = DataOf(chunks)

\* Every step brings reading nearer to its end, whatever the segments and the
\* chunks: the loop of soap_recv_raw, which begins anew when nothing of a chunk is
\* in the buffer, does not go round without having received or read something.
ReadingAdvances == [][ToGo' \in 0 .. ToGo - 1]_vars

\* Reading ends, without waiting for a byte that the peer does not send: the
\* fairness says nothing of a wait that fails.
ReadingEnds == <>(pc \in {"end", "eof"})
=============================================================================
