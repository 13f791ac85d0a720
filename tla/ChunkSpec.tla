------------------------------ MODULE ChunkSpec ------------------------------
(***************************************************************************)
(* What reading a chunked HTTP body promises, without buffers: the bytes   *)
(* of the wire are taken one after the other, those of a chunk are data    *)
(* for the parser, the others are size lines and the line ends between     *)
(* chunks.  However the bytes were cut into segments, the parser sees the  *)
(* same data.                                                              *)
(***************************************************************************)
EXTENDS Integers, Sequences

CONSTANTS
    Base,        \* the base of chunk sizes, 16
    MaxDigits,   \* digits of a size that are kept, sizeof(tmp) - 1
    Lf,          \* '\n'
    Other        \* any byte that is neither a digit nor '\n'

Digit == 0 .. Base - 1

VARIABLES
    wire,       \* the bytes the peer sends
    consumed,   \* how many of them have been taken
    mode,       \* what the next byte is
    size,       \* the size read so far, or the bytes left of the chunk
    digits,     \* digits of the size read so far
    dropping,   \* the parser has had enough
    out         \* positions on the wire of the data given to the parser

cvars == <<wire, consumed, mode, size, digits, dropping, out>>

Modes == {"skip", "digits", "line", "data", "end", "cut"}

Begin ==
    /\ consumed = 0
    /\ mode = "skip"
    /\ size = 0
    /\ digits = 0
    /\ dropping = FALSE
    /\ out = <<>>

Byte == wire[consumed + 1]

Take ==
    /\ consumed < Len(wire)
    /\ consumed' = consumed + 1
    /\ UNCHANGED <<wire, dropping, out>>

Between ==
    /\ mode = "skip"
    /\ Take
    /\ Byte \notin Digit
    /\ UNCHANGED <<mode, size, digits>>

FirstDigit ==
    /\ mode = "skip"
    /\ Take
    /\ Byte \in Digit
    /\ mode' = "digits"
    /\ size' = Byte
    /\ digits' = 1

NextDigit ==
    /\ mode = "digits"
    /\ Take
    /\ Byte \in Digit /\ digits < MaxDigits
    /\ size' = size * Base + Byte
    /\ digits' = digits + 1
    /\ UNCHANGED mode

\* The rest of the line is not looked at.
Extension ==
    /\ mode \in {"digits", "line"}
    /\ Take
    /\ Byte # Lf
    /\ mode = "digits" => ~ (Byte \in Digit /\ digits < MaxDigits)
    /\ mode' = "line"
    /\ UNCHANGED <<size, digits>>

EndOfLine ==
    /\ mode \in {"digits", "line"}
    /\ consumed < Len(wire)
    /\ Byte = Lf
    /\ mode' = IF size = 0 THEN "end" ELSE "data"
    /\ consumed' = IF size = 0 THEN Len(wire) ELSE consumed + 1
    /\ UNCHANGED <<wire, size, digits, dropping, out>>

\* Some bytes of the chunk, read by the parser, or dropped from when it has had
\* enough on.
Data ==
    /\ mode = "data"
    /\ \E k \in 1 .. size :
          /\ consumed + k <= Len(wire)
          /\ consumed' = consumed + k
          /\ size' = size - k
          /\ mode' = IF size = k THEN "skip" ELSE "data"
          /\ out' = IF dropping' THEN out ELSE out \o [i \in 1 .. k |-> consumed + i]
    /\ dropping' \in {dropping, TRUE}
    /\ UNCHANGED <<wire, digits>>

\* The connection fails or is silent too long.
Cut ==
    /\ mode \notin {"end", "cut"}
    /\ mode' = "cut"
    /\ consumed' = Len(wire)
    /\ size' = 0
    /\ UNCHANGED <<wire, digits, dropping, out>>

ChunkNext ==
    \/ Between
    \/ FirstDigit
    \/ NextDigit
    \/ Extension
    \/ EndOfLine
    \/ Data
    \/ Cut

ChunkSpecification == Begin /\ [][ChunkNext]_cvars
=============================================================================
