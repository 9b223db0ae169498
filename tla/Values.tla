------------------------------- MODULE Values -------------------------------
(***************************************************************************)
(* What the value models of the three drivers share: the rbs::Value that   *)
(* goes in and comes out, bytes on the wire, and the state of one          *)
(* conversation (its input `job`, its control point `at`, the program's    *)
(* memory `mem`).                                                          *)
(***************************************************************************)
EXTENDS Integers, Sequences

CONSTANT MaxGets  \* how often get is called on a row

ASSUME GetsAssumption == MaxGets \in Nat

VARIABLES
    job,  \* which driver, and what the application asks of it
    at,   \* where the driver is
    mem   \* what it holds

\* rbs::Value: kind k with content b, elements e of a list; Value::Ext(tag, v)
\* is v with its tag.
V(k, b) == [k |-> k, tag |-> "", b |-> b, e |-> <<>>]
Ext(tag, k, b) == [k |-> k, tag |-> tag, b |-> b, e |-> <<>>]
List(s) == [k |-> "Array", tag |-> "", b |-> <<>>, e |-> s]
Null == V("Null", <<>>)
EmptyMap == V("Map", <<>>)

\* What a call can give instead of a value: Err(..), a panic, or a value that
\* an overflow has made wrong.
Err == V("Err", <<>>)
Panic == V("Panic", <<>>)
Wrong == V("Wrong", <<>>)

\* The outcomes of an integer operation that overflows: a build with overflow
\* checks panics, one without goes on with a wrapped number.
Overflow == {Panic, Wrong}

\* An encoded value: null (IsNull::Yes), bytes, bytes with a patch pending, an
\* error or a panic.
Enc(st, b) == [st |-> st, b |-> b]
Bytes(b) == {Enc("No", b)}

\* to_be_bytes of n at a width of w bytes, n within 32 bits.
Be(w, n) == [i \in 1..w |-> IF w - i > 3 THEN IF n < 0 THEN 255 ELSE 0
                                         ELSE (n \div 256^(w - i)) % 256]

\* `as` from a wide integer to one of w bytes, and back.
Low(w, b) == SubSeq(b, Len(b) - w + 1, Len(b))
Fill(w, x, b) == [i \in 1..(w - Len(b)) |-> x] \o b
SignExtend(w, b) == Fill(w, IF b[1] > 127 THEN 255 ELSE 0, b)

\* Do the bytes stand for a number of 32 bits, and which.
IsSmall(b) == Len(b) < 5 \/ b = SignExtend(Len(b), Low(4, b))
Small(b) == LET c == SignExtend(4, IF Len(b) > 4 THEN Low(4, b) ELSE b)
            IN  (IF c[1] > 127 THEN c[1] - 256 ELSE c[1]) * 16777216
                + c[2] * 65536 + c[3] * 256 + c[4]

\* A piece of a buffer; the read fails (a panic in bytes::Buf and in slices)
\* when the buffer is too short.
Has(buf, from, n) == n >= 0 /\ from + n - 1 <= Len(buf)
Piece(buf, from, n) == SubSeq(buf, from, from + n - 1)

\* A number, date, UUID... in text: its content, printed.  Parsing is FromStr
\* of the Rust types.
Mark == 1000000
Printed(b) == [i \in DOMAIN b |-> b[i] + Mark]
FromText(b) == [i \in DOMAIN b |-> b[i] - Mark]
IsPrinted(b) == b # <<>> /\ \A i \in DOMAIN b : b[i] > Mark \div 2

\* from_utf8: the texts of the instances are ASCII, or no UTF-8 at all.
IsUtf8(s) == \A i \in DOMAIN s : s[i] < 128

\* JSON texts: the values they stand for.
JsonList == <<91, 93>>
JsonMap == <<123, 125>>
JsonNull == <<110, 117, 108, 108>>

JsonText(v) == CASE v.k = "Array" -> JsonList [] v.k = "Map" -> JsonMap

\* serde_json::from_str, which skips white space
from_str(text) ==
    LET s == IF text # <<>> /\ text[1] = 32 THEN Tail(text) ELSE text
    IN  CASE s = JsonList -> List(<<>>)
          [] s = JsonMap -> EmptyMap
          [] s = JsonNull -> Null
          [] OTHER -> Err
=============================================================================
