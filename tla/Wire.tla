-------------------------------- MODULE Wire --------------------------------
(***************************************************************************)
(* The length-prefixed framing that requests and the append-only file      *)
(* share (src/pyredis/resp.py): what is written, and the pieces both       *)
(* readers are made of.                                                    *)
(*                                                                         *)
(* A byte is one of the bytes the format gives a meaning to, or any other. *)
(* A command name is one byte.                                             *)
(***************************************************************************)
EXTENDS Integers, Sequences, SequencesExt, FiniteSetsExt

CONSTANTS
  Other,         \* bytes without a meaning in the format
  MaxIntDigits   \* what int() converts: 4300 digits

Digits == <<"0", "1", "2", "3", "4", "5", "6", "7", "8", "9">>

Digit == ToSet(Digits)

DigitValue(d) == CHOOSE k \in 0 .. 9 : Digits[k + 1] = d

Byte == Digit \cup {"*", "$", "-", "cr", "lf"} \cup Other

CRLF == <<"cr", "lf">>

(* str(n).encode(), for a natural number.                                  *)
Decimal(n) ==
  LET decimal[k \in 0 .. n] ==
        IF k < 10 THEN <<Digits[k + 1]>>
        ELSE Append(decimal[k \div 10], Digits[(k % 10) + 1])
  IN  decimal[n]

Header(marker, n) == <<marker>> \o Decimal(n) \o CRLF

EncodeBulkString(v) == Header("$", Len(v)) \o v \o CRLF

EncodeArray(parts) ==
  Header("*", Len(parts))
    \o FlattenSeq([i \in DOMAIN parts |-> EncodeBulkString(parts[i])])

(* What a client sends, and what the journal writes, in frames: the line of*)
(* a request; its bulk strings, each a line, a payload and a line end; and,*)
(* when they are fewer than the line says, the bytes that are not accepted *)
(* instead of the next.                                                    *)
Bulk(head, payload) == [head |-> head, payload |-> payload]

Frame(head, bulks, rest) == [head |-> head, bulks |-> bulks, rest |-> rest]

BulkBytes(b) == b.head \o b.payload \o CRLF

Bytes(f) ==
  f.head \o FlattenSeq([i \in DOMAIN f.bulks |-> BulkBytes(f.bulks[i])]) \o f.rest

-----------------------------------------------------------------------------
(* Where the first CRLF of s at or after `from` begins; 0 if there is none.*)
LineEnd(s, from) ==
  LET ends == {i \in from .. Len(s) - 1 : s[i] = "cr" /\ s[i + 1] = "lf"}
  IN  IF ends = {} THEN 0 ELSE Min(ends)

(* A length: an optional "-", then digits, nothing else.                   *)
Unsigned(raw) == IF raw # <<>> /\ raw[1] = "-" THEN Tail(raw) ELSE raw

IsLength(raw) == Unsigned(raw) # <<>> /\ ToSet(Unsigned(raw)) \subseteq Digit

Number(digits) ==
  LET number[i \in 0 .. Len(digits)] ==
        IF i = 0 THEN 0 ELSE 10 * number[i - 1] + DigitValue(digits[i])
  IN  number[Len(digits)]

LengthOf(raw) ==
  IF raw[1] = "-" THEN -Number(Unsigned(raw)) ELSE Number(Unsigned(raw))

(* int() raises ValueError, which is neither reader's own error.           *)
TooManyDigits(raw) == Len(Unsigned(raw)) > MaxIntDigits
=============================================================================
