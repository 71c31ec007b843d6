----------------------------- MODULE JsonEncode -----------------------------
(***************************************************************************)
(* What the JSON encoder writes for each part of an object                 *)
(* (src/src/json_encode.c), as ASCII codes.  Integers are TLA+ integers;   *)
(* their width is a parameter, and with it the array they are printed in.  *)
(***************************************************************************)
EXTENDS Integers, SequencesExt

CONSTANTS
  IntMax,        \* INT64_MAX
  EncodedLen,    \* size of the array that an integer is printed into
  FloatDigits    \* DBL_DECIMAL_DIG

QUOTE == 34
BACKSLASH == 92
COMMA == 44
COLON == 58
LBRACK == 91
RBRACK == 93
LBRACE == 123
RBRACE == 125
MINUS == 45
DOT == 46
TrueText == <<116, 114, 117, 101>>
FalseText == <<102, 97, 108, 115, 101>>
NullText == <<110, 117, 108, 108>>

RECURSIVE Digits(_)
Digits(n) == IF n < 10 THEN <<48 + n>> ELSE Append(Digits(n \div 10), 48 + (n % 10))

Printed(n) == IF n < 0 THEN <<MINUS>> \o Digits(-n) ELSE Digits(n)   \* "%d"

HexDigit(n) == IF n < 10 THEN 48 + n ELSE 55 + n

\* snprintf writes at most EncodedLen - 1 characters and a NUL; the code
\* accepts a length up to EncodedLen.
json_encode_on_i64(n) ==
  LET full == Printed(n)
  IN IF Len(full) > EncodedLen THEN [err |-> "NOMEM", bytes |-> <<>>]
     ELSE IF Len(full) = EncodedLen
       THEN [err |-> "OK", bytes |-> Append(Front(full), 0)]
       ELSE [err |-> "OK", bytes |-> full]

\* "%#.*g": a float is the shortest text of its value, with a point; it is
\* printed with FloatDigits digits.
json_encode_on_f64(txt) ==
  txt \o [i \in 1..FloatDigits - (Len(txt) - 1) |-> 48]

\* Mutant: a backslash is not escaped.
json_write_buf_byte_Raw(b) ==
  IF b = QUOTE THEN <<BACKSLASH, QUOTE>>
  ELSE IF b <= 31
    THEN <<BACKSLASH, 117, 48, 48, HexDigit(b \div 16), HexDigit(b % 16)>>
    ELSE <<b>>

json_write_buf_byte(b) ==
  IF b \in {QUOTE, BACKSLASH} THEN <<BACKSLASH, b>>
  ELSE IF b <= 31
    THEN <<BACKSLASH, 117, 48, 48, HexDigit(b \div 16), HexDigit(b % 16)>>
    ELSE <<b>>

json_encode_on_buf(data) ==
  <<QUOTE>> \o FlattenSeq([i \in DOMAIN data |-> json_write_buf_byte(data[i])])
            \o <<QUOTE>>
=============================================================================
