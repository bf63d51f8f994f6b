------------------------------ MODULE Strings ------------------------------
(***************************************************************************)
(* utils/string.h, string.cc and output_stream.h: a number is converted to *)
(* text in a buffer by Itoa, or by UnsafeItoa, whose digits are static and *)
(* which a handler may call in the middle of a call by the main program;   *)
(* the text is then printed up to its terminator, or aligned in a field of *)
(* the buffer.  Characters are their codes.                                *)
(***************************************************************************)
EXTENDS Integers, Sequences

CONSTANTS IntTypes,          \* records [has_sign, max_size, values]
          HandlerDigits   \* sequences of digits, the lowest first, that a call
                          \* by the handler leaves in the static array

ASSUME IntTypesAssumption ==
  \A t \in IntTypes : /\ t.has_sign \in BOOLEAN /\ t.max_size \in Nat \ {0}
                     /\ t.values \in Nat \ {0}

VARIABLES call,           \* the arguments
          strPc, number, left, digits, digit,   \* the locals of Itoa
          destination, at,   \* the buffer, and the next cell
          mixed           \* a handler has stored digits among those of the call
strVars == <<call, strPc, number, left, digits, digit, destination, at, mixed>>

Nul == 0  Blank == 32  Minus == 45  Zero == 48  Junk == 63
Cells == 1 .. 12          \* memory from the start of the buffer: max_size + 1 at most
ByteWidth == 256          \* width is a uint8_t
-----------------------------------------------------------------------------
Lowest(t) == IF t.has_sign THEN -(t.values \div 2) ELSE 0
ValuesOf(t) == Lowest(t) .. Lowest(t) + t.values - 1
\* i = -i in the type of i: the lowest number is its own opposite.
Negated(t, n) == IF n = Lowest(t) THEN n ELSE -n

Fresh(c) ==
  /\ call' = c
  /\ number' = c.value /\ left' = c.width
  /\ digits' = [d \in 1 .. 12 |-> 0] /\ digit' = 0
  /\ destination' = [cell \in Cells |-> Junk] /\ at' = 1 /\ mixed' = FALSE

NoConversion == [safe |-> TRUE, type |-> CHOOSE t \in IntTypes : TRUE,
           value |-> 0, width |-> 0, field |-> 0]
StrInit ==
  /\ call = NoConversion
  /\ strPc = "returned" /\ number = 0 /\ left = 0
  /\ digits = [d \in 1 .. 12 |-> 0] /\ digit = 0
  /\ destination = [cell \in Cells |-> Junk] /\ at = 1 /\ mixed = FALSE

\* Print asks for max_size + 1 characters, other callers for what they like.
CallItoa ==
  /\ strPc = "returned"
  /\ \E safe \in BOOLEAN, t \in IntTypes :
       \E value \in ValuesOf(t), width \in {0, 2, t.max_size + 1} :
         Fresh([safe |-> safe, type |-> t, value |-> value, width |-> width,
                field |-> 0])
  /\ strPc' = IF left' = 0 THEN "text" ELSE "sign"

\* Mutant of Put: the width stays above zero.
PutSaturating(c) ==
  /\ destination' = [destination EXCEPT ![at] = c]
  /\ at' = at + 1 /\ left' = IF left > 1 THEN left - 1 ELSE left

\* *destination++ = c; width--
Put(c) ==
  /\ destination' = [destination EXCEPT ![at] = c]
  /\ at' = at + 1 /\ left' = (left - 1) % ByteWidth

PutZero == /\ strPc = "sign" /\ number = 0
           /\ Put(Zero) /\ strPc' = "terminate"
           /\ UNCHANGED <<call, number, digits, digit, mixed>>
PutSign == /\ strPc = "sign" /\ number < 0
           /\ Put(Minus) /\ strPc' = "convert"
           /\ number' = Negated(call.type, number)
           /\ UNCHANGED <<call, digits, digit, mixed>>
NoSign == /\ strPc = "sign" /\ number > 0
          /\ strPc' = "convert"
          /\ UNCHANGED <<call, number, left, digits, digit, destination, at, mixed>>

Convert ==
  /\ strPc = "convert" /\ number > 0
  /\ digits' = [digits EXCEPT ![digit + 1] = number % 10]
  /\ digit' = digit + 1 /\ number' = number \div 10
  /\ UNCHANGED <<call, strPc, left, destination, at, mixed>>
Converted == /\ strPc = "convert" /\ number <= 0
             /\ strPc' = "emit"
             /\ UNCHANGED <<call, number, left, digits, digit, destination, at, mixed>>
Emit ==
  /\ strPc = "emit" /\ digit > 0
  /\ Put(Zero + digits[digit]) /\ digit' = digit - 1
  /\ UNCHANGED <<call, strPc, number, digits, mixed>>
Emitted == /\ strPc = "emit" /\ digit = 0
           /\ strPc' = "terminate"
           /\ UNCHANGED <<call, number, left, digits, digit, destination, at, mixed>>
Terminate ==
  /\ strPc = "terminate" /\ strPc' = "text"
  /\ destination' =
       IF left > 0 THEN [destination EXCEPT ![at] = Nul] ELSE destination
  /\ UNCHANGED <<call, number, left, digits, digit, at, mixed>>

\* The handler's own UnsafeItoa uses the same digits.
HandlerConverts ==
  /\ ~call.safe /\ strPc \in {"sign", "convert", "emit"}
  /\ \E ds \in HandlerDigits :
       digits' = [d \in 1 .. 12 |-> IF d <= Len(ds) THEN ds[d] ELSE digits[d]]
  /\ mixed' = (mixed \/ digit > 0)
  /\ UNCHANGED <<call, strPc, number, left, digit, destination, at>>
-----------------------------------------------------------------------------
(* Strings in the buffer.                                                  *)

strnlen(b, max) ==
  IF \E n \in 1 .. max : b[n] = Nul
  THEN (CHOOSE n \in 1 .. max : b[n] = Nul /\ \A k \in 1 .. n - 1 : b[k] # Nul) - 1
  ELSE max

\* Mutant of PadRight: from the first character to the last, over characters
\* that have still to be moved.
PadFromStart(b, width, character) ==
  LET len == strnlen(b, width)
      after[i \in 0 .. width] ==
        IF i = 0 THEN b
        ELSE [after[i - 1] EXCEPT ![i] =
                IF i > width - len THEN after[i - 1][i - (width - len)]
                ELSE character]
  IN  IF len = width THEN b ELSE after[width]

\* The buffer after the i-th turn of the loop, which goes from the last
\* character to the first.
PadRight(b, width, character) ==
  LET len == strnlen(b, width)
      after[i \in 0 .. width] ==
        IF i = 0 THEN b
        ELSE [after[i - 1] EXCEPT ![width - i + 1] =
                IF i <= len THEN after[i - 1][len - i + 1] ELSE character]
  IN  IF len = width THEN b ELSE after[width]
AlignRight(b, width) == PadRight(b, width, Blank)
AlignLeft(b, width) ==
  LET len == strnlen(b, width)
  IN  [cell \in Cells |-> IF cell \in len + 1 .. width THEN Blank ELSE b[cell]]

Align ==
  /\ strPc = "text"
  /\ \E field \in {0, 3, 6} :
       \/ /\ destination' = AlignRight(destination, field)
          /\ strPc' = "right" /\ call' = [call EXCEPT !.field = field]
       \/ /\ destination' = AlignLeft(destination, field)
          /\ strPc' = "left" /\ call' = [call EXCEPT !.field = field]
  /\ UNCHANGED <<number, left, digits, digit, at, mixed>>

\* Print writes the characters before the terminator.
Printed(b) == SubSeq(b, 1, strnlen(b, 12))
\* The buffer is the caller's own.
Forget == strPc \in {"left", "right"} /\ strPc' = "returned" /\ Fresh(NoConversion)

StrNext == \/ CallItoa \/ PutZero \/ PutSign \/ NoSign \/ Convert \/ Converted
           \/ Emit \/ Emitted \/ Terminate \/ HandlerConverts \/ Align \/ Forget
StrSpec == StrInit /\ [][StrNext]_strVars
-----------------------------------------------------------------------------
\* What the text should be; the lowest number comes out as a sign alone.
Decimal(n) ==
  LET text[k \in 0 .. n] ==
        IF k < 10 THEN <<Zero + k>>
        ELSE Append(text[k \div 10], Zero + (k % 10))
  IN  text[n]
TextOf(t, n) ==
  IF n >= 0 THEN Decimal(n)
  ELSE IF n = Lowest(t) THEN <<Minus>> ELSE <<Minus>> \o Decimal(-n)
Text == TextOf(call.type, call.value)

\* max_size is the length of the longest text, and a text fits the cells.
TextsFit ==
  \A t \in IntTypes : /\ t.max_size + 1 \in Cells
                     /\ \A n \in ValuesOf(t) : Len(TextOf(t, n)) <= t.max_size

(***************************************************************************)
(* Itoa with the width Print gives it, and UnsafeItoa unless a handler     *)
(* stored its digits between the first and the last of the call ("the      *)
(* results will be mixed"), leave the whole text, terminated, within the   *)
(* width.  With a smaller width, which is not a limit, the text is still   *)
(* whole: the terminator is left out only when the text fills the width.   *)
(***************************************************************************)
TextRight ==
  strPc = "text" /\ call.width > 0 /\ ~mixed =>
    /\ SubSeq(destination, 1, Len(Text)) = Text
    /\ destination[Len(Text) + 1] = (IF Len(Text) = call.width THEN Junk ELSE Nul)
    /\ call.width > call.type.max_size =>
         Printed(destination) = Text /\ Len(Text) < call.width

(***************************************************************************)
(* Moving a text to the right end of its field in place loses none of it,  *)
(* and a text that fills or exceeds its field is left as it is.            *)
(***************************************************************************)
FieldRight ==
  strPc \in {"left", "right"} /\ ~mixed /\ call.width > Len(Text) =>
    LET pad == [k \in 1 .. call.field - Len(Text) |-> Blank]
        whole == IF strPc = "left" THEN Text \o pad ELSE pad \o Text
    IN  SubSeq(destination, 1, call.field) = SubSeq(whole, 1, call.field)

(***************************************************************************)
(* The two together: a text is whole when it has been made, and when it    *)
(* has been aligned.                                                       *)
(***************************************************************************)
TextStaysWhole == TextRight /\ FieldRight
=============================================================================
