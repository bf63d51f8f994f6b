----------------------------- MODULE Arithmetic -----------------------------
(***************************************************************************)
(* utils/op.h: the arithmetic written in AVR assembly, one operator for a  *)
(* routine, built from what its instructions do to bytes and to the carry; *)
(* and, under Ref, the plain C version of the same routine, which the      *)
(* source keeps for builds without USE_OPTIMIZED_OP.  A byte has           *)
(* 2 * NibbleBits bits instead of 8, and a shift by 4, 8, 12 or 16 is one  *)
(* by a nibble, a byte, a byte and a half or a word.  A signed number is   *)
(* kept as its unsigned bits and read with Signed.                         *)
(*                                                                         *)
(* The one variable, operand, goes through all the words: the properties   *)
(* compare the two versions for it and for every second operand.           *)
(***************************************************************************)
EXTENDS Integers, Sequences

CONSTANT NibbleBits

ASSUME NibbleAssumption == NibbleBits \in Nat \ {0}

NibbleSize == 2 ^ NibbleBits
ByteSize == NibbleSize * NibbleSize
WordSize == ByteSize * ByteSize
ByteValues == 0 .. ByteSize - 1
Words == 0 .. WordSize - 1

VARIABLE operand
arithVars == <<operand>>
-----------------------------------------------------------------------------
(* What the instructions do.                                               *)

Lo(w) == w % ByteSize
Hi(w) == w \div ByteSize
Word(l, h) == l + ByteSize * h
Signed(x, size) == IF 2 * x >= size THEN x - size ELSE x
\* Mutant of Com: neg instead of com.
ComIsNeg(x) == (ByteSize - x) % ByteSize
Com(x) == ByteSize - 1 - x
\* add, adc: the sum of two bytes and the carry; sub, sbc: the borrow.
\* Mutant of Adc: add where adc is needed.
CarryLost(x, y, c) == <<(x + y) % ByteSize, (x + y) \div ByteSize>>
Adc(x, y, c) == <<(x + y + c) % ByteSize, (x + y + c) \div ByteSize>>
Sbc(x, y, c) == <<(x - y - c) % ByteSize, IF x < y + c THEN 1 ELSE 0>>
\* mul, mulsu, muls: r1:r0, and the carry, which is the highest bit.
Mul(x, y) == x * y
Mulsu(x, y) == (Signed(x, ByteSize) * y) % WordSize
Muls(x, y) == (Signed(x, ByteSize) * Signed(y, ByteSize)) % WordSize
MulCarry(w) == IF 2 * w >= WordSize THEN 1 ELSE 0
\* An instruction with carry, over the three bytes of <<low, middle, high>>.
Chain(Op(_, _, _), a, b) ==
  LET f == Op(a[1], b[1], 0)
      l == Op(a[2], b[2], f[2])
      h == Op(a[3], b[3], l[2])
  IN  <<f[1], l[1], h[1], h[2]>>
\* add L and adc H.
AddWords(v, w) ==
  LET l == Adc(Lo(v), Lo(w), 0) IN Word(l[1], Adc(Hi(v), Hi(w), l[2])[1])
Swap(x) == (x % NibbleSize) * NibbleSize + (x \div NibbleSize)
\* lsr H and ror L; add L, L and adc H, H.
\* Mutant of RorByte: lsr for ror.
RorAsLsr(x, above) == x \div 2
RorByte(x, above) == (x \div 2) + (ByteSize \div 2) * (above % 2)
HalfWord(w) == Word(RorByte(Lo(w), Hi(w)), Hi(w) \div 2)
DoubleWord(w) == AddWords(w, w)
Repeat(Op(_), n, w) ==
  LET after[i \in 0 .. n] == IF i = 0 THEN w ELSE Op(after[i - 1]) IN after[n]
-----------------------------------------------------------------------------
(* Clipping and shifts.                                                    *)

Clip(v, low, high) == IF v < low THEN low ELSE IF v > high THEN high ELSE v
S16ClipU14(w) ==
  IF 2 * Hi(w) >= ByteSize THEN 0
  ELSE IF 4 * Hi(w) >= ByteSize THEN WordSize \div 4 - 1 ELSE w
U8AddClip(x, increment, max) ==
  LET sum == (x + increment) % ByteSize IN IF sum > max THEN max ELSE sum
S16ShiftRight8(w) == Hi(w)
\* Mutant of S16ClipU8: the flags are those of the low byte.
ClipByLowByte(w) ==
  IF 2 * Hi(w) >= ByteSize THEN 0 ELSE IF Lo(w) = 0 THEN Lo(w) ELSE ByteSize - 1
S16ClipU8(w) ==
  IF 2 * Hi(w) >= ByteSize THEN 0 ELSE IF Hi(w) = 0 THEN Lo(w) ELSE ByteSize - 1
S16ClipS8(w) ==
  (S16ClipU8((w + ByteSize \div 2) % WordSize) + ByteSize \div 2) % ByteSize
RefS16ClipU8(v) == Clip(v, 0, ByteSize - 1)
RefS16ClipS8(v) == Clip(v, -(ByteSize \div 2), ByteSize \div 2 - 1)

U8ShiftLeft4(x) == Swap(x) - (Swap(x) % NibbleSize)          \* andi 240
U8ShiftRight4(x) == Swap(x) % NibbleSize                   \* andi 15
U8Swap4(x) == Swap(x)
U16ShiftRight4(w) == Repeat(HalfWord, NibbleBits, w)
U14ShiftRight6(w) == Hi(DoubleWord(DoubleWord(w)))
U15ShiftRight7(w) == Hi(DoubleWord(w))
RefU8ShiftLeft4(x) == (x * NibbleSize) % ByteSize
RefU8ShiftRight4(x) == x \div NibbleSize
RefU8Swap4(x) == RefU8ShiftLeft4(x) + RefU8ShiftRight4(x)
RefU16ShiftRight4(w) == w \div NibbleSize
RefU14ShiftRight6(w) == (w \div (ByteSize \div 4)) % ByteSize
RefU15ShiftRight7(w) == (w \div (ByteSize \div 2)) % ByteSize
-----------------------------------------------------------------------------
(* Numbers of 24 bits, as <<fractional, integral L, integral H>>.          *)

U24AddC(a, b) == Chain(Adc, a, b)
U24Add(a, b) == SubSeq(Chain(Adc, a, b), 1, 3)
U24Sub(a, b) == SubSeq(Chain(Sbc, a, b), 1, 3)
U24ShiftRight(a) == <<RorByte(a[1], a[2]), RorByte(a[2], a[3]), a[3] \div 2>>
U24ShiftLeft(a) == SubSeq(Chain(Adc, a, a), 1, 3)
Int24(a) == a[1] + ByteSize * Word(a[2], a[3])
Uint24(n) == <<n % ByteSize, Lo(n \div ByteSize) , Hi(n \div ByteSize) % ByteSize>>
RefU24AddC(a, b) ==
  LET sum == Int24(a) + Int24(b)
  IN  Append(Uint24(sum), IF sum >= ByteSize * WordSize THEN 1 ELSE 0)
RefU24Add(a, b) == Uint24(Int24(a) + Int24(b))
RefU24Sub(a, b) == Uint24((Int24(a) - Int24(b)) % (ByteSize * WordSize))
RefU24ShiftRight(a) == Uint24((Int24(a)) \div 2)
RefU24ShiftLeft(a) == Uint24(2 * Int24(a))
-----------------------------------------------------------------------------
(* Mixing.  The sums of the C versions are taken without a bound.          *)

U8MixU16(a, b, balance) == AddWords(Mul(b, balance), Mul(a, Com(balance)))
U8Mix(a, b, balance) == Hi(U8MixU16(a, b, balance))
U8MixGains(a, b, gainA, gainB) == Hi(AddWords(Mul(b, gainB), Mul(a, gainA)))
S8Mix(a, b, gainA, gainB) == Hi(AddWords(Mulsu(b, gainB), Mulsu(a, gainA)))
\* com, and subi 240: 15 - balance.
U8U4MixU12(a, b, balance) ==
  AddWords(Mul(b, balance),
           Mul(a, Sbc(Com(balance), ByteSize - NibbleSize, 0)[1]))
\* The table holds one sample more than the phase has high bytes.
InterpolateSample(table, phase) ==
  U8Mix(table[Hi(phase)], table[Hi(phase) + 1], Lo(phase))
RefU8MixU16(a, b, balance) == a * (ByteSize - 1 - balance) + b * balance
RefU8Mix(a, b, balance) == RefU8MixU16(a, b, balance) \div ByteSize
RefU8MixGains(a, b, gainA, gainB) == (a * gainA + b * gainB) \div ByteSize
RefS8Mix(a, b, gainA, gainB) ==
  (Signed(a, ByteSize) * gainA + Signed(b, ByteSize) * gainB) \div ByteSize
RefU8U4MixU12(a, b, balance) == a * (NibbleSize - 1 - balance) + b * balance
RefInterpolateSample(table, phase) ==
  RefU8Mix(table[phase \div ByteSize], table[1 + phase \div ByteSize],
           phase % ByteSize)
-----------------------------------------------------------------------------
(* Products.                                                               *)

U8U8MulShift8(a, b) == Hi(Mul(a, b))
S8U8MulShift8(a, b) == Hi(Mulsu(a, b))
S8S8MulShift8(a, b) == Hi(Muls(a, b))
U8U8Mul(a, b) == Mul(a, b)
S8U8Mul(a, b) == Mulsu(a, b)
S8S8Mul(a, b) == Muls(a, b)
U16U8MulShift8(a, b) == AddWords(Word(Hi(Mul(Lo(a), b)), 0), Mul(Hi(a), b))
S16U8MulShift8(a, b) == AddWords(Word(Hi(Mul(Lo(a), b)), 0), Mulsu(Hi(a), b))
\* sbc takes the carry of mulsu, its sign, from the byte above.
\* Mutant of BorrowSign: the product is added as if it were unsigned.
BorrowForgotten(high, product) == high
BorrowSign(high, product) == Sbc(high, 0, MulCarry(product))[1]
S16S8MulShift8(a, b) ==
  LET high == Muls(b, Hi(a))
      low == Mulsu(b, Lo(a))
  IN  AddWords(Word(Lo(high), BorrowSign(Hi(high), low)), Word(Hi(low), 0))
\* tmp H, result L and result H, to which a product is added.
Accumulate(t, product) == Chain(Adc, t, <<Lo(product), Hi(product), 0>>)
U16U16MulShift16(a, b) ==
  LET high == Mul(Hi(a), Hi(b))
      t1 == Accumulate(<<Hi(Mul(Lo(a), Lo(b))), Lo(high), Hi(high)>>,
                       Mul(Hi(b), Lo(a)))
      t2 == Accumulate(t1, Mul(Hi(a), Lo(b)))
  IN  Word(t2[2], t2[3])
S16U16MulShift16(a, b) ==
  LET high == Mulsu(Hi(a), Hi(b))
      t1 == Accumulate(<<Hi(Mul(Lo(a), Lo(b))), Lo(high), Hi(high)>>,
                       Mul(Hi(b), Lo(a)))
      cross == Mulsu(Hi(a), Lo(b))
      t2 == Accumulate(<<t1[1], t1[2], BorrowSign(t1[3], cross)>>, cross)
  IN  Word(t2[2], t2[3])
S16U12MulShift12(a, b) == S16U16MulShift16(a, Repeat(DoubleWord, NibbleBits, b))
RefU8U8MulShift8(a, b) == (a * b) \div ByteSize
RefS8U8MulShift8(a, b) == (a * b) \div ByteSize
RefS8S8MulShift8(a, b) == (a * b) \div ByteSize
RefMul(a, b) == a * b
RefU16U8MulShift8(a, b) == (a * b) \div ByteSize
RefS16U8MulShift8(a, b) == (a * b) \div ByteSize
RefS16U16MulShift16(a, b) == (a * b) \div WordSize
RefS16U12MulShift12(a, b) == (a * b) \div (ByteSize * NibbleSize)
-----------------------------------------------------------------------------
NoOperand == -1
ArithInit == operand = NoOperand
NextOperand == operand' = (operand + 1) % WordSize
ArithSpec == ArithInit /\ [][NextOperand]_arithVars

(***************************************************************************)
(* Clipping agrees with the plain version.  S16ClipS8 adds half a byte     *)
(* first, and is asked for values for which that sum has a sign.           *)
(***************************************************************************)
ClipsRight == operand # NoOperand =>
  LET v == Signed(operand, WordSize) IN
  /\ S16ClipU14(operand) = Clip(v, 0, WordSize \div 4 - 1)
  /\ S16ClipU8(operand) = RefS16ClipU8(v)
  /\ v + ByteSize \div 2 < WordSize \div 2 =>
       Signed(S16ClipS8(operand), ByteSize) = RefS16ClipS8(v)
  /\ \A max \in ByteValues :
       LET x == Lo(operand) increment == Hi(operand)
       IN  x + increment < ByteSize =>
             U8AddClip(x, increment, max) = Clip(x + increment, 0, max)

(***************************************************************************)
(* Shifts made of rotations, nibble swaps and doublings lose no bit: on 14 *)
(* and 15 bits only, as their comment says.                                *)
(***************************************************************************)
ShiftsRight == operand # NoOperand =>
  /\ S16ShiftRight8(operand) = operand \div ByteSize
  /\ U16ShiftRight4(operand) = RefU16ShiftRight4(operand)
  /\ 4 * operand < WordSize => U14ShiftRight6(operand) = RefU14ShiftRight6(operand)
  /\ 2 * operand < WordSize => U15ShiftRight7(operand) = RefU15ShiftRight7(operand)
  /\ LET x == Lo(operand) IN
     /\ U8ShiftLeft4(x) = RefU8ShiftLeft4(x)
     /\ U8ShiftRight4(x) = RefU8ShiftRight4(x)
     /\ U8Swap4(x) = RefU8Swap4(x)

(***************************************************************************)
(* The carry goes through the three bytes: sums, differences and shifts of *)
(* 24 bits are those of the plain version.  operand gives two bytes of one *)
(* number; the others are at the edges.                                    *)
(***************************************************************************)
Edges == {0, 1, ByteSize \div 2, ByteSize - 1}
U24Right == operand # NoOperand =>
  \A top \in Edges, f \in Edges, l \in Edges, h \in Edges :
    LET a == <<Lo(operand), Hi(operand), top>>
        b == <<f, l, h>>
    IN  /\ U24AddC(a, b) = RefU24AddC(a, b)
        /\ U24Add(a, b) = RefU24Add(a, b)
        /\ U24Sub(a, b) = RefU24Sub(a, b)
        /\ U24Sub(b, a) = RefU24Sub(b, a)
        /\ U24ShiftRight(a) = RefU24ShiftRight(a)
        /\ U24ShiftLeft(a) = RefU24ShiftLeft(a)

(***************************************************************************)
(* Mixing agrees with the plain version whenever the sum of the two gains  *)
(* lets the sum of the products fit its 16 bits, as a balance always does. *)
(***************************************************************************)
Tables == {[i \in 0 .. ByteSize |-> (step * i) % ByteSize] :
             step \in {5, ByteSize - 1}}
MixesRight == operand # NoOperand =>
  LET a == Hi(operand) b == Lo(operand) IN
  /\ \A balance \in ByteValues :
       /\ U8MixU16(a, b, balance) = RefU8MixU16(a, b, balance)
       /\ U8Mix(a, b, balance) = RefU8Mix(a, b, balance)
       /\ balance < NibbleSize =>
            U8U4MixU12(a, b, balance) = RefU8U4MixU12(a, b, balance)
  /\ \A gainA \in ByteValues, gainB \in ByteValues :
       gainA + gainB < ByteSize =>
         /\ U8MixGains(a, b, gainA, gainB) = RefU8MixGains(a, b, gainA, gainB)
         /\ Signed(S8Mix(a, b, gainA, gainB), ByteSize)
              = RefS8Mix(a, b, gainA, gainB)
  /\ \A table \in Tables :
       InterpolateSample(table, operand) = RefInterpolateSample(table, operand)

(***************************************************************************)
(* The products of bytes and of words, signed or not, made of products of  *)
(* bytes and of carries, are the exact products, rounded down.             *)
(***************************************************************************)
ProductsRight == operand # NoOperand =>
  /\ LET a == Hi(operand) b == Lo(operand)
         sa == Signed(a, ByteSize) sb == Signed(b, ByteSize)
     IN  /\ U8U8Mul(a, b) = RefMul(a, b)
         /\ Signed(S8U8Mul(a, b), WordSize) = RefMul(sa, b)
         /\ Signed(S8S8Mul(a, b), WordSize) = RefMul(sa, sb)
         /\ U8U8MulShift8(a, b) = RefU8U8MulShift8(a, b)
         /\ Signed(S8U8MulShift8(a, b), ByteSize) = RefS8U8MulShift8(sa, b)
         /\ Signed(S8S8MulShift8(a, b), ByteSize) = RefS8S8MulShift8(sa, sb)
  /\ LET v == Signed(operand, WordSize) IN
     /\ \A b \in ByteValues :
          /\ U16U8MulShift8(operand, b) = RefU16U8MulShift8(operand, b)
          /\ Signed(S16U8MulShift8(operand, b), WordSize) = RefS16U8MulShift8(v, b)
          /\ Signed(S16S8MulShift8(operand, b), WordSize)
               = RefS16U8MulShift8(v, Signed(b, ByteSize))
     /\ \A b \in Words :
          /\ U16U16MulShift16(operand, b) = (operand * b) \div WordSize
          /\ Signed(S16U16MulShift16(operand, b), WordSize)
               = RefS16U16MulShift16(v, b)
          /\ b < ByteSize * NibbleSize =>
               Signed(S16U12MulShift12(operand, b), WordSize)
                 = RefS16U12MulShift12(v, b)

(***************************************************************************)
(* The five together: what the assembly of op.h computes is what its plain *)
(* version, or the integers, say.                                          *)
(***************************************************************************)
OperatorsRight == ClipsRight /\ ShiftsRight /\ U24Right /\ MixesRight /\ ProductsRight
=============================================================================
