---------------------------- MODULE ArmArithmetic ----------------------------
(***************************************************************************)
(* What the arithmetic instructions of the two Arm cores compute, over     *)
(* words of Width bits instead of 32: additions, subtractions, shifts,     *)
(* bit fields, saturation and multiplication (cortex-m33/execute-thumb16.ts*)
(* and execute-thumb32.ts, cortex-m0-core.ts), and what the architecture   *)
(* defines them to be.                                                     *)
(*                                                                         *)
(* A result is <<r, c, v>>: the value written and the flags C and V, where *)
(* the instruction sets them; N and Z are those of r.  A register holds    *)
(* 0 .. Words - 1.  A JavaScript shift takes its amount modulo the width.  *)
(***************************************************************************)
EXTENDS Integers

CONSTANT Width

Words == 2 ^ Width
Word == 0 .. Words - 1
U(x) == x % Words                               \* x >>> 0
Negative(x) == U(x) >= Words \div 2
S(x) == IF Negative(x) THEN U(x) - Words ELSE U(x)       \* x | 0
Bit(x, k) == (U(x) \div 2 ^ k) % 2 = 1
Carry(b) == IF b THEN 1 ELSE 0

Shl(x, n) == U(x * 2 ^ (n % Width))             \* x << n
Shr(x, n) == U(x) \div 2 ^ (n % Width)          \* x >>> n
Sar(x, n) == U(S(x) \div 2 ^ (n % Width))       \* x >> n

\* (a ^ b) & (a ^ r) and ~(a ^ b) & (a ^ r), by their sign bits
SubOverflow(a, b, r) == Negative(a) # Negative(b) /\ Negative(a) # Negative(r)
AddOverflow(a, b, r) == Negative(a) = Negative(b) /\ Negative(a) # Negative(r)

-----------------------------------------------------------------------------
(* Additions and subtractions, with the carry flag c before the instruction *)

\* Faulty variant of addFlags: adds the carry to the second operand first.
AddCarryFirst(a, b, carryIn) ==
  LET r == U(a + U(b + carryIn))
  IN  <<r, a > Words - 1 - U(b + carryIn), AddOverflow(a, b, r)>>

\* addFlags of both M33 files: the carry comes in a second step.
addFlags(a, b, carryIn) ==
  LET step1 == U(a + b)
      r == U(step1 + carryIn)
  IN  <<r, a > Words - 1 - b \/ (carryIn # 0 /\ step1 = Words - 1), AddOverflow(a, b, r)>>

\* subFlags of Thumb-16: the subtrahend may be Words.
subFlags(a, b) == <<U(a - b), a >= b, SubOverflow(a, b, a - b)>>

\* addSubFlags of Thumb-32 takes the subtrahend modulo Words for the carry.
addSubFlags(a, b) == <<U(a - b), a >= U(b), SubOverflow(a, b, a - b)>>

\* addUpdateFlags and substractUpdateFlags of the M0+
addUpdateFlags(a, b) == <<U(a + b), a > Words - 1 - U(b), AddOverflow(a, b, a + b)>>
substractUpdateFlags(a, b) == <<U(a - b), a >= b, SubOverflow(a, b, a - b)>>

Arithmetic(core, op, a, b, c) ==
  LET add(x, y, k) == IF core = "m0" THEN addUpdateFlags(x, y + k) ELSE addFlags(x, y, k)
      sub(x, y) == CASE core = "t16" -> subFlags(x, y)
                     [] core = "t32" -> addSubFlags(x, y)
                     [] core = "m0" -> substractUpdateFlags(x, y)
  IN  CASE op = "ADC" -> add(a, b, Carry(c))
        [] op = "ADD" -> add(a, b, 0)
        [] op = "SUB" -> sub(a, b)
        [] op = "SBC" -> sub(a, b + (1 - Carry(c)))
        [] op = "RSB" -> sub(b, a)

\* The architecture: AddWithCarry(x, y, carry).
AddWithCarry(x, y, carry) ==
  LET sum == U(x) + U(y) + carry
  IN  <<U(sum), sum >= Words, S(x) + S(y) + carry # S(sum)>>
Not(x) == Words - 1 - U(x)
ArchArithmetic(op, a, b, c) ==
  CASE op = "ADC" -> AddWithCarry(a, b, Carry(c))
    [] op = "ADD" -> AddWithCarry(a, b, 0)
    [] op = "SUB" -> AddWithCarry(a, Not(b), 1)
    [] op = "SBC" -> AddWithCarry(a, Not(b), Carry(c))
    [] op = "RSB" -> AddWithCarry(Not(a), b, 1)

-----------------------------------------------------------------------------
(* Shifts: the value and the carry out, by the amount in a register (0 and  *)
(* up) or in the instruction (where 0 stands for another shift)             *)

\* Both M33 files compute register shifts alike.
ShiftM33(op, x, n, c) ==
  CASE n = 0 -> <<U(x), c>>
    [] op = "LSL" /\ n # 0 -> IF n < Width THEN <<Shl(x, n), Bit(Shr(x, Width - n), 0)>>
                              ELSE <<0, n = Width /\ Bit(x, 0)>>
    [] op = "LSR" /\ n # 0 -> IF n < Width THEN <<Shr(x, n), Bit(Shr(x, n - 1), 0)>>
                              ELSE <<0, n = Width /\ Negative(x)>>
    [] op = "ASR" /\ n # 0 -> IF n < Width THEN <<Sar(x, n), Bit(Sar(x, n - 1), 0)>>
                              ELSE <<Sar(x, Width - 1), Negative(x)>>
    [] op = "ROR" /\ n # 0 ->
         LET e == n % Width
             r == U(Shr(x, e) + Shl(x, Width - e))
         IN  IF e = 0 THEN <<U(x), Negative(x)>> ELSE <<r, Negative(r)>>

\* The M0+: the carry of LSL is bit 32 - n of the input, of LSR and ASR bit
\* n - 1, and of ROR the sign of the result, whatever n is.
ShiftM0(op, x, n, c) ==
  CASE op = "LSL" -> <<IF n >= Width THEN 0 ELSE Shl(x, n),
                       IF n = 0 THEN c ELSE Bit(x, (Width - n) % Width)>>
    [] op = "LSR" -> <<IF n < Width THEN Shr(x, n) ELSE 0,
                       n <= Width /\ Bit(Shr(x, n - 1), 0)>>
    [] op = "ASR" -> LET k == IF n < Width THEN n ELSE Width
                     IN  <<IF k < Width THEN Sar(x, k) ELSE Sar(x, Width - 1),
                           Bit(x, (k - 1) % Width)>>
    [] op = "ROR" -> LET e == n % Width
                         r == IF e = 0 THEN U(x) ELSE U(Shr(x, e) + Shl(x, Width - e))
                     IN  <<r, Negative(r)>>

\* DecodeImmShift in dispatchDpShiftedReg, and the immediate shifts of Thumb-16
ShiftImmediate(op, x, n, c) ==
  CASE n # 0 -> ShiftM33(op, x, n, c)
    [] op = "LSL" /\ n = 0 -> <<U(x), c>>
    [] op = "LSR" /\ n = 0 -> <<0, Negative(x)>>
    [] op = "ASR" /\ n = 0 -> <<Sar(x, Width - 1), Negative(x)>>
    [] op = "ROR" /\ n = 0 -> <<Carry(c) * (Words \div 2) + Shr(x, 1), Bit(x, 0)>>

\* The architecture shifts one place at a time.
ShiftOnce(op, x, c) ==
  CASE op = "LSL" -> <<U(2 * x), Negative(x)>>
    [] op = "LSR" -> <<x \div 2, Bit(x, 0)>>
    [] op = "ASR" -> <<x \div 2 + (IF Negative(x) THEN Words \div 2 ELSE 0), Bit(x, 0)>>
    [] op = "ROR" -> <<x \div 2 + (IF Bit(x, 0) THEN Words \div 2 ELSE 0), Bit(x, 0)>>
    [] op = "RRX" -> <<x \div 2 + (IF c THEN Words \div 2 ELSE 0), Bit(x, 0)>>

ArchShift(op, x, n, c) ==
  LET step[k \in 0 .. n] == IF k = 0 THEN <<x, c>>
                            ELSE ShiftOnce(op, step[k - 1][1], step[k - 1][2])
  IN  step[n]

ArchShiftImmediate(op, x, n, c) ==
  IF n # 0 \/ op = "LSL" THEN ArchShift(op, x, n, c)
  ELSE IF op = "ROR" THEN ShiftOnce("RRX", x, c) ELSE ArchShift(op, x, Width, c)

-----------------------------------------------------------------------------
(* Bit fields, saturation and multiplication of Thumb-32 *)

FieldMask(width) == IF width >= Width THEN Words - 1 ELSE 2 ^ width - 1

\* UBFX and SBFX: width bits of x from lsb up
Extract(x, lsb, width, signed) ==
  LET e == IF width >= Width THEN U(x) ELSE Shr(x, lsb) % 2 ^ width
  IN  IF signed /\ width < Width THEN Sar(Shl(e, Width - width), Width - width) ELSE e

ArchExtract(x, lsb, width, signed) ==
  LET e == (x \div 2 ^ lsb) % 2 ^ width
  IN  IF signed /\ Bit(e, width - 1) THEN U(e - 2 ^ width) ELSE e

\* BFI: bits msb .. lsb of d become the low bits of x
Insert(d, x, lsb, msb) ==
  IF msb < lsb THEN d
  ELSE LET in == {k \in 0 .. Width - 1 :          \* the mask
                    (FieldMask(msb - lsb + 1) * 2 ^ lsb) \div 2 ^ k % 2 = 1}
           bits == {k \in 0 .. Width - 1 : IF k \in in THEN Bit(Shl(x, lsb), k) ELSE Bit(d, k)}
           sum[k \in 0 .. Width] == IF k = 0 THEN 0
                                    ELSE sum[k - 1] + (IF k - 1 \in bits THEN 2 ^ (k - 1) ELSE 0)
       IN  sum[Width]

ArchInsert(d, x, lsb, msb) ==
  IF msb < lsb THEN d
  ELSE LET size == 2 ^ (msb - lsb + 1)
       IN  d - ((d \div 2 ^ lsb) % size) * 2 ^ lsb + (x % size) * 2 ^ lsb

\* SSAT and USAT: both clamp to sat_imm + 1 bits
Saturate(x, imm, signed) ==
  LET hi == IF signed THEN 2 ^ imm - 1 ELSE 2 ^ (imm + 1) - 1
      lo == IF signed THEN - 2 ^ imm ELSE 0
  IN  IF S(x) > hi THEN <<U(hi), TRUE>>
      ELSE IF S(x) < lo THEN <<U(lo), TRUE>> ELSE <<U(x), FALSE>>

\* The architecture clamps USAT to sat_imm bits.
ArchSaturate(x, imm, signed) ==
  LET hi == 2 ^ imm - 1
      lo == IF signed THEN - 2 ^ imm ELSE 0
      clamped == IF S(x) > hi THEN hi ELSE IF S(x) < lo THEN lo ELSE S(x)
  IN  <<U(clamped), clamped # S(x)>>

\* mul64: the double word <<hi, lo>> from four products of half words
Half == 2 ^ (Width \div 2)
mul64(a, b) ==
  LET ll == (a % Half) * (b % Half)
      lh == (a % Half) * (b \div Half)
      hl == (a \div Half) * (b % Half)
      hh == (a \div Half) * (b \div Half)
      mid == ll \div Half + (lh % Half) + (hl % Half)
  IN  <<U(hh + lh \div Half + hl \div Half + mid \div Half),
        U((ll % Half) + mid * Half)>>

\* mul64Signed: the product of the magnitudes, negated where the signs differ
mul64Signed(a, b) ==
  LET m(x) == IF S(x) < 0 THEN - S(x) ELSE S(x)
      p == mul64(m(a), m(b))
  IN  IF (S(a) < 0) = (S(b) < 0) THEN p
      ELSE <<U(Not(p[1]) + (IF p[2] = 0 THEN 1 ELSE 0)), U(Not(p[2]) + 1)>>

\* SMULL and SMMLA's rounded high word
Product(a, b, signed) == IF signed THEN mul64Signed(a, b) ELSE mul64(a, b)
RoundedHigh(a, b, round) ==
  LET p == mul64Signed(a, b)
  IN  U(p[1] + (IF round /\ Negative(p[2]) THEN 1 ELSE 0))

ArchProduct(a, b, signed) ==
  LET p == IF signed THEN S(a) * S(b) ELSE a * b
  IN  <<U(p \div Words), U(p)>>
ArchRoundedHigh(a, b, round) ==
  U((S(a) * S(b) + (IF round THEN Words \div 2 ELSE 0)) \div Words)

-----------------------------------------------------------------------------
(* Where the code and the architecture differ *)

\* The carry is added to the operand first: V is wrong when the sum leaves the
\* signed range, and Thumb-32's borrow and the M0+'s carry when it leaves the word.
ArithmeticEdge(core, op, b, c) ==
  \/ op = "SBC" /\ ~c /\ (b = Words \div 2 - 1 \/ (core = "t32" /\ b = Words - 1))
  \/ op = "ADC" /\ c /\ core = "m0" /\ b \in {Words \div 2 - 1, Words - 1}

\* The M0+ sets the carry for a shift by nothing, and LSL beyond the width.
ShiftEdge(op, n) == (n = 0 /\ op # "LSL") \/ (n > Width /\ op = "LSL")
=============================================================================
