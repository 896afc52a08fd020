------------------------------- MODULE SIOCore -------------------------------
(***************************************************************************)
(* The divider and an interpolator of one core (src/sio-core.ts,           *)
(* src/interpolator.ts): what they compute, what the datasheet says they   *)
(* compute, and their use by a program and by interrupt handlers that save *)
(* the registers and put them back.  A handler may come between any two    *)
(* accesses, of the program or of another handler that is still restoring. *)
(* The order in which a handler restores is that of the C SDK, which is    *)
(* external.                                                               *)
(*                                                                         *)
(* Words have 8 bits instead of 32: shifts and mask ends are 0 to 7, a     *)
(* blend weight has 2 bits, a half 4, and the forced bits are 4 and 5.     *)
(***************************************************************************)
EXTENDS Integers, Sequences, FiniteSets, FiniteSetsExt

CONSTANTS Operands, Values, Configs, \* what is written to the divider, to registers and
                                     \* to control registers of the interpolator
          MaxOps, MaxNested   \* bounds on the accesses of a program or handler, on handlers

VARIABLE calc
\* part: which of the two is in use; n, it: the number and the registers of the
\* interpolator; div: those of the divider; ops: what the program may still do;
\* frames: the handlers, innermost first: what they found, what they may still do,
\* and how many registers they have restored; kept: each left what it found.

Width == 8
WordCount == 2 ^ Width
Word == 0 .. WordCount - 1
Position == 0 .. Width - 1
Weights == 4
HalfWords == 16
ForcedBit == 4

u32(x) == x % WordCount
s32(x) == IF u32(x) >= WordCount \div 2 THEN u32(x) - WordCount ELSE u32(x)
Bit(x, k) == (x \div 2 ^ k) % 2 = 1

-----------------------------------------------------------------------------
(* The interpolators: two lanes shift, mask and sign-extend an accumulator, *)
(* add a base, and blend or clamp *)

\* The fields of a control register; its other bits read as zero.
ZeroConfig == [shift |-> 0, maskLSB |-> 0, maskMSB |-> 0, signed |-> FALSE, crossInput |-> FALSE,
               crossResult |-> FALSE, addRaw |-> FALSE, forceMSB |-> 0, blend |-> FALSE,
               clamp |-> FALSE, overf0 |-> FALSE, overf1 |-> FALSE, overf |-> FALSE]

\* A control register keeps its bits as they are in the chip.
decode(value) ==
  [shift |-> value % 32, maskLSB |-> (value \div 2 ^ 5) % 32, maskMSB |-> (value \div 2 ^ 10) % 32,
   signed |-> Bit(value, 15), crossInput |-> Bit(value, 16), crossResult |-> Bit(value, 17),
   addRaw |-> Bit(value, 18), forceMSB |-> (value \div 2 ^ 19) % 4, blend |-> Bit(value, 21),
   clamp |-> Bit(value, 22), overf0 |-> Bit(value, 23), overf1 |-> Bit(value, 24),
   overf |-> Bit(value, 25)]
At(flag, k) == IF flag THEN 2 ^ k ELSE 0
toUint32(c) ==
  c.shift + c.maskLSB * 2 ^ 5 + c.maskMSB * 2 ^ 10 + At(c.signed, 15) + At(c.crossInput, 16)
    + At(c.crossResult, 17) + At(c.addRaw, 18) + c.forceMSB * 2 ^ 19 + At(c.blend, 21)
    + At(c.clamp, 22) + At(c.overf0, 23) + At(c.overf1, 24) + At(c.overf, 25)

\* The bits of a word under the mask, or above it.
\* Mutant: the lowest bit of the mask is left out.
MaskedAboveLSB(c, x) == ((x % 2 ^ (c.maskMSB + 1)) \div 2 ^ (c.maskLSB + 1)) * 2 ^ (c.maskLSB + 1)
masked(c, x) == ((x % 2 ^ (c.maskMSB + 1)) \div 2 ^ c.maskLSB) * 2 ^ c.maskLSB
aboveMask(c, x) == x \div 2 ^ (c.maskMSB + 1)

\* What a lane takes from its input, and whether bits above the mask are set in it.
uresult(c, input) == masked(c, input \div 2 ^ c.shift)
laneResult(c, input) ==
  LET u == uresult(c, input)
  IN  IF c.signed /\ Bit(u, c.maskMSB) THEN u + WordCount - 2 ^ (c.maskMSB + 1) ELSE u
overflows(c, input) == aboveMask(c, input \div 2 ^ c.shift) # 0

clampResult(c, r, b0, b1) ==
  LET order(x) == IF c.signed THEN s32(x) ELSE u32(x)
  IN  CASE order(r) < order(b0) -> b0
        [] order(r) > order(b1) -> b1
        [] OTHER -> r

blendResult(c, alpha, b0, b1) ==
  LET of(x) == IF c.signed THEN s32(x) ELSE u32(x)
  IN  of(b0) + (alpha * (of(b1) - of(b0))) \div Weights

SetBit(x, k) == IF Bit(x, k) THEN x ELSE x + 2 ^ k
Forced(x, f) ==
  LET low == IF Bit(f, 0) THEN SetBit(u32(x), ForcedBit) ELSE u32(x)
  IN  IF Bit(f, 1) THEN SetBit(low, ForcedBit + 1) ELSE low

\* What both of the interpolators do after every change of a register; the first
\* blends and the second clamps.
update(n, r) ==
  LET c0 == [r.ctrl[0] EXCEPT !.clamp = @ /\ n = 1, !.blend = @ /\ n = 0]
      c1 == [r.ctrl[1] EXCEPT !.clamp = FALSE, !.blend = FALSE, !.overf0 = FALSE,
                              !.overf1 = FALSE, !.overf = FALSE]
      input0 == u32(r.accum[IF c0.crossInput THEN 1 ELSE 0])
      input1 == u32(r.accum[IF c1.crossInput THEN 0 ELSE 1])
      result0 == laneResult(c0, input0)
      result1 == laneResult(c1, input1)
      alpha == result1 % Weights
      add0 == r.base[0] + IF c0.addRaw THEN input0 ELSE result0
      add1 == r.base[1] + IF c1.addRaw THEN input1 ELSE result1
      over0 == overflows(c0, input0)
      over1 == overflows(c1, input1)
  IN  [r EXCEPT
        !.sm = [i \in {0, 1} |-> IF i = 0 THEN result0 ELSE result1],
        !.result = [i \in 0 .. 2 |->
          CASE i = 0 -> IF c0.blend THEN alpha
                        ELSE Forced(IF c0.clamp THEN clampResult(c0, result0, r.base[0], r.base[1])
                                    ELSE add0, c0.forceMSB)
            [] i = 1 -> Forced(IF c0.blend THEN blendResult(c1, alpha, r.base[0], r.base[1])
                               ELSE add1, c0.forceMSB)
            [] OTHER -> u32(r.base[2] + result0 + IF c0.blend THEN 0 ELSE result1)],
        !.ctrl = [i \in {0, 1} |->
          IF i = 1 THEN c1
          ELSE [c0 EXCEPT !.overf0 = over0, !.overf1 = over1, !.overf = over0 \/ over1]]]

Reset(n) == update(n, [accum |-> [i \in {0, 1} |-> 0], base |-> [i \in 0 .. 2 |-> 0],
                       ctrl |-> [i \in {0, 1} |-> ZeroConfig],
                       result |-> [i \in 0 .. 2 |-> 0], sm |-> [i \in {0, 1} |-> 0]])

\* The results go back to the accumulators, each lane's or the other's.
writeback(n, r) ==
  LET from(i) == IF r.ctrl[i].crossResult THEN 1 - i ELSE i
  IN  update(n, [r EXCEPT !.accum = [i \in {0, 1} |-> r.result[from(i)]]])

\* Both bases from the halves of one word.
setBase01(n, r, v) ==
  LET extended(h, signed) == IF signed /\ Bit(h, 3) THEN h + WordCount - HalfWords ELSE h
      blending == r.ctrl[0].blend /\ n = 0
      signed0 == IF blending THEN r.ctrl[1].signed ELSE r.ctrl[0].signed
  IN  update(n, [r EXCEPT !.base[0] = extended(v % HalfWords, signed0),
                          !.base[1] = extended(v \div HalfWords, r.ctrl[1].signed)])

-----------------------------------------------------------------------------
(* The datasheet's description of the lanes *)

\* Bits LSB to MSB of the shifted input, the top one repeated if the lane is signed.
ArchLane(c, input) ==
  LET bits == {k \in c.maskLSB .. c.maskMSB : k + c.shift < Width /\ Bit(input, k + c.shift)}
      sign == IF c.signed /\ c.maskMSB \in bits THEN c.maskMSB + 1 .. Width - 1 ELSE {}
  IN  MapThenSumSet(LAMBDA k : 2 ^ k, bits \union sign)

ArchOverflow(c, input) == \E k \in Position : k > c.maskMSB + c.shift /\ Bit(input, k)

\* A clamp gives the bound that is passed; a blend goes from the one base to the other
\* by so many parts of the way, rounded down.
ArchClamp(signed, x, low, high, y) ==
  LET of(w) == IF signed THEN s32(w) ELSE w
  IN  of(low) <= of(high) =>
        /\ of(low) <= of(y) /\ of(y) <= of(high)
        /\ y = x \/ (y = low /\ of(x) < of(low)) \/ (y = high /\ of(x) > of(high))

ArchBlend(signed, alpha, from, to, y) ==
  LET of(w) == IF signed THEN s32(w) ELSE w
      way == alpha * (of(to) - of(from)) - Weights * (of(y) - of(from))
  IN  way \in 0 .. Weights - 1

-----------------------------------------------------------------------------
(* The divider *)

\* Division towards zero, and the remainder with the sign of the dividend; the
\* quotient is a fraction that loses its fraction when a register takes it.
Quotient(a, b) ==
  LET magnitude == (IF a < 0 THEN -a ELSE a) \div (IF b < 0 THEN -b ELSE b)
  IN  IF (a < 0) = (b < 0) THEN magnitude ELSE -magnitude
Rest(a, b) == a - b * Quotient(a, b)

ResetDivider == [dividend |-> 0, divisor |-> 1, quotient |-> 0, remainder |-> 0, dirty |-> FALSE]

\* The registers hold unsigned words: a division by zero takes every dividend but 0
\* for a positive one.
updateHardwareDivider(d, signed) ==
  LET as(x) == IF signed THEN s32(x) ELSE x
      by == as(d.divisor)
  IN  [d EXCEPT
        !.quotient = IF d.divisor = 0 THEN IF d.dividend > 0 THEN WordCount - 1 ELSE 1
                     ELSE u32(Quotient(as(d.dividend), by)),
        !.remainder = IF d.divisor = 0 THEN d.dividend ELSE u32(Rest(as(d.dividend), by)),
        !.dirty = TRUE]

DividerRegisters == {"UDIVIDEND", "UDIVISOR", "SDIVIDEND", "SDIVISOR", "QUOTIENT", "REMAINDER"}

\* Mutant: a write of a result starts a division too.
WriteRestarts(d, reg, v) ==
  LET field == CASE reg \in {"UDIVIDEND", "SDIVIDEND"} -> "dividend"
                 [] reg \in {"UDIVISOR", "SDIVISOR"} -> "divisor"
                 [] reg = "QUOTIENT" -> "quotient" [] OTHER -> "remainder"
  IN  updateHardwareDivider([d EXCEPT ![field] = v], reg \in {"SDIVIDEND", "SDIVISOR"})
writeDivider(d, reg, v) ==
  CASE reg = "UDIVIDEND" -> updateHardwareDivider([d EXCEPT !.dividend = v], FALSE)
    [] reg = "SDIVIDEND" -> updateHardwareDivider([d EXCEPT !.dividend = v], TRUE)
    [] reg = "UDIVISOR" -> updateHardwareDivider([d EXCEPT !.divisor = v], FALSE)
    [] reg = "SDIVISOR" -> updateHardwareDivider([d EXCEPT !.divisor = v], TRUE)
    [] reg = "QUOTIENT" -> [d EXCEPT !.quotient = v, !.dirty = TRUE]
    [] reg = "REMAINDER" -> [d EXCEPT !.remainder = v, !.dirty = TRUE]

\* Towards zero, the remainder with the dividend's sign; by zero the remainder is the
\* dividend and the quotient all ones, but 1 for 0 / 0 and, signed, not by the
\* dividend's sign as the hardware's is.
ArchDivided(d, signed) ==
  LET of(x) == IF signed THEN s32(x) ELSE x
      a == of(d.dividend)
      b == of(d.divisor)
      r == of(d.remainder)
      magnitude(x) == IF x < 0 THEN -x ELSE x
  IN  IF b = 0 THEN r = a /\ (a = 0 \/ d.quotient = WordCount - 1)
      ELSE /\ u32(of(d.quotient) * b + r) = d.dividend
           /\ magnitude(r) < magnitude(b) /\ (r = 0 \/ (r < 0) = (a < 0))

\* Reading the quotient is what clears DIRTY.
readQuotient(d) == [d EXCEPT !.dirty = FALSE]

-----------------------------------------------------------------------------
(* The interpolator's registers *)

InterpRegisters == {"ACCUM0", "ACCUM1", "BASE0", "BASE1", "BASE2"}
writeInterp(n, r, reg, v) ==
  CASE reg = "ACCUM0" -> update(n, [r EXCEPT !.accum[0] = v])
    [] reg = "ACCUM1" -> update(n, [r EXCEPT !.accum[1] = v])
    [] reg = "BASE0" -> update(n, [r EXCEPT !.base[0] = v])
    [] reg = "BASE1" -> update(n, [r EXCEPT !.base[1] = v])
    [] reg = "BASE2" -> update(n, [r EXCEPT !.base[2] = v])
    [] reg = "CTRL0" -> update(n, [r EXCEPT !.ctrl[0] = decode(v)])
    [] reg = "CTRL1" -> update(n, [r EXCEPT !.ctrl[1] = decode(v)])
    [] reg = "ACCUM0_ADD" -> update(n, [r EXCEPT !.accum[0] = u32(@ + v)])
    [] reg = "ACCUM1_ADD" -> update(n, [r EXCEPT !.accum[1] = u32(@ + v)])
    [] reg = "BASE_1AND0" -> setBase01(n, r, v)

\* Peeking changes nothing; popping a lane or the full result writes both lanes back.
readInterp(n, r, reg) ==
  IF reg \in {"POP_LANE0", "POP_LANE1", "POP_FULL"} THEN writeback(n, r) ELSE r

-----------------------------------------------------------------------------
(* A program and its interrupt handlers *)

Init == \E part \in {"divider", "interpolator"}, n \in {0, 1} :
  calc = [part |-> part, n |-> n, it |-> Reset(n), div |-> ResetDivider, ops |-> MaxOps,
          frames |-> <<>>, kept |-> TRUE]

Frame == calc.frames[1]
InHandler == calc.frames # <<>>
Restoring == InHandler /\ Frame.restored > 0

\* One access fewer, of the handler if there is one.
Spent(s) == IF InHandler THEN [s EXCEPT !.frames[1].ops = @ - 1] ELSE [s EXCEPT !.ops = @ - 1]
MayAccess(part) ==
  calc.part = part /\ IF InHandler THEN Frame.ops > 0 /\ ~Restoring ELSE calc.ops > 0

Divide == \E reg \in DividerRegisters, v \in Operands :
  MayAccess("divider") /\ calc' = Spent([calc EXCEPT !.div = writeDivider(@, reg, v)])
ReadQuotient == MayAccess("divider") /\ calc' = Spent([calc EXCEPT !.div = readQuotient(@)])

Write == \E reg \in InterpRegisters \union {"ACCUM0_ADD", "ACCUM1_ADD", "BASE_1AND0"}, v \in Values :
  MayAccess("interpolator") /\ calc' = Spent([calc EXCEPT !.it = writeInterp(calc.n, @, reg, v)])
Configure == \E reg \in {"CTRL0", "CTRL1"}, c \in Configs :
  MayAccess("interpolator") /\ calc' = Spent([calc EXCEPT !.it = writeInterp(calc.n, @, reg, c)])
Pop == MayAccess("interpolator") /\ calc' = Spent([calc EXCEPT !.it = readInterp(calc.n, @, "POP_FULL")])

\* A handler saves first, the quotient last of the divider's registers.
Enter ==
  /\ Len(calc.frames) < MaxNested
  /\ calc' = [calc EXCEPT !.div = readQuotient(@),
                !.frames = <<[it |-> calc.it, div |-> calc.div, ops |-> MaxOps, restored |-> 0]>> \o @]

\* The registers in the order they are restored in.
Order == [divider |-> <<"UDIVIDEND", "UDIVISOR", "REMAINDER", "QUOTIENT">>,
          interpolator |-> <<"ACCUM0", "ACCUM1", "BASE0", "BASE1", "BASE2", "CTRL0", "CTRL1">>][calc.part]
Saved(f, reg) ==
  CASE reg = "UDIVIDEND" -> f.div.dividend [] reg = "UDIVISOR" -> f.div.divisor
    [] reg = "REMAINDER" -> f.div.remainder [] reg = "QUOTIENT" -> f.div.quotient
    [] reg = "ACCUM0" -> f.it.accum[0] [] reg = "ACCUM1" -> f.it.accum[1]
    [] reg = "BASE0" -> f.it.base[0] [] reg = "BASE1" -> f.it.base[1] [] reg = "BASE2" -> f.it.base[2]
    [] reg = "CTRL0" -> toUint32(f.it.ctrl[0]) [] reg = "CTRL1" -> toUint32(f.it.ctrl[1])

Restore ==
  /\ InHandler /\ Frame.restored < Len(Order)
  /\ LET reg == Order[Frame.restored + 1]
         s == [calc EXCEPT !.frames[1].restored = @ + 1]
     IN  calc' = IF reg \in DividerRegisters
                 THEN [s EXCEPT !.div = writeDivider(@, reg, Saved(Frame, reg))]
                 ELSE [s EXCEPT !.it = writeInterp(calc.n, @, reg, Saved(Frame, reg))]

Same(s, f) == s.it = f.it /\ [s.div EXCEPT !.dirty = TRUE] = [f.div EXCEPT !.dirty = TRUE]

Return ==
  /\ InHandler /\ Frame.restored = Len(Order)
  /\ calc' = [calc EXCEPT !.frames = Tail(@), !.kept = Same(calc, Frame)]

Next == Divide \/ ReadQuotient \/ Write \/ Configure \/ Pop \/ Enter \/ Restore \/ Return

Spec == Init /\ [][Next]_calc

-----------------------------------------------------------------------------
(* Correctness *)

\* A handler that saves and restores the registers is not noticed: wherever it comes,
\* also between the operands of a division or while another one restores, every
\* register and every result is afterwards what it was, although writing any of
\* them starts a division or changes all the results (updateHardwareDivider, update).
HandlersUnnoticed == calc.kept
=============================================================================
