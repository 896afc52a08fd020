---------------------------- MODULE MCInstructions ----------------------------
(***************************************************************************)
(* The instructions of the three cores, swept one block at a time: every   *)
(* 16-bit Thumb word, Thumb-32 words with every first half and the second  *)
(* halves that the decoder tells apart, every row of the RISC-V encoding,  *)
(* the arithmetic of the cores, and of the dividers and interpolators next *)
(* to them, on short words.                                                *)
(***************************************************************************)
EXTENDS Integers, Sequences

T == INSTANCE Thumb
Arm == INSTANCE ArmArithmetic WITH Width <- 4
Rv == INSTANCE Hazard3Instructions WITH Width <- 8

VARIABLES unit, block

\* Of the divider and the interpolators only what they compute is used here.
SC == INSTANCE SIOCore WITH Operands <- {}, Values <- {}, Configs <- {}, MaxOps <- 0, MaxNested <- 0,
        calc <- block

Blocks == [thumb16 |-> 256, thumb32 |-> 384, arm |-> 16, rv16 |-> Len(Rv!CompressedRows),
           rv32 |-> Len(Rv!StandardRows), rv |-> 256, sio |-> 256]

Init == unit \in DOMAIN Blocks /\ block = 0
Next == unit' = unit /\ block' = (block + 1) % Blocks[unit]
Spec == Init /\ [][Next]_<<unit, block>>

-----------------------------------------------------------------------------
(* The first half picks everything but the low register, which matters only  *)
(* for 15; of the second half, the fields the groups look at.                *)
FirstHalves == {16 * (\hE80 + block) + n : n \in {1, 15}}
SecondHalves == {a * 4096 + b * 256 + c * 16 + d :
                   a \in {0, 1, 4, 7, 8, 9, 12, 13, 15}, b \in {0, 1, 5, 8, 10, 11, 13, 15},
                   c \in 0 .. 15, d \in {0, 15}} \cup {\hE97F}

Named(row, arch) == row[3] = arch /\ row[4] = T!ArchFlags(arch)

\* Every 16-bit word is executed as the instruction the architecture gives it,
\* by the Cortex-M33 and by the Cortex-M0+, and every 32-bit one by the M33
\* unless it is one of the named misreadings (executeThumb16, executeThumb32,
\* executeInstruction of the M0+): the order of the tests decides which of
\* several overlapping patterns wins.
ThumbDecoded ==
  /\ unit = "thumb16" => \A op \in 256 * block .. 256 * block + 255 :
       /\ Named(T!executeThumb16(op), T!ArchName(op, TRUE))
       /\ Named(T!executeInstruction(op), T!ArchName(op, FALSE))
  /\ unit = "thumb32" => \A h0 \in FirstHalves, h1 \in SecondHalves :
       T!ReadAs(T!ArchThumb32(h0, h1), T!executeThumb32(h0, h1))

\* Results and flags of the Arm cores are the architecture's, except at the
\* named edges; USAT by n does what the architecture's USAT by n + 1 does
\* (addFlags, subFlags, addSubFlags, the shifts, bit fields, saturation and
\* products of execute-thumb16.ts, execute-thumb32.ts and cortex-m0-core.ts).
ArmComputes ==
  unit = "arm" => LET a == block IN
    /\ \A b \in Arm!Word, c \in BOOLEAN, op \in {"ADC", "ADD", "SUB", "SBC", "RSB"},
          core \in {"t16", "t32", "m0"} :
         \/ Arm!ArithmeticEdge(core, op, b, c)
         \/ Arm!Arithmetic(core, op, a, b, c) = Arm!ArchArithmetic(op, a, b, c)
    /\ \A n \in 0 .. 9, c \in BOOLEAN, op \in {"LSL", "LSR", "ASR", "ROR"} :
         /\ Arm!ShiftM33(op, a, n, c) = Arm!ArchShift(op, a, n, c)
         /\ Arm!ShiftEdge(op, n) \/ Arm!ShiftM0(op, a, n, c) = Arm!ArchShift(op, a, n, c)
         /\ n < 4 => Arm!ShiftImmediate(op, a, n, c) = Arm!ArchShiftImmediate(op, a, n, c)
    /\ \A lsb \in 0 .. 3, b \in Arm!Word, signed \in BOOLEAN :
         /\ \A width \in 1 .. 4 - lsb :
              Arm!Extract(a, lsb, width, signed) = Arm!ArchExtract(a, lsb, width, signed)
         /\ \A msb \in 0 .. 3 : Arm!Insert(b, a, lsb, msb) = Arm!ArchInsert(b, a, lsb, msb)
         /\ Arm!Saturate(a, lsb, signed) = Arm!ArchSaturate(a, IF signed THEN lsb ELSE lsb + 1, signed)
         /\ Arm!Product(a, b, signed) = Arm!ArchProduct(a, b, signed)
         /\ Arm!RoundedHigh(a, b, signed) = Arm!ArchRoundedHigh(a, b, signed)

\* Decoding an instruction of the manual gives it back, its operands included
\* (decodeStandard, decodeCompressed, executePacked).
RiscvDecoded ==
  /\ unit = "rv16" =>
       LET row == Rv!CompressedRows[block + 1]
       IN  \A t \in row[2] : Rv!executePacked(Rv!decodeCompressed(Rv!Encode(row[1], t))) = t
  /\ unit = "rv32" =>
       LET row == Rv!StandardRows[block + 1]
       IN  \A t \in Rv!StandardInsns(row) :
             Rv!executePacked(Rv!decodeStandard(Rv!StandardWord(row, t))) = t

Edges == {0, 1, 2, 7, 8, 15, 64, 127, 128, 129, 254, 255}
Unaries == {"CTZ", "CPOP", "SEXT_H", "SEXT_B", "CLZ", "REV8", "BREV8", "ZEXT_H"}
Immediates == {"ADDI", "SLTI", "XORI", "ORI", "ANDI"}
ShiftImmediates == {"SLLI", "SRLI", "SRAI", "RORI", "BSETI", "BCLRI", "BINVI", "BEXTI"}
Operations == {"ADD", "SUB", "MUL", "SLL", "SRL", "SRA", "MULH", "MULHSU", "MULHU", "BSET", "BCLR",
               "BINV", "BEXT", "ROL", "ROR", "SLT", "SLTU", "SH1ADD", "SH2ADD", "SH3ADD", "XOR",
               "OR", "AND", "XNOR", "ORN", "ANDN", "PACK", "PACKH", "MIN", "MAX", "MINU", "MAXU"}
Atomics == {"AMOADD_W", "AMOSWAP_W", "AMOXOR_W", "AMOOR_W", "AMOAND_W", "AMOMIN_W", "AMOMAX_W",
            "AMOMINU_W", "AMOMAXU_W"}

\* The RISC-V core computes what the manual defines, but for ORC.B, ZIP, UNZIP
\* and SLTIU with a negative immediate; a push stores the saved registers where
\* the manual's frame has them and a pop loads them from there (execOpImm,
\* execOp, execAmo, execBranch, execCustom0, execZcmp).
RiscvComputes ==
  unit = "rv" => LET a == block IN
    /\ \A tag \in Unaries : Rv!execUnary(tag, a) = Rv!ArchUnary(tag, a)
    /\ \A tag \in Immediates, imm \in -16 .. 15 :
         Rv!execOpImm(tag, a, imm) = Rv!ArchOpImm(tag, a, imm)
    /\ \A imm \in 0 .. 15 : Rv!execOpImm("SLTIU", a, imm) = Rv!ArchOpImm("SLTIU", a, imm)
    /\ \A tag \in ShiftImmediates, n \in 0 .. 7 :
         Rv!execOpImm(tag, a, n) = Rv!ArchOpImm(tag, a, n)
    /\ \A b \in Edges :
         /\ \A tag \in Operations : Rv!execOp(tag, a, b) = Rv!ArchOp(tag, a, b)
         /\ \A tag \in Atomics : Rv!execAmo(tag, a, b) = Rv!ArchAmo(tag, a, b)
         /\ \A tag \in {"BEQ", "BNE", "BLT", "BGE", "BLTU", "BGEU"} :
              Rv!execBranch(tag, a, b) = Rv!ArchBranch(tag, a, b)
         /\ \A size \in 0 .. 7 : Rv!execCustom0(a, b, size) = Rv!ArchBextm(a, b, size)
    /\ a \in Edges => \A b \in Edges, tag \in {"DIV", "DIVU", "REM", "REMU"} :
         Rv!ArchDivision(tag, a, b, Rv!execOp(tag, a, b))
    /\ \A rlist \in 4 .. 15, spimm \in {0, 48} :
         LET frame == Rv!ArchFrame(rlist, spimm)
             push == Rv!execPush(rlist, spimm, 512)
             pop == Rv!execPop(rlist, spimm, push.sp)
         IN  /\ push.stores = {<<512 - slot[1], slot[2]>> : slot \in frame.at}
             /\ push.sp = 512 - frame.size
             /\ pop.loads = push.stores /\ pop.sp = 512

\* The divider divides and the lanes of the interpolators compute what the datasheet
\* describes, for every shift and mask, also one that is empty or starts above
\* what is left of the word, and for every blend and clamp, signed or not
\* (updateHardwareDivider, update of interpolator.ts).
CalculatorsExact ==
  unit = "sio" => LET a == block IN
    /\ \A shift, lsb, msb \in SC!Position, signed \in BOOLEAN :
         LET c == [SC!ZeroConfig EXCEPT !.shift = shift, !.maskLSB = lsb, !.maskMSB = msb, !.signed = signed]
         IN  /\ SC!laneResult(c, a) = SC!ArchLane(c, a)
             /\ SC!decode(SC!toUint32(c)) = c
             /\ SC!overflows(c, a) = SC!ArchOverflow(c, a)
    /\ \A k \in 0 .. 25 : SC!toUint32(SC!decode(2 ^ k + a)) = 2 ^ k + a
    /\ \A b0, b1 \in Edges, signed \in BOOLEAN :
         LET c == [SC!ZeroConfig EXCEPT !.signed = signed]
         IN  /\ SC!ArchClamp(signed, a, b0, b1, SC!clampResult(c, a, b0, b1))
             /\ SC!ArchBlend(signed, a % SC!Weights, b0, b1, SC!blendResult(c, a % SC!Weights, b0, b1))
    /\ \A b \in Edges, signed \in BOOLEAN :
         SC!ArchDivided(SC!updateHardwareDivider([SC!ResetDivider EXCEPT !.dividend = a, !.divisor = b],
                                                 signed), signed)

\* What the two kinds of core execute is what their manuals define.
ArmExecutesManual == ThumbDecoded /\ ArmComputes
Hazard3ExecutesManual == RiscvDecoded /\ RiscvComputes
=============================================================================
