-------------------------------- MODULE Thumb --------------------------------
(***************************************************************************)
(* How the two Arm cores read an instruction.  Of 16 bits: the order of    *)
(* the tests in executeThumb16 (cortex-m33/execute-thumb16.ts) and in      *)
(* executeInstruction (cortex-m0-core.ts), and what each instruction sets. *)
(* A row is <<shift, values, name, flags>>: the test                       *)
(* (opcode >> shift) in values, the instruction, and the flags it writes.  *)
(* The rows stand in the order of the code, and the first that holds wins. *)
(*                                                                         *)
(* Of 32 bits, on the Cortex-M33: executeThumb32 and its dispatchers       *)
(* (cortex-m33/execute-thumb32.ts), the floating-point instructions        *)
(* (execute-fpu.ts) and the RP2350 coprocessors (coprocessor.ts).  h0 and  *)
(* h1 are the two halfwords.  Each operator gives the instruction its      *)
(* function executes; NoInsn is the result -1, on which the core throws.   *)
(***************************************************************************)
EXTENDS Naturals, Sequences, SequencesExt

\* Families of register instructions that both cores test one by one:
\* 010000 op, and the loads and stores 0101 op and imm5.
DP(op) == \b0100000000 + op
LS(op) == \b0101000 + op

M33AddAndBranch ==
  << <<6, {DP(5)}, "ADC", "NZCV">>, <<11, {\b10101}, "ADD SP imm8", "">>,
     <<7, {\b101100000}, "ADD SP", "">>, <<9, {\b0001110}, "ADD imm3", "NZCV">>,
     <<11, {\b00110}, "ADD imm8", "NZCV">>, <<9, {\b0001100}, "ADD reg", "NZCV">>,
     <<8, {\b01000100}, "ADD high", "">>, <<11, {\b10100}, "ADR", "">>,
     <<6, {DP(0)}, "AND", "NZ">>, <<11, {\b00010}, "ASR imm", "NZC">>,
     <<6, {DP(4)}, "ASR reg", "NZC">> >>

M33Branches ==
  << <<8, {\hD0 + c : c \in 0 .. 13}, "B cond", "">>, <<11, {\b11100}, "B", "">>,
     <<6, {DP(14)}, "BIC", "NZ">>, <<8, {\b10111110}, "BKPT", "">>,
     <<0, {\h4780 + 8 * r : r \in 0 .. 15}, "BLX", "">>,
     <<0, {\h4700 + 8 * r : r \in 0 .. 15}, "BX", "">>,
     <<8, {\hB1, \hB3, \hB9, \hBB}, "CBZ", "">>,
     <<6, {DP(11)}, "CMN", "NZCV">>, <<11, {\b00101}, "CMP imm", "NZCV">>,
     <<6, {DP(10)}, "CMP reg", "NZCV">>, <<8, {\b01000101}, "CMP high", "NZCV">>,
     <<0, {\hB660 + k : k \in 0 .. 7} \cup {\hB670 + k : k \in 0 .. 7}, "CPS", "">>,
     <<6, {DP(1)}, "EOR", "NZ">> >>

\* Faulty variant of M33Hints: tests for IT before the hints.
ITFirst == << <<8, {\hBF}, "IT", "">>, <<0, {\hBF00}, "NOP", "">>, <<0, {\hBF20}, "WFE", "">>,
              <<0, {\hBF30}, "WFI", "">> >>

\* 1011 1111: IT, or with an empty mask one of the hints
M33Hints == << <<0, {\hBF00}, "NOP", "">>, <<0, {\hBF10}, "YIELD", "">>,
               <<0, {\hBF20}, "WFE", "">>, <<0, {\hBF30}, "WFI", "">>,
               <<0, {\hBF40}, "SEV", "">>,
               <<0, {\hBF00 + 16 * k : k \in 5 .. 15}, "hint", "">>,
               <<8, {\hBF}, "IT", "">> >>

Loads ==
  << <<11, {\b11001}, "LDM", "">>, <<11, {\b01101}, "LDR imm", "">>,
     <<11, {\b10011}, "LDR SP", "">>, <<11, {\b01001}, "LDR literal", "">>,
     <<9, {LS(4)}, "LDR reg", "">>, <<11, {\b01111}, "LDRB imm", "">>,
     <<9, {LS(6)}, "LDRB reg", "">>, <<11, {\b10001}, "LDRH imm", "">>,
     <<9, {LS(5)}, "LDRH reg", "">>, <<9, {LS(3)}, "LDRSB", "">>,
     <<9, {LS(7)}, "LDRSH", "">> >>

ShiftsAndMoves ==
  << <<11, {\b00000}, "LSL imm", "NZC">>, <<6, {DP(2)}, "LSL reg", "NZC">>,
     <<11, {\b00001}, "LSR imm", "NZC">>, <<6, {DP(3)}, "LSR reg", "NZC">>,
     <<8, {\b01000110}, "MOV high", "">>, <<11, {\b00100}, "MOV imm8", "NZ">> >>

Multiply ==
  << <<6, {DP(13)}, "MUL", "NZ">>, <<6, {DP(15)}, "MVN", "NZ">>,
     <<6, {DP(12)}, "ORR", "NZ">> >>

StackAndReverse ==
  << <<9, {\b1011110}, "POP", "">>, <<9, {\b1011010}, "PUSH", "">>,
     <<6, {\b1011101000}, "REV", "">>, <<6, {\b1011101001}, "REV16", "">>,
     <<6, {\b1011101011}, "REVSH", "">>, <<6, {DP(7)}, "ROR", "NZC">>,
     <<6, {DP(9)}, "RSB", "NZCV">> >>

M33Nop == << <<0, {\h46C0}, "NOP", "">> >>
SBC == << <<6, {DP(6)}, "SBC", "NZCV">> >>

Stores ==
  << <<11, {\b11000}, "STM", "">>, <<11, {\b01100}, "STR imm", "">>,
     <<11, {\b10010}, "STR SP", "">>, <<9, {LS(0)}, "STR reg", "">>,
     <<11, {\b01110}, "STRB imm", "">>, <<9, {LS(2)}, "STRB reg", "">>,
     <<11, {\b10000}, "STRH imm", "">>, <<9, {LS(1)}, "STRH reg", "">> >>

SubAndExtend ==
  << <<7, {\b101100001}, "SUB SP", "">>, <<9, {\b0001111}, "SUB imm3", "NZCV">>,
     <<11, {\b00111}, "SUB imm8", "NZCV">>, <<9, {\b0001101}, "SUB reg", "NZCV">>,
     <<8, {\b11011111}, "SVC", "">>, <<6, {\b1011001001}, "SXTB", "">>,
     <<6, {\b1011001000}, "SXTH", "">>, <<6, {DP(8)}, "TST", "NZ">>,
     <<8, {\b11011110}, "UDF", "">> >>

UnsignedExtend ==
  << <<6, {\b1011001011}, "UXTB", "">>, <<6, {\b1011001010}, "UXTH", "">> >>

M33Rows == M33AddAndBranch \o M33Branches \o M33Hints \o Loads \o ShiftsAndMoves \o Multiply
           \o StackAndReverse \o M33Nop \o SBC \o Stores \o SubAndExtend \o UnsignedExtend

-----------------------------------------------------------------------------
(* The M0+ core: the same rows except for the miscellaneous instructions. *)

M0Branches ==
  SelectSeq(M33Branches, LAMBDA r : r[3] \notin {"CBZ", "CPS", "EOR"})
    \o << <<0, {\hB672, \hB662}, "CPS", "">>, <<6, {DP(1)}, "EOR", "NZ">> >>

M0Hints == << <<0, {\hBF00}, "NOP", "">>, <<6, {DP(6)}, "SBC", "NZCV">>,
              <<0, {\hBF40}, "SEV", "">> >>

M0Waits == << <<0, {\hBF20}, "WFE", "">>, <<0, {\hBF30}, "WFI", "">>,
              <<0, {\hBF10}, "YIELD", "">> >>

\* The arithmetic rows stand in the same order in both cores.
M0AddAndBranch == M33AddAndBranch
M0Loads == Loads
M0ShiftsAndMoves == ShiftsAndMoves
M0Multiply == Multiply
M0StackAndReverse == StackAndReverse
M0Stores == Stores
M0SubAndExtend == SubAndExtend \o UnsignedExtend

M0Rows == M0AddAndBranch \o M0Branches \o M0Loads \o M0ShiftsAndMoves \o M0Multiply
          \o M0StackAndReverse \o M0Hints \o M0Stores \o M0SubAndExtend \o M0Waits

\* Opcodes that start a 32-bit instruction: isThumb32, wideInstruction.
IsThumb32(op) == op \div 2048 \in {\b11101, \b11110, \b11111}

\* The first row whose test holds; no row: the M33 throws, the M0+ warns.
Undefined == <<0, {}, "undefined", "">>
Decode(rows, op) ==
  LET fits == {k \in 1 .. Len(rows) : (op \div 2 ^ rows[k][1]) \in rows[k][2]}
  IN  IF IsThumb32(op) THEN <<0, {}, "wide", "">>
      ELSE IF fits = {} THEN Undefined
      ELSE rows[CHOOSE k \in fits : \A j \in fits : k <= j]

executeThumb16(op) == Decode(M33Rows, op)
executeInstruction(op) == Decode(M0Rows, op)

-----------------------------------------------------------------------------
(* The encodings of the Armv6-M and Armv8-M architectures, from their       *)
(* opcode fields down: the reference for both.                              *)

Bits(op, hi, lo) == (op \div 2 ^ lo) % 2 ^ (hi - lo + 1)

ArchShiftAddMove(op) ==       \* 00xxxx
  LET sub == Bits(op, 13, 9)
  IN  IF Bits(op, 13, 11) <= 2 THEN <<"LSL imm", "LSR imm", "ASR imm">>[Bits(op, 13, 11) + 1]
      ELSE IF Bits(op, 13, 11) = 3
      THEN <<"ADD reg", "SUB reg", "ADD imm3", "SUB imm3">>[(sub % 4) + 1]
      ELSE <<"MOV imm8", "CMP imm", "ADD imm8", "SUB imm8">>[Bits(op, 13, 11) - 3]

ArchDataProcessing(op) ==     \* 010000
  <<"AND", "EOR", "LSL reg", "LSR reg", "ASR reg", "ADC", "SBC", "ROR",
    "TST", "RSB", "CMP reg", "CMN", "ORR", "MUL", "BIC", "MVN">>[Bits(op, 9, 6) + 1]

ArchSpecialData(op) ==        \* 010001
  CASE Bits(op, 9, 8) = 0 -> "ADD high"
    [] Bits(op, 9, 8) = 1 -> "CMP high"
    [] Bits(op, 9, 8) = 2 -> "MOV high"
    [] OTHER -> IF Bits(op, 2, 0) # 0 THEN "undefined"
                ELSE IF Bits(op, 7, 7) = 1 THEN "BLX" ELSE "BX"

ArchLoadStore(op) ==          \* 0101, 011, 100
  LET a == Bits(op, 15, 12)
      b == Bits(op, 11, 9)
      l == Bits(op, 11, 11)
  IN  IF a = 5 THEN <<"STR reg", "STRH reg", "STRB reg", "LDRSB", "LDR reg", "LDRH reg",
                      "LDRB reg", "LDRSH">>[b + 1]
      ELSE <<"STR imm", "LDR imm", "STRB imm", "LDRB imm", "STRH imm", "LDRH imm",
             "STR SP", "LDR SP">>[2 * (a - 6) + l + 1]

\* 1011, with what the M profile of each core has
ArchMisc(op, m33) ==
  LET b == Bits(op, 11, 5)
  IN  CASE b \in 0 .. 3 -> "ADD SP"
        [] b \in 4 .. 7 -> "SUB SP"
        [] m33 /\ b \div 8 \in {1, 3, 9, 11} -> "CBZ"
        [] b \div 8 = 2 -> <<"SXTH", "SXTB", "UXTH", "UXTB">>[Bits(op, 7, 6) + 1]
        [] b \div 16 = 2 -> "PUSH"
        [] b = \b0110011 -> IF m33 THEN IF Bits(op, 3, 3) = 0 THEN "CPS" ELSE "undefined"
                            ELSE IF Bits(op, 3, 0) = 2 THEN "CPS" ELSE "undefined"
        [] b \div 8 = 10 -> <<"REV", "REV16", "undefined", "REVSH">>[Bits(op, 7, 6) + 1]
        [] b \div 16 = 6 -> "POP"
        [] b \div 8 = 14 -> "BKPT"
        [] b \div 8 = 15 ->
             IF m33 /\ Bits(op, 3, 0) # 0 THEN "IT"
             ELSE IF Bits(op, 3, 0) # 0 THEN "undefined"
             ELSE IF Bits(op, 7, 4) <= 4
                  THEN <<"NOP", "YIELD", "WFE", "WFI", "SEV">>[Bits(op, 7, 4) + 1]
                  ELSE IF m33 THEN "hint" ELSE "undefined"
        [] OTHER -> "undefined"

ArchName(op, m33) ==
  LET top == Bits(op, 15, 12)
  IN  CASE top \in 0 .. 3 -> ArchShiftAddMove(op)
        [] top = 4 /\ Bits(op, 11, 10) = 0 -> ArchDataProcessing(op)
        [] top = 4 /\ Bits(op, 11, 10) = 1 -> ArchSpecialData(op)
        [] top = 4 -> "LDR literal"
        [] top \in 5 .. 9 -> ArchLoadStore(op)
        [] top = 10 -> IF Bits(op, 11, 11) = 0 THEN "ADR" ELSE "ADD SP imm8"
        [] top = 11 -> ArchMisc(op, m33)
        [] top = 12 -> IF Bits(op, 11, 11) = 0 THEN "STM" ELSE "LDM"
        [] top = 13 -> IF Bits(op, 11, 8) = 14 THEN "UDF"
                       ELSE IF Bits(op, 11, 8) = 15 THEN "SVC" ELSE "B cond"
        [] top = 14 /\ Bits(op, 11, 11) = 0 -> "B"
        [] OTHER -> "wide"

\* The flags an instruction writes outside an IT block.
ArchFlags(name) ==
  CASE name \in {"ADC", "SBC", "RSB", "CMN", "CMP imm", "CMP reg", "CMP high", "ADD imm3",
                 "ADD imm8", "ADD reg", "SUB imm3", "SUB imm8", "SUB reg"} -> "NZCV"
    [] name \in {"LSL imm", "LSR imm", "ASR imm", "LSL reg", "LSR reg", "ASR reg", "ROR"} -> "NZC"
    [] name \in {"AND", "EOR", "ORR", "BIC", "MVN", "TST", "MUL", "MOV imm8"} -> "NZ"
    [] OTHER -> ""

-----------------------------------------------------------------------------
(* Instructions of 32 bits *)

NoInsn == "none"

\* The operations that data processing instructions share, by bits 8:5 of h0:
\* with S set and the destination 15 four of them only test.
DataProcessing(op, test, rn15) ==
  CASE op = 0 -> IF test THEN "TST" ELSE "AND"
    [] op = 1 -> "BIC"
    [] op = 2 -> IF rn15 THEN "MOV" ELSE "ORR"
    [] op = 3 -> IF rn15 THEN "MVN" ELSE "ORN"
    [] op = 4 -> IF test THEN "TEQ" ELSE "EOR"
    [] op = 8 -> IF test THEN "CMN" ELSE "ADD"
    [] op = 10 -> "ADC"
    [] op = 11 -> "SBC"
    [] op = 13 -> IF test THEN "CMP" ELSE "SUB"
    [] op = 14 -> "RSB"
    [] OTHER -> NoInsn

Tests(h0, h1) == Bits(h0, 4, 4) = 1 /\ Bits(h1, 11, 8) = 15
Rn15(h0) == Bits(h0, 3, 0) = 15

dispatchDpModifiedImm(h0, h1) == DataProcessing(Bits(h0, 8, 5), Tests(h0, h1), Rn15(h0))
dispatchDpShiftedReg(h0, h1) == DataProcessing(Bits(h0, 8, 5), Tests(h0, h1), Rn15(h0))

dispatchDpPlainImm(h0, h1) ==
  LET op == Bits(h0, 8, 4)
  IN  CASE op = 4 -> "MOVW"
        [] op = 12 -> "MOVT"
        [] op = 0 -> "ADDW"
        [] op = 10 -> "SUBW"
        [] op = 20 -> "SBFX"
        [] op = 28 -> "UBFX"
        [] op = 22 -> IF Rn15(h0) THEN "BFC" ELSE "BFI"
        [] op \in {16, 18} -> "SSAT"
        [] op \in {24, 26} -> "USAT"
        [] OTHER -> NoInsn

dispatchLongBranch(h0, h1) ==
  CASE Bits(h1, 14, 14) = 1 -> "BL"
    [] Bits(h1, 14, 14) = 0 /\ Bits(h1, 12, 12) = 1 -> "B"
    [] Bits(h1, 14, 14) = 0 /\ Bits(h1, 12, 12) = 0 ->
         IF Bits(h0, 9, 7) = 7 THEN NoInsn ELSE "B cond"

\* load and store exclusive, acquire and release, and table branch
LoadStoreExclusive(h0, h1) ==
  LET op1 == Bits(h0, 7, 4)
      sub == Bits(h1, 7, 4)
      rt == Bits(h1, 15, 12)
      width == CASE sub \in {4, 12} -> "B" [] sub \in {5, 13} -> "H" [] OTHER -> ""
  IN  CASE op1 = 5 -> "LD"
        [] op1 = 4 -> "STEX"
        [] op1 = 13 -> IF rt = 15 THEN IF Bits(h1, 4, 4) = 1 THEN "TBH" ELSE "TBB"
                       ELSE "LD" \o width
        [] op1 = 12 -> (IF sub \in {4, 5, 12, 13, 14} THEN "STEX" ELSE "ST")
                       \o (IF sub \in {8, 9} THEN <<"B", "H">>[sub - 7] ELSE width)

\* The group 0xe800: multiple, exclusive, dual, shifted register, coprocessor.
LoadStoreMultiple(h0) == IF Bits(h0, 8, 7) \in {1, 2}
                         THEN IF Bits(h0, 4, 4) = 1 THEN "LDM" ELSE "STM" ELSE NoInsn
LoadStoreDual(h0) == IF Bits(h0, 4, 4) = 0 THEN "STRD" ELSE "LDRD"

\* LDR and STR in the three forms of the offset; an 11 for the size reads as a word.
dispatchLoadStoreSingle(h0, h1) ==
  LET load == Bits(h0, 4, 4) = 1
      signed == load /\ Bits(h0, 8, 8) = 1
      size == Bits(h0, 6, 5)
      form == CASE Bits(h0, 7, 7) = 1 \/ Rn15(h0) -> "imm12"
                [] Bits(h1, 11, 11) = 0 -> "reg"
                [] Bits(h1, 10, 10) = 0 -> "post"
                [] OTHER -> "imm8"
  IN  (IF load THEN "LDR" ELSE "STR") \o (IF signed /\ size < 2 THEN "S" ELSE "")
        \o <<"B ", "H ", " ", " ">>[size + 1] \o form

dispatchDpRegister(h0, h1) ==
  LET op == Bits(h0, 7, 4)
      sel == Bits(h1, 7, 4)
      extend == <<"SXTAH", "UXTAH", NoInsn, NoInsn, "SXTAB", "UXTAB">>
      plain == <<"SXTH", "UXTH", NoInsn, NoInsn, "SXTB", "UXTB">>
  IN  CASE op < 8 /\ sel = 0 -> <<"LSL", "LSR", "ASR", "ROR">>[(op \div 2) + 1]
        [] op = 9 -> CASE sel = 8 -> "REV" [] sel = 9 -> "REV16" [] sel = 10 -> "RBIT"
                       [] OTHER -> "REVSH"
        [] op = 11 -> "CLZ"
        [] op < 6 /\ sel # 0 -> (IF Rn15(h0) THEN plain ELSE extend)[op + 1]
        [] OTHER -> NoInsn

dispatchMultiply(h0, h1) ==
  LET op == Bits(h0, 7, 4)
      sel == Bits(h1, 7, 4)
      ra15 == Bits(h1, 15, 12) = 15
  IN  CASE op = 0 -> IF sel % 4 = 1 THEN "MLS" ELSE IF ra15 THEN "MUL" ELSE "MLA"
        [] op = 1 -> IF ra15 THEN "SMULxy" ELSE "SMLAxy"
        [] op = 5 -> IF ra15 THEN "SMMUL" ELSE "SMMLA"
        [] op = 8 -> "SMULL" [] op = 9 -> "SDIV" [] op = 10 -> "UMULL"
        [] op = 11 -> "UDIV" [] op = 12 -> "SMLAL" [] op = 14 -> "UMLAL"
        [] OTHER -> NoInsn

-----------------------------------------------------------------------------
(* Coprocessors *)

Transfer(h1) == Bits(h1, 4, 4) = 1          \* MCR and MRC, against CDP
ToArm(h0) == Bits(h0, 4, 4) = 1             \* the L bit

\* opcode 1x11 and bit 6 of h1 set: one operand
UnaryFP(h0, h1) ==
  LET op == Bits(h0, 3, 0)
      n == Bits(h1, 7, 7)
  IN  CASE op = 0 -> <<"VMOV", "VABS">>[n + 1]
        [] op = 1 -> <<"VNEG", "VSQRT">>[n + 1]
        [] op \in {4, 5} -> "VCMP"
        [] op = 8 -> "VCVT from int"
        [] op = 10 -> "VCVT from fixed"
        [] op \in {12, 13} -> "VCVT to int"
        [] OTHER -> NoInsn

ArithmeticFP(h0, h1) ==
  LET op == 8 * Bits(h0, 7, 7) + Bits(h0, 5, 4)
      n == Bits(h1, 6, 6)
  IN  CASE op = 3 -> <<"VADD", "VSUB">>[n + 1]
        [] op = 2 -> <<"VMUL", "VNMUL">>[n + 1]
        [] op = 8 -> "VDIV"
        [] op = 10 /\ ~Transfer(h1) -> <<"VFMA", "VFMS">>[n + 1]
        [] op = 9 /\ ~Transfer(h1) -> <<"VFNMS", "VFNMA">>[n + 1]
        [] op = 11 /\ ~Transfer(h1) -> IF n = 0 THEN "VMOV imm" ELSE UnaryFP(h0, h1)
        [] OTHER -> NoInsn

TransferFP(h0) == IF Bits(h0, 7, 5) = 7 THEN IF ToArm(h0) THEN "VMRS" ELSE "VMSR"
                  ELSE "VMOV core"

LoadStoreFP(h0, h1) ==
  LET single == Bits(h0, 15, 8) = \hED /\ Bits(h0, 5, 5) = 0
  IN  CASE Bits(h0, 15, 5) = \hEC40 \div 32 /\ Bits(h1, 11, 8) = 10 -> "VMOV two"
        [] single -> IF ToArm(h0) THEN "VLDR" ELSE "VSTR"
        [] ~single /\ Bits(h1, 11, 8) = 10 /\ Bits(h0, 15, 9) = \hEC \div 2
             /\ Bits(h0, 7, 7) = 1 -> IF ToArm(h0) THEN "VLDM" ELSE "VSTM"
        [] h0 = \hED2D -> "VSTM"
        [] OTHER -> NoInsn

\* fpuExecute, once CPACR grants the access
fpuExecute(h0, h1) ==
  LET arithmetic == IF Bits(h0, 15, 8) = \hEE THEN ArithmeticFP(h0, h1) ELSE NoInsn
  IN  CASE arithmetic # NoInsn -> arithmetic
        [] Bits(h0, 15, 8) = \hEE /\ arithmetic = NoInsn /\ Bits(h0, 7, 7) = 1
             /\ Bits(h0, 5, 4) = 3 /\ ~Transfer(h1) -> NoInsn
        [] arithmetic = NoInsn /\ Bits(h0, 11, 8) = \hE /\ Transfer(h1) -> TransferFP(h0)
        [] Bits(h0, 15, 9) = \hEC \div 2 -> LoadStoreFP(h0, h1)
        [] Bits(h0, 15, 8) = \hFE /\ ~Transfer(h1) -> "VSEL"
        [] OTHER -> NoInsn

\* CP0: GPIO in bulk or by pin; CDP does nothing.
cp0Gpioc(h0, h1) == IF ~Transfer(h1) THEN "NOP" ELSE IF ToArm(h0) THEN "GPIO get" ELSE "GPIO put"

\* CP4 and CP5: double precision
cp45Dcp(h0, h1) ==
  LET opc1 == Bits(h0, 7, 4)
      opc2 == Bits(h1, 7, 5)
  IN  CASE Transfer(h1) -> IF Bits(h0, 7, 5) = 0 THEN "DCP move" ELSE "NOP"
        [] ~Transfer(h1) /\ opc1 = 0 -> IF opc2 <= 4 THEN "DCP arithmetic" ELSE "NOP"
        [] ~Transfer(h1) /\ opc1 = 1 -> IF opc2 <= 4 THEN "DCP compare" ELSE "NOP"
        [] ~Transfer(h1) /\ opc1 = 2 -> IF opc2 <= 5 THEN "DCP convert" ELSE "NOP"
        [] ~Transfer(h1) /\ opc1 = 3 -> IF opc2 <= 1 THEN "DCP status" ELSE "NOP"
        [] OTHER -> "NOP"

\* CP7: redundancy checks, which raise an NMI when they fail
cp7McrrMrrc(h0, h1) ==
  CASE ~ToArm(h0) /\ Bits(h1, 7, 0) = \h70 -> "RCP equal"
    [] ~ToArm(h0) /\ Bits(h1, 7, 4) = 8 -> "RCP salt"
    [] OTHER -> "NOP"

cp7Rcp(h0, h1) ==
  LET opc1 == Bits(h0, 7, 5)
      opc2 == Bits(h1, 7, 5)
      imm0 == Bits(h0, 3, 0) = 0 /\ Bits(h1, 3, 0) = 0
  IN  CASE Bits(h0, 11, 8) = 12 -> cp7McrrMrrc(h0, h1)
        [] Bits(h0, 11, 8) # 12 /\ ~Transfer(h1) ->
             IF Bits(h0, 7, 4) = 0 /\ opc2 = 1 THEN "RCP panic" ELSE "NOP"
        [] Bits(h0, 11, 8) # 12 /\ Transfer(h1) ->
             CASE opc1 = 0 /\ opc2 = 1 -> "RCP canary"
               [] opc1 = 1 /\ imm0 /\ opc2 = 0 /\ (ToArm(h0) => Bits(h1, 15, 12) = 15) ->
                    IF ToArm(h0) THEN "RCP status" ELSE "RCP valid"
               [] opc1 \in {2, 3} /\ imm0 /\ ~ToArm(h0) /\ opc2 = opc1 - 2 ->
                    <<"RCP true", "RCP false">>[opc1 - 1]
               [] opc1 \in {4, 5} /\ ~ToArm(h0) /\ opc2 = opc1 - 4 -> "RCP count"
               [] OTHER -> "NOP"

dispatchCoprocessor(h0, h1) ==
  LET cp == Bits(h1, 11, 8)
  IN  CASE cp \in {10, 11} -> fpuExecute(h0, h1)
        [] cp = 0 -> cp0Gpioc(h0, h1)
        [] cp \in {4, 5} -> cp45Dcp(h0, h1)
        [] cp = 7 -> cp7Rcp(h0, h1)
        [] OTHER -> NoInsn

-----------------------------------------------------------------------------
(* executeThumb32 *)

Group0xf000(h0, h1) ==
  CASE h0 = \hF3EF -> "MRS"
    [] Bits(h0, 15, 4) = \hF38 /\ Bits(h1, 15, 8) = \h88 -> "MSR"
    [] h0 = \hF3BF -> IF Bits(h1, 7, 4) <= 2 THEN "NOP"
                      ELSE IF Bits(h1, 7, 4) \in {4, 5, 6} THEN "barrier" ELSE NoInsn
    [] h0 \notin {\hF3EF, \hF3BF} /\ Bits(h1, 15, 15) = 1
         /\ ~(Bits(h0, 15, 4) = \hF38 /\ Bits(h1, 15, 8) = \h88) -> dispatchLongBranch(h0, h1)
    [] OTHER -> IF Bits(h0, 9, 9) = 0 THEN dispatchDpModifiedImm(h0, h1)
                ELSE dispatchDpPlainImm(h0, h1)

Group0xe800(h0, h1) ==
  LET exclusive == Bits(h0, 8, 8) = 0 /\ Bits(h0, 7, 4) \in {4, 5, 12, 13}
  IN  CASE Bits(h0, 10, 9) = 0 /\ Bits(h0, 6, 6) = 0 -> LoadStoreMultiple(h0)
        [] Bits(h0, 10, 9) = 0 /\ Bits(h0, 6, 6) = 1 ->
             IF exclusive THEN LoadStoreExclusive(h0, h1) ELSE LoadStoreDual(h0)
        [] Bits(h0, 10, 9) = 1 -> dispatchDpShiftedReg(h0, h1)
        [] OTHER -> dispatchCoprocessor(h0, h1)

Group0xf800(h0, h1) ==
  CASE Bits(h0, 10, 9) = 0 -> dispatchLoadStoreSingle(h0, h1)
    [] Bits(h0, 10, 8) = 2 -> dispatchDpRegister(h0, h1)
    [] Bits(h0, 10, 8) = 3 -> dispatchMultiply(h0, h1)
    [] OTHER -> dispatchCoprocessor(h0, h1)

executeThumb32(h0, h1) ==
  CASE h0 = \hE97F /\ h1 = \hE97F -> "SG"
    [] Bits(h0, 15, 4) = \hE84 /\ Bits(h1, 15, 12) = 15 /\ Bits(h1, 5, 0) = 0 -> "TT"
    [] OTHER -> CASE Bits(h0, 15, 11) = \b11110 -> Group0xf000(h0, h1)
                  [] Bits(h0, 15, 11) = \b11101 -> Group0xe800(h0, h1)
                  [] Bits(h0, 15, 11) = \b11111 -> Group0xf800(h0, h1)
-----------------------------------------------------------------------------
(* The encodings of Armv8-M with the DSP and single-precision extensions,   *)
(* from their opcode fields down.                                           *)

ArchPlainImmediate(h0, h1) ==
  LET op == Bits(h0, 8, 4)
      shift0 == Bits(h1, 14, 12) = 0 /\ Bits(h1, 7, 6) = 0
  IN  CASE op = 0 -> "ADDW" [] op = 4 -> "MOVW" [] op = 10 -> "SUBW" [] op = 12 -> "MOVT"
        [] op = 16 -> "SSAT" [] op = 18 -> IF shift0 THEN "SSAT16" ELSE "SSAT"
        [] op = 20 -> "SBFX" [] op = 22 -> IF Rn15(h0) THEN "BFC" ELSE "BFI"
        [] op = 24 -> "USAT" [] op = 26 -> IF shift0 THEN "USAT16" ELSE "USAT"
        [] op = 28 -> "UBFX" [] OTHER -> "undefined"

ArchDataProcessing32(h0, h1) ==
  LET op == Bits(h0, 8, 5)
      names == <<IF Tests(h0, h1) THEN "TST" ELSE "AND", "BIC",
                 IF Rn15(h0) THEN "MOV" ELSE "ORR", IF Rn15(h0) THEN "MVN" ELSE "ORN",
                 IF Tests(h0, h1) THEN "TEQ" ELSE "EOR", "undefined", "PKH", "undefined",
                 IF Tests(h0, h1) THEN "CMN" ELSE "ADD", "undefined", "ADC", "SBC",
                 "undefined", IF Tests(h0, h1) THEN "CMP" ELSE "SUB", "RSB", "undefined">>
  IN  names[op + 1]

ArchBranchesAndControl(h0, h1) ==
  LET op == Bits(h0, 10, 4)
  IN  CASE Bits(h1, 14, 14) = 1 -> IF Bits(h1, 12, 12) = 1 THEN "BL" ELSE "undefined"
        [] Bits(h1, 14, 12) \in {1, 3} -> "B"
        [] Bits(h1, 14, 12) \in {0, 2} ->
             CASE Bits(op, 5, 3) # 7 -> "B cond"
               [] op \in {56, 57} -> IF Bits(h1, 7, 0) < 32 \/ Bits(h1, 7, 7) = 1
                                     THEN "MSR" ELSE "undefined"
               [] op = 58 -> "NOP"
               [] op = 59 -> CASE Bits(h1, 7, 4) = 2 -> "NOP"          \* CLREX
                               [] Bits(h1, 7, 4) \in {4, 5, 6} -> "barrier"
                               [] OTHER -> "undefined"
               [] op \in {62, 63} -> "MRS"
               [] OTHER -> "undefined"

\* Hints, memory barriers and special registers fix the other register fields.
ArchFixed(h0, h1) ==
  CASE Bits(h0, 15, 4) \in {\hF3A, \hF3B} /\ Bits(h1, 15, 15) = 1 /\ Bits(h1, 14, 12) = 0 ->
         Rn15(h0) /\ Bits(h1, 11, 8) = (IF Bits(h0, 4, 4) = 1 THEN 15 ELSE 0)
    [] Bits(h0, 15, 4) \in {\hF38, \hF39} /\ Bits(h1, 15, 12) = 8 ->
         Bits(h0, 4, 4) = 0 /\ Bits(h1, 11, 8) = 8
    [] Bits(h0, 15, 4) \in {\hF3E, \hF3F} /\ Bits(h1, 15, 12) = 8 ->
         h0 = \hF3EF
    [] OTHER -> TRUE

\* Exclusive, acquire and release: the width is in the low two bits of op3.
ArchExclusive(h0, h1) ==
  LET op == Bits(h0, 7, 4)
      op3 == Bits(h1, 7, 4)
      width == <<"B", "H", "", "undefined">>[(op3 % 4) + 1]
      load == op \in {5, 13}
      rt15 == Bits(h1, 15, 12) = 15
  IN  CASE op = 4 -> IF ~rt15 THEN "STEX" ELSE IF Bits(h1, 5, 0) = 0 THEN "TT" ELSE "undefined"
        [] op = 5 -> "LD"
        [] op = 13 /\ op3 \in {0, 1} -> IF rt15 THEN <<"TBB", "TBH">>[op3 + 1] ELSE "undefined"
        [] op \in {12, 13} /\ op3 \in {4, 5, 8, 9, 10, 12, 13, 14} ->
             IF rt15 THEN "undefined"
             ELSE (IF load THEN "LD" ELSE IF op3 < 8 \/ op3 > 11 THEN "STEX" ELSE "ST") \o width
        [] OTHER -> "undefined"

ArchMultipleAndDual(h0, h1) ==
  CASE Bits(h0, 6, 6) = 0 -> IF Bits(h0, 8, 8) = Bits(h0, 7, 7) THEN "undefined"
                             ELSE <<"STM", "LDM">>[Bits(h0, 4, 4) + 1]
    [] Bits(h0, 6, 6) = 1 /\ Bits(h0, 8, 8) = 0 /\ Bits(h0, 5, 5) = 0 -> ArchExclusive(h0, h1)
    [] OTHER -> <<"STRD", "LDRD">>[Bits(h0, 4, 4) + 1]

\* LDRT and STRT differ from LDR and STR in their privilege only.
ArchLoadStore32(h0, h1) ==
  LET size == Bits(h0, 6, 5)
      load == Bits(h0, 4, 4) = 1
      sign == Bits(h0, 8, 8) = 1
      rt15 == Bits(h1, 15, 12) = 15
      form == CASE Bits(h0, 7, 7) = 1 \/ Rn15(h0) -> "imm12"
                [] Bits(h1, 11, 6) = 0 -> "reg"
                [] Bits(h1, 11, 11) = 1 /\ Bits(h1, 10, 10) = 0 /\ Bits(h1, 8, 8) = 1 -> "post"
                [] Bits(h1, 11, 11) = 1 /\ Bits(h1, 10, 10) = 1 -> "imm8"
                [] OTHER -> "undefined"
  IN  CASE size = 3 \/ form = "undefined" \/ (~load /\ (sign \/ Rn15(h0))) \/ (sign /\ size = 2)
             -> "undefined"
        [] load /\ rt15 /\ size < 2 -> "PLD"
        [] OTHER -> (IF load THEN "LDR" ELSE "STR") \o (IF sign THEN "S" ELSE "")
                    \o <<"B ", "H ", " ">>[size + 1] \o form

ArchRegister(h0, h1) ==
  LET op == Bits(h0, 7, 4)
      sel == Bits(h1, 7, 4)
  IN  CASE Bits(h1, 15, 12) # 15 -> "undefined"
        [] op < 8 /\ sel = 0 -> <<"LSL", "LSR", "ASR", "ROR">>[(op \div 2) + 1]
        [] op < 6 /\ sel > 7 ->
             (IF Rn15(h0) THEN <<"SXTH", "UXTH", "SXTB16", "UXTB16", "SXTB", "UXTB">>
              ELSE <<"SXTAH", "UXTAH", "SXTAB16", "UXTAB16", "SXTAB", "UXTAB">>)[op + 1]
        [] op > 7 /\ sel < 8 /\ sel % 4 # 3 /\ op \notin {11, 15} -> "parallel"
        [] op \in {8, 9, 10, 11} /\ sel \in 8 .. 11 ->
             CASE op = 8 -> "saturating"
               [] op = 9 -> <<"REV", "REV16", "RBIT", "REVSH">>[sel - 7]
               [] op = 10 /\ sel = 8 -> "SEL"
               [] op = 11 /\ sel = 8 -> "CLZ"
               [] OTHER -> "undefined"
        [] OTHER -> "undefined"

ArchMultiply(h0, h1) ==
  LET op == Bits(h0, 6, 4)
      sel == Bits(h1, 7, 4)
      ra15 == Bits(h1, 15, 12) = 15
  IN  CASE Bits(h0, 7, 7) = 0 ->
             CASE op = 0 /\ sel = 0 -> IF ra15 THEN "MUL" ELSE "MLA"
               [] op = 0 /\ sel = 1 -> "MLS"
               [] op = 1 /\ sel < 4 -> IF ra15 THEN "SMULxy" ELSE "SMLAxy"
               [] op = 5 /\ sel < 2 -> IF ra15 THEN "SMMUL" ELSE "SMMLA"
               [] op \in {2, 3, 4, 6} /\ sel < 2 -> "DSP" [] op = 7 /\ sel = 0 -> "DSP"
               [] OTHER -> "undefined"
        [] OTHER ->
             CASE op \in {0, 2, 4, 6} /\ sel = 0 -> <<"SMULL", "UMULL", "SMLAL", "UMLAL">>[(op \div 2) + 1]
               [] op \in {1, 3} /\ sel = 15 -> IF op = 1 THEN "SDIV" ELSE "UDIV"
               [] op = 4 /\ sel \in 8 .. 13 -> "DSP" [] op = 5 /\ sel \in {12, 13} -> "DSP"
               [] op = 6 /\ sel = 6 -> "UMAAL"
               [] OTHER -> "undefined"

ArchFP(h0, h1) ==
  LET opc1 == Bits(h0, 7, 4)
      two == Bits(h0, 15, 9) = \hEC \div 2
      b6 == Bits(h1, 6, 6)
      unary == <<<<"VMOV", "VABS">>, <<"VNEG", "VSQRT">>, <<"VCVTB", "VCVTT">>,
                 <<"VCVTB", "VCVTT">>, <<"VCMP", "VCMP">>, <<"VCMP", "VCMP">>,
                 <<"VRINT", "VRINT">>, <<"VRINT", "undefined">>,
                 <<"VCVT from int", "VCVT from int">>, <<"undefined", "undefined">>,
                 <<"VCVT from fixed", "VCVT from fixed">>, <<"VCVT from fixed", "VCVT from fixed">>,
                 <<"VCVT to int", "VCVT to int">>, <<"VCVT to int", "VCVT to int">>,
                 <<"VCVT to fixed", "VCVT to fixed">>, <<"VCVT to fixed", "VCVT to fixed">>>>
      arith == <<<<"VMLA", "VMLS">>, <<"VNMLS", "VNMLA">>, <<"VMUL", "VNMUL">>, <<"VADD", "VSUB">>>>
      double == Bits(h1, 11, 8) = 11
  IN  CASE two /\ Bits(h0, 15, 5) = \hEC40 \div 32 ->
             IF double \/ Bits(h1, 7, 6) # 0 \/ Bits(h1, 4, 4) = 0 THEN "undefined" ELSE "VMOV two"
        [] two /\ Bits(h0, 8, 8) = 1 /\ Bits(h0, 5, 5) = 0 ->
             (IF ToArm(h0) THEN "VLDR" ELSE "VSTR") \o (IF double THEN ".64" ELSE "")
        [] two /\ Bits(h0, 15, 5) # \hEC40 \div 32
             /\ <<Bits(h0, 8, 7), Bits(h0, 5, 5)>> \in {<<1, 0>>, <<1, 1>>, <<2, 1>>} ->
             (IF ToArm(h0) THEN "VLDM" ELSE "VSTM") \o (IF double THEN ".64" ELSE "")
        [] ~two /\ Bits(h0, 15, 12) = 14 /\ Transfer(h1) ->
             IF double \/ (opc1 > 1 /\ ~(opc1 \in {14, 15} /\ Bits(h0, 3, 0) = 1)) THEN "undefined"
             ELSE IF opc1 > 1 THEN IF ToArm(h0) THEN "VMRS" ELSE "VMSR" ELSE "VMOV core"
        [] ~two /\ Bits(h0, 15, 8) = \hEE /\ ~Transfer(h1) ->
             IF double THEN "undefined"
             ELSE IF opc1 < 8 THEN arith[(opc1 % 4) + 1][b6 + 1]
             ELSE CASE opc1 % 4 = 0 -> IF b6 = 0 THEN "VDIV" ELSE "undefined"
                    [] opc1 % 4 = 1 -> <<"VFNMS", "VFNMA">>[b6 + 1]
                    [] opc1 % 4 = 2 -> <<"VFMA", "VFMS">>[b6 + 1]
                    [] OTHER -> IF b6 = 0 THEN "VMOV imm"
                                ELSE unary[Bits(h0, 3, 0) + 1][Bits(h1, 7, 7) + 1]
        [] ~two /\ Bits(h0, 15, 8) = \hFE /\ ~Transfer(h1) ->
             IF double THEN "undefined"
             ELSE IF Bits(h0, 7, 7) = 0 /\ b6 = 0 THEN "VSEL" ELSE "VMAX, VRINT"
        [] OTHER -> "undefined"

ArchThumb32(h0, h1) ==
  LET top == Bits(h0, 12, 11)
      op2 == Bits(h0, 10, 9)
  IN  CASE h0 = \hE97F /\ h1 = \hE97F -> "SG"
        [] top # 2 /\ op2 > 1 /\ ~(top = 3 /\ Bits(h0, 10, 10) = 0) ->
             IF Bits(h1, 11, 8) \in {10, 11} THEN ArchFP(h0, h1) ELSE "coprocessor"
        [] top = 1 /\ op2 = 0 /\ ~(h0 = \hE97F /\ h1 = \hE97F) -> ArchMultipleAndDual(h0, h1)
        [] top = 1 /\ op2 = 1 -> ArchDataProcessing32(h0, h1)
        [] top = 2 /\ Bits(h1, 15, 15) = 1 ->
             IF ArchFixed(h0, h1) THEN ArchBranchesAndControl(h0, h1) ELSE "undefined"
        [] top = 2 /\ Bits(h1, 15, 15) = 0 ->
             IF Bits(h0, 9, 9) = 0
             THEN IF Bits(h0, 8, 5) = 6 THEN "undefined" ELSE ArchDataProcessing32(h0, h1)
             ELSE ArchPlainImmediate(h0, h1)
        [] top = 3 /\ op2 = 0 -> ArchLoadStore32(h0, h1)
        [] top = 3 /\ op2 = 1 -> IF Bits(h0, 8, 8) = 0 THEN ArchRegister(h0, h1)
                                 ELSE ArchMultiply(h0, h1)

\* The instructions read as another one: <<the architecture's, the code's>>.
Prefetches == {"LDRB imm12", "LDRB imm8", "LDRB reg", "LDRB post", "LDRH imm12", "LDRH imm8",
               "LDRH reg", "LDRH post", "LDRSB imm12", "LDRSB imm8", "LDRSB reg", "LDRSB post",
               "LDRSH imm12", "LDRSH imm8", "LDRSH reg", "LDRSH post"}
Misread ==
  {"B", "BL"} \X {"barrier", "NOP", "MRS"}             \* at two values of h0
  \cup {"PLD"} \X Prefetches                           \* a load into the program counter
  \cup {<<"LDB", "LD">>, <<"LDH", "LD">>,               \* LDAB, LDAH and their exclusive forms
        <<"DSP", "SMLAL">>, <<"UMAAL", "UMLAL">>, <<"SSAT16", "SSAT">>, <<"USAT16", "USAT">>,
        <<"parallel", "REVSH">>, <<"VLDR.64", "VLDR">>, <<"VSTR.64", "VSTR">>,
        <<"VMAX, VRINT", "VSEL">>}

\* The code reads an instruction as the architecture does, or not at all.
ReadAs(arch, code) ==
  arch = code \/ code = NoInsn \/ arch \in {"undefined", "coprocessor"}
    \/ <<arch, code>> \in Misread
=============================================================================
