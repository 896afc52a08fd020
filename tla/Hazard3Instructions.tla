-------------------------- MODULE Hazard3Instructions --------------------------
(***************************************************************************)
(* The instructions of the RISC-V core: how they are decoded               *)
(* (riscv/decode.ts), what executePacked makes of the immediate, and what  *)
(* they compute (riscv/cpu.ts).                                            *)
(*                                                                         *)
(* A decoded instruction is <<tag, rd, rs1, rs2, imm>>; decode.ts keeps the*)
(* low 21 bits of the immediate, and Executed extends the sign as the      *)
(* dispatch does.  A 32-bit word is the record of its fields; a compressed *)
(* instruction is its 16-bit value.  The reference runs the other way:     *)
(* rows of the instruction-set manual say how an instruction is encoded,   *)
(* and decoding must give it back.                                         *)
(*                                                                         *)
(* What is computed is over words of Width bits instead of 32 and          *)
(* immediates of Width - 3 bits instead of 12, next to what the manual     *)
(* defines it to be.  Registers hold 0 .. Words - 1; a quarter of a word   *)
(* plays the byte.                                                         *)
(***************************************************************************)
EXTENDS Integers, Sequences, FiniteSets, FiniteSetsExt

LOCAL INSTANCE Bitwise

CONSTANT Width

NoInsn == <<"none", 0, 0, 0, 0>>                          \* throw, or T_INVALID

Bits(w, hi, lo) == (w \div 2 ^ lo) % 2 ^ (hi - lo + 1)
Part(w, hi, lo, at) == Bits(w, hi, lo) * 2 ^ at           \* a mask and a shift
SignExtend(x, n) == LET v == x % 2 ^ n IN IF v >= 2 ^ (n - 1) THEN v - 2 ^ n ELSE v
Raw(x) == x % 2 ^ 21                                      \* x & 0x1fffff
emit(tag, rd, rs1, rs2, imm) == <<tag, rd, rs1, rs2, Raw(imm)>>

-----------------------------------------------------------------------------
(* decodeStandard: words of 32 bits *)

immU_i(i) == i.f7 * 32 + i.rs2
imm_i(i) == SignExtend(immU_i(i), 12)
imm_s(i) == SignExtend(i.f7 * 32 + i.rd, 12)
\* Faulty variant of imm_b: takes bit 11 from the top of the field.
ImmBSwapped(i) == - Part(i.f7, 6, 6, 12) + Part(i.rd, 4, 4, 11) + Part(i.f7, 5, 0, 5)
                    + Part(i.rd, 3, 0, 1)
imm_b(i) == - Part(i.f7, 6, 6, 12) + Part(i.rd, 0, 0, 11) + Part(i.f7, 5, 0, 5)
              + Part(i.rd, 4, 1, 1)
imm_u(i) == immU_i(i) * 256 + i.rs1 * 8 + i.f3
imm_j(i) == - Part(i.f7, 6, 6, 20) + (i.rs1 * 8 + i.f3) * 4096 + Part(i.rs2, 0, 0, 11)
              + Part(immU_i(i), 10, 1, 1)

\* The tag for a selector, by a sequence that starts at 0; "" is a throw.
Pick(tags, n) == IF n < Len(tags) THEN tags[n + 1] ELSE ""

decodeLoad(i) == emit(Pick(<<"LB", "LH", "LW", "", "LBU", "LHU">>, i.f3), i.rd, i.rs1, 0, imm_i(i))
decodeStore(i) == emit(Pick(<<"SB", "SH", "SW">>, i.f3), 0, i.rs1, i.rs2, imm_s(i))
decodeBranch(i) == emit(Pick(<<"BEQ", "BNE", "", "", "BLT", "BGE", "BLTU", "BGEU">>, i.f3),
                        0, i.rs1, i.rs2, imm_b(i))

decodeOpImm(i) ==
  LET unary(tag) == emit(tag, i.rd, i.rs1, 0, 0)
      shift(tag) == emit(tag, i.rd, i.rs1, 0, i.rs2)
      immediate(tag) == emit(tag, i.rd, i.rs1, 0, imm_i(i))
      imu == immU_i(i)
  IN  CASE i.f3 = 1 -> (CASE i.f7 = 0 -> shift("SLLI")
                          [] i.f7 = 20 -> shift("BSETI")
                          [] i.f7 = 36 -> shift("BCLRI")
                          [] i.f7 = 52 -> shift("BINVI")
                          [] imu = \h601 -> unary("CTZ")
                          [] imu = \h602 -> unary("CPOP")
                          [] imu = \h605 -> unary("SEXT_H")
                          [] imu = \h604 -> unary("SEXT_B")
                          [] imu = \h600 -> unary("CLZ")
                          [] imu = \h08F -> unary("ZIP")
                          [] OTHER -> NoInsn)
        [] i.f3 = 5 -> (CASE i.f7 = 0 -> shift("SRLI")
                          [] i.f7 = 32 -> shift("SRAI")
                          [] i.f7 = 36 -> shift("BEXTI")
                          [] i.f7 = 48 -> shift("RORI")
                          [] imu = \h698 -> unary("REV8")
                          [] imu = \h687 -> unary("BREV8")
                          [] imu = \h287 -> unary("ORC_B")
                          [] imu = \h08F -> unary("UNZIP")
                          [] OTHER -> NoInsn)
        [] i.f3 \notin {1, 5} ->
             immediate(Pick(<<"ADDI", "", "SLTI", "SLTIU", "XORI", "", "ORI", "ANDI">>, i.f3))

decodeOp(i) ==
  LET tags == CASE i.f7 = 0 -> <<"ADD", "SLL", "SLT", "SLTU", "XOR", "SRL", "OR", "AND">>
                [] i.f7 = 1 -> <<"MUL", "MULH", "MULHSU", "MULHU", "DIV", "DIVU", "REM", "REMU">>
                [] i.f7 = 4 -> <<"", "", "", "", "PACK", "", "", "PACKH">>
                [] i.f7 = 5 -> <<"", "", "", "", "MIN", "MINU", "MAX", "MAXU">>
                [] i.f7 = 16 -> <<"", "", "SH1ADD", "", "SH2ADD", "", "SH3ADD">>
                [] i.f7 = 20 -> <<"", "BSET">>
                [] i.f7 = 32 -> <<"SUB", "", "", "", "XNOR", "SRA", "ORN", "ANDN">>
                [] i.f7 = 36 -> <<"", "BCLR", "", "", "", "BEXT">>
                [] i.f7 = 48 -> <<"", "ROL", "", "", "", "ROR">>
                [] i.f7 = 52 -> <<"", "BINV">>
                [] OTHER -> <<>>
  IN  IF i.f7 = 0 /\ i.f3 = 2 /\ i.rd = 0 /\ i.rs1 = 0 /\ i.rs2 \in {0, 1}
        THEN emit(IF i.rs2 = 0 THEN "H3_BLOCK" ELSE "H3_UNBLOCK", 0, 0, 0, 0)
      ELSE emit(Pick(tags, i.f3), i.rd, i.rs1, i.rs2, 0)

decodeAmo(i) ==
  LET funct5 == i.f7 \div 4
      tag == CASE funct5 = 2 -> "LR_W"     [] funct5 = 3 -> "SC_W"
               [] funct5 = 0 -> "AMOADD_W" [] funct5 = 1 -> "AMOSWAP_W"
               [] funct5 = 4 -> "AMOXOR_W" [] funct5 = 8 -> "AMOOR_W"
               [] funct5 = 12 -> "AMOAND_W" [] funct5 = 16 -> "AMOMIN_W"
               [] funct5 = 20 -> "AMOMAX_W" [] funct5 = 24 -> "AMOMINU_W"
               [] funct5 = 28 -> "AMOMAXU_W" [] OTHER -> ""
  IN  IF i.f3 # 2 THEN NoInsn
      ELSE emit(tag, i.rd, i.rs1, IF tag = "LR_W" THEN 0 ELSE i.rs2, 0)

decodeSystem(i) ==
  CASE i.f3 = 0 -> IF i.rd # 0 \/ i.rs1 # 0 THEN NoInsn
                   ELSE (CASE immU_i(i) = \h302 -> emit("MRET", 0, 0, 0, 0)
                           [] immU_i(i) = 0 -> emit("ECALL", 0, 0, 0, 0)
                           [] immU_i(i) = 1 -> emit("EBREAK", 0, 0, 0, 0)
                           [] immU_i(i) = \h105 -> emit("WFI", 0, 0, 0, 0)
                           [] OTHER -> NoInsn)
    [] i.f3 \in 1 .. 3 -> emit(Pick(<<"", "CSRRW", "CSRRS", "CSRRC">>, i.f3), i.rd, i.rs1, 0,
                               immU_i(i))
    [] i.f3 \in 5 .. 7 -> emit(Pick(<<"CSRRWI", "CSRRSI", "CSRRCI">>, i.f3 - 5), i.rd, 0, 0,
                               immU_i(i) * 32 + i.rs1)
    [] i.f3 = 4 -> NoInsn

decodeCustom0(i) ==
  IF i.f7 >= 16 \/ i.f7 % 2 = 1 \/ i.f3 \notin {0, 4} THEN NoInsn
  ELSE emit(IF i.f3 = 0 THEN "H3_BEXTM" ELSE "H3_BEXTMI", i.rd, i.rs1, i.rs2, i.f7)

decodeStandard(i) ==
  CASE i.op = \h03 -> decodeLoad(i)
    [] i.op = \h0F -> emit("FENCE", 0, 0, 0, 0)
    [] i.op = \h13 -> decodeOpImm(i)
    [] i.op = \h17 -> emit("AUIPC", i.rd, 0, 0, imm_u(i))
    [] i.op = \h23 -> decodeStore(i)
    [] i.op = \h2F -> decodeAmo(i)
    [] i.op = \h33 -> decodeOp(i)
    [] i.op = \h37 -> emit("LUI", i.rd, 0, 0, imm_u(i))
    [] i.op = \h63 -> decodeBranch(i)
    [] i.op = \h67 -> IF i.f3 = 0 THEN emit("JALR", i.rd, i.rs1, 0, imm_i(i)) ELSE NoInsn
    [] i.op = \h6F -> emit("JAL", i.rd, 0, 0, imm_j(i))
    [] i.op = \h73 -> decodeSystem(i)
    [] i.op = \h0B -> decodeCustom0(i)
    [] OTHER -> NoInsn

-----------------------------------------------------------------------------
(* decodeCompressed: words of 16 bits *)

dec_rd(w) == Bits(w, 11, 7)
dec_rs2(w) == Bits(w, 6, 2)
dec_rs1_short(w) == 8 + Bits(w, 9, 7)
dec_rd_short(w) == 8 + Bits(w, 4, 2)          \* and dec_rs2_short

CIImm(w) == Part(w, 12, 12, 5) + Part(w, 6, 2, 0)
CLImm(w) == Part(w, 5, 5, 6) + Part(w, 12, 10, 3) + Part(w, 6, 6, 2)
decCjImm(w) == SignExtend(Part(w, 12, 12, 11) + Part(w, 8, 8, 10) + Part(w, 10, 9, 8)
                 + Part(w, 6, 6, 7) + Part(w, 7, 7, 6) + Part(w, 2, 2, 5)
                 + Part(w, 11, 11, 4) + Part(w, 5, 3, 1), 12)
decBranchImm(w) == SignExtend(Part(w, 12, 12, 8) + Part(w, 6, 5, 6) + Part(w, 2, 2, 5)
                     + Part(w, 11, 10, 3) + Part(w, 4, 3, 1), 9)

decodeC0(w) ==
  LET d == dec_rd_short(w)
      base == dec_rs1_short(w)
      byte == Part(w, 5, 5, 1) + Part(w, 6, 6, 0)
      half == Part(w, 5, 5, 1)
      sub == Bits(w, 12, 10)
  IN  CASE Bits(w, 15, 13) = 0 ->
             emit("ADDI", d, 2, 0, Part(w, 10, 7, 6) + Part(w, 12, 11, 4) + Part(w, 5, 5, 3)
                                     + Part(w, 6, 6, 2))
        [] Bits(w, 15, 13) = 2 -> emit("LW", d, base, 0, CLImm(w))
        [] Bits(w, 15, 13) = 4 ->
             (CASE sub = 0 -> emit("LBU", d, base, 0, byte)
                [] sub = 1 -> emit(IF Bits(w, 6, 6) = 1 THEN "LH" ELSE "LHU", d, base, 0, half)
                [] sub = 2 -> emit("SB", 0, base, d, byte)
                [] sub = 3 /\ Bits(w, 6, 6) = 0 -> emit("SH", 0, base, d, half)
                [] OTHER -> NoInsn)
        [] Bits(w, 15, 13) = 6 -> emit("SW", 0, base, d, CLImm(w))
        [] OTHER -> NoInsn

\* C1, case 4: operations on rd'
decodeC1Alu(w) ==
  LET r == dec_rs1_short(w)
      funct == Part(w, 12, 12, 2) + Bits(w, 6, 5)
      register == Pick(<<"SUB", "XOR", "OR", "AND", "", "", "MUL">>, funct)
  IN  CASE Bits(w, 11, 10) = 0 -> emit("SRLI", r, r, 0, CIImm(w))
        [] Bits(w, 11, 10) = 1 -> emit("SRAI", r, r, 0, CIImm(w))
        [] Bits(w, 11, 10) = 2 -> emit("ANDI", r, r, 0, SignExtend(CIImm(w), 6))
        [] Bits(w, 11, 10) = 3 /\ funct # 7 ->
             IF register = "" THEN NoInsn ELSE emit(register, r, r, dec_rd_short(w), 0)
        [] Bits(w, 11, 10) = 3 /\ funct = 7 ->
             (CASE Bits(w, 4, 2) = 0 -> emit("ANDI", r, r, 0, 255)
                [] Bits(w, 4, 2) = 1 -> emit("SEXT_B", r, r, 0, 0)
                [] Bits(w, 4, 2) = 2 -> emit("ZEXT_H", r, r, 0, 0)
                [] Bits(w, 4, 2) = 3 -> emit("SEXT_H", r, r, 0, 0)
                [] Bits(w, 4, 2) = 5 -> emit("XORI", r, r, 0, -1)
                [] OTHER -> NoInsn)

decodeC1(w) ==
  LET r == dec_rd(w)
      sp == Part(w, 12, 12, 9) + Part(w, 4, 3, 7) + Part(w, 5, 5, 6) + Part(w, 2, 2, 5)
              + Part(w, 6, 6, 4)
  IN  CASE Bits(w, 15, 13) = 0 -> emit("ADDI", r, r, 0, SignExtend(CIImm(w), 6))
        [] Bits(w, 15, 13) = 1 -> emit("JAL", 1, 0, 0, decCjImm(w))
        [] Bits(w, 15, 13) = 2 -> emit("ADDI", r, 0, 0, SignExtend(CIImm(w), 6))
        [] Bits(w, 15, 13) = 3 -> IF r = 2 THEN emit("ADDI", 2, 2, 0, SignExtend(sp, 10))
                                  ELSE emit("LUI", r, 0, 0, SignExtend(CIImm(w), 6) % 2 ^ 20)
        [] Bits(w, 15, 13) = 4 -> decodeC1Alu(w)
        [] Bits(w, 15, 13) = 5 -> emit("JAL", 0, 0, 0, decCjImm(w))
        [] Bits(w, 15, 13) = 6 -> emit("BEQ", 0, dec_rs1_short(w), 0, decBranchImm(w))
        [] Bits(w, 15, 13) = 7 -> emit("BNE", 0, dec_rs1_short(w), 0, decBranchImm(w))

\* C2, case 4: C.JR, C.MV, C.EBREAK, C.JALR, C.ADD
decodeC2Jump(w) ==
  LET r == dec_rd(w)
  IN  CASE Bits(w, 12, 12) = 0 /\ dec_rs2(w) = 0 -> emit("JALR", 0, r, 0, 0)
        [] Bits(w, 12, 12) = 0 /\ dec_rs2(w) # 0 -> emit("ADD", r, 0, dec_rs2(w), 0)
        [] Bits(w, 12, 12) = 1 /\ dec_rs2(w) = 0 ->
             IF r = 0 THEN emit("EBREAK", 0, 0, 0, 0) ELSE emit("JALR", 1, r, 0, 0)
        [] Bits(w, 12, 12) = 1 /\ dec_rs2(w) # 0 -> emit("ADD", r, r, dec_rs2(w), 0)

\* C2, case 5: Zcmp.  A register field is reduced to its low bit.
decodeZcmp(w) ==
  LET push(tag) == emit(tag, 0, 0, Bits(w, 7, 4), Part(w, 3, 2, 4))
      r1s == 8 + Bits(w, 7, 7)
      r2s == 8 + Bits(w, 2, 2)
  IN  CASE Bits(w, 15, 8) = \hB8 -> push("CM_PUSH")
        [] Bits(w, 15, 8) = \hBA -> push("CM_POP")
        [] Bits(w, 15, 8) = \hBC -> push("CM_POPRETZ")
        [] Bits(w, 15, 8) = \hBE -> push("CM_POPRET")
        [] Bits(w, 15, 10) = 43 /\ Bits(w, 6, 5) = 1 -> emit("CM_MVSA01", r1s, r2s, 10, 11)
        [] Bits(w, 15, 10) = 43 /\ Bits(w, 6, 5) = 3 -> emit("CM_MVA01S", 10, 11, r1s, r2s)
        [] OTHER -> NoInsn

decodeC2(w) ==
  LET r == dec_rd(w)
  IN  CASE Bits(w, 15, 13) = 0 -> emit("SLLI", r, r, 0, CIImm(w))
        [] Bits(w, 15, 13) = 2 ->
             emit("LW", r, 2, 0, Part(w, 12, 12, 5) + Part(w, 6, 4, 2) + Part(w, 3, 2, 6))
        [] Bits(w, 15, 13) = 4 -> decodeC2Jump(w)
        [] Bits(w, 15, 13) = 5 -> decodeZcmp(w)
        [] Bits(w, 15, 13) = 6 ->
             emit("SW", 0, 2, dec_rs2(w), Part(w, 8, 7, 6) + Part(w, 12, 9, 2))
        [] OTHER -> NoInsn

decodeCompressed(w) ==
  CASE w = 0 -> NoInsn
    [] w # 0 /\ w % 4 = 0 -> decodeC0(w)
    [] w % 4 = 1 -> decodeC1(w)
    [] w % 4 = 2 -> decodeC2(w)
    [] w % 4 = 3 -> NoInsn

-----------------------------------------------------------------------------
(* executePacked: the immediate each group of tags works with *)

ImmediateWidth(tag) ==
  CASE tag \in {"BEQ", "BNE", "BLT", "BGE", "BLTU", "BGEU"} -> 13
    [] tag = "JAL" -> 21
    [] tag \in {"LUI", "AUIPC", "CSRRW", "CSRRS", "CSRRC", "CSRRWI", "CSRRSI", "CSRRCI", "H3_BEXTM",
                "H3_BEXTMI", "CM_PUSH", "CM_POP", "CM_POPRETZ", "CM_POPRET", "CM_MVSA01",
                "CM_MVA01S"} -> 0
    [] OTHER -> 12

executePacked(p) ==
  LET n == ImmediateWidth(p[1])
  IN  IF n = 0 THEN p ELSE <<p[1], p[2], p[3], p[4], SignExtend(p[5], n)>>

-----------------------------------------------------------------------------
(* The manual.  A row pairs a layout, the fields from the top bit down as it *)
(* draws them, with the instructions <<tag, rd, rs1, rs2, imm>> it stands    *)
(* for.  A field is <<"c", value, width>> or <<operand, high, low>>.         *)

FieldWidth(f) == IF f[1] = "c" THEN f[3] ELSE f[2] - f[3] + 1
Value(f, t) ==
  CASE f[1] = "c" -> f[2]
    [] f[1] = "rd" -> Bits(t[2], f[2], f[3])
    [] f[1] = "rs1" -> Bits(t[3], f[2], f[3])
    [] f[1] = "rs2" -> Bits(t[4], f[2], f[3])
    [] f[1] = "imm" -> Bits(t[5], f[2], f[3])

Encode(layout, t) ==
  LET word[k \in 0 .. Len(layout)] ==
        IF k = 0 THEN 0 ELSE word[k - 1] * 2 ^ FieldWidth(layout[k]) + Value(layout[k], t)
  IN  word[Len(layout)]

C(v, n) == <<<<"c", v, n>>>>
I(hi, lo) == <<<<"imm", hi, lo>>>>
RD == <<<<"rd", 4, 0>>>>
RS1 == <<<<"rs1", 4, 0>>>>
RS2 == <<<<"rs2", 4, 0>>>>
RDs == <<<<"rd", 2, 0>>>>                       \* a register x8 .. x15
RS1s == <<<<"rs1", 2, 0>>>>
RS2s == <<<<"rs2", 2, 0>>>>

Any == 0 .. 31
Short == 8 .. 15
Multiples(lo, hi, k) == {k * n : n \in lo \div k .. hi \div k}
NonZero(S) == S \ {0}

-----------------------------------------------------------------------------
(* The compressed instructions: RV32C, Zcb and Zcmp *)

ALU(tag, funct12, funct2) ==
  <<C(4, 3) \o C(funct12, 1) \o C(3, 2) \o RS1s \o C(funct2, 2) \o RS2s \o C(1, 2),
    {<<tag, r, r, s, 0>> : r \in Short, s \in Short}>>
Unary(tag, funct, imm) ==
  <<C(4, 3) \o C(7, 3) \o RS1s \o C(3, 2) \o C(funct, 3) \o C(1, 2),
    {<<tag, r, r, 0, imm>> : r \in Short}>>
PushPop(tag, funct) ==
  <<C(5, 3) \o C(funct, 5) \o <<<<"rs2", 3, 0>>>> \o I(5, 4) \o C(2, 2),
    {<<tag, 0, 0, rlist, adj>> : rlist \in 4 .. 15, adj \in {0, 16, 32, 48}}>>

CompressedRows == <<
  <<C(0, 3) \o I(5, 4) \o I(9, 6) \o I(2, 2) \o I(3, 3) \o RDs \o C(0, 2),
    {<<"ADDI", d, 2, 0, i>> : d \in Short, i \in NonZero(Multiples(0, 1020, 4))}>>,
  <<C(2, 3) \o I(5, 3) \o RS1s \o I(2, 2) \o I(6, 6) \o RDs \o C(0, 2),
    {<<"LW", d, s, 0, i>> : d \in Short, s \in Short, i \in Multiples(0, 124, 4)}>>,
  <<C(6, 3) \o I(5, 3) \o RS1s \o I(2, 2) \o I(6, 6) \o RS2s \o C(0, 2),
    {<<"SW", 0, s, d, i>> : d \in Short, s \in Short, i \in Multiples(0, 124, 4)}>>,
  <<C(4, 3) \o C(0, 3) \o RS1s \o I(0, 0) \o I(1, 1) \o RDs \o C(0, 2),
    {<<"LBU", d, s, 0, i>> : d \in Short, s \in Short, i \in 0 .. 3}>>,
  <<C(4, 3) \o C(1, 3) \o RS1s \o C(0, 1) \o I(1, 1) \o RDs \o C(0, 2),
    {<<"LHU", d, s, 0, i>> : d \in Short, s \in Short, i \in {0, 2}}>>,
  <<C(4, 3) \o C(1, 3) \o RS1s \o C(1, 1) \o I(1, 1) \o RDs \o C(0, 2),
    {<<"LH", d, s, 0, i>> : d \in Short, s \in Short, i \in {0, 2}}>>,
  <<C(4, 3) \o C(2, 3) \o RS1s \o I(0, 0) \o I(1, 1) \o RS2s \o C(0, 2),
    {<<"SB", 0, s, d, i>> : d \in Short, s \in Short, i \in 0 .. 3}>>,
  <<C(4, 3) \o C(3, 3) \o RS1s \o C(0, 1) \o I(1, 1) \o RS2s \o C(0, 2),
    {<<"SH", 0, s, d, i>> : d \in Short, s \in Short, i \in {0, 2}}>>,
  <<C(0, 3) \o I(5, 5) \o RD \o I(4, 0) \o C(1, 2),
    {<<"ADDI", d, d, 0, i>> : d \in Any, i \in -32 .. 31}>>,
  <<C(1, 3) \o I(11, 11) \o I(4, 4) \o I(9, 8) \o I(10, 10) \o I(6, 6) \o I(7, 7) \o I(3, 1)
      \o I(5, 5) \o C(1, 2),
    {<<"JAL", 1, 0, 0, i>> : i \in Multiples(-2048, 2046, 2)}>>,
  <<C(2, 3) \o I(5, 5) \o RD \o I(4, 0) \o C(1, 2),
    {<<"ADDI", d, 0, 0, i>> : d \in Any, i \in -32 .. 31}>>,
  <<C(3, 3) \o I(9, 9) \o C(2, 5) \o I(4, 4) \o I(6, 6) \o I(8, 7) \o I(5, 5) \o C(1, 2),
    {<<"ADDI", 2, 2, 0, i>> : i \in NonZero(Multiples(-512, 496, 16))}>>,
  <<C(3, 3) \o I(5, 5) \o RD \o I(4, 0) \o C(1, 2),
    {<<"LUI", d, 0, 0, i % 2 ^ 20>> : d \in Any \ {2}, i \in NonZero(-32 .. 31)}>>,
  <<C(4, 3) \o C(0, 1) \o C(0, 2) \o RS1s \o I(4, 0) \o C(1, 2),
    {<<"SRLI", r, r, 0, i>> : r \in Short, i \in 0 .. 31}>>,
  <<C(4, 3) \o C(0, 1) \o C(1, 2) \o RS1s \o I(4, 0) \o C(1, 2),
    {<<"SRAI", r, r, 0, i>> : r \in Short, i \in 0 .. 31}>>,
  <<C(4, 3) \o I(5, 5) \o C(2, 2) \o RS1s \o I(4, 0) \o C(1, 2),
    {<<"ANDI", r, r, 0, i>> : r \in Short, i \in -32 .. 31}>>,
  ALU("SUB", 0, 0), ALU("XOR", 0, 1), ALU("OR", 0, 2), ALU("AND", 0, 3), ALU("MUL", 1, 2),
  Unary("ANDI", 0, 255), Unary("SEXT_B", 1, 0), Unary("ZEXT_H", 2, 0), Unary("SEXT_H", 3, 0),
  Unary("XORI", 5, -1),
  <<C(5, 3) \o I(11, 11) \o I(4, 4) \o I(9, 8) \o I(10, 10) \o I(6, 6) \o I(7, 7) \o I(3, 1)
      \o I(5, 5) \o C(1, 2),
    {<<"JAL", 0, 0, 0, i>> : i \in Multiples(-2048, 2046, 2)}>>,
  <<C(6, 3) \o I(8, 8) \o I(4, 3) \o RS1s \o I(7, 6) \o I(2, 1) \o I(5, 5) \o C(1, 2),
    {<<"BEQ", 0, r, 0, i>> : r \in Short, i \in Multiples(-256, 254, 2)}>>,
  <<C(7, 3) \o I(8, 8) \o I(4, 3) \o RS1s \o I(7, 6) \o I(2, 1) \o I(5, 5) \o C(1, 2),
    {<<"BNE", 0, r, 0, i>> : r \in Short, i \in Multiples(-256, 254, 2)}>>,
  <<C(0, 3) \o C(0, 1) \o RD \o I(4, 0) \o C(2, 2),
    {<<"SLLI", d, d, 0, i>> : d \in Any, i \in 0 .. 31}>>,
  <<C(2, 3) \o I(5, 5) \o RD \o I(4, 2) \o I(7, 6) \o C(2, 2),
    {<<"LW", d, 2, 0, i>> : d \in NonZero(Any), i \in Multiples(0, 252, 4)}>>,
  <<C(4, 3) \o C(0, 1) \o RS1 \o C(0, 5) \o C(2, 2),
    {<<"JALR", 0, s, 0, 0>> : s \in NonZero(Any)}>>,
  <<C(4, 3) \o C(0, 1) \o RD \o RS2 \o C(2, 2),
    {<<"ADD", d, 0, s, 0>> : d \in Any, s \in NonZero(Any)}>>,
  <<C(4, 3) \o C(1, 1) \o C(0, 10) \o C(2, 2), {<<"EBREAK", 0, 0, 0, 0>>}>>,
  <<C(4, 3) \o C(1, 1) \o RS1 \o C(0, 5) \o C(2, 2),
    {<<"JALR", 1, s, 0, 0>> : s \in NonZero(Any)}>>,
  <<C(4, 3) \o C(1, 1) \o RD \o RS2 \o C(2, 2),
    {<<"ADD", d, d, s, 0>> : d \in Any, s \in NonZero(Any)}>>,
  PushPop("CM_PUSH", 24), PushPop("CM_POP", 26), PushPop("CM_POPRETZ", 28),
  PushPop("CM_POPRET", 30),
  <<C(6, 3) \o I(5, 2) \o I(7, 6) \o RS2 \o C(2, 2),
    {<<"SW", 0, 2, s, i>> : s \in Any, i \in Multiples(0, 252, 4)}>> >>

-----------------------------------------------------------------------------
(* The 32-bit instructions: RV32IMA, Zicsr, Zba, Zbb, Zbs, Zbkb and Hazard3's *)
(* own.  A row is <<format, tag, opcode, funct3, funct7, rs2>>.               *)

StandardRows == <<
  <<"I", "LB", 3, 0, 0, 0>>, <<"I", "LH", 3, 1, 0, 0>>, <<"I", "LW", 3, 2, 0, 0>>,
  <<"I", "LBU", 3, 4, 0, 0>>, <<"I", "LHU", 3, 5, 0, 0>>, <<"none", "FENCE", 15, 0, 0, 0>>,
  <<"none", "FENCE", 15, 1, 0, 0>>,
  <<"I", "ADDI", 19, 0, 0, 0>>, <<"I", "SLTI", 19, 2, 0, 0>>, <<"I", "SLTIU", 19, 3, 0, 0>>,
  <<"I", "XORI", 19, 4, 0, 0>>, <<"I", "ORI", 19, 6, 0, 0>>, <<"I", "ANDI", 19, 7, 0, 0>>,
  <<"shift", "SLLI", 19, 1, 0, 0>>, <<"shift", "SRLI", 19, 5, 0, 0>>,
  <<"shift", "SRAI", 19, 5, 32, 0>>, <<"shift", "BSETI", 19, 1, 20, 0>>,
  <<"shift", "BCLRI", 19, 1, 36, 0>>, <<"shift", "BINVI", 19, 1, 52, 0>>,
  <<"shift", "BEXTI", 19, 5, 36, 0>>, <<"shift", "RORI", 19, 5, 48, 0>>,
  <<"unary", "CLZ", 19, 1, 48, 0>>, <<"unary", "CTZ", 19, 1, 48, 1>>,
  <<"unary", "CPOP", 19, 1, 48, 2>>, <<"unary", "SEXT_B", 19, 1, 48, 4>>,
  <<"unary", "SEXT_H", 19, 1, 48, 5>>, <<"unary", "ZIP", 19, 1, 4, 15>>,
  <<"unary", "UNZIP", 19, 5, 4, 15>>, <<"unary", "REV8", 19, 5, 52, 24>>,
  <<"unary", "BREV8", 19, 5, 52, 7>>, <<"unary", "ORC_B", 19, 5, 20, 7>>,
  <<"U", "AUIPC", 23, 0, 0, 0>>, <<"U", "LUI", 55, 0, 0, 0>>,
  <<"S", "SB", 35, 0, 0, 0>>, <<"S", "SH", 35, 1, 0, 0>>, <<"S", "SW", 35, 2, 0, 0>>,
  <<"amo1", "LR_W", 47, 2, 2, 0>>, <<"amo", "SC_W", 47, 2, 3, 0>>,
  <<"amo", "AMOSWAP_W", 47, 2, 1, 0>>, <<"amo", "AMOADD_W", 47, 2, 0, 0>>,
  <<"amo", "AMOXOR_W", 47, 2, 4, 0>>, <<"amo", "AMOAND_W", 47, 2, 12, 0>>,
  <<"amo", "AMOOR_W", 47, 2, 8, 0>>, <<"amo", "AMOMIN_W", 47, 2, 16, 0>>,
  <<"amo", "AMOMAX_W", 47, 2, 20, 0>>, <<"amo", "AMOMINU_W", 47, 2, 24, 0>>,
  <<"amo", "AMOMAXU_W", 47, 2, 28, 0>>,
  <<"R", "ADD", 51, 0, 0, 0>>, <<"R", "SUB", 51, 0, 32, 0>>, <<"R", "SLL", 51, 1, 0, 0>>,
  <<"R", "SLT", 51, 2, 0, 0>>, <<"R", "SLTU", 51, 3, 0, 0>>, <<"R", "XOR", 51, 4, 0, 0>>,
  <<"R", "SRL", 51, 5, 0, 0>>, <<"R", "SRA", 51, 5, 32, 0>>, <<"R", "OR", 51, 6, 0, 0>>,
  <<"R", "AND", 51, 7, 0, 0>>, <<"R", "MUL", 51, 0, 1, 0>>, <<"R", "MULH", 51, 1, 1, 0>>,
  <<"R", "MULHSU", 51, 2, 1, 0>>, <<"R", "MULHU", 51, 3, 1, 0>>, <<"R", "DIV", 51, 4, 1, 0>>,
  <<"R", "DIVU", 51, 5, 1, 0>>, <<"R", "REM", 51, 6, 1, 0>>, <<"R", "REMU", 51, 7, 1, 0>>,
  <<"R", "SH1ADD", 51, 2, 16, 0>>, <<"R", "SH2ADD", 51, 4, 16, 0>>, <<"R", "SH3ADD", 51, 6, 16, 0>>,
  <<"R", "ANDN", 51, 7, 32, 0>>, <<"R", "ORN", 51, 6, 32, 0>>, <<"R", "XNOR", 51, 4, 32, 0>>,
  <<"R", "MIN", 51, 4, 5, 0>>, <<"R", "MINU", 51, 5, 5, 0>>, <<"R", "MAX", 51, 6, 5, 0>>,
  <<"R", "MAXU", 51, 7, 5, 0>>, <<"R", "ROL", 51, 1, 48, 0>>, <<"R", "ROR", 51, 5, 48, 0>>,
  <<"R", "PACK", 51, 4, 4, 0>>, <<"R", "PACKH", 51, 7, 4, 0>>, <<"R", "BSET", 51, 1, 20, 0>>,
  <<"R", "BCLR", 51, 1, 36, 0>>, <<"R", "BINV", 51, 1, 52, 0>>, <<"R", "BEXT", 51, 5, 36, 0>>,
  <<"B", "BEQ", 99, 0, 0, 0>>, <<"B", "BNE", 99, 1, 0, 0>>, <<"B", "BLT", 99, 4, 0, 0>>,
  <<"B", "BGE", 99, 5, 0, 0>>, <<"B", "BLTU", 99, 6, 0, 0>>, <<"B", "BGEU", 99, 7, 0, 0>>,
  <<"I", "JALR", 103, 0, 0, 0>>, <<"J", "JAL", 111, 0, 0, 0>>,
  <<"none", "ECALL", 115, 0, 0, 0>>, <<"none", "EBREAK", 115, 0, 0, 1>>,
  <<"none", "MRET", 115, 0, 24, 2>>, <<"none", "WFI", 115, 0, 8, 5>>,
  <<"csr", "CSRRW", 115, 1, 0, 0>>, <<"csr", "CSRRS", 115, 2, 0, 0>>,
  <<"csr", "CSRRC", 115, 3, 0, 0>>, <<"csri", "CSRRWI", 115, 5, 0, 0>>,
  <<"csri", "CSRRSI", 115, 6, 0, 0>>, <<"csri", "CSRRCI", 115, 7, 0, 0>>,
  <<"none", "H3_BLOCK", 51, 2, 0, 0>>, <<"none", "H3_UNBLOCK", 51, 2, 0, 1>>,
  <<"bextm", "H3_BEXTM", 11, 0, 0, 0>>, <<"bextm", "H3_BEXTMI", 11, 4, 0, 0>> >>

Some == {1, 2, 21, 31}                          \* register numbers
Powers(n) == UNION {{2 ^ k, - 2 ^ k, 2 ^ k - 1} : k \in 0 .. n - 1}      \* n bits and a sign

StandardInsns(row) ==
  LET tag == row[2]
      format == row[1]
  IN  CASE format = "R" \/ format = "amo" -> {<<tag, d, s, t, 0>> : d, s, t \in Some}
        [] format = "I" -> {<<tag, d, s, 0, i>> : d, s \in Some, i \in Powers(11)}
        [] format = "S" -> {<<tag, 0, s, t, i>> : s, t \in Some, i \in Powers(11)}
        [] format = "B" -> {<<tag, 0, s, t, 2 * i>> : s, t \in Some, i \in Powers(11)}
        [] format = "J" -> {<<tag, d, 0, 0, 2 * i>> : d \in Some, i \in Powers(19)}
        [] format = "U" -> {<<tag, d, 0, 0, i % 2 ^ 20>> : d \in Some, i \in Powers(19)}
        [] format = "shift" -> {<<tag, d, s, 0, i>> : d, s \in Some, i \in 0 .. 31}
        [] format = "unary" \/ format = "amo1" -> {<<tag, d, s, 0, 0>> : d, s \in Some}
        [] format = "csr" -> {<<tag, d, s, 0, i % 4096>> : d, s \in Some, i \in Powers(11)}
        [] format = "csri" -> {<<tag, d, 0, 0, (i % 4096) * 32 + s>> : d, s \in Some, i \in Powers(11)}
        [] format = "bextm" -> {<<tag, d, s, t, 2 * n>> : d, s, t \in Some, n \in 0 .. 7}
        [] format = "none" -> {<<tag, 0, 0, 0, 0>>}

\* The fields of the word the manual gives instruction t of a row.
StandardWord(row, t) ==
  LET format == row[1]
      imm == t[5]
      field(f7, r2, r1, f3, d) ==
        [op |-> row[3], f7 |-> f7, rs2 |-> r2, rs1 |-> r1, f3 |-> f3, rd |-> d]
  IN  CASE format = "R" -> field(row[5], t[4], t[3], row[4], t[2])
        [] format = "amo" \/ format = "amo1" -> field(4 * row[5], t[4], t[3], row[4], t[2])
        [] format = "I" \/ format = "csr" ->
             field(Bits(imm, 11, 5), Bits(imm, 4, 0), t[3], row[4], t[2])
        [] format = "S" -> field(Bits(imm, 11, 5), t[4], t[3], row[4], Bits(imm, 4, 0))
        [] format = "B" -> field(64 * Bits(imm, 12, 12) + Bits(imm, 10, 5), t[4], t[3], row[4],
                                 2 * Bits(imm, 4, 1) + Bits(imm, 11, 11))
        [] format = "J" -> field(64 * Bits(imm, 20, 20) + Bits(imm, 10, 5),
                                 2 * Bits(imm, 4, 1) + Bits(imm, 11, 11),
                                 Bits(imm, 19, 15), Bits(imm, 14, 12), t[2])
        [] format = "U" -> field(Bits(imm, 19, 13), Bits(imm, 12, 8), Bits(imm, 7, 3),
                                 Bits(imm, 2, 0), t[2])
        [] format = "shift" -> field(row[5], imm, t[3], row[4], t[2])
        [] format = "unary" -> field(row[5], row[6], t[3], row[4], t[2])
        [] format = "csri" -> field(Bits(imm, 16, 10), Bits(imm, 9, 5), imm % 32, row[4], t[2])
        [] format = "bextm" -> field(imm, t[4], t[3], row[4], t[2])
        [] format = "none" -> field(row[5], row[6], 0, row[4], 0)

-----------------------------------------------------------------------------
(* Words, and the operations on them both sides use *)

Words == 2 ^ Width
Word == 0 .. Words - 1
Positions == 0 .. Width - 1
Byte == Width \div 4
Half == Width \div 2

U(x) == x % Words                                        \* x >>> 0
S(x) == IF U(x) >= Words \div 2 THEN U(x) - Words ELSE U(x)      \* x | 0
Shl(x, n) == U(x * 2 ^ (n % Width))
Shr(x, n) == x \div 2 ^ (n % Width)
Sar(x, n) == U(S(x) \div 2 ^ (n % Width))
Inv(x) == Words - 1 - x                                  \* ~x
Truth(b) == IF b THEN 1 ELSE 0
Bit(x, k) == (x \div 2 ^ k) % 2 = 1
FromBits(B) == MapThenSumSet(LAMBDA k : 2 ^ k, B)
Mask(n) == FromBits({k \in Positions : (k \div n) % 2 = 0})      \* 0x5555, 0x3333, ...
Clz(x) == Width - 1 - Max({k \in Positions : Bit(x, k)} \cup {-1})
SextLow(x, n) == LET v == x % 2 ^ n IN U(IF Bit(v, n - 1) THEN v - 2 ^ n ELSE v)

-----------------------------------------------------------------------------
(* Arithmetic: the code *)

BitOp(tag, a, m) ==
  CASE tag = "BSET" -> a | m  [] tag = "BCLR" -> a & Inv(m)  [] tag = "BINV" -> a ^^ m

Rotate(a, n) == Shl(a, Width - n) | Shr(a, n)

\* execOpImm, the operations on one register
execUnary(tag, x) ==
  CASE tag = "CTZ" -> IF x = 0 THEN Width ELSE Width - 1 - Clz(x & U(- x))
    [] tag = "CPOP" ->
         LET t1 == x - (Shr(x, 1) & Mask(1))
             t2 == (t1 & Mask(2)) + (Shr(t1, 2) & Mask(2))
         IN  (t2 + Shr(t2, 4)) & Mask(4)
    [] tag = "SEXT_H" -> SextLow(x, Half)
    [] tag = "SEXT_B" -> SextLow(x, Byte)
    [] tag = "CLZ" -> Clz(x)
    [] tag = "ZIP" -> FromBits({2 * i : i \in {j \in 0 .. Half - 1 : Bit(x, Half + j)}}
                        \cup {2 * i + 1 : i \in {j \in 0 .. Half - 1 : Bit(x, j)}})
    [] tag = "UNZIP" -> FromBits({i \in 0 .. Half - 1 : Bit(x, 2 * i + 1)}
                          \cup {Half + i : i \in {j \in 0 .. Half - 1 : Bit(x, 2 * j)}})
    [] tag = "REV8" -> Shr(x, 3 * Byte)
                         | (Shr(x, Byte) & ((2 ^ Byte - 1) * 2 ^ Byte))
                         | (Shl(x, Byte) & ((2 ^ Byte - 1) * 2 ^ (2 * Byte)))
                         | Shl(x % 2 ^ Byte, 3 * Byte)
    [] tag = "BREV8" -> Shr(x & Inv(Mask(1)), 1) | Shl(x & Mask(1), 1)
    [] tag = "ORC_B" -> FromBits({k \in Positions : Bit(x, Byte * (k \div Byte) + Byte - 1)})
    [] tag = "ZEXT_H" -> x % 2 ^ Half

\* execOpImm, the operations on a register and an immediate
execOpImm(tag, x, imm) ==
  CASE tag = "ADDI" -> U(x + imm)
    [] tag = "SLLI" -> Shl(x, imm)
    [] tag = "BSETI" -> BitOp("BSET", x, Shl(1, imm))
    [] tag = "BCLRI" -> BitOp("BCLR", x, Shl(1, imm))
    [] tag = "BINVI" -> BitOp("BINV", x, Shl(1, imm))
    [] tag = "SLTI" -> Truth(S(x) < imm)
    [] tag = "SLTIU" -> Truth(x < imm % 2 ^ (Width - 3))            \* imm & 0xfff
    [] tag = "XORI" -> x ^^ U(imm)
    [] tag = "ORI" -> x | U(imm)
    [] tag = "ANDI" -> x & U(imm)
    [] tag = "SRLI" -> Shr(x, imm)
    [] tag = "SRAI" -> Sar(x, imm)
    [] tag = "BEXTI" -> Shr(x, imm) % 2
    [] tag = "RORI" -> Rotate(x, imm)

\* umulh: the high word of a product, from products of half words
umulh(a, b) ==
  LET h == 2 ^ Half
      ll == (a % h) * (b % h)
      lh == (a % h) * (b \div h)
      hl == (a \div h) * (b % h)
      cross == ll \div h + (lh % h) + (hl % h)
  IN  U((a \div h) * (b \div h) + lh \div h + hl \div h + cross \div h)

\* JavaScript's quotient and remainder, of signed operands
Magnitude(x) == IF x < 0 THEN - x ELSE x
Quotient(x, y) == LET q == Magnitude(x) \div Magnitude(y) IN IF (x < 0) = (y < 0) THEN q ELSE - q
Remainder(x, y) == LET m == Magnitude(x) % Magnitude(y) IN IF x < 0 THEN - m ELSE m

execOp(tag, a, b) ==
  CASE tag = "ADD" -> U(a + b)
    [] tag = "SUB" -> U(a - b)
    [] tag = "MUL" -> U(a * b)
    [] tag = "SLL" -> Shl(a, b)
    [] tag = "SRL" -> Shr(a, b)
    [] tag = "SRA" -> Sar(a, b)
    [] tag = "MULH" -> U(umulh(a, b) - (IF S(a) < 0 THEN b ELSE 0) - (IF S(b) < 0 THEN a ELSE 0))
    [] tag = "MULHSU" -> U(umulh(a, b) - (IF S(a) < 0 THEN b ELSE 0))
    [] tag = "MULHU" -> umulh(a, b)
    [] tag \in {"BSET", "BCLR", "BINV"} -> BitOp(tag, a, Shl(1, b))
    [] tag = "BEXT" -> Shr(a, b) % 2
    [] tag = "ROL" -> Shl(a, b) | Shr(a, Width - (b % Width))
    [] tag = "ROR" -> Rotate(a, b % Width)
    [] tag = "SLT" -> Truth(S(a) < S(b))
    [] tag = "SLTU" -> Truth(a < b)
    [] tag = "SH1ADD" -> U(Shl(a, 1) + b)
    [] tag = "SH2ADD" -> U(Shl(a, 2) + b)
    [] tag = "SH3ADD" -> U(Shl(a, 3) + b)
    [] tag = "XOR" -> a ^^ b
    [] tag = "OR" -> a | b
    [] tag = "AND" -> a & b
    [] tag = "XNOR" -> Inv(a) ^^ b
    [] tag = "ORN" -> a | Inv(b)
    [] tag = "ANDN" -> a & Inv(b)
    [] tag = "DIV" -> CASE b = 0 -> Words - 1
                        [] b = Words - 1 /\ a = Words \div 2 -> a
                        [] OTHER -> U(Quotient(S(a), S(b)))
    [] tag = "REM" -> IF b = 0 THEN a
                      ELSE IF a = Words \div 2 /\ b = Words - 1 THEN 0
                      ELSE U(Remainder(S(a), S(b)))
    [] tag = "DIVU" -> IF b = 0 THEN Words - 1 ELSE a \div b
    [] tag = "REMU" -> IF b = 0 THEN a ELSE a % b
    [] tag = "PACK" -> (a % 2 ^ Half) | Shl(b % 2 ^ Half, Half)
    [] tag = "PACKH" -> (a % 2 ^ Byte) | Shl(b % 2 ^ Byte, Byte)
    [] tag = "MIN" -> IF S(a) < S(b) THEN a ELSE b
    [] tag = "MAX" -> IF S(a) > S(b) THEN a ELSE b
    [] tag = "MINU" -> IF a < b THEN a ELSE b
    [] tag = "MAXU" -> IF a > b THEN a ELSE b

execAmo(tag, mem, v) ==
  CASE tag = "AMOADD_W" -> U(mem + v)
    [] tag = "AMOSWAP_W" -> v
    [] tag = "AMOXOR_W" -> mem ^^ v
    [] tag = "AMOOR_W" -> mem | v
    [] tag = "AMOAND_W" -> mem & v
    [] tag = "AMOMIN_W" -> IF S(mem) < S(v) THEN mem ELSE v
    [] tag = "AMOMAX_W" -> IF S(mem) > S(v) THEN mem ELSE v
    [] tag = "AMOMINU_W" -> IF mem < v THEN mem ELSE v
    [] tag = "AMOMAXU_W" -> IF mem > v THEN mem ELSE v

execBranch(tag, a, b) ==
  CASE tag = "BEQ" -> a = b  [] tag = "BNE" -> a # b
    [] tag = "BLT" -> S(a) < S(b)  [] tag = "BGE" -> S(a) >= S(b)
    [] tag = "BLTU" -> a < b  [] tag = "BGEU" -> a >= b

\* h3.bextm: 1 to 8 bits of a, from a bit named by a register or the instruction
execCustom0(a, sh, size) == Shr(a, sh) & (2 ^ (size + 1) - 1)

\* The registers a list stands for, in the order they are stored downwards.
xreg_list(rlist) ==
  LET all == <<27, 26, 25, 24, 23, 22, 21, 20, 19, 18, 9, 8, 1>>
  IN  CASE rlist < 4 -> <<>>
        [] rlist = 15 -> all
        [] rlist \in 4 .. 14 -> SubSeq(all, 17 - rlist, 13)
\* Faulty variant of stack_adj_base: forgets that the longest list has a word more.
AdjustByFours(rlist) == (rlist \div 4) * 16
stack_adj_base(rlist) == (rlist \div 4) * 16 + (IF rlist = 15 THEN 16 ELSE 0)

\* cm.push: what is stored, as <<address, register>>, and the stack pointer after it
execPush(rlist, spimm, sp) ==
  [stores |-> {<<sp - 4 * k, xreg_list(rlist)[k]>> : k \in 1 .. Len(xreg_list(rlist))},
   sp |-> sp - (stack_adj_base(rlist) + spimm)]
\* cm.pop, cm.popret, cm.popretz: what is loaded
execPop(rlist, spimm, sp) ==
  LET adj == stack_adj_base(rlist) + spimm
  IN  [loads |-> {<<sp + adj - 4 * k, xreg_list(rlist)[k]>> : k \in 1 .. Len(xreg_list(rlist))},
       sp |-> sp + adj]

-----------------------------------------------------------------------------
(* The manual *)

Ones(x) == {k \in Positions : Bit(x, k)}
Lane(k, n) == n * (k \div n) .. n * (k \div n) + n - 1

ArchUnary(tag, x) ==
  CASE tag = "CTZ" -> Min(Ones(x) \cup {Width})
    [] tag = "CPOP" -> Cardinality(Ones(x))
    [] tag = "CLZ" -> Cardinality({k \in Positions : \A j \in k .. Width - 1 : j \notin Ones(x)})
    [] tag = "SEXT_H" -> FromBits({k \in Positions : Bit(x, Min({k, Half - 1}))})
    [] tag = "SEXT_B" -> FromBits({k \in Positions : Bit(x, Min({k, Byte - 1}))})
    [] tag = "ZEXT_H" -> FromBits(Ones(x) \cap 0 .. Half - 1)
    [] tag = "ZIP" -> FromBits({k \in Positions : Bit(x, k \div 2 + Half * (k % 2))})
    [] tag = "UNZIP" -> FromBits({k \in Positions : Bit(x, 2 * (k % Half) + k \div Half)})
    [] tag = "REV8" -> FromBits({k \in Positions : Bit(x, Byte * (3 - k \div Byte) + (k % Byte))})
    [] tag = "BREV8" ->
         FromBits({k \in Positions : Bit(x, Byte * (k \div Byte) + Byte - 1 - (k % Byte))})
    [] tag = "ORC_B" -> FromBits({k \in Positions : Lane(k, Byte) \cap Ones(x) # {}})

ArchShift(dir, a, n) ==
  FromBits({k \in Positions :
              LET from == IF dir \in {"SLL", "ROL"} THEN k - n ELSE k + n
              IN  CASE dir \in {"ROL", "ROR"} -> Bit(a, from % Width)
                    [] dir = "SRA" -> Bit(a, Min({from, Width - 1}))
                    [] OTHER -> from \in Positions /\ Bit(a, from)})

ArchOp(tag, a, b) ==
  LET n == b % Width
      logic(holds(_, _)) == FromBits({k \in Positions : holds(Bit(a, k), Bit(b, k))})
      pick(least, sa, sb) == IF (sa < sb) = least THEN a ELSE b
  IN  CASE tag = "ADD" -> (a + b) % Words
        [] tag = "SUB" -> (a - b) % Words
        [] tag = "MUL" -> (a * b) % Words
        [] tag = "MULH" -> ((S(a) * S(b)) \div Words) % Words
        [] tag = "MULHSU" -> ((S(a) * b) \div Words) % Words
        [] tag = "MULHU" -> (a * b) \div Words
        [] tag \in {"SLL", "SRL", "SRA", "ROL", "ROR"} -> ArchShift(tag, a, n)
        [] tag = "BSET" -> FromBits(Ones(a) \cup {n})
        [] tag = "BCLR" -> FromBits(Ones(a) \ {n})
        [] tag = "BINV" -> FromBits((Ones(a) \ {n}) \cup ({n} \ Ones(a)))
        [] tag = "BEXT" -> IF n \in Ones(a) THEN 1 ELSE 0
        [] tag = "SLT" -> IF S(a) < S(b) THEN 1 ELSE 0
        [] tag = "SLTU" -> IF a < b THEN 1 ELSE 0
        [] tag = "SH1ADD" -> (2 * a + b) % Words
        [] tag = "SH2ADD" -> (4 * a + b) % Words
        [] tag = "SH3ADD" -> (8 * a + b) % Words
        [] tag = "XOR" -> logic(LAMBDA p, q : p # q)
        [] tag = "OR" -> logic(LAMBDA p, q : p \/ q)
        [] tag = "AND" -> logic(LAMBDA p, q : p /\ q)
        [] tag = "XNOR" -> logic(LAMBDA p, q : p = q)
        [] tag = "ORN" -> logic(LAMBDA p, q : p \/ ~q)
        [] tag = "ANDN" -> logic(LAMBDA p, q : p /\ ~q)
        [] tag = "PACK" -> FromBits((Ones(a) \cap 0 .. Half - 1)
                             \cup {k + Half : k \in Ones(b) \cap 0 .. Half - 1})
        [] tag = "PACKH" -> FromBits((Ones(a) \cap 0 .. Byte - 1)
                              \cup {k + Byte : k \in Ones(b) \cap 0 .. Byte - 1})
        [] tag = "MIN" -> pick(TRUE, S(a), S(b))
        [] tag = "MAX" -> pick(FALSE, S(a), S(b))
        [] tag = "MINU" -> pick(TRUE, a, b)
        [] tag = "MAXU" -> pick(FALSE, a, b)

\* The quotient rounds towards zero and the remainder has the dividend's sign;
\* dividing by zero gives all ones and the dividend, and overflow the dividend
\* and zero.
ArchDivision(tag, a, b, result) ==
  LET signed == tag \in {"DIV", "REM"}
      v(x) == IF signed THEN S(x) ELSE x
  IN  \E q, m \in - Words .. Words :
        /\ result = IF tag \in {"DIV", "DIVU"} THEN q % Words ELSE m % Words
        /\ IF b = 0 THEN q = -1 /\ m = v(a)
           ELSE /\ v(a) = q * v(b) + m
                /\ Magnitude(m) < Magnitude(v(b))
                /\ m # 0 => (m < 0) = (v(a) < 0)

ArchOpImm(tag, x, imm) ==
  CASE tag = "ADDI" -> ArchOp("ADD", x, imm % Words)
    [] tag = "SLLI" -> ArchOp("SLL", x, imm)
    [] tag = "SRLI" -> ArchOp("SRL", x, imm)
    [] tag = "SRAI" -> ArchOp("SRA", x, imm)
    [] tag = "RORI" -> ArchOp("ROR", x, imm)
    [] tag = "BSETI" -> ArchOp("BSET", x, imm)
    [] tag = "BCLRI" -> ArchOp("BCLR", x, imm)
    [] tag = "BINVI" -> ArchOp("BINV", x, imm)
    [] tag = "BEXTI" -> ArchOp("BEXT", x, imm)
    [] tag = "SLTI" -> ArchOp("SLT", x, imm % Words)
    [] tag = "SLTIU" -> ArchOp("SLTU", x, imm % Words)
    [] tag = "XORI" -> ArchOp("XOR", x, imm % Words)
    [] tag = "ORI" -> ArchOp("OR", x, imm % Words)
    [] tag = "ANDI" -> ArchOp("AND", x, imm % Words)

ArchAmo(tag, mem, v) ==
  CASE tag = "AMOADD_W" -> ArchOp("ADD", mem, v)
    [] tag = "AMOSWAP_W" -> v
    [] tag = "AMOXOR_W" -> ArchOp("XOR", mem, v)
    [] tag = "AMOOR_W" -> ArchOp("OR", mem, v)
    [] tag = "AMOAND_W" -> ArchOp("AND", mem, v)
    [] tag = "AMOMIN_W" -> ArchOp("MIN", mem, v)
    [] tag = "AMOMAX_W" -> ArchOp("MAX", mem, v)
    [] tag = "AMOMINU_W" -> ArchOp("MINU", mem, v)
    [] tag = "AMOMAXU_W" -> ArchOp("MAXU", mem, v)

\* A branch is taken as the difference of its operands says.
ArchBranch(tag, a, b) ==
  CASE tag = "BEQ" -> a - b = 0  [] tag = "BNE" -> a - b # 0
    [] tag = "BLT" -> ArchOp("SLT", a, b) = 1  [] tag = "BGE" -> ArchOp("SLT", a, b) = 0
    [] tag = "BLTU" -> ArchOp("SLTU", a, b) = 1  [] tag = "BGEU" -> ArchOp("SLTU", a, b) = 0

ArchBextm(a, sh, size) ==
  FromBits({k \in Positions : k <= size /\ k + (sh % Width) \in Ones(a)})

\* The saved registers: ra, then s0 up; the last list takes s10 and s11 at once.
ArchSaved(rlist) ==
  LET sreg == <<8, 9, 18, 19, 20, 21, 22, 23, 24, 25, 26, 27>>
  IN  {1} \cup {sreg[k] : k \in 1 .. (IF rlist = 15 THEN 12 ELSE rlist - 4)}
\* The frame is rounded up to 16 bytes; the highest register is stored highest.
ArchFrame(rlist, spimm) ==
  LET n == Cardinality(ArchSaved(rlist))
  IN  [size |-> ((4 * n + 15) \div 16) * 16 + spimm,
       at |-> {<<4 * (1 + Cardinality({q \in ArchSaved(rlist) : q > r})), r>> :
                 r \in ArchSaved(rlist)}]
=============================================================================
