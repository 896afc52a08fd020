------------------------------ MODULE SystemBus ------------------------------
(***************************************************************************)
(* The bus of the RP2350 (src/rp2350.ts): the address map, accesses of     *)
(* one, two and four bytes, the SET, CLR and XOR aliases of the            *)
(* peripherals (src/peripherals/peripheral.ts), the USB DPRAM, and the     *)
(* cache of decoded instructions of the Hazard3 cores                      *)
(* (src/riscv/decode-cache.ts).                                            *)
(*                                                                         *)
(* The map is scaled down: the regions keep their order, each is a few     *)
(* words long, and a peripheral is one register in a page of sixteen       *)
(* bytes, four aliases of a word.  A byte is a set of bits; an instruction *)
(* takes 32 bits when both bits of its first byte are set.  The SIO stands *)
(* for every register whose read has an effect.                            *)
(***************************************************************************)
EXTENDS Integers, Sequences

CONSTANTS IsArm, Byte,
          BootromBytes, FLASH_START, FLASH_SIZE, PSRAM_START, PSRAM_SIZE,
          RAM_START, RAM_SIZE, Registers, BootRam, DPRAM_START, DPRAM_SIZE,
          SIO_START, SIO_SIZE, NSPPB_START, PPB_START, PPB_END

VARIABLE bus
\* mem: the bytes of bootrom, flash, PSRAM, SRAM, boot RAM and DPRAM; want: what
\* the stores so far should have left there; cache: the decoded instruction kept
\* for a halfword; reg, raw: a peripheral register and the value last written to
\* it; sio: a SIO register and how often it was read; seen: the DPRAM as the USB
\* controller was told of it; threw: the access that has no target.

Within(a, first, size) == a >= first /\ a < first + size
Region(first, size) == first .. first + size - 1
Page(base) == Region(base, 16)

\* The memories that are read back as they were stored.
Stores == Region(PSRAM_START, PSRAM_SIZE) \union Region(RAM_START, RAM_SIZE)
          \union Region(BootRam, 4) \union Region(DPRAM_START, DPRAM_SIZE)
FlashBytes == Region(FLASH_START, FLASH_SIZE)
Bytes == 0 .. BootromBytes - 1 \union FlashBytes \union Stores

\* Where an address leads, in the order of the tests in readUint32.
Target(a) ==
  IF Within(a, RAM_START, RAM_SIZE) THEN "sram"
  ELSE IF Within(a, PSRAM_START, PSRAM_SIZE) THEN "psram"
  ELSE IF a >= FLASH_START /\ a < RAM_START THEN "flash"
  ELSE IF Within(a, SIO_START, SIO_SIZE) THEN "sio"
  ELSE IF IsArm /\ a >= NSPPB_START /\ a < PPB_END THEN "ppb"
  ELSE IF \E p \in Registers : a \in Page(p) THEN "register"
  ELSE IF a \in Page(BootRam) THEN "bootram"
  ELSE IF a < BootromBytes THEN "bootrom"
  ELSE IF Within(a, DPRAM_START, DPRAM_SIZE) THEN "dpram"
  ELSE "none"

\* The byte of mem behind an address: flash is mirrored up to the SRAM, the boot
\* RAM in its page.
Cell(a) == IF Target(a) = "flash" THEN FLASH_START + ((a - FLASH_START) % FLASH_SIZE) ELSE a

Word(a) == a - (a % 4)
Lanes == 0..3
AllOnes == [i \in Lanes |-> UNION Byte]
Register(a) == CHOOSE p \in Registers : a \in Page(p)

\* A word read, at an aligned address: its value and the state it leaves.
\* A peripheral sees the alias bits of the address and knows no such register.
readUint32(s, a) ==
  CASE Target(a) = "sio" -> <<s.sio.value, [s EXCEPT !.sio.reads = (@ + 1) % 2]>>
    [] Target(a) = "ppb" -> <<s.ppb, s>>
    [] Target(a) = "register" -> <<IF a % 16 < 4 THEN s.reg[Register(a)] ELSE AllOnes, s>>
    [] Target(a) = "bootram" /\ a % 16 >= 4 -> <<AllOnes, s>>
    [] OTHER -> <<[i \in Lanes |-> s.mem[Cell(a + i)]], s>>

Direct(a) == Target(a) \in {"sram", "psram", "flash"}

\* Two bytes and one: the wide memories are read directly, any other target by
\* the word the bytes are in.
readUint16(s, a) ==
  IF Direct(a) THEN <<<<s.mem[Cell(a)], s.mem[Cell(a + 1)]>>, s>>
  ELSE LET r == readUint32(s, Word(a))
       IN  <<IF (a \div 2) % 2 = 1 THEN <<r[1][2], r[1][3]>> ELSE <<r[1][0], r[1][1]>>, r[2]>>

readUint8(s, a) ==
  IF Direct(a) THEN <<s.mem[Cell(a)], s>>
  ELSE LET r == readUint16(s, a - (a % 2)) IN <<r[1][(a % 2) + 1], r[2]>>

(***************************************************************************)
(* The decode cache: one entry per halfword of SRAM, PSRAM and flash, the  *)
(* bytes it was decoded from, or None.                                     *)
(***************************************************************************)
None == <<>>
Cached == {h \in FlashBytes \union Region(PSRAM_START, PSRAM_SIZE) \union Region(RAM_START, RAM_SIZE) :
             h % 2 = 0}

decodeUncached(s, a) ==
  LET first == readUint16(s, a)[1]
  IN  IF first[1] = UNION Byte THEN first \o readUint16(s, a + 2)[1] ELSE first

getDecodeEntry(s, a) ==
  IF Direct(a) /\ s.cache[Cell(a)] = None
  THEN [s EXCEPT !.cache[Cell(a)] = decodeUncached(s, a)]
  ELSE s

\* A store that forgets the instruction that begins one halfword earlier.
InvalidateOwnHalfwords(s, first, a, len) ==
  [s EXCEPT !.cache = [h \in Cached |->
     IF h >= first /\ h >= a - (a % 2) /\ h < a + len THEN None ELSE @[h]]]

\* An entry is keyed on the first halfword: the one before the store may be the
\* first half of a 32-bit instruction that the store reaches into.
invalidate(s, first, a, len) ==
  [s EXCEPT !.cache = [h \in Cached |->
     IF h >= first /\ h + 2 >= a - (a % 2) /\ h < a + len THEN None ELSE @[h]]]

invalidateSramDecode(s, a, len) == invalidate(s, RAM_START, a, len)
invalidatePsramDecode(s, a, len) == invalidate(s, PSRAM_START, a, len)
invalidateDecodeCache(s) == [s EXCEPT !.cache = [h \in Cached |-> None]]

(***************************************************************************)
(* Stores                                                                  *)
(***************************************************************************)
atomicUpdate(current, type, value) ==
  [i \in Lanes |->
     CASE type = 1 -> (current[i] \ value[i]) \union (value[i] \ current[i])
       [] type = 2 -> current[i] \union value[i]
       [] type = 3 -> current[i] \ value[i]]

\* BasePeripheral.writeUint32Atomic: the alias is in bits 12 and 13, here in the
\* word of the page.
writeUint32Atomic(s, a, value) ==
  LET p == Register(a)  type == (a % 16) \div 4
  IN  [s EXCEPT !.reg[p] = IF type = 0 THEN value ELSE atomicUpdate(@, type, value),
                !.raw[p] = value]

Put(s, a, value) ==
  [s EXCEPT !.mem = [b \in Bytes |-> IF b \in Region(a, 4) THEN value[b - a] ELSE @[b]]]

writeUint32(s, a, value) ==
  LET t == Target(a)
  IN  CASE t = "sram" -> invalidateSramDecode(Put(s, a, value), a, 4)
        [] t = "psram" -> invalidatePsramDecode(Put(s, a, value), a, 4)
        [] t = "sio" -> [s EXCEPT !.sio.value = value]
        [] t = "ppb" -> [s EXCEPT !.ppb = value]
        [] t = "register" -> writeUint32Atomic(s, a, value)
        [] t = "bootram" /\ a % 16 < 4 -> Put(s, a, value)
        [] t = "dpram" -> [Put(s, a, value) EXCEPT !.seen[a] = value]
        [] OTHER -> s

\* The word with n bytes of it replaced, from the one at a on; RP2350 reads the
\* word first, and narrow stores to a peripheral fill the word with the value.
Merge(word, a, n, value) ==
  [i \in Lanes |-> IF Within(i, a % 4, n) THEN value[i - (a % 4) + 1] ELSE word[i]]
Replicate(n, value) == [i \in Lanes |-> value[(i % n) + 1]]

PutBytes(s, a, n, value) ==
  [s EXCEPT !.mem = [b \in Bytes |-> IF b \in Region(a, n) THEN value[b - a + 1] ELSE @[b]]]

\* The boot RAM is memory in a peripheral's place: readUint32 and writeUint32
\* without the alias.
ByteAddressable(s, a, n, value) ==
  LET w == Word(a) IN Put(s, w, Merge(readUint32(s, w)[1], a, n, value))

WriteNarrow(s, a, n, value) ==
  LET t == Target(a)  w == Word(a)
  IN  CASE t = "sram" -> invalidateSramDecode(PutBytes(s, a, n, value), a, n)
        [] t = "psram" -> invalidatePsramDecode(PutBytes(s, a, n, value), a, n)
        [] t = "flash" -> s
        [] t = "bootram" -> IF a % 16 < 4 THEN ByteAddressable(s, a, n, value) ELSE s
        [] t = "register" -> writeUint32Atomic(s, w, Replicate(n, value))
        [] OTHER -> LET r == readUint32(s, w)
                    IN  writeUint32(r[2], w, Merge(r[1], a, n, value))

writeUint16(s, a, value) == WriteNarrow(s, a, 2, value)
writeUint8(s, a, value) == WriteNarrow(s, a, 1, value)

(***************************************************************************)
(* The accesses of a core, of the DMA controller or of a debugger          *)
(***************************************************************************)
Aligned(a, n) == a % n = 0

Init == bus = [mem |-> [b \in Bytes |-> IF b \in FlashBytes THEN UNION Byte ELSE {}],
               want |-> [b \in Stores |-> {}],
               cache |-> [h \in Cached |-> None],
               reg |-> [p \in Registers |-> [i \in Lanes |-> {}]],
               raw |-> [p \in Registers |-> [i \in Lanes |-> {}]],
               sio |-> [value |-> [i \in Lanes |-> {}], reads |-> 0],
               ppb |-> [i \in Lanes |-> {}],
               seen |-> [a \in {d \in Region(DPRAM_START, DPRAM_SIZE) : d % 4 = 0} |-> [i \in Lanes |-> {}]],
               threw |-> FALSE]

\* What the program means by a store to a memory.
Meant(a, n, value) ==
  [b \in Stores |-> IF b \in Region(a, n) THEN value[b - a + 1] ELSE bus.want[b]]

\* An unaligned word or an address that leads nowhere throws.
Throws(a, n) == \/ n = 4 /\ ~Aligned(a, 4)
                \/ Target(Word(a)) = "none"

Store(a, n, value) ==
  /\ ~bus.threw
  /\ n = 4 \/ Aligned(a, n)
  /\ bus' = IF Throws(a, n) THEN [bus EXCEPT !.threw = TRUE]
            ELSE [(CASE n = 1 -> writeUint8(bus, a, value)
                     [] n = 2 -> writeUint16(bus, a, value)
                     [] n = 4 -> writeUint32(bus, a, [i \in Lanes |-> value[i + 1]]))
                  EXCEPT !.want = Meant(a, n, value)]

Load(a, n) ==
  /\ ~bus.threw
  /\ n = 4 \/ Aligned(a, n)
  /\ bus' = IF Throws(a, n) THEN [bus EXCEPT !.threw = TRUE]
            ELSE CASE n = 1 -> readUint8(bus, a)[2]
                   [] n = 2 -> readUint16(bus, a)[2]
                   [] n = 4 -> readUint32(bus, a)[2]

\* A 32-bit instruction at the end of a memory is fetched across it.
Fetch(a) ==
  /\ ~bus.threw /\ ~IsArm
  /\ Aligned(a, 2) /\ Target(a) \in {"sram", "psram", "flash", "bootrom"}
  /\ LET wide == ~Throws(a, 2) /\ readUint16(bus, a)[1][1] = UNION Byte
     IN  bus' = IF Throws(a, 2) \/ (wide /\ Throws(a + 2, 2))
                THEN [bus EXCEPT !.threw = TRUE]
                ELSE getDecodeEntry(bus, a)

\* loadFirmware writes the flash and the SRAM directly.
LoadFirmware(image, ram) ==
  /\ ~bus.threw
  /\ LET s == invalidateDecodeCache(bus)
     IN  bus' = [s EXCEPT
                   !.mem = [b \in Bytes |-> IF b \in FlashBytes THEN image[b]
                                            ELSE IF b \in Region(RAM_START, RAM_SIZE) THEN ram ELSE @[b]],
                   !.want = [b \in Stores |-> IF b \in Region(RAM_START, RAM_SIZE) THEN ram ELSE @[b]]]

(***************************************************************************)
(* Properties                                                              *)
(***************************************************************************)

\* No core runs an instruction that is no longer there: whatever was stored, by
\* whom and at what width, a cached decode is the decode of the bytes in memory
\* (getDecodeEntry against every store).  An instruction that begins in the last
\* halfword of one memory and ends in the next is excepted: a store there leaves
\* it.
DecodeCacheFresh ==
  \A h \in Cached :
    \/ bus.cache[h] = None
    \/ bus.cache[h] = decodeUncached(bus, h)
    \/ Len(bus.cache[h]) = 4 /\ Target(h) # Target(h + 2)

\* A memory keeps every byte that was stored to it and no store reaches its
\* neighbours, whether it is written directly, by a read-modify-write or through
\* a peripheral (writeUint8, writeUint16, writeUint32).
StoresLand == \A b \in Stores : bus.mem[b] = bus.want[b]

\* Loads of one, two and four bytes agree on what is in memory.
WidthsAgree ==
  \A b \in Stores \union FlashBytes :
    /\ readUint8(bus, b)[1] = bus.mem[b]
    /\ readUint16(bus, b - (b % 2))[1][(b % 2) + 1] = bus.mem[b]
    /\ readUint32(bus, Word(b))[1][b % 4] = bus.mem[b]

\* The USB controller hears of every change of the DPRAM (DPRAMUpdated): a narrow
\* store to a buffer control word starts a transfer as a word does.
DpramSeen == \A a \in DOMAIN bus.seen : bus.seen[a] = readUint32(bus, a)[1]
=============================================================================
