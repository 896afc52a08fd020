-------------------------------- MODULE Firmware --------------------------------
(***************************************************************************)
(* Loading firmware onto a chip that may have run before                   *)
(* (src/utils/load-firmware.ts, src/utils/load-hex.ts): HEX records and    *)
(* UF2 blocks are stored in flash or SRAM, the chip is reset and, for an   *)
(* SRAM image on the RP2350, scratch registers that survive the reset tell *)
(* the bootrom which window to search.  The bootrom is external: it starts *)
(* the first image definition that it finds.  A load that leaves the cores *)
(* alone (initChip FALSE) leaves what is next to its caller, and is left   *)
(* out.                                                                    *)
(*                                                                         *)
(* Addresses are small: an address is a page of SIZE bytes and an offset.  *)
(***************************************************************************)
EXTENDS Integers, Sequences, FiniteSets, SequencesExt, FiniteSetsExt

CONSTANTS Files,        \* what the files hold: [format, records]
          Windows,      \* window sizes that are asked for
          EntryPoints,  \* entry points that are asked for
          IsRP2350,
          Patient       \* an image in SRAM runs before the next is loaded

\* A record is [type, page, offset, bytes]: "data" of the current page, "page", "end",
\* or anything "other"; a UF2 file has data only, with the page in each block.  A
\* byte is the name of its image, and whether its image definition starts there.
SIZE == 8
FLASH_PAGE == 1
RAM_PAGE == 2
FLASH_START == FLASH_PAGE * SIZE
RAM_START == RAM_PAGE * SIZE
Blank == [image |-> "none", def |-> FALSE]
Rom == 0

VARIABLE fw
\* flash, sram: bytes by offset; scratch: the window of a vectored boot; pc: where core 0
\* starts, Rom for the reset vector; asked: the file that the last load took, error:
\* it threw; running: the image that was started since, "none" before, "nothing" if
\* the bootrom found none.

Unset == [magic |-> FALSE, base |-> 0, size |-> 0]
NoMemory == [i \in 0 .. SIZE - 1 |-> Blank]

Init == fw = [flash |-> NoMemory, sram |-> NoMemory, scratch |-> Unset, pc |-> Rom,
              asked |-> "none", error |-> FALSE, running |-> "none"]

-----------------------------------------------------------------------------
(* Reading a file *)

\* The data records of a HEX file with their addresses: a page holds until the next.
Page(records, i) ==
  LET pages == {j \in 1 .. i : records[j].type = "page"}
  IN  IF pages = {} THEN 0 ELSE records[Max(pages)].page
Address(records, i) == Page(records, i) * SIZE + records[i].offset

\* inspectHex reads to the end record, loadHex to the end of the file.
Inspected(records) ==
  {i \in DOMAIN records : \A j \in 1 .. i : records[j].type # "end"}
Lowest(addresses) == IF addresses = {} THEN FLASH_START ELSE Min(addresses)

\* An inspection that takes the address of the last record.
InspectLast(records) ==
  LET data == {i \in Inspected(records) : records[i].type = "data" /\ records[i].bytes # <<>>}
  IN  [useSram |-> \E i \in Inspected(records) :
                     records[i].type = "page" /\ records[i].page >= RAM_PAGE,
       loadBase |-> IF data = {} THEN FLASH_START ELSE Address(records, Max(data))]

inspectHex(records) ==
  LET data == {i \in Inspected(records) : records[i].type = "data" /\ records[i].bytes # <<>>}
  IN  [useSram |-> \E i \in Inspected(records) :
                     records[i].type = "page" /\ records[i].page >= RAM_PAGE,
       loadBase |-> Lowest({Address(records, i) : i \in data})]

\* A memory with bytes stored from an offset on; those beyond it are dropped.
Put(memory, at, bytes) ==
  [i \in DOMAIN memory |-> IF i - at + 1 \in DOMAIN bytes THEN bytes[i - at + 1] ELSE memory[i]]

loadHex(records, target, base) ==
  FoldLeft(LAMBDA memory, i :
             IF records[i].type = "data" THEN Put(memory, Address(records, i) - base, records[i].bytes)
             ELSE memory,
           target, [i \in DOMAIN records |-> i])

loadFirmwareFromHex(s, records) ==
  LET found == inspectHex(records)
  IN  [chip |-> IF found.useSram THEN [s EXCEPT !.sram = loadHex(records, @, RAM_START)]
                ELSE [s EXCEPT !.flash = loadHex(records, @, FLASH_START)],
       useSram |-> found.useSram, loadBase |-> found.loadBase]

\* A block that does not fit throws, and those before it stay.
Fits(at, bytes) == at >= 0 /\ at + Len(bytes) <= SIZE
loadBlock(r, block) ==
  LET a == block.page * SIZE + block.offset
      sram == a >= RAM_START
      at == IF sram THEN a - RAM_START ELSE a - FLASH_START
  IN  IF r.chip.error \/ ~Fits(at, block.bytes) THEN [r EXCEPT !.chip.error = TRUE]
      ELSE IF sram THEN [r EXCEPT !.chip.sram = Put(@, at, block.bytes), !.useSram = TRUE,
                                  !.addresses = @ \union {a}]
      ELSE [r EXCEPT !.chip.flash = Put(@, at, block.bytes), !.addresses = @ \union {a}]

loadFirmwareFromUF2(s, blocks) ==
  LET r == FoldLeft(loadBlock, [chip |-> s, useSram |-> FALSE, addresses |-> {}], blocks)
  IN  [chip |-> r.chip, useSram |-> r.useSram, loadBase |-> Lowest(r.addresses)]

-----------------------------------------------------------------------------
(* Loading and starting *)

setupVectoredRamBoot(s, base, size) ==
  IF IsRP2350 THEN [s EXCEPT !.scratch = [magic |-> TRUE, base |-> base, size |-> size]] ELSE s

\* What a load does once the bytes are stored: an entry point, or Rom for none given,
\* the window, the reset, and on the RP2040 the start of an SRAM image at its base.
Started(r, entryPc, window) ==
  IF r.chip.error THEN r.chip
  ELSE IF entryPc # Rom THEN [r.chip EXCEPT !.pc = entryPc]
  ELSE IF r.useSram /\ ~IsRP2350 THEN [r.chip EXCEPT !.pc = r.loadBase]
  ELSE LET t == IF r.useSram THEN setupVectoredRamBoot(r.chip, r.loadBase, window) ELSE r.chip
       IN  [t EXCEPT !.pc = Rom]

loadFirmware(f, entryPc, window) ==
  /\ Patient => ~fw.scratch.magic
  /\ LET s == [fw EXCEPT !.asked = f, !.error = FALSE, !.running = "none"]
         r == IF Files[f].format = "uf2" THEN loadFirmwareFromUF2(s, Files[f].records)
              ELSE loadFirmwareFromHex(s, Files[f].records)
     IN  fw' = Started(r, entryPc, window)

\* The image definition that a search of a memory finds first.
Found(memory, from, to) ==
  LET defs == {i \in from .. to : i \in DOMAIN memory /\ memory[i].def}
  IN  IF defs = {} THEN "nothing" ELSE memory[Min(defs)].image

Contents(a) == IF a >= RAM_START THEN fw.sram[a - RAM_START] ELSE fw.flash[a - FLASH_START]

\* The cores start: at the entry point, or in the bootrom, which takes the window
\* once and falls back to flash.
Boot ==
  /\ fw.asked # "none" /\ fw.running = "none" /\ ~fw.error
  /\ LET base == fw.scratch.base - RAM_START
         image == IF fw.pc # Rom THEN Contents(fw.pc).image
                  ELSE IF fw.scratch.magic
                  THEN Found(fw.sram, base, base + fw.scratch.size - 1)
                  ELSE Found(fw.flash, 0, SIZE - 1)
     IN  fw' = [fw EXCEPT !.running = image, !.scratch.magic = @ /\ fw.pc # Rom]

Next ==
  \/ \E f \in DOMAIN Files, e \in EntryPoints \union {Rom}, w \in Windows : loadFirmware(f, e, w)
  \/ Boot

Spec == Init /\ [][Next]_fw

-----------------------------------------------------------------------------
(* Correctness *)

\* An image that lies in one memory, as firmware does.  (Of a HEX file for both, what
\* is for flash is dropped; a UF2 file for both has its window begin in flash.)
InOneMemory(f) ==
  LET data == {i \in DOMAIN Files[f].records : Files[f].records[i].type = "data"}
      At(i) == IF Files[f].format = "uf2" THEN Files[f].records[i].page
               ELSE Page(Files[f].records, i)
  IN  \E p \in {FLASH_PAGE, RAM_PAGE} : \A i \in data : At(i) = p

\* What lies where it was stored.
HasByteAt(f, a) == Contents(a).image = f

\* Whatever was loaded and run on the chip before, in whichever format and order of
\* records, what starts after a load that did not throw is what was loaded: its
\* bytes are in the memory they are for, and the bootrom finds them, not what an
\* earlier load left in the other memory or around them (loadFirmware).
StartsWhatWasLoaded ==
  fw.running # "none" /\ InOneMemory(fw.asked) /\ (fw.pc # Rom => HasByteAt(fw.asked, fw.pc))
    => fw.running = fw.asked
=============================================================================
