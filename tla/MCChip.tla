-------------------------------- MODULE MCChip --------------------------------
(***************************************************************************)
(* What the cores of a chip share, and what runs them: the bus and the     *)
(* decode cache, the reservations, the pins, the divider and interpolator, *)
(* the debugger's run loop and its connection, the firmware loader, the    *)
(* controller and the daemon.  None of them meets another in these models: *)
(* every behaviour is that of the one in focus, chosen at the start.  The  *)
(* bus is in focus one region, and its neighbour, at a time.               *)
(***************************************************************************)
EXTENDS Reservations, TLC

CONSTANTS IsArmBus, Byte, Pins, Overrides, Enables, Forces,
          Chunk, MaxSkew, Paths, Loadable, Archs, Entries, MaxInstructions, MaxAhead,
          Pid, Command, Requests, MaxOverlap, MaxCrashes,
          Operands, Values, Configs, MaxOps, MaxNested, MaxRetries,
          Parts     \* what may be in focus

VARIABLES focus, bus, io, gdb, ctl, cli, calc, link

\* Each memory has a HEX and a UF2 file, whose records are in any order, one file is for
\* both, and one does not fit.
Rec(type, page, offset, bytes) == [type |-> type, page |-> page, offset |-> offset, bytes |-> bytes]
Byte1(f) == [image |-> f, def |-> FALSE]
Def1(f) == [image |-> f, def |-> TRUE]
File(format, records) == [format |-> format, records |-> records]
FirmwareFiles ==
  [flashHex |-> File("hex",
     <<Rec("page", 1, 0, <<>>), Rec("data", 0, 2, <<Byte1("flashHex")>>),
       Rec("data", 0, 0, <<Def1("flashHex"), Byte1("flashHex")>>), Rec("end", 0, 0, <<>>)>>),
   sramHex |-> File("hex",
     <<Rec("page", 2, 0, <<>>), Rec("data", 0, 0, <<>>),
       Rec("data", 0, 2, <<Byte1("sramHex"), Def1("sramHex")>>), Rec("other", 0, 0, <<>>),
       Rec("data", 0, 6, <<Byte1("sramHex")>>), Rec("end", 0, 0, <<>>)>>),
   sramUF2 |-> File("uf2",
     <<Rec("data", 2, 4, <<Byte1("sramUF2")>>),
       Rec("data", 2, 0, <<Byte1("sramUF2"), Def1("sramUF2")>>)>>),
   flashUF2 |-> File("uf2",
     <<Rec("data", 1, 0, <<Byte1("flashUF2"), Def1("flashUF2")>>),
       Rec("data", 1, 7, <<Byte1("flashUF2")>>)>>),
   bothUF2 |-> File("uf2",
     <<Rec("data", 1, 0, <<Def1("bothUF2")>>), Rec("data", 2, 1, <<Def1("bothUF2")>>)>>),
   largeUF2 |-> File("uf2",
     <<Rec("data", 1, 0, <<Byte1("largeUF2")>>),
       Rec("data", 2, 7, <<Def1("largeUF2"), Byte1("largeUF2")>>)>>)]
FW == INSTANCE Firmware WITH fw <- ctl, Files <- FirmwareFiles, Windows <- {4},
        EntryPoints <- {19}, IsRP2350 <- TRUE, Patient <- TRUE
FO == INSTANCE Firmware WITH fw <- ctl, Files <- FirmwareFiles, Windows <- {4},
        EntryPoints <- {19}, IsRP2350 <- FALSE, Patient <- TRUE
SO == INSTANCE RP2040SIO WITH sio <- io, Bit <- {0, 1, 30}, GPIO_MASK <- {0, 1}, Lock <- {0, 31}

\* The map: bootrom 0-3, flash 16-19 mirrored up to 27, PSRAM 20-23, SRAM 28-35, a
\* register in 48-63, boot RAM in 64-79, DPRAM 80-83, SIO 96-99, PPB 112-119.
BU == INSTANCE SystemBus WITH IsArm <- IsArmBus,
        BootromBytes <- 4, FLASH_START <- 16, FLASH_SIZE <- 4, PSRAM_START <- 20, PSRAM_SIZE <- 4,
        RAM_START <- 28, RAM_SIZE <- 8, Registers <- {48}, BootRam <- 64,
        DPRAM_START <- 80, DPRAM_SIZE <- 4, SIO_START <- 96, SIO_SIZE <- 4,
        NSPPB_START <- 112, PPB_START <- 116, PPB_END <- 120

GP == INSTANCE GPIO WITH IrqOverrides <- {0}, InterruptRegisters <- TRUE

\* A loop that sleeps, wakes the other core, branches and breaks.
Kinds == (0 :> "plain") @@ (1 :> "wfi") @@ (2 :> "slow") @@ (3 :> "sev") @@ (4 :> "bkpt")
Successors == (0 :> {1, 2}) @@ (1 :> {2}) @@ (2 :> {3, 4}) @@ (3 :> {0}) @@ (4 :> {0})
RA == INSTANCE RunControl WITH IsArm <- TRUE, Kind <- Kinds, Succ <- Successors,
        Start <- 0, Handler <- 2, Patient <- TRUE
RH == INSTANCE RunControl WITH IsArm <- FALSE, Kind <- Kinds, Succ <- Successors,
        Start <- 0, Handler <- 2, Patient <- TRUE
CT == INSTANCE Controller WITH Addr <- {1, 2}
DM == INSTANCE Daemon WITH Kinds <- Requests
\* Configs are two control registers: a whole signed lane that blends or clamps, and
\* a narrow one, shifted by 2, that takes the other's input and result.
SC == INSTANCE SIOCore
LA == INSTANCE GDBLink WITH IsArm <- TRUE, Values <- {0, 1}
LH == INSTANCE GDBLink WITH IsArm <- FALSE, Values <- {0, 1}

Regions == {"flash", "sram", "register", "bootram", "dpram", "sio"}
AddressesOf == [flash |-> 16 .. 23, sram |-> 28 .. 35, register |-> 48 .. 55,
                bootram |-> 64 .. 71, dpram |-> 80 .. 83, sio |-> {44} \union 96 .. 99]

MCInit ==
  /\ focus \in Parts
  /\ Init
  /\ IF focus \in Regions THEN BU!Init ELSE bus = 0
  /\ CASE focus \in {"outputs", "inputs"} -> GP!Init [] focus = "sio rp2040" -> SO!Init [] OTHER -> io = 0
  /\ CASE focus = "debug arm" -> RA!Init [] focus = "debug riscv" -> RH!Init [] OTHER -> gdb = 0
  /\ CASE focus = "controller" -> CT!Init
       [] focus \in {"firmware rp2350", "firmware rp2040"} -> FW!Init
       [] OTHER -> ctl = 0
  /\ IF focus = "daemon" THEN DM!Init ELSE cli = 0
  /\ IF focus = "calculators" THEN SC!Init ELSE calc = 0
  /\ CASE focus = "link arm" -> LA!Init [] focus = "link riscv" -> LH!Init [] OTHER -> link = 0

\* Whole words are stored as one byte repeated, or two.
Words2 == {[i \in 1 .. 4 |-> IF i <= 2 THEN v ELSE w] : v, w \in Byte}

BusStep ==
  \E a \in AddressesOf[focus] :
    \/ \E v \in Byte : BU!Store(a, 1, <<v>>)
    \/ \E v, w \in Byte : BU!Store(a, 2, <<v, w>>)
    \/ \E v \in Words2 : BU!Store(a, 4, v)
    \/ \E n \in {1, 2, 4} : BU!Load(a, n)
    \/ BU!Fetch(a)

Image == [b \in 16 .. 19 |-> IF b = 16 THEN {0, 1} ELSE {}]
LoadFirmware == focus \in {"flash", "sram"} /\ \E r \in Byte : BU!LoadFirmware(Image, r)

\* What drives one pin; what two pins hear, and their interrupts.  Processes and commands
\* are numbered from 1.
Driven == 0
ASSUME MCChipAssumption ==
  Driven \in Pins /\ Pid \subseteq Nat \ {0} /\ Command \subseteq Nat \ {0} /\ Configs \subseteq Nat

OutputStep ==
  \/ \E r \in {"GPIO_OUT", "GPIO_OE"}, op \in {"put", "set", "clr", "xor"}, m \in SUBSET {Driven} :
       GP!WriteSIO(r, op, m)
  \/ \E f \in GP!Functions, out, oe \in Overrides : GP!WriteCTRL(Driven, f, out, oe, 0, 0)
  \/ \E pull \in GP!Pulls : GP!WritePAD(Driven, FALSE, pull)
  \/ \E v, o \in BOOLEAN : GP!PWMOutput(Driven, v, o)
  \/ \E o, e \in SUBSET {Driven} : GP!PIOStep(o, e)

InputStep ==
  \/ \E p \in Pins :
       \/ \E ie \in BOOLEAN : GP!WritePAD(p, ie, "none")
       \/ \E b \in SUBSET {"EdgeLow", "EdgeHigh"} : GP!WriteINTR(p, b)
       \/ \E v \in BOOLEAN : GP!SetInput(p, v)
       \/ \E in \in Overrides : GP!WriteCTRL(p, "null", 0, 0, in, 0)
  \/ \E e \in [Pins -> Enables] : GP!WriteINTE(e)
  \/ \E f \in [Pins -> Forces] : GP!WriteINTF(f)

MCNext ==
  /\ UNCHANGED focus
  /\ \/ focus = "amo" /\ Next /\ UNCHANGED <<bus, io, gdb, ctl, cli, calc, link>>
     \/ focus \in Regions /\ (BusStep \/ LoadFirmware) /\ UNCHANGED <<amo, io, gdb, ctl, cli, calc, link>>
     \/ focus = "outputs" /\ OutputStep /\ UNCHANGED <<amo, bus, gdb, ctl, cli, calc, link>>
     \/ focus = "inputs" /\ InputStep /\ UNCHANGED <<amo, bus, gdb, ctl, cli, calc, link>>
     \/ focus = "sio rp2040" /\ SO!Next /\ UNCHANGED <<amo, bus, gdb, ctl, cli, calc, link>>
     \/ focus = "debug arm" /\ RA!Next /\ UNCHANGED <<amo, bus, io, ctl, cli, calc, link>>
     \/ focus = "debug riscv" /\ RH!Next /\ UNCHANGED <<amo, bus, io, ctl, cli, calc, link>>
     \/ focus = "controller" /\ CT!Next /\ UNCHANGED <<amo, bus, io, gdb, cli, calc, link>>
     \/ focus = "firmware rp2350" /\ FW!Next /\ UNCHANGED <<amo, bus, io, gdb, cli, calc, link>>
     \/ focus = "firmware rp2040" /\ FO!Next /\ UNCHANGED <<amo, bus, io, gdb, cli, calc, link>>
     \/ focus = "daemon" /\ DM!Next /\ UNCHANGED <<amo, bus, io, gdb, ctl, calc, link>>
     \/ focus = "calculators" /\ SC!Next /\ UNCHANGED <<amo, bus, io, gdb, ctl, cli, link>>
     \/ focus = "link arm" /\ LA!Next /\ UNCHANGED <<amo, bus, io, gdb, ctl, cli, calc>>
     \/ focus = "link riscv" /\ LH!Next /\ UNCHANGED <<amo, bus, io, gdb, ctl, cli, calc>>

MCSpec == MCInit /\ [][MCNext]_<<focus, amo, bus, io, gdb, ctl, cli, calc, link>>

\* The memory that the cores, the DMA controller, the USB controller and the
\* debugger share is one memory: every store lands and nothing else moves, every
\* width reads it alike, no decoded instruction and no DPRAM word outlives it.
BusCoherent ==
  focus \in Regions => BU!DecodeCacheFresh /\ BU!StoresLand /\ BU!WidthsAgree /\ BU!DpramSeen

\* The listeners of the pins and the interrupt of their bank follow every change,
\* whichever block, register or host made it, and two cores that share the registers
\* of the pins lose no write of each other.
PinsFollow ==
  /\ focus \in {"outputs", "inputs"} => GP!ListenersTold /\ GP!BankLineFollowsPins /\ GP!LevelsExclude
  /\ focus = "sio rp2040" => SO!ListenersTold /\ SO!WritesKept

\* One loop runs the cores or none; the debugger knows which; no core runs over a
\* breakpoint; and, however its bytes are cut, a packet is executed at most once and
\* on the registers of the thread that the debugger named.
DebuggerInControl ==
  /\ focus \in {"debug arm", "debug riscv"} => RA!OneLoop /\ RA!DebuggerKnows /\ RA!BreakpointsHit
  /\ focus = "link arm" => LA!PacketsOnce /\ LA!RegistersOfThread /\ LA!InterruptAnswered
  /\ focus = "link riscv" => LH!PacketsOnce /\ LH!RegistersOfThread /\ LH!InterruptAnswered

\* Handlers that save and restore the divider or an interpolator are not noticed.
HandlersUnnoticed == focus = "calculators" => SC!HandlersUnnoticed

\* Whatever commands, daemons and crashes do to the socket and to the state file, a
\* request is executed once, and who runs commands one after the other finds the
\* one daemon there is, or gets one.
DaemonServes == focus = "daemon" => DM!RequestsOnce /\ DM!OneDaemon /\ DM!CommandsServed

\* What the controller runs is the firmware it was told to load, and its clock
\* follows core 0; and what a chip starts is the file that was loaded last, of any
\* format, in any memory, over any other.
ControllerCoherent ==
  /\ focus = "controller" => CT!ChipIsFirmware /\ CT!ClockFollowsCore0
  /\ focus = "firmware rp2350" => FW!StartsWhatWasLoaded
  /\ focus = "firmware rp2040" => FO!StartsWhatWasLoaded

\* See Controller.
IdleIsForever == CT!IdleIsForever
=============================================================================
