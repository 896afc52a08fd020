------------------------------ MODULE CortexM33 ------------------------------
(***************************************************************************)
(* Exceptions of a Cortex-M33 core (cortex-m33/core.ts, registers.ts and   *)
(* the NVIC and SCB registers of peripherals/ppb_rp2350.ts): priority      *)
(* arbitration, stacking on the main and the process stack, exception      *)
(* return, faults, the IT block, and the sleeps of WFI and WFE.            *)
(*                                                                         *)
(* One step is one call of executeInstruction, or something outside the    *)
(* core between two of them: an interrupt line, SysTick, a SEV of the      *)
(* other core.  Firmware is external.  Thread and handlers run the same    *)
(* loop of three instructions: anything at 0, IT at 1, and at 2 the only    *)
(* instruction of the IT block.  Operators take the fields of the core and *)
(* of its PPB state as a record c and return it changed.                   *)
(*                                                                         *)
(* Frames with floating-point registers are left out: no instruction sets  *)
(* CONTROL.FPCA, so exceptionEntry never pushes one.                       *)
(***************************************************************************)
EXTENDS Integers, Sequences, SequencesExt

CONSTANTS Irq,          \* exception numbers of the external interrupts in use
          SysExc,       \* the other exceptions in use
          Priority,     \* the priorities firmware gives interrupts, 0 .. 7
          SysPriority,  \* SHPR2 and SHPR3: one priority for SVCall, PendSV, SysTick
          UsageFaultEna,\* SHCSR.USGFAULTENA
          MspWords, PspWords,  \* words on a stack before it meets MSPLIM, PSPLIM
          MaxPush,      \* words a context pushes
          FaultsInIT    \* may the instructions of an IT block fault or return

Thread == 0
EXC_NMI == 2
EXC_HARDFAULT == 3
EXC_USAGEFAULT == 6
EXC_SVCALL == 11
EXC_PENDSV == 14
EXC_SYSTICK == 15
EXC_EXTERNAL == 16

ASSUME CortexM33Assumption ==
  /\ Irq \subseteq EXC_EXTERNAL .. EXC_EXTERNAL + 51
  /\ SysExc \subseteq {EXC_NMI, EXC_SVCALL, EXC_PENDSV, EXC_SYSTICK}
  /\ Priority \subseteq 0 .. 7 /\ SysPriority \in 0 .. 7
  /\ UsageFaultEna \in BOOLEAN /\ FaultsInIT \in BOOLEAN
  /\ MspWords \in Nat /\ PspWords \in Nat /\ MaxPush \in Nat

Unmasked == 8           \* 0x100, the priority of Thread mode
FrameWords == 8

\* The fields of the core and of its PPB state, and as history the contexts
\* that exceptions have interrupted, newest last.
VARIABLE core

\* reset(): r13 and msp come from the vector table.  Depths count words
\* pushed, so a stack grows up.
Init ==
  core = [ipsr |-> Thread, pc |-> 0, it |-> 0, lr |-> "none",
          r13 |-> 0, msp |-> 0, psp |-> 0, spsel |-> FALSE,
          mem |-> [k \in {} |-> 0],           \* live frames by stack and depth
          primask |-> FALSE, basepri |-> Unmasked,
          pend |-> {}, ena |-> {}, prio |-> [i \in Irq |-> 0],
          cpacr |-> FALSE, fault |-> FALSE,
          waiting |-> FALSE, event |-> FALSE, updated |-> FALSE,
          hist |-> <<>>]

-----------------------------------------------------------------------------
(* registers.ts: r13 shadows the stack pointer in use *)

UsesPsp(c) == c.ipsr = Thread /\ c.spsel
SyncToBanked(c) == IF UsesPsp(c) THEN [c EXCEPT !.psp = c.r13] ELSE [c EXCEPT !.msp = c.r13]
SyncFromBanked(c) == [c EXCEPT !.r13 = IF UsesPsp(c) THEN c.psp ELSE c.msp]

-----------------------------------------------------------------------------
(* Priorities *)

ExceptionPriority(c, e) ==
  CASE e = EXC_NMI -> -2
    [] e = EXC_HARDFAULT -> -1
    [] e \in {EXC_SVCALL, EXC_PENDSV, EXC_SYSTICK} -> SysPriority
    [] e \in Irq -> c.prio[e]
    [] OTHER -> Unmasked              \* UsageFault has no priority of its own

Least(S) == CHOOSE x \in S : \A y \in S : x <= y

CurrentPriority(c) ==
  Least({IF c.ipsr = Thread THEN Unmasked ELSE ExceptionPriority(c, c.ipsr),
         IF c.primask THEN 0 ELSE Unmasked, c.basepri})

\* What checkForInterrupts would enter: pending, enabled and more urgent.
Takeable(c) == {e \in c.pend : /\ e \in Irq => e \in c.ena
                               /\ ExceptionPriority(c, e) < CurrentPriority(c)}

-----------------------------------------------------------------------------
(* Exception entry and return *)

Aligned(sp) == sp + (sp % 2)

\* The history of an entry: what the matching return must bring back.
Context(c, ret) == [ipsr |-> c.ipsr, pc |-> ret, it |-> c.it, lr |-> c.lr, r13 |-> c.r13,
                    spsel |-> c.spsel]

\* The frame f is written below the word k of its stack.
Stored(mem, k, f) == [m \in DOMAIN mem \cup {k} |-> IF m = k THEN f ELSE mem[m]]

\* exceptionEntry.  ret is the address to return to.
ExceptionEntry(c0, e, ret) ==
  LET c == SyncToBanked(c0)
      psp == UsesPsp(c)
      sp == IF psp THEN c.psp ELSE c.msp
      top == Aligned(sp) + FrameWords
      frame == [lr |-> c.lr, pc |-> ret, it |-> c.it, ipsr |-> c.ipsr,
                pad |-> Aligned(sp) # sp]
  IN  IF e = EXC_HARDFAULT /\ c.ipsr = EXC_HARDFAULT THEN c0      \* lockup: not taken
      ELSE IF top > (IF psp THEN PspWords ELSE MspWords)
      THEN SyncFromBanked([c EXCEPT !.spsel = FALSE, !.fault = TRUE])   \* STKOF
      ELSE SyncFromBanked(
             [c EXCEPT !.mem = Stored(@, <<psp, top>>, frame),
                       !.psp = IF psp THEN top ELSE @,
                       !.msp = IF psp THEN @ ELSE top,
                       !.lr = IF c.ipsr # Thread THEN "handler"
                              ELSE IF psp THEN "psp" ELSE "msp",
                       !.pc = 0, !.ipsr = e, !.spsel = FALSE, !.it = 0,
                       !.event = TRUE,
                       !.hist = Append(@, Context(c, ret))])

\* Faulty variant of Popped: forgets the word that aligned the stack.
PoppedUnaligned(sp, frame) == sp - FrameWords

\* Faulty variant of Popped: takes every frame for an aligned one.
PoppedPadded(sp, frame) == sp - FrameWords - 1

\* The stack pointer when a frame has been popped.
Popped(sp, frame) == sp - FrameWords - (IF frame.pad THEN 1 ELSE 0)

\* exceptionReturn with the EXC_RETURN value x.
ExceptionReturn(c0, x) ==
  LET c == SyncToBanked(c0)
      psp == x = "psp"
      sp == IF psp THEN c.psp ELSE c.msp
      frame == c.mem[<<psp, sp>>]
      new == Popped(sp, frame)
  IN  SyncFromBanked(
        [c EXCEPT !.psp = IF psp THEN new ELSE @,
                  !.msp = IF psp THEN @ ELSE new,
                  !.lr = frame.lr, !.pc = frame.pc, !.it = frame.it,
                  !.ipsr = IF x = "handler" THEN frame.ipsr ELSE Thread,
                  !.spsel = psp,
                  !.mem = Restrict(@, DOMAIN @ \ {<<psp, sp>>}),
                  !.updated = TRUE, !.event = TRUE,
                  !.hist = Front(@)])

\* checkForInterrupts: NMI, SVCall, PendSV and SysTick in this order, then the
\* most urgent interrupt, the lowest number among equals.
Chosen(c) ==
  LET best == Least({c.prio[i] : i \in Takeable(c) \cap Irq})
      system == Takeable(c) \ Irq
  IN  IF system # {} THEN Least(system)
      ELSE Least({i \in Takeable(c) \cap Irq : c.prio[i] = best})

\* Faulty variant: clears what else is pending along.
CheckClearsAll(c) ==
  IF Takeable(c) = {} THEN [c EXCEPT !.updated = FALSE]
  ELSE ExceptionEntry([c EXCEPT !.pend = {}], Chosen(c), c.pc)

CheckForInterrupts(c) ==
  IF Takeable(c) = {} THEN [c EXCEPT !.updated = FALSE]
  ELSE ExceptionEntry([c EXCEPT !.pend = @ \ {Chosen(c)}], Chosen(c), c.pc)

\* deliverFault, where executeInstruction finds pendingFault set.
DeliverFault(c, ret) ==
  IF c.fault
  THEN ExceptionEntry([c EXCEPT !.fault = FALSE],
                      IF UsageFaultEna THEN EXC_USAGEFAULT ELSE EXC_HARDFAULT, ret)
  ELSE c

-----------------------------------------------------------------------------
(* What is outside the core *)

\* setInterrupt(irq, value): a rising line wakes a sleeping core that can take it.
SetInterrupt(c, i, value) ==
  IF ~value THEN [c EXCEPT !.pend = @ \ {i}]
  ELSE IF i \in c.pend THEN c
  ELSE LET d == [c EXCEPT !.pend = @ \cup {i}, !.updated = TRUE]
       IN  IF ~d.waiting THEN d
           ELSE [CheckForInterrupts(d) EXCEPT !.waiting = Takeable(d) = {}]

Line == \E i \in Irq, v \in BOOLEAN : core' = SetInterrupt(core, i, v)

\* SystickAlarmCallback.fire with TICKINT set: it does not wake the core.
SysTick == /\ EXC_SYSTICK \in SysExc
           /\ core' = [core EXCEPT !.pend = @ \cup {EXC_SYSTICK}, !.updated = TRUE]

\* fireSEV of the other core.
OtherCoreSEV == core' = IF core.waiting THEN [core EXCEPT !.waiting = FALSE]
                        ELSE [core EXCEPT !.event = TRUE]

-----------------------------------------------------------------------------
(* executeInstruction *)

\* The first half: a pending exception is entered instead of an instruction,
\* and a stack overflow on the way is delivered at once.
TakesException == ~core.waiting /\ core.updated /\ Takeable(core) # {}

TakeException ==
  /\ TakesException
  /\ core' = LET d == CheckForInterrupts(core) IN DeliverFault(d, d.pc)

\* The second half: an instruction runs from any of the places S of the loop.
\* It starts from Fetched: a check that found nothing is done with, and the
\* program counter has moved on.
At(S) == ~core.waiting /\ ~TakesException /\ core.pc \in S
Fetched == [core EXCEPT !.updated = FALSE, !.pc = (core.pc + 1) % 3]

AdvanceIT(k) == IF k = 0 THEN 0 ELSE k - 1

\* Faulty variant of Finish: asks the new IT state whether the instruction was
\* in a block.
FinishByNewState(d) ==
  core' = DeliverFault(IF d.it # 0 THEN [d EXCEPT !.it = AdvanceIT(@)] ELSE d, core.pc)

\* d is what the instruction made of Fetched.  An instruction of an IT block
\* advances the IT state, and then a fault is delivered.
Finish(d) ==
  core' = DeliverFault(IF core.it # 0 THEN [d EXCEPT !.it = AdvanceIT(@)] ELSE d, core.pc)

Plain == At({0, 2}) /\ Finish(Fetched)
IT == At({1}) /\ Finish([Fetched EXCEPT !.it = 1])

\* CPS and MSR PRIMASK, MSR BASEPRI
WritePrimask ==
  At({0}) /\ \E b \in BOOLEAN : Finish([Fetched EXCEPT !.primask = b, !.updated = TRUE])
WriteBasepri ==
  At({0}) /\ \E p \in (Priority \ {0}) \cup {Unmasked} :
               Finish([Fetched EXCEPT !.basepri = p, !.updated = TRUE])

\* Faulty variant of WriteISER: does not ask for a new check.
EnableOnly == At({0}) /\ \E i \in Irq : Finish([Fetched EXCEPT !.ena = @ \cup {i}])

\* ISER, ICER, ISPR, ICPR, IPR, and ICSR
WriteISER == At({0}) /\ \E i \in Irq : Finish([Fetched EXCEPT !.ena = @ \cup {i}, !.updated = TRUE])
WriteICER == At({0}) /\ \E i \in Irq : Finish([Fetched EXCEPT !.ena = @ \ {i}])
WriteISPR == At({0}) /\ \E i \in Irq : Finish([Fetched EXCEPT !.pend = @ \cup {i}, !.updated = TRUE])
WriteICPR == At({0}) /\ \E i \in Irq : Finish([Fetched EXCEPT !.pend = @ \ {i}])
WriteIPR == At({0}) /\ \E i \in Irq, p \in Priority :
                         Finish([Fetched EXCEPT !.prio[i] = p, !.updated = TRUE])
WriteICSR == At({0}) /\ \E e \in SysExc \ {EXC_SVCALL} :
               \/ Finish([Fetched EXCEPT !.pend = @ \cup {e}, !.updated = TRUE])
               \/ e # EXC_NMI /\ Finish([Fetched EXCEPT !.pend = @ \ {e}])

SVC == At({0}) /\ EXC_SVCALL \in SysExc
         /\ Finish([Fetched EXCEPT !.pend = @ \cup {EXC_SVCALL}, !.updated = TRUE])

WFI == At({0}) /\ Finish([Fetched EXCEPT !.waiting = TRUE])
WFE == At({0}) /\ Finish(IF core.event THEN [Fetched EXCEPT !.event = FALSE]
                         ELSE [Fetched EXCEPT !.waiting = TRUE])

\* A context pops what it pushed before it returns: Floor is where it began,
\* above the frames on its stack.
Floor == LET S == {k[2] : k \in {m \in DOMAIN core.mem : m[1] = UsesPsp(core)}}
         IN  IF S = {} THEN 0 ELSE CHOOSE x \in S : \A y \in S : x >= y
Push == At({0}) /\ core.r13 < Floor + MaxPush /\ Finish([Fetched EXCEPT !.r13 = @ + 1])
Pop == At({0}) /\ core.r13 > Floor /\ Finish([Fetched EXCEPT !.r13 = @ - 1])

\* MSR CONTROL: SPSEL, which takes effect in Thread mode.
WriteControl ==
  At({0}) /\ core.ipsr = Thread /\ \E b \in BOOLEAN :
      Finish(SyncFromBanked([SyncToBanked(Fetched) EXCEPT !.spsel = b]))

\* A floating-point instruction.  While CPACR denies the coprocessor it sets
\* NOCP and raises a UsageFault; a handler enables it and returns to retry.
FPU == /\ At(IF FaultsInIT THEN {0, 2} ELSE {0})
       /\ Finish([Fetched EXCEPT !.fault = ~core.cpacr])
WriteCPACR == At({0}) /\ Finish([Fetched EXCEPT !.cpacr = TRUE])

\* BX LR at the end of a handler.
Return == /\ At(IF FaultsInIT THEN {0, 2} ELSE {0})
          /\ core.ipsr # Thread /\ core.r13 = Floor
          /\ Finish(ExceptionReturn(Fetched, core.lr))

Instruction == \/ Plain \/ IT \/ WritePrimask \/ WriteBasepri \/ WriteISER \/ WriteICER
               \/ WriteISPR \/ WriteICPR \/ WriteIPR \/ WriteICSR \/ SVC \/ WFI \/ WFE
               \/ Push \/ Pop \/ WriteControl \/ FPU \/ WriteCPACR \/ Return

Next == Line \/ SysTick \/ OtherCoreSEV \/ TakeException \/ Instruction

Spec == Init /\ [][Next]_core

-----------------------------------------------------------------------------
(* Correctness *)

\* executeInstruction looks for interrupts only when interruptsUpdated is set,
\* and clears it when it finds none: a running core on which an exception can
\* be taken has the flag set, whatever changed last.  A sleeping core does not
\* look at all: it never sleeps while an interrupt it would take is pending,
\* for setInterrupt wakes it and WFI runs only when nothing was found.
NoMissedInterrupt ==
  /\ ~core.waiting /\ Takeable(core) # {} => core.updated
  /\ core.waiting => Takeable(core) \cap Irq = {}

\* No interrupt is lost on the way to its handler: one that was pending and is not
\* any more has been entered, or its line fell, or firmware cleared it - unless the
\* stack overflowed on its entry, which leaves it neither pending nor entered
\* (checkForInterrupts, exceptionEntry).
NoLostInterrupt ==
  [][\A i \in core.pend \ core'.pend :
       \/ core'.ipsr = i /\ Len(core'.hist) = Len(core.hist) + 1
       \/ core'.hist = core.hist /\ ~core'.fault
       \/ core'.fault \/ core'.ipsr \in {EXC_USAGEFAULT, EXC_HARDFAULT}]_core

\* Nested handlers and the two stacks: every frame that waits to be popped lies
\* below the pointer of its stack, so nothing that runs meanwhile overwrites it.
FramesSafe ==
  \A k \in DOMAIN core.mem :
     k[2] <= IF k[1] = UsesPsp(core) THEN core.r13
             ELSE IF k[1] THEN core.psp ELSE core.msp

\* The IT state belongs to the instruction that is next: one conditional
\* instruction at 2, none elsewhere, whatever interrupts the block.
ItStateFollowsProgram == core.it = IF core.pc = 2 THEN 1 ELSE 0

\* A return brings back the context its entry interrupted: the instruction to
\* go on with, the IT state, the stack and its depth, and the older EXC_RETURN;
\* until then its frame is safe, and the IT state is the program's.
ReturnsRestore ==
  /\ []FramesSafe /\ []ItStateFollowsProgram
  /\ [][Len(core'.hist) < Len(core.hist) =>
           Context(core', core'.pc) = Last(core.hist)]_core

-----------------------------------------------------------------------------
(* The bounds of a run *)

\* Handlers interrupted by handlers, three contexts in all, the last of which
\* neither pushes nor sleeps; one of the two masks at a time.
Bounds ==
  /\ Len(core.hist) <= 2
  /\ Len(core.hist) = 2 => core.r13 = Floor /\ ~core.waiting
  /\ ~(core.primask /\ core.basepri # Unmasked)
=============================================================================
