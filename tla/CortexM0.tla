------------------------------- MODULE CortexM0 -------------------------------
(***************************************************************************)
(* Exceptions of a Cortex-M0+ core of the RP2040 (src/cortex-m0-core.ts    *)
(* and the NVIC and SCB registers of src/peripherals/ppb.ts): arbitration, *)
(* stacking on the banked stacks, exception return, WFI and WFE.           *)
(*                                                                         *)
(* One step is one call of executeInstruction, which enters a pending      *)
(* exception and executes the first instruction of its handler at once, or *)
(* something outside the core between two calls.  Firmware is external:    *)
(* thread and handlers run one loop, with any instruction at 0 and a plain *)
(* one at 1.                                                               *)
(***************************************************************************)
EXTENDS Integers, Sequences, SequencesExt

CONSTANTS Irqs,        \* interrupts in use, lowest number first
          Lines,       \* those that are wired to a peripheral, up to MAX_HARDWARE_IRQ
          SysExc,      \* the other exceptions in use
          Priority,    \* the priorities firmware gives interrupts
          SysPriority, \* SHPR2 and SHPR3: the priority of SVCall, PendSV and SysTick
          MaxPush      \* words a context pushes

Thread == "Thread"
Interrupts == Range(Irqs)
LOWEST_PRIORITY == 4
FrameWords == 8

\* The fields of the core, the live frames by stack and depth, and the contexts that
\* exceptions have interrupted.  Stacks grow up from 0 and count words.
VARIABLE m0

Init ==
  m0 = [ipsr |-> Thread, pc |-> 0, lr |-> "none",
        sp |-> 0, bankedSP |-> 0, spsel |-> FALSE, mem |-> [k \in {} |-> 0],
        pm |-> FALSE, pend |-> {}, ena |-> {}, prio |-> [i \in Interrupts |-> 0],
        waiting |-> FALSE, event |-> FALSE, updated |-> FALSE, hist |-> <<>>]

-----------------------------------------------------------------------------
(* The banked stack pointers *)

switchStack(c, process) ==
  IF c.spsel = process THEN c
  ELSE [c EXCEPT !.spsel = process, !.sp = c.bankedSP, !.bankedSP = c.sp]

\* SPprocess and SPmain
StackPointer(c, process) == IF c.spsel = process THEN c.sp ELSE c.bankedSP
SetStackPointer(c, process, value) ==
  IF c.spsel = process THEN [c EXCEPT !.sp = value] ELSE [c EXCEPT !.bankedSP = value]

-----------------------------------------------------------------------------
(* Arbitration *)

exceptionPriority(c, e) ==
  CASE e = Thread -> LOWEST_PRIORITY
    [] e = "NMI" -> -2
    [] e \in Interrupts -> c.prio[e]
    [] OTHER -> SysPriority[e]

Least(a, b) == IF a <= b THEN a ELSE b

\* The priority of what executes.  A sleeping core ignores PRIMASK, and the active
\* handler unless PRIMASK is set.
ExecutionPriority(c) ==
  Least(exceptionPriority(c, c.ipsr), IF c.pm THEN 0 ELSE LOWEST_PRIORITY)
CurrentPriority(c) ==
  IF ~c.waiting THEN ExecutionPriority(c)
  ELSE IF c.pm THEN exceptionPriority(c, c.ipsr) ELSE LOWEST_PRIORITY

\* NMI is entered whatever executes.
Above(c, limit) == {e \in c.pend : /\ e \in Interrupts => e \in c.ena
                                   /\ e # "NMI" => exceptionPriority(c, e) < limit}
Takeable(c) == Above(c, CurrentPriority(c))

\* By priority; among equals SVCall, PendSV, SysTick and then the lowest interrupt.
Order == <<"NMI", "SVCall", "PendSV", "SysTick">> \o Irqs
Chosen(c) ==
  CHOOSE e \in Takeable(c) : \A f \in Takeable(c) \ {e} :
    LET p == exceptionPriority(c, e)  q == exceptionPriority(c, f)
    IN  p < q \/ (p = q /\ \E i, j \in DOMAIN Order : Order[i] = e /\ Order[j] = f /\ i < j)

-----------------------------------------------------------------------------
(* Entry and return *)

WithFrame(mem, place, frame) ==
  [k \in DOMAIN mem \cup {place} |-> IF k = place THEN frame ELSE mem[k]]

Snapshot(c) == [ipsr |-> c.ipsr, pc |-> c.pc, lr |-> c.lr, spsel |-> c.spsel, sp |-> c.sp]

exceptionEntry(c, e) ==
  LET process == c.spsel /\ c.ipsr = Thread
      sp == StackPointer(c, process)
      top == sp + (sp % 2) + FrameWords
      d == SetStackPointer(c, process, top)
  IN  [switchStack(d, FALSE) EXCEPT
         !.mem = WithFrame(@, <<process, top>>,
                           [lr |-> c.lr, pc |-> c.pc, ipsr |-> c.ipsr, pad |-> sp % 2]),
         !.lr = IF c.ipsr # Thread THEN "handler" ELSE IF c.spsel THEN "process" ELSE "main",
         !.ipsr = e, !.pc = 0, !.event = TRUE,
         !.hist = Append(@, Snapshot(c))]

\* Taking the frame off without the word that aligned the stack.
PopUnaligned(sp, frame) == sp - FrameWords
Pop(sp, frame) == sp - FrameWords - frame.pad

exceptionReturn(c, excReturn) ==
  LET process == excReturn = "process"
      framePtr == StackPointer(c, process)
      frame == c.mem[<<process, framePtr>>]
      d == SetStackPointer(switchStack(c, process), process, Pop(framePtr, frame))
  IN  [d EXCEPT !.lr = frame.lr, !.pc = frame.pc, !.ipsr = frame.ipsr,
                !.mem = Restrict(@, DOMAIN @ \ {<<process, framePtr>>}),
                !.updated = TRUE, !.event = TRUE, !.hist = Front(@)]

\* A line stays pending while its peripheral asserts it: entry takes back only what
\* software alone can pend.
checkForInterrupts(c) ==
  IF Takeable(c) = {} THEN [c EXCEPT !.updated = FALSE]
  ELSE exceptionEntry([c EXCEPT !.pend = @ \ ({Chosen(c)} \ Lines)], Chosen(c))

-----------------------------------------------------------------------------
(* What is outside the core *)

\* A rising line asks a sleeping core at once.
setInterrupt(c, i, value) ==
  IF ~value THEN [c EXCEPT !.pend = @ \ {i}]
  ELSE IF i \in c.pend THEN c
  ELSE LET d == [c EXCEPT !.pend = @ \cup {i}, !.updated = TRUE]
       IN  IF d.waiting THEN [checkForInterrupts(d) EXCEPT !.waiting = Takeable(d) = {}] ELSE d

Line == \E i \in Lines, v \in BOOLEAN : m0' = setInterrupt(m0, i, v)

\* RPPPB.fire with TICKINT set
SysTick == /\ "SysTick" \in SysExc
           /\ m0' = [m0 EXCEPT !.pend = @ \cup {"SysTick"}, !.updated = TRUE]

\* fireSEV of the other core
OtherCoreSEV ==
  m0' = IF m0.waiting THEN [m0 EXCEPT !.waiting = FALSE] ELSE [m0 EXCEPT !.event = TRUE]

-----------------------------------------------------------------------------
(* executeInstruction *)

\* The core when the instruction is fetched: whatever could be entered has been.
Entered == IF m0.updated THEN checkForInterrupts(m0) ELSE m0
At0 == ~m0.waiting /\ Entered.pc = 0
Fetched == [Entered EXCEPT !.pc = (@ + 1) % 2]

Plain == ~m0.waiting /\ m0' = Fetched

\* A CPSIE that leaves the check to whoever pends something next.
EnableOnly == At0 /\ m0' = [Fetched EXCEPT !.pm = FALSE]

\* CPSID, CPSIE and MSR PRIMASK; only the last two ask for a check.
CPSID == At0 /\ m0' = [Fetched EXCEPT !.pm = TRUE]
CPSIE == At0 /\ m0' = [Fetched EXCEPT !.pm = FALSE, !.updated = TRUE]

WriteISER == At0 /\ \E i \in Interrupts : m0' = [Fetched EXCEPT !.ena = @ \cup {i}, !.updated = TRUE]
WriteICER == At0 /\ \E i \in Interrupts : m0' = [Fetched EXCEPT !.ena = @ \ {i}]
WriteISPR == At0 /\ \E i \in Interrupts : m0' = [Fetched EXCEPT !.pend = @ \cup {i}, !.updated = TRUE]
WriteICPR == At0 /\ \E i \in Interrupts : m0' = [Fetched EXCEPT !.pend = @ \ ({i} \ Lines)]
WriteIPR == At0 /\ \E i \in Interrupts, p \in Priority :
                     m0' = [Fetched EXCEPT !.prio[i] = p, !.updated = TRUE]
WriteICSR == At0 /\ \E e \in SysExc \ {"SVCall"} :
               \/ m0' = [Fetched EXCEPT !.pend = @ \cup {e}, !.updated = TRUE]
               \/ e # "NMI" /\ m0' = [Fetched EXCEPT !.pend = @ \ {e}]

SVC == At0 /\ "SVCall" \in SysExc /\ m0' = [Fetched EXCEPT !.pend = @ \cup {"SVCall"}, !.updated = TRUE]
WFI == At0 /\ m0' = [Fetched EXCEPT !.waiting = TRUE]
WFE == At0 /\ m0' = IF Fetched.event THEN [Fetched EXCEPT !.event = FALSE]
                    ELSE [Fetched EXCEPT !.waiting = TRUE]

\* A context pops what it pushed before it returns.
Floor(c) == LET S == {0} \cup {k[2] : k \in {m \in DOMAIN c.mem : m[1] = c.spsel}}
            IN  CHOOSE x \in S : \A y \in S : x >= y
PUSH == At0 /\ Fetched.sp < Floor(Fetched) + MaxPush /\ m0' = [Fetched EXCEPT !.sp = @ + 1]
POP == At0 /\ Fetched.sp > Floor(Fetched) /\ m0' = [Fetched EXCEPT !.sp = @ - 1]

\* MSR CONTROL
WriteControl == At0 /\ Fetched.ipsr = Thread /\ \E b \in BOOLEAN : m0' = switchStack(Fetched, b)

\* BXWritePC of an EXC_RETURN, by BX or POP
Return == At0 /\ Fetched.ipsr # Thread /\ Fetched.sp = Floor(Fetched)
          /\ m0' = exceptionReturn(Fetched, Fetched.lr)

Next == \/ Line \/ SysTick \/ OtherCoreSEV
        \/ Plain \/ CPSID \/ CPSIE \/ WriteISER \/ WriteICER \/ WriteISPR \/ WriteICPR \/ WriteIPR
        \/ WriteICSR \/ SVC \/ WFI \/ WFE \/ PUSH \/ POP \/ WriteControl \/ Return

Spec == Init /\ [][Next]_m0

-----------------------------------------------------------------------------
(* Correctness *)

\* A running core looks for interrupts only when interruptsUpdated is set, and a
\* sleeping core only when a line rises: none runs on, or sleeps, while an
\* interrupt is pending that is more urgent than what it executes
\* (checkForInterrupts, setInterrupt).
NoMissedInterrupt ==
  LET urgent == Above(m0, ExecutionPriority(m0))
  IN  IF m0.waiting THEN urgent \cap Interrupts = {} ELSE urgent # {} => m0.updated

\* Every frame that waits to be popped lies below the pointer of its stack,
\* whichever stack is banked when an exception comes (exceptionEntry, switchStack).
FramesSafe == \A k \in DOMAIN m0.mem : k[2] <= StackPointer(m0, k[1])

\* A return brings back the instruction, the stack, its depth and the link
\* register that the entry interrupted (exceptionEntry, exceptionReturn).
ReturnsRestore ==
  [][~m0.waiting /\ Len(m0'.hist) < Len(Entered.hist) => Snapshot(m0') = Last(Entered.hist)]_m0

\* "If the group priority of the exception is less than or equal to the execution
\* group priority, the exception is ignored" (the comment in checkForInterrupts on a
\* core that waits in WFI or WFE): a handler that sleeps is interrupted only by what
\* is more urgent.
SleepKeepsPriority ==
  [][m0.waiting /\ Len(m0'.hist) > Len(m0.hist) =>
       exceptionPriority(m0, m0'.ipsr) < exceptionPriority(m0, m0.ipsr)]_m0
=============================================================================
