-------------------------------- MODULE Xh3irq --------------------------------
(***************************************************************************)
(* The external interrupt controller of a Hazard3 core (riscv/cpu.ts): the *)
(* arrays meiea, meipa, meifa and meipra, the sorted list of enabled and   *)
(* pending interrupts, MEINEXT, the preemption levels in MEICONTEXT, trap  *)
(* entry, mret, and the sleeps of wfi and h3.block.                        *)
(*                                                                         *)
(* One step is one call of executeInstruction: checkForInterrupts, then,   *)
(* unless the core sleeps, one instruction.  Between two steps peripherals *)
(* change their interrupt lines, the other core executes h3.unblock, and   *)
(* the chip may be reset.  Firmware is external: any instruction may be    *)
(* next.  Operators take the fields of the CPU object as a record c and    *)
(* return it changed.                                                      *)
(***************************************************************************)
EXTENDS Naturals, Sequences, SequencesExt

CONSTANTS Irq,          \* the interrupts in use, numbers below 512
          Priority,     \* the priorities firmware gives them, 0 .. 15
          Context,      \* the preemption levels firmware writes to MEICONTEXT
          NoIrq         \* MEINEXT when its NOIRQ bit is set

FirstSoft == 46         \* interrupts from here on have no line, only MEIFA

VARIABLES cpu,          \* the fields of the CPU object
          line,         \* line[irq]: what the peripherals last asked for
          claimed       \* the interrupt a MEINEXT.UPDATE just returned, or NoIrq

vars == <<cpu, line, claimed>>

\* The state that reset() makes.
ResetCpu ==
  [meiea |-> [i \in Irq |-> FALSE],          \* enabled
   meipa |-> [i \in Irq |-> FALSE],          \* pending
   meifa |-> [i \in Irq |-> FALSE],          \* forced
   meipra |-> [i \in Irq |-> 0],             \* priority
   candidates |-> <<>>,                      \* <<irq, priority>>, best first
   meinext |-> NoIrq,
   preempt |-> 0, ppreempt |-> 0, pppreempt |-> 0, mreteirq |-> FALSE,
   meie |-> FALSE,                           \* MIE.MEIE
   mie |-> FALSE, mpie |-> FALSE,            \* MSTATUS.MIE, MSTATUS.MPIE
   interruptsUpdated |-> FALSE,
   waiting |-> FALSE, waitingOnBlock |-> FALSE, eventRegistered |-> FALSE]

Init == /\ cpu = ResetCpu
        /\ line = [i \in Irq |-> FALSE]
        /\ claimed = NoIrq

-----------------------------------------------------------------------------
(* The candidate list and MEINEXT. *)

\* insertCandidate moves the new entry over those it outranks, from the end.
Outranks(e, f) == e[2] > f[2] \/ (e[2] = f[2] /\ e[1] < f[1])

InsertCandidate(s, e) ==
  LET at == CHOOSE k \in 1 .. (Len(s) + 1) :
              /\ \A i \in k .. Len(s) : Outranks(e, s[i])
              /\ k > 1 => ~Outranks(e, s[k - 1])
  IN InsertAt(s, at, e)

RemoveCandidate(s, irq) ==
  IF \E k \in DOMAIN s : s[k][1] = irq
    THEN RemoveAt(s, CHOOSE k \in DOMAIN s :
                       s[k][1] = irq /\ \A i \in 1 .. (k - 1) : s[i][1] # irq)
    ELSE s

\* What updateMEINEXT computes: the best candidate, if it reaches PPREEMPT.
Visible(c) == IF c.candidates # <<>> /\ Head(c.candidates)[2] >= c.ppreempt
                THEN Head(c.candidates)[1] ELSE NoIrq

\* Faulty variant: NOIRQ is never set again.
UpdateMEINEXTKeeps(c) ==
  IF Visible(c) = NoIrq THEN c ELSE [c EXCEPT !.meinext = Visible(c)]

UpdateMEINEXT(c) == [c EXCEPT !.meinext = Visible(c)]

SetInterrupt(c, irq, value) ==
  CASE value /\ ~c.meipa[irq] /\ c.meiea[irq] ->
         UpdateMEINEXT([c EXCEPT !.meipa[irq] = TRUE,
                                 !.candidates = InsertCandidate(@, <<irq, c.meipra[irq]>>),
                                 !.interruptsUpdated = TRUE])
    [] value /\ ~c.meipa[irq] /\ ~c.meiea[irq] -> [c EXCEPT !.meipa[irq] = TRUE]
    [] ~value /\ c.meipa[irq] ->
         UpdateMEINEXT([c EXCEPT !.meipa[irq] = FALSE,
                                 !.candidates = RemoveCandidate(@, irq)])
    [] OTHER -> c

\* A pending interrupt is deasserted and asserted again to enter the list.
SetInterruptEnabled(c, irq, value) ==
  LET d == IF value /\ ~c.meiea[irq] /\ c.meipa[irq]
             THEN SetInterrupt([c EXCEPT !.meiea[irq] = TRUE, !.meipa[irq] = FALSE],
                               irq, TRUE)
           ELSE IF ~value /\ c.meiea[irq] /\ c.meipa[irq]
             THEN [SetInterrupt(c, irq, FALSE) EXCEPT !.meipa[irq] = TRUE]
           ELSE c
  IN [d EXCEPT !.meiea[irq] = value]

-----------------------------------------------------------------------------
(* The CSR writes to the arrays, which replace a whole window: 16 of the   *)
(* interrupts, or 4 of the priorities, one after the other.                *)

Windows == {i \div 16 : i \in Irq}
Window(w) == Irq \cap (16 * w .. 16 * w + 15)
Groups == {i \div 4 : i \in Irq}
Group(g) == Irq \cap (4 * g .. 4 * g + 3)

\* The loops over a window, for a body that does nothing outside of Irq.
FourFrom(Body(_, _), c, i) == Body(Body(Body(Body(c, i), i + 1), i + 2), i + 3)
SixteenFrom(Body(_, _), c, i) ==
  FourFrom(Body, FourFrom(Body, FourFrom(Body, FourFrom(Body, c, i), i + 4), i + 8), i + 12)

EnableOne(c, i, S) == IF i \in Irq THEN SetInterruptEnabled(c, i, i \in S) ELSE c

WriteMEIEA(c, w, S) == SixteenFrom(LAMBDA d, i : EnableOne(d, i, S), c, 16 * w)

\* Taking the force of an interrupt with a line away leaves it pending.
ForceOne(c, i, S) ==
  LET d == [c EXCEPT !.meifa[i] = i \in S]
  IN  IF i \notin Irq THEN c
      ELSE IF i \in S \/ i >= FirstSoft THEN SetInterrupt(d, i, i \in S) ELSE d

WriteMEIFA(c, w, S) == SixteenFrom(LAMBDA d, i : ForceOne(d, i, S), c, 16 * w)

\* Faulty variant: the list keeps the old priority.
WriteMEIPRAOnly(c, g, p) ==
  [c EXCEPT !.meipra = [i \in Irq |-> IF i \in Group(g) THEN p[i] ELSE @[i]]]

\* A pending interrupt is taken out of the list and sorted in again.
RankOne(c, i, p) ==
  LET d == [c EXCEPT !.meipra[i] = p[i]]
  IN  IF i \notin Irq THEN c
      ELSE IF c.meipa[i] THEN SetInterrupt(SetInterrupt(d, i, FALSE), i, TRUE) ELSE d

WriteMEIPRA(c, g, p) == FourFrom(LAMBDA d, i : RankOne(d, i, p), c, 4 * g)

-----------------------------------------------------------------------------
(* MEINEXT and MEICONTEXT. *)

\* Reading MEINEXT ends the force of the interrupt it returns.
ReadMEINEXT(c) ==
  IF c.meinext = NoIrq THEN c
  ELSE LET d == [c EXCEPT !.meifa[c.meinext] = FALSE]
       IN IF c.meinext >= FirstSoft /\ c.meifa[c.meinext]
            THEN SetInterrupt(d, c.meinext, FALSE) ELSE d

\* updateMEICONTEXT_update, then updateMEINEXT.  With no interrupt the local
\* noirq is -1, and noirq << 15 sets every bit from 15 up.
UpdateMEICONTEXT(c) ==
  LET d == IF c.meinext = NoIrq
             THEN [c EXCEPT !.preempt = 31, !.ppreempt = 15, !.pppreempt = 15]
             ELSE [c EXCEPT !.preempt = c.meipra[c.meinext] + 1]
  IN [UpdateMEINEXT(d) EXCEPT !.interruptsUpdated = TRUE]

WriteMEICONTEXT(c, x) ==
  [UpdateMEINEXT([c EXCEPT !.preempt = x.preempt, !.ppreempt = x.ppreempt,
                           !.pppreempt = x.pppreempt, !.mreteirq = x.mreteirq])
     EXCEPT !.interruptsUpdated = TRUE]

PrioritySave(c) ==
  [c EXCEPT !.pppreempt = c.ppreempt,
            !.ppreempt = c.preempt % 16,
            !.preempt = IF c.meinext = NoIrq THEN 16 ELSE c.meipra[c.meinext] + 1,
            !.mreteirq = TRUE]

\* MEINEXT is not recomputed for the lower PPREEMPT.
PriorityRestore(c) ==
  IF c.mreteirq
    THEN [c EXCEPT !.preempt = c.ppreempt, !.ppreempt = c.pppreempt,
                   !.pppreempt = 0, !.mreteirq = FALSE]
    ELSE c

-----------------------------------------------------------------------------
(* Traps. *)

WakingInterruptPending(c) ==
  c.meie /\ c.meinext # NoIrq /\ c.meipra[c.meinext] >= c.preempt

\* trapEntry; a trap other than an external interrupt clears MRETEIRQ.
TrapEntry(c, external) ==
  [c EXCEPT !.mreteirq = external /\ @, !.mpie = c.mie, !.mie = FALSE]

CheckForInterrupts(c) ==
  LET d == [c EXCEPT !.interruptsUpdated = FALSE]
  IN IF ~c.interruptsUpdated THEN c
     ELSE IF ~WakingInterruptPending(d) THEN d
     ELSE [(IF d.mie THEN TrapEntry(PrioritySave(d), TRUE) ELSE d)
             EXCEPT !.waiting = FALSE]

Mret(c) ==
  [PriorityRestore([c EXCEPT !.mie = c.mpie, !.mpie = TRUE])
     EXCEPT !.interruptsUpdated = TRUE]

\* Faulty variants: wfi sleeps on a pending interrupt; h3.block sleeps on a
\* latched event.
WfiSleeps(c) == [c EXCEPT !.waiting = TRUE, !.waitingOnBlock = FALSE]

H3BlockForgets(c) ==
  IF WakingInterruptPending(c) THEN [c EXCEPT !.interruptsUpdated = TRUE]
  ELSE [c EXCEPT !.waiting = TRUE, !.waitingOnBlock = TRUE]

Wfi(c) ==
  IF WakingInterruptPending(c) THEN [c EXCEPT !.interruptsUpdated = TRUE]
  ELSE [c EXCEPT !.waiting = TRUE, !.waitingOnBlock = FALSE]

H3Block(c) ==
  IF c.eventRegistered THEN [c EXCEPT !.eventRegistered = FALSE]
  ELSE IF WakingInterruptPending(c) THEN [c EXCEPT !.interruptsUpdated = TRUE]
  ELSE [c EXCEPT !.waiting = TRUE, !.waitingOnBlock = TRUE]

\* What fireSEV does to each of the two cores.
Unblock(c) ==
  IF c.waiting /\ c.waitingOnBlock THEN [c EXCEPT !.waiting = FALSE]
  ELSE [c EXCEPT !.eventRegistered = TRUE]

-----------------------------------------------------------------------------
(* Steps of the core: checkForInterrupts, then an instruction of firmware. *)

Execute(Instruction(_)) ==
  LET c == CheckForInterrupts(cpu)
  IN /\ cpu' = IF c.waiting THEN c ELSE Instruction(c)
     /\ claimed' = NoIrq
     /\ UNCHANGED line

MEIEA == \E w \in Windows : \E S \in SUBSET Window(w) :
           Execute(LAMBDA c : WriteMEIEA(c, w, S))

MEIFA == \E w \in Windows : \E S \in SUBSET Window(w) :
           Execute(LAMBDA c : WriteMEIFA(c, w, S))

MEIPRA == \E g \in Groups : \E p \in [Group(g) -> Priority] :
            Execute(LAMBDA c : WriteMEIPRA(c, g, p))

\* csrr MEINEXT, and csrrw x0 with UPDATE
MEINEXT == Execute(ReadMEINEXT) \/ Execute(UpdateMEICONTEXT)

\* csrrsi MEINEXT, UPDATE: the read comes first, with its side effects.
Claim ==
  LET c == CheckForInterrupts(cpu)
  IN /\ ~c.waiting
     /\ claimed' = c.meinext
     /\ cpu' = UpdateMEICONTEXT(ReadMEINEXT(c))
     /\ UNCHANGED line

MEICONTEXT == \E x \in Context : Execute(LAMBDA c : WriteMEICONTEXT(c, x))

\* Writes to MSTATUS.MIE and to MIE.MEIE: an enable asks for a new check.
MSTATUS == \E b \in BOOLEAN :
             Execute(LAMBDA c : [c EXCEPT !.mie = b,
                                          !.interruptsUpdated = @ \/ (b /\ ~c.mie)])

MIE == \E b \in BOOLEAN :
         Execute(LAMBDA c : [c EXCEPT !.meie = b,
                                      !.interruptsUpdated = @ \/ (b /\ ~c.meie)])

Trap == Execute(LAMBDA c : TrapEntry(c, FALSE))

Return == Execute(Mret)

Sleep == Execute(Wfi) \/ Execute(H3Block)

SEV == Execute(Unblock)

Other == Execute(LAMBDA c : c)

Step == \/ MEIEA \/ MEIFA \/ MEIPRA \/ MEINEXT \/ Claim \/ MEICONTEXT
        \/ MSTATUS \/ MIE \/ Trap \/ Return \/ Sleep \/ SEV \/ Other

-----------------------------------------------------------------------------
(* What happens between two steps of this core. *)

Peripheral ==
  \E i \in Irq, value \in BOOLEAN :
    /\ i < FirstSoft
    /\ line' = [line EXCEPT ![i] = value]
    /\ cpu' = SetInterrupt(cpu, i, value)
    /\ UNCHANGED claimed

OtherCoreSEV == /\ cpu' = Unblock(cpu)
                /\ UNCHANGED <<line, claimed>>

\* Peripherals keep their lines over a reset of the chip.
Reset == /\ cpu' = ResetCpu
         /\ claimed' = NoIrq
         /\ UNCHANGED line

Next == Step \/ Peripheral \/ OtherCoreSEV \/ Reset

Spec == Init /\ [][Next]_vars

-----------------------------------------------------------------------------
(* Properties. *)

\* The incrementally kept list holds exactly the interrupts that are enabled
\* and pending, each once, with its present priority, best first.
CandidatesExact ==
  LET s == cpu.candidates
  IN /\ {s[k] : k \in DOMAIN s} =
          {<<i, cpu.meipra[i]>> : i \in {j \in Irq : cpu.meiea[j] /\ cpu.meipa[j]}}
     /\ \A j, k \in DOMAIN s : j < k => Outranks(s[j], s[k])

\* MEINEXT never names an interrupt that was handled, disabled or overtaken
\* since: it names the best candidate or nothing.
NextIsBest == cpu.meinext # NoIrq =>
                /\ cpu.candidates # <<>>
                /\ cpu.meinext = Head(cpu.candidates)[1]

\* An interrupt the core would take, or wake for, is never left unnoticed:
\* the flag that makes checkForInterrupts look is set.
NoMissedInterrupt ==
  WakingInterruptPending(cpu) /\ (cpu.mie \/ cpu.waiting) => cpu.interruptsUpdated

\* An h3.unblock is never latched behind the back of a core that sleeps in
\* h3.block: it would sleep on although it was released.
NoLostUnblock == cpu.waiting /\ cpu.waitingOnBlock => ~cpu.eventRegistered

\* "no preemption when noirq" (riscv/cpu.ts) is level 16, one above the best
\* priority; PREEMPT has no greater value.
PreemptAtMost16 == cpu.preempt <= 16

\* "Spec: preempt_level_next = 1 + priority" (riscv/cpu.ts): claiming an
\* interrupt with MEINEXT.UPDATE keeps its equals and inferiors out.
ClaimSetsPreempt == claimed # NoIrq => cpu.preempt = cpu.meipra[claimed] + 1
===============================================================================
