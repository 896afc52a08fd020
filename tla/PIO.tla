--------------------------------- MODULE PIO ---------------------------------
(***************************************************************************)
(* The PIO blocks of the RP2350 (peripherals/pio.ts): state machines that  *)
(* run small programs, stall on FIFOs, pins and IRQ flags, and are resumed *)
(* by each other, by the CPU, by DMA or by a pin.                          *)
(*                                                                         *)
(* Words and pin outputs are left out: a FIFO is its level, a shift        *)
(* register its count, and what OUT or MOV gives to the program counter or *)
(* to be executed is part of the instruction.  How often a machine is      *)
(* stepped (its clock divider) is left open.  Operators take the state of  *)
(* the blocks as a record s and return it changed.                         *)
(***************************************************************************)
EXTENDS Integers, SequencesExt

CONSTANTS Pios,         \* the blocks, numbers
          Machines,     \* Machines[q]: the machines of block q, in order of index
          Flags,        \* the IRQ flags of a block in use; the first four interrupt
          Lines,        \* the interrupt lines in use, [pio, line]
          Programs,     \* Programs[m]: what the instruction memory may hold for m
          Forced,       \* Forced[m]: what the CPU writes to the INSTR register of m
          Threshold,    \* Threshold[m]: [auto: push and pull on reaching `at`]
          Depth,        \* entries of a FIFO that is not joined (4)
          Full,         \* a shift register's width (32)
          Fed,          \* the machines whose TX FIFO the CPU writes
          Joins,        \* Joins[m]: the values of m's FJOIN bits in use, of JoinMode
          Controls,     \* what is written to CTRL: Control(q) for block q
          Masks,        \* what is written to INTE and INTF: sets of causes
          MaxDelay      \* bound: no instruction is forced on a longer delay

Machine == UNION {ToSet(Machines[q]) : q \in Pios}
Owner == [m \in Machine |-> CHOOSE q \in Pios : m \in ToSet(Machines[q])]
Cause(q) == {[kind |-> "irq", of |-> f] : f \in Flags \cap 0 .. 3}
            \cup [kind : {"tx", "rx"}, of : ToSet(Machines[q])]

JoinMode == {"none", "tx", "rx"}

\* The machines of the block that run, those that are restarted, and the
\* machines of the blocks before and after it that it starts or stops as well.
Control(q) == [pio : {q}, on : SUBSET ToSet(Machines[q]), restart : SUBSET ToSet(Machines[q]),
               start : SUBSET (Machine \ ToSet(Machines[q])),
               stop : SUBSET (Machine \ ToSet(Machines[q]))]

None == [op |-> "none", delay |-> 0]     \* no instruction

VARIABLE pio            \* the blocks and their machines

vars == <<pio>>

Stopped == [on |-> FALSE, next |-> 1, exec |-> None,
            wait |-> "none", for |-> None, waitDelay |-> -1, delay |-> 0, stalled |-> FALSE,
            isr |-> 0, osr |-> 0, tx |-> 0, rx |-> 0, txDepth |-> Depth, rxDepth |-> Depth,
            dreqTx |-> TRUE, dreqRx |-> FALSE]

Init == \E program \in [Machine -> UNION {Programs[m] : m \in Machine}] :
  /\ \A m \in Machine : program[m] \in Programs[m]
  /\ pio = [sm |-> [m \in Machine |-> Stopped], program |-> program,
            irq |-> [q \in Pios |-> {}], pin |-> FALSE,
            inte |-> [l \in Lines |-> {}], intf |-> [l \in Lines |-> {}],
            line |-> [l \in Lines |-> FALSE]]

\* F of x, evaluating x once: to go on from the state x.
Then(x, F(_)) == CHOOSE y \in {F(z) : z \in {x}} : TRUE

-----------------------------------------------------------------------------
(* Requests and interrupts. *)

intRaw(s, q) == {c \in Cause(q) :
  \/ c.kind = "irq" /\ c.of \in s.irq[q]
  \/ c.kind = "tx" /\ s.sm[c.of].tx # s.sm[c.of].txDepth
  \/ c.kind = "rx" /\ s.sm[c.of].rx # 0}

intStatus(s, l) == (intRaw(s, l[1]) \cap s.inte[l]) \cup s.intf[l]

checkInterrupts(s, q) ==
  [s EXCEPT !.line = [l \in Lines |-> IF l[1] = q THEN intStatus(s, l) # {} ELSE @[l]]]

Requested(k) == [k EXCEPT !.dreqTx = k.tx # k.txDepth, !.dreqRx = k.rx # 0]
updateDMA(s, m) == [s EXCEPT !.sm[m] = Requested(@)]

\* Faulty variant: the request that a full or empty FIFO no longer makes stays.
Pulled0(s, m) == checkInterrupts([s EXCEPT !.sm[m].tx = @ - 1], Owner[m])

\* A machine takes a word or gives one.
Pulled(s, m) == checkInterrupts(updateDMA([s EXCEPT !.sm[m].tx = @ - 1], m), Owner[m])
Pushed(s, m) == checkInterrupts(updateDMA([s EXCEPT !.sm[m].rx = @ + 1], m), Owner[m])

TxEmpty(s, m) == s.sm[m].tx = 0
RxFull(s, m) == s.sm[m].rx = s.sm[m].rxDepth

-----------------------------------------------------------------------------
(* Stalls. *)

wait(s, m, type, for) ==
  [s EXCEPT !.sm[m].wait = type, !.sm[m].for = for, !.sm[m].waitDelay = -1]

Min2(a, b) == IF a < b THEN a ELSE b

\* What OUT gives away goes to the program counter, is executed, or is data.
Give(s, m, i) ==
  CASE i.dest = "pc" -> [s EXCEPT !.sm[m].next = i.arg]
    [] i.dest = "exec" -> [s EXCEPT !.sm[m].exec = i.arg]
    [] i.dest = "isr" -> [s EXCEPT !.sm[m].isr = IF i.op = "out" THEN i.bits ELSE 0]
    [] i.dest = "osr" -> [s EXCEPT !.sm[m].osr = 0]
    [] OTHER -> s

outInstruction(s, m, i) == [Give(s, m, i) EXCEPT !.sm[m].osr = Min2(Full, @ + i.bits)]

\* The machine goes on, with the delay of the instruction it has stalled in.
Resumed(s, m) == [s EXCEPT !.sm[m].wait = "none"]
Delayed(s, m) ==
  [s EXCEPT !.sm[m] = [@ EXCEPT !.delay = @ + s.sm[m].waitDelay, !.stalled = FALSE]]

RECURSIVE irqUpdated(_, _), checkWait(_, _)

\* Waiting for a flag consumes it, and tells the other block if it is theirs.
WaitIRQ(s, m) ==
  LET w == s.sm[m].for
      have == w.flag \in s.irq[w.pio]
      t == [Resumed(s, m) EXCEPT !.irq[w.pio] = @ \ {w.flag}]
  IN IF have # w.polarity THEN s
     ELSE Delayed(IF w.pio = Owner[m] THEN t ELSE irqUpdated(t, w.pio), m)

\* Faulty variant: the word is pushed and the machine goes on waiting to push it.
checkWaitTwice(s, m) ==
  LET k == s.sm[m]
  IN CASE k.wait = "irq" -> WaitIRQ(s, m)
       [] k.wait = "pin" /\ s.pin = k.for.polarity -> Delayed(Resumed(s, m), m)
       [] k.wait = "rx" /\ ~RxFull(s, m) -> Delayed(Pushed(s, m), m)
       [] k.wait = "tx" /\ ~TxEmpty(s, m) -> Delayed(Pulled(Resumed(s, m), m), m)
       [] k.wait = "out" /\ ~TxEmpty(s, m) ->
            Delayed(Pulled(outInstruction(Resumed(s, m), m, k.for), m), m)
       [] OTHER -> s

checkWait(s, m) ==
  LET k == s.sm[m]
  IN CASE k.wait = "irq" -> WaitIRQ(s, m)
       [] k.wait = "pin" /\ s.pin = k.for.polarity -> Delayed(Resumed(s, m), m)
       [] k.wait = "rx" /\ ~RxFull(s, m) -> Delayed(Pushed(Resumed(s, m), m), m)
       [] k.wait = "tx" /\ ~TxEmpty(s, m) -> Delayed(Pulled(Resumed(s, m), m), m)
       [] k.wait = "out" /\ ~TxEmpty(s, m) ->
            Delayed(Pulled(outInstruction(Resumed(s, m), m, k.for), m), m)
       [] OTHER -> s

\* Faulty variant: the machines are asked, the lines are left.
irqUpdatedSilent(s, q) == FoldLeft(checkWait, s, Machines[q])

\* A changed flag is offered to the machines of its own block, running or not.
irqUpdated(s, q) == checkInterrupts(FoldLeft(checkWait, s, Machines[q]), q)

-----------------------------------------------------------------------------
(* Instructions.  `taken` decides the conditions of JMP that depend on data. *)

IN_(s, m, i) ==
  LET count == Min2(Full, s.sm[m].isr + i.bits)
      pushes == Threshold[m].auto /\ count >= Threshold[m].at
      t == [s EXCEPT !.sm[m].isr = IF pushes THEN 0 ELSE count]
  IN IF ~pushes THEN t
     ELSE IF RxFull(t, m) THEN wait(t, m, "rx", None) ELSE Pushed(t, m)

OUT(s, m, i) ==
  LET pulls == Threshold[m].auto /\ s.sm[m].osr >= Threshold[m].at
      t == IF ~pulls THEN s
           ELSE LET u == [s EXCEPT !.sm[m].osr = 0]
                IN IF TxEmpty(u, m) THEN wait(u, m, "out", i) ELSE Pulled(u, m)
  IN IF t.sm[m].wait = "none" THEN outInstruction(t, m, i) ELSE t

PULL(s, m, i) ==
  IF i.if /\ Threshold[m].auto /\ s.sm[m].osr < Threshold[m].at THEN s
  ELSE LET t == CASE ~TxEmpty(s, m) -> Pulled(s, m)
                  [] TxEmpty(s, m) /\ i.block -> wait(s, m, "tx", None)
                  [] OTHER -> s
       IN [t EXCEPT !.sm[m].osr = 0]

PUSH(s, m, i) ==
  IF i.if /\ Threshold[m].auto /\ s.sm[m].isr < Threshold[m].at THEN s
  ELSE LET t == CASE ~RxFull(s, m) -> Pushed(s, m)
                  [] RxFull(s, m) /\ i.block -> wait(s, m, "rx", None)
                  [] OTHER -> s
       IN [t EXCEPT !.sm[m].isr = 0]

IRQ(s, m, i) ==
  LET t == [s EXCEPT !.irq[i.pio] = IF i.clear THEN @ \ {i.flag} ELSE @ \cup {i.flag}]
      u == irqUpdated(t, i.pio)
  IN IF i.wait /\ ~i.clear
       THEN wait(u, m, "irq", [polarity |-> FALSE, flag |-> i.flag, pio |-> i.pio])
       ELSE u

JMP(s, m, i, taken) ==
  IF CASE i.if = "always" -> TRUE
       [] i.if = "osre" -> s.sm[m].osr < Threshold[m].at
       [] OTHER -> taken
  THEN [s EXCEPT !.sm[m].next = i.arg] ELSE s

Executed(s, m, i, taken) ==
  CASE i.op = "jmp" -> JMP(s, m, i, taken)
    [] i.op = "wait" -> wait(s, m, i.on, [polarity |-> i.polarity, flag |-> i.flag, pio |-> i.pio])
    [] i.op = "in" -> IN_(s, m, i)
    [] i.op = "out" -> OUT(s, m, i)
    [] i.op = "pull" -> PULL(s, m, i)
    [] i.op = "push" -> PUSH(s, m, i)
    [] i.op = "mov" -> Give(s, m, i)
    [] i.op = "irq" -> IRQ(s, m, i)
    [] OTHER -> s

RECURSIVE executeInstruction(_, _, _, _)
executeInstruction(s, m, i, taken) ==
  Then(Executed(s, m, i, taken), LAMBDA t :
    LET k == t.sm[m]
    IN CASE k.exec # None ->
              executeInstruction([t EXCEPT !.sm[m].exec = None, !.sm[m].delay = @ + 1],
                                 m, k.exec, taken)
         [] k.exec = None /\ k.wait # "none" ->
              checkWait([t EXCEPT !.sm[m].waitDelay = IF @ < 0 THEN i.delay ELSE @], m)
         [] OTHER -> [t EXCEPT !.sm[m].delay = @ + i.delay])

\* The next instruction; WRAP_TOP is the end of the program, WRAP_BOTTOM its begin.
Fetch(s, m, taken) ==
  LET pc == s.sm[m].next
      top == Len(s.program[m])
  IN executeInstruction([s EXCEPT !.sm[m].next = IF pc = top THEN 1 ELSE pc + 1],
                        m, s.program[m][pc], taken)

Wait1(s, m) == [s EXCEPT !.sm[m].delay = @ - 1]

\* Faulty variant: a stalled machine sleeps until it is told.
stepUncheckedSleeps(s, m, taken) ==
  CASE s.sm[m].delay > 0 -> Wait1(s, m)
    [] s.sm[m].delay = 0 /\ s.sm[m].wait # "none" -> s
    [] OTHER -> Fetch(s, m, taken)

stepUnchecked(s, m, taken) ==
  IF s.sm[m].delay > 0 THEN Wait1(s, m)
  ELSE Then(checkWait(s, m), LAMBDA t :
         CASE t.sm[m].wait # "none" -> t
           [] t.sm[m].wait = "none" /\ t.sm[m].delay > 0 -> Wait1(t, m)
           [] OTHER -> Fetch(t, m, taken))

-----------------------------------------------------------------------------
(* The CPU's accesses, and the pin. *)

\* Faulty variant: the machine that is stalled for a word is not asked.
writeFIFOAlone(s, m) ==
  LET t == updateDMA([s EXCEPT !.sm[m].tx = @ + 1], m)
  IN IF s.sm[m].tx = s.sm[m].txDepth THEN s
     ELSE IF t.sm[m].tx = t.sm[m].txDepth THEN checkInterrupts(t, Owner[m]) ELSE t

\* TXF: a word for a full FIFO is dropped.
writeFIFO(s, m) ==
  LET t == checkWait(updateDMA([s EXCEPT !.sm[m].tx = @ + 1], m), m)
  IN IF s.sm[m].tx = s.sm[m].txDepth THEN s
     ELSE IF t.sm[m].tx = t.sm[m].txDepth THEN checkInterrupts(t, Owner[m]) ELSE t

readFIFO(s, m) ==
  LET t == checkWait(updateDMA([s EXCEPT !.sm[m].rx = @ - 1], m), m)
  IN IF s.sm[m].rx = 0 THEN s
     ELSE IF t.sm[m].rx = 0 THEN checkInterrupts(t, Owner[m]) ELSE t

restart(k) == [k EXCEPT !.delay = 0, !.isr = 0, !.osr = Full, !.wait = "none"]

WriteTXF(m) == pio' = writeFIFO(pio, m)
ReadRXF(m) == pio' = readFIFO(pio, m)

CTRL(v) ==
  pio' = [pio EXCEPT !.sm = [m \in Machine |->
    LET k == IF m \in v.restart THEN restart(@[m]) ELSE @[m]
        mine == Owner[m] = v.pio
    IN [k EXCEPT !.on = IF mine THEN m \in v.on ELSE (@ \/ m \in v.start) /\ m \notin v.stop]]]

\* FJOIN makes two new FIFOs, empty ones; the interrupts are not looked at.
SHIFTCTRL(m, join) ==
  LET tx == CASE join = "none" -> Depth [] join = "tx" -> 2 * Depth [] join = "rx" -> 0
      t == [pio EXCEPT !.sm[m].tx = 0, !.sm[m].rx = 0,
                       !.sm[m].txDepth = tx, !.sm[m].rxDepth = 2 * Depth - tx]
  IN pio' = IF tx = pio.sm[m].txDepth THEN pio ELSE updateDMA(t, m)

INSTR(m, i, taken) ==
  LET t == executeInstruction(pio, m, i, taken)
  IN /\ pio.sm[m].delay <= MaxDelay
     /\ pio' = [t EXCEPT !.sm[m].stalled = @ \/ t.sm[m].wait # "none"]

IRQ_REG(q, C) == pio' = irqUpdated([pio EXCEPT !.irq[q] = @ \ C], q)
IRQ_FORCE(q, C) == pio' = irqUpdated([pio EXCEPT !.irq[q] = @ \cup C], q)

INTE(l, C) == pio' = checkInterrupts([pio EXCEPT !.inte[l] = C], l[1])
INTF(l, C) == pio' = checkInterrupts([pio EXCEPT !.intf[l] = C], l[1])

\* A pin is offered to the running machines that wait for it.
PinChange ==
  LET waits == {m \in Machine : pio.sm[m].on /\ pio.sm[m].wait = "pin"}
  IN pio' = FoldLeft(LAMBDA s, m : IF m \in waits THEN checkWait(s, m) ELSE s,
                     [pio EXCEPT !.pin = ~@], SetToSeq(Machine))

Step(m) == /\ pio.sm[m].on
           /\ pio' \in {stepUnchecked(pio, m, taken) : taken \in BOOLEAN}

-----------------------------------------------------------------------------
CPU == \/ \E m \in Fed : WriteTXF(m)
       \/ \E m \in Machine : ReadRXF(m)
       \/ \E v \in Controls : CTRL(v)
       \/ \E m \in Machine : \E join \in Joins[m] : SHIFTCTRL(m, join)
       \/ \E m \in Machine : \E i \in Forced[m], taken \in BOOLEAN : INSTR(m, i, taken)
       \/ \E q \in Pios, C \in SUBSET Flags : IRQ_REG(q, C) \/ IRQ_FORCE(q, C)
       \/ \E l \in Lines, C \in Masks : INTE(l, C) \/ INTF(l, C)

Next == CPU \/ PinChange \/ \E m \in Machine : Step(m)

\* Every running machine is stepped again: stepPios goes through all of them in
\* each cycle, and a clock divider is finite.
Fairness == \A m \in Machine : WF_vars(Step(m))

Spec == Init /\ [][Next]_vars
FairSpec == Spec /\ Fairness

-----------------------------------------------------------------------------
(* Properties. *)

\* No machine sleeps on what it waits for: one that is stalled on its TX FIFO finds it
\* empty, one that is stalled on its RX FIFO finds it full (or fresh from a
\* join), one that waits for a flag of its block finds it clear: running or not,
\* whoever filled, drained or raised it.
NoMissedWakeUp ==
  \A m \in Machine :
    LET k == pio.sm[m]
    IN /\ k.wait \in {"tx", "out"} => k.tx = 0
       /\ k.wait = "rx" => k.rx \in {0, k.rxDepth}
       /\ k.wait = "irq" /\ k.for.polarity /\ k.for.pio = Owner[m]
            => k.for.flag \notin pio.irq[Owner[m]]

\* The DMA is asked for words exactly while there is room for them, and told of
\* words exactly while there are any, through stalls, joins and forced
\* instructions.
RequestsFollowFIFOs ==
  \A m \in Machine : /\ pio.sm[m].dreqTx = (pio.sm[m].tx # pio.sm[m].txDepth)
                     /\ pio.sm[m].dreqRx = (pio.sm[m].rx # 0)

\* No interrupt is lost: a step that brings a new cause raises the line, be it
\* a step of another machine or of another block.  (Only a join is not noticed.)
NewCauseRaises ==
  \A l \in Lines :
    \/ intStatus(pio, l)' \subseteq intStatus(pio, l)
    \/ pio'.line[l]
    \/ \E m \in ToSet(Machines[l[1]]) : pio'.sm[m].txDepth # pio.sm[m].txDepth

\* The word of a stalled PUSH or IN goes into the FIFO once: no step gets a word in
\* and leaves the machine in the stall it came from.
PushEndsStall ==
  \A m \in Machine : pio.sm[m].wait = "rx" /\ pio'.sm[m].wait = "rx"
                        => pio'.sm[m].rx <= pio.sm[m].rx

\* A running machine whose condition holds goes on, even if nobody tells it so:
\* a flag that another block lowers, or that a WAIT of its own block consumes.
Satisfied(m) ==
  LET k == pio.sm[m]
  IN k.on /\ \/ k.wait = "irq" /\ (k.for.flag \in pio.irq[k.for.pio]) = k.for.polarity
             \/ k.wait = "pin" /\ pio.pin = k.for.polarity
             \/ k.wait = "rx" /\ k.rx # k.rxDepth
StallsEnd == \A m \in Machine : Satisfied(m) ~> ~Satisfied(m)
=============================================================================
