--------------------------------- MODULE DMA ---------------------------------
(***************************************************************************)
(* The DMA controllers of the RP2350 (peripherals/dma_rp2350.ts) and of    *)
(* the RP2040 (peripherals/dma.ts): channels paced by requests of          *)
(* peripherals, by pacing timers or by nothing, chained to each other,     *)
(* each moving one item whenever its alarm fires.                          *)
(*                                                                         *)
(* The RP2040's is written like the RP2350's, without the modes of the     *)
(* count, with two interrupts, and with twelve channels for a field that   *)
(* can name sixteen.  At the end of a block it clears BUSY before the      *)
(* interrupt and the chained channel, which do not look at it.  (An access *)
(* to the first register past its last channel throws; it is left out.)    *)
(*                                                                         *)
(* The CPU writes registers between two ticks of the clock; alarms fire    *)
(* within a tick.  Addresses and data are left out, but not that the item  *)
(* a channel moves may land in a register of another channel (a control    *)
(* block) or in a FIFO whose request changes at once.  Operators take the  *)
(* state of the peripheral as a record s and return it changed.            *)
(***************************************************************************)
EXTENDS Integers

CONSTANTS ChannelCount, \* 16, and 12 on the RP2040
          Channels,     \* the channels in use, numbers below ChannelCount
          Irqs,         \* the interrupts in use, of the four
          Dreqs,        \* the requests of peripherals in use; 0 is one of them
          Timers,       \* the pacing timers in use, by their TREQ number
          Controls,     \* Controls[c]: what is written to the CTRL register of c
          Masks,        \* what is written to the INTE and INTF registers
          Counts,       \* Counts[c]: what is written to the TRANS_COUNT of c
          Modes,        \* its upper four bits: 0 normal, 1 retrigger, 15 endless
          Effects       \* Effects[c]: what an item that c moves does where it lands

Permanent == 63         \* TREQ.Permanent
Control == [EN : BOOLEAN, IRQ_QUIET : BOOLEAN,
            treq : Dreqs \cup Timers \cup {Permanent},
            chainTo : Channels \cup ChannelCount .. 15]

\* Writes that change more than an address.  "address" stands for the aliases
\* of READ_ADDR and WRITE_ADDR that trigger; zero is the null trigger.
Write(c) == [kind : {"control"}, value : Controls[c], trigger : BOOLEAN]
       \cup [kind : {"count"}, count : Counts[c], mode : Modes, trigger : BOOLEAN]
       \cup [kind : {"address"}, zero : BOOLEAN]

ASSUME DMAAssumption ==
  /\ ChannelCount \in 1 .. 16 /\ Channels \subseteq 0 .. ChannelCount - 1
  /\ 0 \in Dreqs /\ Dreqs \subseteq 0 .. 54 /\ Timers \subseteq 59 .. 62
  /\ Modes \subseteq 0 .. 15 /\ Masks \subseteq SUBSET Channels
  /\ \A c \in Channels :
       /\ Controls[c] \subseteq Control /\ Counts[c] \subseteq Nat
       /\ \A e \in Effects[c] :
            \/ e.kind = "memory"
            \/ e.kind \in {"raise", "lower"} /\ e.dreq \in Dreqs
            \/ e.kind = "register" /\ e.chan \in Channels \ {c} /\ e.write \in Write(e.chan)

VARIABLES dma,          \* the fields of the DMA object and of its channels
          ticking       \* the clock is inside tick()

vars == <<dma, ticking>>

NoMask == [i \in Irqs |-> {}]

Init == /\ dma = [chan |-> [c \in Channels |->
                     [EN |-> FALSE, BUSY |-> FALSE, IRQ_QUIET |-> FALSE, treq |-> 0,
                      chainTo |-> c, count |-> 0, reload |-> 0, mode |-> 0]],
                  due |-> {},            \* channels whose alarm is due now
                  later |-> {},          \* channels whose alarm is due later
                  dreq |-> {},           \* the requests that are asserted
                  timers |-> {},         \* the pacing timers that run
                  intRaw |-> {}, intEnable |-> NoMask, intForce |-> NoMask,
                  line |-> [i \in Irqs |-> FALSE]]
        /\ ticking = FALSE

Active(s, c) == s.chan[c].EN /\ s.chan[c].BUSY
Armed(s) == s.due \cup s.later
Granted(s, c) == s.chan[c].treq = Permanent \/ s.chan[c].treq \in s.dreq

intStatus(s, i) == (s.intRaw \cap s.intEnable[i]) \cup s.intForce[i]
checkInterrupts(s) == [s EXCEPT !.line = [i \in Irqs |-> intStatus(s, i) # {}]]
Raise(s, c) == checkInterrupts([s EXCEPT !.intRaw = @ \cup {c}])

-----------------------------------------------------------------------------
(* A channel. *)

Cancel(s, C) == [s EXCEPT !.due = @ \ C, !.later = @ \ C]

\* scheduleTransfer, of every channel in C: at once if the request is there,
\* after a period if a timer paces it, else when the request comes.
scheduleTransfer(s, C) ==
  LET now == {c \in C : Granted(s, c)}
      paced == {c \in C \ now : s.chan[c].treq \in s.timers}
  IN [s EXCEPT !.due = (@ \ paced) \cup now, !.later = (@ \ now) \cup paced]

Started(s, C) ==
  LET begun == [s EXCEPT !.chan = [c \in Channels |->
                  IF c \in C THEN [s.chan[c] EXCEPT !.BUSY = TRUE, !.count = s.chan[c].reload]
                             ELSE s.chan[c]]]
  IN scheduleTransfer(begun, {c \in C : s.chan[c].reload # 0})

\* A start of a channel that is disabled or busy is lost.
start(s, C) == Started(s, {c \in C : s.chan[c].EN /\ ~s.chan[c].BUSY})

\* Faulty variant: the alarm stays.
abortBusyOnly(s, C) ==
  [s EXCEPT !.chan = [c \in Channels |-> [s.chan[c] EXCEPT !.BUSY = @ /\ c \notin C]]]

abort(s, C) ==
  Cancel([s EXCEPT !.chan = [c \in Channels |-> [s.chan[c] EXCEPT !.BUSY = @ /\ c \notin C]]], C)

\* Faulty variant: a running channel keeps the alarm of its old request.
writeControlOnly(s, c, v) ==
  LET t == [s EXCEPT !.chan[c] = [@ EXCEPT !.EN = v.EN, !.IRQ_QUIET = v.IRQ_QUIET,
                                           !.treq = v.treq, !.chainTo = v.chainTo]]
  IN IF v.EN THEN t ELSE Cancel(t, {c})

\* BUSY is no part of the value: disabling a channel pauses it.
writeControl(s, c, v) ==
  LET t == [s EXCEPT !.chan[c] = [@ EXCEPT !.EN = v.EN, !.IRQ_QUIET = v.IRQ_QUIET,
                                           !.treq = v.treq, !.chainTo = v.chainTo]]
  IN IF Active(t, c) THEN scheduleTransfer(t, {c})
     ELSE IF ~v.EN THEN Cancel(t, {c}) ELSE t

\* Faulty variant: the interrupt of a null trigger waits for the next check.
triggerSilent(s, c, nonzero) ==
  IF nonzero THEN start(s, {c})
  ELSE IF s.chan[c].IRQ_QUIET THEN [s EXCEPT !.intRaw = @ \cup {c}] ELSE s

trigger(s, c, nonzero) ==
  IF nonzero THEN start(s, {c})
  ELSE IF s.chan[c].IRQ_QUIET THEN Raise(s, c) ELSE s

\* CTRL_TRIG written as 0 leaves EN and IRQ_QUIET clear: it triggers nothing,
\* as start does.
writeChannel(s, c, w) ==
  CASE w.kind = "control" ->
         LET t == writeControl(s, c, w.value) IN IF w.trigger THEN start(t, {c}) ELSE t
    [] w.kind = "count" ->
         LET t == [s EXCEPT !.chan[c] = [@ EXCEPT !.reload = w.count, !.mode = w.mode]]
         IN IF w.trigger THEN trigger(t, c, w.count # 0 \/ w.mode # 0) ELSE t
    [] w.kind = "address" -> trigger(s, c, ~w.zero)

\* Faulty variant: the request is recorded and nobody is woken.
setDREQOnly(s, d) == [s EXCEPT !.dreq = @ \cup {d}]

\* Only an edge wakes the channels that wait for the request.
setDREQ(s, d) ==
  IF d \in s.dreq THEN s
  ELSE LET t == [s EXCEPT !.dreq = @ \cup {d}]
       IN scheduleTransfer(t, {c \in Channels : s.chan[c].treq = d /\ Active(s, c)})

clearDREQ(s, d) == [s EXCEPT !.dreq = @ \ {d}]

\* The item is moved: the bus write is carried out before the channel goes on.
transfer(s, e) ==
  CASE e.kind = "memory" -> s
    [] e.kind = "raise" -> setDREQ(s, e.dreq)
    [] e.kind = "lower" -> clearDREQ(s, e.dreq)
    [] e.kind = "register" -> writeChannel(s, e.chan, e.write)

\* The interrupt and the chained channel, at the end of a block.  A channel that
\* is named but not there is not started.
Completed(s, c) ==
  LET k == s.chan[c]
      t == IF k.IRQ_QUIET THEN s ELSE Raise(s, c)
  IN IF k.chainTo = c \/ k.chainTo >= ChannelCount THEN t ELSE start(t, {k.chainTo})

Counted(s, c) == IF s.chan[c].mode = 15 THEN s ELSE [s EXCEPT !.chan[c].count = @ - 1]

\* Faulty variant: every block is followed by another.
advanceReloads(s, c) ==
  LET t == Counted(s, c)
  IN IF t.chan[c].count > 0 THEN scheduleTransfer(t, {c})
     ELSE scheduleTransfer([Completed(t, c) EXCEPT !.chan[c].count = t.chan[c].reload], {c})

\* Faulty variant: the next item is scheduled before it is known whether there is one.
advanceEarly(s, c) ==
  LET t == scheduleTransfer(Counted(s, c), {c})
  IN IF t.chan[c].count > 0 THEN t ELSE [Completed(t, c) EXCEPT !.chan[c].BUSY = FALSE]

\* What fire does after the transfer.
advance(s, c) ==
  LET t == Counted(s, c)
  IN IF t.chan[c].count > 0 THEN scheduleTransfer(t, {c})
     ELSE IF t.chan[c].mode = 1
       THEN scheduleTransfer([Completed(t, c) EXCEPT !.chan[c].count = t.chan[c].reload], {c})
       ELSE [Completed(t, c) EXCEPT !.chan[c].BUSY = FALSE]

-----------------------------------------------------------------------------
(* The CPU's writes, between two ticks. *)

WriteChannel(c, w) == /\ ~ticking /\ dma' = writeChannel(dma, c, w)
                      /\ UNCHANGED ticking

MULTI_CHAN_TRIGGER(C) == ~ticking /\ dma' = start(dma, C) /\ UNCHANGED ticking
CHAN_ABORT(C) == ~ticking /\ dma' = abort(dma, C) /\ UNCHANGED ticking

\* A timer runs unless its fraction is 0 or has no divisor.
WriteTIMER(q, runs) ==
  /\ ~ticking
  /\ dma' = [dma EXCEPT !.timers = IF runs THEN @ \cup {q} ELSE @ \ {q}]
  /\ UNCHANGED ticking

INTR(C) == /\ ~ticking
           /\ dma' = checkInterrupts([dma EXCEPT !.intRaw = @ \ C])
           /\ UNCHANGED ticking
INTE(i, C) == /\ ~ticking
              /\ dma' = checkInterrupts([dma EXCEPT !.intEnable[i] = C])
              /\ UNCHANGED ticking
INTF(i, C) == /\ ~ticking
              /\ dma' = checkInterrupts([dma EXCEPT !.intForce[i] = C])
              /\ UNCHANGED ticking

\* A peripheral's request, from a register access or from an alarm of its own.
Request(d) == /\ dma' = setDREQ(dma, d) \/ dma' = clearDREQ(dma, d)
              /\ UNCHANGED ticking

-----------------------------------------------------------------------------
(* A tick of the clock: alarms in the order of their time. *)

TickBegin == ~ticking /\ ticking' = TRUE /\ UNCHANGED dma

\* The access of a channel to the FIFO that paces it may use up the request,
\* never bring it.
Fire(c) ==
  /\ ticking /\ c \in dma.due
  /\ \E e \in Effects[c] :
       /\ ~(e.kind = "raise" /\ e.dreq = dma.chan[c].treq)
       /\ dma' = advance(transfer([dma EXCEPT !.due = @ \ {c}], e), c)
  /\ UNCHANGED ticking

\* The period of a pacing timer ends within this tick.
Elapse(c) == /\ ticking /\ dma.due = {} /\ c \in dma.later
             /\ dma' = [dma EXCEPT !.due = {c}, !.later = @ \ {c}]
             /\ UNCHANGED ticking

TickEnd == ticking /\ dma.due = {} /\ ticking' = FALSE /\ UNCHANGED dma

-----------------------------------------------------------------------------
CPUWrite ==
  \/ \E c \in Channels : \E w \in Write(c) : WriteChannel(c, w)
  \/ \E C \in SUBSET Channels : MULTI_CHAN_TRIGGER(C) \/ CHAN_ABORT(C) \/ INTR(C)
  \/ \E i \in Irqs, C \in Masks : INTE(i, C) \/ INTF(i, C)
  \/ \E q \in Timers, runs \in BOOLEAN : WriteTIMER(q, runs)

Progress == TickEnd \/ \E c \in Channels : Fire(c)

Next == \/ CPUWrite
        \/ \E d \in Dreqs : Request(d)
        \/ TickBegin
        \/ \E c \in Channels : Elapse(c)
        \/ Progress

\* The loop of tick() runs until nothing is due, and the chip ticks for ever.
\* Nothing is fair between two channels whose alarms are both due.
Fairness == WF_vars(Progress) /\ WF_vars(TickBegin)

Spec == Init /\ [][Next]_vars
FairSpec == Spec /\ Fairness

-----------------------------------------------------------------------------
(* Properties. *)

\* Ranges.  No channel counts below -1, and no alarm is in the list twice.
TypeOK ==
  /\ ticking \in BOOLEAN
  /\ \A c \in Channels :
       LET k == dma.chan[c]
       IN /\ [EN |-> k.EN, IRQ_QUIET |-> k.IRQ_QUIET,
              treq |-> k.treq, chainTo |-> k.chainTo] \in Control
          /\ k.BUSY \in BOOLEAN
          /\ k.count \in Nat \cup {-1} /\ k.reload \in Nat
          /\ k.mode \in Modes \cup {0}
  /\ Armed(dma) \subseteq Channels /\ dma.due \cap dma.later = {}
  /\ dma.dreq \subseteq Dreqs /\ dma.timers \subseteq Timers
  /\ dma.intRaw \subseteq Channels

\* No request is lost: a channel that is enabled and busy, has items to move
\* and has its request, is in the clock's list - however the request, the
\* control register and the trigger came in what order (setDREQ acts on edges).
NoLostRequest ==
  \A c \in Channels : Active(dma, c) /\ dma.chan[c].count # 0 /\ Granted(dma, c)
                        => c \in Armed(dma)

\* A channel that was paused, aborted or has completed moves no item: nothing
\* of it is left in the clock's list (writeUint32 of CTRL, abort, fire).
ArmedIsActive == \A c \in Armed(dma) : Active(dma, c)

\* The four lines to the cores are the masked and forced status, whichever of
\* the writes, blocks and null triggers changed it last.
LinesFollowStatus == \A i \in Irqs : dma.line[i] = (intStatus(dma, i) # {})

\* A block once begun is not begun again by a trigger, a chain or a rewrite of
\* its count: while a channel is busy its count goes down one at a time, and
\* up only when mode 1 retriggers it; while it is idle it stays.
CountsDown ==
  [][\A c \in Channels :
       LET k == dma.chan[c]
           n == dma'.chan[c].count
       IN n # k.count =>
            IF k.BUSY
              THEN n = k.count - 1 \/ (k.count <= 1 /\ k.mode = 1 /\ n = k.reload)
              ELSE dma'.chan[c].BUSY /\ n = dma'.chan[c].reload]_dma

\* tick() returns to the run loop.  Channels that chain in a circle or that
\* never end a block, without a request to wait for, keep it for ever.
TickReturns == ticking ~> ~ticking

\* A block with nothing to wait for is completed, unless the CPU takes away
\* what it runs on.
Unpaced(c) == /\ Active(dma, c) /\ dma.chan[c].treq = Permanent
              /\ dma.chan[c].count > 0 /\ dma.chan[c].mode = 0
BlocksComplete ==
  \A c \in Channels :
    Unpaced(c) ~> \/ ~Active(dma, c)
                  \/ dma.chan[c].treq # Permanent \/ dma.chan[c].mode # 0

=============================================================================
