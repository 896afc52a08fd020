--------------------------------- MODULE GPIO ---------------------------------
(***************************************************************************)
(* The pins (src/gpio-pin.ts) between the blocks that drive them (SIO,     *)
(* PWM, PIO), the registers that select and override (IO_BANK0, PADS) and  *)
(* the host that listens and drives inputs.  A pin tells its listeners     *)
(* when its value changes only if somebody calls checkForUpdates, and the  *)
(* interrupt of the bank is computed when somebody calls                   *)
(* updateIOInterrupt: every path has to.                                   *)
(***************************************************************************)
EXTENDS Integers, FiniteSets

CONSTANTS Pins,
          Overrides,      \* the override settings the firmware uses, of 0..3
          IrqOverrides,   \* and those for the interrupt
          Enables, Forces,\* interrupt enable and force settings it uses
          InterruptRegisters \* INTR, INTE and INTF reach the pins: on the RP2040 they
                             \* do, on the RP2350 no offset selects one of them

VARIABLE io
\* pin: the fields of CTRL, of the pad, and of GPIOPin; out, oe: what each block
\* drives; old: the PIO outputs at its last check; line: IO_IRQ_BANK0.

Functions == {"null", "pwm", "sio", "pio"}
Blocks == Functions \ {"null"}
Pulls == {"none", "up", "down"}

applyOverride(value, type) ==
  CASE type = 0 -> value [] type = 1 -> ~value [] type = 2 -> FALSE [] type = 3 -> TRUE

gpioRawOutputValue(s, p) == s.pin[p].function # "null" /\ p \in s.out[s.pin[p].function]
gpioRawOutputEnable(s, p) == s.pin[p].function # "null" /\ p \in s.oe[s.pin[p].function]

outputEnable(s, p) == applyOverride(gpioRawOutputEnable(s, p), s.pin[p].oeover)
outputValue(s, p) == applyOverride(gpioRawOutputValue(s, p), s.pin[p].outover)

\* With both pulls set the pin reads as pulled down; one setting stands for both.
Value(s, p) ==
  IF outputEnable(s, p) THEN IF outputValue(s, p) THEN "High" ELSE "Low"
  ELSE CASE s.pin[p].pull = "down" -> "InputPullDown"
         [] s.pin[p].pull = "up" -> "InputPullUp"
         [] OTHER -> "Input"

inputValue(s, p) == applyOverride(s.pin[p].raw /\ s.pin[p].ie, s.pin[p].inover)
rawInterrupt(pin) == (pin.status \intersect pin.enable) \union pin.force # {}
irqValue(pin) == applyOverride(rawInterrupt(pin), pin.irqover)

checkForUpdates(s, ps) ==
  [s EXCEPT !.pin = [p \in Pins |-> IF p \in ps THEN [@[p] EXCEPT !.last = Value(s, p)] ELSE @[p]]]

updateIOInterrupt(s) == [s EXCEPT !.line = \E p \in Pins : irqValue(s.pin[p])]

\* The level follows the call, and an edge is set by every call, also one that
\* does not change the level.
SetStatus(pin, value) ==
  IF value /\ pin.ie
  THEN [pin EXCEPT !.raw = value, !.status = (@ \union {"EdgeHigh", "LevelHigh"}) \ {"LevelLow"}]
  ELSE [pin EXCEPT !.raw = value, !.status = (@ \union {"EdgeLow", "LevelLow"}) \ {"LevelHigh"}]

\* An input change that recomputes the interrupt only when it raises the pin's.
SetInputWhenRaised(s, p, value) ==
  LET t == [s EXCEPT !.pin[p] = SetStatus(@, value)]
  IN  IF irqValue(t.pin[p]) THEN updateIOInterrupt(t) ELSE t

setInputValue(s, p, value) ==
  LET t == [s EXCEPT !.pin[p] = SetStatus(@, value)]
  IN  IF irqValue(t.pin[p]) # irqValue(s.pin[p]) THEN updateIOInterrupt(t) ELSE t

refreshInput(s, p) == setInputValue(s, p, s.pin[p].raw)

Init == io = [pin |-> [p \in Pins |->
                [function |-> "null", outover |-> 0, oeover |-> 0, inover |-> 0, irqover |-> 0,
                 ie |-> FALSE, pull |-> "down", raw |-> FALSE, last |-> "Input",
                 status |-> {}, enable |-> {}, force |-> {}]],
              out |-> [b \in Blocks |-> {}],
              oe |-> [b \in Blocks |-> IF b = "pwm" THEN Pins ELSE {}],
              old |-> [out |-> {}, oe |-> {}],
              line |-> FALSE]

(***************************************************************************)
(* The registers                                                           *)
(***************************************************************************)
Write(current, op, mask) ==
  CASE op = "set" -> current \union mask
    [] op = "clr" -> current \ mask
    [] op = "xor" -> (current \ mask) \union (mask \ current)
    [] op = "put" -> mask

Changed(a, b) == (a \ b) \union (b \ a)

\* The pins a write to SIO has to tell: those whose value or direction changed.
pinsToUpdate(s, t) == Changed(s.out["sio"], t.out["sio"]) \union Changed(s.oe["sio"], t.oe["sio"])

WriteSIO(reg, op, mask) ==
  LET t == IF reg = "GPIO_OUT" THEN [io EXCEPT !.out["sio"] = Write(@, op, mask)]
                               ELSE [io EXCEPT !.oe["sio"] = Write(@, op, mask)]
  IN  io' = checkForUpdates(t, pinsToUpdate(io, t))

\* CTRL does not recompute the interrupt: a new irq override shows later.
WriteCTRL(p, function, outover, oeover, inover, irqover) ==
  io' = checkForUpdates([io EXCEPT !.pin[p] = [@ EXCEPT !.function = function, !.outover = outover,
                           !.oeover = oeover, !.inover = inover, !.irqover = irqover]], {p})

WritePAD(p, ie, pull) ==
  LET t == checkForUpdates([io EXCEPT !.pin[p] = [@ EXCEPT !.ie = ie, !.pull = pull]], {p})
  IN  io' = IF ie # io.pin[p].ie THEN refreshInput(t, p) ELSE t

\* A register of eight pins is written at once.
WriteINTE(enable) ==
  /\ InterruptRegisters
  /\ LET t == [io EXCEPT !.pin = [p \in Pins |-> [@[p] EXCEPT !.enable = enable[p]]]]
     IN  io' = IF \E p \in Pins : enable[p] # io.pin[p].enable THEN updateIOInterrupt(t) ELSE t

WriteINTF(force) ==
  /\ InterruptRegisters
  /\ LET t == [io EXCEPT !.pin = [p \in Pins |-> [@[p] EXCEPT !.force = force[p]]]]
     IN  io' = IF \E p \in Pins : force[p] # io.pin[p].force THEN updateIOInterrupt(t) ELSE t

\* INTR clears the edges that are written, not the levels.
updateIRQValue(s, p, bits) ==
  LET cleared == bits \intersect s.pin[p].status \intersect {"EdgeLow", "EdgeHigh"}
  IN  IF cleared = {} THEN s ELSE updateIOInterrupt([s EXCEPT !.pin[p].status = @ \ cleared])

WriteINTR(p, bits) == InterruptRegisters /\ io' = updateIRQValue(io, p, bits)

(***************************************************************************)
(* The other blocks and the host                                           *)
(***************************************************************************)

\* gpioSet and gpioSetDir of the PWM.
PWMOutput(p, value, output) ==
  LET t == [io EXCEPT !.out["pwm"] = IF value THEN @ \union {p} ELSE @ \ {p},
                      !.oe["pwm"] = IF output THEN @ \union {p} ELSE @ \ {p}]
  IN  io' = IF t.out # io.out \/ t.oe # io.oe THEN checkForUpdates(t, {p}) ELSE t

\* The pins of the PIO change while its machines run a cycle, and are compared
\* with the last check at its end.  (What the program makes a machine execute by
\* SMx_INSTR while none runs is compared when one runs again, if it still differs.)
checkChangedPins(s) ==
  checkForUpdates([s EXCEPT !.old = [out |-> s.out["pio"], oe |-> s.oe["pio"]]],
                  Changed(s.old.out, s.out["pio"]) \union Changed(s.old.oe, s.oe["pio"]))

PIOStep(out, oe) ==
  io' = checkChangedPins([io EXCEPT !.out["pio"] = out, !.oe["pio"] = oe])

SetInput(p, value) == io' = setInputValue(io, p, value)

(***************************************************************************)
(* Properties                                                              *)
(***************************************************************************)

\* The listeners of a pin (a logic analyser, an LED, another device) know its value:
\* whichever block, override, function or pad changed it, it was told
\* (checkForUpdates).  The value at the start is not reported.
ListenersTold ==
  \A p \in Pins : \/ io.pin[p].last = Value(io, p)
                  \/ io.pin[p].last = "Input" /\ Value(io, p) = "InputPullDown"

\* IO_IRQ_BANK0 is up exactly while some pin has an enabled or forced cause,
\* whether an input, a pad, an acknowledgement or an enable changed it
\* (updateIOInterrupt).
BankLineFollowsPins == io.line <=> \E p \in Pins : irqValue(io.pin[p])

\* A pin whose two levels are both set would interrupt for ever.
LevelsExclude == \A p \in Pins : ~({"LevelHigh", "LevelLow"} \subseteq io.pin[p].status)
=============================================================================
