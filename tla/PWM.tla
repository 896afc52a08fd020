--------------------------------- MODULE PWM ---------------------------------
(***************************************************************************)
(* One slice of the PWM (peripherals/pwm.ts): the counter, the alarm that  *)
(* lowers output A at its level, the alarm at the bottom, the registers    *)
(* that are double buffered until the wrap, and the B pin as a gate or a   *)
(* clock.  Left out: output B, output A's twin, the inverted polarities,   *)
(* and the wrap's interrupt and DMA request, which nothing withdraws.      *)
(***************************************************************************)
EXTENDS Timer32

CONSTANTS Levels, Tops, Prescalers,
          MaxTop,                               \* plays 0xffff
          DivModes
VARIABLE slice

None == -1

\* The slice after the chip's reset: nothing has been copied to the timer yet.
resetSlice ==
  [timer |-> [base |-> 0, age |-> 0, top |-> Full, pre |-> 1, mode |-> "Increment", on |-> FALSE,
              alarms |-> [a \in {"A", "Bottom"} |-> [target |-> 0, on |-> TRUE, due |-> Unscheduled]]],
   en |-> FALSE, phCorrect |-> FALSE, divMode |-> "FreeRunning",
   cc |-> 0, top |-> MaxTop,                    \* written, not yet in force: ccUpdated, topUpdated
   pin |-> FALSE, gate |-> FALSE, ticks |-> 0,
   phase |-> "unknown"]                         \* history: "synced" by a wrap, "skewed" when
                                                \* a running counter was advanced

Init == slice = resetSlice

-----------------------------------------------------------------------------
setA(s, v) == [s EXCEPT !.pin = v]

updateDoubleBuffered(s) ==
  LET t1 == IF s.cc # None THEN setTarget(s.timer, "A", s.cc) ELSE s.timer
  IN  [s EXCEPT !.timer = IF s.top # None THEN setTop(t1, s.top) ELSE t1, !.cc = None, !.top = None]

updateEnable(s) ==
  [s EXCEPT !.timer = setEnable(@, s.en /\ (s.divMode = "FreeRunning" \/ (s.divMode = "BGated" /\ s.gate)))]

Disturb(s) == [s EXCEPT !.phase = IF @ = "skewed" THEN @ ELSE "unknown"]

\* The advance by PH_ADV and PH_RET is not here: both bits are cleared first.
WriteCSR(en, ph, mode) ==
  LET s1 == IF en /\ ~slice.en THEN updateDoubleBuffered(slice) ELSE slice
      s2 == updateEnable([s1 EXCEPT !.en = en, !.phCorrect = ph, !.divMode = mode])
  IN  slice' = [Disturb(s2) EXCEPT !.timer = setMode(@, IF ph THEN "ZigZag" ELSE "Increment")]

\* A disabled slice counts from here on: see setPrescaler.
WriteDIV(p) == slice' = [slice EXCEPT !.timer = setPrescaler(@, p), !.phase = "unknown"]
WriteCTR(v) == slice' = [slice EXCEPT !.timer = set(@, v), !.phase = "unknown"]
WriteCC(v) == slice' = [slice EXCEPT !.cc = v]
WriteTOP(v) == slice' = [slice EXCEPT !.top = v]

\* The EN register, one bit of it
WriteEN(en) ==
  LET s == IF en /\ ~slice.en THEN updateDoubleBuffered(slice) ELSE slice
  IN  slice' = Disturb(updateEnable([s EXCEPT !.en = en]))

reset ==
  LET s1 == [slice EXCEPT !.en = FALSE, !.phCorrect = FALSE,
                          !.divMode = "FreeRunning",
                          !.cc = 0, !.top = MaxTop, !.phase = "unknown"]
      timer == setPrescaler(setMode(updateEnable(s1).timer, "Increment"), 1)
  IN  slice' = [s1 EXCEPT !.timer = setEnable(set(setEnable(set(timer, 0), FALSE), 0), FALSE)]

\* gpioOnInput and gpioBChanged: pin B is an output while running free.  Where
\* lastBValue is compared it is the pin's value before the change.
gpioBChanged ==
  LET edge == IF slice.gate THEN "BFallingEdge" ELSE "BRisingEdge"
      s1 == [slice EXCEPT !.gate = ~@, !.ticks = @ + (IF slice.divMode = edge THEN 1 ELSE 0)]
      s2 == IF slice.divMode = "BGated" THEN Disturb(updateEnable(s1)) ELSE s1
  IN  /\ slice.timer.base < Full                \* bound: an edge-clocked count never wraps
      /\ slice' = IF slice.divMode # "FreeRunning" /\ s2.ticks >= s2.timer.pre
                  THEN [s2 EXCEPT !.timer = advance(@, 1), !.ticks = @ - s2.timer.pre,
                                  !.phase = IF s2.timer.on THEN "skewed" ELSE @]
                  ELSE s2

-----------------------------------------------------------------------------
(* The alarms *)

LowerA ==
  /\ Fires(slice.timer, "A")
  /\ slice' = [setA(slice, FALSE) EXCEPT !.timer = Refire(Unlink(slice.timer, "A"), "A")]

\* Mutant: the pin is set before the buffered level is copied.
WrapSetsPinFirst ==
  /\ Fires(slice.timer, "Bottom")
  /\ LET s1 == [slice EXCEPT !.timer = Unlink(@, "Bottom")]
         s2 == IF slice.phCorrect THEN s1
               ELSE [setA(s1, s1.timer.alarms["A"].target > 0) EXCEPT !.phase = "synced"]
     IN  slice' = [updateDoubleBuffered(s2) EXCEPT !.timer = Refire(@, "Bottom")]

wrap ==
  /\ Fires(slice.timer, "Bottom")
  /\ LET s1 == [slice EXCEPT !.timer = Unlink(@, "Bottom")]
         s2 == updateDoubleBuffered(s1)
         s3 == IF slice.phCorrect THEN s2
               ELSE [setA(s2, s2.timer.alarms["A"].target > 0) EXCEPT
                       !.phase = IF @ = "skewed" THEN @ ELSE "synced"]
     IN  slice' = [s3 EXCEPT !.timer = Refire(@, "Bottom")]

Tick == Quiet(slice.timer) /\ slice' = [slice EXCEPT !.timer = Elapse(@)]

Write ==
  /\ Quiet(slice.timer)
  /\ \/ \E en, ph \in BOOLEAN, mode \in DivModes : WriteCSR(en, ph, mode)
     \/ \E p \in Prescalers : WriteDIV(p)
     \/ \E v \in Tops : WriteCTR(v) \/ WriteTOP(v)
     \/ \E v \in Levels : WriteCC(v)
     \/ \E en \in BOOLEAN : WriteEN(en)
     \/ reset
     \/ gpioBChanged

Next == Write \/ LowerA \/ wrap \/ Tick

-----------------------------------------------------------------------------
\* The count without the half a count by which Math.round runs ahead
WholeCount(t) == (t.base + t.age \div t.pre) % Modulo(t)

\* From the first wrap on, until the slice is reconfigured, output A is active
\* exactly while the count, whole or rounded, is below the level in force, whatever
\* is written to the double-buffered level and TOP meanwhile (wrap,
\* updateDoubleBuffered, the two alarms and their rescheduling).
OutputFollowsCounter ==
  slice.phase = "synced" /\ slice.timer.on /\ Quiet(slice.timer)
    => \E count \in {WholeCount(slice.timer), counter(slice.timer)} :
         slice.pin = (count < slice.timer.alarms["A"].target)
=============================================================================
