----------------------------- MODULE MachineTimer -----------------------------
(***************************************************************************)
(* The RISC-V machine timer of the SIO (sio_rp2350.ts): one counter and a  *)
(* comparator with an interrupt per core.                                  *)
(***************************************************************************)
EXTENDS Timer32

CONSTANT Core

VARIABLE mtime

Init ==
  mtime = [timer |-> [base |-> 0, age |-> 0, top |-> Full, pre |-> 1, mode |-> "Increment",
                      on |-> TRUE,
                      alarms |-> [c \in Core |-> [target |-> Full, on |-> TRUE, due |-> Full]]],
           irq |-> [c \in Core |-> FALSE]]

WriteMTIME_CTRL(en) == mtime' = [mtime EXCEPT !.timer = setEnable(@, en)]
WriteMTIME(v) == mtime' = [mtime EXCEPT !.timer = set(@, v)]

\* The interrupt is cleared even when the count is at the new target already.
WriteMTIMECMP(c, v) ==
  mtime' = [mtime EXCEPT !.irq[c] = FALSE, !.timer = setTarget(@, c, v)]

fire(c) ==
  /\ Fires(mtime.timer, c)
  /\ mtime' = [mtime EXCEPT !.irq[c] = TRUE, !.timer = Refire(Unlink(@, c), c)]

Tick == Quiet(mtime.timer) /\ mtime' = [mtime EXCEPT !.timer = Elapse(@)]

Write ==
  /\ Quiet(mtime.timer)
  /\ \/ \E en \in BOOLEAN : WriteMTIME_CTRL(en)
     \/ \E v \in 0 .. Full : WriteMTIME(v)
     \/ \E c \in Core, v \in 0 .. Full : WriteMTIMECMP(c, v)

Next == Write \/ (\E c \in Core : fire(c)) \/ Tick
=============================================================================
