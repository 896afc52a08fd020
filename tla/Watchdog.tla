------------------------------- MODULE Watchdog -------------------------------
(***************************************************************************)
(* The watchdog (peripherals/watchdog.ts): a down-counter whose alarm at 0 *)
(* resets the chip through the handler rp2350.ts installs, which resets    *)
(* the watchdog itself.                                                    *)
(***************************************************************************)
EXTENDS Timer32

CONSTANTS Loads, TimeMask                       \* plays 0xffffff, TIME_MASK

VARIABLE watchdog

Init ==
  watchdog = [timer |-> [base |-> 0, age |-> 0, top |-> TimeMask, pre |-> 2, mode |-> "Decrement",
                         on |-> FALSE,
                         alarms |-> [a \in {"bite"} |-> [target |-> 0, on |-> FALSE, due |-> Unscheduled]]],
              enable |-> FALSE, tickEnable |-> TRUE, reason |-> "none",
              load |-> 0, ran |-> 0, paused |-> FALSE]  \* history: since the last LOAD

\* The handler resets the cores and the PWM (not shown), then the watchdog.
reset(w) ==
  [w EXCEPT !.enable = FALSE, !.tickEnable = TRUE, !.reason = "none",
            !.timer = setAlarmEnable(set(setEnable(@, FALSE), 0), "bite", FALSE),
            !.load = 0, !.ran = 0, !.paused = FALSE]
onWatchdogTrigger(w) == reset(w)

SetRunning(w) ==
  LET on == w.enable /\ w.tickEnable
  IN  [w EXCEPT !.timer = setAlarmEnable(setEnable(@, on), "bite", on),
                !.paused = @ \/ (w.timer.on /\ ~on)]

\* TRIGGER resets the watchdog before the same write's ENABLE starts it.
WriteCTRL(trigger, enable) ==
  LET w == IF trigger THEN onWatchdogTrigger([watchdog EXCEPT !.reason = "FORCE"]) ELSE watchdog
  IN  watchdog' = SetRunning([w EXCEPT !.enable = enable])

\* Mutant: a LOAD does not reschedule the alarm.
LoadWithoutReschedule(v) ==
  watchdog' = [watchdog EXCEPT !.timer = [@ EXCEPT !.base = v, !.age = 0],
                               !.load = v, !.ran = 0, !.paused = FALSE]

WriteLOAD(v) ==
  watchdog' = [watchdog EXCEPT !.timer = set(@, v), !.load = v, !.ran = 0, !.paused = FALSE]

WriteTICK(enable) == watchdog' = SetRunning([watchdog EXCEPT !.tickEnable = enable])

fire ==
  /\ Fires(watchdog.timer, "bite")
  /\ LET w == onWatchdogTrigger([watchdog EXCEPT !.timer = Unlink(@, "bite"), !.reason = "TIMER"])
     IN  watchdog' = [w EXCEPT !.timer = Refire(@, "bite")]

Tick ==
  /\ Quiet(watchdog.timer)
  /\ watchdog' = [watchdog EXCEPT !.timer = Elapse(@),
                                  !.ran = IF watchdog.timer.on THEN @ + 1 ELSE @]

Write ==
  /\ Quiet(watchdog.timer)
  /\ \/ \E trigger, enable \in BOOLEAN : WriteCTRL(trigger, enable)
     \/ \E v \in Loads : WriteLOAD(v)
     \/ \E enable \in BOOLEAN : WriteTICK(enable)

Next == Write \/ fire \/ Tick

-----------------------------------------------------------------------------
\* A running watchdog bites when it has run for the value of the last LOAD, a
\* full period when that is 0; pausing it never makes it bite earlier, and it
\* bites at most half a count later for every pause (LOAD, CTRL and TICK writes,
\* the disabled timer's rounded count, and the alarm's rescheduling).
WatchdogCountsDown ==
  LET w == watchdog
      whole == (IF w.load = 0 THEN TimeMask + 1 ELSE w.load) * w.timer.pre
      due == w.timer.alarms["bite"].due
  IN  /\ (due # Unscheduled) = (w.enable /\ w.tickEnable)
      /\ due # Unscheduled => due + w.ran >= whole /\ (w.paused \/ due + w.ran = whole)
=============================================================================
