------------------------------- MODULE Timer32 -------------------------------
(***************************************************************************)
(* Timer32 and Timer32PeriodicAlarm (utils/timer32.ts): a counter computed *)
(* from the clock, and alarms that fire when it reaches their target.      *)
(*                                                                         *)
(* A timer is a record: base the value at its origin, age the time since   *)
(* then (baseNanos, taken modulo the counter's period, which the value     *)
(* does not tell apart), top, pre (prescaler, in time units per count),    *)
(* mode, on, and alarms[a] with target, on and due, the time left until    *)
(* the clock fires it.  Full plays 0xffffffff.                             *)
(***************************************************************************)
EXTENDS Integers

CONSTANT Full

Unscheduled == -1                                     \* not scheduled
NotANumber == -2                                \* scheduled at now + NaN

MinOf(a, b) == IF a <= b THEN a ELSE b

\* topModulo; 0 divides nothing and makes every value NaN
Modulo(t) == IF t.mode = "ZigZag" THEN 2 * t.top ELSE t.top + 1

\* Math.round of base plus the ticks since the origin, a quotient by pre
rawCounter(t) ==
  LET m == Modulo(t)
      ticks == IF t.mode = "Decrement" THEN (m * t.pre) - (t.age % (m * t.pre)) ELSE t.age
      value == (2 * (t.base * t.pre + ticks) + t.pre) \div (2 * t.pre)
  IN  IF ~t.on THEN t.base
      ELSE IF m = 0 THEN NotANumber
      ELSE IF t.top # Full THEN value % m ELSE value

counter(t) ==
  LET raw == rawCounter(t)
  IN  IF raw = NotANumber THEN 0
      ELSE (IF t.mode = "ZigZag" /\ raw > t.top THEN 2 * t.top - raw ELSE raw) % (Full + 1)

\* schedule: counts until the counter next comes to the target
CycleDelta(t, target) ==
  LET raw == rawCounter(t)
      m == Modulo(t)
      ahead(x, n) == IF x % n = 0 THEN n ELSE x % n
  IN  IF t.mode = "ZigZag"
        THEN MinOf(ahead(target - raw, m), ahead(m - target - raw, m))
      ELSE LET delta == IF t.mode = "Decrement" THEN raw - target ELSE target - raw
           IN  IF t.top = Full THEN (IF delta % (Full + 1) = 0 THEN Full ELSE delta % (Full + 1))
               ELSE ahead(delta, m)

schedule(t, a) ==
  LET alarm == t.alarms[a]
      due == IF rawCounter(t) = NotANumber THEN NotANumber
             ELSE CycleDelta(t, alarm.target) * t.pre
  IN  IF alarm.target > t.top THEN t ELSE [t EXCEPT !.alarms[a].due = due]

cancel(t, a) == [t EXCEPT !.alarms[a].due = Unscheduled]
Reschedule(t, a) == LET u == cancel(t, a)
                    IN  IF t.alarms[a].on /\ t.on THEN schedule(u, a) ELSE u

\* updated: every alarm is cancelled and scheduled again.
updated(t) ==
  [t EXCEPT !.alarms = [a \in DOMAIN t.alarms |-> Reschedule(t, a).alarms[a]]]

-----------------------------------------------------------------------------
(* The setters *)

set(t, v) == updated([t EXCEPT !.base = v, !.age = 0])

setTop(t, v) ==
  LET u == [t EXCEPT !.top = v] IN set(u, IF counter(t) <= v THEN counter(t) ELSE 0)

\* The timer is enabled as the prescaler before this write was not 0: always.
setPrescaler(t, p) ==
  updated([t EXCEPT !.base = counter(t), !.age = 0, !.on = TRUE, !.pre = p])

setEnable(t, b) ==
  CASE b = t.on -> t
    [] b /\ ~t.on -> updated([t EXCEPT !.age = 0, !.on = TRUE])
    [] ~b /\ t.on -> updated([t EXCEPT !.base = counter(t), !.age = 0, !.on = FALSE])

setMode(t, m) == IF m = t.mode THEN t ELSE set([t EXCEPT !.mode = m], counter(t))

advance(t, n) == [t EXCEPT !.base = @ + n]

setAlarmEnable(t, a, b) ==
  LET u == [t EXCEPT !.alarms[a].on = b]
  IN  CASE b = t.alarms[a].on -> t
        [] b /\ ~t.alarms[a].on /\ t.on -> schedule(u, a)
        [] b # t.alarms[a].on /\ ~(b /\ t.on) -> cancel(u, a)

\* Mutant: a new target does not reschedule the alarm.
SetTargetLazily(t, a, v) == [t EXCEPT !.alarms[a].target = v]

setTarget(t, a, v) ==
  LET u == [t EXCEPT !.alarms[a].target = v]
  IN  IF v = t.alarms[a].target \/ ~(t.alarms[a].on /\ t.on) THEN u ELSE schedule(cancel(u, a), a)

\* The clock: one unit of time passes, and an alarm with no time left fires.
Fires(t, a) == t.alarms[a].due = 0
Quiet(t) == \A a \in DOMAIN t.alarms : ~Fires(t, a)
Unlink(t, a) == cancel(t, a)
Elapse(t) ==
  [t EXCEPT !.age = IF ~t.on \/ Modulo(t) = 0 THEN 0 ELSE (@ + 1) % (Modulo(t) * t.pre),
            !.alarms = [a \in DOMAIN t.alarms |->
                          [t.alarms[a] EXCEPT !.due = IF @ > 0 THEN @ - 1 ELSE @]]]
\* fire, after the callback
Refire(t, a) == IF t.alarms[a].on /\ t.on THEN schedule(t, a) ELSE t

-----------------------------------------------------------------------------
(* What an alarm promises *)

\* The counter d time units from now, if nothing is written meanwhile.
CounterAfter(t, d) ==
  counter([t EXCEPT !.age = IF ~t.on \/ Modulo(t) = 0 THEN 0 ELSE (@ + d) % (Modulo(t) * t.pre)])

\* Alarm a is due at the counter's next arrival at its target: it arrives just
\* once until then and is there, or is there already and has not left.  Two
\* cases differ: NaN, and the wrap of a 32-bit counter that stands at the target.
DueAtTarget(t, a) ==
  LET due == t.alarms[a].due
      at(d) == CounterAfter(t, d) = t.alarms[a].target
      arrivals == {d \in 1 .. due : at(d) /\ ~at(d - 1)}
  IN  \/ due = NotANumber /\ t.mode = "ZigZag" /\ t.top = 0
      \/ due # NotANumber
           /\ \/ at(due) /\ \E d \in arrivals : arrivals = {d}
              \/ \A d \in 0 .. due : at(d)
              \/ t.top = Full /\ arrivals = {} /\ CounterAfter(t, due + t.pre) = t.alarms[a].target

\* A running alarm whose target the counter can reach is due, and no other is.
AlarmsMeetCounter(t) ==
  \A a \in DOMAIN t.alarms :
    LET alarm == t.alarms[a]
    IN  IF t.on /\ alarm.on /\ alarm.target <= t.top
          THEN alarm.due # Unscheduled /\ DueAtTarget(t, a)
        ELSE alarm.due = Unscheduled
=============================================================================
