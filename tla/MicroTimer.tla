------------------------------ MODULE MicroTimer ------------------------------
(***************************************************************************)
(* The microsecond timer (peripherals/timer.ts): four alarms of 32 bits    *)
(* against a time of 64.  Time is in thirds of a microsecond, a clock that *)
(* does not tick in whole ones; TIMELR shows its microseconds modulo Wrap. *)
(***************************************************************************)
EXTENDS Integers

CONSTANTS Alarms, Wrap, MaxTime

VARIABLE microTimer

Unscheduled == -1

Init ==
  microTimer = [now |-> 0,
                alarms |-> [a \in Alarms |-> [armed |-> FALSE, target |-> 0, due |-> Unscheduled,
                                              set |-> 0]],  \* history: when it was last written
                intRaw |-> {}, intEnable |-> {}, intForce |-> {}, lines |-> {}]

\* time >>> 0
Shows(t) == (t \div 3) % Wrap

\* Mutant: a target in the past is due at once.
PastIsNow(v, t) == IF 3 * v >= t THEN (3 * v - t) \div 3 ELSE 0

\* (value - time) >>> 0: a negative fraction is cut toward zero.
DeltaMicros(v, t) ==
  (IF 3 * v >= t THEN (3 * v - t) \div 3 ELSE -((t - 3 * v) \div 3)) % Wrap

intStatus(m) == (m.intRaw \cap m.intEnable) \cup m.intForce
checkInterrupts(m) == [m EXCEPT !.lines = intStatus(m)]
disarmAlarm(m, a) == [m EXCEPT !.alarms[a].due = Unscheduled, !.alarms[a].armed = FALSE]

WriteALARM(a, v) ==
  microTimer' = [microTimer EXCEPT !.alarms[a] =
                   [armed |-> TRUE, target |-> v, set |-> microTimer.now,
                    due |-> microTimer.now + 3 * DeltaMicros(v, microTimer.now)]]
WriteARMED(s) ==
  microTimer' = [microTimer EXCEPT !.alarms = [a \in Alarms |->
                   IF a \in s THEN disarmAlarm(microTimer, a).alarms[a] ELSE @[a]]]
WriteINTR(s) == microTimer' = checkInterrupts([microTimer EXCEPT !.intRaw = @ \ s])
WriteINTE(s) == microTimer' = checkInterrupts([microTimer EXCEPT !.intEnable = s])
WriteINTF(s) == microTimer' = checkInterrupts([microTimer EXCEPT !.intForce = s])

Overdue(a) == microTimer.alarms[a].due = microTimer.now
fireAlarm(a) ==
  /\ Overdue(a)
  /\ microTimer' = checkInterrupts([disarmAlarm(microTimer, a) EXCEPT !.intRaw = @ \cup {a}])

\* The target just written may be due at once: the clock fires it when next
\* it ticks, before any time passes.
Tick ==
  /\ \A a \in Alarms : ~Overdue(a)
  /\ microTimer.now < MaxTime                   \* bound
  /\ microTimer' = [microTimer EXCEPT !.now = @ + 1]

Write ==
  \/ \E a \in Alarms, v \in 0 .. Wrap - 1 : WriteALARM(a, v)
  \/ \E s \in SUBSET Alarms : WriteARMED(s) \/ WriteINTR(s) \/ WriteINTE(s) \/ WriteINTF(s)

Next == Write \/ (\E a \in Alarms : fireAlarm(a)) \/ Tick

-----------------------------------------------------------------------------
\* An alarm is armed exactly while it is scheduled, is never overdue, and fires
\* when the time shown is its target or, as the delay loses its fraction, up to
\* one microsecond before; in no earlier microsecond since it was written did the
\* time show the target, but for the one it was written in (ALARMn writes, whose
\* delay is a 32-bit difference against a fractional time).
AlarmsPrompt ==
  \A a \in Alarms :
    LET alarm == microTimer.alarms[a]
    IN  /\ alarm.armed = (alarm.due # Unscheduled)
        /\ alarm.armed =>
             /\ alarm.due >= microTimer.now
             /\ alarm.target \in {Shows(alarm.due), Shows(alarm.due + 3)}
             /\ \A t \in alarm.set .. alarm.due - 1 :
                  Shows(t) = alarm.target => t \div 3 \in {alarm.set \div 3, alarm.due \div 3}
=============================================================================
