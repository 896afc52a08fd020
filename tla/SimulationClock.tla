--------------------------- MODULE SimulationClock ---------------------------
(***************************************************************************)
(* The simulated clock of the emulator (clock/simulation-clock.ts): a      *)
(* linked list of alarms ordered by due time, and tick(), which fires the  *)
(* alarms that the elapsed time makes due.                                 *)
(*                                                                         *)
(* The list is the sequence of the alarms reached from nextAlarm.  All of  *)
(* the program runs on one JavaScript thread, so schedule() and cancel()   *)
(* are atomic; they are called by the CPU's register writes between two    *)
(* ticks (phase "cpu") and by the alarm handlers that tick() calls (phase  *)
(* "fire"), which may arm or cancel any alarm, the one that fired          *)
(* included, before control returns to the loop in tick (phase "loop").    *)
(***************************************************************************)
EXTENDS Naturals, Sequences, SequencesExt

CONSTANTS Alarm,          \* the ClockAlarm objects made by createAlarm
          Delta,          \* deltas that register writes pass to schedule()
          HandlerDelta,   \* deltas that alarm handlers pass to schedule()
          TickDelta,      \* deltas that stepThings passes to tick()
          MaxNanos,       \* bound on the simulated time
          Never           \* not a time: the alarm is not linked

ASSUME ClockAssumption == /\ Delta \subseteq Nat
                          /\ HandlerDelta \subseteq Nat
                          /\ TickDelta \subseteq Nat
                          /\ MaxNanos \in Nat
                          /\ Never \notin Nat

VARIABLES list,           \* the alarms from nextAlarm on, in list order
          nanos,          \* nanos[a]: the field alarm.nanos
          scheduled,      \* scheduled[a]: the field alarm.scheduled
          nanosCounter,   \* the simulated time
          targetNanos,    \* the local of tick(), while it runs
          phase           \* who runs: "cpu", the "loop" of tick, a handler "fire"

vars == <<list, nanos, scheduled, nanosCounter, targetNanos, phase>>

Linked == Range(list)

Init == /\ list = <<>>
        /\ nanos = [a \in Alarm |-> 0]
        /\ scheduled = [a \in Alarm |-> FALSE]
        /\ nanosCounter = 0
        /\ targetNanos = 0
        /\ phase = "cpu"

-----------------------------------------------------------------------------
(* The list operations. *)

\* unlinkAlarm: the list s without its first item a, or s when a is not in it.
UnlinkAlarm(s, a) ==
  IF a \in Range(s) THEN RemoveAt(s, CHOOSE k \in DOMAIN s : s[k] = a) ELSE s

\* Faulty variant: every alarm is put in front.
LinkPointFront(s, k, t) == k = 1

\* linkAlarm walks over the items that are due strictly before t and stops
\* at k: the new alarm goes in front of those due at the same instant.
LinkPoint(s, k, t) == /\ \A i \in 1 .. (k - 1) : nanos[s[i]] < t
                      /\ k <= Len(s) => nanos[s[k]] >= t

LinkAlarm(s, a, t) ==
  /\ \E k \in 1 .. (Len(s) + 1) :
       LinkPoint(s, k, t) /\ list' = InsertAt(s, k, a)
  /\ nanos' = [nanos EXCEPT ![a] = t]
  /\ scheduled' = [scheduled EXCEPT ![a] = TRUE]

-----------------------------------------------------------------------------
(* The calls that register writes and alarm handlers make. *)

Deltas == IF phase = "cpu" THEN Delta ELSE HandlerDelta

\* ClockAlarm.schedule: the alarm leaves the list first if it is flagged.
Schedule(a, d) ==
  /\ phase \in {"cpu", "fire"}
  /\ nanosCounter + d < MaxNanos
  /\ LinkAlarm(IF scheduled[a] THEN UnlinkAlarm(list, a) ELSE list, a, nanosCounter + d)
  /\ UNCHANGED <<nanosCounter, targetNanos, phase>>

\* ClockAlarm.cancel
Cancel(a) ==
  /\ phase \in {"cpu", "fire"}
  /\ list' = UnlinkAlarm(list, a)
  /\ scheduled' = [scheduled EXCEPT ![a] = FALSE]
  /\ UNCHANGED <<nanos, nanosCounter, targetNanos, phase>>

-----------------------------------------------------------------------------
(* tick(deltaNanos), one action for each round of its loop. *)

TickBegin(d) ==
  /\ phase = "cpu"
  /\ nanosCounter + d <= MaxNanos
  /\ targetNanos' = nanosCounter + d
  /\ phase' = "loop"
  /\ UNCHANGED <<list, nanos, scheduled, nanosCounter>>

HeadIsDue == list # <<>> /\ nanos[Head(list)] <= targetNanos

\* Faulty variants: the handler sees the end of the tick as the time; the
\* head stays linked while its handler runs.
FireHeadLate ==
  /\ phase = "loop"
  /\ HeadIsDue
  /\ list' = Tail(list)
  /\ nanosCounter' = targetNanos
  /\ phase' = "fire"
  /\ UNCHANGED <<nanos, scheduled, targetNanos>>

FireHeadLinked ==
  /\ phase = "loop"
  /\ HeadIsDue
  /\ nanosCounter' = nanos[Head(list)]
  /\ phase' = "fire"
  /\ UNCHANGED <<list, nanos, scheduled, targetNanos>>

\* The head is unlinked (its scheduled flag stays set), the time becomes its
\* due time and its handler is entered.
FireHead ==
  /\ phase = "loop"
  /\ HeadIsDue
  /\ list' = Tail(list)
  /\ nanosCounter' = nanos[Head(list)]
  /\ phase' = "fire"
  /\ UNCHANGED <<nanos, scheduled, targetNanos>>

HandlerReturn ==
  /\ phase = "fire"
  /\ phase' = "loop"
  /\ UNCHANGED <<list, nanos, scheduled, nanosCounter, targetNanos>>

\* The handler throws (a full endpoint queue, an unaligned bus access): tick
\* is abandoned where it stands and the host goes on with a later step.
HandlerThrow ==
  /\ phase = "fire"
  /\ phase' = "cpu"
  /\ UNCHANGED <<list, nanos, scheduled, nanosCounter, targetNanos>>

\* Faulty variant: the tick may end before the due alarms have fired.
TickEndEarly ==
  /\ phase = "loop"
  /\ nanosCounter' = targetNanos
  /\ phase' = "cpu"
  /\ UNCHANGED <<list, nanos, scheduled, targetNanos>>

TickEnd ==
  /\ phase = "loop"
  /\ ~HeadIsDue
  /\ nanosCounter' = targetNanos
  /\ phase' = "cpu"
  /\ UNCHANGED <<list, nanos, scheduled, targetNanos>>

Tick == (\E d \in TickDelta : TickBegin(d)) \/ FireHead \/ HandlerReturn \/ TickEnd

Calls == \E a \in Alarm : Cancel(a) \/ \E d \in Deltas : Schedule(a, d)

Next == Calls \/ Tick \/ HandlerThrow

Spec == Init /\ [][Next]_vars

(***************************************************************************)
(* The execute loops call step() without end and tick() is sequential      *)
(* code, so the next step of tick() is always eventually taken; nothing    *)
(* forces a handler or the CPU to make a call.  Handlers do not throw here: *)
(* one that throws whenever it is armed again with delta 0 starves every   *)
(* alarm linked behind it.                                                 *)
(***************************************************************************)
FairSpec == Init /\ [][Calls \/ Tick]_vars /\ WF_vars(Tick)

-----------------------------------------------------------------------------
(* Properties. *)

TypeOK == /\ list \in Seq(Alarm)
          /\ nanos \in [Alarm -> Nat]
          /\ scheduled \in [Alarm -> BOOLEAN]
          /\ nanosCounter \in Nat
          /\ targetNanos \in Nat
          /\ phase \in {"cpu", "loop", "fire"}

\* The list is ordered by due time, whatever the handlers re-arm or cancel
\* while tick() is walking it: tick() looks at the head only.
ListOrdered ==
  \A i, j \in DOMAIN list : i < j => nanos[list[i]] <= nanos[list[j]]

\* No alarm is linked twice, which would leave a stale copy behind after a
\* cancel, and a linked alarm is always flagged: schedule() unlinks only
\* flagged alarms.
LinkedOnce == /\ \A i, j \in DOMAIN list : list[i] = list[j] => i = j
              /\ \A i \in DOMAIN list : scheduled[list[i]]

\* No linked alarm is in the past, not even after a handler threw and the
\* rest of its tick was lost, and tick() never overshoots its target.
NothingOverdue == /\ \A i \in DOMAIN list : nanosCounter <= nanos[list[i]]
                  /\ phase # "cpu" => nanosCounter <= targetNanos

\* Simulated time never runs backwards: peripherals subtract timestamps.
TimeNeverRunsBack == [][nanosCounter <= nanosCounter']_vars

(***************************************************************************)
(* The clock implements the promise in AlarmQueue.                         *)
(***************************************************************************)
Due == [a \in Alarm |-> IF a \in Linked THEN nanos[a] ELSE Never]

Queue == INSTANCE AlarmQueue WITH now <- nanosCounter, due <- Due

\* An alarm fires exactly at the instant its last schedule() asked for, in
\* order of due time, and tick() never steps over an alarm that is due.
AlarmsFireOnTime == Queue!Spec

\* Time goes on until the bound and every alarm that was linked gets to fire
\* or is cancelled, provided no handler re-arms with a delta of 0 for ever.
EveryAlarmLeaves == \A a \in Alarm : (a \in Linked) ~> (a \notin Linked)
===============================================================================
