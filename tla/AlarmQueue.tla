------------------------------ MODULE AlarmQueue ------------------------------
(***************************************************************************)
(* What a simulated clock promises to the peripherals that create alarms   *)
(* on it: an alarm is due at one instant or not at all, it fires exactly   *)
(* when the time equals that instant, never before an alarm that is due    *)
(* earlier, and the time does not pass an instant at which an alarm is due *)
(* without that alarm having fired.  Two alarms that are due at the same   *)
(* instant fire in either order.                                           *)
(***************************************************************************)
EXTENDS Naturals

CONSTANTS Alarm,   \* the alarms
          Never    \* not a time: the due time of an alarm that is not pending

VARIABLES now,     \* simulated time, in nanoseconds
          due      \* due[a]: the instant at which a fires, or Never

vars == <<now, due>>

Pending(a) == due[a] # Never

Init == /\ now = 0
        /\ due = [a \in Alarm |-> Never]

\* (Re)arm a: an earlier request for the same alarm is forgotten.
Arm(a) == /\ due'[a] \in Nat
          /\ due'[a] >= now
          /\ due' = [due EXCEPT ![a] = due'[a]]
          /\ UNCHANGED now

Disarm(a) == /\ due' = [due EXCEPT ![a] = Never]
             /\ UNCHANGED now

\* The time jumps to the due time of a most urgent alarm, which fires.
Fire(a) == /\ Pending(a)
           /\ \A b \in Alarm : Pending(b) => due[a] <= due[b]
           /\ now' = due[a]
           /\ due' = [due EXCEPT ![a] = Never]

\* The time moves on; nothing is due up to and including the new time.
Advance == /\ now' \in Nat
           /\ now' >= now
           /\ \A b \in Alarm : Pending(b) => due[b] > now'
           /\ UNCHANGED due

Next == \/ \E a \in Alarm : Arm(a) \/ Disarm(a) \/ Fire(a)
        \/ Advance

Spec == Init /\ [][Next]_vars
===============================================================================
