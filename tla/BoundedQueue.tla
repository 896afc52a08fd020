----------------------------- MODULE BoundedQueue -----------------------------
(***************************************************************************)
(* What a hardware FIFO promises: values leave in the order in which they  *)
(* arrived, a value that arrives when Capacity values are waiting is lost, *)
(* and reading an empty FIFO yields Zero.                                  *)
(***************************************************************************)
EXTENDS Naturals, Sequences

CONSTANTS Value, Zero, Capacity

VARIABLES queue,    \* the values that wait, oldest first
          result    \* what the last read returned

vars == <<queue, result>>

Init == queue = <<>> /\ result = Zero

Push(v) == /\ Len(queue) < Capacity
           /\ queue' = Append(queue, v)
           /\ UNCHANGED result

Pull == /\ queue # <<>>
        /\ result' = Head(queue)
        /\ queue' = Tail(queue)

Peek == /\ queue # <<>>
        /\ result' = Head(queue)
        /\ UNCHANGED queue

ReadEmpty == /\ queue = <<>>
             /\ result' = Zero
             /\ UNCHANGED queue

Reset == /\ queue' = <<>>
         /\ UNCHANGED result

Next == (\E v \in Value : Push(v)) \/ Pull \/ Peek \/ ReadEmpty \/ Reset

Spec == Init /\ [][Next]_vars
===============================================================================
