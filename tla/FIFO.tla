--------------------------------- MODULE FIFO ---------------------------------
(***************************************************************************)
(* The ring buffer behind every FIFO of the emulator (utils/fifo.ts): the  *)
(* inter-core mailboxes, the PIO and UART FIFOs.  A PIO FIFO whose storage *)
(* was joined to the other direction has capacity 0: it is both empty and  *)
(* full, and its index arithmetic is never reached.                        *)
(***************************************************************************)
EXTENDS Naturals, Sequences, SequenceTheorems, TLAPS

CONSTANTS Value,      \* the 32-bit values that are stored
          Zero,       \* the value 0
          Capacity    \* the size given to the constructor

ASSUME FIFOAssumption == Zero \in Value /\ Capacity \in Nat

VARIABLES buffer,     \* the typed array
          start,      \* index of the oldest value
          used,       \* how many values wait
          result      \* what the last pull() or peek() returned

vars == <<buffer, start, used, result>>

Slots == 0 .. (Capacity - 1)

Init == /\ buffer = [i \in Slots |-> Zero]
        /\ start = 0
        /\ used = 0
        /\ result = Zero

empty == used = 0
full == used = Capacity

\* Faulty variant: start left out of the index.
pushAtUsed(v) ==
  /\ IF used < Capacity
       THEN /\ buffer' = [buffer EXCEPT ![used % Capacity] = v]
            /\ used' = used + 1
       ELSE UNCHANGED <<buffer, used>>
  /\ UNCHANGED <<start, result>>

\* A value pushed into a full FIFO is dropped.
push(v) ==
  /\ IF used < Capacity
       THEN /\ buffer' = [buffer EXCEPT ![(start + used) % Capacity] = v]
            /\ used' = used + 1
       ELSE UNCHANGED <<buffer, used>>
  /\ UNCHANGED <<start, result>>

pull ==
  /\ IF ~empty
       THEN /\ start' = (start + 1) % Capacity
            /\ used' = used - 1
            /\ result' = buffer[start]
       ELSE /\ result' = Zero
            /\ UNCHANGED <<start, used>>
  /\ UNCHANGED buffer

peek ==
  /\ result' = IF empty THEN Zero ELSE buffer[start]
  /\ UNCHANGED <<buffer, start, used>>

\* The read index stays where it is.
reset ==
  /\ used' = 0
  /\ UNCHANGED <<buffer, start, result>>

Next == (\E v \in Value : push(v)) \/ pull \/ peek \/ reset

Spec == Init /\ [][Next]_vars

-----------------------------------------------------------------------------
(* Properties. *)

TypeOK == /\ buffer \in [Slots -> Value]
          /\ start \in Nat /\ (Capacity > 0 => start < Capacity)
          /\ used \in 0 .. Capacity
          /\ result \in Value

\* The getter `items`: the waiting values, oldest first.
items == [i \in 1 .. used |-> buffer[(start + (i - 1)) % Capacity]]

Queue == INSTANCE BoundedQueue WITH queue <- items

\* The index arithmetic never loses, reorders or overwrites a waiting value:
\* the ring buffer behaves like a queue that drops what arrives when full.
RingIsQueue == Queue!Spec

-----------------------------------------------------------------------------
(* The ring buffer implements the bounded queue, for every capacity, the   *)
(* degenerate capacity 0 of a joined PIO FIFO included.                    *)

\* The only modulo arithmetic the ring buffer does: one wrap around.
LEMMA Wrap ==
  ASSUME NEW n \in Nat \ {0}, NEW x \in 0 .. (2 * n - 1)
  PROVE  /\ x % n \in 0 .. (n - 1)
         /\ x < n => x % n = x
         /\ ~(x < n) => x % n = x - n
  OBVIOUS

\* The slot that holds the i-th waiting value.
Slot(i) == (start + (i - 1)) % Capacity

\* Different positions among Capacity consecutive ones have different slots.
LEMMA SlotFacts ==
  ASSUME TypeOK, NEW i \in 1 .. Capacity
  PROVE  /\ Slot(i) \in Slots
         /\ \A j \in 1 .. Capacity : Slot(i) = Slot(j) => i = j
         /\ i = 1 => Slot(i) = start
<1>1. Capacity \in Nat \ {0} /\ start \in 0 .. (Capacity - 1)
  BY FIFOAssumption DEF TypeOK
<1>2. \A j \in 1 .. Capacity : start + (j - 1) \in 0 .. (2 * Capacity - 1)
  BY <1>1
<1>3. \A j \in 1 .. Capacity :
        /\ Slot(j) \in 0 .. (Capacity - 1)
        /\ start + (j - 1) < Capacity => Slot(j) = start + (j - 1)
        /\ ~(start + (j - 1) < Capacity) => Slot(j) = (start + (j - 1)) - Capacity
  <2> SUFFICES ASSUME NEW j \in 1 .. Capacity
               PROVE  /\ Slot(j) \in 0 .. (Capacity - 1)
                      /\ start + (j - 1) < Capacity => Slot(j) = start + (j - 1)
                      /\ ~(start + (j - 1) < Capacity) =>
                           Slot(j) = (start + (j - 1)) - Capacity
    OBVIOUS
  <2>1. start + (j - 1) \in 0 .. (2 * Capacity - 1)
    BY <1>2
  <2>2. Slot(j) = (start + (j - 1)) % Capacity
    BY DEF Slot
  <2>3. (start + (j - 1)) % Capacity \in 0 .. (Capacity - 1)
    BY <1>1, <2>1, Wrap, Zenon
  <2>4. start + (j - 1) < Capacity =>
          (start + (j - 1)) % Capacity = start + (j - 1)
    BY <1>1, <2>1, Wrap, Zenon
  <2>5. ~(start + (j - 1) < Capacity) =>
          (start + (j - 1)) % Capacity = (start + (j - 1)) - Capacity
    BY <1>1, <2>1, Wrap, Zenon
  <2> QED
    BY <2>2, <2>3, <2>4, <2>5, Zenon
<1> HIDE DEF Slot
<1>4. ASSUME NEW j \in 1 .. Capacity, Slot(i) = Slot(j)
      PROVE  i = j
  <2>1. /\ start + (i - 1) < Capacity => Slot(i) = start + (i - 1)
        /\ ~(start + (i - 1) < Capacity) => Slot(i) = (start + (i - 1)) - Capacity
        /\ start + (j - 1) < Capacity => Slot(j) = start + (j - 1)
        /\ ~(start + (j - 1) < Capacity) => Slot(j) = (start + (j - 1)) - Capacity
    BY <1>3
  <2> QED
    BY <1>1, <1>4, <2>1
<1> QED
  BY <1>1, <1>3, <1>4 DEF Slots

LEMMA StepTypeOK == TypeOK /\ [Next]_vars => TypeOK'
<1> SUFFICES ASSUME TypeOK, [Next]_vars
             PROVE  TypeOK'
  OBVIOUS
<1> USE FIFOAssumption DEF TypeOK
<1>1. ASSUME NEW v \in Value, push(v)
      PROVE  TypeOK'
  BY <1>1 DEF push
<1>2. CASE pull
  <2>1. CASE used = 0
    BY <1>2, <2>1 DEF pull, empty
  <2>2. CASE used # 0
    <3>1. /\ Capacity \in Nat \ {0}
          /\ start + 1 \in 0 .. (2 * Capacity - 1)
          /\ start \in Slots
      BY <2>2 DEF Slots
    <3>2. (start + 1) % Capacity \in 0 .. (Capacity - 1)
      BY <3>1, Wrap
    <3> QED
      BY <1>2, <2>2, <3>1, <3>2 DEF pull, empty
  <2> QED
    BY <2>1, <2>2
<1>3. CASE peek
  BY <1>3 DEF peek, empty, Slots
<1>4. CASE reset
  BY <1>4 DEF reset
<1>5. CASE UNCHANGED vars
  BY <1>5 DEF vars
<1> QED
  BY <1>1, <1>2, <1>3, <1>4, <1>5 DEF Next

LEMMA InitTypeOK == Init => TypeOK
  BY FIFOAssumption DEF Init, TypeOK, Slots

\* The fields of the ring buffer stay in range: start is an index and used
\* never exceeds the capacity.
THEOREM FIFOTypeOK == Spec => []TypeOK
<1>1. Init => TypeOK
  BY InitTypeOK
<1>2. TypeOK /\ [Next]_vars => TypeOK'
  BY StepTypeOK
<1> QED
  BY <1>1, <1>2, PTL DEF Spec

-----------------------------------------------------------------------------
\* items is a sequence of values, as long as `used` says.
LEMMA ItemsFacts ==
  ASSUME TypeOK
  PROVE  /\ items \in Seq(Value)
         /\ Len(items) = used
         /\ \A i \in 1 .. used : items[i] = buffer[Slot(i)]
<1>1. used \in Nat /\ \A i \in 1 .. used : i \in 1 .. Capacity
  BY FIFOAssumption DEF TypeOK
<1>2. \A i \in 1 .. used : buffer[Slot(i)] \in Value
  BY <1>1, SlotFacts DEF TypeOK
<1>3. items = [i \in 1 .. used |-> buffer[Slot(i)]]
  BY DEF items, Slot
<1>4. items \in [1 .. used -> Value]
  BY <1>2, <1>3
<1> QED
  BY <1>1, <1>3, <1>4

LEMMA RefinesInit == Init => Queue!Init
<1> SUFFICES ASSUME Init
             PROVE  Queue!Init
  OBVIOUS
<1>1. TypeOK /\ used = 0 /\ result = Zero
  BY InitTypeOK DEF Init
<1>2. items = <<>>
  BY <1>1, ItemsFacts, EmptySeq
<1> QED
  BY <1>1, <1>2 DEF Queue!Init

LEMMA RefinesStep == TypeOK /\ TypeOK' /\ [Next]_vars => [Queue!Next]_Queue!vars
<1> SUFFICES ASSUME TypeOK, TypeOK', [Next]_vars
             PROVE  [Queue!Next]_Queue!vars
  OBVIOUS
<1>1. /\ items \in Seq(Value)
      /\ Len(items) = used
      /\ \A i \in 1 .. used : items[i] = buffer[Slot(i)]
  BY ItemsFacts
<1>2. /\ items' \in Seq(Value)
      /\ Len(items') = used'
      /\ \A i \in 1 .. used' : items'[i] = buffer'[Slot(i)']
  <2>1. items' \in [1 .. used' -> Value]
    <3>1. used' \in Nat /\ \A i \in 1 .. used' : i \in 1 .. Capacity
      BY FIFOAssumption DEF TypeOK
    <3>2. \A i \in 1 .. Capacity : Slot(i)' \in Slots
      <4>1. Capacity \in Nat /\ (Capacity > 0 => start' \in 0 .. (Capacity - 1))
        BY FIFOAssumption DEF TypeOK
      <4>2. ASSUME NEW i \in 1 .. Capacity
            PROVE  (start' + (i - 1)) % Capacity \in 0 .. (Capacity - 1)
        <5>1. Capacity \in Nat \ {0} /\ start' + (i - 1) \in 0 .. (2 * Capacity - 1)
          BY <4>1
        <5> QED
          BY <5>1, Wrap
      <4> QED
        BY <4>2 DEF Slot, Slots
    <3> QED
      BY <3>1, <3>2 DEF items, TypeOK, Slot
  <2>2. used' \in Nat
    BY FIFOAssumption DEF TypeOK
  <2> QED
    BY <2>1, <2>2 DEF items, Slot
<1>3. /\ used \in Nat /\ used <= Capacity /\ Capacity \in Nat
      /\ used' \in Nat
      /\ items = <<>> <=> used = 0
  BY <1>1, EmptySeq, FIFOAssumption DEF TypeOK
<1>4. ASSUME NEW v \in Value, push(v), used < Capacity
      PROVE  Queue!Push(v)
  <2>1. /\ buffer' = [buffer EXCEPT ![Slot(used + 1)] = v]
        /\ used' = used + 1
        /\ start' = start
        /\ result' = result
    BY <1>3, <1>4 DEF push, Slot
  <2>2. /\ used + 1 \in 1 .. Capacity
        /\ \A i \in 1 .. used : i \in 1 .. Capacity /\ i # used + 1
    BY <1>3, <1>4
  <2>3. Slot(used + 1) \in Slots /\ \A i \in 1 .. used : Slot(i) # Slot(used + 1)
    BY <2>2, SlotFacts
  <2>4. \A i \in 1 .. (used + 1) : Slot(i)' = Slot(i)
    BY <2>1 DEF Slot
  <2>5. \A i \in 1 .. used : items'[i] = items[i]
    BY <1>1, <1>2, <1>3, <2>1, <2>3, <2>4 DEF TypeOK
  <2>6. items'[used + 1] = v
    BY <1>2, <1>3, <2>1, <2>3, <2>4 DEF TypeOK
  <2>7. /\ Append(items, v) \in Seq(Value)
        /\ Len(Append(items, v)) = used + 1
        /\ \A i \in 1 .. used : Append(items, v)[i] = items[i]
        /\ Append(items, v)[used + 1] = v
    BY <1>1, AppendProperties
  <2>8. \A i \in 1 .. (used + 1) : items'[i] = Append(items, v)[i]
    BY <1>3, <2>5, <2>6, <2>7
  <2>9. items' = Append(items, v)
    BY <1>2, <2>1, <2>7, <2>8, SeqEqual
  <2> QED
    BY <1>1, <1>4, <2>1, <2>9 DEF Queue!Push
<1>5. ASSUME NEW v \in Value, push(v), ~(used < Capacity)
      PROVE  UNCHANGED Queue!vars
  BY <1>5 DEF push, Queue!vars, items
<1>6. ASSUME pull, used # 0
      PROVE  Queue!Pull
  <2>1. /\ start' = (start + 1) % Capacity
        /\ used' = used - 1
        /\ result' = buffer[start]
        /\ buffer' = buffer
    BY <1>6 DEF pull, empty
  <2>2. items # <<>> /\ 1 \in 1 .. used /\ 1 \in 1 .. Capacity
    BY <1>3, <1>6
  <2>3. Head(items) = buffer[start]
    BY <1>1, <2>2, SlotFacts
  <2>4. /\ Tail(items) \in Seq(Value)
        /\ Len(Tail(items)) = used - 1
        /\ \A i \in 1 .. (used - 1) : Tail(items)[i] = items[i + 1]
    BY <1>1, <2>2, HeadTailProperties
  <2>5. ASSUME NEW i \in 1 .. (used - 1)
        PROVE  Slot(i)' = Slot(i + 1)
    <3>1. /\ Capacity \in Nat \ {0}
          /\ start \in 0 .. (Capacity - 1)
          /\ i + 1 <= Capacity
      BY <1>3, <2>2 DEF TypeOK
    <3>2. CASE start + 1 < Capacity
      <4>1. start' = start + 1
        BY <2>1, <3>1, <3>2
      <4> QED
        BY <3>1, <4>1 DEF Slot
    <3>3. CASE start + 1 >= Capacity
      <4>1. start + 1 = Capacity /\ start' = 0
        BY <2>1, <3>1, <3>3
      <4>2. (start + i) % Capacity = start + i - Capacity
        BY <3>1, <4>1
      <4>3. (start' + (i - 1)) % Capacity = i - 1
        BY <3>1, <4>1
      <4> QED
        BY <3>1, <4>1, <4>2, <4>3 DEF Slot
    <3> QED
      BY <3>1, <3>2, <3>3
  <2>6. ASSUME NEW i \in 1 .. (used - 1)
        PROVE  items'[i] = Tail(items)[i]
    <3>1. i \in 1 .. used' /\ i + 1 \in 1 .. used
      BY <1>3, <2>1
    <3> QED
      BY <1>1, <1>2, <2>1, <2>4, <2>5, <3>1
  <2>7. items' = Tail(items)
    BY <1>2, <2>1, <2>4, <2>6, SeqEqual
  <2> QED
    BY <2>1, <2>2, <2>3, <2>7 DEF Queue!Pull
<1>7. ASSUME pull, used = 0
      PROVE  Queue!ReadEmpty
  <2>1. UNCHANGED <<buffer, start, used>> /\ result' = Zero
    BY <1>7 DEF pull, empty
  <2> QED
    BY <1>3, <1>7, <2>1 DEF Queue!ReadEmpty, items
<1>8. ASSUME peek
      PROVE  Queue!Peek \/ Queue!ReadEmpty
  <2>1. items' = items
    BY <1>8 DEF peek, items
  <2>2. CASE used = 0
    BY <1>3, <1>8, <2>1, <2>2 DEF peek, empty, Queue!ReadEmpty
  <2>3. CASE used # 0
    <3>1. 1 \in 1 .. used /\ 1 \in 1 .. Capacity
      BY <1>3, <2>3
    <3>2. Head(items) = buffer[start]
      BY <1>1, <3>1, SlotFacts
    <3> QED
      BY <1>3, <1>8, <2>1, <2>3, <3>2 DEF peek, empty, Queue!Peek
  <2> QED
    BY <2>2, <2>3
<1>9. ASSUME reset
      PROVE  Queue!Reset
  <2>1. items' = <<>>
    BY <1>2, <1>9, EmptySeq DEF reset
  <2> QED
    BY <1>9, <2>1 DEF reset, Queue!Reset
<1>10. ASSUME UNCHANGED vars
       PROVE  UNCHANGED Queue!vars
  BY <1>10 DEF vars, Queue!vars, items
<1> QED
  BY <1>4, <1>5, <1>6, <1>7, <1>8, <1>9, <1>10 DEF Next, Queue!Next

\* The ring buffer of utils/fifo.ts is a queue that drops what arrives when
\* it is full: no index arithmetic loses, reorders or overwrites a value.
THEOREM FIFORefinesQueue == Spec => RingIsQueue
<1>1. Spec => []TypeOK
  BY FIFOTypeOK, PTL
<1>2. Init => Queue!Init
  BY RefinesInit
<1>3. TypeOK /\ TypeOK' /\ [Next]_vars => [Queue!Next]_Queue!vars
  BY RefinesStep
<1> QED
  BY <1>1, <1>2, <1>3, PTL DEF Spec, RingIsQueue, Queue!Spec
===============================================================================
