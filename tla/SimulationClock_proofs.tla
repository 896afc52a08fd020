------------------------ MODULE SimulationClock_proofs ------------------------
(***************************************************************************)
(* Proofs about the simulated clock, for every set of alarms and every     *)
(* set of deltas: the inductive invariant, monotonic time, and that the    *)
(* clock implements AlarmQueue.                                            *)
(***************************************************************************)
EXTENDS SimulationClock, SequenceTheorems, TLAPS

-----------------------------------------------------------------------------
(* What inserting into and removing from a sequence does *)

\* InsertAt shifts the items from position k on by one.
LEMMA InsertAtFacts ==
  ASSUME NEW S, NEW s \in Seq(S), NEW k \in 1 .. (Len(s) + 1), NEW e \in S
  PROVE  /\ InsertAt(s, k, e) \in Seq(S)
         /\ Len(InsertAt(s, k, e)) = Len(s) + 1
         /\ \A i \in 1 .. (k - 1) : InsertAt(s, k, e)[i] = s[i]
         /\ InsertAt(s, k, e)[k] = e
         /\ \A i \in (k + 1) .. (Len(s) + 1) : InsertAt(s, k, e)[i] = s[i - 1]
<1> DEFINE front == SubSeq(s, 1, k - 1)
           back == SubSeq(s, k, Len(s))
<1>1. /\ Len(s) \in Nat
      /\ \A i \in 1 .. Len(s) : s[i] \in S
  BY LenProperties, ElementOfSeq
<1>2. /\ front \in Seq(S)
      /\ Len(front) = k - 1
      /\ \A i \in 1 .. (k - 1) : front[i] = s[i]
  BY <1>1, SubSeqProperties, \A i \in 1 .. (k - 1) : s[i] \in S
<1>3. /\ back \in Seq(S)
      /\ Len(back) = Len(s) - k + 1
      /\ \A i \in 1 .. (Len(s) - k + 1) : back[i] = s[k + i - 1]
  BY <1>1, SubSeqProperties, \A i \in k .. Len(s) : s[i] \in S
<1>4. /\ <<e>> \in Seq(S)
      /\ Len(<<e>>) = 1
      /\ <<e>>[1] = e
  OBVIOUS
<1> DEFINE mid == front \o <<e>>
<1> HIDE DEF front, back
<1>5. /\ mid \in Seq(S)
      /\ Len(mid) = k
      /\ \A i \in 1 .. k : mid[i] = IF i < k THEN front[i] ELSE e
  BY <1>2, <1>4, ConcatProperties
<1>6. InsertAt(s, k, e) = mid \o back
  BY DEF InsertAt, front, back
<1> HIDE DEF mid
<1>7. /\ mid \o back \in Seq(S)
      /\ Len(mid \o back) = Len(s) + 1
      /\ \A i \in 1 .. (Len(s) + 1) :
           (mid \o back)[i] = IF i <= k THEN mid[i] ELSE back[i - k]
  BY <1>1, <1>3, <1>5, ConcatProperties
<1>8. \A i \in 1 .. (k - 1) : (mid \o back)[i] = s[i]
  BY <1>1, <1>2, <1>5, <1>7
<1>9. (mid \o back)[k] = e
  BY <1>1, <1>5, <1>7
<1>10. ASSUME NEW i \in (k + 1) .. (Len(s) + 1)
       PROVE  (mid \o back)[i] = s[i - 1]
  <2>1. /\ i \in 1 .. (Len(s) + 1)
        /\ ~(i <= k)
        /\ i - k \in 1 .. (Len(s) - k + 1)
        /\ k + (i - k) - 1 = i - 1
    BY <1>1
  <2> QED
    BY <2>1, <1>3, <1>7
<1> QED
  BY <1>6, <1>7, <1>8, <1>9, <1>10

\* RemoveAt shifts the items after position k back by one.
LEMMA RemoveAtFacts ==
  ASSUME NEW S, NEW s \in Seq(S), NEW k \in 1 .. Len(s)
  PROVE  /\ RemoveAt(s, k) \in Seq(S)
         /\ Len(RemoveAt(s, k)) = Len(s) - 1
         /\ \A i \in 1 .. (k - 1) : RemoveAt(s, k)[i] = s[i]
         /\ \A i \in k .. (Len(s) - 1) : RemoveAt(s, k)[i] = s[i + 1]
<1> DEFINE front == SubSeq(s, 1, k - 1)
           back == SubSeq(s, k + 1, Len(s))
<1>1. /\ Len(s) \in Nat
      /\ \A i \in 1 .. Len(s) : s[i] \in S
  BY LenProperties, ElementOfSeq
<1>2. /\ front \in Seq(S)
      /\ Len(front) = k - 1
      /\ \A i \in 1 .. (k - 1) : front[i] = s[i]
  BY <1>1, SubSeqProperties, \A i \in 1 .. (k - 1) : s[i] \in S
<1>3. /\ back \in Seq(S)
      /\ Len(back) = Len(s) - k
      /\ \A i \in 1 .. (Len(s) - k) : back[i] = s[k + i]
  BY <1>1, SubSeqProperties, \A i \in (k + 1) .. Len(s) : s[i] \in S
<1> HIDE DEF front, back
<1>4. /\ front \o back \in Seq(S)
      /\ Len(front \o back) = Len(s) - 1
      /\ \A i \in 1 .. (Len(s) - 1) :
           (front \o back)[i] = IF i <= k - 1 THEN front[i] ELSE back[i - (k - 1)]
  <2>1. Len(front) + Len(back) = Len(s) - 1
    BY <1>1, <1>2, <1>3
  <2>2. /\ front \o back \in Seq(S)
        /\ Len(front \o back) = Len(front) + Len(back)
        /\ \A i \in 1 .. Len(front) + Len(back) :
             (front \o back)[i] =
               IF i <= Len(front) THEN front[i] ELSE back[i - Len(front)]
    BY <1>2, <1>3, ConcatProperties, Zenon
  <2> QED
    BY <2>1, <2>2, <1>2
<1>5. RemoveAt(s, k) = front \o back
  BY DEF RemoveAt, front, back
<1>6. \A i \in 1 .. (k - 1) : (front \o back)[i] = s[i]
  BY <1>1, <1>2, <1>4
<1>7. ASSUME NEW i \in k .. (Len(s) - 1)
      PROVE  (front \o back)[i] = s[i + 1]
  <2>1. /\ i \in 1 .. (Len(s) - 1)
        /\ ~(i <= k - 1)
        /\ i - (k - 1) \in 1 .. (Len(s) - k)
        /\ k + (i - (k - 1)) = i + 1
    BY <1>1
  <2> QED
    BY <2>1, <1>3, <1>4
<1> QED
  BY <1>4, <1>5, <1>6, <1>7

-----------------------------------------------------------------------------
(* The list of alarms *)

Injective(s) == \A i, j \in DOMAIN s : s[i] = s[j] => i = j

\* unlinkAlarm takes a out of a list that holds it at most once, and keeps
\* the other alarms in their order.
LEMMA UnlinkFacts ==
  ASSUME NEW s \in Seq(Alarm), NEW a \in Alarm, Injective(s)
  PROVE  /\ UnlinkAlarm(s, a) \in Seq(Alarm)
         /\ Range(UnlinkAlarm(s, a)) = Range(s) \ {a}
         /\ \A i, j \in DOMAIN UnlinkAlarm(s, a) :
              i < j => \E p, q \in DOMAIN s : /\ p < q
                                              /\ s[p] = UnlinkAlarm(s, a)[i]
                                              /\ s[q] = UnlinkAlarm(s, a)[j]
         /\ Injective(UnlinkAlarm(s, a))
<1>1. CASE a \notin Range(s)
  <2>1. UnlinkAlarm(s, a) = s
    BY <1>1 DEF UnlinkAlarm
  <2> QED
    BY <1>1, <2>1
<1>2. CASE a \in Range(s)
  <2> DEFINE k == CHOOSE n \in DOMAIN s : s[n] = a
             m == RemoveAt(s, k)
  <2>1. k \in DOMAIN s /\ s[k] = a
    BY <1>2 DEF Range
  <2>2. UnlinkAlarm(s, a) = m
    BY <1>2 DEF UnlinkAlarm
  <2>3. Len(s) \in Nat /\ DOMAIN s = 1 .. Len(s)
    BY LenProperties
  <2> HIDE DEF k
  <2>4. /\ m \in Seq(Alarm)
        /\ Len(m) = Len(s) - 1
        /\ \A i \in 1 .. (k - 1) : m[i] = s[i]
        /\ \A i \in k .. (Len(s) - 1) : m[i] = s[i + 1]
    BY <2>1, <2>3, RemoveAtFacts, ZenonT(30)
  <2> HIDE DEF m
  <2>5. DOMAIN m = 1 .. (Len(s) - 1)
    BY <2>4, LenProperties
  <2> DEFINE old(i) == IF i < k THEN i ELSE i + 1
  <2>6. \A i \in DOMAIN m : /\ old(i) \in DOMAIN s
                            /\ old(i) # k
                            /\ m[i] = s[old(i)]
    BY <2>1, <2>3, <2>4, <2>5
  <2>7. \A i, j \in DOMAIN m : i < j => old(i) < old(j)
    BY <2>1, <2>3, <2>5
  <2>8. \A i, j \in DOMAIN m : old(i) = old(j) => i = j
    BY <2>1, <2>3, <2>5
  <2>9. \A p \in DOMAIN s : p # k => \E i \in DOMAIN m : old(i) = p
    <3>1. SUFFICES ASSUME NEW p \in DOMAIN s, p # k
                   PROVE  \E i \in DOMAIN m : old(i) = p
      OBVIOUS
    <3>2. CASE p < k
      BY <3>2, <2>1, <2>3, <2>5
    <3>3. CASE p > k
      <4>1. p - 1 \in DOMAIN m /\ old(p - 1) = p
        BY <3>3, <2>1, <2>3, <2>5
      <4> QED
        BY <4>1
    <3> QED
      BY <3>1, <3>2, <3>3, <2>1, <2>3
  <2> HIDE DEF old
  <2>10. Range(m) = Range(s) \ {a}
    <3>1. \A i \in DOMAIN m : m[i] \in Range(s) \ {a}
      BY <2>1, <2>6 DEF Range, Injective
    <3>2. \A x \in Range(s) \ {a} : \E i \in DOMAIN m : m[i] = x
      BY <2>1, <2>6, <2>9 DEF Range
    <3> QED
      BY <3>1, <3>2 DEF Range
  <2>11. Injective(m)
    BY <2>6, <2>8 DEF Injective
  <2>12. \A i, j \in DOMAIN m :
           i < j => \E p, q \in DOMAIN s : p < q /\ s[p] = m[i] /\ s[q] = m[j]
    BY <2>6, <2>7
  <2> QED
    BY <2>2, <2>4, <2>10, <2>11, <2>12
<1> QED
  BY <1>1, <1>2

-----------------------------------------------------------------------------
(***************************************************************************)
(* The inductive invariant: the order of the list is kept only because no  *)
(* alarm is in the list twice and every linked alarm is flagged, and time  *)
(* is monotonic only because the list is ordered.                          *)
(***************************************************************************)
IInv == TypeOK /\ ListOrdered /\ LinkedOnce /\ NothingOverdue

LEMMA InitIInv == Init => IInv
  BY ClockAssumption
     DEF Init, IInv, TypeOK, ListOrdered, LinkedOnce, NothingOverdue

\* What schedule() and cancel() are left with after unlinkAlarm.
LEMMA UnlinkedList ==
  ASSUME IInv, NEW a \in Alarm
  PROVE  LET base == UnlinkAlarm(list, a)
         IN  /\ base \in Seq(Alarm)
             /\ Range(base) = Range(list) \ {a}
             /\ Injective(base)
             /\ \A i, j \in DOMAIN base : i < j => nanos[base[i]] <= nanos[base[j]]
             /\ \A i \in DOMAIN base : /\ base[i] \in Alarm \ {a}
                                       /\ scheduled[base[i]]
                                       /\ nanosCounter <= nanos[base[i]]
<1> DEFINE base == UnlinkAlarm(list, a)
<1>1. list \in Seq(Alarm) /\ Injective(list)
  BY DEF IInv, TypeOK, LinkedOnce, Injective
<1>2. /\ base \in Seq(Alarm)
      /\ Range(base) = Range(list) \ {a}
      /\ \A i, j \in DOMAIN base :
           i < j => \E p, q \in DOMAIN list : p < q /\ list[p] = base[i] /\ list[q] = base[j]
      /\ Injective(base)
  BY <1>1, UnlinkFacts
<1> HIDE DEF base
<1>3. \A i, j \in DOMAIN base : i < j => nanos[base[i]] <= nanos[base[j]]
  BY <1>2 DEF IInv, ListOrdered
<1>4. ASSUME NEW i \in DOMAIN base
      PROVE  /\ base[i] \in Alarm \ {a}
             /\ scheduled[base[i]]
             /\ nanosCounter <= nanos[base[i]]
  <2>1. base[i] \in Range(list) \ {a}
    BY <1>2 DEF Range
  <2>2. PICK p \in DOMAIN list : list[p] = base[i]
    BY <2>1 DEF Range
  <2>3. base[i] \in Alarm
    BY <1>1, <2>2, ElementOfSeq, LenProperties
  <2> QED
    BY <2>1, <2>2, <2>3 DEF IInv, LinkedOnce, NothingOverdue
<1> QED
  BY <1>2, <1>3, <1>4 DEF base

\* linkAlarm puts an alarm that is in no list in front of the first alarm
\* that is not due earlier.
LEMMA LinkFacts ==
  ASSUME IInv, NEW a \in Alarm, NEW t \in Nat, nanosCounter <= t,
         NEW base \in Seq(Alarm), Injective(base),
         \A i, j \in DOMAIN base : i < j => nanos[base[i]] <= nanos[base[j]],
         \A i \in DOMAIN base : /\ base[i] \in Alarm \ {a}
                                /\ scheduled[base[i]]
                                /\ nanosCounter <= nanos[base[i]],
         LinkAlarm(base, a, t)
  PROVE  /\ list' \in Seq(Alarm)
         /\ nanos' \in [Alarm -> Nat]
         /\ scheduled' \in [Alarm -> BOOLEAN]
         /\ Range(list') = Range(base) \cup {a}
         /\ \A i, j \in DOMAIN list' : i < j => nanos'[list'[i]] <= nanos'[list'[j]]
         /\ Injective(list')
         /\ \A i \in DOMAIN list' : /\ scheduled'[list'[i]]
                                    /\ nanosCounter <= nanos'[list'[i]]
<1> DEFINE n == Len(base)
<1>1. n \in Nat /\ DOMAIN base = 1 .. n
  BY LenProperties
<1>2. PICK k \in 1 .. (n + 1) : LinkPoint(base, k, t) /\ list' = InsertAt(base, k, a)
  BY DEF LinkAlarm
<1>3. /\ list' \in Seq(Alarm)
      /\ Len(list') = n + 1
      /\ \A i \in 1 .. (k - 1) : list'[i] = base[i]
      /\ list'[k] = a
      /\ \A i \in (k + 1) .. (n + 1) : list'[i] = base[i - 1]
  BY <1>2, InsertAtFacts, SMTT(30)
<1>4. DOMAIN list' = 1 .. (n + 1)
  BY <1>3, LenProperties
<1>5. /\ nanos' = [nanos EXCEPT ![a] = t]
      /\ scheduled' = [scheduled EXCEPT ![a] = TRUE]
      /\ nanos \in [Alarm -> Nat]
      /\ scheduled \in [Alarm -> BOOLEAN]
      /\ nanosCounter \in Nat
  BY DEF LinkAlarm, IInv, TypeOK
<1>6. /\ \A i \in 1 .. (k - 1) : nanos[base[i]] < t
      /\ k <= n => nanos[base[k]] >= t
  BY <1>2 DEF LinkPoint
<1> HIDE DEF n
\* Where an item of the new list comes from.
<1> DEFINE old(i) == IF i < k THEN i ELSE i - 1
<1>7. ASSUME NEW i \in DOMAIN list', i # k
      PROVE  /\ old(i) \in DOMAIN base
             /\ list'[i] = base[old(i)]
             /\ list'[i] # a
             /\ nanos'[list'[i]] = nanos[base[old(i)]]
             /\ nanos[base[old(i)]] \in Nat
             /\ scheduled'[list'[i]]
             /\ nanosCounter <= nanos'[list'[i]]
             /\ i < k => nanos[base[old(i)]] < t
             /\ i > k => t <= nanos[base[old(i)]]
  <2>1. old(i) \in DOMAIN base /\ list'[i] = base[old(i)]
    BY <1>1, <1>3, <1>4, <1>7, SMTT(30)
  <2>2. base[old(i)] \in Alarm \ {a}
    BY <2>1
  <2>3. i < k => nanos[base[old(i)]] < t
    BY <1>1, <1>4, <1>6
  <2>4. ASSUME i > k PROVE t <= nanos[base[old(i)]]
    <3>1. /\ old(i) = i - 1
          /\ k \in DOMAIN base
          /\ k <= n
          /\ k <= i - 1
      BY <1>1, <1>4, <2>4
    <3>2. t <= nanos[base[k]]
      BY <3>1, <1>6, <1>5
    <3>3. nanos[base[k]] <= nanos[base[old(i)]]
      BY <3>1, <2>1, <1>1, <1>5, k = i - 1 \/ k < i - 1
    <3>4. nanos[base[k]] \in Nat /\ nanos[base[old(i)]] \in Nat
      BY <3>1, <2>1, <1>5
    <3> QED
      BY <3>2, <3>3, <3>4
  <2> QED
    BY <2>1, <2>2, <2>3, <2>4, <1>5
<1>8. k \in DOMAIN list' /\ nanos'[list'[k]] = t /\ scheduled'[list'[k]]
  BY <1>1, <1>3, <1>4, <1>5
<1>9. ASSUME NEW i \in DOMAIN list', NEW j \in DOMAIN list', i < j
      PROVE  nanos'[list'[i]] <= nanos'[list'[j]]
  <2>1. CASE i = k
    BY <2>1, <1>4, <1>7, <1>8, <1>9
  <2>2. CASE j = k
    BY <2>2, <1>4, <1>7, <1>8, <1>9
  <2>3. CASE i # k /\ j # k
    <3>1. old(i) < old(j)
      BY <2>3, <1>4, <1>9
    <3> QED
      BY <3>1, <2>3, <1>7
  <2> QED
    BY <2>1, <2>2, <2>3
<1>10. Injective(list')
  <2>1. SUFFICES ASSUME NEW i \in DOMAIN list', NEW j \in DOMAIN list',
                        list'[i] = list'[j]
                 PROVE  i = j
    BY DEF Injective
  <2>2. CASE i = k \/ j = k
    BY <2>1, <2>2, <1>3, <1>7
  <2>3. CASE i # k /\ j # k
    <3>1. old(i) = old(j)
      BY <2>1, <2>3, <1>7 DEF Injective
    <3> QED
      BY <3>1, <2>3, <1>4
  <2> QED
    BY <2>2, <2>3
<1>11. Range(list') = Range(base) \cup {a}
  <2>1. \A i \in DOMAIN list' : list'[i] \in Range(base) \cup {a}
    BY <1>3, <1>7 DEF Range
  <2>2. ASSUME NEW p \in DOMAIN base
        PROVE  \E i \in DOMAIN list' : list'[i] = base[p]
    <3>1. CASE p < k
      BY <3>1, <1>1, <1>3, <1>4
    <3>2. CASE p >= k
      <4>1. p + 1 \in (k + 1) .. (n + 1) /\ (p + 1) - 1 = p
        BY <3>2, <1>1
      <4> QED
        BY <4>1, <1>3, <1>4
    <3> QED
      BY <3>1, <3>2, <1>1
  <2>3. \E i \in DOMAIN list' : list'[i] = a
    BY <1>3, <1>8
  <2> QED
    BY <2>1, <2>2, <2>3 DEF Range
<1> QED
  BY <1>3, <1>5, <1>7, <1>8, <1>9, <1>10, <1>11

-----------------------------------------------------------------------------
\* The invariant of a state whose list is known to be well formed.
LEMMA WellFormedList ==
  ASSUME list' \in Seq(Alarm), Injective(list'),
         nanos' \in [Alarm -> Nat], scheduled' \in [Alarm -> BOOLEAN],
         nanosCounter' \in Nat, targetNanos' \in Nat,
         phase' \in {"cpu", "loop", "fire"},
         \A i, j \in DOMAIN list' : i < j => nanos'[list'[i]] <= nanos'[list'[j]],
         \A i \in DOMAIN list' : /\ scheduled'[list'[i]]
                                 /\ nanosCounter' <= nanos'[list'[i]],
         phase' # "cpu" => nanosCounter' <= targetNanos'
  PROVE  IInv'
  BY DEF IInv, TypeOK, ListOrdered, LinkedOnce, NothingOverdue, Injective

LEMMA ScheduleStep ==
  ASSUME IInv, NEW a \in Alarm, NEW d \in Nat, Schedule(a, d)
  PROVE  IInv' /\ Range(list') = Range(list) \cup {a}
<1> DEFINE base == IF scheduled[a] THEN UnlinkAlarm(list, a) ELSE list
           t == nanosCounter + d
<1>1. /\ nanosCounter \in Nat /\ targetNanos \in Nat
      /\ t \in Nat /\ nanosCounter <= t
      /\ nanosCounter' = nanosCounter
      /\ targetNanos' = targetNanos
      /\ phase' = phase
      /\ phase \in {"cpu", "loop", "fire"}
      /\ phase # "cpu" => nanosCounter <= targetNanos
      /\ LinkAlarm(base, a, t)
  BY DEF IInv, TypeOK, NothingOverdue, Schedule
<1>2. /\ base \in Seq(Alarm)
      /\ Range(base) = Range(list) \ {a}
      /\ Injective(base)
      /\ \A i, j \in DOMAIN base : i < j => nanos[base[i]] <= nanos[base[j]]
      /\ \A i \in DOMAIN base : /\ base[i] \in Alarm \ {a}
                                /\ scheduled[base[i]]
                                /\ nanosCounter <= nanos[base[i]]
  <2>1. CASE scheduled[a]
    BY <2>1, UnlinkedList
  <2>2. CASE ~scheduled[a]
    <3>1. list \in Seq(Alarm) /\ Injective(list)
      BY DEF IInv, TypeOK, LinkedOnce, Injective
    <3>2. \A i \in DOMAIN list : list[i] \in Alarm \ {a}
      BY <2>2, <3>1, ElementOfSeq, LenProperties DEF IInv, LinkedOnce
    <3>3. Range(list) = Range(list) \ {a}
      BY <3>2 DEF Range
    <3> QED
      BY <2>2, <3>1, <3>2, <3>3 DEF IInv, ListOrdered, LinkedOnce, NothingOverdue
  <2> QED
    BY <2>1, <2>2
<1> HIDE DEF base, t
<1>3. /\ list' \in Seq(Alarm)
      /\ nanos' \in [Alarm -> Nat]
      /\ scheduled' \in [Alarm -> BOOLEAN]
      /\ Range(list') = Range(base) \cup {a}
      /\ \A i, j \in DOMAIN list' : i < j => nanos'[list'[i]] <= nanos'[list'[j]]
      /\ Injective(list')
      /\ \A i \in DOMAIN list' : /\ scheduled'[list'[i]]
                                 /\ nanosCounter <= nanos'[list'[i]]
  BY <1>1, <1>2, LinkFacts
<1>4. IInv'
  BY <1>1, <1>3, WellFormedList
<1> QED
  BY <1>2, <1>3, <1>4

LEMMA CancelStep ==
  ASSUME IInv, NEW a \in Alarm, Cancel(a)
  PROVE  IInv' /\ Range(list') = Range(list) \ {a}
<1>1. /\ list' = UnlinkAlarm(list, a)
      /\ scheduled' = [scheduled EXCEPT ![a] = FALSE]
      /\ nanos' = nanos
      /\ nanosCounter' = nanosCounter
      /\ targetNanos' = targetNanos
      /\ phase' = phase
  BY DEF Cancel
<1>2. /\ nanos \in [Alarm -> Nat]
      /\ scheduled \in [Alarm -> BOOLEAN]
      /\ nanosCounter \in Nat
      /\ targetNanos \in Nat
      /\ phase \in {"cpu", "loop", "fire"}
      /\ phase # "cpu" => nanosCounter <= targetNanos
  BY DEF IInv, TypeOK, NothingOverdue
<1>3. /\ list' \in Seq(Alarm)
      /\ Range(list') = Range(list) \ {a}
      /\ Injective(list')
      /\ \A i, j \in DOMAIN list' : i < j => nanos[list'[i]] <= nanos[list'[j]]
      /\ \A i \in DOMAIN list' : /\ list'[i] \in Alarm \ {a}
                                 /\ scheduled[list'[i]]
                                 /\ nanosCounter <= nanos[list'[i]]
  BY <1>1, UnlinkedList
<1>4. \A i \in DOMAIN list' : scheduled'[list'[i]]
  BY <1>1, <1>2, <1>3
<1>5. IInv'
  BY <1>1, <1>2, <1>3, <1>4, WellFormedList
<1> QED
  BY <1>3, <1>5

LEMMA FireStep ==
  ASSUME IInv, FireHead
  PROVE  /\ IInv'
         /\ Head(list) \in Range(list)
         /\ Range(list') = Range(list) \ {Head(list)}
         /\ \A b \in Range(list) : nanos[Head(list)] <= nanos[b]
         /\ nanosCounter <= nanos[Head(list)]
<1>1. /\ list # <<>>
      /\ nanos[Head(list)] <= targetNanos
      /\ list' = Tail(list)
      /\ nanosCounter' = nanos[Head(list)]
      /\ phase' = "fire"
      /\ nanos' = nanos
      /\ scheduled' = scheduled
      /\ targetNanos' = targetNanos
  BY DEF FireHead, HeadIsDue
<1>2. /\ list \in Seq(Alarm)
      /\ nanos \in [Alarm -> Nat]
      /\ scheduled \in [Alarm -> BOOLEAN]
      /\ nanosCounter \in Nat
      /\ targetNanos \in Nat
  BY DEF IInv, TypeOK
<1> DEFINE n == Len(list)
<1>3. n \in Nat /\ n >= 1 /\ DOMAIN list = 1 .. n
  BY <1>1, <1>2, LenProperties, EmptySeq
<1>4. /\ Head(list) = list[1]
      /\ list[1] \in Alarm
      /\ list' \in Seq(Alarm)
      /\ Len(list') = n - 1
      /\ \A i \in 1 .. (n - 1) : list'[i] = list[i + 1]
  BY <1>1, <1>2, <1>3, HeadTailProperties, ElementOfSeq
<1>5. DOMAIN list' = 1 .. (n - 1)
  BY <1>4, LenProperties
<1> HIDE DEF n
<1>6. \A i \in DOMAIN list' : i + 1 \in DOMAIN list /\ 1 < i + 1
  BY <1>3, <1>5
<1>7. \A i, j \in DOMAIN list' : i < j => nanos'[list'[i]] <= nanos'[list'[j]]
  BY <1>1, <1>3, <1>4, <1>5, <1>6 DEF IInv, ListOrdered
<1>8. \A i \in DOMAIN list' : /\ scheduled'[list'[i]]
                              /\ nanosCounter' <= nanos'[list'[i]]
  BY <1>1, <1>3, <1>4, <1>5, <1>6 DEF IInv, ListOrdered, LinkedOnce
<1>9. Injective(list')
  BY <1>3, <1>4, <1>5, <1>6 DEF IInv, LinkedOnce, Injective
<1>10. nanosCounter' \in Nat /\ nanosCounter' <= targetNanos'
  BY <1>1, <1>2, <1>4
<1>11. IInv'
  BY <1>1, <1>2, <1>4, <1>7, <1>8, <1>9, <1>10, WellFormedList
<1>12. Range(list') = Range(list) \ {Head(list)}
  <2>1. \A i \in DOMAIN list' : list'[i] \in Range(list) \ {list[1]}
    BY <1>3, <1>4, <1>5, <1>6 DEF IInv, LinkedOnce, Range
  <2>2. ASSUME NEW p \in DOMAIN list, list[p] # list[1]
        PROVE  \E i \in DOMAIN list' : list'[i] = list[p]
    <3>1. p - 1 \in DOMAIN list' /\ (p - 1) + 1 = p
      BY <2>2, <1>3, <1>5
    <3> QED
      BY <3>1, <1>4, <1>5
  <2> QED
    BY <2>1, <2>2, <1>4 DEF Range
<1>13. \A b \in Range(list) : nanos[Head(list)] <= nanos[b]
  <2>1. ASSUME NEW p \in DOMAIN list
        PROVE  nanos[list[1]] <= nanos[list[p]]
    <3>1. 1 \in DOMAIN list /\ (p = 1 \/ 1 < p)
      BY <1>3
    <3>2. nanos[list[1]] \in Nat
      BY <1>2, <1>4
    <3> QED
      BY <3>1, <3>2 DEF IInv, ListOrdered
  <2> QED
    BY <2>1, <1>4 DEF Range
<1>14. Head(list) \in Range(list) /\ nanosCounter <= nanos[Head(list)]
  BY <1>3, <1>4 DEF IInv, NothingOverdue, Range
<1> QED
  BY <1>11, <1>12, <1>13, <1>14

-----------------------------------------------------------------------------
LEMMA StepIInv == IInv /\ [Next]_vars => IInv'
<1> SUFFICES ASSUME IInv, [Next]_vars
             PROVE  IInv'
  OBVIOUS
<1>1. ASSUME NEW a \in Alarm, Cancel(a)
      PROVE  IInv'
  BY <1>1, CancelStep
<1>2. ASSUME NEW a \in Alarm, NEW d \in Deltas, Schedule(a, d)
      PROVE  IInv'
  BY <1>2, ScheduleStep, ClockAssumption DEF Deltas
<1>3. ASSUME NEW d \in TickDelta, TickBegin(d)
      PROVE  IInv'
  BY <1>3, ClockAssumption
     DEF TickBegin, IInv, TypeOK, ListOrdered, LinkedOnce, NothingOverdue
<1>4. CASE FireHead
  BY <1>4, FireStep
<1>5. CASE HandlerReturn
  BY <1>5 DEF HandlerReturn, IInv, TypeOK, ListOrdered, LinkedOnce, NothingOverdue
<1>6. CASE HandlerThrow
  BY <1>6 DEF HandlerThrow, IInv, TypeOK, ListOrdered, LinkedOnce, NothingOverdue
<1>7. CASE TickEnd
  <2>1. ASSUME NEW i \in DOMAIN list
        PROVE  targetNanos <= nanos[list[i]]
    <3>1. list \in Seq(Alarm) /\ list # <<>> /\ Head(list) = list[1]
      BY DEF IInv, TypeOK
    <3>2. Len(list) \in Nat /\ DOMAIN list = 1 .. Len(list)
      BY <3>1, LenProperties
    <3>3. 1 \in DOMAIN list /\ (i = 1 \/ 1 < i)
      BY <3>2
    <3>4. nanos[list[1]] \in Nat /\ nanos[list[i]] \in Nat /\ targetNanos \in Nat
      BY <3>1, <3>3, ElementOfSeq, LenProperties DEF IInv, TypeOK
    <3>5. targetNanos < nanos[list[1]]
      BY <1>7, <3>1, <3>4 DEF TickEnd, HeadIsDue
    <3> QED
      BY <3>3, <3>4, <3>5 DEF IInv, ListOrdered
  <2> QED
    BY <1>7, <2>1
       DEF TickEnd, IInv, TypeOK, ListOrdered, LinkedOnce, NothingOverdue
<1>8. CASE UNCHANGED vars
  BY <1>8 DEF vars, IInv, TypeOK, ListOrdered, LinkedOnce, NothingOverdue
<1> QED
  BY <1>1, <1>2, <1>3, <1>4, <1>5, <1>6, <1>7, <1>8 DEF Next, Calls, Tick

\* In every reachable state the clock is well formed: the linked list of
\* clock/simulation-clock.ts is ordered, holds no alarm twice and no alarm
\* of the past, and only flagged alarms are in it.
THEOREM ClockInvariant == Spec => []IInv
<1>1. Init => IInv
  BY InitIInv
<1>2. IInv /\ [Next]_vars => IInv'
  BY StepIInv
<1> QED
  BY <1>1, <1>2, PTL DEF Spec

\* The types of the clock's fields.
THEOREM ClockTypeOK == Spec => []TypeOK
  BY ClockInvariant, PTL DEF IInv

\* The list stays ordered by due time under every interleaving of handlers.
THEOREM ClockListOrdered == Spec => []ListOrdered
  BY ClockInvariant, PTL DEF IInv

\* No alarm is ever linked twice and linked alarms are flagged.
THEOREM ClockLinkedOnce == Spec => []LinkedOnce
  BY ClockInvariant, PTL DEF IInv

\* No alarm is ever left behind in the past.
THEOREM ClockNothingOverdue == Spec => []NothingOverdue
  BY ClockInvariant, PTL DEF IInv

\* Simulated time never decreases, whatever the handlers do.
THEOREM ClockMonotonic == Spec => TimeNeverRunsBack
<1>1. IInv /\ [Next]_vars => [nanosCounter <= nanosCounter']_vars
  <2> SUFFICES ASSUME IInv, [Next]_vars
               PROVE  nanosCounter <= nanosCounter' \/ UNCHANGED vars
    OBVIOUS
  <2>1. nanosCounter \in Nat
    BY DEF IInv, TypeOK
  <2>2. CASE FireHead
    BY <2>2, FireStep DEF FireHead
  <2>3. CASE TickEnd
    BY <2>3 DEF TickEnd, IInv, NothingOverdue
  <2>4. CASE Calls
    BY <2>1, <2>4 DEF Calls, Cancel, Schedule
  <2>5. CASE (\E d \in TickDelta : TickBegin(d)) \/ HandlerReturn \/ HandlerThrow
    BY <2>1, <2>5 DEF TickBegin, HandlerReturn, HandlerThrow
  <2>6. CASE UNCHANGED vars
    BY <2>6
  <2> QED
    BY <2>2, <2>3, <2>4, <2>5, <2>6 DEF Next, Tick
<1> QED
  BY <1>1, ClockInvariant, PTL DEF Spec, TimeNeverRunsBack

-----------------------------------------------------------------------------
(***************************************************************************)
(* The refinement: each step of the clock is a step of AlarmQueue or       *)
(* leaves the time and the due times as they are.                          *)
(***************************************************************************)
LEMMA RefinesInit == Init => Queue!Init
  BY DEF Init, Queue!Init, Due, Linked, Range

LEMMA RefinesStep == IInv /\ IInv' /\ [Next]_vars => [Queue!Next]_Queue!vars
<1> SUFFICES ASSUME IInv, IInv', [Next]_vars
             PROVE  [Queue!Next]_Queue!vars
  OBVIOUS
<1>1. /\ nanos \in [Alarm -> Nat]
      /\ nanosCounter \in Nat
      /\ nanosCounter' \in Nat
      /\ Range(list) \subseteq Alarm
      /\ \A b \in Range(list) : nanosCounter <= nanos[b]
  <2>1. list \in Seq(Alarm)
    BY DEF IInv, TypeOK
  <2> QED
    BY <2>1, RangeOfSeq DEF IInv, TypeOK, NothingOverdue, Range
<1>2. \A a \in Alarm : Queue!Pending(a) <=> a \in Range(list)
  BY <1>1, ClockAssumption DEF Queue!Pending, Due, Linked
<1>3. ASSUME NEW a \in Alarm, NEW d \in Deltas, Schedule(a, d)
      PROVE  Queue!Arm(a)
  <2>1. d \in Nat
    BY ClockAssumption DEF Deltas
  <2>2. Range(list') = Range(list) \cup {a}
    BY <1>3, <2>1, ScheduleStep
  <2>3. /\ nanos' = [nanos EXCEPT ![a] = nanosCounter + d]
        /\ nanosCounter' = nanosCounter
    BY <1>3 DEF Schedule, LinkAlarm
  <2>4. Due' = [Due EXCEPT ![a] = nanosCounter + d]
    BY <1>1, <2>2, <2>3 DEF Due, Linked
  <2>5. Due'[a] = nanosCounter + d
    BY <2>4 DEF Due
  <2>6. nanosCounter + d \in Nat /\ nanosCounter + d >= nanosCounter
    BY <1>1, <2>1
  <2> QED
    BY <2>3, <2>4, <2>5, <2>6, Zenon DEF Queue!Arm
<1>4. ASSUME NEW a \in Alarm, Cancel(a)
      PROVE  Queue!Disarm(a)
  <2>1. /\ Range(list') = Range(list) \ {a}
        /\ nanos' = nanos
        /\ nanosCounter' = nanosCounter
    BY <1>4, CancelStep DEF Cancel
  <2> QED
    BY <2>1 DEF Queue!Disarm, Due, Linked
<1>5. ASSUME FireHead
      PROVE  \E a \in Alarm : Queue!Fire(a)
  <2> DEFINE h == Head(list)
  <2>1. /\ h \in Range(list)
        /\ Range(list') = Range(list) \ {h}
        /\ \A b \in Range(list) : nanos[h] <= nanos[b]
        /\ nanosCounter' = nanos[h]
        /\ nanos' = nanos
    BY <1>5, FireStep DEF FireHead
  <2> HIDE DEF h
  <2>2. h \in Alarm
    BY <1>1, <2>1
  <2>3. Due' = [Due EXCEPT ![h] = Never]
    BY <2>1, <2>2 DEF Due, Linked
  <2>4. Due[h] = nanos[h] /\ \A b \in Range(list) : Due[b] = nanos[b]
    BY <1>1, <2>1 DEF Due, Linked
  <2>5. Queue!Fire(h)
    BY <1>1, <1>2, <2>1, <2>2, <2>3, <2>4 DEF Queue!Fire
  <2> QED
    BY <2>2, <2>5
<1>6. ASSUME TickEnd
      PROVE  Queue!Advance
  <2>1. /\ nanosCounter' = targetNanos
        /\ list' = list
        /\ nanos' = nanos
        /\ nanosCounter <= targetNanos
        /\ targetNanos \in Nat
    BY <1>6 DEF TickEnd, IInv, TypeOK, NothingOverdue
  <2>2. ASSUME NEW b \in Range(list)
        PROVE  targetNanos < nanos[b]
    <3>1. list \in Seq(Alarm) /\ list # <<>> /\ Head(list) = list[1]
      BY DEF IInv, TypeOK, Range
    <3>2. Len(list) \in Nat /\ DOMAIN list = 1 .. Len(list)
      BY <3>1, LenProperties
    <3>3. PICK i \in DOMAIN list : list[i] = b
      BY DEF Range
    <3>4. 1 \in DOMAIN list /\ (i = 1 \/ 1 < i)
      BY <3>2
    <3>5. nanos[list[1]] \in Nat /\ nanos[b] \in Nat
      BY <1>1, <3>1, <3>3, <3>4, ElementOfSeq, LenProperties
    <3>6. targetNanos < nanos[list[1]]
      BY <1>6, <2>1, <3>1, <3>5 DEF TickEnd, HeadIsDue
    <3>7. nanos[list[1]] <= nanos[b]
      BY <3>3, <3>4, <3>5 DEF IInv, ListOrdered
    <3> QED
      BY <2>1, <3>5, <3>6, <3>7
  <2>3. \A b \in Alarm : Queue!Pending(b) => Due[b] > nanosCounter'
    BY <1>1, <1>2, <2>1, <2>2 DEF Due, Linked
  <2>4. Due' = Due
    BY <2>1 DEF Due, Linked
  <2> QED
    BY <1>1, <2>1, <2>3, <2>4 DEF Queue!Advance
<1>7. ASSUME \/ \E d \in TickDelta : TickBegin(d)
             \/ HandlerReturn
             \/ HandlerThrow
             \/ UNCHANGED vars
      PROVE  UNCHANGED Queue!vars
  BY <1>7 DEF TickBegin, HandlerReturn, HandlerThrow, vars, Queue!vars, Due, Linked
<1> QED
  BY <1>3, <1>4, <1>5, <1>6, <1>7 DEF Next, Calls, Tick, Queue!Next

\* The ordered linked list and the tick loop implement the alarm queue: an
\* alarm fires exactly at the instant its last schedule() asked for, in due
\* order, and time never passes a due alarm.
THEOREM ClockRefinesQueue == Spec => AlarmsFireOnTime
<1>1. Spec => []IInv
  BY ClockInvariant, PTL
<1>2. Init => Queue!Init
  BY RefinesInit
<1>3. IInv /\ IInv' /\ [Next]_vars => [Queue!Next]_Queue!vars
  BY RefinesStep
<1> QED
  BY <1>1, <1>2, <1>3, PTL DEF Spec, AlarmsFireOnTime, Queue!Spec
===============================================================================
