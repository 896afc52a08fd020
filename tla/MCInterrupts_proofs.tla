------------------------- MODULE MCInterrupts_proofs -------------------------
(***************************************************************************)
(* For FIFOs of every depth, any set of spinlocks, interrupts and          *)
(* priorities, and exceptions nested to any depth: no doorbell is lost and *)
(* no lock is claimed twice; the Hazard3 arbiter offers its best candidate *)
(* and misses none; a Cortex-M0+ core misses no interrupt, keeps its       *)
(* frames and returns to where it was interrupted.                         *)
(***************************************************************************)
EXTENDS MCInterrupts, SequenceTheorems, WellFoundedInduction, TLAPS

-----------------------------------------------------------------------------
(* The mailboxes and the spinlocks. *)

LEMMA InitTypeOK == Init => TypeOK
<1>1. <<>> \in Seq(Value) /\ Len(<<>>) = 0
  BY EmptySeq
<1> QED
  BY <1>1, MailboxAssumption DEF Init, TypeOK

LEMMA StepTypeOK == TypeOK /\ [Next \/ WatchdogTrigger]_vars => TypeOK'
<1> SUFFICES ASSUME TypeOK, [Next \/ WatchdogTrigger]_vars
             PROVE  TypeOK'
  OBVIOUS
<1>0. \A c \in Core : Other(c) \in Core
  BY DEF Core, Other
<1>1. ASSUME NEW c \in Core, ReadFIFO(c)
      PROVE  TypeOK'
  <2>1. CASE mailbox[c] = <<>>
    BY <1>1, <2>1, MailboxAssumption
       DEF TypeOK, ReadFIFO, setInterruptCore, lockVars
  <2>2. CASE mailbox[c] # <<>>
    <3>1. mailbox[c] \in Seq(Value) /\ Len(mailbox[c]) <= Depth
      BY DEF TypeOK
    <3>2. /\ Head(mailbox[c]) \in Value
          /\ Tail(mailbox[c]) \in Seq(Value)
          /\ Len(Tail(mailbox[c])) <= Depth
      BY <2>2, <3>1, MailboxAssumption
    <3> QED
      BY <1>1, <2>2, <3>2 DEF TypeOK, ReadFIFO, lockVars
  <2> QED
    BY <2>1, <2>2
<1>2. ASSUME NEW c \in Core, NEW v \in Value, WriteFIFO(c, v)
      PROVE  TypeOK'
  <2>1. CASE Len(mailbox[Other(c)]) = Depth
    BY <1>2, <2>1 DEF TypeOK, WriteFIFO, setInterruptCore, lockVars
  <2>2. CASE Len(mailbox[Other(c)]) # Depth
    <3>1. /\ mailbox[Other(c)] \in Seq(Value)
          /\ Len(mailbox[Other(c)]) <= Depth
      BY <1>0 DEF TypeOK
    <3>2. /\ Append(mailbox[Other(c)], v) \in Seq(Value)
          /\ Len(Append(mailbox[Other(c)], v)) <= Depth
      BY <2>2, <3>1, MailboxAssumption
    <3> QED
      BY <1>0, <1>2, <2>2, <3>2
         DEF TypeOK, WriteFIFO, setInterruptCore, lockVars
  <2> QED
    BY <2>1, <2>2
<1>3. ASSUME NEW c \in Core, WriteStatus(c)
      PROVE  TypeOK'
  BY <1>3 DEF TypeOK, WriteStatus, setInterruptCore, lockVars
<1>4. ASSUME NEW c \in Core, NEW l \in Lock, ReadSpinlock(c, l)
      PROVE  TypeOK'
  BY <1>4 DEF TypeOK, ReadSpinlock, lockVars, fifoVars
<1>5. ASSUME NEW c \in Core, NEW l \in Lock, WriteSpinlock(c, l)
      PROVE  TypeOK'
  BY <1>5 DEF TypeOK, WriteSpinlock, fifoVars
<1>6. CASE WatchdogTrigger
  BY <1>6 DEF TypeOK, WatchdogTrigger
<1>7. CASE UNCHANGED vars
  BY <1>7 DEF TypeOK, vars
<1> QED
  BY <1>1, <1>2, <1>3, <1>4, <1>5, <1>6, <1>7 DEF Next, Access

LEMMA SpecIsResetSpec == Spec => ResetSpec
<1>1. [Next]_vars => [Next \/ WatchdogTrigger]_vars
  OBVIOUS
<1> QED
  BY <1>1, PTL DEF Spec, ResetSpec

\* FIFOs never exceed their depth and every field keeps its range, over
\* watchdog resets as well.
THEOREM MailboxTypeOK == ResetSpec => []TypeOK
<1>1. Init => TypeOK
  BY InitTypeOK
<1>2. TypeOK /\ [Next \/ WatchdogTrigger]_vars => TypeOK'
  BY StepTypeOK
<1> QED
  BY <1>1, <1>2, PTL DEF ResetSpec

-----------------------------------------------------------------------------
\* The interrupt of sio-core.ts is never lowered, and never missing, while a
\* word waits or an error stands.
THEOREM MailboxNoLostDoorbell == Spec => []NoLostDoorbell
<1>1. Init => NoLostDoorbell
  BY DEF Init, NoLostDoorbell
<1>2. TypeOK /\ NoLostDoorbell /\ [Next]_vars => NoLostDoorbell'
  <2> SUFFICES ASSUME TypeOK, NoLostDoorbell, [Next]_vars
               PROVE  NoLostDoorbell'
    OBVIOUS
  <2>0. \A c \in Core : Other(c) \in Core /\ Other(c) # c
    BY DEF Core, Other
  <2>1. ASSUME NEW c \in Core, ReadFIFO(c)
        PROVE  NoLostDoorbell'
    BY <2>1 DEF NoLostDoorbell, ReadFIFO, setInterruptCore, TypeOK
  <2>2. ASSUME NEW c \in Core, NEW v \in Value, WriteFIFO(c, v)
        PROVE  NoLostDoorbell'
    BY <2>0, <2>2 DEF NoLostDoorbell, WriteFIFO, setInterruptCore, TypeOK
  <2>3. ASSUME NEW c \in Core, WriteStatus(c)
        PROVE  NoLostDoorbell'
    BY <2>3 DEF NoLostDoorbell, WriteStatus, setInterruptCore, TypeOK
  <2>4. ASSUME NEW c \in Core, NEW l \in Lock,
               ReadSpinlock(c, l) \/ WriteSpinlock(c, l)
        PROVE  NoLostDoorbell'
    BY <2>4 DEF NoLostDoorbell, ReadSpinlock, WriteSpinlock, fifoVars
  <2>5. CASE UNCHANGED vars
    BY <2>5 DEF NoLostDoorbell, vars
  <2> QED
    BY <2>1, <2>2, <2>3, <2>4, <2>5 DEF Next, Access
<1>3. Spec => []TypeOK
  BY SpecIsResetSpec, MailboxTypeOK, PTL
<1> QED
  BY <1>1, <1>2, <1>3, PTL DEF Spec

\* The test-and-set of sio_rp2350.ts gives a lock to one core at a time, and
\* a reset of the cores does not hand a claimed lock to anybody.
THEOREM MailboxLockExclusion == ResetSpec => []LockExclusion
<1>1. Init => LockExclusion
  BY DEF Init, LockExclusion, Core
<1>2. TypeOK /\ LockExclusion /\ [Next \/ WatchdogTrigger]_vars => LockExclusion'
  <2> SUFFICES ASSUME TypeOK, LockExclusion, [Next \/ WatchdogTrigger]_vars
               PROVE  LockExclusion'
    OBVIOUS
  <2>1. ASSUME NEW c \in Core, NEW l \in Lock, ReadSpinlock(c, l)
        PROVE  LockExclusion'
    BY <2>1 DEF LockExclusion, ReadSpinlock, lockVars, Core, TypeOK
  <2>2. ASSUME NEW c \in Core, NEW l \in Lock, WriteSpinlock(c, l)
        PROVE  LockExclusion'
    BY <2>2 DEF LockExclusion, WriteSpinlock, Core, TypeOK
  <2>3. CASE WatchdogTrigger
    BY <2>3 DEF LockExclusion, WatchdogTrigger, Core
  <2>4. ASSUME NEW c \in Core, NEW v \in Value,
               ReadFIFO(c) \/ WriteFIFO(c, v) \/ WriteStatus(c)
        PROVE  LockExclusion'
    BY <2>4 DEF LockExclusion, ReadFIFO, WriteFIFO, WriteStatus, lockVars
  <2>5. CASE UNCHANGED vars
    BY <2>5 DEF LockExclusion, vars
  <2> QED
    BY <2>1, <2>2, <2>3, <2>4, <2>5, MailboxAssumption DEF Next, Access
<1> QED
  BY <1>1, <1>2, MailboxTypeOK, PTL DEF ResetSpec

-----------------------------------------------------------------------------
\* The two RPSIOCore objects, wired to each other's FIFOs, are two independent
\* queues that drop what is written when full, over watchdog resets as well.
THEOREM MailboxesRefineQueues == ResetSpec => MailboxesAreQueues
<1>1. Init => Inbox0!Init /\ Inbox1!Init
  BY DEF Init, Inbox0!Init, Inbox1!Init, Core
<1>2. TypeOK /\ [Next \/ WatchdogTrigger]_vars
        => [Inbox0!Next]_Inbox0!vars /\ [Inbox1!Next]_Inbox1!vars
  <2> SUFFICES ASSUME TypeOK, [Next \/ WatchdogTrigger]_vars
               PROVE  [Inbox0!Next]_Inbox0!vars /\ [Inbox1!Next]_Inbox1!vars
    OBVIOUS
  <2> USE DEF Core, Inbox0!vars, Inbox1!vars
  <2>1. ASSUME NEW c \in Core, ReadFIFO(c)
        PROVE  [Inbox0!Next]_Inbox0!vars /\ [Inbox1!Next]_Inbox1!vars
    <3> USE DEF Inbox0!Next, Inbox1!Next, TypeOK
    <3>1. CASE mailbox[c] = <<>>
      BY <2>1, <3>1 DEF ReadFIFO, Inbox0!ReadEmpty, Inbox1!ReadEmpty
    <3>2. CASE mailbox[c] # <<>>
      BY <2>1, <3>2 DEF ReadFIFO, Inbox0!Pull, Inbox1!Pull
    <3> QED
      BY <3>1, <3>2
  <2>2. ASSUME NEW c \in Core, NEW v \in Value, WriteFIFO(c, v)
        PROVE  [Inbox0!Next]_Inbox0!vars /\ [Inbox1!Next]_Inbox1!vars
    <3>1. CASE Len(mailbox[Other(c)]) = Depth
      BY <2>2, <3>1 DEF WriteFIFO
    <3>2. CASE Len(mailbox[Other(c)]) # Depth
      <4>1. Other(c) \in Core /\ Len(mailbox[Other(c)]) < Depth
        <5>1. Other(c) \in Core
          BY DEF Other
        <5>2. mailbox[Other(c)] \in Seq(Value) /\ Len(mailbox[Other(c)]) <= Depth
          BY <5>1 DEF TypeOK
        <5> QED
          BY <3>2, <5>1, <5>2, MailboxAssumption
      <4>2. CASE c = 0
        <5>1. Inbox1!Push(v) /\ UNCHANGED Inbox0!vars
          BY <2>2, <3>2, <4>1, <4>2 DEF WriteFIFO, Other, Inbox1!Push, TypeOK
        <5> QED
          BY <5>1 DEF Inbox1!Next
      <4>3. CASE c = 1
        <5>1. Inbox0!Push(v) /\ UNCHANGED Inbox1!vars
          BY <2>2, <3>2, <4>1, <4>3 DEF WriteFIFO, Other, Inbox0!Push, TypeOK
        <5> QED
          BY <5>1 DEF Inbox0!Next
      <4> QED
        BY <4>2, <4>3
    <3> QED
      BY <3>1, <3>2
  <2>3. ASSUME NEW c \in Core, WriteStatus(c)
        PROVE  [Inbox0!Next]_Inbox0!vars /\ [Inbox1!Next]_Inbox1!vars
    BY <2>3 DEF WriteStatus
  <2>4. ASSUME NEW c \in Core, NEW l \in Lock,
               ReadSpinlock(c, l) \/ WriteSpinlock(c, l)
        PROVE  [Inbox0!Next]_Inbox0!vars /\ [Inbox1!Next]_Inbox1!vars
    BY <2>4 DEF ReadSpinlock, WriteSpinlock, fifoVars
  <2>5. CASE WatchdogTrigger
    BY <2>5 DEF WatchdogTrigger
  <2>6. CASE UNCHANGED vars
    BY <2>6 DEF vars
  <2> QED
    BY <2>1, <2>2, <2>3, <2>4, <2>5, <2>6 DEF Next, Access
<1> QED
  BY <1>1, <1>2, MailboxTypeOK, PTL
     DEF ResetSpec, MailboxesAreQueues, Inbox0!Spec, Inbox1!Spec

-----------------------------------------------------------------------------
(* The list of a Hazard3 arbiter. *)

\* t is s with e put in at place i; t is s without its element at place i.
Inserted(t, s, i, e) ==
  /\ Len(t) = Len(s) + 1 /\ t[i] = e
  /\ \A k \in 1 .. (i - 1) : t[k] = s[k]
  /\ \A k \in (i + 1) .. Len(t) : t[k] = s[k - 1]

Removed(t, s, i) ==
  /\ Len(t) = Len(s) - 1
  /\ \A k \in 1 .. (i - 1) : t[k] = s[k]
  /\ \A k \in i .. Len(t) : t[k] = s[k + 1]

LEMMA InsertFacts ==
  ASSUME NEW T, NEW s \in Seq(T), NEW e \in T, NEW i \in 1 .. (Len(s) + 1)
  PROVE  XH!InsertAt(s, i, e) \in Seq(T) /\ Inserted(XH!InsertAt(s, i, e), s, i, e)
<1> DEFINE a == SubSeq(s, 1, i - 1)
           b == SubSeq(s, i, Len(s))
           m == <<e>>
<1>0. i \in Nat /\ Len(s) \in Nat /\ \A k \in 1 .. Len(s) : s[k] \in T
  OBVIOUS
<1>1. a \in Seq(T) /\ Len(a) = i - 1 /\ \A k \in 1 .. (i - 1) : a[k] = s[k]
  <2>1. \A k \in 1 .. (i - 1) : s[k] \in T
    BY <1>0
  <2> QED
    BY <1>0, <2>1, SubSeqProperties
<1>2. b \in Seq(T) /\ Len(b) = Len(s) - i + 1 /\ \A k \in 1 .. (Len(s) - i + 1) : b[k] = s[i + k - 1]
  <2>1. \A k \in i .. Len(s) : s[k] \in T
    BY <1>0
  <2> QED
    BY <1>0, <2>1, SubSeqProperties
<1>3. m \in Seq(T) /\ Len(m) = 1 /\ m[1] = e
  OBVIOUS
<1> HIDE DEF a, b, m
<1>4. /\ a \o m \in Seq(T) /\ Len(a \o m) = i
      /\ \A k \in 1 .. (i - 1) : (a \o m)[k] = s[k]
      /\ (a \o m)[i] = e
  <2>1. /\ a \o m \in Seq(T) /\ Len(a \o m) = Len(a) + Len(m)
        /\ \A k \in 1 .. Len(a) + Len(m) :
             (a \o m)[k] = IF k <= Len(a) THEN a[k] ELSE m[k - Len(a)]
    BY <1>1, <1>3, ConcatProperties
  <2>2. Len(a) + Len(m) = i
    BY <1>0, <1>1, <1>3
  <2>3. \A k \in 1 .. (i - 1) : k \in 1 .. Len(a) + Len(m) /\ k <= Len(a)
    BY <1>0, <1>1, <2>2
  <2>4. i \in 1 .. Len(a) + Len(m) /\ ~(i <= Len(a)) /\ i - Len(a) = 1
    BY <1>0, <1>1, <2>2
  <2>5. (a \o m)[i] = m[1]
    BY <2>1, <2>4
  <2>6. \A k \in 1 .. (i - 1) : (a \o m)[k] = a[k]
    BY <2>1, <2>3
  <2> QED
    BY <1>1, <1>3, <2>1, <2>2, <2>5, <2>6
<1> DEFINE am == a \o m
<1> HIDE DEF am
<1>5. /\ am \o b \in Seq(T) /\ Len(am \o b) = Len(s) + 1
      /\ \A k \in 1 .. (Len(s) + 1) : (am \o b)[k] = IF k <= i THEN am[k] ELSE b[k - i]
  <2>1. /\ am \o b \in Seq(T) /\ Len(am \o b) = Len(am) + Len(b)
        /\ \A k \in 1 .. Len(am) + Len(b) :
             (am \o b)[k] = IF k <= Len(am) THEN am[k] ELSE b[k - Len(am)]
    <3>1. am \in Seq(T)
      BY <1>4 DEF am
    <3> QED
      BY <1>2, <3>1, ConcatProperties
  <2>2. Len(am) = i /\ Len(am) + Len(b) = Len(s) + 1
    BY <1>0, <1>2, <1>4 DEF am
  <2> QED
    BY <2>1, <2>2
<1>6. XH!InsertAt(s, i, e) = am \o b
  BY DEF XH!InsertAt, am, a, b, m
<1>7. \A k \in 1 .. (i - 1) : (am \o b)[k] = s[k]
  BY <1>0, <1>4, <1>5 DEF am
<1>8. (am \o b)[i] = e
  BY <1>0, <1>4, <1>5 DEF am
<1>9. ASSUME NEW k \in (i + 1) .. (Len(s) + 1)  PROVE (am \o b)[k] = s[k - 1]
  <2>1. (am \o b)[k] = b[k - i]
    BY <1>0, <1>5
  <2>2. k - i \in 1 .. (Len(s) - i + 1) /\ i + (k - i) - 1 = k - 1
    BY <1>0
  <2> QED
    BY <1>2, <2>1, <2>2
<1> QED
  BY <1>5, <1>6, <1>7, <1>8, <1>9 DEF Inserted

LEMMA RemoveFacts ==
  ASSUME NEW T, NEW s \in Seq(T), NEW i \in 1 .. Len(s)
  PROVE  XH!RemoveAt(s, i) \in Seq(T) /\ Removed(XH!RemoveAt(s, i), s, i)
<1> DEFINE a == SubSeq(s, 1, i - 1)
           b == SubSeq(s, i + 1, Len(s))
<1>0. i \in Nat /\ Len(s) \in Nat /\ \A k \in 1 .. Len(s) : s[k] \in T
  OBVIOUS
<1>1. a \in Seq(T) /\ Len(a) = i - 1 /\ \A k \in 1 .. (i - 1) : a[k] = s[k]
  <2>1. \A k \in 1 .. (i - 1) : s[k] \in T
    BY <1>0
  <2> QED
    BY <1>0, <2>1, SubSeqProperties
<1>2. b \in Seq(T) /\ Len(b) = Len(s) - i /\ \A k \in 1 .. (Len(s) - i) : b[k] = s[i + k]
  <2>1. \A k \in (i + 1) .. Len(s) : s[k] \in T
    BY <1>0
  <2>2. \A k \in 1 .. (Len(s) - i) : (i + 1) + k - 1 = i + k
    BY <1>0
  <2> QED
    BY <1>0, <2>1, <2>2, SubSeqProperties
<1> HIDE DEF a, b
<1>5. /\ a \o b \in Seq(T) /\ Len(a \o b) = Len(s) - 1
      /\ \A k \in 1 .. (Len(s) - 1) : (a \o b)[k] = IF k <= i - 1 THEN a[k] ELSE b[k - (i - 1)]
  BY <1>0, <1>1, <1>2, ConcatProperties
<1>6. XH!RemoveAt(s, i) = a \o b
  BY DEF XH!RemoveAt, a, b
<1>7. \A k \in 1 .. (i - 1) : (a \o b)[k] = s[k]
  BY <1>0, <1>1, <1>5
<1>9. ASSUME NEW k \in i .. (Len(s) - 1)  PROVE (a \o b)[k] = s[k + 1]
  <2>1. (a \o b)[k] = b[k - (i - 1)]
    BY <1>0, <1>5
  <2>2. k - (i - 1) \in 1 .. (Len(s) - i) /\ i + (k - (i - 1)) = k + 1
    BY <1>0
  <2> QED
    BY <1>2, <2>1, <2>2
<1> QED
  BY <1>5, <1>6, <1>7, <1>9 DEF Removed

-----------------------------------------------------------------------------
(* The candidate list. *)

Entry == Irq \X Nat

Sorted(s) == \A j, k \in 1 .. Len(s) : j < k => XH!Outranks(s[j], s[k])

\* s lists the interrupts of A with their priorities in p, best first.
Lists(s, A, p) ==
  /\ s \in Seq(Entry) /\ Sorted(s)
  /\ \A k \in 1 .. Len(s) : s[k][1] \in A /\ s[k][2] = p[s[k][1]]
  /\ \A i \in A : \E k \in 1 .. Len(s) : s[k] = <<i, p[i]>>

LEMMA OutranksOrder ==
  ASSUME H3Assumption
  PROVE  /\ \A e, f \in Entry : e[1] # f[1] => XH!Outranks(e, f) \/ XH!Outranks(f, e)
         /\ \A e, f, g \in Entry : XH!Outranks(e, f) /\ XH!Outranks(f, g) => XH!Outranks(e, g)
         /\ \A e, f \in Entry : XH!Outranks(e, f) => e # f /\ ~XH!Outranks(f, e) /\ e[2] >= f[2]
<1>0. \A e \in Entry : e[1] \in Nat /\ e[2] \in Nat
  BY DEF H3Assumption, Entry
<1>1. \A e, f \in Entry : e[1] # f[1] => XH!Outranks(e, f) \/ XH!Outranks(f, e)
  BY <1>0 DEF XH!Outranks
<1>2. \A e, f, g \in Entry : XH!Outranks(e, f) /\ XH!Outranks(f, g) => XH!Outranks(e, g)
  BY <1>0 DEF XH!Outranks
<1>3. \A e, f \in Entry : XH!Outranks(e, f) => e # f /\ ~XH!Outranks(f, e) /\ e[2] >= f[2]
  BY <1>0 DEF XH!Outranks
<1> QED
  BY <1>1, <1>2, <1>3

LEMMA LeastNat ==
  ASSUME NEW S, S \subseteq Nat, S # {}
  PROVE  \E m \in S : \A n \in S : m <= n
<1>1. IsWellFoundedOn(OpToRel(<, Nat), Nat)
  BY NatLessThanWellFounded
<1>2. PICK m \in S : \A y \in S : ~(<<y, m>> \in OpToRel(<, Nat))
  BY <1>1, WFMin
<1>3. ASSUME NEW n \in S PROVE m <= n
  <2>1. m \in Nat /\ n \in Nat
    OBVIOUS
  <2>2. ~(n < m)
    BY <1>2, <2>1 DEF OpToRel
  <2> QED
    BY <2>1, <2>2
<1> QED
  BY <1>3

\* The place that insertCandidate's loop stops at.
Place(s, e, k) ==
  /\ \A i \in k .. Len(s) : XH!Outranks(e, s[i])
  /\ k > 1 => ~XH!Outranks(e, s[k - 1])

LEMMA PlaceExists ==
  ASSUME H3Assumption, NEW s \in Seq(Entry), NEW e \in Entry
  PROVE  \E k \in 1 .. (Len(s) + 1) : Place(s, e, k)
<1> DEFINE S == {k \in 1 .. (Len(s) + 1) : \A i \in k .. Len(s) : XH!Outranks(e, s[i])}
<1>1. Len(s) + 1 \in S /\ S \subseteq Nat
  OBVIOUS
<1>2. PICK k \in S : \A n \in S : k <= n
  BY <1>1, LeastNat
<1>3. ASSUME k > 1 PROVE ~XH!Outranks(e, s[k - 1])
  <2> SUFFICES ASSUME XH!Outranks(e, s[k - 1]) PROVE FALSE
    OBVIOUS
  <2>1. k - 1 \in 1 .. (Len(s) + 1)
    BY <1>3
  <2>2. \A i \in (k - 1) .. Len(s) : i = k - 1 \/ i \in k .. Len(s)
    BY <2>1
  <2>3. k - 1 \in S
    BY <2>1, <2>2
  <2>4. k <= k - 1
    BY <1>2, <2>3
  <2> QED
    BY <2>1, <2>4
<1> QED
  BY <1>3 DEF Place

LEMMA InsertPlace ==
  ASSUME H3Assumption, NEW s \in Seq(Entry), NEW e \in Entry
  PROVE  \E k \in 1 .. (Len(s) + 1) :
           Place(s, e, k) /\ XH!InsertCandidate(s, e) = XH!InsertAt(s, k, e)
BY PlaceExists DEF XH!InsertCandidate, Place

LEMMA InsertSorts ==
  ASSUME H3Assumption, NEW s \in Seq(Entry), NEW e \in Entry, Sorted(s),
         \A k \in 1 .. Len(s) : s[k][1] # e[1],
         NEW k \in 1 .. (Len(s) + 1), Place(s, e, k), NEW t \in Seq(Entry), Inserted(t, s, k, e)
  PROVE  Sorted(t)
<1>0. k \in Nat /\ Len(s) \in Nat /\ Len(t) = Len(s) + 1 /\ t[k] = e
  BY DEF Inserted
<1>1. \A i \in 1 .. Len(s) : s[i] \in Entry
  OBVIOUS
<1>2. \A i \in k .. Len(s) : XH!Outranks(e, s[i])
  BY DEF Place
<1>3. \A i \in 1 .. (k - 1) : XH!Outranks(s[i], e)
  <2>1. SUFFICES ASSUME NEW i \in 1 .. (k - 1) PROVE XH!Outranks(s[i], e)
    OBVIOUS
  <2>2. k - 1 \in 1 .. Len(s) /\ k > 1 /\ i \in 1 .. Len(s) /\ (i = k - 1 \/ i < k - 1)
    BY <1>0
  <2>3. XH!Outranks(s[k - 1], e)
    BY <1>1, <2>2, OutranksOrder DEF Place
  <2>4. i < k - 1 => XH!Outranks(s[i], s[k - 1])
    BY <2>2 DEF Sorted
  <2>5. s[i] \in Entry /\ s[k - 1] \in Entry
    BY <1>1, <2>2
  <2> QED
    BY <2>2, <2>3, <2>4, <2>5, OutranksOrder
<1>4. ASSUME NEW i \in 1 .. Len(t), NEW j \in 1 .. Len(t), i < j
      PROVE  XH!Outranks(t[i], t[j])
  <2>1. CASE j < k
    <3>1. t[i] = s[i] /\ t[j] = s[j] /\ i \in 1 .. Len(s) /\ j \in 1 .. Len(s)
      BY <1>0, <1>4, <2>1 DEF Inserted
    <3> QED
      BY <1>4, <3>1 DEF Sorted
  <2>2. CASE j = k
    <3>1. t[i] = s[i] /\ i \in 1 .. (k - 1)
      BY <1>0, <1>4, <2>2 DEF Inserted
    <3> QED
      BY <1>0, <1>3, <2>2, <3>1
  <2>3. CASE j > k /\ i < k
    <3>1. t[i] = s[i] /\ i \in 1 .. Len(s) /\ t[j] = s[j - 1] /\ j - 1 \in 1 .. Len(s) /\ i < j - 1
      BY <1>0, <1>4, <2>3 DEF Inserted
    <3> QED
      BY <3>1 DEF Sorted
  <2>4. CASE j > k /\ i = k
    <3>1. t[j] = s[j - 1] /\ j - 1 \in k .. Len(s)
      BY <1>0, <1>4, <2>4 DEF Inserted
    <3> QED
      BY <1>0, <1>2, <2>4, <3>1
  <2>5. CASE i > k
    <3>1. t[i] = s[i - 1] /\ t[j] = s[j - 1] /\ i - 1 \in 1 .. Len(s) /\ j - 1 \in 1 .. Len(s) /\ i - 1 < j - 1
      BY <1>0, <1>4, <2>5 DEF Inserted
    <3> QED
      BY <3>1 DEF Sorted
  <2> QED
    BY <1>0, <1>4, <2>1, <2>2, <2>3, <2>4, <2>5
<1> QED
  BY <1>4 DEF Sorted

\* The elements of a sequence one was put into.
LEMMA InsertedElements ==
  ASSUME NEW T, NEW s \in Seq(T), NEW e \in T, NEW k \in 1 .. (Len(s) + 1),
         NEW t \in Seq(T), Inserted(t, s, k, e)
  PROVE  /\ \A j \in 1 .. Len(t) : t[j] = e \/ \E i \in 1 .. Len(s) : t[j] = s[i]
         /\ \A i \in 1 .. Len(s) : \E j \in 1 .. Len(t) : t[j] = s[i]
         /\ \E j \in 1 .. Len(t) : t[j] = e
<1>0. k \in Nat /\ Len(s) \in Nat /\ Len(t) = Len(s) + 1 /\ t[k] = e /\ k \in 1 .. Len(t)
  BY DEF Inserted
<1>1. ASSUME NEW j \in 1 .. Len(t)
      PROVE  t[j] = e \/ \E i \in 1 .. Len(s) : t[j] = s[i]
  <2>1. CASE j < k
    BY <1>0, <2>1 DEF Inserted
  <2>2. CASE j = k
    BY <1>0, <2>2
  <2>3. CASE j > k
    <3>1. t[j] = s[j - 1] /\ j - 1 \in 1 .. Len(s)
      BY <1>0, <2>3 DEF Inserted
    <3> QED
      BY <3>1
  <2> QED
    BY <1>0, <2>1, <2>2, <2>3
<1>2. ASSUME NEW i \in 1 .. Len(s)
      PROVE  \E j \in 1 .. Len(t) : t[j] = s[i]
  <2>1. CASE i < k
    <3>1. t[i] = s[i] /\ i \in 1 .. Len(t)
      BY <1>0, <2>1 DEF Inserted
    <3> QED
      BY <3>1
  <2>2. CASE i >= k
    <3>1. t[i + 1] = s[i] /\ i + 1 \in 1 .. Len(t)
      BY <1>0, <2>2 DEF Inserted
    <3> QED
      BY <3>1
  <2> QED
    BY <1>0, <2>1, <2>2
<1> QED
  BY <1>0, <1>1, <1>2

LEMMA RemovedElements ==
  ASSUME NEW T, NEW s \in Seq(T), NEW k \in 1 .. Len(s), NEW t \in Seq(T), Removed(t, s, k)
  PROVE  /\ \A j \in 1 .. Len(t) : \E i \in 1 .. Len(s) : i # k /\ t[j] = s[i]
         /\ \A i \in 1 .. Len(s) : i # k => \E j \in 1 .. Len(t) : t[j] = s[i]
<1>0. k \in Nat /\ Len(s) \in Nat /\ Len(t) = Len(s) - 1
  BY DEF Removed
<1>1. ASSUME NEW j \in 1 .. Len(t)
      PROVE  \E i \in 1 .. Len(s) : i # k /\ t[j] = s[i]
  <2>1. CASE j < k
    <3>1. t[j] = s[j] /\ j \in 1 .. Len(s) /\ j # k
      BY <1>0, <2>1 DEF Removed
    <3> QED
      BY <3>1
  <2>3. CASE j >= k
    <3>1. t[j] = s[j + 1] /\ j + 1 \in 1 .. Len(s) /\ j + 1 # k
      BY <1>0, <2>3 DEF Removed
    <3> QED
      BY <3>1
  <2> QED
    BY <1>0, <2>1, <2>3
<1>2. ASSUME NEW i \in 1 .. Len(s), i # k
      PROVE  \E j \in 1 .. Len(t) : t[j] = s[i]
  <2>1. CASE i < k
    <3>1. t[i] = s[i] /\ i \in 1 .. Len(t)
      BY <1>0, <2>1 DEF Removed
    <3> QED
      BY <3>1
  <2>2. CASE i > k
    <3>1. t[i - 1] = s[i] /\ i - 1 \in 1 .. Len(t)
      BY <1>0, <2>2 DEF Removed
    <3> QED
      BY <3>1
  <2> QED
    BY <1>0, <1>2, <2>1, <2>2
<1> QED
  BY <1>1, <1>2

LEMMA RemoveSorts ==
  ASSUME NEW s \in Seq(Entry), Sorted(s), NEW k \in 1 .. Len(s), NEW t \in Seq(Entry), Removed(t, s, k)
  PROVE  Sorted(t)
<1>0. k \in Nat /\ Len(s) \in Nat /\ Len(t) = Len(s) - 1
  BY DEF Removed
<1>4. ASSUME NEW i \in 1 .. Len(t), NEW j \in 1 .. Len(t), i < j
      PROVE  XH!Outranks(t[i], t[j])
  <2>1. CASE j < k
    <3>1. t[i] = s[i] /\ t[j] = s[j] /\ i \in 1 .. Len(s) /\ j \in 1 .. Len(s)
      BY <1>0, <1>4, <2>1 DEF Removed
    <3> QED
      BY <1>4, <3>1 DEF Sorted
  <2>3. CASE j >= k /\ i < k
    <3>1. t[i] = s[i] /\ i \in 1 .. Len(s) /\ t[j] = s[j + 1] /\ j + 1 \in 1 .. Len(s) /\ i < j + 1
      BY <1>0, <1>4, <2>3 DEF Removed
    <3> QED
      BY <3>1 DEF Sorted
  <2>5. CASE i >= k
    <3>1. t[i] = s[i + 1] /\ t[j] = s[j + 1] /\ i + 1 \in 1 .. Len(s) /\ j + 1 \in 1 .. Len(s) /\ i + 1 < j + 1
      BY <1>0, <1>4, <2>5 DEF Removed
    <3> QED
      BY <3>1 DEF Sorted
  <2> QED
    BY <1>0, <1>4, <2>1, <2>3, <2>5
<1> QED
  BY <1>4 DEF Sorted

\* insertCandidate keeps the list sorted and adds one interrupt to it.
LEMMA InsertLists ==
  ASSUME H3Assumption, NEW s, NEW A \in SUBSET Irq, NEW p \in [Irq -> Nat], Lists(s, A, p),
         NEW i \in Irq \ A
  PROVE  Lists(XH!InsertCandidate(s, <<i, p[i]>>), A \cup {i}, p)
<1> DEFINE e == <<i, p[i]>>
           t == XH!InsertCandidate(s, e)
<1>1. e \in Entry /\ e[1] = i /\ e[2] = p[i]
  BY DEF Entry
<1>2. s \in Seq(Entry) /\ Sorted(s) /\ \A k \in 1 .. Len(s) : s[k][1] # e[1]
  BY <1>1 DEF Lists
<1> HIDE DEF e
<1>3. PICK k \in 1 .. (Len(s) + 1) : Place(s, e, k) /\ t = XH!InsertAt(s, k, e)
  BY <1>1, <1>2, InsertPlace
<1> HIDE DEF t
<1>4. t \in Seq(Entry) /\ Inserted(t, s, k, e)
  BY <1>1, <1>2, <1>3, InsertFacts
<1>5. Sorted(t)
  BY <1>1, <1>2, <1>3, <1>4, InsertSorts
<1>6. /\ \A j \in 1 .. Len(t) : t[j] = e \/ \E m \in 1 .. Len(s) : t[j] = s[m]
      /\ \A m \in 1 .. Len(s) : \E j \in 1 .. Len(t) : t[j] = s[m]
      /\ \E j \in 1 .. Len(t) : t[j] = e
  BY <1>1, <1>2, <1>4, InsertedElements
<1>7. ASSUME NEW j \in 1 .. Len(t) PROVE t[j][1] \in A \cup {i} /\ t[j][2] = p[t[j][1]]
  <2>1. CASE t[j] = e
    BY <1>1, <2>1
  <2>2. CASE t[j] # e
    <3>1. PICK m \in 1 .. Len(s) : t[j] = s[m]
      BY <1>6, <2>2
    <3>2. s[m][1] \in A /\ s[m][2] = p[s[m][1]]
      BY DEF Lists
    <3> QED
      BY <3>1, <3>2
  <2> QED
    BY <2>1, <2>2
<1>8. \A m \in A \cup {i} : \E j \in 1 .. Len(t) : t[j] = <<m, p[m]>>
  <2>1. ASSUME NEW m \in A PROVE \E j \in 1 .. Len(t) : t[j] = <<m, p[m]>>
    <3>1. PICK n \in 1 .. Len(s) : s[n] = <<m, p[m]>>
      BY DEF Lists
    <3>2. PICK j \in 1 .. Len(t) : t[j] = s[n]
      BY <1>6
    <3> QED
      BY <3>1, <3>2
  <2>2. \E j \in 1 .. Len(t) : t[j] = <<i, p[i]>>
    BY <1>6 DEF e
  <2> QED
    BY <2>1, <2>2
<1> QED
  BY <1>4, <1>5, <1>7, <1>8 DEF Lists, t, e

\* Nothing in s ranks above the entry at its head.
LEMMA HeadIsBest ==
  ASSUME H3Assumption, NEW s \in Seq(Entry), Sorted(s), NEW k \in 1 .. Len(s)
  PROVE  /\ s # <<>> /\ Head(s) = s[1] /\ Head(s) \in Entry
         /\ s[k][2] \in Nat /\ Head(s)[2] \in Nat /\ Head(s)[2] >= s[k][2]
<1>1. s # <<>> /\ Head(s) = s[1] /\ Head(s) \in Entry /\ s[k] \in Entry /\ Len(s) \in Nat
  OBVIOUS
<1>2. s[k][2] \in Nat /\ Head(s)[2] \in Nat
  BY <1>1 DEF Entry
<1>3. CASE k = 1
  BY <1>1, <1>2, <1>3
<1>4. CASE k # 1
  <2>1. 1 \in 1 .. Len(s) /\ 1 < k
    BY <1>1, <1>4
  <2>2. XH!Outranks(s[1], s[k])
    BY <2>1 DEF Sorted
  <2> QED
    BY <1>1, <1>2, <2>2, OutranksOrder
<1> QED
  BY <1>3, <1>4

\* No entry of t ranks above the best of s.
NoBetter(t, s) == t # <<>> => s # <<>> /\ Head(t)[2] <= Head(s)[2]

\* removeCandidate leaves the others as they are, also when the priority of the
\* one it removes has just been changed.
LEMMA RemoveLists ==
  ASSUME H3Assumption, NEW s, NEW A \in SUBSET Irq, NEW p \in [Irq -> Nat], Lists(s, A, p),
         NEW i \in Irq, NEW q \in [Irq -> Nat], \A j \in Irq : j # i => q[j] = p[j]
  PROVE  /\ Lists(XH!RemoveCandidate(s, i), A \ {i}, q)
         /\ NoBetter(XH!RemoveCandidate(s, i), s)
<1> DEFINE t == XH!RemoveCandidate(s, i)
<1>0. s \in Seq(Entry) /\ Sorted(s) /\ Len(s) \in Nat /\ DOMAIN s = 1 .. Len(s)
  BY DEF Lists
<1>1. CASE \A k \in 1 .. Len(s) : s[k][1] # i
  <2>1. t = s
    BY <1>0, <1>1 DEF XH!RemoveCandidate
  <2>2. i \notin A
    <3> SUFFICES ASSUME i \in A PROVE FALSE
      OBVIOUS
    <3>1. PICK k \in 1 .. Len(s) : s[k] = <<i, p[i]>>
      BY DEF Lists
    <3> QED
      BY <1>1, <3>1
  <2>3. Lists(s, A \ {i}, q)
    <3>1. \A k \in 1 .. Len(s) : s[k][1] \in A \ {i} /\ s[k][2] = q[s[k][1]]
      BY <1>1 DEF Lists
    <3>2. \A j \in A \ {i} : \E k \in 1 .. Len(s) : s[k] = <<j, q[j]>>
      BY DEF Lists
    <3> QED
      BY <1>0, <3>1, <3>2 DEF Lists
  <2>4. s # <<>> => Head(s)[2] <= Head(s)[2]
    <3>1. s # <<>> => 1 \in 1 .. Len(s)
      BY <1>0
    <3>2. s # <<>> => Head(s)[2] \in Nat
      BY <1>0, <3>1, HeadIsBest
    <3> QED
      BY <3>2
  <2> QED
    BY <2>1, <2>3, <2>4 DEF NoBetter
<1>2. CASE \E k \in 1 .. Len(s) : s[k][1] = i
  <2>1. \E k \in 1 .. Len(s) : s[k][1] = i /\ \A j \in 1 .. (k - 1) : s[j][1] # i
    <3> DEFINE S == {k \in 1 .. Len(s) : s[k][1] = i}
    <3>1. S # {} /\ S \subseteq Nat
      BY <1>2
    <3>2. PICK k \in S : \A n \in S : k <= n
      BY <3>1, LeastNat
    <3>3. \A j \in 1 .. (k - 1) : j \in 1 .. Len(s) /\ ~(k <= j)
      BY <1>0
    <3> QED
      BY <3>2, <3>3
  <2>2. PICK k \in 1 .. Len(s) : s[k][1] = i /\ t = XH!RemoveAt(s, k)
    BY <1>0, <2>1 DEF XH!RemoveCandidate
  <2> HIDE DEF t
  <2>3. t \in Seq(Entry) /\ Removed(t, s, k)
    BY <1>0, <2>2, RemoveFacts
  <2>4. Sorted(t)
    BY <1>0, <2>3, RemoveSorts
  <2>5. /\ \A j \in 1 .. Len(t) : \E m \in 1 .. Len(s) : m # k /\ t[j] = s[m]
        /\ \A m \in 1 .. Len(s) : m # k => \E j \in 1 .. Len(t) : t[j] = s[m]
    BY <1>0, <2>3, RemovedElements
  <2>6. \A m \in 1 .. Len(s) : m # k => s[m][1] # i
    <3> SUFFICES ASSUME NEW m \in 1 .. Len(s), m # k, s[m][1] = i PROVE FALSE
      OBVIOUS
    <3>1. s[m] \in Entry /\ s[k] \in Entry /\ s[m][2] = p[i] /\ s[k][2] = p[i]
      BY <1>0, <2>2 DEF Lists
    <3>2. s[m] = s[k]
      BY <2>2, <3>1 DEF Entry
    <3>3. m < k \/ k < m
      BY <1>0
    <3>4. XH!Outranks(s[m], s[k]) \/ XH!Outranks(s[k], s[m])
      BY <1>0, <3>3 DEF Sorted
    <3> QED
      BY <3>1, <3>2, <3>4, OutranksOrder
  <2>7. ASSUME NEW j \in 1 .. Len(t) PROVE t[j][1] \in A \ {i} /\ t[j][2] = q[t[j][1]]
    <3>1. PICK m \in 1 .. Len(s) : m # k /\ t[j] = s[m]
      BY <2>5
    <3>2. s[m][1] \in A /\ s[m][2] = p[s[m][1]] /\ s[m][1] # i
      BY <2>6, <3>1 DEF Lists
    <3> QED
      BY <3>1, <3>2
  <2>8. ASSUME NEW n \in A \ {i} PROVE \E j \in 1 .. Len(t) : t[j] = <<n, q[n]>>
    <3>1. PICK m \in 1 .. Len(s) : s[m] = <<n, p[n]>>
      BY DEF Lists
    <3>2. m # k /\ q[n] = p[n]
      BY <2>2, <3>1
    <3> QED
      BY <2>5, <3>1, <3>2
  <2>9. t # <<>> => s # <<>> /\ Head(t)[2] <= Head(s)[2]
    <3> SUFFICES ASSUME t # <<>> PROVE s # <<>> /\ Head(t)[2] <= Head(s)[2]
      OBVIOUS
    <3>1. 1 \in 1 .. Len(t) /\ Head(t) = t[1]
      BY <2>3
    <3>2. PICK m \in 1 .. Len(s) : t[1] = s[m]
      BY <2>5, <3>1
    <3> QED
      BY <1>0, <3>1, <3>2, HeadIsBest
  <2> QED
    BY <2>3, <2>4, <2>7, <2>8, <2>9 DEF Lists, t, NoBetter
<1> QED
  BY <1>1, <1>2

-----------------------------------------------------------------------------
(* The inductive invariant of the Hazard3 controller. *)

Cpu == [meiea : [Irq -> BOOLEAN], meipa : [Irq -> BOOLEAN], meifa : [Irq -> BOOLEAN],
        meipra : [Irq -> Nat], candidates : Seq(Entry), meinext : Irq \cup {NoIrq},
        preempt : Nat, ppreempt : Nat, pppreempt : Nat, mreteirq : BOOLEAN,
        meie : BOOLEAN, mie : BOOLEAN, mpie : BOOLEAN, interruptsUpdated : BOOLEAN,
        waiting : BOOLEAN, waitingOnBlock : BOOLEAN, eventRegistered : BOOLEAN]

Listed(c) == {i \in Irq : c.meiea[i] /\ c.meipa[i]}

Exact(c) == Lists(c.candidates, Listed(c), c.meipra)

\* MEINEXT names the best candidate or nothing.  It names nothing beside a candidate
\* only where PPREEMPT hides that, or where it was not recomputed after the mret that
\* lowered PPREEMPT to what PREEMPT had not been below.
BestNamed(c) == c.meinext # NoIrq => c.candidates # <<>> /\ c.meinext = Head(c.candidates)[1]

HiddenBelow(c) ==
  c.meinext = NoIrq /\ c.candidates # <<>> =>
    \/ Head(c.candidates)[2] < c.ppreempt
    \/ Head(c.candidates)[2] < c.preempt /\ ~c.mreteirq

Noticed(c) ==
  c.meie /\ c.meinext # NoIrq /\ Head(c.candidates)[2] >= c.preempt /\ (c.mie \/ c.waiting)
    => c.interruptsUpdated

Attentive(c) == BestNamed(c) /\ HiddenBelow(c) /\ Noticed(c)

Released(c) == c.waiting /\ c.waitingOnBlock => ~c.eventRegistered

CpuOK(c) == c \in Cpu /\ Exact(c) /\ Attentive(c) /\ Released(c)

\* d differs from c in the arrays and the list only.
SameMasks(c, d) ==
  /\ d.meinext = c.meinext /\ d.preempt = c.preempt /\ d.ppreempt = c.ppreempt
  /\ d.mreteirq = c.mreteirq /\ d.meie = c.meie /\ d.mie = c.mie
  /\ d.interruptsUpdated = c.interruptsUpdated /\ d.waiting = c.waiting
  /\ d.waitingOnBlock = c.waitingOnBlock /\ d.eventRegistered = c.eventRegistered

LEMMA HeadTyped ==
  ASSUME H3Assumption, NEW s \in Seq(Entry), s # <<>>
  PROVE  Head(s) \in Entry /\ Head(s)[1] \in Irq /\ Head(s)[2] \in Nat
<1>1. Head(s) \in Entry
  OBVIOUS
<1> QED
  BY <1>1 DEF Entry

LEMMA UpdateFields ==
  ASSUME H3Assumption, NEW c \in Cpu
  PROVE  /\ XH!UpdateMEINEXT(c) \in Cpu
         /\ XH!UpdateMEINEXT(c).meinext = XH!Visible(c)
         /\ SameMasks([c EXCEPT !.meinext = XH!Visible(c)], XH!UpdateMEINEXT(c))
         /\ XH!UpdateMEINEXT(c).candidates = c.candidates
         /\ XH!UpdateMEINEXT(c).meiea = c.meiea
         /\ XH!UpdateMEINEXT(c).meipa = c.meipa
         /\ XH!UpdateMEINEXT(c).meipra = c.meipra
<1>1. c.candidates \in Seq(Entry)
  BY DEF Cpu
<1>2. XH!Visible(c) \in Irq \cup {NoIrq}
  BY <1>1, HeadTyped DEF XH!Visible
<1> QED
  BY <1>2 DEF XH!UpdateMEINEXT, Cpu, SameMasks

\* Taking entries off the list, and recomputing MEINEXT, lets nothing new through.
LEMMA Recompute ==
  ASSUME H3Assumption, NEW c \in Cpu, Attentive(c), NEW d \in Cpu, SameMasks(c, d),
         NoBetter(d.candidates, c.candidates)
  PROVE  Attentive(XH!UpdateMEINEXT(d))
<1> DEFINE e == XH!UpdateMEINEXT(d)
           h == Head(d.candidates)[2]
           g == Head(c.candidates)[2]
<1>1. /\ e.meinext = XH!Visible(d) /\ e.candidates = d.candidates
      /\ e.preempt = c.preempt /\ e.ppreempt = c.ppreempt /\ e.mreteirq = c.mreteirq
      /\ e.meie = c.meie /\ e.mie = c.mie /\ e.waiting = c.waiting
      /\ e.interruptsUpdated = c.interruptsUpdated
  <2>1. SameMasks([d EXCEPT !.meinext = XH!Visible(d)], XH!UpdateMEINEXT(d))
    BY UpdateFields
  <2>2. e.meinext = XH!Visible(d) /\ e.candidates = d.candidates
    BY UpdateFields
  <2>3. /\ e.preempt = d.preempt /\ e.ppreempt = d.ppreempt /\ e.mreteirq = d.mreteirq
        /\ e.meie = d.meie /\ e.mie = d.mie /\ e.waiting = d.waiting
        /\ e.interruptsUpdated = d.interruptsUpdated
    BY <2>1 DEF SameMasks, Cpu
  <2> QED
    BY <2>2, <2>3 DEF SameMasks
<1>2. c.preempt \in Nat /\ c.ppreempt \in Nat /\ c.candidates \in Seq(Entry) /\ d.candidates \in Seq(Entry)
  BY DEF Cpu
<1>3. d.candidates # <<>> => /\ c.candidates # <<>> /\ h \in Nat /\ g \in Nat /\ h <= g
                             /\ Head(d.candidates)[1] \in Irq
  BY <1>2, HeadTyped DEF NoBetter
<1>4. XH!Visible(d) = IF d.candidates # <<>> /\ h >= c.ppreempt THEN Head(d.candidates)[1] ELSE NoIrq
  BY DEF XH!Visible, SameMasks
<1>5. XH!Visible(d) # NoIrq <=> d.candidates # <<>> /\ h >= c.ppreempt
  BY <1>3, <1>4 DEF H3Assumption
<1> HIDE DEF h, g, e
<1>6. BestNamed(e)
  BY <1>1, <1>4, <1>5 DEF BestNamed
<1>7. HiddenBelow(e)
  BY <1>1, <1>2, <1>3, <1>5 DEF HiddenBelow, h
<1>8. Noticed(e)
  <2> SUFFICES ASSUME c.meie, d.candidates # <<>>, h >= c.ppreempt, h >= c.preempt, c.mie \/ c.waiting
               PROVE  c.interruptsUpdated
    BY <1>1, <1>5 DEF Noticed, h
  <2>1. c.candidates # <<>> /\ g >= c.ppreempt /\ g >= c.preempt
    BY <1>2, <1>3
  <2>2. c.meinext # NoIrq
    BY <1>2, <1>3, <2>1 DEF Attentive, HiddenBelow, g
  <2> QED
    BY <2>1, <2>2 DEF Attentive, Noticed, g
<1> QED
  BY <1>6, <1>7, <1>8 DEF Attentive, e

\* Recomputing MEINEXT and asking for a check makes up for anything.
LEMMA Refresh ==
  ASSUME H3Assumption, NEW c \in Cpu, NEW d \in Cpu,
         d.meinext = XH!Visible(c), d.candidates = c.candidates, d.ppreempt = c.ppreempt,
         d.interruptsUpdated
  PROVE  Attentive(d)
<1>1. c.candidates \in Seq(Entry) /\ c.ppreempt \in Nat
  BY DEF Cpu
<1>2. c.candidates # <<>> => Head(c.candidates)[1] \in Irq /\ Head(c.candidates)[2] \in Nat
  BY <1>1, HeadTyped
<1>3. BestNamed(d) /\ HiddenBelow(d)
  BY <1>1, <1>2 DEF BestNamed, HiddenBelow, XH!Visible, H3Assumption
<1>4. Noticed(d)
  BY DEF Noticed
<1> QED
  BY <1>3, <1>4 DEF Attentive

\* Nothing depends on the arrays beyond what they put on the list.
LEMMA Relabelled ==
  ASSUME H3Assumption, NEW c \in Cpu, CpuOK(c), NEW d \in Cpu, SameMasks(c, d),
         d.candidates = c.candidates, Listed(d) = Listed(c),
         \A i \in Listed(c) : d.meipra[i] = c.meipra[i]
  PROVE  CpuOK(d)
<1>1. Exact(d)
  <2> DEFINE s == c.candidates
             A == Listed(c)
  <2>1. /\ s \in Seq(Entry) /\ Sorted(s)
        /\ \A k \in 1 .. Len(s) : s[k][1] \in A /\ s[k][2] = c.meipra[s[k][1]]
        /\ \A i \in A : \E k \in 1 .. Len(s) : s[k] = <<i, c.meipra[i]>>
    BY DEF CpuOK, Exact, Lists
  <2> HIDE DEF s, A
  <2>2. \A i \in A : d.meipra[i] = c.meipra[i]
    BY DEF A
  <2>3. \A k \in 1 .. Len(s) : s[k][1] \in A /\ s[k][2] = d.meipra[s[k][1]]
    BY <2>1, <2>2
  <2>4. \A i \in A : \E k \in 1 .. Len(s) : s[k] = <<i, d.meipra[i]>>
    BY <2>1, <2>2
  <2>5. Lists(s, A, d.meipra)
    BY <2>1, <2>3, <2>4 DEF Lists
  <2> QED
    BY <2>5 DEF Exact, s, A
<1>2. Attentive(d)
  BY DEF CpuOK, SameMasks, Attentive, BestNamed, HiddenBelow, Noticed
<1>3. Released(d)
  BY DEF CpuOK, SameMasks, Released
<1> QED
  BY <1>1, <1>2, <1>3 DEF CpuOK

-----------------------------------------------------------------------------
(* setInterrupt *)

TakenOut(c, i) == [c EXCEPT !.meipa[i] = FALSE, !.candidates = XH!RemoveCandidate(@, i)]
PutIn(c, i) == [c EXCEPT !.meipa[i] = TRUE,
                         !.candidates = XH!InsertCandidate(@, <<i, c.meipra[i]>>),
                         !.interruptsUpdated = TRUE]

LEMMA SetInterruptCases ==
  ASSUME NEW c \in Cpu, NEW i \in Irq
  PROVE  /\ ~c.meipa[i] /\ c.meiea[i] => XH!SetInterrupt(c, i, TRUE) = XH!UpdateMEINEXT(PutIn(c, i))
         /\ ~c.meipa[i] /\ ~c.meiea[i] => XH!SetInterrupt(c, i, TRUE) = [c EXCEPT !.meipa[i] = TRUE]
         /\ c.meipa[i] => XH!SetInterrupt(c, i, FALSE) = XH!UpdateMEINEXT(TakenOut(c, i))
         /\ c.meipa[i] => XH!SetInterrupt(c, i, TRUE) = c
         /\ ~c.meipa[i] => XH!SetInterrupt(c, i, FALSE) = c
BY DEF XH!SetInterrupt, PutIn, TakenOut

\* An interrupt is withdrawn, perhaps one whose priority p has just been replaced.
LEMMA Withdraw ==
  ASSUME H3Assumption, NEW c \in Cpu, Attentive(c), Released(c), NEW i \in Irq,
         NEW p \in [Irq -> Nat], Lists(c.candidates, Listed(c), p),
         \A j \in Irq : j # i => c.meipra[j] = p[j]
  PROVE  CpuOK(XH!UpdateMEINEXT(TakenOut(c, i)))
<1> DEFINE s == XH!RemoveCandidate(c.candidates, i)
           d == TakenOut(c, i)
<1>1. Listed(c) \in SUBSET Irq /\ c.meipra \in [Irq -> Nat]
  BY DEF Listed, Cpu
<1>2. Lists(s, Listed(c) \ {i}, c.meipra) /\ NoBetter(s, c.candidates)
  BY <1>1, RemoveLists
<1>3. s \in Seq(Entry)
  BY <1>2 DEF Lists
<1> HIDE DEF s
<1>4. d \in Cpu /\ d.candidates = s /\ SameMasks(c, d) /\ d.meipra = c.meipra /\ d.meiea = c.meiea
      /\ d.meipa = [c.meipa EXCEPT ![i] = FALSE]
  BY <1>3 DEF TakenOut, Cpu, SameMasks, s
<1>5. Listed(d) = Listed(c) \ {i}
  BY <1>4 DEF Listed, Cpu
<1> HIDE DEF d
<1>6. Attentive(XH!UpdateMEINEXT(d))
  BY <1>2, <1>4, Recompute
<1>7. /\ XH!UpdateMEINEXT(d) \in Cpu /\ XH!UpdateMEINEXT(d).candidates = s
      /\ XH!UpdateMEINEXT(d).meipra = c.meipra /\ Listed(XH!UpdateMEINEXT(d)) = Listed(d)
      /\ Released(XH!UpdateMEINEXT(d))
  <2>1. /\ XH!UpdateMEINEXT(d) \in Cpu /\ XH!UpdateMEINEXT(d).candidates = s
        /\ XH!UpdateMEINEXT(d).meipra = c.meipra
    BY <1>4, UpdateFields
  <2>2. Listed(XH!UpdateMEINEXT(d)) = Listed(d)
    BY <1>4, UpdateFields DEF Listed
  <2>3. SameMasks([d EXCEPT !.meinext = XH!Visible(d)], XH!UpdateMEINEXT(d))
    BY <1>4, UpdateFields
  <2>4. Released(XH!UpdateMEINEXT(d))
    BY <1>4, <2>3 DEF SameMasks, Released, Cpu
  <2> QED
    BY <2>1, <2>2, <2>4
<1>8. Exact(XH!UpdateMEINEXT(d))
  BY <1>2, <1>5, <1>7 DEF Exact
<1> QED
  BY <1>6, <1>7, <1>8 DEF CpuOK, d

LEMMA Enter ==
  ASSUME H3Assumption, NEW c \in Cpu, CpuOK(c), NEW i \in Irq, ~c.meipa[i], c.meiea[i]
  PROVE  CpuOK(XH!UpdateMEINEXT(PutIn(c, i)))
<1> DEFINE s == XH!InsertCandidate(c.candidates, <<i, c.meipra[i]>>)
           d == PutIn(c, i)
           u == XH!UpdateMEINEXT(d)
<1>1. Listed(c) \in SUBSET Irq /\ c.meipra \in [Irq -> Nat] /\ i \in Irq \ Listed(c)
  BY DEF Listed, Cpu
<1>2. Lists(s, Listed(c) \cup {i}, c.meipra)
  BY <1>1, InsertLists DEF CpuOK, Exact
<1>3. s \in Seq(Entry)
  BY <1>2 DEF Lists
<1> HIDE DEF s
<1>4. d \in Cpu /\ d.candidates = s /\ d.meipra = c.meipra /\ d.meiea = c.meiea
      /\ d.meipa = [c.meipa EXCEPT ![i] = TRUE] /\ d.interruptsUpdated /\ d.waiting = c.waiting
      /\ d.waitingOnBlock = c.waitingOnBlock /\ d.eventRegistered = c.eventRegistered
  BY <1>3 DEF PutIn, Cpu, s
<1>5. Listed(d) = Listed(c) \cup {i}
  BY <1>4 DEF Listed, Cpu
<1> HIDE DEF d
<1>6. /\ u \in Cpu /\ u.candidates = s /\ u.meipra = c.meipra /\ u.meiea = d.meiea /\ u.meipa = d.meipa
      /\ u.meinext = XH!Visible(d)
      /\ SameMasks([d EXCEPT !.meinext = XH!Visible(d)], u)
  BY <1>4, UpdateFields
<1>7. /\ u.interruptsUpdated /\ u.waiting = c.waiting /\ u.ppreempt = d.ppreempt
      /\ u.waitingOnBlock = c.waitingOnBlock /\ u.eventRegistered = c.eventRegistered
  BY <1>4, <1>6 DEF SameMasks, Cpu
<1> HIDE DEF u
<1>8. Attentive(u)
  BY <1>4, <1>6, <1>7, Refresh
<1>9. Listed(u) = Listed(c) \cup {i}
  BY <1>5, <1>6 DEF Listed
<1>10. Exact(u)
  BY <1>2, <1>6, <1>9 DEF Exact
<1>11. Released(u)
  BY <1>7 DEF CpuOK, Released
<1>12. CpuOK(u)
  BY <1>6, <1>8, <1>10, <1>11 DEF CpuOK
<1> QED
  BY <1>12 DEF u, d

LEMMA SetInterruptKeeps ==
  ASSUME H3Assumption, NEW c \in Cpu, CpuOK(c), NEW i \in Irq, NEW v \in BOOLEAN
  PROVE  CpuOK(XH!SetInterrupt(c, i, v))
<1>0. c.meipa \in [Irq -> BOOLEAN] /\ c.meiea \in [Irq -> BOOLEAN]
  BY DEF Cpu
<1>1. CASE v /\ ~c.meipa[i] /\ c.meiea[i]
  BY <1>1, Enter, SetInterruptCases
<1>2. CASE v /\ ~c.meipa[i] /\ ~c.meiea[i]
  <2> DEFINE d == [c EXCEPT !.meipa[i] = TRUE]
  <2>1. d \in Cpu /\ SameMasks(c, d) /\ d.candidates = c.candidates /\ d.meipra = c.meipra
        /\ d.meiea = c.meiea /\ d.meipa = [c.meipa EXCEPT ![i] = TRUE]
    BY DEF Cpu, SameMasks
  <2> HIDE DEF d
  <2>2. Listed(d) = Listed(c)
    BY <1>0, <1>2, <2>1 DEF Listed
  <2>3. CpuOK(d)
    BY <2>1, <2>2, Relabelled
  <2> QED
    BY <1>2, <2>3, SetInterruptCases DEF d
<1>3. CASE ~v /\ c.meipa[i]
  <2>1. Lists(c.candidates, Listed(c), c.meipra) /\ c.meipra \in [Irq -> Nat]
    BY DEF CpuOK, Exact, Cpu
  <2>2. CpuOK(XH!UpdateMEINEXT(TakenOut(c, i)))
    BY <2>1, Withdraw DEF CpuOK
  <2> QED
    BY <1>3, <2>2, SetInterruptCases
<1>4. CASE (v /\ c.meipa[i]) \/ (~v /\ ~c.meipa[i])
  BY <1>4, SetInterruptCases
<1> QED
  BY <1>0, <1>1, <1>2, <1>3, <1>4

LEMMA SetInterruptFrame ==
  ASSUME H3Assumption, NEW c \in Cpu, CpuOK(c), NEW i \in Irq, NEW v \in BOOLEAN
  PROVE  /\ XH!SetInterrupt(c, i, v).meiea = c.meiea
         /\ XH!SetInterrupt(c, i, v).meipa = [c.meipa EXCEPT ![i] = v]
<1>0. c.meipa \in [Irq -> BOOLEAN] /\ c.meiea \in [Irq -> BOOLEAN]
  BY DEF Cpu
<1>1. CASE v /\ ~c.meipa[i] /\ c.meiea[i]
  BY <1>1 DEF XH!SetInterrupt, XH!UpdateMEINEXT, Cpu
<1>2. CASE v /\ ~c.meipa[i] /\ ~c.meiea[i]
  BY <1>2 DEF XH!SetInterrupt, Cpu
<1>3. CASE ~v /\ c.meipa[i]
  BY <1>3 DEF XH!SetInterrupt, XH!UpdateMEINEXT, Cpu
<1>4. CASE (v /\ c.meipa[i]) \/ (~v /\ ~c.meipa[i])
  <2>1. XH!SetInterrupt(c, i, v) = c
    BY <1>4, SetInterruptCases
  <2>2. [c.meipa EXCEPT ![i] = v] = c.meipa
    BY <1>0, <1>4
  <2> QED
    BY <2>1, <2>2
<1> QED
  BY <1>0, <1>1, <1>2, <1>3, <1>4

LEMMA EnabledKeeps ==
  ASSUME H3Assumption, NEW c \in Cpu, CpuOK(c), NEW i \in Irq, NEW v \in BOOLEAN
  PROVE  CpuOK(XH!SetInterruptEnabled(c, i, v))
<1>0. c.meipa \in [Irq -> BOOLEAN] /\ c.meiea \in [Irq -> BOOLEAN]
  BY DEF Cpu
<1>1. CASE v /\ ~c.meiea[i] /\ c.meipa[i]
  <2> DEFINE b == [c EXCEPT !.meiea[i] = TRUE, !.meipa[i] = FALSE]
             d == XH!SetInterrupt(b, i, TRUE)
             e == [d EXCEPT !.meiea[i] = v]
  <2>1. b \in Cpu /\ SameMasks(c, b) /\ b.candidates = c.candidates /\ b.meipra = c.meipra
        /\ b.meiea = [c.meiea EXCEPT ![i] = TRUE] /\ b.meipa = [c.meipa EXCEPT ![i] = FALSE]
    BY DEF Cpu, SameMasks
  <2> HIDE DEF b
  <2>2. Listed(b) = Listed(c)
    BY <1>0, <1>1, <2>1 DEF Listed
  <2>3. CpuOK(b)
    BY <2>1, <2>2, Relabelled
  <2>4. CpuOK(d) /\ d.meiea = b.meiea /\ d \in Cpu
    BY <2>1, <2>3, SetInterruptKeeps, SetInterruptFrame DEF CpuOK
  <2> HIDE DEF d
  <2>5. e \in Cpu /\ SameMasks(d, e) /\ e.candidates = d.candidates /\ e.meipra = d.meipra
        /\ e.meiea = [d.meiea EXCEPT ![i] = v] /\ e.meipa = d.meipa
    BY <2>4 DEF Cpu, SameMasks
  <2>6. e.meiea = d.meiea
    BY <1>0, <1>1, <2>1, <2>4, <2>5
  <2> HIDE DEF e
  <2>7. Listed(e) = Listed(d)
    BY <2>5, <2>6 DEF Listed
  <2>8. CpuOK(e)
    BY <2>4, <2>5, <2>7, Relabelled
  <2> QED
    BY <1>1, <2>8 DEF XH!SetInterruptEnabled, e, d, b
<1>2. CASE ~v /\ c.meiea[i] /\ c.meipa[i]
  <2> DEFINE d == XH!SetInterrupt(c, i, FALSE)
             f == [d EXCEPT !.meipa[i] = TRUE]
             e == [f EXCEPT !.meiea[i] = v]
  <2>1. CpuOK(d) /\ d.meipa = [c.meipa EXCEPT ![i] = FALSE] /\ d \in Cpu
    BY SetInterruptKeeps, SetInterruptFrame DEF CpuOK
  <2> HIDE DEF d
  <2>2. f \in Cpu /\ SameMasks(d, f) /\ f.candidates = d.candidates /\ f.meipra = d.meipra
        /\ f.meiea = d.meiea /\ f.meipa = [d.meipa EXCEPT ![i] = TRUE]
    BY <2>1 DEF Cpu, SameMasks
  <2> HIDE DEF f
  <2>3. e \in Cpu /\ SameMasks(f, e) /\ e.candidates = f.candidates /\ e.meipra = f.meipra
        /\ e.meiea = [f.meiea EXCEPT ![i] = v] /\ e.meipa = f.meipa
    BY <2>2 DEF Cpu, SameMasks
  <2>4. SameMasks(d, e)
    BY <2>2, <2>3 DEF SameMasks
  <2> HIDE DEF e
  <2>5. Listed(e) = Listed(d)
    BY <1>0, <1>2, <2>1, <2>2, <2>3 DEF Listed, Cpu
  <2>6. CpuOK(e)
    BY <2>1, <2>2, <2>3, <2>4, <2>5, Relabelled
  <2> QED
    BY <1>2, <2>6 DEF XH!SetInterruptEnabled, e, f, d
<1>3. CASE ~(v /\ ~c.meiea[i] /\ c.meipa[i]) /\ ~(~v /\ c.meiea[i] /\ c.meipa[i])
  <2> DEFINE e == [c EXCEPT !.meiea[i] = v]
  <2>1. e \in Cpu /\ SameMasks(c, e) /\ e.candidates = c.candidates /\ e.meipra = c.meipra
        /\ e.meiea = [c.meiea EXCEPT ![i] = v] /\ e.meipa = c.meipa
    BY DEF Cpu, SameMasks
  <2> HIDE DEF e
  <2>2. Listed(e) = Listed(c)
    BY <1>0, <1>3, <2>1 DEF Listed
  <2>3. CpuOK(e)
    BY <2>1, <2>2, Relabelled
  <2> QED
    BY <1>3, <2>3 DEF XH!SetInterruptEnabled, e
<1> QED
  BY <1>0, <1>1, <1>2, <1>3

LEMMA EnableOneKeeps ==
  ASSUME H3Assumption, NEW c, CpuOK(c), NEW i, NEW S
  PROVE  CpuOK(XH!EnableOne(c, i, S))
<1>1. c \in Cpu /\ (i \in S) \in BOOLEAN
  BY DEF CpuOK
<1>2. i \in Irq => CpuOK(XH!SetInterruptEnabled(c, i, i \in S))
  BY <1>1, EnabledKeeps
<1> QED
  BY <1>2 DEF XH!EnableOne

LEMMA ForceOneKeeps ==
  ASSUME H3Assumption, NEW c, CpuOK(c), NEW i, NEW S
  PROVE  CpuOK(XH!ForceOne(c, i, S))
<1>1. CASE i \notin Irq
  BY <1>1 DEF XH!ForceOne
<1>2. CASE i \in Irq
  <2> DEFINE d == [c EXCEPT !.meifa[i] = i \in S]
  <2>0. c \in Cpu /\ (i \in S) \in BOOLEAN
    BY DEF CpuOK
  <2>1. d \in Cpu /\ SameMasks(c, d) /\ d.candidates = c.candidates /\ d.meipra = c.meipra
        /\ d.meiea = c.meiea /\ d.meipa = c.meipa
    BY <1>2, <2>0 DEF Cpu, SameMasks
  <2> HIDE DEF d
  <2>2. CpuOK(d)
    BY <2>0, <2>1, Relabelled DEF Listed
  <2>3. CpuOK(XH!SetInterrupt(d, i, i \in S))
    BY <1>2, <2>0, <2>1, <2>2, SetInterruptKeeps
  <2> QED
    BY <1>2, <2>2, <2>3 DEF XH!ForceOne, d
<1> QED
  BY <1>1, <1>2

LEMMA RankOneKeeps ==
  ASSUME H3Assumption, NEW c, CpuOK(c), NEW i, NEW p, i \in Irq => p[i] \in Nat
  PROVE  CpuOK(XH!RankOne(c, i, p))
<1>1. CASE i \notin Irq
  BY <1>1 DEF XH!RankOne
<1>2. CASE i \in Irq
  <2> DEFINE d == [c EXCEPT !.meipra[i] = p[i]]
  <2>0. c \in Cpu /\ p[i] \in Nat /\ c.meipra \in [Irq -> Nat] /\ c.meipa \in [Irq -> BOOLEAN]
    BY <1>2 DEF CpuOK, Cpu
  <2>1. d \in Cpu /\ SameMasks(c, d) /\ d.candidates = c.candidates
        /\ d.meipra = [c.meipra EXCEPT ![i] = p[i]]
        /\ d.meiea = c.meiea /\ d.meipa = c.meipa
    BY <1>2, <2>0 DEF Cpu, SameMasks
  <2> HIDE DEF d
  <2>2. Listed(d) = Listed(c)
    BY <2>1 DEF Listed
  <2>3. CASE ~c.meipa[i]
    <3>1. \A j \in Listed(c) : d.meipra[j] = c.meipra[j]
      BY <1>2, <2>0, <2>1, <2>3 DEF Listed
    <3>2. CpuOK(d)
      BY <2>0, <2>1, <2>2, <3>1, Relabelled
    <3> QED
      BY <1>2, <2>3, <3>2 DEF XH!RankOne, d
  <2>4. CASE c.meipa[i]
    <3>1. Lists(d.candidates, Listed(d), c.meipra) /\ \A j \in Irq : j # i => d.meipra[j] = c.meipra[j]
      BY <2>0, <2>1, <2>2 DEF CpuOK, Exact
    <3>2. Attentive(d) /\ Released(d)
      BY <2>1 DEF CpuOK, SameMasks, Attentive, BestNamed, HiddenBelow, Noticed, Released
    <3>3. CpuOK(XH!UpdateMEINEXT(TakenOut(d, i)))
      BY <1>2, <2>0, <2>1, <3>1, <3>2, Withdraw
    <3>4. CpuOK(XH!SetInterrupt(d, i, FALSE))
      BY <1>2, <2>1, <2>4, <3>3, SetInterruptCases
    <3>5. CpuOK(XH!SetInterrupt(XH!SetInterrupt(d, i, FALSE), i, TRUE))
      <4>1. XH!SetInterrupt(d, i, FALSE) \in Cpu
        BY <3>4 DEF CpuOK
      <4> QED
        BY <1>2, <3>4, <4>1, SetInterruptKeeps
    <3> QED
      BY <1>2, <2>4, <3>5 DEF XH!RankOne, d
  <2> QED
    BY <2>0, <2>3, <2>4
<1> QED
  BY <1>1, <1>2

-----------------------------------------------------------------------------
(* The writes of whole windows, four interrupts at a time. *)

LEMMA WriteMEIEAKeeps ==
  ASSUME H3Assumption, NEW c, CpuOK(c), NEW w \in Nat, NEW S
  PROVE  CpuOK(XH!WriteMEIEA(c, w, S))
<1> DEFINE Four(d, i) == XH!FourFrom(LAMBDA e, j : XH!EnableOne(e, j, S), d, i)
<1>1. ASSUME NEW d, CpuOK(d), NEW i PROVE CpuOK(Four(d, i))
  BY <1>1, EnableOneKeeps DEF XH!FourFrom
<1>2. XH!WriteMEIEA(c, w, S) =
        Four(Four(Four(Four(c, 16 * w), 16 * w + 4), 16 * w + 8), 16 * w + 12)
  BY DEF XH!WriteMEIEA, XH!SixteenFrom
<1> HIDE DEF Four
<1> QED
  BY <1>1, <1>2

LEMMA WriteMEIFAKeeps ==
  ASSUME H3Assumption, NEW c, CpuOK(c), NEW w \in Nat, NEW S
  PROVE  CpuOK(XH!WriteMEIFA(c, w, S))
<1> DEFINE Four(d, i) == XH!FourFrom(LAMBDA e, j : XH!ForceOne(e, j, S), d, i)
<1>1. ASSUME NEW d, CpuOK(d), NEW i PROVE CpuOK(Four(d, i))
  BY <1>1, ForceOneKeeps DEF XH!FourFrom
<1>2. XH!WriteMEIFA(c, w, S) =
        Four(Four(Four(Four(c, 16 * w), 16 * w + 4), 16 * w + 8), 16 * w + 12)
  BY DEF XH!WriteMEIFA, XH!SixteenFrom
<1> HIDE DEF Four
<1> QED
  BY <1>1, <1>2

LEMMA WriteMEIPRAKeeps ==
  ASSUME H3Assumption, NEW c, CpuOK(c), NEW g \in Nat, NEW p \in [XH!Group(g) -> H3Priority]
  PROVE  CpuOK(XH!WriteMEIPRA(c, g, p))
<1>1. ASSUME NEW i \in (4 * g) .. (4 * g + 3), i \in Irq PROVE p[i] \in Nat
  BY <1>1 DEF XH!Group, H3Assumption
<1>2. /\ 4 * g \in (4 * g) .. (4 * g + 3) /\ 4 * g + 1 \in (4 * g) .. (4 * g + 3)
      /\ 4 * g + 2 \in (4 * g) .. (4 * g + 3) /\ 4 * g + 3 \in (4 * g) .. (4 * g + 3)
  OBVIOUS
<1>3. ASSUME NEW d, CpuOK(d), NEW i \in (4 * g) .. (4 * g + 3) PROVE CpuOK(XH!RankOne(d, i, p))
  BY <1>1, <1>3, RankOneKeeps
<1>4. XH!WriteMEIPRA(c, g, p) =
        XH!RankOne(XH!RankOne(XH!RankOne(XH!RankOne(c, 4 * g, p), 4 * g + 1, p), 4 * g + 2, p), 4 * g + 3, p)
  BY DEF XH!WriteMEIPRA, XH!FourFrom
<1> QED
  BY <1>2, <1>3, <1>4

-----------------------------------------------------------------------------
(* MEINEXT, MEICONTEXT, traps and the sleeps. *)

\* The list says of the interrupt in MEINEXT what wakingInterruptPending asks.
LEMMA NamedPriority ==
  ASSUME H3Assumption, NEW c, CpuOK(c)
  PROVE  /\ c.meinext # NoIrq => /\ c.meinext \in Irq /\ c.candidates # <<>>
                                 /\ c.meipra[c.meinext] = Head(c.candidates)[2]
                                 /\ c.meipra[c.meinext] \in Nat
         /\ XH!WakingInterruptPending(c) <=>
              c.meie /\ c.meinext # NoIrq /\ Head(c.candidates)[2] >= c.preempt
<1>1. ASSUME c.meinext # NoIrq
      PROVE  /\ c.meinext \in Irq /\ c.candidates # <<>>
             /\ c.meipra[c.meinext] = Head(c.candidates)[2]
             /\ c.meipra[c.meinext] \in Nat
  <2>1. c \in Cpu /\ c.candidates # <<>> /\ c.meinext = Head(c.candidates)[1]
    BY <1>1 DEF CpuOK, Attentive, BestNamed
  <2>2. c.candidates \in Seq(Entry) /\ c.meipra \in [Irq -> Nat] /\ c.meinext \in Irq
    BY <1>1, <2>1 DEF Cpu
  <2>3. 1 \in 1 .. Len(c.candidates) /\ Head(c.candidates) = c.candidates[1]
    BY <2>1, <2>2
  <2>4. c.candidates[1][2] = c.meipra[c.candidates[1][1]]
    BY <2>3 DEF CpuOK, Exact, Lists
  <2> QED
    BY <2>1, <2>2, <2>3, <2>4
<1> QED
  BY <1>1 DEF XH!WakingInterruptPending

\* Firmware may give PREEMPT, PPREEMPT and PPPREEMPT any values.
LEMMA MasksKeep ==
  ASSUME H3Assumption, NEW c, CpuOK(c), NEW d, d \in Cpu, d.candidates = c.candidates,
         d.meiea = c.meiea, d.meipa = c.meipa, d.meipra = c.meipra, d.waiting = c.waiting,
         d.waitingOnBlock = c.waitingOnBlock, d.eventRegistered = c.eventRegistered
  PROVE  CpuOK([XH!UpdateMEINEXT(d) EXCEPT !.interruptsUpdated = TRUE])
<1> DEFINE u == XH!UpdateMEINEXT(d)
           e == [u EXCEPT !.interruptsUpdated = TRUE]
<1>1. /\ u \in Cpu /\ u.candidates = d.candidates /\ u.meipra = d.meipra /\ u.meiea = d.meiea
      /\ u.meipa = d.meipa /\ u.meinext = XH!Visible(d)
      /\ SameMasks([d EXCEPT !.meinext = XH!Visible(d)], u)
  BY UpdateFields
<1>2. u.waiting = d.waiting /\ u.ppreempt = d.ppreempt
      /\ u.waitingOnBlock = d.waitingOnBlock /\ u.eventRegistered = d.eventRegistered
  BY <1>1 DEF SameMasks, Cpu
<1> HIDE DEF u
<1>3. /\ e \in Cpu /\ e.candidates = d.candidates /\ e.meipra = d.meipra /\ e.meiea = d.meiea
      /\ e.meipa = d.meipa /\ e.meinext = XH!Visible(d) /\ e.interruptsUpdated
      /\ e.waiting = d.waiting /\ e.ppreempt = d.ppreempt
      /\ e.waitingOnBlock = d.waitingOnBlock /\ e.eventRegistered = d.eventRegistered
  BY <1>1, <1>2 DEF Cpu
<1> HIDE DEF e
<1>4. Attentive(e)
  BY <1>3, Refresh
<1>5. Exact(e)
  BY <1>3 DEF CpuOK, Exact, Listed
<1>6. Released(e)
  BY <1>3 DEF CpuOK, Released
<1>7. CpuOK(e)
  BY <1>3, <1>4, <1>5, <1>6 DEF CpuOK
<1> QED
  BY <1>7 DEF e, u

LEMMA UpdateMEICONTEXTKeeps ==
  ASSUME H3Assumption, NEW c, CpuOK(c)
  PROVE  CpuOK(XH!UpdateMEICONTEXT(c))
<1>0. c \in Cpu
  BY DEF CpuOK
<1>1. CASE c.meinext = NoIrq
  <2> DEFINE d == [c EXCEPT !.preempt = 31, !.ppreempt = 15, !.pppreempt = 15]
  <2>1. /\ d \in Cpu /\ d.candidates = c.candidates /\ d.meiea = c.meiea /\ d.meipa = c.meipa
        /\ d.meipra = c.meipra /\ d.waiting = c.waiting
        /\ d.waitingOnBlock = c.waitingOnBlock /\ d.eventRegistered = c.eventRegistered
    BY <1>0 DEF Cpu
  <2> HIDE DEF d
  <2>2. CpuOK([XH!UpdateMEINEXT(d) EXCEPT !.interruptsUpdated = TRUE])
    BY <2>1, MasksKeep
  <2> QED
    BY <1>1, <2>2 DEF XH!UpdateMEICONTEXT, d
<1>2. CASE c.meinext # NoIrq
  <2> DEFINE n == c.meipra[c.meinext] + 1
             d == [c EXCEPT !.preempt = n]
  <2>0. n \in Nat
    BY <1>2, NamedPriority
  <2> HIDE DEF n
  <2>1. /\ d \in Cpu /\ d.candidates = c.candidates /\ d.meiea = c.meiea /\ d.meipa = c.meipa
        /\ d.meipra = c.meipra /\ d.waiting = c.waiting
        /\ d.waitingOnBlock = c.waitingOnBlock /\ d.eventRegistered = c.eventRegistered
    BY <1>0, <2>0 DEF Cpu
  <2> HIDE DEF d
  <2>2. CpuOK([XH!UpdateMEINEXT(d) EXCEPT !.interruptsUpdated = TRUE])
    BY <2>1, MasksKeep
  <2> QED
    BY <1>2, <2>2 DEF XH!UpdateMEICONTEXT, d, n
<1> QED
  BY <1>1, <1>2

LEMMA WriteMEICONTEXTKeeps ==
  ASSUME H3Assumption, NEW c, CpuOK(c), NEW x \in Context
  PROVE  CpuOK(XH!WriteMEICONTEXT(c, x))
<1> DEFINE d == [c EXCEPT !.preempt = x.preempt, !.ppreempt = x.ppreempt,
                          !.pppreempt = x.pppreempt, !.mreteirq = x.mreteirq]
<1>0. c \in Cpu
  BY DEF CpuOK
<1>1. x.preempt \in Nat /\ x.ppreempt \in Nat /\ x.pppreempt \in Nat /\ x.mreteirq \in BOOLEAN
  BY DEF H3Assumption
<1>2. /\ d \in Cpu /\ d.candidates = c.candidates /\ d.meiea = c.meiea /\ d.meipa = c.meipa
      /\ d.meipra = c.meipra /\ d.waiting = c.waiting
      /\ d.waitingOnBlock = c.waitingOnBlock /\ d.eventRegistered = c.eventRegistered
  BY <1>0, <1>1 DEF Cpu
<1> HIDE DEF d
<1>3. CpuOK([XH!UpdateMEINEXT(d) EXCEPT !.interruptsUpdated = TRUE])
  BY <1>2, MasksKeep
<1> QED
  BY <1>3 DEF XH!WriteMEICONTEXT, d

LEMMA ReadMEINEXTKeeps ==
  ASSUME H3Assumption, NEW c, CpuOK(c)
  PROVE  CpuOK(XH!ReadMEINEXT(c))
<1>0. c \in Cpu /\ c.meinext \in Irq \cup {NoIrq}
  BY DEF CpuOK, Cpu
<1>1. CASE c.meinext = NoIrq
  BY <1>1 DEF XH!ReadMEINEXT
<1>2. CASE c.meinext # NoIrq
  <2> DEFINE i == c.meinext
             d == [c EXCEPT !.meifa[i] = FALSE]
  <2>1. i \in Irq
    BY <1>0, <1>2
  <2>2. d \in Cpu /\ SameMasks(c, d) /\ d.candidates = c.candidates /\ d.meipra = c.meipra
        /\ d.meiea = c.meiea /\ d.meipa = c.meipa
    BY <1>0, <2>1 DEF Cpu, SameMasks
  <2> HIDE DEF d
  <2>3. CpuOK(d)
    BY <1>0, <2>2, Relabelled DEF Listed
  <2>4. CpuOK(XH!SetInterrupt(d, i, FALSE))
    BY <2>1, <2>2, <2>3, SetInterruptKeeps
  <2> QED
    BY <1>2, <2>3, <2>4 DEF XH!ReadMEINEXT, d
<1> QED
  BY <1>1, <1>2

\* d is c with other flags; what the parts of the invariant say of them is left.
LEMMA FlagsKeep ==
  ASSUME NEW c, CpuOK(c), NEW d, d \in Cpu, d.candidates = c.candidates, d.meinext = c.meinext,
         d.meiea = c.meiea, d.meipa = c.meipa, d.meipra = c.meipra,
         HiddenBelow(d), Noticed(d), Released(d)
  PROVE  CpuOK(d)
BY DEF CpuOK, Exact, Listed, Attentive, BestNamed

LEMMA CheckKeeps ==
  ASSUME H3Assumption, NEW c, CpuOK(c)
  PROVE  CpuOK(XH!CheckForInterrupts(c))
<1> DEFINE d == [c EXCEPT !.interruptsUpdated = FALSE]
<1>0. c \in Cpu
  BY DEF CpuOK
<1>1. CASE ~c.interruptsUpdated
  BY <1>1 DEF XH!CheckForInterrupts
<1>2. /\ d \in Cpu /\ d.candidates = c.candidates /\ d.meinext = c.meinext
      /\ d.meiea = c.meiea /\ d.meipa = c.meipa /\ d.meipra = c.meipra
      /\ d.preempt = c.preempt /\ d.ppreempt = c.ppreempt /\ d.pppreempt = c.pppreempt
      /\ d.mreteirq = c.mreteirq /\ d.meie = c.meie /\ d.mie = c.mie /\ d.waiting = c.waiting
      /\ d.waitingOnBlock = c.waitingOnBlock /\ d.eventRegistered = c.eventRegistered
  BY <1>0 DEF Cpu
<1> HIDE DEF d
<1>3. HiddenBelow(d) /\ Released(d)
  BY <1>2 DEF CpuOK, Attentive, HiddenBelow, Released
<1>4. XH!WakingInterruptPending(d) <=> XH!WakingInterruptPending(c)
  BY <1>2 DEF XH!WakingInterruptPending
<1>5. CASE c.interruptsUpdated /\ ~XH!WakingInterruptPending(d)
  <2>1. Noticed(d)
    BY <1>2, <1>4, <1>5, NamedPriority DEF Noticed
  <2>2. CpuOK(d)
    BY <1>2, <1>3, <2>1, FlagsKeep
  <2> QED
    BY <1>5, <2>2 DEF XH!CheckForInterrupts, d
<1>6. CASE c.interruptsUpdated /\ XH!WakingInterruptPending(d)
  <2>0. c.meinext # NoIrq
    BY <1>4, <1>6 DEF XH!WakingInterruptPending
  <2>1. CASE ~d.mie
    <3> DEFINE e == [d EXCEPT !.waiting = FALSE]
    <3>1. /\ e \in Cpu /\ e.candidates = c.candidates /\ e.meinext = c.meinext
          /\ e.meiea = c.meiea /\ e.meipa = c.meipa /\ e.meipra = c.meipra
          /\ e.mie = d.mie /\ e.waiting = FALSE
      BY <1>2 DEF Cpu
    <3> HIDE DEF e
    <3>2. HiddenBelow(e) /\ Noticed(e) /\ Released(e)
      BY <2>0, <2>1, <3>1 DEF HiddenBelow, Noticed, Released
    <3>3. CpuOK(e)
      BY <3>1, <3>2, FlagsKeep
    <3> QED
      BY <1>6, <2>1, <3>3 DEF XH!CheckForInterrupts, d, e
  <2>2. CASE d.mie
    <3> DEFINE f == XH!PrioritySave(d)
               g == XH!TrapEntry(f, TRUE)
               e == [g EXCEPT !.waiting = FALSE]
    <3>1. /\ f \in Cpu /\ f.candidates = c.candidates /\ f.meinext = c.meinext
          /\ f.meiea = c.meiea /\ f.meipa = c.meipa /\ f.meipra = c.meipra
      <4>1. c.meipra[c.meinext] + 1 \in Nat
        BY <2>0, NamedPriority
      <4>2. d.preempt % 16 \in Nat
        BY <1>2 DEF Cpu
      <4> QED
        BY <1>2, <2>0, <4>1, <4>2 DEF XH!PrioritySave, Cpu
    <3> HIDE DEF f
    <3>2. /\ g \in Cpu /\ g.candidates = c.candidates /\ g.meinext = c.meinext
          /\ g.meiea = c.meiea /\ g.meipa = c.meipa /\ g.meipra = c.meipra
          /\ g.mie = FALSE
      BY <3>1 DEF XH!TrapEntry, Cpu
    <3> HIDE DEF g
    <3>3. /\ e \in Cpu /\ e.candidates = c.candidates /\ e.meinext = c.meinext
          /\ e.meiea = c.meiea /\ e.meipa = c.meipa /\ e.meipra = c.meipra
          /\ e.mie = FALSE /\ e.waiting = FALSE
      BY <3>2 DEF Cpu
    <3> HIDE DEF e
    <3>4. HiddenBelow(e) /\ Noticed(e) /\ Released(e)
      BY <2>0, <3>3 DEF HiddenBelow, Noticed, Released
    <3>5. CpuOK(e)
      BY <3>3, <3>4, FlagsKeep
    <3> QED
      BY <1>6, <2>2, <3>5 DEF XH!CheckForInterrupts, d, e, f, g
  <2> QED
    BY <2>1, <2>2
<1> QED
  BY <1>1, <1>5, <1>6

LEMMA MretKeeps ==
  ASSUME H3Assumption, NEW c, CpuOK(c)
  PROVE  CpuOK(XH!Mret(c))
<1> DEFINE e == XH!Mret(c)
<1>0. c \in Cpu /\ HiddenBelow(c) /\ Released(c)
  BY DEF CpuOK, Attentive
<1>1. CASE c.mreteirq
  <2>1. /\ e \in Cpu /\ e.candidates = c.candidates /\ e.meinext = c.meinext
        /\ e.meiea = c.meiea /\ e.meipa = c.meipa /\ e.meipra = c.meipra
        /\ e.preempt = c.ppreempt /\ ~e.mreteirq /\ e.interruptsUpdated
        /\ e.waiting = c.waiting
        /\ e.waitingOnBlock = c.waitingOnBlock /\ e.eventRegistered = c.eventRegistered
    BY <1>0, <1>1 DEF XH!Mret, XH!PriorityRestore, Cpu
  <2> HIDE DEF e
  <2>2. HiddenBelow(e)
    BY <1>0, <1>1, <2>1 DEF HiddenBelow
  <2>3. Noticed(e) /\ Released(e)
    BY <1>0, <2>1 DEF Noticed, Released
  <2> QED
    BY <2>1, <2>2, <2>3, FlagsKeep DEF e
<1>2. CASE ~c.mreteirq
  <2>1. /\ e \in Cpu /\ e.candidates = c.candidates /\ e.meinext = c.meinext
        /\ e.meiea = c.meiea /\ e.meipa = c.meipa /\ e.meipra = c.meipra
        /\ e.preempt = c.preempt /\ e.ppreempt = c.ppreempt /\ e.mreteirq = c.mreteirq
        /\ e.interruptsUpdated /\ e.waiting = c.waiting
        /\ e.waitingOnBlock = c.waitingOnBlock /\ e.eventRegistered = c.eventRegistered
    BY <1>0, <1>2 DEF XH!Mret, XH!PriorityRestore, Cpu
  <2> HIDE DEF e
  <2>2. HiddenBelow(e) /\ Noticed(e) /\ Released(e)
    BY <1>0, <2>1 DEF HiddenBelow, Noticed, Released
  <2> QED
    BY <2>1, <2>2, FlagsKeep DEF e
<1> QED
  BY <1>1, <1>2

LEMMA SleepKeeps ==
  ASSUME H3Assumption, NEW c, CpuOK(c)
  PROVE  CpuOK(XH!Wfi(c)) /\ CpuOK(XH!H3Block(c))
<1>0. c \in Cpu /\ HiddenBelow(c) /\ Released(c) /\ Noticed(c)
  BY DEF CpuOK, Attentive
<1> DEFINE u == [c EXCEPT !.interruptsUpdated = TRUE]
           r == [c EXCEPT !.eventRegistered = FALSE]
<1>1. CpuOK(u)
  <2>1. /\ u \in Cpu /\ u.candidates = c.candidates /\ u.meinext = c.meinext
        /\ u.meiea = c.meiea /\ u.meipa = c.meipa /\ u.meipra = c.meipra
        /\ u.preempt = c.preempt /\ u.ppreempt = c.ppreempt /\ u.mreteirq = c.mreteirq
        /\ u.interruptsUpdated /\ u.waiting = c.waiting
        /\ u.waitingOnBlock = c.waitingOnBlock /\ u.eventRegistered = c.eventRegistered
    BY <1>0 DEF Cpu
  <2> HIDE DEF u
  <2>2. HiddenBelow(u) /\ Noticed(u) /\ Released(u)
    BY <1>0, <2>1 DEF HiddenBelow, Noticed, Released
  <2> QED
    BY <2>1, <2>2, FlagsKeep
<1>2. CpuOK(r)
  <2>1. /\ r \in Cpu /\ SameMasks([c EXCEPT !.eventRegistered = FALSE], r)
        /\ r.candidates = c.candidates /\ r.meinext = c.meinext
        /\ r.meiea = c.meiea /\ r.meipa = c.meipa /\ r.meipra = c.meipra
        /\ r.preempt = c.preempt /\ r.ppreempt = c.ppreempt /\ r.mreteirq = c.mreteirq
        /\ r.interruptsUpdated = c.interruptsUpdated /\ r.waiting = c.waiting
        /\ r.meie = c.meie /\ r.mie = c.mie /\ r.eventRegistered = FALSE
    BY <1>0 DEF Cpu, SameMasks
  <2> HIDE DEF r
  <2>2. HiddenBelow(r) /\ Noticed(r) /\ Released(r)
    BY <1>0, <2>1 DEF HiddenBelow, Noticed, Released
  <2> QED
    BY <2>1, <2>2, FlagsKeep
<1>3. ASSUME ~XH!WakingInterruptPending(c), NEW b \in BOOLEAN, b => ~c.eventRegistered
      PROVE  CpuOK([c EXCEPT !.waiting = TRUE, !.waitingOnBlock = b])
  <2> DEFINE s == [c EXCEPT !.waiting = TRUE, !.waitingOnBlock = b]
  <2>1. /\ s \in Cpu /\ s.candidates = c.candidates /\ s.meinext = c.meinext
        /\ s.meiea = c.meiea /\ s.meipa = c.meipa /\ s.meipra = c.meipra
        /\ s.preempt = c.preempt /\ s.ppreempt = c.ppreempt /\ s.mreteirq = c.mreteirq
        /\ s.meie = c.meie /\ s.waitingOnBlock = b /\ s.eventRegistered = c.eventRegistered
    BY <1>0 DEF Cpu
  <2> HIDE DEF s
  <2>2. HiddenBelow(s) /\ Released(s)
    BY <1>0, <1>3, <2>1 DEF HiddenBelow, Released
  <2>3. Noticed(s)
    BY <1>3, <2>1, NamedPriority DEF Noticed
  <2>4. CpuOK(s)
    BY <2>1, <2>2, <2>3, FlagsKeep
  <2> QED
    BY <2>4 DEF s
<1> HIDE DEF u, r
<1>4. CpuOK(XH!Wfi(c))
  BY <1>1, <1>3 DEF XH!Wfi, u
<1>5. CpuOK(XH!H3Block(c))
  BY <1>1, <1>2, <1>3 DEF XH!H3Block, u, r
<1> QED
  BY <1>4, <1>5

LEMMA UnblockKeeps ==
  ASSUME H3Assumption, NEW c, CpuOK(c)
  PROVE  CpuOK(XH!Unblock(c))
<1> DEFINE e == XH!Unblock(c)
<1>0. c \in Cpu /\ HiddenBelow(c) /\ Released(c) /\ Noticed(c)
  BY DEF CpuOK, Attentive
<1>1. /\ e \in Cpu /\ e.candidates = c.candidates /\ e.meinext = c.meinext
      /\ e.meiea = c.meiea /\ e.meipa = c.meipa /\ e.meipra = c.meipra
      /\ e.preempt = c.preempt /\ e.ppreempt = c.ppreempt /\ e.mreteirq = c.mreteirq
      /\ e.meie = c.meie /\ e.mie = c.mie /\ e.interruptsUpdated = c.interruptsUpdated
      /\ e.waitingOnBlock = c.waitingOnBlock
  BY <1>0 DEF XH!Unblock, Cpu
<1>2. (e.waiting => c.waiting) /\ ~(e.waiting /\ e.waitingOnBlock)
  BY <1>0 DEF XH!Unblock, Cpu
<1> HIDE DEF e
<1>3. HiddenBelow(e) /\ Noticed(e) /\ Released(e)
  BY <1>0, <1>1, <1>2 DEF HiddenBelow, Noticed, Released
<1> QED
  BY <1>1, <1>3, FlagsKeep DEF e

LEMMA TrapKeeps ==
  ASSUME H3Assumption, NEW c, CpuOK(c), ~c.waiting
  PROVE  CpuOK(XH!TrapEntry(c, FALSE))
<1> DEFINE e == XH!TrapEntry(c, FALSE)
<1>0. c \in Cpu /\ HiddenBelow(c)
  BY DEF CpuOK, Attentive
<1>1. /\ e \in Cpu /\ e.candidates = c.candidates /\ e.meinext = c.meinext
      /\ e.meiea = c.meiea /\ e.meipa = c.meipa /\ e.meipra = c.meipra
      /\ e.preempt = c.preempt /\ e.ppreempt = c.ppreempt /\ ~e.mreteirq /\ ~e.mie
      /\ e.waiting = c.waiting
  BY <1>0 DEF XH!TrapEntry, Cpu
<1> HIDE DEF e
<1>2. HiddenBelow(e) /\ Noticed(e) /\ Released(e)
  BY <1>0, <1>1 DEF HiddenBelow, Noticed, Released
<1> QED
  BY <1>1, <1>2, FlagsKeep DEF e

LEMMA EnablesKeep ==
  ASSUME H3Assumption, NEW c, CpuOK(c), NEW b \in BOOLEAN
  PROVE  /\ CpuOK([c EXCEPT !.mie = b, !.interruptsUpdated = @ \/ (b /\ ~c.mie)])
         /\ CpuOK([c EXCEPT !.meie = b, !.interruptsUpdated = @ \/ (b /\ ~c.meie)])
<1>0. c \in Cpu /\ HiddenBelow(c) /\ Released(c) /\ Noticed(c)
  BY DEF CpuOK, Attentive
<1>1. ASSUME NEW e \in Cpu, e.candidates = c.candidates, e.meinext = c.meinext,
             e.meiea = c.meiea, e.meipa = c.meipa, e.meipra = c.meipra,
             e.preempt = c.preempt, e.ppreempt = c.ppreempt, e.mreteirq = c.mreteirq,
             e.waiting = c.waiting, e.waitingOnBlock = c.waitingOnBlock,
             e.eventRegistered = c.eventRegistered,
             e.interruptsUpdated \/ ((e.mie => c.mie) /\ (e.meie => c.meie) /\ ~c.interruptsUpdated)
      PROVE  CpuOK(e)
  <2>1. HiddenBelow(e) /\ Noticed(e) /\ Released(e)
    BY <1>0, <1>1 DEF HiddenBelow, Noticed, Released
  <2> QED
    BY <1>1, <2>1, FlagsKeep
<1>2. CpuOK([c EXCEPT !.mie = b, !.interruptsUpdated = @ \/ (b /\ ~c.mie)])
  <2> DEFINE v == c.interruptsUpdated \/ (b /\ ~c.mie)
             e == [c EXCEPT !.mie = b, !.interruptsUpdated = v]
  <2>0. v \in BOOLEAN
    BY <1>0 DEF Cpu
  <2>1. v \/ ((b => c.mie) /\ ~c.interruptsUpdated)
    BY <1>0 DEF Cpu
  <2> HIDE DEF v
  <2>2. /\ e \in Cpu /\ e.candidates = c.candidates /\ e.meinext = c.meinext
        /\ e.meiea = c.meiea /\ e.meipa = c.meipa /\ e.meipra = c.meipra
        /\ e.preempt = c.preempt /\ e.ppreempt = c.ppreempt /\ e.mreteirq = c.mreteirq
        /\ e.waiting = c.waiting /\ e.waitingOnBlock = c.waitingOnBlock
        /\ e.eventRegistered = c.eventRegistered
        /\ e.interruptsUpdated = v /\ e.mie = b /\ e.meie = c.meie
    BY <1>0, <2>0 DEF Cpu
  <2> HIDE DEF e
  <2>3. CpuOK(e)
    BY <1>1, <2>1, <2>2
  <2> QED
    BY <2>3 DEF e, v
<1>3. CpuOK([c EXCEPT !.meie = b, !.interruptsUpdated = @ \/ (b /\ ~c.meie)])
  <2> DEFINE v == c.interruptsUpdated \/ (b /\ ~c.meie)
             e == [c EXCEPT !.meie = b, !.interruptsUpdated = v]
  <2>0. v \in BOOLEAN
    BY <1>0 DEF Cpu
  <2>1. v \/ ((b => c.meie) /\ ~c.interruptsUpdated)
    BY <1>0 DEF Cpu
  <2> HIDE DEF v
  <2>2. /\ e \in Cpu /\ e.candidates = c.candidates /\ e.meinext = c.meinext
        /\ e.meiea = c.meiea /\ e.meipa = c.meipa /\ e.meipra = c.meipra
        /\ e.preempt = c.preempt /\ e.ppreempt = c.ppreempt /\ e.mreteirq = c.mreteirq
        /\ e.waiting = c.waiting /\ e.waitingOnBlock = c.waitingOnBlock
        /\ e.eventRegistered = c.eventRegistered
        /\ e.interruptsUpdated = v /\ e.mie = c.mie /\ e.meie = b
    BY <1>0, <2>0 DEF Cpu
  <2> HIDE DEF e
  <2>3. CpuOK(e)
    BY <1>1, <2>1, <2>2
  <2> QED
    BY <2>3 DEF e, v
<1> QED
  BY <1>2, <1>3

-----------------------------------------------------------------------------
(* The steps of the Hazard3 core. *)

LEMMA ResetOK ==
  ASSUME H3Assumption
  PROVE  CpuOK(XH!ResetCpu)
<1> DEFINE c == XH!ResetCpu
<1>1. c \in Cpu
  BY DEF XH!ResetCpu, Cpu
<1>2. c.candidates = <<>> /\ c.meinext = NoIrq /\ ~c.waiting /\ c.meiea = [i \in Irq |-> FALSE]
  BY DEF XH!ResetCpu
<1> HIDE DEF c
<1>3. Listed(c) = {}
  BY <1>2 DEF Listed
<1>4. Exact(c)
  BY <1>2, <1>3 DEF Exact, Lists, Sorted
<1>5. Attentive(c) /\ Released(c)
  BY <1>2 DEF Attentive, BestNamed, HiddenBelow, Noticed, Released
<1> QED
  BY <1>1, <1>4, <1>5 DEF CpuOK, c

LEMMA WindowNumbers ==
  ASSUME H3Assumption
  PROVE  XH!Windows \subseteq Nat /\ XH!Groups \subseteq Nat
<1>1. ASSUME NEW i \in Irq PROVE i \div 16 \in Nat /\ i \div 4 \in Nat
  <2>1. i \in Nat
    BY DEF H3Assumption
  <2> QED
    BY <2>1
<1> QED
  BY <1>1 DEF XH!Windows, XH!Groups

LEMMA HazardStep ==
  ASSUME H3Assumption, CpuOK(cpu), XH!Next
  PROVE  CpuOK(cpu)'
<1> DEFINE c == XH!CheckForInterrupts(cpu)
<1>0. CpuOK(c)
  BY CheckKeeps
<1> HIDE DEF c
<1>1. CASE XH!MEIEA
  <2>1. PICK w \in XH!Windows : \E S \in SUBSET XH!Window(w) :
          cpu' = IF c.waiting THEN c ELSE XH!WriteMEIEA(c, w, S)
    BY <1>1 DEF XH!MEIEA, XH!Execute, c
  <2>2. PICK S \in SUBSET XH!Window(w) : cpu' = IF c.waiting THEN c ELSE XH!WriteMEIEA(c, w, S)
    BY <2>1
  <2> QED
    BY <1>0, <2>2, WindowNumbers, WriteMEIEAKeeps
<1>2. CASE XH!MEIFA
  <2>1. PICK w \in XH!Windows : \E S \in SUBSET XH!Window(w) :
          cpu' = IF c.waiting THEN c ELSE XH!WriteMEIFA(c, w, S)
    BY <1>2 DEF XH!MEIFA, XH!Execute, c
  <2>2. PICK S \in SUBSET XH!Window(w) : cpu' = IF c.waiting THEN c ELSE XH!WriteMEIFA(c, w, S)
    BY <2>1
  <2> QED
    BY <1>0, <2>2, WindowNumbers, WriteMEIFAKeeps
<1>3. CASE XH!MEIPRA
  <2>1. PICK g \in XH!Groups : \E p \in [XH!Group(g) -> H3Priority] :
          cpu' = IF c.waiting THEN c ELSE XH!WriteMEIPRA(c, g, p)
    BY <1>3 DEF XH!MEIPRA, XH!Execute, c
  <2>2. PICK p \in [XH!Group(g) -> H3Priority] : cpu' = IF c.waiting THEN c ELSE XH!WriteMEIPRA(c, g, p)
    BY <2>1
  <2> QED
    BY <1>0, <2>2, WindowNumbers, WriteMEIPRAKeeps
<1>4. CASE XH!MEINEXT
  BY <1>0, <1>4, ReadMEINEXTKeeps, UpdateMEICONTEXTKeeps DEF XH!MEINEXT, XH!Execute, c
<1>5. CASE XH!Claim
  <2>1. cpu' = XH!UpdateMEICONTEXT(XH!ReadMEINEXT(c))
    BY <1>5 DEF XH!Claim, c
  <2> QED
    BY <1>0, <2>1, ReadMEINEXTKeeps, UpdateMEICONTEXTKeeps
<1>6. CASE XH!MEICONTEXT
  <2>1. PICK x \in Context : cpu' = IF c.waiting THEN c ELSE XH!WriteMEICONTEXT(c, x)
    BY <1>6 DEF XH!MEICONTEXT, XH!Execute, c
  <2> QED
    BY <1>0, <2>1, WriteMEICONTEXTKeeps
<1>7. CASE XH!MSTATUS
  <2>1. PICK b \in BOOLEAN :
          cpu' = IF c.waiting THEN c
                 ELSE [c EXCEPT !.mie = b, !.interruptsUpdated = @ \/ (b /\ ~c.mie)]
    BY <1>7 DEF XH!MSTATUS, XH!Execute, c
  <2> QED
    BY <1>0, <2>1, EnablesKeep
<1>8. CASE XH!MIE
  <2>1. PICK b \in BOOLEAN :
          cpu' = IF c.waiting THEN c
                 ELSE [c EXCEPT !.meie = b, !.interruptsUpdated = @ \/ (b /\ ~c.meie)]
    BY <1>8 DEF XH!MIE, XH!Execute, c
  <2> QED
    BY <1>0, <2>1, EnablesKeep
<1>9. CASE XH!Trap
  <2>1. cpu' = IF c.waiting THEN c ELSE XH!TrapEntry(c, FALSE)
    BY <1>9 DEF XH!Trap, XH!Execute, c
  <2> QED
    BY <1>0, <2>1, TrapKeeps
<1>10. CASE XH!Return
  BY <1>0, <1>10, MretKeeps DEF XH!Return, XH!Execute, c
<1>11. CASE XH!Sleep
  BY <1>0, <1>11, SleepKeeps DEF XH!Sleep, XH!Execute, c
<1>12. CASE XH!SEV
  BY <1>0, <1>12, UnblockKeeps DEF XH!SEV, XH!Execute, c
<1>13. CASE XH!Other
  BY <1>0, <1>13 DEF XH!Other, XH!Execute, c
<1>14. CASE XH!Peripheral
  <2>1. PICK i \in Irq, v \in BOOLEAN : cpu' = XH!SetInterrupt(cpu, i, v)
    BY <1>14 DEF XH!Peripheral
  <2>2. CpuOK(XH!SetInterrupt(cpu, i, v))
    BY SetInterruptKeeps DEF CpuOK
  <2> QED
    BY <2>1, <2>2
<1>15. CASE XH!OtherCoreSEV
  BY <1>15, UnblockKeeps DEF XH!OtherCoreSEV
<1>16. CASE XH!Reset
  BY <1>16, ResetOK DEF XH!Reset
<1> QED
  BY <1>1, <1>2, <1>3, <1>4, <1>5, <1>6, <1>7, <1>8, <1>9, <1>10, <1>11, <1>12, <1>13,
     <1>14, <1>15, <1>16 DEF XH!Next, XH!Step

\* What the runs check follows.
LEMMA HazardProperties ==
  ASSUME H3Assumption, CpuOK(cpu)
  PROVE  XH!CandidatesExact /\ XH!NextIsBest /\ XH!NoMissedInterrupt /\ XH!NoLostUnblock
<1> DEFINE s == cpu.candidates
<1>1. Lists(s, Listed(cpu), cpu.meipra) /\ DOMAIN s = 1 .. Len(s)
  <2>1. Lists(s, Listed(cpu), cpu.meipra)
    BY DEF CpuOK, Exact
  <2>2. s \in Seq(Entry)
    BY <2>1 DEF Lists
  <2> QED
    BY <2>1, <2>2
<1>2. {s[k] : k \in DOMAIN s} = {<<i, cpu.meipra[i]>> : i \in Listed(cpu)}
  <2>1. ASSUME NEW k \in DOMAIN s PROVE s[k] \in {<<i, cpu.meipra[i]>> : i \in Listed(cpu)}
    <3>1. s[k] \in Entry /\ s[k][1] \in Listed(cpu) /\ s[k][2] = cpu.meipra[s[k][1]]
      BY <1>1 DEF Lists
    <3>2. s[k] = <<s[k][1], cpu.meipra[s[k][1]]>>
      BY <3>1 DEF Entry
    <3> QED
      BY <3>1, <3>2
  <2>2. ASSUME NEW i \in Listed(cpu) PROVE <<i, cpu.meipra[i]>> \in {s[k] : k \in DOMAIN s}
    <3>1. PICK k \in DOMAIN s : s[k] = <<i, cpu.meipra[i]>>
      BY <1>1 DEF Lists
    <3> QED
      BY <3>1
  <2> QED
    BY <2>1, <2>2
<1>3. XH!CandidatesExact
  BY <1>1, <1>2 DEF XH!CandidatesExact, Lists, Sorted, Listed
<1>4. XH!NextIsBest
  BY DEF XH!NextIsBest, CpuOK, Attentive, BestNamed
<1>5. XH!NoMissedInterrupt
  BY NamedPriority DEF XH!NoMissedInterrupt, CpuOK, Attentive, Noticed
<1>6. XH!NoLostUnblock
  BY DEF XH!NoLostUnblock, CpuOK, Released
<1> QED
  BY <1>3, <1>4, <1>5, <1>6

-----------------------------------------------------------------------------
(* The exceptions of the Cortex-M0+. *)

Ints == M0!Interrupts
Exc == Ints \cup {"NMI", "SVCall", "PendSV", "SysTick"}

Snap == [ipsr : Exc \cup {"Thread"}, pc : Nat, lr : {"none", "handler", "process", "main"},
         spsel : BOOLEAN, sp : Nat]
Frame == [lr : {"none", "handler", "process", "main"}, pc : Nat, ipsr : Exc \cup {"Thread"}, pad : Nat]
StackPlace == BOOLEAN \X Nat
Mems == UNION {[D -> Frame] : D \in SUBSET StackPlace}

M0Core == [ipsr : Exc \cup {"Thread"}, pc : Nat, lr : {"none", "handler", "process", "main"},
           sp : Nat, bankedSP : Nat, spsel : BOOLEAN, mem : Mems, pm : BOOLEAN,
           pend : SUBSET Exc, ena : SUBSET Ints, prio : [Ints -> Nat],
           waiting : BOOLEAN, event : BOOLEAN, updated : BOOLEAN, hist : Seq(Snap)]

\* What arbitration looks at.
Arbiter(c) == /\ c.ipsr \in Exc \cup {"Thread"} /\ c.pm \in BOOLEAN /\ c.waiting \in BOOLEAN
              /\ c.pend \in SUBSET Exc /\ c.ena \in SUBSET Ints /\ c.prio \in [Ints -> Nat]

Urgent(c) == M0!Above(c, M0!ExecutionPriority(c))

LEMMA M0Names ==
  ASSUME M0Assumption
  PROVE  /\ Ints = {Irqs[i] : i \in DOMAIN Irqs} /\ Lines \subseteq Ints
         /\ Ints \cap {"Thread", "NMI", "SVCall", "PendSV", "SysTick"} = {}
         /\ SysExc \subseteq Exc /\ Priority \subseteq Nat /\ SysExc \cap Ints = {}
<1>1. Ints = {Irqs[i] : i \in DOMAIN Irqs}
  BY DEF Ints, M0!Interrupts, M0!Range
<1> QED
  BY <1>1 DEF M0Assumption, Exc

\* NMI is above all; every other exception is at 0 or below it in urgency, Thread at 4.
LEMMA PriorityRange ==
  ASSUME M0Assumption, NEW c, Arbiter(c), NEW e \in Exc \cup {"Thread"}
  PROVE  /\ M0!exceptionPriority(c, e) \in Int
         /\ e = "NMI" => M0!exceptionPriority(c, e) = 0 - 2
         /\ e # "NMI" => M0!exceptionPriority(c, e) >= 0
         /\ e = "Thread" => M0!exceptionPriority(c, e) = 4
<1>1. CASE e = "Thread"
  <2>1. e \notin Ints
    BY <1>1, M0Names
  <2>2. M0!exceptionPriority(c, e) = 4
    BY <1>1, <2>1 DEF M0!exceptionPriority, M0!Thread, M0!LOWEST_PRIORITY, Ints
  <2> QED
    BY <1>1, <2>2
<1>2. CASE e = "NMI"
  <2>1. e \notin Ints
    BY <1>2, M0Names
  <2>2. M0!exceptionPriority(c, e) = 0 - 2
    BY <1>2, <2>1 DEF M0!exceptionPriority, M0!Thread, Ints
  <2> QED
    BY <1>2, <2>2
<1>3. CASE e \in Ints
  <2>1. e \notin {"Thread", "NMI", "SVCall", "PendSV", "SysTick"} /\ c.prio[e] \in Nat
    BY <1>3, M0Names DEF Arbiter
  <2>2. M0!exceptionPriority(c, e) = c.prio[e]
    BY <1>3, <2>1 DEF M0!exceptionPriority, M0!Thread, Ints
  <2> QED
    BY <2>1, <2>2
<1>4. CASE e \in {"SVCall", "PendSV", "SysTick"}
  <2>1. e \notin Ints
    BY <1>4, M0Names
  <2>2. M0!exceptionPriority(c, e) = 2
    BY <1>4, <2>1 DEF M0!exceptionPriority, M0!Thread, Ints, SameSysPriority
  <2> QED
    BY <1>4, <2>2
<1> QED
  BY <1>1, <1>2, <1>3, <1>4 DEF Exc

LEMMA OrderNames ==
  ASSUME M0Assumption, NEW e \in Exc
  PROVE  \E i \in DOMAIN M0!Order : i \in Nat /\ M0!Order[i] = e
<1> DEFINE a == <<"NMI", "SVCall", "PendSV", "SysTick">>
<1>1. a \in Seq(Exc) /\ Len(a) = 4
      /\ a[1] = "NMI" /\ a[2] = "SVCall" /\ a[3] = "PendSV" /\ a[4] = "SysTick"
  BY DEF Exc
<1>2. Irqs \in Seq(Exc) /\ Len(Irqs) \in Nat /\ DOMAIN Irqs = 1 .. Len(Irqs)
  <2>1. Irqs \in Seq(STRING)
    BY DEF M0Assumption
  <2>2. Len(Irqs) \in Nat /\ DOMAIN Irqs = 1 .. Len(Irqs) /\ Irqs = [i \in 1 .. Len(Irqs) |-> Irqs[i]]
    BY <2>1
  <2>3. \A i \in 1 .. Len(Irqs) : Irqs[i] \in Exc
    BY <2>2, M0Names DEF Exc
  <2>4. Irqs \in [1 .. Len(Irqs) -> Exc]
    BY <2>2, <2>3
  <2>5. Irqs \in Seq(Exc)
    BY <2>2, <2>4
  <2> QED
    BY <2>2, <2>5
<1> HIDE DEF a
<1>3. /\ a \o Irqs \in Seq(Exc) /\ Len(a \o Irqs) = 4 + Len(Irqs)
      /\ \A i \in 1 .. 4 + Len(Irqs) : (a \o Irqs)[i] = IF i <= 4 THEN a[i] ELSE Irqs[i - 4]
  <2>1. /\ a \o Irqs \in Seq(Exc) /\ Len(a \o Irqs) = Len(a) + Len(Irqs)
        /\ \A i \in 1 .. Len(a) + Len(Irqs) :
             (a \o Irqs)[i] = IF i <= Len(a) THEN a[i] ELSE Irqs[i - Len(a)]
    BY <1>1, <1>2, ConcatProperties
  <2> QED
    BY <1>1, <2>1
<1>4. M0!Order = a \o Irqs /\ DOMAIN (a \o Irqs) = 1 .. 4 + Len(Irqs)
  BY <1>3 DEF M0!Order, a
<1>5. CASE e \in {"NMI", "SVCall", "PendSV", "SysTick"}
  <2>1. 1 \in 1 .. 4 /\ 2 \in 1 .. 4 /\ 3 \in 1 .. 4 /\ 4 \in 1 .. 4
    OBVIOUS
  <2>2. PICK i \in 1 .. 4 : a[i] = e
    BY <1>1, <1>5, <2>1
  <2>3. i \in 1 .. 4 + Len(Irqs) /\ i <= 4 /\ i \in Nat
    BY <1>2
  <2>4. (a \o Irqs)[i] = e
    BY <1>3, <2>2, <2>3
  <2> QED
    BY <1>4, <2>3, <2>4
<1>6. CASE e \in Ints
  <2>1. PICK j \in DOMAIN Irqs : Irqs[j] = e
    BY <1>6, M0Names
  <2>2. j + 4 \in 1 .. 4 + Len(Irqs) /\ ~(j + 4 <= 4) /\ (j + 4) - 4 = j
    BY <1>2, <2>1
  <2> QED
    BY <1>3, <1>4, <2>1, <2>2
<1> QED
  BY <1>5, <1>6 DEF Exc

\* checkForInterrupts finds one of the most urgent.
LEMMA ChosenIsBest ==
  ASSUME M0Assumption, NEW c, Arbiter(c), M0!Takeable(c) # {}
  PROVE  /\ M0!Chosen(c) \in M0!Takeable(c)
         /\ \A f \in M0!Takeable(c) : M0!exceptionPriority(c, M0!Chosen(c)) <= M0!exceptionPriority(c, f)
<1> DEFINE T == M0!Takeable(c)
           p(e) == M0!exceptionPriority(c, e)
           Best(e) == \A f \in T \ {e} :
                        \/ p(e) < p(f)
                        \/ p(e) = p(f) /\ \E i, j \in DOMAIN M0!Order :
                                            M0!Order[i] = e /\ M0!Order[j] = f /\ i < j
<1>1. T \subseteq Exc
  BY DEF M0!Takeable, M0!Above, Arbiter
<1>2. \A e \in T : p(e) \in Int /\ p(e) + 2 \in Nat
  BY <1>1, PriorityRange
<1> HIDE DEF T, p
<1>3. PICK m \in {p(e) + 2 : e \in T} : \A n \in {p(e) + 2 : e \in T} : m <= n
  <2>1. {p(e) + 2 : e \in T} \subseteq Nat /\ {p(e) + 2 : e \in T} # {}
    BY <1>2 DEF T
  <2> QED
    BY <2>1, LeastNat
<1>4. PICK e0 \in T : \A f \in T : p(e0) <= p(f)
  <2>1. PICK e0 \in T : m = p(e0) + 2
    BY <1>3
  <2>2. \A f \in T : p(e0) + 2 <= p(f) + 2
    BY <1>3, <2>1
  <2> QED
    BY <1>2, <2>1, <2>2
<1> DEFINE I == {i \in Nat : i \in DOMAIN M0!Order /\ M0!Order[i] \in T /\ p(M0!Order[i]) = p(e0)}
<1>5. I # {} /\ I \subseteq Nat
  <2>1. PICK i \in DOMAIN M0!Order : i \in Nat /\ M0!Order[i] = e0
    BY <1>1, OrderNames
  <2> QED
    BY <2>1
<1>6. PICK k \in I : \A n \in I : k <= n
  BY <1>5, LeastNat
<1>7. M0!Order[k] \in T /\ p(M0!Order[k]) = p(e0) /\ k \in DOMAIN M0!Order /\ k \in Nat
  BY <1>6
<1>8. Best(M0!Order[k])
  <2> SUFFICES ASSUME NEW f \in T \ {M0!Order[k]}
               PROVE  \/ p(M0!Order[k]) < p(f)
                      \/ p(M0!Order[k]) = p(f) /\ \E i, j \in DOMAIN M0!Order :
                              M0!Order[i] = M0!Order[k] /\ M0!Order[j] = f /\ i < j
    OBVIOUS
  <2>1. p(e0) <= p(f) /\ p(e0) \in Int /\ p(f) \in Int
    BY <1>2, <1>4
  <2>2. CASE p(e0) < p(f)
    BY <1>7, <2>2
  <2>3. CASE p(e0) = p(f)
    <3>1. PICK j \in DOMAIN M0!Order : j \in Nat /\ M0!Order[j] = f
      BY <1>1, OrderNames
    <3>2. j \in I
      BY <2>3, <3>1
    <3>3. k < j
      BY <1>6, <1>7, <3>1, <3>2
    <3> QED
      BY <1>7, <2>3, <3>1, <3>3
  <2> QED
    BY <2>1, <2>2, <2>3
<1>9. M0!Chosen(c) \in T /\ Best(M0!Chosen(c))
  <2>1. M0!Chosen(c) = CHOOSE e \in T : Best(e)
    BY DEF M0!Chosen, T, p
  <2>2. \E e \in T : Best(e)
    BY <1>7, <1>8
  <2> HIDE DEF Best
  <2> QED
    BY <2>1, <2>2
<1>10. \A f \in T : p(M0!Chosen(c)) <= p(f)
  BY <1>2, <1>9
<1> QED
  BY <1>9, <1>10 DEF T, p

-----------------------------------------------------------------------------
(* What the Cortex-M0+ has interrupted. *)

Top(h) == h.sp + (h.sp % 2) + 8
KeyOf(h) == <<h.spsel, Top(h)>>
FrameOf(h) == [lr |-> h.lr, pc |-> h.pc, ipsr |-> h.ipsr, pad |-> h.sp % 2]
Link(h) == IF h.ipsr # "Thread" THEN "handler" ELSE IF h.spsel THEN "process" ELSE "main"

Pointer(c, process) == M0!StackPointer(c, process)

\* The frame of each interrupted context is in memory and nothing else is.
FramesKept(c) ==
  /\ DOMAIN c.mem = {KeyOf(c.hist[k]) : k \in 1 .. Len(c.hist)}
  /\ \A k \in 1 .. Len(c.hist) : c.mem[KeyOf(c.hist[k])] = FrameOf(c.hist[k])

\* The oldest context is the program, the others are handlers on the main stack, and
\* each one's link register leads to the one before.
ChainKept(c) ==
  LET n == Len(c.hist)
  IN  /\ c.ipsr = "Thread" <=> n = 0
      /\ n # 0 => ~c.spsel /\ c.lr = Link(c.hist[n])
      /\ \A k \in 1 .. n : c.hist[k].ipsr = "Thread" <=> k = 1
      /\ \A k \in 2 .. n : ~c.hist[k].spsel /\ c.hist[k].lr = Link(c.hist[k - 1])

\* Frames lie above each other, and below the pointers; a process stack does not move
\* while handlers run.
FramesStacked(c) ==
  /\ \A j, k \in 1 .. Len(c.hist) :
       j < k /\ ~c.hist[j].spsel => Top(c.hist[j]) <= c.hist[k].sp
  /\ \A k \in 1 .. Len(c.hist) :
       /\ c.hist[k].spsel => Pointer(c, TRUE) = Top(c.hist[k])
       /\ ~c.hist[k].spsel => Top(c.hist[k]) <= Pointer(c, FALSE)

NestedM0(c) == FramesKept(c) /\ ChainKept(c) /\ FramesStacked(c)

LEMMA TopNat ==
  ASSUME NEW h \in Snap
  PROVE  /\ Top(h) \in Nat /\ Top(h) > h.sp /\ h.sp \in Nat /\ h.sp % 2 \in Nat
         /\ Top(h) - 8 - (h.sp % 2) = h.sp /\ FrameOf(h) \in Frame /\ KeyOf(h) \in StackPlace
         /\ Link(h) \in {"handler", "process", "main"}
<1>1. h.sp \in Nat /\ h.spsel \in BOOLEAN /\ h.ipsr \in Exc \cup {"Thread"} /\ h.pc \in Nat
      /\ h.lr \in {"none", "handler", "process", "main"}
  BY DEF Snap
<1> DEFINE r == h.sp % 2
<1>2. r \in Nat
  BY <1>1
<1> HIDE DEF r
<1>3. Top(h) = h.sp + r + 8
  BY DEF Top, r
<1>4. Top(h) \in Nat /\ Top(h) > h.sp /\ Top(h) - 8 - r = h.sp
  BY <1>1, <1>2, <1>3
<1>5. FrameOf(h) \in Frame
  BY <1>1, <1>2 DEF FrameOf, Frame, r
<1>6. KeyOf(h) \in StackPlace
  BY <1>1, <1>4 DEF KeyOf, StackPlace
<1>7. Link(h) \in {"handler", "process", "main"}
  BY DEF Link
<1> QED
  BY <1>1, <1>2, <1>4, <1>5, <1>6, <1>7 DEF r

\* d has the fields of a core.
HasFields(d) ==
  d = [ipsr |-> d.ipsr, pc |-> d.pc, lr |-> d.lr, sp |-> d.sp, bankedSP |-> d.bankedSP,
       spsel |-> d.spsel, mem |-> d.mem, pm |-> d.pm, pend |-> d.pend, ena |-> d.ena,
       prio |-> d.prio, waiting |-> d.waiting, event |-> d.event,
       updated |-> d.updated, hist |-> d.hist]

\* d is c after it was interrupted at h to enter e.
Interrupted(c, h, e, d) ==
  /\ HasFields(d)
  /\ h \in Snap /\ h.sp = c.sp /\ h.spsel = c.spsel /\ h.ipsr = c.ipsr /\ h.lr = c.lr
  /\ d.ipsr = e /\ d.pc = 0 /\ d.lr = Link(h) /\ ~d.spsel /\ d.spsel \in BOOLEAN
  /\ d.sp = (IF c.spsel THEN c.bankedSP ELSE Top(h))
  /\ d.bankedSP = (IF c.spsel THEN Top(h) ELSE c.bankedSP)
  /\ d.mem = M0!WithFrame(c.mem, KeyOf(h), FrameOf(h))
  /\ d.hist = Append(c.hist, h) /\ d.pm = c.pm /\ d.pend = c.pend /\ d.ena = c.ena
  /\ d.prio = c.prio /\ d.waiting = c.waiting /\ d.updated = c.updated /\ d.event = TRUE

LEMMA EntryFields ==
  ASSUME M0Assumption, NEW c \in M0Core, NestedM0(c), NEW e \in Exc
  PROVE  Interrupted(c, M0!Snapshot(c), e, M0!exceptionEntry(c, e))
<1> DEFINE h == M0!Snapshot(c)
           process == c.spsel /\ c.ipsr = "Thread"
           sp == M0!StackPointer(c, process)
           top == sp + (sp % 2) + 8
           f == M0!SetStackPointer(c, process, top)
           s == M0!switchStack(f, FALSE)
           d == M0!exceptionEntry(c, e)
<1>1. h \in Snap /\ h.sp = c.sp /\ h.spsel = c.spsel /\ h.ipsr = c.ipsr /\ h.lr = c.lr /\ h.pc = c.pc
  BY DEF M0!Snapshot, Snap, M0Core
<1>2. process = c.spsel /\ c.spsel \in BOOLEAN
  BY DEF NestedM0, ChainKept, M0Core
<1>3. sp = c.sp /\ top = Top(h)
  BY <1>1, <1>2 DEF M0!StackPointer, Top
<1>4. f = [c EXCEPT !.sp = top]
  BY <1>2 DEF M0!SetStackPointer
<1> HIDE DEF h, process, top
<1>5. s = IF c.spsel THEN [c EXCEPT !.spsel = FALSE, !.sp = c.bankedSP, !.bankedSP = top]
          ELSE [c EXCEPT !.sp = top]
  BY <1>2, <1>4 DEF M0!switchStack, M0Core
<1>6. d = [s EXCEPT
             !.mem = M0!WithFrame(@, <<process, top>>,
                          [lr |-> c.lr, pc |-> c.pc, ipsr |-> c.ipsr, pad |-> sp % 2]),
             !.lr = IF c.ipsr # "Thread" THEN "handler" ELSE IF c.spsel THEN "process" ELSE "main",
             !.ipsr = e, !.pc = 0, !.event = TRUE,
             !.hist = Append(@, h)]
  BY DEF M0!exceptionEntry, h, process, top, M0!FrameWords, M0!Thread
<1>7. <<process, top>> = KeyOf(h)
      /\ [lr |-> c.lr, pc |-> c.pc, ipsr |-> c.ipsr, pad |-> sp % 2] = FrameOf(h)
      /\ (IF c.ipsr # "Thread" THEN "handler" ELSE IF c.spsel THEN "process" ELSE "main") = Link(h)
  BY <1>1, <1>2, <1>3 DEF KeyOf, FrameOf, Link
<1> DEFINE key == KeyOf(h)
           frame == FrameOf(h)
           link == Link(h)
<1>8. d = [s EXCEPT !.mem = M0!WithFrame(@, key, frame), !.lr = link, !.ipsr = e, !.pc = 0,
                    !.event = TRUE, !.hist = Append(@, h)]
  BY <1>6, <1>7
<1> HIDE DEF s, key, frame, link, f, sp, d
<1>9. CASE c.spsel
  <2>1. s = [c EXCEPT !.spsel = FALSE, !.sp = c.bankedSP, !.bankedSP = top]
    BY <1>5, <1>9
  <2>2. d = [c EXCEPT !.spsel = FALSE, !.sp = c.bankedSP, !.bankedSP = top,
                      !.mem = M0!WithFrame(c.mem, key, frame), !.lr = link, !.ipsr = e, !.pc = 0,
                      !.event = TRUE, !.hist = Append(c.hist, h)]
    BY <1>8, <2>1 DEF M0Core
  <2>3. HasFields(d)
    BY <2>2 DEF M0Core, HasFields
  <2>4. /\ d.ipsr = e /\ d.pc = 0 /\ d.lr = link /\ d.mem = M0!WithFrame(c.mem, key, frame)
        /\ d.hist = Append(c.hist, h) /\ d.pm = c.pm /\ d.pend = c.pend /\ d.ena = c.ena
        /\ d.prio = c.prio /\ d.waiting = c.waiting /\ d.updated = c.updated /\ d.event = TRUE
    BY <2>2 DEF M0Core
  <2>5. d.spsel = FALSE /\ d.sp = c.bankedSP /\ d.bankedSP = top
    BY <1>9, <2>2 DEF M0Core
  <2>6. Interrupted(c, h, e, d)
    BY <1>1, <1>3, <1>9, <2>3, <2>4, <2>5 DEF Interrupted, key, frame, link
  <2> QED
    BY <2>6 DEF d, h
<1>10. CASE ~c.spsel
  <2>1. s = [c EXCEPT !.sp = top]
    BY <1>5, <1>10
  <2>2. d = [c EXCEPT !.sp = top,
                      !.mem = M0!WithFrame(c.mem, key, frame), !.lr = link, !.ipsr = e, !.pc = 0,
                      !.event = TRUE, !.hist = Append(c.hist, h)]
    BY <1>8, <2>1 DEF M0Core
  <2>3. HasFields(d)
    BY <2>2 DEF M0Core, HasFields
  <2>4. /\ d.ipsr = e /\ d.pc = 0 /\ d.lr = link /\ d.mem = M0!WithFrame(c.mem, key, frame)
        /\ d.hist = Append(c.hist, h) /\ d.pm = c.pm /\ d.pend = c.pend /\ d.ena = c.ena
        /\ d.prio = c.prio /\ d.waiting = c.waiting /\ d.updated = c.updated /\ d.event = TRUE
    BY <2>2 DEF M0Core
  <2>5. d.spsel = FALSE /\ d.sp = top /\ d.bankedSP = c.bankedSP
    BY <1>10, <2>2 DEF M0Core
  <2>6. Interrupted(c, h, e, d)
    BY <1>1, <1>3, <1>10, <2>3, <2>4, <2>5 DEF Interrupted, key, frame, link
  <2> QED
    BY <2>6 DEF d, h
<1> QED
  BY <1>2, <1>9, <1>10

\* Appending one context.
LEMMA Appended ==
  ASSUME NEW s \in Seq(Snap), NEW h \in Snap
  PROVE  /\ Append(s, h) \in Seq(Snap) /\ Len(Append(s, h)) = Len(s) + 1
         /\ \A k \in 1 .. Len(s) : Append(s, h)[k] = s[k]
         /\ Append(s, h)[Len(s) + 1] = h
OBVIOUS

LEMMA EntryNests ==
  ASSUME M0Assumption, NEW c \in M0Core, NestedM0(c), NEW e \in Exc, NEW h, NEW d,
         Interrupted(c, h, e, d)
  PROVE  d \in M0Core /\ NestedM0(d)
<1> DEFINE n == Len(c.hist)
<1>0. /\ c.hist \in Seq(Snap) /\ n \in Nat /\ h \in Snap /\ d.hist = Append(c.hist, h)
      /\ c.sp \in Nat /\ c.bankedSP \in Nat /\ c.spsel \in BOOLEAN /\ e # "Thread"
      /\ Top(h) \in Nat /\ KeyOf(h) \in StackPlace /\ FrameOf(h) \in Frame
      /\ Top(h) > c.sp /\ Link(h) \in {"handler", "process", "main"}
  <2>1. c.hist \in Seq(Snap) /\ n \in Nat /\ c.sp \in Nat /\ c.bankedSP \in Nat /\ c.spsel \in BOOLEAN
    BY DEF M0Core
  <2>2. h \in Snap /\ h.sp = c.sp /\ d.hist = Append(c.hist, h)
    BY DEF Interrupted
  <2>3. e # "Thread"
    BY M0Names DEF Exc
  <2> QED
    BY <2>1, <2>2, <2>3, TopNat
<1>1. /\ d.hist \in Seq(Snap) /\ Len(d.hist) = n + 1
      /\ \A k \in 1 .. n : d.hist[k] = c.hist[k]
      /\ d.hist[n + 1] = h
  BY <1>0, Appended
<1> HIDE DEF n
<1>2. \A k \in 1 .. n : c.hist[k] \in Snap /\ Top(c.hist[k]) \in Nat /\ KeyOf(c.hist[k]) \in StackPlace
  <2>1. \A k \in 1 .. n : c.hist[k] \in Snap
    BY <1>0 DEF n
  <2> QED
    BY <2>1, TopNat
<1>3. n # 0 => ~c.spsel
  BY DEF NestedM0, ChainKept, n
\* No frame is where the new one goes.
<1>4. \A k \in 1 .. n : KeyOf(c.hist[k]) # KeyOf(h)
  <2> SUFFICES ASSUME NEW k \in 1 .. n, KeyOf(c.hist[k]) = KeyOf(h) PROVE FALSE
    OBVIOUS
  <2>1. c.hist[k].spsel = h.spsel /\ Top(c.hist[k]) = Top(h)
    BY DEF KeyOf
  <2>2. ~c.spsel /\ h.spsel = c.spsel
    BY <1>0, <1>3 DEF Interrupted
  <2>3. Top(c.hist[k]) <= c.sp
    BY <2>1, <2>2 DEF NestedM0, FramesStacked, Pointer, M0!StackPointer, n
  <2> QED
    BY <1>0, <2>1, <2>3
<1>5. /\ d.mem = [x \in DOMAIN c.mem \cup {KeyOf(h)} |-> IF x = KeyOf(h) THEN FrameOf(h) ELSE c.mem[x]]
  BY DEF Interrupted, M0!WithFrame
<1>6. FramesKept(d)
  <2>1. DOMAIN d.mem = {KeyOf(c.hist[k]) : k \in 1 .. n} \cup {KeyOf(h)}
    BY <1>5 DEF NestedM0, FramesKept, n
  <2>2. {KeyOf(d.hist[k]) : k \in 1 .. (n + 1)} = {KeyOf(c.hist[k]) : k \in 1 .. n} \cup {KeyOf(h)}
    <3>1. \A k \in 1 .. (n + 1) : k = n + 1 \/ k \in 1 .. n
      BY <1>0 DEF n
    <3>2. n + 1 \in 1 .. (n + 1) /\ \A k \in 1 .. n : k \in 1 .. (n + 1)
      BY <1>0 DEF n
    <3> QED
      BY <1>1, <3>1, <3>2
  <2>3. ASSUME NEW k \in 1 .. (n + 1) PROVE d.mem[KeyOf(d.hist[k])] = FrameOf(d.hist[k])
    <3>1. CASE k = n + 1
      BY <1>1, <1>5, <3>1
    <3>2. CASE k # n + 1
      <4>1. k \in 1 .. n
        BY <1>0, <3>2 DEF n
      <4>2. KeyOf(c.hist[k]) \in DOMAIN c.mem /\ c.mem[KeyOf(c.hist[k])] = FrameOf(c.hist[k])
        BY <4>1 DEF NestedM0, FramesKept, n
      <4> QED
        BY <1>1, <1>4, <1>5, <4>1, <4>2
    <3> QED
      BY <3>1, <3>2
  <2> QED
    BY <1>1, <2>1, <2>2, <2>3 DEF FramesKept
<1>7. ChainKept(d)
  <2>1. n + 1 # 0 /\ d.ipsr # "Thread" /\ ~d.spsel /\ d.lr = Link(d.hist[n + 1])
    BY <1>0, <1>1 DEF Interrupted, n
  <2>2. ASSUME NEW k \in 1 .. (n + 1) PROVE d.hist[k].ipsr = "Thread" <=> k = 1
    <3>1. CASE k = n + 1
      <4>1. d.hist[k].ipsr = c.ipsr
        BY <1>1, <3>1 DEF Interrupted
      <4>2. n = 0 <=> k = 1
        BY <1>0, <3>1 DEF n
      <4>3. c.ipsr = "Thread" <=> n = 0
        BY DEF NestedM0, ChainKept, n
      <4> QED
        BY <4>1, <4>2, <4>3
    <3>2. CASE k # n + 1
      <4>1. k \in 1 .. n
        BY <1>0, <3>2 DEF n
      <4>2. c.hist[k].ipsr = "Thread" <=> k = 1
        BY <4>1 DEF NestedM0, ChainKept, n
      <4> QED
        BY <1>1, <4>1, <4>2
    <3> QED
      BY <3>1, <3>2
  <2>3. ASSUME NEW k \in 2 .. (n + 1) PROVE ~d.hist[k].spsel /\ d.hist[k].lr = Link(d.hist[k - 1])
    <3>1. CASE k = n + 1
      <4>1. n # 0 /\ k - 1 = n /\ n \in 1 .. n
        BY <1>0, <3>1 DEF n
      <4>2. ~c.spsel /\ c.lr = Link(c.hist[n])
        BY <4>1 DEF NestedM0, ChainKept, n
      <4>3. h.lr = c.lr /\ h.spsel = c.spsel
        BY DEF Interrupted
      <4> QED
        BY <1>1, <3>1, <4>1, <4>2, <4>3
    <3>2. CASE k # n + 1
      <4>1. k \in 2 .. n /\ k \in 1 .. n /\ k - 1 \in 1 .. n
        BY <1>0, <3>2 DEF n
      <4>2. ~c.hist[k].spsel /\ c.hist[k].lr = Link(c.hist[k - 1])
        BY <4>1 DEF NestedM0, ChainKept, n
      <4> QED
        BY <1>1, <4>1, <4>2
    <3> QED
      BY <3>1, <3>2
  <2> QED
    BY <1>1, <2>1, <2>2, <2>3 DEF ChainKept
<1>8. FramesStacked(d)
  <2>0. /\ Pointer(d, FALSE) = d.sp /\ Pointer(d, TRUE) = d.bankedSP
        /\ c.spsel => d.sp = Pointer(c, FALSE) /\ d.bankedSP = Top(h)
        /\ ~c.spsel => d.sp = Top(h) /\ d.bankedSP = Pointer(c, TRUE) /\ Pointer(c, FALSE) = c.sp
    BY <1>0 DEF Interrupted, Pointer, M0!StackPointer
  <2>1. ASSUME NEW j \in 1 .. (n + 1), NEW k \in 1 .. (n + 1), j < k, ~d.hist[j].spsel
        PROVE  Top(d.hist[j]) <= d.hist[k].sp
    <3>1. j \in 1 .. n
      BY <1>0, <2>1 DEF n
    <3>2. CASE k = n + 1
      <4>1. d.hist[k].sp = c.sp
        BY <1>1, <3>2 DEF Interrupted
      <4>2. ~c.spsel
        BY <1>0, <1>3, <3>1 DEF n
      <4>3. Top(c.hist[j]) <= Pointer(c, FALSE)
        BY <1>1, <2>1, <3>1 DEF NestedM0, FramesStacked, n
      <4> QED
        BY <1>1, <2>0, <3>1, <4>1, <4>2, <4>3
    <3>3. CASE k # n + 1
      <4>1. k \in 1 .. n
        BY <1>0, <3>3 DEF n
      <4> QED
        BY <1>1, <2>1, <3>1, <4>1 DEF NestedM0, FramesStacked, n
    <3> QED
      BY <3>2, <3>3
  <2>2. ASSUME NEW k \in 1 .. (n + 1)
        PROVE  /\ d.hist[k].spsel => Pointer(d, TRUE) = Top(d.hist[k])
               /\ ~d.hist[k].spsel => Top(d.hist[k]) <= Pointer(d, FALSE)
    <3>1. CASE k = n + 1
      <4>1. d.hist[k] = h /\ h.spsel = c.spsel
        BY <1>1, <3>1 DEF Interrupted
      <4>2. c.spsel => Pointer(d, TRUE) = Top(h)
        BY <2>0
      <4>3. ~c.spsel => Pointer(d, FALSE) = Top(h)
        BY <2>0
      <4>4. Top(h) <= Top(h)
        BY <1>0
      <4> QED
        BY <4>1, <4>2, <4>3, <4>4
    <3>2. CASE k # n + 1
      <4>1. k \in 1 .. n /\ n # 0
        BY <1>0, <3>2 DEF n
      <4>2. ~c.spsel
        BY <1>3, <4>1
      <4>3. /\ c.hist[k].spsel => Pointer(c, TRUE) = Top(c.hist[k])
            /\ ~c.hist[k].spsel => Top(c.hist[k]) <= Pointer(c, FALSE)
        BY <4>1 DEF NestedM0, FramesStacked, n
      <4>4. ~c.hist[k].spsel => Top(c.hist[k]) <= Top(h)
        <5>1. Pointer(c, FALSE) = c.sp
          BY <2>0, <4>2
        <5>2. Top(c.hist[k]) \in Nat
          BY <1>2, <4>1
        <5>3. ~c.hist[k].spsel => Top(c.hist[k]) <= c.sp
          BY <4>3, <5>1
        <5> QED
          BY <1>0, <5>2, <5>3
      <4> QED
        BY <1>1, <2>0, <4>1, <4>2, <4>3, <4>4
    <3> QED
      BY <3>1, <3>2
  <2> QED
    BY <1>1, <2>1, <2>2 DEF FramesStacked
<1>9. d \in M0Core
  <2>1. d.mem \in Mems
    <3>1. PICK D \in SUBSET StackPlace : c.mem \in [D -> Frame]
      BY DEF M0Core, Mems
    <3>2. D \cup {KeyOf(h)} \in SUBSET StackPlace
      BY <1>0
    <3>3. d.mem \in [D \cup {KeyOf(h)} -> Frame]
      BY <1>0, <1>5, <3>1
    <3> QED
      BY <3>2, <3>3 DEF Mems
  <2>2. /\ d.ipsr \in Exc \cup {"Thread"} /\ d.pc \in Nat /\ d.lr \in {"none", "handler", "process", "main"}
        /\ d.sp \in Nat /\ d.bankedSP \in Nat /\ d.spsel \in BOOLEAN
    BY <1>0 DEF Interrupted
  <2>3. /\ d.pm \in BOOLEAN /\ d.pend \in SUBSET Exc /\ d.ena \in SUBSET Ints /\ d.prio \in [Ints -> Nat]
        /\ d.waiting \in BOOLEAN /\ d.event \in BOOLEAN /\ d.updated \in BOOLEAN
    BY DEF Interrupted, M0Core
  <2>4. HasFields(d)
    BY DEF Interrupted
  <2> QED
    BY <1>1, <2>1, <2>2, <2>3, <2>4 DEF M0Core, HasFields
<1> QED
  BY <1>6, <1>7, <1>8, <1>9 DEF NestedM0

LEMMA TwoUp ==
  ASSUME NEW m \in Nat, m # 0, m # 1
  PROVE  m \in 2 .. m /\ m \in 1 .. m /\ m - 1 \in 1 .. m
OBVIOUS

\* What a context may pop down to: above the last frame on its stack.
LEMMA FloorIs ==
  ASSUME M0Assumption, NEW c \in M0Core, NestedM0(c)
  PROVE  /\ M0!Floor(c) \in Nat
         /\ Len(c.hist) = 0 => M0!Floor(c) = 0
         /\ \A k \in 1 .. Len(c.hist) : ~c.hist[k].spsel => Top(c.hist[k]) <= M0!Floor(c)
         /\ \/ M0!Floor(c) = 0
            \/ Len(c.hist) # 0 /\ ~c.hist[Len(c.hist)].spsel
         /\ Len(c.hist) # 0 /\ ~c.hist[Len(c.hist)].spsel => M0!Floor(c) = Top(c.hist[Len(c.hist)])
<1> DEFINE n == Len(c.hist)
           S == {0} \cup {k[2] : k \in {m \in DOMAIN c.mem : m[1] = c.spsel}}
<1>0. c.hist \in Seq(Snap) /\ n \in Nat /\ c.spsel \in BOOLEAN
  BY DEF M0Core
<1>1. \A k \in 1 .. n : c.hist[k] \in Snap /\ Top(c.hist[k]) \in Nat /\ Top(c.hist[k]) > c.hist[k].sp
                        /\ c.hist[k].spsel \in BOOLEAN /\ c.hist[k].sp \in Nat
  <2>1. \A k \in 1 .. n : c.hist[k] \in Snap
    BY <1>0
  <2> QED
    BY <2>1, TopNat DEF Snap
<1>2. DOMAIN c.mem = {KeyOf(c.hist[k]) : k \in 1 .. n}
  BY DEF NestedM0, FramesKept
<1>3. M0!Floor(c) = CHOOSE x \in S : \A y \in S : x >= y
  BY DEF M0!Floor
<1> HIDE DEF n
<1>4. \A x : x \in S <=> x = 0 \/ \E k \in 1 .. n : c.hist[k].spsel = c.spsel /\ x = Top(c.hist[k])
  <2>1. ASSUME NEW x, x \in S PROVE x = 0 \/ \E k \in 1 .. n : c.hist[k].spsel = c.spsel /\ x = Top(c.hist[k])
    <3>1. CASE x = 0
      BY <3>1
    <3>2. CASE x # 0
      <4>1. PICK m \in DOMAIN c.mem : m[1] = c.spsel /\ x = m[2]
        BY <2>1, <3>2
      <4>2. PICK k \in 1 .. n : m = KeyOf(c.hist[k])
        BY <1>2, <4>1
      <4>3. m[1] = c.hist[k].spsel /\ m[2] = Top(c.hist[k])
        BY <4>2 DEF KeyOf
      <4> QED
        BY <4>1, <4>3
    <3> QED
      BY <3>1, <3>2
  <2>2. ASSUME NEW k \in 1 .. n, c.hist[k].spsel = c.spsel PROVE Top(c.hist[k]) \in S
    <3>1. KeyOf(c.hist[k]) \in DOMAIN c.mem
      BY <1>2
    <3>2. KeyOf(c.hist[k])[1] = c.spsel /\ KeyOf(c.hist[k])[2] = Top(c.hist[k])
      BY <2>2 DEF KeyOf
    <3> QED
      BY <3>1, <3>2
  <2> QED
    BY <2>1, <2>2
<1> HIDE DEF S
<1>5. CASE n = 0
  <2>1. \A x : x \in S <=> x = 0
    BY <1>4, <1>5
  <2>2. M0!Floor(c) = 0
    BY <1>3, <2>1
  <2> QED
    BY <1>5, <2>2 DEF n
<1>6. CASE n # 0
  <2>0. ~c.spsel /\ n \in 1 .. n
    BY <1>0, <1>6 DEF NestedM0, ChainKept, n
  <2>1. CASE c.hist[n].spsel
    <3>1. n = 1
      <4>1. ASSUME n # 1 PROVE FALSE
        <5>1. n \in Nat
          BY <1>0
        <5>2. n \in 2 .. n
          BY <1>6, <4>1, <5>1, TwoUp
        <5> QED
          BY <2>1, <5>2 DEF NestedM0, ChainKept, n
      <4> QED
        BY <4>1
    <3>2. \A x : x \in S <=> x = 0
      <4>1. \A k \in 1 .. n : k = n
        BY <3>1
      <4>2. \A k \in 1 .. n : c.hist[k].spsel # c.spsel
        BY <2>0, <2>1, <4>1
      <4> QED
        BY <1>4, <4>2
    <3>3. M0!Floor(c) = 0
      BY <1>3, <3>2
    <3>4. \A k \in 1 .. n : c.hist[k].spsel
      BY <2>1, <3>1
    <3> QED
      BY <1>6, <2>1, <3>3, <3>4 DEF n
  <2>2. CASE ~c.hist[n].spsel
    <3>1. Top(c.hist[n]) \in S
      <4>1. c.hist[n].spsel = c.spsel
        BY <1>0, <1>1, <2>0, <2>2
      <4> QED
        BY <1>4, <2>0, <4>1
    <3>2. ASSUME NEW k \in 1 .. n, ~c.hist[k].spsel PROVE Top(c.hist[k]) <= Top(c.hist[n])
      <4>1. CASE k = n
        BY <1>1, <4>1
      <4>2. CASE k # n
        <5>1. k < n
          BY <1>0, <4>2 DEF n
        <5>2. Top(c.hist[k]) <= c.hist[n].sp
          BY <2>0, <3>2, <5>1 DEF NestedM0, FramesStacked, n
        <5> QED
          BY <1>1, <2>0, <5>2
      <4> QED
        BY <4>1, <4>2
    <3>3. \A y \in S : Top(c.hist[n]) >= y /\ y \in Nat
      <4> SUFFICES ASSUME NEW y \in S PROVE Top(c.hist[n]) >= y /\ y \in Nat
        OBVIOUS
      <4>1. CASE y = 0
        BY <1>1, <2>0, <4>1
      <4>2. CASE y # 0
        <5>1. PICK k \in 1 .. n : c.hist[k].spsel = c.spsel /\ y = Top(c.hist[k])
          BY <1>4, <4>2
        <5> QED
          BY <1>1, <2>0, <3>2, <5>1
      <4> QED
        BY <4>1, <4>2
    <3>4. M0!Floor(c) = Top(c.hist[n])
      <4>1. M0!Floor(c) \in S /\ \A y \in S : M0!Floor(c) >= y
        BY <1>3, <3>1, <3>3
      <4>2. M0!Floor(c) >= Top(c.hist[n]) /\ Top(c.hist[n]) >= M0!Floor(c) /\ M0!Floor(c) \in Nat
        BY <3>1, <3>3, <4>1
      <4> QED
        BY <1>1, <2>0, <4>2
    <3>5. M0!Floor(c) \in Nat
      BY <1>1, <2>0, <3>4
    <3>6. n # 0 /\ ~c.hist[n].spsel
      BY <1>6, <2>2
    <3>7. \A k \in 1 .. n : ~c.hist[k].spsel => Top(c.hist[k]) <= M0!Floor(c)
      BY <3>2, <3>4
    <3> QED
      BY <3>4, <3>5, <3>6, <3>7 DEF n
  <2> QED
    BY <2>1, <2>2
<1> QED
  BY <1>5, <1>6

\* A stack pointer is at or above that.
LEMMA FloorBelow ==
  ASSUME M0Assumption, NEW c \in M0Core, NestedM0(c)
  PROVE  c.sp \in Nat /\ M0!Floor(c) \in Nat /\ c.sp >= M0!Floor(c)
<1> DEFINE n == Len(c.hist)
<1>1. c.sp \in Nat /\ n \in Nat /\ c.spsel \in BOOLEAN /\ c.hist \in Seq(Snap)
  BY DEF M0Core
<1>2. M0!Floor(c) \in Nat
  BY FloorIs
<1>3. M0!Floor(c) = 0 \/ (n # 0 /\ ~c.hist[n].spsel /\ M0!Floor(c) = Top(c.hist[n]))
  BY FloorIs
<1>4. CASE n # 0 /\ ~c.hist[n].spsel /\ M0!Floor(c) = Top(c.hist[n])
  <2>1. n \in 1 .. n
    BY <1>1, <1>4
  <2>2. ~c.spsel
    BY <1>4 DEF NestedM0, ChainKept
  <2>3. Top(c.hist[n]) <= Pointer(c, FALSE)
    BY <1>4, <2>1 DEF NestedM0, FramesStacked
  <2>4. Pointer(c, FALSE) = c.sp
    BY <1>1, <2>2 DEF Pointer, M0!StackPointer
  <2> QED
    BY <1>1, <1>2, <1>4, <2>3, <2>4
<1> QED
  BY <1>1, <1>2, <1>3, <1>4

\* d is c after it returned to h.
Returned(c, h, d) ==
  /\ HasFields(d)
  /\ d.ipsr = h.ipsr /\ d.pc = h.pc /\ d.lr = h.lr /\ d.spsel = h.spsel /\ d.sp = h.sp
  /\ d.bankedSP = (IF h.spsel THEN c.sp ELSE c.bankedSP)
  /\ d.mem = [x \in DOMAIN c.mem \ {KeyOf(h)} |-> c.mem[x]]
  /\ d.hist = SubSeq(c.hist, 1, Len(c.hist) - 1) /\ d.pm = c.pm /\ d.pend = c.pend /\ d.ena = c.ena
  /\ d.prio = c.prio /\ d.waiting = c.waiting /\ d.updated = TRUE /\ d.event = TRUE

LEMMA ReturnFields ==
  ASSUME M0Assumption, NEW c \in M0Core, NestedM0(c), c.ipsr # "Thread", c.sp = M0!Floor(c)
  PROVE  Returned(c, c.hist[Len(c.hist)], M0!exceptionReturn(c, c.lr))
<1> DEFINE n == Len(c.hist)
           h == c.hist[n]
           p == c.lr = "process"
           s == M0!switchStack(c, p)
           ptr == M0!StackPointer(c, p)
           f == c.mem[<<p, ptr>>]
           d == M0!SetStackPointer(s, p, M0!Pop(ptr, f))
           r == M0!exceptionReturn(c, c.lr)
<1>0. /\ n \in Nat /\ n # 0 /\ n \in 1 .. n /\ h \in Snap /\ c.spsel = FALSE
      /\ c.lr = Link(h) /\ h.spsel \in BOOLEAN
  <2>1. n \in Nat /\ c.hist \in Seq(Snap) /\ n # 0 /\ ~c.spsel /\ c.lr = Link(h) /\ c.spsel \in BOOLEAN
    BY DEF M0Core, NestedM0, ChainKept
  <2>2. n \in 1 .. n /\ h \in Snap
    BY <2>1
  <2> QED
    BY <2>1, <2>2 DEF Snap
<1>1. p = h.spsel
  <2>1. h.spsel => h.ipsr = "Thread"
    <3>1. CASE n = 1
      BY <1>0, <3>1 DEF NestedM0, ChainKept
    <3>2. CASE n # 1
      <4>1. n \in 2 .. n
        BY <1>0, <3>2, TwoUp
      <4> QED
        BY <4>1 DEF NestedM0, ChainKept
    <3> QED
      BY <3>1, <3>2
  <2>2. p <=> h.spsel
    BY <1>0, <2>1 DEF Link
  <2> QED
    BY <1>0, <2>2
<1>2. /\ Top(h) \in Nat /\ Top(h) - 8 - (h.sp % 2) = h.sp /\ h.sp \in Nat
  BY <1>0, TopNat
<1>3. ptr = Top(h)
  <2>1. CASE h.spsel
    BY <1>0, <1>1, <2>1 DEF NestedM0, FramesStacked, Pointer
  <2>2. CASE ~h.spsel
    <3>1. M0!Floor(c) = Top(h)
      BY <1>0, <2>2, FloorIs
    <3>2. ptr = c.sp
      BY <1>0, <1>1, <2>2 DEF M0!StackPointer
    <3> QED
      BY <3>1, <3>2
  <2> QED
    BY <2>1, <2>2
<1>4. f = FrameOf(h) /\ <<p, ptr>> = KeyOf(h)
  <2>1. <<p, ptr>> = KeyOf(h)
    BY <1>1, <1>3 DEF KeyOf
  <2> QED
    BY <1>0, <2>1 DEF NestedM0, FramesKept
<1>5. M0!Pop(ptr, f) = h.sp
  BY <1>2, <1>3, <1>4 DEF M0!Pop, FrameOf, M0!FrameWords
<1>6. r = [d EXCEPT !.lr = f.lr, !.pc = f.pc, !.ipsr = f.ipsr,
                    !.mem = M0!Restrict(@, DOMAIN @ \ {<<p, ptr>>}),
                    !.updated = TRUE, !.event = TRUE, !.hist = M0!Front(@)]
  BY DEF M0!exceptionReturn
<1>7. f.lr = h.lr /\ f.pc = h.pc /\ f.ipsr = h.ipsr
  BY <1>4 DEF FrameOf
<1> DEFINE key == KeyOf(h)
           mem == M0!Restrict(c.mem, DOMAIN c.mem \ {key})
           hist == M0!Front(c.hist)
<1>8. mem = [x \in DOMAIN c.mem \ {KeyOf(h)} |-> c.mem[x]] /\ hist = SubSeq(c.hist, 1, Len(c.hist) - 1)
  BY DEF M0!Restrict, M0!Front
<1> HIDE DEF h, p, ptr, f, r, key, mem, hist
<1>9. CASE h.spsel
  <2>1. s = [c EXCEPT !.spsel = TRUE, !.sp = c.bankedSP, !.bankedSP = c.sp]
    BY <1>0, <1>1, <1>9 DEF M0!switchStack
  <2>2. d = [c EXCEPT !.spsel = TRUE, !.sp = h.sp, !.bankedSP = c.sp]
    BY <1>1, <1>5, <1>9, <2>1 DEF M0!SetStackPointer, M0Core
  <2> HIDE DEF d, s
  <2>3. d.mem = c.mem /\ d.hist = c.hist
    BY <2>2 DEF M0Core
  <2>4. r = [d EXCEPT !.lr = h.lr, !.pc = h.pc, !.ipsr = h.ipsr, !.mem = mem,
                      !.updated = TRUE, !.event = TRUE, !.hist = hist]
    BY <1>4, <1>6, <1>7, <2>2, <2>3 DEF mem, hist, key, M0Core
  <2>5. r = [c EXCEPT !.spsel = TRUE, !.sp = h.sp, !.bankedSP = c.sp, !.lr = h.lr, !.pc = h.pc,
                      !.ipsr = h.ipsr, !.mem = mem, !.updated = TRUE, !.event = TRUE, !.hist = hist]
    BY <2>2, <2>4 DEF M0Core
  <2>6. Returned(c, h, r)
    BY <1>0, <1>8, <1>9, <2>5 DEF Returned, HasFields, M0Core
  <2> QED
    BY <2>6 DEF r, h
<1>10. CASE ~h.spsel
  <2>1. s = c
    BY <1>0, <1>1, <1>10 DEF M0!switchStack
  <2>2. d = [c EXCEPT !.sp = h.sp]
    BY <1>0, <1>1, <1>5, <1>10, <2>1 DEF M0!SetStackPointer, M0Core
  <2> HIDE DEF d, s
  <2>3. d.mem = c.mem /\ d.hist = c.hist
    BY <2>2 DEF M0Core
  <2>4. r = [d EXCEPT !.lr = h.lr, !.pc = h.pc, !.ipsr = h.ipsr, !.mem = mem,
                      !.updated = TRUE, !.event = TRUE, !.hist = hist]
    BY <1>4, <1>6, <1>7, <2>2, <2>3 DEF mem, hist, key, M0Core
  <2>5. r = [c EXCEPT !.sp = h.sp, !.lr = h.lr, !.pc = h.pc,
                      !.ipsr = h.ipsr, !.mem = mem, !.updated = TRUE, !.event = TRUE, !.hist = hist]
    BY <2>2, <2>4 DEF M0Core
  <2>6. Returned(c, h, r)
    BY <1>0, <1>8, <1>10, <2>5 DEF Returned, HasFields, M0Core
  <2> QED
    BY <2>6 DEF r, h
<1> QED
  BY <1>0, <1>9, <1>10

\* Dropping the last context.
LEMMA Shortened ==
  ASSUME NEW s \in Seq(Snap), NEW m \in Nat, m + 1 = Len(s)
  PROVE  /\ SubSeq(s, 1, m) \in Seq(Snap) /\ Len(SubSeq(s, 1, m)) = m
         /\ \A k \in 1 .. m : SubSeq(s, 1, m)[k] = s[k]
OBVIOUS

LEMMA ReturnNests ==
  ASSUME M0Assumption, NEW c \in M0Core, NestedM0(c), c.ipsr # "Thread",
         NEW d, Returned(c, c.hist[Len(c.hist)], d)
  PROVE  d \in M0Core /\ NestedM0(d)
<1> DEFINE n == Len(c.hist)
           m == n - 1
           h == c.hist[n]
<1>0. /\ c.hist \in Seq(Snap) /\ n \in Nat /\ n # 0 /\ m \in Nat /\ m + 1 = n
      /\ n \in 1 .. n /\ \A k \in 1 .. m : k \in 1 .. n /\ k < n /\ k # n
      /\ \A k \in 1 .. n : k \in 1 .. m \/ k = n
  <2>1. c.hist \in Seq(Snap) /\ n \in Nat
    BY DEF M0Core
  <2>2. n # 0
    BY DEF NestedM0, ChainKept
  <2> HIDE DEF n
  <2> QED
    BY <2>1, <2>2
<1>1. /\ d.hist \in Seq(Snap) /\ Len(d.hist) = m
      /\ \A k \in 1 .. m : d.hist[k] = c.hist[k]
  <2>1. d.hist = SubSeq(c.hist, 1, m)
    BY DEF Returned
  <2>2. m + 1 = Len(c.hist)
    BY <1>0
  <2>3. m \in Nat /\ c.hist \in Seq(Snap)
    BY <1>0
  <2> HIDE DEF n, m
  <2>4. /\ SubSeq(c.hist, 1, m) \in Seq(Snap) /\ Len(SubSeq(c.hist, 1, m)) = m
        /\ \A k \in 1 .. m : SubSeq(c.hist, 1, m)[k] = c.hist[k]
    BY <2>2, <2>3, Shortened
  <2> QED
    BY <2>1, <2>4
<1>2. \A k \in 1 .. n : /\ c.hist[k] \in Snap /\ Top(c.hist[k]) \in Nat /\ c.hist[k].sp \in Nat
                        /\ Top(c.hist[k]) > c.hist[k].sp /\ c.hist[k].spsel \in BOOLEAN
  <2>1. \A k \in 1 .. n : c.hist[k] \in Snap
    BY <1>0
  <2> QED
    BY <2>1, TopNat DEF Snap
<1>3. d.mem = [x \in DOMAIN c.mem \ {KeyOf(h)} |-> c.mem[x]]
  BY DEF Returned
<1> HIDE DEF n, m
<1>4. h \in Snap /\ Top(h) \in Nat /\ h.sp \in Nat /\ Top(h) > h.sp /\ h.spsel \in BOOLEAN
  BY <1>0, <1>2
<1>5. \A j \in 1 .. m : ~c.hist[j].spsel => Top(c.hist[j]) <= h.sp
  <2>1. \A j, k \in 1 .. n : j < k /\ ~c.hist[j].spsel => Top(c.hist[j]) <= c.hist[k].sp
    BY DEF NestedM0, FramesStacked, n
  <2> QED
    BY <1>0, <2>1
\* Only the oldest context may be on the process stack.
<1>6. h.spsel => m = 0
  <2>1. ASSUME h.spsel, m # 0 PROVE FALSE
    <3>1. n \in 2 .. n
      BY <1>0, <2>1
    <3> QED
      BY <2>1, <3>1 DEF NestedM0, ChainKept, n
  <2> QED
    BY <2>1
<1>7. \A k \in 1 .. m : KeyOf(c.hist[k]) # KeyOf(h)
  <2> SUFFICES ASSUME NEW k \in 1 .. m, KeyOf(c.hist[k]) = KeyOf(h) PROVE FALSE
    OBVIOUS
  <2>1. c.hist[k].spsel = h.spsel /\ Top(c.hist[k]) = Top(h)
    BY DEF KeyOf
  <2>2. ~h.spsel
    BY <1>0, <1>6
  <2>3. Top(c.hist[k]) <= h.sp
    BY <1>5, <2>1, <2>2
  <2> QED
    BY <1>4, <2>1, <2>3
<1>8. DOMAIN c.mem = {KeyOf(c.hist[k]) : k \in 1 .. n}
      /\ \A k \in 1 .. n : c.mem[KeyOf(c.hist[k])] = FrameOf(c.hist[k])
  BY DEF NestedM0, FramesKept, n
<1> HIDE DEF h
<1>9. FramesKept(d)
  <2>1. \A k \in 1 .. n : k \in 1 .. m \/ KeyOf(c.hist[k]) = KeyOf(h)
    BY <1>0 DEF h
  <2>2. {KeyOf(c.hist[k]) : k \in 1 .. n} \ {KeyOf(h)} = {KeyOf(c.hist[k]) : k \in 1 .. m}
    BY <1>0, <1>7, <2>1
  <2>3. DOMAIN d.mem = {KeyOf(c.hist[k]) : k \in 1 .. m}
    BY <1>3, <1>8, <2>2
  <2>4. {KeyOf(c.hist[k]) : k \in 1 .. m} = {KeyOf(d.hist[k]) : k \in 1 .. m}
    BY <1>1
  <2>5. ASSUME NEW k \in 1 .. m PROVE d.mem[KeyOf(d.hist[k])] = FrameOf(d.hist[k])
    <3>1. k \in 1 .. n /\ d.hist[k] = c.hist[k]
      BY <1>0, <1>1
    <3>2. KeyOf(c.hist[k]) \in DOMAIN c.mem \ {KeyOf(h)}
      BY <1>7, <1>8, <3>1
    <3> QED
      BY <1>3, <1>8, <3>1, <3>2
  <2> QED
    BY <1>1, <2>3, <2>4, <2>5 DEF FramesKept
<1>10. ChainKept(d)
  <2>1. /\ \A k \in 1 .. n : c.hist[k].ipsr = "Thread" <=> k = 1
        /\ \A k \in 2 .. n : ~c.hist[k].spsel /\ c.hist[k].lr = Link(c.hist[k - 1])
    BY DEF NestedM0, ChainKept, n
  <2>2. d.ipsr = h.ipsr /\ d.lr = h.lr /\ d.spsel = h.spsel
    BY DEF Returned, h, n
  <2>3. d.ipsr = "Thread" <=> m = 0
    <3>1. n = 1 <=> m = 0
      BY <1>0
    <3> QED
      BY <1>0, <2>1, <2>2, <3>1 DEF h
  <2>4. m # 0 => ~d.spsel /\ d.lr = Link(d.hist[m])
    <3> SUFFICES ASSUME m # 0 PROVE ~d.spsel /\ d.lr = Link(d.hist[m])
      OBVIOUS
    <3>1. n \in 2 .. n /\ n - 1 = m /\ m \in 1 .. m
      BY <1>0
    <3>2. ~h.spsel /\ h.lr = Link(c.hist[m])
      BY <2>1, <3>1 DEF h
    <3> QED
      BY <1>1, <2>2, <3>1, <3>2
  <2>5. \A k \in 1 .. m : d.hist[k].ipsr = "Thread" <=> k = 1
    BY <1>0, <1>1, <2>1
  <2>6. ASSUME NEW k \in 2 .. m PROVE ~d.hist[k].spsel /\ d.hist[k].lr = Link(d.hist[k - 1])
    <3>1. k \in 1 .. m /\ k - 1 \in 1 .. m /\ k \in 2 .. n
      BY <1>0
    <3> QED
      BY <1>1, <2>1, <3>1
  <2> QED
    BY <1>1, <2>3, <2>4, <2>5, <2>6 DEF ChainKept
<1>11. FramesStacked(d)
  <2>1. c.spsel = FALSE /\ Pointer(c, FALSE) = c.sp /\ Pointer(c, TRUE) = c.bankedSP
    <3>1. c.spsel = FALSE
      BY <1>0 DEF NestedM0, ChainKept, n, M0Core
    <3> QED
      BY <3>1 DEF Pointer, M0!StackPointer
  <2>2. /\ d.spsel = h.spsel /\ d.sp = h.sp
        /\ d.bankedSP = (IF h.spsel THEN c.sp ELSE c.bankedSP)
    BY DEF Returned, h, n
  <2>3. CASE h.spsel
    <3>1. m = 0
      BY <1>6, <2>3
    <3> QED
      BY <1>1, <3>1 DEF FramesStacked
  <2>4. CASE ~h.spsel
    <3>1. Pointer(d, FALSE) = h.sp /\ Pointer(d, TRUE) = c.bankedSP
      BY <1>4, <2>2, <2>4 DEF Pointer, M0!StackPointer
    <3>2. /\ \A j, k \in 1 .. n : j < k /\ ~c.hist[j].spsel => Top(c.hist[j]) <= c.hist[k].sp
          /\ \A k \in 1 .. n : c.hist[k].spsel => Pointer(c, TRUE) = Top(c.hist[k])
      BY DEF NestedM0, FramesStacked, n
    <3>3. ASSUME NEW j \in 1 .. m, NEW k \in 1 .. m, j < k, ~d.hist[j].spsel
          PROVE  Top(d.hist[j]) <= d.hist[k].sp
      <4>1. d.hist[j] = c.hist[j] /\ d.hist[k] = c.hist[k] /\ j \in 1 .. n /\ k \in 1 .. n
        BY <1>0, <1>1
      <4> QED
        BY <3>2, <3>3, <4>1
    <3>4. ASSUME NEW k \in 1 .. m
          PROVE  /\ d.hist[k].spsel => Pointer(d, TRUE) = Top(d.hist[k])
                 /\ ~d.hist[k].spsel => Top(d.hist[k]) <= Pointer(d, FALSE)
      <4>1. d.hist[k] = c.hist[k] /\ k \in 1 .. n
        BY <1>0, <1>1
      <4> QED
        BY <1>5, <2>1, <3>1, <3>2, <4>1
    <3> QED
      BY <1>1, <3>3, <3>4 DEF FramesStacked
  <2> QED
    BY <2>3, <2>4
<1>12. d \in M0Core
  <2>1. d.mem \in Mems
    <3>1. PICK D \in SUBSET StackPlace : c.mem \in [D -> Frame]
      BY DEF M0Core, Mems
    <3>2. D \ {KeyOf(h)} \in SUBSET StackPlace
      BY <3>1
    <3>3. d.mem \in [D \ {KeyOf(h)} -> Frame]
      BY <1>3, <3>1 DEF h
    <3> QED
      BY <3>2, <3>3 DEF Mems
  <2>2. /\ d.ipsr \in Exc \cup {"Thread"} /\ d.pc \in Nat /\ d.lr \in {"none", "handler", "process", "main"}
        /\ d.sp \in Nat /\ d.spsel \in BOOLEAN
    <3>1. d.ipsr = h.ipsr /\ d.pc = h.pc /\ d.lr = h.lr /\ d.spsel = h.spsel /\ d.sp = h.sp
      BY DEF Returned, h, n
    <3> QED
      BY <1>4, <3>1 DEF Snap
  <2>3. d.bankedSP \in Nat
    <3>1. d.bankedSP = c.sp \/ d.bankedSP = c.bankedSP
      BY DEF Returned
    <3> QED
      BY <3>1 DEF M0Core
  <2>4. /\ d.pm \in BOOLEAN /\ d.pend \in SUBSET Exc /\ d.ena \in SUBSET Ints /\ d.prio \in [Ints -> Nat]
        /\ d.waiting \in BOOLEAN /\ d.event \in BOOLEAN /\ d.updated \in BOOLEAN
    BY DEF Returned, M0Core
  <2>5. HasFields(d)
    BY DEF Returned
  <2> QED
    BY <1>1, <2>1, <2>2, <2>3, <2>4, <2>5 DEF M0Core, HasFields
<1> QED
  BY <1>9, <1>10, <1>11, <1>12 DEF NestedM0

-----------------------------------------------------------------------------
(* What a core is about to take. *)

LEMMA CoreArbiter ==
  ASSUME NEW c \in M0Core
  PROVE  Arbiter(c)
BY DEF Arbiter, M0Core

\* The priority of an exception depends on IPR only.
LEMMA SamePriority ==
  ASSUME NEW c, NEW d, c.prio = d.prio, NEW e
  PROVE  M0!exceptionPriority(c, e) = M0!exceptionPriority(d, e)
BY DEF M0!exceptionPriority

\* What executes is at the priority of the active exception, or at that of PRIMASK if
\* it is more urgent.
LEMMA ExecutionRange ==
  ASSUME M0Assumption, NEW c, Arbiter(c)
  PROVE  /\ M0!ExecutionPriority(c) \in Int
         /\ M0!ExecutionPriority(c) <= M0!exceptionPriority(c, c.ipsr)
         /\ M0!ExecutionPriority(c) <= (IF c.pm THEN 0 ELSE 4)
         /\ \/ M0!ExecutionPriority(c) = M0!exceptionPriority(c, c.ipsr)
            \/ M0!ExecutionPriority(c) = (IF c.pm THEN 0 ELSE 4)
<1>1. M0!exceptionPriority(c, c.ipsr) \in Int
  BY PriorityRange DEF Arbiter
<1> DEFINE p == M0!exceptionPriority(c, c.ipsr)
           q == IF c.pm THEN 0 ELSE 4
<1>2. q \in Int
  OBVIOUS
<1>3. M0!ExecutionPriority(c) = IF p <= q THEN p ELSE q
  BY DEF M0!ExecutionPriority, M0!Least, M0!LOWEST_PRIORITY
<1> HIDE DEF p, q
<1>4. /\ M0!ExecutionPriority(c) \in Int /\ M0!ExecutionPriority(c) <= p
      /\ M0!ExecutionPriority(c) <= q
      /\ M0!ExecutionPriority(c) = p \/ M0!ExecutionPriority(c) = q
  BY <1>1, <1>2, <1>3 DEF p
<1> QED
  BY <1>4 DEF p, q

LEMMA UrgentMember ==
  ASSUME NEW c, NEW e
  PROVE  e \in Urgent(c) <=> /\ e \in c.pend /\ (e \in Ints => e \in c.ena)
                             /\ e # "NMI" => M0!exceptionPriority(c, e) < M0!ExecutionPriority(c)
BY DEF Urgent, M0!Above, Ints

\* A running core takes exactly what is more urgent than what executes, a sleeping one
\* at least that.
LEMMA UrgentTakeable ==
  ASSUME M0Assumption, NEW c, Arbiter(c)
  PROVE  /\ Urgent(c) \subseteq M0!Takeable(c)
         /\ ~c.waiting => Urgent(c) = M0!Takeable(c)
<1>1. CASE ~c.waiting
  BY <1>1 DEF Urgent, M0!Takeable, M0!CurrentPriority
<1>2. CASE c.waiting
  <2>1. M0!ExecutionPriority(c) \in Int
        /\ M0!ExecutionPriority(c) <= M0!CurrentPriority(c) /\ M0!CurrentPriority(c) \in Int
    <3>1. M0!CurrentPriority(c) = IF c.pm THEN M0!exceptionPriority(c, c.ipsr) ELSE 4
      BY <1>2 DEF M0!CurrentPriority, M0!LOWEST_PRIORITY
    <3>2. M0!exceptionPriority(c, c.ipsr) \in Int
      BY PriorityRange DEF Arbiter
    <3> QED
      BY <3>1, <3>2, ExecutionRange
  <2>2. ASSUME NEW e \in Urgent(c) PROVE e \in M0!Takeable(c)
    <3>1. e \in c.pend /\ (e \in M0!Interrupts => e \in c.ena)
          /\ (e # "NMI" => M0!exceptionPriority(c, e) < M0!ExecutionPriority(c))
      BY <2>2 DEF Urgent, M0!Above
    <3>2. M0!exceptionPriority(c, e) \in Int
      <4>1. e \in Exc \cup {"Thread"}
        BY <3>1 DEF Arbiter
      <4> QED
        BY <4>1, PriorityRange
    <3>3. e # "NMI" => M0!exceptionPriority(c, e) < M0!CurrentPriority(c)
      BY <2>1, <3>1, <3>2
    <3> QED
      BY <3>1, <3>3 DEF M0!Takeable, M0!Above
  <2> QED
    BY <1>2, <2>2
<1> QED
  BY <1>1, <1>2

\* d has nothing more to take than c.
NotMore(c, d) == /\ d.ipsr = c.ipsr /\ d.prio = c.prio /\ d.pend \subseteq c.pend
                 /\ d.ena \subseteq c.ena /\ (c.pm => d.pm)

LEMMA UrgentShrinks ==
  ASSUME M0Assumption, NEW c, Arbiter(c), NEW d, Arbiter(d), NotMore(c, d)
  PROVE  Urgent(d) \subseteq Urgent(c)
<1> SUFFICES ASSUME NEW e \in Urgent(d) PROVE e \in Urgent(c)
  OBVIOUS
<1>1. e \in d.pend /\ (e \in Ints => e \in d.ena)
      /\ (e # "NMI" => M0!exceptionPriority(d, e) < M0!ExecutionPriority(d))
  BY UrgentMember
<1>2. e \in c.pend /\ (e \in Ints => e \in c.ena)
  BY <1>1 DEF NotMore
<1>3. M0!exceptionPriority(d, e) = M0!exceptionPriority(c, e)
      /\ M0!exceptionPriority(d, d.ipsr) = M0!exceptionPriority(c, c.ipsr)
  BY SamePriority DEF NotMore
<1>4. M0!exceptionPriority(c, e) \in Int
  <2>1. e \in Exc \cup {"Thread"}
    BY <1>2 DEF Arbiter
  <2> QED
    BY <2>1, PriorityRange
<1>5. M0!ExecutionPriority(d) <= M0!ExecutionPriority(c)
      /\ M0!ExecutionPriority(d) \in Int /\ M0!ExecutionPriority(c) \in Int
  <2> DEFINE p == M0!exceptionPriority(c, c.ipsr)
             x == M0!ExecutionPriority(c)
             y == M0!ExecutionPriority(d)
  <2>1. x \in Int /\ (x = p \/ x = IF c.pm THEN 0 ELSE 4)
    BY ExecutionRange
  <2>2. y \in Int /\ y <= p /\ y <= IF d.pm THEN 0 ELSE 4
    BY ExecutionRange, <1>3
  <2>3. (IF d.pm THEN 0 ELSE 4) <= (IF c.pm THEN 0 ELSE 4)
    BY DEF NotMore
  <2> HIDE DEF p, x, y
  <2>4. y <= x
    BY <2>1, <2>2, <2>3
  <2> QED
    BY <2>1, <2>2, <2>4 DEF x, y
<1>6. e # "NMI" => M0!exceptionPriority(c, e) < M0!ExecutionPriority(c)
  BY <1>1, <1>3, <1>4, <1>5
<1> QED
  BY <1>2, <1>6, UrgentMember

\* Once the most urgent is entered, nothing is more urgent.
LEMMA ChosenEndsUrgency ==
  ASSUME M0Assumption, NEW c, Arbiter(c), M0!Takeable(c) # {}, NEW d, Arbiter(d),
         d.ipsr = M0!Chosen(c), d.pend = c.pend \ ({M0!Chosen(c)} \ Lines),
         d.prio = c.prio, d.ena = c.ena, d.pm = c.pm
  PROVE  Urgent(d) = {}
<1> DEFINE e == M0!Chosen(c)
           p(x) == M0!exceptionPriority(c, x)
<1> SUFFICES ASSUME NEW f \in Urgent(d) PROVE FALSE
  OBVIOUS
<1>1. f \in d.pend /\ (f \in Ints => f \in d.ena)
      /\ (f # "NMI" => M0!exceptionPriority(d, f) < M0!ExecutionPriority(d))
  BY UrgentMember
<1>2. f \in c.pend /\ (f \in Ints => f \in c.ena) /\ f \in Exc /\ M0!exceptionPriority(d, f) = p(f)
  BY <1>1, SamePriority DEF Arbiter
<1>3. e \in M0!Takeable(c) /\ \A x \in M0!Takeable(c) : p(e) <= p(x)
  BY ChosenIsBest
<1>4. e \in c.pend /\ (e # "NMI" => p(e) < M0!CurrentPriority(c)) /\ e \in Exc
  BY <1>3 DEF M0!Takeable, M0!Above, Arbiter
<1>5. p(e) \in Int /\ p(f) \in Int /\ (e = "NMI" => p(e) = 0 - 2) /\ (e # "NMI" => p(e) >= 0)
      /\ (f = "NMI" => p(f) = 0 - 2) /\ (f # "NMI" => p(f) >= 0)
  BY <1>2, <1>4, PriorityRange
<1>6. M0!ExecutionPriority(d) <= p(e) /\ M0!ExecutionPriority(d) \in Int
  <2>1. M0!exceptionPriority(d, d.ipsr) = p(e)
    BY SamePriority
  <2> QED
    BY <2>1, ExecutionRange
<1>7. M0!CurrentPriority(c) \in Int
  <2>1. M0!exceptionPriority(c, c.ipsr) \in Int
    BY PriorityRange DEF Arbiter
  <2>2. M0!ExecutionPriority(c) \in Int
    BY ExecutionRange
  <2> QED
    BY <2>1, <2>2 DEF M0!CurrentPriority, M0!LOWEST_PRIORITY
<1> HIDE DEF p
<1>8. f \in M0!Takeable(c)
  <2>1. f # "NMI" => p(f) < M0!CurrentPriority(c)
    <3> SUFFICES ASSUME f # "NMI" PROVE p(f) < M0!CurrentPriority(c)
      OBVIOUS
    <3>1. p(f) < p(e)
      BY <1>1, <1>2, <1>5, <1>6
    <3>2. e # "NMI"
      BY <1>5, <3>1
    <3> QED
      BY <1>4, <1>5, <1>7, <3>1, <3>2
  <2> QED
    BY <1>2, <2>1 DEF M0!Takeable, M0!Above, Ints, p
<1>9. p(e) <= p(f)
  BY <1>3, <1>8
<1>10. CASE f = "NMI"
  <2>1. e = "NMI"
    BY <1>5, <1>9, <1>10
  <2>2. "NMI" \notin Lines
    BY M0Names
  <2> QED
    BY <1>1, <1>10, <2>1, <2>2
<1>11. CASE f # "NMI"
  BY <1>1, <1>2, <1>5, <1>6, <1>9, <1>11
<1> QED
  BY <1>10, <1>11

\* Nothing is missed: a core with something to take will look for it, and a sleeping
\* one, which does not look, has no interrupt to take.
QuietM0(c) == /\ Urgent(c) # {} => c.updated
              /\ c.waiting => Urgent(c) \cap Ints = {}

M0OK(c) == c \in M0Core /\ NestedM0(c) /\ QuietM0(c)

\* d executes what c does, on the same stacks.
SameContext(c, d) ==
  /\ d.ipsr = c.ipsr /\ d.lr = c.lr /\ d.spsel = c.spsel /\ d.sp = c.sp
  /\ d.bankedSP = c.bankedSP /\ d.mem = c.mem /\ d.hist = c.hist

LEMMA SameNests ==
  ASSUME NEW c, NestedM0(c), NEW d, SameContext(c, d)
  PROVE  NestedM0(d)
<1>1. FramesKept(d)
  BY DEF NestedM0, SameContext, FramesKept
<1>2. ChainKept(d)
  BY DEF NestedM0, SameContext, ChainKept
<1>3. \A b : Pointer(d, b) = Pointer(c, b)
  BY DEF SameContext, Pointer, M0!StackPointer
<1>4. FramesStacked(d)
  BY <1>3 DEF NestedM0, SameContext, FramesStacked
<1> QED
  BY <1>1, <1>2, <1>4 DEF NestedM0

\* r is c after it entered what it had to.
Checked(c, r) ==
  /\ r \in M0Core /\ NestedM0(r) /\ r.waiting = c.waiting
  /\ M0!Takeable(c) = {} => SameContext(c, r) /\ r.pc = c.pc
  /\ M0!Takeable(c) # {} => r.hist = Append(c.hist, M0!Snapshot(c)) /\ r.updated = c.updated
  /\ Urgent(r) = {}

LEMMA CheckEnters ==
  ASSUME M0Assumption, NEW c \in M0Core, NestedM0(c)
  PROVE  Checked(c, M0!checkForInterrupts(c))
<1> DEFINE r == M0!checkForInterrupts(c)
<1>0. Arbiter(c)
  BY CoreArbiter
<1>1. CASE M0!Takeable(c) = {}
  <2>1. r = [c EXCEPT !.updated = FALSE]
    BY <1>1 DEF M0!checkForInterrupts
  <2> HIDE DEF r
  <2>2. SameContext(c, r) /\ r.pc = c.pc /\ r.waiting = c.waiting /\ NotMore(c, r)
    BY <2>1 DEF M0Core, SameContext, NotMore
  <2>3. r \in M0Core
    BY <2>1 DEF M0Core
  <2>4. NestedM0(r)
    BY <2>2, SameNests
  <2>5. Urgent(r) = {}
    BY <1>0, <1>1, <2>2, <2>3, CoreArbiter, UrgentShrinks, UrgentTakeable
  <2> QED
    BY <1>1, <2>2, <2>3, <2>4, <2>5 DEF Checked, r
<1>2. CASE M0!Takeable(c) # {}
  <2> DEFINE e == M0!Chosen(c)
             b == [c EXCEPT !.pend = @ \ ({M0!Chosen(c)} \ Lines)]
  <2>1. r = M0!exceptionEntry(b, e)
    BY <1>2 DEF M0!checkForInterrupts
  <2>2. e \in Exc
    <3>1. e \in M0!Takeable(c)
      BY <1>0, <1>2, ChosenIsBest
    <3> QED
      BY <1>0, <3>1 DEF M0!Takeable, M0!Above, Arbiter
  <2>3. /\ b.pend = c.pend \ ({e} \ Lines) /\ b.prio = c.prio /\ b.ena = c.ena /\ b.pm = c.pm
        /\ b.waiting = c.waiting /\ b.updated = c.updated /\ SameContext(c, b)
        /\ M0!Snapshot(b) = M0!Snapshot(c)
    BY DEF M0Core, SameContext, M0!Snapshot
  <2>4. b \in M0Core
    BY DEF M0Core
  <2> HIDE DEF b, e, r
  <2>5. NestedM0(b)
    BY <2>3, SameNests
  <2>6. Interrupted(b, M0!Snapshot(b), e, r)
    BY <2>1, <2>2, <2>4, <2>5, EntryFields
  <2>7. r \in M0Core /\ NestedM0(r)
    BY <2>2, <2>4, <2>5, <2>6, EntryNests
  <2>8. /\ r.ipsr = e /\ r.pend = b.pend /\ r.prio = b.prio /\ r.ena = b.ena /\ r.pm = b.pm
        /\ r.waiting = b.waiting /\ r.updated = b.updated /\ r.hist = Append(b.hist, M0!Snapshot(b))
    BY <2>6 DEF Interrupted
  <2>9. Urgent(r) = {}
    <3>1. Arbiter(r)
      BY <2>7, CoreArbiter
    <3>2. r.ipsr = M0!Chosen(c) /\ r.pend = c.pend \ ({M0!Chosen(c)} \ Lines)
          /\ r.prio = c.prio /\ r.ena = c.ena /\ r.pm = c.pm
      BY <2>3, <2>8 DEF e
    <3> QED
      BY <1>0, <1>2, <3>1, <3>2, ChosenEndsUrgency
  <2>10. r.hist = Append(c.hist, M0!Snapshot(c)) /\ r.updated = c.updated /\ r.waiting = c.waiting
    BY <2>3, <2>8 DEF SameContext
  <2> QED
    BY <1>2, <2>7, <2>9, <2>10 DEF Checked, r
<1> QED
  BY <1>1, <1>2

\* The core when it fetches: nothing is left to enter.
Ready(f) == f \in M0Core /\ NestedM0(f) /\ ~f.waiting /\ Urgent(f) = {}

LEMMA FetchedReady ==
  ASSUME M0Assumption, M0OK(m0), ~m0.waiting
  PROVE  /\ Ready(M0!Entered) /\ Ready(M0!Fetched) /\ SameContext(M0!Entered, M0!Fetched)
<1> DEFINE c == M0!Entered
           f == M0!Fetched
<1>1. Ready(c)
  <2>1. CASE m0.updated
    <3>1. c = M0!checkForInterrupts(m0)
      BY <2>1 DEF M0!Entered
    <3>2. Checked(m0, c)
      BY <3>1, CheckEnters DEF M0OK
    <3> QED
      BY <3>2 DEF Checked, Ready
  <2>2. CASE ~m0.updated
    <3>1. c = m0
      BY <2>2 DEF M0!Entered
    <3> QED
      BY <2>2, <3>1 DEF M0OK, QuietM0, Ready
  <2> QED
    BY <2>1, <2>2
<1>2. f = [c EXCEPT !.pc = (c.pc + 1) % 2]
  BY DEF M0!Fetched
<1> HIDE DEF c, f
<1>3. c \in M0Core
  BY <1>1 DEF Ready
<1>4. SameContext(c, f) /\ NotMore(c, f) /\ f.waiting = c.waiting
  BY <1>2, <1>3 DEF M0Core, SameContext, NotMore
<1>5. f \in M0Core
  <2>1. c.pc \in Nat
    BY <1>3 DEF M0Core
  <2>2. (c.pc + 1) % 2 \in Nat
    BY <2>1
  <2> QED
    BY <1>2, <1>3, <2>2 DEF M0Core
<1>6. Ready(f)
  BY <1>1, <1>4, <1>5, CoreArbiter, SameNests, UrgentShrinks DEF Ready
<1> QED
  BY <1>1, <1>4, <1>6 DEF c, f

\* d is f after an instruction that leaves the stacks alone, and either takes nothing
\* on or asks for a check.
Instruction(f, d) ==
  d \in M0Core /\ SameContext(f, d) /\ (NotMore(f, d) \/ (d.updated /\ ~d.waiting))

LEMMA InstructionKeeps ==
  ASSUME M0Assumption, NEW f, Ready(f), NEW d, Instruction(f, d)
  PROVE  M0OK(d) /\ d.hist = f.hist
<1>1. d \in M0Core /\ NestedM0(d) /\ d.hist = f.hist
  BY SameNests DEF Instruction, Ready, SameContext
<1>2. QuietM0(d)
  <2>1. CASE NotMore(f, d)
    <3>1. Urgent(d) \subseteq Urgent(f)
      BY <1>1, <2>1, CoreArbiter, UrgentShrinks DEF Ready
    <3> QED
      BY <3>1 DEF Ready, QuietM0
  <2>2. CASE d.updated /\ ~d.waiting
    BY <2>2 DEF QuietM0
  <2> QED
    BY <2>1, <2>2 DEF Instruction
<1> QED
  BY <1>1, <1>2 DEF M0OK

\* Writes to the registers of the NVIC.
LEMMA RegisterWrites ==
  ASSUME NEW f \in M0Core, Ready(f), NEW S \in SUBSET Exc, NEW i \in Ints, NEW p \in Nat
  PROVE  /\ Instruction(f, [f EXCEPT !.ena = @ \cup {i}, !.updated = TRUE])
         /\ Instruction(f, [f EXCEPT !.ena = @ \ {i}])
         /\ Instruction(f, [f EXCEPT !.pend = @ \cup S, !.updated = TRUE])
         /\ Instruction(f, [f EXCEPT !.pend = @ \ S])
         /\ Instruction(f, [f EXCEPT !.prio[i] = p, !.updated = TRUE])
<1>0. ~f.waiting
  BY DEF Ready
<1>1. Instruction(f, [f EXCEPT !.ena = @ \cup {i}, !.updated = TRUE])
  BY <1>0 DEF Instruction, SameContext, M0Core
<1>2. Instruction(f, [f EXCEPT !.ena = @ \ {i}])
  BY DEF Instruction, SameContext, NotMore, M0Core
<1>3. Instruction(f, [f EXCEPT !.pend = @ \cup S, !.updated = TRUE])
  BY <1>0 DEF Instruction, SameContext, M0Core
<1>4. Instruction(f, [f EXCEPT !.pend = @ \ S])
  BY DEF Instruction, SameContext, NotMore, M0Core
<1>5. Instruction(f, [f EXCEPT !.prio[i] = p, !.updated = TRUE])
  <2> DEFINE q == [f.prio EXCEPT ![i] = p]
  <2>1. q \in [Ints -> Nat]
    BY DEF M0Core
  <2>2. [f EXCEPT !.prio[i] = p, !.updated = TRUE] = [f EXCEPT !.prio = q, !.updated = TRUE]
    BY DEF M0Core
  <2> HIDE DEF q
  <2>3. Instruction(f, [f EXCEPT !.prio = q, !.updated = TRUE])
    BY <1>0, <2>1 DEF Instruction, SameContext, M0Core
  <2> QED
    BY <2>2, <2>3
<1> QED
  BY <1>1, <1>2, <1>3, <1>4, <1>5

\* d is f with another depth of its stack, above the frames.
Moved(f, d) == \E v \in Nat : d = [f EXCEPT !.sp = v] /\ v >= M0!Floor(f)

LEMMA MoveNests ==
  ASSUME M0Assumption, NEW f \in M0Core, Ready(f), NEW d, Moved(f, d)
  PROVE  M0OK(d) /\ d.hist = f.hist
<1>0. NestedM0(f)
  BY DEF Ready
<1>1. PICK v \in Nat : d = [f EXCEPT !.sp = v] /\ v >= M0!Floor(f)
  BY DEF Moved
<1>2. /\ d.ipsr = f.ipsr /\ d.lr = f.lr /\ d.spsel = f.spsel /\ d.sp = v
      /\ d.bankedSP = f.bankedSP /\ d.mem = f.mem /\ d.hist = f.hist /\ NotMore(f, d)
      /\ d.waiting = f.waiting /\ f.spsel \in BOOLEAN
  BY <1>1 DEF M0Core, NotMore
<1>3. d \in M0Core
  BY <1>1 DEF M0Core
<1>4. FramesKept(d) /\ ChainKept(d)
  BY <1>0, <1>2 DEF NestedM0, FramesKept, ChainKept
<1>5. FramesStacked(d)
  <2> DEFINE n == Len(f.hist)
  <2>1. n # 0 => ~f.spsel
    BY <1>0 DEF NestedM0, ChainKept
  <2>2. /\ \A j, k \in 1 .. n : j < k /\ ~f.hist[j].spsel => Top(f.hist[j]) <= f.hist[k].sp
        /\ \A k \in 1 .. n : f.hist[k].spsel => Pointer(f, TRUE) = Top(f.hist[k])
    BY <1>0 DEF NestedM0, FramesStacked
  <2>3. /\ M0!Floor(f) \in Nat
        /\ \A k \in 1 .. n : ~f.hist[k].spsel => Top(f.hist[k]) <= M0!Floor(f)
    BY <1>0, FloorIs
  <2>4. \A k \in 1 .. n : Top(f.hist[k]) \in Nat
    <3>1. f.hist \in Seq(Snap)
      BY DEF M0Core
    <3>2. \A k \in 1 .. n : f.hist[k] \in Snap
      BY <3>1
    <3> QED
      BY <3>2, TopNat
  <2>5. n \in Nat
    BY DEF M0Core
  <2> HIDE DEF n
  <2>6. n # 0 => Pointer(d, TRUE) = Pointer(f, TRUE) /\ Pointer(d, FALSE) = v
    BY <1>2, <2>1 DEF Pointer, M0!StackPointer
  <2>7. ASSUME NEW k \in 1 .. n
        PROVE  /\ d.hist[k].spsel => Pointer(d, TRUE) = Top(d.hist[k])
               /\ ~d.hist[k].spsel => Top(d.hist[k]) <= Pointer(d, FALSE)
    <3>1. n # 0
      BY <2>5
    <3>2. ~f.hist[k].spsel => Top(f.hist[k]) <= v
      BY <1>1, <2>3, <2>4
    <3> QED
      BY <1>2, <2>2, <2>6, <3>1, <3>2
  <2>8. Len(d.hist) = n /\ \A j, k \in 1 .. n : j < k /\ ~d.hist[j].spsel => Top(d.hist[j]) <= d.hist[k].sp
    BY <1>2, <2>2 DEF n
  <2> QED
    BY <2>7, <2>8 DEF FramesStacked
<1>6. QuietM0(d)
  <2>1. Urgent(d) \subseteq Urgent(f)
    BY <1>2, <1>3, CoreArbiter, UrgentShrinks
  <2> QED
    BY <1>2, <2>1 DEF Ready, QuietM0
<1> QED
  BY <1>2, <1>3, <1>4, <1>5, <1>6 DEF M0OK, NestedM0

\* MSR CONTROL, which is for the program alone.
LEMMA ControlNests ==
  ASSUME M0Assumption, NEW f \in M0Core, Ready(f), f.ipsr = "Thread", NEW b \in BOOLEAN
  PROVE  M0OK(M0!switchStack(f, b)) /\ M0!switchStack(f, b).hist = f.hist
<1> DEFINE d == M0!switchStack(f, b)
<1>0. NestedM0(f) /\ Len(f.hist) = 0
  BY DEF Ready, NestedM0, ChainKept
<1>1. d = f \/ d = [f EXCEPT !.spsel = b, !.sp = f.bankedSP, !.bankedSP = f.sp]
  BY DEF M0!switchStack
<1> HIDE DEF d
<1>2. /\ d.ipsr = f.ipsr /\ d.mem = f.mem /\ d.hist = f.hist /\ NotMore(f, d)
      /\ d.waiting = f.waiting /\ d \in M0Core
  <2>1. CASE d = f
    BY <2>1 DEF NotMore
  <2>2. CASE d = [f EXCEPT !.spsel = b, !.sp = f.bankedSP, !.bankedSP = f.sp]
    <3>1. /\ d.ipsr = f.ipsr /\ d.mem = f.mem /\ d.hist = f.hist /\ d.waiting = f.waiting
          /\ d.prio = f.prio /\ d.pend = f.pend /\ d.ena = f.ena /\ d.pm = f.pm
      BY <2>2 DEF M0Core
    <3>2. d \in M0Core
      BY <2>2 DEF M0Core
    <3> QED
      BY <3>1, <3>2 DEF NotMore
  <2> QED
    BY <1>1, <2>1, <2>2
<1>3. d \in M0Core
  BY <1>2
<1>4. NestedM0(d)
  <2>1. FramesKept(d)
    BY <1>0, <1>2 DEF NestedM0, FramesKept
  <2>2. ChainKept(d)
    BY <1>0, <1>2 DEF NestedM0, ChainKept
  <2>3. FramesStacked(d)
    <3>1. \A k \in 1 .. Len(d.hist) : FALSE
      BY <1>0, <1>2
    <3> QED
      BY <3>1 DEF FramesStacked
  <2> QED
    BY <2>1, <2>2, <2>3 DEF NestedM0
<1>5. QuietM0(d)
  <2>1. Urgent(d) \subseteq Urgent(f)
    BY <1>2, <1>3, CoreArbiter, UrgentShrinks
  <2> QED
    BY <1>2, <2>1 DEF Ready, QuietM0
<1> QED
  BY <1>2, <1>3, <1>4, <1>5 DEF M0OK, d

\* A return is to the context interrupted last.
LEMMA ReturnKeeps ==
  ASSUME M0Assumption, NEW f \in M0Core, Ready(f), f.ipsr # "Thread", f.sp = M0!Floor(f)
  PROVE  /\ M0OK(M0!exceptionReturn(f, f.lr))
         /\ M0!Snapshot(M0!exceptionReturn(f, f.lr)) = f.hist[Len(f.hist)]
<1> DEFINE d == M0!exceptionReturn(f, f.lr)
           h == f.hist[Len(f.hist)]
<1>0. NestedM0(f)
  BY DEF Ready
<1>1. Returned(f, h, d)
  BY <1>0, ReturnFields
<1> HIDE DEF d
<1>2. d \in M0Core /\ NestedM0(d)
  BY <1>0, <1>1, ReturnNests
<1>3. h \in Snap
  <2>1. f.hist \in Seq(Snap) /\ Len(f.hist) # 0
    BY <1>0 DEF M0Core, NestedM0, ChainKept
  <2>2. Len(f.hist) \in 1 .. Len(f.hist)
    BY <2>1
  <2> QED
    BY <2>1, <2>2
<1>4. d.ipsr = h.ipsr /\ d.pc = h.pc /\ d.lr = h.lr /\ d.spsel = h.spsel /\ d.sp = h.sp
      /\ d.updated = TRUE /\ d.waiting = f.waiting
  BY <1>1 DEF Returned
<1> HIDE DEF h
<1>5. M0!Snapshot(d) = h
  BY <1>3, <1>4 DEF M0!Snapshot, Snap
<1>6. QuietM0(d)
  BY <1>4 DEF QuietM0, Ready
<1> QED
  BY <1>2, <1>5, <1>6 DEF M0OK, d, h

\* What a step promises of the context it ends in.
Restores(c, d) ==
  ~c.waiting /\ Len(d.hist) < Len(M0!Entered.hist) => M0!Snapshot(d) = M0!Last(M0!Entered.hist)

\* What comes from outside leaves a running core where it is.
LEMMA OutsideRestores ==
  ASSUME M0Assumption, M0OK(m0), NEW d, SameContext(m0, d), d.pc = m0.pc
  PROVE  Restores(m0, d)
<1> SUFFICES ASSUME ~m0.waiting, Len(d.hist) < Len(M0!Entered.hist)
             PROVE  M0!Snapshot(d) = M0!Last(M0!Entered.hist)
  BY DEF Restores
<1>1. d.hist = m0.hist /\ M0!Snapshot(d) = M0!Snapshot(m0) /\ m0 \in M0Core /\ m0.hist \in Seq(Snap)
  BY DEF SameContext, M0!Snapshot, M0OK, M0Core
<1>2. M0!Entered.hist # m0.hist
  BY <1>1
<1>3. m0.updated /\ M0!Entered = M0!checkForInterrupts(m0)
  BY <1>2 DEF M0!Entered
<1>4. Checked(m0, M0!Entered)
  BY <1>3, CheckEnters DEF M0OK
<1>5. M0!Entered.hist = Append(m0.hist, M0!Snapshot(m0))
  BY <1>2, <1>4 DEF Checked, SameContext
<1>6. M0!Snapshot(m0) \in Snap
  BY <1>1 DEF M0!Snapshot, Snap, M0Core
<1>7. M0!Last(M0!Entered.hist) = M0!Snapshot(m0)
  <2> DEFINE s == m0.hist
             h == M0!Snapshot(m0)
  <2>1. s \in Seq(Snap) /\ h \in Snap
    BY <1>1, <1>6
  <2> HIDE DEF s, h
  <2>2. Len(Append(s, h)) = Len(s) + 1 /\ Append(s, h)[Len(s) + 1] = h
    BY <2>1, Appended
  <2>3. M0!Last(Append(s, h)) = h
    BY <2>2 DEF M0!Last
  <2> QED
    BY <1>5, <2>3 DEF s, h
<1> QED
  BY <1>1, <1>7

LEMMA LineStep ==
  ASSUME M0Assumption, M0OK(m0), NEW i \in Lines, NEW v \in BOOLEAN
  PROVE  M0OK(M0!setInterrupt(m0, i, v)) /\ Restores(m0, M0!setInterrupt(m0, i, v))
<1> DEFINE r == M0!setInterrupt(m0, i, v)
           d == [m0 EXCEPT !.pend = @ \cup {i}, !.updated = TRUE]
           s == M0!checkForInterrupts(d)
<1>0. m0 \in M0Core /\ NestedM0(m0) /\ QuietM0(m0) /\ i \in Ints /\ i \in Exc /\ Arbiter(m0)
  BY M0Names, CoreArbiter DEF M0OK, Exc
<1>1. CASE ~v
  <2>1. r = [m0 EXCEPT !.pend = @ \ {i}]
    BY <1>1 DEF M0!setInterrupt
  <2> HIDE DEF r
  <2>2. r \in M0Core /\ SameContext(m0, r) /\ r.pc = m0.pc /\ NotMore(m0, r)
        /\ r.waiting = m0.waiting /\ r.updated = m0.updated
    BY <1>0, <2>1 DEF M0Core, SameContext, NotMore
  <2>3. Urgent(r) \subseteq Urgent(m0)
    BY <1>0, <2>2, CoreArbiter, UrgentShrinks
  <2>4. QuietM0(r)
    BY <1>0, <2>2, <2>3 DEF QuietM0
  <2>5. NestedM0(r)
    BY <1>0, <2>2, SameNests
  <2>6. Restores(m0, r)
    BY <2>2, OutsideRestores
  <2> QED
    BY <2>2, <2>4, <2>5, <2>6 DEF M0OK, r
<1>2. CASE v /\ i \in m0.pend
  <2>1. r = m0
    BY <1>2 DEF M0!setInterrupt
  <2>2. SameContext(m0, m0)
    BY DEF SameContext
  <2>3. Restores(m0, m0)
    BY <2>2, OutsideRestores
  <2> QED
    BY <2>1, <2>3
<1> HIDE DEF d, s
<1>3. /\ d \in M0Core /\ SameContext(m0, d) /\ d.pc = m0.pc /\ d.waiting = m0.waiting
      /\ d.updated = TRUE
  BY <1>0 DEF d, M0Core, SameContext
<1>4. NestedM0(d)
  BY <1>0, <1>3, SameNests
<1>5. CASE v /\ i \notin m0.pend /\ ~m0.waiting
  <2>1. r = d
    BY <1>3, <1>5 DEF M0!setInterrupt, d
  <2>2. QuietM0(d)
    BY <1>3, <1>5 DEF QuietM0
  <2>3. Restores(m0, d)
    BY <1>3, OutsideRestores
  <2> QED
    BY <1>3, <1>4, <2>1, <2>2, <2>3 DEF M0OK
<1>6. CASE v /\ i \notin m0.pend /\ m0.waiting
  <2>1. r = [s EXCEPT !.waiting = (M0!Takeable(d) = {})]
    BY <1>3, <1>6 DEF M0!setInterrupt, d, s
  <2>2. Checked(d, s)
    BY <1>3, <1>4, CheckEnters DEF s
  <2> HIDE DEF r
  <2>3. s \in M0Core /\ NestedM0(s) /\ Urgent(s) = {}
    BY <2>2 DEF Checked
  <2>4. r \in M0Core /\ SameContext(s, r) /\ NotMore(s, r)
    BY <2>1, <2>3 DEF M0Core, SameContext, NotMore
  <2>5. NestedM0(r)
    BY <2>3, <2>4, SameNests
  <2>6. Urgent(r) = {}
    BY <2>3, <2>4, CoreArbiter, UrgentShrinks
  <2>7. Restores(m0, r)
    BY <1>6 DEF Restores
  <2> QED
    BY <2>4, <2>5, <2>6, <2>7 DEF M0OK, QuietM0, r
<1> QED
  BY <1>1, <1>2, <1>5, <1>6

LEMMA SysTickStep ==
  ASSUME M0Assumption, M0OK(m0), M0!SysTick
  PROVE  M0OK(m0') /\ Restores(m0, m0')
<1> DEFINE r == [m0 EXCEPT !.pend = @ \cup {"SysTick"}, !.updated = TRUE]
<1>0. m0 \in M0Core /\ NestedM0(m0) /\ QuietM0(m0) /\ Arbiter(m0)
      /\ "SysTick" \in Exc /\ "SysTick" \notin Ints
  BY M0Names, CoreArbiter DEF M0OK, Exc
<1>1. m0' = r
  BY DEF M0!SysTick
<1>2. /\ r \in M0Core /\ SameContext(m0, r) /\ r.pc = m0.pc /\ r.waiting = m0.waiting
      /\ r.updated = TRUE /\ r.pend = m0.pend \cup {"SysTick"} /\ r.ena = m0.ena
      /\ r.prio = m0.prio /\ r.pm = m0.pm /\ r.ipsr = m0.ipsr
  BY <1>0 DEF M0Core, SameContext
<1> HIDE DEF r
<1>3. Urgent(r) \cap Ints \subseteq Urgent(m0)
  <2> SUFFICES ASSUME NEW e \in Urgent(r) \cap Ints PROVE e \in Urgent(m0)
    OBVIOUS
  <2>1. M0!exceptionPriority(r, e) = M0!exceptionPriority(m0, e)
        /\ M0!exceptionPriority(r, r.ipsr) = M0!exceptionPriority(m0, m0.ipsr)
    BY <1>2, SamePriority
  <2>2. M0!ExecutionPriority(r) = M0!ExecutionPriority(m0)
    BY <1>2, <2>1 DEF M0!ExecutionPriority
  <2> QED
    BY <1>0, <1>2, <2>1, <2>2, UrgentMember
<1>4. QuietM0(r)
  BY <1>0, <1>2, <1>3 DEF QuietM0
<1>5. NestedM0(r) /\ Restores(m0, r)
  BY <1>0, <1>2, SameNests, OutsideRestores
<1> QED
  BY <1>1, <1>2, <1>4, <1>5 DEF M0OK

LEMMA SEVStep ==
  ASSUME M0Assumption, M0OK(m0), M0!OtherCoreSEV
  PROVE  M0OK(m0') /\ Restores(m0, m0')
<1>0. m0 \in M0Core /\ NestedM0(m0) /\ QuietM0(m0) /\ Arbiter(m0)
  BY CoreArbiter DEF M0OK
<1> DEFINE r == m0'
<1>1. r = IF m0.waiting THEN [m0 EXCEPT !.waiting = FALSE] ELSE [m0 EXCEPT !.event = TRUE]
  BY DEF M0!OtherCoreSEV
<1> HIDE DEF r
<1>2. /\ r \in M0Core /\ SameContext(m0, r) /\ r.pc = m0.pc /\ r.waiting = FALSE
      /\ r.updated = m0.updated /\ NotMore(m0, r)
  BY <1>0, <1>1 DEF M0Core, SameContext, NotMore
<1>3. Urgent(r) \subseteq Urgent(m0)
  BY <1>0, <1>2, CoreArbiter, UrgentShrinks
<1>4. QuietM0(r)
  BY <1>0, <1>2, <1>3 DEF QuietM0
<1>5. NestedM0(r) /\ Restores(m0, r)
  BY <1>0, <1>2, SameNests, OutsideRestores
<1> QED
  BY <1>2, <1>4, <1>5 DEF M0OK, r

\* An instruction that is no return leaves the contexts it found.
LEMMA SameRestores ==
  ASSUME M0Assumption, M0OK(m0), ~m0.waiting, NEW d, d.hist = M0!Fetched.hist
  PROVE  Restores(m0, d)
<1>1. M0!Fetched.hist = M0!Entered.hist /\ M0!Entered \in M0Core
  BY FetchedReady DEF SameContext, Ready
<1>2. M0!Entered.hist \in Seq(Snap)
  BY <1>1 DEF M0Core
<1>3. Len(M0!Entered.hist) \in Nat
  BY <1>2
<1> QED
  BY <1>1, <1>3 DEF Restores

LEMMA InstructionStep ==
  ASSUME M0Assumption, M0OK(m0), ~m0.waiting, Instruction(M0!Fetched, m0')
  PROVE  M0OK(m0') /\ Restores(m0, m0')
<1>1. Ready(M0!Fetched)
  BY FetchedReady
<1>2. M0OK(m0') /\ m0'.hist = M0!Fetched.hist
  BY <1>1, InstructionKeeps
<1> QED
  BY <1>2, SameRestores

\* Every step keeps what has been interrupted, misses nothing, and returns to where an
\* exception came.
LEMMA M0Step ==
  ASSUME M0Assumption, M0OK(m0), M0!Next
  PROVE  M0OK(m0') /\ Restores(m0, m0')
<1> DEFINE f == M0!Fetched
<1>1. CASE M0!Line
  <2>1. PICK i \in Lines, v \in BOOLEAN : m0' = M0!setInterrupt(m0, i, v)
    BY <1>1 DEF M0!Line
  <2> QED
    BY <2>1, LineStep
<1>2. CASE M0!SysTick
  BY <1>2, SysTickStep
<1>3. CASE M0!OtherCoreSEV
  BY <1>3, SEVStep
<1>4. CASE /\ ~m0.waiting
           /\ \/ M0!Plain \/ M0!CPSID \/ M0!CPSIE \/ M0!WriteISER \/ M0!WriteICER \/ M0!WriteISPR
              \/ M0!WriteICPR \/ M0!WriteIPR \/ M0!WriteICSR \/ M0!SVC \/ M0!WFI \/ M0!WFE
              \/ M0!PUSH \/ M0!POP \/ M0!WriteControl \/ M0!Return
  <2>0. Ready(f) /\ f \in M0Core
    BY <1>4, FetchedReady DEF Ready
  <2>1. CASE M0!Plain
    <3>2. Instruction(f, f)
      BY <2>0 DEF Instruction, SameContext, NotMore
    <3>3. m0' = f
      BY <2>1 DEF M0!Plain
    <3> QED
      BY <1>4, <3>2, <3>3, InstructionStep
  <2>2. CASE M0!CPSID
    <3>1. m0' = [f EXCEPT !.pm = TRUE]
      BY <2>2 DEF M0!CPSID
    <3>2. Instruction(f, m0')
      BY <2>0, <3>1 DEF Instruction, SameContext, NotMore, M0Core
    <3> QED
      BY <1>4, <3>2, InstructionStep
  <2>3. CASE M0!CPSIE
    <3>1. m0' = [f EXCEPT !.pm = FALSE, !.updated = TRUE]
      BY <2>3 DEF M0!CPSIE
    <3>2. Instruction(f, m0')
      BY <2>0, <3>1 DEF Instruction, SameContext, M0Core, Ready
    <3> QED
      BY <1>4, <3>2, InstructionStep
  <2>4. CASE M0!WriteISER
    <3>1. PICK i \in Ints : m0' = [f EXCEPT !.ena = @ \cup {i}, !.updated = TRUE]
      BY <2>4 DEF M0!WriteISER, Ints
    <3>2. Instruction(f, m0')
      BY <2>0, <3>1, RegisterWrites
    <3> QED
      BY <1>4, <3>2, InstructionStep
  <2>5. CASE M0!WriteICER
    <3>1. PICK i \in Ints : m0' = [f EXCEPT !.ena = @ \ {i}]
      BY <2>5 DEF M0!WriteICER, Ints
    <3>2. Instruction(f, m0')
      BY <2>0, <3>1, RegisterWrites
    <3> QED
      BY <1>4, <3>2, InstructionStep
  <2>6. CASE M0!WriteISPR
    <3>1. PICK i \in Ints : m0' = [f EXCEPT !.pend = @ \cup {i}, !.updated = TRUE]
      BY <2>6 DEF M0!WriteISPR, Ints
    <3>2. {i} \in SUBSET Exc
      BY DEF Exc
    <3>3. Instruction(f, m0')
      BY <2>0, <3>1, <3>2, RegisterWrites
    <3> QED
      BY <1>4, <3>3, InstructionStep
  <2>7. CASE M0!WriteICPR
    <3>1. PICK i \in Ints : m0' = [f EXCEPT !.pend = @ \ ({i} \ Lines)]
      BY <2>7 DEF M0!WriteICPR, Ints
    <3>2. {i} \ Lines \in SUBSET Exc
      BY DEF Exc
    <3>3. Instruction(f, m0')
      BY <2>0, <3>1, <3>2, RegisterWrites
    <3> QED
      BY <1>4, <3>3, InstructionStep
  <2>8. CASE M0!WriteIPR
    <3>1. PICK i \in Ints, p \in Priority : m0' = [f EXCEPT !.prio[i] = p, !.updated = TRUE]
      BY <2>8 DEF M0!WriteIPR, Ints
    <3>2. p \in Nat
      BY M0Names
    <3>3. Instruction(f, m0')
      BY <2>0, <3>1, <3>2, RegisterWrites
    <3> QED
      BY <1>4, <3>3, InstructionStep
  <2>9. CASE M0!WriteICSR
    <3>1. PICK e \in SysExc \ {"SVCall"} : \/ m0' = [f EXCEPT !.pend = @ \cup {e}, !.updated = TRUE]
                                           \/ m0' = [f EXCEPT !.pend = @ \ {e}]
      BY <2>9 DEF M0!WriteICSR
    <3>2. {e} \in SUBSET Exc
      BY M0Names
    <3> DEFINE S == {e}
    <3> HIDE DEF S
    <3>3. Instruction(f, [f EXCEPT !.pend = @ \cup S, !.updated = TRUE])
      BY <2>0, <3>2 DEF Instruction, SameContext, M0Core, Ready, S
    <3>4. Instruction(f, [f EXCEPT !.pend = @ \ S])
      BY <2>0, <3>2 DEF Instruction, SameContext, NotMore, M0Core
    <3>5. Instruction(f, m0')
      BY <3>1, <3>3, <3>4 DEF S
    <3> QED
      BY <1>4, <3>5, InstructionStep
  <2>10. CASE M0!SVC
    <3>1. m0' = [f EXCEPT !.pend = @ \cup {"SVCall"}, !.updated = TRUE]
      BY <2>10 DEF M0!SVC
    <3>2. {"SVCall"} \in SUBSET Exc
      BY DEF Exc
    <3> DEFINE S == {"SVCall"}
    <3> HIDE DEF S
    <3>3. Instruction(f, [f EXCEPT !.pend = @ \cup S, !.updated = TRUE])
      BY <2>0, <3>2 DEF Instruction, SameContext, M0Core, Ready, S
    <3>4. Instruction(f, m0')
      BY <3>1, <3>3 DEF S
    <3> QED
      BY <1>4, <3>4, InstructionStep
  <2>11. CASE M0!WFI
    <3>1. m0' = [f EXCEPT !.waiting = TRUE]
      BY <2>11 DEF M0!WFI
    <3>2. Instruction(f, m0')
      BY <2>0, <3>1 DEF Instruction, SameContext, NotMore, M0Core
    <3> QED
      BY <1>4, <3>2, InstructionStep
  <2>12. CASE M0!WFE
    <3>1. m0' = [f EXCEPT !.event = FALSE] \/ m0' = [f EXCEPT !.waiting = TRUE]
      BY <2>12 DEF M0!WFE
    <3>2. Instruction(f, [f EXCEPT !.event = FALSE])
      BY <2>0 DEF Instruction, SameContext, NotMore, M0Core
    <3>3. Instruction(f, [f EXCEPT !.waiting = TRUE])
      BY <2>0 DEF Instruction, SameContext, NotMore, M0Core
    <3>4. Instruction(f, m0')
      BY <3>1, <3>2, <3>3
    <3> QED
      BY <1>4, <3>4, InstructionStep
  <2>13. CASE M0!PUSH \/ M0!POP
    <3>1. m0' = [f EXCEPT !.sp = @ + 1] \/ (f.sp > M0!Floor(f) /\ m0' = [f EXCEPT !.sp = @ - 1])
      BY <2>13 DEF M0!PUSH, M0!POP
    <3>2. f.sp \in Nat /\ M0!Floor(f) \in Nat /\ f.sp >= M0!Floor(f)
      <4>1. NestedM0(f)
        BY <2>0 DEF Ready
      <4> QED
        BY <2>0, <4>1, FloorBelow
    <3>3. Moved(f, m0')
      <4>1. CASE m0' = [f EXCEPT !.sp = @ + 1]
        <5>1. f.sp + 1 \in Nat /\ f.sp + 1 >= M0!Floor(f)
          BY <3>2
        <5> QED
          BY <4>1, <5>1 DEF Moved
      <4>2. CASE f.sp > M0!Floor(f) /\ m0' = [f EXCEPT !.sp = @ - 1]
        <5>1. f.sp - 1 \in Nat /\ f.sp - 1 >= M0!Floor(f)
          BY <3>2, <4>2
        <5> QED
          BY <4>2, <5>1 DEF Moved
      <4> QED
        BY <3>1, <4>1, <4>2
    <3>4. M0OK(m0') /\ m0'.hist = f.hist
      BY <2>0, <3>3, MoveNests
    <3> QED
      BY <1>4, <3>4, SameRestores
  <2>14. CASE M0!WriteControl
    <3>1. PICK b \in BOOLEAN : f.ipsr = "Thread" /\ m0' = M0!switchStack(f, b)
      BY <2>14 DEF M0!WriteControl, M0!Thread
    <3>2. M0OK(m0') /\ m0'.hist = f.hist
      BY <2>0, <3>1, ControlNests
    <3> QED
      BY <1>4, <3>2, SameRestores
  <2>15. CASE M0!Return
    <3>1. f.ipsr # "Thread" /\ f.sp = M0!Floor(f) /\ m0' = M0!exceptionReturn(f, f.lr)
      BY <2>15 DEF M0!Return, M0!Thread
    <3>2. M0OK(m0') /\ M0!Snapshot(m0') = f.hist[Len(f.hist)]
      BY <2>0, <3>1, ReturnKeeps
    <3>3. f.hist = M0!Entered.hist
      BY <1>4, FetchedReady DEF SameContext
    <3>4. M0!Snapshot(m0') = M0!Last(M0!Entered.hist)
      BY <3>2, <3>3 DEF M0!Last
    <3> QED
      BY <3>2, <3>4 DEF Restores
  <2> QED
    BY <1>4, <2>1, <2>2, <2>3, <2>4, <2>5, <2>6, <2>7, <2>8, <2>9, <2>10, <2>11, <2>12, <2>13,
       <2>14, <2>15
<1> QED
  BY <1>1, <1>2, <1>3, <1>4
     DEF M0!Next, M0!Plain, M0!CPSID, M0!CPSIE, M0!WriteISER, M0!WriteICER, M0!WriteISPR,
         M0!WriteICPR, M0!WriteIPR, M0!WriteICSR, M0!SVC, M0!WFI, M0!WFE, M0!PUSH, M0!POP,
         M0!WriteControl, M0!Return, M0!At0

LEMMA M0Reset ==
  ASSUME M0Assumption, M0!Init
  PROVE  M0OK(m0)
<1> DEFINE d == [ipsr |-> "Thread", pc |-> 0, lr |-> "none",
                 sp |-> 0, bankedSP |-> 0, spsel |-> FALSE, mem |-> [k \in {} |-> 0],
                 pm |-> FALSE, pend |-> {}, ena |-> {}, prio |-> [i \in Ints |-> 0],
                 waiting |-> FALSE, event |-> FALSE, updated |-> FALSE, hist |-> <<>>]
<1>1. m0 = d
  BY DEF M0!Init, M0!Thread, Ints
<1>2. d \in M0Core
  <2>1. [k \in {} |-> 0] \in Mems
    <3>1. [k \in {} |-> 0] \in [{} -> Frame] /\ {} \in SUBSET StackPlace
      OBVIOUS
    <3> QED
      BY <3>1 DEF Mems
  <2>2. <<>> \in Seq(Snap)
    OBVIOUS
  <2>3. [i \in Ints |-> 0] \in [Ints -> Nat]
    OBVIOUS
  <2> DEFINE a == [k \in {} |-> 0]
             b == [i \in Ints |-> 0]
             s == <<>>
  <2>4. a \in Mems /\ b \in [Ints -> Nat] /\ s \in Seq(Snap)
    BY <2>1, <2>2, <2>3
  <2> HIDE DEF a, b, s
  <2>5. [ipsr |-> "Thread", pc |-> 0, lr |-> "none", sp |-> 0, bankedSP |-> 0, spsel |-> FALSE,
         mem |-> a, pm |-> FALSE, pend |-> {}, ena |-> {}, prio |-> b,
         waiting |-> FALSE, event |-> FALSE, updated |-> FALSE, hist |-> s] \in M0Core
    BY <2>4 DEF M0Core
  <2> QED
    BY <2>5 DEF a, b, s
<1>3. Len(m0.hist) = 0 /\ m0.ipsr = "Thread" /\ DOMAIN m0.mem = {} /\ m0.pend = {} /\ ~m0.waiting
  BY <1>1
<1>4. \A k \in 1 .. Len(m0.hist) : FALSE
  BY <1>3
<1>5. FramesKept(m0) /\ ChainKept(m0) /\ FramesStacked(m0)
  <2>1. {KeyOf(m0.hist[k]) : k \in 1 .. Len(m0.hist)} = {}
    BY <1>4
  <2>2. FramesKept(m0)
    BY <1>3, <1>4, <2>1 DEF FramesKept
  <2>3. ChainKept(m0)
    <3>1. \A k \in 2 .. Len(m0.hist) : FALSE
      BY <1>3
    <3> QED
      BY <1>3, <1>4, <3>1 DEF ChainKept
  <2>4. FramesStacked(m0)
    BY <1>4 DEF FramesStacked
  <2> QED
    BY <2>2, <2>3, <2>4
<1>6. Urgent(m0) = {}
  BY <1>3, UrgentMember
<1> QED
  BY <1>1, <1>2, <1>3, <1>5, <1>6 DEF M0OK, NestedM0, QuietM0

LEMMA M0Properties ==
  ASSUME M0Assumption, M0OK(m0)
  PROVE  M0!NoMissedInterrupt /\ M0!FramesSafe
<1>1. M0!NoMissedInterrupt
  BY DEF M0!NoMissedInterrupt, M0OK, QuietM0, Urgent, Ints
<1>2. M0!FramesSafe
  <2> SUFFICES ASSUME NEW k \in DOMAIN m0.mem PROVE k[2] <= M0!StackPointer(m0, k[1])
    BY DEF M0!FramesSafe
  <2>1. PICK j \in 1 .. Len(m0.hist) : k = KeyOf(m0.hist[j])
    BY DEF M0OK, NestedM0, FramesKept
  <2>2. k[1] = m0.hist[j].spsel /\ k[2] = Top(m0.hist[j])
    BY <2>1 DEF KeyOf
  <2>3. m0.hist[j] \in Snap /\ Top(m0.hist[j]) \in Nat /\ m0.hist[j].spsel \in BOOLEAN
    <3>1. m0.hist \in Seq(Snap)
      BY DEF M0OK, M0Core
    <3>2. m0.hist[j] \in Snap
      BY <2>1, <3>1
    <3> QED
      BY <3>2, TopNat DEF Snap
  <2>4. /\ m0.hist[j].spsel => Pointer(m0, TRUE) = Top(m0.hist[j])
        /\ ~m0.hist[j].spsel => Top(m0.hist[j]) <= Pointer(m0, FALSE)
    BY <2>1 DEF M0OK, NestedM0, FramesStacked
  <2>5. CASE m0.hist[j].spsel
    <3>1. k[1] = TRUE /\ M0!StackPointer(m0, TRUE) = k[2]
      BY <2>2, <2>3, <2>4, <2>5 DEF Pointer
    <3>2. M0!StackPointer(m0, k[1]) = k[2]
      BY <3>1, Zenon
    <3>3. k[2] \in Nat
      BY <2>2, <2>3
    <3> QED
      BY <3>2, <3>3
  <2>6. CASE ~m0.hist[j].spsel
    <3>1. k[1] = FALSE /\ k[2] <= M0!StackPointer(m0, FALSE)
      BY <2>2, <2>3, <2>4, <2>6 DEF Pointer
    <3> QED
      BY <3>1, Zenon
  <2> QED
    BY <2>5, <2>6
<1> QED
  BY <1>1, <1>2

-----------------------------------------------------------------------------
(* Every behaviour of the cores. *)

\* The mailboxes and locks of a behaviour are those of SIOMailbox.
THEOREM InterruptsContainMailbox == MCSpec => ResetSpec
<1>1. MCInit => Init
  BY DEF MCInit
<1>2. [MCNext]_MCVars => [Next \/ WatchdogTrigger]_vars
  <2> SUFFICES ASSUME [MCNext]_MCVars PROVE [Next \/ WatchdogTrigger]_vars
    OBVIOUS
  <2>1. ASSUME NEW c \in Core, ReadFIFO(c) \/ WriteStatus(c) \/ \E v \in Value : WriteFIFO(c, v)
        PROVE  [Next \/ WatchdogTrigger]_vars
    BY <2>1 DEF Next, Access
  <2>2. ASSUME NEW c \in Core, NEW l \in Lock, ReadSpinlock(c, l) \/ WriteSpinlock(c, l)
        PROVE  [Next \/ WatchdogTrigger]_vars
    BY <2>2 DEF Next, Access
  <2>3. CASE UNCHANGED vars
    BY <2>3
  <2> QED
    BY <2>1, <2>2, <2>3 DEF MCNext, MCVars
<1> QED
  BY <1>1, <1>2, PTL DEF MCSpec, ResetSpec

\* What holds of the Hazard3 core between two steps.
LEMMA HazardAlways == MCSpec => []CpuOK(cpu)
<1>0. H3Assumption
  BY MCInterruptsAssumption DEF MCInterruptsAssumption
<1>1. MCInit => CpuOK(cpu)
  BY <1>0, ResetOK DEF MCInit, XH!Init
<1>2. CpuOK(cpu) /\ [MCNext]_MCVars => CpuOK(cpu)'
  <2> SUFFICES ASSUME CpuOK(cpu), [MCNext]_MCVars PROVE CpuOK(cpu)'
    OBVIOUS
  <2>1. CASE XH!Next
    BY <1>0, <2>1, HazardStep
  <2>2. CASE UNCHANGED cpu
    <3>1. cpu' = cpu
      BY <2>2
    <3>2. CpuOK(cpu')
      BY <3>1
    <3> QED
      BY <3>2
  <2> QED
    BY <2>1, <2>2 DEF MCNext, MCVars, hazard3
<1> QED
  BY <1>1, <1>2, PTL DEF MCSpec

\* What holds of the Cortex-M0+ between two steps, and what a step restores.
LEMMA M0Always == MCSpec => []M0OK(m0)
<1>0. M0Assumption
  BY MCInterruptsAssumption DEF MCInterruptsAssumption
<1>1. MCInit => M0OK(m0)
  BY <1>0, M0Reset DEF MCInit
<1>2. M0OK(m0) /\ [MCNext]_MCVars => M0OK(m0)'
  <2> SUFFICES ASSUME M0OK(m0), [MCNext]_MCVars PROVE M0OK(m0)'
    OBVIOUS
  <2>1. CASE M0!Next
    <3>1. M0OK(m0')
      BY <1>0, <2>1, M0Step
    <3> QED
      BY <3>1
  <2>2. CASE UNCHANGED m0
    <3>1. M0OK(m0')
      BY <2>2
    <3> QED
      BY <3>1
  <2> QED
    BY <2>1, <2>2 DEF MCNext, MCVars
<1> QED
  BY <1>1, <1>2, PTL DEF MCSpec

\* After every write to the enables, the pending bits and the priorities, and every
\* claim, the sorted list of a Hazard3 core holds exactly the enabled and pending
\* interrupts, each with its priority, and MEINEXT names the first or none (cpu.ts).
THEOREM InterruptsArbitrationExact == MCSpec => []ArbitrationExact
<1>1. CpuOK(cpu) => ArbitrationExact
  <2>1. H3Assumption
    BY MCInterruptsAssumption DEF MCInterruptsAssumption
  <2> QED
    BY <2>1, HazardProperties DEF ArbitrationExact
<1> QED
  BY <1>1, HazardAlways, PTL

\* Neither core runs on or sleeps beside an interrupt that it would take, whichever
\* mask, priority, return or sleep instruction came before it.
THEOREM InterruptsNoneMissed == MCSpec => []NoMissedInterrupt
<1>1. CpuOK(cpu) /\ M0OK(m0) => NoMissedInterrupt
  <2>1. H3Assumption /\ M0Assumption
    BY MCInterruptsAssumption DEF MCInterruptsAssumption
  <2> QED
    BY <2>1, HazardProperties, M0Properties DEF NoMissedInterrupt
<1> QED
  BY <1>1, HazardAlways, M0Always, PTL

\* No h3.unblock is lost on a core that blocks: one that waits has none registered.
THEOREM InterruptsNoLostUnblock == MCSpec => []NoLostUnblock
<1>1. CpuOK(cpu) => NoLostUnblock
  <2>1. H3Assumption
    BY MCInterruptsAssumption DEF MCInterruptsAssumption
  <2> QED
    BY <2>1, HazardProperties DEF NoLostUnblock
<1> QED
  BY <1>1, HazardAlways, PTL

\* Exceptions of a Cortex-M0+ nest to any depth over both stacks without writing over a
\* frame, and each return brings back what its entry interrupted (cortex-m0-core.ts).
THEOREM InterruptsReturnsRestore == MCSpec => ReturnsRestore
<1>0. M0Assumption
  BY MCInterruptsAssumption DEF MCInterruptsAssumption
<1>1. M0OK(m0) => M0!FramesSafe
  BY <1>0, M0Properties
<1>2. M0OK(m0) /\ [MCNext]_MCVars
        => [~m0.waiting /\ Len(m0'.hist) < Len(M0!Entered.hist)
              => M0!Snapshot(m0') = M0!Last(M0!Entered.hist)]_m0
  <2> SUFFICES ASSUME M0OK(m0), [MCNext]_MCVars, m0' # m0
               PROVE  ~m0.waiting /\ Len(m0'.hist) < Len(M0!Entered.hist)
                        => M0!Snapshot(m0') = M0!Last(M0!Entered.hist)
    OBVIOUS
  <2>1. M0!Next
    BY DEF MCNext, MCVars
  <2> QED
    BY <1>0, <2>1, M0Step DEF Restores
<1> QED
  BY <1>1, <1>2, M0Always, PTL DEF MCSpec, ReturnsRestore, M0!ReturnsRestore

===============================================================================
