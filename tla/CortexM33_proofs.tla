-------------------------- MODULE CortexM33_proofs --------------------------
(***************************************************************************)
(* For any interrupts, priorities and stack sizes: no interrupt is missed  *)
(* by a Cortex-M33 core, none is lost on the way to its handler, and every *)
(* return brings back the context its entry interrupted.                   *)
(*                                                                         *)
(* The operators of the model take a core and return it changed, so what   *)
(* they do is stated of any function c with the fields of a core           *)
(* (IsCore); most fields may hold anything.                                *)
(***************************************************************************)
EXTENDS CortexM33, TLAPS, WellFoundedInduction

Fields == {"ipsr", "pc", "it", "lr", "r13", "msp", "psp", "spsel", "mem", "primask", "basepri",
           "pend", "ena", "prio", "cpacr", "fault", "waiting", "event", "updated", "hist"}

IsCore(c) == \E V : c \in [Fields -> V]

LEMMA FieldsAre ==
  /\ "ipsr" \in Fields /\ "pc" \in Fields /\ "it" \in Fields /\ "lr" \in Fields
  /\ "r13" \in Fields /\ "msp" \in Fields /\ "psp" \in Fields /\ "spsel" \in Fields
  /\ "mem" \in Fields /\ "primask" \in Fields /\ "basepri" \in Fields /\ "pend" \in Fields
  /\ "ena" \in Fields /\ "prio" \in Fields /\ "cpacr" \in Fields /\ "fault" \in Fields
  /\ "waiting" \in Fields /\ "event" \in Fields /\ "updated" \in Fields /\ "hist" \in Fields
BY DEF Fields

\* What decides which exceptions can be taken, but for the one that runs, and
\* whether the core looks.
SameNVIC(c, d) ==
  /\ d.primask = c.primask /\ d.basepri = c.basepri
  /\ d.pend = c.pend /\ d.ena = c.ena /\ d.prio = c.prio
  /\ d.waiting = c.waiting /\ d.updated = c.updated

-----------------------------------------------------------------------------
(* Stack pointers, entry and return *)

LEMMA SyncedToBanked ==
  ASSUME NEW c, IsCore(c)
  PROVE  LET d == SyncToBanked(c)
         IN  /\ IsCore(d) /\ SameNVIC(c, d) /\ d.ipsr = c.ipsr /\ d.fault = c.fault
             /\ d.hist = c.hist
<1> DEFINE d == SyncToBanked(c)
<1>1. PICK V : c \in [Fields -> V] BY DEF IsCore
<1>2. d \in [Fields -> V] BY <1>1, FieldsAre DEF SyncToBanked
<1>3. SameNVIC(c, d) /\ d.ipsr = c.ipsr /\ d.fault = c.fault /\ d.hist = c.hist
  BY <1>1, FieldsAre DEF SyncToBanked, SameNVIC
<1> QED BY <1>2, <1>3 DEF IsCore

LEMMA SyncedFromBanked ==
  ASSUME NEW c, IsCore(c)
  PROVE  LET d == SyncFromBanked(c)
         IN  /\ IsCore(d) /\ SameNVIC(c, d) /\ d.ipsr = c.ipsr /\ d.fault = c.fault
             /\ d.hist = c.hist
<1> DEFINE d == SyncFromBanked(c)
<1>1. PICK V : c \in [Fields -> V] BY DEF IsCore
<1>2. d \in [Fields -> V] BY <1>1, FieldsAre DEF SyncFromBanked
<1>3. SameNVIC(c, d) /\ d.ipsr = c.ipsr /\ d.fault = c.fault /\ d.hist = c.hist
  BY <1>1, FieldsAre DEF SyncFromBanked, SameNVIC
<1> QED BY <1>2, <1>3 DEF IsCore

\* An entry is refused by a locked-up core, meets the end of the stack, or
\* happens; it changes nothing of the NVIC.
Entered(c, e, d) ==
  \/ d = c /\ e = EXC_HARDFAULT /\ c.ipsr = EXC_HARDFAULT
  \/ d.ipsr = c.ipsr /\ d.fault = TRUE /\ d.hist = c.hist
  \/ d.ipsr = e /\ \E x : d.hist = Append(c.hist, x)

LEMMA Entry ==
  ASSUME NEW c, NEW e, NEW ret, IsCore(c)
  PROVE  LET d == ExceptionEntry(c, e, ret)
         IN  IsCore(d) /\ SameNVIC(c, d) /\ Entered(c, e, d)
<1> DEFINE d == ExceptionEntry(c, e, ret)
           s == SyncToBanked(c)
           psp == UsesPsp(s)
           sp == IF psp THEN s.psp ELSE s.msp
           top == Aligned(sp) + FrameWords
           frame == [lr |-> s.lr, pc |-> ret, it |-> s.it, ipsr |-> s.ipsr,
                     pad |-> Aligned(sp) # sp]
           over == [s EXCEPT !.spsel = FALSE, !.fault = TRUE]
           pushed == [s EXCEPT !.mem = Stored(@, <<psp, top>>, frame),
                               !.psp = IF psp THEN top ELSE @,
                               !.msp = IF psp THEN @ ELSE top,
                               !.lr = IF s.ipsr # Thread THEN "handler"
                                      ELSE IF psp THEN "psp" ELSE "msp",
                               !.pc = 0, !.ipsr = e, !.spsel = FALSE, !.it = 0,
                               !.event = TRUE,
                               !.hist = Append(@, Context(s, ret))]
<1>1. IsCore(s) /\ SameNVIC(c, s) /\ s.ipsr = c.ipsr /\ s.fault = c.fault /\ s.hist = c.hist
  BY SyncedToBanked
<1>2. CASE e = EXC_HARDFAULT /\ s.ipsr = EXC_HARDFAULT
  <2>1. d = c BY <1>2 DEF ExceptionEntry
  <2> QED BY <2>1, <1>1, <1>2 DEF SameNVIC, Entered
<1>3. CASE /\ ~(e = EXC_HARDFAULT /\ s.ipsr = EXC_HARDFAULT)
           /\ top > (IF psp THEN PspWords ELSE MspWords)
  <2>1. d = SyncFromBanked(over) BY <1>3 DEF ExceptionEntry
  <2> HIDE DEF d, s
  <2>2. PICK V : s \in [Fields -> V] BY <1>1 DEF IsCore
  <2>3. over \in [Fields -> V \cup {FALSE, TRUE}] BY <2>2, FieldsAre
  <2>4. SameNVIC(s, over) /\ over.ipsr = s.ipsr /\ over.fault = TRUE /\ over.hist = s.hist
    BY <2>2, FieldsAre DEF SameNVIC
  <2>5. IsCore(over) BY <2>3 DEF IsCore
  <2> HIDE DEF over
  <2>6. /\ IsCore(d) /\ SameNVIC(over, d) /\ d.ipsr = over.ipsr /\ d.fault = over.fault
        /\ d.hist = over.hist
    BY <2>1, <2>5, SyncedFromBanked
  <2> USE DEF d
  <2> QED BY <2>4, <2>6, <1>1 DEF SameNVIC, Entered
<1>4. CASE /\ ~(e = EXC_HARDFAULT /\ s.ipsr = EXC_HARDFAULT)
           /\ ~(top > (IF psp THEN PspWords ELSE MspWords))
  <2>1. d = SyncFromBanked(pushed) BY <1>4 DEF ExceptionEntry
  <2> HIDE DEF d, s, psp, top, frame
  <2>2. PICK V : s \in [Fields -> V] BY <1>1 DEF IsCore
  <2> DEFINE W == V \cup {pushed.mem, pushed.psp, pushed.msp, pushed.lr, 0, e, FALSE, TRUE,
                          pushed.hist}
  <2>3. pushed \in [Fields -> W] BY <2>2, FieldsAre, ZenonT(30)
  <2>4. /\ SameNVIC(s, pushed) /\ pushed.ipsr = e /\ pushed.fault = s.fault
        /\ pushed.hist = Append(s.hist, Context(s, ret))
    BY <2>2, FieldsAre DEF SameNVIC
  <2>5. IsCore(pushed) BY <2>3, ZenonT(30) DEF IsCore
  <2> HIDE DEF pushed
  <2>6. /\ IsCore(d) /\ SameNVIC(pushed, d) /\ d.ipsr = pushed.ipsr /\ d.fault = pushed.fault
        /\ d.hist = pushed.hist
    BY <2>1, <2>5, SyncedFromBanked
  <2>7. d.hist = Append(c.hist, Context(s, ret)) BY <2>4, <2>6, <1>1
  <2> USE DEF d
  <2> QED BY <2>4, <2>6, <2>7, <1>1 DEF SameNVIC, Entered
<1> QED BY <1>2, <1>3, <1>4

LEMMA Returned ==
  ASSUME NEW c, NEW x, IsCore(c)
  PROVE  LET d == ExceptionReturn(c, x)
         IN  /\ IsCore(d) /\ SameNVIC([c EXCEPT !.updated = TRUE], d)
             /\ d.fault = c.fault /\ d.hist = Front(c.hist)
<1> DEFINE d == ExceptionReturn(c, x)
           s == SyncToBanked(c)
           psp == x = "psp"
           sp == IF psp THEN s.psp ELSE s.msp
           frame == s.mem[<<psp, sp>>]
           new == Popped(sp, frame)
           popped == [s EXCEPT !.psp = IF psp THEN new ELSE @,
                               !.msp = IF psp THEN @ ELSE new,
                               !.lr = frame.lr, !.pc = frame.pc, !.it = frame.it,
                               !.ipsr = IF x = "handler" THEN frame.ipsr ELSE Thread,
                               !.spsel = psp,
                               !.mem = Restrict(@, DOMAIN @ \ {<<psp, sp>>}),
                               !.updated = TRUE, !.event = TRUE,
                               !.hist = Front(@)]
<1>1. IsCore(s) /\ SameNVIC(c, s) /\ s.ipsr = c.ipsr /\ s.fault = c.fault /\ s.hist = c.hist
  BY SyncedToBanked
<1>2. d = SyncFromBanked(popped) BY DEF ExceptionReturn
<1> HIDE DEF d, s, psp, frame, new
<1>3. PICK V : s \in [Fields -> V] BY <1>1 DEF IsCore
<1> DEFINE W == V \cup {popped.psp, popped.msp, popped.lr, popped.pc, popped.it, popped.ipsr,
                        psp, popped.mem, TRUE, popped.hist}
<1>4. popped \in [Fields -> W] BY <1>3, FieldsAre, ZenonT(30)
<1>5. /\ popped.primask = s.primask /\ popped.basepri = s.basepri /\ popped.pend = s.pend
      /\ popped.ena = s.ena /\ popped.prio = s.prio /\ popped.waiting = s.waiting
      /\ popped.updated = TRUE /\ popped.fault = s.fault /\ popped.hist = Front(s.hist)
  BY <1>3, FieldsAre
<1>6. IsCore(popped) BY <1>4, ZenonT(30) DEF IsCore
<1> HIDE DEF popped
<1>7. /\ IsCore(d) /\ SameNVIC(popped, d) /\ d.fault = popped.fault /\ d.hist = popped.hist
  BY <1>2, <1>6, SyncedFromBanked
<1>8. PICK U : c \in [Fields -> U] BY DEF IsCore
<1>9. SameNVIC([c EXCEPT !.updated = TRUE], d)
  BY <1>1, <1>5, <1>7, <1>8, FieldsAre DEF SameNVIC
<1>10. d.fault = c.fault /\ d.hist = Front(c.hist) BY <1>1, <1>5, <1>7
<1> USE DEF d
<1> QED BY <1>7, <1>9, <1>10

\* A pending fault is delivered: HardFault or UsageFault runs, or its entry
\* meets the end of the stack.
FaultTaken(c, d) ==
  \/ ~c.fault /\ d = c
  \/ d.fault = TRUE /\ d.ipsr = c.ipsr /\ d.hist = c.hist
  \/ /\ d.ipsr = IF UsageFaultEna THEN EXC_USAGEFAULT ELSE EXC_HARDFAULT
     /\ d.hist = c.hist \/ \E x : d.hist = Append(c.hist, x)

LEMMA Delivered ==
  ASSUME NEW c, NEW ret, IsCore(c)
  PROVE  LET d == DeliverFault(c, ret)
         IN  /\ IsCore(d) /\ SameNVIC(c, d)
             /\ FaultTaken(c, d)
<1> DEFINE d == DeliverFault(c, ret)
           e == IF UsageFaultEna THEN EXC_USAGEFAULT ELSE EXC_HARDFAULT
           b == [c EXCEPT !.fault = FALSE]
<1>1. CASE ~c.fault BY <1>1 DEF DeliverFault, SameNVIC, FaultTaken
<1>2. CASE c.fault
  <2>1. d = ExceptionEntry(b, e, ret) BY <1>2 DEF DeliverFault
  <2>2. PICK V : c \in [Fields -> V] BY DEF IsCore
  <2>3. b \in [Fields -> V \cup {FALSE}] BY <2>2, FieldsAre
  <2>4. SameNVIC(c, b) /\ b.ipsr = c.ipsr /\ b.hist = c.hist BY <2>2, FieldsAre DEF SameNVIC
  <2>5. IsCore(b) BY <2>3 DEF IsCore
  <2> HIDE DEF d, b, e
  <2>6. IsCore(d) /\ SameNVIC(b, d) /\ Entered(b, e, d) BY <2>1, <2>5, Entry
  <2>7. SameNVIC(c, d) BY <2>4, <2>6 DEF SameNVIC
  <2> USE DEF d, e
  <2> QED BY <2>4, <2>6, <2>7 DEF Entered, FaultTaken
<1> QED BY <1>1, <1>2

-----------------------------------------------------------------------------
(* What can be taken *)

NvicOK(c) ==
  /\ c.pend \subseteq Irq \cup SysExc
  /\ c.prio \in [Irq -> 0 .. 7] /\ c.basepri \in 1 .. 8
  /\ c.waiting \in BOOLEAN /\ c.updated \in BOOLEAN

LEMMA NvicStays ==
  ASSUME NEW c, NEW d, NvicOK(c), SameNVIC(c, d)
  PROVE  NvicOK(d)
BY DEF NvicOK, SameNVIC

LEMMA TakeableShrinks ==
  ASSUME NEW c, NEW d, d.pend \subseteq c.pend, d.ena \subseteq c.ena, d.prio = c.prio,
         d.primask = c.primask, d.basepri = c.basepri, d.ipsr = c.ipsr
  PROVE  Takeable(d) \subseteq Takeable(c)
<1>1. CurrentPriority(d) = CurrentPriority(c) BY DEF CurrentPriority, ExceptionPriority
<1>2. \A e : ExceptionPriority(d, e) = ExceptionPriority(c, e) BY DEF ExceptionPriority
<1> QED BY <1>1, <1>2 DEF Takeable

LEMMA TakeableSame ==
  ASSUME NEW c, NEW d, SameNVIC(c, d), d.ipsr = c.ipsr
  PROVE  Takeable(d) = Takeable(c)
<1>1. Takeable(d) \subseteq Takeable(c) BY TakeableShrinks DEF SameNVIC
<1>2. Takeable(c) \subseteq Takeable(d) BY TakeableShrinks DEF SameNVIC
<1> QED BY <1>1, <1>2

LEMMA ConstantsAre ==
  /\ Irq \subseteq 16 .. 67 /\ SysExc \subseteq {2, 11, 14, 15}
  /\ Priority \subseteq 0 .. 7 /\ SysPriority \in 0 .. 7
BY CortexM33Assumption DEF CortexM33Assumption, EXC_NMI, EXC_SVCALL, EXC_PENDSV, EXC_SYSTICK,
   EXC_EXTERNAL

LEMMA LeastIs ==
  ASSUME NEW x \in Int, NEW y \in Int, NEW z \in Int
  PROVE  Least({x, y, z}) \in {x, y, z} /\ Least({x, y, z}) <= x
<1>1. \E m \in {x, y, z} : \A n \in {x, y, z} : m <= n
  <2>1. CASE x <= y /\ x <= z BY <2>1
  <2>2. CASE y <= x /\ y <= z BY <2>2
  <2>3. CASE z <= x /\ z <= y BY <2>3
  <2> QED BY <2>1, <2>2, <2>3
<1> QED BY <1>1 DEF Least

LEMMA HardFaultPriority ==
  ASSUME NEW c PROVE ExceptionPriority(c, EXC_HARDFAULT) = -1
<1>1. EXC_HARDFAULT \notin Irq BY ConstantsAre DEF EXC_HARDFAULT
<1> QED BY <1>1 DEF ExceptionPriority, EXC_NMI, EXC_HARDFAULT, EXC_SVCALL, EXC_PENDSV, EXC_SYSTICK

LEMMA HardFaultIsTop ==
  ASSUME NEW c, NvicOK(c), c.ipsr = EXC_HARDFAULT, EXC_NMI \notin SysExc
  PROVE  Takeable(c) = {}
<1> DEFINE m == IF c.primask THEN 0 ELSE Unmasked
<1>1. CurrentPriority(c) = Least({-1, m, c.basepri})
  BY HardFaultPriority DEF CurrentPriority, EXC_HARDFAULT, Thread
<1>2. m \in Int /\ c.basepri \in Int BY DEF Unmasked, NvicOK
<1> HIDE DEF m
<1>3. CurrentPriority(c) \in Int /\ CurrentPriority(c) <= -1 BY <1>1, <1>2, LeastIs
<1>4. \A e \in Irq \cup SysExc : ExceptionPriority(c, e) \in 0 .. 8
  BY ConstantsAre
  DEF ExceptionPriority, NvicOK, EXC_NMI, EXC_HARDFAULT, EXC_SVCALL, EXC_PENDSV, EXC_SYSTICK,
      Unmasked
<1> QED BY <1>3, <1>4 DEF Takeable, NvicOK

-----------------------------------------------------------------------------
(* What an instruction makes of the core *)

CoreOK(c) == IsCore(c) /\ NvicOK(c) /\ \E S : c.hist \in Seq(S)

\* The core d before its fault is delivered: it asks for a new check and runs,
\* or nothing became more urgent; and interrupts are lost only by a write.
Executed(d) ==
  /\ CoreOK(d)
  /\ \/ d.updated = TRUE /\ d.waiting = FALSE
     \/ /\ d.pend \subseteq core.pend /\ d.ena \subseteq core.ena /\ d.prio = core.prio
        /\ d.primask = core.primask /\ d.basepri = core.basepri /\ d.ipsr = core.ipsr
  /\ core.pend \subseteq d.pend \/ d.hist = core.hist

LEMMA FetchedIs ==
  ASSUME CoreOK(core), core.waiting = FALSE
  PROVE  /\ IsCore(Fetched) /\ Executed(Fetched)
         /\ Fetched.pend = core.pend /\ Fetched.ena = core.ena /\ Fetched.prio = core.prio
         /\ Fetched.primask = core.primask /\ Fetched.basepri = core.basepri
         /\ Fetched.ipsr = core.ipsr /\ Fetched.hist = core.hist
         /\ Fetched.updated = FALSE /\ Fetched.waiting = FALSE
<1>1. PICK V : core \in [Fields -> V] BY DEF CoreOK, IsCore
<1> DEFINE pc == (core.pc + 1) % 3
<1>2. Fetched = [core EXCEPT !.updated = FALSE, !.pc = pc] BY DEF Fetched
<1> HIDE DEF pc
<1>3. Fetched \in [Fields -> V \cup {FALSE, pc}] BY <1>1, <1>2, FieldsAre
<1>4. /\ Fetched.pend = core.pend /\ Fetched.ena = core.ena /\ Fetched.prio = core.prio
      /\ Fetched.primask = core.primask /\ Fetched.basepri = core.basepri
      /\ Fetched.ipsr = core.ipsr /\ Fetched.hist = core.hist
      /\ Fetched.updated = FALSE /\ Fetched.waiting = core.waiting
  BY <1>1, <1>2, FieldsAre
<1>5. IsCore(Fetched) BY <1>3 DEF IsCore
<1>6. NvicOK(Fetched) BY <1>4 DEF CoreOK, NvicOK
<1> QED BY <1>4, <1>5, <1>6 DEF CoreOK, Executed

LEMMA InstructionRuns ==
  ASSUME CoreOK(core), Instruction
  PROVE  /\ core.waiting = FALSE /\ ~TakesException
         /\ \E d : Executed(d) /\ Finish(d)
<1>0. core.waiting = FALSE /\ ~TakesException
  BY DEF CoreOK, NvicOK, Instruction, At, Plain, IT, WritePrimask, WriteBasepri, WriteISER,
     WriteICER, WriteISPR, WriteICPR, WriteIPR, WriteICSR, SVC, WFI, WFE, Push, Pop,
     WriteControl, FPU, WriteCPACR, Return
<1>f. /\ IsCore(Fetched) /\ Executed(Fetched)
      /\ Fetched.pend = core.pend /\ Fetched.ena = core.ena /\ Fetched.prio = core.prio
      /\ Fetched.primask = core.primask /\ Fetched.basepri = core.basepri
      /\ Fetched.ipsr = core.ipsr /\ Fetched.hist = core.hist
      /\ Fetched.updated = FALSE /\ Fetched.waiting = FALSE
  BY <1>0, FetchedIs
<1>v. PICK V : Fetched \in [Fields -> V] BY <1>f DEF IsCore
<1>ok. NvicOK(core) /\ \E S : core.hist \in Seq(S) BY DEF CoreOK
<1> SUFFICES \E d : Executed(d) /\ Finish(d) BY <1>0
<1>1. CASE Plain BY <1>1, <1>f DEF Plain
<1>2. CASE IT
  <2> DEFINE d == [Fetched EXCEPT !.it = 1]
  <2>1. Finish(d) BY <1>2 DEF IT
  <2>2. d \in [Fields -> V \cup {1}] BY <1>v, FieldsAre
  <2>3. /\ d.pend = core.pend /\ d.ena = core.ena /\ d.prio = core.prio /\ d.primask = core.primask
        /\ d.basepri = core.basepri /\ d.ipsr = core.ipsr /\ d.hist = core.hist /\ d.updated = FALSE /\ d.waiting = FALSE
    BY <1>v, <1>f, <1>ok, FieldsAre, ConstantsAre DEF NvicOK
  <2> HIDE DEF d
  <2>4. IsCore(d) BY <2>2 DEF IsCore
  <2>5. Executed(d) BY <2>3, <2>4, <1>f, <1>ok, ConstantsAre DEF Executed, CoreOK, NvicOK
  <2> QED BY <2>1, <2>5 DEF d
<1>3. CASE WritePrimask
  <2>1. PICK b \in BOOLEAN : Finish([Fetched EXCEPT !.primask = b, !.updated = TRUE]) BY <1>3 DEF WritePrimask
  <2> DEFINE d == [Fetched EXCEPT !.primask = b, !.updated = TRUE]
  <2>2. d \in [Fields -> V \cup {b, TRUE}] BY <1>v, FieldsAre
  <2>3. /\ d.pend = core.pend /\ d.ena = core.ena /\ d.prio = core.prio /\ d.basepri = core.basepri
        /\ d.ipsr = core.ipsr /\ d.hist = core.hist /\ d.updated = TRUE /\ d.waiting = FALSE
    BY <1>v, <1>f, <1>ok, FieldsAre, ConstantsAre DEF NvicOK
  <2> HIDE DEF d
  <2>4. IsCore(d) BY <2>2 DEF IsCore
  <2>5. Executed(d) BY <2>3, <2>4, <1>f, <1>ok, ConstantsAre DEF Executed, CoreOK, NvicOK
  <2> QED BY <2>1, <2>5 DEF d
<1>4. CASE WriteBasepri
  <2>1. PICK p \in (Priority \ {0}) \cup {Unmasked} : Finish([Fetched EXCEPT !.basepri = p, !.updated = TRUE]) BY <1>4 DEF WriteBasepri
  <2> DEFINE d == [Fetched EXCEPT !.basepri = p, !.updated = TRUE]
  <2>2. d \in [Fields -> V \cup {p, TRUE}] BY <1>v, FieldsAre
  <2>3. /\ d.pend = core.pend /\ d.ena = core.ena /\ d.prio = core.prio /\ d.primask = core.primask
        /\ d.ipsr = core.ipsr /\ d.hist = core.hist /\ d.updated = TRUE /\ d.waiting = FALSE /\ d.basepri \in 1 .. 8
    BY <1>v, <1>f, <1>ok, FieldsAre, ConstantsAre DEF NvicOK, Unmasked
  <2> HIDE DEF d
  <2>4. IsCore(d) BY <2>2 DEF IsCore
  <2>5. Executed(d) BY <2>3, <2>4, <1>f, <1>ok, ConstantsAre DEF Executed, CoreOK, NvicOK
  <2> QED BY <2>1, <2>5 DEF d
<1>5. CASE WriteISER
  <2>1. PICK i \in Irq : Finish([Fetched EXCEPT !.ena = @ \cup {i}, !.updated = TRUE]) BY <1>5 DEF WriteISER
  <2> DEFINE d == [Fetched EXCEPT !.ena = @ \cup {i}, !.updated = TRUE]
  <2>2. d \in [Fields -> V \cup {Fetched.ena \cup {i}, TRUE}] BY <1>v, FieldsAre
  <2>3. /\ d.pend = core.pend /\ d.prio = core.prio /\ d.primask = core.primask /\ d.basepri = core.basepri
        /\ d.ipsr = core.ipsr /\ d.hist = core.hist /\ d.updated = TRUE /\ d.waiting = FALSE
    BY <1>v, <1>f, <1>ok, FieldsAre, ConstantsAre DEF NvicOK
  <2> HIDE DEF d
  <2>4. IsCore(d) BY <2>2 DEF IsCore
  <2>5. Executed(d) BY <2>3, <2>4, <1>f, <1>ok, ConstantsAre DEF Executed, CoreOK, NvicOK
  <2> QED BY <2>1, <2>5 DEF d
<1>6. CASE WriteICER
  <2>1. PICK i \in Irq : Finish([Fetched EXCEPT !.ena = @ \ {i}]) BY <1>6 DEF WriteICER
  <2> DEFINE d == [Fetched EXCEPT !.ena = @ \ {i}]
  <2>2. d \in [Fields -> V \cup {Fetched.ena \ {i}}] BY <1>v, FieldsAre
  <2>3. /\ d.pend = core.pend /\ d.prio = core.prio /\ d.primask = core.primask /\ d.basepri = core.basepri
        /\ d.ipsr = core.ipsr /\ d.hist = core.hist /\ d.updated = FALSE /\ d.waiting = FALSE /\ d.ena \subseteq core.ena
    BY <1>v, <1>f, <1>ok, FieldsAre, ConstantsAre DEF NvicOK
  <2> HIDE DEF d
  <2>4. IsCore(d) BY <2>2 DEF IsCore
  <2>5. Executed(d) BY <2>3, <2>4, <1>f, <1>ok, ConstantsAre DEF Executed, CoreOK, NvicOK
  <2> QED BY <2>1, <2>5 DEF d
<1>7. CASE WriteISPR
  <2>1. PICK i \in Irq : Finish([Fetched EXCEPT !.pend = @ \cup {i}, !.updated = TRUE]) BY <1>7 DEF WriteISPR
  <2> DEFINE d == [Fetched EXCEPT !.pend = @ \cup {i}, !.updated = TRUE]
  <2>2. d \in [Fields -> V \cup {Fetched.pend \cup {i}, TRUE}] BY <1>v, FieldsAre
  <2>3. /\ d.ena = core.ena /\ d.prio = core.prio /\ d.primask = core.primask /\ d.basepri = core.basepri
        /\ d.ipsr = core.ipsr /\ d.hist = core.hist /\ d.updated = TRUE /\ d.waiting = FALSE /\ d.pend = core.pend \cup {i}
    BY <1>v, <1>f, <1>ok, FieldsAre, ConstantsAre DEF NvicOK
  <2> HIDE DEF d
  <2>4. IsCore(d) BY <2>2 DEF IsCore
  <2>5. Executed(d) BY <2>3, <2>4, <1>f, <1>ok, ConstantsAre DEF Executed, CoreOK, NvicOK
  <2> QED BY <2>1, <2>5 DEF d
<1>8. CASE WriteICPR
  <2>1. PICK i \in Irq : Finish([Fetched EXCEPT !.pend = @ \ {i}]) BY <1>8 DEF WriteICPR
  <2> DEFINE d == [Fetched EXCEPT !.pend = @ \ {i}]
  <2>2. d \in [Fields -> V \cup {Fetched.pend \ {i}}] BY <1>v, FieldsAre
  <2>3. /\ d.ena = core.ena /\ d.prio = core.prio /\ d.primask = core.primask /\ d.basepri = core.basepri
        /\ d.ipsr = core.ipsr /\ d.hist = core.hist /\ d.updated = FALSE /\ d.waiting = FALSE /\ d.pend = core.pend \ {i}
    BY <1>v, <1>f, <1>ok, FieldsAre, ConstantsAre DEF NvicOK
  <2> HIDE DEF d
  <2>4. IsCore(d) BY <2>2 DEF IsCore
  <2>5. Executed(d) BY <2>3, <2>4, <1>f, <1>ok, ConstantsAre DEF Executed, CoreOK, NvicOK
  <2> QED BY <2>1, <2>5 DEF d
<1>9. CASE WriteIPR
  <2>1. PICK i \in Irq, p \in Priority : Finish([Fetched EXCEPT !.prio[i] = p, !.updated = TRUE])
    BY <1>9 DEF WriteIPR
  <2> DEFINE d == [Fetched EXCEPT !.prio[i] = p, !.updated = TRUE]
             prio == [Fetched.prio EXCEPT ![i] = p]
  <2>2. d = [Fetched EXCEPT !.prio = prio, !.updated = TRUE] OBVIOUS
  <2>3. prio \in [Irq -> 0 .. 7] BY <1>f, <1>ok, ConstantsAre DEF NvicOK
  <2> HIDE DEF d, prio
  <2>4. d \in [Fields -> V \cup {prio, TRUE}] BY <1>v, <2>2, FieldsAre
  <2>5. /\ d.pend = core.pend /\ d.prio = prio /\ d.basepri = core.basepri
        /\ d.hist = core.hist /\ d.updated = TRUE /\ d.waiting = FALSE
    BY <1>v, <1>f, <2>2, FieldsAre
  <2>6. IsCore(d) BY <2>4 DEF IsCore
  <2>7. Executed(d) BY <2>3, <2>5, <2>6, <1>f, <1>ok DEF Executed, CoreOK, NvicOK
  <2> QED BY <2>1, <2>7 DEF d
<1>10. CASE WriteICSR
  <2>1. PICK e \in SysExc \ {EXC_SVCALL} :
          \/ Finish([Fetched EXCEPT !.pend = @ \cup {e}, !.updated = TRUE])
          \/ Finish([Fetched EXCEPT !.pend = @ \ {e}])
    BY <1>10 DEF WriteICSR
  <2>2. CASE Finish([Fetched EXCEPT !.pend = @ \cup {e}, !.updated = TRUE])
    <3> DEFINE d == [Fetched EXCEPT !.pend = @ \cup {e}, !.updated = TRUE]
    <3>1. d \in [Fields -> V \cup {Fetched.pend \cup {e}, TRUE}] BY <1>v, FieldsAre
    <3>2. /\ d.pend = core.pend \cup {e} /\ d.prio = core.prio /\ d.basepri = core.basepri
          /\ d.hist = core.hist /\ d.updated = TRUE /\ d.waiting = FALSE
      BY <1>v, <1>f, FieldsAre
    <3> HIDE DEF d
    <3>3. IsCore(d) BY <3>1 DEF IsCore
    <3>4. Executed(d) BY <3>2, <3>3, <1>ok DEF Executed, CoreOK, NvicOK
    <3> QED BY <2>2, <3>4 DEF d
  <2>3. CASE Finish([Fetched EXCEPT !.pend = @ \ {e}])
    <3> DEFINE d == [Fetched EXCEPT !.pend = @ \ {e}]
    <3>1. d \in [Fields -> V \cup {Fetched.pend \ {e}}] BY <1>v, FieldsAre
    <3>2. /\ d.pend = core.pend \ {e} /\ d.ena = core.ena /\ d.prio = core.prio
          /\ d.primask = core.primask /\ d.basepri = core.basepri /\ d.ipsr = core.ipsr
          /\ d.hist = core.hist /\ d.updated = FALSE /\ d.waiting = FALSE
      BY <1>v, <1>f, FieldsAre
    <3> HIDE DEF d
    <3>3. IsCore(d) BY <3>1 DEF IsCore
    <3>4. Executed(d) BY <3>2, <3>3, <1>ok DEF Executed, CoreOK, NvicOK
    <3> QED BY <2>3, <3>4 DEF d
  <2> QED BY <2>1, <2>2, <2>3
<1>11. CASE SVC
  <2> DEFINE d == [Fetched EXCEPT !.pend = @ \cup {EXC_SVCALL}, !.updated = TRUE]
  <2>1. Finish(d) /\ EXC_SVCALL \in SysExc BY <1>11 DEF SVC
  <2>2. d \in [Fields -> V \cup {Fetched.pend \cup {EXC_SVCALL}, TRUE}] BY <1>v, FieldsAre
  <2>3. /\ d.pend = core.pend \cup {EXC_SVCALL} /\ d.prio = core.prio /\ d.basepri = core.basepri
        /\ d.hist = core.hist /\ d.updated = TRUE /\ d.waiting = FALSE
    BY <1>v, <1>f, FieldsAre
  <2> HIDE DEF d
  <2>4. IsCore(d) BY <2>2 DEF IsCore
  <2>5. Executed(d) BY <2>1, <2>3, <2>4, <1>ok DEF Executed, CoreOK, NvicOK
  <2> QED BY <2>1, <2>5
<1>12. CASE WFI
  <2> DEFINE d == [Fetched EXCEPT !.waiting = TRUE]
  <2>1. Finish(d) BY <1>12 DEF WFI
  <2>2. d \in [Fields -> V \cup {TRUE}] BY <1>v, FieldsAre
  <2>3. /\ d.pend = core.pend /\ d.ena = core.ena /\ d.prio = core.prio /\ d.primask = core.primask
        /\ d.basepri = core.basepri /\ d.ipsr = core.ipsr /\ d.hist = core.hist /\ d.updated = FALSE /\ d.waiting = TRUE
    BY <1>v, <1>f, <1>ok, FieldsAre, ConstantsAre DEF NvicOK
  <2> HIDE DEF d
  <2>4. IsCore(d) BY <2>2 DEF IsCore
  <2>5. Executed(d) BY <2>3, <2>4, <1>f, <1>ok, ConstantsAre DEF Executed, CoreOK, NvicOK
  <2> QED BY <2>1, <2>5 DEF d
<1>13. CASE WFE
  <2> DEFINE d == IF core.event THEN [Fetched EXCEPT !.event = FALSE]
                  ELSE [Fetched EXCEPT !.waiting = TRUE]
  <2>1. Finish(d) BY <1>13 DEF WFE
  <2>2. d \in [Fields -> V \cup {FALSE, TRUE}] BY <1>v, FieldsAre
  <2>3. /\ d.pend = core.pend /\ d.ena = core.ena /\ d.prio = core.prio
        /\ d.primask = core.primask /\ d.basepri = core.basepri /\ d.ipsr = core.ipsr
        /\ d.hist = core.hist /\ d.updated = FALSE /\ d.waiting \in BOOLEAN
    BY <1>v, <1>f, FieldsAre
  <2> HIDE DEF d
  <2>4. IsCore(d) BY <2>2 DEF IsCore
  <2>5. Executed(d) BY <2>3, <2>4, <1>ok DEF Executed, CoreOK, NvicOK
  <2> QED BY <2>1, <2>5
<1>14. CASE Push
  <2> DEFINE d == [Fetched EXCEPT !.r13 = @ + 1]
  <2>1. Finish(d) BY <1>14 DEF Push
  <2>2. d \in [Fields -> V \cup {Fetched.r13 + 1}] BY <1>v, FieldsAre
  <2>3. /\ d.pend = core.pend /\ d.ena = core.ena /\ d.prio = core.prio /\ d.primask = core.primask
        /\ d.basepri = core.basepri /\ d.ipsr = core.ipsr /\ d.hist = core.hist /\ d.updated = FALSE /\ d.waiting = FALSE
    BY <1>v, <1>f, <1>ok, FieldsAre, ConstantsAre DEF NvicOK
  <2> HIDE DEF d
  <2>4. IsCore(d) BY <2>2 DEF IsCore
  <2>5. Executed(d) BY <2>3, <2>4, <1>f, <1>ok, ConstantsAre DEF Executed, CoreOK, NvicOK
  <2> QED BY <2>1, <2>5 DEF d
<1>15. CASE Pop
  <2> DEFINE d == [Fetched EXCEPT !.r13 = @ - 1]
  <2>1. Finish(d) BY <1>15 DEF Pop
  <2>2. d \in [Fields -> V \cup {Fetched.r13 - 1}] BY <1>v, FieldsAre
  <2>3. /\ d.pend = core.pend /\ d.ena = core.ena /\ d.prio = core.prio /\ d.primask = core.primask
        /\ d.basepri = core.basepri /\ d.ipsr = core.ipsr /\ d.hist = core.hist /\ d.updated = FALSE /\ d.waiting = FALSE
    BY <1>v, <1>f, <1>ok, FieldsAre, ConstantsAre DEF NvicOK
  <2> HIDE DEF d
  <2>4. IsCore(d) BY <2>2 DEF IsCore
  <2>5. Executed(d) BY <2>3, <2>4, <1>f, <1>ok, ConstantsAre DEF Executed, CoreOK, NvicOK
  <2> QED BY <2>1, <2>5 DEF d
<1>16. CASE WriteControl
  <2>1. PICK b \in BOOLEAN : Finish(SyncFromBanked([SyncToBanked(Fetched) EXCEPT !.spsel = b]))
    BY <1>16 DEF WriteControl
  <2> DEFINE s == SyncToBanked(Fetched)
             d == SyncFromBanked([s EXCEPT !.spsel = b])
  <2>2. /\ IsCore(s) /\ SameNVIC(Fetched, s) /\ s.ipsr = Fetched.ipsr /\ s.hist = Fetched.hist
    BY <1>f, SyncedToBanked
  <2> HIDE DEF s
  <2>3. PICK U : s \in [Fields -> U] BY <2>2 DEF IsCore
  <2> DEFINE t == [s EXCEPT !.spsel = b]
  <2>4. t \in [Fields -> U \cup {b}] BY <2>3, FieldsAre
  <2>5. SameNVIC(s, t) /\ t.ipsr = s.ipsr /\ t.hist = s.hist BY <2>3, FieldsAre DEF SameNVIC
  <2>6. IsCore(t) BY <2>4 DEF IsCore
  <2>7. d = SyncFromBanked(t) OBVIOUS
  <2> HIDE DEF d, t
  <2>8. IsCore(d) /\ SameNVIC(t, d) /\ d.ipsr = t.ipsr /\ d.hist = t.hist
    BY <2>6, <2>7, SyncedFromBanked
  <2>9. SameNVIC(Fetched, d) /\ d.ipsr = core.ipsr /\ d.hist = core.hist
    BY <1>f, <2>2, <2>5, <2>8 DEF SameNVIC
  <2>10. Executed(d) BY <2>8, <2>9, <1>f, <1>ok DEF Executed, CoreOK, SameNVIC, NvicOK
  <2> QED BY <2>1, <2>10 DEF d, s
<1>17. CASE FPU
  <2> DEFINE d == [Fetched EXCEPT !.fault = ~core.cpacr]
  <2>1. Finish(d) BY <1>17 DEF FPU
  <2>2. d \in [Fields -> V \cup {~core.cpacr}] BY <1>v, FieldsAre
  <2>3. /\ d.pend = core.pend /\ d.ena = core.ena /\ d.prio = core.prio /\ d.primask = core.primask
        /\ d.basepri = core.basepri /\ d.ipsr = core.ipsr /\ d.hist = core.hist /\ d.updated = FALSE /\ d.waiting = FALSE
    BY <1>v, <1>f, <1>ok, FieldsAre, ConstantsAre DEF NvicOK
  <2> HIDE DEF d
  <2>4. IsCore(d) BY <2>2 DEF IsCore
  <2>5. Executed(d) BY <2>3, <2>4, <1>f, <1>ok, ConstantsAre DEF Executed, CoreOK, NvicOK
  <2> QED BY <2>1, <2>5 DEF d
<1>18. CASE WriteCPACR
  <2> DEFINE d == [Fetched EXCEPT !.cpacr = TRUE]
  <2>1. Finish(d) BY <1>18 DEF WriteCPACR
  <2>2. d \in [Fields -> V \cup {TRUE}] BY <1>v, FieldsAre
  <2>3. /\ d.pend = core.pend /\ d.ena = core.ena /\ d.prio = core.prio /\ d.primask = core.primask
        /\ d.basepri = core.basepri /\ d.ipsr = core.ipsr /\ d.hist = core.hist /\ d.updated = FALSE /\ d.waiting = FALSE
    BY <1>v, <1>f, <1>ok, FieldsAre, ConstantsAre DEF NvicOK
  <2> HIDE DEF d
  <2>4. IsCore(d) BY <2>2 DEF IsCore
  <2>5. Executed(d) BY <2>3, <2>4, <1>f, <1>ok, ConstantsAre DEF Executed, CoreOK, NvicOK
  <2> QED BY <2>1, <2>5 DEF d
<1>19. CASE Return
  <2> DEFINE d == ExceptionReturn(Fetched, core.lr)
  <2>1. Finish(d) BY <1>19 DEF Return
  <2>2. IsCore(d) /\ SameNVIC([Fetched EXCEPT !.updated = TRUE], d) /\ d.hist = Front(Fetched.hist)
    BY <1>f, Returned
  <2> HIDE DEF d
  <2>3. /\ d.pend = core.pend /\ d.prio = core.prio /\ d.basepri = core.basepri
        /\ d.updated = TRUE /\ d.waiting = FALSE
    BY <1>v, <1>f, <2>2, FieldsAre DEF SameNVIC
  <2>4. \E S : d.hist \in Seq(S)
    <3>1. PICK S : core.hist \in Seq(S) BY <1>ok
    <3>2. Front(core.hist) \in Seq(S) BY <3>1 DEF Front
    <3> QED BY <3>2, <2>2, <1>f
  <2>5. Executed(d) BY <2>2, <2>3, <2>4, <1>ok DEF Executed, CoreOK, NvicOK
  <2> QED BY <2>1, <2>5
<1> QED BY <1>1, <1>2, <1>3, <1>4, <1>5, <1>6, <1>7, <1>8, <1>9, <1>10, <1>11, <1>12, <1>13, <1>14, <1>15, <1>16, <1>17, <1>18, <1>19 DEF Instruction

LEMMA Appended ==
  ASSUME NEW h, NEW x, \E S : h \in Seq(S)
  PROVE  (\E S : Append(h, x) \in Seq(S)) /\ Len(Append(h, x)) = Len(h) + 1
<1>1. PICK S : h \in Seq(S) OBVIOUS
<1>2. h \in Seq(S \cup {x}) /\ Len(h) \in Nat BY <1>1
<1>3. Append(h, x) \in Seq(S \cup {x}) /\ Len(Append(h, x)) = Len(h) + 1 BY <1>2
<1> QED BY <1>3

LEMMA DeliveredOK ==
  ASSUME NEW c, NEW ret, NEW d, CoreOK(c), d = DeliverFault(c, ret)
  PROVE  CoreOK(d) /\ SameNVIC(c, d) /\ FaultTaken(c, d)
<1>1. IsCore(d) /\ SameNVIC(c, d) /\ FaultTaken(c, d) BY Delivered DEF CoreOK
<1>2. NvicOK(d) BY <1>1, NvicStays DEF CoreOK
<1>3. \E S : d.hist \in Seq(S) BY <1>1, Appended DEF CoreOK, FaultTaken
<1> QED BY <1>1, <1>2, <1>3 DEF CoreOK

\* The end of an instruction: the IT state advances, and a fault is delivered.
LEMMA Finished ==
  ASSUME NEW d, CoreOK(d), Finish(d)
  PROVE  /\ CoreOK(core')
         /\ \E a : /\ SameNVIC(d, a) /\ a.ipsr = d.ipsr /\ a.hist = d.hist
                   /\ SameNVIC(a, core') /\ FaultTaken(a, core') /\ NvicOK(a)
<1> DEFINE a == IF core.it # 0 THEN [d EXCEPT !.it = AdvanceIT(@)] ELSE d
<1>1. core' = DeliverFault(a, core.pc) BY DEF Finish
<1>2. PICK V : d \in [Fields -> V] BY DEF CoreOK, IsCore
<1>3. a \in [Fields -> V \cup {AdvanceIT(d.it)}] BY <1>2, FieldsAre
<1>4. SameNVIC(d, a) /\ a.ipsr = d.ipsr /\ a.hist = d.hist BY <1>2, FieldsAre DEF SameNVIC
<1> HIDE DEF a
<1>5. CoreOK(a) BY <1>3, <1>4, NvicStays DEF CoreOK, IsCore
<1>6. CoreOK(core') /\ SameNVIC(a, core') /\ FaultTaken(a, core') BY <1>1, <1>5, DeliveredOK
<1> QED BY <1>4, <1>5, <1>6 DEF CoreOK

\* A check enters the exception it chose, or clears the flag.
Found(c, d) ==
  /\ d.pend = c.pend \ {Chosen(c)} /\ d.ena = c.ena /\ d.prio = c.prio
  /\ d.primask = c.primask /\ d.basepri = c.basepri
  /\ d.waiting = c.waiting /\ d.updated = c.updated
  /\ \/ Chosen(c) = EXC_HARDFAULT
     \/ d.ipsr = c.ipsr /\ d.fault = TRUE /\ d.hist = c.hist
     \/ d.ipsr = Chosen(c) /\ \E x : d.hist = Append(c.hist, x)

LEMMA Checked ==
  ASSUME NEW c, CoreOK(c)
  PROVE  LET d == CheckForInterrupts(c)
         IN  /\ CoreOK(d)
             /\ Takeable(c) = {} =>
                  /\ d.pend = c.pend /\ d.ena = c.ena /\ d.prio = c.prio
                  /\ d.primask = c.primask /\ d.basepri = c.basepri /\ d.ipsr = c.ipsr
                  /\ d.waiting = c.waiting /\ d.updated = FALSE
             /\ Takeable(c) # {} => Found(c, d)
<1> DEFINE d == CheckForInterrupts(c)
           e == Chosen(c)
<1>1. PICK V : c \in [Fields -> V] BY DEF CoreOK, IsCore
<1>2. CASE Takeable(c) = {}
  <2>1. d = [c EXCEPT !.updated = FALSE] BY <1>2 DEF CheckForInterrupts
  <2> HIDE DEF d
  <2>2. d \in [Fields -> V \cup {FALSE}] BY <1>1, <2>1, FieldsAre
  <2>3. /\ d.pend = c.pend /\ d.ena = c.ena /\ d.prio = c.prio
        /\ d.primask = c.primask /\ d.basepri = c.basepri /\ d.ipsr = c.ipsr
        /\ d.waiting = c.waiting /\ d.updated = FALSE /\ d.hist = c.hist
    BY <1>1, <2>1, FieldsAre
  <2>4. CoreOK(d) BY <2>2, <2>3 DEF CoreOK, IsCore, NvicOK
  <2> QED BY <1>2, <2>3, <2>4 DEF d
<1>3. CASE Takeable(c) # {}
  <2> DEFINE b == [c EXCEPT !.pend = @ \ {e}]
  <2>1. d = ExceptionEntry(b, e, c.pc) BY <1>3 DEF CheckForInterrupts
  <2> HIDE DEF d, e
  <2>2. b \in [Fields -> V \cup {c.pend \ {e}}] BY <1>1, FieldsAre
  <2>3. /\ b.pend = c.pend \ {e} /\ b.ena = c.ena /\ b.prio = c.prio
        /\ b.primask = c.primask /\ b.basepri = c.basepri /\ b.ipsr = c.ipsr
        /\ b.waiting = c.waiting /\ b.updated = c.updated /\ b.hist = c.hist
    BY <1>1, FieldsAre
  <2> HIDE DEF b
  <2>4. IsCore(b) BY <2>2 DEF IsCore
  <2>5. IsCore(d) /\ SameNVIC(b, d) /\ Entered(b, e, d) BY <2>1, <2>4, Entry
  <2>6. /\ d.pend = c.pend \ {e} /\ d.ena = c.ena /\ d.prio = c.prio
        /\ d.primask = c.primask /\ d.basepri = c.basepri
        /\ d.waiting = c.waiting /\ d.updated = c.updated
    BY <2>3, <2>5 DEF SameNVIC
  <2>7. \/ e = EXC_HARDFAULT /\ d.hist = c.hist
        \/ d.ipsr = c.ipsr /\ d.fault = TRUE /\ d.hist = c.hist
        \/ d.ipsr = e /\ \E x : d.hist = Append(c.hist, x)
    BY <2>3, <2>5 DEF Entered
  <2>8. \E S : d.hist \in Seq(S) BY <2>7, Appended DEF CoreOK
  <2>9. NvicOK(d) BY <2>6 DEF CoreOK, NvicOK
  <2>10. CoreOK(d) BY <2>5, <2>8, <2>9 DEF CoreOK
  <2>11. Found(c, d) BY <2>6, <2>7 DEF Found, e
  <2> QED BY <1>3, <2>10, <2>11 DEF d
<1> QED BY <1>2, <1>3

-----------------------------------------------------------------------------
(* What is outside the core *)

\* A line that falls, or rises: a sleeping core looks at once.
LEMMA LineMoves ==
  ASSUME CoreOK(core), NEW i \in Irq, NEW v \in BOOLEAN, core' = SetInterrupt(core, i, v)
  PROVE  /\ CoreOK(core')
         /\ \/ core' = core
            \/ /\ core'.pend = core.pend \ {i} /\ core'.ena = core.ena
               /\ core'.prio = core.prio /\ core'.primask = core.primask
               /\ core'.basepri = core.basepri /\ core'.ipsr = core.ipsr
               /\ core'.waiting = core.waiting /\ core'.updated = core.updated
               /\ core'.hist = core.hist /\ core'.fault = core.fault
            \/ core.pend \subseteq core'.pend /\ core'.waiting = FALSE /\ core'.updated = TRUE
            \/ core.pend \subseteq core'.pend /\ Takeable(core') = {}
            \/ /\ core'.waiting = FALSE /\ core'.updated = TRUE
               /\ \E d, e : /\ CoreOK(d) /\ d.pend = core.pend \cup {i} /\ d.hist = core.hist
                            /\ Found(d, e) /\ Takeable(d) # {}
                            /\ core'.pend = e.pend /\ core'.ipsr = e.ipsr
                            /\ core'.hist = e.hist /\ core'.fault = e.fault
<1> DEFINE d == [core EXCEPT !.pend = @ \cup {i}, !.updated = TRUE]
<1>1. PICK V : core \in [Fields -> V] BY DEF CoreOK, IsCore
<1>2. CASE ~v
  <2>1. core' = [core EXCEPT !.pend = @ \ {i}] BY <1>2 DEF SetInterrupt
  <2>2. core' \in [Fields -> V \cup {core.pend \ {i}}] BY <1>1, <2>1, FieldsAre
  <2>3. /\ core'.pend = core.pend \ {i} /\ core'.ena = core.ena
        /\ core'.prio = core.prio /\ core'.primask = core.primask
        /\ core'.basepri = core.basepri /\ core'.ipsr = core.ipsr
        /\ core'.waiting = core.waiting /\ core'.updated = core.updated
        /\ core'.hist = core.hist /\ core'.fault = core.fault
    BY <1>1, <2>1, FieldsAre
  <2>4. CoreOK(core') BY <2>2, <2>3 DEF CoreOK, IsCore, NvicOK
  <2> QED BY <2>3, <2>4
<1>3. CASE v /\ i \in core.pend BY <1>3 DEF SetInterrupt
<1>4. CASE v /\ i \notin core.pend
  <2>1. d \in [Fields -> V \cup {core.pend \cup {i}, TRUE}] BY <1>1, FieldsAre
  <2>2. /\ d.pend = core.pend \cup {i} /\ d.ena = core.ena /\ d.prio = core.prio
        /\ d.primask = core.primask /\ d.basepri = core.basepri /\ d.ipsr = core.ipsr
        /\ d.waiting = core.waiting /\ d.updated = TRUE /\ d.hist = core.hist
    BY <1>1, FieldsAre
  <2>3. core' = IF ~d.waiting THEN d
                ELSE [CheckForInterrupts(d) EXCEPT !.waiting = Takeable(d) = {}]
    BY <1>4 DEF SetInterrupt
  <2> HIDE DEF d
  <2>4. CoreOK(d) BY <2>1, <2>2 DEF CoreOK, IsCore, NvicOK
  <2>5. CASE ~d.waiting BY <2>2, <2>3, <2>4, <2>5 DEF CoreOK, NvicOK
  <2>6. CASE d.waiting
    <3> DEFINE e == CheckForInterrupts(d)
               asleep == Takeable(d) = {}
    <3>1. /\ CoreOK(e)
          /\ Takeable(d) = {} =>
               /\ e.pend = d.pend /\ e.ena = d.ena /\ e.prio = d.prio
               /\ e.primask = d.primask /\ e.basepri = d.basepri /\ e.ipsr = d.ipsr
               /\ e.waiting = d.waiting /\ e.updated = FALSE
          /\ Takeable(d) # {} => Found(d, e)
      BY <2>4, Checked
    <3>2. core' = [e EXCEPT !.waiting = asleep] BY <2>3, <2>6
    <3>3. asleep \in BOOLEAN /\ (asleep <=> Takeable(d) = {}) OBVIOUS
    <3> HIDE DEF e, asleep
    <3>4. PICK U : e \in [Fields -> U] BY <3>1 DEF CoreOK, IsCore
    <3>5. core' \in [Fields -> U \cup {asleep}] BY <3>2, <3>4, FieldsAre
    <3>6. /\ core'.pend = e.pend /\ core'.ena = e.ena /\ core'.prio = e.prio
          /\ core'.primask = e.primask /\ core'.basepri = e.basepri /\ core'.ipsr = e.ipsr
          /\ core'.waiting = asleep /\ core'.updated = e.updated /\ core'.hist = e.hist
          /\ core'.fault = e.fault
      BY <3>2, <3>4, FieldsAre
    <3>7. CoreOK(core') BY <3>1, <3>3, <3>5, <3>6 DEF CoreOK, IsCore, NvicOK
    <3>8. CASE Takeable(d) = {}
      <4>1. Takeable(core') \subseteq Takeable(d) BY <3>1, <3>6, <3>8, TakeableShrinks
      <4> QED BY <2>2, <3>1, <3>6, <3>7, <3>8, <4>1
    <3>9. CASE Takeable(d) # {}
      <4>1. Found(d, e) BY <3>1, <3>9
      <4>2. core'.waiting = FALSE /\ core'.updated = TRUE
        BY <2>2, <3>3, <3>6, <3>9, <4>1 DEF Found
      <4> QED BY <2>2, <2>4, <3>6, <3>7, <3>9, <4>1, <4>2
    <3> QED BY <3>8, <3>9
  <2> QED BY <2>5, <2>6
<1> QED BY <1>2, <1>3, <1>4

\* SysTick and the SEV of the other core.
LEMMA SignalArrives ==
  ASSUME CoreOK(core), SysTick \/ OtherCoreSEV
  PROVE  /\ CoreOK(core') /\ core.pend \subseteq core'.pend
         /\ \/ core'.updated = TRUE /\ core'.waiting = core.waiting /\ core'.ena = core.ena
               /\ core'.pend \subseteq core.pend \cup {EXC_SYSTICK} /\ core'.prio = core.prio
               /\ core'.primask = core.primask /\ core'.basepri = core.basepri
               /\ core'.ipsr = core.ipsr
            \/ core'.updated = core.updated /\ core'.waiting = FALSE /\ core'.ena = core.ena
               /\ core'.pend = core.pend /\ core'.prio = core.prio
               /\ core'.primask = core.primask /\ core'.basepri = core.basepri
               /\ core'.ipsr = core.ipsr
<1>1. PICK V : core \in [Fields -> V] BY DEF CoreOK, IsCore
<1>2. CASE SysTick
  <2>1. /\ EXC_SYSTICK \in SysExc
        /\ core' = [core EXCEPT !.pend = @ \cup {EXC_SYSTICK}, !.updated = TRUE]
    BY <1>2 DEF SysTick
  <2>2. core' \in [Fields -> V \cup {core.pend \cup {EXC_SYSTICK}, TRUE}]
    BY <1>1, <2>1, FieldsAre
  <2>3. /\ core'.pend = core.pend \cup {EXC_SYSTICK} /\ core'.ena = core.ena
        /\ core'.prio = core.prio /\ core'.primask = core.primask
        /\ core'.basepri = core.basepri /\ core'.ipsr = core.ipsr
        /\ core'.waiting = core.waiting /\ core'.updated = TRUE /\ core'.hist = core.hist
    BY <1>1, <2>1, FieldsAre
  <2>4. CoreOK(core') BY <2>1, <2>2, <2>3, ZenonT(30) DEF CoreOK, IsCore, NvicOK
  <2> QED BY <2>3, <2>4
<1>3. CASE OtherCoreSEV
  <2>1. core' \in [Fields -> V \cup {FALSE, TRUE}] BY <1>1, <1>3, FieldsAre DEF OtherCoreSEV
  <2>2. /\ core'.pend = core.pend /\ core'.ena = core.ena
        /\ core'.prio = core.prio /\ core'.primask = core.primask
        /\ core'.basepri = core.basepri /\ core'.ipsr = core.ipsr
        /\ core'.updated = core.updated /\ core'.hist = core.hist
    BY <1>1, <1>3, FieldsAre DEF OtherCoreSEV
  <2>3. core'.waiting = FALSE
    <3>1. CASE core.waiting BY <1>1, <1>3, <3>1, FieldsAre DEF OtherCoreSEV
    <3>2. CASE ~core.waiting
      BY <1>1, <1>3, <3>2, FieldsAre DEF OtherCoreSEV, CoreOK, NvicOK
    <3> QED BY <3>1, <3>2
  <2>4. CoreOK(core') BY <2>1, <2>2, <2>3 DEF CoreOK, IsCore, NvicOK
  <2> QED BY <2>2, <2>3, <2>4
<1> QED BY <1>2, <1>3

\* An exception is taken, and with it the overflow it may have met.
LEMMA ExceptionTaken ==
  ASSUME CoreOK(core), TakeException
  PROVE  /\ CoreOK(core') /\ core.waiting = FALSE /\ core.updated = TRUE
         /\ \E d : Found(core, d) /\ SameNVIC(d, core') /\ FaultTaken(d, core')
<1> DEFINE d == CheckForInterrupts(core)
<1>1. ~core.waiting /\ core.updated /\ Takeable(core) # {} /\ core' = DeliverFault(d, d.pc)
  BY DEF TakeException, TakesException
<1>2. CoreOK(d) /\ Found(core, d) BY <1>1, Checked
<1> HIDE DEF d
<1>3. CoreOK(core') /\ SameNVIC(d, core') /\ FaultTaken(d, core') BY <1>1, <1>2, DeliveredOK
<1> QED BY <1>1, <1>2, <1>3 DEF CoreOK, NvicOK

LEMMA CoreInit == Init => CoreOK(core)
<1> SUFFICES ASSUME Init PROVE CoreOK(core) OBVIOUS
<1> DEFINE W == {core[f] : f \in Fields}
<1>1. core \in [Fields -> W] BY DEF Init, Fields
<1>2. /\ core.pend = {} /\ core.prio \in [Irq -> 0 .. 7] /\ core.basepri = 8
      /\ core.waiting = FALSE /\ core.updated = FALSE /\ core.hist = <<>>
  BY DEF Init, Unmasked
<1>3. IsCore(core) BY <1>1 DEF IsCore
<1>4. NvicOK(core)
  <2>1. core.pend \subseteq Irq \cup SysExc /\ core.basepri \in 1 .. 8 BY <1>2
  <2>2. core.waiting \in BOOLEAN /\ core.updated \in BOOLEAN BY <1>2
  <2> QED BY <1>2, <2>1, <2>2 DEF NvicOK
<1>5. core.hist \in Seq({}) BY <1>2
<1> QED BY <1>3, <1>4, <1>5 DEF CoreOK

LEMMA CoreStep == CoreOK(core) /\ [Next]_core => CoreOK(core')
<1> SUFFICES ASSUME CoreOK(core), [Next]_core PROVE CoreOK(core') OBVIOUS
<1>1. CASE Line BY <1>1, LineMoves DEF Line
<1>2. CASE SysTick \/ OtherCoreSEV BY <1>2, SignalArrives
<1>3. CASE TakeException BY <1>3, ExceptionTaken
<1>4. CASE Instruction
  <2>1. PICK d : Executed(d) /\ Finish(d) BY <1>4, InstructionRuns
  <2> QED BY <2>1, Finished DEF Executed
<1>5. CASE UNCHANGED core BY <1>5
<1> QED BY <1>1, <1>2, <1>3, <1>4, <1>5 DEF Next

-----------------------------------------------------------------------------
(* No interrupt is missed *)

\* The invariant: what NoMissedInterrupt says of a running core holds of a
\* sleeping one as well, for SEV may wake it at any time.
MissedInv ==
  /\ CoreOK(core)
  /\ Takeable(core) # {} => core.updated = TRUE
  /\ core.waiting = TRUE => Takeable(core) \cap Irq = {}

\* A fault is more urgent than everything in use.
FaultsOnTop == ~UsageFaultEna /\ EXC_NMI \notin SysExc

LEMMA MissedInit == Init => MissedInv
<1> SUFFICES ASSUME Init PROVE MissedInv OBVIOUS
<1>1. core.pend = {} BY DEF Init
<1> QED BY <1>1, CoreInit DEF MissedInv, Takeable

\* A core that asks for a check and runs, or can take nothing, stays so when a
\* fault is delivered.
LEMMA FaultHidesNothing ==
  ASSUME FaultsOnTop, NEW a, NEW d, NvicOK(a), SameNVIC(a, d), FaultTaken(a, d),
         Takeable(a) = {}
  PROVE  Takeable(d) = {}
<1>1. CASE d.ipsr = a.ipsr BY <1>1, TakeableSame
<1>2. CASE d.ipsr # a.ipsr
  <2>1. d.ipsr = EXC_HARDFAULT BY <1>2 DEF FaultTaken, FaultsOnTop
  <2> QED BY <2>1, NvicStays, HardFaultIsTop DEF FaultsOnTop
<1> QED BY <1>1, <1>2

LEMMA MissedStep == FaultsOnTop /\ MissedInv /\ [Next]_core => MissedInv'
<1> SUFFICES ASSUME FaultsOnTop, MissedInv, [Next]_core PROVE MissedInv' OBVIOUS
<1>0. CoreOK(core) /\ CoreOK(core') BY CoreStep DEF MissedInv
<1> SUFFICES /\ Takeable(core') # {} => core'.updated = TRUE
             /\ core'.waiting = TRUE => Takeable(core') \cap Irq = {}
  BY <1>0 DEF MissedInv
<1>1. CASE Line
  <2>1. PICK i \in Irq, v \in BOOLEAN : core' = SetInterrupt(core, i, v) BY <1>1 DEF Line
  <2>2. \/ core' = core
        \/ /\ core'.pend = core.pend \ {i} /\ core'.ena = core.ena
           /\ core'.prio = core.prio /\ core'.primask = core.primask
           /\ core'.basepri = core.basepri /\ core'.ipsr = core.ipsr
           /\ core'.waiting = core.waiting /\ core'.updated = core.updated
        \/ core'.waiting = FALSE /\ core'.updated = TRUE
        \/ Takeable(core') = {}
    BY <2>1, <1>0, LineMoves
  <2>3. CASE core' = core BY <2>3 DEF MissedInv
  <2>4. CASE /\ core'.pend = core.pend \ {i} /\ core'.ena = core.ena
             /\ core'.prio = core.prio /\ core'.primask = core.primask
             /\ core'.basepri = core.basepri /\ core'.ipsr = core.ipsr
             /\ core'.waiting = core.waiting /\ core'.updated = core.updated
    <3>1. Takeable(core') \subseteq Takeable(core) BY <2>4, TakeableShrinks
    <3> QED BY <2>4, <3>1 DEF MissedInv
  <2> QED BY <2>2, <2>3, <2>4
<1>2. CASE SysTick \/ OtherCoreSEV
  <2>1. CASE /\ core'.updated = TRUE /\ core'.waiting = core.waiting /\ core'.ena = core.ena
             /\ core'.pend \subseteq core.pend \cup {EXC_SYSTICK} /\ core'.prio = core.prio
             /\ core'.primask = core.primask /\ core'.basepri = core.basepri
             /\ core'.ipsr = core.ipsr
    <3>1. Takeable(core') \cap Irq \subseteq Takeable(core)
      <4>1. CurrentPriority(core') = CurrentPriority(core)
        BY <2>1 DEF CurrentPriority, ExceptionPriority
      <4>2. \A e : ExceptionPriority(core', e) = ExceptionPriority(core, e)
        BY <2>1 DEF ExceptionPriority
      <4>3. EXC_SYSTICK \notin Irq BY ConstantsAre DEF EXC_SYSTICK
      <4> QED BY <2>1, <4>1, <4>2, <4>3 DEF Takeable
    <3> QED BY <2>1, <3>1 DEF MissedInv
  <2>2. CASE /\ core'.updated = core.updated /\ core'.waiting = FALSE /\ core'.ena = core.ena
             /\ core'.pend = core.pend /\ core'.prio = core.prio
             /\ core'.primask = core.primask /\ core'.basepri = core.basepri
             /\ core'.ipsr = core.ipsr
    <3>1. Takeable(core') \subseteq Takeable(core) BY <2>2, TakeableShrinks
    <3> QED BY <2>2, <3>1 DEF MissedInv
  <2> QED BY <1>0, <1>2, <2>1, <2>2, SignalArrives
<1>3. CASE TakeException
  BY <1>0, <1>3, ExceptionTaken DEF Found, SameNVIC
<1>4. CASE Instruction
  <2>1. PICK d : Executed(d) /\ Finish(d) BY <1>0, <1>4, InstructionRuns
  <2>2. PICK a : /\ SameNVIC(d, a) /\ a.ipsr = d.ipsr
                 /\ SameNVIC(a, core') /\ FaultTaken(a, core') /\ NvicOK(a)
    BY <2>1, Finished DEF Executed
  <2>3. CASE d.updated = TRUE /\ d.waiting = FALSE BY <2>2, <2>3 DEF SameNVIC
  <2>4. CASE /\ d.pend \subseteq core.pend /\ d.ena \subseteq core.ena /\ d.prio = core.prio
             /\ d.primask = core.primask /\ d.basepri = core.basepri /\ d.ipsr = core.ipsr
    <3>1. Takeable(core) = {}
      BY <1>0, <1>4, InstructionRuns DEF TakesException, MissedInv
    <3>2. Takeable(d) = {} BY <2>4, <3>1, TakeableShrinks
    <3>3. Takeable(a) = {} BY <2>2, <3>2, TakeableSame
    <3>4. Takeable(core') = {} BY <2>2, <3>3, FaultHidesNothing
    <3> QED BY <3>4
  <2> QED BY <2>1, <2>3, <2>4 DEF Executed
<1>5. CASE UNCHANGED core BY <1>5 DEF MissedInv
<1> QED BY <1>1, <1>2, <1>3, <1>4, <1>5 DEF Next

\* A running core on which an exception can be taken looks for it before the
\* next instruction, and no core sleeps while an interrupt it would take is
\* pending - where HardFault takes every fault and no NMI is in use, so that
\* the entry of a fault handler, which asks for no check, leaves nothing to take.
THEOREM NoInterruptMissed == FaultsOnTop /\ Spec => []NoMissedInterrupt
<1> SUFFICES ASSUME FaultsOnTop PROVE Spec => []NoMissedInterrupt OBVIOUS
<1>1. Init => MissedInv BY MissedInit
<1>2. MissedInv /\ [Next]_core => MissedInv' BY MissedStep
<1>3. MissedInv => NoMissedInterrupt BY DEF MissedInv, NoMissedInterrupt, CoreOK, NvicOK
<1> QED BY <1>1, <1>2, <1>3, PTL DEF Spec

-----------------------------------------------------------------------------
(* No interrupt is lost *)

\* What an exception leaves when it was found, and a fault delivered after it.
LEMMA FoundIsEntered ==
  ASSUME NEW c, NEW d, NEW z, NEW i, CoreOK(c), Found(c, d), FaultTaken(d, z),
         i \in c.pend, i \notin z.pend, SameNVIC(d, z)
  PROVE  \/ z.ipsr = i /\ Len(z.hist) = Len(c.hist) + 1
         \/ z.fault \/ z.ipsr \in {EXC_USAGEFAULT, EXC_HARDFAULT}
<1>1. i = Chosen(c) BY DEF Found, SameNVIC
<1>2. i # EXC_HARDFAULT
  BY ConstantsAre DEF CoreOK, NvicOK, EXC_HARDFAULT
<1>3. CASE z = d
  <2>1. CASE d.fault = TRUE BY <1>3, <2>1
  <2>2. CASE d.ipsr = i /\ \E x : d.hist = Append(c.hist, x)
    BY <1>3, <2>2, Appended DEF CoreOK
  <2> QED BY <1>1, <1>2, <2>1, <2>2 DEF Found
<1> QED BY <1>3 DEF FaultTaken

LEMMA LostStep ==
  ASSUME CoreOK(core), [Next]_core, NEW i \in core.pend \ core'.pend
  PROVE  \/ core'.ipsr = i /\ Len(core'.hist) = Len(core.hist) + 1
         \/ core'.hist = core.hist /\ ~core'.fault
         \/ core'.fault \/ core'.ipsr \in {EXC_USAGEFAULT, EXC_HARDFAULT}
<1>1. CASE Line
  <2>1. PICK k \in Irq, v \in BOOLEAN : core' = SetInterrupt(core, k, v) BY <1>1 DEF Line
  <2>2. CASE core'.hist = core.hist BY <2>2
  <2>3. CASE \E d, e : /\ CoreOK(d) /\ d.pend = core.pend \cup {k} /\ d.hist = core.hist
                       /\ Found(d, e)
                       /\ core'.pend = e.pend /\ core'.ipsr = e.ipsr
                       /\ core'.hist = e.hist /\ core'.fault = e.fault
    <3>1. PICK d, e : /\ CoreOK(d) /\ d.pend = core.pend \cup {k} /\ d.hist = core.hist
                      /\ Found(d, e)
                      /\ core'.pend = e.pend /\ core'.ipsr = e.ipsr
                      /\ core'.hist = e.hist /\ core'.fault = e.fault
      BY <2>3
    <3>2. i = Chosen(d) BY <3>1 DEF Found
    <3>3. i # EXC_HARDFAULT BY ConstantsAre DEF CoreOK, NvicOK, EXC_HARDFAULT
    <3>4. CASE e.fault = TRUE BY <3>1, <3>4
    <3>5. CASE e.ipsr = i /\ \E x : e.hist = Append(d.hist, x)
      BY <3>1, <3>5, Appended DEF CoreOK
    <3> QED BY <3>1, <3>2, <3>3, <3>4, <3>5 DEF Found
  <2> QED BY <2>1, <2>2, <2>3, LineMoves
<1>2. CASE SysTick \/ OtherCoreSEV BY <1>2, SignalArrives
<1>3. CASE TakeException
  <2>1. PICK d : Found(core, d) /\ SameNVIC(d, core') /\ FaultTaken(d, core')
    BY <1>3, ExceptionTaken
  <2> QED BY <2>1, FoundIsEntered
<1>4. CASE Instruction
  <2>1. PICK d : Executed(d) /\ Finish(d) BY <1>4, InstructionRuns
  <2>2. PICK a : /\ SameNVIC(d, a) /\ a.hist = d.hist
                 /\ SameNVIC(a, core') /\ FaultTaken(a, core')
    BY <2>1, Finished DEF Executed
  <2>3. d.hist = core.hist BY <2>1, <2>2 DEF Executed, SameNVIC
  <2> QED BY <2>2, <2>3 DEF FaultTaken
<1>5. CASE UNCHANGED core BY <1>5
<1> QED BY <1>1, <1>2, <1>3, <1>4, <1>5 DEF Next

\* A pending interrupt stops being pending because it is entered, because its
\* line or firmware took it back, or because the stack overflowed on its entry.
THEOREM NoInterruptLost == Spec => NoLostInterrupt
<1>1. Init => CoreOK(core) BY CoreInit
<1>2. CoreOK(core) /\ [Next]_core => CoreOK(core)' BY CoreStep
<1>3. CoreOK(core) /\ [Next]_core =>
        [\A i \in core.pend \ core'.pend :
           \/ core'.ipsr = i /\ Len(core'.hist) = Len(core.hist) + 1
           \/ core'.hist = core.hist /\ ~core'.fault
           \/ core'.fault \/ core'.ipsr \in {EXC_USAGEFAULT, EXC_HARDFAULT}]_core
  BY LostStep
<1> QED BY <1>1, <1>2, <1>3, PTL DEF Spec, NoLostInterrupt

-----------------------------------------------------------------------------
(* Returns *)

ItAt(pc) == IF pc = 2 THEN 1 ELSE 0

\* An interrupted context x: the stack it used, the word its frame ends at, the
\* EXC_RETURN value of the handler, and the frame.
OnPsp(x) == x.ipsr = Thread /\ x.spsel = TRUE
NoPsp(x) == x.spsel = FALSE
Top(x) == Aligned(x.r13) + FrameWords
Code(x) == IF x.ipsr # Thread THEN "handler" ELSE IF x.spsel THEN "psp" ELSE "msp"
Key(x) == <<OnPsp(x), Top(x)>>
Frame(x) == [lr |-> x.lr, pc |-> x.pc, it |-> x.it, ipsr |-> x.ipsr,
             pad |-> Aligned(x.r13) # x.r13]

ContextOK(x) ==
  /\ x = [ipsr |-> x.ipsr, pc |-> x.pc, it |-> x.it, lr |-> x.lr, r13 |-> x.r13,
          spsel |-> x.spsel]
  /\ x.r13 \in Nat /\ x.spsel \in BOOLEAN /\ x.pc \in 0 .. 2 /\ x.it = ItAt(x.pc)

\* The interrupted contexts: Thread is the oldest, and the frames of the main
\* stack lie one above the other.
HistOK(h) ==
  /\ \A k \in 1 .. Len(h) :
        /\ ContextOK(h[k])
        /\ h[k].ipsr = Thread <=> k = 1
        /\ k > 1 => NoPsp(h[k]) /\ h[k].lr = Code(h[k - 1])
  /\ \A j, k \in 1 .. Len(h) : j < k /\ ~OnPsp(h[j]) => Top(h[j]) <= h[k].r13

\* The core goes on above them, and memory holds their frames.
PlacesOK(c) ==
  /\ c.r13 \in Nat /\ c.msp \in Nat /\ c.psp \in Nat /\ c.spsel \in BOOLEAN
  /\ c.pc \in 0 .. 2 /\ c.it = ItAt(c.pc)

StackOK(c) ==
  /\ c.ipsr = Thread <=> Len(c.hist) = 0
  /\ Len(c.hist) > 0 => NoPsp(c) /\ c.lr = Code(c.hist[Len(c.hist)])
  /\ \A k \in 1 .. Len(c.hist) :
        IF OnPsp(c.hist[k]) THEN c.psp = Top(c.hist[k]) ELSE Top(c.hist[k]) <= c.r13

FramesOK(c) ==
  /\ DOMAIN c.mem = {Key(c.hist[k]) : k \in 1 .. Len(c.hist)}
  /\ \A k \in 1 .. Len(c.hist) : c.mem[Key(c.hist[k])] = Frame(c.hist[k])

Nested(c) == HistOK(c.hist) /\ PlacesOK(c) /\ StackOK(c) /\ FramesOK(c)

\* The fields after an entry that happens, and after one that meets the end of
\* the stack.
Taken(c, e, ret, d) ==
  LET psp == UsesPsp(c)
      top == Aligned(c.r13) + FrameWords
      frame == [lr |-> c.lr, pc |-> ret, it |-> c.it, ipsr |-> c.ipsr,
                pad |-> Aligned(c.r13) # c.r13]
  IN  /\ d.mem = Stored(c.mem, <<psp, top>>, frame)
      /\ d.psp = IF psp THEN top ELSE c.psp
      /\ d.msp = IF psp THEN c.msp ELSE top
      /\ d.r13 = d.msp
      /\ d.lr = IF c.ipsr # Thread THEN "handler" ELSE IF psp THEN "psp" ELSE "msp"
      /\ d.pc = 0 /\ d.ipsr = e /\ d.spsel = FALSE /\ d.it = 0
      /\ d.hist = Append(c.hist, Context(c, ret))

Overflowed(c, d) ==
  /\ d.spsel = FALSE /\ d.ipsr = c.ipsr /\ d.lr = c.lr /\ d.pc = c.pc /\ d.it = c.it
  /\ d.mem = c.mem /\ d.hist = c.hist
  /\ d.psp = IF UsesPsp(c) THEN c.r13 ELSE c.psp
  /\ d.msp = IF UsesPsp(c) THEN c.msp ELSE c.r13
  /\ d.r13 = d.msp

LEMMA EntryFields ==
  ASSUME NEW c, NEW e, NEW ret, IsCore(c), e # Thread
  PROVE  LET d == ExceptionEntry(c, e, ret)
         IN  d = c \/ Taken(c, e, ret, d) \/ Overflowed(c, d)
<1> DEFINE d == ExceptionEntry(c, e, ret)
           s == SyncToBanked(c)
           psp == UsesPsp(s)
           sp == IF psp THEN s.psp ELSE s.msp
           top == Aligned(sp) + FrameWords
           frame == [lr |-> s.lr, pc |-> ret, it |-> s.it, ipsr |-> s.ipsr,
                     pad |-> Aligned(sp) # sp]
           code == IF s.ipsr # Thread THEN "handler" ELSE IF psp THEN "psp" ELSE "msp"
           over == [s EXCEPT !.spsel = FALSE, !.fault = TRUE]
           mem == Stored(s.mem, <<psp, top>>, frame)
           hist == Append(s.hist, Context(s, ret))
           pushed == [s EXCEPT !.mem = Stored(@, <<psp, top>>, frame),
                               !.psp = IF psp THEN top ELSE @,
                               !.msp = IF psp THEN @ ELSE top,
                               !.lr = IF s.ipsr # Thread THEN "handler"
                                      ELSE IF psp THEN "psp" ELSE "msp",
                               !.pc = 0, !.ipsr = e, !.spsel = FALSE, !.it = 0,
                               !.event = TRUE,
                               !.hist = Append(@, Context(s, ret))]
<1>1. PICK V : c \in [Fields -> V] BY DEF IsCore
<1>2. s \in [Fields -> V] BY <1>1, FieldsAre DEF SyncToBanked
<1>3. /\ s.ipsr = c.ipsr /\ s.spsel = c.spsel /\ s.lr = c.lr /\ s.pc = c.pc /\ s.it = c.it
      /\ s.mem = c.mem /\ s.hist = c.hist /\ s.r13 = c.r13
      /\ s.psp = IF UsesPsp(c) THEN c.r13 ELSE c.psp
      /\ s.msp = IF UsesPsp(c) THEN c.msp ELSE c.r13
  BY <1>1, FieldsAre DEF SyncToBanked
<1>4. psp = UsesPsp(c) /\ sp = c.r13 BY <1>3 DEF UsesPsp
<1>5. Context(s, ret) = Context(c, ret) BY <1>3 DEF Context
<1>6. \/ d = c \/ d = SyncFromBanked(over) \/ d = SyncFromBanked(pushed)
  BY DEF ExceptionEntry
<1>7. ASSUME d = SyncFromBanked(over) PROVE Overflowed(c, d)
  <2> HIDE DEF d, s
  <2>1. over \in [Fields -> V \cup {FALSE, TRUE}] BY <1>2, FieldsAre
  <2>2. /\ over.spsel = FALSE /\ over.ipsr = s.ipsr /\ over.lr = s.lr /\ over.pc = s.pc
        /\ over.it = s.it /\ over.mem = s.mem /\ over.hist = s.hist /\ over.psp = s.psp
        /\ over.msp = s.msp
    BY <1>2, FieldsAre
  <2> HIDE DEF over
  <2>3. ~UsesPsp(over) BY <2>2 DEF UsesPsp
  <2>4. d = [over EXCEPT !.r13 = over.msp] BY <1>7, <2>3 DEF SyncFromBanked
  <2>5. /\ d.spsel = over.spsel /\ d.ipsr = over.ipsr /\ d.lr = over.lr /\ d.pc = over.pc
        /\ d.it = over.it /\ d.mem = over.mem /\ d.hist = over.hist /\ d.psp = over.psp
        /\ d.msp = over.msp /\ d.r13 = over.msp
    BY <2>1, <2>4, FieldsAre
  <2> QED BY <1>3, <2>2, <2>5 DEF Overflowed
<1>8. ASSUME d = SyncFromBanked(pushed) PROVE Taken(c, e, ret, d)
  <2> HIDE DEF d, s, psp, top, frame, mem, hist, code
  <2> DEFINE W == V \cup {pushed.mem, pushed.psp, pushed.msp, pushed.lr, 0, e, FALSE, TRUE,
                          pushed.hist}
  <2>1. pushed \in [Fields -> W] BY <1>2, FieldsAre, ZenonT(30)
  <2>2. /\ pushed.mem = mem /\ pushed.psp = (IF psp THEN top ELSE s.psp)
        /\ pushed.msp = (IF psp THEN s.msp ELSE top) /\ pushed.lr = code /\ pushed.pc = 0
        /\ pushed.ipsr = e /\ pushed.spsel = FALSE /\ pushed.it = 0 /\ pushed.hist = hist
    BY <1>2, FieldsAre DEF mem, code, hist
  <2> HIDE DEF pushed, W
  <2>3. ~UsesPsp(pushed) BY <2>2 DEF UsesPsp
  <2>4. d = [pushed EXCEPT !.r13 = pushed.msp] BY <1>8, <2>3 DEF SyncFromBanked
  <2>5. /\ d.mem = pushed.mem /\ d.psp = pushed.psp /\ d.msp = pushed.msp
        /\ d.r13 = pushed.msp /\ d.lr = pushed.lr /\ d.pc = pushed.pc
        /\ d.ipsr = pushed.ipsr /\ d.spsel = pushed.spsel /\ d.it = pushed.it
        /\ d.hist = pushed.hist
    BY <2>1, <2>4, FieldsAre
  <2>6. /\ mem = Stored(c.mem, <<psp, top>>, frame) /\ top = Aligned(c.r13) + FrameWords
        /\ frame = [lr |-> c.lr, pc |-> ret, it |-> c.it, ipsr |-> c.ipsr,
                    pad |-> Aligned(c.r13) # c.r13]
        /\ hist = Append(c.hist, Context(c, ret))
        /\ code = IF c.ipsr # Thread THEN "handler" ELSE IF psp THEN "psp" ELSE "msp"
    BY <1>3, <1>4, <1>5 DEF mem, top, frame, hist, code
  <2>7. /\ d.psp = (IF psp THEN top ELSE c.psp) /\ d.msp = (IF psp THEN c.msp ELSE top)
    BY <1>3, <1>4, <2>2, <2>5
  <2> QED BY <1>4, <2>2, <2>5, <2>6, <2>7 DEF Taken
<1> QED BY <1>6, <1>7, <1>8

LEMMA AppendIs ==
  ASSUME NEW h, NEW x, \E S : h \in Seq(S)
  PROVE  /\ Len(h) \in Nat /\ Len(Append(h, x)) = Len(h) + 1
         /\ Append(h, x)[Len(h) + 1] = x
         /\ \A k \in 1 .. Len(h) : Append(h, x)[k] = h[k]
<1>1. PICK S : h \in Seq(S) OBVIOUS
<1>2. h \in Seq(S \cup {x}) /\ Len(h) \in Nat BY <1>1
<1> QED BY <1>2

LEMMA AlignedIs ==
  ASSUME NEW n \in Nat
  PROVE  Aligned(n) \in Nat /\ n <= Aligned(n) /\ Aligned(n) <= n + 1
BY DEF Aligned

LEMMA FrameStored ==
  ASSUME NEW f, NEW a, NEW b
  PROVE  /\ DOMAIN Stored(f, a, b) = {a} \cup DOMAIN f
         /\ Stored(f, a, b)[a] = b
         /\ \A k \in DOMAIN f \ {a} : Stored(f, a, b)[k] = f[k]
BY DEF Stored

\* What an entry at ret makes of the history.
LEMMA ContextIs ==
  ASSUME NEW c, NEW ret \in 0 .. 2, Nested(c), c.it = ItAt(ret)
  PROVE  LET x == Context(c, ret)
         IN  /\ ContextOK(x) /\ x.ipsr = c.ipsr /\ x.spsel = c.spsel /\ x.lr = c.lr
             /\ x.r13 = c.r13 /\ x.it = c.it /\ x.pc = ret
             /\ OnPsp(x) = UsesPsp(c)
<1> DEFINE x == Context(c, ret)
<1>1. /\ x.ipsr = c.ipsr /\ x.spsel = c.spsel /\ x.lr = c.lr
      /\ x.r13 = c.r13 /\ x.it = c.it /\ x.pc = ret
      /\ x = [ipsr |-> x.ipsr, pc |-> x.pc, it |-> x.it, lr |-> x.lr, r13 |-> x.r13,
              spsel |-> x.spsel]
  BY DEF Context
<1> HIDE DEF x
<1>2. ContextOK(x) BY <1>1 DEF ContextOK, Nested, PlacesOK
<1>3. OnPsp(x) = UsesPsp(c) BY <1>1 DEF OnPsp, UsesPsp, Nested, PlacesOK
<1> QED BY <1>1, <1>2, <1>3 DEF x

LEMMA TopIs ==
  ASSUME NEW x, ContextOK(x)
  PROVE  Top(x) \in Nat
<1>1. x.r13 \in Nat BY DEF ContextOK
<1>2. Aligned(x.r13) \in Nat BY <1>1, AlignedIs
<1> QED BY <1>2 DEF Top, FrameWords

LEMMA EntryNests ==
  ASSUME NEW c, NEW e, NEW ret \in 0 .. 2, IsCore(c), \E S : c.hist \in Seq(S), Nested(c),
         e # Thread, c.it = ItAt(ret)
  PROVE  Nested(ExceptionEntry(c, e, ret))
<1> DEFINE d == ExceptionEntry(c, e, ret)
           h == c.hist
           n == Len(h)
           x == Context(c, ret)
<1>1. CASE d = c BY <1>1
<1>2. CASE Overflowed(c, d)
  <2> HIDE DEF d
  <2>1. PlacesOK(d) BY <1>2 DEF Overflowed, Nested, PlacesOK
  <2>2. StackOK(d)
    BY <1>2 DEF Overflowed, Nested, StackOK, PlacesOK, UsesPsp, NoPsp
  <2>3. HistOK(d.hist) /\ FramesOK(d) BY <1>2 DEF Overflowed, Nested, FramesOK
  <2> USE DEF d
  <2> QED BY <2>1, <2>2, <2>3 DEF Nested
<1>3. CASE Taken(c, e, ret, d)
  <2> DEFINE psp == UsesPsp(c)
             top == Aligned(c.r13) + FrameWords
             frame == [lr |-> c.lr, pc |-> ret, it |-> c.it, ipsr |-> c.ipsr,
                       pad |-> Aligned(c.r13) # c.r13]
             g == d.hist
  <2>1. /\ d.mem = Stored(c.mem, <<psp, top>>, frame)
        /\ d.psp = (IF psp THEN top ELSE c.psp) /\ d.msp = (IF psp THEN c.msp ELSE top)
        /\ d.r13 = d.msp
        /\ d.lr = (IF c.ipsr # Thread THEN "handler" ELSE IF psp THEN "psp" ELSE "msp")
        /\ d.pc = 0 /\ d.ipsr = e /\ d.spsel = FALSE /\ d.it = 0
        /\ g = Append(h, x)
    BY <1>3 DEF Taken
  <2>2. /\ ContextOK(x) /\ x.ipsr = c.ipsr /\ x.spsel = c.spsel /\ x.lr = c.lr
        /\ x.r13 = c.r13 /\ x.it = c.it /\ x.pc = ret
        /\ OnPsp(x) = psp
    BY ContextIs
  <2>3. /\ Top(x) = top /\ Key(x) = <<psp, top>> /\ Frame(x) = frame
        /\ d.lr = Code(x)
    BY <2>1, <2>2 DEF Top, Key, Frame, Code, UsesPsp
  <2>4. n \in Nat /\ Len(g) = n + 1 /\ g[n + 1] = x /\ \A k \in 1 .. n : g[k] = h[k]
    BY <2>1, AppendIs
  <2>5. top \in Nat /\ c.r13 < top
    <3>1. c.r13 \in Nat BY DEF Nested, PlacesOK
    <3>2. Aligned(c.r13) \in Nat /\ c.r13 <= Aligned(c.r13) BY <3>1, AlignedIs
    <3> QED BY <3>1, <3>2 DEF FrameWords
  <2>6. psp => n = 0 BY DEF UsesPsp, Nested, StackOK
  <2> HIDE DEF d, h, n, x, psp, top, frame, g
  <2>7. PlacesOK(d)
    <3>1. d.psp \in Nat /\ d.msp \in Nat /\ d.r13 \in Nat
      BY <2>1, <2>5 DEF Nested, PlacesOK
    <3>2. d.pc \in 0 .. 2 /\ d.it = ItAt(d.pc) BY <2>1 DEF ItAt
    <3> QED BY <2>1, <3>1, <3>2 DEF PlacesOK
  <2>8. HistOK(g)
    <3>1. ASSUME NEW k \in 1 .. Len(g)
          PROVE  /\ ContextOK(g[k])
                 /\ g[k].ipsr = Thread <=> k = 1
                 /\ k > 1 => NoPsp(g[k]) /\ g[k].lr = Code(g[k - 1])
      <4>1. CASE k \in 1 .. n
        <5>1. k > 1 => k - 1 \in 1 .. n /\ g[k - 1] = h[k - 1] BY <2>4, <4>1
        <5>2. /\ ContextOK(h[k])
              /\ h[k].ipsr = Thread <=> k = 1
              /\ k > 1 => NoPsp(h[k]) /\ h[k].lr = Code(h[k - 1])
          BY <4>1 DEF Nested, HistOK, h, n
        <5>3. g[k] = h[k] BY <2>4, <4>1
        <5>4. k > 1 => NoPsp(g[k]) /\ g[k].lr = Code(g[k - 1]) BY <5>1, <5>2, <5>3
        <5>5. ContextOK(g[k]) BY <5>2, <5>3
        <5>6. g[k].ipsr = Thread <=> k = 1 BY <5>2, <5>3
        <5> QED BY <5>4, <5>5, <5>6
      <4>2. CASE k = n + 1
        <5>1. n > 0 => n \in 1 .. n /\ g[n] = h[n] BY <2>4
        <5>2. g[k].ipsr = Thread <=> n = 0 BY <2>2, <2>4, <4>2 DEF Nested, StackOK, h, n
        <5>3. n > 0 => NoPsp(g[k]) /\ g[k].lr = Code(h[n])
          BY <2>2, <2>4, <4>2 DEF Nested, StackOK, NoPsp, h, n
        <5> QED BY <2>2, <2>4, <4>2, <5>1, <5>2, <5>3
      <4> QED BY <2>4, <4>1, <4>2
    <3>2. ASSUME NEW j \in 1 .. Len(g), NEW k \in 1 .. Len(g), j < k, ~OnPsp(g[j])
          PROVE  Top(g[j]) <= g[k].r13
      <4>0. j \in 1 .. n /\ g[j] = h[j] BY <2>4, <3>2
      <4>1. CASE k \in 1 .. n
        BY <2>4, <3>2, <4>0, <4>1 DEF Nested, HistOK, h, n
      <4>2. CASE k = n + 1
        BY <2>2, <2>4, <3>2, <4>0, <4>2 DEF Nested, StackOK, h, n
      <4> QED BY <2>4, <4>1, <4>2
    <3> QED BY <3>1, <3>2 DEF HistOK
  <2>9. StackOK(d)
    <3>1. ASSUME NEW k \in 1 .. Len(g)
          PROVE  IF OnPsp(g[k]) THEN d.psp = Top(g[k]) ELSE Top(g[k]) <= d.r13
      <4>1. CASE k \in 1 .. n
        <5>1. ~psp BY <2>4, <2>6, <4>1
        <5>2. IF OnPsp(h[k]) THEN c.psp = Top(h[k]) ELSE Top(h[k]) <= c.r13
          BY <4>1 DEF Nested, StackOK, h, n
        <5>3. Top(h[k]) \in Nat BY <4>1, TopIs DEF Nested, HistOK, h, n
        <5> QED BY <2>1, <2>4, <2>5, <4>1, <5>1, <5>2, <5>3 DEF Nested, PlacesOK
      <4>2. CASE k = n + 1
        BY <2>1, <2>2, <2>3, <2>4, <2>5, <4>2
      <4> QED BY <2>4, <4>1, <4>2
    <3> QED BY <2>1, <2>3, <2>4, <3>1 DEF StackOK, NoPsp, g
  <2>10. FramesOK(d)
    <3>1. ASSUME NEW k \in 1 .. n PROVE Key(h[k]) # <<psp, top>>
      <4>1. ~psp BY <2>4, <2>6, <3>1
      <4>2. CASE OnPsp(h[k]) BY <4>1, <4>2 DEF Key
      <4>3. CASE ~OnPsp(h[k])
        <5>1. Top(h[k]) <= c.r13 BY <3>1, <4>3 DEF Nested, StackOK, h, n
        <5>2. Top(h[k]) \in Nat /\ c.r13 \in Nat
          BY <3>1, TopIs DEF Nested, HistOK, PlacesOK, h, n
        <5>3. Top(h[k]) # top BY <2>5, <5>1, <5>2
        <5> QED BY <5>3 DEF Key
      <4> QED BY <4>2, <4>3
    <3>2. /\ DOMAIN d.mem = {<<psp, top>>} \cup DOMAIN c.mem
          /\ d.mem[<<psp, top>>] = frame
          /\ \A k \in DOMAIN c.mem \ {<<psp, top>>} : d.mem[k] = c.mem[k]
      <4> DEFINE key == <<psp, top>>
      <4>1. d.mem = Stored(c.mem, key, frame) BY <2>1
      <4> HIDE DEF key
      <4>2. /\ DOMAIN d.mem = {key} \cup DOMAIN c.mem /\ d.mem[key] = frame
            /\ \A k \in DOMAIN c.mem \ {key} : d.mem[k] = c.mem[k]
        BY <4>1 DEF Stored
      <4> QED BY <4>2 DEF key
    <3>3. /\ DOMAIN c.mem = {Key(h[k]) : k \in 1 .. n}
          /\ \A k \in 1 .. n : c.mem[Key(h[k])] = Frame(h[k])
      BY DEF Nested, FramesOK, h, n
    <3>4. DOMAIN d.mem = {Key(g[k]) : k \in 1 .. Len(g)}
      BY <2>3, <2>4, <3>2, <3>3
    <3>5. ASSUME NEW k \in 1 .. Len(g) PROVE d.mem[Key(g[k])] = Frame(g[k])
      <4>1. CASE k \in 1 .. n BY <2>4, <3>1, <3>2, <3>3, <4>1
      <4>2. CASE k = n + 1 BY <2>3, <2>4, <3>2, <4>2
      <4> QED BY <2>4, <4>1, <4>2
    <3> QED BY <3>4, <3>5 DEF FramesOK, g
  <2> USE DEF d
  <2> QED BY <2>7, <2>8, <2>9, <2>10 DEF Nested, g
<1> QED BY <1>1, <1>2, <1>3, EntryFields

LEMMA FrontIs ==
  ASSUME NEW h, \E S : h \in Seq(S), Len(h) > 0
  PROVE  /\ Len(h) \in Nat /\ Len(Front(h)) = Len(h) - 1 /\ Last(h) = h[Len(h)]
         /\ \A k \in 1 .. Len(h) - 1 : Front(h)[k] = h[k]
<1>1. PICK S : h \in Seq(S) OBVIOUS
<1>2. Len(h) \in Nat BY <1>1
<1> DEFINE m == Len(h) - 1
<1>3. m \in Nat /\ m <= Len(h) /\ Front(h) = SubSeq(h, 1, m) BY <1>2 DEF Front
<1> HIDE DEF m
<1>4. Len(SubSeq(h, 1, m)) = m BY <1>1, <1>2, <1>3
<1>5. \A k \in 1 .. m : SubSeq(h, 1, m)[k] = h[k] BY <1>1, <1>2, <1>3
<1> QED BY <1>2, <1>3, <1>4, <1>5 DEF Last, m

\* Popping the frame of a context gives back its stack pointer.
LEMMA PoppedIs ==
  ASSUME NEW x, ContextOK(x)
  PROVE  Popped(Top(x), Frame(x)) = x.r13
<1>1. x.r13 \in Nat BY DEF ContextOK
<1> DEFINE odd == Aligned(x.r13) # x.r13
<1>2. Frame(x).pad = odd BY DEF Frame
<1>3. CASE x.r13 % 2 = 0
  <2>1. Aligned(x.r13) = x.r13 BY <1>1, <1>3 DEF Aligned
  <2>2. ~Frame(x).pad BY <1>2, <2>1
  <2> QED BY <1>1, <2>1, <2>2 DEF Popped, Top, FrameWords
<1>4. CASE x.r13 % 2 = 1
  <2>1. Aligned(x.r13) = x.r13 + 1 BY <1>1, <1>4 DEF Aligned
  <2>2. Frame(x).pad
    <3>1. odd = TRUE BY <1>1, <2>1
    <3> HIDE DEF odd
    <3> QED BY <1>2, <3>1
  <2> QED BY <1>1, <2>1, <2>2 DEF Popped, Top, FrameWords
<1> QED BY <1>1, <1>3, <1>4

\* The fields after a return from a handler.
Back(c, x, d) ==
  LET psp == x = "psp"
      sp == IF psp THEN c.psp ELSE c.r13
      frame == c.mem[<<psp, sp>>]
      new == Popped(sp, frame)
  IN  /\ d.psp = IF psp THEN new ELSE c.psp
      /\ d.msp = IF psp THEN c.r13 ELSE new
      /\ d.r13 = IF d.ipsr = Thread /\ psp THEN d.psp ELSE d.msp
      /\ d.lr = frame.lr /\ d.pc = frame.pc /\ d.it = frame.it
      /\ d.ipsr = IF x = "handler" THEN frame.ipsr ELSE Thread
      /\ d.spsel = psp
      /\ d.mem = Restrict(c.mem, DOMAIN c.mem \ {<<psp, sp>>})
      /\ d.hist = Front(c.hist)

LEMMA ReturnFields ==
  ASSUME NEW c, NEW x, IsCore(c), c.ipsr # Thread
  PROVE  Back(c, x, ExceptionReturn(c, x))
<1> DEFINE d == ExceptionReturn(c, x)
           s == SyncToBanked(c)
           psp == x = "psp"
           sp == IF psp THEN s.psp ELSE s.msp
           frame == s.mem[<<psp, sp>>]
           new == Popped(sp, frame)
           mem == Restrict(s.mem, DOMAIN s.mem \ {<<psp, sp>>})
           hist == Front(s.hist)
           ipsr == IF x = "handler" THEN frame.ipsr ELSE Thread
           popped == [s EXCEPT !.psp = IF psp THEN new ELSE @,
                               !.msp = IF psp THEN @ ELSE new,
                               !.lr = frame.lr, !.pc = frame.pc, !.it = frame.it,
                               !.ipsr = IF x = "handler" THEN frame.ipsr ELSE Thread,
                               !.spsel = psp,
                               !.mem = Restrict(@, DOMAIN @ \ {<<psp, sp>>}),
                               !.updated = TRUE, !.event = TRUE,
                               !.hist = Front(@)]
<1>1. PICK V : c \in [Fields -> V] BY DEF IsCore
<1>2. s = [c EXCEPT !.msp = c.r13] BY DEF SyncToBanked, UsesPsp
<1>3. s \in [Fields -> V] BY <1>1, <1>2, FieldsAre
<1>4. s.mem = c.mem /\ s.hist = c.hist /\ s.psp = c.psp /\ s.msp = c.r13
  BY <1>1, <1>2, FieldsAre
<1>5. d = SyncFromBanked(popped) BY DEF ExceptionReturn
<1>6. psp \in BOOLEAN OBVIOUS
<1>7. /\ sp = (IF psp THEN c.psp ELSE c.r13) /\ frame = c.mem[<<psp, sp>>]
      /\ mem = Restrict(c.mem, DOMAIN c.mem \ {<<psp, sp>>}) /\ hist = Front(c.hist)
  BY <1>4
<1> HIDE DEF d, s, psp, sp, frame, new, mem, hist, ipsr
<1> DEFINE W == V \cup {popped.psp, popped.msp, popped.lr, popped.pc, popped.it, popped.ipsr,
                        psp, popped.mem, TRUE, popped.hist}
<1>8. popped \in [Fields -> W] BY <1>3, FieldsAre, ZenonT(30)
<1>9. /\ popped.psp = (IF psp THEN new ELSE s.psp) /\ popped.msp = (IF psp THEN s.msp ELSE new)
      /\ popped.lr = frame.lr /\ popped.pc = frame.pc /\ popped.it = frame.it
      /\ popped.ipsr = ipsr /\ popped.mem = mem /\ popped.hist = hist
  BY <1>3, FieldsAre DEF mem, hist, ipsr
<1>10. popped.spsel = psp BY <1>3, FieldsAre
<1> HIDE DEF popped, W
<1>11. d = [popped EXCEPT !.r13 = IF popped.ipsr = Thread /\ psp THEN popped.psp ELSE popped.msp]
  BY <1>5, <1>6, <1>10 DEF SyncFromBanked, UsesPsp
<1>12. /\ d.psp = popped.psp /\ d.msp = popped.msp /\ d.lr = popped.lr /\ d.pc = popped.pc
       /\ d.it = popped.it /\ d.ipsr = popped.ipsr /\ d.mem = popped.mem
       /\ d.hist = popped.hist
       /\ d.r13 = IF popped.ipsr = Thread /\ psp THEN popped.psp ELSE popped.msp
  BY <1>8, <1>11, FieldsAre
<1>13. d.spsel = psp BY <1>8, <1>10, <1>11, FieldsAre
<1>14. new = Popped(sp, frame) /\ ipsr = (IF x = "handler" THEN frame.ipsr ELSE Thread)
  BY DEF new, ipsr
<1>15. psp = (x = "psp") BY DEF psp
<1>16. /\ d.psp = (IF psp THEN new ELSE c.psp) /\ d.msp = (IF psp THEN c.r13 ELSE new)
       /\ d.r13 = (IF d.ipsr = Thread /\ psp THEN d.psp ELSE d.msp)
  BY <1>4, <1>9, <1>12
<1>17. /\ d.lr = frame.lr /\ d.pc = frame.pc /\ d.it = frame.it /\ d.ipsr = ipsr
       /\ d.mem = mem /\ d.hist = hist
  BY <1>9, <1>12
<1> USE DEF d
<1> QED BY <1>7, <1>13, <1>14, <1>16, <1>17 DEF Back, psp, sp, frame, new, ipsr

\* What a return finds and leaves: w is the context it goes back to.
LEMMA ReturnNests ==
  ASSUME NEW c, IsCore(c), \E S : c.hist \in Seq(S), Nested(c), c.ipsr # Thread,
         LET w == c.hist[Len(c.hist)] IN OnPsp(w) \/ c.r13 = Top(w)
  PROVE  LET d == ExceptionReturn(c, c.lr)
         IN  Nested(d) /\ Context(d, d.pc) = Last(c.hist)
<1> DEFINE d == ExceptionReturn(c, c.lr)
           h == c.hist
           n == Len(h)
           w == h[n]
           psp == c.lr = "psp"
           sp == IF psp THEN c.psp ELSE c.r13
           frame == c.mem[<<psp, sp>>]
           g == d.hist
<1>1. Back(c, c.lr, d) BY ReturnFields
<1>2. n > 0
  <2>1. Len(h) \in Nat BY AppendIs
  <2>2. c.ipsr = Thread <=> Len(h) = 0 BY DEF Nested, StackOK
  <2> QED BY <2>1, <2>2
<1>3. /\ n \in Nat /\ Len(Front(h)) = n - 1 /\ Last(h) = w
      /\ \A k \in 1 .. n - 1 : Front(h)[k] = h[k]
  BY <1>2, FrontIs
<1>4. /\ d.psp = (IF psp THEN Popped(sp, frame) ELSE c.psp)
      /\ d.msp = (IF psp THEN c.r13 ELSE Popped(sp, frame))
      /\ d.r13 = (IF d.ipsr = Thread /\ psp THEN d.psp ELSE d.msp)
      /\ d.lr = frame.lr /\ d.pc = frame.pc /\ d.it = frame.it
      /\ d.ipsr = (IF c.lr = "handler" THEN frame.ipsr ELSE Thread)
      /\ d.spsel = psp
      /\ d.mem = Restrict(c.mem, DOMAIN c.mem \ {<<psp, sp>>})
      /\ g = Front(h)
  BY <1>1 DEF Back
<1>5. Len(g) = n - 1 /\ \A k \in 1 .. n - 1 : g[k] = h[k] BY <1>3, <1>4
<1>6. /\ ContextOK(w) /\ (w.ipsr = Thread <=> n = 1)
      /\ n > 1 => NoPsp(w) /\ w.lr = Code(h[n - 1])
  <2>1. n \in 1 .. n BY <1>2, <1>3
  <2>2. \A k \in 1 .. n :
          /\ ContextOK(h[k])
          /\ h[k].ipsr = Thread <=> k = 1
          /\ k > 1 => NoPsp(h[k]) /\ h[k].lr = Code(h[k - 1])
    BY DEF Nested, HistOK
  <2> HIDE DEF h, n
  <2> QED BY <2>1, <2>2 DEF w
<1>7. c.lr = Code(w) BY <1>2 DEF Nested, StackOK
<1>8. w.spsel \in BOOLEAN /\ w.r13 \in Nat BY <1>6 DEF ContextOK
<1>9. psp = OnPsp(w) BY <1>7, <1>8 DEF Code, OnPsp
<1>10. psp = w.spsel
  <2>1. CASE w.ipsr = Thread BY <1>8, <1>9, <2>1 DEF OnPsp
  <2>2. CASE w.ipsr # Thread
    <3> HIDE DEF n, w, psp
    <3>0. n # 1 BY <1>6, <2>2
    <3>1. n > 1 BY <1>2, <1>3, <3>0
    <3> QED BY <1>6, <1>8, <1>9, <2>2, <3>1 DEF OnPsp, NoPsp
  <2> QED BY <2>1, <2>2
<1>11. sp = Top(w)
  <2>1. IF OnPsp(w) THEN c.psp = Top(w) ELSE Top(w) <= c.r13
    BY <1>2, <1>3 DEF Nested, StackOK
  <2> QED BY <1>9, <2>1
<1>12. <<psp, sp>> = Key(w) BY <1>9, <1>11 DEF Key
<1>13. frame = Frame(w) BY <1>2, <1>3, <1>12 DEF Nested, FramesOK
<1>14. /\ frame.lr = w.lr /\ frame.pc = w.pc /\ frame.it = w.it /\ frame.ipsr = w.ipsr
  BY <1>13 DEF Frame
<1>15. Popped(sp, frame) = w.r13 BY <1>6, <1>11, <1>13, PoppedIs
<1>16. d.ipsr = w.ipsr BY <1>4, <1>7, <1>14 DEF Code
<1>17. d.r13 = w.r13 BY <1>4, <1>9, <1>15, <1>16 DEF OnPsp
<1>18. c.psp \in Nat /\ c.r13 \in Nat BY DEF Nested, PlacesOK
<1> HIDE DEF d, h, n, w, psp, sp, frame, g
<1>19. Context(d, d.pc) = w
  <2>1. Context(d, d.pc) = [ipsr |-> w.ipsr, pc |-> w.pc, it |-> w.it, lr |-> w.lr,
                            r13 |-> w.r13, spsel |-> w.spsel]
    BY <1>4, <1>10, <1>14, <1>16, <1>17 DEF Context
  <2> QED BY <1>6, <2>1 DEF ContextOK
<1>20. PlacesOK(d)
  <2>1. d.psp \in Nat /\ d.msp \in Nat /\ d.r13 \in Nat BY <1>4, <1>8, <1>15, <1>17, <1>18
  <2>2. d.pc \in 0 .. 2 /\ d.it = ItAt(d.pc) BY <1>4, <1>6, <1>14 DEF ContextOK
  <2>3. d.spsel \in BOOLEAN BY <1>4, <1>8, <1>10
  <2> QED BY <2>1, <2>2, <2>3 DEF PlacesOK
<1>21. \A k \in 1 .. n - 1 : k \in 1 .. n /\ k < n BY <1>3
<1>22. HistOK(g)
  <2>1. ASSUME NEW k \in 1 .. Len(g)
        PROVE  /\ ContextOK(g[k])
               /\ g[k].ipsr = Thread <=> k = 1
               /\ k > 1 => NoPsp(g[k]) /\ g[k].lr = Code(g[k - 1])
    <3>1. k \in 1 .. n /\ g[k] = h[k] BY <1>3, <1>5, <2>1
    <3>2. k > 1 => g[k - 1] = h[k - 1] BY <1>3, <1>5, <2>1
    <3>3. /\ ContextOK(h[k])
          /\ h[k].ipsr = Thread <=> k = 1
          /\ k > 1 => NoPsp(h[k]) /\ h[k].lr = Code(h[k - 1])
      BY <3>1 DEF Nested, HistOK, h, n
    <3> QED BY <3>1, <3>2, <3>3
  <2>2. ASSUME NEW j \in 1 .. Len(g), NEW k \in 1 .. Len(g), j < k, ~OnPsp(g[j])
        PROVE  Top(g[j]) <= g[k].r13
    <3>1. j \in 1 .. n /\ k \in 1 .. n /\ g[j] = h[j] /\ g[k] = h[k] BY <1>3, <1>5
    <3> QED BY <2>2, <3>1 DEF Nested, HistOK, h, n
  <2> QED BY <2>1, <2>2 DEF HistOK
<1>23. StackOK(d)
  <2>1. d.ipsr = Thread <=> Len(g) = 0 BY <1>3, <1>5, <1>6, <1>16
  <2>2. ASSUME Len(g) > 0 PROVE NoPsp(d) /\ d.lr = Code(g[Len(g)])
    <3>1. n > 1 /\ n - 1 \in 1 .. n - 1 BY <1>3, <1>5, <2>2
    <3>2. NoPsp(w) /\ w.lr = Code(g[Len(g)]) BY <1>5, <1>6, <3>1
    <3>3. NoPsp(d) BY <1>4, <1>10, <3>2 DEF NoPsp
    <3> QED BY <1>4, <1>14, <3>2, <3>3
  <2>3. ASSUME NEW k \in 1 .. Len(g)
        PROVE  IF OnPsp(g[k]) THEN d.psp = Top(g[k]) ELSE Top(g[k]) <= d.r13
    <3>1. k \in 1 .. n /\ k < n /\ g[k] = h[k] BY <1>3, <1>5
    <3>2. ~psp
      <4>1. n # 1 BY <1>3, <3>1
      <4>2. ~OnPsp(w) BY <1>6, <4>1 DEF OnPsp
      <4> QED BY <1>9, <4>2
    <3>3. IF OnPsp(h[k]) THEN c.psp = Top(h[k]) ELSE Top(h[k]) <= c.r13
      BY <3>1 DEF Nested, StackOK, h, n
    <3>4. ~OnPsp(h[k]) => Top(h[k]) <= w.r13
      BY <1>2, <1>3, <3>1 DEF Nested, HistOK, h, n, w
    <3> QED BY <1>4, <1>17, <3>1, <3>2, <3>3, <3>4
  <2> QED BY <2>1, <2>2, <2>3 DEF StackOK, g
<1>24. FramesOK(d)
  <2>1. ASSUME NEW k \in 1 .. n - 1 PROVE Key(h[k]) # Key(w)
    <3>1. k \in 1 .. n /\ k < n /\ n > 1 BY <1>3
    <3>2. ~OnPsp(w) BY <1>6, <3>1 DEF OnPsp
    <3>3. CASE OnPsp(h[k]) BY <3>2, <3>3 DEF Key
    <3>4. CASE ~OnPsp(h[k])
      <4>1. Top(h[k]) <= w.r13 BY <1>2, <1>3, <3>1, <3>4 DEF Nested, HistOK, h, n, w
      <4>2. Top(h[k]) \in Nat /\ Top(w) \in Nat
        BY <1>6, <3>1, TopIs DEF Nested, HistOK, h, n
      <4>3. w.r13 < Top(w)
        <5>1. w.r13 <= Aligned(w.r13) /\ Aligned(w.r13) \in Nat BY <1>8, AlignedIs
        <5> QED BY <1>8, <5>1 DEF Top, FrameWords
      <4>4. Top(h[k]) # Top(w) BY <1>8, <4>1, <4>2, <4>3
      <4> QED BY <4>4 DEF Key
    <3> QED BY <3>3, <3>4
  <2>2. /\ DOMAIN c.mem = {Key(h[k]) : k \in 1 .. n}
        /\ \A k \in 1 .. n : c.mem[Key(h[k])] = Frame(h[k])
    BY DEF Nested, FramesOK, h, n
  <2>3. d.mem = [m \in DOMAIN c.mem \ {Key(w)} |-> c.mem[m]]
    BY <1>4, <1>12 DEF Restrict
  <2>4. DOMAIN d.mem = {Key(h[k]) : k \in 1 .. n - 1}
    <3>1. DOMAIN d.mem = {Key(h[k]) : k \in 1 .. n} \ {Key(w)} BY <2>2, <2>3
    <3>2. \A k \in 1 .. n : k \in 1 .. n - 1 \/ h[k] = w BY <1>3 DEF w
    <3> QED BY <1>21, <2>1, <3>1, <3>2
  <2>5. ASSUME NEW k \in 1 .. n - 1 PROVE d.mem[Key(h[k])] = Frame(h[k])
    <3>1. k \in 1 .. n /\ Key(h[k]) \in DOMAIN c.mem \ {Key(w)} BY <1>21, <2>1, <2>2
    <3> QED BY <2>2, <2>3, <3>1
  <2>6. DOMAIN d.mem = {Key(g[k]) : k \in 1 .. Len(g)} BY <1>5, <2>4
  <2>7. \A k \in 1 .. Len(g) : d.mem[Key(g[k])] = Frame(g[k]) BY <1>5, <2>5
  <2> QED BY <2>6, <2>7 DEF FramesOK, g
<1>25. Nested(d) BY <1>20, <1>22, <1>23, <1>24 DEF Nested, g
<1> QED BY <1>3, <1>19, <1>25 DEF d, h

\* What an instruction that is not about stacks leaves alone.
Untouched(c, d) ==
  /\ d.ipsr = c.ipsr /\ d.pc = c.pc /\ d.it = c.it /\ d.lr = c.lr /\ d.r13 = c.r13
  /\ d.msp = c.msp /\ d.psp = c.psp /\ d.spsel = c.spsel /\ d.mem = c.mem /\ d.hist = c.hist

LEMMA UntouchedNests ==
  ASSUME NEW c, NEW d, Nested(c), Untouched(c, d)
  PROVE  Nested(d)
<1>1. HistOK(d.hist) BY DEF Nested, Untouched
<1>2. PlacesOK(d) BY DEF Nested, Untouched, PlacesOK
<1>3. StackOK(d) BY DEF Nested, Untouched, StackOK, NoPsp
<1>4. FramesOK(d) BY DEF Nested, Untouched, FramesOK
<1> QED BY <1>1, <1>2, <1>3, <1>4 DEF Nested

LEMMA DeliveryNests ==
  ASSUME NEW d, NEW ret \in 0 .. 2, IsCore(d), \E S : d.hist \in Seq(S), Nested(d),
         d.fault => d.it = ItAt(ret)
  PROVE  Nested(DeliverFault(d, ret))
<1> DEFINE e == IF UsageFaultEna THEN EXC_USAGEFAULT ELSE EXC_HARDFAULT
           b == [d EXCEPT !.fault = FALSE]
<1>1. CASE ~d.fault BY <1>1 DEF DeliverFault
<1>2. CASE d.fault
  <2>1. DeliverFault(d, ret) = ExceptionEntry(b, e, ret) BY <1>2 DEF DeliverFault
  <2>2. PICK V : d \in [Fields -> V] BY DEF IsCore
  <2>3. b \in [Fields -> V \cup {FALSE}] /\ Untouched(d, b)
    BY <2>2, FieldsAre DEF Untouched
  <2>4. IsCore(b) /\ Nested(b) BY <2>3, UntouchedNests DEF IsCore
  <2>5. (\E S : b.hist \in Seq(S)) /\ b.it = ItAt(ret)
    BY <1>2, <2>3 DEF Untouched
  <2>6. e # Thread BY DEF EXC_USAGEFAULT, EXC_HARDFAULT, Thread
  <2> HIDE DEF b, e
  <2>7. Nested(ExceptionEntry(b, e, ret)) BY <2>4, <2>5, <2>6, EntryNests
  <2> QED BY <2>1, <2>7
<1> QED BY <1>1, <1>2

\* A context may pop down to the newest frame of the main stack.
LEMMA FloorIs ==
  ASSUME CoreOK(core), Nested(core)
  PROVE  /\ Floor \in Nat
         /\ \A k \in 1 .. Len(core.hist) : ~OnPsp(core.hist[k]) => Top(core.hist[k]) <= Floor
         /\ LET w == core.hist[Len(core.hist)]
            IN  Len(core.hist) > 0 => OnPsp(w) \/ Floor = Top(w)
<1> DEFINE h == core.hist
           n == Len(h)
           w == h[n]
           psp == UsesPsp(core)
           S == {k[2] : k \in {m \in DOMAIN core.mem : m[1] = psp}}
           T == {Top(h[k]) : k \in {j \in 1 .. n : OnPsp(h[j]) = psp}}
<1>1. n \in Nat BY AppendIs DEF CoreOK
<1>2. Floor = IF S = {} THEN 0 ELSE CHOOSE x \in S : \A y \in S : x >= y BY DEF Floor
<1>3. DOMAIN core.mem = {Key(h[k]) : k \in 1 .. n} BY DEF Nested, FramesOK
<1>4. psp => n = 0
  <2>1. core.ipsr = Thread <=> n = 0 BY DEF Nested, StackOK
  <2> QED BY <2>1 DEF UsesPsp
<1>5. \A k \in 1 .. n : Top(h[k]) \in Nat BY TopIs DEF Nested, HistOK
<1>6. \A j, k \in 1 .. n : j < k /\ ~OnPsp(h[j]) => Top(h[j]) <= h[k].r13
  BY DEF Nested, HistOK
<1>7. \A k \in 1 .. n : h[k].r13 \in Nat /\ h[k].r13 <= Top(h[k])
  <2>1. \A k \in 1 .. n : h[k].r13 \in Nat BY DEF Nested, HistOK, ContextOK
  <2> SUFFICES ASSUME NEW k \in 1 .. n PROVE h[k].r13 <= Top(h[k]) BY <2>1
  <2>2. h[k].r13 \in Nat BY <2>1
  <2>3. h[k].r13 <= Aligned(h[k].r13) /\ Aligned(h[k].r13) \in Nat BY <2>2, AlignedIs
  <2> QED BY <2>2, <2>3 DEF Top, FrameWords
<1>8. \A k \in 1 .. n : OnPsp(h[k]) \in BOOLEAN BY DEF OnPsp
<1>9. psp \in BOOLEAN BY DEF UsesPsp
<1>10. \A k \in 1 .. n : OnPsp(h[k]) => k = 1 BY DEF Nested, HistOK, OnPsp
<1> HIDE DEF h, n, w, psp
<1>11. S = T
  <2>1. ASSUME NEW k \in 1 .. n PROVE Key(h[k])[1] = OnPsp(h[k]) /\ Key(h[k])[2] = Top(h[k])
    BY DEF Key
  <2>2. S = {m[2] : m \in {Key(h[k]) : k \in {j \in 1 .. n : OnPsp(h[j]) = psp}}}
    BY <1>3, <2>1
  <2> QED BY <2>1, <2>2
<1> HIDE DEF S
<1>12. CASE S = {}
  <2>1. Floor = 0 BY <1>2, <1>12
  <2>2. \A k \in 1 .. n : OnPsp(h[k])
    <3>1. SUFFICES ASSUME NEW k \in 1 .. n, ~OnPsp(h[k]) PROVE FALSE OBVIOUS
    <3>2. psp = FALSE BY <1>1, <1>4, <1>9
    <3>3. OnPsp(h[k]) = psp BY <1>8, <3>1, <3>2
    <3>4. Top(h[k]) \in T BY <3>1, <3>3
    <3> QED BY <1>11, <1>12, <3>4
  <2>3. n > 0 => n \in 1 .. n BY <1>1
  <2> QED BY <2>1, <2>2, <2>3 DEF h, n, w
<1>13. CASE S # {}
  <2>0. n > 0 /\ psp = FALSE BY <1>1, <1>4, <1>9, <1>11, <1>13
  <2>1. \E k \in 1 .. n : OnPsp(h[k]) = FALSE BY <1>11, <1>13, <2>0
  <2>2. ~OnPsp(w)
    <3>1. PICK k \in 1 .. n : OnPsp(h[k]) = FALSE BY <2>1
    <3>2. n \in 1 .. n BY <1>1, <2>0
    <3>3. CASE n = 1
      <4>1. k = n BY <3>1, <3>3
      <4> QED BY <3>1, <4>1 DEF w
    <3>4. CASE n # 1 BY <1>10, <3>2, <3>4 DEF w
    <3> QED BY <3>3, <3>4
  <2>3. n \in 1 .. n /\ OnPsp(h[n]) = psp
    <3>1. n \in 1 .. n BY <1>1, <2>0
    <3>2. OnPsp(h[n]) \in BOOLEAN /\ ~OnPsp(h[n]) BY <1>8, <2>2, <3>1 DEF w
    <3>3. OnPsp(h[n]) = FALSE BY <3>2
    <3> QED BY <2>0, <3>1, <3>3
  <2>4. Top(w) \in T BY <2>3 DEF w
  <2>5. ASSUME NEW k \in 1 .. n, ~OnPsp(h[k]) PROVE Top(h[k]) <= Top(w)
    <3>1. CASE k = n BY <1>5, <3>1 DEF w
    <3>2. CASE k # n
      <4>1. k < n BY <1>1, <3>2
      <4>2. Top(h[k]) <= h[n].r13 BY <1>6, <2>3, <2>5, <4>1
      <4>3. h[n].r13 \in Nat /\ h[n].r13 <= Top(h[n]) /\ Top(h[n]) \in Nat /\ Top(h[k]) \in Nat
        BY <1>5, <1>7, <2>3
      <4> QED BY <4>2, <4>3 DEF w
    <3> QED BY <3>1, <3>2
  <2>6. \A y \in T : y <= Top(w)
    <3>1. SUFFICES ASSUME NEW k \in 1 .. n, OnPsp(h[k]) = psp PROVE Top(h[k]) <= Top(w)
      OBVIOUS
    <3> QED BY <2>0, <2>5, <3>1
  <2>7. T \subseteq Nat BY <1>5
  <2> HIDE DEF T
  <2>8. Floor = Top(w)
    <3> DEFINE x == CHOOSE x \in S : \A y \in S : x >= y
    <3>1. Top(w) \in S /\ \A y \in S : Top(w) >= y BY <1>11, <2>4, <2>6, <2>7
    <3>2. x \in S /\ \A y \in S : x >= y BY <3>1
    <3>3. Floor = x BY <1>2, <1>13
    <3> HIDE DEF x
    <3>4. x >= Top(w) /\ Top(w) >= x /\ x \in Nat /\ Top(w) \in Nat
      BY <1>11, <2>7, <3>1, <3>2
    <3> QED BY <3>3, <3>4
  <2>9. Top(w) \in Nat BY <2>4, <2>7
  <2> QED BY <2>5, <2>8, <2>9 DEF h, n, w
<1> QED BY <1>12, <1>13

LEMMA FetchedFields ==
  ASSUME CoreOK(core)
  PROVE  /\ IsCore(Fetched) /\ CoreOK(Fetched)
         /\ Fetched.pc = (core.pc + 1) % 3 /\ Fetched.ipsr = core.ipsr /\ Fetched.it = core.it
         /\ Fetched.lr = core.lr /\ Fetched.r13 = core.r13 /\ Fetched.msp = core.msp
         /\ Fetched.psp = core.psp /\ Fetched.spsel = core.spsel /\ Fetched.mem = core.mem
         /\ Fetched.hist = core.hist /\ Fetched.fault = core.fault
<1>1. PICK V : core \in [Fields -> V] BY DEF CoreOK, IsCore
<1> DEFINE pc == (core.pc + 1) % 3
<1>2. Fetched = [core EXCEPT !.updated = FALSE, !.pc = pc] BY DEF Fetched
<1> HIDE DEF pc
<1>3. Fetched \in [Fields -> V \cup {FALSE, pc}] BY <1>1, <1>2, FieldsAre
<1>4. /\ Fetched.pc = pc /\ Fetched.ipsr = core.ipsr /\ Fetched.it = core.it
      /\ Fetched.lr = core.lr /\ Fetched.r13 = core.r13 /\ Fetched.msp = core.msp
      /\ Fetched.psp = core.psp /\ Fetched.spsel = core.spsel /\ Fetched.mem = core.mem
      /\ Fetched.hist = core.hist /\ Fetched.fault = core.fault
  BY <1>1, <1>2, FieldsAre
<1>5. /\ Fetched.pend = core.pend /\ Fetched.prio = core.prio /\ Fetched.updated = FALSE
      /\ Fetched.waiting = core.waiting /\ Fetched.basepri = core.basepri
  BY <1>1, <1>2, FieldsAre
<1>6. IsCore(Fetched) BY <1>3 DEF IsCore
<1>7. CoreOK(Fetched) BY <1>4, <1>5, <1>6 DEF CoreOK, NvicOK
<1> QED BY <1>4, <1>6, <1>7 DEF pc

\* The instruction at 0 leaves the stacks alone, whatever else it does.
Bystander == \/ WritePrimask \/ WriteBasepri \/ WriteISER \/ WriteICER \/ WriteISPR
             \/ WriteICPR \/ WriteIPR \/ WriteICSR \/ SVC \/ WFI \/ WFE \/ FPU \/ WriteCPACR

LEMMA BystanderRuns ==
  ASSUME CoreOK(core), Bystander, ~FaultsInIT
  PROVE  core.pc = 0 /\ \E d : IsCore(d) /\ Untouched(Fetched, d) /\ Finish(d)
<1>0. core.pc = 0
  BY DEF Bystander, At, WritePrimask, WriteBasepri, WriteISER, WriteICER, WriteISPR,
     WriteICPR, WriteIPR, WriteICSR, SVC, WFI, WFE, FPU, WriteCPACR
<1>1. PICK V : Fetched \in [Fields -> V] BY FetchedFields DEF IsCore
<1> SUFFICES \E d : IsCore(d) /\ Untouched(Fetched, d) /\ Finish(d) BY <1>0
<1>2. CASE WritePrimask
  <2>1. PICK b \in BOOLEAN : Finish([Fetched EXCEPT !.primask = b, !.updated = TRUE]) BY <1>2 DEF WritePrimask
  <2> DEFINE d == [Fetched EXCEPT !.primask = b, !.updated = TRUE]
  <2>2. d \in [Fields -> V \cup {b, TRUE}] BY <1>1, FieldsAre
  <2>3. Untouched(Fetched, d) BY <1>1, FieldsAre DEF Untouched
  <2> QED BY <2>1, <2>2, <2>3 DEF IsCore
<1>3. CASE WriteBasepri
  <2>1. PICK p \in (Priority \ {0}) \cup {Unmasked} : Finish([Fetched EXCEPT !.basepri = p, !.updated = TRUE]) BY <1>3 DEF WriteBasepri
  <2> DEFINE d == [Fetched EXCEPT !.basepri = p, !.updated = TRUE]
  <2>2. d \in [Fields -> V \cup {p, TRUE}] BY <1>1, FieldsAre
  <2>3. Untouched(Fetched, d) BY <1>1, FieldsAre DEF Untouched
  <2> QED BY <2>1, <2>2, <2>3 DEF IsCore
<1>4. CASE WriteISER
  <2>1. PICK i \in Irq : Finish([Fetched EXCEPT !.ena = @ \cup {i}, !.updated = TRUE]) BY <1>4 DEF WriteISER
  <2> DEFINE d == [Fetched EXCEPT !.ena = @ \cup {i}, !.updated = TRUE]
  <2>2. d \in [Fields -> V \cup {d.ena, TRUE}] BY <1>1, FieldsAre
  <2>3. Untouched(Fetched, d) BY <1>1, FieldsAre DEF Untouched
  <2> QED BY <2>1, <2>2, <2>3 DEF IsCore
<1>5. CASE WriteICER
  <2>1. PICK i \in Irq : Finish([Fetched EXCEPT !.ena = @ \ {i}]) BY <1>5 DEF WriteICER
  <2> DEFINE d == [Fetched EXCEPT !.ena = @ \ {i}]
  <2>2. d \in [Fields -> V \cup {d.ena}] BY <1>1, FieldsAre
  <2>3. Untouched(Fetched, d) BY <1>1, FieldsAre DEF Untouched
  <2> QED BY <2>1, <2>2, <2>3 DEF IsCore
<1>6. CASE WriteISPR
  <2>1. PICK i \in Irq : Finish([Fetched EXCEPT !.pend = @ \cup {i}, !.updated = TRUE]) BY <1>6 DEF WriteISPR
  <2> DEFINE d == [Fetched EXCEPT !.pend = @ \cup {i}, !.updated = TRUE]
  <2>2. d \in [Fields -> V \cup {d.pend, TRUE}] BY <1>1, FieldsAre
  <2>3. Untouched(Fetched, d) BY <1>1, FieldsAre DEF Untouched
  <2> QED BY <2>1, <2>2, <2>3 DEF IsCore
<1>7. CASE WriteICPR
  <2>1. PICK i \in Irq : Finish([Fetched EXCEPT !.pend = @ \ {i}]) BY <1>7 DEF WriteICPR
  <2> DEFINE d == [Fetched EXCEPT !.pend = @ \ {i}]
  <2>2. d \in [Fields -> V \cup {d.pend}] BY <1>1, FieldsAre
  <2>3. Untouched(Fetched, d) BY <1>1, FieldsAre DEF Untouched
  <2> QED BY <2>1, <2>2, <2>3 DEF IsCore
<1>8. CASE WriteIPR
  <2>1. PICK i \in Irq, p \in Priority : Finish([Fetched EXCEPT !.prio[i] = p, !.updated = TRUE]) BY <1>8 DEF WriteIPR
  <2> DEFINE d == [Fetched EXCEPT !.prio[i] = p, !.updated = TRUE]
  <2>2. d \in [Fields -> V \cup {d.prio, TRUE}] BY <1>1, FieldsAre
  <2>3. Untouched(Fetched, d) BY <1>1, FieldsAre DEF Untouched
  <2> QED BY <2>1, <2>2, <2>3 DEF IsCore
<1>9. CASE WriteICSR
  <2>1. PICK e \in SysExc \ {EXC_SVCALL} :
          \/ Finish([Fetched EXCEPT !.pend = @ \cup {e}, !.updated = TRUE])
          \/ Finish([Fetched EXCEPT !.pend = @ \ {e}])
    BY <1>9 DEF WriteICSR
  <2> DEFINE d == [Fetched EXCEPT !.pend = @ \cup {e}, !.updated = TRUE]
             f == [Fetched EXCEPT !.pend = @ \ {e}]
  <2>2. d \in [Fields -> V \cup {d.pend, TRUE}] /\ Untouched(Fetched, d)
    BY <1>1, FieldsAre DEF Untouched
  <2>3. f \in [Fields -> V \cup {f.pend}] /\ Untouched(Fetched, f)
    BY <1>1, FieldsAre DEF Untouched
  <2> QED BY <2>1, <2>2, <2>3 DEF IsCore
<1>10. CASE SVC
  <2> DEFINE d == [Fetched EXCEPT !.pend = @ \cup {EXC_SVCALL}, !.updated = TRUE]
  <2>1. Finish(d) BY <1>10 DEF SVC
  <2>2. d \in [Fields -> V \cup {d.pend, TRUE}] BY <1>1, FieldsAre
  <2>3. Untouched(Fetched, d) BY <1>1, FieldsAre DEF Untouched
  <2> QED BY <2>1, <2>2, <2>3 DEF IsCore
<1>11. CASE WFI
  <2> DEFINE d == [Fetched EXCEPT !.waiting = TRUE]
  <2>1. Finish(d) BY <1>11 DEF WFI
  <2>2. d \in [Fields -> V \cup {TRUE}] BY <1>1, FieldsAre
  <2>3. Untouched(Fetched, d) BY <1>1, FieldsAre DEF Untouched
  <2> QED BY <2>1, <2>2, <2>3 DEF IsCore
<1>12. CASE WFE
  <2> DEFINE d == IF core.event THEN [Fetched EXCEPT !.event = FALSE]
                  ELSE [Fetched EXCEPT !.waiting = TRUE]
  <2>1. Finish(d) BY <1>12 DEF WFE
  <2>2. d \in [Fields -> V \cup {FALSE, TRUE}] BY <1>1, FieldsAre
  <2>3. Untouched(Fetched, d) BY <1>1, FieldsAre DEF Untouched
  <2> QED BY <2>1, <2>2, <2>3 DEF IsCore
<1>13. CASE FPU
  <2> DEFINE d == [Fetched EXCEPT !.fault = ~core.cpacr]
  <2>1. Finish(d) BY <1>13 DEF FPU
  <2>2. d \in [Fields -> V \cup {d.fault}] BY <1>1, FieldsAre
  <2>3. Untouched(Fetched, d) BY <1>1, FieldsAre DEF Untouched
  <2> QED BY <2>1, <2>2, <2>3 DEF IsCore
<1>14. CASE WriteCPACR
  <2> DEFINE d == [Fetched EXCEPT !.cpacr = TRUE]
  <2>1. Finish(d) BY <1>14 DEF WriteCPACR
  <2>2. d \in [Fields -> V \cup {TRUE}] BY <1>1, FieldsAre
  <2>3. Untouched(Fetched, d) BY <1>1, FieldsAre DEF Untouched
  <2> QED BY <2>1, <2>2, <2>3 DEF IsCore
<1> QED BY <1>2, <1>3, <1>4, <1>5, <1>6, <1>7, <1>8, <1>9, <1>10, <1>11, <1>12, <1>13, <1>14 DEF Bystander

LEMMA FetchedNests ==
  ASSUME CoreOK(core), Nested(core), core.pc \in {0, 1}
  PROVE  /\ core.it = 0 /\ Fetched.it = 0 /\ Fetched.pc = core.pc + 1
         /\ HistOK(Fetched.hist) /\ StackOK(Fetched) /\ FramesOK(Fetched)
         /\ core.pc = 0 => Nested(Fetched)
<1>1. core.it = 0 /\ Fetched.it = 0 /\ Fetched.pc = core.pc + 1
  BY FetchedFields DEF Nested, PlacesOK, ItAt
<1>2. HistOK(Fetched.hist) BY FetchedFields DEF Nested
<1>3. StackOK(Fetched) BY FetchedFields DEF Nested, StackOK, NoPsp
<1>4. FramesOK(Fetched) BY FetchedFields DEF Nested, FramesOK
<1>5. core.pc = 0 => PlacesOK(Fetched)
  BY <1>1, FetchedFields DEF Nested, PlacesOK, ItAt
<1> QED BY <1>1, <1>2, <1>3, <1>4, <1>5 DEF Nested

\* What a step may do: nest as before, and go back to the newest context or to none.
Kept == /\ Nested(core')
        /\ Len(core'.hist) < Len(core.hist) => Context(core', core'.pc) = Last(core.hist)

LEMMA HistGrows ==
  ASSUME NEW h, NEW g, \E S : h \in Seq(S), g = h \/ \E x : g = Append(h, x)
  PROVE  ~(Len(g) < Len(h))
<1>1. Len(h) \in Nat BY AppendIs
<1>2. CASE g = h BY <1>1, <1>2
<1>3. CASE \E x : g = Append(h, x) BY <1>1, <1>3, AppendIs
<1> QED BY <1>2, <1>3

\* The end of an instruction at 0, which leaves the history alone.
LEMMA FinishAtZero ==
  ASSUME CoreOK(core), Nested(core), core.pc = 0, NEW d, IsCore(d), Nested(d), d.it = 0,
         d.hist = core.hist, Finish(d)
  PROVE  Kept
<1>1. core.it = 0 BY FetchedNests
<1>2. core' = DeliverFault(d, 0) BY <1>1 DEF Finish
<1>3. \E S : d.hist \in Seq(S) BY DEF CoreOK
<1>4. d.it = ItAt(0) BY DEF ItAt
<1>5. Nested(core') BY <1>2, <1>3, <1>4, DeliveryNests
<1>6. FaultTaken(d, core') BY <1>2, Delivered
<1>7. core'.hist = d.hist \/ \E x : core'.hist = Append(d.hist, x) BY <1>6 DEF FaultTaken
<1>8. ~(Len(core'.hist) < Len(d.hist)) BY <1>3, <1>7, HistGrows
<1> QED BY <1>5, <1>8 DEF Kept

\* The end of an instruction that raises no fault, outside an IT block.
LEMMA FinishNoFault ==
  ASSUME NEW d, core.it = 0, ~d.fault, Finish(d)
  PROVE  core' = d
BY DEF Finish, DeliverFault

LEMMA PushPopNests ==
  ASSUME CoreOK(core), Nested(core), Push \/ Pop
  PROVE  Kept
<1>1. core.pc = 0 BY DEF Push, Pop, At
<1>2. PICK V : Fetched \in [Fields -> V] BY FetchedFields DEF IsCore
<1>3. Floor \in Nat
      /\ \A k \in 1 .. Len(core.hist) : ~OnPsp(core.hist[k]) => Top(core.hist[k]) <= Floor
  BY FloorIs
<1>4. core.r13 \in Nat /\ Fetched.r13 = core.r13 /\ Fetched.hist = core.hist
  BY FetchedFields DEF Nested, PlacesOK
<1>5. PICK r \in Nat : /\ Finish([Fetched EXCEPT !.r13 = r])
                       /\ r >= core.r13 \/ r >= Floor
  <2>1. CASE Push
    <3>1. Finish([Fetched EXCEPT !.r13 = core.r13 + 1]) BY <1>4, <2>1 DEF Push
    <3>2. core.r13 + 1 \in Nat /\ core.r13 + 1 >= core.r13 BY <1>4
    <3> QED BY <3>1, <3>2
  <2>2. CASE Pop
    <3>1. Finish([Fetched EXCEPT !.r13 = core.r13 - 1]) /\ core.r13 > Floor
      BY <1>4, <2>2 DEF Pop
    <3>2. core.r13 - 1 \in Nat /\ core.r13 - 1 >= Floor BY <1>3, <1>4, <3>1
    <3> QED BY <3>1, <3>2
  <2> QED BY <2>1, <2>2
<1> DEFINE d == [Fetched EXCEPT !.r13 = r]
<1>6. d \in [Fields -> V \cup {r}] BY <1>2, FieldsAre
<1>7. /\ d.ipsr = Fetched.ipsr /\ d.pc = Fetched.pc /\ d.it = Fetched.it /\ d.lr = Fetched.lr
      /\ d.r13 = r /\ d.msp = Fetched.msp /\ d.psp = Fetched.psp
      /\ d.spsel = Fetched.spsel /\ d.mem = Fetched.mem /\ d.hist = Fetched.hist
  BY <1>2, FieldsAre
<1>8. Finish(d) BY <1>5
<1> HIDE DEF d
<1>9. Nested(Fetched) /\ Fetched.it = 0 BY <1>1, FetchedNests
<1>10. HistOK(d.hist) BY <1>7, <1>9 DEF Nested
<1>11. PlacesOK(d) BY <1>7, <1>9 DEF Nested, PlacesOK
<1>12. FramesOK(d) BY <1>7, <1>9 DEF Nested, FramesOK
<1>13. StackOK(d)
  <2>1. ASSUME NEW k \in 1 .. Len(d.hist), ~OnPsp(d.hist[k]) PROVE Top(d.hist[k]) <= d.r13
    <3>1. d.hist[k] = core.hist[k] /\ k \in 1 .. Len(core.hist) BY <1>4, <1>7
    <3>2. Top(core.hist[k]) <= core.r13 BY <2>1, <3>1 DEF Nested, StackOK
    <3>3. Top(core.hist[k]) <= Floor BY <1>3, <2>1, <3>1
    <3>4. Top(core.hist[k]) \in Nat BY <3>1, TopIs DEF Nested, HistOK
    <3>5. Top(core.hist[k]) <= r BY <1>3, <1>4, <1>5, <3>2, <3>3, <3>4
    <3> QED BY <1>7, <3>1, <3>5
  <2>2. \A k \in 1 .. Len(d.hist) : OnPsp(d.hist[k]) => d.psp = Top(d.hist[k])
    BY <1>7, <1>9 DEF Nested, StackOK
  <2>3. d.ipsr = Thread <=> Len(d.hist) = 0 BY <1>7, <1>9 DEF Nested, StackOK
  <2>4. Len(d.hist) > 0 => NoPsp(d) /\ d.lr = Code(d.hist[Len(d.hist)])
    BY <1>7, <1>9 DEF Nested, StackOK, NoPsp
  <2> QED BY <2>1, <2>2, <2>3, <2>4 DEF StackOK
<1>14. Nested(d) /\ IsCore(d) BY <1>6, <1>10, <1>11, <1>12, <1>13 DEF Nested, IsCore
<1> QED BY <1>1, <1>4, <1>7, <1>8, <1>9, <1>14, FinishAtZero

\* The IT instruction, and the only instruction of its block.
LEMMA BlockNests ==
  ASSUME CoreOK(core), Nested(core), ~core.fault, IT \/ (Plain /\ core.pc = 2)
  PROVE  Kept
<1>1. PICK V : Fetched \in [Fields -> V] BY FetchedFields DEF IsCore
<1>2. PICK a : /\ core' = a /\ HistOK(a.hist) /\ PlacesOK(a) /\ StackOK(a) /\ FramesOK(a)
               /\ a.hist = core.hist
  <2>1. CASE IT
    <3> DEFINE a == [Fetched EXCEPT !.it = 1]
    <3>1. core.pc = 1 /\ Finish(a) BY <2>1 DEF IT, At
    <3>2. /\ a.ipsr = Fetched.ipsr /\ a.pc = Fetched.pc /\ a.it = 1 /\ a.lr = Fetched.lr
          /\ a.r13 = Fetched.r13 /\ a.msp = Fetched.msp /\ a.psp = Fetched.psp
          /\ a.spsel = Fetched.spsel /\ a.mem = Fetched.mem /\ a.hist = Fetched.hist
          /\ a.fault = Fetched.fault
      BY <1>1, FieldsAre
    <3> HIDE DEF a
    <3>3. /\ core.it = 0 /\ Fetched.pc = 2
          /\ HistOK(Fetched.hist) /\ StackOK(Fetched) /\ FramesOK(Fetched)
      BY <3>1, FetchedNests
    <3>4. core' = a BY <3>1, <3>2, <3>3, FinishNoFault, FetchedFields
    <3>5. PlacesOK(a) BY <3>2, <3>3, FetchedFields DEF Nested, PlacesOK, ItAt
    <3>6. StackOK(a) BY <3>2, <3>3 DEF StackOK, NoPsp
    <3>7. FramesOK(a) BY <3>2, <3>3 DEF FramesOK
    <3>8. HistOK(a.hist) /\ a.hist = core.hist BY <3>2, <3>3, FetchedFields
    <3> QED BY <3>4, <3>5, <3>6, <3>7, <3>8
  <2>2. CASE Plain /\ core.pc = 2
    <3> DEFINE a == [Fetched EXCEPT !.it = AdvanceIT(@)]
    <3>1. core.it = 1 BY <2>2 DEF Nested, PlacesOK, ItAt
    <3>2. Finish(Fetched) BY <2>2 DEF Plain
    <3>3. core' = DeliverFault(a, 2) BY <2>2, <3>1, <3>2 DEF Finish
    <3>4. /\ a.ipsr = Fetched.ipsr /\ a.pc = Fetched.pc /\ a.it = AdvanceIT(Fetched.it)
          /\ a.r13 = Fetched.r13 /\ a.msp = Fetched.msp /\ a.psp = Fetched.psp
          /\ a.spsel = Fetched.spsel /\ a.mem = Fetched.mem /\ a.hist = Fetched.hist
          /\ a.fault = Fetched.fault /\ a.lr = Fetched.lr
      BY <1>1, FieldsAre
    <3> HIDE DEF a
    <3>5. core' = a BY <3>3, <3>4, FetchedFields DEF DeliverFault
    <3>6. a.it = 0 /\ a.pc = 0
      BY <2>2, <3>1, <3>4, FetchedFields DEF AdvanceIT
    <3>7. PlacesOK(a) BY <3>4, <3>6, FetchedFields DEF Nested, PlacesOK, ItAt
    <3>8. StackOK(a) BY <3>4, FetchedFields DEF Nested, StackOK, NoPsp
    <3>9. FramesOK(a) BY <3>4, FetchedFields DEF Nested, FramesOK
    <3>10. HistOK(a.hist) /\ a.hist = core.hist BY <3>4, FetchedFields DEF Nested
    <3> QED BY <3>5, <3>7, <3>8, <3>9, <3>10
  <2> QED BY <2>1, <2>2
<1>3. Nested(core') BY <1>2 DEF Nested
<1>4. ~(Len(core'.hist) < Len(core.hist)) BY <1>2, HistGrows DEF CoreOK
<1> QED BY <1>3, <1>4 DEF Kept

\* Thread changes its stack: it has interrupted nothing.
LEMMA WriteControlNests ==
  ASSUME CoreOK(core), Nested(core), WriteControl
  PROVE  Kept
<1>1. core.pc = 0 /\ core.ipsr = Thread BY DEF WriteControl, At
<1>2. PICK b \in BOOLEAN : Finish(SyncFromBanked([SyncToBanked(Fetched) EXCEPT !.spsel = b]))
  BY DEF WriteControl
<1>3. Nested(Fetched) /\ Fetched.it = 0 /\ Fetched.hist = core.hist
  BY <1>1, FetchedNests, FetchedFields
<1>4. PICK V : Fetched \in [Fields -> V] BY FetchedFields DEF IsCore
<1> DEFINE s == SyncToBanked(Fetched)
           t == [s EXCEPT !.spsel = b]
           d == SyncFromBanked(t)
<1>5. s \in [Fields -> V] BY <1>4, FieldsAre DEF SyncToBanked
<1>6. /\ s.ipsr = Fetched.ipsr /\ s.pc = Fetched.pc /\ s.it = Fetched.it /\ s.lr = Fetched.lr
      /\ s.mem = Fetched.mem /\ s.hist = Fetched.hist
      /\ s.psp \in {Fetched.psp, Fetched.r13} /\ s.msp \in {Fetched.msp, Fetched.r13}
  BY <1>4, FieldsAre DEF SyncToBanked
<1> HIDE DEF s
<1>7. t \in [Fields -> V \cup {b}] BY <1>5, FieldsAre
<1>8. /\ t.ipsr = s.ipsr /\ t.pc = s.pc /\ t.it = s.it /\ t.lr = s.lr /\ t.mem = s.mem
      /\ t.hist = s.hist /\ t.psp = s.psp /\ t.msp = s.msp
  BY <1>5, FieldsAre
<1>9. t.spsel = b BY <1>5, FieldsAre
<1> HIDE DEF t
<1>10. d \in [Fields -> V \cup {b}] BY <1>7, FieldsAre DEF SyncFromBanked
<1>11. /\ d.ipsr = t.ipsr /\ d.pc = t.pc /\ d.it = t.it /\ d.lr = t.lr /\ d.mem = t.mem
       /\ d.hist = t.hist /\ d.psp = t.psp /\ d.msp = t.msp /\ d.r13 \in {t.psp, t.msp}
  BY <1>7, FieldsAre DEF SyncFromBanked
<1>12. d.spsel = t.spsel BY <1>7, FieldsAre DEF SyncFromBanked
<1>13. Finish(d) BY <1>2 DEF t, s
<1> HIDE DEF d
<1>14. PlacesOK(d)
  <2>1. d.psp \in Nat /\ d.msp \in Nat /\ d.r13 \in Nat
    BY <1>3, <1>6, <1>8, <1>11 DEF Nested, PlacesOK
  <2>2. d.pc \in 0 .. 2 /\ d.it = ItAt(d.pc)
    BY <1>3, <1>6, <1>8, <1>11 DEF Nested, PlacesOK
  <2>3. d.spsel \in BOOLEAN BY <1>9, <1>12
  <2> QED BY <2>1, <2>2, <2>3 DEF PlacesOK
<1>15. d.hist = core.hist /\ d.ipsr = Thread /\ d.mem = Fetched.mem /\ d.it = 0
  BY <1>1, <1>3, <1>6, <1>8, <1>11, FetchedFields
<1>16. Len(core.hist) = 0 BY <1>1 DEF Nested, StackOK
<1>17. HistOK(d.hist) BY <1>3, <1>15 DEF Nested
<1>18. StackOK(d) BY <1>15, <1>16 DEF StackOK
<1>19. FramesOK(d) BY <1>3, <1>15 DEF Nested, FramesOK
<1>20. Nested(d) /\ IsCore(d) BY <1>10, <1>14, <1>17, <1>18, <1>19 DEF Nested, IsCore
<1> QED BY <1>1, <1>13, <1>15, <1>20, FinishAtZero

LEMMA ReturnKeeps ==
  ASSUME CoreOK(core), Nested(core), ~core.fault, ~FaultsInIT, Return
  PROVE  Kept
<1> DEFINE d == ExceptionReturn(Fetched, core.lr)
<1>1. /\ core.pc = 0 /\ core.ipsr # Thread /\ core.r13 = Floor /\ Finish(d)
  BY DEF Return, At
<1>2. /\ IsCore(Fetched) /\ Fetched.lr = core.lr /\ Fetched.hist = core.hist
      /\ Fetched.r13 = core.r13 /\ Fetched.ipsr = core.ipsr /\ Fetched.fault = core.fault
  BY FetchedFields
<1>3. Nested(Fetched) /\ core.it = 0 BY <1>1, FetchedNests
<1>4. LET w == Fetched.hist[Len(Fetched.hist)] IN OnPsp(w) \/ Fetched.r13 = Top(w)
  <2>1. Len(core.hist) > 0
    <3>1. Len(core.hist) \in Nat BY AppendIs DEF CoreOK
    <3>2. core.ipsr = Thread <=> Len(core.hist) = 0 BY DEF Nested, StackOK
    <3> QED BY <1>1, <3>1, <3>2
  <2> QED BY <1>1, <1>2, <2>1, FloorIs
<1>5. \E S : Fetched.hist \in Seq(S) BY <1>2 DEF CoreOK
<1>6. Nested(d) /\ Context(d, d.pc) = Last(Fetched.hist)
  BY <1>1, <1>2, <1>3, <1>4, <1>5, ReturnNests
<1>7. d.fault = Fetched.fault BY <1>2, Returned
<1> HIDE DEF d
<1>8. core' = d BY <1>1, <1>2, <1>3, <1>7, FinishNoFault
<1> QED BY <1>2, <1>6, <1>8 DEF Kept

LEMMA InstructionKeeps ==
  ASSUME CoreOK(core), Nested(core), ~core.fault, ~FaultsInIT, Instruction
  PROVE  Kept
<1>1. CASE Bystander \/ (Plain /\ core.pc # 2)
  <2>1. core.pc = 0 /\ \E d : IsCore(d) /\ Untouched(Fetched, d) /\ Finish(d)
    <3>1. CASE Bystander BY <3>1, BystanderRuns
    <3>2. CASE Plain /\ core.pc # 2
      <4>1. core.pc = 0 /\ Finish(Fetched) BY <3>2 DEF Plain, At
      <4> QED BY <4>1, FetchedFields DEF Untouched
    <3> QED BY <1>1, <3>1, <3>2
  <2>2. PICK d : IsCore(d) /\ Untouched(Fetched, d) /\ Finish(d) BY <2>1
  <2>3. Nested(Fetched) /\ Fetched.it = 0 BY <2>1, FetchedNests
  <2>4. Nested(d) /\ d.it = 0 /\ d.hist = core.hist
    BY <2>2, <2>3, UntouchedNests, FetchedFields DEF Untouched
  <2> QED BY <2>1, <2>2, <2>4, FinishAtZero
<1>2. CASE IT \/ (Plain /\ core.pc = 2) BY <1>2, BlockNests
<1>3. CASE Push \/ Pop BY <1>3, PushPopNests
<1>4. CASE WriteControl BY <1>4, WriteControlNests
<1>5. CASE Return BY <1>5, ReturnKeeps
<1>6. CASE Plain
  <2>1. CASE core.pc = 2 BY <1>2, <1>6, <2>1
  <2>2. CASE core.pc # 2 BY <1>1, <1>6, <2>2
  <2> QED BY <2>1, <2>2
<1>7. Bystander \/ Plain \/ IT \/ Push \/ Pop \/ WriteControl \/ Return
  BY Zenon DEF Instruction, Bystander
<1> QED BY <1>1, <1>2, <1>3, <1>4, <1>5, <1>6, <1>7

-----------------------------------------------------------------------------
(* Returns: entries, and what is outside the core *)

LEMMA LeastOf ==
  ASSUME NEW S, S \subseteq Nat, S # {}
  PROVE  Least(S) \in S /\ \A y \in S : Least(S) <= y
<1>1. PICK x \in S : \A y \in S : ~ (<<y, x>> \in OpToRel(<, Nat))
  BY NatLessThanWellFounded, WFMin
<1>2. ASSUME NEW y \in S PROVE x <= y
  <2>1. CASE y < x
    <3>1. <<y, x>> \in Nat \X Nat BY <2>1
    <3>2. <<y, x>> \in {ss \in Nat \X Nat : ss[1] < ss[2]} BY <2>1, <3>1
    <3>3. <<y, x>> \in OpToRel(<, Nat) BY <3>2, Zenon DEF OpToRel
    <3> QED BY <1>1, <3>3
  <2> QED BY <2>1
<1> QED BY <1>2 DEF Least

\* A check chooses among the exceptions that can be taken.
LEMMA ChosenIs ==
  ASSUME NEW c, NvicOK(c), Takeable(c) # {}
  PROVE  Chosen(c) \in Takeable(c)
<1> DEFINE T == Takeable(c)
           I == T \cap Irq
           P == {c.prio[i] : i \in I}
           best == Least(P)
           B == {i \in I : c.prio[i] = best}
<1>1. T \subseteq Nat
  <2>1. T \subseteq Irq \cup SysExc BY DEF Takeable, NvicOK
  <2>2. Irq \cup SysExc \subseteq Nat BY ConstantsAre
  <2> QED BY <2>1, <2>2
<1>2. Chosen(c) = IF T \ Irq # {} THEN Least(T \ Irq) ELSE Least(B) BY DEF Chosen
<1>3. P \subseteq Nat BY DEF NvicOK
<1> HIDE DEF T
<1>4. CASE T \ Irq # {}
  <2>1. Least(T \ Irq) \in T \ Irq BY <1>1, <1>4, LeastOf
  <2> QED BY <1>2, <1>4, <2>1 DEF T
<1>5. CASE T \ Irq = {}
  <2>1. I # {} BY <1>5 DEF T
  <2>2. P # {} BY <2>1
  <2>3. best \in P BY <1>3, <2>2, LeastOf
  <2>4. B # {} /\ B \subseteq Nat BY <1>1, <2>3
  <2> HIDE DEF B
  <2>5. Least(B) \in B BY <2>4, LeastOf
  <2>6. Least(B) \in T BY <2>5 DEF B
  <2> QED BY <1>2, <1>5, <2>6 DEF T
<1> QED BY <1>4, <1>5

LEMMA CheckNests ==
  ASSUME NEW c, CoreOK(c), Nested(c)
  PROVE  LET d == CheckForInterrupts(c)
         IN  Nested(d) /\ ~(Len(d.hist) < Len(c.hist))
<1> DEFINE d == CheckForInterrupts(c)
           e == Chosen(c)
<1>1. PICK V : c \in [Fields -> V] BY DEF CoreOK, IsCore
<1>2. CASE Takeable(c) = {}
  <2>1. d = [c EXCEPT !.updated = FALSE] BY <1>2 DEF CheckForInterrupts
  <2> HIDE DEF d
  <2>2. Untouched(c, d) BY <1>1, <2>1, FieldsAre DEF Untouched
  <2>3. Nested(d) BY <2>2, UntouchedNests
  <2>4. d.hist = c.hist BY <2>2 DEF Untouched
  <2>5. ~(Len(d.hist) < Len(c.hist)) BY <2>4, HistGrows DEF CoreOK
  <2> QED BY <2>3, <2>5 DEF d
<1>3. CASE Takeable(c) # {}
  <2> DEFINE b == [c EXCEPT !.pend = @ \ {e}]
  <2>1. d = ExceptionEntry(b, e, c.pc) BY <1>3 DEF CheckForInterrupts
  <2>2. e # Thread
    <3>1. e \in Irq \cup SysExc BY <1>3, ChosenIs DEF CoreOK, Takeable, NvicOK
    <3> QED BY <3>1, ConstantsAre DEF Thread
  <2> HIDE DEF d, e
  <2>3. b \in [Fields -> V \cup {c.pend \ {e}}] BY <1>1, FieldsAre
  <2>4. Untouched(c, b) BY <1>1, FieldsAre DEF Untouched
  <2> HIDE DEF b
  <2>5. IsCore(b) /\ Nested(b) BY <2>3, <2>4, UntouchedNests DEF IsCore
  <2>6. b.hist = c.hist /\ b.it = c.it BY <2>4 DEF Untouched
  <2>7. \E S : b.hist \in Seq(S) BY <2>6 DEF CoreOK
  <2>8. c.pc \in 0 .. 2 /\ b.it = ItAt(c.pc) BY <2>6 DEF Nested, PlacesOK
  <2>9. Nested(d) BY <2>1, <2>2, <2>5, <2>7, <2>8, EntryNests
  <2>10. Entered(b, e, d) BY <2>1, <2>5, Entry
  <2>11. d.hist = c.hist \/ \E x : d.hist = Append(c.hist, x) BY <2>6, <2>10 DEF Entered
  <2>12. ~(Len(d.hist) < Len(c.hist)) BY <2>11, HistGrows DEF CoreOK
  <2> QED BY <2>9, <2>12 DEF d
<1> QED BY <1>2, <1>3

LEMMA LineKeeps ==
  ASSUME CoreOK(core), Nested(core), NEW i \in Irq, NEW v \in BOOLEAN,
         core' = SetInterrupt(core, i, v)
  PROVE  Kept
<1>1. PICK V : core \in [Fields -> V] BY DEF CoreOK, IsCore
<1>2. CASE ~v
  <2>1. core' = [core EXCEPT !.pend = @ \ {i}] BY <1>2 DEF SetInterrupt
  <2>2. Untouched(core, core') BY <1>1, <2>1, FieldsAre DEF Untouched
  <2>3. Nested(core') BY <2>2, UntouchedNests
  <2>4. ~(Len(core'.hist) < Len(core.hist)) BY <2>2, HistGrows DEF CoreOK, Untouched
  <2> QED BY <2>3, <2>4 DEF Kept
<1>3. CASE v /\ i \in core.pend
  <2>1. core' = core BY <1>3 DEF SetInterrupt
  <2>2. ~(Len(core'.hist) < Len(core.hist)) BY <2>1, HistGrows DEF CoreOK
  <2> QED BY <2>1, <2>2 DEF Kept
<1>4. CASE v /\ i \notin core.pend
  <2> DEFINE d == [core EXCEPT !.pend = @ \cup {i}, !.updated = TRUE]
  <2>1. d \in [Fields -> V \cup {core.pend \cup {i}, TRUE}] BY <1>1, FieldsAre
  <2>2. /\ d.pend = core.pend \cup {i} /\ d.ena = core.ena /\ d.prio = core.prio
        /\ d.primask = core.primask /\ d.basepri = core.basepri /\ d.ipsr = core.ipsr
        /\ d.waiting = core.waiting /\ d.updated = TRUE /\ d.hist = core.hist
    BY <1>1, FieldsAre
  <2>3. Untouched(core, d) BY <1>1, FieldsAre DEF Untouched
  <2>4. core' = IF ~d.waiting THEN d
                ELSE [CheckForInterrupts(d) EXCEPT !.waiting = Takeable(d) = {}]
    BY <1>4 DEF SetInterrupt
  <2> HIDE DEF d
  <2>5. CoreOK(d) /\ Nested(d)
    BY <2>1, <2>2, <2>3, UntouchedNests DEF CoreOK, IsCore, NvicOK
  <2>6. CASE ~d.waiting
    <3>1. core' = d BY <2>4, <2>6
    <3>2. ~(Len(core'.hist) < Len(core.hist)) BY <2>2, <3>1, HistGrows DEF CoreOK
    <3> QED BY <2>5, <3>1, <3>2 DEF Kept
  <2>7. CASE d.waiting
    <3> DEFINE e == CheckForInterrupts(d)
               asleep == Takeable(d) = {}
    <3>1. core' = [e EXCEPT !.waiting = asleep] BY <2>4, <2>7
    <3>2. Nested(e) /\ ~(Len(e.hist) < Len(d.hist)) BY <2>5, CheckNests
    <3>3. CoreOK(e) BY <2>5, Checked
    <3> HIDE DEF e, asleep
    <3>4. PICK U : e \in [Fields -> U] BY <3>3 DEF CoreOK, IsCore
    <3>5. Untouched(e, core') BY <3>1, <3>4, FieldsAre DEF Untouched
    <3>6. Nested(core') BY <3>2, <3>5, UntouchedNests
    <3>7. core'.hist = e.hist BY <3>5 DEF Untouched
    <3> QED BY <2>2, <3>2, <3>6, <3>7 DEF Kept
  <2> QED BY <2>6, <2>7
<1> QED BY <1>2, <1>3, <1>4

LEMMA SignalKeeps ==
  ASSUME CoreOK(core), Nested(core), SysTick \/ OtherCoreSEV
  PROVE  Kept
<1>1. PICK V : core \in [Fields -> V] BY DEF CoreOK, IsCore
<1>2. Untouched(core, core')
  <2>1. CASE SysTick
    <3>1. core' = [core EXCEPT !.pend = @ \cup {EXC_SYSTICK}, !.updated = TRUE]
      BY <2>1 DEF SysTick
    <3> QED BY <1>1, <3>1, FieldsAre DEF Untouched
  <2>2. CASE OtherCoreSEV
    <3>1. core' = [core EXCEPT !.waiting = FALSE] \/ core' = [core EXCEPT !.event = TRUE]
      BY <2>2 DEF OtherCoreSEV
    <3> QED BY <1>1, <3>1, FieldsAre DEF Untouched
  <2> QED BY <2>1, <2>2
<1>3. Nested(core') BY <1>2, UntouchedNests
<1>4. ~(Len(core'.hist) < Len(core.hist)) BY <1>2, HistGrows DEF CoreOK, Untouched
<1> QED BY <1>3, <1>4 DEF Kept

LEMMA TakeExceptionKeeps ==
  ASSUME CoreOK(core), Nested(core), TakeException
  PROVE  Kept
<1> DEFINE d == CheckForInterrupts(core)
<1>1. core' = DeliverFault(d, d.pc) BY DEF TakeException
<1>2. CoreOK(d) BY Checked
<1>3. Nested(d) /\ ~(Len(d.hist) < Len(core.hist)) BY CheckNests
<1> HIDE DEF d
<1>4. IsCore(d) /\ (\E S : d.hist \in Seq(S)) BY <1>2 DEF CoreOK
<1>5. d.pc \in 0 .. 2 /\ d.it = ItAt(d.pc) BY <1>3 DEF Nested, PlacesOK
<1>6. Nested(core') BY <1>1, <1>3, <1>4, <1>5, DeliveryNests
<1>7. FaultTaken(d, core') BY <1>1, <1>4, Delivered
<1>8. core'.hist = d.hist \/ \E x : core'.hist = Append(d.hist, x) BY <1>7 DEF FaultTaken
<1>9. ~(Len(core'.hist) < Len(d.hist)) BY <1>4, <1>8, HistGrows
<1>10. Len(core'.hist) \in Nat /\ Len(d.hist) \in Nat /\ Len(core.hist) \in Nat
  <2>1. Len(d.hist) \in Nat /\ Len(core.hist) \in Nat BY <1>4, AppendIs DEF CoreOK
  <2>2. CASE core'.hist = d.hist BY <2>1, <2>2
  <2>3. CASE \E x : core'.hist = Append(d.hist, x)
    <3>1. PICK x : core'.hist = Append(d.hist, x) BY <2>3
    <3>2. Len(Append(d.hist, x)) = Len(d.hist) + 1 BY <1>4, AppendIs
    <3> QED BY <2>1, <3>1, <3>2
  <2> QED BY <1>8, <2>1, <2>2, <2>3
<1>11. ~(Len(core'.hist) < Len(core.hist)) BY <1>3, <1>9, <1>10
<1> QED BY <1>6, <1>11 DEF Kept

LEMMA NestedInit == Init => Nested(core)
<1> SUFFICES ASSUME Init PROVE Nested(core) OBVIOUS
<1>1. core.hist = <<>> /\ core.ipsr = Thread BY DEF Init
<1>2. PlacesOK(core) BY DEF Init, PlacesOK, ItAt
<1>3. Len(core.hist) = 0 BY <1>1
<1>4. HistOK(core.hist) BY <1>3 DEF HistOK
<1>5. StackOK(core) BY <1>1, <1>3 DEF StackOK
<1>6. DOMAIN core.mem = {} BY DEF Init
<1>7. FramesOK(core) BY <1>3, <1>6 DEF FramesOK
<1> QED BY <1>2, <1>4, <1>5, <1>7 DEF Nested

LEMMA NestedStep ==
  ASSUME CoreOK(core), Nested(core), ~core.fault, ~FaultsInIT, [Next]_core
  PROVE  Kept
<1>1. CASE Line BY <1>1, LineKeeps DEF Line
<1>2. CASE SysTick \/ OtherCoreSEV BY <1>2, SignalKeeps
<1>3. CASE TakeException BY <1>3, TakeExceptionKeeps
<1>4. CASE Instruction BY <1>4, InstructionKeeps
<1>5. CASE UNCHANGED core
  <2>1. ~(Len(core'.hist) < Len(core.hist)) BY <1>5, HistGrows DEF CoreOK
  <2> QED BY <1>5, <2>1 DEF Kept
<1> QED BY <1>1, <1>2, <1>3, <1>4, <1>5, Zenon DEF Next

LEMMA NestedIsSafe ==
  ASSUME CoreOK(core), Nested(core)
  PROVE  FramesSafe /\ ItStateFollowsProgram
<1> DEFINE h == core.hist
           n == Len(h)
<1>1. ItStateFollowsProgram BY DEF Nested, PlacesOK, ItAt, ItStateFollowsProgram
<1>2. FramesSafe
  <2>1. SUFFICES ASSUME NEW k \in DOMAIN core.mem
                 PROVE  k[2] <= IF k[1] = UsesPsp(core) THEN core.r13
                                ELSE IF k[1] THEN core.psp ELSE core.msp
    BY DEF FramesSafe
  <2>2. PICK j \in 1 .. n : k = Key(h[j]) BY DEF Nested, FramesOK
  <2>3. k[1] = OnPsp(h[j]) /\ k[2] = Top(h[j]) BY <2>2 DEF Key
  <2>4. n \in Nat BY AppendIs DEF CoreOK
  <2>5. n # 0 BY <2>2, <2>4
  <2>6. UsesPsp(core) = FALSE
    <3>1. core.ipsr = Thread <=> n = 0 BY DEF Nested, StackOK
    <3>2. ~UsesPsp(core) /\ UsesPsp(core) \in BOOLEAN BY <2>5, <3>1 DEF UsesPsp
    <3> QED BY <3>2
  <2>7. Top(h[j]) \in Nat BY <2>2, TopIs DEF Nested, HistOK
  <2>8. CASE OnPsp(h[j])
    <3>1. core.psp = Top(h[j]) BY <2>2, <2>8 DEF Nested, StackOK
    <3>2. k[1] = TRUE BY <2>3, <2>8 DEF OnPsp
    <3>3. k[2] = core.psp /\ core.psp \in Nat BY <2>3, <2>7, <3>1
    <3> QED BY <2>6, <3>2, <3>3
  <2>9. CASE ~OnPsp(h[j])
    <3>1. Top(h[j]) <= core.r13 BY <2>2, <2>9 DEF Nested, StackOK
    <3>2. k[1] = FALSE BY <2>3, <2>9 DEF OnPsp
    <3> QED BY <2>3, <2>6, <3>1, <3>2
  <2> QED BY <2>8, <2>9
<1> QED BY <1>1, <1>2

\* Where the instructions of an IT block neither fault nor return, and while no
\* stack overflow on the way out of a sleep leaves a fault to be delivered
\* later, every return brings back the context its entry interrupted, whatever
\* interrupted the handler meanwhile and on whichever stack; until then its
\* frame is safe, and the IT state is the program's.
THEOREM ReturnRestores == ~FaultsInIT /\ Spec /\ []~core.fault => ReturnsRestore
<1> SUFFICES ASSUME ~FaultsInIT PROVE Spec /\ []~core.fault => ReturnsRestore OBVIOUS
<1> DEFINE Inv == CoreOK(core) /\ Nested(core)
<1>1. Init => Inv BY CoreInit, NestedInit
<1>2. Inv /\ ~core.fault /\ [Next]_core => Inv'
  BY CoreStep, NestedStep DEF Kept
<1>3. Inv => FramesSafe /\ ItStateFollowsProgram BY NestedIsSafe
<1>4. Inv /\ ~core.fault /\ [Next]_core =>
        [Len(core'.hist) < Len(core.hist) => Context(core', core'.pc) = Last(core.hist)]_core
  BY NestedStep DEF Kept
<1> HIDE DEF Inv
<1> QED BY <1>1, <1>2, <1>3, <1>4, PTL DEF Spec, ReturnsRestore
=============================================================================
