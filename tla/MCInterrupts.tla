----------------------------- MODULE MCInterrupts -----------------------------
(***************************************************************************)
(* What interrupts a core: the mailboxes and locks the cores of the RP2350 *)
(* share, and the interrupt controllers of its Hazard3 cores and of the    *)
(* Cortex-M0+ cores of the RP2040.  They are checked one at a time: every  *)
(* behaviour is that of the one in focus, chosen at the start.             *)
(***************************************************************************)
EXTENDS SIOMailbox

CONSTANTS Parts,                                        \* those in question
          Irq, H3Priority, Context, NoIrq,              \* Hazard3
          Irqs, Lines, SysExc, Priority, MaxPush        \* Cortex-M0+

VARIABLES focus, cpu, line, claimed, m0

\* One interrupt, that of a peripheral; software pends the other exceptions.
M0Irqs == <<"irq0">>

\* SVCall, PendSV and SysTick have one priority.
SameSysPriority == [e \in {"SVCall", "PendSV", "SysTick"} |-> 2]

\* What firmware writes to MEICONTEXT when it leaves a handler that was not
\* nested: no preemption level, nothing for mret to restore.
Contexts == {[preempt |-> 0, ppreempt |-> 0, pppreempt |-> 0, mreteirq |-> FALSE]}

\* Interrupts and priorities are numbers, and MEICONTEXT has four fields; the exceptions
\* of the Cortex-M0+ are those its arbitration knows, and only interrupts have lines.
H3Assumption ==
  /\ Irq \subseteq Nat /\ H3Priority \subseteq Nat /\ NoIrq \notin Irq
  /\ Context \subseteq [preempt : Nat, ppreempt : Nat, pppreempt : Nat, mreteirq : BOOLEAN]
M0Assumption ==
  /\ Irqs \in Seq(STRING) /\ Priority \subseteq Nat
  /\ SysExc \subseteq {"NMI", "SVCall", "PendSV", "SysTick"}
  /\ \A i \in DOMAIN Irqs : Irqs[i] \notin {"Thread", "NMI", "SVCall", "PendSV", "SysTick"}
  /\ Lines \subseteq {Irqs[i] : i \in DOMAIN Irqs}

ASSUME MCInterruptsAssumption == H3Assumption /\ M0Assumption

XH == INSTANCE Xh3irq WITH Priority <- H3Priority
M0 == INSTANCE CortexM0 WITH SysPriority <- SameSysPriority

hazard3 == <<cpu, line, claimed>>
MCVars == <<focus, vars, hazard3, m0>>

MCInit == /\ focus \in Parts
          /\ Init /\ XH!Init /\ M0!Init

MCNext ==
  /\ UNCHANGED focus
  /\ \/ /\ focus = "mailbox"
        /\ \E c \in Core : ReadFIFO(c) \/ WriteStatus(c) \/ \E v \in Value : WriteFIFO(c, v)
        /\ UNCHANGED <<hazard3, m0>>
     \/ /\ focus = "locks"
        /\ \/ \E c \in Core, l \in Lock : ReadSpinlock(c, l) \/ WriteSpinlock(c, l)
           \/ WatchdogTrigger
        /\ UNCHANGED <<hazard3, m0>>
     \/ focus = "hazard3" /\ XH!Next /\ UNCHANGED <<vars, m0>>
     \/ focus = "m0" /\ M0!Next /\ UNCHANGED <<vars, hazard3>>

MCSpec == MCInit /\ [][MCNext]_MCVars

\* The bound on the Cortex-M0+: two contexts interrupted, and of the third one only
\* the first instructions.
Bounds == /\ Len(m0.hist) <= 2
          /\ Len(m0.hist) = 2 => m0.sp = M0!Floor(m0) /\ ~m0.waiting

\* See Xh3irq: the sorted list holds exactly the enabled and pending interrupts, and
\* MEINEXT names its best or none.
ArbitrationExact == XH!CandidatesExact /\ XH!NextIsBest

\* See Xh3irq and CortexM0: no core runs on or sleeps beside an interrupt it would take.
NoMissedInterrupt == XH!NoMissedInterrupt /\ M0!NoMissedInterrupt

\* See Xh3irq: an h3.unblock always finds its h3.block.
NoLostUnblock == XH!NoLostUnblock

\* See CortexM0: the frames below every stack pointer stay, and a return brings back
\* what its entry interrupted.
ReturnsRestore == []M0!FramesSafe /\ M0!ReturnsRestore

\* What comments in the two sources say of their code: see Xh3irq and CortexM0.
PreemptAtMost16 == XH!PreemptAtMost16
ClaimSetsPreempt == XH!ClaimSetsPreempt
SleepKeepsPriority == M0!SleepKeepsPriority
===============================================================================
