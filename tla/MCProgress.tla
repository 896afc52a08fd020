------------------------------ MODULE MCProgress ------------------------------
(***************************************************************************)
(* What must eventually happen, in the four parts where something loops or *)
(* waits: the alarms of the clock, blocks of the DMA controller, stalled   *)
(* PIO machines and the enumeration of a USB device; and the ring buffer   *)
(* that the words wait in.  Every behaviour is that of the one in focus,   *)
(* chosen at the start.                                                    *)
(***************************************************************************)
EXTENDS FIFO, Integers, TLC

CONSTANTS Alarms, Delta, HandlerDelta, TickDelta, MaxNanos, Never,
          Buffers, Packets, PacketSize, MaxIn, MaxOut

VARIABLES focus,
          list, nanos, scheduled, nanosCounter, targetNanos, phase,    \* the clock
          dma, ticking, pio, usb

clock == <<list, nanos, scheduled, nanosCounter, targetNanos, phase>>
MCVars == <<focus, vars, clock, dma, ticking, pio, usb>>

CL == INSTANCE SimulationClock WITH Alarm <- Alarms

\* Channel 0 chains to channel 1 and its items may trigger it; nothing leads back.
Ctl(en, quiet, q, to) == [EN |-> en, IRQ_QUIET |-> quiet, treq |-> q, chainTo |-> to]
Memory == [kind |-> "memory"]
DL == INSTANCE DMA WITH ChannelCount <- 16, Channels <- {0, 1}, Irqs <- {}, Dreqs <- {0}, Timers <- {}, Masks <- {}, Modes <- {0},
        Controls <- (0 :> {Ctl(TRUE, TRUE, 0, 1), Ctl(TRUE, FALSE, 63, 1)}
                  @@ 1 :> {Ctl(TRUE, FALSE, 63, 1), Ctl(FALSE, FALSE, 0, 1)}),
        Counts <- (0 :> {0, 2} @@ 1 :> {2}),
        Effects <- (0 :> {Memory, [kind |-> "register", chan |-> 1, write |-> [kind |-> "address", zero |-> FALSE]]}
                 @@ 1 :> {Memory, [kind |-> "lower", dreq |-> 0]})

\* One machine in each block: one shifts in with automatic push and lowers the flag
\* that the other waits for or raises.
Pair == 0 :> <<1>> @@ 1 :> <<2>>
Push == [op |-> "push", if |-> FALSE, block |-> TRUE, delay |-> 0]
In == [op |-> "in", bits |-> 1, delay |-> 0]
Irq(clear, wait) == [op |-> "irq", clear |-> clear, wait |-> wait, flag |-> 0, pio |-> 0, delay |-> 0]
WaitFlag == [op |-> "wait", on |-> "irq", polarity |-> TRUE, flag |-> 0, pio |-> 0, delay |-> 0]
WaitPin == [op |-> "wait", on |-> "pin", polarity |-> TRUE, flag |-> 0, pio |-> 0, delay |-> 0]
On(q, on, again) == [pio |-> q, on |-> on, restart |-> again, start |-> {}, stop |-> {}]

PS == INSTANCE PIO WITH Pios <- {0, 1}, Machines <- Pair, Flags <- {0}, Lines <- {}, Masks <- {},
        Programs <- (1 :> {<<Irq(TRUE, FALSE), In>>}
                  @@ 2 :> {<<WaitFlag>>, <<Irq(FALSE, TRUE), WaitPin>>}),
        Forced <- (1 :> {Push} @@ 2 :> {}),
        Threshold <- [m \in 1 .. 2 |-> [auto |-> TRUE, at |-> 2]],
        Depth <- 1, Full <- 2, Fed <- {}, Joins <- [m \in 1 .. 2 |-> {}],
        Controls <- {On(0, {1}, {}), On(0, {1}, {1}), On(1, {2}, {})}, MaxDelay <- 1

US == INSTANCE USB WITH Slots <- Buffers

Ring(A) == focus = "ring" /\ A /\ UNCHANGED <<focus, clock, dma, ticking, pio, usb>>
Clock(A) == focus = "clock" /\ A /\ UNCHANGED <<focus, vars, dma, ticking, pio, usb>>
Dma(A) == focus = "dma" /\ A /\ UNCHANGED <<focus, vars, clock, pio, usb>>
Pio(A) == focus = "pio" /\ A /\ UNCHANGED <<focus, vars, clock, dma, ticking, usb>>
Usb(A) == focus = "usb" /\ A /\ UNCHANGED <<focus, vars, clock, dma, ticking, pio>>

MCInit == /\ focus \in {"ring", "clock", "dma", "pio", "usb"}
          /\ Init /\ CL!Init /\ DL!Init /\ PS!Init /\ US!Init

MCNext == \/ Ring(Next)
          \/ Clock(CL!Calls \/ CL!Tick)
          \/ Dma(DL!Next)
          \/ Pio(PS!Next)
          \/ Usb(US!Next)

\* The run loops tick without end and step every machine that runs; the loop of a
\* tick is sequential code; the firmware handles its USB interrupts.
Fairness ==
  /\ WF_MCVars(Clock(CL!Tick))
  /\ WF_MCVars(Dma(DL!Progress)) /\ WF_MCVars(Dma(DL!TickBegin))
  /\ WF_MCVars(Pio(PS!Step(1))) /\ WF_MCVars(Pio(PS!Step(2)))
  /\ WF_MCVars(Usb(~usb.threw /\ US!ResetAlarm))
  /\ WF_MCVars(Usb(~usb.threw /\ US!WriteAlarm("control")))
  /\ WF_MCVars(Usb(~usb.threw /\ US!ClearBusReset))
  /\ WF_MCVars(Usb(~usb.threw /\ US!AnswerSetup))
  /\ WF_MCVars(Usb(~usb.threw /\ US!WriteControl))

MCSpec == MCInit /\ [][MCNext]_MCVars /\ Fairness

\* See SimulationClock, DMA and PIO: the clock's alarms fire or are cancelled, so
\* that its tick returns, and so does one that moves blocks.
TickReturns == CL!EveryAlarmLeaves /\ DL!TickReturns
BlocksComplete == DL!BlocksComplete
StallsEnd == PS!StallsEnd

\* See USB: bytes of the serial port arrive in the order they were sent, both ways,
\* and no buffer waits for an alarm that is not running.
SerialInOrder == US!SerialInOrder /\ US!TransfersGoOn

\* A device that is switched on is enumerated: every step of the handshake
\* between the controller, the host and the firmware is followed by the next.
EnumerationCompletes == usb.on ~> US!Enumerated
=============================================================================
