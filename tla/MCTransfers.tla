------------------------------ MODULE MCTransfers ------------------------------
(***************************************************************************)
(* The DMA controllers and the PIO blocks, some in two settings.  Every    *)
(* behaviour is one setting of one of them, chosen at the start.           *)
(***************************************************************************)
EXTENDS DMA, TLC

VARIABLES focus, pio

(***************************************************************************)
(* "ring", the constants of this module: channel 0 waits for a peripheral, *)
(* for nothing, or is disabled, and chains to channel 1; channel 1 waits   *)
(* for the peripheral or a timer and chains back.                          *)
(***************************************************************************)
Ctl(en, quiet, q, to) == [EN |-> en, IRQ_QUIET |-> quiet, treq |-> q, chainTo |-> to]
Ring == 0 :> {Ctl(TRUE, FALSE, 0, 1), Ctl(TRUE, TRUE, Permanent, 0), Ctl(FALSE, FALSE, 0, 0)}
     @@ 1 :> {Ctl(TRUE, TRUE, 59, 0), Ctl(TRUE, FALSE, 0, 1)}
SmallCounts == 0 :> {0, 2} @@ 1 :> {1}

Memory == [kind |-> "memory"]
Block(c, w) == [kind |-> "register", chan |-> c, write |-> w]
FIFOs == {Memory, [kind |-> "raise", dreq |-> 0], [kind |-> "lower", dreq |-> 0]}
RingEffects ==
     0 :> FIFOs \cup {Block(1, [kind |-> "address", zero |-> TRUE])}
  @@ 1 :> FIFOs \cup {Block(0, [kind |-> "address", zero |-> FALSE]),
                      Block(0, [kind |-> "control", trigger |-> FALSE,
                                value |-> Ctl(FALSE, FALSE, 0, 0)])}

\* "line": no circles, and the interrupt is masked and forced.  Only channel 0
\* chains, and writes the triggers of channel 1.
DL == INSTANCE DMA WITH Timers <- {}, Modes <- {0}, Masks <- {{}, {0}},
        Controls <- (0 :> {Ctl(TRUE, TRUE, 0, 1), Ctl(TRUE, FALSE, Permanent, 1)}
                  @@ 1 :> {Ctl(TRUE, FALSE, Permanent, 1), Ctl(FALSE, FALSE, 0, 1)}),
        Counts <- (0 :> {0, 2} @@ 1 :> {2}),
        Effects <- (0 :> {Memory, Block(1, [kind |-> "address", zero |-> FALSE])}
                 @@ 1 :> {Memory, [kind |-> "lower", dreq |-> 0]})

\* "rp2040": a circle, and a chain to a channel that is not there.
DR == INSTANCE DMA WITH ChannelCount <- 12, Modes <- {0}, Timers <- {59}, Masks <- {{}},
        Controls <- (0 :> {Ctl(TRUE, FALSE, 0, 1), Ctl(TRUE, TRUE, Permanent, 15)}
                  @@ 1 :> {Ctl(TRUE, FALSE, 59, 0), Ctl(FALSE, FALSE, 0, 1)}),
        Counts <- (0 :> {0, 2} @@ 1 :> {1}),
        Effects <- (0 :> {Memory, [kind |-> "lower", dreq |-> 0]}
                 @@ 1 :> {Memory, Block(0, [kind |-> "address", zero |-> FALSE])})

Pull == [op |-> "pull", if |-> FALSE, block |-> TRUE, delay |-> 1]
Push == [op |-> "push", if |-> FALSE, block |-> TRUE, delay |-> 0]
Out(dest, arg) == [op |-> "out", bits |-> 1, dest |-> dest, arg |-> arg, delay |-> 0]
Mov(dest, arg) == [op |-> "mov", dest |-> dest, arg |-> arg, delay |-> 0]
In == [op |-> "in", bits |-> 1, delay |-> 0]
Jmp(if, to) == [op |-> "jmp", if |-> if, arg |-> to, delay |-> 0]
SetFlag(wt) == [op |-> "irq", clear |-> FALSE, wait |-> wt, flag |-> 0, pio |-> 0, delay |-> 0]
ClearFlag == [op |-> "irq", clear |-> TRUE, wait |-> FALSE, flag |-> 0, pio |-> 0, delay |-> 0]
WaitFlag == [op |-> "wait", on |-> "irq", polarity |-> TRUE, flag |-> 0, pio |-> 0, delay |-> 0]
WaitPin == [op |-> "wait", on |-> "pin", polarity |-> TRUE, flag |-> 0, pio |-> 0, delay |-> 0]
On(q, on, again) == [pio |-> q, on |-> on, restart |-> again, start |-> {}, stop |-> {}]

\* "handshake": machines 1 and 2 share block 0, machine 3 has block 1.  Consumer and
\* producer in a block, and a second waiter in the other block.
PH == INSTANCE PIO WITH Pios <- {0, 1}, Machines <- (0 :> <<1, 2>> @@ 1 :> <<3>>), Flags <- {0},
        Programs <- (1 :> {<<Pull, SetFlag(TRUE)>>} @@ 2 :> {<<WaitFlag, Push>>}
                  @@ 3 :> {<<SetFlag(TRUE), WaitPin>>}),
        Forced <- [m \in 1 .. 3 |-> {}], Threshold <- [m \in 1 .. 3 |-> [auto |-> FALSE, at |-> 2]],
        Depth <- 1, Full <- 2, Fed <- {1}, MaxDelay <- 1,
        Joins <- (1 :> {} @@ 2 :> {"none", "rx"} @@ 3 :> {}),
        Controls <- {On(0, {1, 2}, {}), On(0, {1, 2}, {2}),
                     [pio |-> 1, on |-> {3}, restart |-> {}, start |-> {1, 2}, stop |-> {}]},
        Lines <- {<<0, 0>>},
        Masks <- {{}, {[kind |-> "irq", of |-> 0], [kind |-> "tx", of |-> 1], [kind |-> "rx", of |-> 2]}}

\* "shift": one machine in each block, shifting with automatic push and pull, and
\* flags that the other block raises or waits for.
PS == INSTANCE PIO WITH Pios <- {0, 1}, Machines <- (0 :> <<1>> @@ 1 :> <<2>>), Flags <- {0},
        Programs <- (1 :> {<<Out("none", 0), In>>, <<Out("exec", In), Jmp("osre", 1)>>}
                  @@ 2 :> {<<WaitFlag>>, <<SetFlag(TRUE), WaitPin>>}),
        Forced <- (1 :> {Push, Mov("exec", ClearFlag)} @@ 2 :> {}),
        Threshold <- [m \in 1 .. 2 |-> [auto |-> TRUE, at |-> 2]],
        Depth <- 1, Full <- 2, Fed <- {1}, MaxDelay <- 1, Joins <- [m \in 1 .. 2 |-> {}],
        Lines <- {},
        Controls <- {On(0, {1}, {}), On(0, {1}, {1}),
                     [pio |-> 1, on |-> {2}, restart |-> {}, start |-> {}, stop |-> {1}]}, Masks <- {}

MCVars == <<focus, dma, ticking, pio>>

MCInit == /\ focus \in {"ring", "line", "rp2040", "handshake", "shift"}
          /\ Init
          /\ IF focus = "shift" THEN PS!Init ELSE PH!Init

MCNext == /\ UNCHANGED focus
          /\ \/ focus = "ring" /\ Next /\ UNCHANGED pio
             \/ focus = "line" /\ DL!Next /\ UNCHANGED pio
             \/ focus = "rp2040" /\ DR!Next /\ UNCHANGED pio
             \/ focus = "handshake" /\ PH!Next /\ UNCHANGED <<dma, ticking>>
             \/ focus = "shift" /\ PS!Next /\ UNCHANGED <<dma, ticking>>

MCSpec == MCInit /\ [][MCNext]_MCVars

\* See PIO: no machine sleeps on what it waits for.
NoMissedWakeUp == IF focus = "shift" THEN PS!NoMissedWakeUp ELSE PH!NoMissedWakeUp

\* See PIO: the DMA is asked for words exactly while there is room for them, and told of
\* words exactly while there are any.
RequestsFollowFIFOs == IF focus = "shift" THEN PS!RequestsFollowFIFOs ELSE PH!RequestsFollowFIFOs

\* See PIO: a new cause raises the line, and a stalled word enters its FIFO once.
CausesAndWordsOnce ==
  [][focus = "handshake" => PH!NewCauseRaises /\ PH!PushEndsStall]_MCVars
=============================================================================
