----------------------------- MODULE Reservations -----------------------------
(***************************************************************************)
(* Atomic increments of shared words by the two cores, one instruction at  *)
(* a time in any order: LR.W, SC.W and AMOADD.W of the Hazard3 cores       *)
(* (execAmo in src/riscv/cpu.ts), or LDREX and STREX of the Cortex-M33     *)
(* cores (src/cortex-m33/execute-thumb32.ts).  A core may be interrupted   *)
(* between its load and its store, by a handler that increments too.       *)
(***************************************************************************)
EXTENDS Integers, Sequences

CONSTANTS Words,        \* the addresses of the shared words
          AmoInHandler, \* handlers may use AMOADD.W; they use LR.W and SC.W if not
          M             \* words count modulo M

Core == {0, 1}
other(c) == 1 - c
NoReservation == -1
NoLoad == <<>>

ASSUME ReservationsAssumption == Words \subseteq Nat /\ M \in Nat \ {0} /\ AmoInHandler \in BOOLEAN

\* The sixteen bytes a word is in.
Granule(w) == 16 * (w \div 16)

VARIABLE amo
\* mem: the words; done: the increments that completed; lr_addr: the granule a
\* core has reserved; loaded: what the program and an interrupt handler on top of
\* it have loaded and not stored yet.

Init == amo = [mem |-> [w \in Words |-> 0], done |-> [w \in Words |-> 0],
               lr_addr |-> [c \in Core |-> NoReservation],
               loaded |-> [c \in Core |-> <<NoLoad>>]]

Top(c) == amo.loaded[c][Len(amo.loaded[c])]
InHandler(c) == Len(amo.loaded[c]) > 1
SetTop(c, load) == [amo.loaded EXCEPT ![c] = [@ EXCEPT ![Len(@)] = load]]

\* The word that the core loaded gets what was loaded plus one.
Stored(c) == LET w == Top(c)[1]
             IN  [amo EXCEPT !.mem[w] = (Top(c)[2] + 1) % M, !.done[w] = (@ + 1) % M,
                             !.loaded = SetTop(c, NoLoad)]

invalidateLrReservation(lr, c, w) == IF lr[c] = Granule(w) THEN [lr EXCEPT ![c] = NoReservation] ELSE lr

\* A load that leaves the other core its reservation.
KeepOther(c, w) == [amo.lr_addr EXCEPT ![c] = Granule(w)]

\* LR.W: the reservation is the granule, and the other core loses its own on it.
Reserve(c, w) == invalidateLrReservation([amo.lr_addr EXCEPT ![c] = Granule(w)], other(c), w)

LR_W(c, w) ==
  /\ Top(c) = NoLoad
  /\ amo' = [amo EXCEPT !.loaded = SetTop(c, <<w, amo.mem[w]>>), !.lr_addr = Reserve(c, w)]

\* SC.W: whether it stores or not, the reservation is gone.
SC_W(c) ==
  /\ Top(c) # NoLoad
  /\ amo' = IF amo.lr_addr[c] = Granule(Top(c)[1])
            THEN [Stored(c) EXCEPT !.lr_addr[c] = NoReservation]
            ELSE [amo EXCEPT !.lr_addr[c] = NoReservation, !.loaded = SetTop(c, NoLoad)]

\* AMOADD.W: the other core loses its reservation, the core keeps its own.
AMOADD_W(c, w) ==
  /\ (InHandler(c) => AmoInHandler)
  /\ Top(c) = NoLoad
  /\ amo' = [amo EXCEPT !.mem[w] = (@ + 1) % M, !.done[w] = (@ + 1) % M,
                        !.lr_addr = invalidateLrReservation(@, other(c), w)]

\* An interrupt is taken and returns: neither touches the reservation.
Interrupt(c) == /\ ~InHandler(c)
                /\ amo' = [amo EXCEPT !.loaded[c] = Append(@, NoLoad)]
Return(c) == /\ InHandler(c) /\ Top(c) = NoLoad
             /\ amo' = [amo EXCEPT !.loaded[c] = <<@[1]>>]

\* The chip is reset, by the watchdog or by its user: the cores start over, and
\* lr_addr is not reset with them.
Reset == amo' = [amo EXCEPT !.loaded = [c \in Core |-> <<NoLoad>>]]

Next == \/ \E c \in Core : SC_W(c) \/ Interrupt(c) \/ Return(c)
        \/ \E c \in Core, w \in Words : LR_W(c, w) \/ AMOADD_W(c, w)
        \/ Reset

Spec == Init /\ [][Next]_amo

-----------------------------------------------------------------------------
(* The Cortex-M33: LDREX is a load, and STREX a store that reports success *)

LDREX(c, w) == Top(c) = NoLoad /\ amo' = [amo EXCEPT !.loaded = SetTop(c, <<w, amo.mem[w]>>)]
STREX(c) == Top(c) # NoLoad /\ amo' = Stored(c)

ExclusivesNext == \/ \E c \in Core : STREX(c) \/ Interrupt(c) \/ Return(c)
                  \/ \E c \in Core, w \in Words : LDREX(c, w)

ExclusivesSpec == Init /\ [][ExclusivesNext]_amo

-----------------------------------------------------------------------------
(* Properties *)

\* No increment is lost, however the cores and their handlers interleave: a word
\* counts the increments that reported success (execAmo).  "No real inter-core
\* contention happens within a single JS-stepped core, and we never yield between a
\* *EX load and its matching store" (the comment on LDREX and STREX): of them too.
NoLostIncrement == \A w \in Words : amo.mem[w] = amo.done[w]
=============================================================================
