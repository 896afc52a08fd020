------------------------------ MODULE SIOMailbox ------------------------------
(***************************************************************************)
(* What the two cores of the RP2350 share in the SIO block: the pair of    *)
(* inter-core FIFOs with their sticky error flags and the interrupt they   *)
(* raise (sio-core.ts), and the hardware spinlocks (sio_rp2350.ts).        *)
(*                                                                         *)
(* One action is one register access of a core; the cores' accesses        *)
(* interleave in any order, as the instruction streams of two cores do.    *)
(* The FIFO objects are the sequences they were proved to be in            *)
(* FIFO_proofs.  The firmware that uses the locks is external: a core      *)
(* writes to a lock only while it holds it, or until it is reset.          *)
(***************************************************************************)
EXTENDS Naturals, Sequences

CONSTANTS Value,      \* the words that are sent
          Zero,       \* the word 0, returned by a read of an empty FIFO
          Depth,      \* the size of a FIFO
          Lock        \* the spinlocks

ASSUME MailboxAssumption == Zero \in Value /\ Depth \in Nat \ {0}

Core == {0, 1}
Other(c) == 1 - c

VARIABLES mailbox,    \* mailbox[c]: the rxFIFO of core c, the txFIFO of the other
          lastRead,   \* lastRead[c]: the word core c's last FIFO_RD returned
          ROE, WOF,   \* per core: read on empty, write on full
          pending,    \* pending[c]: SIO_IRQ_FIFO as core c's controller latched it
          spinLock,   \* the locks whose bit is set
          holds       \* holds[c]: the locks core c claimed and did not release

fifoVars == <<mailbox, lastRead, ROE, WOF, pending>>
lockVars == <<spinLock, holds>>
vars == <<mailbox, lastRead, ROE, WOF, pending, spinLock, holds>>

Init == /\ mailbox = [c \in Core |-> <<>>]
        /\ lastRead = [c \in Core |-> Zero]
        /\ ROE = [c \in Core |-> FALSE]
        /\ WOF = [c \in Core |-> FALSE]
        /\ pending = [c \in Core |-> FALSE]
        /\ spinLock = {}
        /\ holds = [c \in Core |-> {}]

setInterruptCore(value, c) == pending' = [pending EXCEPT ![c] = value]

-----------------------------------------------------------------------------
(* The FIFO registers. *)

\* Reading an empty FIFO raises the reader's own interrupt; taking the last
\* word does not lower it.
ReadFIFO(c) ==
  /\ IF mailbox[c] = <<>>
       THEN /\ ROE' = [ROE EXCEPT ![c] = TRUE]
            /\ setInterruptCore(TRUE, c)
            /\ lastRead' = [lastRead EXCEPT ![c] = Zero]
            /\ UNCHANGED mailbox
       ELSE /\ lastRead' = [lastRead EXCEPT ![c] = Head(mailbox[c])]
            /\ mailbox' = [mailbox EXCEPT ![c] = Tail(mailbox[c])]
            /\ UNCHANGED <<ROE, pending>>
  /\ UNCHANGED <<WOF, lockVars>>

\* Faulty variant: the word goes to the sender.
WriteFIFOSwapped(c, v) ==
  /\ Len(mailbox[Other(c)]) < Depth
  /\ mailbox' = [mailbox EXCEPT ![c] = Append(@, v)]
  /\ setInterruptCore(TRUE, Other(c))
  /\ UNCHANGED <<lastRead, ROE, WOF, lockVars>>

\* A full FIFO interrupts the writer, a stored word the receiver.
WriteFIFO(c, v) ==
  /\ IF Len(mailbox[Other(c)]) = Depth
       THEN /\ WOF' = [WOF EXCEPT ![c] = TRUE]
            /\ setInterruptCore(TRUE, c)
            /\ UNCHANGED mailbox
       ELSE /\ mailbox' = [mailbox EXCEPT ![Other(c)] = Append(@, v)]
            /\ setInterruptCore(TRUE, Other(c))
            /\ UNCHANGED WOF
  /\ UNCHANGED <<lastRead, ROE, lockVars>>

\* Faulty variant: the acknowledgement does not look at the FIFO.
WriteStatusLowers(c) ==
  /\ WOF' = [WOF EXCEPT ![c] = FALSE]
  /\ ROE' = [ROE EXCEPT ![c] = FALSE]
  /\ setInterruptCore(FALSE, c)
  /\ UNCHANGED <<mailbox, lastRead, lockVars>>

\* A write to FIFO_ST clears both flags whatever the value, and the
\* interrupt as well once nothing waits to be read.
WriteStatus(c) ==
  /\ WOF' = [WOF EXCEPT ![c] = FALSE]
  /\ ROE' = [ROE EXCEPT ![c] = FALSE]
  /\ IF mailbox[c] = <<>> THEN setInterruptCore(FALSE, c) ELSE UNCHANGED pending
  /\ UNCHANGED <<mailbox, lastRead, lockVars>>

-----------------------------------------------------------------------------
(* The spinlocks. *)

\* Faulty variant: a read always claims.
ReadSpinlockAlways(c, l) ==
  /\ spinLock' = spinLock \cup {l}
  /\ holds' = [holds EXCEPT ![c] = @ \cup {l}]
  /\ UNCHANGED fifoVars

\* A read claims a free lock; reading a taken one returns 0.
ReadSpinlock(c, l) ==
  /\ IF l \in spinLock
       THEN UNCHANGED lockVars
       ELSE /\ spinLock' = spinLock \cup {l}
            /\ holds' = [holds EXCEPT ![c] = @ \cup {l}]
  /\ UNCHANGED fifoVars

WriteSpinlock(c, l) ==
  /\ l \in holds[c]
  /\ spinLock' = spinLock \ {l}
  /\ holds' = [holds EXCEPT ![c] = @ \ {l}]
  /\ UNCHANGED fifoVars

-----------------------------------------------------------------------------
(* onWatchdogTrigger: the cores restart, which makes them forget their     *)
(* pending interrupts and the locks they held; the SIO block is not        *)
(* touched.                                                                *)
WatchdogTrigger ==
  /\ pending' = [c \in Core |-> FALSE]
  /\ holds' = [c \in Core |-> {}]
  /\ UNCHANGED <<mailbox, lastRead, ROE, WOF, spinLock>>

Access(c) == \/ ReadFIFO(c)
             \/ \E v \in Value : WriteFIFO(c, v)
             \/ WriteStatus(c)
             \/ \E l \in Lock : ReadSpinlock(c, l) \/ WriteSpinlock(c, l)

Next == \E c \in Core : Access(c)

Spec == Init /\ [][Next]_vars

\* The chip as it runs with the watchdog armed.
ResetSpec == Init /\ [][Next \/ WatchdogTrigger]_vars

-----------------------------------------------------------------------------
(* Properties. *)

TypeOK == /\ mailbox \in [Core -> Seq(Value)]
          /\ \A c \in Core : Len(mailbox[c]) <= Depth
          /\ lastRead \in [Core -> Value]
          /\ ROE \in [Core -> BOOLEAN]
          /\ WOF \in [Core -> BOOLEAN]
          /\ pending \in [Core -> BOOLEAN]
          /\ spinLock \in SUBSET Lock
          /\ holds \in [Core -> SUBSET Lock]

\* While a word waits for a core, or an error it made is not acknowledged,
\* its interrupt stays pending: a doorbell is never lost, in whatever order
\* one core sends and the other drains and acknowledges.
NoLostDoorbell ==
  \A c \in Core : mailbox[c] # <<>> \/ ROE[c] \/ WOF[c] => pending[c]

\* A lock is never claimed by both cores, and a claimed lock stays set until
\* its holder releases it, over a chip reset as well.
LockExclusion == /\ holds[0] \cap holds[1] = {}
                 /\ \A c \in Core : holds[c] \subseteq spinLock

Inbox0 == INSTANCE BoundedQueue
            WITH queue <- mailbox[0], result <- lastRead[0], Capacity <- Depth
Inbox1 == INSTANCE BoundedQueue
            WITH queue <- mailbox[1], result <- lastRead[1], Capacity <- Depth

\* Each direction is a queue of its own: words arrive in the order they were
\* sent, and the only ones lost are those written to a full FIFO.
MailboxesAreQueues == Inbox0!Spec /\ Inbox1!Spec
===============================================================================
