------------------------------- MODULE RP2040SIO -------------------------------
(***************************************************************************)
(* The registers of the RP2040's SIO that its two cores share              *)
(* (src/sio.ts): outputs and directions of the pins and of the QSPI pins,  *)
(* each with a SET, a CLR and a XOR register, and the spinlocks.           *)
(*                                                                         *)
(* Each core drives a pin of its own in the registers of one bank, in one  *)
(* of the two ways there are: by the SET, CLR and XOR registers, or by     *)
(* reading, changing and writing back while it holds a spinlock.           *)
(***************************************************************************)
EXTENDS Integers

CONSTANTS Bit,       \* bits of a word that are written
          GPIO_MASK, \* those that the registers have
          Lock       \* the spinlock that guards the registers, and others

Core == {0, 1}
Guard == CHOOSE l \in Lock : TRUE
Bank == {"gpio", "qspi"}
Field == {"value", "outputEnable"}
Way == {"alias", "locked"}
Nothing == [b \in Bank |-> [f \in Field |-> {}]]

VARIABLE sio
\* reg: the registers; spinLock; told: the levels and directions that the listeners of
\* the pins know; bank, way: which pins
\* the program drives, and how; at: where each core is, seen:
\* what it read, where: from which register; gave: what it gave its pin last.

Init == \E bank \in Bank, way \in Way :
  sio = [reg |-> Nothing, spinLock |-> {}, told |-> Nothing["gpio"], bank |-> bank, way |-> way,
         at |-> [c \in Core |-> "idle"], seen |-> [c \in Core |-> {}],
         where |-> [c \in Core |-> "value"],
         gave |-> [c \in Core |-> [f \in Field |-> FALSE]]]

-----------------------------------------------------------------------------
(* The registers *)

\* A read of a spinlock claims it, unless it is held; a write of any value frees it.
ReadSpinlock(s, l) == [s EXCEPT !.spinLock = @ \union {l}]
Claims(s, l) == l \notin s.spinLock
WriteSpinlock(s, l) == [s EXCEPT !.spinLock = @ \ {l}]

\* What a write to a register or to one of its aliases leaves in it.
SymmetricDifference(a, b) == (a \ b) \union (b \ a)
XorUnmasked(old, alias, bits) ==
  CASE alias = "put" -> bits \intersect GPIO_MASK
    [] alias = "set" -> old \union (bits \intersect GPIO_MASK)
    [] alias = "clr" -> old \ bits
    [] alias = "xor" -> SymmetricDifference(old, bits)

Written(old, alias, bits) ==
  CASE alias = "put" -> bits \intersect GPIO_MASK
    [] alias = "set" -> old \union (bits \intersect GPIO_MASK)
    [] alias = "clr" -> old \ bits
    [] alias = "xor" -> SymmetricDifference(old, bits \intersect GPIO_MASK)

\* The pins whose level or direction changed are told; those of the QSPI never are.
PinsToUpdate(old, new) ==
  SymmetricDifference(old["value"], new["value"])
    \union SymmetricDifference(old["outputEnable"], new["outputEnable"])

checkForUpdates(told, reg, pins) ==
  [f \in Field |-> (told[f] \ pins) \union (reg[f] \intersect pins)]

writeUint32(s, b, f, alias, bits) ==
  LET t == [s EXCEPT !.reg[b][f] = Written(@, alias, bits)]
  IN  [t EXCEPT !.told = checkForUpdates(@, t.reg["gpio"],
                                         PinsToUpdate(s.reg["gpio"], t.reg["gpio"]))]

-----------------------------------------------------------------------------
(* The program: core c drives pin c *)

Gave(s, c, f, on) == [s EXCEPT !.gave[c][f] = on]

\* Bits that no pin has may be written along.
DriveByAlias(c, f, junk) ==
  /\ sio.way = "alias"
  /\ \E w \in {<<"set", TRUE>>, <<"clr", FALSE>>, <<"xor", ~sio.gave[c][f]>>} :
       sio' = Gave(writeUint32(sio, sio.bank, f, w[1], {c} \union junk), c, f, w[2])

\* It tries the lock until it has it.
Claim(c) ==
  /\ sio.way = "locked" /\ sio.at[c] = "idle"
  /\ LET t == ReadSpinlock(sio, Guard)
     IN  sio' = IF Claims(sio, Guard) THEN [t EXCEPT !.at[c] = "locked"] ELSE t

Read(c, f) ==
  /\ sio.at[c] = "locked"
  /\ sio' = [sio EXCEPT !.at[c] = "read", !.seen[c] = sio.reg[sio.bank][f], !.where[c] = f]

WriteBack(c, on) ==
  /\ sio.at[c] = "read"
  /\ LET f == sio.where[c]
         bits == IF on THEN sio.seen[c] \union {c} ELSE sio.seen[c] \ {c}
         t == writeUint32(sio, sio.bank, f, "put", bits)
     IN  sio' = Gave([t EXCEPT !.at[c] = "written"], c, f, on)

Release(c) ==
  /\ sio.at[c] = "written"
  /\ sio' = [WriteSpinlock(sio, Guard) EXCEPT !.at[c] = "idle"]

\* The other locks are nobody's business.
TouchOther(l) ==
  /\ l # Guard
  /\ \/ sio' = ReadSpinlock(sio, l)
     \/ sio' = WriteSpinlock(sio, l)

Next ==
  \E c \in Core :
    \/ \E f \in Field : Read(c, f)
    \/ \E f \in Field, junk \in SUBSET (Bit \ Core) : DriveByAlias(c, f, junk)
    \/ \E on \in BOOLEAN : WriteBack(c, on)
    \/ Claim(c) \/ Release(c)
    \/ \E l \in Lock : TouchOther(l)

Spec == Init /\ [][Next]_sio

-----------------------------------------------------------------------------
(* Correctness *)

\* The listeners of every pin know its level and direction, whichever register the
\* program wrote and whichever bits it wrote along (writeUint32).
ListenersTold == sio.told = sio.reg["gpio"]

\* Two cores that share a register lose no write: a pin has the level and direction
\* that its core gave it last, the lock lets one in at a time, and no bit that the
\* registers have not is ever read back (readUint32, writeUint32).
WritesKept ==
  \A b \in Bank, f \in Field :
    sio.reg[b][f] = {c \in Core : b = sio.bank /\ sio.gave[c][f]}
=============================================================================
