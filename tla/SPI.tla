---------------------------------- MODULE SPI ----------------------------------
(***************************************************************************)
(* The SPI controller (peripherals/spi.ts): two FIFOs, of which the model  *)
(* keeps the counts, a word in flight, and what follows from them: three   *)
(* interrupt causes and two DMA requests.  onTransmit is the host's: it    *)
(* answers with completeTransmit, at once or later; at once is here the    *)
(* very next step.                                                         *)
(***************************************************************************)
EXTENDS Naturals

CONSTANT Size                                   \* FIFO entries, 8 in the code

VARIABLE spi

Init == spi = [tx |-> 0, rx |-> 0, busy |-> FALSE, raw |-> {}, enable |-> {}, line |-> FALSE,
               dreqTx |-> TRUE, dreqRx |-> FALSE]

intStatus(s) == s.raw \cap s.enable
checkInterrupts(s) == [s EXCEPT !.line = intStatus(s) # {}]
updateDMATx(s) == [s EXCEPT !.dreqTx = s.tx < Size]
updateDMARx(s) == [s EXCEPT !.dreqRx = s.rx > 0]

fifosUpdated(s) ==
  LET raw == (s.raw \cap {"ROR"}) \cup (IF s.tx <= Size \div 2 THEN {"TX"} ELSE {})
                                  \cup (IF s.rx >= Size \div 2 THEN {"RX"} ELSE {})
      u == [s EXCEPT !.raw = raw]
  IN  updateDMARx(updateDMATx(IF intStatus(u) # intStatus(s) THEN checkInterrupts(u) ELSE u))

doTX(s) ==
  IF s.busy \/ s.tx = 0 THEN s ELSE fifosUpdated([s EXCEPT !.tx = @ - 1, !.busy = TRUE])

\* The overrun is noted before fifosUpdated remembers the status it compares to.
completeTransmit ==
  /\ spi.busy
  /\ LET full == spi.rx = Size
     IN  spi' = doTX(fifosUpdated([spi EXCEPT !.busy = FALSE, !.rx = IF full THEN @ ELSE @ + 1,
                                              !.raw = IF full THEN @ \cup {"ROR"} ELSE @]))

\* Mutant: a read leaves the status as it was.
ReadKeepsStatus == spi.rx > 0 /\ spi' = [spi EXCEPT !.rx = @ - 1]

ReadDR == spi.rx > 0 /\ spi' = fifosUpdated([spi EXCEPT !.rx = @ - 1])
WriteDR == spi.tx < Size /\ spi' = fifosUpdated(doTX([spi EXCEPT !.tx = @ + 1]))
WriteIMSC(m) == spi' = checkInterrupts([spi EXCEPT !.enable = m])
WriteICR == spi' = checkInterrupts([spi EXCEPT !.raw = @ \ {"ROR"}])

Next == \/ completeTransmit \/ ReadDR \/ WriteDR \/ WriteICR
        \/ \E m \in SUBSET {"TX", "RX", "ROR"} : WriteIMSC(m)

-----------------------------------------------------------------------------
\* The line shows every cause but an overrun that came alone.
StatusSignalled ==
  /\ intStatus(spi) \ {"ROR"} # {} => spi.line
  /\ spi.line => intStatus(spi) # {}
RequestsFollowFIFOs == spi.dreqTx = (spi.tx < Size) /\ spi.dreqRx = (spi.rx > 0)
WordsGoOn == spi.tx > 0 => spi.busy
=============================================================================
