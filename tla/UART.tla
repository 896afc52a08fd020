--------------------------------- MODULE UART ---------------------------------
(***************************************************************************)
(* The UART (peripherals/uart.ts): bytes the host feeds into a FIFO, sent  *)
(* bytes that leave at once, and one interrupt line.  Bytes are counted.   *)
(***************************************************************************)
EXTENDS Naturals

CONSTANT Size                                   \* FIFO entries, 32 in the code

VARIABLE uart

Init == uart = [rx |-> 0, status |-> {}, mask |-> {}, enabled |-> FALSE,
                line |-> FALSE, dreqTx |-> FALSE]

\* The transmitter is always ready, and says so from the first call on.
checkInterrupts(u) ==
  LET status == u.status \cup {"TX"}
  IN  [u EXCEPT !.status = status, !.line = status \cap u.mask # {}]

\* A byte that comes when the FIFO is full is lost, without an overrun.
feedByte ==
  uart' = checkInterrupts([uart EXCEPT !.rx = IF @ < Size THEN @ + 1 ELSE @,
                                       !.status = @ \cup {"RX"}])
ReadDR ==
  LET rx == IF uart.rx = 0 THEN 0 ELSE uart.rx - 1
  IN  uart' = checkInterrupts([uart EXCEPT !.rx = rx,
                                 !.status = IF rx > 0 THEN @ \cup {"RX"} ELSE @ \ {"RX"}])

WriteCR(en) == uart' = [uart EXCEPT !.enabled = en, !.dreqTx = en]
WriteIMSC(m) == uart' = checkInterrupts([uart EXCEPT !.mask = m])
WriteICR(s) == uart' = checkInterrupts([uart EXCEPT !.status = @ \ s])

Next == \/ feedByte \/ ReadDR
        \/ \E en \in BOOLEAN : WriteCR(en)
        \/ \E s \in SUBSET {"RX", "TX"} : WriteIMSC(s) \/ WriteICR(s)

-----------------------------------------------------------------------------
StatusSignalled == uart.line = (uart.status \cap uart.mask # {})
=============================================================================
