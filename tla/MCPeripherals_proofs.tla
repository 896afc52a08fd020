------------------------ MODULE MCPeripherals_proofs ------------------------
(***************************************************************************)
(* For FIFOs of any size, any thresholds and any number of microsecond     *)
(* alarms: interrupt lines and DMA requests follow the FIFOs of the UART,  *)
(* the SPI and the ADC, what the SPI, the I2C and the ADC have started     *)
(* goes on, and no microsecond alarm is late.                              *)
(*                                                                         *)
(* Every peripheral has its invariant, which is inductive: the fields in   *)
(* range and what is promised of them, for the I2C with the states of the  *)
(* bus between two calls of its handler.  The operators of the modules     *)
(* take and return the state, so each has a lemma about any state; a       *)
(* lemma ...Step is one step per action.                                   *)
(***************************************************************************)
EXTENDS MCPeripherals, TLAPS

LEMMA SizeAssumption ==
  /\ UartSize \in Nat /\ SpiSize \in Nat \ {0} /\ I2CSize \in Nat /\ AdcSize \in Nat
  /\ TxThreshold \in Nat /\ Thresholds \subseteq Nat /\ RoundRobins \subseteq SUBSET (0 .. 4)
  /\ Wrap \in Nat \ {0}
BY MCPeripheralsAssumption DEF MCPeripheralsAssumption

-----------------------------------------------------------------------------
(* The UART *)

UartCauses == {"RX", "TX"}
Uart == [rx : Nat, status : SUBSET UartCauses, mask : SUBSET UartCauses,
         enabled : BOOLEAN, line : BOOLEAN, dreqTx : BOOLEAN]
UartInv == uart \in Uart /\ UA!StatusSignalled

\* The names of the causes are in their set, which the proofs keep closed.
LEMMA UartCausesAre == "RX" \in UartCauses /\ "TX" \in UartCauses
BY DEF UartCauses

\* Every call that ends in checkInterrupts leaves the line right.
LEMMA UartSignalled ==
  ASSUME NEW u \in Uart, uart' = UA!checkInterrupts(u)
  PROVE  UartInv'
BY UartCausesAre DEF Uart, UartInv, UA!StatusSignalled, UA!checkInterrupts

LEMMA UartInit == UA!Init => UartInv
<1> SUFFICES ASSUME UA!Init PROVE UartInv OBVIOUS
<1>1. uart \in Uart BY DEF UA!Init, Uart
<1>2. uart.status = {} /\ uart.line = FALSE BY DEF UA!Init
<1>3. (uart.status \cap uart.mask # {}) = FALSE BY <1>2
<1> QED BY <1>1, <1>2, <1>3 DEF UA!StatusSignalled, UartInv

LEMMA UartStep == UartInv /\ UA!Next => UartInv'
<1> SUFFICES ASSUME UartInv, UA!Next PROVE UartInv' OBVIOUS
<1>0. uart \in Uart BY DEF UartInv
<1>1. CASE UA!feedByte
  <2> DEFINE u == [uart EXCEPT !.rx = IF @ < UartSize THEN @ + 1 ELSE @, !.status = @ \cup {"RX"}]
  <2>0. /\ (IF uart.rx < UartSize THEN uart.rx + 1 ELSE uart.rx) \in Nat
        /\ uart.status \cup {"RX"} \in SUBSET UartCauses
   BY <1>0, UartCausesAre, SizeAssumption DEF Uart
  <2>1. u \in Uart BY <1>0, <2>0 DEF Uart
  <2>2. uart' = UA!checkInterrupts(u) BY <1>1 DEF UA!feedByte
  <2> QED BY <2>1, <2>2, UartSignalled
<1>2. CASE UA!ReadDR
  <2> DEFINE rx == IF uart.rx = 0 THEN 0 ELSE uart.rx - 1
             u == [uart EXCEPT !.rx = rx, !.status = IF rx > 0 THEN @ \cup {"RX"} ELSE @ \ {"RX"}]
  <2> DEFINE status == IF rx > 0 THEN uart.status \cup {"RX"} ELSE uart.status \ {"RX"}
  <2>0. rx \in Nat /\ status \in SUBSET UartCauses BY <1>0, UartCausesAre DEF Uart
  <2>2. uart' = UA!checkInterrupts(u) BY <1>2 DEF UA!ReadDR
  <2>3. u = [uart EXCEPT !.rx = rx, !.status = status] BY <1>0 DEF Uart
  <2> HIDE DEF rx, status
  <2>1. u \in Uart BY <1>0, <2>0, <2>3 DEF Uart
  <2> QED BY <2>1, <2>2, UartSignalled
<1>3. ASSUME NEW en \in BOOLEAN, UA!WriteCR(en) PROVE UartInv' BY <1>3, <1>0 DEF UA!WriteCR, UartInv, Uart, UA!StatusSignalled
<1>4. ASSUME NEW s \in SUBSET UartCauses, UA!WriteIMSC(s) PROVE UartInv' BY <1>4, <1>0, UartSignalled DEF UA!WriteIMSC, Uart
<1>5. ASSUME NEW s \in SUBSET UartCauses, UA!WriteICR(s) PROVE UartInv' BY <1>5, <1>0, UartSignalled DEF UA!WriteICR, Uart
<1> QED BY <1>1, <1>2, <1>3, <1>4, <1>5 DEF UA!Next, UartCauses

-----------------------------------------------------------------------------
(* The SPI *)

SpiCauses == {"TX", "RX", "ROR"}
Spi == [tx : Nat, rx : Nat, busy : BOOLEAN, raw : SUBSET SpiCauses, enable : SUBSET SpiCauses,
        line : BOOLEAN, dreqTx : BOOLEAN, dreqRx : BOOLEAN]

SpiSignalled(s) == /\ SP!intStatus(s) \ {"ROR"} # {} => s.line
                   /\ s.line => SP!intStatus(s) # {}
SpiRequests(s) == s.dreqTx = (s.tx < SpiSize) /\ s.dreqRx = (s.rx > 0)

SpiInv == /\ spi \in Spi
          /\ SpiSignalled(spi) /\ SpiRequests(spi)
          /\ spi.tx > 0 => spi.busy

\* As for the UART.
LEMMA SpiCausesAre == "RX" \in SpiCauses /\ "TX" \in SpiCauses /\ "ROR" \in SpiCauses
BY DEF SpiCauses

\* checkInterrupts makes the line right and touches nothing else.
LEMMA SpiChecked ==
  ASSUME NEW s \in Spi
  PROVE  LET t == SP!checkInterrupts(s)
         IN  /\ t \in Spi /\ SpiSignalled(t)
             /\ t.tx = s.tx /\ t.rx = s.rx /\ t.busy = s.busy
             /\ t.dreqTx = s.dreqTx /\ t.dreqRx = s.dreqRx
BY SpiCausesAre DEF Spi, SpiSignalled, SP!checkInterrupts, SP!intStatus

\* fifosUpdated makes line and requests right, whatever the counts were before, if
\* the line was right for the status it compares to.
LEMMA SpiFifosUpdated ==
  ASSUME NEW s \in Spi, SpiSignalled(s)
  PROVE  LET t == SP!fifosUpdated(s)
         IN  /\ t \in Spi /\ SpiSignalled(t) /\ SpiRequests(t)
             /\ t.tx = s.tx /\ t.rx = s.rx /\ t.busy = s.busy
<1> DEFINE raw == (s.raw \cap {"ROR"}) \cup (IF s.tx <= SpiSize \div 2 THEN {"TX"} ELSE {})
                                       \cup (IF s.rx >= SpiSize \div 2 THEN {"RX"} ELSE {})
           u == [s EXCEPT !.raw = raw]
           v == IF SP!intStatus(u) # SP!intStatus(s) THEN SP!checkInterrupts(u) ELSE u
           w == SP!updateDMATx(v)
           t == SP!updateDMARx(w)
<1>1. u \in Spi /\ u.tx = s.tx /\ u.rx = s.rx /\ u.busy = s.busy /\ u.line = s.line
  <2>1. raw \in SUBSET SpiCauses BY SpiCausesAre DEF Spi
  <2> HIDE DEF raw
  <2> QED BY <2>1 DEF Spi
<1> HIDE DEF u
<1>2. /\ v \in Spi /\ SpiSignalled(v)
      /\ v.tx = s.tx /\ v.rx = s.rx /\ v.busy = s.busy
  <2>1. CASE SP!intStatus(u) # SP!intStatus(s) BY <2>1, <1>1, SpiChecked
  <2>2. CASE SP!intStatus(u) = SP!intStatus(s) BY <2>2, <1>1 DEF SpiSignalled
  <2> QED BY <2>1, <2>2
<1> HIDE DEF v
<1>3. /\ w \in Spi /\ SpiSignalled(w) /\ w.dreqTx = (w.tx < SpiSize)
      /\ w.tx = s.tx /\ w.rx = s.rx /\ w.busy = s.busy
  <2> DEFINE b == v.tx < SpiSize
  <2>1. b \in BOOLEAN OBVIOUS
  <2>2. w = [v EXCEPT !.dreqTx = b] BY DEF SP!updateDMATx
  <2> HIDE DEF b, w
  <2>3. /\ w \in Spi /\ w.dreqTx = b
        /\ w.tx = v.tx /\ w.rx = v.rx /\ w.busy = v.busy
        /\ w.raw = v.raw /\ w.enable = v.enable /\ w.line = v.line
    BY <1>2, <2>1, <2>2 DEF Spi
  <2> QED BY <1>2, <2>3 DEF SpiSignalled, SP!intStatus, b
<1> HIDE DEF w
<1>4. /\ t \in Spi /\ SpiSignalled(t) /\ t.dreqTx = (t.tx < SpiSize) /\ t.dreqRx = (t.rx > 0)
      /\ t.tx = s.tx /\ t.rx = s.rx /\ t.busy = s.busy
  <2> DEFINE b == w.rx > 0
  <2>1. b \in BOOLEAN OBVIOUS
  <2>2. t = [w EXCEPT !.dreqRx = b] BY DEF SP!updateDMARx
  <2> HIDE DEF b, t
  <2>3. /\ t \in Spi /\ t.dreqRx = b
        /\ t.tx = w.tx /\ t.rx = w.rx /\ t.busy = w.busy /\ t.dreqTx = w.dreqTx
        /\ t.raw = w.raw /\ t.enable = w.enable /\ t.line = w.line
    BY <1>3, <2>1, <2>2 DEF Spi
  <2> QED BY <1>3, <2>3 DEF SpiSignalled, SP!intStatus, b
<1>5. t = SP!fifosUpdated(s) BY DEF t, w, v, u, SP!fifosUpdated
<1> QED BY <1>4, <1>5 DEF SpiRequests

\* doTX takes the next word, if there is one and none is in flight.
LEMMA SpiSent ==
  ASSUME NEW s \in Spi, SpiSignalled(s)
  PROVE  LET t == SP!doTX(s)
         IN  /\ t \in Spi /\ SpiSignalled(t)
             /\ SpiRequests(s) => SpiRequests(t)
             /\ t.tx > 0 => t.busy
<1>1. CASE s.busy \/ s.tx = 0 BY <1>1 DEF SP!doTX, Spi
<1>2. CASE ~(s.busy \/ s.tx = 0)
  <2> DEFINE u == [s EXCEPT !.tx = @ - 1, !.busy = TRUE]
  <2>0. s.tx - 1 \in Nat BY <1>2 DEF Spi
  <2>1. u \in Spi /\ u.busy /\ u.raw = s.raw /\ u.enable = s.enable /\ u.line = s.line
    BY <2>0 DEF Spi
  <2>2. SP!doTX(s) = SP!fifosUpdated(u) BY <1>2 DEF SP!doTX
  <2> HIDE DEF u
  <2> QED BY <2>1, <2>2, SpiFifosUpdated DEF SpiSignalled, SP!intStatus
<1> QED BY <1>1, <1>2


LEMMA SpiStep ==
  ASSUME SpiInv, SP!Next
  PROVE  SpiInv'
<1>0. spi \in Spi /\ SpiSignalled(spi) BY DEF SpiInv
<1>1. ASSUME SP!completeTransmit PROVE SpiInv'
  <2> DEFINE full == spi.rx = SpiSize
             u == [spi EXCEPT !.busy = FALSE, !.rx = IF full THEN @ ELSE @ + 1,
                              !.raw = IF full THEN @ \cup {"ROR"} ELSE @]
             v == SP!fifosUpdated(u)
  <2>1. spi' = SP!doTX(v) BY <1>1 DEF SP!completeTransmit
  <2>2. /\ (IF full THEN spi.rx ELSE spi.rx + 1) \in Nat
        /\ (IF full THEN spi.raw \cup {"ROR"} ELSE spi.raw) \in SUBSET SpiCauses
    BY <1>0, SpiCausesAre DEF Spi
  <2>3. /\ u \in Spi
        /\ u.raw = (IF full THEN spi.raw \cup {"ROR"} ELSE spi.raw)
        /\ u.enable = spi.enable /\ u.line = spi.line
    BY <1>0, <2>2 DEF Spi
  <2> HIDE DEF u
  <2>4. SpiSignalled(u) BY <1>0, <2>3 DEF SpiSignalled, SP!intStatus
  <2>5. v \in Spi /\ SpiSignalled(v) /\ SpiRequests(v) BY <2>3, <2>4, SpiFifosUpdated
  <2> QED BY <2>1, <2>5, SpiSent DEF SpiInv
<1>2. ASSUME SP!ReadDR PROVE SpiInv'
  <2> DEFINE u == [spi EXCEPT !.rx = @ - 1]
  <2>1. spi.rx - 1 \in Nat /\ spi' = SP!fifosUpdated(u) BY <1>0, <1>2 DEF SP!ReadDR, Spi
  <2>2. /\ u \in Spi /\ u.raw = spi.raw /\ u.enable = spi.enable /\ u.line = spi.line
        /\ u.tx = spi.tx /\ u.busy = spi.busy
    BY <1>0, <2>1 DEF Spi
  <2> HIDE DEF u
  <2>3. SpiSignalled(u) BY <1>0, <2>2 DEF SpiSignalled, SP!intStatus
  <2> QED BY <2>1, <2>2, <2>3, SpiFifosUpdated DEF SpiInv
<1>3. ASSUME SP!WriteDR PROVE SpiInv'
  <2> DEFINE u == [spi EXCEPT !.tx = @ + 1]
             v == SP!doTX(u)
  <2>1. spi' = SP!fifosUpdated(v) BY <1>3 DEF SP!WriteDR
  <2>2. u \in Spi /\ u.raw = spi.raw /\ u.enable = spi.enable /\ u.line = spi.line
    BY <1>0 DEF Spi
  <2> HIDE DEF u
  <2>3. SpiSignalled(u) BY <1>0, <2>2 DEF SpiSignalled, SP!intStatus
  <2>4. v \in Spi /\ SpiSignalled(v) /\ (v.tx > 0 => v.busy) BY <2>2, <2>3, SpiSent
  <2> QED BY <2>1, <2>4, SpiFifosUpdated DEF SpiInv
<1>4. ASSUME NEW m \in SUBSET SpiCauses, SP!WriteIMSC(m) PROVE SpiInv'
  <2> DEFINE u == [spi EXCEPT !.enable = m]
  <2>1. spi' = SP!checkInterrupts(u) BY <1>4 DEF SP!WriteIMSC
  <2>2. /\ u \in Spi /\ u.tx = spi.tx /\ u.rx = spi.rx /\ u.busy = spi.busy
        /\ u.dreqTx = spi.dreqTx /\ u.dreqRx = spi.dreqRx
    BY <1>0 DEF Spi
  <2> QED BY <2>1, <2>2, SpiChecked DEF SpiInv, SpiRequests
<1>5. ASSUME SP!WriteICR PROVE SpiInv'
  <2> DEFINE u == [spi EXCEPT !.raw = @ \ {"ROR"}]
  <2>1. spi' = SP!checkInterrupts(u) BY <1>5 DEF SP!WriteICR
  <2>2. spi.raw \ {"ROR"} \in SUBSET SpiCauses BY <1>0 DEF Spi
  <2>3. /\ u \in Spi /\ u.tx = spi.tx /\ u.rx = spi.rx /\ u.busy = spi.busy
        /\ u.dreqTx = spi.dreqTx /\ u.dreqRx = spi.dreqRx
    BY <1>0, <2>2 DEF Spi
  <2> QED BY <2>1, <2>3, SpiChecked DEF SpiInv, SpiRequests
<1> QED BY <1>1, <1>2, <1>3, <1>4, <1>5 DEF SP!Next, SpiCauses

LEMMA SpiInit == SP!Init => SpiInv
<1> SUFFICES ASSUME SP!Init PROVE SpiInv OBVIOUS
<1>1. spi \in Spi BY DEF SP!Init, Spi
<1>2. spi.tx = 0 /\ spi.rx = 0 /\ spi.dreqTx = TRUE /\ spi.dreqRx = FALSE BY DEF SP!Init
<1>3. spi.raw = {} /\ spi.line = FALSE BY DEF SP!Init
<1>4. SpiSignalled(spi) BY <1>3 DEF SpiSignalled, SP!intStatus
<1>5. SpiRequests(spi)
  <2>1. (spi.tx < SpiSize) = TRUE BY <1>2, SizeAssumption
  <2>2. (spi.rx > 0) = FALSE BY <1>2
  <2> QED BY <1>2, <2>1, <2>2 DEF SpiRequests
<1> QED BY <1>1, <1>2, <1>4, <1>5 DEF SpiInv

-----------------------------------------------------------------------------
(* The ADC *)

Adc == [enabled : BOOLEAN, many : BOOLEAN, channel : Nat, round : SUBSET Nat, slow : BOOLEAN,
        busy : BOOLEAN, sample : BOOLEAN, multiShot : BOOLEAN,
        fifo : Nat, fifoOn : BOOLEAN, dreqOn : BOOLEAN, threshold : Nat, dreq : BOOLEAN,
        intEnable : BOOLEAN, line : BOOLEAN, settled : BOOLEAN]

\* What RequestsFollowStatus and TransfersGoOn say of the ADC, of any state.
AdcSignalled(a) == AD!intStatus(a) => a.line
AdcRequests(a) == a.dreqOn /\ a.settled => a.dreq = (a.fifo >= a.threshold)
AdcGoesOn(a) == a.busy = a.sample /\ (a.enabled /\ a.many => a.busy \/ a.multiShot)

AdcInv == adc \in Adc /\ AdcSignalled(adc) /\ AdcRequests(adc) /\ AdcGoesOn(adc)

\* checkInterrupts makes the line right and leaves the rest as it was.
LEMMA AdcChecked ==
  ASSUME NEW a \in Adc
  PROVE  LET b == AD!checkInterrupts(a)
         IN  /\ b \in Adc /\ AdcSignalled(b)
             /\ AdcRequests(a) => AdcRequests(b)
             /\ AdcGoesOn(a) => AdcGoesOn(b)
             /\ b.busy = a.busy /\ b.sample = a.sample /\ b.many = a.many
<1> DEFINE on == AD!intStatus(a)
           b == [a EXCEPT !.line = on]
<1>1. on \in BOOLEAN BY DEF AD!intStatus, Adc
<1> HIDE DEF on
<1>2. /\ b \in Adc /\ b.line = on /\ b.intEnable = a.intEnable /\ b.fifo = a.fifo
      /\ b.threshold = a.threshold /\ b.dreqOn = a.dreqOn /\ b.settled = a.settled
      /\ b.dreq = a.dreq /\ b.busy = a.busy /\ b.sample = a.sample /\ b.enabled = a.enabled
      /\ b.many = a.many /\ b.multiShot = a.multiShot
  BY <1>1 DEF Adc
<1>3. b = AD!checkInterrupts(a) BY DEF AD!checkInterrupts, on
<1> HIDE DEF b
<1> QED BY <1>2, <1>3 DEF AdcSignalled, AdcRequests, AdcGoesOn, AD!intStatus, on

\* updateDMA makes the request right and leaves the rest as it was.
LEMMA AdcUpdated ==
  ASSUME NEW a \in Adc
  PROVE  LET b == AD!updateDMA(a)
         IN  /\ b \in Adc /\ AdcRequests(b)
             /\ AdcSignalled(a) => AdcSignalled(b)
             /\ AdcGoesOn(a) => AdcGoesOn(b)
             /\ b.busy = a.busy /\ b.sample = a.sample /\ b.many = a.many
<1>1. CASE ~a.dreqOn BY <1>1 DEF AD!updateDMA, AdcRequests
<1>2. CASE a.dreqOn
  <2> DEFINE full == a.fifo >= a.threshold
             b == [a EXCEPT !.dreq = full, !.settled = TRUE]
  <2>1. full \in BOOLEAN OBVIOUS
  <2> HIDE DEF full
  <2>2. /\ b \in Adc /\ b.dreq = full /\ b.intEnable = a.intEnable /\ b.fifo = a.fifo
        /\ b.threshold = a.threshold /\ b.dreqOn = a.dreqOn /\ b.line = a.line
        /\ b.busy = a.busy /\ b.sample = a.sample /\ b.enabled = a.enabled
        /\ b.many = a.many /\ b.multiShot = a.multiShot
    BY <2>1 DEF Adc
  <2>3. b = AD!updateDMA(a) BY <1>2 DEF AD!updateDMA, full
  <2> HIDE DEF b
  <2> QED BY <2>2, <2>3 DEF AdcSignalled, AdcRequests, AdcGoesOn, AD!intStatus, full
<1> QED BY <1>1, <1>2 DEF Adc

\* The two states agree on what the line and the request depend on.
Alike(a, b) == /\ b.intEnable = a.intEnable /\ b.fifo = a.fifo /\ b.threshold = a.threshold
               /\ b.line = a.line /\ b.dreqOn = a.dreqOn /\ b.settled = a.settled /\ b.dreq = a.dreq

LEMMA AdcAlike ==
  ASSUME NEW a, NEW b, Alike(a, b)
  PROVE  /\ AdcSignalled(a) => AdcSignalled(b)
         /\ AdcRequests(a) => AdcRequests(b)
BY DEF Alike, AdcSignalled, AdcRequests, AD!intStatus

LEMMA AdcStarted ==
  ASSUME NEW a \in Adc
  PROVE  LET b == AD!startADCRead(a) IN b \in Adc /\ Alike(a, b) /\ AdcGoesOn(b)
BY DEF AD!startADCRead, Adc, Alike, AdcGoesOn

LEMMA AdcChannel == ASSUME NEW a PROVE AD!NextChannel(a) \in Nat
BY DEF AD!NextChannel, AD!activeChannel

LEMMA AdcStep ==
  ASSUME AdcInv, AD!Next
  PROVE  AdcInv'
<1>0. adc \in Adc /\ AdcSignalled(adc) /\ AdcRequests(adc) /\ AdcGoesOn(adc) BY DEF AdcInv
<1>1. ASSUME AD!completeADCRead PROVE AdcInv'
  <2> DEFINE a1 == [adc EXCEPT !.sample = FALSE, !.busy = FALSE]
             f == [a1 EXCEPT !.fifo = @ + 1]
             g == AD!updateDMA(f)
             a2 == IF adc.fifoOn /\ adc.fifo < AdcSize THEN AD!checkInterrupts(g) ELSE a1
             c == AD!NextChannel(adc)
             a3 == IF adc.round # {} THEN [a2 EXCEPT !.channel = c] ELSE a2
             a4 == IF ~adc.many THEN a3
                   ELSE IF adc.slow THEN [a3 EXCEPT !.multiShot = TRUE] ELSE AD!startADCRead(a3)
  <2>1. adc' = a4 BY <1>1 DEF AD!completeADCRead
  <2>2. a1 \in Adc /\ Alike(adc, a1) /\ a1.busy = FALSE /\ a1.sample = FALSE /\ a1.many = adc.many
    BY <1>0 DEF Adc, Alike
  <2> HIDE DEF a1
  <2>3. f \in Adc /\ f.busy = FALSE /\ f.sample = FALSE /\ f.many = adc.many BY <2>2 DEF Adc
  <2> HIDE DEF f
  <2>4. g \in Adc /\ AdcRequests(g) /\ g.busy = FALSE /\ g.sample = FALSE /\ g.many = adc.many
    BY <2>3, AdcUpdated
  <2> HIDE DEF g
  <2>5. /\ a2 \in Adc /\ AdcSignalled(a2) /\ AdcRequests(a2)
        /\ a2.busy = FALSE /\ a2.sample = FALSE /\ a2.many = adc.many
    <3>1. CASE adc.fifoOn /\ adc.fifo < AdcSize BY <3>1, <2>4, AdcChecked
    <3>2. CASE ~(adc.fifoOn /\ adc.fifo < AdcSize) BY <3>2, <2>2, <1>0, AdcAlike
    <3> QED BY <3>1, <3>2
  <2> HIDE DEF a2
  <2>6. c \in Nat BY AdcChannel
  <2> HIDE DEF c
  <2>7. a3 \in Adc /\ Alike(a2, a3) /\ a3.busy = FALSE /\ a3.sample = FALSE /\ a3.many = adc.many
    BY <2>5, <2>6 DEF Adc, Alike
  <2> HIDE DEF a3
  <2>8. a4 \in Adc /\ Alike(a3, a4) /\ AdcGoesOn(a4)
    <3>1. CASE ~adc.many BY <3>1, <2>7 DEF AdcGoesOn, Alike
    <3>2. CASE adc.many /\ adc.slow BY <3>2, <2>7 DEF Adc, AdcGoesOn, Alike
    <3>3. CASE adc.many /\ ~adc.slow BY <3>3, <2>7, AdcStarted
    <3> QED BY <3>1, <3>2, <3>3
  <2> HIDE DEF a4
  <2> QED BY <2>1, <2>5, <2>7, <2>8, AdcAlike DEF AdcInv
<1>2. ASSUME AD!multiShotFire PROVE AdcInv'
  <2> DEFINE a == [adc EXCEPT !.multiShot = FALSE]
             b == IF adc.many THEN AD!startADCRead(a) ELSE a
  <2>1. adc' = b BY <1>2 DEF AD!multiShotFire
  <2>2. a \in Adc /\ Alike(adc, a) /\ a.busy = a.sample /\ a.many = adc.many
    BY <1>0 DEF Adc, Alike, AdcGoesOn
  <2> HIDE DEF a
  <2>3. b \in Adc /\ Alike(a, b) /\ AdcGoesOn(b)
    <3>1. CASE adc.many BY <3>1, <2>2, AdcStarted
    <3>2. CASE ~adc.many BY <3>2, <2>2 DEF Alike, AdcGoesOn
    <3> QED BY <3>1, <3>2
  <2> HIDE DEF b
  <2> QED BY <1>0, <2>1, <2>2, <2>3, AdcAlike DEF AdcInv
<1>3. ASSUME NEW en \in BOOLEAN, NEW one \in BOOLEAN, NEW many \in BOOLEAN, NEW c \in {0, 1, 4},
             NEW r \in RoundRobins, AD!WriteCS(en, one, many, c, r)
      PROVE  AdcInv'
  <2> DEFINE a == [adc EXCEPT !.enabled = en, !.many = many, !.channel = c, !.round = r]
             b == IF en /\ ~adc.busy /\ (one \/ many) THEN AD!startADCRead(a) ELSE a
  <2>1. adc' = b BY <1>3 DEF AD!WriteCS
  <2>2. r \in SUBSET Nat /\ c \in Nat BY SizeAssumption
  <2>3. /\ a \in Adc /\ Alike(adc, a) /\ a.busy = adc.busy /\ a.sample = adc.sample
        /\ a.many = many /\ a.enabled = en
    BY <1>0, <2>2 DEF Adc, Alike
  <2> HIDE DEF a
  <2>4. b \in Adc /\ Alike(a, b) /\ AdcGoesOn(b)
    <3>1. CASE en /\ ~adc.busy /\ (one \/ many) BY <3>1, <2>3, AdcStarted
    <3>2. CASE ~(en /\ ~adc.busy /\ (one \/ many)) BY <1>0, <3>2, <2>3 DEF Alike, AdcGoesOn, Adc
    <3> QED BY <3>1, <3>2
  <2> HIDE DEF b
  <2> QED BY <1>0, <2>1, <2>3, <2>4, AdcAlike DEF AdcInv
<1>4. ASSUME NEW on \in BOOLEAN, NEW dreqOn \in BOOLEAN, NEW t \in Thresholds, AD!WriteFCS(on, dreqOn, t)
      PROVE  AdcInv'
  <2> DEFINE a == [adc EXCEPT !.fifoOn = on, !.dreqOn = dreqOn, !.threshold = t, !.settled = FALSE]
  <2>1. adc' = AD!checkInterrupts(a) BY <1>4 DEF AD!WriteFCS
  <2>2. t \in Nat BY SizeAssumption
  <2>3. a \in Adc /\ AdcRequests(a) BY <1>0, <2>2, ZenonT(30) DEF Adc, AdcRequests
  <2>4. AdcGoesOn(a) BY <1>0, <2>2 DEF Adc, AdcGoesOn
  <2> HIDE DEF a
  <2> QED BY <2>1, <2>3, <2>4, AdcChecked DEF AdcInv
<1>5. ASSUME AD!ReadFIFO PROVE AdcInv'
  <2> DEFINE a == [adc EXCEPT !.fifo = @ - 1]
  <2>1. adc' = AD!updateDMA(a) /\ adc.fifo - 1 \in Nat BY <1>0, <1>5 DEF AD!ReadFIFO, Adc
  <2>2. /\ a \in Adc /\ a.intEnable = adc.intEnable /\ a.fifo = adc.fifo - 1 /\ a.line = adc.line
        /\ a.threshold = adc.threshold
    BY <1>0, <2>1 DEF Adc
  <2>3. AdcGoesOn(a) BY <1>0, <2>1 DEF Adc, AdcGoesOn
  <2> HIDE DEF a
  <2>4. adc.fifo \in Nat /\ adc.threshold \in Nat BY <1>0 DEF Adc
  <2>5. AdcSignalled(a) BY <1>0, <2>2, <2>4 DEF AdcSignalled, AD!intStatus
  <2> QED BY <2>1, <2>2, <2>3, <2>5, AdcUpdated DEF AdcInv
<1>6. ASSUME NEW slow \in BOOLEAN, AD!WriteDIV(slow) PROVE AdcInv'
  <2>1. adc' \in Adc /\ Alike(adc, adc') BY <1>0, <1>6 DEF AD!WriteDIV, Adc, Alike
  <2>2. AdcGoesOn(adc') BY <1>0, <1>6 DEF AD!WriteDIV, Adc, AdcGoesOn
  <2> QED BY <1>0, <2>1, <2>2, AdcAlike DEF AdcInv
<1>7. ASSUME NEW en \in BOOLEAN, AD!WriteINTE(en) PROVE AdcInv'
  <2> DEFINE a == [adc EXCEPT !.intEnable = en]
  <2>1. adc' = AD!checkInterrupts(a) BY <1>7 DEF AD!WriteINTE
  <2>2. a \in Adc BY <1>0 DEF Adc
  <2>3. AdcRequests(a) BY <1>0 DEF Adc, AdcRequests
  <2>4. AdcGoesOn(a) BY <1>0 DEF Adc, AdcGoesOn
  <2> HIDE DEF a
  <2> QED BY <2>1, <2>2, <2>3, <2>4, AdcChecked DEF AdcInv
<1> QED BY <1>1, <1>2, <1>3, <1>4, <1>5, <1>6, <1>7 DEF AD!Next

LEMMA AdcInit == AD!Init => AdcInv
<1> SUFFICES ASSUME AD!Init PROVE AdcInv OBVIOUS
<1>1. adc \in Adc BY DEF AD!Init, Adc
<1>2. /\ adc.intEnable = FALSE /\ adc.dreqOn = FALSE /\ adc.busy = FALSE /\ adc.sample = FALSE
      /\ adc.enabled = FALSE
  BY DEF AD!Init
<1> QED BY <1>1, <1>2 DEF AdcInv, AdcSignalled, AdcRequests, AdcGoesOn, AD!intStatus

-----------------------------------------------------------------------------
(* The I2C *)

I2CStates == {"Idle", "Start", "Connect", "Connected", "Stop"}
I2CCalls == {"none", "start", "connect", "read", "write", "stop"}
I2CBits == {"ENABLE", "ABORT", "BLOCK"}
I2C == [state : I2CStates, busy : BOOLEAN, stop : BOOLEAN, pendingRestart : BOOLEAN,
        tx : Seq(IC!Command), txEmpty : BOOLEAN, enable : SUBSET I2CBits,
        call : I2CCalls, late : BOOLEAN, flushed : BOOLEAN]

\* Between two calls of the bus handler the bus rests or is connected, and what came
\* while an abort was under way is remembered as late.
I2CCoherent(s) ==
  /\ s.busy = (s.call # "none")
  /\ s.call = "start" => s.state = "Start"
  /\ s.call = "connect" => s.state = "Connect"
  /\ s.call \in {"read", "write"} => s.state = "Connected"
  /\ s.call = "stop" => s.state \in {"Start", "Stop"}
  /\ ~s.busy => s.state \in {"Idle", "Connected"}
  /\ s.tx = <<>> => s.txEmpty \/ s.flushed
  /\ "ABORT" \in s.enable => s.tx = <<>> \/ s.late
I2CGoesOn(s) ==
  s.tx # <<>> /\ "ENABLE" \in s.enable /\ ~("BLOCK" \in s.enable) => s.busy \/ s.late

I2CInv == i2c \in I2C /\ I2CCoherent(i2c) /\ I2CGoesOn(i2c)

\* nextCommand leaves no command behind that could be sent.
LEMMA I2CNextCommand ==
  ASSUME NEW s \in I2C, I2CCoherent(s)
  PROVE  LET t == IC!nextCommand(s) IN t \in I2C /\ I2CCoherent(t) /\ I2CGoesOn(t)
<1> DEFINE cmd == Head(s.tx)
           idle == s.tx = <<>> \/ s.busy \/ "BLOCK" \in s.enable \/ ~("ENABLE" \in s.enable)
           restart == cmd.restart /\ ~s.pendingRestart /\ ~s.stop
           t == IC!nextCommand(s)
<1>1. CASE idle
  <2>1. t = s BY <1>1 DEF IC!nextCommand
  <2> QED BY <1>1, <2>1 DEF I2CGoesOn
<1>2. ASSUME ~idle, s.state = "Idle" \/ restart
      PROVE  t \in I2C /\ I2CCoherent(t) /\ I2CGoesOn(t)
  <2>1. t = [s EXCEPT !.busy = TRUE, !.pendingRestart = restart, !.stop = FALSE,
                      !.state = "Start", !.call = "start"]
    BY <1>2 DEF IC!nextCommand, IC!call, I2C
  <2>2. restart \in BOOLEAN
    <3>1. cmd \in IC!Command BY <1>2 DEF I2C
    <3> QED BY <3>1 DEF I2C, IC!Command
  <2> HIDE DEF restart
  <2>3. /\ t \in I2C /\ t.busy = TRUE /\ t.state = "Start" /\ t.call = "start"
        /\ t.tx = s.tx /\ t.enable = s.enable /\ t.late = s.late
    BY <2>1, <2>2 DEF I2C, I2CStates, I2CCalls
  <2>4. s.tx # <<>> BY <1>2
  <2> HIDE DEF t
  <2> QED BY <2>3, <2>4 DEF I2CCoherent, I2CGoesOn
<1>3. ASSUME ~idle, s.state # "Idle", ~restart
      PROVE  t \in I2C /\ I2CCoherent(t) /\ I2CGoesOn(t)
  <2> DEFINE op == IF cmd.read THEN "read" ELSE "write"
             empty == s.txEmpty \/ Len(Tail(s.tx)) <= TxThreshold
  <2>0. cmd \in IC!Command /\ Tail(s.tx) \in Seq(IC!Command) BY <1>3 DEF I2C
  <2>1. op \in {"read", "write"} /\ cmd.stop \in BOOLEAN /\ empty \in BOOLEAN
    BY <2>0, SizeAssumption DEF IC!Command, I2C
  <2>2. t = [s EXCEPT !.busy = TRUE, !.pendingRestart = FALSE, !.tx = Tail(s.tx),
                      !.stop = cmd.stop, !.call = op, !.txEmpty = empty]
    BY <1>3 DEF IC!nextCommand, IC!call, I2C
  <2>3. Tail(s.tx) = <<>> => empty
    <3>1. Len(<<>>) = 0 OBVIOUS
    <3>2. 0 <= TxThreshold BY SizeAssumption
    <3> QED BY <3>1, <3>2
  <2>4. s.state = "Connected" /\ s.tx # <<>> BY <1>3 DEF I2CCoherent
  <2> HIDE DEF op, empty
  <2>5. /\ t \in I2C /\ t.busy = TRUE /\ t.state = s.state /\ t.call = op
        /\ t.tx = Tail(s.tx) /\ t.enable = s.enable /\ t.late = s.late /\ t.txEmpty = empty
    <3> DEFINE rest == Tail(s.tx)
               halt == cmd.stop
    <3>1. t = [s EXCEPT !.busy = TRUE, !.pendingRestart = FALSE, !.tx = rest,
                        !.stop = halt, !.call = op, !.txEmpty = empty]
      BY <2>2
    <3>2. rest \in Seq(IC!Command) /\ halt \in BOOLEAN BY <2>0, <2>1
    <3> HIDE DEF rest, halt, t
    <3>3. t \in I2C BY <2>1, <3>1, <3>2 DEF I2C, I2CCalls
    <3>4. /\ t.busy = TRUE /\ t.state = s.state /\ t.call = op /\ t.tx = rest
          /\ t.enable = s.enable /\ t.late = s.late
      BY <3>1 DEF I2C
    <3>5. t.txEmpty = empty BY <3>1 DEF I2C
    <3> QED BY <3>3, <3>4, <3>5 DEF rest
  <2> HIDE DEF t
  <2> QED BY <2>1, <2>3, <2>4, <2>5 DEF I2CCoherent, I2CGoesOn
<1> QED BY <1>1, <1>2, <1>3

LEMMA NoCommands == <<>> \in Seq(IC!Command)
OBVIOUS

\* The controller asks the bus handler for a stop, flushing its FIFO or not.
LEMMA I2CStopped ==
  ASSUME I2CInv, i2c.busy, NEW tx \in {i2c.tx, <<>>}, NEW flushed \in BOOLEAN, NEW state \in {i2c.state, "Stop"},
         state \in {"Start", "Stop"}, tx = <<>> => flushed \/ (tx = i2c.tx /\ flushed = i2c.flushed),
         i2c' = [i2c EXCEPT !.state = state, !.call = "stop", !.tx = tx, !.flushed = flushed]
  PROVE  I2CInv'
<1>1. i2c \in I2C /\ I2CCoherent(i2c) /\ I2CGoesOn(i2c) BY DEF I2CInv
<1>2. tx \in Seq(IC!Command) BY <1>1, NoCommands DEF I2C
<1>3. /\ i2c' \in I2C /\ i2c'.busy = TRUE /\ i2c'.state = state /\ i2c'.call = "stop"
      /\ i2c'.tx = tx /\ i2c'.enable = i2c.enable /\ i2c'.late = i2c.late /\ i2c'.txEmpty = i2c.txEmpty
      /\ i2c'.flushed = flushed
  BY <1>1, <1>2 DEF I2C, I2CCalls, I2CStates
<1> QED BY <1>1, <1>3 DEF I2CCoherent, I2CGoesOn, I2CInv

LEMMA I2CStep ==
  ASSUME I2CInv, IC!Next
  PROVE  I2CInv'
<1>0. i2c \in I2C /\ I2CCoherent(i2c) /\ I2CGoesOn(i2c) BY DEF I2CInv
<1>1. ASSUME IC!completeStart PROVE I2CInv'
  <2>1. i2c.busy /\ i2c.state = "Start" BY <1>0, <1>1 DEF IC!completeStart, IC!Completed, I2CCoherent
  <2>2. CASE i2c.tx = <<>> \/ i2c.state # "Start" \/ i2c.stop
    <3>1. i2c' = [i2c EXCEPT !.state = i2c.state, !.call = "stop", !.tx = i2c.tx, !.flushed = i2c.flushed]
      BY <1>0, <1>1, <2>2 DEF IC!completeStart, IC!call, IC!Returned, I2C
    <3> QED BY <2>1, <3>1, <1>0, I2CStopped DEF I2C
  <2>3. CASE ~(i2c.tx = <<>> \/ i2c.state # "Start" \/ i2c.stop)
    <3>1. i2c' = [i2c EXCEPT !.state = "Connect", !.call = "connect"]
      BY <1>0, <1>1, <2>3 DEF IC!completeStart, IC!call, IC!Returned, I2C
    <3>2. /\ i2c' \in I2C /\ i2c'.busy = TRUE /\ i2c'.state = "Connect" /\ i2c'.call = "connect"
          /\ i2c'.tx = i2c.tx /\ i2c'.enable = i2c.enable /\ i2c'.late = i2c.late
      BY <1>0, <2>1, <3>1 DEF I2C, I2CCalls, I2CStates
    <3> QED BY <1>0, <2>3, <3>2 DEF I2CCoherent, I2CGoesOn, I2CInv
  <2> QED BY <2>2, <2>3
<1>2. ASSUME NEW ack \in BOOLEAN, NEW op \in {"connect", "write"}, IC!Completed(op),
             ~(ack /\ ~i2c.stop),
             i2c' = IC!call([IF ack THEN IC!Returned ELSE IC!abort(IC!Returned) EXCEPT !.state = "Stop"], "stop")
      PROVE  I2CInv'
  <2>1. i2c.busy BY <1>0, <1>2 DEF IC!Completed, I2CCoherent
  <2>2. CASE ack
    <3>1. i2c' = [i2c EXCEPT !.state = "Stop", !.call = "stop", !.tx = i2c.tx, !.flushed = i2c.flushed]
      BY <1>0, <1>2, <2>2 DEF IC!call, IC!Returned, I2C
    <3> QED BY <2>1, <3>1, <1>0, I2CStopped DEF I2C
  <2>3. CASE ~ack
    <3>1. i2c' = [i2c EXCEPT !.state = "Stop", !.call = "stop", !.tx = <<>>, !.flushed = TRUE]
      BY <1>0, <1>2, <2>3 DEF IC!call, IC!Returned, IC!abort, I2C
    <3> QED BY <2>1, <3>1, <1>0, I2CStopped DEF I2C
  <2> QED BY <2>2, <2>3
<1>3. ASSUME NEW ack \in BOOLEAN, IC!completeConnect(ack) PROVE I2CInv'
  <2>1. CASE ack /\ ~i2c.stop
    <3> DEFINE s == [i2c EXCEPT !.call = "none", !.state = "Connected", !.busy = FALSE]
    <3>1. i2c' = IC!nextCommand(s) BY <1>0, <1>3, <2>1 DEF IC!completeConnect, IC!Returned, I2C
    <3>2. s \in I2C /\ I2CCoherent(s) BY <1>0 DEF I2C, I2CCalls, I2CStates, I2CCoherent
    <3> HIDE DEF s
    <3> QED BY <3>1, <3>2, I2CNextCommand DEF I2CInv
  <2> QED BY <1>2, <1>3, <2>1 DEF IC!completeConnect
<1>4. ASSUME NEW ack \in BOOLEAN, IC!completeWrite(ack) PROVE I2CInv'
  <2>1. CASE ack /\ ~i2c.stop
    <3> DEFINE s == [i2c EXCEPT !.call = "none", !.busy = FALSE]
    <3>1. i2c' = IC!nextCommand(s) BY <1>0, <1>4, <2>1 DEF IC!completeWrite, IC!Returned, I2C
    <3>2. i2c.state = "Connected" BY <1>0, <1>4 DEF IC!completeWrite, IC!Completed, I2CCoherent
    <3>3. s \in I2C /\ I2CCoherent(s) BY <1>0, <3>2 DEF I2C, I2CCalls, I2CStates, I2CCoherent
    <3> HIDE DEF s
    <3> QED BY <3>1, <3>3, I2CNextCommand DEF I2CInv
  <2> QED BY <1>2, <1>4, <2>1 DEF IC!completeWrite
<1>5. ASSUME IC!completeRead PROVE I2CInv'
  <2>1. i2c.busy /\ i2c.state = "Connected" BY <1>0, <1>5 DEF IC!completeRead, IC!Completed, I2CCoherent
  <2>2. CASE i2c.stop
    <3>1. i2c' = [i2c EXCEPT !.state = "Stop", !.call = "stop", !.tx = i2c.tx, !.flushed = i2c.flushed]
      BY <1>0, <1>5, <2>2 DEF IC!completeRead, IC!call, IC!Returned, I2C
    <3> QED BY <2>1, <3>1, <1>0, I2CStopped DEF I2C
  <2>3. CASE ~i2c.stop
    <3> DEFINE s == [i2c EXCEPT !.call = "none", !.busy = FALSE]
    <3>1. i2c' = IC!nextCommand(s) BY <1>0, <1>5, <2>3 DEF IC!completeRead, IC!Returned, I2C
    <3>2. s \in I2C /\ I2CCoherent(s) BY <1>0, <2>1 DEF I2C, I2CCalls, I2CStates, I2CCoherent
    <3> HIDE DEF s
    <3> QED BY <3>1, <3>2, I2CNextCommand DEF I2CInv
  <2> QED BY <2>2, <2>3
<1>6. ASSUME IC!completeStop PROVE I2CInv'
  <2> DEFINE s == [i2c EXCEPT !.call = "none", !.state = "Idle", !.busy = FALSE, !.pendingRestart = FALSE]
  <2>1. i2c' = IF "ABORT" \in s.enable THEN [s EXCEPT !.enable = @ \ {"ABORT"}] ELSE IC!nextCommand(s)
    BY <1>0, <1>6 DEF IC!completeStop, IC!Returned, I2C
  <2>2. /\ s \in I2C /\ s.call = "none" /\ s.state = "Idle" /\ s.busy = FALSE /\ s.tx = i2c.tx
        /\ s.enable = i2c.enable /\ s.late = i2c.late /\ s.txEmpty = i2c.txEmpty /\ s.flushed = i2c.flushed
    BY <1>0 DEF I2C, I2CCalls, I2CStates
  <2> HIDE DEF s
  <2>3. I2CCoherent(s) BY <1>0, <2>2 DEF I2CCoherent
  <2>4. CASE "ABORT" \in s.enable
    <3>1. s.enable \ {"ABORT"} \in SUBSET I2CBits BY <2>2 DEF I2C
    <3>2. /\ i2c' \in I2C /\ i2c'.call = "none" /\ i2c'.state = "Idle" /\ i2c'.busy = FALSE
          /\ i2c'.tx = s.tx /\ i2c'.enable = s.enable \ {"ABORT"} /\ i2c'.late = s.late
          /\ i2c'.txEmpty = s.txEmpty /\ i2c'.flushed = s.flushed
      BY <2>1, <2>2, <2>4, <3>1 DEF I2C
    <3> QED BY <2>3, <2>4, <3>2 DEF I2CCoherent, I2CGoesOn, I2CInv
  <2>5. CASE "ABORT" \notin s.enable BY <2>1, <2>2, <2>3, <2>5, I2CNextCommand DEF I2CInv
  <2> QED BY <2>4, <2>5
<1>7. ASSUME IC!arbitrationLost PROVE I2CInv'
  <2>1. i2c' = [i2c EXCEPT !.call = "none", !.state = "Idle", !.busy = FALSE, !.tx = <<>>, !.flushed = TRUE]
    BY <1>0, <1>7 DEF IC!arbitrationLost, IC!abort, IC!Returned, I2C
  <2>2. /\ i2c' \in I2C /\ i2c'.call = "none" /\ i2c'.state = "Idle" /\ i2c'.busy = FALSE
        /\ i2c'.tx = <<>> /\ i2c'.flushed = TRUE
    BY <1>0, <2>1, NoCommands DEF I2C, I2CCalls, I2CStates
  <2> QED BY <2>2 DEF I2CCoherent, I2CGoesOn, I2CInv
<1>8. ASSUME NEW cmd \in IC!Command, IC!WriteDATA_CMD(cmd) PROVE I2CInv'
  <2> DEFINE late == i2c.late \/ "ABORT" \in i2c.enable
             s == [i2c EXCEPT !.tx = Append(i2c.tx, cmd), !.txEmpty = FALSE, !.flushed = FALSE, !.late = late]
  <2>1. CASE Len(i2c.tx) = I2CSize BY <1>0, <1>8, <2>1 DEF IC!WriteDATA_CMD, I2CInv
  <2>2. CASE Len(i2c.tx) # I2CSize
    <3>1. i2c' = IC!nextCommand(s) BY <1>8, <2>2 DEF IC!WriteDATA_CMD
    <3>2. late \in BOOLEAN BY <1>0 DEF I2C
    <3>3. Append(i2c.tx, cmd) \in Seq(IC!Command) /\ Append(i2c.tx, cmd) # <<>> BY <1>0 DEF I2C
    <3>4. /\ s \in I2C /\ s.call = i2c.call /\ s.state = i2c.state /\ s.busy = i2c.busy
          /\ s.tx # <<>> /\ s.enable = i2c.enable /\ s.late = late
      BY <1>0, <3>2, <3>3 DEF I2C
    <3> HIDE DEF s
    <3>5. I2CCoherent(s) BY <1>0, <3>4 DEF I2CCoherent
    <3> QED BY <3>1, <3>4, <3>5, I2CNextCommand DEF I2CInv
  <2> QED BY <2>1, <2>2
<1>9. ASSUME NEW bits \in SUBSET {"ENABLE", "ABORT", "BLOCK"}, IC!WriteENABLE(bits) PROVE I2CInv'
  <2> DEFINE asked == bits \cup (i2c.enable \cap {"ABORT"})
             aborts == "ABORT" \in asked /\ i2c.state # "Idle"
             s1 == IF aborts THEN [IC!abort(i2c) EXCEPT !.stop = TRUE] ELSE i2c
             s2 == IF "ENABLE" \in bits THEN s1 ELSE [s1 EXCEPT !.tx = <<>>, !.flushed = TRUE]
             enable == IF aborts THEN asked ELSE asked \ {"ABORT"}
             late == s2.late /\ s2.tx # <<>>
             s == [s2 EXCEPT !.enable = enable, !.late = late]
  <2>1. i2c' = IC!nextCommand(s) BY <1>9 DEF IC!WriteENABLE
  <2>2. /\ s1 \in I2C /\ s1.call = i2c.call /\ s1.state = i2c.state /\ s1.busy = i2c.busy
        /\ s1.txEmpty = i2c.txEmpty
        /\ \/ s1.tx = <<>> /\ s1.flushed
           \/ s1.tx = i2c.tx /\ s1.flushed = i2c.flushed /\ ~aborts
    BY <1>0, NoCommands DEF I2C, IC!abort
  <2>3. bits \in SUBSET I2CBits BY DEF I2CBits
  <2>4. enable \in SUBSET I2CBits /\ ("ABORT" \in enable => aborts) BY <1>0, <2>3 DEF I2C
  <2> HIDE DEF s1, aborts, enable
  <2>5. /\ s2 \in I2C /\ s2.call = i2c.call /\ s2.state = i2c.state /\ s2.busy = i2c.busy
        /\ s2.txEmpty = i2c.txEmpty
        /\ \/ s2.tx = <<>> /\ s2.flushed
           \/ s2.tx = i2c.tx /\ s2.flushed = i2c.flushed /\ ~aborts
    BY <1>0, <2>2, NoCommands DEF I2C
  <2> HIDE DEF s2
  <2>6. late \in BOOLEAN BY <2>5 DEF I2C
  <2> HIDE DEF late
  <2>7. /\ s \in I2C /\ s.call = s2.call /\ s.state = s2.state /\ s.busy = s2.busy
        /\ s.txEmpty = s2.txEmpty /\ s.flushed = s2.flushed /\ s.tx = s2.tx /\ s.enable = enable
    BY <2>4, <2>5, <2>6 DEF I2C
  <2> HIDE DEF s
  <2>8. I2CCoherent(s) BY <1>0, <2>4, <2>5, <2>7 DEF I2CCoherent
  <2> QED BY <2>1, <2>7, <2>8, I2CNextCommand DEF I2CInv
<1> QED BY <1>1, <1>3, <1>4, <1>5, <1>6, <1>7, <1>8, <1>9 DEF IC!Next

LEMMA I2CInit == IC!Init => I2CInv
<1> SUFFICES ASSUME IC!Init PROVE I2CInv OBVIOUS
<1>1. i2c \in I2C BY DEF IC!Init, I2C, I2CCalls, I2CStates
<1>2. /\ i2c.state = "Idle" /\ i2c.busy = FALSE /\ i2c.call = "none" /\ i2c.tx = <<>>
      /\ i2c.enable = {} /\ i2c.flushed = TRUE
  BY DEF IC!Init
<1> QED BY <1>1, <1>2 DEF I2CInv, I2CCoherent, I2CGoesOn

-----------------------------------------------------------------------------
(* The microsecond timer *)

\* Quotient and remainder of the period, which is not a number the provers know.
LEMMA ModBasics ==
  ASSUME NEW x \in Int
  PROVE  /\ x % Wrap \in 0 .. Wrap - 1 /\ x \div Wrap \in Int
         /\ x = Wrap * (x \div Wrap) + (x % Wrap)
BY SizeAssumption

LEMMA ModSmall ==
  ASSUME NEW x \in 0 .. Wrap - 1
  PROVE  x % Wrap = x
BY SizeAssumption

\* Two numbers less than a period apart that show the same are the same.
LEMMA ModUnique ==
  ASSUME NEW x \in Int, NEW y \in Int, x <= y, y < x + Wrap, x % Wrap = y % Wrap
  PROVE  x = y
<1> DEFINE p == x \div Wrap
           q == y \div Wrap
           r == x % Wrap
           k == q - p
<1>0. p \in Int /\ q \in Int /\ r \in Int /\ x = Wrap * p + r /\ y = Wrap * q + r
  BY ModBasics
<1> HIDE DEF p, q, r
<1>1. k \in Int /\ y - x = Wrap * k
  <2>1. Wrap * q - Wrap * p = Wrap * (q - p) BY <1>0, SizeAssumption
  <2>2. Wrap * q \in Int /\ Wrap * p \in Int BY <1>0, SizeAssumption
  <2>3. y - x = Wrap * q - Wrap * p BY <1>0, <2>2
  <2> QED BY <1>0, <2>1, <2>3
<1> HIDE DEF k
<1>2. CASE k >= 1
  <2>1. Wrap * k >= Wrap BY <1>1, <1>2, SizeAssumption
  <2> QED BY <1>1, <2>1, SizeAssumption
<1>3. CASE k <= -1
  <2>1. Wrap * k <= -Wrap BY <1>1, <1>3, SizeAssumption
  <2> QED BY <1>1, <2>1, SizeAssumption
<1>4. CASE k = 0
  <2>1. Wrap * k = 0 BY <1>4, SizeAssumption
  <2> QED BY <1>1, <2>1
<1> QED BY <1>1, <1>2, <1>3, <1>4

\* Adding the difference modulo the period leads to what was wanted.
LEMMA ModSum ==
  ASSUME NEW x \in Int, NEW y \in Int
  PROVE  (x + ((y - x) % Wrap)) % Wrap = y % Wrap
<1> DEFINE d == (y - x) % Wrap
           z == x + d
<1>1. y - x = Wrap * ((y - x) \div Wrap) + d /\ d \in Int /\ (y - x) \div Wrap \in Int BY ModBasics
<1>2. y = Wrap * (y \div Wrap) + (y % Wrap) /\ y % Wrap \in 0 .. Wrap - 1 /\ y \div Wrap \in Int BY ModBasics
<1> DEFINE k == y \div Wrap - (y - x) \div Wrap
<1>3. k \in Int /\ z = Wrap * k + (y % Wrap)
  <2>1. \A p, q \in Int : Wrap * p - Wrap * q = Wrap * (p - q) BY SizeAssumption
  <2> QED BY <1>1, <1>2, <2>1, SizeAssumption
<1>4. z % Wrap \in 0 .. Wrap - 1 /\ z = Wrap * (z \div Wrap) + (z % Wrap) /\ z \div Wrap \in Int
  BY <1>1, ModBasics
<1> HIDE DEF k, z
<1>5. ASSUME NEW p \in Int, NEW q \in Int, NEW r \in 0 .. Wrap - 1, NEW s \in 0 .. Wrap - 1,
             Wrap * p + r = Wrap * q + s
      PROVE  r = s
  <2>1. Wrap * (p - q) = s - r BY <1>5, SizeAssumption
  <2>2. CASE p - q >= 1
    <3>1. Wrap * (p - q) >= Wrap BY <2>2, SizeAssumption
    <3> QED BY <2>1, <3>1, SizeAssumption
  <2>3. CASE p - q <= -1
    <3>1. Wrap * (p - q) <= -Wrap BY <2>3, SizeAssumption
    <3> QED BY <2>1, <3>1, SizeAssumption
  <2>4. CASE p = q BY <2>1, <2>4, SizeAssumption
  <2> QED BY <2>2, <2>3, <2>4
<1>6. z % Wrap = y % Wrap BY <1>2, <1>3, <1>4, <1>5
<1> QED BY <1>6 DEF z

\* What ALARMn schedules at time now: the alarm comes when the time shows the value,
\* or, the fraction of a microsecond having been cut off, up to one before.
LEMMA DelayPrompt ==
  ASSUME NEW v \in 0 .. Wrap - 1, NEW now \in Nat,
         NEW due, due = now + 3 * U!DeltaMicros(v, now)
  PROVE  /\ due \in Nat /\ due >= now
         /\ v \in {U!Shows(due), U!Shows(due + 3)}
         /\ \A t \in now .. due - 1 : U!Shows(t) = v => t \div 3 \in {now \div 3, due \div 3}
<1> DEFINE delta == U!DeltaMicros(v, now)
           q == now \div 3
<1>0. v \in Nat /\ q \in Nat BY SizeAssumption
<1>1. CASE 3 * v >= now
  <2> DEFINE x == (3 * v - now) \div 3
  <2>1. x \in 0 .. Wrap - 1 BY <1>1, SizeAssumption
  <2>2. due = now + 3 * x BY <1>1, <2>1, ModSmall DEF U!DeltaMicros
  <2>3. due \in Nat /\ due >= now BY <2>1, <2>2
  <2>4. due \div 3 = v \/ (due + 3) \div 3 = v BY <1>1, <2>2
  <2>5. U!Shows(due) = v \/ U!Shows(due + 3) = v BY <2>4, ModSmall DEF U!Shows
  <2>6. ASSUME NEW t \in now .. due - 1, U!Shows(t) = v
        PROVE  t \div 3 = due \div 3
    <3>1. t \div 3 \in 0 .. v BY <1>1, <2>2, <2>6
    <3>2. t \div 3 \in 0 .. Wrap - 1 BY <3>1, SizeAssumption
    <3>3. t \div 3 = v BY <3>2, <2>6, ModSmall DEF U!Shows
    <3> QED BY <1>1, <2>2, <2>6, <3>3
  <2> QED BY <2>3, <2>5, <2>6
<1>2. CASE 3 * v < now
  <2>1. delta = (v - q) % Wrap
    <3>1. -((now - 3 * v) \div 3) = v - q BY <1>2
    <3> QED BY <1>2, <3>1 DEF U!DeltaMicros
  <2>2. delta \in 0 .. Wrap - 1 BY <1>0, <2>1, ModBasics
  <2>3. due = now + 3 * delta OBVIOUS
  <2> HIDE DEF delta
  <2>4. due \in Nat /\ due >= now /\ due \div 3 = q + delta BY <2>2, <2>3, SizeAssumption
  <2>5. U!Shows(due) = v
    <3>1. (q + delta) % Wrap = v % Wrap BY <1>0, <2>1, ModSum
    <3> QED BY <2>4, <3>1, ModSmall DEF U!Shows
  <2>6. ASSUME NEW t \in now .. due - 1, U!Shows(t) = v
        PROVE  t \div 3 = due \div 3
    <3>1. t \div 3 \in Int /\ t \div 3 <= due \div 3 /\ due \div 3 < t \div 3 + Wrap
      BY <2>2, <2>3, <2>4, SizeAssumption
    <3>2. (t \div 3) % Wrap = (due \div 3) % Wrap BY <2>5, <2>6 DEF U!Shows
    <3> QED BY <3>1, <3>2, <2>4, ModUnique
  <2> QED BY <2>4, <2>5, <2>6
<1>3. 3 * v >= now \/ 3 * v < now BY <1>0
<1> QED BY <1>1, <1>2, <1>3

TimerAlarm == [armed : BOOLEAN, target : Int, due : Int, set : Nat]
Timer == [now : Nat, alarms : [MicroAlarms -> TimerAlarm], intRaw : SUBSET MicroAlarms,
          intEnable : SUBSET MicroAlarms, intForce : SUBSET MicroAlarms, lines : SUBSET MicroAlarms]

\* What AlarmsPrompt says of one alarm.
Prompt(alarm, now) ==
  /\ alarm.armed = (alarm.due # U!Unscheduled)
  /\ alarm.armed =>
       /\ alarm.due >= now
       /\ alarm.target \in {U!Shows(alarm.due), U!Shows(alarm.due + 3)}
       /\ \A t \in alarm.set .. alarm.due - 1 :
            U!Shows(t) = alarm.target => t \div 3 \in {alarm.set \div 3, alarm.due \div 3}

TimerInv == microTimer \in Timer /\ \A a \in MicroAlarms : Prompt(microTimer.alarms[a], microTimer.now)

\* checkInterrupts touches no alarm.
LEMMA TimerChecked ==
  ASSUME NEW m \in Timer
  PROVE  LET n == U!checkInterrupts(m)
         IN  n \in Timer /\ n.now = m.now /\ n.alarms = m.alarms
<1> DEFINE lines == U!intStatus(m)
<1>1. lines \in SUBSET MicroAlarms BY DEF U!intStatus, Timer
<1> HIDE DEF lines
<1> QED BY <1>1 DEF U!checkInterrupts, Timer, lines

\* An alarm that is disarmed is prompt, whatever it was.
LEMMA Disarmed ==
  ASSUME NEW alarm \in TimerAlarm, NEW now,
         NEW off, off = [alarm EXCEPT !.due = U!Unscheduled, !.armed = FALSE]
  PROVE  off \in TimerAlarm /\ Prompt(off, now)
<1>1. U!Unscheduled \in Int BY DEF U!Unscheduled
<1>2. off \in TimerAlarm BY <1>1 DEF TimerAlarm
<1>3. off.armed = FALSE /\ off.due = U!Unscheduled BY DEF TimerAlarm
<1> QED BY <1>2, <1>3 DEF Prompt

LEMMA TimerStep ==
  ASSUME TimerInv, U!Next
  PROVE  TimerInv'
<1>0. microTimer \in Timer /\ \A a \in MicroAlarms : Prompt(microTimer.alarms[a], microTimer.now)
  BY DEF TimerInv
<1>1. ASSUME NEW a \in MicroAlarms, NEW v \in 0 .. Wrap - 1, U!WriteALARM(a, v) PROVE TimerInv'
  <2> DEFINE now == microTimer.now
             due == now + 3 * U!DeltaMicros(v, now)
             alarm == [armed |-> TRUE, target |-> v, set |-> now, due |-> due]
  <2>1. microTimer' = [microTimer EXCEPT !.alarms[a] = alarm] BY <1>1 DEF U!WriteALARM
  <2>2. now \in Nat BY <1>0 DEF Timer
  <2>3. /\ due \in Nat /\ due >= now
        /\ v \in {U!Shows(due), U!Shows(due + 3)}
        /\ \A t \in now .. due - 1 : U!Shows(t) = v => t \div 3 \in {now \div 3, due \div 3}
    BY <2>2, DelayPrompt
  <2> HIDE DEF due
  <2>4. alarm \in TimerAlarm /\ Prompt(alarm, now)
    <3>1. alarm \in TimerAlarm BY <2>2, <2>3, SizeAssumption DEF TimerAlarm
    <3>2. alarm.armed = TRUE /\ alarm.target = v /\ alarm.set = now /\ alarm.due = due OBVIOUS
    <3>3. due # U!Unscheduled BY <2>3 DEF U!Unscheduled
    <3> HIDE DEF alarm
    <3> QED BY <2>3, <3>1, <3>2, <3>3 DEF Prompt
  <2> HIDE DEF alarm
  <2>5. /\ microTimer' \in Timer /\ microTimer'.now = now
        /\ \A b \in MicroAlarms : microTimer'.alarms[b] = IF b = a THEN alarm ELSE microTimer.alarms[b]
    BY <1>0, <2>1, <2>4 DEF Timer
  <2> QED BY <1>0, <2>4, <2>5 DEF TimerInv
<1>2. ASSUME NEW s \in SUBSET MicroAlarms, U!WriteARMED(s) PROVE TimerInv'
  <2> DEFINE off(a) == [microTimer.alarms[a] EXCEPT !.due = U!Unscheduled, !.armed = FALSE]
             alarms == [a \in MicroAlarms |-> IF a \in s THEN off(a) ELSE microTimer.alarms[a]]
  <2>1. \A a \in MicroAlarms : microTimer.alarms[a] \in TimerAlarm BY <1>0 DEF Timer
  <2>2. \A a \in MicroAlarms : U!disarmAlarm(microTimer, a).alarms[a] = off(a)
    BY <1>0, <2>1 DEF U!disarmAlarm, Timer, TimerAlarm
  <2>3. microTimer' = [microTimer EXCEPT !.alarms = alarms] BY <1>2, <2>2 DEF U!WriteARMED
  <2>4. \A a \in MicroAlarms : off(a) \in TimerAlarm /\ Prompt(off(a), microTimer.now) BY <2>1, Disarmed
  <2> HIDE DEF off
  <2>5. alarms \in [MicroAlarms -> TimerAlarm] BY <2>1, <2>4
  <2>6. \A a \in MicroAlarms : Prompt(alarms[a], microTimer.now) BY <1>0, <2>4
  <2> HIDE DEF alarms
  <2> QED BY <1>0, <2>3, <2>5, <2>6 DEF TimerInv, Timer
<1>3. ASSUME NEW s \in SUBSET MicroAlarms, U!WriteINTR(s) \/ U!WriteINTE(s) \/ U!WriteINTF(s)
      PROVE  TimerInv'
  <2>1. PICK m : /\ m \in Timer /\ m.now = microTimer.now /\ m.alarms = microTimer.alarms
                 /\ microTimer' = U!checkInterrupts(m)
    <3>1. CASE U!WriteINTR(s)
      <4> DEFINE m == [microTimer EXCEPT !.intRaw = @ \ s]
      <4>1. microTimer.intRaw \ s \in SUBSET MicroAlarms BY <1>0 DEF Timer
      <4>2. m \in Timer /\ m.now = microTimer.now /\ m.alarms = microTimer.alarms
        BY <1>0, <4>1 DEF Timer
      <4> QED BY <3>1, <4>2 DEF U!WriteINTR
    <3>2. CASE U!WriteINTE(s)
      <4> DEFINE m == [microTimer EXCEPT !.intEnable = s]
      <4>2. m \in Timer /\ m.now = microTimer.now /\ m.alarms = microTimer.alarms BY <1>0 DEF Timer
      <4> QED BY <3>2, <4>2 DEF U!WriteINTE
    <3>3. CASE U!WriteINTF(s)
      <4> DEFINE m == [microTimer EXCEPT !.intForce = s]
      <4>2. m \in Timer /\ m.now = microTimer.now /\ m.alarms = microTimer.alarms BY <1>0 DEF Timer
      <4> QED BY <3>3, <4>2 DEF U!WriteINTF
    <3> QED BY <1>3, <3>1, <3>2, <3>3
  <2> QED BY <1>0, <2>1, TimerChecked DEF TimerInv
<1>4. ASSUME NEW a \in MicroAlarms, U!fireAlarm(a) PROVE TimerInv'
  <2> DEFINE off == [microTimer.alarms[a] EXCEPT !.due = U!Unscheduled, !.armed = FALSE]
             m == [microTimer EXCEPT !.alarms[a] = off, !.intRaw = @ \cup {a}]
  <2>1. microTimer.alarms[a] \in TimerAlarm BY <1>0 DEF Timer
  <2>2. off \in TimerAlarm /\ Prompt(off, microTimer.now) BY <2>1, Disarmed
  <2>3. microTimer' = U!checkInterrupts(m)
    BY <1>0, <1>4, <2>1 DEF U!fireAlarm, U!disarmAlarm, Timer, TimerAlarm
  <2> HIDE DEF off
  <2>4. microTimer.intRaw \cup {a} \in SUBSET MicroAlarms BY <1>0 DEF Timer
  <2>5. /\ m \in Timer /\ m.now = microTimer.now
        /\ \A b \in MicroAlarms : m.alarms[b] = IF b = a THEN off ELSE microTimer.alarms[b]
    BY <1>0, <2>2, <2>4 DEF Timer
  <2> HIDE DEF m
  <2> QED BY <1>0, <2>2, <2>3, <2>5, TimerChecked DEF TimerInv
<1>5. ASSUME U!Tick PROVE TimerInv'
  <2>1. /\ microTimer' \in Timer /\ microTimer'.now = microTimer.now + 1
        /\ microTimer'.alarms = microTimer.alarms
    BY <1>0, <1>5 DEF U!Tick, Timer
  <2>2. ASSUME NEW a \in MicroAlarms PROVE Prompt(microTimer.alarms[a], microTimer.now + 1)
    <3>1. microTimer.alarms[a] \in TimerAlarm /\ microTimer.now \in Nat BY <1>0 DEF Timer
    <3>2. microTimer.alarms[a].due # microTimer.now BY <1>5 DEF U!Tick, U!Overdue
    <3>3. microTimer.alarms[a].due >= microTimer.now => microTimer.alarms[a].due >= microTimer.now + 1
      BY <3>1, <3>2 DEF TimerAlarm
    <3> QED BY <1>0, <3>3 DEF Prompt
  <2> QED BY <2>1, <2>2 DEF TimerInv
<1> QED BY <1>1, <1>2, <1>3, <1>4, <1>5 DEF U!Next, U!Write

LEMMA TimerInit == U!Init => TimerInv
<1> SUFFICES ASSUME U!Init PROVE TimerInv OBVIOUS
<1>1. microTimer \in Timer BY DEF U!Init, Timer, TimerAlarm, U!Unscheduled
<1>2. \A a \in MicroAlarms : microTimer.alarms[a].armed = FALSE /\ microTimer.alarms[a].due = U!Unscheduled
  BY DEF U!Init
<1> QED BY <1>1, <1>2 DEF TimerInv, Prompt

-----------------------------------------------------------------------------
(* The peripherals together *)

IInv == UartInv /\ SpiInv /\ AdcInv /\ I2CInv /\ TimerInv

\* A step is one of the part in focus and leaves the others alone.
LEMMA OneAtATime ==
  ASSUME [MCNext]_MCVars
  PROVE  /\ UA!Next \/ UNCHANGED uart
         /\ SP!Next \/ UNCHANGED spi
         /\ AD!Next \/ UNCHANGED adc
         /\ IC!Next \/ UNCHANGED i2c
         /\ U!Next \/ UNCHANGED microTimer
<1>1. CASE UNCHANGED MCVars
  BY <1>1 DEF MCVars
<1>2. CASE MCNext
  BY <1>2 DEF MCNext, Only
<1> QED
  BY <1>1, <1>2

LEMMA Invariance == MCSpec => []IInv
<1>1. MCInit => IInv
  BY UartInit, SpiInit, AdcInit, I2CInit, TimerInit DEF MCInit, IInv
<1>2. IInv /\ [MCNext]_MCVars => IInv'
  <2> SUFFICES ASSUME IInv, [MCNext]_MCVars
               PROVE  IInv'
    OBVIOUS
  <2>1. UartInv'
    BY OneAtATime, UartStep DEF IInv, UartInv, UA!StatusSignalled
  <2>2. SpiInv'
    <3>1. CASE SP!Next
      BY <3>1, SpiStep DEF IInv
    <3>2. CASE UNCHANGED spi
      BY <3>2 DEF IInv, SpiInv, SpiSignalled, SpiRequests, SP!intStatus
    <3> QED
      BY <3>1, <3>2, OneAtATime
  <2>3. AdcInv'
    <3>1. CASE AD!Next
      BY <3>1, AdcStep DEF IInv
    <3>2. CASE UNCHANGED adc
      BY <3>2 DEF IInv, AdcInv, AdcSignalled, AdcRequests, AdcGoesOn, AD!intStatus
    <3> QED
      BY <3>1, <3>2, OneAtATime
  <2>4. I2CInv'
    <3>1. CASE IC!Next
      BY <3>1, I2CStep DEF IInv
    <3>2. CASE UNCHANGED i2c
      BY <3>2 DEF IInv, I2CInv, I2CCoherent, I2CGoesOn
    <3> QED
      BY <3>1, <3>2, OneAtATime
  <2>5. TimerInv'
    <3>1. CASE U!Next
      BY <3>1, TimerStep DEF IInv
    <3>2. CASE UNCHANGED microTimer
      BY <3>2 DEF IInv, TimerInv
    <3> QED
      BY <3>1, <3>2, OneAtATime
  <2> QED
    BY <2>1, <2>2, <2>3, <2>4, <2>5 DEF IInv
<1> QED
  BY <1>1, <1>2, PTL DEF MCSpec

\* For FIFOs of any size an enabled cause has raised its line, whichever call brought
\* it, and a DMA request is up exactly while there is room or data (checkInterrupts,
\* fifosUpdated, updateDMA of uart.ts, spi.ts and adc.ts).
THEOREM SerialRequestsFollowStatus == MCSpec => []RequestsFollowStatus
<1>1. IInv => RequestsFollowStatus
  <2> SUFFICES ASSUME IInv
               PROVE  RequestsFollowStatus
    OBVIOUS
  <2>1. UA!StatusSignalled
    BY DEF IInv, UartInv
  <2>2. SP!StatusSignalled /\ SP!RequestsFollowFIFOs
    BY DEF IInv, SpiInv, SpiSignalled, SpiRequests, SP!StatusSignalled, SP!RequestsFollowFIFOs
  <2>3. AD!StatusSignalled /\ AD!RequestsFollowFIFO
    BY DEF IInv, AdcInv, AdcSignalled, AdcRequests, AD!StatusSignalled, AD!RequestsFollowFIFO
  <2> QED
    BY <2>1, <2>2, <2>3 DEF RequestsFollowStatus
<1> QED
  BY <1>1, Invariance, PTL

\* No word, command or conversion waits for an event that is not coming, for FIFOs of
\* any size and any commands (doTX, nextCommand, startADCRead).
THEOREM SerialTransfersGoOn == MCSpec => []TransfersGoOn
<1>1. IInv => TransfersGoOn
  <2> SUFFICES ASSUME IInv
               PROVE  TransfersGoOn
    OBVIOUS
  <2>1. SP!WordsGoOn
    BY DEF IInv, SpiInv, SP!WordsGoOn
  <2>2. IC!CommandsGoOn
    BY DEF IInv, I2CInv, I2CCoherent, I2CGoesOn, IC!CommandsGoOn, IC!BusFollowsState
  <2>3. AD!ConversionsGoOn
    BY DEF IInv, AdcInv, AdcGoesOn, AD!ConversionsGoOn
  <2> QED
    BY <2>1, <2>2, <2>3 DEF TransfersGoOn
<1> QED
  BY <1>1, Invariance, PTL

\* For any number of alarms and any period of the counter no microsecond alarm is late,
\* or early by more than one microsecond (writeUint32 of timer.ts, ALARMn and ARMED).
THEOREM MicroAlarmsPrompt == MCSpec => []AlarmsPrompt
<1>1. IInv => AlarmsPrompt
  BY DEF IInv, TimerInv, Prompt, AlarmsPrompt, U!AlarmsPrompt
<1> QED
  BY <1>1, Invariance, PTL
=============================================================================
