---------------------------------- MODULE ADC ----------------------------------
(***************************************************************************)
(* The ADC (peripherals/adc.ts) with the default onADCRead: a conversion   *)
(* ends when the sample alarm fires, and in START_MANY mode the next one   *)
(* starts then or when the multi-shot alarm fires.  Samples are counted;   *)
(* a channel is its number.  Clock alarms fire at any later moment.        *)
(***************************************************************************)
EXTENDS Integers

CONSTANTS Size,                                 \* FIFO entries, 4 in the code
          Thresholds, RoundRobins               \* sets of channels, of 0 .. 4

VARIABLE adc

Init ==
  adc = [enabled |-> FALSE, many |-> FALSE, channel |-> 0, round |-> {}, slow |-> FALSE,
         busy |-> FALSE, sample |-> FALSE, multiShot |-> FALSE,
         fifo |-> 0, fifoOn |-> FALSE, dreqOn |-> FALSE, threshold |-> 0, dreq |-> FALSE,
         intEnable |-> FALSE, line |-> FALSE,
         settled |-> FALSE]                     \* history: DREQ computed since FCS was written

intStatus(a) == a.intEnable /\ a.fifo >= a.threshold
checkInterrupts(a) == [a EXCEPT !.line = intStatus(a)]
updateDMA(a) ==
  IF a.dreqOn THEN [a EXCEPT !.dreq = a.fifo >= a.threshold, !.settled = TRUE] ELSE a

\* onADCRead schedules the sample alarm, again if it is scheduled.
startADCRead(a) == [a EXCEPT !.busy = TRUE, !.sample = TRUE]

\* The setter keeps only bit 2 of a channel: CS_AINSEL_SHIFT stands for the mask.
activeChannel(c) == IF c >= 4 THEN 4 ELSE 0

\* The search starts at the channel after this one; after 4 that is 5, then 1.
NextChannel(a) ==
  LET tried(k) == IF k = 0 THEN a.channel + 1 ELSE (a.channel + 1 + k) % 5
      first == CHOOSE k \in 0 .. 5 : tried(k) \in a.round /\ \A j \in 0 .. k - 1 : tried(j) \notin a.round
  IN  activeChannel(tried(first))

completeADCRead ==
  /\ adc.sample
  /\ LET a1 == [adc EXCEPT !.sample = FALSE, !.busy = FALSE]
         a2 == IF adc.fifoOn /\ adc.fifo < Size
                 THEN checkInterrupts(updateDMA([a1 EXCEPT !.fifo = @ + 1])) ELSE a1
         a3 == IF adc.round # {} THEN [a2 EXCEPT !.channel = NextChannel(adc)] ELSE a2
     IN  adc' = IF ~adc.many THEN a3
                ELSE IF adc.slow THEN [a3 EXCEPT !.multiShot = TRUE] ELSE startADCRead(a3)

multiShotFire ==
  /\ adc.multiShot
  /\ LET a == [adc EXCEPT !.multiShot = FALSE]
     IN  adc' = IF adc.many THEN startADCRead(a) ELSE a

WriteCS(en, one, many, channel, round) ==
  LET a == [adc EXCEPT !.enabled = en, !.many = many, !.channel = channel, !.round = round]
  IN  adc' = IF en /\ ~adc.busy /\ (one \/ many) THEN startADCRead(a) ELSE a

\* Neither enabling nor disabling DREQ changes the request.
WriteFCS(on, dreqOn, threshold) ==
  adc' = checkInterrupts([adc EXCEPT !.fifoOn = on, !.dreqOn = dreqOn, !.threshold = threshold,
                                     !.settled = FALSE])

\* The line is not looked at: it falls when something else is written.
ReadFIFO == adc.fifo > 0 /\ adc' = updateDMA([adc EXCEPT !.fifo = @ - 1])
WriteDIV(slow) == adc' = [adc EXCEPT !.slow = slow]
WriteINTE(en) == adc' = checkInterrupts([adc EXCEPT !.intEnable = en])

Next ==
  \/ completeADCRead \/ multiShotFire \/ ReadFIFO
  \/ \E en, one, many \in BOOLEAN, c \in {0, 1, 4}, r \in RoundRobins : WriteCS(en, one, many, c, r)
  \/ \E on, dreqOn \in BOOLEAN, t \in Thresholds : WriteFCS(on, dreqOn, t)
  \/ \E b \in BOOLEAN : WriteDIV(b) \/ WriteINTE(b)

-----------------------------------------------------------------------------
StatusSignalled == intStatus(adc) => adc.line
RequestsFollowFIFO == adc.dreqOn /\ adc.settled => adc.dreq = (adc.fifo >= adc.threshold)
ConversionsGoOn ==
  /\ adc.busy = adc.sample
  /\ adc.enabled /\ adc.many => adc.busy \/ adc.multiShot
=============================================================================
