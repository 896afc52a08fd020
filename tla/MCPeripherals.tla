---------------------------- MODULE MCPeripherals ----------------------------
(***************************************************************************)
(* The simulation clock, the timers and the serial peripherals.  They      *)
(* share only the clock, of which each models its own alarms: every        *)
(* behaviour is that of the one in focus, chosen at the start.             *)
(***************************************************************************)
EXTENDS SimulationClock, TLC

CONSTANTS Full, Levels, Tops, Prescalers, MaxTop, DivModes, Loads, TimeMask, Core,
          MicroAlarms, Wrap, MaxTime,                                  \* timers
          UartSize, SpiSize, I2CSize, TxThreshold, AdcSize, Thresholds, RoundRobins    \* serial

\* What the sizes, thresholds and periods of the code satisfy.
ASSUME MCPeripheralsAssumption ==
  /\ UartSize \in Nat /\ SpiSize \in Nat \ {0} /\ I2CSize \in Nat /\ AdcSize \in Nat
  /\ TxThreshold \in Nat /\ Thresholds \subseteq Nat /\ RoundRobins \subseteq SUBSET (0 .. 4)
  /\ Wrap \in Nat \ {0}

VARIABLES focus, slice, watchdog, mtime, microTimer, uart, spi, i2c, adc

P == INSTANCE PWM
W == INSTANCE Watchdog
M == INSTANCE MachineTimer
U == INSTANCE MicroTimer WITH Alarms <- MicroAlarms
UA == INSTANCE UART WITH Size <- UartSize
SP == INSTANCE SPI WITH Size <- SpiSize
IC == INSTANCE I2C WITH Size <- I2CSize
AD == INSTANCE ADC WITH Size <- AdcSize

MCVars == <<focus, vars, slice, watchdog, mtime, microTimer, uart, spi, i2c, adc>>

MCInit == /\ focus \in {"clock", "pwm", "watchdog", "mtime", "timer", "uart", "spi", "i2c", "adc"}
          /\ Init
          /\ P!Init /\ W!Init /\ M!Init /\ U!Init
          /\ UA!Init /\ SP!Init /\ IC!Init /\ AD!Init

\* The part of that name takes a step, and the others do not.
Only(name, A) ==
  /\ focus = name /\ A /\ UNCHANGED focus
  /\ name = "clock" \/ UNCHANGED vars
  /\ name = "pwm" \/ UNCHANGED slice
  /\ name = "watchdog" \/ UNCHANGED watchdog
  /\ name = "mtime" \/ UNCHANGED mtime
  /\ name = "timer" \/ UNCHANGED microTimer
  /\ name = "uart" \/ UNCHANGED uart
  /\ name = "spi" \/ UNCHANGED spi
  /\ name = "i2c" \/ UNCHANGED i2c
  /\ name = "adc" \/ UNCHANGED adc

MCNext == \/ Only("clock", Next)
          \/ Only("pwm", P!Next) \/ Only("watchdog", W!Next)
          \/ Only("mtime", M!Next) \/ Only("timer", U!Next)
          \/ Only("uart", UA!Next) \/ Only("spi", SP!Next) \/ Only("i2c", IC!Next)
          \/ Only("adc", AD!Next)

MCSpec == MCInit /\ [][MCNext]_MCVars

Symmetry == Permutations(Alarm)

\* The bounds: on the watchdog's history, and on a slice whose running counter was
\* advanced, of which no property speaks until it is synchronised again.
Bounds == watchdog.ran <= 4 * (TimeMask + 1) /\ slice.phase # "skewed"

\* In every timer, a running alarm whose target the counter can reach is due at
\* the counter's next arrival there, and no other is (see Timer32).  A slice whose
\* counter the B pin advanced while it ran, as writing DIV makes it, is not bound.
AlarmsMeetCounter ==
  /\ slice.phase = "skewed" \/ P!AlarmsMeetCounter(slice.timer)
  /\ W!AlarmsMeetCounter(watchdog.timer)
  /\ M!AlarmsMeetCounter(mtime.timer)

\* See PWM, Watchdog and MicroTimer: the pin follows the counter and the watchdog
\* bites exactly when its load has run out; no microsecond alarm is late.
CountersExact == P!OutputFollowsCounter /\ W!WatchdogCountsDown
AlarmsPrompt == U!AlarmsPrompt

\* The interrupt line of a peripheral is raised as soon as an enabled cause is
\* there, whichever call brought it; a DMA request is up exactly while there is
\* room or data.  (A lone SPI overrun and an ADC line after a read are excepted:
\* see the two modules.)
RequestsFollowStatus ==
  /\ UA!StatusSignalled
  /\ SP!StatusSignalled /\ SP!RequestsFollowFIFOs
  /\ AD!StatusSignalled /\ AD!RequestsFollowFIFO

\* No word, command or conversion waits for an event that is not coming:
\* what has been started goes on whatever is written meanwhile (doTX and
\* completeTransmit, nextCommand and the complete handlers, completeADCRead).
TransfersGoOn ==
  /\ SP!WordsGoOn
  /\ IC!CommandsGoOn
  /\ AD!ConversionsGoOn
=============================================================================
