---------------------------------- MODULE I2C ----------------------------------
(***************************************************************************)
(* The I2C controller (peripherals/i2c.ts): a FIFO of commands, the bus    *)
(* state, and a bus handler the host provides, which is called with one    *)
(* operation at a time and completes it later (at once is the very next    *)
(* step).  Left out: the data received, the abort's source, the raw        *)
(* interrupts other than TX_EMPTY, which only record an event until it is  *)
(* cleared, and the enables (no write reaches IC_INTR_MASK).               *)
(***************************************************************************)
EXTENDS Naturals, Sequences

CONSTANTS Size,                                 \* FIFO entries, 16 in the code
          TxThreshold

VARIABLE i2c

Command == [read : BOOLEAN, stop : BOOLEAN, restart : BOOLEAN]

Init ==
  i2c = [state |-> "Idle", busy |-> FALSE, stop |-> FALSE, pendingRestart |-> FALSE,
         tx |-> <<>>, txEmpty |-> FALSE, enable |-> {},
         call |-> "none",                       \* the operation the bus handler is at
         late |-> FALSE,                        \* history: a command came during an abort
         flushed |-> TRUE]                      \* history: none came since the FIFO was reset

call(s, op) == [s EXCEPT !.call = op]
abort(s) == [s EXCEPT !.tx = <<>>, !.flushed = TRUE]

nextCommand(s) ==
  LET idle == s.tx = <<>> \/ s.busy \/ "BLOCK" \in s.enable \/ ~("ENABLE" \in s.enable)
      cmd == Head(s.tx)
      restart == cmd.restart /\ ~s.pendingRestart /\ ~s.stop
      started == call([s EXCEPT !.busy = TRUE, !.pendingRestart = restart, !.stop = FALSE,
                                !.state = "Start"], "start")
      issued == call([s EXCEPT !.busy = TRUE, !.pendingRestart = FALSE, !.tx = Tail(@),
                               !.stop = cmd.stop], IF cmd.read THEN "read" ELSE "write")
  IN  IF idle THEN s
      ELSE IF s.state = "Idle" \/ restart THEN started
      ELSE [issued EXCEPT !.txEmpty = @ \/ Len(issued.tx) <= TxThreshold]

\* The handler returns from op: nothing is outstanding while the controller reacts.
Completed(op) == i2c.call = op
Returned == [i2c EXCEPT !.call = "none"]

completeStart ==
  /\ Completed("start")
  /\ i2c' = IF i2c.tx = <<>> \/ i2c.state # "Start" \/ i2c.stop THEN call(Returned, "stop")
            ELSE call([Returned EXCEPT !.state = "Connect"], "connect")

completeConnect(ack) ==
  /\ Completed("connect")
  /\ i2c' = IF ack /\ ~i2c.stop
              THEN nextCommand([Returned EXCEPT !.state = "Connected", !.busy = FALSE])
            ELSE call([IF ack THEN Returned ELSE abort(Returned) EXCEPT !.state = "Stop"], "stop")

completeWrite(ack) ==
  /\ Completed("write")
  /\ i2c' = IF ack /\ ~i2c.stop THEN nextCommand([Returned EXCEPT !.busy = FALSE])
            ELSE call([IF ack THEN Returned ELSE abort(Returned) EXCEPT !.state = "Stop"], "stop")

completeRead ==
  /\ Completed("read")
  /\ i2c' = IF i2c.stop THEN call([Returned EXCEPT !.state = "Stop"], "stop")
            ELSE nextCommand([Returned EXCEPT !.busy = FALSE])

\* Mutant: completeStop leaves the controller busy when it ends an abort.
CompleteStopBusy ==
  /\ Completed("stop")
  /\ i2c' = IF "ABORT" \in i2c.enable
              THEN [Returned EXCEPT !.state = "Idle", !.enable = @ \ {"ABORT"}]
            ELSE nextCommand([Returned EXCEPT !.state = "Idle", !.busy = FALSE,
                                              !.pendingRestart = FALSE])

\* After an abort the next command waits for the next register write.
completeStop ==
  /\ Completed("stop")
  /\ LET s == [Returned EXCEPT !.state = "Idle", !.busy = FALSE, !.pendingRestart = FALSE]
     IN  i2c' = IF "ABORT" \in s.enable THEN [s EXCEPT !.enable = @ \ {"ABORT"}] ELSE nextCommand(s)

\* The host's handler gives up whatever it was asked for.
arbitrationLost ==
  /\ i2c.call # "none"
  /\ i2c' = abort([Returned EXCEPT !.state = "Idle", !.busy = FALSE])

WriteDATA_CMD(cmd) ==
  i2c' = IF Len(i2c.tx) = Size THEN i2c
         ELSE nextCommand([i2c EXCEPT !.tx = Append(@, cmd), !.txEmpty = FALSE, !.flushed = FALSE,
                                      !.late = @ \/ "ABORT" \in i2c.enable])

\* ABORT can be set, and only while the bus is not idle; it is not cleared here.
WriteENABLE(bits) ==
  LET asked == bits \cup (i2c.enable \cap {"ABORT"})
      aborts == "ABORT" \in asked /\ i2c.state # "Idle"
      s1 == IF aborts THEN [abort(i2c) EXCEPT !.stop = TRUE] ELSE i2c
      s2 == IF "ENABLE" \in bits THEN s1 ELSE [s1 EXCEPT !.tx = <<>>, !.flushed = TRUE]
  IN  i2c' = nextCommand([s2 EXCEPT !.enable = IF aborts THEN asked ELSE asked \ {"ABORT"},
                                    !.late = @ /\ s2.tx # <<>>])

Next ==
  \/ completeStart \/ completeRead \/ completeStop \/ arbitrationLost
  \/ \E ack \in BOOLEAN : completeConnect(ack) \/ completeWrite(ack)
  \/ \E cmd \in Command : WriteDATA_CMD(cmd)
  \/ \E bits \in SUBSET {"ENABLE", "ABORT", "BLOCK"} : WriteENABLE(bits)

-----------------------------------------------------------------------------
\* The bus handler is at an operation exactly while the controller is busy, and
\* it is one that the state of the bus calls for.
BusFollowsState ==
  /\ i2c.busy = (i2c.call # "none")
  /\ i2c.call = "start" => i2c.state = "Start"
  /\ i2c.call = "connect" => i2c.state = "Connect"
  /\ i2c.call \in {"read", "write"} => i2c.state = "Connected"
  /\ i2c.call = "stop" => i2c.state \in {"Start", "Stop"}

\* A command that may be sent is not left in the FIFO by an idle controller,
\* unless it came while an abort was under way, and the driver that waits for
\* TX_EMPTY learns that the last command has been taken.
CommandsGoOn ==
  /\ BusFollowsState
  /\ i2c.tx = <<>> => i2c.txEmpty \/ i2c.flushed
  /\ i2c.tx # <<>> /\ "ENABLE" \in i2c.enable /\ ~("BLOCK" \in i2c.enable) => i2c.busy \/ i2c.late
=============================================================================
