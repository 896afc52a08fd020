---------------------------------- MODULE USB ----------------------------------
(***************************************************************************)
(* The USB device controller (peripherals/usb.ts), the CDC host on its bus *)
(* (usb/cdc.ts), and the device firmware between them (external: it clears *)
(* what it is told of, answers each setup packet, and keeps the serial IN  *)
(* and OUT endpoints busy).  Bytes are numbered in the order in which they *)
(* are sent; a transfer is a sequence of them, or the name of what endpoint*)
(* 0 carries.  Clock alarms fire at any later moment.                      *)
(***************************************************************************)
EXTENDS Naturals, Sequences, SequencesExt

CONSTANTS Slots,                                \* MAX_PENDING_BUFFERS
          Packets,                              \* of the configuration descriptor
          PacketSize,
          MaxIn, MaxOut                         \* bounds: serial bytes each way

VARIABLE usb

Endpoint == {"control", "serial"}
None == "none"

Init ==
  usb = [resetAlarm |-> FALSE, busReset |-> FALSE, setupRec |-> FALSE, setup |-> None,
         writes |-> [e \in Endpoint |-> <<>>], writeAlarm |-> {},
         reads |-> <<>>, readAlarm |-> FALSE,
         threw |-> FALSE,
         \* the CDC host
         initialized |-> FALSE, sized |-> FALSE, descriptors |-> 0, configured |-> FALSE,
         txFIFO |-> <<>>, pendingOut |-> FALSE, received |-> <<>>, typed |-> 0,
         \* the firmware
         on |-> FALSE, answer |-> <<>>, serial |-> FALSE, armed |-> FALSE,
         sent |-> 0, got |-> <<>>]

sendSetupPacket(u, packet) == [u EXCEPT !.setup = packet, !.setupRec = TRUE]

-----------------------------------------------------------------------------
(* USBEndpointAlarm: each schedule moves the alarm, each buffer keeps its place *)

scheduleWrite(u, e, buffer) ==
  IF Len(u.writes[e]) = Slots THEN [u EXCEPT !.threw = TRUE]
  ELSE [u EXCEPT !.writes[e] = Append(@, buffer), !.writeAlarm = @ \cup {e}]

endpointReadDone(u, buffer) ==
  IF Len(u.reads) = Slots THEN [u EXCEPT !.threw = TRUE]
  ELSE [u EXCEPT !.reads = Append(@, buffer), !.readAlarm = TRUE]

-----------------------------------------------------------------------------
(* The CDC host: what it does with one buffer from an endpoint *)

cdcSetControlLineState(u) == [sendSetupPacket(u, "lineState") EXCEPT !.initialized = TRUE]

\* Mutant: the size is compared before the packet is counted.
CountedTooLate(u, buffer) ==
  CASE buffer = "ack" ->
         IF ~u.sized THEN sendSetupPacket(u, "descriptor9")
         ELSE IF ~u.initialized THEN cdcSetControlLineState(u) ELSE u
    [] buffer = "descriptor9" /\ ~u.sized ->
         sendSetupPacket([u EXCEPT !.sized = TRUE], "descriptor")
    [] buffer = "packet" /\ u.sized ->
         IF u.descriptors = Packets
           THEN sendSetupPacket([u EXCEPT !.configured = TRUE], "setConfiguration")
         ELSE [u EXCEPT !.descriptors = @ + 1]
    [] OTHER -> u

onControlWrite(u, buffer) ==
  CASE buffer = "ack" ->
         IF ~u.sized THEN sendSetupPacket(u, "descriptor9")
         ELSE IF ~u.initialized THEN cdcSetControlLineState(u) ELSE u
    [] buffer = "descriptor9" /\ ~u.sized ->
         sendSetupPacket([u EXCEPT !.sized = TRUE], "descriptor")
    [] buffer = "packet" /\ u.sized /\ u.descriptors < Packets ->
         LET v == [u EXCEPT !.descriptors = @ + 1]
         IN  IF v.descriptors = Packets
               THEN sendSetupPacket([v EXCEPT !.configured = TRUE], "setConfiguration") ELSE v
    [] OTHER -> u

onEndpointWrite(u, e, buffer) ==
  IF e = "control" THEN onControlWrite(u, buffer)
  ELSE IF u.configured THEN [u EXCEPT !.received = @ \o buffer] ELSE u

deliverOutData(u) ==
  LET n == IF Len(u.txFIFO) < PacketSize THEN Len(u.txFIFO) ELSE PacketSize
  IN  endpointReadDone([u EXCEPT !.txFIFO = SubSeq(@, n + 1, Len(@))], SubSeq(u.txFIFO, 1, n))

onEndpointRead(u) ==
  IF ~u.configured THEN u
  ELSE IF u.txFIFO # <<>> THEN deliverOutData(u) ELSE [u EXCEPT !.pendingOut = TRUE]

sendSerialByte ==
  /\ usb.typed < MaxOut
  /\ LET u == [usb EXCEPT !.typed = @ + 1, !.txFIFO = Append(@, usb.typed + 1)]
     IN  usb' = IF u.pendingOut THEN deliverOutData([u EXCEPT !.pendingOut = FALSE]) ELSE u

-----------------------------------------------------------------------------
(* The controller's alarms *)

ResetAlarm ==
  usb.resetAlarm /\ usb' = [usb EXCEPT !.resetAlarm = FALSE, !.busReset = TRUE]

\* Mutant: a transfer scheduled meanwhile takes the place of the one that waits.
WriteAlarmLast(e) ==
  /\ e \in usb.writeAlarm
  /\ usb' = [onEndpointWrite(usb, e, Last(usb.writes[e])) EXCEPT
               !.writes[e] = <<>>, !.writeAlarm = @ \ {e}]

WriteAlarm(e) ==
  /\ e \in usb.writeAlarm
  /\ LET each(u, buffer) == onEndpointWrite(u, e, buffer)
     IN  usb' = [FoldLeft(each, usb, usb.writes[e]) EXCEPT
                   !.writes[e] = <<>>, !.writeAlarm = @ \ {e}]

\* finishRead: the buffer goes to the firmware, which is free to arm the next.
ReadAlarm ==
  /\ usb.readAlarm
  /\ usb' = [usb EXCEPT !.readAlarm = FALSE, !.reads = Tail(@),
                        !.got = @ \o Head(usb.reads), !.armed = FALSE]

-----------------------------------------------------------------------------
(* The firmware's register and DPRAM writes *)

EnableController ==
  ~usb.on /\ usb' = [usb EXCEPT !.on = TRUE, !.resetAlarm = TRUE]

\* Clearing SIE_BUS_RESET: onResetReceived
ClearBusReset ==
  usb.busReset /\ usb' = sendSetupPacket([usb EXCEPT !.busReset = FALSE], "setAddress")

AnswerSetup ==
  /\ usb.setupRec
  /\ usb' = [usb EXCEPT !.setupRec = FALSE,
               !.serial = @ \/ usb.setup = "setConfiguration",
               !.answer = CASE usb.setup = "descriptor9" -> <<"descriptor9">>
                            [] usb.setup = "descriptor" -> [k \in 1 .. Packets |-> "packet"]
                            [] OTHER -> <<"ack">>]

\* DPRAMUpdated with AVAILABLE on an IN endpoint
WriteControl ==
  /\ usb.answer # <<>>
  /\ usb' = scheduleWrite([usb EXCEPT !.answer = Tail(@)], "control", Head(usb.answer))

WriteSerial ==
  /\ usb.serial /\ usb.sent < MaxIn
  /\ usb' = scheduleWrite([usb EXCEPT !.sent = @ + 1], "serial", <<usb.sent + 1>>)

\* DPRAMUpdated with AVAILABLE on an OUT endpoint
ArmSerialOut ==
  /\ usb.serial /\ ~usb.armed
  /\ usb' = onEndpointRead([usb EXCEPT !.armed = TRUE])

ClockAlarms == ResetAlarm \/ (\E e \in Endpoint : WriteAlarm(e)) \/ ReadAlarm
Firmware == ClearBusReset \/ AnswerSetup \/ WriteControl
Next == ~usb.threw /\ (ClockAlarms \/ EnableController \/ Firmware \/ WriteSerial \/ ArmSerialOut \/ sendSerialByte)

-----------------------------------------------------------------------------
Numbers(n) == [k \in 1 .. n |-> k]

\* What the firmware sends reaches the host once and in order, whenever the alarm
\* that carries it is moved by the next transfer, and what the host types reaches
\* the firmware so (USBEndpointAlarm, deliverOutData, finishRead).
SerialInOrder ==
  ~usb.threw =>
    /\ usb.received \o FlattenSeq(usb.writes["serial"]) = Numbers(usb.sent)
    /\ usb.got \o FlattenSeq(usb.reads) \o usb.txFIFO = Numbers(usb.typed)

\* No buffer waits without an alarm, and a host that has typed while the firmware
\* waits for it has not forgotten to deliver.
TransfersGoOn ==
  /\ \A e \in Endpoint : usb.writes[e] # <<>> => e \in usb.writeAlarm
  /\ usb.reads # <<>> => usb.readAlarm
  /\ usb.armed /\ usb.txFIFO # <<>> /\ usb.configured => usb.readAlarm

\* A device that comes up is configured and gets its control lines set.
Enumerated == usb.initialized \/ usb.threw
=============================================================================
