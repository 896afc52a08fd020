------------------------------- MODULE GDBLink -------------------------------
(***************************************************************************)
(* The connection between a debugger and a server (src/gdb): how the bytes *)
(* that arrive, cut anywhere, become packets, and what the packets do to   *)
(* the registers of the two cores.  The debugger is external: it sends one *)
(* packet and waits for "+" or "-", and for the reply; it acknowledges     *)
(* replies; it names a thread with H before it reads or writes another's   *)
(* registers, and again after the target ran; it sends Ctrl-C to a target  *)
(* that runs and that does not halt by itself before it arrives.           *)
(***************************************************************************)
EXTENDS Integers, Sequences, SequencesExt

CONSTANTS IsArm,
          Values,       \* what registers and the byte of memory hold: numbers from 0
          MaxRetries    \* how often the debugger sends a packet again

Core == {0, 1}
Both == -1
Unknown == -2
None == [k |-> "none"]
Token(t) == [k |-> t]    \* a character, and one digit of a checksum

VARIABLE link
\* wire, back: what is on its way to the server and to the debugger; buf, current,
\* running: the connection's and the server's fields; core, mem: the registers and a
\* byte of memory; at, sel, want, sent, retries, resumed: the debugger; truth, byte:
\* what it believes them to be; ran: how often the last packet was executed.

-----------------------------------------------------------------------------
(* Registers *)

\* ARM: a general register, the stack pointer of the stack in use and the other one,
\* the mode of the core and CONTROL.SPSEL; core 1 is in a handler.
ArmCore(n) == [r |-> 0, sp |-> 0, banked |-> 0, spsel |-> FALSE, handler |-> n = 1]
ArmRegisters == {"r", "sp", "msp", "psp", "control"}

SPprocess(c) == IF c.spsel THEN c.sp ELSE c.banked
SPmain(c) == IF c.spsel THEN c.banked ELSE c.sp
\* Mutant: the stack pointer is not exchanged.
SwitchOnly(c, process) == [c EXCEPT !.spsel = process]
switchStack(c, process) ==
  IF c.spsel = process THEN c ELSE [c EXCEPT !.spsel = process, !.sp = c.banked, !.banked = c.sp]

\* readSpecialRegister and the server's readRegister
readArm(c, reg) ==
  CASE reg = "r" -> c.r [] reg = "sp" -> c.sp
    [] reg = "msp" -> SPmain(c) [] reg = "psp" -> SPprocess(c)
    [] reg = "control" -> IF c.spsel THEN 1 ELSE 0

\* writeSpecialRegister: a handler cannot change its stack.
writeSpecialRegister(c, reg, v) ==
  CASE reg = "msp" -> IF c.spsel THEN [c EXCEPT !.banked = v] ELSE [c EXCEPT !.sp = v]
    [] reg = "psp" -> IF c.spsel THEN [c EXCEPT !.sp = v] ELSE [c EXCEPT !.banked = v]
    [] reg = "control" -> IF c.handler THEN c ELSE switchStack(c, v = 1)
writeArm(c, reg, v) ==
  CASE reg = "r" -> [c EXCEPT !.r = v]
    [] reg = "sp" -> [c EXCEPT !.sp = v]
    [] OTHER -> writeSpecialRegister(c, reg, v)

\* RISC-V: x0 reads as zero, mhartid as the core's number.
RiscvCore(n) == [x |-> 0, pc |-> 0, csr |-> 0, hart |-> n]
RiscvRegisters == {"zero", "x", "pc", "csr", "mhartid"}
readRiscv(c, reg) ==
  CASE reg = "zero" -> 0 [] reg = "x" -> c.x [] reg = "pc" -> c.pc [] reg = "csr" -> c.csr
    [] reg = "mhartid" -> c.hart
writeRiscv(c, reg, v) ==
  CASE reg = "x" -> [c EXCEPT !.x = v] [] reg = "pc" -> [c EXCEPT !.pc = v]
    [] reg = "csr" -> [c EXCEPT !.csr = v] [] OTHER -> c

Registers == IF IsArm THEN ArmRegisters ELSE RiscvRegisters
readRegister(c, reg) == IF IsArm THEN readArm(c, reg) ELSE readRiscv(c, reg)
writeRegister(c, reg, v) == IF IsArm THEN writeArm(c, reg, v) ELSE writeRiscv(c, reg, v)

\* The ARM server knows no G; the other writes what is given, register by register.
WriteAll(c, v) == IF IsArm THEN c ELSE writeRiscv(writeRiscv(writeRiscv(c, "x", v), "pc", v), "csr", v)

-----------------------------------------------------------------------------
(* The server *)

Init ==
  LET cores == [c \in Core |-> IF IsArm THEN ArmCore(c) ELSE RiscvCore(c)]
  IN  link = [wire |-> <<>>, back |-> <<Token("+")>>, buf |-> <<>>, current |-> 0, running |-> FALSE,
              core |-> cores, mem |-> 0, byte |-> 0, at |-> "idle", sel |-> 0, want |-> 0, sent |-> None, retries |-> 0,
              resumed |-> Both,
              truth |-> [c \in Core |-> [reg \in Registers |-> readRegister(cores[c], reg)]],
              ran |-> 0]

Respond(s, r) == [s EXCEPT !.back = @ \o r]
Reply == [k |-> "reply"]
Stop(e) == [k |-> "stop", thread |-> e]

selectThread(s, p) == [s EXCEPT !.current = p.thread]

\* A continue of one thread makes it the current one; a step does not.
resume(s, p) == [s EXCEPT !.running = TRUE, !.current = IF p.thread = Both THEN @ ELSE p.thread]

processGDBMessage(s, p) ==
  CASE p.k = "H" -> Respond(selectThread(s, p), <<Reply>>)
    [] p.k = "p" -> Respond(s, <<[k |-> "value", v |-> readRegister(s.core[s.current], p.reg)]>>)
    [] p.k = "P" -> Respond([s EXCEPT !.core[s.current] = writeRegister(@, p.reg, p.v)], <<Reply>>)
    [] p.k = "G" -> Respond([s EXCEPT !.core[s.current] = WriteAll(@, p.v)], <<Reply>>)
    [] p.k = "c" -> resume(s, p)
    [] p.k = "s" -> Respond(s, <<Stop(p.thread)>>)
    [] p.k = "m" -> Respond(s, <<[k |-> "value", v |-> s.mem]>>)
    [] p.k \in {"M", "X"} -> Respond([s EXCEPT !.mem = p.v], <<Reply>>)

\* X carries its bytes as they are: one above 127, as every value but 0 is here, is
\* lost when what arrives is taken for text, and the checksum with it.
Mangled(p) == p.k = "X" /\ p.v # 0
Digits == <<Token("d1"), Token("d2")>>
gdbChecksum(p) == IF Mangled(p) THEN <<>> ELSE Digits

\* One pass of the loop of feedData; a packet is taken when one digit of its
\* checksum is there, and the second digit is left in the buffer.
Rest(buf, hash) == SubSeq(buf, hash + 2, Len(buf))
ParseLoop(s) ==
  LET dolla == SelectInSeq(s.buf, LAMBDA t : t.k = "$")
      hash == dolla + SelectInSeq(SubSeq(s.buf, dolla + 1, Len(s.buf)), LAMBDA t : t.k = "#")
      cmd == s.buf[dolla + 1]
      cksum == SubSeq(s.buf, hash + 1, IF hash + 2 <= Len(s.buf) THEN hash + 2 ELSE Len(s.buf))
      t == [s EXCEPT !.buf = Rest(s.buf, hash)]
  IN  IF dolla = 0 \/ hash = dolla \/ hash + 1 > Len(s.buf) THEN s
      ELSE IF gdbChecksum(cmd) # cksum THEN Respond(t, <<Token("-")>>)
      ELSE processGDBMessage([Respond(t, <<Token("+")>>) EXCEPT !.ran = @ + 1], cmd)

\* Ctrl-C counts only as the first character of what arrives.  The debugger never has
\* two packets on their way, so that the loop finds one at most.
onInterrupt(s) == Respond([s EXCEPT !.running = FALSE], <<[k |-> "S02"]>>)
feedData(n) ==
  LET data == SubSeq(link.wire, 1, n)
      s == [link EXCEPT !.wire = SubSeq(@, n + 1, Len(@))]
  IN  link' = IF data[1].k = "int" THEN ParseLoop([onInterrupt(s) EXCEPT !.buf = @ \o Tail(data)])
              ELSE ParseLoop([s EXCEPT !.buf = @ \o data])

\* A breakpoint, of a core that runs.
onBreakpoint(c) ==
  /\ link.running /\ Token("int") \notin Range(link.wire)
  /\ link.resumed \in {Both, c}
  /\ link' = Respond([link EXCEPT !.running = FALSE], <<Stop(c)>>)

-----------------------------------------------------------------------------
(* The debugger, external *)

Frame(p) == <<Token("$"), p, Token("#")>> \o Digits
Send(s, p) == [s EXCEPT !.wire = @ \o Frame(p), !.sent = p, !.retries = 0, !.ran = 0, !.at = "unacked"]

Select == link.sel # link.want
          /\ link' = [Send(link, [k |-> "H", thread |-> link.want]) EXCEPT !.sel = Unknown]

Ask ==
  /\ link.sel = link.want
  /\ \/ \E reg \in Registers : link' = Send(link, [k |-> "p", reg |-> reg])
     \/ \E reg \in Registers, v \in Values : link' = Send(link, [k |-> "P", reg |-> reg, v |-> v])
     \/ ~IsArm /\ \E v \in Values : link' = Send(link, [k |-> "G", v |-> v])
     \/ link' = Send(link, [k |-> "m"])
     \/ \E v \in Values, k \in {"M", "X"} : link' = Send(link, [k |-> k, v |-> v])
     \/ link' = [Send(link, [k |-> "s", thread |-> link.sel]) EXCEPT !.sel = Unknown]
     \/ \E c \in {Both} \union Core :
          link' = [Send(link, [k |-> "c", thread |-> c]) EXCEPT !.resumed = c, !.sel = Unknown]

SwitchThread == \E c \in Core \ {link.want} : link' = [link EXCEPT !.want = c]

Operate == link.at = "idle" /\ link.back = <<>> /\ (Select \/ Ask \/ SwitchThread)

CtrlC == /\ link.at = "running" /\ link.back = <<>> /\ Token("int") \notin Range(link.wire) /\ link.running
         /\ link' = [link EXCEPT !.wire = Append(@, Token("int"))]

\* What it takes the registers to be: two stack pointers, and sp is the one that
\* CONTROL selects, which a handler cannot write; constant registers stay.
Write(t, reg, v) ==
  CASE reg \in {"zero", "mhartid"} \/ (reg = "control" /\ link.core[link.sel].handler) -> t
    [] reg = "sp" -> [t EXCEPT !["sp"] = v, ![IF t["control"] = 1 THEN "psp" ELSE "msp"] = v]
    [] reg \in {"msp", "psp"} -> [t EXCEPT ![reg] = v,
                                   !["sp"] = IF (reg = "psp") = (t["control"] = 1) THEN v ELSE @]
    [] reg = "control" /\ ~link.core[link.sel].handler ->
         [t EXCEPT !["control"] = v, !["sp"] = t[IF v = 1 THEN "psp" ELSE "msp"]]
    [] OTHER -> [t EXCEPT ![reg] = v]
Learn(s) ==
  CASE s.sent.k = "H" -> [s EXCEPT !.sel = s.sent.thread]
    [] s.sent.k = "P" -> [s EXCEPT !.truth[s.sel] = Write(@, s.sent.reg, s.sent.v)]
    [] s.sent.k = "G" -> [s EXCEPT !.truth[s.sel] = Write(Write(Write(@, "x", s.sent.v), "pc", s.sent.v), "csr", s.sent.v)]
    [] s.sent.k \in {"M", "X"} -> [s EXCEPT !.byte = s.sent.v]
    [] OTHER -> s

Acknowledge(s) == [s EXCEPT !.wire = Append(@, Token("+"))]

Hear ==
  /\ link.back # <<>>
  /\ LET r == Head(link.back)
         s == [link EXCEPT !.back = Tail(@)]
     IN  link' =
           CASE r.k = "+" -> IF s.at # "unacked" THEN s
                           ELSE [s EXCEPT !.at = IF s.sent.k \in {"c", "s"} THEN "running" ELSE "reply"]
             [] r.k = "-" -> IF s.retries = MaxRetries THEN [s EXCEPT !.at = "idle", !.sent = None]
                           ELSE [s EXCEPT !.wire = @ \o Frame(s.sent), !.retries = @ + 1]
             [] r.k = "stop" -> [Acknowledge(s) EXCEPT !.at = "idle", !.want = r.thread]
             [] r.k = "S02" -> [Acknowledge(s) EXCEPT !.at = "idle",
                                  !.want = IF s.resumed = Both THEN @ ELSE s.resumed]
             [] OTHER -> Learn([Acknowledge(s) EXCEPT !.at = "idle"])

Next == \/ \E n \in 1 .. Len(link.wire) : feedData(n)
        \/ \E c \in Core : onBreakpoint(c)
        \/ Operate \/ CtrlC \/ Hear

Spec == Init /\ [][Next]_link

-----------------------------------------------------------------------------
(* Correctness *)

\* However the bytes are cut, a packet is executed once or, when its bytes do not
\* survive the conversion to a string, never; it is never skipped and none is made
\* up of two (feedData).
PacketsOnce ==
  /\ link.ran <= 1
  /\ link.at \in {"reply", "running"} => link.ran = 1
  /\ Mangled(link.sent) => link.ran = 0

\* The byte and the registers it would read are what the debugger believes, of either
\* thread: a write reaches the thread it named last and no other, and the stack pointers keep
\* their meaning when CONTROL is written (processGDBMessage, writeSpecialRegister).
RegistersOfThread ==
  link.at = "idle" =>
    /\ link.sel # Unknown => link.current = link.sel
    /\ link.mem = link.byte
    /\ \A c \in Core, reg \in Registers : readRegister(link.core[c], reg) = link.truth[c][reg]

\* The debugger never waits for a target that has stopped: the answer to its Ctrl-C,
\* or the halt, is on its way (feedData, onBreakpoint).
InterruptAnswered ==
  link.at = "running" /\ ~link.running => link.back # <<>> \/ link.wire # <<>>
=============================================================================
