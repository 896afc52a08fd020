------------------------------ MODULE Controller ------------------------------
(***************************************************************************)
(* The emulator controller that an editor or an agent drives               *)
(* (src/utils/emulator-controller.ts): loading firmware, reset,            *)
(* breakpoints, single steps and bounded runs of the two cores.            *)
(*                                                                         *)
(* A tool call is one step, but for run, which is one step for each pass   *)
(* of its loop.  What an instruction does to the cores is external: it may *)
(* put its core to sleep, arm a timer that wakes core 0, or wake the other *)
(* core, and its program counter goes anywhere.                            *)
(***************************************************************************)
EXTENDS Integers, FiniteSets

CONSTANTS Addr, Paths, Loadable, \* program addresses, files, and those that can be loaded
          Archs, Entries,        \* the architectures, the entry points given with a file
          MaxInstructions,       \* instructions in a run
          MaxAhead               \* bound on how far single steps take one core ahead

Core == {0, 1}
NoFile == "none"
Scan == "scan"          \* no entry point is given: the bootrom finds it
Idle == -1

VARIABLE ctl
\* fwPath, fwArch, fwEntryPc, dis: the fields of the controller; chip: what it was
\* built from; loaded: the last load or reset went through; bp: breakpoints; left:
\* instructions the run may still execute; reason: how the last run ended; timer:
\* the clock holds an alarm that will wake core 0; owed: cycles of core 0 that the
\* clock has not followed, less those it ran ahead.

\* createChip, and loadFirmware of the chip unless the file cannot be loaded
Blank(arch) == [arch |-> arch, image |-> NoFile, entry |-> Scan]
Chip(arch, path, entry) == [arch |-> arch, image |-> path, entry |-> entry]

Init == \E arch \in Archs :
  ctl = [fwPath |-> NoFile, fwArch |-> arch, fwEntryPc |-> Scan, dis |-> NoFile,
         chip |-> Blank(arch), loaded |-> TRUE, bp |-> {}, left |-> Idle, reason |-> "none",
         pc |-> [c \in Core |-> CHOOSE a \in Addr : TRUE], waiting |-> [c \in Core |-> FALSE],
         timer |-> FALSE, ahead |-> 0, owed |-> 0]

Ready == ctl.left = Idle

\* A new chip: both cores start over, the alarms are gone.
Fresh(s, chip) == [s EXCEPT !.chip = chip, !.pc = [c \in Core |-> CHOOSE a \in Addr : TRUE],
                            !.waiting = [c \in Core |-> FALSE], !.timer = FALSE,
                            !.ahead = 0, !.owed = 0, !.reason = "none"]

\* load_firmware: the path, the architecture and the chip are replaced before the
\* file is read, the rest after.
LoadFirmware(path, arch, entry) ==
  /\ Ready
  /\ ctl' = IF path \in Loadable
            THEN [Fresh(ctl, Chip(arch, path, entry)) EXCEPT
                    !.fwPath = path, !.fwArch = arch, !.fwEntryPc = entry, !.dis = path,
                    !.bp = {}, !.loaded = TRUE]
            ELSE [Fresh(ctl, Blank(arch)) EXCEPT !.fwPath = path, !.fwArch = arch, !.loaded = FALSE]

\* A reset that rebuilds the firmware without its entry point.
ResetChip(s) == Chip(s.fwArch, s.fwPath, Scan)
Reloaded(s) == Chip(s.fwArch, s.fwPath, s.fwEntryPc)

Reset(keepBreakpoints) ==
  /\ Ready
  /\ ctl' = IF ctl.fwPath = NoFile
            THEN [Fresh(ctl, Blank(ctl.fwArch)) EXCEPT !.bp = IF keepBreakpoints THEN @ ELSE {},
                                                       !.dis = NoFile, !.loaded = TRUE]
            ELSE IF ctl.fwPath \in Loadable
            THEN [Fresh(ctl, Reloaded(ctl)) EXCEPT !.bp = IF keepBreakpoints THEN @ ELSE {},
                                                   !.loaded = TRUE]
            ELSE [Fresh(ctl, Blank(ctl.fwArch)) EXCEPT !.loaded = FALSE]

SetBreakpoint(a) == Ready /\ ctl' = [ctl EXCEPT !.bp = @ \union {a}]
ClearBreakpoint(a) == Ready /\ ctl' = [ctl EXCEPT !.bp = @ \ {a}]

-----------------------------------------------------------------------------
(* Stepping *)

\* executeInstruction of a core, and what its instruction does.
Effects == {"plain", "wfi", "wakeOther", "arm"}
Executed(s, c, next, effect) ==
  LET t == [s EXCEPT !.ahead = IF c = 0 THEN @ + 1 ELSE @ - 1, !.owed = IF c = 0 THEN @ + 1 ELSE @]
  IN  IF s.waiting[c] THEN t
      ELSE [t EXCEPT !.pc[c] = next,
                     !.waiting[c] = effect = "wfi",
                     !.waiting[1 - c] = @ /\ effect # "wakeOther",
                     !.timer = @ \/ effect = "arm"]

\* The clock follows core 0, and the alarm may come due.
stepThings(s, fires) == [s EXCEPT !.owed = @ - 1, !.timer = @ /\ ~fires, !.waiting[0] = @ /\ ~fires]

\* Only core 0 advances time.
Ticks(c) == c = 0

Stepped(c) ==
  {IF Ticks(c) THEN stepThings(Executed(ctl, c, next, effect), fires)
   ELSE Executed(ctl, c, next, effect) :
     next \in Addr, effect \in Effects, fires \in {FALSE, ctl.timer}}

SingleStep(c) == Ready /\ ctl' \in {s \in Stepped(c) : s.ahead \in -MaxAhead .. MaxAhead}

\* run parks core 1, whatever it was doing.
Run == Ready /\ ctl' = [ctl EXCEPT !.left = MaxInstructions, !.waiting[1] = TRUE]

End(s, reason) == [s EXCEPT !.left = Idle, !.reason = reason]

hitBp(s, c) == ~s.waiting[c] /\ s.pc[c] \in s.bp

RunPass ==
  /\ ~Ready
  /\ IF ctl.left = 0 THEN ctl' = End(ctl, "max_reached")
     ELSE IF \A c \in Core : ctl.waiting[c] THEN ctl' = End(ctl, "idle")
     ELSE LET c == IF ctl.ahead <= 0 THEN 0 ELSE 1
          IN  \E s \in Stepped(c) :
                LET t == [s EXCEPT !.left = IF ctl.waiting[c] THEN @ ELSE @ - 1]
                IN  ctl' = IF hitBp(t, c) THEN End(t, "breakpoint") ELSE t

Next == \/ Run \/ RunPass
        \/ \E p \in Paths, arch \in Archs, e \in Entries \union {Scan} : LoadFirmware(p, arch, e)
        \/ \E keep \in BOOLEAN : Reset(keep)
        \/ \E a \in Addr : SetBreakpoint(a) \/ ClearBreakpoint(a)
        \/ \E c \in Core : SingleStep(c)

Spec == Init /\ [][Next]_ctl

-----------------------------------------------------------------------------
(* Correctness *)

\* Unless the last load or reset reported an error, what executes is the firmware
\* that was asked for last, on the architecture and from the entry point that were
\* given with it, however many failed loads and resets lie between, and the
\* disassembly that is shown is its own (loadFirmware, reset).
ChipIsFirmware ==
  ctl.loaded => /\ ctl.chip.image = ctl.fwPath /\ ctl.chip.arch = ctl.fwArch
                /\ ctl.fwPath # NoFile => ctl.chip.entry = ctl.fwEntryPc
                /\ ctl.dis = ctl.fwPath

\* The clock has seen every cycle of core 0 and none of core 1, whether it was
\* stepped or run (singleStep, run).
ClockFollowsCore0 == ctl.owed = 0

\* "If both cores are parked, nothing will happen" (the comment in run): when a run
\* ends idle, no alarm of the clock would have woken a core.
IdleIsForever == ctl.reason = "idle" /\ Ready => ~ctl.timer
=============================================================================
