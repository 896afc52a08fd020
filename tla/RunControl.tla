------------------------------ MODULE RunControl ------------------------------
(***************************************************************************)
(* A debugger that runs and halts the two cores (src/gdb/gdb-server.ts,    *)
(* gdb-connection.ts and the servers of the two architectures).  The run   *)
(* loop is a JavaScript callback: it executes a number of instructions,    *)
(* schedules itself again with setTimeout, and packets are served between  *)
(* two of its calls.  Here one step is one instruction of the loop, or one *)
(* packet or timer callback while the loop is not on the stack.            *)
(*                                                                         *)
(* Firmware is a control flow graph: what an address does, and which       *)
(* addresses may come next.  An interrupt sends a core to Handler.  The    *)
(* debugger is all-stop: while it believes the target to run it sends      *)
(* nothing but Ctrl-C.                                                     *)
(***************************************************************************)
EXTENDS Integers, FiniteSets

CONSTANTS IsArm,     \* the server of the RP2040, otherwise of the Hazard3 cores
          Kind, Succ,\* what an address does, the addresses that may come next
          Start, Handler,
          Chunk,     \* instructions in one call of the loop, 100000 in the code
          Patient,   \* the debugger sends no Ctrl-C while a reply is scheduled
          MaxSkew    \* bound on the difference of the cores' cycle counts

Core == {0, 1}
other(c) == 1 - c
Both == -1
Addr == DOMAIN Kind

VARIABLE gdb
\* stopped, executing, single, haltedCore: fields of the server; calls: the calls
\* of run that are scheduled, of which executeTimer names the last; loop:
\* instructions done in the call on the stack, or None; notify: notifyBreakpoint is
\* scheduled; pc, waiting, ahead: the cores, and by how much the cycles of core 0
\* exceed those of core 1; view: what the debugger believes; armed: the cores that
\* have executed since they were resumed or woken.
None == -1
MaxCalls == 2        \* bound on the calls that are scheduled

Init == gdb = [stopped |-> TRUE, executing |-> FALSE, single |-> Both, haltedCore |-> 0,
               calls |-> 0, loop |-> None, notify |-> FALSE,
               bp |-> {}, pc |-> [c \in Core |-> Start], waiting |-> [c \in Core |-> FALSE],
               ahead |-> 0, view |-> "halted", armed |-> {}]

-----------------------------------------------------------------------------
(* The cores *)

Cost(s, at, asleep) == IF ~asleep /\ Kind[at] = "slow" THEN 2 ELSE 1

\* stop of the server
stop(s) == [s EXCEPT !.stopped = TRUE, !.executing = FALSE, !.calls = IF @ > 0 THEN @ - 1 ELSE 0]

notifyBreakpoint(s) == [s EXCEPT !.view = "halted"]

\* The hook that the ARM server hangs on BKPT: the program counter stays there.
onBreak(s, c) ==
  notifyBreakpoint([s EXCEPT !.stopped = TRUE, !.executing = FALSE, !.haltedCore = c])

\* executeInstruction of a core: the instruction at its program counter, or the
\* first of the handler of an interrupt it takes; a sleeping core counts a cycle.
Executed(s, c, at, next, asleep) ==
  LET cost == Cost(s, at, asleep)
      t == [s EXCEPT !.ahead = IF c = 0 THEN @ + cost ELSE @ - cost]
      went == [t EXCEPT !.pc[c] = next, !.waiting[c] = FALSE, !.armed = @ \union {c}]
  IN  IF asleep THEN t
      ELSE CASE Kind[at] = "wfi" -> [went EXCEPT !.waiting[c] = TRUE]
             [] Kind[at] = "sev" -> [went EXCEPT !.waiting[other(c)] = FALSE,
                   !.armed = IF s.waiting[other(c)] THEN @ \ {other(c)} ELSE @]
             [] Kind[at] = "bkpt" /\ IsArm -> onBreak([went EXCEPT !.pc[c] = at], c)
             [] OTHER -> went

\* The outcomes of executeInstruction.  A Hazard3 core wakes here, at the
\* instruction after its WFI or in the handler; an ARM core is woken from outside.
Outcomes(s, c) ==
  LET awake == {Executed(s, c, e[1], e[2], FALSE) :
                  e \in {x \in {s.pc[c], Handler} \X Addr : x[2] \in Succ[x[1]]}}
      all == CASE ~s.waiting[c] -> awake
               [] s.waiting[c] /\ IsArm -> {Executed(s, c, s.pc[c], s.pc[c], TRUE)}
               [] OTHER -> awake \union {Executed(s, c, s.pc[c], s.pc[c], TRUE)}
  IN  {t \in all : t.ahead \in -MaxSkew .. MaxSkew}

\* Time passes with core 0: a timer may send sleeping ARM cores to the handler.
stepThings(s, entering) ==
  [s EXCEPT !.waiting = [c \in Core |-> @[c] /\ c \notin entering],
            !.pc = [c \in Core |-> IF c \in entering THEN Handler ELSE @[c]],
            !.armed = @ \ entering]

-----------------------------------------------------------------------------
(* The run loop *)

execute(s) == [s EXCEPT !.stopped = FALSE, !.executing = TRUE, !.loop = 0, !.armed = {}]

\* The core that has run fewer cycles, or the one that was resumed alone.
currentCore(s) == IF s.single # Both THEN s.single ELSE IF s.ahead <= 0 THEN 0 ELSE 1

\* A check of the core that did not run.
HitOther(s, c) == ~s.waiting[other(c)] /\ s.pc[other(c)] \in s.bp

hitBreakpoint(s, c) == ~s.waiting[c] /\ s.pc[c] \in s.bp

halt(s, c) ==
  notifyBreakpoint([s EXCEPT !.haltedCore = c, !.stopped = TRUE, !.executing = FALSE, !.single = Both,
                             !.loop = None])

\* The end of an iteration: run returns at a breakpoint, goes on, or yields, with
\* another call scheduled unless it was stopped.
Iterated(s, c) ==
  IF hitBreakpoint(s, c) THEN halt(s, c)
  ELSE IF ~s.stopped /\ s.loop + 1 < Chunk THEN [s EXCEPT !.loop = @ + 1]
  ELSE [s EXCEPT !.loop = None, !.calls = IF s.stopped \/ @ = MaxCalls THEN @ ELSE @ + 1]

Iterate ==
  /\ gdb.loop # None
  /\ LET c == currentCore(gdb)
     IN  \E s \in Outcomes(gdb, c) :
           \E entering \in SUBSET {d \in Core : IsArm /\ c = 0 /\ s.waiting[d]} :
             gdb' = Iterated(stepThings(s, entering), c)

\* The timer calls run again; a call that finds the target stopped returns.
Run == /\ gdb.loop = None /\ gdb.calls > 0
       /\ gdb' = [gdb EXCEPT !.calls = @ - 1, !.loop = IF gdb.stopped THEN None ELSE 0]

-----------------------------------------------------------------------------
(* Packets *)

Idle == gdb.loop = None
Asks == Idle /\ gdb.view = "halted"

\* Ctrl-C stops the target and is answered, also when it was not running.
Interrupt == /\ Idle /\ gdb.view = "running"
             /\ Patient => ~gdb.notify
             /\ gdb' = [stop(gdb) EXCEPT !.view = "halted"]

Resume(s) == IF s.executing THEN s ELSE execute(s)

\* The cores that vCont;c resumes together: on ARM a sleeping one is left out.
ContinueBoth(s) ==
  IF IsArm /\ s.waiting[0] # s.waiting[1] THEN IF s.waiting[0] THEN 1 ELSE 0 ELSE Both

vContAll == Asks /\ gdb' = Resume([gdb EXCEPT !.view = "running", !.single = ContinueBoth(gdb)])

\* A single core is not resumed while it sleeps: the halt is reported later.
vContOne(c) ==
  /\ Asks
  /\ gdb' = IF gdb.waiting[c]
            THEN [gdb EXCEPT !.view = "running", !.haltedCore = c, !.notify = TRUE]
            ELSE Resume([gdb EXCEPT !.view = "running", !.single = c])

DeferredNotify == Idle /\ gdb.notify /\ gdb' = [notifyBreakpoint(gdb) EXCEPT !.notify = FALSE]

\* The reply to vCont;s is in the packet's own response; time does not pass.
vContStep(c) ==
  /\ Asks
  /\ \E s \in Outcomes(gdb, c) : gdb' = [s EXCEPT !.haltedCore = c, !.view = "halted"]

\* The packet c resumes what the last vCont chose, if Ctrl-C ended it.
Continue == Asks /\ gdb' = Resume([gdb EXCEPT !.view = "running"])

SetBreakpoint(a) == Asks /\ gdb' = [gdb EXCEPT !.bp = @ \union {a}]
ClearBreakpoint(a) == Asks /\ gdb' = [gdb EXCEPT !.bp = @ \ {a}]

\* D and vKill
Detach == Asks /\ gdb' = stop(gdb)

Next == \/ Iterate \/ Run \/ Interrupt \/ vContAll \/ DeferredNotify \/ Continue \/ Detach
        \/ \E c \in Core : vContOne(c) \/ vContStep(c)
        \/ \E a \in Addr : SetBreakpoint(a) \/ ClearBreakpoint(a)

Spec == Init /\ [][Next]_gdb

-----------------------------------------------------------------------------
(* Correctness *)

\* The target executes exactly while one call of the run loop is on the stack or
\* scheduled: a halt leaves none behind that a later continue would find running
\* beside its own, and no continue is answered by a loop that does not exist
\* (execute, stop, halt).
OneLoop ==
  /\ gdb.calls <= 1
  /\ gdb.executing <=> (gdb.loop # None /\ ~gdb.stopped) \/ gdb.calls = 1

\* The debugger is told of every halt and is told of none while the target runs,
\* whether it ends at a breakpoint, in a BKPT, by Ctrl-C or before it began
\* (notifyBreakpoint, feedData, processGDBMessage).
DebuggerKnows ==
  Idle => /\ gdb.view = "halted" => ~gdb.executing
          /\ gdb.view = "running" => gdb.executing \/ gdb.notify

\* No core runs over a breakpoint.  The instruction a core is resumed at, the first
\* after it wakes and the first of an interrupt handler are not looked at
\* (hitBreakpoint checks the program counter after an instruction, and that of a
\* core that sleeps does not count).
BreakpointsHit ==
  gdb.loop # None => \A c \in gdb.armed : ~gdb.waiting[c] => gdb.pc[c] \notin gdb.bp
=============================================================================
