------------------------- MODULE MCInterventions_proofs -------------------------
(***************************************************************************)
(* What comes between the steps of a program and is not noticed there.     *)
(*                                                                         *)
(* The debugger is in control of either server (DebuggerInControl).  The   *)
(* run loop: one loop runs the cores or none, the debugger knows which,    *)
(* and no core runs over a breakpoint.  The connection: for any cut of the *)
(* bytes, at most one packet is on its way, followed by nothing; it is     *)
(* executed once or refused; and what the debugger believes, with what an  *)
(* answer on its way will tell it, is what the registers hold.             *)
(*                                                                         *)
(* Interrupt handlers leave the divider and the interpolators as they were *)
(* (HandlersUnnoticed), for any operands, values and configurations, any   *)
(* number of accesses and any depth of handlers within handlers.           *)
(***************************************************************************)
EXTENDS MCChip, SequenceTheorems, TLAPS

-----------------------------------------------------------------------------
(* The run loop *)

\* RA and RH name the same operators on the same fields, but for what a core does.
Cores == {0, 1}
Places == DOMAIN Kinds \cup {0, 2}
Server ==
  [stopped : BOOLEAN, executing : BOOLEAN, single : {-1, 0, 1}, haltedCore : Cores,
   calls : Nat, loop : {-1} \cup Nat, notify : BOOLEAN, bp : SUBSET Places,
   pc : [Cores -> Places], waiting : [Cores -> BOOLEAN], ahead : Int,
   view : {"halted", "running"}, armed : SUBSET Cores]

\* No core that has executed is at a breakpoint.
Clear(s) == \A c \in s.armed : ~s.waiting[c] => s.pc[c] \notin s.bp

\* While the target executes there is one call of the loop, on the stack or scheduled,
\* the debugger believes that it runs and no report is due; otherwise there is none.
Controlled(s) ==
  /\ s.executing = ~s.stopped
  /\ s.executing <=> (s.loop # -1 \/ s.calls = 1)
  /\ s.calls \in {0, 1} /\ (s.loop # -1 => s.calls = 0)
  /\ s.executing => s.view = "running"
  /\ s.view = "running" => s.executing \/ s.notify
  /\ s.notify => s.view = "running" /\ ~s.executing
  /\ s.executing => Clear(s)

ServerOK(s) == s \in Server /\ Controlled(s)

\* What an instruction of core c, and the time that passes with it, leave: the target
\* as it was, or halted by a BKPT, and the other core where it was unless it woke.
Ran(s, c, u) ==
  /\ u \in Server
  /\ u.calls = s.calls /\ u.loop = s.loop /\ u.notify = s.notify /\ u.bp = s.bp
  /\ \/ u.stopped = s.stopped /\ u.executing = s.executing /\ u.view = s.view
     \/ u.stopped = TRUE /\ u.executing = FALSE /\ u.view = "halted"
  /\ \A d \in Cores \ {c} :
       d \in u.armed /\ ~u.waiting[d] => d \in s.armed /\ ~s.waiting[d] /\ u.pc[d] = s.pc[d]

\* The steps of executeInstruction: cycles, the next instruction, what it does besides.
Counted(s, k) == [s EXCEPT !.ahead = k]
Went(s, c, next) == [s EXCEPT !.pc[c] = next, !.waiting[c] = FALSE, !.armed = @ \union {c}]

Slept(w, c) == [w EXCEPT !.waiting[c] = TRUE]
Signalled(s, w, o) == [w EXCEPT !.waiting[o] = FALSE, !.armed = IF s.waiting[o] THEN @ \ {o} ELSE @]
Broke(w, c, at) == RA!onBreak([w EXCEPT !.pc[c] = at], c)

LEMMA ServerTypes ==
  ASSUME NEW s \in Server
  PROVE  /\ s.stopped \in BOOLEAN /\ s.executing \in BOOLEAN /\ s.notify \in BOOLEAN
         /\ s.single \in {-1, 0, 1} /\ s.haltedCore \in Cores /\ s.calls \in Nat /\ s.loop \in {-1} \cup Nat
         /\ s.bp \subseteq Places /\ s.pc \in [Cores -> Places] /\ s.waiting \in [Cores -> BOOLEAN]
         /\ s.ahead \in Int /\ s.view \in {"halted", "running"} /\ s.armed \subseteq Cores
  BY DEF Server

LEMMA CountedRan ==
  ASSUME NEW s \in Server, NEW c \in Cores, NEW k \in Int
  PROVE  Ran(s, c, Counted(s, k))
  BY DEF Ran, Server, Counted

LEMMA WentRan ==
  ASSUME NEW s \in Server, NEW c \in Cores, NEW next \in Places
  PROVE  /\ Ran(s, c, Went(s, c, next))
         /\ \A d \in Cores \ {c} : Went(s, c, next).waiting[d] = s.waiting[d]
<1> DEFINE w == Went(s, c, next)
<1>1. /\ s.pc \in [Cores -> Places] /\ s.waiting \in [Cores -> BOOLEAN] /\ s.armed \subseteq Cores
  BY ServerTypes
<1>2. w \in Server
  <2>1. /\ [s.pc EXCEPT ![c] = next] \in [Cores -> Places]
        /\ [s.waiting EXCEPT ![c] = FALSE] \in [Cores -> BOOLEAN]
        /\ s.armed \union {c} \in SUBSET Cores
    BY <1>1
  <2>2. w = [[[s EXCEPT !.pc = [s.pc EXCEPT ![c] = next]] EXCEPT !.waiting = [s.waiting EXCEPT ![c] = FALSE]]
               EXCEPT !.armed = s.armed \union {c}]
    BY DEF Went, Server
  <2> QED
    BY <2>1, <2>2 DEF Server
<1>3. /\ w.calls = s.calls /\ w.loop = s.loop /\ w.notify = s.notify /\ w.bp = s.bp
      /\ w.stopped = s.stopped /\ w.executing = s.executing /\ w.view = s.view
      /\ w.pc = [s.pc EXCEPT ![c] = next] /\ w.waiting = [s.waiting EXCEPT ![c] = FALSE]
      /\ w.armed = s.armed \union {c}
  BY DEF Went, Server
<1>4. /\ w.pc[c] = next
      /\ \A d \in Cores \ {c} : w.pc[d] = s.pc[d] /\ (w.waiting[d] = s.waiting[d]) /\ (d \in w.armed <=> d \in s.armed)
  BY <1>1, <1>3
<1> HIDE DEF w
<1>5. Ran(s, c, w)
  BY <1>2, <1>3, <1>4 DEF Ran
<1> QED
  BY <1>4, <1>5 DEF w

LEMMA SleptRan ==
  ASSUME NEW s \in Server, NEW c \in Cores, NEW w, Ran(s, c, w)
  PROVE  Ran(s, c, Slept(w, c))
<1> DEFINE v == Slept(w, c)
<1>1. w \in Server /\ w.waiting \in [Cores -> BOOLEAN]
  BY ServerTypes DEF Ran
<1>2. v = [w EXCEPT !.waiting = [w.waiting EXCEPT ![c] = TRUE]] /\ [w.waiting EXCEPT ![c] = TRUE] \in [Cores -> BOOLEAN]
  BY <1>1 DEF Server, Slept, Signalled
<1>3. v \in Server
  BY <1>1, <1>2 DEF Server
<1>4. /\ v.calls = w.calls /\ v.loop = w.loop /\ v.notify = w.notify /\ v.bp = w.bp
      /\ v.stopped = w.stopped /\ v.executing = w.executing /\ v.view = w.view
      /\ v.pc = w.pc /\ v.armed = w.armed
      /\ v.waiting = [w.waiting EXCEPT ![c] = TRUE]
  BY <1>1 DEF Server, Slept
<1>5. \A d \in Cores \ {c} : v.waiting[d] = w.waiting[d]
  BY <1>1, <1>4
<1> HIDE DEF v
<1>6. Ran(s, c, v)
  BY <1>3, <1>4, <1>5 DEF Ran
<1> QED
  BY <1>6 DEF v

\* SEV wakes the other core, at an instruction that is not looked at.
LEMMA SevRan ==
  ASSUME NEW s \in Server, NEW c \in Cores, NEW w, Ran(s, c, w),
         \A d \in Cores \ {c} : w.waiting[d] = s.waiting[d],
         NEW o \in Cores, o = 1 - c
  PROVE  Ran(s, c, Signalled(s, w, o))
<1> DEFINE armed == IF s.waiting[o] THEN w.armed \ {o} ELSE w.armed
           v == Signalled(s, w, o)
<1>1. w \in Server /\ w.waiting \in [Cores -> BOOLEAN] /\ w.armed \subseteq Cores /\ o # c
  BY ServerTypes DEF Ran, Cores
<1>2. /\ v = [[w EXCEPT !.waiting = [w.waiting EXCEPT ![o] = FALSE]] EXCEPT !.armed = armed]
      /\ [w.waiting EXCEPT ![o] = FALSE] \in [Cores -> BOOLEAN]
      /\ armed \in SUBSET Cores
  BY <1>1 DEF Server, Slept, Signalled
<1>3. v \in Server
  BY <1>1, <1>2 DEF Server
<1>4. /\ v.calls = w.calls /\ v.loop = w.loop /\ v.notify = w.notify /\ v.bp = w.bp
      /\ v.stopped = w.stopped /\ v.executing = w.executing /\ v.view = w.view
      /\ v.pc = w.pc /\ v.armed = armed
  BY <1>1 DEF Server, Signalled
<1>5. \A d \in Cores \ {c} : d \in armed => d \in w.armed /\ ~s.waiting[d]
  <2>1. \A d \in Cores \ {c} : d = o
    BY DEF Cores
  <2> QED
    BY <2>1
<1> HIDE DEF v, armed
<1>6. \A d \in Cores \ {c} : d \in v.armed => d \in w.armed /\ ~s.waiting[d] /\ ~w.waiting[d]
  BY <1>4, <1>5
<1>7. Ran(s, c, v)
  BY <1>3, <1>4, <1>6 DEF Ran
<1> QED
  BY <1>7 DEF v

\* A BKPT halts the target and stays where it is.
LEMMA BrokeRan ==
  ASSUME NEW s \in Server, NEW c \in Cores, NEW w, Ran(s, c, w), NEW at \in Places
  PROVE  Ran(s, c, Broke(w, c, at))
<1> DEFINE v == Broke(w, c, at)
<1>1. w \in Server /\ w.pc \in [Cores -> Places]
  BY ServerTypes DEF Ran
<1>2. /\ v = [[[[[w EXCEPT !.pc = [w.pc EXCEPT ![c] = at]] EXCEPT !.stopped = TRUE] EXCEPT !.executing = FALSE]
               EXCEPT !.haltedCore = c] EXCEPT !.view = "halted"]
      /\ [w.pc EXCEPT ![c] = at] \in [Cores -> Places]
  BY <1>1 DEF Server, Broke, RA!onBreak, RA!notifyBreakpoint
<1>3. v \in Server
  BY <1>1, <1>2 DEF Server
<1>4. /\ v.calls = w.calls /\ v.loop = w.loop /\ v.notify = w.notify /\ v.bp = w.bp
      /\ v.stopped = TRUE /\ v.executing = FALSE /\ v.view = "halted"
      /\ v.pc = [w.pc EXCEPT ![c] = at] /\ v.armed = w.armed /\ v.waiting = w.waiting
  BY <1>1, <1>2 DEF Server
<1>5. \A d \in Cores \ {c} : v.pc[d] = w.pc[d]
  BY <1>1, <1>4
<1> HIDE DEF v
<1>6. Ran(s, c, v)
  BY <1>3, <1>4, <1>5 DEF Ran
<1> QED
  BY <1>6 DEF v

\* Cores that an interrupt wakes.
LEMMA EnteredRan ==
  ASSUME NEW s \in Server, NEW c \in Cores, NEW w, Ran(s, c, w), NEW entering \in SUBSET Cores
  PROVE  Ran(s, c, RA!stepThings(w, entering))
<1> DEFINE v == RA!stepThings(w, entering)
           waiting == [d \in Cores |-> w.waiting[d] /\ d \notin entering]
           pc == [d \in Cores |-> IF d \in entering THEN 2 ELSE w.pc[d]]
<1>1. w \in Server /\ w.pc \in [Cores -> Places] /\ w.waiting \in [Cores -> BOOLEAN] /\ w.armed \subseteq Cores
  BY ServerTypes DEF Ran
<1>2. /\ v = [[[w EXCEPT !.waiting = waiting] EXCEPT !.pc = pc] EXCEPT !.armed = w.armed \ entering]
      /\ w.armed \ entering \in SUBSET Cores
  BY <1>1 DEF Server, RA!stepThings, RA!Core, Cores
<1>3. waiting \in [Cores -> BOOLEAN]
  BY Zenon
<1>4. pc \in [Cores -> Places]
  BY <1>1 DEF Places
<1> HIDE DEF waiting, pc
<1>5. v \in Server
  BY <1>1, <1>2, <1>3, <1>4 DEF Server
<1>6. /\ v.calls = w.calls /\ v.loop = w.loop /\ v.notify = w.notify /\ v.bp = w.bp
      /\ v.stopped = w.stopped /\ v.executing = w.executing /\ v.view = w.view
      /\ v.pc = pc /\ v.armed = w.armed \ entering /\ v.waiting = waiting
  BY <1>1, <1>2 DEF Server
<1> HIDE DEF v
<1>7. \A d \in Cores : d \notin entering => pc[d] = w.pc[d] /\ (waiting[d] <=> w.waiting[d])
  BY Zenon DEF waiting, pc
<1>8. Ran(s, c, v)
  BY <1>5, <1>6, <1>7 DEF Ran
<1> QED
  BY <1>8 DEF v

LEMMA InstructionRan ==
  ASSUME NEW s \in Server, NEW c \in Cores, NEW next \in Places, NEW k \in Int
  PROVE  LET w == Went(Counted(s, k), c, next)
         IN  Ran(s, c, w) /\ \A d \in Cores \ {c} : w.waiting[d] = s.waiting[d]
<1> DEFINE t == Counted(s, k)
           w == Went(t, c, next)
<1>1. /\ t \in Server
      /\ t.calls = s.calls /\ t.loop = s.loop /\ t.notify = s.notify /\ t.bp = s.bp
      /\ t.stopped = s.stopped /\ t.executing = s.executing /\ t.view = s.view
      /\ t.pc = s.pc /\ t.waiting = s.waiting /\ t.armed = s.armed
  BY DEF Counted, Server
<1> HIDE DEF t
<1>2. Ran(t, c, w) /\ \A d \in Cores \ {c} : w.waiting[d] = t.waiting[d]
  BY <1>1, WentRan
<1> HIDE DEF w
<1>3. Ran(s, c, w)
  BY <1>1, <1>2 DEF Ran
<1> QED
  BY <1>1, <1>2, <1>3 DEF w, t

LEMMA RAExecuted ==
  ASSUME NEW s \in Server, NEW c \in Cores, NEW at \in Places, NEW next \in Places
  PROVE  Ran(s, c, RA!Executed(s, c, at, next, FALSE))
<1> DEFINE cost == RA!Cost(s, at, FALSE)
           k == IF c = 0 THEN s.ahead + cost ELSE s.ahead - cost
           w == Went(Counted(s, k), c, next)
<1>1. k \in Int
  <2>1. cost \in {1, 2}
    BY DEF RA!Cost
  <2>2. s.ahead \in Int
    BY ServerTypes
  <2> HIDE DEF cost
  <2> QED
    BY <2>1, <2>2
<1> HIDE DEF cost, k
<1>2. Ran(s, c, w) /\ \A d \in Cores \ {c} : w.waiting[d] = s.waiting[d]
  BY <1>1, InstructionRan
<1>3. 1 - c \in Cores
  BY DEF Cores
<1>4. w = [Counted(s, k) EXCEPT !.pc[c] = next, !.waiting[c] = FALSE, !.armed = @ \union {c}]
  BY DEF Went
<1>5. Counted(s, k) = [s EXCEPT !.ahead = IF c = 0 THEN @ + cost ELSE @ - cost]
  BY DEF Counted, k, Server
<1> HIDE DEF w
<1>6. RA!Executed(s, c, at, next, FALSE) =
        CASE Kinds[at] = "wfi" -> Slept(w, c)
          [] Kinds[at] = "sev" -> Signalled(s, w, 1 - c)
          [] Kinds[at] = "bkpt" /\ TRUE -> Broke(w, c, at)
          [] OTHER -> w
  BY <1>4, <1>5, ZenonT(40) DEF RA!Executed, RA!other, cost, Slept, Signalled, Broke, RH!onBreak, RH!notifyBreakpoint, RA!onBreak, RA!notifyBreakpoint
<1>7. CASE Kinds[at] = "wfi"
  <2>1. RA!Executed(s, c, at, next, FALSE) = Slept(w, c)
    BY <1>6, <1>7
  <2> QED
    BY <1>2, <2>1, SleptRan
<1>8. CASE Kinds[at] = "sev"
  <2>1. RA!Executed(s, c, at, next, FALSE) = Signalled(s, w, 1 - c)
    BY <1>6, <1>8
  <2> QED
    BY <1>2, <1>3, <2>1, SevRan
<1>9. CASE Kinds[at] = "bkpt"
  <2>1. RA!Executed(s, c, at, next, FALSE) = Broke(w, c, at)
    BY <1>6, <1>9
  <2> QED
    BY <1>2, <2>1, BrokeRan
<1> QED
  BY <1>2, <1>6, <1>7, <1>8, <1>9

LEMMA RHExecuted ==
  ASSUME NEW s \in Server, NEW c \in Cores, NEW at \in Places, NEW next \in Places
  PROVE  Ran(s, c, RH!Executed(s, c, at, next, FALSE))
<1> DEFINE cost == RH!Cost(s, at, FALSE)
           k == IF c = 0 THEN s.ahead + cost ELSE s.ahead - cost
           w == Went(Counted(s, k), c, next)
<1>1. k \in Int
  <2>1. cost \in {1, 2}
    BY DEF RH!Cost
  <2>2. s.ahead \in Int
    BY ServerTypes
  <2> HIDE DEF cost
  <2> QED
    BY <2>1, <2>2
<1> HIDE DEF cost, k
<1>2. Ran(s, c, w) /\ \A d \in Cores \ {c} : w.waiting[d] = s.waiting[d]
  BY <1>1, InstructionRan
<1>3. 1 - c \in Cores
  BY DEF Cores
<1>4. w = [Counted(s, k) EXCEPT !.pc[c] = next, !.waiting[c] = FALSE, !.armed = @ \union {c}]
  BY DEF Went
<1>5. Counted(s, k) = [s EXCEPT !.ahead = IF c = 0 THEN @ + cost ELSE @ - cost]
  BY DEF Counted, k, Server
<1> HIDE DEF w
<1>6. RH!Executed(s, c, at, next, FALSE) =
        CASE Kinds[at] = "wfi" -> Slept(w, c)
          [] Kinds[at] = "sev" -> Signalled(s, w, 1 - c)
          [] Kinds[at] = "bkpt" /\ FALSE -> Broke(w, c, at)
          [] OTHER -> w
  BY <1>4, <1>5, ZenonT(40) DEF RH!Executed, RH!other, cost, Slept, Signalled, Broke, RH!onBreak, RH!notifyBreakpoint, RA!onBreak, RA!notifyBreakpoint
<1>7. CASE Kinds[at] = "wfi"
  <2>1. RH!Executed(s, c, at, next, FALSE) = Slept(w, c)
    BY <1>6, <1>7
  <2> QED
    BY <1>2, <2>1, SleptRan
<1>8. CASE Kinds[at] = "sev"
  <2>1. RH!Executed(s, c, at, next, FALSE) = Signalled(s, w, 1 - c)
    BY <1>6, <1>8
  <2> QED
    BY <1>2, <1>3, <2>1, SevRan
<1> QED
  BY <1>2, <1>6, <1>7, <1>8

LEMMA RAOutcomes ==
  ASSUME NEW s \in Server, NEW c \in Cores, NEW u \in RA!Outcomes(s, c)
  PROVE  Ran(s, c, u)
<1> DEFINE awake == {RA!Executed(s, c, e[1], e[2], FALSE) :
                       e \in {x \in {s.pc[c], 2} \X RA!Addr : x[2] \in Successors[x[1]]}}
           asleep == RA!Executed(s, c, s.pc[c], s.pc[c], TRUE)
<1>1. s.pc[c] \in Places /\ 2 \in Places /\ RA!Addr \subseteq Places /\ s.ahead \in Int
  BY ServerTypes DEF Places, RA!Addr
<1>2. ASSUME NEW v \in awake
      PROVE  Ran(s, c, v)
  <2>1. PICK e \in {x \in {s.pc[c], 2} \X RA!Addr : x[2] \in Successors[x[1]]} :
          v = RA!Executed(s, c, e[1], e[2], FALSE)
    BY <1>2
  <2>2. e[1] \in Places /\ e[2] \in Places
    BY <1>1
  <2> QED
    BY <2>1, <2>2, RAExecuted
<1>3. Ran(s, c, asleep)
  <2>1. asleep = Counted(s, IF c = 0 THEN s.ahead + 1 ELSE s.ahead - 1)
    BY DEF RA!Executed, RA!Cost, Counted, Server
  <2>2. (IF c = 0 THEN s.ahead + 1 ELSE s.ahead - 1) \in Int
    BY <1>1
  <2> QED
    BY <2>1, <2>2, CountedRan
<1>4. u \in awake \cup {asleep}
  <2>1. RA!Outcomes(s, c) \subseteq awake \cup {asleep}
    <3> HIDE DEF asleep, awake
    <3>1. RA!Outcomes(s, c) =
            {t \in CASE ~s.waiting[c] -> awake
                     [] s.waiting[c] /\ TRUE -> {asleep}
                     [] OTHER -> awake \union {asleep} : t.ahead \in -MaxSkew .. MaxSkew}
      BY Zenon DEF RA!Outcomes, asleep, awake
    <3>2. CASE ~s.waiting[c]
      BY <3>1, <3>2
    <3>3. CASE s.waiting[c]
      BY <3>1, <3>3
    <3> QED
      BY <3>2, <3>3
  <2> QED
    BY <2>1
<1> HIDE DEF awake, asleep
<1> QED
  BY <1>2, <1>3, <1>4

LEMMA RHOutcomes ==
  ASSUME NEW s \in Server, NEW c \in Cores, NEW u \in RH!Outcomes(s, c)
  PROVE  Ran(s, c, u)
<1> DEFINE awake == {RH!Executed(s, c, e[1], e[2], FALSE) :
                       e \in {x \in {s.pc[c], 2} \X RH!Addr : x[2] \in Successors[x[1]]}}
           asleep == RH!Executed(s, c, s.pc[c], s.pc[c], TRUE)
<1>1. s.pc[c] \in Places /\ 2 \in Places /\ RH!Addr \subseteq Places /\ s.ahead \in Int
  BY ServerTypes DEF Places, RH!Addr
<1>2. ASSUME NEW v \in awake
      PROVE  Ran(s, c, v)
  <2>1. PICK e \in {x \in {s.pc[c], 2} \X RH!Addr : x[2] \in Successors[x[1]]} :
          v = RH!Executed(s, c, e[1], e[2], FALSE)
    BY <1>2
  <2>2. e[1] \in Places /\ e[2] \in Places
    BY <1>1
  <2> QED
    BY <2>1, <2>2, RHExecuted
<1>3. Ran(s, c, asleep)
  <2>1. asleep = Counted(s, IF c = 0 THEN s.ahead + 1 ELSE s.ahead - 1)
    BY DEF RH!Executed, RH!Cost, Counted, Server
  <2>2. (IF c = 0 THEN s.ahead + 1 ELSE s.ahead - 1) \in Int
    BY <1>1
  <2> QED
    BY <2>1, <2>2, CountedRan
<1>4. u \in awake \cup {asleep}
  <2>1. RH!Outcomes(s, c) \subseteq awake \cup {asleep}
    <3> HIDE DEF asleep, awake
    <3>1. RH!Outcomes(s, c) =
            {t \in CASE ~s.waiting[c] -> awake
                     [] s.waiting[c] /\ FALSE -> {asleep}
                     [] OTHER -> awake \union {asleep} : t.ahead \in -MaxSkew .. MaxSkew}
      BY Zenon DEF RH!Outcomes, asleep, awake
    <3>2. CASE ~s.waiting[c]
      BY <3>1, <3>2
    <3>3. CASE s.waiting[c]
      BY <3>1, <3>3
    <3> QED
      BY <3>2, <3>3
  <2> QED
    BY <2>1
<1> HIDE DEF awake, asleep
<1> QED
  BY <1>2, <1>3, <1>4

\* A target that halts, with nothing scheduled.
LEMMA Halted ==
  ASSUME NEW v \in Server, v.stopped = TRUE, v.executing = FALSE, v.view = "halted", v.loop = -1,
         v.calls = 0, v.notify = FALSE
  PROVE  ServerOK(v)
<1>1. v.executing = ~v.stopped
  BY Zenon
<1>2. ~v.executing /\ ~v.notify /\ v.view # "running" /\ v.calls # 1 /\ v.calls \in {0, 1} /\ ~(v.loop # -1)
  OBVIOUS
<1> QED
  BY <1>1, <1>2, Zenon DEF ServerOK, Controlled

LEMMA Running ==
  ASSUME NEW v \in Server, v.stopped = FALSE, v.executing = TRUE, v.view = "running", v.loop # -1,
         v.calls = 0, v.notify = FALSE, Clear(v)
  PROVE  ServerOK(v)
<1>1. v.executing = ~v.stopped
  BY Zenon
<1>2. v.executing /\ ~v.notify /\ v.calls # 1 /\ v.calls \in {0, 1}
  OBVIOUS
<1> QED
  BY <1>1, <1>2, Zenon DEF ServerOK, Controlled

\* The end of an iteration: whatever the core did, the loop goes on past no breakpoint.
LEMMA IteratedControlled ==
  ASSUME NEW s, ServerOK(s), s.loop # -1, NEW c \in Cores, NEW u, Ran(s, c, u)
  PROVE  ServerOK(RA!Iterated(u, c))
<1> DEFINE v == RA!Iterated(u, c)
<1>1. /\ u \in Server /\ s \in Server /\ Controlled(s)
  BY DEF Ran, ServerOK
<1>2. /\ u.stopped \in BOOLEAN /\ u.executing \in BOOLEAN /\ u.notify \in BOOLEAN
      /\ u.calls \in Nat /\ u.loop \in {-1} \cup Nat
      /\ u.waiting \in [Cores -> BOOLEAN] /\ u.armed \subseteq Cores
  BY <1>1, ServerTypes
<1>3. /\ s.executing = TRUE /\ s.stopped = FALSE /\ s.view = "running" /\ s.calls = 0 /\ s.notify = FALSE
      /\ Clear(s)
  <2>1. s.executing \in BOOLEAN /\ s.stopped \in BOOLEAN /\ s.notify \in BOOLEAN
    BY <1>1, ServerTypes
  <2> QED
    BY <1>1, <2>1 DEF Controlled
<1>4. /\ u.calls = 0 /\ u.loop = s.loop /\ u.loop \in Nat /\ u.notify = FALSE /\ u.bp = s.bp
      /\ \/ u.stopped = FALSE /\ u.executing = TRUE /\ u.view = "running"
         \/ u.stopped = TRUE /\ u.executing = FALSE /\ u.view = "halted"
  BY <1>2, <1>3 DEF Ran
<1>5. CASE RA!hitBreakpoint(u, c)
  <2>1. v = [u EXCEPT !.haltedCore = c, !.stopped = TRUE, !.executing = FALSE, !.single = -1,
                      !.loop = -1, !.view = "halted"]
    BY <1>1, <1>5 DEF RA!Iterated, RA!halt, RA!notifyBreakpoint, RA!Both, RA!None, Server
  <2>2. v \in Server
    BY <1>1, <2>1 DEF Server
  <2>3. v.stopped = TRUE /\ v.executing = FALSE /\ v.loop = -1 /\ v.view = "halted" /\ v.calls = 0 /\ v.notify = FALSE
    BY <1>1, <1>4, <2>1 DEF Server
  <2> HIDE DEF v
  <2>4. ServerOK(v)
    BY <2>2, <2>3, Halted
  <2> QED
    BY <2>4 DEF v
<1>6. CASE ~RA!hitBreakpoint(u, c)
  <2>1. Clear(u)
    <3>1. ASSUME NEW d \in u.armed, ~u.waiting[d]
          PROVE  u.pc[d] \notin u.bp
      <4>1. CASE d = c
        BY <1>6, <3>1, <4>1 DEF RA!hitBreakpoint
      <4>2. CASE d # c
        BY <1>2, <1>3, <1>4, <3>1, <4>2 DEF Ran, Clear
      <4> QED
        BY <4>1, <4>2
    <3> QED
      BY <3>1 DEF Clear
  <2>2. CASE ~u.stopped /\ u.loop + 1 < Chunk
    <3>1. v = [u EXCEPT !.loop = @ + 1]
      BY <1>6, <2>2 DEF RA!Iterated
    <3>2. v \in Server
      BY <1>1, <1>4, <3>1 DEF Server
    <3>3. /\ v.stopped = FALSE /\ v.executing = TRUE /\ v.loop = u.loop + 1 /\ v.view = "running"
          /\ v.calls = 0 /\ v.notify = FALSE
          /\ v.armed = u.armed /\ v.waiting = u.waiting /\ v.pc = u.pc /\ v.bp = u.bp
      BY <1>1, <1>4, <2>2, <3>1 DEF Server
    <3>4. v.loop # -1
      BY <1>4, <3>3
    <3> HIDE DEF v
    <3>5. Clear(v)
      BY <2>1, <3>3 DEF Clear
    <3>6. ServerOK(v)
      BY <3>2, <3>3, <3>4, <3>5, Running
    <3> QED
      BY <3>6 DEF v
  <2>3. CASE ~(~u.stopped /\ u.loop + 1 < Chunk)
    <3>1. v = [u EXCEPT !.loop = -1, !.calls = IF u.stopped \/ @ = 2 THEN @ ELSE @ + 1]
      BY <1>6, <2>3 DEF RA!Iterated, RA!None, RA!MaxCalls
    <3>2. v = [[u EXCEPT !.loop = -1] EXCEPT !.calls = IF u.stopped THEN 0 ELSE 1]
      BY <1>1, <1>4, <3>1 DEF Server
    <3>3. v \in Server
      <4>1. (IF u.stopped THEN 0 ELSE 1) \in Nat
        OBVIOUS
      <4> HIDE DEF v
      <4> QED
        BY <1>1, <3>2, <4>1 DEF Server
    <3>4. /\ v.stopped = u.stopped /\ v.executing = u.executing /\ v.loop = -1 /\ v.view = u.view
          /\ v.calls = (IF u.stopped THEN 0 ELSE 1) /\ v.notify = FALSE
          /\ v.armed = u.armed /\ v.waiting = u.waiting /\ v.pc = u.pc /\ v.bp = u.bp
      BY <1>1, <1>4, <3>2 DEF Server
    <3> HIDE DEF v
    <3>5. Clear(v)
      BY <2>1, <3>4 DEF Clear
    <3>6. ServerOK(v)
      <4>1. CASE u.stopped = TRUE
        BY <1>4, <3>3, <3>4, <4>1, Halted
      <4>2. CASE u.stopped = FALSE
        BY <1>4, <3>3, <3>4, <3>5, <4>2 DEF ServerOK, Controlled
      <4> QED
        BY <1>4, <4>1, <4>2
    <3> QED
      BY <3>6 DEF v
  <2> QED
    BY <2>2, <2>3
<1> QED
  BY <1>5, <1>6

\* What the debugger believes to have halted has: no loop, no call, no report.
LEMMA HaltedFacts ==
  ASSUME NEW s, ServerOK(s), s.view = "halted"
  PROVE  /\ s \in Server /\ s.stopped = TRUE /\ s.executing = FALSE /\ s.loop = -1 /\ s.calls = 0 /\ s.notify = FALSE
<1>1. s \in Server /\ Controlled(s)
  BY DEF ServerOK
<1>2. s.stopped \in BOOLEAN /\ s.executing \in BOOLEAN /\ s.notify \in BOOLEAN
  BY <1>1, ServerTypes
<1> QED
  BY <1>1, <1>2 DEF Controlled

LEMMA ResumeControlled ==
  ASSUME NEW s, ServerOK(s), s.view = "halted", NEW one \in {-1, 0, 1}
  PROVE  ServerOK(RA!Resume([s EXCEPT !.view = "running", !.single = one]))
<1> DEFINE v == RA!Resume([s EXCEPT !.view = "running", !.single = one])
<1>1. /\ s \in Server /\ s.stopped = TRUE /\ s.executing = FALSE /\ s.loop = -1 /\ s.calls = 0 /\ s.notify = FALSE
  BY HaltedFacts
<1>2. v = [s EXCEPT !.view = "running", !.single = one, !.stopped = FALSE, !.executing = TRUE, !.loop = 0, !.armed = {}]
  BY <1>1 DEF RA!Resume, RA!execute, Server
<1> HIDE DEF v
<1>3. v \in Server
  BY <1>1, <1>2 DEF Server
<1>4. /\ v.stopped = FALSE /\ v.executing = TRUE /\ v.loop = 0 /\ v.calls = 0 /\ v.notify = FALSE
      /\ v.view = "running" /\ v.armed = {}
  BY <1>1, <1>2 DEF Server
<1>5. Clear(v) /\ v.loop # -1
  BY <1>4 DEF Clear
<1>6. ServerOK(v)
  BY <1>3, <1>4, <1>5, Running
<1> QED
  BY <1>6 DEF v

LEMMA StopControlled ==
  ASSUME ServerOK(gdb), RA!Interrupt \/ RA!Detach
  PROVE  ServerOK(gdb')
<1>1. gdb \in Server /\ Controlled(gdb)
  BY DEF ServerOK
<1>2. gdb.stopped \in BOOLEAN /\ gdb.executing \in BOOLEAN /\ gdb.notify \in BOOLEAN /\ gdb.calls \in Nat
  BY <1>1, ServerTypes
<1>3. gdb.loop = -1 /\ gdb.notify = FALSE /\ gdb.calls \in {0, 1}
  BY <1>1, <1>2 DEF RA!Interrupt, RA!Detach, RA!Asks, RA!Idle, RA!None, Controlled
<1>4. gdb' = [gdb EXCEPT !.stopped = TRUE, !.executing = FALSE, !.calls = 0, !.view = "halted"]
  <2> DEFINE fewer == IF gdb.calls > 0 THEN gdb.calls - 1 ELSE 0
  <2>0. fewer = 0
    BY <1>3
  <2>a. RA!stop(gdb) = [gdb EXCEPT !.stopped = TRUE, !.executing = FALSE, !.calls = fewer]
    BY Zenon DEF RA!stop
  <2> HIDE DEF fewer
  <2>1. CASE RA!Interrupt
    BY <1>1, <2>0, <2>a, <2>1 DEF RA!Interrupt, Server
  <2>2. CASE RA!Detach
    <3>1. gdb.view = "halted"
      BY <2>2 DEF RA!Detach, RA!Asks
    <3> QED
      BY <1>1, <2>0, <2>a, <2>2, <3>1 DEF RA!Detach, Server
  <2> QED
    BY <2>1, <2>2
<1>5. /\ gdb' \in Server
      /\ gdb'.stopped = TRUE /\ gdb'.executing = FALSE /\ gdb'.view = "halted" /\ gdb'.loop = -1
      /\ gdb'.calls = 0 /\ gdb'.notify = FALSE
  BY <1>1, <1>3, <1>4 DEF Server
<1> QED
  BY <1>5, Halted

LEMMA RunControlled ==
  ASSUME ServerOK(gdb), RA!Run
  PROVE  ServerOK(gdb')
<1>1. gdb \in Server /\ Controlled(gdb)
  BY DEF ServerOK
<1>2. gdb.stopped \in BOOLEAN /\ gdb.executing \in BOOLEAN /\ gdb.notify \in BOOLEAN /\ gdb.calls \in Nat
  BY <1>1, ServerTypes
<1>3. /\ gdb.calls = 1 /\ gdb.executing = TRUE /\ gdb.stopped = FALSE /\ gdb.notify = FALSE /\ gdb.view = "running"
      /\ Clear(gdb)
  BY <1>1, <1>2 DEF RA!Run, Controlled
<1>4. gdb' = [gdb EXCEPT !.calls = 0, !.loop = 0]
  BY <1>1, <1>3 DEF RA!Run, Server
<1>5. gdb' \in Server
  BY <1>1, <1>4 DEF Server
<1>6. /\ gdb'.stopped = FALSE /\ gdb'.executing = TRUE /\ gdb'.view = "running" /\ gdb'.loop = 0
      /\ gdb'.calls = 0 /\ gdb'.notify = FALSE
      /\ gdb'.armed = gdb.armed /\ gdb'.waiting = gdb.waiting /\ gdb'.pc = gdb.pc /\ gdb'.bp = gdb.bp
  BY <1>1, <1>3, <1>4 DEF Server
<1>7. Clear(gdb')
  BY <1>3, <1>6 DEF Clear
<1>8. gdb'.loop # -1
  BY <1>6
<1> QED
  BY <1>5, <1>6, <1>7, <1>8, Running

LEMMA NotifyControlled ==
  ASSUME ServerOK(gdb), RA!DeferredNotify
  PROVE  ServerOK(gdb')
<1>1. gdb \in Server /\ Controlled(gdb)
  BY DEF ServerOK
<1>2. gdb.stopped \in BOOLEAN /\ gdb.executing \in BOOLEAN /\ gdb.notify \in BOOLEAN /\ gdb.calls \in Nat
  BY <1>1, ServerTypes
<1>3. gdb.executing = FALSE /\ gdb.stopped = TRUE /\ gdb.loop = -1 /\ gdb.calls = 0
  BY <1>1, <1>2 DEF RA!DeferredNotify, RA!Idle, RA!None, Controlled
<1>4. gdb' = [gdb EXCEPT !.view = "halted", !.notify = FALSE]
  BY <1>1 DEF RA!DeferredNotify, RA!notifyBreakpoint, Server
<1>5. /\ gdb' \in Server
      /\ gdb'.stopped = TRUE /\ gdb'.executing = FALSE /\ gdb'.view = "halted" /\ gdb'.loop = -1
      /\ gdb'.calls = 0 /\ gdb'.notify = FALSE
  BY <1>1, <1>3, <1>4 DEF Server
<1> QED
  BY <1>5, Halted

LEMMA ContinueControlled ==
  ASSUME ServerOK(gdb), RA!Continue
  PROVE  ServerOK(gdb')
<1>1. gdb.view = "halted" /\ gdb' = RA!Resume([gdb EXCEPT !.view = "running"])
  BY DEF RA!Continue, RA!Asks
<1>2. gdb \in Server /\ gdb.single \in {-1, 0, 1}
  BY ServerTypes DEF ServerOK
<1>3. [gdb EXCEPT !.view = "running"] = [gdb EXCEPT !.view = "running", !.single = gdb.single]
  BY <1>2 DEF Server
<1> QED
  BY <1>1, <1>2, <1>3, ResumeControlled

LEMMA ContinueOneControlled ==
  ASSUME ServerOK(gdb), NEW c \in Cores, RA!vContOne(c)
  PROVE  ServerOK(gdb')
<1>1. gdb.view = "halted"
  BY DEF RA!vContOne, RA!Asks
<1>2. /\ gdb \in Server /\ gdb.stopped = TRUE /\ gdb.executing = FALSE /\ gdb.loop = -1 /\ gdb.calls = 0 /\ gdb.notify = FALSE
  BY <1>1, HaltedFacts
<1>3. CASE gdb.waiting[c]
  <2>1. gdb' = [gdb EXCEPT !.view = "running", !.haltedCore = c, !.notify = TRUE]
    BY <1>3 DEF RA!vContOne
  <2>2. /\ gdb' \in Server
        /\ gdb'.stopped = TRUE /\ gdb'.executing = FALSE /\ gdb'.view = "running" /\ gdb'.loop = -1
        /\ gdb'.calls = 0 /\ gdb'.notify = TRUE
    BY <1>2, <2>1 DEF Server
  <2>3. gdb'.executing = ~gdb'.stopped
    BY <2>2, Zenon
  <2> QED
    BY <2>2, <2>3 DEF ServerOK, Controlled
<1>4. CASE ~gdb.waiting[c]
  <2>1. gdb' = RA!Resume([gdb EXCEPT !.view = "running", !.single = c])
    BY <1>4 DEF RA!vContOne
  <2>2. c \in {-1, 0, 1}
    BY DEF Cores
  <2> QED
    BY <1>1, <2>1, <2>2, ResumeControlled
<1> QED
  BY <1>3, <1>4

LEMMA BreakpointControlled ==
  ASSUME ServerOK(gdb), NEW a \in DOMAIN Kinds, RA!SetBreakpoint(a) \/ RA!ClearBreakpoint(a)
  PROVE  ServerOK(gdb')
<1>1. gdb.view = "halted"
  BY DEF RA!SetBreakpoint, RA!ClearBreakpoint, RA!Asks
<1>2. /\ gdb \in Server /\ gdb.stopped = TRUE /\ gdb.executing = FALSE /\ gdb.loop = -1 /\ gdb.calls = 0 /\ gdb.notify = FALSE
  BY <1>1, HaltedFacts
<1>3. PICK b \in SUBSET Places : gdb' = [gdb EXCEPT !.bp = b]
  <2>1. gdb.bp \cup {a} \in SUBSET Places /\ gdb.bp \ {a} \in SUBSET Places
    BY <1>2, ServerTypes DEF Places
  <2> QED
    BY <1>2, <2>1 DEF RA!SetBreakpoint, RA!ClearBreakpoint
<1>4. /\ gdb' \in Server
      /\ gdb'.stopped = TRUE /\ gdb'.executing = FALSE /\ gdb'.view = "halted" /\ gdb'.loop = -1
      /\ gdb'.calls = 0 /\ gdb'.notify = FALSE
  BY <1>1, <1>2, <1>3 DEF Server
<1> QED
  BY <1>4, Halted

\* A step of the run loop of the ARM server.
LEMMA RAControlled ==
  ASSUME ServerOK(gdb), RA!Next
  PROVE  ServerOK(gdb')
<1>1. gdb \in Server /\ RA!Core = Cores /\ RA!Addr = DOMAIN Kinds
  BY DEF ServerOK, RA!Core, Cores, RA!Addr
<1>2. ASSUME RA!Iterate
      PROVE  ServerOK(gdb')
  <2>1. RA!currentCore(gdb) \in Cores
    <3>1. gdb.single \in {-1, 0, 1}
      BY <1>1, ServerTypes
    <3> QED
      BY <3>1 DEF RA!currentCore, RA!Both, Cores
  <2> DEFINE c == RA!currentCore(gdb)
  <2>2. gdb.loop # -1
    BY <1>2 DEF RA!Iterate, RA!None
  <2>3. PICK s \in RA!Outcomes(gdb, c) :
          \E entering \in SUBSET {d \in RA!Core : TRUE /\ c = 0 /\ s.waiting[d]} :
            gdb' = RA!Iterated(RA!stepThings(s, entering), c)
    BY <1>2 DEF RA!Iterate
  <2>4. PICK entering \in SUBSET {d \in RA!Core : TRUE /\ c = 0 /\ s.waiting[d]} :
          gdb' = RA!Iterated(RA!stepThings(s, entering), c)
    BY <2>3
  <2>5. entering \in SUBSET Cores
    BY <1>1, <2>4
  <2>6. gdb' = RA!Iterated(RA!stepThings(s, entering), c)
    BY <2>4, Zenon DEF RA!Iterated, RA!stepThings, RA!hitBreakpoint, RA!halt, RA!notifyBreakpoint, RA!None, RA!MaxCalls,
         RA!Both, RA!Core, RA!Iterated, RA!stepThings, RA!hitBreakpoint, RA!halt, RA!notifyBreakpoint, RA!None, RA!MaxCalls,
         RA!Both, RA!Core
  <2> HIDE DEF c
  <2>7. c \in Cores
    BY <2>1 DEF c
  <2>8. Ran(gdb, c, s)
    BY <1>1, <2>3, <2>7, RAOutcomes
  <2>9. Ran(gdb, c, RA!stepThings(s, entering))
    BY <1>1, <2>5, <2>7, <2>8, EnteredRan
  <2> QED
    BY <2>2, <2>6, <2>7, <2>9, IteratedControlled
<1>3. ASSUME RA!vContAll
      PROVE  ServerOK(gdb')
  <2>1. gdb.view = "halted"
    BY <1>3 DEF RA!vContAll, RA!Asks
  <2>2. RA!ContinueBoth(gdb) \in {-1, 0, 1}
    BY DEF RA!ContinueBoth, RA!Both
  <2>3. gdb' = RA!Resume([gdb EXCEPT !.view = "running", !.single = RA!ContinueBoth(gdb)])
    BY <1>3 DEF RA!vContAll, RA!Resume, RA!execute, RA!Resume, RA!execute
  <2> QED
    BY <2>1, <2>2, <2>3, ResumeControlled
<1>4. ASSUME NEW c \in RA!Core, RA!vContStep(c)
      PROVE  ServerOK(gdb')
  <2>1. gdb.view = "halted"
    BY <1>4 DEF RA!vContStep, RA!Asks
  <2>2. /\ gdb.stopped = TRUE /\ gdb.executing = FALSE /\ gdb.loop = -1 /\ gdb.calls = 0 /\ gdb.notify = FALSE
    BY <2>1, HaltedFacts
  <2>3. PICK s \in RA!Outcomes(gdb, c) : gdb' = [s EXCEPT !.haltedCore = c, !.view = "halted"]
    BY <1>4 DEF RA!vContStep
  <2>4. Ran(gdb, c, s) /\ c \in Cores
    BY <1>1, <2>3, RAOutcomes
  <2>5. /\ s \in Server /\ s.stopped = TRUE /\ s.executing = FALSE /\ s.loop = -1 /\ s.calls = 0 /\ s.notify = FALSE
    BY <2>2, <2>4 DEF Ran
  <2>6. /\ gdb' \in Server
        /\ gdb'.stopped = TRUE /\ gdb'.executing = FALSE /\ gdb'.view = "halted" /\ gdb'.loop = -1
        /\ gdb'.calls = 0 /\ gdb'.notify = FALSE
    BY <2>3, <2>4, <2>5 DEF Server
  <2> QED
    BY <2>6, Halted
<1>5. ASSUME RA!Run
      PROVE  ServerOK(gdb')
  BY <1>5, RunControlled DEF RA!Run, RA!Run, RA!None, RA!None
<1>6. ASSUME RA!Interrupt \/ RA!Detach
      PROVE  ServerOK(gdb')
  BY <1>6, StopControlled DEF RA!Interrupt, RA!Detach, RA!Interrupt, RA!Detach, RA!Asks, RA!Asks, RA!Idle, RA!Idle,
       RA!None, RA!None, RA!stop, RA!stop
<1>7. ASSUME RA!DeferredNotify
      PROVE  ServerOK(gdb')
  BY <1>7, NotifyControlled DEF RA!DeferredNotify, RA!DeferredNotify, RA!Idle, RA!Idle, RA!None, RA!None,
       RA!notifyBreakpoint, RA!notifyBreakpoint
<1>8. ASSUME RA!Continue
      PROVE  ServerOK(gdb')
  BY <1>8, ContinueControlled DEF RA!Continue, RA!Continue, RA!Asks, RA!Asks, RA!Idle, RA!Idle, RA!None, RA!None,
       RA!Resume, RA!Resume, RA!execute, RA!execute
<1>9. ASSUME NEW c \in RA!Core, RA!vContOne(c)
      PROVE  ServerOK(gdb')
  BY <1>1, <1>9, ContinueOneControlled DEF RA!vContOne, RA!vContOne, RA!Asks, RA!Asks, RA!Idle, RA!Idle, RA!None, RA!None,
       RA!Resume, RA!Resume, RA!execute, RA!execute
<1>10. ASSUME NEW a \in RA!Addr, RA!SetBreakpoint(a) \/ RA!ClearBreakpoint(a)
       PROVE  ServerOK(gdb')
  BY <1>1, <1>10, BreakpointControlled DEF RA!SetBreakpoint, RA!SetBreakpoint, RA!ClearBreakpoint, RA!ClearBreakpoint,
       RA!Asks, RA!Asks, RA!Idle, RA!Idle, RA!None, RA!None
<1> QED
  BY <1>2, <1>3, <1>4, <1>5, <1>6, <1>7, <1>8, <1>9, <1>10 DEF RA!Next

\* A step of the run loop of the other server.
LEMMA RHControlled ==
  ASSUME ServerOK(gdb), RH!Next
  PROVE  ServerOK(gdb')
<1>1. gdb \in Server /\ RH!Core = Cores /\ RH!Addr = DOMAIN Kinds
  BY DEF ServerOK, RH!Core, Cores, RH!Addr
<1>2. ASSUME RH!Iterate
      PROVE  ServerOK(gdb')
  <2>1. RH!currentCore(gdb) \in Cores
    <3>1. gdb.single \in {-1, 0, 1}
      BY <1>1, ServerTypes
    <3> QED
      BY <3>1 DEF RH!currentCore, RH!Both, Cores
  <2> DEFINE c == RH!currentCore(gdb)
  <2>2. gdb.loop # -1
    BY <1>2 DEF RH!Iterate, RH!None
  <2>3. PICK s \in RH!Outcomes(gdb, c) :
          \E entering \in SUBSET {d \in RH!Core : FALSE /\ c = 0 /\ s.waiting[d]} :
            gdb' = RH!Iterated(RH!stepThings(s, entering), c)
    BY <1>2 DEF RH!Iterate
  <2>4. PICK entering \in SUBSET {d \in RH!Core : FALSE /\ c = 0 /\ s.waiting[d]} :
          gdb' = RH!Iterated(RH!stepThings(s, entering), c)
    BY <2>3
  <2>5. entering \in SUBSET Cores
    BY <1>1, <2>4
  <2>6. gdb' = RA!Iterated(RA!stepThings(s, entering), c)
    BY <2>4, Zenon DEF RH!Iterated, RH!stepThings, RH!hitBreakpoint, RH!halt, RH!notifyBreakpoint, RH!None, RH!MaxCalls,
         RH!Both, RH!Core, RA!Iterated, RA!stepThings, RA!hitBreakpoint, RA!halt, RA!notifyBreakpoint, RA!None, RA!MaxCalls,
         RA!Both, RA!Core
  <2> HIDE DEF c
  <2>7. c \in Cores
    BY <2>1 DEF c
  <2>8. Ran(gdb, c, s)
    BY <1>1, <2>3, <2>7, RHOutcomes
  <2>9. Ran(gdb, c, RA!stepThings(s, entering))
    BY <1>1, <2>5, <2>7, <2>8, EnteredRan
  <2> QED
    BY <2>2, <2>6, <2>7, <2>9, IteratedControlled
<1>3. ASSUME RH!vContAll
      PROVE  ServerOK(gdb')
  <2>1. gdb.view = "halted"
    BY <1>3 DEF RH!vContAll, RH!Asks
  <2>2. RH!ContinueBoth(gdb) \in {-1, 0, 1}
    BY DEF RH!ContinueBoth, RH!Both
  <2>3. gdb' = RA!Resume([gdb EXCEPT !.view = "running", !.single = RH!ContinueBoth(gdb)])
    BY <1>3 DEF RH!vContAll, RH!Resume, RH!execute, RA!Resume, RA!execute
  <2> QED
    BY <2>1, <2>2, <2>3, ResumeControlled
<1>4. ASSUME NEW c \in RH!Core, RH!vContStep(c)
      PROVE  ServerOK(gdb')
  <2>1. gdb.view = "halted"
    BY <1>4 DEF RH!vContStep, RH!Asks
  <2>2. /\ gdb.stopped = TRUE /\ gdb.executing = FALSE /\ gdb.loop = -1 /\ gdb.calls = 0 /\ gdb.notify = FALSE
    BY <2>1, HaltedFacts
  <2>3. PICK s \in RH!Outcomes(gdb, c) : gdb' = [s EXCEPT !.haltedCore = c, !.view = "halted"]
    BY <1>4 DEF RH!vContStep
  <2>4. Ran(gdb, c, s) /\ c \in Cores
    BY <1>1, <2>3, RHOutcomes
  <2>5. /\ s \in Server /\ s.stopped = TRUE /\ s.executing = FALSE /\ s.loop = -1 /\ s.calls = 0 /\ s.notify = FALSE
    BY <2>2, <2>4 DEF Ran
  <2>6. /\ gdb' \in Server
        /\ gdb'.stopped = TRUE /\ gdb'.executing = FALSE /\ gdb'.view = "halted" /\ gdb'.loop = -1
        /\ gdb'.calls = 0 /\ gdb'.notify = FALSE
    BY <2>3, <2>4, <2>5 DEF Server
  <2> QED
    BY <2>6, Halted
<1>5. ASSUME RH!Run
      PROVE  ServerOK(gdb')
  BY <1>5, RunControlled DEF RH!Run, RA!Run, RH!None, RA!None
<1>6. ASSUME RH!Interrupt \/ RH!Detach
      PROVE  ServerOK(gdb')
  BY <1>6, StopControlled DEF RH!Interrupt, RH!Detach, RA!Interrupt, RA!Detach, RH!Asks, RA!Asks, RH!Idle, RA!Idle,
       RH!None, RA!None, RH!stop, RA!stop
<1>7. ASSUME RH!DeferredNotify
      PROVE  ServerOK(gdb')
  BY <1>7, NotifyControlled DEF RH!DeferredNotify, RA!DeferredNotify, RH!Idle, RA!Idle, RH!None, RA!None,
       RH!notifyBreakpoint, RA!notifyBreakpoint
<1>8. ASSUME RH!Continue
      PROVE  ServerOK(gdb')
  BY <1>8, ContinueControlled DEF RH!Continue, RA!Continue, RH!Asks, RA!Asks, RH!Idle, RA!Idle, RH!None, RA!None,
       RH!Resume, RA!Resume, RH!execute, RA!execute
<1>9. ASSUME NEW c \in RH!Core, RH!vContOne(c)
      PROVE  ServerOK(gdb')
  BY <1>1, <1>9, ContinueOneControlled DEF RH!vContOne, RA!vContOne, RH!Asks, RA!Asks, RH!Idle, RA!Idle, RH!None, RA!None,
       RH!Resume, RA!Resume, RH!execute, RA!execute
<1>10. ASSUME NEW a \in RH!Addr, RH!SetBreakpoint(a) \/ RH!ClearBreakpoint(a)
       PROVE  ServerOK(gdb')
  BY <1>1, <1>10, BreakpointControlled DEF RH!SetBreakpoint, RA!SetBreakpoint, RH!ClearBreakpoint, RA!ClearBreakpoint,
       RH!Asks, RA!Asks, RH!Idle, RA!Idle, RH!None, RA!None
<1> QED
  BY <1>2, <1>3, <1>4, <1>5, <1>6, <1>7, <1>8, <1>9, <1>10 DEF RH!Next

LEMMA ControlledFromStart ==
  ASSUME RA!Init \/ RH!Init
  PROVE  ServerOK(gdb)
<1> DEFINE s == [stopped |-> TRUE, executing |-> FALSE, single |-> -1, haltedCore |-> 0,
                 calls |-> 0, loop |-> -1, notify |-> FALSE,
                 bp |-> {}, pc |-> [c \in Cores |-> 0], waiting |-> [c \in Cores |-> FALSE],
                 ahead |-> 0, view |-> "halted", armed |-> {}]
<1>1. gdb = s
  BY DEF RA!Init, RH!Init, RA!Both, RH!Both, RA!None, RH!None, RA!Core, RH!Core, Cores
<1>2. s \in Server
  <2>1. [c \in Cores |-> 0] \in [Cores -> Places] /\ [c \in Cores |-> FALSE] \in [Cores -> BOOLEAN]
    BY DEF Places
  <2> QED
    BY <2>1 DEF Server, Cores
<1>3. /\ s.stopped = TRUE /\ s.executing = FALSE /\ s.view = "halted" /\ s.loop = -1 /\ s.calls = 0 /\ s.notify = FALSE
  OBVIOUS
<1> HIDE DEF s
<1> QED
  BY <1>1, <1>2, <1>3, Halted

\* What DebuggerInControl asks of the run loop.
LEMMA ControlShown ==
  ASSUME ServerOK(gdb)
  PROVE  RA!OneLoop /\ RA!DebuggerKnows /\ RA!BreakpointsHit
<1>1. gdb \in Server /\ Controlled(gdb)
  BY DEF ServerOK
<1>2. gdb.stopped \in BOOLEAN /\ gdb.executing \in BOOLEAN /\ gdb.notify \in BOOLEAN /\ gdb.calls \in Nat
  BY <1>1, ServerTypes
<1>3. RA!OneLoop
  BY <1>1, <1>2 DEF Controlled, RA!OneLoop, RA!None
<1>4. RA!DebuggerKnows
  BY <1>1, <1>2 DEF Controlled, RA!DebuggerKnows
<1>5. RA!BreakpointsHit
  BY <1>1, <1>2 DEF Controlled, Clear, RA!BreakpointsHit, RA!None
<1> QED
  BY <1>3, <1>4, <1>5

-----------------------------------------------------------------------------
(* Bytes *)

\* Neither the beginning of a packet nor the end of one.
Plain(x) == x.k \notin {"$", "#"}
AllPlain(q) == \A i \in 1 .. Len(q) : Plain(q[i])

\* The last five of m + 5 items are the packet p.
Framed(q, m, p) ==
  /\ Len(q) = m + 5 /\ \A i \in 1 .. m : Plain(q[i])
  /\ q[m + 1] = [k |-> "$"] /\ q[m + 2] = p /\ q[m + 3] = [k |-> "#"]
  /\ q[m + 4] = [k |-> "d1"] /\ q[m + 5] = [k |-> "d2"]

\* The items of a concatenation.  Names such as this one keep the provers from trying
\* every combination of the sequences there are.
Split(S, a, b) ==
  /\ Len(a \o b) = Len(a) + Len(b) /\ a \o b \in Seq(S) /\ Len(a) \in Nat /\ Len(b) \in Nat
  /\ \A i \in 1 .. Len(a) : (a \o b)[i] = a[i]
  /\ \A i \in 1 .. Len(b) : (a \o b)[Len(a) + i] = b[i]

LEMMA ConcatFacts ==
  ASSUME NEW S, NEW a \in Seq(S), NEW b \in Seq(S)
  PROVE  Split(S, a, b)
  BY ConcatProperties DEF Split

Joined(S, a, b, c) ==
  /\ a \o b \in Seq(S) /\ (a \o b) \o c = a \o (b \o c) /\ Len(a \o b) = Len(a) + Len(b)

LEMMA Recut ==
  ASSUME NEW S, NEW a \in Seq(S), NEW b \in Seq(S), NEW c \in Seq(S)
  PROVE  Joined(S, a, b, c)
<1>1. (a \o b) \o c = a \o (b \o c)
  BY ConcatAssociative
<1>2. a \o b \in Seq(S) /\ Len(a \o b) = Len(a) + Len(b)
  BY ConcatFacts DEF Split
<1> QED
  BY <1>1, <1>2 DEF Joined

\* What arrives of the wire, moved to the buffer, and what stays.
Arrived(wire, n) == SubSeq(wire, 1, n)
Remaining(wire, n) == SubSeq(wire, n + 1, Len(wire))
Buffered(buf, wire, n) == buf \o Arrived(wire, n)

Parted(S, buf, wire, n) ==
  /\ Arrived(wire, n) \in Seq(S) /\ Len(Arrived(wire, n)) = n /\ Arrived(wire, n)[1] = wire[1]
  /\ Arrived(wire, n) # <<>> /\ Remaining(wire, n) \in Seq(S) /\ Len(Remaining(wire, n)) = Len(wire) - n
  /\ \A i \in 1 .. Len(Remaining(wire, n)) : Remaining(wire, n)[i] = wire[n + i]
  /\ Buffered(buf, wire, n) \in Seq(S) /\ Len(Buffered(buf, wire, n)) = Len(buf) + n
  /\ Buffered(buf, wire, n) \o Remaining(wire, n) = buf \o wire

LEMMA Cut ==
  ASSUME NEW S, NEW buf \in Seq(S), NEW wire \in Seq(S), NEW n \in 1 .. Len(wire)
  PROVE  Parted(S, buf, wire, n)
<1> DEFINE h == Arrived(wire, n)
           w == Remaining(wire, n)
<1>1. Len(wire) \in Nat /\ Len(buf) \in Nat
  OBVIOUS
<1>2. h \in Seq(S) /\ Len(h) = n /\ \A i \in 1 .. n : h[i] = wire[i]
  BY <1>1, SubSeqProperties DEF Arrived
<1>3. w \in Seq(S) /\ Len(w) = Len(wire) - n /\ \A i \in 1 .. Len(w) : w[i] = wire[n + i]
  BY <1>1, SubSeqProperties DEF Remaining
<1>4. h \o w = wire
  <2>1. 1 \in 1 .. Len(wire) + 1 /\ n \in 1 - 1 .. Len(wire) /\ Len(wire) \in n .. Len(wire)
    BY <1>1
  <2>2. SubSeq(wire, 1, n) \o SubSeq(wire, n + 1, Len(wire)) = SubSeq(wire, 1, Len(wire))
    BY <2>1, ConcatAdjacentSubSeq, Zenon
  <2>3. SubSeq(wire, 1, Len(wire)) = wire
    BY SubSeqFull
  <2> QED
    BY <2>2, <2>3, Zenon DEF Arrived, Remaining
<1>5. buf \o h \in Seq(S) /\ (buf \o h) \o w = buf \o (h \o w) /\ Len(buf \o h) = Len(buf) + Len(h)
  <2>1. Joined(S, buf, h, w)
    BY <1>2, <1>3, Recut, Zenon
  <2> QED
    BY <2>1 DEF Joined
<1>6. h[1] = wire[1] /\ h # <<>>
  <2>1. 1 \in 1 .. n /\ Len(h) # 0
    BY <1>1, <1>2
  <2> QED
    BY <1>2, <2>1, EmptySeq
<1> QED
  BY <1>2, <1>3, <1>4, <1>5, <1>6 DEF Buffered, Parted

LEMMA PlainConcat ==
  ASSUME NEW S, NEW a \in Seq(S), NEW b \in Seq(S)
  PROVE  /\ AllPlain(a \o b) <=> AllPlain(a) /\ AllPlain(b)
         /\ Len(a \o b) = Len(a) + Len(b) /\ a \o b \in Seq(S)
         /\ \A i \in 1 .. Len(a) : (a \o b)[i] = a[i]
<1>1. /\ Len(a \o b) = Len(a) + Len(b) /\ a \o b \in Seq(S) /\ Len(a) \in Nat /\ Len(b) \in Nat
      /\ \A i \in 1 .. Len(a) : (a \o b)[i] = a[i]
      /\ \A i \in 1 .. Len(b) : (a \o b)[Len(a) + i] = b[i]
  BY ConcatFacts DEF Split
<1> DEFINE c == a \o b
<1> HIDE DEF c
<1>2. ASSUME AllPlain(c)
      PROVE  AllPlain(a) /\ AllPlain(b)
  <2>1. \A i \in 1 .. Len(a) : i \in 1 .. Len(c)
    BY <1>1 DEF c
  <2>2. \A i \in 1 .. Len(b) : Len(a) + i \in 1 .. Len(c)
    BY <1>1 DEF c
  <2> QED
    BY <1>1, <1>2, <2>1, <2>2 DEF AllPlain, c
<1>3. ASSUME AllPlain(a), AllPlain(b)
      PROVE  AllPlain(c)
  <2>1. ASSUME NEW i \in 1 .. Len(c)
        PROVE  Plain(c[i])
    <3>1. CASE i <= Len(a)
      BY <1>1, <1>3, <3>1 DEF AllPlain, c
    <3>2. CASE i > Len(a)
      <4>1. i - Len(a) \in 1 .. Len(b) /\ i = Len(a) + (i - Len(a))
        BY <1>1, <3>2 DEF c
      <4>2. c[i] = b[i - Len(a)]
        BY <1>1, <4>1 DEF c
      <4> QED
        BY <1>3, <4>1, <4>2 DEF AllPlain
    <3> QED
      BY <1>1, <3>1, <3>2 DEF c
  <2> QED
    BY <2>1 DEF AllPlain
<1> QED
  BY <1>1, <1>2, <1>3 DEF c

-----------------------------------------------------------------------------
(* feedData finds packets *)

Dolla(q) == LA!SelectInSeq(q, LAMBDA t : t.k = "$")
Sharp(q) == LA!SelectInSeq(q, LAMBDA t : t.k = "#")

LEMMA LeastIs ==
  ASSUME NEW I \in SUBSET Int, NEW n \in I, \A i \in I : n <= i
  PROVE  LA!Min(I) = n
<1> DEFINE P(x) == \A y \in I : x <= y
<1>1. \E x \in I : P(x)
  OBVIOUS
<1>2. LA!Min(I) \in I /\ P(LA!Min(I))
  <2> HIDE DEF P
  <2>1. LA!Min(I) = CHOOSE x \in I : P(x)
    BY DEF LA!Min, P
  <2> QED
    BY <1>1, <2>1
<1>3. LA!Min(I) <= n /\ n <= LA!Min(I)
  BY <1>2
<1>4. LA!Min(I) \in Int /\ n \in Int
  BY <1>2
<1> HIDE DEF P
<1> QED
  BY <1>3, <1>4

LEMMA SharpAt ==
  ASSUME NEW S, NEW q \in Seq(S), NEW n \in 1 .. Len(q), q[n].k = "#", \A i \in 1 .. n - 1 : q[i].k # "#"
  PROVE  Sharp(q) = n
<1> DEFINE I == {i \in 1 .. Len(q) : q[i].k = "#"}
<1>1. n \in I /\ I \subseteq Int /\ \A i \in I : n <= i
  OBVIOUS
<1>2. Sharp(q) = IF I # {} THEN LA!Min(I) ELSE 0
  BY DEF Sharp, LA!SelectInSeq
<1> HIDE DEF I
<1>3. LA!Min(I) = n
  BY <1>1, LeastIs
<1> QED
  BY <1>1, <1>2, <1>3

LEMMA DollaAt ==
  ASSUME NEW S, NEW q \in Seq(S), NEW n \in 1 .. Len(q), q[n].k = "$", \A i \in 1 .. n - 1 : q[i].k # "$"
  PROVE  Dolla(q) = n
<1> DEFINE I == {i \in 1 .. Len(q) : q[i].k = "$"}
<1>1. n \in I /\ I \subseteq Int /\ \A i \in I : n <= i
  OBVIOUS
<1>2. Dolla(q) = IF I # {} THEN LA!Min(I) ELSE 0
  BY DEF Dolla, LA!SelectInSeq
<1> HIDE DEF I
<1>3. LA!Min(I) = n
  BY <1>1, LeastIs
<1> QED
  BY <1>1, <1>2, <1>3

LEMMA NoneThere ==
  ASSUME NEW S, NEW q \in Seq(S)
  PROVE  /\ (\A i \in 1 .. Len(q) : q[i].k # "$") => Dolla(q) = 0
         /\ (\A i \in 1 .. Len(q) : q[i].k # "#") => Sharp(q) = 0
  BY DEF Dolla, Sharp, LA!SelectInSeq

\* The loop of feedData leaves the buffer as it is.
NoPacket(b) ==
  LET dolla == Dolla(b)
      hash == dolla + Sharp(SubSeq(b, dolla + 1, Len(b)))
  IN  dolla = 0 \/ hash = dolla \/ hash + 1 > Len(b)

LEMMA PlainNoPacket ==
  ASSUME NEW S, NEW b \in Seq(S), AllPlain(b)
  PROVE  NoPacket(b)
  BY NoneThere DEF AllPlain, Plain, NoPacket

\* A packet with less than one digit of its checksum waits, with one it is found.
LEMMA PartNoPacket ==
  ASSUME NEW S, NEW q, NEW m \in Nat, NEW p, Framed(q, m, p), p.k \notin {"$", "#"},
         NEW b \in Seq(S), Len(b) <= m + 3, \A i \in 1 .. Len(b) : b[i] = q[i]
  PROVE  NoPacket(b)
<1>1. Len(b) \in Nat /\ \A i \in 1 .. Len(b) : i \in 1 .. m \/ i = m + 1 \/ i = m + 2 \/ i = m + 3
  OBVIOUS
<1>2. \A i \in 1 .. m : q[i].k # "$"
  BY DEF Framed, Plain
<1>3. CASE Len(b) <= m
  <2>1. AllPlain(b)
    BY <1>1, <1>3 DEF Framed, AllPlain
  <2> QED
    BY <2>1, PlainNoPacket
<1>4. CASE Len(b) > m
  <2>1. m + 1 \in 1 .. Len(b) /\ b[m + 1] = [k |-> "$"] /\ \A i \in 1 .. (m + 1) - 1 : b[i].k # "$"
    BY <1>1, <1>2, <1>4 DEF Framed
  <2>2. Dolla(b) = m + 1
    BY <2>1, DollaAt
  <2> DEFINE r == SubSeq(b, m + 2, Len(b))
  <2>3. r \in Seq(S) /\ Len(r) = Len(b) - (m + 1) /\ \A i \in 1 .. Len(r) : r[i] = b[m + 1 + i]
    BY <1>1, <1>4, SubSeqProperties
  <2>4. NoPacket(b) <=> m + 1 + Sharp(r) = m + 1 \/ m + 1 + Sharp(r) + 1 > Len(b)
    <3>1. (m + 1) + 1 = m + 2 /\ m + 1 # 0
      OBVIOUS
    <3> QED
      BY <2>2, <3>1 DEF NoPacket
  <2> HIDE DEF r
  <2>5. CASE Len(b) <= m + 2
    <3>1. \A i \in 1 .. Len(r) : r[i].k # "#"
      <4>1. \A i \in 1 .. Len(r) : i = 1 /\ m + 1 + i = m + 2 /\ m + 2 \in 1 .. Len(b)
        BY <1>1, <1>4, <2>3, <2>5
      <4> QED
        BY <2>3, <4>1 DEF Framed
    <3>2. Sharp(r) = 0
      BY <2>3, <3>1, NoneThere
    <3> QED
      BY <2>4, <3>2
  <2>6. CASE Len(b) = m + 3
    <3>1. Len(r) = 2 /\ r[1] = p /\ r[2] = [k |-> "#"]
      <4>1. 1 \in 1 .. Len(r) /\ 2 \in 1 .. Len(r) /\ m + 1 + 1 = m + 2 /\ m + 1 + 2 = m + 3 /\ Len(r) = 2
            /\ m + 2 \in 1 .. Len(b) /\ m + 3 \in 1 .. Len(b)
        BY <1>1, <2>3, <2>6
      <4> QED
        BY <2>3, <4>1 DEF Framed
    <3>2. Sharp(r) = 2
      BY <2>3, <3>1, SharpAt
    <3> QED
      BY <2>4, <2>6, <3>2
  <2> QED
    BY <1>1, <2>5, <2>6
<1> QED
  BY <1>1, <1>3, <1>4

PacketAt(b, m, p) ==
  /\ Dolla(b) = m + 1 /\ Sharp(SubSeq(b, m + 2, Len(b))) = 2 /\ b[m + 2] = p
  /\ Len(b) \in {m + 4, m + 5}

LEMMA PacketFound ==
  ASSUME NEW S, NEW q, NEW m \in Nat, NEW p, Framed(q, m, p), p.k \notin {"$", "#"},
         NEW b \in Seq(S), Len(b) \in {m + 4, m + 5}, \A i \in 1 .. Len(b) : b[i] = q[i]
  PROVE  PacketAt(b, m, p)
<1>1. \A i \in 1 .. m : q[i].k # "$"
  BY DEF Framed, Plain
<1>2. m + 1 \in 1 .. Len(b) /\ m + 2 \in 1 .. Len(b) /\ m + 3 \in 1 .. Len(b)
  OBVIOUS
<1>3. m + 1 \in 1 .. Len(b) /\ b[m + 1] = [k |-> "$"] /\ \A i \in 1 .. (m + 1) - 1 : b[i].k # "$"
  <2>1. \A i \in 1 .. (m + 1) - 1 : i \in 1 .. m /\ i \in 1 .. Len(b)
    OBVIOUS
  <2> QED
    BY <1>1, <1>2, <2>1 DEF Framed
<1>4. Dolla(b) = m + 1
  <2> DEFINE n == m + 1
  <2>1. n \in 1 .. Len(b) /\ b[n].k = "$" /\ \A i \in 1 .. n - 1 : b[i].k # "$"
    <3>1. b[m + 1].k = "$"
      BY <1>3
    <3> QED
      BY <1>3, <3>1, Zenon
  <2> HIDE DEF n
  <2>2. Dolla(b) = n
    BY <2>1, DollaAt
  <2> QED
    BY <2>2 DEF n
<1> DEFINE r == SubSeq(b, m + 2, Len(b))
<1>5. r \in Seq(S) /\ Len(r) = Len(b) - (m + 1) /\ \A i \in 1 .. Len(r) : r[i] = b[m + 1 + i]
  BY SubSeqProperties
<1> HIDE DEF r
<1>6. 1 \in 1 .. Len(r) /\ 2 \in 1 .. Len(r) /\ m + 1 + 1 = m + 2 /\ m + 1 + 2 = m + 3
  BY <1>5
<1>7. r[1] = p /\ r[2] = [k |-> "#"] /\ b[m + 2] = p
  <2>1. q[m + 2] = p /\ q[m + 3] = [k |-> "#"]
    BY DEF Framed
  <2>2. b[m + 2] = q[m + 2] /\ b[m + 3] = q[m + 3]
    BY <1>2
  <2>3. r[1] = b[m + 1 + 1] /\ r[2] = b[m + 1 + 2]
    BY <1>5, <1>6
  <2>4. r[1] = b[m + 2] /\ r[2] = b[m + 3]
    BY <1>6, <2>3, Zenon
  <2> QED
    BY <2>1, <2>2, <2>4, Zenon
<1>8. Sharp(r) = 2
  <2>1. \A i \in 1 .. 2 - 1 : r[i].k # "#"
    BY <1>7
  <2>2. r[2].k = "#"
    BY <1>7
  <2> QED
    BY <1>5, <1>6, <2>1, <2>2, SharpAt
<1> QED
  BY <1>4, <1>7, <1>8 DEF PacketAt, r

\* What is left of the buffer, and of what follows it, once a packet is taken.
LEMMA RestPlain ==
  ASSUME NEW S, NEW q, NEW m \in Nat, NEW p, Framed(q, m, p), NEW b \in Seq(S), NEW w \in Seq(S),
         q = b \o w, Len(b) \in {m + 4, m + 5}
  PROVE  /\ SubSeq(b, m + 5, Len(b)) \in Seq(S)
         /\ AllPlain(SubSeq(b, m + 5, Len(b)) \o w)
<1> DEFINE r == SubSeq(b, m + 5, Len(b))
<1>1. r \in Seq(S) /\ Len(r) = Len(b) - (m + 4) /\ \A i \in 1 .. Len(r) : r[i] = b[m + 4 + i]
  <2>1. m + 5 \in Int /\ Len(b) \in Int /\ \A i \in m + 5 .. Len(b) : b[i] \in S
    OBVIOUS
  <2>2. /\ r \in Seq(S) /\ Len(r) = IF m + 5 <= Len(b) THEN Len(b) - (m + 5) + 1 ELSE 0
        /\ \A i \in 1 .. Len(b) - (m + 5) + 1 : r[i] = b[m + 5 + i - 1]
    BY <2>1, SubSeqProperties
  <2> HIDE DEF r
  <2>3. Len(r) = Len(b) - (m + 4) /\ Len(b) - (m + 5) + 1 = Len(r)
    BY <2>2
  <2>4. \A i \in 1 .. Len(r) : r[i] = b[m + 5 + i - 1] /\ m + 5 + i - 1 = m + 4 + i
    BY <2>2, <2>3
  <2> QED
    BY <2>2, <2>3, <2>4
<1>2. Split(S, b, w)
  BY ConcatFacts
<1> HIDE DEF r
<1>3. Len(b) + Len(w) = m + 5 /\ Len(w) \in Nat /\ q[m + 5] = [k |-> "d2"]
  BY <1>2 DEF Split, Framed
<1>4. AllPlain(r)
  <2>1. ASSUME NEW i \in 1 .. Len(r)
        PROVE  Plain(r[i])
    <3>1. m + 4 + i = m + 5 /\ m + 5 \in 1 .. Len(b)
      BY <1>1, <2>1
    <3>2. r[i] = q[m + 5]
      BY <1>1, <1>2, <3>1 DEF Split
    <3> QED
      BY <1>3, <3>2 DEF Plain
  <2> QED
    BY <2>1 DEF AllPlain
<1>5. AllPlain(w)
  <2>1. ASSUME NEW i \in 1 .. Len(w)
        PROVE  Plain(w[i])
    <3>1. Len(b) + i = m + 5
      BY <1>3, <2>1
    <3>2. w[i] = q[m + 5]
      BY <1>2, <2>1, <3>1 DEF Split
    <3> QED
      BY <1>3, <3>2 DEF Plain
  <2> QED
    BY <2>1 DEF AllPlain
<1>6. r \in Seq(S)
  BY <1>1
<1>7. AllPlain(r \o w) <=> AllPlain(r) /\ AllPlain(w)
  BY <1>6, PlainConcat
<1> QED
  BY <1>4, <1>5, <1>6, <1>7 DEF r

-----------------------------------------------------------------------------
(* The connection: what is on its way *)

ArmPackets ==
  [k : {"H", "s"}, thread : Cores] \cup [k : {"c"}, thread : {-1, 0, 1}] \cup [k : {"m"}]
  \cup [k : {"M", "X"}, v : {0, 1}] \cup [k : {"p"}, reg : LA!ArmRegisters]
  \cup [k : {"P"}, reg : LA!ArmRegisters, v : {0, 1}]
RiscvPackets ==
  [k : {"H", "s"}, thread : Cores] \cup [k : {"c"}, thread : {-1, 0, 1}] \cup [k : {"m"}]
  \cup [k : {"M", "X"}, v : {0, 1}] \cup [k : {"p"}, reg : LA!RiscvRegisters]
  \cup [k : {"P"}, reg : LA!RiscvRegisters, v : {0, 1}] \cup [k : {"G"}, v : {0, 1}]
Packets == ArmPackets \cup RiscvPackets
Nothing == [k |-> "none"]

Tokens == [k : {"+", "-", "$", "#", "d1", "d2", "int"}]
Items == Tokens \cup Packets
Halts == [k : {"stop"}, thread : Cores] \cup [k : {"S02"}]
Replies == [k : {"reply"}] \cup [k : {"value"}, v : {0, 1}]
Heards == Tokens \cup Halts \cup Replies
Plus == [k |-> "+"]
Minus == [k |-> "-"]

\* The registers C and what the debugger takes them for, T, are those of one architecture.
Link(C, T) ==
  [wire : Seq(Items), back : Seq(Heards), buf : Seq(Items), current : Cores, running : BOOLEAN,
   core : C, mem : {0, 1}, byte : {0, 1}, at : {"idle", "unacked", "reply", "running"}, sel : {-2, 0, 1},
   want : Cores, sent : Packets \cup {Nothing}, retries : Nat, resumed : {-1, 0, 1}, truth : T, ran : Nat]

Stream(s) == s.buf \o s.wire

\* What answers the packet p: nothing while the target runs, a halt, or one reply.
Resumes(p) == p.k \in {"c", "s"}
Answered(running, p, a) ==
  IF Resumes(p) THEN \/ running /\ p.k = "c" /\ a = <<>>
                     \/ ~running /\ \E h \in Halts : a = <<h>>
                ELSE ~running /\ \E h \in Replies : a = <<h>>

\* The packet is on its way; the server has refused it; it has executed it.
OnItsWay(s) == /\ s.ran = 0 /\ s.back = <<>> /\ ~s.running
               /\ \E m \in Nat : Framed(Stream(s), m, s.sent) /\ Len(s.buf) <= m + 3
Refused(s) == s.ran = 0 /\ s.back = <<Minus>> /\ ~s.running /\ AllPlain(Stream(s))
Accepted(s) == /\ s.ran = 1 /\ AllPlain(Stream(s))
               /\ s.back # <<>> /\ Head(s.back) = Plus /\ Answered(s.running, s.sent, Tail(s.back))

\* A Ctrl-C is the last thing on the wire, to a target that runs and that is waited for.
Untimely(s) ==
  \A i \in 1 .. Len(s.wire) :
     s.wire[i].k = "int" => i = Len(s.wire) /\ s.at = "running" /\ s.running /\ s.back = <<>>

Resting(s) == ~s.running /\ AllPlain(Stream(s)) /\ (s.back = <<>> \/ s.back = <<Plus>>)
Awaiting(s) == /\ s.ran = 1 /\ AllPlain(Stream(s)) /\ Answered(s.running, s.sent, s.back)
               /\ s.at = "running" <=> Resumes(s.sent)
Phase(s) ==
  /\ s.at = "idle" => Resting(s)
  /\ s.at = "unacked" => OnItsWay(s) \/ Refused(s) \/ Accepted(s)
  /\ s.at \in {"reply", "running"} => Awaiting(s)
  /\ s.at # "idle" => s.sent \in Packets
  /\ s.ran \in {0, 1}
  /\ LA!Mangled(s.sent) => s.ran = 0
  /\ Untimely(s)

-----------------------------------------------------------------------------
(* The connection: what the debugger believes *)

\* What it takes the registers to be once it has written one, and what it learns from
\* the answer to its packet.
Written(t, reg, v, fixed) ==
  CASE reg \in {"zero", "mhartid"} \/ (reg = "control" /\ fixed) -> t
    [] reg = "sp" -> [t EXCEPT !["sp"] = v, ![IF t["control"] = 1 THEN "psp" ELSE "msp"] = v]
    [] reg \in {"msp", "psp"} -> [t EXCEPT ![reg] = v,
                                   !["sp"] = IF (reg = "psp") = (t["control"] = 1) THEN v ELSE @]
    [] reg = "control" /\ ~fixed ->
         [t EXCEPT !["control"] = v, !["sp"] = t[IF v = 1 THEN "psp" ELSE "msp"]]
    [] OTHER -> [t EXCEPT ![reg] = v]
WrittenAll(t, v, fixed) == Written(Written(Written(t, "x", v, fixed), "pc", v, fixed), "csr", v, fixed)
LearnedTruth(s) ==
  CASE s.sent.k = "P" -> [s.truth EXCEPT ![s.sel] = Written(@, s.sent.reg, s.sent.v, s.core[s.sel].handler)]
    [] s.sent.k = "G" -> [s.truth EXCEPT ![s.sel] = WrittenAll(@, s.sent.v, s.core[s.sel].handler)]
    [] OTHER -> s.truth
LearnedByte(s) == IF s.sent.k \in {"M", "X"} THEN s.sent.v ELSE s.byte

\* The packet is executed and the debugger does not know yet.
Owed(s) == s.at \in {"unacked", "reply"} /\ s.ran = 1

\* F is what the registers of a core read as.
Known(truth, byte, core, mem, F) == byte = mem /\ \A c \in Cores : truth[c] = F[core[c]]
Believed(s, F) == IF Owed(s) THEN Known(LearnedTruth(s), LearnedByte(s), s.core, s.mem, F)
                             ELSE Known(s.truth, s.byte, s.core, s.mem, F)
Selected(s) ==
  /\ s.sel # -2 => s.current = s.sel
  /\ Owed(s) /\ s.sent.k = "H" => s.current = s.sent.thread
  /\ s.at \in {"unacked", "reply"} /\ s.sent.k \in {"P", "G"} => s.sel # -2
  /\ s.at = "unacked" /\ s.sent.k \in {"H", "c"} => s.sel = -2

LinkOK(s, C, T, F) == s \in Link(C, T) /\ Phase(s) /\ Believed(s, F) /\ Selected(s)

-----------------------------------------------------------------------------
LEMMA LinkTypes ==
  ASSUME NEW C, NEW T, NEW s \in Link(C, T)
  PROVE  /\ s.wire \in Seq(Items) /\ s.back \in Seq(Heards) /\ s.buf \in Seq(Items) /\ s.current \in Cores
         /\ s.running \in BOOLEAN /\ s.core \in C /\ s.mem \in {0, 1} /\ s.byte \in {0, 1}
         /\ s.at \in {"idle", "unacked", "reply", "running"} /\ s.sel \in {-2, 0, 1} /\ s.want \in Cores
         /\ s.sent \in Packets \cup {Nothing} /\ s.retries \in Nat /\ s.resumed \in {-1, 0, 1} /\ s.truth \in T
         /\ s.ran \in Nat
  BY DEF Link

LEMMA PacketFacts ==
  ASSUME NEW p \in Packets
  PROVE  p.k \in {"H", "s", "c", "m", "M", "X", "p", "P", "G"}
  BY DEF Packets, ArmPackets, RiscvPackets

LEMMA SameItems ==
  ASSUME NEW S, NEW p \in Seq(S), NEW q \in Seq(S), Len(p) = Len(q),
         \/ Len(q) = 1 /\ p[1] = q[1]
         \/ Len(q) = 2 /\ p[1] = q[1] /\ p[2] = q[2]
  PROVE  p = q
<1>1. \A i \in 1 .. Len(p) : p[i] = q[i]
  <2>1. CASE Len(q) = 1 /\ p[1] = q[1]
    <3>1. \A i \in 1 .. Len(p) : i = 1
      BY <2>1
    <3> QED
      BY <2>1, <3>1
  <2>2. CASE Len(q) = 2 /\ p[1] = q[1] /\ p[2] = q[2]
    <3>1. \A i \in 1 .. Len(p) : i = 1 \/ i = 2
      BY <2>2
    <3> QED
      BY <2>2, <3>1
  <2> QED
    BY <2>1, <2>2
<1> QED
  BY <1>1, SeqEqual

\* One item, or two.
LEMMA Ones ==
  ASSUME NEW a, NEW b
  PROVE  /\ <<a>> # <<>> /\ Head(<<a>>) = a /\ Tail(<<a>>) = <<>> /\ Len(<<a>>) = 1
         /\ <<a, b>> # <<>> /\ Head(<<a, b>>) = a /\ Tail(<<a, b>>) = <<b>>
         /\ <<a>> \o <<b>> = <<a, b>> /\ <<>> \o <<a>> = <<a>> /\ <<a>> \o <<>> = <<a>>
<1> DEFINE S == {a, b}
<1>1. /\ <<a>> \in Seq(S) /\ <<b>> \in Seq(S) /\ <<a, b>> \in Seq(S) /\ <<>> \in Seq(S)
      /\ Len(<<a>>) = 1 /\ Len(<<b>>) = 1 /\ Len(<<a, b>>) = 2 /\ Len(<<>>) = 0
      /\ <<a>>[1] = a /\ <<b>>[1] = b /\ <<a, b>>[1] = a /\ <<a, b>>[2] = b
  OBVIOUS
<1> HIDE DEF S
<1>2. <<a>> # <<>> /\ Head(<<a>>) = a /\ <<a, b>> # <<>> /\ Head(<<a, b>>) = a
  BY <1>1
<1>3. Tail(<<a>>) = <<>>
  <2>1. Tail(<<a>>) \in Seq(S) /\ Len(Tail(<<a>>)) = 0
    BY <1>1, <1>2, HeadTailProperties
  <2> QED
    BY <2>1, EmptySeq
<1>4. Tail(<<a, b>>) = <<b>>
  <2> DEFINE q == <<a, b>>
  <2>1. q \in Seq(S) /\ q # <<>> /\ Len(q) = 2 /\ q[2] = b
    BY <1>1, <1>2
  <2> HIDE DEF q
  <2>2. Tail(q) \in Seq(S) /\ Len(Tail(q)) = 1 /\ Tail(q)[1] = b
    BY <2>1, HeadTailProperties
  <2>3. Tail(q) = <<b>>
    <3>1. <<b>> \in Seq(S) /\ Len(<<b>>) = 1 /\ <<b>>[1] = b
      BY <1>1
    <3> QED
      BY <2>2, <3>1, SameItems
  <2> QED
    BY <2>3 DEF q
<1>5. <<a>> \o <<b>> = <<a, b>>
  <2> DEFINE p == <<a>>
             q == <<b>>
  <2>1. p \in Seq(S) /\ q \in Seq(S) /\ Len(p) = 1 /\ Len(q) = 1 /\ p[1] = a /\ q[1] = b
    BY <1>1
  <2> HIDE DEF p, q
  <2>2. Split(S, p, q)
    BY <2>1, ConcatFacts
  <2>3. p \o q \in Seq(S) /\ Len(p \o q) = 2 /\ (p \o q)[1] = a /\ (p \o q)[2] = b
    BY <2>1, <2>2 DEF Split
  <2>4. p \o q = <<a, b>>
    <3>1. <<a, b>> \in Seq(S) /\ Len(<<a, b>>) = 2 /\ <<a, b>>[1] = a /\ <<a, b>>[2] = b
      BY <1>1
    <3> QED
      BY <2>3, <3>1, SameItems
  <2> QED
    BY <2>4 DEF p, q
<1>6. <<>> \o <<a>> = <<a>> /\ <<a>> \o <<>> = <<a>>
  BY <1>1, ConcatEmptySeq
<1> QED
  BY <1>1, <1>2, <1>3, <1>4, <1>5, <1>6

LEMMA OnesIn ==
  ASSUME NEW S, NEW a \in S, NEW b \in S
  PROVE  <<a>> \in Seq(S) /\ <<a, b>> \in Seq(S)
  OBVIOUS

LEMMA NotHeard ==
  /\ Plus \in Tokens /\ Minus \in Tokens /\ Plus.k = "+" /\ Minus.k = "-"
  /\ \A h \in Halts : h.k \in {"stop", "S02"} /\ h \in Heards
  /\ \A h \in Replies : h.k \in {"reply", "value"} /\ h \in Heards
  BY DEF Plus, Minus, Tokens, Halts, Replies, Heards

\* A pair with a first item and the rest.
LEMMA FromHeadTail ==
  ASSUME NEW S, NEW q \in Seq(S), q # <<>>, Tail(q) = <<>>
  PROVE  q = <<Head(q)>>
<1>1. Len(q) = 1 /\ Head(q) = q[1] /\ q[1] \in S
  <2>1. Len(Tail(q)) = Len(q) - 1 /\ Len(q) \in Nat
    BY HeadTailProperties
  <2>2. Len(Tail(q)) = 0
    BY EmptySeq
  <2>3. Len(q) = 1
    BY <2>1, <2>2
  <2> QED
    BY <2>3
<1>2. <<q[1]>> \in Seq(S) /\ Len(<<q[1]>>) = 1 /\ \A i \in 1 .. 1 : <<q[1]>>[i] = q[i]
  BY <1>1
<1>3. q = <<q[1]>>
  BY <1>1, <1>2, SeqEqual
<1> QED
  BY <1>1, <1>3

-----------------------------------------------------------------------------
(* What the debugger sends *)

LEMMA FrameFacts ==
  ASSUME NEW p \in Packets
  PROVE  /\ LA!Frame(p) \in Seq(Items) /\ Len(LA!Frame(p)) = 5
         /\ LA!Frame(p)[1] = [k |-> "$"] /\ LA!Frame(p)[2] = p /\ LA!Frame(p)[3] = [k |-> "#"]
         /\ LA!Frame(p)[4] = [k |-> "d1"] /\ LA!Frame(p)[5] = [k |-> "d2"]
<1> DEFINE a == <<LA!Token("$"), p, LA!Token("#")>>
           b == <<LA!Token("d1"), LA!Token("d2")>>
<1>1. /\ LA!Token("$") \in Items /\ LA!Token("#") \in Items /\ LA!Token("d1") \in Items /\ LA!Token("d2") \in Items
      /\ p \in Items
  BY DEF LA!Token, Items, Tokens
<1>2. /\ a \in Seq(Items) /\ Len(a) = 3 /\ a[1] = LA!Token("$") /\ a[2] = p /\ a[3] = LA!Token("#")
      /\ b \in Seq(Items) /\ Len(b) = 2 /\ b[1] = LA!Token("d1") /\ b[2] = LA!Token("d2")
  BY <1>1
<1>3. LA!Frame(p) = a \o b
  BY DEF LA!Frame, LA!Digits
<1> HIDE DEF a, b
<1>4. Split(Items, a, b)
  BY <1>2, ConcatFacts
<1>5. 1 \in 1 .. 3 /\ 2 \in 1 .. 3 /\ 3 \in 1 .. 3 /\ 1 \in 1 .. 2 /\ 2 \in 1 .. 2 /\ 3 + 1 = 4 /\ 3 + 2 = 5
  OBVIOUS
<1>6. /\ a \o b \in Seq(Items) /\ Len(a \o b) = 5 /\ (a \o b)[1] = a[1] /\ (a \o b)[2] = a[2] /\ (a \o b)[3] = a[3]
      /\ (a \o b)[4] = b[1] /\ (a \o b)[5] = b[2]
  BY <1>2, <1>4, <1>5 DEF Split
<1> QED
  BY <1>2, <1>3, <1>6 DEF LA!Token

LEMMA FrameSent ==
  ASSUME NEW p \in Packets, NEW buf \in Seq(Items), NEW wire \in Seq(Items), AllPlain(buf \o wire)
  PROVE  /\ wire \o LA!Frame(p) \in Seq(Items)
         /\ Framed(buf \o (wire \o LA!Frame(p)), Len(buf \o wire), p)
         /\ Len(buf) <= Len(buf \o wire) + 3 /\ Len(buf \o wire) \in Nat
<1> DEFINE f == LA!Frame(p)
           q == buf \o wire
<1>1. /\ f \in Seq(Items) /\ Len(f) = 5 /\ f[1] = [k |-> "$"] /\ f[2] = p /\ f[3] = [k |-> "#"]
      /\ f[4] = [k |-> "d1"] /\ f[5] = [k |-> "d2"]
  BY FrameFacts
<1> HIDE DEF f
<1>2. Split(Items, buf, wire)
  BY ConcatFacts, Zenon
<1>3. Split(Items, wire, f)
  BY <1>1, ConcatFacts, Zenon
<1>4. Joined(Items, buf, wire, f)
  BY <1>1, Recut, Zenon
<1>5. q \in Seq(Items) /\ Len(q) = Len(buf) + Len(wire) /\ Len(buf) \in Nat /\ Len(wire) \in Nat
      /\ q \o f = buf \o (wire \o f) /\ wire \o f \in Seq(Items)
  BY <1>2, <1>3, <1>4 DEF Split, Joined
<1> HIDE DEF q
<1>6. Split(Items, q, f)
  BY <1>1, <1>5, ConcatFacts, Zenon
<1>7. Framed(q \o f, Len(q), p)
  <2>1. 1 \in 1 .. 5 /\ 2 \in 1 .. 5 /\ 3 \in 1 .. 5 /\ 4 \in 1 .. 5 /\ 5 \in 1 .. 5
    OBVIOUS
  <2>2. /\ Len(q \o f) = Len(q) + 5 /\ \A i \in 1 .. Len(q) : (q \o f)[i] = q[i]
    BY <1>1, <1>6 DEF Split
  <2>3. \A i \in 1 .. 5 : (q \o f)[Len(q) + i] = f[i]
    BY <1>1, <1>6 DEF Split
  <2>4. \A i \in 1 .. Len(q) : Plain(q[i])
    BY DEF AllPlain, q
  <2> QED
    BY <1>1, <2>1, <2>2, <2>3, <2>4 DEF Framed
<1> QED
  BY <1>5, <1>7 DEF q, f

LEMMA NoInterruptFramed ==
  ASSUME NEW p \in Packets, NEW w \in Seq(Items), \A i \in 1 .. Len(w) : w[i].k # "int"
  PROVE  \A i \in 1 .. Len(w \o LA!Frame(p)) : (w \o LA!Frame(p))[i].k # "int"
<1> DEFINE f == LA!Frame(p)
           x == w \o f
<1>1. /\ f \in Seq(Items) /\ Len(f) = 5 /\ f[1] = [k |-> "$"] /\ f[2] = p /\ f[3] = [k |-> "#"]
      /\ f[4] = [k |-> "d1"] /\ f[5] = [k |-> "d2"] /\ p.k # "int"
  BY FrameFacts, PacketFacts
<1> HIDE DEF f
<1>2. Split(Items, w, f)
  BY <1>1, ConcatFacts, Zenon
<1>3. ASSUME NEW i \in 1 .. Len(x)
      PROVE  x[i].k # "int"
  <2>1. CASE i <= Len(w)
    BY <1>2, <2>1 DEF Split
  <2>2. CASE i > Len(w)
    <3>1. PICK j \in 1 .. 5 : i = Len(w) + j
      <4>1. Len(x) = Len(w) + 5 /\ Len(w) \in Nat
        BY <1>1, <1>2 DEF Split
      <4>2. i - Len(w) \in 1 .. 5 /\ i = Len(w) + (i - Len(w))
        <5> HIDE DEF x
        <5> QED
          BY <1>3, <2>2, <4>1
      <4> QED
        BY <4>2
    <3>2. x[i] = f[j]
      BY <1>1, <1>2, <3>1 DEF Split
    <3>3. j = 1 \/ j = 2 \/ j = 3 \/ j = 4 \/ j = 5
      BY <3>1
    <3> QED
      BY <1>1, <3>2, <3>3
  <2> QED
    BY <1>2, <2>1, <2>2 DEF Split
<1> QED
  BY <1>3 DEF x, f

\* The phases and the beliefs are told by some of the fields.
LEMMA PhaseSame ==
  ASSUME NEW s, NEW t, Phase(s), t.wire = s.wire, t.buf = s.buf, t.back = s.back, t.at = s.at, t.running = s.running,
         t.sent = s.sent, t.ran = s.ran
  PROVE  Phase(t)
  BY Zenon DEF Phase, Resting, Awaiting, OnItsWay, Refused, Accepted, Untimely, Stream

Kept(s, t) == t.core = s.core /\ t.mem = s.mem /\ t.truth = s.truth /\ t.byte = s.byte /\ t.current = s.current

\* Nothing is owed before or after, or the same.
LEMMA BeliefKept ==
  ASSUME NEW F, NEW s, NEW t, Kept(s, t), Believed(s, F),
         \/ ~Owed(s) /\ ~Owed(t)
         \/ Owed(s) /\ Owed(t) /\ t.sent = s.sent /\ t.sel = s.sel
         \/ Owed(s) /\ ~Owed(t) /\ Resumes(s.sent)
  PROVE  Believed(t, F)
<1>1. CASE ~Owed(s) /\ ~Owed(t)
  BY <1>1, Zenon DEF Believed, Kept
<1>2. CASE Owed(s) /\ Owed(t) /\ t.sent = s.sent /\ t.sel = s.sel
  <2>1. LearnedTruth(t) = LearnedTruth(s) /\ LearnedByte(t) = LearnedByte(s)
    BY <1>2, Zenon DEF LearnedTruth, LearnedByte, Kept
  <2> QED
    BY <1>2, <2>1, Zenon DEF Believed, Kept
<1>3. CASE Owed(s) /\ ~Owed(t) /\ Resumes(s.sent)
  <2>1. LearnedTruth(s) = s.truth /\ LearnedByte(s) = s.byte
    BY <1>3 DEF LearnedTruth, LearnedByte, Resumes
  <2> QED
    BY <1>3, <2>1, Zenon DEF Believed, Kept
<1> QED
  BY <1>1, <1>2, <1>3

\* A packet is sent while nothing else is on its way.
Sends(s, p, sel, resumed) ==
  [s EXCEPT !.wire = @ \o LA!Frame(p), !.sent = p, !.retries = 0, !.ran = 0, !.at = "unacked",
            !.sel = sel, !.resumed = resumed]

LEMMA SendKeeps ==
  ASSUME NEW C, NEW T, NEW F, NEW s, LinkOK(s, C, T, F), s.at = "idle", s.back = <<>>, NEW p \in Packets,
         NEW sel \in {s.sel, -2}, NEW resumed \in {-1, 0, 1}, p.k \in {"P", "G"} => sel # -2,
         p.k \in {"H", "c"} => sel = -2
  PROVE  LinkOK(Sends(s, p, sel, resumed), C, T, F)
<1> DEFINE t == Sends(s, p, sel, resumed)
<1>1. s \in Link(C, T) /\ Phase(s) /\ Believed(s, F) /\ Selected(s)
  BY DEF LinkOK
<1>2. s.wire \in Seq(Items) /\ s.buf \in Seq(Items) /\ s.sel \in {-2, 0, 1}
  BY <1>1, LinkTypes
<1>3. ~s.running /\ AllPlain(s.buf \o s.wire)
  BY <1>1 DEF Phase, Resting, Stream
<1>4. /\ s.wire \o LA!Frame(p) \in Seq(Items)
      /\ Framed(s.buf \o (s.wire \o LA!Frame(p)), Len(s.buf \o s.wire), p)
      /\ Len(s.buf) <= Len(s.buf \o s.wire) + 3 /\ Len(s.buf \o s.wire) \in Nat
  BY <1>2, <1>3, FrameSent
<1>5. /\ t.wire = s.wire \o LA!Frame(p) /\ t.buf = s.buf /\ t.back = s.back /\ t.running = s.running
      /\ t.sent = p /\ t.ran = 0 /\ t.at = "unacked" /\ t.sel = sel /\ Kept(s, t)
  BY <1>1 DEF Sends, Link, Kept
<1>6. t \in Link(C, T)
  <2> DEFINE w == s.wire \o LA!Frame(p)
  <2>1. w \in Seq(Items) /\ sel \in {-2, 0, 1}
    BY <1>2, <1>4
  <2>2. t = [s EXCEPT !.wire = w, !.sent = p, !.retries = 0, !.ran = 0, !.at = "unacked", !.sel = sel, !.resumed = resumed]
    BY <1>1 DEF Sends, Link
  <2> HIDE DEF w, t
  <2> QED
    BY <1>1, <2>1, <2>2 DEF Link
<1> HIDE DEF t
<1>7. OnItsWay(t)
  <2>1. Framed(Stream(t), Len(s.buf \o s.wire), t.sent) /\ Len(t.buf) <= Len(s.buf \o s.wire) + 3
    BY <1>4, <1>5 DEF Stream
  <2> QED
    BY <1>3, <1>4, <1>5, <2>1 DEF OnItsWay
<1>8. Untimely(t)
  <2> DEFINE x == s.wire \o LA!Frame(p)
  <2>1. \A i \in 1 .. Len(s.wire) : s.wire[i].k # "int"
    BY <1>1, <1>3 DEF Phase, Untimely
  <2>2. \A i \in 1 .. Len(x) : x[i].k # "int"
    BY <1>2, <2>1, NoInterruptFramed
  <2> HIDE DEF x
  <2>3. t.wire = x
    BY <1>5 DEF x
  <2> QED
    BY <2>2, <2>3 DEF Untimely
<1>9. Phase(t)
  BY <1>5, <1>7, <1>8 DEF Phase
<1>10. Believed(t, F)
  <2>1. ~Owed(s) /\ ~Owed(t)
    BY <1>5 DEF Owed
  <2> QED
    BY <1>1, <1>5, <2>1, BeliefKept
<1>11. Selected(t)
  BY <1>1, <1>5 DEF Selected, Owed, Kept
<1>12. LinkOK(t, C, T, F)
  BY <1>6, <1>9, <1>10, <1>11 DEF LinkOK
<1> QED
  BY <1>12 DEF t

LEMMA SwitchKeeps ==
  ASSUME NEW C, NEW T, NEW F, LinkOK(link, C, T, F), LA!SwitchThread
  PROVE  LinkOK(link', C, T, F)
<1>1. link \in Link(C, T) /\ Phase(link) /\ Believed(link, F) /\ Selected(link)
  BY DEF LinkOK
<1>2. PICK c \in Cores : link' = [link EXCEPT !.want = c]
  BY DEF LA!SwitchThread, LA!Core, Cores
<1>3. link' \in Link(C, T)
  BY <1>1, <1>2 DEF Link
<1>4. /\ link'.wire = link.wire /\ link'.buf = link.buf /\ link'.back = link.back /\ link'.at = link.at
      /\ link'.running = link.running /\ link'.sent = link.sent /\ link'.ran = link.ran /\ link'.sel = link.sel
      /\ Kept(link, link')
  BY <1>1, <1>2 DEF Link, Kept
<1>5. Phase(link')
  BY <1>1, <1>4, PhaseSame
<1>6. Believed(link', F)
  <2>1. Owed(link') <=> Owed(link)
    BY <1>4 DEF Owed
  <2>2. \/ ~Owed(link) /\ ~Owed(link')
        \/ Owed(link) /\ Owed(link')
    BY <2>1
  <2> QED
    BY <1>1, <1>4, <2>2, BeliefKept
<1>7. Selected(link')
  BY <1>1, <1>4 DEF Selected, Owed, Kept
<1> QED
  BY <1>3, <1>5, <1>6, <1>7 DEF LinkOK

LEMMA InterruptFacts ==
  /\ [k |-> "int"] \in Items /\ Plain([k |-> "int"]) /\ [k |-> "+"] \in Items /\ Plain([k |-> "+"])
  BY DEF Items, Tokens, Plain

\* Something plain is put on the wire.
LEMMA PlainSent ==
  ASSUME NEW buf \in Seq(Items), NEW wire \in Seq(Items), AllPlain(buf \o wire), NEW x \in Items, Plain(x)
  PROVE  /\ Append(wire, x) \in Seq(Items) /\ Len(Append(wire, x)) = Len(wire) + 1
         /\ \A i \in 1 .. Len(wire) : Append(wire, x)[i] = wire[i]
         /\ Append(wire, x)[Len(wire) + 1] = x
         /\ AllPlain(buf \o Append(wire, x))
<1> DEFINE w == Append(wire, x)
<1>1. /\ w \in Seq(Items) /\ Len(w) = Len(wire) + 1 /\ Len(wire) \in Nat
      /\ \A i \in 1 .. Len(wire) : w[i] = wire[i]
      /\ w[Len(wire) + 1] = x
  BY AppendProperties
<1> HIDE DEF w
<1>2. AllPlain(buf) /\ AllPlain(wire)
  BY PlainConcat
<1>3. AllPlain(w)
  <2>1. ASSUME NEW i \in 1 .. Len(w)
        PROVE  Plain(w[i])
    <3>1. i \in 1 .. Len(wire) \/ i = Len(wire) + 1
      BY <1>1
    <3> QED
      BY <1>1, <1>2, <3>1 DEF AllPlain
  <2> QED
    BY <2>1 DEF AllPlain
<1>4. AllPlain(buf \o w)
  BY <1>1, <1>2, <1>3, PlainConcat
<1> QED
  BY <1>1, <1>4 DEF w

LEMMA CtrlCKeeps ==
  ASSUME NEW C, NEW T, NEW F, LinkOK(link, C, T, F), LA!CtrlC
  PROVE  LinkOK(link', C, T, F)
<1>1. link \in Link(C, T) /\ Phase(link) /\ Believed(link, F) /\ Selected(link)
  BY DEF LinkOK
<1> DEFINE int == [k |-> "int"]
           w == Append(link.wire, int)
<1>2. /\ link.at = "running" /\ link.back = <<>> /\ link.running /\ int \notin LA!Range(link.wire)
      /\ link' = [link EXCEPT !.wire = w]
  BY DEF LA!CtrlC, LA!Token
<1>3. link.wire \in Seq(Items) /\ link.buf \in Seq(Items)
  BY <1>1, LinkTypes
<1>4. Awaiting(link)
  BY <1>1, <1>2 DEF Phase
<1>5. /\ w \in Seq(Items) /\ Len(w) = Len(link.wire) + 1 /\ \A i \in 1 .. Len(link.wire) : w[i] = link.wire[i]
  BY <1>3, <1>4, InterruptFacts, PlainSent DEF Awaiting, Stream
<1>6. AllPlain(link.buf \o w)
  BY <1>3, <1>4, InterruptFacts, PlainSent DEF Awaiting, Stream
<1> HIDE DEF w
<1>7. /\ link'.wire = w /\ link'.buf = link.buf /\ link'.back = link.back /\ link'.at = link.at
      /\ link'.running = link.running /\ link'.sent = link.sent /\ link'.ran = link.ran /\ link'.sel = link.sel
      /\ Kept(link, link')
  BY <1>1, <1>2 DEF Link, Kept
<1>8. link' \in Link(C, T)
  BY <1>1, <1>2, <1>5 DEF Link
<1>9. Untimely(link')
  <2>1. ASSUME NEW i \in 1 .. Len(w), w[i].k = "int"
        PROVE  i = Len(w)
    <3>1. SUFFICES ASSUME i # Len(w)
                   PROVE  FALSE
      OBVIOUS
    <3>2. i \in 1 .. Len(link.wire) /\ link.wire[i].k = "int"
      BY <1>3, <1>5, <2>1, <3>1
    <3>3. link.wire[i] = int
      <4>1. link.wire[i] \in Items
        BY <1>3, <3>2
      <4> QED
        BY <3>2, <4>1, PacketFacts DEF Items, Tokens
    <3>4. link.wire[i] \in LA!Range(link.wire)
      BY <1>3, <3>2 DEF LA!Range
    <3> QED
      BY <1>2, <3>3, <3>4
  <2> QED
    BY <1>2, <1>7, <2>1 DEF Untimely
<1>10. Awaiting(link')
  BY <1>4, <1>6, <1>7 DEF Awaiting, Stream
<1>11. Phase(link')
  BY <1>1, <1>2, <1>7, <1>9, <1>10 DEF Phase
<1>12. Believed(link', F)
  <2>1. ~Owed(link') /\ ~Owed(link)
    BY <1>2, <1>7 DEF Owed
  <2> QED
    BY <1>1, <1>7, <2>1, BeliefKept
<1>13. Selected(link')
  BY <1>1, <1>7 DEF Selected, Owed, Kept
<1> QED
  BY <1>8, <1>11, <1>12, <1>13 DEF LinkOK

\* A target that runs was told to, and its debugger has heard of no halt.
LEMMA RunningFacts ==
  ASSUME NEW C, NEW T, NEW F, NEW s, LinkOK(s, C, T, F), s.running
  PROVE  /\ s.ran = 1 /\ AllPlain(Stream(s)) /\ s.sent \in Packets /\ s.sent.k = "c"
         /\ \/ s.at = "unacked" /\ s.back = <<Plus>>
            \/ s.at = "running" /\ s.back = <<>>
<1>1. s \in Link(C, T) /\ Phase(s) /\ s.back \in Seq(Heards)
      /\ s.at \in {"idle", "unacked", "reply", "running"}
  BY LinkTypes DEF LinkOK
<1>2. s.at # "idle"
  BY <1>1 DEF Phase, Resting
<1>3. CASE s.at = "unacked"
  <2>1. Accepted(s)
    BY <1>1, <1>3 DEF Phase, OnItsWay, Refused
  <2>2. Tail(s.back) = <<>> /\ Head(s.back) = Plus /\ s.back # <<>> /\ s.sent.k = "c"
    BY <2>1 DEF Accepted, Answered
  <2>3. s.back = <<Plus>>
    BY <1>1, <2>2, FromHeadTail
  <2> QED
    BY <1>1, <1>2, <1>3, <2>1, <2>2, <2>3 DEF Accepted, Phase
<1>4. CASE s.at \in {"reply", "running"}
  <2>1. Awaiting(s)
    BY <1>1, <1>4 DEF Phase
  <2>2. s.back = <<>> /\ s.sent.k = "c" /\ s.at = "running"
    BY <1>4, <2>1 DEF Awaiting, Answered, Resumes
  <2> QED
    BY <1>1, <1>2, <2>1, <2>2 DEF Awaiting, Phase
<1> QED
  BY <1>1, <1>2, <1>3, <1>4

LEMMA BreakpointKeeps ==
  ASSUME NEW C, NEW T, NEW F, LinkOK(link, C, T, F), NEW c \in Cores, LA!onBreakpoint(c)
  PROVE  LinkOK(link', C, T, F)
<1>1. link \in Link(C, T) /\ Phase(link) /\ Believed(link, F) /\ Selected(link)
  BY DEF LinkOK
<1> DEFINE h == [k |-> "stop", thread |-> c]
           b == link.back \o <<h>>
<1>2. link.running /\ [k |-> "int"] \notin LA!Range(link.wire)
      /\ link' = [link EXCEPT !.running = FALSE, !.back = b]
  BY <1>1 DEF LA!onBreakpoint, LA!Respond, LA!Stop, LA!Token, Link
<1>3. /\ link.ran = 1 /\ AllPlain(Stream(link)) /\ link.sent \in Packets /\ link.sent.k = "c"
      /\ \/ link.at = "unacked" /\ link.back = <<Plus>>
         \/ link.at = "running" /\ link.back = <<>>
  BY <1>2, RunningFacts
<1>4. h \in Halts /\ h \in Heards /\ link.wire \in Seq(Items)
  BY <1>1, LinkTypes DEF Halts, Heards
<1> HIDE DEF h
<1>5. \/ link.at = "unacked" /\ b = <<Plus, h>>
      \/ link.at = "running" /\ b = <<h>>
  BY <1>3, Ones, ZenonT(40)
<1>6. b \in Seq(Heards)
  <2>1. Plus \in Heards
    BY NotHeard DEF Heards
  <2> QED
    BY <1>4, <1>5, <2>1, OnesIn, Zenon
<1> HIDE DEF b
<1>7. /\ link'.wire = link.wire /\ link'.buf = link.buf /\ link'.back = b /\ link'.at = link.at
      /\ link'.running = FALSE /\ link'.sent = link.sent /\ link'.ran = link.ran /\ link'.sel = link.sel
      /\ Kept(link, link')
  BY <1>1, <1>2 DEF Link, Kept
<1>8. link' \in Link(C, T)
  BY <1>1, <1>2, <1>6 DEF Link
<1>9. Untimely(link')
  <2>1. ASSUME NEW i \in 1 .. Len(link.wire)
        PROVE  link.wire[i].k # "int"
    <3>1. SUFFICES ASSUME link.wire[i].k = "int"
                   PROVE  FALSE
      OBVIOUS
    <3>2. link.wire[i] \in Items /\ link.wire[i] \in LA!Range(link.wire)
      BY <1>4 DEF LA!Range
    <3>3. link.wire[i] = [k |-> "int"]
      BY <3>1, <3>2, PacketFacts DEF Items, Tokens
    <3> QED
      BY <1>2, <3>2, <3>3
  <2> QED
    BY <1>7, <2>1 DEF Untimely
<1>10. Answered(FALSE, link.sent, <<h>>)
  BY <1>3, <1>4 DEF Answered, Resumes
<1>11. ASSUME link.at = "unacked"
       PROVE  Phase(link')
  <2>1. Accepted(link')
    <3>1. b # <<>> /\ Head(b) = Plus /\ Tail(b) = <<h>>
      <4>1. b = <<Plus, h>>
        BY <1>5, <1>11
      <4> QED
        BY <4>1, Ones, Zenon
    <3> QED
      BY <1>3, <1>7, <1>10, <3>1 DEF Accepted, Stream
  <2> QED
    BY <1>1, <1>3, <1>7, <1>9, <1>11, <2>1 DEF Phase
<1>12. ASSUME link.at = "running"
       PROVE  Phase(link')
  <2>1. Awaiting(link')
    BY <1>3, <1>5, <1>7, <1>10, <1>12 DEF Awaiting, Stream, Resumes
  <2> QED
    BY <1>1, <1>3, <1>7, <1>9, <1>12, <2>1 DEF Phase
<1>13. Phase(link')
  BY <1>3, <1>11, <1>12
<1>14. Believed(link', F)
  <2>1. Owed(link') <=> Owed(link)
    BY <1>7 DEF Owed
  <2>2. \/ ~Owed(link) /\ ~Owed(link')
        \/ Owed(link) /\ Owed(link')
    BY <2>1
  <2> QED
    BY <1>1, <1>7, <2>2, BeliefKept
<1>15. Selected(link')
  BY <1>1, <1>7 DEF Selected, Owed, Kept
<1> QED
  BY <1>8, <1>13, <1>14, <1>15 DEF LinkOK

-----------------------------------------------------------------------------
(* What the debugger hears *)

\* The character or reply that is next, in every phase.
LEMMA NextHeard ==
  ASSUME NEW C, NEW T, NEW F, NEW s, LinkOK(s, C, T, F), s.back # <<>>
  PROVE  \/ Head(s.back) = Plus /\ s.at = "idle" /\ Tail(s.back) = <<>>
         \/ Head(s.back) = Plus /\ s.at = "unacked" /\ Accepted(s)
         \/ Head(s.back) = Minus /\ s.at = "unacked" /\ Refused(s) /\ Tail(s.back) = <<>>
         \/ /\ Head(s.back) \in Halts /\ s.at = "running" /\ Awaiting(s) /\ Tail(s.back) = <<>>
            /\ ~s.running /\ Resumes(s.sent)
         \/ /\ Head(s.back) \in Replies /\ s.at = "reply" /\ Awaiting(s) /\ Tail(s.back) = <<>>
            /\ ~s.running /\ ~Resumes(s.sent)
<1>1. s \in Link(C, T) /\ Phase(s) /\ s.at \in {"idle", "unacked", "reply", "running"}
  BY LinkTypes DEF LinkOK
<1>2. CASE s.at = "idle"
  <2>1. s.back = <<Plus>>
    BY <1>1, <1>2 DEF Phase, Resting
  <2>2. Head(s.back) = Plus /\ Tail(s.back) = <<>>
    BY <2>1, Ones, Zenon
  <2> QED
    BY <1>2, <2>2
<1>3. CASE s.at = "unacked"
  <2>1. CASE OnItsWay(s)
    BY <2>1 DEF OnItsWay
  <2>2. CASE Refused(s)
    <3>1. Head(s.back) = Minus /\ Tail(s.back) = <<>>
      BY <2>2, Ones, Zenon DEF Refused
    <3> QED
      BY <1>3, <2>2, <3>1
  <2>3. CASE Accepted(s)
    BY <1>3, <2>3 DEF Accepted
  <2> QED
    BY <1>1, <1>3, <2>1, <2>2, <2>3 DEF Phase
<1>4. CASE s.at \in {"reply", "running"}
  <2>1. Awaiting(s) /\ Answered(s.running, s.sent, s.back)
    BY <1>1, <1>4 DEF Phase, Awaiting
  <2>2. CASE Resumes(s.sent)
    <3>1. PICK h \in Halts : s.back = <<h>>
      BY <2>1, <2>2 DEF Answered
    <3>2. Head(s.back) = h /\ Tail(s.back) = <<>>
      BY <3>1, Ones, Zenon
    <3>3. s.at = "running" /\ ~s.running
      BY <2>1, <2>2 DEF Awaiting, Answered
    <3> QED
      BY <2>1, <2>2, <3>1, <3>2, <3>3
  <2>3. CASE ~Resumes(s.sent)
    <3>1. PICK h \in Replies : s.back = <<h>>
      BY <2>1, <2>3 DEF Answered
    <3>2. Head(s.back) = h /\ Tail(s.back) = <<>>
      BY <3>1, Ones, Zenon
    <3>3. s.at = "reply" /\ ~s.running
      BY <1>4, <2>1, <2>3 DEF Awaiting, Answered
    <3> QED
      BY <2>1, <2>3, <3>1, <3>2, <3>3
  <2> QED
    BY <2>2, <2>3
<1> QED
  BY <1>1, <1>2, <1>3, <1>4

\* An acknowledgement, of the packet or of nothing.
LEMMA HearPlusKeeps ==
  ASSUME NEW C, NEW T, NEW F, LinkOK(link, C, T, F), LA!Hear, Head(link.back) = Plus
  PROVE  LinkOK(link', C, T, F)
<1>1. link \in Link(C, T) /\ Phase(link) /\ Believed(link, F) /\ Selected(link)
  BY DEF LinkOK
<1>2. link.back # <<>>
  BY DEF LA!Hear
<1> DEFINE at == IF link.at # "unacked" THEN link.at
                 ELSE IF Resumes(link.sent) THEN "running" ELSE "reply"
           b == Tail(link.back)
<1>3. link' = [link EXCEPT !.back = b, !.at = at]
  <2>1. Plus.k = "+"
    BY NotHeard
  <2>2. link' = IF link.at # "unacked" THEN [link EXCEPT !.back = b]
                ELSE [[link EXCEPT !.back = b] EXCEPT !.at = IF Resumes(link.sent) THEN "running" ELSE "reply"]
    BY <1>1, <2>1 DEF LA!Hear, Link, Resumes
  <2> QED
    BY <1>1, <2>2 DEF Link
<1>4. b \in Seq(Heards)
  BY <1>1, <1>2, LinkTypes, HeadTailProperties
<1>5. at \in {"idle", "unacked", "reply", "running"}
  BY <1>1, LinkTypes
<1>6. \/ link.at = "idle" /\ b = <<>> /\ at = "idle"
      \/ link.at = "unacked" /\ Accepted(link) /\ at = IF Resumes(link.sent) THEN "running" ELSE "reply"
  <2>1. Plus \notin Halts /\ Plus \notin Replies /\ Plus # Minus
    BY NotHeard
  <2> QED
    BY <1>2, <2>1, NextHeard
<1> HIDE DEF at, b
<1>7. /\ link'.wire = link.wire /\ link'.buf = link.buf /\ link'.back = b /\ link'.at = at
      /\ link'.running = link.running /\ link'.sent = link.sent /\ link'.ran = link.ran /\ link'.sel = link.sel
      /\ Kept(link, link')
  BY <1>1, <1>3 DEF Link, Kept
<1>8. link' \in Link(C, T)
  BY <1>1, <1>3, <1>4, <1>5 DEF Link
<1>9. Untimely(link')
  <2>1. link.at # "running"
    BY <1>6
  <2> QED
    BY <1>1, <1>7, <2>1 DEF Phase, Untimely
<1>10. CASE link.at = "idle"
  <2>1. at = "idle" /\ b = <<>>
    BY <1>6, <1>10
  <2>2. Resting(link) /\ link.ran \in {0, 1} /\ (LA!Mangled(link.sent) => link.ran = 0)
    BY <1>1, <1>10 DEF Phase
  <2>3. Resting(link')
    BY <1>7, <2>1, <2>2 DEF Resting, Stream
  <2>4. Phase(link')
    BY <1>7, <1>9, <2>1, <2>2, <2>3 DEF Phase
  <2>5. ~Owed(link) /\ ~Owed(link')
    BY <1>7, <1>10, <2>1 DEF Owed
  <2>6. Believed(link', F)
    BY <1>1, <1>7, <2>5, BeliefKept
  <2>7. Selected(link')
    BY <1>1, <1>7, <1>10, <2>1 DEF Selected, Owed, Kept
  <2> QED
    BY <1>8, <2>4, <2>6, <2>7 DEF LinkOK
<1>11. CASE link.at = "unacked"
  <2>1. Accepted(link) /\ at = IF Resumes(link.sent) THEN "running" ELSE "reply"
    BY <1>6, <1>11
  <2>2. link.ran = 1 /\ link.sent \in Packets /\ (LA!Mangled(link.sent) => link.ran = 0)
    BY <1>1, <1>11, <2>1 DEF Phase, Accepted
  <2>3. Awaiting(link')
    <3>1. Answered(link.running, link.sent, b) /\ AllPlain(Stream(link))
      BY <2>1 DEF Accepted, b
    <3>2. link'.at = "running" <=> Resumes(link'.sent)
      BY <1>7, <2>1
    <3> QED
      BY <1>7, <2>2, <3>1, <3>2 DEF Awaiting, Stream
  <2>4. at \in {"reply", "running"}
    BY <2>1
  <2>5. Phase(link')
    BY <1>7, <1>9, <2>2, <2>3, <2>4 DEF Phase
  <2>6. Owed(link) /\ (Owed(link') \/ (~Owed(link') /\ Resumes(link.sent)))
    BY <1>7, <1>11, <2>1, <2>2 DEF Owed
  <2>7. Believed(link', F)
    BY <1>1, <1>7, <2>6, BeliefKept
  <2>8. Selected(link')
    BY <1>1, <1>7, <1>11, <2>4, <2>6 DEF Selected, Owed, Kept
  <2> QED
    BY <1>8, <2>5, <2>7, <2>8 DEF LinkOK
<1> QED
  BY <1>6, <1>10, <1>11

\* A refusal: the packet is sent again, or given up.
LEMMA HearMinusKeeps ==
  ASSUME NEW C, NEW T, NEW F, LinkOK(link, C, T, F), LA!Hear, Head(link.back) = Minus
  PROVE  LinkOK(link', C, T, F)
<1>1. link \in Link(C, T) /\ Phase(link) /\ Believed(link, F) /\ Selected(link)
  BY DEF LinkOK
<1>2. link.back # <<>>
  BY DEF LA!Hear
<1>3. link.at = "unacked" /\ Refused(link) /\ Tail(link.back) = <<>>
  <2>1. Minus \notin Halts /\ Minus \notin Replies /\ Plus # Minus
    BY NotHeard
  <2> QED
    BY <1>2, <2>1, NextHeard
<1>4. link.sent \in Packets /\ ~link.running /\ link.ran = 0 /\ AllPlain(Stream(link))
  BY <1>1, <1>3 DEF Phase, Refused
<1>5. link' = IF link.retries = MaxRetries THEN [link EXCEPT !.back = <<>>, !.at = "idle", !.sent = Nothing]
              ELSE [link EXCEPT !.back = <<>>, !.wire = @ \o LA!Frame(link.sent), !.retries = @ + 1]
  <2>1. Minus.k = "-"
    BY NotHeard
  <2> QED
    BY <1>1, <1>3, <2>1 DEF LA!Hear, Link, LA!None, Nothing
<1>6. CASE link.retries = MaxRetries
  <2>1. link' = [link EXCEPT !.back = <<>>, !.at = "idle", !.sent = Nothing]
    BY <1>5, <1>6
  <2>2. link' \in Link(C, T)
    <3>1. <<>> \in Seq(Heards) /\ Nothing \in Packets \cup {Nothing}
      OBVIOUS
    <3> QED
      BY <1>1, <2>1, <3>1 DEF Link
  <2>3. /\ link'.wire = link.wire /\ link'.buf = link.buf /\ link'.back = <<>> /\ link'.at = "idle"
        /\ link'.running = link.running /\ link'.sent = Nothing /\ link'.ran = 0 /\ link'.sel = link.sel
        /\ Kept(link, link')
    BY <1>1, <1>4, <2>1 DEF Link, Kept
  <2>4. Resting(link')
    BY <1>4, <2>3 DEF Resting, Stream
  <2>5. Untimely(link')
    BY <1>1, <1>3, <2>3 DEF Phase, Untimely
  <2>6. Phase(link')
    BY <2>3, <2>4, <2>5 DEF Phase
  <2>7. ~Owed(link) /\ ~Owed(link')
    BY <1>4, <2>3 DEF Owed
  <2>8. Believed(link', F)
    BY <1>1, <2>3, <2>7, BeliefKept
  <2>9. Selected(link')
    BY <1>1, <2>3 DEF Selected, Owed, Kept
  <2> QED
    BY <2>2, <2>6, <2>8, <2>9 DEF LinkOK
<1>7. CASE link.retries # MaxRetries
  <2> DEFINE w == link.wire \o LA!Frame(link.sent)
  <2>1. link' = [link EXCEPT !.back = <<>>, !.wire = w, !.retries = @ + 1]
    BY <1>1, <1>5, <1>7 DEF Link
  <2>2. link.wire \in Seq(Items) /\ link.buf \in Seq(Items) /\ link.retries \in Nat
    BY <1>1, LinkTypes
  <2>3. /\ w \in Seq(Items)
        /\ Framed(link.buf \o w, Len(link.buf \o link.wire), link.sent)
        /\ Len(link.buf) <= Len(link.buf \o link.wire) + 3 /\ Len(link.buf \o link.wire) \in Nat
    BY <1>4, <2>2, FrameSent DEF Stream
  <2>4. \A i \in 1 .. Len(w) : w[i].k # "int"
    BY <1>1, <1>3, <1>4, <2>2, NoInterruptFramed DEF Phase, Untimely
  <2> HIDE DEF w
  <2>5. /\ link'.wire = w /\ link'.buf = link.buf /\ link'.back = <<>> /\ link'.at = link.at
        /\ link'.running = link.running /\ link'.sent = link.sent /\ link'.ran = link.ran /\ link'.sel = link.sel
        /\ Kept(link, link')
    BY <1>1, <2>1 DEF Link, Kept
  <2>6. link' \in Link(C, T)
    <3>1. <<>> \in Seq(Heards) /\ link.retries + 1 \in Nat
      BY <2>2
    <3>2. link' = [link EXCEPT !.back = <<>>, !.wire = w, !.retries = link.retries + 1]
      BY <1>1, <2>1 DEF Link
    <3>3. w \in Seq(Items)
      BY <2>3
    <3> QED
      BY <1>1, <3>1, <3>2, <3>3 DEF Link
  <2>7. OnItsWay(link')
    <3>1. Framed(Stream(link'), Len(link.buf \o link.wire), link'.sent)
      BY <2>3, <2>5 DEF Stream
    <3> QED
      BY <1>4, <2>3, <2>5, <3>1 DEF OnItsWay
  <2>8. Untimely(link')
    BY <2>4, <2>5 DEF Untimely
  <2>9. Phase(link')
    BY <1>1, <1>3, <1>4, <2>5, <2>7, <2>8 DEF Phase
  <2>10. ~Owed(link) /\ ~Owed(link')
    BY <1>4, <2>5 DEF Owed
  <2>11. Believed(link', F)
    BY <1>1, <2>5, <2>10, BeliefKept
  <2>12. Selected(link')
    BY <1>1, <2>5 DEF Selected, Owed, Kept
  <2> QED
    BY <2>6, <2>9, <2>11, <2>12 DEF LinkOK
<1> QED
  BY <1>6, <1>7

\* A reply is acknowledged: nothing else is on its way to the server.
LEMMA AcknowledgedFacts ==
  ASSUME NEW C, NEW T, NEW s \in Link(C, T), AllPlain(Stream(s)), ~s.running, Phase(s)
  PROVE  /\ Append(s.wire, Plus) \in Seq(Items) /\ AllPlain(s.buf \o Append(s.wire, Plus))
         /\ \A i \in 1 .. Len(Append(s.wire, Plus)) : Append(s.wire, Plus)[i].k # "int"
<1> DEFINE w == Append(s.wire, Plus)
<1>1. s.wire \in Seq(Items) /\ s.buf \in Seq(Items)
  BY LinkTypes
<1>2. Plus \in Items /\ Plain(Plus)
  BY InterruptFacts DEF Plus
<1>3. /\ w \in Seq(Items) /\ Len(w) = Len(s.wire) + 1 /\ \A i \in 1 .. Len(s.wire) : w[i] = s.wire[i]
      /\ w[Len(s.wire) + 1] = Plus /\ AllPlain(s.buf \o w) /\ Len(s.wire) \in Nat
  BY <1>1, <1>2, PlainSent DEF Stream
<1> HIDE DEF w
<1>4. \A i \in 1 .. Len(s.wire) : s.wire[i].k # "int"
  BY DEF Phase, Untimely
<1>5. Plus.k # "int"
  BY DEF Plus
<1>6. ASSUME NEW i \in 1 .. Len(w)
      PROVE  w[i].k # "int"
  <2>1. i \in 1 .. Len(s.wire) \/ i = Len(s.wire) + 1
    BY <1>3
  <2> QED
    BY <1>3, <1>4, <1>5, <2>1
<1> QED
  BY <1>3, <1>6 DEF w

\* The target has halted, by itself or at the Ctrl-C.
LEMMA HearHaltKeeps ==
  ASSUME NEW C, NEW T, NEW F, LinkOK(link, C, T, F), LA!Hear, Head(link.back) \in Halts
  PROVE  LinkOK(link', C, T, F)
<1>1. link \in Link(C, T) /\ Phase(link) /\ Believed(link, F) /\ Selected(link)
  BY DEF LinkOK
<1>2. link.back # <<>>
  BY DEF LA!Hear
<1>3. link.at = "running" /\ Awaiting(link) /\ Tail(link.back) = <<>> /\ ~link.running
  <2>1. Plus \notin Halts /\ Minus \notin Halts
    BY NotHeard
  <2>2. \A h \in Halts : h \notin Replies
    BY NotHeard
  <2> QED
    BY <1>2, <2>1, <2>2, NextHeard
<1> DEFINE w == Append(link.wire, Plus)
<1>4. w \in Seq(Items) /\ AllPlain(link.buf \o w) /\ \A i \in 1 .. Len(w) : w[i].k # "int"
  BY <1>1, <1>3, AcknowledgedFacts DEF Awaiting
<1>5. PICK c \in Cores : link' = [link EXCEPT !.back = <<>>, !.wire = w, !.at = "idle", !.want = c]
  <2>1. link.want \in Cores /\ link.resumed \in {-1, 0, 1}
    BY <1>1, LinkTypes
  <2>2. CASE Head(link.back).k = "stop"
    <3>1. Head(link.back).thread \in Cores
      BY <2>2 DEF Halts
    <3>2. link' = [link EXCEPT !.back = <<>>, !.wire = w, !.at = "idle", !.want = Head(link.back).thread]
      BY <1>1, <1>3, <2>2 DEF LA!Hear, LA!Acknowledge, LA!Token, Plus, Link
    <3> QED
      BY <3>1, <3>2
  <2>3. CASE Head(link.back).k = "S02"
    <3> DEFINE want == IF link.resumed = -1 THEN link.want ELSE link.resumed
    <3>1. want \in Cores
      BY <2>1 DEF Cores
    <3>2. link' = [link EXCEPT !.back = <<>>, !.wire = w, !.at = "idle", !.want = want]
      BY <1>1, <1>3, <2>3 DEF LA!Hear, LA!Acknowledge, LA!Token, LA!Both, Plus, Link
    <3> QED
      BY <3>1, <3>2
  <2> QED
    BY <2>2, <2>3, NotHeard
<1> HIDE DEF w
<1>6. /\ link'.wire = w /\ link'.buf = link.buf /\ link'.back = <<>> /\ link'.at = "idle"
      /\ link'.running = link.running /\ link'.sent = link.sent /\ link'.ran = link.ran /\ link'.sel = link.sel
      /\ Kept(link, link')
  BY <1>1, <1>5 DEF Link, Kept
<1>7. link' \in Link(C, T)
  <2>1. <<>> \in Seq(Heards)
    OBVIOUS
  <2> QED
    BY <1>1, <1>4, <1>5, <2>1 DEF Link
<1>8. Resting(link') /\ Untimely(link')
  BY <1>3, <1>4, <1>6 DEF Resting, Stream, Untimely
<1>9. Phase(link')
  BY <1>1, <1>6, <1>8 DEF Phase
<1>10. Believed(link', F)
  <2>1. ~Owed(link) /\ ~Owed(link')
    BY <1>3, <1>6 DEF Owed
  <2> QED
    BY <1>1, <1>6, <2>1, BeliefKept
<1>11. Selected(link')
  BY <1>1, <1>6 DEF Selected, Owed, Kept
<1> QED
  BY <1>7, <1>9, <1>10, <1>11 DEF LinkOK

-----------------------------------------------------------------------------
\* What the debugger knows once it has the reply to its packet.
Told(s) ==
  [s EXCEPT !.back = <<>>, !.wire = Append(@, Plus), !.at = "idle", !.truth = LearnedTruth(s),
            !.byte = LearnedByte(s), !.sel = IF s.sent.k = "H" THEN s.sent.thread ELSE @]

LEMMA WriteIsWritten ==
  ASSUME NEW t, NEW reg, NEW v
  PROVE  LA!Write(t, reg, v) = Written(t, reg, v, link.core[link.sel].handler)
  BY DEF LA!Write, Written

LEMMA LearnIsTold ==
  ASSUME NEW C, NEW T, link \in Link(C, T), link.sent \in Packets, LA!Hear, Head(link.back) \in Replies,
         Tail(link.back) = <<>>
  PROVE  link' = Told(link)
<1> DEFINE h == link.core[link.sel].handler
           u == [link EXCEPT !.back = <<>>, !.wire = Append(@, Plus), !.at = "idle"]
<1>1. link' = LA!Learn(u)
  <2>1. Head(link.back).k \in {"reply", "value"}
    BY NotHeard
  <2> QED
    BY <2>1 DEF LA!Hear, LA!Acknowledge, LA!Token, Plus, Link
<1>2. u.sent = link.sent /\ u.sel = link.sel /\ u.truth = link.truth /\ u.byte = link.byte
  BY DEF Link
<1>3. \A a, b, c : [u EXCEPT !.truth = a, !.byte = b, !.sel = c]
                    = [link EXCEPT !.back = <<>>, !.wire = Append(@, Plus), !.at = "idle", !.truth = a, !.byte = b, !.sel = c]
  BY DEF Link
<1>10. /\ \A c : [u EXCEPT !.sel = c] = [u EXCEPT !.truth = link.truth, !.byte = link.byte, !.sel = c]
       /\ \A a : [u EXCEPT !.truth = a] = [u EXCEPT !.truth = a, !.byte = link.byte, !.sel = link.sel]
       /\ \A b : [u EXCEPT !.byte = b] = [u EXCEPT !.truth = link.truth, !.byte = b, !.sel = link.sel]
       /\ u = [u EXCEPT !.truth = link.truth, !.byte = link.byte, !.sel = link.sel]
  BY DEF Link
<1>11. Told(link) = [u EXCEPT !.truth = LearnedTruth(link), !.byte = LearnedByte(link),
                              !.sel = IF link.sent.k = "H" THEN link.sent.thread ELSE link.sel]
  <2>1. Told(link) = [link EXCEPT !.back = <<>>, !.wire = Append(@, Plus), !.at = "idle", !.truth = LearnedTruth(link),
                        !.byte = LearnedByte(link), !.sel = IF link.sent.k = "H" THEN link.sent.thread ELSE link.sel]
    BY DEF Told
  <2> QED
    BY <1>3, <2>1
<1> HIDE DEF u
<1>4. link.sent.k \in {"H", "s", "c", "m", "M", "X", "p", "P", "G"}
  BY PacketFacts
<1>5. CASE link.sent.k = "H"
  <2>1. LA!Learn(u) = [u EXCEPT !.sel = link.sent.thread]
    BY <1>2, <1>5 DEF LA!Learn
  <2>2. LearnedTruth(link) = link.truth /\ LearnedByte(link) = link.byte
    BY <1>5 DEF LearnedTruth, LearnedByte
  <2> QED
    BY <1>1, <1>5, <1>10, <1>11, <2>1, <2>2
<1>6. CASE link.sent.k = "P"
  <2> DEFINE a == [link.truth EXCEPT ![link.sel] = LA!Write(@, link.sent.reg, link.sent.v)]
  <2>1. LA!Learn(u) = [u EXCEPT !.truth = a]
    BY <1>2, <1>6 DEF LA!Learn
  <2>2. LearnedTruth(link) = a /\ LearnedByte(link) = link.byte
    BY <1>6, WriteIsWritten DEF LearnedTruth, LearnedByte
  <2> HIDE DEF a
  <2> QED
    BY <1>1, <1>6, <1>10, <1>11, <2>1, <2>2
<1>7. CASE link.sent.k = "G"
  <2> DEFINE a == [link.truth EXCEPT ![link.sel] =
                     LA!Write(LA!Write(LA!Write(@, "x", link.sent.v), "pc", link.sent.v), "csr", link.sent.v)]
  <2>1. LA!Learn(u) = [u EXCEPT !.truth = a]
    BY <1>2, <1>7 DEF LA!Learn
  <2>2. LearnedTruth(link) = a /\ LearnedByte(link) = link.byte
    BY <1>7, WriteIsWritten DEF LearnedTruth, LearnedByte, WrittenAll
  <2> HIDE DEF a
  <2> QED
    BY <1>1, <1>7, <1>10, <1>11, <2>1, <2>2
<1>8. CASE link.sent.k \in {"M", "X"}
  <2>1. LA!Learn(u) = [u EXCEPT !.byte = link.sent.v]
    BY <1>2, <1>8 DEF LA!Learn
  <2>2. LearnedTruth(link) = link.truth /\ LearnedByte(link) = link.sent.v
    BY <1>8 DEF LearnedTruth, LearnedByte
  <2> QED
    BY <1>1, <1>8, <1>10, <1>11, <2>1, <2>2
<1>9. CASE link.sent.k \in {"s", "c", "m", "p"}
  <2>1. LA!Learn(u) = u
    BY <1>2, <1>9 DEF LA!Learn
  <2>2. LearnedTruth(link) = link.truth /\ LearnedByte(link) = link.byte
    BY <1>9 DEF LearnedTruth, LearnedByte
  <2> QED
    BY <1>1, <1>9, <1>10, <1>11, <2>1, <2>2
<1> QED
  BY <1>4, <1>5, <1>6, <1>7, <1>8, <1>9

LEMMA HearReplyKeeps ==
  ASSUME NEW C, NEW T, NEW F, LinkOK(link, C, T, F), LA!Hear, Head(link.back) \in Replies,
         LearnedTruth(link) \in T
  PROVE  LinkOK(link', C, T, F)
<1>1. link \in Link(C, T) /\ Phase(link) /\ Believed(link, F) /\ Selected(link)
  BY DEF LinkOK
<1>2. link.back # <<>>
  BY DEF LA!Hear
<1>3. link.at = "reply" /\ Awaiting(link) /\ Tail(link.back) = <<>> /\ ~link.running
  <2>1. Plus \notin Replies /\ Minus \notin Replies
    BY NotHeard
  <2>2. \A h \in Halts : h \notin Replies
    BY NotHeard
  <2> QED
    BY <1>2, <2>1, <2>2, NextHeard
<1>4. link.ran = 1 /\ link.sent \in Packets /\ (LA!Mangled(link.sent) => link.ran = 0)
  BY <1>1, <1>3 DEF Phase, Awaiting
<1> DEFINE w == Append(link.wire, Plus)
           sel == IF link.sent.k = "H" THEN link.sent.thread ELSE link.sel
<1>5. w \in Seq(Items) /\ AllPlain(link.buf \o w) /\ \A i \in 1 .. Len(w) : w[i].k # "int"
  BY <1>1, <1>3, AcknowledgedFacts DEF Awaiting
<1>6. link' = [link EXCEPT !.back = <<>>, !.wire = w, !.at = "idle", !.truth = LearnedTruth(link),
                           !.byte = LearnedByte(link), !.sel = sel]
  BY <1>1, <1>3, <1>4, LearnIsTold DEF Told, Link
<1>7. sel \in {-2, 0, 1}
  <2>1. link.sel \in {-2, 0, 1}
    BY <1>1, LinkTypes
  <2>2. link.sent.k = "H" => link.sent.thread \in {-2, 0, 1}
    BY <1>4 DEF Packets, ArmPackets, RiscvPackets, Cores
  <2> QED
    BY <2>1, <2>2
<1>8. LearnedByte(link) \in {0, 1}
  <2>1. link.byte \in {0, 1}
    BY <1>1, LinkTypes
  <2>2. link.sent.k \in {"M", "X"} => link.sent.v \in {0, 1}
    BY <1>4 DEF Packets, ArmPackets, RiscvPackets
  <2> QED
    BY <2>1, <2>2 DEF LearnedByte
<1>9. sel # -2 => link.current = sel
  BY <1>1, <1>3, <1>4 DEF Selected, Owed
<1>10. Known(LearnedTruth(link), LearnedByte(link), link.core, link.mem, F)
  BY <1>1, <1>3, <1>4 DEF Believed, Owed
<1> HIDE DEF w, sel
<1>11. /\ link'.wire = w /\ link'.buf = link.buf /\ link'.back = <<>> /\ link'.at = "idle"
       /\ link'.running = link.running /\ link'.sent = link.sent /\ link'.ran = link.ran /\ link'.sel = sel
       /\ link'.core = link.core /\ link'.mem = link.mem /\ link'.truth = LearnedTruth(link)
       /\ link'.byte = LearnedByte(link) /\ link'.current = link.current
  BY <1>1, <1>6 DEF Link
<1>12. link' \in Link(C, T)
  <2>1. <<>> \in Seq(Heards)
    OBVIOUS
  <2> QED
    BY <1>1, <1>5, <1>6, <1>7, <1>8, <2>1 DEF Link
<1>13. Resting(link') /\ Untimely(link')
  BY <1>3, <1>5, <1>11 DEF Resting, Stream, Untimely
<1>14. Phase(link')
  BY <1>1, <1>11, <1>13 DEF Phase
<1>15. ~Owed(link')
  BY <1>11 DEF Owed
<1>16. Believed(link', F)
  BY <1>10, <1>11, <1>15 DEF Believed
<1>17. Selected(link')
  BY <1>9, <1>11, <1>15 DEF Selected
<1> QED
  BY <1>12, <1>14, <1>16, <1>17 DEF LinkOK

LEMMA HearKeeps ==
  ASSUME NEW C, NEW T, NEW F, LinkOK(link, C, T, F), LA!Hear,
         Owed(link) => LearnedTruth(link) \in T
  PROVE  LinkOK(link', C, T, F)
<1>1. link.back # <<>>
  BY DEF LA!Hear
<1>2. \/ Head(link.back) = Plus
      \/ Head(link.back) = Minus
      \/ Head(link.back) \in Halts
      \/ Head(link.back) \in Replies /\ Owed(link)
  <2>1. link.at = "reply" /\ Awaiting(link) => Owed(link)
    BY DEF Owed, Awaiting
  <2> QED
    BY <1>1, <2>1, NextHeard
<1> QED
  BY <1>2, HearPlusKeeps, HearMinusKeeps, HearHaltKeeps, HearReplyKeeps

-----------------------------------------------------------------------------
(* The loop of feedData *)

\* Both servers look for the packet alike.
LEMMA SameSearch ==
  ASSUME NEW q
  PROVE  /\ LH!SelectInSeq(q, LAMBDA t : t.k = "$") = Dolla(q)
         /\ LH!SelectInSeq(q, LAMBDA t : t.k = "#") = Sharp(q)
  BY DEF Dolla, Sharp, LA!SelectInSeq, LH!SelectInSeq, LA!Min, LH!Min

LEMMA LoopWaits ==
  ASSUME NEW s, NoPacket(s.buf)
  PROVE  LA!ParseLoop(s) = s /\ LH!ParseLoop(s) = s
<1>1. LA!ParseLoop(s) = s
  BY DEF LA!ParseLoop, NoPacket, Dolla, Sharp
<1>2. LH!ParseLoop(s) = s
  BY SameSearch DEF LH!ParseLoop, NoPacket
<1> QED
  BY <1>1, <1>2

\* The server with the packet taken out of its buffer, and with its answer.
Taken(s, r, a) == [s EXCEPT !.buf = r, !.back = @ \o <<a>>]
Acked(s, r) == [s EXCEPT !.buf = r, !.back = @ \o <<Plus>>, !.ran = @ + 1]

TakesOrServes(s, r, p) ==
  /\ \/ LA!ParseLoop(s) = Taken(s, r, Minus)
     \/ ~LA!Mangled(p) /\ LA!ParseLoop(s) = LA!processGDBMessage(Acked(s, r), p)
  /\ \/ LH!ParseLoop(s) = Taken(s, r, Minus)
     \/ ~LA!Mangled(p) /\ LH!ParseLoop(s) = LH!processGDBMessage(Acked(s, r), p)

LEMMA LoopTakes ==
  ASSUME NEW C, NEW T, NEW s \in Link(C, T), NEW m \in Nat, NEW p, PacketAt(s.buf, m, p),
         NEW r, r = SubSeq(s.buf, m + 5, Len(s.buf))
  PROVE  TakesOrServes(s, r, p)
<1> DEFINE b == s.buf
           ck == SubSeq(b, m + 4, IF m + 5 <= Len(b) THEN m + 5 ELSE Len(b))
<1>1. /\ Dolla(b) = m + 1 /\ Sharp(SubSeq(b, m + 2, Len(b))) = 2 /\ b[m + 2] = p
      /\ Len(b) \in {m + 4, m + 5} /\ b \in Seq(Items)
  BY LinkTypes DEF PacketAt
<1>2. /\ Dolla(b) + 1 = m + 2 /\ (m + 1) + 2 = m + 3 /\ (m + 3) + 1 = m + 4 /\ (m + 3) + 2 = m + 5
      /\ m + 1 # 0 /\ m + 3 # m + 1 /\ ~(m + 4 > Len(b))
  BY <1>1
<1>3. ck # <<>>
  <2> DEFINE e == IF m + 5 <= Len(b) THEN m + 5 ELSE Len(b)
  <2>1. e \in {m + 4, m + 5} /\ e <= Len(b) /\ e \in Int
    BY <1>1
  <2> HIDE DEF e
  <2>2. Len(SubSeq(b, m + 4, e)) # 0
    <3>1. m + 4 \in Int /\ \A i \in m + 4 .. e : b[i] \in Items
      BY <1>1, <2>1
    <3>2. Len(SubSeq(b, m + 4, e)) = IF m + 4 <= e THEN e - (m + 4) + 1 ELSE 0
      BY <2>1, <3>1, SubSeqProperties
    <3> QED
      BY <2>1, <3>2
  <2>3. ck = SubSeq(b, m + 4, e)
    BY DEF e
  <2> QED
    BY <2>2, <2>3, EmptySeq
<1> HIDE DEF ck
<1>4. Taken(s, r, Minus) = LA!Respond([s EXCEPT !.buf = r], <<LA!Token("-")>>)
      /\ Taken(s, r, Minus) = LH!Respond([s EXCEPT !.buf = r], <<LH!Token("-")>>)
  BY DEF Taken, LA!Respond, LH!Respond, LA!Token, LH!Token, Minus, Link
<1>5. Acked(s, r) = [LA!Respond([s EXCEPT !.buf = r], <<LA!Token("+")>>) EXCEPT !.ran = @ + 1]
      /\ Acked(s, r) = [LH!Respond([s EXCEPT !.buf = r], <<LH!Token("+")>>) EXCEPT !.ran = @ + 1]
  BY DEF Acked, LA!Respond, LH!Respond, LA!Token, LH!Token, Plus, Link
<1>6. LA!gdbChecksum(p) = ck => ~LA!Mangled(p)
  BY <1>3 DEF LA!gdbChecksum
<1>7. LH!gdbChecksum(p) = ck => ~LA!Mangled(p)
  BY <1>3 DEF LH!gdbChecksum, LH!Mangled, LA!Mangled
<1>8. LA!ParseLoop(s) = IF LA!gdbChecksum(p) # ck THEN LA!Respond([s EXCEPT !.buf = r], <<LA!Token("-")>>)
        ELSE LA!processGDBMessage([LA!Respond([s EXCEPT !.buf = r], <<LA!Token("+")>>) EXCEPT !.ran = @ + 1], p)
  <2>1. LA!SelectInSeq(b, LAMBDA t : t.k = "$") = m + 1
        /\ LA!SelectInSeq(SubSeq(b, m + 2, Len(b)), LAMBDA t : t.k = "#") = 2
    BY <1>1 DEF Dolla, Sharp
  <2>2. /\ m + 1 + 1 = m + 2 /\ m + 1 + 2 = m + 3 /\ m + 3 + 1 = m + 4 /\ m + 3 + 2 = m + 5
        /\ ~(m + 1 = 0 \/ m + 3 = m + 1 \/ m + 4 > Len(b))
    BY <1>2
  <2> QED
    BY <1>1, <2>1, <2>2, Zenon DEF LA!ParseLoop, LA!Rest, ck
<1>9. LH!ParseLoop(s) = IF LH!gdbChecksum(p) # ck THEN LH!Respond([s EXCEPT !.buf = r], <<LH!Token("-")>>)
        ELSE LH!processGDBMessage([LH!Respond([s EXCEPT !.buf = r], <<LH!Token("+")>>) EXCEPT !.ran = @ + 1], p)
  <2>1. LH!SelectInSeq(b, LAMBDA t : t.k = "$") = m + 1
        /\ LH!SelectInSeq(SubSeq(b, m + 2, Len(b)), LAMBDA t : t.k = "#") = 2
    BY <1>1, SameSearch
  <2>2. /\ m + 1 + 1 = m + 2 /\ m + 1 + 2 = m + 3 /\ m + 3 + 1 = m + 4 /\ m + 3 + 2 = m + 5
        /\ ~(m + 1 = 0 \/ m + 3 = m + 1 \/ m + 4 > Len(b))
    BY <1>2
  <2> QED
    BY <1>1, <2>1, <2>2, Zenon DEF LH!ParseLoop, LH!Rest, ck
<1>10. \/ LA!ParseLoop(s) = Taken(s, r, Minus)
       \/ ~LA!Mangled(p) /\ LA!ParseLoop(s) = LA!processGDBMessage(Acked(s, r), p)
  BY <1>4, <1>5, <1>6, <1>8, Zenon
<1>11. \/ LH!ParseLoop(s) = Taken(s, r, Minus)
       \/ ~LA!Mangled(p) /\ LH!ParseLoop(s) = LH!processGDBMessage(Acked(s, r), p)
  BY <1>4, <1>5, <1>7, <1>9, Zenon
<1> QED
  BY <1>10, <1>11, Zenon DEF TakesOrServes

\* n of the items on the wire move to the buffer; a Ctrl-C is taken from it.
Moved(s, n) == [s EXCEPT !.wire = Remaining(s.wire, n), !.buf = Buffered(s.buf, s.wire, n)]
Interrupted(s) == [s EXCEPT !.wire = <<>>, !.running = FALSE, !.back = <<[k |-> "S02"]>>]

LEMMA MovedFacts ==
  ASSUME NEW C, NEW T, NEW s \in Link(C, T), NEW n \in 1 .. Len(s.wire)
  PROVE  /\ Moved(s, n) \in Link(C, T) /\ Stream(Moved(s, n)) = Stream(s)
         /\ Moved(s, n).wire = Remaining(s.wire, n) /\ Moved(s, n).buf = Buffered(s.buf, s.wire, n)
         /\ Moved(s, n).back = s.back /\ Moved(s, n).at = s.at /\ Moved(s, n).running = s.running
         /\ Moved(s, n).sent = s.sent /\ Moved(s, n).ran = s.ran /\ Moved(s, n).sel = s.sel
         /\ Kept(s, Moved(s, n))
<1> DEFINE t == Moved(s, n)
           w == Remaining(s.wire, n)
           b == Buffered(s.buf, s.wire, n)
<1>1. s.wire \in Seq(Items) /\ s.buf \in Seq(Items)
  BY LinkTypes
<1>2. w \in Seq(Items) /\ b \in Seq(Items) /\ b \o w = s.buf \o s.wire
  <2>1. Parted(Items, s.buf, s.wire, n)
    BY <1>1, Cut, Zenon
  <2> QED
    BY <2>1 DEF Parted
<1>3. t = [s EXCEPT !.wire = w, !.buf = b]
  BY DEF Moved
<1> HIDE DEF w, b, t
<1>4. t \in Link(C, T)
  BY <1>2, <1>3 DEF Link
<1>5. /\ t.wire = w /\ t.buf = b /\ t.back = s.back /\ t.at = s.at /\ t.running = s.running
      /\ t.sent = s.sent /\ t.ran = s.ran /\ t.sel = s.sel /\ Kept(s, t)
  BY <1>3 DEF Link, Kept
<1>6. Stream(t) = Stream(s)
  BY <1>2, <1>5 DEF Stream
<1> QED
  BY <1>4, <1>5, <1>6 DEF w, b, t

\* A Ctrl-C comes alone, to a debugger that waits.
LEMMA InterruptAlone ==
  ASSUME NEW C, NEW T, NEW F, NEW s, LinkOK(s, C, T, F), NEW n \in 1 .. Len(s.wire), s.wire[1].k = "int"
  PROVE  /\ n = 1 /\ Len(s.wire) = 1 /\ s.at = "running" /\ s.running /\ s.back = <<>>
         /\ Awaiting(s) /\ Remaining(s.wire, n) = <<>> /\ Tail(Arrived(s.wire, n)) = <<>>
<1>1. s \in Link(C, T) /\ Phase(s) /\ s.wire \in Seq(Items) /\ s.buf \in Seq(Items)
  BY LinkTypes DEF LinkOK
<1>2. 1 \in 1 .. Len(s.wire) /\ Len(s.wire) \in Nat
  BY <1>1
<1>3. 1 = Len(s.wire) /\ s.at = "running" /\ s.running /\ s.back = <<>>
  BY <1>1, <1>2 DEF Phase, Untimely
<1>4. n = 1
  <2>1. n \in 1 .. 1
    BY <1>3
  <2> QED
    BY <2>1
<1>5. Awaiting(s)
  BY <1>1, <1>3 DEF Phase
<1>6. /\ Arrived(s.wire, n) \in Seq(Items) /\ Len(Arrived(s.wire, n)) = 1 /\ Arrived(s.wire, n) # <<>>
      /\ Remaining(s.wire, n) \in Seq(Items) /\ Len(Remaining(s.wire, n)) = 0
  <2>1. Len(s.wire) - n = 0
    BY <1>3, <1>4
  <2>2. /\ Arrived(s.wire, n) \in Seq(Items) /\ Len(Arrived(s.wire, n)) = n /\ Arrived(s.wire, n) # <<>>
        /\ Remaining(s.wire, n) \in Seq(Items) /\ Len(Remaining(s.wire, n)) = Len(s.wire) - n
    <3>1. Parted(Items, s.buf, s.wire, n)
      BY <1>1, Cut, Zenon
    <3> QED
      BY <3>1 DEF Parted
  <2> QED
    BY <1>4, <2>1, <2>2
<1>7. Remaining(s.wire, n) = <<>>
  BY <1>6, EmptySeq
<1>8. Tail(Arrived(s.wire, n)) = <<>>
  <2>1. Tail(Arrived(s.wire, n)) \in Seq(Items) /\ Len(Tail(Arrived(s.wire, n))) = 1 - 1
    BY <1>6, HeadTailProperties
  <2>2. Len(Tail(Arrived(s.wire, n))) = 0
    BY <2>1
  <2> QED
    BY <2>1, <2>2, EmptySeq
<1> QED
  BY <1>3, <1>4, <1>5, <1>7, <1>8

LEMMA FeedCases ==
  ASSUME NEW C, NEW T, NEW F, LinkOK(link, C, T, F), NEW n \in 1 .. Len(link.wire)
  PROVE  /\ LA!feedData(n) => \/ link' = LA!ParseLoop(Moved(link, n))
                              \/ link.wire[1].k = "int" /\ link' = Interrupted(link)
         /\ LH!feedData(n) => \/ link' = LH!ParseLoop(Moved(link, n))
                              \/ link.wire[1].k = "int" /\ link' = Interrupted(link)
<1> DEFINE data == Arrived(link.wire, n)
           w == Remaining(link.wire, n)
<1>1. link \in Link(C, T) /\ link.wire \in Seq(Items) /\ link.buf \in Seq(Items)
  BY LinkTypes DEF LinkOK
<1>2. data[1] = link.wire[1]
  <2>1. Parted(Items, link.buf, link.wire, n)
    BY <1>1, Cut, Zenon
  <2> QED
    BY <2>1 DEF Parted
<1>3. CASE link.wire[1].k = "int"
  <2> DEFINE u == Interrupted(link)
  <2>1. /\ w = <<>> /\ Tail(data) = <<>> /\ link.back = <<>> /\ Awaiting(link)
    BY <1>3, InterruptAlone
  <2>2. link.buf \o <<>> = link.buf
    BY <1>1, ConcatEmptySeq
  <2>3. /\ [LA!onInterrupt([link EXCEPT !.wire = w]) EXCEPT !.buf = @ \o Tail(data)] = u
        /\ [LH!onInterrupt([link EXCEPT !.wire = w]) EXCEPT !.buf = @ \o Tail(data)] = u
    <3>1. <<>> \o <<[k |-> "S02"]>> = <<[k |-> "S02"]>>
      BY Ones
    <3> HIDE DEF w, data
    <3>2. LA!onInterrupt([link EXCEPT !.wire = w]) = u
      BY <1>1, <2>1, <3>1 DEF LA!onInterrupt, LA!Respond, Interrupted, Link
    <3>3. LH!onInterrupt([link EXCEPT !.wire = w]) = u
      BY <1>1, <2>1, <3>1 DEF LH!onInterrupt, LH!Respond, Interrupted, Link
    <3>4. [u EXCEPT !.buf = @ \o Tail(data)] = u
      BY <1>1, <2>1, <2>2 DEF Interrupted, Link
    <3> QED
      BY <3>2, <3>3, <3>4
  <2>4. AllPlain(link.buf)
    BY <1>1, <2>1, PlainConcat DEF Awaiting, Stream
  <2>5. u.buf = link.buf
    BY <1>1 DEF Interrupted, Link
  <2>6. LA!ParseLoop(u) = u /\ LH!ParseLoop(u) = u
    <3>1. NoPacket(u.buf)
      BY <1>1, <2>4, <2>5, PlainNoPacket
    <3> QED
      BY <3>1, LoopWaits
  <2>7. LA!feedData(n) => link' = LA!ParseLoop(u)
    BY <1>1, <1>2, <1>3, <2>3 DEF LA!feedData, Arrived, Remaining, Link
  <2>8. LH!feedData(n) => link' = LH!ParseLoop(u)
    BY <1>1, <1>2, <1>3, <2>3 DEF LH!feedData, Arrived, Remaining, Link
  <2> QED
    BY <1>3, <2>6, <2>7, <2>8
<1>4. CASE link.wire[1].k # "int"
  <2>1. [[link EXCEPT !.wire = w] EXCEPT !.buf = @ \o data] = Moved(link, n)
    BY <1>1 DEF Moved, Buffered, Link
  <2>2. LA!feedData(n) => link' = LA!ParseLoop(Moved(link, n))
    BY <1>1, <1>2, <1>4, <2>1 DEF LA!feedData, Arrived, Remaining, Link
  <2>3. LH!feedData(n) => link' = LH!ParseLoop(Moved(link, n))
    BY <1>1, <1>2, <1>4, <2>1 DEF LH!feedData, Arrived, Remaining, Link
  <2> QED
    BY <2>2, <2>3
<1> QED
  BY <1>3, <1>4

LEMMA InterruptedKeeps ==
  ASSUME NEW C, NEW T, NEW F, NEW s, LinkOK(s, C, T, F), NEW n \in 1 .. Len(s.wire), s.wire[1].k = "int"
  PROVE  LinkOK(Interrupted(s), C, T, F)
<1> DEFINE t == Interrupted(s)
           b == <<[k |-> "S02"]>>
<1>1. s \in Link(C, T) /\ Phase(s) /\ Believed(s, F) /\ Selected(s)
  BY DEF LinkOK
<1>2. s.at = "running" /\ Awaiting(s)
  BY InterruptAlone
<1>3. s.wire \in Seq(Items) /\ s.buf \in Seq(Items)
  BY <1>1, LinkTypes
<1>4. AllPlain(s.buf) /\ s.buf \o <<>> = s.buf
  BY <1>2, <1>3, PlainConcat, ConcatEmptySeq DEF Awaiting, Stream
<1>5. [k |-> "S02"] \in Halts /\ [k |-> "S02"] \in Heards
  BY DEF Halts, Heards
<1>6. b \in Seq(Heards) /\ <<>> \in Seq(Items)
  BY <1>5
<1>7. Answered(FALSE, s.sent, b)
  BY <1>2, <1>5 DEF Answered, Awaiting
<1>8. t = [s EXCEPT !.wire = <<>>, !.running = FALSE, !.back = b]
  BY DEF Interrupted
<1> HIDE DEF t, b
<1>9. t \in Link(C, T)
  BY <1>1, <1>6, <1>8 DEF Link
<1>10. /\ t.wire = <<>> /\ t.buf = s.buf /\ t.back = b /\ t.at = s.at /\ t.running = FALSE
       /\ t.sent = s.sent /\ t.ran = s.ran /\ t.sel = s.sel /\ Kept(s, t)
  BY <1>1, <1>8 DEF Link, Kept
<1>11. Awaiting(t)
  BY <1>2, <1>4, <1>7, <1>10 DEF Awaiting, Stream
<1>12. Untimely(t)
  BY <1>10 DEF Untimely
<1>13. Phase(t)
  BY <1>1, <1>2, <1>10, <1>11, <1>12 DEF Phase
<1>14. Believed(t, F)
  <2>1. ~Owed(s) /\ ~Owed(t)
    BY <1>2, <1>10 DEF Owed
  <2> QED
    BY <1>1, <1>10, <2>1, BeliefKept
<1>15. Selected(t)
  BY <1>1, <1>10 DEF Selected, Owed, Kept
<1>16. LinkOK(t, C, T, F)
  BY <1>9, <1>13, <1>14, <1>15 DEF LinkOK
<1> QED
  BY <1>16 DEF t

\* Where a Ctrl-C may be, once n items have arrived.
LEMMA TimelyRest ==
  ASSUME NEW C, NEW T, NEW s \in Link(C, T), NEW n \in 1 .. Len(s.wire), Untimely(s)
  PROVE  Untimely(Moved(s, n))
<1> DEFINE w == Remaining(s.wire, n)
           t == Moved(s, n)
<1>1. t.wire = w /\ t.at = s.at /\ t.running = s.running /\ t.back = s.back
  BY MovedFacts
<1>2. s.wire \in Seq(Items) /\ s.buf \in Seq(Items)
  BY LinkTypes
<1>3. Len(w) = Len(s.wire) - n /\ Len(s.wire) \in Nat /\ \A i \in 1 .. Len(w) : w[i] = s.wire[n + i]
  <2>1. Parted(Items, s.buf, s.wire, n)
    BY <1>2, Cut, Zenon
  <2> QED
    BY <1>2, <2>1 DEF Parted
<1> HIDE DEF w, t
<1>4. ASSUME NEW i \in 1 .. Len(w), w[i].k = "int"
      PROVE  i = Len(w) /\ t.at = "running" /\ t.running /\ t.back = <<>>
  <2>1. n + i \in 1 .. Len(s.wire) /\ s.wire[n + i].k = "int"
    BY <1>3, <1>4
  <2>2. n + i = Len(s.wire) /\ s.at = "running" /\ s.running /\ s.back = <<>>
    BY <2>1 DEF Untimely
  <2>3. i = Len(w)
    BY <1>3, <2>2
  <2> QED
    BY <1>1, <2>2, <2>3
<1>5. Untimely(t)
  BY <1>1, <1>4 DEF Untimely
<1> QED
  BY <1>5 DEF t

LEMMA MovedKeeps ==
  ASSUME NEW C, NEW T, NEW F, NEW s, LinkOK(s, C, T, F), NEW n \in 1 .. Len(s.wire),
         OnItsWay(s) => OnItsWay(Moved(s, n))
  PROVE  LinkOK(Moved(s, n), C, T, F)
<1> DEFINE t == Moved(s, n)
<1>1. s \in Link(C, T) /\ Phase(s) /\ Believed(s, F) /\ Selected(s)
  BY DEF LinkOK
<1>2. /\ t \in Link(C, T) /\ Stream(t) = Stream(s) /\ t.back = s.back /\ t.at = s.at /\ t.running = s.running
      /\ t.sent = s.sent /\ t.ran = s.ran /\ t.sel = s.sel /\ Kept(s, t)
  BY <1>1, MovedFacts
<1>3. Untimely(t)
  BY <1>1, TimelyRest DEF Phase
<1>4. OnItsWay(s) => OnItsWay(t)
  OBVIOUS
<1> HIDE DEF t
<1>5. Refused(s) => Refused(t)
  BY <1>2 DEF Refused
<1>6. Accepted(s) => Accepted(t)
  BY <1>2 DEF Accepted
<1>7. Resting(s) => Resting(t)
  BY <1>2 DEF Resting
<1>8. Awaiting(s) => Awaiting(t)
  BY <1>2 DEF Awaiting
<1>9. Phase(t)
  BY <1>1, <1>2, <1>3, <1>4, <1>5, <1>6, <1>7, <1>8 DEF Phase
<1>10. Believed(t, F)
  <2>1. Owed(t) <=> Owed(s)
    BY <1>2 DEF Owed
  <2>2. \/ ~Owed(s) /\ ~Owed(t)
        \/ Owed(s) /\ Owed(t)
    BY <2>1
  <2> QED
    BY <1>1, <1>2, <2>2, BeliefKept
<1>11. Selected(t)
  BY <1>1, <1>2 DEF Selected, Owed, Kept
<1>12. LinkOK(t, C, T, F)
  BY <1>2, <1>9, <1>10, <1>11 DEF LinkOK
<1> QED
  BY <1>12 DEF t

\* The packet that arrives is refused.
LEMMA TakenKeeps ==
  ASSUME NEW C, NEW T, NEW F, NEW s, LinkOK(s, C, T, F), NEW n \in 1 .. Len(s.wire),
         s.at = "unacked", OnItsWay(s), NEW r \in Seq(Items), AllPlain(r \o Remaining(s.wire, n))
  PROVE  LinkOK(Taken(Moved(s, n), r, Minus), C, T, F)
<1> DEFINE u == Moved(s, n)
           t == Taken(u, r, Minus)
<1>1. s \in Link(C, T) /\ Phase(s) /\ Believed(s, F) /\ Selected(s)
  BY DEF LinkOK
<1>2. /\ u \in Link(C, T) /\ u.wire = Remaining(s.wire, n) /\ u.back = s.back /\ u.at = s.at /\ u.running = s.running
      /\ u.sent = s.sent /\ u.ran = s.ran /\ u.sel = s.sel /\ Kept(s, u)
  BY <1>1, MovedFacts
<1>3. Untimely(u)
  BY <1>1, TimelyRest DEF Phase
<1>4. s.back = <<>> /\ ~s.running /\ s.ran = 0 /\ s.sent \in Packets
  BY <1>1 DEF OnItsWay, Phase
<1> HIDE DEF u
<1>5. t = [u EXCEPT !.buf = r, !.back = <<Minus>>]
  BY <1>2, <1>4, Ones DEF Taken, Link
<1> HIDE DEF t
<1>6. /\ t.wire = u.wire /\ t.buf = r /\ t.back = <<Minus>> /\ t.at = s.at /\ t.running = s.running
      /\ t.sent = s.sent /\ t.ran = s.ran /\ t.sel = s.sel /\ Kept(s, t)
  BY <1>2, <1>5 DEF Link, Kept
<1>7. t \in Link(C, T)
  <2>1. <<Minus>> \in Seq(Heards)
    BY NotHeard, OnesIn DEF Heards
  <2> QED
    BY <1>2, <1>5, <2>1 DEF Link
<1>8. Refused(t)
  BY <1>2, <1>4, <1>6 DEF Refused, Stream
<1>9. Untimely(t)
  BY <1>2, <1>3, <1>6 DEF Untimely
<1>10. Phase(t)
  BY <1>1, <1>4, <1>6, <1>8, <1>9 DEF Phase
<1>11. Believed(t, F)
  <2>1. ~Owed(s) /\ ~Owed(t)
    BY <1>4, <1>6 DEF Owed
  <2> QED
    BY <1>1, <1>6, <2>1, BeliefKept
<1>12. Selected(t)
  BY <1>1, <1>6 DEF Selected, Owed, Kept
<1>13. LinkOK(t, C, T, F)
  BY <1>7, <1>10, <1>11, <1>12 DEF LinkOK
<1> QED
  BY <1>13 DEF t, u

\* It is executed: the answer, and what it left of the registers and of the byte.
Executed(s, r, a, current, running, core, mem) ==
  [s EXCEPT !.buf = r, !.back = <<Plus>> \o a, !.ran = 1, !.current = current, !.running = running,
            !.core = core, !.mem = mem]

LEMMA ExecutedKeeps ==
  ASSUME NEW C, NEW T, NEW F, NEW s, LinkOK(s, C, T, F), NEW n \in 1 .. Len(s.wire),
         s.at = "unacked", OnItsWay(s), ~LA!Mangled(s.sent),
         NEW r \in Seq(Items), AllPlain(r \o Remaining(s.wire, n)),
         NEW a, a = <<>> \/ \E h \in Halts \cup Replies : a = <<h>>,
         NEW current \in Cores, NEW running \in BOOLEAN, NEW core \in C, NEW mem \in {0, 1},
         NEW t, t = Executed(Moved(s, n), r, a, current, running, core, mem),
         Answered(running, s.sent, a),
         Known(LearnedTruth(t), LearnedByte(t), core, mem, F),
         s.sel # -2 => current = s.sel, s.sent.k = "H" => current = s.sent.thread
  PROVE  LinkOK(t, C, T, F)
<1> DEFINE u == Moved(s, n)
           b == <<Plus>> \o a
<1>1. s \in Link(C, T) /\ Phase(s) /\ Believed(s, F) /\ Selected(s)
  BY DEF LinkOK
<1>2. /\ u \in Link(C, T) /\ u.wire = Remaining(s.wire, n) /\ u.back = s.back /\ u.at = s.at
      /\ u.sent = s.sent /\ u.ran = s.ran /\ u.sel = s.sel
  BY <1>1, MovedFacts
<1>3. \A i \in 1 .. Len(u.wire) : u.wire[i].k # "int"
  BY <1>1, <1>2, TimelyRest DEF Phase, Untimely
<1>4. s.sent \in Packets
  BY <1>1 DEF Phase
<1> HIDE DEF u
<1>5. b \in Seq(Heards) /\ b # <<>> /\ Head(b) = Plus /\ Tail(b) = a
  <2>1. Plus \in Heards
    BY NotHeard DEF Heards
  <2>2. CASE a = <<>>
    <3>1. b = <<Plus>>
      BY <2>2, Ones
    <3>2. <<Plus>> \in Seq(Heards)
      BY <2>1
    <3>3. <<Plus>> # <<>> /\ Head(<<Plus>>) = Plus /\ Tail(<<Plus>>) = <<>>
      BY Ones, Zenon
    <3> HIDE DEF b
    <3> QED
      BY <2>2, <3>1, <3>2, <3>3, Zenon
  <2>3. ASSUME NEW h \in Halts \cup Replies, a = <<h>>
        PROVE  b \in Seq(Heards) /\ b # <<>> /\ Head(b) = Plus /\ Tail(b) = a
    <3>1. b = <<Plus, h>>
      BY <2>3, Ones
    <3>2. h \in Heards
      BY <2>3, NotHeard
    <3>3. <<Plus, h>> # <<>> /\ Head(<<Plus, h>>) = Plus /\ Tail(<<Plus, h>>) = <<h>>
      BY Ones, ZenonT(40)
    <3>4. <<Plus, h>> \in Seq(Heards)
      BY <2>1, <3>2, OnesIn, Zenon
    <3> HIDE DEF b
    <3> QED
      BY <2>3, <3>1, <3>3, <3>4, Zenon
  <2> QED
    BY <2>2, <2>3
<1>6. t = [u EXCEPT !.buf = r, !.back = b, !.ran = 1, !.current = current, !.running = running,
                    !.core = core, !.mem = mem]
  BY DEF Executed, u
<1> HIDE DEF b
<1>7. /\ t.wire = u.wire /\ t.buf = r /\ t.back = b /\ t.at = s.at /\ t.running = running
      /\ t.sent = s.sent /\ t.ran = 1 /\ t.sel = s.sel /\ t.core = core /\ t.mem = mem /\ t.current = current
  BY <1>2, <1>6 DEF Link
<1>8. t \in Link(C, T)
  <2>1. 1 \in Nat /\ b \in Seq(Heards)
    BY <1>5
  <2> QED
    BY <1>2, <1>6, <2>1, ZenonT(40) DEF Link
<1>9. Accepted(t)
  BY <1>2, <1>5, <1>7 DEF Accepted, Stream
<1>10. Untimely(t)
  BY <1>3, <1>7 DEF Untimely
<1>11. Phase(t)
  BY <1>4, <1>7, <1>9, <1>10 DEF Phase
<1>12. Believed(t, F)
  <2>1. Owed(t)
    BY <1>7 DEF Owed
  <2> QED
    BY <1>7, <2>1 DEF Believed
<1>13. Selected(t)
  BY <1>1, <1>7 DEF Selected
<1> QED
  BY <1>8, <1>11, <1>12, <1>13 DEF LinkOK

\* The packet is complete enough and its checksum matches.
Executes(s, n, r) ==
  /\ s.at = "unacked" /\ OnItsWay(s) /\ ~LA!Mangled(s.sent)
  /\ r \in Seq(Items) /\ AllPlain(r \o Remaining(s.wire, n))

LEMMA OnItsWayOrPlain ==
  ASSUME NEW s, Phase(s), s.at \in {"idle", "unacked", "reply", "running"}
  PROVE  AllPlain(Stream(s)) \/ (s.at = "unacked" /\ OnItsWay(s) /\ s.sent \in Packets)
  BY DEF Phase, Resting, Refused, Accepted, Awaiting

\* The invariant, and the debugger has sent nothing.
SameSent(s, C, T, F) == LinkOK(s, C, T, F) /\ s.sent = link.sent

LEMMA LoopKeeps ==
  ASSUME NEW C, NEW T, NEW F, LinkOK(link, C, T, F), NEW n \in 1 .. Len(link.wire)
  PROVE  /\ \/ SameSent(LA!ParseLoop(Moved(link, n)), C, T, F)
            \/ \E r : /\ Executes(link, n, r)
                      /\ LA!ParseLoop(Moved(link, n))
                           = LA!processGDBMessage(Acked(Moved(link, n), r), link.sent)
         /\ \/ SameSent(LH!ParseLoop(Moved(link, n)), C, T, F)
            \/ \E r : /\ Executes(link, n, r)
                      /\ LH!ParseLoop(Moved(link, n))
                           = LH!processGDBMessage(Acked(Moved(link, n), r), link.sent)
<1> DEFINE u == Moved(link, n)
           b == Buffered(link.buf, link.wire, n)
           w == Remaining(link.wire, n)
<1>1. link \in Link(C, T) /\ Phase(link) /\ link.at \in {"idle", "unacked", "reply", "running"}
      /\ link.wire \in Seq(Items) /\ link.buf \in Seq(Items)
  BY LinkTypes DEF LinkOK
<1>2. /\ u \in Link(C, T) /\ Stream(u) = Stream(link) /\ u.wire = w /\ u.buf = b /\ u.back = link.back
      /\ u.at = link.at /\ u.running = link.running /\ u.sent = link.sent /\ u.ran = link.ran
  BY <1>1, MovedFacts
<1>3. b \in Seq(Items) /\ w \in Seq(Items) /\ b \o w = Stream(link)
  <2>1. Parted(Items, link.buf, link.wire, n)
    BY <1>1, Cut, Zenon
  <2> QED
    BY <2>1 DEF Parted, Stream
<1> HIDE DEF u, b, w
<1>4. Split(Items, b, w)
  BY <1>3, ConcatFacts, Zenon
<1>5. CASE AllPlain(Stream(link))
  <2>1. NoPacket(u.buf)
    <3>1. AllPlain(b)
      BY <1>3, <1>5, PlainConcat
    <3> QED
      BY <1>2, <1>3, <3>1, PlainNoPacket
  <2>2. OnItsWay(link) => OnItsWay(u)
    <3>1. ~OnItsWay(link)
      <4>1. SUFFICES ASSUME NEW m \in Nat, Framed(Stream(link), m, link.sent)
                     PROVE  FALSE
        BY DEF OnItsWay
      <4>2. m + 1 \in 1 .. Len(Stream(link)) /\ Stream(link)[m + 1].k = "$"
        BY <4>1 DEF Framed
      <4> QED
        BY <1>5, <4>2 DEF AllPlain, Plain
    <3> QED
      BY <3>1
  <2>3. SameSent(u, C, T, F)
    BY <1>2, <2>2, MovedKeeps DEF u, SameSent
  <2> QED
    BY <2>1, <2>3, LoopWaits DEF u
<1>6. CASE link.at = "unacked" /\ OnItsWay(link) /\ link.sent \in Packets
  <2>1. PICK m \in Nat : Framed(Stream(link), m, link.sent) /\ Len(link.buf) <= m + 3
    BY <1>6 DEF OnItsWay
  <2>2. link.sent.k \notin {"$", "#"}
    BY <1>6, PacketFacts
  <2>3. Len(b) + Len(w) = m + 5 /\ Len(b) \in Nat /\ Len(w) \in Nat
        /\ \A i \in 1 .. Len(b) : b[i] = Stream(link)[i]
    BY <1>3, <1>4, <2>1 DEF Split, Framed
  <2>4. CASE Len(b) <= m + 3
    <3>1. NoPacket(u.buf)
      BY <1>2, <1>3, <2>1, <2>2, <2>3, <2>4, PartNoPacket
    <3>2. OnItsWay(u)
      BY <1>2, <1>6, <2>1, <2>4 DEF OnItsWay
    <3>3. SameSent(u, C, T, F)
      BY <1>2, <3>2, MovedKeeps DEF u, SameSent
    <3> QED
      BY <3>1, <3>3, LoopWaits DEF u
  <2>5. CASE Len(b) \in {m + 4, m + 5}
    <3> DEFINE r == SubSeq(b, m + 5, Len(b))
    <3>1. PacketAt(b, m, link.sent)
      BY <1>3, <2>1, <2>2, <2>3, <2>5, PacketFound
    <3>2. r \in Seq(Items) /\ AllPlain(r \o w)
      BY <1>3, <2>1, <2>5, RestPlain
    <3>3. r = SubSeq(u.buf, m + 5, Len(u.buf)) /\ PacketAt(u.buf, m, link.sent)
      BY <1>2, <3>1
    <3> HIDE DEF r
    <3>4. SameSent(Taken(u, r, Minus), C, T, F)
      <4>1. LinkOK(Taken(u, r, Minus), C, T, F)
        BY <1>6, <3>2, TakenKeeps DEF u, w
      <4>2. Taken(u, r, Minus).sent = link.sent
        BY <1>2 DEF Taken, Link
      <4> QED
        BY <4>1, <4>2 DEF SameSent
    <3>5. ~LA!Mangled(link.sent) => Executes(link, n, r)
      BY <1>6, <3>2 DEF Executes, w
    <3>6. /\ \/ LA!ParseLoop(u) = Taken(u, r, Minus)
             \/ ~LA!Mangled(link.sent) /\ LA!ParseLoop(u) = LA!processGDBMessage(Acked(u, r), link.sent)
          /\ \/ LH!ParseLoop(u) = Taken(u, r, Minus)
             \/ ~LA!Mangled(link.sent) /\ LH!ParseLoop(u) = LH!processGDBMessage(Acked(u, r), link.sent)
      <4>1. u \in Link(C, T)
        BY <1>2
      <4>2. TakesOrServes(u, r, link.sent)
        BY <3>3, <4>1, LoopTakes, Zenon
      <4> QED
        BY <4>2, Zenon DEF TakesOrServes
    <3>7. \/ SameSent(LA!ParseLoop(u), C, T, F)
          \/ Executes(link, n, r) /\ LA!ParseLoop(u) = LA!processGDBMessage(Acked(u, r), link.sent)
      BY <3>4, <3>5, <3>6, Zenon
    <3>8. \/ SameSent(LH!ParseLoop(u), C, T, F)
          \/ Executes(link, n, r) /\ LH!ParseLoop(u) = LH!processGDBMessage(Acked(u, r), link.sent)
      BY <3>4, <3>5, <3>6, Zenon
    <3> QED
      BY <3>7, <3>8, Zenon DEF u
  <2> QED
    BY <2>3, <2>4, <2>5
<1> QED
  BY <1>1, <1>5, <1>6, OnItsWayOrPlain

LEMMA FeedKeeps ==
  ASSUME NEW C, NEW T, NEW F, LinkOK(link, C, T, F), NEW n \in 1 .. Len(link.wire)
  PROVE  /\ LA!feedData(n) =>
              \/ SameSent(link', C, T, F)
              \/ \E r : Executes(link, n, r)
                        /\ link' = LA!processGDBMessage(Acked(Moved(link, n), r), link.sent)
         /\ LH!feedData(n) =>
              \/ SameSent(link', C, T, F)
              \/ \E r : Executes(link, n, r)
                        /\ link' = LH!processGDBMessage(Acked(Moved(link, n), r), link.sent)
<1>1. link.wire[1].k = "int" /\ link' = Interrupted(link) => SameSent(link', C, T, F)
  <2>1. link.wire[1].k = "int" => SameSent(Interrupted(link), C, T, F)
    <3>1. Interrupted(link).sent = link.sent
      BY DEF LinkOK, Link, Interrupted
    <3> QED
      BY <3>1, InterruptedKeeps DEF SameSent
  <2> QED
    BY <2>1, Zenon
<1>2. LA!feedData(n) => \/ link' = LA!ParseLoop(Moved(link, n))
                        \/ link.wire[1].k = "int" /\ link' = Interrupted(link)
  BY FeedCases
<1>3. LH!feedData(n) => \/ link' = LH!ParseLoop(Moved(link, n))
                        \/ link.wire[1].k = "int" /\ link' = Interrupted(link)
  BY FeedCases
<1>4. \/ SameSent(LA!ParseLoop(Moved(link, n)), C, T, F)
      \/ \E r : /\ Executes(link, n, r)
                /\ LA!ParseLoop(Moved(link, n)) = LA!processGDBMessage(Acked(Moved(link, n), r), link.sent)
  BY LoopKeeps
<1>5. \/ SameSent(LH!ParseLoop(Moved(link, n)), C, T, F)
      \/ \E r : /\ Executes(link, n, r)
                /\ LH!ParseLoop(Moved(link, n)) = LH!processGDBMessage(Acked(Moved(link, n), r), link.sent)
  BY LoopKeeps
<1>6. LA!feedData(n) =>
        \/ SameSent(link', C, T, F)
        \/ \E r : Executes(link, n, r)
                  /\ link' = LA!processGDBMessage(Acked(Moved(link, n), r), link.sent)
  BY <1>1, <1>2, <1>4, Zenon
<1>7. LH!feedData(n) =>
        \/ SameSent(link', C, T, F)
        \/ \E r : Executes(link, n, r)
                  /\ link' = LH!processGDBMessage(Acked(Moved(link, n), r), link.sent)
  BY <1>1, <1>3, <1>5, Zenon
<1> QED
  BY <1>6, <1>7

-----------------------------------------------------------------------------
(* The packets *)

\* What is left to say of a packet that is executed.
Answers(s, u, v, r) ==
  /\ \A a : /\ LA!Respond(v, a) = Executed(u, r, a, s.current, s.running, s.core, s.mem)
            /\ \A c : LA!Respond([v EXCEPT !.current = c], a)
                        = Executed(u, r, a, c, s.running, s.core, s.mem)
            /\ \A x : LA!Respond([v EXCEPT !.core = x], a)
                        = Executed(u, r, a, s.current, s.running, x, s.mem)
            /\ \A m : LA!Respond([v EXCEPT !.mem = m], a)
                        = Executed(u, r, a, s.current, s.running, s.core, m)
  /\ \A c : [v EXCEPT !.running = TRUE, !.current = c] = Executed(u, r, <<>>, c, TRUE, s.core, s.mem)

LEMMA AnswerIs ==
  ASSUME NEW C, NEW T, NEW s \in Link(C, T), NEW n \in 1 .. Len(s.wire), NEW r, s.back = <<>>, s.ran = 0
  PROVE  Answers(s, Moved(s, n), Acked(Moved(s, n), r), r)
<1> DEFINE u == Moved(s, n)
           v == Acked(u, r)
<1>1. /\ u \in Link(C, T) /\ u.back = s.back /\ u.running = s.running /\ u.ran = s.ran
      /\ u.core = s.core /\ u.mem = s.mem /\ u.current = s.current
  BY MovedFacts DEF Kept
<1> HIDE DEF u
<1>2. v = [u EXCEPT !.buf = r, !.back = <<Plus>>, !.ran = 1]
  BY <1>1, Ones DEF Acked, Link
<1>3. <<Plus>> \o <<>> = <<Plus>>
  BY Ones
<1> HIDE DEF v
<1>4. ASSUME NEW a
      PROVE  /\ LA!Respond(v, a) = Executed(u, r, a, s.current, s.running, s.core, s.mem)
             /\ \A c : LA!Respond([v EXCEPT !.current = c], a)
                         = Executed(u, r, a, c, s.running, s.core, s.mem)
             /\ \A x : LA!Respond([v EXCEPT !.core = x], a)
                         = Executed(u, r, a, s.current, s.running, x, s.mem)
             /\ \A m : LA!Respond([v EXCEPT !.mem = m], a)
                         = Executed(u, r, a, s.current, s.running, s.core, m)
  <2> DEFINE b == <<Plus>> \o a
  <2>1. v.back = <<Plus>>
    BY <1>1, <1>2 DEF Link
  <2>2. LA!Respond(v, a) = [v EXCEPT !.back = b]
        /\ \A c : LA!Respond([v EXCEPT !.current = c], a) = [v EXCEPT !.current = c, !.back = b]
        /\ \A x : LA!Respond([v EXCEPT !.core = x], a) = [v EXCEPT !.core = x, !.back = b]
        /\ \A m : LA!Respond([v EXCEPT !.mem = m], a) = [v EXCEPT !.mem = m, !.back = b]
    BY <1>1, <1>2, <2>1 DEF LA!Respond, Link
  <2> HIDE DEF b
  <2>4. LA!Respond(v, a) = Executed(u, r, a, s.current, s.running, s.core, s.mem)
    <3>1. Executed(u, r, a, s.current, s.running, s.core, s.mem)
            = [u EXCEPT !.buf = r, !.back = b, !.ran = 1, !.current = u.current, !.running = u.running,
                    !.core = u.core, !.mem = u.mem]
      BY <1>1, Zenon DEF Executed, b
    <3>2. [v EXCEPT !.back = b]
            = [u EXCEPT !.buf = r, !.back = b, !.ran = 1, !.current = u.current, !.running = u.running,
                    !.core = u.core, !.mem = u.mem]
      BY <1>1, <1>2 DEF Link
    <3> QED
      BY <2>2, <3>1, <3>2
  <2>5. ASSUME NEW c
        PROVE  LA!Respond([v EXCEPT !.current = c], a) = Executed(u, r, a, c, s.running, s.core, s.mem)
    <3>1. Executed(u, r, a, c, s.running, s.core, s.mem)
            = [u EXCEPT !.buf = r, !.back = b, !.ran = 1, !.current = c, !.running = u.running,
                    !.core = u.core, !.mem = u.mem]
      BY <1>1, Zenon DEF Executed, b
    <3>2. [v EXCEPT !.current = c, !.back = b]
            = [u EXCEPT !.buf = r, !.back = b, !.ran = 1, !.current = c, !.running = u.running,
                    !.core = u.core, !.mem = u.mem]
      BY <1>1, <1>2 DEF Link
    <3> QED
      BY <2>2, <3>1, <3>2
  <2>6. ASSUME NEW x
        PROVE  LA!Respond([v EXCEPT !.core = x], a) = Executed(u, r, a, s.current, s.running, x, s.mem)
    <3>1. Executed(u, r, a, s.current, s.running, x, s.mem)
            = [u EXCEPT !.buf = r, !.back = b, !.ran = 1, !.current = u.current, !.running = u.running,
                    !.core = x, !.mem = u.mem]
      BY <1>1, Zenon DEF Executed, b
    <3>2. [v EXCEPT !.core = x, !.back = b]
            = [u EXCEPT !.buf = r, !.back = b, !.ran = 1, !.current = u.current, !.running = u.running,
                    !.core = x, !.mem = u.mem]
      BY <1>1, <1>2 DEF Link
    <3> QED
      BY <2>2, <3>1, <3>2
  <2>7. ASSUME NEW m
        PROVE  LA!Respond([v EXCEPT !.mem = m], a) = Executed(u, r, a, s.current, s.running, s.core, m)
    <3>1. Executed(u, r, a, s.current, s.running, s.core, m)
            = [u EXCEPT !.buf = r, !.back = b, !.ran = 1, !.current = u.current, !.running = u.running,
                    !.core = u.core, !.mem = m]
      BY <1>1, Zenon DEF Executed, b
    <3>2. [v EXCEPT !.mem = m, !.back = b]
            = [u EXCEPT !.buf = r, !.back = b, !.ran = 1, !.current = u.current, !.running = u.running,
                    !.core = u.core, !.mem = m]
      BY <1>1, <1>2 DEF Link
    <3> QED
      BY <2>2, <3>1, <3>2
  <2> QED
    BY <2>4, <2>5, <2>6, <2>7
<1>5. \A c : [v EXCEPT !.running = TRUE, !.current = c] = Executed(u, r, <<>>, c, TRUE, s.core, s.mem)
  <2>1. ASSUME NEW c
        PROVE  [v EXCEPT !.running = TRUE, !.current = c] = Executed(u, r, <<>>, c, TRUE, s.core, s.mem)
    <3>1. Executed(u, r, <<>>, c, TRUE, s.core, s.mem)
            = [u EXCEPT !.buf = r, !.back = <<Plus>>, !.ran = 1, !.current = c, !.running = TRUE,
                        !.core = u.core, !.mem = u.mem]
      BY <1>1, <1>3, Zenon DEF Executed
    <3>2. [v EXCEPT !.running = TRUE, !.current = c]
            = [u EXCEPT !.buf = r, !.back = <<Plus>>, !.ran = 1, !.current = c, !.running = TRUE,
                        !.core = u.core, !.mem = u.mem]
      BY <1>1, <1>2 DEF Link
    <3> QED
      BY <3>1, <3>2
  <2> QED
    BY <2>1
<1> QED
  BY <1>4, <1>5 DEF v, u, Answers

\* Every packet but a write of registers.
LEMMA ServeOthers ==
  ASSUME NEW C, NEW T, NEW F, NEW s, LinkOK(s, C, T, F), NEW n \in 1 .. Len(s.wire), NEW r, Executes(s, n, r),
         s.sent.k \notin {"P", "G"},
         NEW a, a = <<>> \/ \E h \in Halts \cup Replies : a = <<h>>,
         NEW current \in Cores, NEW running \in BOOLEAN, NEW mem \in {0, 1},
         Answered(running, s.sent, a),
         s.sent.k = "H" => current = s.sent.thread,
         s.sent.k \notin {"H", "c"} => current = s.current,
         mem = IF s.sent.k \in {"M", "X"} THEN s.sent.v ELSE s.mem,
         NEW t, t = Executed(Moved(s, n), r, a, current, running, s.core, mem)
  PROVE  LinkOK(t, C, T, F)
<1>1. s \in Link(C, T) /\ Phase(s) /\ Believed(s, F) /\ Selected(s) /\ s.core \in C
  BY LinkTypes DEF LinkOK
<1>2. /\ s.at = "unacked" /\ OnItsWay(s) /\ ~LA!Mangled(s.sent)
      /\ r \in Seq(Items) /\ AllPlain(r \o Remaining(s.wire, n)) /\ s.ran = 0
  BY DEF Executes, OnItsWay
<1>3. Known(s.truth, s.byte, s.core, s.mem, F)
  BY <1>1, <1>2 DEF Believed, Owed
<1>4. t.sent = s.sent /\ t.truth = s.truth /\ t.byte = s.byte
  <2>1. Moved(s, n) \in Link(C, T) /\ Moved(s, n).sent = s.sent /\ Moved(s, n).truth = s.truth
        /\ Moved(s, n).byte = s.byte
    BY <1>1, MovedFacts DEF Kept
  <2> QED
    BY <2>1 DEF Executed, Link
<1>5. LearnedTruth(t) = s.truth
  BY <1>4 DEF LearnedTruth
<1>6. LearnedByte(t) = IF s.sent.k \in {"M", "X"} THEN s.sent.v ELSE s.byte
  BY <1>4 DEF LearnedByte
<1>7. Known(LearnedTruth(t), LearnedByte(t), s.core, mem, F)
  BY <1>3, <1>5, <1>6 DEF Known
<1>8. s.sel # -2 => current = s.sel
  BY <1>1, <1>2 DEF Selected
<1> QED
  BY <1>1, <1>2, <1>7, <1>8, ExecutedKeeps

\* One of the cores has another state, and its registers are known.
LEMMA KnownWrite ==
  ASSUME NEW V, NEW Y, NEW truth \in [Cores -> V], NEW core \in [Cores -> Y], NEW F, NEW byte, NEW mem,
         Known(truth, byte, core, mem, F), NEW c \in Cores, NEW x
  PROVE  Known([truth EXCEPT ![c] = F[x]], byte, [core EXCEPT ![c] = x], mem, F)
  BY DEF Known

LEMMA ServeWrite ==
  ASSUME NEW Y, NEW V, NEW F, NEW s, LinkOK(s, [Cores -> Y], [Cores -> V], F),
         NEW n \in 1 .. Len(s.wire), NEW r, Executes(s, n, r), s.sent.k \in {"P", "G"},
         NEW h \in Replies, NEW x \in Y,
         s.sent.k = "P" => F[x] = Written(F[s.core[s.current]], s.sent.reg, s.sent.v, x.handler),
         s.sent.k = "G" => F[x] = WrittenAll(F[s.core[s.current]], s.sent.v, x.handler),
         NEW t, t = Executed(Moved(s, n), r, <<h>>, s.current, s.running, [s.core EXCEPT ![s.current] = x], s.mem)
  PROVE  LinkOK(t, [Cores -> Y], [Cores -> V], F)
<1> DEFINE C == [Cores -> Y]
           T == [Cores -> V]
           c == s.current
           core == [s.core EXCEPT ![s.current] = x]
<1>1. s \in Link(C, T) /\ Phase(s) /\ Believed(s, F) /\ Selected(s) /\ s.core \in C /\ s.truth \in T
      /\ c \in Cores /\ s.running \in BOOLEAN /\ s.mem \in {0, 1}
  BY LinkTypes DEF LinkOK
<1>2. /\ s.at = "unacked" /\ OnItsWay(s) /\ ~LA!Mangled(s.sent)
      /\ r \in Seq(Items) /\ AllPlain(r \o Remaining(s.wire, n)) /\ s.ran = 0 /\ ~s.running
  BY DEF Executes, OnItsWay
<1>3. Known(s.truth, s.byte, s.core, s.mem, F)
  BY <1>1, <1>2 DEF Believed, Owed
<1>4. s.sel # -2 /\ s.current = s.sel
  BY <1>1, <1>2 DEF Selected
<1>5. t.sent = s.sent /\ t.truth = s.truth /\ t.byte = s.byte /\ t.sel = c /\ t.core = core
  <2>1. Moved(s, n) \in Link(C, T) /\ Moved(s, n).sent = s.sent /\ Moved(s, n).truth = s.truth
        /\ Moved(s, n).byte = s.byte /\ Moved(s, n).sel = s.sel
    BY <1>1, MovedFacts DEF Kept
  <2> HIDE DEF core
  <2>2. t = Executed(Moved(s, n), r, <<h>>, s.current, s.running, core, s.mem)
    BY DEF core
  <2> QED
    BY <1>4, <2>1, <2>2 DEF Executed, Link
<1>6. core \in C /\ core[c] = x
  BY <1>1
<1>7. s.truth[c] = F[s.core[c]]
  BY <1>1, <1>3 DEF Known
<1>8. LearnedTruth(t) = [s.truth EXCEPT ![c] = F[x]]
  <2> HIDE DEF core
  <2>1. CASE s.sent.k = "P"
    BY <1>1, <1>5, <1>6, <1>7, <2>1 DEF LearnedTruth
  <2>2. CASE s.sent.k = "G"
    BY <1>1, <1>5, <1>6, <1>7, <2>2 DEF LearnedTruth
  <2> QED
    BY <2>1, <2>2
<1>9. LearnedByte(t) = s.byte
  BY <1>5 DEF LearnedByte
<1>10. Known([s.truth EXCEPT ![c] = F[x]], s.byte, core, s.mem, F)
  BY <1>1, <1>3, KnownWrite
<1>11. Known(LearnedTruth(t), LearnedByte(t), core, s.mem, F)
  BY <1>8, <1>9, <1>10, Zenon
<1>12. Answered(s.running, s.sent, <<h>>)
  BY <1>2 DEF Answered, Resumes
<1>13. s.sel # -2 => s.current = s.sel
  BY <1>4
<1>14. s.sent.k # "H"
  OBVIOUS
<1>15. t = Executed(Moved(s, n), r, <<h>>, s.current, s.running, core, s.mem)
  OBVIOUS
<1>16. \E g \in Halts \cup Replies : <<h>> = <<g>>
  OBVIOUS
<1> HIDE DEF core, C, T
<1>17. LinkOK(s, C, T, F)
  BY DEF C, T
<1>18. LinkOK(t, C, T, F)
  BY <1>1, <1>2, <1>6, <1>11, <1>12, <1>13, <1>14, <1>15, <1>16, <1>17, ExecutedKeeps, ZenonT(40)
<1> QED
  BY <1>18 DEF C, T

LEMMA ReplyFacts ==
  /\ LA!Reply \in Replies /\ LH!Reply \in Replies /\ LA!Reply = LH!Reply
  /\ \A v \in {0, 1} : [k |-> "value", v |-> v] \in Replies
  /\ \A c \in Cores : LA!Stop(c) \in Halts /\ LA!Stop(c) = LH!Stop(c)
  BY DEF Replies, Halts, LA!Reply, LH!Reply, LA!Stop, LH!Stop

LEMMA SameRespond ==
  ASSUME NEW s, NEW a
  PROVE  LH!Respond(s, a) = LA!Respond(s, a)
  BY DEF LA!Respond, LH!Respond

LEMMA CountedFields ==
  ASSUME NEW C, NEW T, NEW s \in Link(C, T), NEW n \in 1 .. Len(s.wire), NEW r
  PROVE  /\ Acked(Moved(s, n), r).core = s.core /\ Acked(Moved(s, n), r).current = s.current
         /\ Acked(Moved(s, n), r).mem = s.mem
<1>1. Moved(s, n) \in Link(C, T) /\ Kept(s, Moved(s, n))
  BY MovedFacts
<1> QED
  BY <1>1 DEF Acked, Link, Kept

\* The packets that the two servers execute alike.
LEMMA CommonServed ==
  ASSUME NEW C, NEW T, NEW F, LinkOK(link, C, T, F), NEW n \in 1 .. Len(link.wire), NEW r, Executes(link, n, r),
         link.sent \in Packets, link.sent.k \notin {"p", "P", "G"}
  PROVE  /\ LinkOK(LA!processGDBMessage(Acked(Moved(link, n), r), link.sent), C, T, F)
         /\ LinkOK(LH!processGDBMessage(Acked(Moved(link, n), r), link.sent), C, T, F)
<1> DEFINE u == Moved(link, n)
           v == Acked(u, r)
           p == link.sent
<1>1. link \in Link(C, T) /\ link.back = <<>> /\ link.ran = 0 /\ ~link.running
      /\ link.current \in Cores /\ link.running \in BOOLEAN /\ link.mem \in {0, 1}
  BY LinkTypes DEF LinkOK, Executes, OnItsWay
<1>2. v.core = link.core /\ v.current = link.current /\ v.mem = link.mem
  BY <1>1, CountedFields
<1>3. Answers(link, u, v, r)
  BY <1>1, AnswerIs, Zenon
<1>4. \A h \in Halts : \E g \in Halts \cup Replies : <<h>> = <<g>>
  OBVIOUS
<1>5. \A h \in Replies : \E g \in Halts \cup Replies : <<h>> = <<g>>
  OBVIOUS
<1>6. p.k \in {"H", "s", "c", "m", "M", "X"}
  BY PacketFacts
<1> HIDE DEF u, v
<1>7. ASSUME NEW a, NEW current \in Cores, NEW running \in BOOLEAN, NEW mem \in {0, 1},
             a = <<>> \/ \E h \in Halts \cup Replies : a = <<h>>,
             Answered(running, p, a), p.k = "H" => current = p.thread,
             p.k \notin {"H", "c"} => current = link.current,
             mem = IF p.k \in {"M", "X"} THEN p.v ELSE link.mem
      PROVE  LinkOK(Executed(u, r, a, current, running, link.core, mem), C, T, F)
  BY <1>7, ServeOthers DEF u
<1>8. CASE p.k = "H"
  <2>1. p.thread \in Cores
    BY <1>8 DEF Packets, ArmPackets, RiscvPackets
  <2>2. /\ LA!processGDBMessage(v, p) = LA!Respond([v EXCEPT !.current = p.thread], <<LA!Reply>>)
        /\ LH!processGDBMessage(v, p) = LA!Respond([v EXCEPT !.current = p.thread], <<LA!Reply>>)
    BY <1>8, ReplyFacts, SameRespond
       DEF LA!processGDBMessage, LH!processGDBMessage, LA!selectThread, LH!selectThread
  <2>3. Answered(link.running, p, <<LA!Reply>>)
    BY <1>1, <1>8, ReplyFacts DEF Answered, Resumes
  <2>4. LinkOK(Executed(u, r, <<LA!Reply>>, p.thread, link.running, link.core, link.mem), C, T, F)
    BY <1>1, <1>5, <1>7, <1>8, <2>1, <2>3, ReplyFacts
  <2>5. /\ LA!processGDBMessage(v, p) = Executed(u, r, <<LA!Reply>>, p.thread, link.running, link.core, link.mem)
        /\ LH!processGDBMessage(v, p) = Executed(u, r, <<LA!Reply>>, p.thread, link.running, link.core, link.mem)
    BY <1>3, <2>2, Zenon DEF Answers
  <2> QED
    BY <2>4, <2>5 DEF u, v
<1>9. CASE p.k = "s"
  <2>1. p.thread \in Cores
    BY <1>9 DEF Packets, ArmPackets, RiscvPackets
  <2>2. /\ LA!processGDBMessage(v, p) = LA!Respond(v, <<LA!Stop(p.thread)>>)
        /\ LH!processGDBMessage(v, p) = LA!Respond(v, <<LA!Stop(p.thread)>>)
    BY <1>9, <2>1, ReplyFacts, SameRespond DEF LA!processGDBMessage, LH!processGDBMessage
  <2>3. Answered(link.running, p, <<LA!Stop(p.thread)>>)
    BY <1>1, <1>9, <2>1, ReplyFacts DEF Answered, Resumes
  <2>4. LinkOK(Executed(u, r, <<LA!Stop(p.thread)>>, link.current, link.running, link.core, link.mem), C, T, F)
    BY <1>1, <1>4, <1>7, <1>9, <2>1, <2>3, ReplyFacts
  <2>5. /\ LA!processGDBMessage(v, p) = Executed(u, r, <<LA!Stop(p.thread)>>, link.current, link.running, link.core, link.mem)
        /\ LH!processGDBMessage(v, p) = Executed(u, r, <<LA!Stop(p.thread)>>, link.current, link.running, link.core, link.mem)
    BY <1>3, <2>2, Zenon DEF Answers
  <2> QED
    BY <2>4, <2>5 DEF u, v
<1>10. CASE p.k = "c"
  <2> DEFINE c == IF p.thread = -1 THEN link.current ELSE p.thread
  <2>1. c \in Cores
    <3>1. p.thread \in {-1, 0, 1}
      BY <1>10 DEF Packets, ArmPackets, RiscvPackets
    <3> QED
      BY <1>1, <3>1 DEF Cores
  <2>2. /\ LA!processGDBMessage(v, p) = [v EXCEPT !.running = TRUE, !.current = c]
        /\ LH!processGDBMessage(v, p) = [v EXCEPT !.running = TRUE, !.current = c]
    BY <1>2, <1>10
       DEF LA!processGDBMessage, LH!processGDBMessage, LA!resume, LH!resume, LA!Both, LH!Both
  <2> HIDE DEF c
  <2>3. Answered(TRUE, p, <<>>)
    BY <1>10 DEF Answered, Resumes
  <2>4. LinkOK(Executed(u, r, <<>>, c, TRUE, link.core, link.mem), C, T, F)
    BY <1>1, <1>7, <1>10, <2>1, <2>3
  <2>5. /\ LA!processGDBMessage(v, p) = Executed(u, r, <<>>, c, TRUE, link.core, link.mem)
        /\ LH!processGDBMessage(v, p) = Executed(u, r, <<>>, c, TRUE, link.core, link.mem)
    BY <1>3, <2>2, Zenon DEF Answers
  <2> QED
    BY <2>4, <2>5 DEF u, v
<1>11. CASE p.k = "m"
  <2> DEFINE h == [k |-> "value", v |-> link.mem]
  <2>1. h \in Replies
    BY <1>1, ReplyFacts
  <2>2. /\ LA!processGDBMessage(v, p) = LA!Respond(v, <<h>>)
        /\ LH!processGDBMessage(v, p) = LA!Respond(v, <<h>>)
    BY <1>2, <1>11, SameRespond DEF LA!processGDBMessage, LH!processGDBMessage
  <2> HIDE DEF h
  <2>3. Answered(link.running, p, <<h>>)
    BY <1>1, <1>11, <2>1 DEF Answered, Resumes
  <2>4. LinkOK(Executed(u, r, <<h>>, link.current, link.running, link.core, link.mem), C, T, F)
    BY <1>1, <1>5, <1>7, <1>11, <2>1, <2>3
  <2>5. /\ LA!processGDBMessage(v, p) = Executed(u, r, <<h>>, link.current, link.running, link.core, link.mem)
        /\ LH!processGDBMessage(v, p) = Executed(u, r, <<h>>, link.current, link.running, link.core, link.mem)
    BY <1>3, <2>2, Zenon DEF Answers
  <2> QED
    BY <2>4, <2>5 DEF u, v
<1>12. CASE p.k \in {"M", "X"}
  <2>1. p.v \in {0, 1}
    BY <1>12 DEF Packets, ArmPackets, RiscvPackets
  <2>2. /\ LA!processGDBMessage(v, p) = LA!Respond([v EXCEPT !.mem = p.v], <<LA!Reply>>)
        /\ LH!processGDBMessage(v, p) = LA!Respond([v EXCEPT !.mem = p.v], <<LA!Reply>>)
    BY <1>12, ReplyFacts, SameRespond DEF LA!processGDBMessage, LH!processGDBMessage
  <2>3. Answered(link.running, p, <<LA!Reply>>)
    BY <1>1, <1>12, ReplyFacts DEF Answered, Resumes
  <2>4. LinkOK(Executed(u, r, <<LA!Reply>>, link.current, link.running, link.core, p.v), C, T, F)
    BY <1>1, <1>5, <1>7, <1>12, <2>1, <2>3, ReplyFacts
  <2>5. /\ LA!processGDBMessage(v, p) = Executed(u, r, <<LA!Reply>>, link.current, link.running, link.core, p.v)
        /\ LH!processGDBMessage(v, p) = Executed(u, r, <<LA!Reply>>, link.current, link.running, link.core, p.v)
    BY <1>3, <2>2, Zenon DEF Answers
  <2> QED
    BY <2>4, <2>5 DEF u, v
<1> QED
  BY <1>6, <1>8, <1>9, <1>10, <1>11, <1>12 DEF u, v

-----------------------------------------------------------------------------
(* The registers of the two architectures *)

ArmCores == [r : {0, 1}, sp : {0, 1}, banked : {0, 1}, spsel : BOOLEAN, handler : BOOLEAN]
ArmValues == [LA!ArmRegisters -> {0, 1}]
ArmRead == [c \in ArmCores |-> [reg \in LA!ArmRegisters |-> LA!readArm(c, reg)]]

RiscvCores == [x : {0, 1}, pc : {0, 1}, csr : {0, 1}, hart : Cores]
RiscvValues == [LA!RiscvRegisters -> {0, 1}]
RiscvRead == [c \in RiscvCores |-> [reg \in LA!RiscvRegisters |-> LA!readRiscv(c, reg)]]

ReadsArm(f, r, sp, msp, psp, control) ==
  f["r"] = r /\ f["sp"] = sp /\ f["msp"] = msp /\ f["psp"] = psp /\ f["control"] = control
ReadsRiscv(f, x, pc, csr, hart) ==
  f["zero"] = 0 /\ f["x"] = x /\ f["pc"] = pc /\ f["csr"] = csr /\ f["mhartid"] = hart

LEMMA SameArm ==
  ASSUME NEW f \in ArmValues, NEW g \in ArmValues, NEW r, NEW sp, NEW msp, NEW psp, NEW control,
         ReadsArm(f, r, sp, msp, psp, control), ReadsArm(g, r, sp, msp, psp, control)
  PROVE  f = g
<1>1. \A reg \in LA!ArmRegisters : f[reg] = g[reg]
  BY DEF ReadsArm, LA!ArmRegisters
<1> QED
  BY <1>1 DEF ArmValues

LEMMA SameRiscv ==
  ASSUME NEW f \in RiscvValues, NEW g \in RiscvValues, NEW x, NEW pc, NEW csr, NEW hart,
         ReadsRiscv(f, x, pc, csr, hart), ReadsRiscv(g, x, pc, csr, hart)
  PROVE  f = g
<1>1. \A reg \in LA!RiscvRegisters : f[reg] = g[reg]
  BY DEF ReadsRiscv, LA!RiscvRegisters
<1> QED
  BY <1>1 DEF RiscvValues

\* What the registers of a core read as, with either stack in use.
LEMMA ArmReads ==
  ASSUME NEW c \in ArmCores
  PROVE  /\ ArmRead[c] \in ArmValues
         /\ c.spsel => ReadsArm(ArmRead[c], c.r, c.sp, c.banked, c.sp, 1)
         /\ ~c.spsel => ReadsArm(ArmRead[c], c.r, c.sp, c.sp, c.banked, 0)
         /\ \A reg \in LA!ArmRegisters : ArmRead[c][reg] = LA!readArm(c, reg) /\ LA!readArm(c, reg) \in {0, 1}
<1>1. c.r \in {0, 1} /\ c.sp \in {0, 1} /\ c.banked \in {0, 1}
  BY DEF ArmCores
<1>2. /\ LA!readArm(c, "r") = c.r /\ LA!readArm(c, "sp") = c.sp
      /\ LA!readArm(c, "msp") = (IF c.spsel THEN c.banked ELSE c.sp)
      /\ LA!readArm(c, "psp") = (IF c.spsel THEN c.sp ELSE c.banked)
      /\ LA!readArm(c, "control") = (IF c.spsel THEN 1 ELSE 0)
  BY DEF LA!readArm, LA!SPmain, LA!SPprocess
<1>3. \A reg \in LA!ArmRegisters : LA!readArm(c, reg) \in {0, 1}
  BY <1>1, <1>2 DEF LA!ArmRegisters
<1>4. ArmRead[c] = [reg \in LA!ArmRegisters |-> LA!readArm(c, reg)]
  BY DEF ArmRead
<1>5. /\ ArmRead[c] \in ArmValues /\ \A reg \in LA!ArmRegisters : ArmRead[c][reg] = LA!readArm(c, reg)
  BY <1>3, <1>4 DEF ArmValues
<1>6. {"r", "sp", "msp", "psp", "control"} \subseteq LA!ArmRegisters
  BY DEF LA!ArmRegisters
<1>7. c.spsel => ReadsArm(ArmRead[c], c.r, c.sp, c.banked, c.sp, 1)
  BY <1>2, <1>5, <1>6 DEF ReadsArm
<1>8. ~c.spsel => ReadsArm(ArmRead[c], c.r, c.sp, c.sp, c.banked, 0)
  BY <1>2, <1>5, <1>6 DEF ReadsArm
<1> QED
  BY <1>3, <1>5, <1>7, <1>8

LEMMA RiscvReads ==
  ASSUME NEW c \in RiscvCores
  PROVE  /\ RiscvRead[c] \in RiscvValues /\ ReadsRiscv(RiscvRead[c], c.x, c.pc, c.csr, c.hart)
         /\ \A reg \in LA!RiscvRegisters :
              RiscvRead[c][reg] = LA!readRiscv(c, reg) /\ LA!readRiscv(c, reg) \in {0, 1}
<1>1. c.x \in {0, 1} /\ c.pc \in {0, 1} /\ c.csr \in {0, 1} /\ c.hart \in {0, 1}
  BY DEF RiscvCores, Cores
<1>2. /\ LA!readRiscv(c, "zero") = 0 /\ LA!readRiscv(c, "x") = c.x /\ LA!readRiscv(c, "pc") = c.pc
      /\ LA!readRiscv(c, "csr") = c.csr /\ LA!readRiscv(c, "mhartid") = c.hart
  BY DEF LA!readRiscv
<1>3. \A reg \in LA!RiscvRegisters : LA!readRiscv(c, reg) \in {0, 1}
  BY <1>1, <1>2 DEF LA!RiscvRegisters
<1>4. RiscvRead[c] = [reg \in LA!RiscvRegisters |-> LA!readRiscv(c, reg)]
  BY DEF RiscvRead
<1>5. /\ RiscvRead[c] \in RiscvValues /\ \A reg \in LA!RiscvRegisters : RiscvRead[c][reg] = LA!readRiscv(c, reg)
  BY <1>3, <1>4 DEF RiscvValues
<1>6. ReadsRiscv(RiscvRead[c], c.x, c.pc, c.csr, c.hart)
  BY <1>2, <1>5 DEF ReadsRiscv, LA!RiscvRegisters
<1> QED
  BY <1>3, <1>5, <1>6

\* The fields of a core, and what its registers read as, with another value in one or
\* two places.
CoreIs(x, r, sp, banked, spsel, handler) ==
  /\ x \in ArmCores /\ x.r = r /\ x.sp = sp /\ x.banked = banked
  /\ (x.spsel <=> spsel) /\ (x.handler <=> handler)

LEMMA CoreR ==
  ASSUME NEW c \in ArmCores, NEW v \in {0, 1}, NEW x, x = [c EXCEPT !.r = v]
  PROVE  CoreIs(x, v, c.sp, c.banked, c.spsel, c.handler)
  BY DEF ArmCores, CoreIs

LEMMA CoreSp ==
  ASSUME NEW c \in ArmCores, NEW v \in {0, 1}, NEW x, x = [c EXCEPT !.sp = v]
  PROVE  CoreIs(x, c.r, v, c.banked, c.spsel, c.handler)
  BY DEF ArmCores, CoreIs

LEMMA CoreBanked ==
  ASSUME NEW c \in ArmCores, NEW v \in {0, 1}, NEW x, x = [c EXCEPT !.banked = v]
  PROVE  CoreIs(x, c.r, c.sp, v, c.spsel, c.handler)
  BY DEF ArmCores, CoreIs

LEMMA CoreSwitched ==
  ASSUME NEW c \in ArmCores, NEW p \in BOOLEAN, NEW x,
         x = [c EXCEPT !.spsel = p, !.sp = c.banked, !.banked = c.sp]
  PROVE  CoreIs(x, c.r, c.banked, c.sp, p, c.handler)
<1>1. x \in ArmCores
  BY DEF ArmCores
<1>2. x.r = c.r /\ x.sp = c.banked /\ x.banked = c.sp /\ x.spsel = p /\ x.handler = c.handler
  BY DEF ArmCores
<1> QED
  BY <1>1, <1>2 DEF CoreIs

LEMMA CoreSame ==
  ASSUME NEW c \in ArmCores
  PROVE  CoreIs(c, c.r, c.sp, c.banked, c.spsel, c.handler)
  BY DEF ArmCores, CoreIs

ReadsOf(f, x) ==
  /\ x.spsel => ReadsArm(f, x.r, x.sp, x.banked, x.sp, 1)
  /\ ~x.spsel => ReadsArm(f, x.r, x.sp, x.sp, x.banked, 0)

LEMMA ArmReadIs ==
  ASSUME NEW x \in ArmCores, NEW g \in ArmValues, ReadsOf(g, x)
  PROVE  ArmRead[x] = g
<1>1. ArmRead[x] \in ArmValues
  BY ArmReads
<1>2. CASE x.spsel
  <2>1. ReadsArm(g, x.r, x.sp, x.banked, x.sp, 1)
    BY <1>2 DEF ReadsOf
  <2>2. ReadsArm(ArmRead[x], x.r, x.sp, x.banked, x.sp, 1)
    BY <1>2, ArmReads
  <2> QED
    BY <1>1, <2>1, <2>2, SameArm
<1>3. CASE ~x.spsel
  <2>1. ReadsArm(g, x.r, x.sp, x.sp, x.banked, 0)
    BY <1>3 DEF ReadsOf
  <2>2. ReadsArm(ArmRead[x], x.r, x.sp, x.sp, x.banked, 0)
    BY <1>3, ArmReads
  <2> QED
    BY <1>1, <2>1, <2>2, SameArm
<1> QED
  BY <1>2, <1>3

ArmNames == {"r", "sp", "msp", "psp", "control"} \subseteq LA!ArmRegisters

LEMMA ArmFacts ==
  ASSUME NEW c \in ArmCores
  PROVE  /\ ArmRead[c] \in ArmValues /\ ReadsOf(ArmRead[c], c) /\ ArmNames
<1>1. ArmNames
  BY DEF LA!ArmRegisters, ArmNames
<1> QED
  BY <1>1, ArmReads DEF ReadsOf

Changed(f, g, reg, v) ==
  g \in ArmValues /\ g[reg] = v /\ \A q \in LA!ArmRegisters : (q # reg => g[q] = f[q])
ChangedTwice(f, g, reg1, v1, reg2, v2) ==
  g \in ArmValues /\ g[reg1] = v1 /\ g[reg2] = v2
  /\ \A q \in LA!ArmRegisters : (q # reg1 /\ q # reg2 => g[q] = f[q])

LEMMA ArmChanged ==
  ASSUME NEW f \in ArmValues, NEW reg \in LA!ArmRegisters, NEW v \in {0, 1},
         NEW g, g = [f EXCEPT ![reg] = v]
  PROVE  Changed(f, g, reg, v)
  BY DEF ArmValues, Changed

LEMMA ArmChangedTwice ==
  ASSUME NEW f \in ArmValues, NEW reg1 \in LA!ArmRegisters, NEW reg2 \in LA!ArmRegisters, reg1 # reg2,
         NEW v1 \in {0, 1}, NEW v2 \in {0, 1}, NEW g, g = [f EXCEPT ![reg1] = v1, ![reg2] = v2]
  PROVE  ChangedTwice(f, g, reg1, v1, reg2, v2)
<1>1. g \in ArmValues
  BY DEF ArmValues
<1>2. g[reg1] = v1 /\ g[reg2] = v2
  BY DEF ArmValues
<1>3. \A q \in LA!ArmRegisters : (q # reg1 /\ q # reg2 => g[q] = f[q])
  BY DEF ArmValues
<1> QED
  BY <1>1, <1>2, <1>3 DEF ChangedTwice

\* A write of a register is what the debugger takes it for.
WritesAlike(c, reg, v) ==
  /\ LA!writeArm(c, reg, v) \in ArmCores
  /\ ArmRead[LA!writeArm(c, reg, v)] = Written(ArmRead[c], reg, v, LA!writeArm(c, reg, v).handler)

LEMMA ArmWritesR ==
  ASSUME NEW c \in ArmCores, NEW v \in {0, 1}
  PROVE  WritesAlike(c, "r", v)
<1> DEFINE x == LA!writeArm(c, "r", v)
           f == ArmRead[c]
           g == [f EXCEPT !["r"] = v]
<1>1. x = [c EXCEPT !.r = v]
  BY DEF LA!writeArm
<1>2. Written(f, "r", v, x.handler) = g
  BY DEF Written
<1>3. f \in ArmValues /\ ReadsOf(f, c) /\ ArmNames
  BY ArmFacts
<1> HIDE DEF x, f
<1>4. Changed(f, g, "r", v)
  BY <1>3, ArmChanged DEF ArmNames
<1> HIDE DEF g
<1>5. CoreIs(x, v, c.sp, c.banked, c.spsel, c.handler)
  BY <1>1, CoreR
<1>6. ReadsOf(g, x)
  BY <1>3, <1>4, <1>5 DEF ReadsOf, ReadsArm, Changed, ArmNames, CoreIs
<1>7. ArmRead[x] = g
  BY <1>4, <1>5, <1>6, ArmReadIs DEF CoreIs, Changed
<1> QED
  BY <1>2, <1>5, <1>7 DEF WritesAlike, CoreIs, x, f

LEMMA ArmWritesSp ==
  ASSUME NEW c \in ArmCores, NEW v \in {0, 1}
  PROVE  WritesAlike(c, "sp", v)
<1> DEFINE x == LA!writeArm(c, "sp", v)
           f == ArmRead[c]
           stack == IF c.spsel THEN "psp" ELSE "msp"
           g == [f EXCEPT !["sp"] = v, ![stack] = v]
<1>1. x = [c EXCEPT !.sp = v]
  BY DEF LA!writeArm
<1>2. f \in ArmValues /\ ReadsOf(f, c) /\ ArmNames
  BY ArmFacts
<1> HIDE DEF x, f
<1>3. Written(f, "sp", v, x.handler) = g
  <2>1. (IF f["control"] = 1 THEN "psp" ELSE "msp") = stack
    BY <1>2 DEF ReadsOf, ReadsArm
  <2> HIDE DEF stack
  <2>2. Written(f, "sp", v, x.handler) = [f EXCEPT !["sp"] = v, ![IF f["control"] = 1 THEN "psp" ELSE "msp"] = v]
    BY DEF Written
  <2> QED
    BY <2>1, <2>2
<1>4. stack \in {"psp", "msp"} /\ (c.spsel => stack = "psp") /\ (~c.spsel => stack = "msp")
  OBVIOUS
<1> HIDE DEF stack
<1>5. ChangedTwice(f, g, "sp", v, stack, v)
  <2>1. stack \in LA!ArmRegisters /\ "sp" \in LA!ArmRegisters /\ stack # "sp"
    BY <1>2, <1>4 DEF ArmNames
  <2> QED
    BY <1>2, <2>1, ArmChangedTwice
<1> HIDE DEF g
<1>6. CoreIs(x, c.r, v, c.banked, c.spsel, c.handler)
  BY <1>1, CoreSp
<1>7. ReadsOf(g, x)
  <2>1. CASE c.spsel
    BY <1>2, <1>4, <1>5, <1>6, <2>1 DEF ReadsOf, ReadsArm, ChangedTwice, ArmNames, CoreIs
  <2>2. CASE ~c.spsel
    BY <1>2, <1>4, <1>5, <1>6, <2>2 DEF ReadsOf, ReadsArm, ChangedTwice, ArmNames, CoreIs
  <2> QED
    BY <2>1, <2>2
<1>8. ArmRead[x] = g
  BY <1>5, <1>6, <1>7, ArmReadIs DEF CoreIs, ChangedTwice
<1> QED
  BY <1>3, <1>6, <1>8 DEF WritesAlike, CoreIs, x, f

\* The stack pointer of one of the stacks: the one in use, or the other.
LEMMA ArmWritesUsed ==
  ASSUME NEW c \in ArmCores, NEW v \in {0, 1}, NEW reg,
         \/ reg = "psp" /\ c.spsel
         \/ reg = "msp" /\ ~c.spsel
  PROVE  WritesAlike(c, reg, v)
<1> DEFINE x == LA!writeArm(c, reg, v)
           f == ArmRead[c]
           g == [f EXCEPT ![reg] = v, !["sp"] = v]
<1>1. x = [c EXCEPT !.sp = v]
  BY DEF LA!writeArm, LA!writeSpecialRegister
<1>2. f \in ArmValues /\ ReadsOf(f, c) /\ ArmNames
  BY ArmFacts
<1> HIDE DEF x, f
<1>3. Written(f, reg, v, x.handler) = g
  <2>1. CASE reg = "psp" /\ c.spsel
    <3>1. f["control"] = 1
      BY <1>2, <2>1 DEF ReadsOf, ReadsArm
    <3> QED
      BY <2>1, <3>1 DEF Written
  <2>2. CASE reg = "msp" /\ ~c.spsel
    <3>1. f["control"] = 0
      BY <1>2, <2>2 DEF ReadsOf, ReadsArm
    <3> QED
      BY <2>2, <3>1 DEF Written
  <2> QED
    BY <2>1, <2>2
<1>4. ChangedTwice(f, g, reg, v, "sp", v)
  <2>1. reg \in LA!ArmRegisters /\ "sp" \in LA!ArmRegisters /\ reg # "sp"
    BY <1>2 DEF ArmNames
  <2> QED
    BY <1>2, <2>1, ArmChangedTwice
<1> HIDE DEF g
<1>5. CoreIs(x, c.r, v, c.banked, c.spsel, c.handler)
  BY <1>1, CoreSp
<1>6. ReadsOf(g, x)
  <2>1. CASE c.spsel
    BY <1>2, <1>4, <1>5, <2>1 DEF ReadsOf, ReadsArm, ChangedTwice, ArmNames, CoreIs
  <2>2. CASE ~c.spsel
    BY <1>2, <1>4, <1>5, <2>2 DEF ReadsOf, ReadsArm, ChangedTwice, ArmNames, CoreIs
  <2> QED
    BY <2>1, <2>2
<1>7. ArmRead[x] = g
  BY <1>4, <1>5, <1>6, ArmReadIs DEF CoreIs, ChangedTwice
<1> QED
  BY <1>3, <1>5, <1>7 DEF WritesAlike, CoreIs, x, f

LEMMA ArmWritesOther ==
  ASSUME NEW c \in ArmCores, NEW v \in {0, 1}, NEW reg,
         \/ reg = "psp" /\ ~c.spsel
         \/ reg = "msp" /\ c.spsel
  PROVE  WritesAlike(c, reg, v)
<1> DEFINE x == LA!writeArm(c, reg, v)
           f == ArmRead[c]
           g == [f EXCEPT ![reg] = v]
<1>1. x = [c EXCEPT !.banked = v]
  BY DEF LA!writeArm, LA!writeSpecialRegister
<1>2. f \in ArmValues /\ ReadsOf(f, c) /\ ArmNames
  BY ArmFacts
<1> HIDE DEF x, f
<1>3. Written(f, reg, v, x.handler) = g
  <2>1. [f EXCEPT ![reg] = v, !["sp"] = @] = g
    BY <1>2 DEF ArmValues
  <2>2. CASE reg = "psp" /\ ~c.spsel
    <3>1. f["control"] = 0
      BY <1>2, <2>2 DEF ReadsOf, ReadsArm
    <3>2. ~((reg = "psp") = (f["control"] = 1)) /\ reg = "psp"
      BY <2>2, <3>1
    <3> HIDE DEF g
    <3> QED
      BY <2>1, <3>2 DEF Written
  <2>3. CASE reg = "msp" /\ c.spsel
    <3>1. f["control"] = 1
      BY <1>2, <2>3 DEF ReadsOf, ReadsArm
    <3> QED
      BY <2>1, <2>3, <3>1 DEF Written
  <2> QED
    BY <2>2, <2>3
<1>4. Changed(f, g, reg, v)
  <2>1. reg \in LA!ArmRegisters
    BY <1>2 DEF ArmNames
  <2> QED
    BY <1>2, <2>1, ArmChanged
<1> HIDE DEF g
<1>5. CoreIs(x, c.r, c.sp, v, c.spsel, c.handler)
  BY <1>1, CoreBanked
<1>6. ReadsOf(g, x)
  <2>1. CASE c.spsel
    BY <1>2, <1>4, <1>5, <2>1 DEF ReadsOf, ReadsArm, Changed, ArmNames, CoreIs
  <2>2. CASE ~c.spsel
    BY <1>2, <1>4, <1>5, <2>2 DEF ReadsOf, ReadsArm, Changed, ArmNames, CoreIs
  <2> QED
    BY <2>1, <2>2
<1>7. ArmRead[x] = g
  BY <1>4, <1>5, <1>6, ArmReadIs DEF CoreIs, Changed
<1> QED
  BY <1>3, <1>5, <1>7 DEF WritesAlike, CoreIs, x, f

LEMMA WrittenFixed ==
  ASSUME NEW t, NEW v, NEW fixed, fixed
  PROVE  Written(t, "control", v, fixed) = t
  BY DEF Written

\* A handler keeps its stack; a thread exchanges them, when it asks for the other.
LEMMA ArmWritesControl ==
  ASSUME NEW c \in ArmCores, NEW v \in {0, 1}
  PROVE  WritesAlike(c, "control", v)
<1> DEFINE x == LA!writeArm(c, "control", v)
           f == ArmRead[c]
           p == v = 1
           stack == IF v = 1 THEN "psp" ELSE "msp"
           sp == f[stack]
           g == [f EXCEPT !["control"] = v, !["sp"] = sp]
<1>1. x = IF c.handler THEN c ELSE LA!switchStack(c, v = 1)
  BY DEF LA!writeArm, LA!writeSpecialRegister
<1>2. f \in ArmValues /\ ReadsOf(f, c) /\ ArmNames
  BY ArmFacts
<1>3. CASE c.handler
  <2>1. x = c
    BY <1>1, <1>3
  <2>2. Written(f, "control", v, c.handler) = f
    BY <1>3, WrittenFixed
  <2> QED
    BY <2>1, <2>2 DEF WritesAlike
<1>4. CASE ~c.handler
  <2>1. CoreIs(c, c.r, c.sp, c.banked, c.spsel, c.handler)
    BY CoreSame
  <2>2. /\ (c.spsel <=> v = 1) => x = c
        /\ ~(c.spsel <=> v = 1) => x = [c EXCEPT !.spsel = p, !.sp = c.banked, !.banked = c.sp]
    <3>1. c.spsel \in BOOLEAN
      BY DEF ArmCores
    <3>2. x = LA!switchStack(c, v = 1)
      BY <1>1, <1>4
    <3> HIDE DEF x
    <3>3. (c.spsel = (v = 1)) <=> (c.spsel <=> v = 1)
      BY <3>1
    <3> QED
      BY <3>2, <3>3, Zenon DEF LA!switchStack
  <2> HIDE DEF x, f
  <2>3. \/ (c.spsel <=> v = 1) /\ CoreIs(x, c.r, c.sp, c.banked, c.spsel, c.handler)
        \/ ~(c.spsel <=> v = 1) /\ CoreIs(x, c.r, c.banked, c.sp, p, c.handler)
    <3>1. p \in BOOLEAN
      OBVIOUS
    <3> HIDE DEF p
    <3>2. x = [c EXCEPT !.spsel = p, !.sp = c.banked, !.banked = c.sp] => CoreIs(x, c.r, c.banked, c.sp, p, c.handler)
      BY <3>1, CoreSwitched
    <3> QED
      BY <2>1, <2>2, <3>2
  <2>4. ~x.handler /\ x \in ArmCores
    BY <1>4, <2>3 DEF CoreIs
  <2>5. Written(f, "control", v, x.handler) = g
    BY <2>4 DEF Written
  <2>6. sp \in {0, 1}
    BY <1>2 DEF ArmValues, ArmNames
  <2>7. ChangedTwice(f, g, "control", v, "sp", sp)
    <3> HIDE DEF sp
    <3>1. "control" \in LA!ArmRegisters /\ "sp" \in LA!ArmRegisters /\ "control" # "sp"
      BY <1>2 DEF ArmNames
    <3> QED
      BY <1>2, <2>6, <3>1, ArmChangedTwice
  <2> HIDE DEF g
  <2>8. ReadsOf(g, x)
    <3>1. CASE v = 1 /\ c.spsel
      BY <1>2, <2>3, <2>7, <3>1 DEF ReadsOf, ReadsArm, ChangedTwice, ArmNames, CoreIs
    <3>2. CASE v = 1 /\ ~c.spsel
      BY <1>2, <2>3, <2>7, <3>2 DEF ReadsOf, ReadsArm, ChangedTwice, ArmNames, CoreIs
    <3>3. CASE v = 0 /\ c.spsel
      BY <1>2, <2>3, <2>7, <3>3 DEF ReadsOf, ReadsArm, ChangedTwice, ArmNames, CoreIs
    <3>4. CASE v = 0 /\ ~c.spsel
      BY <1>2, <2>3, <2>7, <3>4 DEF ReadsOf, ReadsArm, ChangedTwice, ArmNames, CoreIs
    <3> QED
      BY <3>1, <3>2, <3>3, <3>4
  <2>9. ArmRead[x] = g
    BY <2>4, <2>7, <2>8, ArmReadIs DEF ChangedTwice
  <2> QED
    BY <2>4, <2>5, <2>9 DEF WritesAlike, x, f
<1> QED
  BY <1>3, <1>4

LEMMA ArmWrites ==
  ASSUME NEW c \in ArmCores, NEW reg \in LA!ArmRegisters, NEW v \in {0, 1}
  PROVE  WritesAlike(c, reg, v)
<1>1. reg \in {"r", "sp", "msp", "psp", "control"}
  BY DEF LA!ArmRegisters
<1> QED
  BY <1>1, ArmWritesR, ArmWritesSp, ArmWritesUsed, ArmWritesOther, ArmWritesControl

RiscvNames == {"zero", "x", "pc", "csr", "mhartid"} \subseteq LA!RiscvRegisters

LEMMA RiscvReadIs ==
  ASSUME NEW x \in RiscvCores, NEW g \in RiscvValues, ReadsRiscv(g, x.x, x.pc, x.csr, x.hart)
  PROVE  RiscvRead[x] = g
  BY RiscvReads, SameRiscv

LEMMA RiscvWrites ==
  ASSUME NEW c \in RiscvCores, NEW reg \in LA!RiscvRegisters, NEW v \in {0, 1}, NEW fixed
  PROVE  /\ LA!writeRiscv(c, reg, v) \in RiscvCores
         /\ RiscvRead[LA!writeRiscv(c, reg, v)] = Written(RiscvRead[c], reg, v, fixed)
<1> DEFINE x == LA!writeRiscv(c, reg, v)
           f == RiscvRead[c]
<1>1. reg \in {"zero", "x", "pc", "csr", "mhartid"}
  BY DEF LA!RiscvRegisters
<1>2. f \in RiscvValues /\ ReadsRiscv(f, c.x, c.pc, c.csr, c.hart)
  BY RiscvReads
<1>3. RiscvNames
  BY DEF RiscvNames, LA!RiscvRegisters
<1> HIDE DEF f
<1>4. CASE reg \in {"zero", "mhartid"}
  <2>1. x = c
    BY <1>4 DEF LA!writeRiscv
  <2>2. Written(f, reg, v, fixed) = f
    BY <1>4 DEF Written
  <2> QED
    BY <2>1, <2>2 DEF f
<1>5. CASE reg \in {"x", "pc", "csr"}
  <2> DEFINE g == [f EXCEPT ![reg] = v]
  <2>1. Written(f, reg, v, fixed) = g
    BY <1>5 DEF Written
  <2>2. g \in RiscvValues /\ g[reg] = v /\ \A q \in LA!RiscvRegisters : (q # reg => g[q] = f[q])
    BY <1>2 DEF RiscvValues
  <2> HIDE DEF g
  <2>3. x \in RiscvCores /\ ReadsRiscv(g, x.x, x.pc, x.csr, x.hart)
    <3>1. CASE reg = "x"
      <4>1. x = [c EXCEPT !.x = v]
        BY <3>1 DEF LA!writeRiscv
      <4> HIDE DEF x
      <4>2. x \in RiscvCores /\ x.x = v /\ x.pc = c.pc /\ x.csr = c.csr /\ x.hart = c.hart
        BY <4>1 DEF RiscvCores
      <4> QED
        BY <1>2, <1>3, <2>2, <3>1, <4>2 DEF ReadsRiscv, RiscvNames
    <3>2. CASE reg = "pc"
      <4>1. x = [c EXCEPT !.pc = v]
        BY <3>2 DEF LA!writeRiscv
      <4> HIDE DEF x
      <4>2. x \in RiscvCores /\ x.x = c.x /\ x.pc = v /\ x.csr = c.csr /\ x.hart = c.hart
        BY <4>1 DEF RiscvCores
      <4> QED
        BY <1>2, <1>3, <2>2, <3>2, <4>2 DEF ReadsRiscv, RiscvNames
    <3>3. CASE reg = "csr"
      <4>1. x = [c EXCEPT !.csr = v]
        BY <3>3 DEF LA!writeRiscv
      <4> HIDE DEF x
      <4>2. x \in RiscvCores /\ x.x = c.x /\ x.pc = c.pc /\ x.csr = v /\ x.hart = c.hart
        BY <4>1 DEF RiscvCores
      <4> QED
        BY <1>2, <1>3, <2>2, <3>3, <4>2 DEF ReadsRiscv, RiscvNames
    <3> QED
      BY <1>5, <3>1, <3>2, <3>3
  <2> HIDE DEF x
  <2>4. RiscvRead[x] = g
    BY <2>2, <2>3, RiscvReadIs
  <2> QED
    BY <2>1, <2>3, <2>4 DEF x, f
<1> QED
  BY <1>1, <1>4, <1>5

LEMMA RiscvWritesAll ==
  ASSUME NEW c \in RiscvCores, NEW v \in {0, 1}, NEW fixed
  PROVE  /\ LH!WriteAll(c, v) \in RiscvCores
         /\ RiscvRead[LH!WriteAll(c, v)] = WrittenAll(RiscvRead[c], v, fixed)
<1> DEFINE x1 == LA!writeRiscv(c, "x", v)
           x2 == LA!writeRiscv(x1, "pc", v)
           x3 == LA!writeRiscv(x2, "csr", v)
<1>1. "x" \in LA!RiscvRegisters /\ "pc" \in LA!RiscvRegisters /\ "csr" \in LA!RiscvRegisters
  BY DEF LA!RiscvRegisters
<1>2. LH!WriteAll(c, v) = x3
  BY DEF LH!WriteAll, LA!writeRiscv, LH!writeRiscv
<1>3. x1 \in RiscvCores /\ RiscvRead[x1] = Written(RiscvRead[c], "x", v, fixed)
  BY <1>1, RiscvWrites
<1> HIDE DEF x1
<1>4. x2 \in RiscvCores /\ RiscvRead[x2] = Written(RiscvRead[x1], "pc", v, fixed)
  BY <1>1, <1>3, RiscvWrites
<1> HIDE DEF x2
<1>5. x3 \in RiscvCores /\ RiscvRead[x3] = Written(RiscvRead[x2], "csr", v, fixed)
  BY <1>1, <1>4, RiscvWrites
<1> HIDE DEF x3
<1> QED
  BY <1>2, <1>3, <1>4, <1>5 DEF WrittenAll

-----------------------------------------------------------------------------
\* The reads and the writes of registers.
ArmLink(s) == LinkOK(s, [Cores -> ArmCores], [Cores -> ArmValues], ArmRead)
RiscvLink(s) == LinkOK(s, [Cores -> RiscvCores], [Cores -> RiscvValues], RiscvRead)

\* A register is read: the server answers, and nothing changes.
LEMMA ReadServed ==
  ASSUME NEW C, NEW T, NEW F, LinkOK(link, C, T, F), NEW n \in 1 .. Len(link.wire), NEW r, Executes(link, n, r),
         link.sent.k = "p", NEW x \in {0, 1}
  PROVE  LinkOK(LA!Respond(Acked(Moved(link, n), r), <<[k |-> "value", v |-> x]>>), C, T, F)
<1> DEFINE u == Moved(link, n)
           v == Acked(u, r)
           h == [k |-> "value", v |-> x]
<1>1. link \in Link(C, T) /\ link.back = <<>> /\ link.ran = 0 /\ ~link.running
      /\ link.current \in Cores /\ link.running \in BOOLEAN /\ link.mem \in {0, 1}
  BY LinkTypes DEF LinkOK, Executes, OnItsWay
<1>2. Answers(link, u, v, r)
  BY <1>1, AnswerIs, Zenon
<1>3. h \in Replies
  BY ReplyFacts
<1>4. \E g \in Halts \cup Replies : <<h>> = <<g>>
  BY <1>3
<1> HIDE DEF u, v, h
<1>5. Answered(link.running, link.sent, <<h>>)
  BY <1>1, <1>3 DEF Answered, Resumes
<1>6. LinkOK(Executed(u, r, <<h>>, link.current, link.running, link.core, link.mem), C, T, F)
  BY <1>1, <1>4, <1>5, ServeOthers DEF u
<1>7. LA!Respond(v, <<h>>) = Executed(u, r, <<h>>, link.current, link.running, link.core, link.mem)
  BY <1>2, Zenon DEF Answers
<1> QED
  BY <1>6, <1>7 DEF u, v, h

LEMMA WriteServed ==
  ASSUME NEW Y, NEW V, NEW F, LinkOK(link, [Cores -> Y], [Cores -> V], F),
         NEW n \in 1 .. Len(link.wire), NEW r, Executes(link, n, r), link.sent.k \in {"P", "G"}, NEW x \in Y,
         link.sent.k = "P" => F[x] = Written(F[link.core[link.current]], link.sent.reg, link.sent.v, x.handler),
         link.sent.k = "G" => F[x] = WrittenAll(F[link.core[link.current]], link.sent.v, x.handler)
  PROVE  LinkOK(LA!Respond([Acked(Moved(link, n), r) EXCEPT !.core = [link.core EXCEPT ![link.current] = x]],
                           <<LA!Reply>>), [Cores -> Y], [Cores -> V], F)
<1> DEFINE u == Moved(link, n)
           v == Acked(u, r)
           core == [link.core EXCEPT ![link.current] = x]
           t == Executed(u, r, <<LA!Reply>>, link.current, link.running, core, link.mem)
<1>1. link \in Link([Cores -> Y], [Cores -> V]) /\ link.back = <<>> /\ link.ran = 0
  BY LinkTypes DEF LinkOK, Executes, OnItsWay
<1>2. Answers(link, u, v, r)
  BY <1>1, AnswerIs, Zenon
<1>3. LA!Reply \in Replies
  BY ReplyFacts
<1>4. LinkOK(t, [Cores -> Y], [Cores -> V], F)
  BY <1>3, ServeWrite
<1> HIDE DEF u, v, core
<1>5. LA!Respond([v EXCEPT !.core = core], <<LA!Reply>>) = t
  BY <1>2, Zenon DEF Answers
<1> QED
  BY <1>4, <1>5 DEF u, v, core

LEMMA ArmServed ==
  ASSUME ArmLink(link), link.sent \in ArmPackets, NEW n \in 1 .. Len(link.wire), NEW r, Executes(link, n, r)
  PROVE  ArmLink(LA!processGDBMessage(Acked(Moved(link, n), r), link.sent))
<1> DEFINE C == [Cores -> ArmCores]
           T == [Cores -> ArmValues]
           v == Acked(Moved(link, n), r)
           p == link.sent
<1>1. LinkOK(link, C, T, ArmRead)
  BY DEF ArmLink
<1>2. link \in Link(C, T) /\ link.core \in C /\ link.current \in Cores /\ p \in Packets
  BY <1>1, LinkTypes DEF LinkOK, Packets
<1>3. v.core = link.core /\ v.current = link.current
  BY <1>2, CountedFields
<1>4. link.core[link.current] \in ArmCores
  BY <1>2
<1> HIDE DEF v
<1>5. CASE p.k = "p"
  <2>1. p.reg \in LA!ArmRegisters
    BY <1>5 DEF ArmPackets
  <2> DEFINE x == LA!readArm(link.core[link.current], p.reg)
  <2>2. x \in {0, 1}
    BY <1>4, <2>1, ArmReads
  <2>3. LA!processGDBMessage(v, p) = LA!Respond(v, <<[k |-> "value", v |-> x]>>)
    BY <1>3, <1>5 DEF LA!processGDBMessage, LA!readRegister
  <2> HIDE DEF x
  <2>4. LinkOK(LA!Respond(v, <<[k |-> "value", v |-> x]>>), C, T, ArmRead)
    BY <1>1, <1>5, <2>2, ReadServed DEF v
  <2> QED
    BY <2>3, <2>4 DEF ArmLink, v
<1>6. CASE p.k = "P"
  <2>1. p.reg \in LA!ArmRegisters /\ p.v \in {0, 1}
    BY <1>6 DEF ArmPackets
  <2> DEFINE x == LA!writeArm(link.core[link.current], p.reg, p.v)
             core == [link.core EXCEPT ![link.current] = x]
  <2>2. x \in ArmCores /\ ArmRead[x] = Written(ArmRead[link.core[link.current]], p.reg, p.v, x.handler)
    BY <1>4, <2>1, ArmWrites DEF WritesAlike
  <2>3. LA!processGDBMessage(v, p) = LA!Respond([v EXCEPT !.core = core], <<LA!Reply>>)
    BY <1>3, <1>6 DEF LA!processGDBMessage, LA!writeRegister
  <2> HIDE DEF x
  <2>4. LinkOK(LA!Respond([v EXCEPT !.core = core], <<LA!Reply>>), C, T, ArmRead)
    BY <1>1, <1>6, <2>2, WriteServed DEF v
  <2> QED
    BY <2>3, <2>4 DEF ArmLink, v
<1>7. CASE p.k \notin {"p", "P", "G"}
  BY <1>1, <1>2, <1>7, CommonServed DEF ArmLink, v
<1>8. p.k # "G"
  BY DEF ArmPackets
<1> QED
  BY <1>5, <1>6, <1>7, <1>8

LEMMA SameRiscvAccess ==
  /\ \A c, reg : LH!readRegister(c, reg) = LA!readRiscv(c, reg)
  /\ \A c, reg, v : LH!writeRegister(c, reg, v) = LA!writeRiscv(c, reg, v)
  BY DEF LH!readRegister, LH!readRiscv, LA!readRiscv, LH!writeRegister, LH!writeRiscv, LA!writeRiscv

LEMMA RiscvServed ==
  ASSUME RiscvLink(link), link.sent \in RiscvPackets, NEW n \in 1 .. Len(link.wire), NEW r, Executes(link, n, r)
  PROVE  RiscvLink(LH!processGDBMessage(Acked(Moved(link, n), r), link.sent))
<1> DEFINE C == [Cores -> RiscvCores]
           T == [Cores -> RiscvValues]
           v == Acked(Moved(link, n), r)
           p == link.sent
           c == link.core[link.current]
<1>1. LinkOK(link, C, T, RiscvRead)
  BY DEF RiscvLink
<1>2. link \in Link(C, T) /\ link.core \in C /\ link.current \in Cores /\ p \in Packets
  BY <1>1, LinkTypes DEF LinkOK, Packets
<1>3. v.core = link.core /\ v.current = link.current
  BY <1>2, CountedFields
<1>4. c \in RiscvCores
  BY <1>2
<1> HIDE DEF v
<1>5. CASE p.k = "p"
  <2>1. p.reg \in LA!RiscvRegisters
    BY <1>5 DEF RiscvPackets
  <2> DEFINE x == LA!readRiscv(c, p.reg)
  <2>2. x \in {0, 1}
    BY <1>4, <2>1, RiscvReads
  <2>3. LH!processGDBMessage(v, p) = LA!Respond(v, <<[k |-> "value", v |-> x]>>)
    BY <1>3, <1>5, SameRespond, SameRiscvAccess DEF LH!processGDBMessage
  <2> HIDE DEF x
  <2>4. LinkOK(LA!Respond(v, <<[k |-> "value", v |-> x]>>), C, T, RiscvRead)
    BY <1>1, <1>5, <2>2, ReadServed DEF v
  <2> QED
    BY <2>3, <2>4 DEF RiscvLink, v
<1>6. CASE p.k = "P"
  <2>1. p.reg \in LA!RiscvRegisters /\ p.v \in {0, 1}
    BY <1>6 DEF RiscvPackets
  <2> DEFINE x == LA!writeRiscv(c, p.reg, p.v)
             core == [link.core EXCEPT ![link.current] = x]
  <2>2. x \in RiscvCores /\ RiscvRead[x] = Written(RiscvRead[c], p.reg, p.v, x.handler)
    <3>1. \A fixed : x \in RiscvCores /\ RiscvRead[x] = Written(RiscvRead[c], p.reg, p.v, fixed)
      BY <1>4, <2>1, RiscvWrites
    <3> HIDE DEF x
    <3> QED
      BY <3>1
  <2>3. LH!processGDBMessage(v, p) = LA!Respond([v EXCEPT !.core = core], <<LA!Reply>>)
    BY <1>3, <1>6, SameRespond, SameRiscvAccess, ReplyFacts DEF LH!processGDBMessage
  <2> HIDE DEF x
  <2>4. LinkOK(LA!Respond([v EXCEPT !.core = core], <<LA!Reply>>), C, T, RiscvRead)
    BY <1>1, <1>6, <2>2, WriteServed DEF v
  <2> QED
    BY <2>3, <2>4 DEF RiscvLink, v
<1>7. CASE p.k = "G"
  <2>1. p.v \in {0, 1}
    BY <1>7 DEF RiscvPackets
  <2> DEFINE x == LH!WriteAll(c, p.v)
             core == [link.core EXCEPT ![link.current] = x]
  <2>2. x \in RiscvCores /\ RiscvRead[x] = WrittenAll(RiscvRead[c], p.v, x.handler)
    <3>1. \A fixed : x \in RiscvCores /\ RiscvRead[x] = WrittenAll(RiscvRead[c], p.v, fixed)
      BY <1>4, <2>1, RiscvWritesAll
    <3> HIDE DEF x
    <3> QED
      BY <3>1
  <2>3. LH!processGDBMessage(v, p) = LA!Respond([v EXCEPT !.core = core], <<LA!Reply>>)
    BY <1>3, <1>7, SameRespond, ReplyFacts DEF LH!processGDBMessage
  <2> HIDE DEF x
  <2>4. LinkOK(LA!Respond([v EXCEPT !.core = core], <<LA!Reply>>), C, T, RiscvRead)
    BY <1>1, <1>7, <2>2, WriteServed DEF v
  <2> QED
    BY <2>3, <2>4 DEF RiscvLink, v
<1>8. CASE p.k \notin {"p", "P", "G"}
  BY <1>1, <1>2, <1>8, CommonServed DEF RiscvLink, v
<1> QED
  BY <1>5, <1>6, <1>7, <1>8

-----------------------------------------------------------------------------
\* What the debugger learns is of the registers it knows.
LEMMA LearnedType ==
  ASSUME NEW Y, NEW V, NEW F \in [Y -> V], LinkOK(link, [Cores -> Y], [Cores -> V], F), Owed(link)
  PROVE  LearnedTruth(link) \in [Cores -> V]
<1>1. link \in Link([Cores -> Y], [Cores -> V]) /\ link.core \in [Cores -> Y] /\ link.truth \in [Cores -> V]
  BY LinkTypes DEF LinkOK
<1>2. \A c \in Cores : LearnedTruth(link)[c] = F[link.core[c]]
  BY DEF LinkOK, Believed, Known
<1>3. \A c \in Cores : F[link.core[c]] \in V
  BY <1>1
<1>4. LearnedTruth(link) = [c \in Cores |-> LearnedTruth(link)[c]]
  <2>1. CASE link.sent.k = "P"
    BY <1>1, <2>1 DEF LearnedTruth
  <2>2. CASE link.sent.k = "G"
    BY <1>1, <2>2 DEF LearnedTruth
  <2>3. CASE link.sent.k \notin {"P", "G"}
    BY <1>1, <2>3 DEF LearnedTruth
  <2> QED
    BY <2>1, <2>2, <2>3
<1> QED
  BY <1>2, <1>3, <1>4

\* What was sent changes only when the debugger sends.
LEMMA SentKept ==
  ASSUME NEW C, NEW T, NEW F, LinkOK(link, C, T, F)
  PROVE  /\ \A c : LA!onBreakpoint(c) => link'.sent = link.sent
         /\ LA!CtrlC \/ LA!SwitchThread => link'.sent = link.sent
         /\ LA!Hear => link'.sent \in {link.sent, Nothing}
<1>1. link \in Link(C, T)
  BY DEF LinkOK
<1>2. \A c : LA!onBreakpoint(c) => link'.sent = link.sent
  BY <1>1 DEF LA!onBreakpoint, LA!Respond, Link
<1>3. LA!CtrlC => link'.sent = link.sent
  BY <1>1 DEF LA!CtrlC, Link
<1>4. LA!SwitchThread => link'.sent = link.sent
  BY <1>1 DEF LA!SwitchThread, Link
<1>5. ASSUME LA!Hear
      PROVE  link'.sent \in {link.sent, Nothing}
  <2> DEFINE s == [link EXCEPT !.back = Tail(@)]
  <2>1. s.sent = link.sent /\ "sent" \in DOMAIN s
    BY <1>1 DEF Link
  <2>2. CASE Head(link.back) \in Replies /\ Tail(link.back) = <<>> /\ link.sent \in Packets
    <3>1. link' = Told(link)
      BY <1>1, <1>5, <2>2, LearnIsTold
    <3> QED
      BY <1>1, <3>1 DEF Told, Link
  <2>3. CASE Head(link.back) \in {Plus, Minus} \cup Halts
    <3>1. Head(link.back).k \in {"+", "-", "stop", "S02"}
      BY <2>3, NotHeard
    <3>2. CASE Head(link.back).k = "+"
      BY <1>1, <1>5, <3>2 DEF LA!Hear, Link
    <3>3. CASE Head(link.back).k = "-"
      BY <1>1, <1>5, <3>3 DEF LA!Hear, Link, LA!None, Nothing
    <3>4. CASE Head(link.back).k = "stop"
      BY <1>1, <1>5, <3>4 DEF LA!Hear, LA!Acknowledge, Link
    <3>5. CASE Head(link.back).k = "S02"
      BY <1>1, <1>5, <3>5 DEF LA!Hear, LA!Acknowledge, Link
    <3> QED
      BY <3>1, <3>2, <3>3, <3>4, <3>5
  <2>4. link.back # <<>>
    BY <1>5 DEF LA!Hear
  <2>5. link.at = "reply" => link.sent \in Packets
    BY DEF LinkOK, Phase
  <2> QED
    BY <2>2, <2>3, <2>4, <2>5, NextHeard
<1> QED
  BY <1>2, <1>3, <1>4, <1>5

LEMMA ServedSent ==
  ASSUME NEW C, NEW T, NEW s \in Link(C, T), NEW n \in 1 .. Len(s.wire), NEW r, s.sent \in Packets
  PROVE  /\ LA!processGDBMessage(Acked(Moved(s, n), r), s.sent).sent = s.sent
         /\ LH!processGDBMessage(Acked(Moved(s, n), r), s.sent).sent = s.sent
<1> DEFINE v == Acked(Moved(s, n), r)
           p == s.sent
<1>1. Moved(s, n) \in Link(C, T) /\ Moved(s, n).sent = s.sent
  BY MovedFacts
<1>2. v.sent = p /\ "sent" \in DOMAIN v
  BY <1>1 DEF Acked, Link
<1> HIDE DEF v
<1>3. p.k \in {"H", "s", "c", "m", "M", "X", "p", "P", "G"}
  BY PacketFacts
<1>4. LA!processGDBMessage(v, p).sent = p
  BY <1>2, <1>3 DEF LA!processGDBMessage, LA!Respond, LA!selectThread, LA!resume
<1>5. LH!processGDBMessage(v, p).sent = p
  BY <1>2, <1>3 DEF LH!processGDBMessage, LH!Respond, LH!selectThread, LH!resume
<1> QED
  BY <1>4, <1>5 DEF v

\* The debugger sends a packet of P.
SentOf(P) ==
  \E p \in P, sel \in {link.sel, -2}, resumed \in {-1, 0, 1} :
    /\ p.k \in {"P", "G"} => sel # -2
    /\ p.k \in {"H", "c"} => sel = -2
    /\ link' = Sends(link, p, sel, resumed)

LEMMA SendIs ==
  ASSUME NEW C, NEW T, link \in Link(C, T), NEW p
  PROVE  /\ LA!Send(link, p) = Sends(link, p, link.sel, link.resumed)
         /\ [LA!Send(link, p) EXCEPT !.sel = LA!Unknown] = Sends(link, p, -2, link.resumed)
         /\ \A c : [LA!Send(link, p) EXCEPT !.resumed = c, !.sel = LA!Unknown] = Sends(link, p, -2, c)
         /\ LH!Send(link, p) = Sends(link, p, link.sel, link.resumed)
         /\ [LH!Send(link, p) EXCEPT !.sel = LH!Unknown] = Sends(link, p, -2, link.resumed)
         /\ \A c : [LH!Send(link, p) EXCEPT !.resumed = c, !.sel = LH!Unknown] = Sends(link, p, -2, c)
<1>1. LH!Frame(p) = LA!Frame(p)
  BY DEF LA!Frame, LH!Frame, LA!Digits, LH!Digits, LA!Token, LH!Token
<1> DEFINE w == link.wire \o LA!Frame(p)
<1>2. LA!Send(link, p) = [link EXCEPT !.wire = w, !.sent = p, !.retries = 0, !.ran = 0, !.at = "unacked"]
  BY DEF LA!Send
<1>3. LH!Send(link, p) = [link EXCEPT !.wire = w, !.sent = p, !.retries = 0, !.ran = 0, !.at = "unacked"]
  BY <1>1 DEF LH!Send
<1>4. \A sel, c : Sends(link, p, sel, c)
        = [link EXCEPT !.wire = w, !.sent = p, !.retries = 0, !.ran = 0, !.at = "unacked", !.sel = sel, !.resumed = c]
  BY DEF Sends
<1> HIDE DEF w
<1>5. [link EXCEPT !.wire = w, !.sent = p, !.retries = 0, !.ran = 0, !.at = "unacked"]
        = [link EXCEPT !.wire = w, !.sent = p, !.retries = 0, !.ran = 0, !.at = "unacked",
                       !.sel = link.sel, !.resumed = link.resumed]
  BY DEF Link
<1> DEFINE s == [link EXCEPT !.wire = w, !.sent = p, !.retries = 0, !.ran = 0, !.at = "unacked"]
<1>6. [s EXCEPT !.sel = -2]
        = [link EXCEPT !.wire = w, !.sent = p, !.retries = 0, !.ran = 0, !.at = "unacked",
                       !.sel = -2, !.resumed = link.resumed]
  BY DEF Link
<1>7. ASSUME NEW c
      PROVE  [s EXCEPT !.resumed = c, !.sel = -2]
               = [link EXCEPT !.wire = w, !.sent = p, !.retries = 0, !.ran = 0, !.at = "unacked",
                              !.sel = -2, !.resumed = c]
  BY DEF Link
<1>8. LA!Unknown = -2 /\ LH!Unknown = -2
  BY DEF LA!Unknown, LH!Unknown
<1>9. LA!Send(link, p) = s /\ LH!Send(link, p) = s /\ s = Sends(link, p, link.sel, link.resumed)
  BY <1>2, <1>3, <1>4, <1>5
<1>10. [s EXCEPT !.sel = -2] = Sends(link, p, -2, link.resumed)
  BY <1>4, <1>6
<1>11. \A c : [s EXCEPT !.resumed = c, !.sel = -2] = Sends(link, p, -2, c)
  BY <1>4, <1>7
<1> HIDE DEF s
<1> QED
  BY <1>8, <1>9, <1>10, <1>11

LEMMA SendsOne ==
  ASSUME NEW P, NEW p \in P, NEW sel \in {link.sel, -2}, NEW resumed \in {-1, 0, 1},
         p.k \in {"P", "G"} => sel # -2, p.k \in {"H", "c"} => sel = -2,
         link' = Sends(link, p, sel, resumed)
  PROVE  SentOf(P)
  BY DEF SentOf

LEMMA ArmOperates ==
  ASSUME NEW C, NEW T, link \in Link(C, T), LA!Operate
  PROVE  LA!SwitchThread \/ (link.at = "idle" /\ link.back = <<>> /\ SentOf(ArmPackets))
<1>1. link.at = "idle" /\ link.back = <<>> /\ (LA!Select \/ LA!Ask \/ LA!SwitchThread)
  BY DEF LA!Operate
<1>2. link.want \in Cores /\ link.resumed \in {-1, 0, 1} /\ link.sel \in {-2, 0, 1}
  BY LinkTypes
<1>3. \A p : /\ LA!Send(link, p) = Sends(link, p, link.sel, link.resumed)
             /\ [LA!Send(link, p) EXCEPT !.sel = LA!Unknown] = Sends(link, p, -2, link.resumed)
             /\ \A c : [LA!Send(link, p) EXCEPT !.resumed = c, !.sel = LA!Unknown] = Sends(link, p, -2, c)
  BY SendIs
<1>4. ASSUME LA!Select
      PROVE  SentOf(ArmPackets)
  <2> DEFINE p == [k |-> "H", thread |-> link.want]
  <2>1. p \in ArmPackets /\ p.k = "H"
    BY <1>2 DEF ArmPackets
  <2>2. link' = Sends(link, p, -2, link.resumed)
    BY <1>3, <1>4 DEF LA!Select
  <2> HIDE DEF p
  <2> QED
    BY <1>2, <2>1, <2>2, SendsOne
<1>5. ASSUME LA!Ask
      PROVE  SentOf(ArmPackets)
  <2>1. link.sel = link.want /\ link.sel # -2
    <3>1. link.sel = link.want
      BY <1>5 DEF LA!Ask
    <3> QED
      BY <1>2, <3>1 DEF Cores
  <2>2. ASSUME NEW p, p \in ArmPackets, p.k \notin {"H", "c"}, link' = LA!Send(link, p)
        PROVE  SentOf(ArmPackets)
    <3>1. link' = Sends(link, p, link.sel, link.resumed)
      BY <1>3, <2>2
    <3> QED
      BY <1>2, <2>1, <2>2, <3>1, SendsOne
  <2>3. ASSUME NEW p, p \in ArmPackets, p.k \notin {"P", "G"}, NEW c \in {-1, 0, 1}, link' = Sends(link, p, -2, c)
        PROVE  SentOf(ArmPackets)
    BY <2>3, SendsOne
  <2>4. ASSUME NEW reg \in LA!ArmRegisters, link' = LA!Send(link, [k |-> "p", reg |-> reg])
        PROVE  SentOf(ArmPackets)
    <3> DEFINE p == [k |-> "p", reg |-> reg]
    <3>1. p \in ArmPackets /\ p.k = "p" /\ link' = LA!Send(link, p)
      BY <2>4 DEF ArmPackets
    <3> HIDE DEF p
    <3> QED
      BY <2>2, <3>1
  <2>5. ASSUME NEW reg \in LA!ArmRegisters, NEW v \in {0, 1}, link' = LA!Send(link, [k |-> "P", reg |-> reg, v |-> v])
        PROVE  SentOf(ArmPackets)
    <3> DEFINE p == [k |-> "P", reg |-> reg, v |-> v]
    <3>1. p \in ArmPackets /\ p.k = "P" /\ link' = LA!Send(link, p)
      BY <2>5 DEF ArmPackets
    <3> HIDE DEF p
    <3> QED
      BY <2>2, <3>1
  <2>6. ASSUME link' = LA!Send(link, [k |-> "m"])
        PROVE  SentOf(ArmPackets)
    <3> DEFINE p == [k |-> "m"]
    <3>1. p \in ArmPackets /\ p.k = "m" /\ link' = LA!Send(link, p)
      BY <2>6 DEF ArmPackets
    <3> HIDE DEF p
    <3> QED
      BY <2>2, <3>1
  <2>7. ASSUME NEW v \in {0, 1}, NEW k \in {"M", "X"}, link' = LA!Send(link, [k |-> k, v |-> v])
        PROVE  SentOf(ArmPackets)
    <3> DEFINE p == [k |-> k, v |-> v]
    <3>1. p \in ArmPackets /\ p.k \in {"M", "X"} /\ link' = LA!Send(link, p)
      BY <2>7 DEF ArmPackets
    <3> HIDE DEF p
    <3> QED
      BY <2>2, <3>1
  <2>8. ASSUME link' = [LA!Send(link, [k |-> "s", thread |-> link.sel]) EXCEPT !.sel = LA!Unknown]
        PROVE  SentOf(ArmPackets)
    <3> DEFINE p == [k |-> "s", thread |-> link.sel]
    <3>1. p \in ArmPackets /\ p.k = "s"
      BY <1>2, <2>1 DEF ArmPackets
    <3>2. link' = Sends(link, p, -2, link.resumed)
      BY <1>3, <2>8
    <3> HIDE DEF p
    <3> QED
      BY <1>2, <2>3, <3>1, <3>2
  <2>9. ASSUME NEW c \in {-1, 0, 1},
               link' = [LA!Send(link, [k |-> "c", thread |-> c]) EXCEPT !.resumed = c, !.sel = LA!Unknown]
        PROVE  SentOf(ArmPackets)
    <3> DEFINE p == [k |-> "c", thread |-> c]
    <3>1. p \in ArmPackets /\ p.k = "c"
      BY DEF ArmPackets
    <3>2. link' = Sends(link, p, -2, c)
      BY <1>3, <2>9
    <3> HIDE DEF p
    <3> QED
      BY <2>3, <3>1, <3>2
  <2>10. LA!Registers = LA!ArmRegisters /\ {LA!Both} \cup LA!Core = {-1, 0, 1}
    BY DEF LA!Registers, LA!Both, LA!Core
  <2> QED
    BY <1>5, <2>4, <2>5, <2>6, <2>7, <2>8, <2>9, <2>10 DEF LA!Ask
<1> QED
  BY <1>1, <1>4, <1>5

LEMMA RiscvOperates ==
  ASSUME NEW C, NEW T, link \in Link(C, T), LH!Operate
  PROVE  LA!SwitchThread \/ (link.at = "idle" /\ link.back = <<>> /\ SentOf(RiscvPackets))
<1>1. link.at = "idle" /\ link.back = <<>> /\ (LH!Select \/ LH!Ask \/ LA!SwitchThread)
  BY DEF LH!Operate, LH!SwitchThread, LA!SwitchThread, LH!Core, LA!Core
<1>2. link.want \in Cores /\ link.resumed \in {-1, 0, 1} /\ link.sel \in {-2, 0, 1}
  BY LinkTypes
<1>3. \A p : /\ LH!Send(link, p) = Sends(link, p, link.sel, link.resumed)
             /\ [LH!Send(link, p) EXCEPT !.sel = LH!Unknown] = Sends(link, p, -2, link.resumed)
             /\ \A c : [LH!Send(link, p) EXCEPT !.resumed = c, !.sel = LH!Unknown] = Sends(link, p, -2, c)
  BY SendIs
<1>4. ASSUME LH!Select
      PROVE  SentOf(RiscvPackets)
  <2> DEFINE p == [k |-> "H", thread |-> link.want]
  <2>1. p \in RiscvPackets /\ p.k = "H"
    BY <1>2 DEF RiscvPackets
  <2>2. link' = Sends(link, p, -2, link.resumed)
    BY <1>3, <1>4 DEF LH!Select
  <2> HIDE DEF p
  <2> QED
    BY <1>2, <2>1, <2>2, SendsOne
<1>5. ASSUME LH!Ask
      PROVE  SentOf(RiscvPackets)
  <2>1. link.sel = link.want /\ link.sel # -2
    <3>1. link.sel = link.want
      BY <1>5 DEF LH!Ask
    <3> QED
      BY <1>2, <3>1 DEF Cores
  <2>2. ASSUME NEW p, p \in RiscvPackets, p.k \notin {"H", "c"}, link' = LH!Send(link, p)
        PROVE  SentOf(RiscvPackets)
    <3>1. link' = Sends(link, p, link.sel, link.resumed)
      BY <1>3, <2>2
    <3> QED
      BY <1>2, <2>1, <2>2, <3>1, SendsOne
  <2>3. ASSUME NEW p, p \in RiscvPackets, p.k \notin {"P", "G"}, NEW c \in {-1, 0, 1}, link' = Sends(link, p, -2, c)
        PROVE  SentOf(RiscvPackets)
    BY <2>3, SendsOne
  <2>4. ASSUME NEW reg \in LA!RiscvRegisters, link' = LH!Send(link, [k |-> "p", reg |-> reg])
        PROVE  SentOf(RiscvPackets)
    <3> DEFINE p == [k |-> "p", reg |-> reg]
    <3>1. p \in RiscvPackets /\ p.k = "p" /\ link' = LH!Send(link, p)
      BY <2>4 DEF RiscvPackets
    <3> HIDE DEF p
    <3> QED
      BY <2>2, <3>1
  <2>5. ASSUME NEW reg \in LA!RiscvRegisters, NEW v \in {0, 1}, link' = LH!Send(link, [k |-> "P", reg |-> reg, v |-> v])
        PROVE  SentOf(RiscvPackets)
    <3> DEFINE p == [k |-> "P", reg |-> reg, v |-> v]
    <3>1. p \in RiscvPackets /\ p.k = "P" /\ link' = LH!Send(link, p)
      BY <2>5 DEF RiscvPackets
    <3> HIDE DEF p
    <3> QED
      BY <2>2, <3>1
  <2>6. ASSUME link' = LH!Send(link, [k |-> "m"])
        PROVE  SentOf(RiscvPackets)
    <3> DEFINE p == [k |-> "m"]
    <3>1. p \in RiscvPackets /\ p.k = "m" /\ link' = LH!Send(link, p)
      BY <2>6 DEF RiscvPackets
    <3> HIDE DEF p
    <3> QED
      BY <2>2, <3>1
  <2>7. ASSUME NEW v \in {0, 1}, NEW k \in {"M", "X"}, link' = LH!Send(link, [k |-> k, v |-> v])
        PROVE  SentOf(RiscvPackets)
    <3> DEFINE p == [k |-> k, v |-> v]
    <3>1. p \in RiscvPackets /\ p.k \in {"M", "X"} /\ link' = LH!Send(link, p)
      BY <2>7 DEF RiscvPackets
    <3> HIDE DEF p
    <3> QED
      BY <2>2, <3>1
  <2>8. ASSUME link' = [LH!Send(link, [k |-> "s", thread |-> link.sel]) EXCEPT !.sel = LH!Unknown]
        PROVE  SentOf(RiscvPackets)
    <3> DEFINE p == [k |-> "s", thread |-> link.sel]
    <3>1. p \in RiscvPackets /\ p.k = "s"
      BY <1>2, <2>1 DEF RiscvPackets
    <3>2. link' = Sends(link, p, -2, link.resumed)
      BY <1>3, <2>8
    <3> HIDE DEF p
    <3> QED
      BY <1>2, <2>3, <3>1, <3>2
  <2>9. ASSUME NEW c \in {-1, 0, 1},
               link' = [LH!Send(link, [k |-> "c", thread |-> c]) EXCEPT !.resumed = c, !.sel = LH!Unknown]
        PROVE  SentOf(RiscvPackets)
    <3> DEFINE p == [k |-> "c", thread |-> c]
    <3>1. p \in RiscvPackets /\ p.k = "c"
      BY DEF RiscvPackets
    <3>2. link' = Sends(link, p, -2, c)
      BY <1>3, <2>9
    <3> HIDE DEF p
    <3> QED
      BY <2>3, <3>1, <3>2
  <2>10. ASSUME NEW v \in {0, 1}, link' = LH!Send(link, [k |-> "G", v |-> v])
         PROVE  SentOf(RiscvPackets)
    <3> DEFINE p == [k |-> "G", v |-> v]
    <3>1. p \in RiscvPackets /\ p.k = "G" /\ link' = LH!Send(link, p)
      BY <2>10 DEF RiscvPackets
    <3> HIDE DEF p
    <3> QED
      BY <2>2, <3>1
  <2>11. LH!Registers = LA!RiscvRegisters /\ {LH!Both} \cup LH!Core = {-1, 0, 1}
    BY DEF LH!Registers, LH!RiscvRegisters, LA!RiscvRegisters, LH!Both, LH!Core
  <2> QED
    BY <1>5, <2>4, <2>5, <2>6, <2>7, <2>8, <2>9, <2>10, <2>11 DEF LH!Ask
<1> QED
  BY <1>1, <1>4, <1>5

-----------------------------------------------------------------------------
\* What the debugger and a breakpoint do is the same for either server.
LEMMA SameTalk ==
  /\ \A c : LH!onBreakpoint(c) => LA!onBreakpoint(c)
  /\ LH!CtrlC => LA!CtrlC
  /\ LH!Hear => LA!Hear
<1>1. \A c : LH!onBreakpoint(c) => LA!onBreakpoint(c)
  BY DEF LH!onBreakpoint, LA!onBreakpoint, LH!Token, LA!Token, LH!Range, LA!Range, LH!Both, LA!Both, LH!Respond, LA!Respond, LH!Stop, LA!Stop
<1>2. LH!CtrlC => LA!CtrlC
  BY DEF LH!CtrlC, LA!CtrlC, LH!Token, LA!Token, LH!Range, LA!Range
<1>3. \A s : LH!Acknowledge(s) = LA!Acknowledge(s)
  BY DEF LH!Acknowledge, LA!Acknowledge, LH!Token, LA!Token
<1>4. \A t, reg, v : LH!Write(t, reg, v) = LA!Write(t, reg, v)
  BY DEF LH!Write, LA!Write
<1>5. \A s : LH!Learn(s) = LA!Learn(s)
  BY <1>4 DEF LH!Learn, LA!Learn
<1>6. \A p : LH!Frame(p) = LA!Frame(p)
  BY DEF LA!Frame, LH!Frame, LA!Digits, LH!Digits, LA!Token, LH!Token
<1>7. LH!None = LA!None /\ LH!Both = LA!Both
  BY DEF LH!None, LA!None, LH!Both, LA!Both
<1>8. LH!Hear => LA!Hear
  BY <1>3, <1>5, <1>6, <1>7 DEF LH!Hear, LA!Hear
<1> QED
  BY <1>1, <1>2, <1>8

-----------------------------------------------------------------------------
(* The connection: every step of either server *)

ArmOK(s) == ArmLink(s) /\ s.sent \in ArmPackets \cup {Nothing}
RiscvOK(s) == RiscvLink(s) /\ s.sent \in RiscvPackets \cup {Nothing}

LEMMA SentType ==
  ASSUME NEW P, link.sent \in P \cup {Nothing}, link.sent \in Packets
  PROVE  link.sent \in P
<1>1. Nothing.k = "none"
  BY DEF Nothing
<1> QED
  BY <1>1, PacketFacts

\* The debugger sends a packet of its architecture.
LEMMA SentKeeps ==
  ASSUME NEW C, NEW T, NEW F, LinkOK(link, C, T, F), link.at = "idle", link.back = <<>>,
         NEW P, P \subseteq Packets, SentOf(P)
  PROVE  LinkOK(link', C, T, F) /\ link'.sent \in P
<1>1. PICK p \in P, sel \in {link.sel, -2}, resumed \in {-1, 0, 1} :
         /\ p.k \in {"P", "G"} => sel # -2
         /\ p.k \in {"H", "c"} => sel = -2
         /\ link' = Sends(link, p, sel, resumed)
  BY DEF SentOf
<1>2. LinkOK(Sends(link, p, sel, resumed), C, T, F)
  BY <1>1, SendKeeps
<1>3. Sends(link, p, sel, resumed).sent = p
  BY DEF Sends, LinkOK, Link
<1> QED
  BY <1>1, <1>2, <1>3

\* What the debugger does but send, and a breakpoint.
LEMMA TalkKeeps ==
  ASSUME NEW Y, NEW V, NEW F \in [Y -> V], LinkOK(link, [Cores -> Y], [Cores -> V], F),
         NEW P, link.sent \in P \cup {Nothing},
         (\E c \in Cores : LA!onBreakpoint(c)) \/ LA!CtrlC \/ LA!SwitchThread \/ LA!Hear
  PROVE  LinkOK(link', [Cores -> Y], [Cores -> V], F) /\ link'.sent \in P \cup {Nothing}
<1>1. \A c : LA!onBreakpoint(c) => link'.sent = link.sent
  BY SentKept
<1>2. LA!CtrlC \/ LA!SwitchThread => link'.sent = link.sent
  BY SentKept
<1>3. LA!Hear => link'.sent \in {link.sent, Nothing}
  BY SentKept
<1>4. CASE \E c \in Cores : LA!onBreakpoint(c)
  BY <1>1, <1>4, BreakpointKeeps
<1>5. CASE LA!CtrlC
  BY <1>2, <1>5, CtrlCKeeps
<1>6. CASE LA!SwitchThread
  BY <1>2, <1>6, SwitchKeeps
<1>7. CASE LA!Hear
  <2>1. Owed(link) => LearnedTruth(link) \in [Cores -> V]
    BY LearnedType
  <2> QED
    BY <1>3, <1>7, <2>1, HearKeeps
<1> QED
  BY <1>4, <1>5, <1>6, <1>7

LEMMA ArmStep ==
  ASSUME ArmOK(link), LA!Next
  PROVE  ArmOK(link')
<1> DEFINE C == [Cores -> ArmCores]
           T == [Cores -> ArmValues]
<1>1. LinkOK(link, C, T, ArmRead) /\ link.sent \in ArmPackets \cup {Nothing}
  BY DEF ArmOK, ArmLink
<1>2. link \in Link(C, T)
  BY <1>1 DEF LinkOK
<1>3. ArmRead \in [ArmCores -> ArmValues]
  <2>1. \A c \in ArmCores : ArmRead[c] \in ArmValues
    BY ArmReads
  <2> QED
    BY <2>1 DEF ArmRead
<1>4. ASSUME NEW n \in 1 .. Len(link.wire), LA!feedData(n)
      PROVE  ArmOK(link')
  <2>1. CASE SameSent(link', C, T, ArmRead)
    BY <1>1, <2>1 DEF SameSent, ArmOK, ArmLink
  <2>2. ASSUME NEW r, Executes(link, n, r), link' = LA!processGDBMessage(Acked(Moved(link, n), r), link.sent)
        PROVE  ArmOK(link')
    <3>1. link.sent \in Packets
      BY <1>1, <2>2 DEF Executes, LinkOK, Phase
    <3>2. link.sent \in ArmPackets
      BY <1>1, <3>1, SentType
    <3>3. ArmLink(link')
      BY <2>2, <3>2, ArmServed DEF ArmOK
    <3>4. link'.sent = link.sent
      BY <1>2, <2>2, <3>1, ServedSent
    <3> QED
      BY <3>2, <3>3, <3>4 DEF ArmOK
  <2> QED
    BY <1>1, <1>4, <2>1, <2>2, FeedKeeps
<1>5. ASSUME (\E c \in Cores : LA!onBreakpoint(c)) \/ LA!CtrlC \/ LA!SwitchThread \/ LA!Hear
      PROVE  ArmOK(link')
  BY <1>1, <1>3, <1>5, TalkKeeps DEF ArmOK, ArmLink
<1>6. ASSUME link.at = "idle", link.back = <<>>, SentOf(ArmPackets)
      PROVE  ArmOK(link')
  <2>1. ArmPackets \subseteq Packets
    BY DEF Packets
  <2> QED
    BY <1>1, <1>6, <2>1, SentKeeps DEF ArmOK, ArmLink
<1>7. LA!Operate => LA!SwitchThread \/ (link.at = "idle" /\ link.back = <<>> /\ SentOf(ArmPackets))
  BY <1>2, ArmOperates
<1>8. LA!Core = Cores
  BY DEF LA!Core, Cores
<1> QED
  BY <1>4, <1>5, <1>6, <1>7, <1>8 DEF LA!Next

LEMMA RiscvStep ==
  ASSUME RiscvOK(link), LH!Next
  PROVE  RiscvOK(link')
<1> DEFINE C == [Cores -> RiscvCores]
           T == [Cores -> RiscvValues]
<1>1. LinkOK(link, C, T, RiscvRead) /\ link.sent \in RiscvPackets \cup {Nothing}
  BY DEF RiscvOK, RiscvLink
<1>2. link \in Link(C, T)
  BY <1>1 DEF LinkOK
<1>3. RiscvRead \in [RiscvCores -> RiscvValues]
  <2>1. \A c \in RiscvCores : RiscvRead[c] \in RiscvValues
    BY RiscvReads
  <2> QED
    BY <2>1 DEF RiscvRead
<1>4. ASSUME NEW n \in 1 .. Len(link.wire), LH!feedData(n)
      PROVE  RiscvOK(link')
  <2>1. CASE SameSent(link', C, T, RiscvRead)
    BY <1>1, <2>1 DEF SameSent, RiscvOK, RiscvLink
  <2>2. ASSUME NEW r, Executes(link, n, r), link' = LH!processGDBMessage(Acked(Moved(link, n), r), link.sent)
        PROVE  RiscvOK(link')
    <3>1. link.sent \in Packets
      BY <1>1, <2>2 DEF Executes, LinkOK, Phase
    <3>2. link.sent \in RiscvPackets
      BY <1>1, <3>1, SentType
    <3>3. RiscvLink(link')
      BY <2>2, <3>2, RiscvServed DEF RiscvOK
    <3>4. link'.sent = link.sent
      BY <1>2, <2>2, <3>1, ServedSent
    <3> QED
      BY <3>2, <3>3, <3>4 DEF RiscvOK
  <2> QED
    BY <1>1, <1>4, <2>1, <2>2, FeedKeeps
<1>5. ASSUME (\E c \in Cores : LA!onBreakpoint(c)) \/ LA!CtrlC \/ LA!SwitchThread \/ LA!Hear
      PROVE  RiscvOK(link')
  BY <1>1, <1>3, <1>5, TalkKeeps DEF RiscvOK, RiscvLink
<1>6. ASSUME link.at = "idle", link.back = <<>>, SentOf(RiscvPackets)
      PROVE  RiscvOK(link')
  <2>1. RiscvPackets \subseteq Packets
    BY DEF Packets
  <2> QED
    BY <1>1, <1>6, <2>1, SentKeeps DEF RiscvOK, RiscvLink
<1>7. LH!Operate => LA!SwitchThread \/ (link.at = "idle" /\ link.back = <<>> /\ SentOf(RiscvPackets))
  BY <1>2, RiscvOperates
<1>8. LH!Core = Cores
  BY DEF LH!Core, Cores
<1> QED
  BY <1>4, <1>5, <1>6, <1>7, <1>8, SameTalk DEF LH!Next

\* What the invariant says of the connection.
LEMMA LinkShown ==
  ASSUME NEW C, NEW T, NEW F, LinkOK(link, C, T, F)
  PROVE  /\ LA!PacketsOnce /\ LA!InterruptAnswered /\ LH!PacketsOnce /\ LH!InterruptAnswered
         /\ link.at = "idle" => /\ link.sel # -2 => link.current = link.sel
                                /\ link.mem = link.byte
                                /\ \A c \in Cores : F[link.core[c]] = link.truth[c]
<1>1. link.ran \in {0, 1}
  BY DEF LinkOK, Phase
<1>2. link.at \in {"reply", "running"} => link.ran = 1
  BY DEF LinkOK, Phase, Awaiting
<1>3. LA!Mangled(link.sent) => link.ran = 0
  BY DEF LinkOK, Phase
<1>4. LA!PacketsOnce
  BY <1>1, <1>2, <1>3 DEF LA!PacketsOnce
<1>5. LH!PacketsOnce
  BY <1>1, <1>2, <1>3 DEF LH!PacketsOnce, LH!Mangled, LA!Mangled
<1>6. link.at = "running" /\ ~link.running => link.back # <<>>
  <2>1. link.at = "running" => Answered(link.running, link.sent, link.back) /\ Resumes(link.sent)
    BY DEF LinkOK, Phase, Awaiting
  <2>2. link.at = "running" /\ ~link.running => \E h : link.back = <<h>>
    BY <2>1 DEF Answered
  <2> QED
    BY <2>2, SMTT(20)
<1>7. LA!InterruptAnswered /\ LH!InterruptAnswered
  BY <1>6 DEF LA!InterruptAnswered, LH!InterruptAnswered
<1>8. link.at = "idle" => /\ link.mem = link.byte /\ \A c \in Cores : F[link.core[c]] = link.truth[c]
  BY DEF LinkOK, Believed, Owed, Known
<1>9. link.sel # -2 => link.current = link.sel
  BY DEF LinkOK, Selected
<1> QED
  BY <1>4, <1>5, <1>7, <1>8, <1>9

LEMMA ArmShown ==
  ASSUME ArmOK(link)
  PROVE  LA!PacketsOnce /\ LA!RegistersOfThread /\ LA!InterruptAnswered
<1>1. LinkOK(link, [Cores -> ArmCores], [Cores -> ArmValues], ArmRead)
  BY DEF ArmOK, ArmLink
<1>2. link.core \in [Cores -> ArmCores]
  BY <1>1, LinkTypes DEF LinkOK
<1>3. \A c \in Cores, reg \in LA!ArmRegisters : ArmRead[link.core[c]][reg] = LA!readArm(link.core[c], reg)
  BY <1>2, ArmReads
<1>4. /\ LA!PacketsOnce /\ LA!InterruptAnswered
      /\ link.at = "idle" => /\ link.sel # -2 => link.current = link.sel
                             /\ link.mem = link.byte
                             /\ \A c \in Cores : ArmRead[link.core[c]] = link.truth[c]
  BY <1>1, LinkShown
<1>5. LA!RegistersOfThread
  BY <1>3, <1>4 DEF LA!RegistersOfThread, LA!Unknown, LA!Core, Cores, LA!Registers, LA!readRegister
<1> QED
  BY <1>4, <1>5

LEMMA RiscvShown ==
  ASSUME RiscvOK(link)
  PROVE  LH!PacketsOnce /\ LH!RegistersOfThread /\ LH!InterruptAnswered
<1>1. LinkOK(link, [Cores -> RiscvCores], [Cores -> RiscvValues], RiscvRead)
  BY DEF RiscvOK, RiscvLink
<1>2. link.core \in [Cores -> RiscvCores]
  BY <1>1, LinkTypes DEF LinkOK
<1>3. \A c \in Cores, reg \in LA!RiscvRegisters : RiscvRead[link.core[c]][reg] = LA!readRiscv(link.core[c], reg)
  BY <1>2, RiscvReads
<1>4. /\ LH!PacketsOnce /\ LH!InterruptAnswered
      /\ link.at = "idle" => /\ link.sel # -2 => link.current = link.sel
                             /\ link.mem = link.byte
                             /\ \A c \in Cores : RiscvRead[link.core[c]] = link.truth[c]
  BY <1>1, LinkShown
<1>5. LH!Registers = LA!RiscvRegisters /\ LH!Unknown = -2 /\ LH!Core = Cores
  BY DEF LH!Registers, LH!RiscvRegisters, LA!RiscvRegisters, LH!Unknown, LH!Core, Cores
<1>6. LH!RegistersOfThread
  BY <1>3, <1>4, <1>5, SameRiscvAccess DEF LH!RegistersOfThread
<1> QED
  BY <1>4, <1>6

-----------------------------------------------------------------------------
(* The connection: at the start *)

\* Nothing is on its way but the first "+".
Fresh(s) == /\ s.wire = <<>> /\ s.back = <<Plus>> /\ s.buf = <<>> /\ s.current = 0 /\ s.running = FALSE
            /\ s.mem = 0 /\ s.byte = 0 /\ s.at = "idle" /\ s.sel = 0 /\ s.sent = Nothing /\ s.ran = 0

Started(core, truth) ==
  [wire |-> <<>>, back |-> <<Plus>>, buf |-> <<>>, current |-> 0, running |-> FALSE,
   core |-> core, mem |-> 0, byte |-> 0, at |-> "idle", sel |-> 0, want |-> 0, sent |-> Nothing,
   retries |-> 0, resumed |-> -1, truth |-> truth, ran |-> 0]

LEMMA FreshOK ==
  ASSUME NEW C, NEW T, NEW F, NEW s \in Link(C, T), Fresh(s), \A c \in Cores : s.truth[c] = F[s.core[c]]
  PROVE  LinkOK(s, C, T, F)
<1>1. Stream(s) = <<>> /\ AllPlain(Stream(s))
  BY DEF Fresh, Stream, AllPlain
<1>2. Resting(s)
  BY <1>1 DEF Fresh, Resting
<1>3. Untimely(s)
  BY DEF Fresh, Untimely
<1>4. ~LA!Mangled(s.sent)
  BY DEF Fresh, Nothing, LA!Mangled
<1>5. Phase(s)
  BY <1>2, <1>3, <1>4 DEF Phase, Fresh
<1>6. Believed(s, F)
  BY DEF Believed, Owed, Known, Fresh
<1>7. Selected(s)
  BY DEF Selected, Owed, Fresh
<1> QED
  BY <1>5, <1>6, <1>7 DEF LinkOK

LEMMA StartTyped ==
  ASSUME NEW C, NEW T, NEW core \in C, NEW truth \in T, NEW s, s = Started(core, truth)
  PROVE  s \in Link(C, T) /\ Fresh(s) /\ s.core = core /\ s.truth = truth
<1>1. <<>> \in Seq(Items)
  OBVIOUS
<1>2. <<Plus>> \in Seq(Heards)
  BY DEF Plus, Heards, Tokens
<1>3. 0 \in Cores
  BY DEF Cores
<1> QED
  BY <1>1, <1>2, <1>3 DEF Started, Link, Fresh

LEMMA ArmStart ==
  ASSUME LA!Init
  PROVE  ArmOK(link)
<1> DEFINE C == [Cores -> ArmCores]
           T == [Cores -> ArmValues]
           core == [c \in Cores |-> LA!ArmCore(c)]
           truth == [c \in Cores |-> [reg \in LA!ArmRegisters |-> LA!readArm(core[c], reg)]]
<1>1. core \in C
  BY DEF LA!ArmCore, ArmCores
<1>2. \A c \in Cores : truth[c] = ArmRead[core[c]]
  BY <1>1 DEF ArmRead
<1>3. truth \in T
  <2>1. \A c \in Cores : truth[c] \in ArmValues
    <3> HIDE DEF core, truth
    <3> QED
      BY <1>1, <1>2, ArmReads
  <2> QED
    BY <2>1
<1>4. link = Started(core, truth)
  BY DEF LA!Init, LA!Core, Cores, LA!Registers, LA!readRegister, LA!Token, Plus, LA!None, Nothing, LA!Both,
     Started
<1> HIDE DEF core, truth, C, T
<1>5. link \in Link(C, T) /\ Fresh(link) /\ link.core = core /\ link.truth = truth
  BY <1>1, <1>3, <1>4, StartTyped
<1>6. LinkOK(link, C, T, ArmRead)
  BY <1>2, <1>5, FreshOK
<1> QED
  BY <1>5, <1>6 DEF ArmOK, ArmLink, Fresh, C, T

LEMMA RiscvStart ==
  ASSUME LH!Init
  PROVE  RiscvOK(link)
<1> DEFINE C == [Cores -> RiscvCores]
           T == [Cores -> RiscvValues]
           core == [c \in Cores |-> LH!RiscvCore(c)]
           truth == [c \in Cores |-> [reg \in LA!RiscvRegisters |-> LA!readRiscv(core[c], reg)]]
<1>1. core \in C
  BY DEF LH!RiscvCore, RiscvCores
<1>2. \A c \in Cores : truth[c] = RiscvRead[core[c]]
  BY <1>1 DEF RiscvRead
<1>3. truth \in T
  <2>1. \A c \in Cores : truth[c] \in RiscvValues
    <3> HIDE DEF core, truth
    <3> QED
      BY <1>1, <1>2, RiscvReads
  <2> QED
    BY <2>1
<1>4. LH!Registers = LA!RiscvRegisters /\ LH!Core = Cores /\ LH!Token("+") = Plus /\ LH!None = Nothing /\ LH!Both = -1
  BY DEF LH!Registers, LH!RiscvRegisters, LA!RiscvRegisters, LH!Core, Cores, LH!Token, Plus, LH!None, Nothing, LH!Both
<1>5. link = Started(core, truth)
  BY <1>4, SameRiscvAccess DEF LH!Init, Started
<1> HIDE DEF core, truth, C, T
<1>6. link \in Link(C, T) /\ Fresh(link) /\ link.core = core /\ link.truth = truth
  BY <1>1, <1>3, <1>5, StartTyped
<1>7. LinkOK(link, C, T, RiscvRead)
  BY <1>2, <1>6, FreshOK
<1> QED
  BY <1>6, <1>7 DEF RiscvOK, RiscvLink, Fresh, C, T

-----------------------------------------------------------------------------
(* The chip *)

\* The debugger's server and its connection, when either is in focus.
DebuggerOK ==
  /\ focus \in {"debug arm", "debug riscv"} => ServerOK(gdb)
  /\ focus = "link arm" => ArmOK(link)
  /\ focus = "link riscv" => RiscvOK(link)

LEMMA DebuggerStart ==
  ASSUME MCInit
  PROVE  DebuggerOK
<1>1. CASE focus = "debug arm"
  <2>1. RA!Init
    BY <1>1 DEF MCInit
  <2> QED
    BY <1>1, <2>1, ControlledFromStart DEF DebuggerOK
<1>2. CASE focus = "debug riscv"
  <2>1. RH!Init
    BY <1>2 DEF MCInit
  <2> QED
    BY <1>2, <2>1, ControlledFromStart DEF DebuggerOK
<1>3. CASE focus = "link arm"
  <2>1. LA!Init
    BY <1>3 DEF MCInit
  <2> QED
    BY <1>3, <2>1, ArmStart DEF DebuggerOK
<1>4. CASE focus = "link riscv"
  <2>1. LH!Init
    BY <1>4 DEF MCInit
  <2> QED
    BY <1>4, <2>1, RiscvStart DEF DebuggerOK
<1> QED
  BY <1>1, <1>2, <1>3, <1>4 DEF DebuggerOK

LEMMA DebuggerStep ==
  ASSUME DebuggerOK, [MCNext]_<<focus, amo, bus, io, gdb, ctl, cli, calc, link>>
  PROVE  DebuggerOK'
<1>1. CASE UNCHANGED <<focus, amo, bus, io, gdb, ctl, cli, calc, link>>
  <2>1. focus' = focus /\ gdb' = gdb /\ link' = link
    BY <1>1
  <2> QED
    BY <2>1 DEF DebuggerOK
<1>2. CASE MCNext
  <2>1. focus' = focus
    BY <1>2 DEF MCNext
  <2>2. CASE focus = "debug arm"
    <3>1. RA!Next
      BY <1>2, <2>2 DEF MCNext, Regions
    <3>2. ServerOK(gdb')
      BY <2>2, <3>1, RAControlled DEF DebuggerOK
    <3> QED
      BY <2>1, <2>2, <3>2 DEF DebuggerOK
  <2>3. CASE focus = "debug riscv"
    <3>1. RH!Next
      BY <1>2, <2>3 DEF MCNext, Regions
    <3>2. ServerOK(gdb')
      BY <2>3, <3>1, RHControlled DEF DebuggerOK
    <3> QED
      BY <2>1, <2>3, <3>2 DEF DebuggerOK
  <2>4. CASE focus = "link arm"
    <3>1. LA!Next
      BY <1>2, <2>4 DEF MCNext, Regions
    <3>2. ArmOK(link')
      BY <2>4, <3>1, ArmStep DEF DebuggerOK
    <3> QED
      BY <2>1, <2>4, <3>2 DEF DebuggerOK
  <2>5. CASE focus = "link riscv"
    <3>1. LH!Next
      BY <1>2, <2>5 DEF MCNext, Regions
    <3>2. RiscvOK(link')
      BY <2>5, <3>1, RiscvStep DEF DebuggerOK
    <3> QED
      BY <2>1, <2>5, <3>2 DEF DebuggerOK
  <2> QED
    BY <2>1, <2>2, <2>3, <2>4, <2>5 DEF DebuggerOK
<1> QED
  BY <1>1, <1>2

\* One loop runs the cores or none, the debugger knows which, and no core runs over a
\* breakpoint; and, however the bytes between debugger and server are cut, a packet is
\* executed at most once and on the registers of the thread that was named
\* (src/gdb, DebuggerInControl).
THEOREM ChipDebuggerInControl == MCSpec => []DebuggerInControl
<1>1. DebuggerOK => DebuggerInControl
  <2>1. ASSUME DebuggerOK, focus \in {"debug arm", "debug riscv"}
        PROVE  RA!OneLoop /\ RA!DebuggerKnows /\ RA!BreakpointsHit
    BY <2>1, ControlShown DEF DebuggerOK
  <2>2. ASSUME DebuggerOK, focus = "link arm"
        PROVE  LA!PacketsOnce /\ LA!RegistersOfThread /\ LA!InterruptAnswered
    BY <2>2, ArmShown DEF DebuggerOK
  <2>3. ASSUME DebuggerOK, focus = "link riscv"
        PROVE  LH!PacketsOnce /\ LH!RegistersOfThread /\ LH!InterruptAnswered
    BY <2>3, RiscvShown DEF DebuggerOK
  <2> QED
    BY <2>1, <2>2, <2>3 DEF DebuggerInControl
<1> QED
  BY <1>1, DebuggerStart, DebuggerStep, PTL DEF MCSpec

-----------------------------------------------------------------------------
(* The divider and the interpolator: what has been restored *)

Config == [shift : 0 .. 31, maskLSB : 0 .. 31, maskMSB : 0 .. 31, signed : BOOLEAN, crossInput : BOOLEAN,
           crossResult : BOOLEAN, addRaw : BOOLEAN, forceMSB : 0 .. 3, blend : BOOLEAN, clamp : BOOLEAN,
           overf0 : BOOLEAN, overf1 : BOOLEAN, overf : BOOLEAN]

\* The registers may hold anything.
IsRegs(r) ==
  /\ r = [accum |-> r.accum, base |-> r.base, ctrl |-> r.ctrl, result |-> r.result, sm |-> r.sm]
  /\ r.accum = [i \in {0, 1} |-> r.accum[i]] /\ r.base = [i \in 0 .. 2 |-> r.base[i]]
  /\ r.ctrl \in [{0, 1} -> Config]
IsDivider(d) ==
  d = [dividend |-> d.dividend, divisor |-> d.divisor, quotient |-> d.quotient, remainder |-> d.remainder,
       dirty |-> d.dirty]

\* The bits of a control register that are written and do something.
SameLane(c, d) ==
  /\ c.shift = d.shift /\ c.maskLSB = d.maskLSB /\ c.maskMSB = d.maskMSB /\ c.forceMSB = d.forceMSB
  /\ c.signed = d.signed /\ c.crossInput = d.crossInput /\ c.crossResult = d.crossResult /\ c.addRaw = d.addRaw
SameFirst(n, c, d) ==
  SameLane(c, d) /\ (n = 0 => c.blend = d.blend) /\ (n = 1 => c.clamp = d.clamp)

\* Nothing changes when the results are computed again.
Stable(n, r) == IsRegs(r) /\ SC!update(n, r) = r

\* The registers of s that a handler has restored are those that it found in f.
Divided(s, f, k) ==
  /\ k >= 1 => s.dividend = f.dividend
  /\ k >= 2 => s.divisor = f.divisor
  /\ k >= 3 => s.remainder = f.remainder
  /\ k >= 4 => s.quotient = f.quotient
Interpolated(n, s, f, k) ==
  /\ k >= 1 => s.accum[0] = f.accum[0]
  /\ k >= 2 => s.accum[1] = f.accum[1]
  /\ k >= 3 => s.base[0] = f.base[0]
  /\ k >= 4 => s.base[1] = f.base[1]
  /\ k >= 5 => s.base[2] = f.base[2]
  /\ k >= 6 => SameFirst(n, s.ctrl[0], f.ctrl[0])
  /\ k >= 7 => SameLane(s.ctrl[1], f.ctrl[1])
Undone(part, n, s, f, k) ==
  IF part = "divider" THEN s.it = f.it /\ Divided(s.div, f.div, k)
  ELSE [s.div EXCEPT !.dirty = TRUE] = [f.div EXCEPT !.dirty = TRUE] /\ Interpolated(n, s.it, f.it, k)

Accesses(part) == IF part = "divider" THEN 4 ELSE 7

-----------------------------------------------------------------------------
(* Control registers: what is read back is what was written *)

LEMMA Powers ==
  /\ 2 ^ 5 = 32 /\ 2 ^ 10 = 1024 /\ 2 ^ 15 = 32768 /\ 2 ^ 16 = 65536 /\ 2 ^ 17 = 131072 /\ 2 ^ 18 = 262144
  /\ 2 ^ 19 = 524288 /\ 2 ^ 21 = 2097152 /\ 2 ^ 22 = 4194304 /\ 2 ^ 23 = 8388608 /\ 2 ^ 24 = 16777216
  /\ 2 ^ 25 = 33554432
  OBVIOUS

\* The fields a to z of a word, from the lowest up; and what they are of the word v.
SumOfFields(a, b, m, s, i, o, r, f, l, c, x, y, z) ==
  a + b * 32 + m * 1024 + s * 32768 + i * 65536 + o * 131072 + r * 262144 + f * 524288 + l * 2097152 + c * 4194304
    + x * 8388608 + y * 16777216 + z * 33554432
AreFields(v, a, b, m, s, i, o, r, f, l, c, x, y, z) ==
  /\ v % 32 = a /\ (v \div 32) % 32 = b /\ (v \div 1024) % 32 = m /\ (v \div 32768) % 2 = s
  /\ (v \div 65536) % 2 = i /\ (v \div 131072) % 2 = o /\ (v \div 262144) % 2 = r /\ (v \div 524288) % 4 = f
  /\ (v \div 2097152) % 2 = l /\ (v \div 4194304) % 2 = c /\ (v \div 8388608) % 2 = x
  /\ (v \div 16777216) % 2 = y /\ (v \div 33554432) % 2 = z

LEMMA SumIsNat ==
  ASSUME NEW a \in Nat, NEW b \in Nat, NEW m \in Nat, NEW s \in Nat, NEW i \in Nat, NEW o \in Nat, NEW r \in Nat,
         NEW f \in Nat, NEW l \in Nat, NEW c \in Nat, NEW x \in Nat, NEW y \in Nat, NEW z \in Nat
  PROVE  SumOfFields(a, b, m, s, i, o, r, f, l, c, x, y, z) \in Nat
  BY SMT DEF SumOfFields

\* From the top: each u is what lies above a field, each d what lies below one.
LEMMA FieldsOfSum ==
  ASSUME NEW a \in Nat, NEW b \in Nat, NEW m \in Nat, NEW s \in Nat, NEW i \in Nat, NEW o \in Nat, NEW r \in Nat,
         NEW f \in Nat, NEW l \in Nat, NEW c \in Nat, NEW x \in Nat, NEW y \in Nat, NEW z \in Nat,
         a < 32, b < 32, m < 32, s < 2, i < 2, o < 2, r < 2, f < 4, l < 2, c < 2, x < 2, y < 2, z < 2,
         NEW v \in Nat, v = SumOfFields(a, b, m, s, i, o, r, f, l, c, x, y, z)
  PROVE  AreFields(v, a, b, m, s, i, o, r, f, l, c, x, y, z)
<1>1. PICK u12 \in Nat : u12 = z + 2 * 0
  BY SMT
<1>2. u12 % 2 = z
  BY <1>1, SMT
<1>3. PICK u11 \in Nat : u11 = y + 2 * u12
  BY SMT
<1>4. u11 % 2 = y
  BY <1>3, SMT
<1>5. PICK u10 \in Nat : u10 = x + 2 * u11
  BY SMT
<1>6. u10 % 2 = x
  BY <1>5, SMT
<1>7. PICK u9 \in Nat : u9 = c + 2 * u10
  BY SMT
<1>8. u9 % 2 = c
  BY <1>7, SMT
<1>9. PICK u8 \in Nat : u8 = l + 2 * u9
  BY SMT
<1>10. u8 % 2 = l
  BY <1>9, SMT
<1>11. PICK u7 \in Nat : u7 = f + 4 * u8
  BY SMT
<1>12. u7 % 4 = f
  BY <1>11, SMT
<1>13. PICK u6 \in Nat : u6 = r + 2 * u7
  BY SMT
<1>14. u6 % 2 = r
  BY <1>13, SMT
<1>15. PICK u5 \in Nat : u5 = o + 2 * u6
  BY SMT
<1>16. u5 % 2 = o
  BY <1>15, SMT
<1>17. PICK u4 \in Nat : u4 = i + 2 * u5
  BY SMT
<1>18. u4 % 2 = i
  BY <1>17, SMT
<1>19. PICK u3 \in Nat : u3 = s + 2 * u4
  BY SMT
<1>20. u3 % 2 = s
  BY <1>19, SMT
<1>21. PICK u2 \in Nat : u2 = m + 32 * u3
  BY SMT
<1>22. u2 % 32 = m
  BY <1>21, SMT
<1>23. PICK u1 \in Nat : u1 = b + 32 * u2
  BY SMT
<1>24. u1 % 32 = b
  BY <1>23, SMT
<1>25. a < 32 /\ v = a + 32 * u1
  BY <1>1, <1>3, <1>5, <1>7, <1>9, <1>11, <1>13, <1>15, <1>17, <1>19, <1>21, <1>23, SMT DEF SumOfFields
<1>26. PICK d2 \in Nat : d2 = a + 32 * b
  BY SMT
<1>27. d2 < 1024 /\ v = d2 + 1024 * u2
  BY <1>25, <1>26, <1>23, SMT
<1>28. PICK d3 \in Nat : d3 = d2 + 1024 * m
  BY SMT
<1>29. d3 < 32768 /\ v = d3 + 32768 * u3
  BY <1>27, <1>28, <1>21, SMT
<1>30. PICK d4 \in Nat : d4 = d3 + 32768 * s
  BY SMT
<1>31. d4 < 65536 /\ v = d4 + 65536 * u4
  BY <1>29, <1>30, <1>19, SMT
<1>32. PICK d5 \in Nat : d5 = d4 + 65536 * i
  BY SMT
<1>33. d5 < 131072 /\ v = d5 + 131072 * u5
  BY <1>31, <1>32, <1>17, SMT
<1>34. PICK d6 \in Nat : d6 = d5 + 131072 * o
  BY SMT
<1>35. d6 < 262144 /\ v = d6 + 262144 * u6
  BY <1>33, <1>34, <1>15, SMT
<1>36. PICK d7 \in Nat : d7 = d6 + 262144 * r
  BY SMT
<1>37. d7 < 524288 /\ v = d7 + 524288 * u7
  BY <1>35, <1>36, <1>13, SMT
<1>38. PICK d8 \in Nat : d8 = d7 + 524288 * f
  BY SMT
<1>39. d8 < 2097152 /\ v = d8 + 2097152 * u8
  BY <1>37, <1>38, <1>11, SMT
<1>40. PICK d9 \in Nat : d9 = d8 + 2097152 * l
  BY SMT
<1>41. d9 < 4194304 /\ v = d9 + 4194304 * u9
  BY <1>39, <1>40, <1>9, SMT
<1>42. PICK d10 \in Nat : d10 = d9 + 4194304 * c
  BY SMT
<1>43. d10 < 8388608 /\ v = d10 + 8388608 * u10
  BY <1>41, <1>42, <1>7, SMT
<1>44. PICK d11 \in Nat : d11 = d10 + 8388608 * x
  BY SMT
<1>45. d11 < 16777216 /\ v = d11 + 16777216 * u11
  BY <1>43, <1>44, <1>5, SMT
<1>46. PICK d12 \in Nat : d12 = d11 + 16777216 * y
  BY SMT
<1>47. d12 < 33554432 /\ v = d12 + 33554432 * u12
  BY <1>45, <1>46, <1>3, SMT
<1>48. v \div 32 = u1
  BY <1>25, SMT
<1>49. (v \div 32) % 32 = b
  BY <1>48, <1>24, SMT
<1>50. v \div 1024 = u2
  BY <1>27, SMT
<1>51. (v \div 1024) % 32 = m
  BY <1>50, <1>22, SMT
<1>52. v \div 32768 = u3
  BY <1>29, SMT
<1>53. (v \div 32768) % 2 = s
  BY <1>52, <1>20, SMT
<1>54. v \div 65536 = u4
  BY <1>31, SMT
<1>55. (v \div 65536) % 2 = i
  BY <1>54, <1>18, SMT
<1>56. v \div 131072 = u5
  BY <1>33, SMT
<1>57. (v \div 131072) % 2 = o
  BY <1>56, <1>16, SMT
<1>58. v \div 262144 = u6
  BY <1>35, SMT
<1>59. (v \div 262144) % 2 = r
  BY <1>58, <1>14, SMT
<1>60. v \div 524288 = u7
  BY <1>37, SMT
<1>61. (v \div 524288) % 4 = f
  BY <1>60, <1>12, SMT
<1>62. v \div 2097152 = u8
  BY <1>39, SMT
<1>63. (v \div 2097152) % 2 = l
  BY <1>62, <1>10, SMT
<1>64. v \div 4194304 = u9
  BY <1>41, SMT
<1>65. (v \div 4194304) % 2 = c
  BY <1>64, <1>8, SMT
<1>66. v \div 8388608 = u10
  BY <1>43, SMT
<1>67. (v \div 8388608) % 2 = x
  BY <1>66, <1>6, SMT
<1>68. v \div 16777216 = u11
  BY <1>45, SMT
<1>69. (v \div 16777216) % 2 = y
  BY <1>68, <1>4, SMT
<1>70. v \div 33554432 = u12
  BY <1>47, SMT
<1>71. (v \div 33554432) % 2 = z
  BY <1>70, <1>2, SMT
<1>72. v % 32 = a
  BY <1>25, SMT
<1> QED
  BY <1>49, <1>51, <1>53, <1>55, <1>57, <1>59, <1>61, <1>63, <1>65, <1>67, <1>69, <1>71, <1>72, SMT DEF AreFields

\* One bit.
One(b) == IF b THEN 1 ELSE 0

LEMMA OneIs ==
  ASSUME NEW b \in BOOLEAN
  PROVE  /\ One(b) \in Nat /\ One(b) < 2 /\ (One(b) = 1 <=> b)
  BY DEF One

LEMMA BitAt ==
  ASSUME NEW b \in BOOLEAN
  PROVE  /\ SC!At(b, 15) = One(b) * 32768 /\ SC!At(b, 16) = One(b) * 65536 /\ SC!At(b, 17) = One(b) * 131072
         /\ SC!At(b, 18) = One(b) * 262144 /\ SC!At(b, 21) = One(b) * 2097152 /\ SC!At(b, 22) = One(b) * 4194304
         /\ SC!At(b, 23) = One(b) * 8388608 /\ SC!At(b, 24) = One(b) * 16777216 /\ SC!At(b, 25) = One(b) * 33554432
<1>1. CASE b
  BY <1>1, Powers, SMT DEF One, SC!At
<1>2. CASE ~b
  BY <1>2, SMT DEF One, SC!At
<1> QED
  BY <1>1, <1>2

LEMMA ConfigFields ==
  ASSUME NEW c \in Config
  PROVE  /\ c.shift \in Nat /\ c.shift < 32 /\ c.maskLSB \in Nat /\ c.maskLSB < 32
         /\ c.maskMSB \in Nat /\ c.maskMSB < 32 /\ c.forceMSB \in Nat /\ c.forceMSB < 4
         /\ c.signed \in BOOLEAN /\ c.crossInput \in BOOLEAN /\ c.crossResult \in BOOLEAN /\ c.addRaw \in BOOLEAN
         /\ c.blend \in BOOLEAN /\ c.clamp \in BOOLEAN /\ c.overf0 \in BOOLEAN /\ c.overf1 \in BOOLEAN
         /\ c.overf \in BOOLEAN
         /\ c = [shift |-> c.shift, maskLSB |-> c.maskLSB, maskMSB |-> c.maskMSB, signed |-> c.signed,
                 crossInput |-> c.crossInput, crossResult |-> c.crossResult, addRaw |-> c.addRaw,
                 forceMSB |-> c.forceMSB, blend |-> c.blend, clamp |-> c.clamp, overf0 |-> c.overf0,
                 overf1 |-> c.overf1, overf |-> c.overf]
  BY DEF Config

LEMMA RoundTrip ==
  ASSUME NEW c \in Config
  PROVE  SC!decode(SC!toUint32(c)) = c
<1> DEFINE v == SC!toUint32(c)
<1>1. /\ c.shift \in Nat /\ c.shift < 32 /\ c.maskLSB \in Nat /\ c.maskLSB < 32
      /\ c.maskMSB \in Nat /\ c.maskMSB < 32 /\ c.forceMSB \in Nat /\ c.forceMSB < 4
  BY ConfigFields
<1>2. /\ c.signed \in BOOLEAN /\ c.crossInput \in BOOLEAN /\ c.crossResult \in BOOLEAN /\ c.addRaw \in BOOLEAN
      /\ c.blend \in BOOLEAN /\ c.clamp \in BOOLEAN /\ c.overf0 \in BOOLEAN /\ c.overf1 \in BOOLEAN
      /\ c.overf \in BOOLEAN
  BY ConfigFields
<1>3. v = SumOfFields(c.shift, c.maskLSB, c.maskMSB, One(c.signed), One(c.crossInput), One(c.crossResult),
              One(c.addRaw), c.forceMSB, One(c.blend), One(c.clamp), One(c.overf0), One(c.overf1), One(c.overf))
  BY <1>1, <1>2, OneIs, BitAt, Powers, SMT DEF SC!toUint32, SumOfFields
<1>4. AreFields(v, c.shift, c.maskLSB, c.maskMSB, One(c.signed), One(c.crossInput), One(c.crossResult),
              One(c.addRaw), c.forceMSB, One(c.blend), One(c.clamp), One(c.overf0), One(c.overf1), One(c.overf))
  <2>1. /\ One(c.signed) \in Nat /\ One(c.signed) < 2 /\ One(c.crossInput) \in Nat /\ One(c.crossInput) < 2
        /\ One(c.crossResult) \in Nat /\ One(c.crossResult) < 2 /\ One(c.addRaw) \in Nat /\ One(c.addRaw) < 2
        /\ One(c.blend) \in Nat /\ One(c.blend) < 2 /\ One(c.clamp) \in Nat /\ One(c.clamp) < 2
        /\ One(c.overf0) \in Nat /\ One(c.overf0) < 2 /\ One(c.overf1) \in Nat /\ One(c.overf1) < 2
        /\ One(c.overf) \in Nat /\ One(c.overf) < 2
    BY <1>2, OneIs
  <2> HIDE DEF v
  <2>2. v \in Nat
    BY <1>1, <1>3, <2>1, SumIsNat
  <2> QED
    BY <1>1, <1>3, <2>1, <2>2, FieldsOfSum
<1>5. /\ SC!Bit(v, 15) = c.signed /\ SC!Bit(v, 16) = c.crossInput /\ SC!Bit(v, 17) = c.crossResult
      /\ SC!Bit(v, 18) = c.addRaw /\ SC!Bit(v, 21) = c.blend /\ SC!Bit(v, 22) = c.clamp
      /\ SC!Bit(v, 23) = c.overf0 /\ SC!Bit(v, 24) = c.overf1 /\ SC!Bit(v, 25) = c.overf
  <2> HIDE DEF v
  <2> QED
    BY <1>2, <1>4, OneIs, Powers, SMT DEF AreFields, SC!Bit
<1>6. /\ v % 32 = c.shift /\ (v \div 2 ^ 5) % 32 = c.maskLSB /\ (v \div 2 ^ 10) % 32 = c.maskMSB
      /\ (v \div 2 ^ 19) % 4 = c.forceMSB
  <2> HIDE DEF v
  <2> QED
    BY <1>4, Powers, SMT DEF AreFields
<1> HIDE DEF v
<1>7. SC!decode(v) = c
  BY <1>5, <1>6, ConfigFields DEF SC!decode
<1> QED
  BY <1>7 DEF v

-----------------------------------------------------------------------------
(* What an update computes, and from what *)

FirstLane(n, c) == [c EXCEPT !.clamp = @ /\ n = 1, !.blend = @ /\ n = 0]
SecondLane(c) == [c EXCEPT !.clamp = FALSE, !.blend = FALSE, !.overf0 = FALSE, !.overf1 = FALSE, !.overf = FALSE]

\* The inputs and the results of lanes with accumulators a and configurations c and d.
Input0(a, c) == SC!u32(a[IF c.crossInput THEN 1 ELSE 0])
Input1(a, d) == SC!u32(a[IF d.crossInput THEN 0 ELSE 1])
Lane0(a, c) == SC!laneResult(c, Input0(a, c))
Lane1(a, d) == SC!laneResult(d, Input1(a, d))
Alpha(a, d) == Lane1(a, d) % SC!Weights
Over0(a, c) == SC!overflows(c, Input0(a, c))
Over1(a, d) == SC!overflows(d, Input1(a, d))
Result0(a, b, c, d) ==
  IF c.blend THEN Alpha(a, d)
  ELSE SC!Forced(IF c.clamp THEN SC!clampResult(c, Lane0(a, c), b[0], b[1])
                 ELSE b[0] + IF c.addRaw THEN Input0(a, c) ELSE Lane0(a, c), c.forceMSB)
Result1(a, b, c, d) ==
  SC!Forced(IF c.blend THEN SC!blendResult(d, Alpha(a, d), b[0], b[1])
            ELSE b[1] + IF d.addRaw THEN Input1(a, d) ELSE Lane1(a, d), c.forceMSB)
Result2(a, b, c, d) == SC!u32(b[2] + Lane0(a, c) + IF c.blend THEN 0 ELSE Lane1(a, d))

Sm(a, c, d) == [i \in {0, 1} |-> IF i = 0 THEN Lane0(a, c) ELSE Lane1(a, d)]
Results(a, b, c, d) ==
  [i \in 0 .. 2 |-> CASE i = 0 -> Result0(a, b, c, d) [] i = 1 -> Result1(a, b, c, d)
                      [] OTHER -> Result2(a, b, c, d)]
Flagged(a, c, d) ==
  [c EXCEPT !.overf0 = Over0(a, c), !.overf1 = Over1(a, d), !.overf = Over0(a, c) \/ Over1(a, d)]
Configured(a, c, d) == [i \in {0, 1} |-> IF i = 1 THEN d ELSE Flagged(a, c, d)]

LEMMA UpdateIs ==
  ASSUME NEW n, NEW r
  PROVE  SC!update(n, r) =
           [r EXCEPT !.sm = Sm(r.accum, FirstLane(n, r.ctrl[0]), SecondLane(r.ctrl[1])),
                     !.result = Results(r.accum, r.base, FirstLane(n, r.ctrl[0]), SecondLane(r.ctrl[1])),
                     !.ctrl = Configured(r.accum, FirstLane(n, r.ctrl[0]), SecondLane(r.ctrl[1]))]
  BY DEF SC!update, Sm, Results, Configured, Flagged, FirstLane, SecondLane, Result0, Result1, Result2, Over0, Over1,
         Alpha, Lane0, Lane1, Input0, Input1

\* Configurations that agree compute alike.
LEMMA LanesAlike ==
  ASSUME NEW c, NEW d, SameLane(c, d)
  PROVE  /\ \A x : SC!laneResult(c, x) = SC!laneResult(d, x) /\ (SC!overflows(c, x) <=> SC!overflows(d, x))
         /\ \A r, b, e : SC!clampResult(c, r, b, e) = SC!clampResult(d, r, b, e)
         /\ \A r, b, e : SC!blendResult(c, r, b, e) = SC!blendResult(d, r, b, e)
         /\ \A a : Input0(a, c) = Input0(a, d) /\ Input1(a, c) = Input1(a, d)
         /\ \A a : Lane0(a, c) = Lane0(a, d) /\ Lane1(a, c) = Lane1(a, d)
         /\ \A a : (Over0(a, c) <=> Over0(a, d)) /\ (Over1(a, c) <=> Over1(a, d))
<1>1. \A x : SC!masked(c, x) = SC!masked(d, x) /\ SC!aboveMask(c, x) = SC!aboveMask(d, x)
  BY DEF SameLane, SC!masked, SC!aboveMask
<1>2. \A x : SC!uresult(c, x) = SC!uresult(d, x)
  BY <1>1 DEF SameLane, SC!uresult
<1>3. \A x : SC!laneResult(c, x) = SC!laneResult(d, x)
  BY <1>2 DEF SameLane, SC!laneResult
<1>4. \A x : SC!overflows(c, x) <=> SC!overflows(d, x)
  BY <1>1 DEF SameLane, SC!overflows
<1>5. \A r, b, e : SC!clampResult(c, r, b, e) = SC!clampResult(d, r, b, e)
  BY DEF SameLane, SC!clampResult
<1>6. \A r, b, e : SC!blendResult(c, r, b, e) = SC!blendResult(d, r, b, e)
  BY DEF SameLane, SC!blendResult
<1>7. \A a : Input0(a, c) = Input0(a, d) /\ Input1(a, c) = Input1(a, d)
  BY DEF SameLane, Input0, Input1
<1>8. \A a : Lane0(a, c) = Lane0(a, d) /\ Lane1(a, c) = Lane1(a, d)
  BY <1>3, <1>7 DEF Lane0, Lane1
<1>9. \A a : (Over0(a, c) <=> Over0(a, d)) /\ (Over1(a, c) <=> Over1(a, d))
  BY <1>4, <1>7 DEF Over0, Over1
<1> QED
  BY <1>3, <1>4, <1>5, <1>6, <1>7, <1>8, <1>9

LEMMA ResultsAlike ==
  ASSUME NEW a, NEW b, NEW c, NEW d, NEW e, NEW f, SameLane(c, d), SameLane(e, f),
         c.blend <=> d.blend, c.clamp <=> d.clamp
  PROVE  Sm(a, c, e) = Sm(a, d, f) /\ Results(a, b, c, e) = Results(a, b, d, f)
<1>1. /\ Input0(a, c) = Input0(a, d) /\ Input1(a, e) = Input1(a, f) /\ Lane0(a, c) = Lane0(a, d)
      /\ Lane1(a, e) = Lane1(a, f)
  BY LanesAlike
<1>2. Alpha(a, e) = Alpha(a, f)
  BY <1>1 DEF Alpha
<1>3. Result0(a, b, c, e) = Result0(a, b, d, f)
  <2>1. SC!clampResult(c, Lane0(a, c), b[0], b[1]) = SC!clampResult(d, Lane0(a, d), b[0], b[1])
    BY <1>1, LanesAlike
  <2> QED
    BY <1>1, <1>2, <2>1 DEF Result0, SameLane
<1>4. Result1(a, b, c, e) = Result1(a, b, d, f)
  <2>1. SC!blendResult(e, Alpha(a, e), b[0], b[1]) = SC!blendResult(f, Alpha(a, f), b[0], b[1])
    BY <1>2, LanesAlike
  <2> QED
    BY <1>1, <1>2, <2>1 DEF Result1, SameLane
<1>5. Result2(a, b, c, e) = Result2(a, b, d, f)
  BY <1>1 DEF Result2
<1>6. Sm(a, c, e) = Sm(a, d, f)
  BY <1>1 DEF Sm
<1>7. Results(a, b, c, e) = Results(a, b, d, f)
  BY <1>3, <1>4, <1>5 DEF Results
<1> QED
  BY <1>6, <1>7

LEMMA FirstLaneIs ==
  ASSUME NEW n \in {0, 1}, NEW c \in Config
  PROVE  /\ FirstLane(n, c) \in Config /\ SameLane(FirstLane(n, c), c)
         /\ FirstLane(n, c).blend <=> (c.blend /\ n = 0)
         /\ FirstLane(n, c).clamp <=> (c.clamp /\ n = 1)
<1>1. c.blend \in BOOLEAN /\ c.clamp \in BOOLEAN
  BY DEF Config
<1>2. (c.clamp /\ n = 1) \in BOOLEAN /\ (c.blend /\ n = 0) \in BOOLEAN
  BY <1>1
<1> QED
  BY <1>2 DEF FirstLane, Config, SameLane

LEMMA SecondLaneIs ==
  ASSUME NEW c \in Config
  PROVE  SecondLane(c) \in Config /\ SameLane(SecondLane(c), c)
  BY DEF SecondLane, Config, SameLane

LEMMA SecondLaneAlike ==
  ASSUME NEW c \in Config, NEW d \in Config, SameLane(c, d)
  PROVE  SecondLane(c) = SecondLane(d)
  BY DEF SecondLane, Config, SameLane

\* The configuration of the first lane with flags x, y and z.
WithFlags(c, x, y, z) == [c EXCEPT !.overf0 = x, !.overf1 = y, !.overf = z]
LEMMA WithFlagsIs ==
  ASSUME NEW c \in Config, NEW x \in BOOLEAN, NEW y \in BOOLEAN, NEW z \in BOOLEAN
  PROVE  /\ WithFlags(c, x, y, z) \in Config /\ SameLane(WithFlags(c, x, y, z), c)
         /\ WithFlags(c, x, y, z).blend = c.blend /\ WithFlags(c, x, y, z).clamp = c.clamp
  BY DEF WithFlags, Config, SameLane
LEMMA WithFlagsAlike ==
  ASSUME NEW c \in Config, NEW d \in Config, SameLane(c, d), c.blend <=> d.blend, c.clamp <=> d.clamp,
         NEW x, NEW y, NEW z
  PROVE  WithFlags(c, x, y, z) = WithFlags(d, x, y, z)
<1>1. c.blend = d.blend /\ c.clamp = d.clamp
  BY DEF Config
<1> QED
  BY <1>1 DEF WithFlags, Config, SameLane
LEMMA FlaggedIs ==
  ASSUME NEW a, NEW c, NEW d
  PROVE  /\ Flagged(a, c, d) = WithFlags(c, Over0(a, c), Over1(a, d), Over0(a, c) \/ Over1(a, d))
         /\ Over0(a, c) \in BOOLEAN /\ Over1(a, d) \in BOOLEAN /\ (Over0(a, c) \/ Over1(a, d)) \in BOOLEAN
  BY DEF Flagged, WithFlags, Over0, Over1, SC!overflows

LEMMA RegsAre ==
  ASSUME NEW r, IsRegs(r)
  PROVE  r.ctrl \in [{0, 1} -> Config] /\ r.ctrl[0] \in Config /\ r.ctrl[1] \in Config
  BY DEF IsRegs

\* An update changes neither accumulators nor bases nor what is configured.
LEMMA Updated ==
  ASSUME NEW n \in {0, 1}, NEW r, IsRegs(r), NEW u, u = SC!update(n, r)
  PROVE  /\ IsRegs(u) /\ u.accum = r.accum /\ u.base = r.base
         /\ SameFirst(n, u.ctrl[0], r.ctrl[0]) /\ SameLane(u.ctrl[1], r.ctrl[1])
<1> DEFINE c == FirstLane(n, r.ctrl[0])
           d == SecondLane(r.ctrl[1])
<1>1. /\ c \in Config /\ SameLane(c, r.ctrl[0]) /\ (c.blend <=> (r.ctrl[0].blend /\ n = 0))
      /\ (c.clamp <=> (r.ctrl[0].clamp /\ n = 1))
      /\ d \in Config /\ SameLane(d, r.ctrl[1])
  BY FirstLaneIs, SecondLaneIs, RegsAre
<1>2. u = [r EXCEPT !.sm = Sm(r.accum, c, d), !.result = Results(r.accum, r.base, c, d),
                    !.ctrl = Configured(r.accum, c, d)]
  BY UpdateIs
<1> HIDE DEF c, d
<1> DEFINE g == Flagged(r.accum, c, d)
           k == Configured(r.accum, c, d)
<1>3. g \in Config /\ SameLane(g, c) /\ g.blend = c.blend /\ g.clamp = c.clamp
  <2>1. g = WithFlags(c, Over0(r.accum, c), Over1(r.accum, d), Over0(r.accum, c) \/ Over1(r.accum, d))
    BY FlaggedIs
  <2>2. /\ Over0(r.accum, c) \in BOOLEAN /\ Over1(r.accum, d) \in BOOLEAN
        /\ (Over0(r.accum, c) \/ Over1(r.accum, d)) \in BOOLEAN
    BY FlaggedIs
  <2> HIDE DEF g
  <2> QED
    BY <1>1, <2>1, <2>2, WithFlagsIs, Zenon
<1>4. k = [i \in {0, 1} |-> IF i = 1 THEN d ELSE g]
  BY DEF Configured
<1> HIDE DEF g
<1>5. k \in [{0, 1} -> Config] /\ k[0] = g /\ k[1] = d
  BY <1>1, <1>3, <1>4
<1> HIDE DEF k
<1>6. /\ r = [accum |-> r.accum, base |-> r.base, ctrl |-> r.ctrl, result |-> r.result, sm |-> r.sm]
      /\ r.accum = [i \in {0, 1} |-> r.accum[i]] /\ r.base = [i \in 0 .. 2 |-> r.base[i]]
  BY DEF IsRegs
<1>7. u = [accum |-> r.accum, base |-> r.base, ctrl |-> k, result |-> Results(r.accum, r.base, c, d),
           sm |-> Sm(r.accum, c, d)]
  BY <1>2, <1>6 DEF k
<1>8. u.accum = r.accum /\ u.base = r.base /\ u.ctrl = k
  BY <1>7
<1>9. IsRegs(u)
  <2>1. u = [accum |-> u.accum, base |-> u.base, ctrl |-> u.ctrl, result |-> u.result, sm |-> u.sm]
    BY <1>7
  <2> QED
    BY <2>1, <1>5, <1>6, <1>8 DEF IsRegs
<1>10. SameFirst(n, u.ctrl[0], r.ctrl[0]) /\ SameLane(u.ctrl[1], r.ctrl[1])
  <2>1. SameLane(g, r.ctrl[0])
    BY <1>1, <1>3 DEF SameLane
  <2>2. r.ctrl[0].blend \in BOOLEAN /\ r.ctrl[0].clamp \in BOOLEAN /\ g.blend \in BOOLEAN /\ g.clamp \in BOOLEAN
    BY <1>3, RegsAre, ConfigFields
  <2>3. n = 0 => g.blend = r.ctrl[0].blend
    BY <1>1, <1>3, <2>2
  <2>4. n = 1 => g.clamp = r.ctrl[0].clamp
    BY <1>1, <1>3, <2>2
  <2> QED
    BY <1>1, <1>5, <1>8, <2>1, <2>3, <2>4 DEF SameFirst
<1> QED
  BY <1>8, <1>9, <1>10

\* Registers that agree in these are updated alike.
LEMMA UpdateAlike ==
  ASSUME NEW n \in {0, 1}, NEW r, NEW q, IsRegs(r), IsRegs(q), q.accum = r.accum, q.base = r.base,
         SameFirst(n, q.ctrl[0], r.ctrl[0]), SameLane(q.ctrl[1], r.ctrl[1])
  PROVE  SC!update(n, q) = SC!update(n, r)
<1> DEFINE c == FirstLane(n, r.ctrl[0])
           d == SecondLane(r.ctrl[1])
           e == FirstLane(n, q.ctrl[0])
           f == SecondLane(q.ctrl[1])
<1>1. /\ c \in Config /\ SameLane(c, r.ctrl[0]) /\ (c.blend <=> (r.ctrl[0].blend /\ n = 0))
      /\ (c.clamp <=> (r.ctrl[0].clamp /\ n = 1))
  BY FirstLaneIs, RegsAre
<1>2. /\ e \in Config /\ SameLane(e, q.ctrl[0]) /\ (e.blend <=> (q.ctrl[0].blend /\ n = 0))
      /\ (e.clamp <=> (q.ctrl[0].clamp /\ n = 1))
  BY FirstLaneIs, RegsAre
<1>3. f = d
  BY SecondLaneAlike, RegsAre
<1>4. /\ SC!update(n, r) = [r EXCEPT !.sm = Sm(r.accum, c, d), !.result = Results(r.accum, r.base, c, d),
                                     !.ctrl = Configured(r.accum, c, d)]
      /\ SC!update(n, q) = [q EXCEPT !.sm = Sm(q.accum, e, f), !.result = Results(q.accum, q.base, e, f),
                                     !.ctrl = Configured(q.accum, e, f)]
  BY UpdateIs
<1> HIDE DEF c, d, e, f
<1>5. SameLane(q.ctrl[0], r.ctrl[0]) /\ (n = 0 => q.ctrl[0].blend = r.ctrl[0].blend)
      /\ (n = 1 => q.ctrl[0].clamp = r.ctrl[0].clamp)
  BY DEF SameFirst
<1>6. SameLane(e, c) /\ (e.blend <=> c.blend) /\ (e.clamp <=> c.clamp)
  <2>1. SameLane(e, c)
    BY <1>1, <1>2, <1>5 DEF SameLane
  <2> QED
    BY <2>1, <1>1, <1>2, <1>5
<1>7. SameLane(d, d)
  BY DEF SameLane
<1>8. Sm(r.accum, e, d) = Sm(r.accum, c, d) /\ Results(r.accum, r.base, e, d) = Results(r.accum, r.base, c, d)
  BY <1>6, <1>7, ResultsAlike
<1>9. Flagged(r.accum, e, d) = Flagged(r.accum, c, d)
  <2>1. Over0(r.accum, e) \in BOOLEAN /\ Over0(r.accum, c) \in BOOLEAN
    BY FlaggedIs
  <2>2. Over0(r.accum, e) = Over0(r.accum, c)
    BY <2>1, <1>6, LanesAlike
  <2> QED
    BY <2>2, <1>1, <1>2, <1>6, FlaggedIs, WithFlagsAlike
<1>10. Configured(r.accum, e, d) = Configured(r.accum, c, d)
  BY <1>9 DEF Configured
<1>11. SC!update(n, q) = [q EXCEPT !.sm = Sm(r.accum, c, d), !.result = Results(r.accum, r.base, c, d),
                                   !.ctrl = Configured(r.accum, c, d)]
  BY <1>3, <1>4, <1>8, <1>10
<1>12. /\ r = [accum |-> r.accum, base |-> r.base, ctrl |-> r.ctrl, result |-> r.result, sm |-> r.sm]
       /\ q = [accum |-> q.accum, base |-> q.base, ctrl |-> q.ctrl, result |-> q.result, sm |-> q.sm]
  BY DEF IsRegs
<1> DEFINE s == Sm(r.accum, c, d)
           x == Results(r.accum, r.base, c, d)
           k == Configured(r.accum, c, d)
<1> HIDE DEF s, x, k
<1>13. SC!update(n, r) = [accum |-> r.accum, base |-> r.base, ctrl |-> k, result |-> x, sm |-> s]
  <2>1. SC!update(n, r) = [r EXCEPT !.sm = s, !.result = x, !.ctrl = k]
    BY <1>4 DEF s, x, k
  <2> QED
    BY <2>1, <1>12
<1>14. SC!update(n, q) = [accum |-> q.accum, base |-> q.base, ctrl |-> k, result |-> x, sm |-> s]
  <2>1. SC!update(n, q) = [q EXCEPT !.sm = s, !.result = x, !.ctrl = k]
    BY <1>11 DEF s, x, k
  <2> QED
    BY <2>1, <1>12
<1> QED
  BY <1>13, <1>14

\* An update leaves registers that another does not change.
LEMMA UpdateStable ==
  ASSUME NEW n \in {0, 1}, NEW r, IsRegs(r), NEW u, u = SC!update(n, r)
  PROVE  /\ Stable(n, u) /\ u.accum = r.accum /\ u.base = r.base
         /\ SameFirst(n, u.ctrl[0], r.ctrl[0]) /\ SameLane(u.ctrl[1], r.ctrl[1])
<1>1. /\ IsRegs(u) /\ u.accum = r.accum /\ u.base = r.base
      /\ SameFirst(n, u.ctrl[0], r.ctrl[0]) /\ SameLane(u.ctrl[1], r.ctrl[1])
  BY Updated
<1>2. SC!update(n, u) = SC!update(n, r)
  BY <1>1, UpdateAlike
<1> QED
  BY <1>1, <1>2 DEF Stable

\* Registers that are up to date and agree in these are the same.
LEMMA StableSame ==
  ASSUME NEW n \in {0, 1}, NEW r, NEW q, Stable(n, r), Stable(n, q), q.accum = r.accum, q.base = r.base,
         SameFirst(n, q.ctrl[0], r.ctrl[0]), SameLane(q.ctrl[1], r.ctrl[1])
  PROVE  q = r
  BY UpdateAlike DEF Stable

-----------------------------------------------------------------------------
(* What the writes of registers leave *)

\* The two functions and the configurations put into the registers.
Put(r, a, b, k) == [accum |-> a, base |-> b, ctrl |-> k, result |-> r.result, sm |-> r.sm]
Pair(x, y) == [i \in {0, 1} |-> IF i = 0 THEN x ELSE y]
Three(x, y, z) == [i \in 0 .. 2 |-> IF i = 0 THEN x ELSE IF i = 1 THEN y ELSE z]

LEMMA PairIs ==
  ASSUME NEW x, NEW y
  PROVE  Pair(x, y)[0] = x /\ Pair(x, y)[1] = y /\ Pair(x, y) = [i \in {0, 1} |-> Pair(x, y)[i]]
  BY DEF Pair
LEMMA ThreeIs ==
  ASSUME NEW x, NEW y, NEW z
  PROVE  /\ Three(x, y, z)[0] = x /\ Three(x, y, z)[1] = y /\ Three(x, y, z)[2] = z
         /\ Three(x, y, z) = [i \in 0 .. 2 |-> Three(x, y, z)[i]]
  BY DEF Three

\* What registers hold, besides results.
Holds(n, u, x, y, b, c, d, k, l) ==
  /\ Stable(n, u) /\ u.accum[0] = x /\ u.accum[1] = y /\ u.base[0] = b /\ u.base[1] = c /\ u.base[2] = d
  /\ SameFirst(n, u.ctrl[0], k) /\ SameLane(u.ctrl[1], l)

LEMMA Putting ==
  ASSUME NEW n \in {0, 1}, NEW r, NEW x, NEW y, NEW b, NEW c, NEW d, NEW k \in Config, NEW l \in Config,
         NEW u, u = SC!update(n, Put(r, Pair(x, y), Three(b, c, d), Pair(k, l)))
  PROVE  Holds(n, u, x, y, b, c, d, k, l)
<1> DEFINE p == Put(r, Pair(x, y), Three(b, c, d), Pair(k, l))
<1>1. p.accum = Pair(x, y) /\ p.base = Three(b, c, d) /\ p.ctrl = Pair(k, l)
  BY DEF Put
<1>2. p = [accum |-> p.accum, base |-> p.base, ctrl |-> p.ctrl, result |-> p.result, sm |-> p.sm]
  BY DEF Put
<1> HIDE DEF p
<1>3. Pair(k, l) \in [{0, 1} -> Config]
  BY DEF Pair
<1>4. IsRegs(p)
  BY <1>1, <1>2, <1>3, PairIs, ThreeIs DEF IsRegs
<1>5. u = SC!update(n, p)
  BY DEF p
<1>6. /\ Stable(n, u) /\ u.accum = p.accum /\ u.base = p.base
      /\ SameFirst(n, u.ctrl[0], p.ctrl[0]) /\ SameLane(u.ctrl[1], p.ctrl[1])
  BY <1>4, <1>5, UpdateStable
<1> QED
  BY <1>1, <1>6, PairIs, ThreeIs DEF Holds

\* Registers by their parts.
LEMMA RegsParted ==
  ASSUME NEW r, IsRegs(r)
  PROVE  /\ r.accum = Pair(r.accum[0], r.accum[1]) /\ r.base = Three(r.base[0], r.base[1], r.base[2])
         /\ r.ctrl = Pair(r.ctrl[0], r.ctrl[1])
         /\ r = [accum |-> r.accum, base |-> r.base, ctrl |-> r.ctrl, result |-> r.result, sm |-> r.sm]
<1>1. r.accum = Pair(r.accum[0], r.accum[1])
  BY DEF IsRegs, Pair
<1>2. r.base = Three(r.base[0], r.base[1], r.base[2])
  <2>1. r.base = [i \in 0 .. 2 |-> r.base[i]]
    BY DEF IsRegs
  <2>2. \A i \in 0 .. 2 : r.base[i] = IF i = 0 THEN r.base[0] ELSE IF i = 1 THEN r.base[1] ELSE r.base[2]
    OBVIOUS
  <2> QED
    BY <2>1, <2>2 DEF Three
<1>3. r.ctrl = Pair(r.ctrl[0], r.ctrl[1])
  BY DEF IsRegs, Pair
<1>4. r = [accum |-> r.accum, base |-> r.base, ctrl |-> r.ctrl, result |-> r.result, sm |-> r.sm]
  BY DEF IsRegs
<1> QED
  BY <1>1, <1>2, <1>3, <1>4

LEMMA PairPut ==
  ASSUME NEW x, NEW y, NEW v, NEW j \in {0, 1}
  PROVE  [Pair(x, y) EXCEPT ![j] = v] = Pair(IF j = 0 THEN v ELSE x, IF j = 1 THEN v ELSE y)
<1> DEFINE f == Pair(x, y)
           g == [f EXCEPT ![j] = v]
<1>1. DOMAIN f = {0, 1} /\ f[0] = x /\ f[1] = y
  BY DEF Pair
<1> HIDE DEF f
<1>2. g = [i \in {0, 1} |-> IF i = j THEN v ELSE f[i]]
  BY <1>1
<1>3. \A i \in {0, 1} :
        (IF i = j THEN v ELSE f[i]) = (IF i = 0 THEN IF j = 0 THEN v ELSE x ELSE IF j = 1 THEN v ELSE y)
  BY <1>1
<1> HIDE DEF g
<1>4. g = Pair(IF j = 0 THEN v ELSE x, IF j = 1 THEN v ELSE y)
  BY <1>2, <1>3 DEF Pair
<1> QED
  BY <1>4 DEF f, g

LEMMA ThreePut ==
  ASSUME NEW b, NEW c, NEW d, NEW v, NEW j \in 0 .. 2
  PROVE  [Three(b, c, d) EXCEPT ![j] = v] =
           Three(IF j = 0 THEN v ELSE b, IF j = 1 THEN v ELSE c, IF j = 2 THEN v ELSE d)
<1> DEFINE f == Three(b, c, d)
           g == [f EXCEPT ![j] = v]
<1>1. DOMAIN f = 0 .. 2 /\ f[0] = b /\ f[1] = c /\ f[2] = d
  BY DEF Three
<1> HIDE DEF f
<1>2. g = [i \in 0 .. 2 |-> IF i = j THEN v ELSE f[i]]
  BY <1>1
<1>3. \A i \in 0 .. 2 :
        (IF i = j THEN v ELSE f[i]) =
          (IF i = 0 THEN IF j = 0 THEN v ELSE b
           ELSE IF i = 1 THEN IF j = 1 THEN v ELSE c ELSE IF j = 2 THEN v ELSE d)
  BY <1>1
<1> HIDE DEF g
<1>4. g = Three(IF j = 0 THEN v ELSE b, IF j = 1 THEN v ELSE c, IF j = 2 THEN v ELSE d)
  BY <1>2, <1>3 DEF Three
<1> QED
  BY <1>4 DEF f, g

LEMMA PutAccum ==
  ASSUME NEW r, IsRegs(r), NEW v
  PROVE  /\ [r EXCEPT !.accum[0] = v] = Put(r, Pair(v, r.accum[1]), r.base, r.ctrl)
         /\ [r EXCEPT !.accum[1] = v] = Put(r, Pair(r.accum[0], v), r.base, r.ctrl)
         /\ [r EXCEPT !.accum = v] = Put(r, v, r.base, r.ctrl)
<1>1. r = [accum |-> r.accum, base |-> r.base, ctrl |-> r.ctrl, result |-> r.result, sm |-> r.sm]
  BY RegsParted
<1>2. [r.accum EXCEPT ![0] = v] = Pair(v, r.accum[1]) /\ [r.accum EXCEPT ![1] = v] = Pair(r.accum[0], v)
  <2> DEFINE a == r.accum
  <2>1. PICK x, y : x = a[0] /\ y = a[1]
    OBVIOUS
  <2>2. a = Pair(x, y)
    BY <2>1, RegsParted
  <2>3. [Pair(x, y) EXCEPT ![0] = v] = Pair(v, y) /\ [Pair(x, y) EXCEPT ![1] = v] = Pair(x, v)
    BY PairPut
  <2> QED
    BY <2>1, <2>2, <2>3
<1>3. [r EXCEPT !.accum[0] = v] = Put(r, Pair(v, r.accum[1]), r.base, r.ctrl)
  BY <1>1, <1>2 DEF Put
<1>4. [r EXCEPT !.accum[1] = v] = Put(r, Pair(r.accum[0], v), r.base, r.ctrl)
  BY <1>1, <1>2 DEF Put
<1>5. [r EXCEPT !.accum = v] = Put(r, v, r.base, r.ctrl)
  BY <1>1 DEF Put
<1> QED
  BY <1>3, <1>4, <1>5

LEMMA PutBase ==
  ASSUME NEW r, IsRegs(r), NEW v, NEW w
  PROVE  /\ [r EXCEPT !.base[0] = v] = Put(r, r.accum, Three(v, r.base[1], r.base[2]), r.ctrl)
         /\ [r EXCEPT !.base[1] = v] = Put(r, r.accum, Three(r.base[0], v, r.base[2]), r.ctrl)
         /\ [r EXCEPT !.base[2] = v] = Put(r, r.accum, Three(r.base[0], r.base[1], v), r.ctrl)
         /\ [r EXCEPT !.base[0] = v, !.base[1] = w] = Put(r, r.accum, Three(v, w, r.base[2]), r.ctrl)
<1>1. r = [accum |-> r.accum, base |-> r.base, ctrl |-> r.ctrl, result |-> r.result, sm |-> r.sm]
  BY RegsParted
<1>2. /\ [r.base EXCEPT ![0] = v] = Three(v, r.base[1], r.base[2])
      /\ [r.base EXCEPT ![1] = v] = Three(r.base[0], v, r.base[2])
      /\ [r.base EXCEPT ![2] = v] = Three(r.base[0], r.base[1], v)
  <2> DEFINE a == r.base
  <2>1. PICK x, y, z : x = a[0] /\ y = a[1] /\ z = a[2]
    OBVIOUS
  <2>2. a = Three(x, y, z)
    BY <2>1, RegsParted
  <2>3. /\ [Three(x, y, z) EXCEPT ![0] = v] = Three(v, y, z) /\ [Three(x, y, z) EXCEPT ![1] = v] = Three(x, v, z)
        /\ [Three(x, y, z) EXCEPT ![2] = v] = Three(x, y, v)
    BY ThreePut
  <2> QED
    BY <2>1, <2>2, <2>3
<1>3. [r EXCEPT !.base[0] = v] = Put(r, r.accum, Three(v, r.base[1], r.base[2]), r.ctrl)
  BY <1>1, <1>2 DEF Put
<1>4. [r EXCEPT !.base[1] = v] = Put(r, r.accum, Three(r.base[0], v, r.base[2]), r.ctrl)
  BY <1>1, <1>2 DEF Put
<1>5. [r EXCEPT !.base[2] = v] = Put(r, r.accum, Three(r.base[0], r.base[1], v), r.ctrl)
  BY <1>1, <1>2 DEF Put
<1>6. [r EXCEPT !.base[0] = v, !.base[1] = w] = Put(r, r.accum, Three(v, w, r.base[2]), r.ctrl)
  <2> DEFINE q == Put(r, r.accum, Three(v, r.base[1], r.base[2]), r.ctrl)
  <2>1. Three(v, w, r.base[2]) = [Three(v, r.base[1], r.base[2]) EXCEPT ![1] = w]
    BY ThreePut
  <2>2. [q EXCEPT !.base[1] = w] = Put(r, r.accum, Three(v, w, r.base[2]), r.ctrl)
    BY <2>1 DEF Put
  <2>3. [r EXCEPT !.base[0] = v, !.base[1] = w] = [[r EXCEPT !.base[0] = v] EXCEPT !.base[1] = w]
    OBVIOUS
  <2>4. [r EXCEPT !.base[0] = v] = q
    BY <1>3
  <2> HIDE DEF q
  <2> QED
    BY <2>2, <2>3, <2>4, Zenon
<1> QED
  BY <1>3, <1>4, <1>5, <1>6

LEMMA PutCtrl ==
  ASSUME NEW r, IsRegs(r), NEW v
  PROVE  /\ [r EXCEPT !.ctrl[0] = v] = Put(r, r.accum, r.base, Pair(v, r.ctrl[1]))
         /\ [r EXCEPT !.ctrl[1] = v] = Put(r, r.accum, r.base, Pair(r.ctrl[0], v))
<1>1. r = [accum |-> r.accum, base |-> r.base, ctrl |-> r.ctrl, result |-> r.result, sm |-> r.sm]
  BY RegsParted
<1>2. [r.ctrl EXCEPT ![0] = v] = Pair(v, r.ctrl[1]) /\ [r.ctrl EXCEPT ![1] = v] = Pair(r.ctrl[0], v)
  <2> DEFINE a == r.ctrl
  <2>1. PICK x, y : x = a[0] /\ y = a[1]
    OBVIOUS
  <2>2. a = Pair(x, y)
    BY <2>1, RegsParted
  <2>3. [Pair(x, y) EXCEPT ![0] = v] = Pair(v, y) /\ [Pair(x, y) EXCEPT ![1] = v] = Pair(x, v)
    BY PairPut
  <2> QED
    BY <2>1, <2>2, <2>3
<1>3. [r EXCEPT !.ctrl[0] = v] = Put(r, r.accum, r.base, Pair(v, r.ctrl[1]))
  BY <1>1, <1>2 DEF Put
<1>4. [r EXCEPT !.ctrl[1] = v] = Put(r, r.accum, r.base, Pair(r.ctrl[0], v))
  BY <1>1, <1>2 DEF Put
<1> QED
  BY <1>3, <1>4

LEMMA Decoded ==
  ASSUME NEW v \in Nat
  PROVE  SC!decode(v) \in Config
<1>1. v % 32 \in 0 .. 31 /\ (v \div 2 ^ 5) % 32 \in 0 .. 31 /\ (v \div 2 ^ 10) % 32 \in 0 .. 31
  BY Powers
<1>2. (v \div 2 ^ 19) % 4 \in 0 .. 3
  BY Powers
<1>3. \A k : SC!Bit(v, k) \in BOOLEAN
  BY DEF SC!Bit
<1> QED
  BY <1>1, <1>2, <1>3 DEF SC!decode, Config

\* Registers after a write of one of them.
LEMMA Updating ==
  ASSUME NEW n \in {0, 1}, NEW r, IsRegs(r), NEW a, NEW b, NEW k, NEW x, NEW y, NEW c, NEW d, NEW e,
         NEW g \in Config, NEW h \in Config, a = Pair(x, y), b = Three(c, d, e), k = Pair(g, h)
  PROVE  Holds(n, SC!update(n, Put(r, a, b, k)), x, y, c, d, e, g, h)
  BY Putting

LEMMA AccumWritten ==
  ASSUME NEW n \in {0, 1}, NEW r, IsRegs(r), NEW v
  PROVE  /\ Holds(n, SC!update(n, [r EXCEPT !.accum[0] = v]), v, r.accum[1], r.base[0], r.base[1], r.base[2],
                  r.ctrl[0], r.ctrl[1])
         /\ Holds(n, SC!update(n, [r EXCEPT !.accum[1] = v]), r.accum[0], v, r.base[0], r.base[1], r.base[2],
                  r.ctrl[0], r.ctrl[1])
<1>1. r.ctrl[0] \in Config /\ r.ctrl[1] \in Config
  BY RegsAre
<1>2. r.base = Three(r.base[0], r.base[1], r.base[2]) /\ r.ctrl = Pair(r.ctrl[0], r.ctrl[1])
  BY RegsParted
<1>3. Holds(n, SC!update(n, Put(r, Pair(v, r.accum[1]), r.base, r.ctrl)), v, r.accum[1], r.base[0], r.base[1],
            r.base[2], r.ctrl[0], r.ctrl[1])
  BY <1>1, <1>2, Updating
<1>4. Holds(n, SC!update(n, Put(r, Pair(r.accum[0], v), r.base, r.ctrl)), r.accum[0], v, r.base[0], r.base[1],
            r.base[2], r.ctrl[0], r.ctrl[1])
  BY <1>1, <1>2, Updating
<1> QED
  BY <1>3, <1>4, PutAccum, Zenon

LEMMA BaseWritten ==
  ASSUME NEW n \in {0, 1}, NEW r, IsRegs(r), NEW v
  PROVE  /\ Holds(n, SC!update(n, [r EXCEPT !.base[0] = v]), r.accum[0], r.accum[1], v, r.base[1], r.base[2],
                  r.ctrl[0], r.ctrl[1])
         /\ Holds(n, SC!update(n, [r EXCEPT !.base[1] = v]), r.accum[0], r.accum[1], r.base[0], v, r.base[2],
                  r.ctrl[0], r.ctrl[1])
         /\ Holds(n, SC!update(n, [r EXCEPT !.base[2] = v]), r.accum[0], r.accum[1], r.base[0], r.base[1], v,
                  r.ctrl[0], r.ctrl[1])
         /\ \A w : Stable(n, SC!update(n, [r EXCEPT !.base[0] = v, !.base[1] = w]))
<1>1. r.ctrl[0] \in Config /\ r.ctrl[1] \in Config
  BY RegsAre
<1>2. r.accum = Pair(r.accum[0], r.accum[1]) /\ r.ctrl = Pair(r.ctrl[0], r.ctrl[1])
  BY RegsParted
<1>3. Holds(n, SC!update(n, Put(r, r.accum, Three(v, r.base[1], r.base[2]), r.ctrl)), r.accum[0], r.accum[1],
            v, r.base[1], r.base[2], r.ctrl[0], r.ctrl[1])
  BY <1>1, <1>2, Updating
<1>4. Holds(n, SC!update(n, Put(r, r.accum, Three(r.base[0], v, r.base[2]), r.ctrl)), r.accum[0], r.accum[1],
            r.base[0], v, r.base[2], r.ctrl[0], r.ctrl[1])
  BY <1>1, <1>2, Updating
<1>5. Holds(n, SC!update(n, Put(r, r.accum, Three(r.base[0], r.base[1], v), r.ctrl)), r.accum[0], r.accum[1],
            r.base[0], r.base[1], v, r.ctrl[0], r.ctrl[1])
  BY <1>1, <1>2, Updating
<1>6. ASSUME NEW w
      PROVE  Stable(n, SC!update(n, [r EXCEPT !.base[0] = v, !.base[1] = w]))
  <2>1. Holds(n, SC!update(n, Put(r, r.accum, Three(v, w, r.base[2]), r.ctrl)), r.accum[0], r.accum[1],
              v, w, r.base[2], r.ctrl[0], r.ctrl[1])
    BY <1>1, <1>2, Updating
  <2>2. Stable(n, SC!update(n, Put(r, r.accum, Three(v, w, r.base[2]), r.ctrl)))
    BY <2>1 DEF Holds
  <2> QED
    BY <2>2, PutBase, Zenon
<1>7. \A w : Stable(n, SC!update(n, [r EXCEPT !.base[0] = v, !.base[1] = w]))
  BY <1>6
<1>8. /\ [r EXCEPT !.base[0] = v] = Put(r, r.accum, Three(v, r.base[1], r.base[2]), r.ctrl)
      /\ [r EXCEPT !.base[1] = v] = Put(r, r.accum, Three(r.base[0], v, r.base[2]), r.ctrl)
      /\ [r EXCEPT !.base[2] = v] = Put(r, r.accum, Three(r.base[0], r.base[1], v), r.ctrl)
  BY PutBase
<1> QED
  BY <1>3, <1>4, <1>5, <1>7, <1>8, Zenon

LEMMA CtrlWritten ==
  ASSUME NEW n \in {0, 1}, NEW r, IsRegs(r), NEW v \in Config
  PROVE  /\ Holds(n, SC!update(n, [r EXCEPT !.ctrl[0] = v]), r.accum[0], r.accum[1], r.base[0], r.base[1],
                  r.base[2], v, r.ctrl[1])
         /\ Holds(n, SC!update(n, [r EXCEPT !.ctrl[1] = v]), r.accum[0], r.accum[1], r.base[0], r.base[1],
                  r.base[2], r.ctrl[0], v)
<1>1. r.ctrl[0] \in Config /\ r.ctrl[1] \in Config
  BY RegsAre
<1>2. r.accum = Pair(r.accum[0], r.accum[1]) /\ r.base = Three(r.base[0], r.base[1], r.base[2])
  BY RegsParted
<1>3. Holds(n, SC!update(n, Put(r, r.accum, r.base, Pair(v, r.ctrl[1]))), r.accum[0], r.accum[1], r.base[0],
            r.base[1], r.base[2], v, r.ctrl[1])
  BY <1>1, <1>2, Updating
<1>4. Holds(n, SC!update(n, Put(r, r.accum, r.base, Pair(r.ctrl[0], v))), r.accum[0], r.accum[1], r.base[0],
            r.base[1], r.base[2], r.ctrl[0], v)
  BY <1>1, <1>2, Updating
<1> QED
  BY <1>3, <1>4, PutCtrl, Zenon

\* The accumulators together.
LEMMA AccumsWritten ==
  ASSUME NEW n \in {0, 1}, NEW r, IsRegs(r), NEW a, a = [i \in {0, 1} |-> a[i]]
  PROVE  Stable(n, SC!update(n, [r EXCEPT !.accum = a]))
<1>1. r.ctrl[0] \in Config /\ r.ctrl[1] \in Config
  BY RegsAre
<1>2. r.base = Three(r.base[0], r.base[1], r.base[2]) /\ r.ctrl = Pair(r.ctrl[0], r.ctrl[1])
  BY RegsParted
<1>3. a = Pair(a[0], a[1])
  BY DEF Pair
<1>4. Holds(n, SC!update(n, Put(r, a, r.base, r.ctrl)), a[0], a[1], r.base[0], r.base[1],
            r.base[2], r.ctrl[0], r.ctrl[1])
  BY <1>1, <1>2, <1>3, Updating
<1>5. Stable(n, SC!update(n, Put(r, a, r.base, r.ctrl)))
  BY <1>4 DEF Holds
<1> QED
  BY <1>5, PutAccum, Zenon

LEMMA SameChain ==
  ASSUME NEW n, NEW c, NEW d, NEW e
  PROVE  /\ SameLane(c, d) /\ SameLane(d, e) => SameLane(c, e)
         /\ SameFirst(n, c, d) /\ SameFirst(n, d, e) => SameFirst(n, c, e)
  BY DEF SameLane, SameFirst

\* Every write by a program, and a pop, leave registers that are up to date.
LEMMA WriteStable ==
  ASSUME NEW n \in {0, 1}, NEW r, IsRegs(r), NEW v
  PROVE  /\ \A reg \in SC!InterpRegisters \union {"ACCUM0_ADD", "ACCUM1_ADD", "BASE_1AND0"} :
              Stable(n, SC!writeInterp(n, r, reg, v))
         /\ v \in Nat => \A reg \in {"CTRL0", "CTRL1"} : Stable(n, SC!writeInterp(n, r, reg, v))
         /\ Stable(n, SC!readInterp(n, r, "POP_FULL"))
<1>1. \A w : /\ Stable(n, SC!update(n, [r EXCEPT !.accum[0] = w]))
             /\ Stable(n, SC!update(n, [r EXCEPT !.accum[1] = w]))
  BY AccumWritten DEF Holds
<1>2. \A w : /\ Stable(n, SC!update(n, [r EXCEPT !.base[0] = w]))
             /\ Stable(n, SC!update(n, [r EXCEPT !.base[1] = w]))
             /\ Stable(n, SC!update(n, [r EXCEPT !.base[2] = w]))
             /\ \A x : Stable(n, SC!update(n, [r EXCEPT !.base[0] = w, !.base[1] = x]))
  BY BaseWritten DEF Holds
<1>3. Stable(n, SC!writeInterp(n, r, "ACCUM0", v)) /\ Stable(n, SC!writeInterp(n, r, "ACCUM1", v))
  <2>1. SC!writeInterp(n, r, "ACCUM0", v) = SC!update(n, [r EXCEPT !.accum[0] = v])
    BY DEF SC!writeInterp
  <2>2. SC!writeInterp(n, r, "ACCUM1", v) = SC!update(n, [r EXCEPT !.accum[1] = v])
    BY DEF SC!writeInterp
  <2> QED
    BY <1>1, <2>1, <2>2, Zenon
<1>4. /\ Stable(n, SC!writeInterp(n, r, "BASE0", v)) /\ Stable(n, SC!writeInterp(n, r, "BASE1", v))
      /\ Stable(n, SC!writeInterp(n, r, "BASE2", v))
  <2>1. SC!writeInterp(n, r, "BASE0", v) = SC!update(n, [r EXCEPT !.base[0] = v])
    BY DEF SC!writeInterp
  <2>2. SC!writeInterp(n, r, "BASE1", v) = SC!update(n, [r EXCEPT !.base[1] = v])
    BY DEF SC!writeInterp
  <2>3. SC!writeInterp(n, r, "BASE2", v) = SC!update(n, [r EXCEPT !.base[2] = v])
    BY DEF SC!writeInterp
  <2> QED
    BY <1>2, <2>1, <2>2, <2>3, Zenon
<1>5. Stable(n, SC!writeInterp(n, r, "ACCUM0_ADD", v)) /\ Stable(n, SC!writeInterp(n, r, "ACCUM1_ADD", v))
  <2>1. SC!writeInterp(n, r, "ACCUM0_ADD", v) = SC!update(n, [r EXCEPT !.accum[0] = SC!u32(r.accum[0] + v)])
    BY DEF SC!writeInterp
  <2>2. SC!writeInterp(n, r, "ACCUM1_ADD", v) = SC!update(n, [r EXCEPT !.accum[1] = SC!u32(r.accum[1] + v)])
    BY DEF SC!writeInterp
  <2> QED
    BY <1>1, <2>1, <2>2, Zenon
<1>6. Stable(n, SC!writeInterp(n, r, "BASE_1AND0", v))
  <2>1. SC!writeInterp(n, r, "BASE_1AND0", v) = SC!setBase01(n, r, v)
    BY DEF SC!writeInterp
  <2>2. PICK w, x : SC!setBase01(n, r, v) = SC!update(n, [r EXCEPT !.base[0] = w, !.base[1] = x])
    BY Zenon DEF SC!setBase01
  <2>3. Stable(n, SC!update(n, [r EXCEPT !.base[0] = w, !.base[1] = x]))
    BY <1>1, BaseWritten, Zenon
  <2>4. SC!writeInterp(n, r, "BASE_1AND0", v) = SC!update(n, [r EXCEPT !.base[0] = w, !.base[1] = x])
    BY <2>1, <2>2, Zenon
  <2> QED
    BY <2>3, <2>4, Zenon
<1>7. ASSUME v \in Nat
      PROVE  Stable(n, SC!writeInterp(n, r, "CTRL0", v)) /\ Stable(n, SC!writeInterp(n, r, "CTRL1", v))
  <2>1. SC!decode(v) \in Config
    BY <1>7, Decoded
  <2>2. /\ Stable(n, SC!update(n, [r EXCEPT !.ctrl[0] = SC!decode(v)]))
        /\ Stable(n, SC!update(n, [r EXCEPT !.ctrl[1] = SC!decode(v)]))
    BY <2>1, CtrlWritten DEF Holds
  <2>3. SC!writeInterp(n, r, "CTRL0", v) = SC!update(n, [r EXCEPT !.ctrl[0] = SC!decode(v)])
    BY DEF SC!writeInterp
  <2>4. SC!writeInterp(n, r, "CTRL1", v) = SC!update(n, [r EXCEPT !.ctrl[1] = SC!decode(v)])
    BY DEF SC!writeInterp
  <2> QED
    BY <2>2, <2>3, <2>4, Zenon
<1>8. Stable(n, SC!readInterp(n, r, "POP_FULL"))
  <2>1. SC!readInterp(n, r, "POP_FULL") = SC!writeback(n, r)
    BY DEF SC!readInterp
  <2>2. PICK a : a = [i \in {0, 1} |-> r.result[IF r.ctrl[i].crossResult THEN 1 - i ELSE i]]
    OBVIOUS
  <2>3. SC!writeback(n, r) = SC!update(n, [r EXCEPT !.accum = a])
    BY <2>2, Zenon DEF SC!writeback
  <2>4. a = [i \in {0, 1} |-> a[i]]
    BY <2>2
  <2>5. Stable(n, SC!update(n, [r EXCEPT !.accum = a]))
    BY <2>4, AccumsWritten
  <2> QED
    BY <2>1, <2>3, <2>5, Zenon
<1> QED
  BY <1>3, <1>4, <1>5, <1>6, <1>7, <1>8 DEF SC!InterpRegisters

-----------------------------------------------------------------------------
(* What a handler restores *)

Sequence == <<"ACCUM0", "ACCUM1", "BASE0", "BASE1", "BASE2", "CTRL0", "CTRL1">>

LEMMA RestoreInterpolator ==
  ASSUME NEW n \in {0, 1}, NEW s, Stable(n, s), NEW e, Stable(n, e.it), NEW k \in 0 .. 6,
         Interpolated(n, s, e.it, k),
         NEW w, w = SC!writeInterp(n, s, Sequence[k + 1], SC!Saved(e, Sequence[k + 1]))
  PROVE  Stable(n, w) /\ Interpolated(n, w, e.it, k + 1)
<1> DEFINE f == e.it
<1>1. IsRegs(s) /\ IsRegs(f)
  BY DEF Stable
<1>2. f.ctrl[0] \in Config /\ f.ctrl[1] \in Config /\ s.ctrl[0] \in Config /\ s.ctrl[1] \in Config
  BY <1>1, RegsAre
<1> HIDE DEF f
<1>3. CASE k = 0
  <2>1. w = SC!update(n, [s EXCEPT !.accum[0] = f.accum[0]])
    BY <1>3 DEF Sequence, SC!writeInterp, SC!Saved, f
  <2>2. Holds(n, w, f.accum[0], s.accum[1], s.base[0], s.base[1], s.base[2], s.ctrl[0], s.ctrl[1])
    BY <1>1, <2>1, AccumWritten
  <2> QED
    BY <1>3, <2>2 DEF Holds, Interpolated, f
<1>4. CASE k = 1
  <2>1. w = SC!update(n, [s EXCEPT !.accum[1] = f.accum[1]])
    BY <1>4 DEF Sequence, SC!writeInterp, SC!Saved, f
  <2>2. Holds(n, w, s.accum[0], f.accum[1], s.base[0], s.base[1], s.base[2], s.ctrl[0], s.ctrl[1])
    BY <1>1, <2>1, AccumWritten
  <2> QED
    BY <1>4, <2>2 DEF Holds, Interpolated, f
<1>5. CASE k = 2
  <2>1. w = SC!update(n, [s EXCEPT !.base[0] = f.base[0]])
    BY <1>5 DEF Sequence, SC!writeInterp, SC!Saved, f
  <2>2. Holds(n, w, s.accum[0], s.accum[1], f.base[0], s.base[1], s.base[2], s.ctrl[0], s.ctrl[1])
    BY <1>1, <2>1, BaseWritten
  <2> QED
    BY <1>5, <2>2 DEF Holds, Interpolated, f
<1>6. CASE k = 3
  <2>1. w = SC!update(n, [s EXCEPT !.base[1] = f.base[1]])
    BY <1>6 DEF Sequence, SC!writeInterp, SC!Saved, f
  <2>2. Holds(n, w, s.accum[0], s.accum[1], s.base[0], f.base[1], s.base[2], s.ctrl[0], s.ctrl[1])
    BY <1>1, <2>1, BaseWritten
  <2> QED
    BY <1>6, <2>2 DEF Holds, Interpolated, f
<1>7. CASE k = 4
  <2>1. w = SC!update(n, [s EXCEPT !.base[2] = f.base[2]])
    BY <1>7 DEF Sequence, SC!writeInterp, SC!Saved, f
  <2>2. Holds(n, w, s.accum[0], s.accum[1], s.base[0], s.base[1], f.base[2], s.ctrl[0], s.ctrl[1])
    BY <1>1, <2>1, BaseWritten
  <2> QED
    BY <1>7, <2>2 DEF Holds, Interpolated, f
<1>8. CASE k = 5
  <2>1. w = SC!update(n, [s EXCEPT !.ctrl[0] = SC!decode(SC!toUint32(f.ctrl[0]))])
    BY <1>8 DEF Sequence, SC!writeInterp, SC!Saved, f
  <2>2. w = SC!update(n, [s EXCEPT !.ctrl[0] = f.ctrl[0]])
    BY <1>2, <2>1, RoundTrip
  <2>3. Holds(n, w, s.accum[0], s.accum[1], s.base[0], s.base[1], s.base[2], f.ctrl[0], s.ctrl[1])
    BY <1>1, <1>2, <2>2, CtrlWritten
  <2> QED
    BY <1>8, <2>3 DEF Holds, Interpolated, f
<1>9. CASE k = 6
  <2>1. w = SC!update(n, [s EXCEPT !.ctrl[1] = SC!decode(SC!toUint32(f.ctrl[1]))])
    BY <1>9 DEF Sequence, SC!writeInterp, SC!Saved, f
  <2>2. w = SC!update(n, [s EXCEPT !.ctrl[1] = f.ctrl[1]])
    BY <1>2, <2>1, RoundTrip
  <2>3. Holds(n, w, s.accum[0], s.accum[1], s.base[0], s.base[1], s.base[2], s.ctrl[0], f.ctrl[1])
    BY <1>1, <1>2, <2>2, CtrlWritten
  <2>4. SameFirst(n, w.ctrl[0], s.ctrl[0]) /\ SameFirst(n, s.ctrl[0], f.ctrl[0])
    BY <1>9, <2>3 DEF Holds, Interpolated, f
  <2>5. SameFirst(n, w.ctrl[0], f.ctrl[0])
    BY <2>4, SameChain
  <2> QED
    BY <1>9, <2>3, <2>5 DEF Holds, Interpolated, f
<1> QED
  BY <1>3, <1>4, <1>5, <1>6, <1>7, <1>8, <1>9

\* A handler that has restored all has restored the registers.
LEMMA AllInterpolated ==
  ASSUME NEW n \in {0, 1}, NEW s, Stable(n, s), NEW f, Stable(n, f), Interpolated(n, s, f, 7)
  PROVE  s = f
<1>1. IsRegs(s) /\ IsRegs(f)
  BY DEF Stable
<1>2. /\ s.accum[0] = f.accum[0] /\ s.accum[1] = f.accum[1] /\ s.base[0] = f.base[0] /\ s.base[1] = f.base[1]
      /\ s.base[2] = f.base[2] /\ SameFirst(n, s.ctrl[0], f.ctrl[0]) /\ SameLane(s.ctrl[1], f.ctrl[1])
  BY DEF Interpolated
<1>3. s.accum = f.accum /\ s.base = f.base
  BY <1>1, <1>2, RegsParted
<1> QED
  BY <1>2, <1>3, StableSame

LEMMA DividerUpdated ==
  ASSUME NEW d, IsDivider(d), NEW signed, NEW u, u = SC!updateHardwareDivider(d, signed)
  PROVE  IsDivider(u) /\ u.dividend = d.dividend /\ u.divisor = d.divisor
<1>1. PICK q, m : u = [d EXCEPT !.quotient = q, !.remainder = m, !.dirty = TRUE]
  BY Zenon DEF SC!updateHardwareDivider
<1>2. d = [dividend |-> d.dividend, divisor |-> d.divisor, quotient |-> d.quotient, remainder |-> d.remainder,
           dirty |-> d.dirty]
  BY DEF IsDivider
<1>3. u = [dividend |-> d.dividend, divisor |-> d.divisor, quotient |-> q, remainder |-> m, dirty |-> TRUE]
  BY <1>1, <1>2
<1> QED
  BY <1>3 DEF IsDivider

LEMMA DividendPut ==
  ASSUME NEW d, IsDivider(d), NEW v
  PROVE  /\ IsDivider([d EXCEPT !.dividend = v]) /\ [d EXCEPT !.dividend = v].dividend = v
         /\ [d EXCEPT !.dividend = v].divisor = d.divisor
         /\ IsDivider([d EXCEPT !.divisor = v]) /\ [d EXCEPT !.divisor = v].divisor = v
         /\ [d EXCEPT !.divisor = v].dividend = d.dividend
<1>1. d = [dividend |-> d.dividend, divisor |-> d.divisor, quotient |-> d.quotient, remainder |-> d.remainder,
           dirty |-> d.dirty]
  BY DEF IsDivider
<1>2. [d EXCEPT !.dividend = v] = [dividend |-> v, divisor |-> d.divisor, quotient |-> d.quotient,
                                   remainder |-> d.remainder, dirty |-> d.dirty]
  BY <1>1
<1>3. [d EXCEPT !.divisor = v] = [dividend |-> d.dividend, divisor |-> v, quotient |-> d.quotient,
                                  remainder |-> d.remainder, dirty |-> d.dirty]
  BY <1>1
<1> QED
  BY <1>2, <1>3 DEF IsDivider

LEMMA DividerWritten ==
  ASSUME NEW d, IsDivider(d), NEW v
  PROVE  /\ \A reg \in SC!DividerRegisters : IsDivider(SC!writeDivider(d, reg, v))
         /\ SC!writeDivider(d, "UDIVIDEND", v).dividend = v
         /\ SC!writeDivider(d, "UDIVISOR", v).divisor = v
         /\ SC!writeDivider(d, "UDIVISOR", v).dividend = d.dividend
         /\ SC!writeDivider(d, "REMAINDER", v) = [d EXCEPT !.remainder = v, !.dirty = TRUE]
         /\ SC!writeDivider(d, "QUOTIENT", v) = [d EXCEPT !.quotient = v, !.dirty = TRUE]
<1>1. /\ SC!writeDivider(d, "UDIVIDEND", v) = SC!updateHardwareDivider([d EXCEPT !.dividend = v], FALSE)
      /\ SC!writeDivider(d, "SDIVIDEND", v) = SC!updateHardwareDivider([d EXCEPT !.dividend = v], TRUE)
      /\ SC!writeDivider(d, "UDIVISOR", v) = SC!updateHardwareDivider([d EXCEPT !.divisor = v], FALSE)
      /\ SC!writeDivider(d, "SDIVISOR", v) = SC!updateHardwareDivider([d EXCEPT !.divisor = v], TRUE)
  BY DEF SC!writeDivider
<1>2. /\ SC!writeDivider(d, "REMAINDER", v) = [d EXCEPT !.remainder = v, !.dirty = TRUE]
      /\ SC!writeDivider(d, "QUOTIENT", v) = [d EXCEPT !.quotient = v, !.dirty = TRUE]
  BY DEF SC!writeDivider
<1>3. \A b : /\ IsDivider(SC!updateHardwareDivider([d EXCEPT !.dividend = v], b))
             /\ SC!updateHardwareDivider([d EXCEPT !.dividend = v], b).dividend = v
             /\ IsDivider(SC!updateHardwareDivider([d EXCEPT !.divisor = v], b))
             /\ SC!updateHardwareDivider([d EXCEPT !.divisor = v], b).divisor = v
             /\ SC!updateHardwareDivider([d EXCEPT !.divisor = v], b).dividend = d.dividend
  <2>1. PICK p, q : p = [d EXCEPT !.dividend = v] /\ q = [d EXCEPT !.divisor = v]
    OBVIOUS
  <2>2. IsDivider(p) /\ p.dividend = v /\ IsDivider(q) /\ q.divisor = v /\ q.dividend = d.dividend
    BY <2>1, DividendPut, Zenon
  <2>3. \A b : /\ IsDivider(SC!updateHardwareDivider(p, b))
               /\ SC!updateHardwareDivider(p, b).dividend = v
               /\ IsDivider(SC!updateHardwareDivider(q, b))
               /\ SC!updateHardwareDivider(q, b).divisor = v
               /\ SC!updateHardwareDivider(q, b).dividend = d.dividend
    BY <2>2, DividerUpdated
  <2> QED
    BY <2>1, <2>3, Zenon
<1>4. d = [dividend |-> d.dividend, divisor |-> d.divisor, quotient |-> d.quotient, remainder |-> d.remainder,
           dirty |-> d.dirty]
  BY DEF IsDivider
<1>5. IsDivider([d EXCEPT !.remainder = v, !.dirty = TRUE]) /\ IsDivider([d EXCEPT !.quotient = v, !.dirty = TRUE])
  <2>1. PICK p, q : p = [d EXCEPT !.remainder = v, !.dirty = TRUE] /\ q = [d EXCEPT !.quotient = v, !.dirty = TRUE]
    OBVIOUS
  <2>2. p = [dividend |-> d.dividend, divisor |-> d.divisor, quotient |-> d.quotient, remainder |-> v, dirty |-> TRUE]
    BY <1>4, <2>1
  <2>3. q = [dividend |-> d.dividend, divisor |-> d.divisor, quotient |-> v, remainder |-> d.remainder, dirty |-> TRUE]
    BY <1>4, <2>1
  <2>4. IsDivider(p) /\ IsDivider(q)
    BY <2>2, <2>3 DEF IsDivider
  <2> QED
    BY <2>1, <2>4, Zenon
<1>6. \A reg \in SC!DividerRegisters : IsDivider(SC!writeDivider(d, reg, v))
  <2> SUFFICES ASSUME NEW reg \in SC!DividerRegisters
               PROVE  IsDivider(SC!writeDivider(d, reg, v))
    OBVIOUS
  <2>1. CASE reg \in {"UDIVIDEND", "SDIVIDEND", "UDIVISOR", "SDIVISOR"}
    BY <2>1, <1>1, <1>3, Zenon
  <2>2. CASE reg \in {"REMAINDER", "QUOTIENT"}
    BY <2>2, <1>2, <1>5, Zenon
  <2> QED
    BY <2>1, <2>2 DEF SC!DividerRegisters
<1> QED
  BY <1>1, <1>2, <1>3, <1>6, Zenon

DividerSequence == <<"UDIVIDEND", "UDIVISOR", "REMAINDER", "QUOTIENT">>

LEMMA RestoreDivider ==
  ASSUME NEW s, IsDivider(s), NEW e, NEW k \in 0 .. 3, Divided(s, e.div, k),
         NEW w, w = SC!writeDivider(s, DividerSequence[k + 1], SC!Saved(e, DividerSequence[k + 1]))
  PROVE  IsDivider(w) /\ Divided(w, e.div, k + 1)
<1>1. IsDivider(w)
  <2>1. DividerSequence[k + 1] \in SC!DividerRegisters
    BY DEF DividerSequence, SC!DividerRegisters
  <2> QED
    BY <2>1, DividerWritten, Zenon
<1>2. s = [dividend |-> s.dividend, divisor |-> s.divisor, quotient |-> s.quotient, remainder |-> s.remainder,
           dirty |-> s.dirty]
  BY DEF IsDivider
<1>3. CASE k = 0
  <2>1. w = SC!writeDivider(s, "UDIVIDEND", e.div.dividend)
    BY <1>3 DEF DividerSequence, SC!Saved
  <2>2. SC!writeDivider(s, "UDIVIDEND", e.div.dividend).dividend = e.div.dividend
    <3>1. \A v : SC!writeDivider(s, "UDIVIDEND", v).dividend = v
      BY DividerWritten, Zenon
    <3> QED
      BY <3>1, Zenon
  <2>3. w.dividend = e.div.dividend
    BY <2>1, <2>2, Zenon
  <2> QED
    BY <1>1, <1>3, <2>3 DEF Divided
<1>4. CASE k = 1
  <2>1. w = SC!writeDivider(s, "UDIVISOR", e.div.divisor)
    BY <1>4 DEF DividerSequence, SC!Saved
  <2>2. /\ SC!writeDivider(s, "UDIVISOR", e.div.divisor).divisor = e.div.divisor
        /\ SC!writeDivider(s, "UDIVISOR", e.div.divisor).dividend = s.dividend
    BY DividerWritten, Zenon
  <2>3. w.divisor = e.div.divisor /\ w.dividend = s.dividend
    BY <2>1, <2>2, Zenon
  <2> QED
    BY <1>1, <1>4, <2>3 DEF Divided
<1>5. CASE k = 2
  <2>1. w = SC!writeDivider(s, "REMAINDER", e.div.remainder)
    BY <1>5 DEF DividerSequence, SC!Saved
  <2>2. w = [s EXCEPT !.remainder = e.div.remainder, !.dirty = TRUE]
    BY <2>1, DividerWritten, Zenon
  <2>3. w.dividend = s.dividend /\ w.divisor = s.divisor /\ w.remainder = e.div.remainder
    BY <1>2, <2>2
  <2> QED
    BY <1>1, <1>5, <2>3 DEF Divided
<1>6. CASE k = 3
  <2>1. w = SC!writeDivider(s, "QUOTIENT", e.div.quotient)
    BY <1>6 DEF DividerSequence, SC!Saved
  <2>2. w = [s EXCEPT !.quotient = e.div.quotient, !.dirty = TRUE]
    BY <2>1, DividerWritten, Zenon
  <2>3. /\ w.dividend = s.dividend /\ w.divisor = s.divisor /\ w.remainder = s.remainder
        /\ w.quotient = e.div.quotient
    BY <1>2, <2>2
  <2> QED
    BY <1>1, <1>6, <2>3 DEF Divided
<1> QED
  BY <1>3, <1>4, <1>5, <1>6

LEMMA DirtyIs ==
  ASSUME NEW d, IsDivider(d), NEW b, NEW u, u = [d EXCEPT !.dirty = b]
  PROVE  u = [dividend |-> d.dividend, divisor |-> d.divisor, quotient |-> d.quotient, remainder |-> d.remainder,
              dirty |-> b]
  BY DEF IsDivider

LEMMA AllDivided ==
  ASSUME NEW s, IsDivider(s), NEW f, IsDivider(f), Divided(s, f, 4)
  PROVE  [s EXCEPT !.dirty = TRUE] = [f EXCEPT !.dirty = TRUE]
<1>1. s.dividend = f.dividend /\ s.divisor = f.divisor /\ s.remainder = f.remainder /\ s.quotient = f.quotient
  BY DEF Divided
<1>2. PICK p, q : p = [s EXCEPT !.dirty = TRUE] /\ q = [f EXCEPT !.dirty = TRUE]
  OBVIOUS
<1>3. p = [dividend |-> s.dividend, divisor |-> s.divisor, quotient |-> s.quotient, remainder |-> s.remainder,
           dirty |-> TRUE]
  BY <1>2, DirtyIs
<1>4. q = [dividend |-> f.dividend, divisor |-> f.divisor, quotient |-> f.quotient, remainder |-> f.remainder,
           dirty |-> TRUE]
  BY <1>2, DirtyIs
<1>5. p = q
  BY <1>1, <1>3, <1>4
<1> QED
  BY <1>2, <1>5, Zenon

LEMMA QuotientRead ==
  ASSUME NEW d, IsDivider(d)
  PROVE  /\ IsDivider(SC!readQuotient(d))
         /\ [SC!readQuotient(d) EXCEPT !.dirty = TRUE] = [d EXCEPT !.dirty = TRUE]
<1>1. PICK p, q, u : p = SC!readQuotient(d) /\ q = [p EXCEPT !.dirty = TRUE] /\ u = [d EXCEPT !.dirty = TRUE]
  OBVIOUS
<1>2. p = [dividend |-> d.dividend, divisor |-> d.divisor, quotient |-> d.quotient, remainder |-> d.remainder,
           dirty |-> FALSE]
  BY <1>1, DirtyIs DEF SC!readQuotient
<1>3. IsDivider(p)
  BY <1>2 DEF IsDivider
<1>4. q = [dividend |-> p.dividend, divisor |-> p.divisor, quotient |-> p.quotient, remainder |-> p.remainder,
           dirty |-> TRUE]
  BY <1>1, <1>3, DirtyIs
<1>5. u = [dividend |-> d.dividend, divisor |-> d.divisor, quotient |-> d.quotient, remainder |-> d.remainder,
           dirty |-> TRUE]
  BY <1>1, DirtyIs
<1>6. q = u
  BY <1>2, <1>4, <1>5
<1> QED
  BY <1>1, <1>3, <1>6, Zenon

-----------------------------------------------------------------------------
(* Handlers within handlers *)

IsSeq(q) == \E S : q \in Seq(S)

IsPushed(q, p, x) ==
  /\ IsSeq(p) /\ Len(p) = Len(q) + 1 /\ Len(q) \in Nat /\ p[1] = x
  /\ \A i \in 2 .. Len(p) : i - 1 \in 1 .. Len(q) /\ p[i] = q[i - 1]

LEMMA Pushed ==
  ASSUME NEW q, IsSeq(q), NEW x, NEW p, p = <<x>> \o q
  PROVE  IsPushed(q, p, x)
<1>1. PICK S : q \in Seq(S)
  BY DEF IsSeq
<1>2. q \in Seq(S \union {x}) /\ <<x>> \in Seq(S \union {x})
  <2>1. Len(q) \in Nat /\ q \in [1 .. Len(q) -> S]
    BY <1>1
  <2>2. q \in [1 .. Len(q) -> S \union {x}]
    BY <2>1
  <2> QED
    BY <2>1, <2>2, SeqDef
<1>3. p \in Seq(S \union {x})
  BY <1>2, ConcatProperties
<1>4. Len(q) \in Nat /\ Len(p) = Len(q) + 1
  BY <1>2, ConcatProperties
<1>5. \A i \in 1 .. Len(p) : p[i] = IF i <= 1 THEN x ELSE q[i - 1]
  BY <1>2, <1>4, ConcatProperties
<1> QED
  BY <1>3, <1>4, <1>5 DEF IsSeq, IsPushed

LEMMA Popped ==
  ASSUME NEW q, IsSeq(q), q # <<>>, NEW p, p = Tail(q)
  PROVE  /\ IsSeq(p) /\ Len(q) \in Nat \ {0} /\ Len(p) = Len(q) - 1
         /\ \A i \in 1 .. Len(p) : i + 1 \in 1 .. Len(q) /\ p[i] = q[i + 1]
<1>1. PICK S : q \in Seq(S)
  BY DEF IsSeq
<1>2. p \in Seq(S) /\ Len(p) = Len(q) - 1 /\ \A i \in 1 .. Len(p) : p[i] = q[i + 1]
  BY <1>1, HeadTailProperties
<1>3. Len(q) \in Nat \ {0}
  BY <1>1, EmptySeq, LenProperties
<1> QED
  BY <1>2, <1>3 DEF IsSeq

\* p is q but for its first, x.
Topped(q, p, x) == p = [q EXCEPT ![1] = x]
IsTopped(q, p, x) ==
  /\ IsSeq(p) /\ Len(q) \in Nat \ {0} /\ Len(p) = Len(q) /\ p[1] = x /\ p # <<>>
  /\ \A i \in 2 .. Len(q) : p[i] = q[i]

LEMMA TopChanged ==
  ASSUME NEW q, IsSeq(q), q # <<>>, NEW x, NEW p, Topped(q, p, x)
  PROVE  IsTopped(q, p, x)
<1>1. PICK S : q \in Seq(S)
  BY DEF IsSeq
<1>2. Len(q) \in Nat \ {0} /\ q \in [1 .. Len(q) -> S]
  BY <1>1, EmptySeq, LenProperties
<1>3. p \in [1 .. Len(q) -> S \union {x}] /\ p[1] = x /\ \A i \in 2 .. Len(q) : p[i] = q[i]
  BY <1>2 DEF Topped
<1>4. p \in Seq(S \union {x})
  BY <1>2, <1>3, SeqDef
<1>5. Len(p) = Len(q)
  BY <1>2, <1>3, <1>4, LenProperties
<1> QED
  BY <1>2, <1>3, <1>4, <1>5 DEF IsSeq, IsTopped

LEMMA NoFrames ==
  ASSUME NEW q, IsSeq(q)
  PROVE  Len(q) \in Nat /\ (q = <<>> <=> Len(q) = 0)
<1>1. PICK S : q \in Seq(S)
  BY DEF IsSeq
<1> QED
  BY <1>1, EmptySeq, LenProperties

\* A frame holds what its handler found; below one handler another may be restoring.
IsFrame(part, n, f) ==
  /\ f = [it |-> f.it, div |-> f.div, ops |-> f.ops, restored |-> f.restored]
  /\ Stable(n, f.it) /\ IsDivider(f.div) /\ f.restored \in 0 .. Accesses(part)

IsCalc(s) ==
  s = [part |-> s.part, n |-> s.n, it |-> s.it, div |-> s.div, ops |-> s.ops, frames |-> s.frames, kept |-> s.kept]

Chained(part, n, q) ==
  /\ IsSeq(q)
  /\ \A i \in 1 .. Len(q) : IsFrame(part, n, q[i])
  /\ \A i \in 2 .. Len(q) : Undone(part, n, q[i - 1], q[i], q[i].restored)

Calculated(s) ==
  /\ IsCalc(s) /\ s.part \in {"divider", "interpolator"} /\ s.n \in {0, 1} /\ s.kept
  /\ Stable(s.n, s.it) /\ IsDivider(s.div)
  /\ Chained(s.part, s.n, s.frames)
  /\ s.frames # <<>> => Undone(s.part, s.n, s, s.frames[1], s.frames[1].restored)

LEMMA UndoneDepends ==
  ASSUME NEW part, NEW n, NEW s, NEW t, NEW f, NEW g, NEW k, t.it = s.it, t.div = s.div, g.it = f.it, g.div = f.div,
         Undone(part, n, s, f, k)
  PROVE  Undone(part, n, t, g, k)
  BY DEF Undone

\* The frame of the innermost handler may be exchanged for one that found the same.
LEMMA TopExchanged ==
  ASSUME NEW part, NEW n, NEW q, Chained(part, n, q), q # <<>>, NEW g, IsFrame(part, n, g), g.it = q[1].it,
         g.div = q[1].div, NEW p, Topped(q, p, g)
  PROVE  Chained(part, n, p) /\ p # <<>> /\ p[1] = g
<1>1. /\ IsSeq(p) /\ Len(q) \in Nat \ {0} /\ Len(p) = Len(q) /\ p[1] = g /\ p # <<>>
      /\ \A i \in 2 .. Len(q) : p[i] = q[i]
  <2>1. IsSeq(q)
    BY DEF Chained
  <2>2. IsTopped(q, p, g)
    BY <2>1, TopChanged, Zenon
  <2> QED
    BY <2>2 DEF IsTopped
<1>2. \A i \in 1 .. Len(p) : IsFrame(part, n, p[i])
  BY <1>1 DEF Chained
<1>3. ASSUME NEW i \in 2 .. Len(p)
      PROVE  Undone(part, n, p[i - 1], p[i], p[i].restored)
  <2>1. p[i] = q[i] /\ Undone(part, n, q[i - 1], q[i], q[i].restored)
    BY <1>1, <1>3 DEF Chained
  <2>2. p[i - 1].it = q[i - 1].it /\ p[i - 1].div = q[i - 1].div
    <3>1. CASE i = 2
      BY <1>1, <3>1
    <3>2. CASE i # 2
      BY <1>1, <1>3, <3>2
    <3> QED
      BY <3>1, <3>2
  <2>3. \A k : Undone(part, n, q[i - 1], q[i], k) => Undone(part, n, p[i - 1], q[i], k)
    BY <2>2, UndoneDepends
  <2> QED
    BY <2>1, <2>3
<1> QED
  BY <1>1, <1>2, <1>3 DEF Chained

LEMMA FirstFrame ==
  ASSUME NEW part, NEW n, NEW q, Chained(part, n, q), q # <<>>
  PROVE  IsFrame(part, n, q[1])
<1>1. Len(q) \in Nat /\ Len(q) # 0
  BY NoFrames DEF Chained
<1> QED
  BY <1>1 DEF Chained

\* An access of a program or handler: one of the two changes, and nothing is undone yet.
LEMMA Accessed ==
  ASSUME NEW s, Calculated(s), s.frames # <<>> => s.frames[1].restored = 0,
         NEW it, Stable(s.n, it), NEW d, IsDivider(d),
         s.part = "divider" => it = s.it,
         s.part = "interpolator" => d = s.div,
         NEW t, IsCalc(t), t.part = s.part, t.n = s.n, t.kept = s.kept, t.it = it, t.div = d,
         \/ s.frames = <<>> /\ t.frames = <<>>
         \/ /\ s.frames # <<>>
            /\ \E k : t.frames = [s.frames EXCEPT ![1] = [s.frames[1] EXCEPT !.ops = k]]
  PROVE  Calculated(t)
<1>1. /\ s.part \in {"divider", "interpolator"} /\ s.n \in {0, 1} /\ s.kept /\ Chained(s.part, s.n, s.frames)
      /\ s.frames # <<>> => Undone(s.part, s.n, s, s.frames[1], s.frames[1].restored)
  BY DEF Calculated
<1>2. CASE s.frames = <<>>
  BY <1>1, <1>2 DEF Calculated
<1>3. CASE s.frames # <<>>
  <2>1. PICK k : t.frames = [s.frames EXCEPT ![1] = [s.frames[1] EXCEPT !.ops = k]]
    BY <1>3
  <2>2. PICK f, g : f = s.frames[1] /\ g = [f EXCEPT !.ops = k]
    OBVIOUS
  <2>3. IsFrame(s.part, s.n, f)
    BY <1>1, <1>3, <2>2, FirstFrame
  <2>4. g = [it |-> f.it, div |-> f.div, ops |-> k, restored |-> f.restored]
    BY <2>2, <2>3 DEF IsFrame
  <2>5. IsFrame(s.part, s.n, g) /\ g.it = f.it /\ g.div = f.div /\ g.restored = f.restored
    BY <2>3, <2>4 DEF IsFrame
  <2>6. Topped(s.frames, t.frames, g)
    BY <2>1, <2>2 DEF Topped
  <2>7. Chained(s.part, s.n, t.frames) /\ t.frames # <<>> /\ t.frames[1] = g
    <3>1. g.it = s.frames[1].it /\ g.div = s.frames[1].div /\ Chained(s.part, s.n, s.frames)
      BY <1>1, <2>2, <2>5
    <3>2. PICK q, p : q = s.frames /\ p = t.frames
      OBVIOUS
    <3>3. /\ Chained(s.part, s.n, q) /\ q # <<>> /\ Topped(q, p, g) /\ IsFrame(s.part, s.n, g)
          /\ g.it = q[1].it /\ g.div = q[1].div
      BY <1>3, <2>5, <2>6, <3>1, <3>2
    <3>4. Chained(s.part, s.n, p) /\ p # <<>> /\ p[1] = g
      BY <3>3, TopExchanged
    <3> QED
      BY <3>2, <3>4
  <2>8. g.restored = 0 /\ Undone(s.part, s.n, s, f, 0)
    BY <1>1, <1>3, <2>2, <2>5
  <2>9. Undone(s.part, s.n, t, g, 0)
    <3>1. ~(0 >= 1) /\ ~(0 >= 2) /\ ~(0 >= 3) /\ ~(0 >= 4) /\ ~(0 >= 5) /\ ~(0 >= 6) /\ ~(0 >= 7)
      OBVIOUS
    <3>2. Divided(t.div, g.div, 0) /\ Interpolated(s.n, t.it, g.it, 0)
      BY <3>1, Zenon DEF Divided, Interpolated
    <3>3. CASE s.part = "divider"
      BY <2>5, <2>8, <3>2, <3>3 DEF Undone
    <3>4. CASE s.part = "interpolator"
      BY <2>5, <2>8, <3>2, <3>4 DEF Undone
    <3> QED
      BY <1>1, <3>3, <3>4
  <2> QED
    BY <1>1, <2>7, <2>8, <2>9 DEF Calculated
<1> QED
  BY <1>2, <1>3

\* What an access leaves of the rest, from the state s of the calculator.
Holding(s, it, d) ==
  s = [part |-> calc.part, n |-> calc.n, it |-> it, div |-> d, ops |-> calc.ops, frames |-> calc.frames,
       kept |-> calc.kept]
Accessing(t, it, d) ==
  /\ IsCalc(t) /\ t.part = calc.part /\ t.n = calc.n /\ t.kept = calc.kept /\ t.it = it /\ t.div = d
  /\ \/ calc.frames = <<>> /\ t.frames = <<>>
     \/ /\ calc.frames # <<>>
        /\ \E k : t.frames = [calc.frames EXCEPT ![1] = [calc.frames[1] EXCEPT !.ops = k]]

LEMMA SpentIs ==
  ASSUME IsCalc(calc), NEW it, NEW d, NEW s, NEW t, Holding(s, it, d), t = SC!Spent(s)
  PROVE  Accessing(t, it, d)
<1> USE DEF Accessing, Holding
<1>1. CASE calc.frames = <<>>
  <2>1. t = [s EXCEPT !.ops = s.ops - 1]
    BY <1>1 DEF SC!Spent, SC!InHandler
  <2>2. t = [part |-> calc.part, n |-> calc.n, it |-> it, div |-> d, ops |-> s.ops - 1, frames |-> calc.frames,
             kept |-> calc.kept]
    BY <2>1
  <2> QED
    BY <1>1, <2>2 DEF IsCalc
<1>2. CASE calc.frames # <<>>
  <2>1. t = [s EXCEPT !.frames[1].ops = s.frames[1].ops - 1]
    BY <1>2 DEF SC!Spent, SC!InHandler
  <2>2. PICK k, q : /\ k = s.frames[1].ops - 1
                    /\ q = [calc.frames EXCEPT ![1] = [calc.frames[1] EXCEPT !.ops = k]]
    OBVIOUS
  <2>3. t = [s EXCEPT !.frames = q]
    BY <2>1, <2>2
  <2>4. t = [part |-> calc.part, n |-> calc.n, it |-> it, div |-> d, ops |-> calc.ops, frames |-> q,
             kept |-> calc.kept]
    BY <2>3
  <2>5. t.part = calc.part /\ t.n = calc.n /\ t.kept = calc.kept /\ t.it = it /\ t.div = d /\ t.frames = q
    BY <2>4
  <2>6. IsCalc(t)
    BY <2>4 DEF IsCalc
  <2>7. \E l : t.frames = [calc.frames EXCEPT ![1] = [calc.frames[1] EXCEPT !.ops = l]]
    BY <2>2, <2>5, Zenon
  <2> QED
    BY <1>2, <2>5, <2>6, <2>7
<1> QED
  BY <1>1, <1>2

LEMMA MayAccessIs ==
  ASSUME Calculated(calc), NEW part, SC!MayAccess(part)
  PROVE  calc.part = part /\ (calc.frames # <<>> => calc.frames[1].restored = 0)
<1>1. calc.part = part /\ (calc.frames # <<>> => ~(calc.frames[1].restored > 0))
  BY DEF SC!MayAccess, SC!InHandler, SC!Restoring, SC!Frame
<1>2. ASSUME calc.frames # <<>>
      PROVE  calc.frames[1].restored \in 0 .. Accesses(calc.part)
  <2>1. IsFrame(calc.part, calc.n, calc.frames[1])
    BY <1>2, FirstFrame DEF Calculated
  <2> QED
    BY <2>1 DEF IsFrame
<1>3. Accesses(calc.part) \in Nat
  BY DEF Accesses
<1> QED
  BY <1>1, <1>2, <1>3

\* The divider's program.
LEMMA DividerAccess ==
  ASSUME Calculated(calc), SC!MayAccess("divider"), NEW d, IsDivider(d), NEW t,
         t = SC!Spent([calc EXCEPT !.div = d])
  PROVE  Calculated(t)
<1>1. /\ IsCalc(calc) /\ calc.part = "divider" /\ (calc.frames # <<>> => calc.frames[1].restored = 0)
      /\ Stable(calc.n, calc.it)
  BY MayAccessIs DEF Calculated
<1>2. PICK s : s = [calc EXCEPT !.div = d]
  OBVIOUS
<1>3. Holding(s, calc.it, d)
  BY <1>1, <1>2 DEF IsCalc, Holding
<1>4. t = SC!Spent(s)
  BY <1>2, Zenon
<1>5. Accessing(t, calc.it, d)
  BY <1>1, <1>3, <1>4, SpentIs, Zenon
<1>6. calc.part # "interpolator"
  BY <1>1
<1> QED
  BY <1>1, <1>5, <1>6, Accessed, Zenon DEF Accessing

\* The interpolator's.
LEMMA InterpolatorAccess ==
  ASSUME Calculated(calc), SC!MayAccess("interpolator"), NEW it, Stable(calc.n, it), NEW t,
         t = SC!Spent([calc EXCEPT !.it = it])
  PROVE  Calculated(t)
<1>1. /\ IsCalc(calc) /\ calc.part = "interpolator" /\ (calc.frames # <<>> => calc.frames[1].restored = 0)
      /\ IsDivider(calc.div)
  BY MayAccessIs DEF Calculated
<1>2. PICK s : s = [calc EXCEPT !.it = it]
  OBVIOUS
<1>3. Holding(s, it, calc.div)
  BY <1>1, <1>2 DEF IsCalc, Holding
<1>4. t = SC!Spent(s)
  BY <1>2, Zenon
<1>5. Accessing(t, it, calc.div)
  BY <1>1, <1>3, <1>4, SpentIs, Zenon
<1>6. calc.part # "divider"
  BY <1>1
<1> QED
  BY <1>1, <1>5, <1>6, Accessed, Zenon DEF Accessing

\* A handler enters: it finds what is there, and has restored nothing.
LEMMA HandlerEntered ==
  ASSUME Calculated(calc), SC!Enter
  PROVE  Calculated(calc')
<1>1. /\ IsCalc(calc) /\ calc.part \in {"divider", "interpolator"} /\ calc.n \in {0, 1} /\ calc.kept
      /\ Stable(calc.n, calc.it) /\ IsDivider(calc.div) /\ Chained(calc.part, calc.n, calc.frames)
      /\ calc.frames # <<>> => Undone(calc.part, calc.n, calc, calc.frames[1], calc.frames[1].restored)
  BY DEF Calculated
<1>2. PICK f, d, q : /\ f = [it |-> calc.it, div |-> calc.div, ops |-> MaxOps, restored |-> 0]
                     /\ d = SC!readQuotient(calc.div)
                     /\ q = <<f>> \o calc.frames
  OBVIOUS
<1>3. calc' = [calc EXCEPT !.div = d, !.frames = q]
  BY <1>2 DEF SC!Enter
<1>4. calc' = [part |-> calc.part, n |-> calc.n, it |-> calc.it, div |-> d, ops |-> calc.ops, frames |-> q,
               kept |-> calc.kept]
  BY <1>1, <1>3 DEF IsCalc
<1>5. IsDivider(d) /\ [d EXCEPT !.dirty = TRUE] = [calc.div EXCEPT !.dirty = TRUE]
  BY <1>1, <1>2, QuotientRead, Zenon
<1>6. f.it = calc.it /\ f.div = calc.div /\ f.restored = 0 /\ IsFrame(calc.part, calc.n, f)
  <2>1. 0 \in 0 .. Accesses(calc.part)
    BY DEF Accesses
  <2> QED
    BY <1>1, <1>2, <2>1 DEF IsFrame
<1>7. IsSeq(calc.frames)
  BY <1>1 DEF Chained
<1>8. /\ IsSeq(q) /\ Len(q) = Len(calc.frames) + 1 /\ Len(calc.frames) \in Nat /\ q[1] = f
      /\ \A i \in 2 .. Len(q) : i - 1 \in 1 .. Len(calc.frames) /\ q[i] = calc.frames[i - 1]
  <2>1. IsPushed(calc.frames, q, f)
    BY <1>2, <1>7, Pushed, Zenon
  <2> QED
    BY <2>1 DEF IsPushed
<1>9. Chained(calc.part, calc.n, q)
  <2>1. \A i \in 1 .. Len(q) : IsFrame(calc.part, calc.n, q[i])
    <3> SUFFICES ASSUME NEW i \in 1 .. Len(q)
                 PROVE  IsFrame(calc.part, calc.n, q[i])
      OBVIOUS
    <3>1. CASE i = 1
      BY <1>6, <1>8, <3>1
    <3>2. CASE i # 1
      <4>1. i \in 2 .. Len(q)
        BY <1>8, <3>2
      <4> QED
        BY <1>1, <1>8, <4>1 DEF Chained
    <3> QED
      BY <3>1, <3>2
  <2>2. ASSUME NEW i \in 2 .. Len(q)
        PROVE  Undone(calc.part, calc.n, q[i - 1], q[i], q[i].restored)
    <3>1. i - 1 \in 1 .. Len(calc.frames) /\ q[i] = calc.frames[i - 1]
      BY <1>8
    <3>2. CASE i = 2
      <4>1. calc.frames # <<>>
        BY <1>7, <3>1, NoFrames
      <4>2. Undone(calc.part, calc.n, calc, calc.frames[1], calc.frames[1].restored)
        BY <1>1, <4>1
      <4>3. q[i - 1] = f /\ q[i] = calc.frames[1]
        BY <1>8, <3>1, <3>2
      <4>4. \A k : Undone(calc.part, calc.n, calc, calc.frames[1], k) =>
                     Undone(calc.part, calc.n, f, calc.frames[1], k)
        BY <1>6, UndoneDepends
      <4> QED
        BY <4>2, <4>3, <4>4
    <3>3. CASE i # 2
      <4>1. i - 1 \in 2 .. Len(calc.frames) /\ q[i - 1] = calc.frames[(i - 1) - 1]
        BY <1>8, <3>1, <3>3
      <4>2. Undone(calc.part, calc.n, calc.frames[(i - 1) - 1], calc.frames[i - 1], calc.frames[i - 1].restored)
        BY <1>1, <4>1 DEF Chained
      <4> QED
        BY <3>1, <4>1, <4>2
    <3> QED
      BY <3>2, <3>3
  <2> QED
    BY <1>8, <2>1, <2>2 DEF Chained
<1>10. Undone(calc.part, calc.n, calc', f, 0)
  <2>1. ~(0 >= 1) /\ ~(0 >= 2) /\ ~(0 >= 3) /\ ~(0 >= 4) /\ ~(0 >= 5) /\ ~(0 >= 6) /\ ~(0 >= 7)
    OBVIOUS
  <2>2. Divided(d, f.div, 0) /\ Interpolated(calc.n, calc.it, f.it, 0)
    BY <2>1, Zenon DEF Divided, Interpolated
  <2>3. calc'.it = calc.it /\ calc'.div = d
    BY <1>4
  <2> QED
    BY <1>1, <1>5, <1>6, <2>2, <2>3, Zenon DEF Undone
<1>11. /\ IsCalc(calc') /\ calc'.part = calc.part /\ calc'.n = calc.n /\ calc'.it = calc.it /\ calc'.div = d
       /\ calc'.frames = q /\ calc'.kept = calc.kept
  BY <1>4 DEF IsCalc
<1> QED
  BY <1>1, <1>5, <1>6, <1>8, <1>9, <1>10, <1>11 DEF Calculated

\* A handler returns: everything is as it was, for the program or the handler before.
LEMMA HandlerReturned ==
  ASSUME Calculated(calc), SC!Return
  PROVE  Calculated(calc')
<1>1. /\ IsCalc(calc) /\ calc.part \in {"divider", "interpolator"} /\ calc.n \in {0, 1} /\ calc.kept
      /\ Stable(calc.n, calc.it) /\ IsDivider(calc.div) /\ Chained(calc.part, calc.n, calc.frames)
      /\ calc.frames # <<>> => Undone(calc.part, calc.n, calc, calc.frames[1], calc.frames[1].restored)
  BY DEF Calculated
<1>2. PICK f, q : f = calc.frames[1] /\ q = Tail(calc.frames)
  OBVIOUS
<1>3. /\ calc.frames # <<>> /\ f.restored = Len(SC!Order)
      /\ calc' = [calc EXCEPT !.frames = q, !.kept = SC!Same(calc, f)]
  BY <1>2 DEF SC!Return, SC!InHandler, SC!Frame
<1>4. IsFrame(calc.part, calc.n, f)
  BY <1>1, <1>2, <1>3, FirstFrame
<1>5. Stable(calc.n, f.it) /\ IsDivider(f.div)
  BY <1>4 DEF IsFrame
<1>6. calc.it = f.it /\ [calc.div EXCEPT !.dirty = TRUE] = [f.div EXCEPT !.dirty = TRUE]
  <2>1. Undone(calc.part, calc.n, calc, f, f.restored)
    BY <1>1, <1>2, <1>3
  <2>2. CASE calc.part = "divider"
    <3>1. SC!Order = <<"UDIVIDEND", "UDIVISOR", "REMAINDER", "QUOTIENT">>
      BY <2>2 DEF SC!Order
    <3>2. f.restored = 4
      BY <1>3, <3>1
    <3>3. calc.it = f.it /\ Divided(calc.div, f.div, 4)
      BY <2>1, <2>2, <3>2 DEF Undone
    <3> QED
      BY <1>1, <1>5, <3>3, AllDivided, Zenon
  <2>3. CASE calc.part = "interpolator"
    <3>1. SC!Order = <<"ACCUM0", "ACCUM1", "BASE0", "BASE1", "BASE2", "CTRL0", "CTRL1">>
      BY <2>3 DEF SC!Order
    <3>2. f.restored = 7
      BY <1>3, <3>1
    <3>3. /\ [calc.div EXCEPT !.dirty = TRUE] = [f.div EXCEPT !.dirty = TRUE]
          /\ Interpolated(calc.n, calc.it, f.it, 7)
      BY <2>1, <2>3, <3>2 DEF Undone
    <3> QED
      BY <1>1, <1>5, <3>3, AllInterpolated, Zenon
  <2> QED
    BY <1>1, <2>2, <2>3
<1>7. SC!Same(calc, f) = TRUE
  <2>1. SC!Same(calc, f)
    BY <1>6, Zenon DEF SC!Same
  <2>2. SC!Same(calc, f) \in BOOLEAN
    BY DEF SC!Same
  <2> QED
    BY <2>1, <2>2
<1>8. calc' = [calc EXCEPT !.frames = q, !.kept = TRUE]
  BY <1>3, <1>7
<1>9. calc' = [part |-> calc.part, n |-> calc.n, it |-> calc.it, div |-> calc.div, ops |-> calc.ops, frames |-> q,
               kept |-> TRUE]
  BY <1>1, <1>8 DEF IsCalc
<1>10. IsSeq(calc.frames)
  BY <1>1 DEF Chained
<1>11. /\ IsSeq(q) /\ Len(calc.frames) \in Nat \ {0} /\ Len(q) = Len(calc.frames) - 1
       /\ \A i \in 1 .. Len(q) : i + 1 \in 1 .. Len(calc.frames) /\ q[i] = calc.frames[i + 1]
  BY <1>2, <1>3, <1>10, Popped
<1>12. Chained(calc.part, calc.n, q)
  <2>1. \A i \in 1 .. Len(q) : IsFrame(calc.part, calc.n, q[i])
    BY <1>1, <1>11 DEF Chained
  <2>2. ASSUME NEW i \in 2 .. Len(q)
        PROVE  Undone(calc.part, calc.n, q[i - 1], q[i], q[i].restored)
    <3>1. i - 1 \in 1 .. Len(q) /\ i \in 1 .. Len(q) /\ i + 1 \in 2 .. Len(calc.frames)
      BY <1>11
    <3>2. q[i - 1] = calc.frames[(i - 1) + 1] /\ q[i] = calc.frames[i + 1]
      BY <1>11, <3>1
    <3>3. Undone(calc.part, calc.n, calc.frames[(i + 1) - 1], calc.frames[i + 1], calc.frames[i + 1].restored)
      BY <1>1, <3>1 DEF Chained
    <3>4. (i - 1) + 1 = (i + 1) - 1
      OBVIOUS
    <3> QED
      BY <3>2, <3>3, <3>4
  <2> QED
    BY <1>11, <2>1, <2>2 DEF Chained
<1>13. /\ IsCalc(calc') /\ calc'.part = calc.part /\ calc'.n = calc.n /\ calc'.it = calc.it /\ calc'.div = calc.div
       /\ calc'.frames = q /\ calc'.kept = TRUE
  BY <1>9 DEF IsCalc
<1>14. ASSUME q # <<>>
       PROVE  Undone(calc.part, calc.n, calc', q[1], q[1].restored)
  <2>1. 1 \in 1 .. Len(q) /\ 2 \in 2 .. Len(calc.frames) /\ q[1] = calc.frames[2]
    BY <1>11, <1>14, NoFrames
  <2>2. PICK g : g = q[1]
    OBVIOUS
  <2>3. Undone(calc.part, calc.n, f, g, g.restored)
    BY <1>1, <1>2, <2>1, <2>2 DEF Chained
  <2>4. Divided(f.div, g.div, g.restored) => Divided(calc.div, g.div, g.restored)
    <3>1. PICK x, y : x = [calc.div EXCEPT !.dirty = TRUE] /\ y = [f.div EXCEPT !.dirty = TRUE]
      OBVIOUS
    <3>2. x = y
      BY <1>6, <3>1
    <3>3. /\ x = [dividend |-> calc.div.dividend, divisor |-> calc.div.divisor, quotient |-> calc.div.quotient,
                  remainder |-> calc.div.remainder, dirty |-> TRUE]
          /\ y = [dividend |-> f.div.dividend, divisor |-> f.div.divisor, quotient |-> f.div.quotient,
                  remainder |-> f.div.remainder, dirty |-> TRUE]
      BY <1>1, <1>5, <3>1 DEF IsDivider
    <3>4. /\ calc.div.dividend = f.div.dividend /\ calc.div.divisor = f.div.divisor
          /\ calc.div.remainder = f.div.remainder /\ calc.div.quotient = f.div.quotient
      <4>1. /\ x.dividend = calc.div.dividend /\ x.divisor = calc.div.divisor
            /\ x.remainder = calc.div.remainder /\ x.quotient = calc.div.quotient
        BY <3>3
      <4>2. /\ y.dividend = f.div.dividend /\ y.divisor = f.div.divisor
            /\ y.remainder = f.div.remainder /\ y.quotient = f.div.quotient
        BY <3>3
      <4> QED
        BY <3>2, <4>1, <4>2
    <3> QED
      BY <3>4 DEF Divided
  <2> QED
    BY <1>1, <1>6, <1>13, <2>2, <2>3, <2>4 DEF Undone
<1> QED
  BY <1>1, <1>12, <1>13, <1>14 DEF Calculated

\* A step of restoring, to w of the register that comes next.
LEMMA HandlerRestored ==
  ASSUME Calculated(calc), SC!Restore
  PROVE  Calculated(calc')
<1>1. /\ IsCalc(calc) /\ calc.part \in {"divider", "interpolator"} /\ calc.n \in {0, 1} /\ calc.kept
      /\ Stable(calc.n, calc.it) /\ IsDivider(calc.div) /\ Chained(calc.part, calc.n, calc.frames)
      /\ calc.frames # <<>> => Undone(calc.part, calc.n, calc, calc.frames[1], calc.frames[1].restored)
  BY DEF Calculated
<1>2. PICK f, k, reg, q, s :
           /\ f = calc.frames[1] /\ k = f.restored /\ reg = SC!Order[k + 1]
           /\ q = [calc.frames EXCEPT ![1] = [f EXCEPT !.restored = k + 1]]
           /\ s = [calc EXCEPT !.frames = q]
  OBVIOUS
<1>3. /\ calc.frames # <<>> /\ k < Len(SC!Order)
      /\ calc' = IF reg \in SC!DividerRegisters
                 THEN [s EXCEPT !.div = SC!writeDivider(s.div, reg, SC!Saved(f, reg))]
                 ELSE [s EXCEPT !.it = SC!writeInterp(calc.n, s.it, reg, SC!Saved(f, reg))]
  <2>1. s = [calc EXCEPT !.frames[1].restored = calc.frames[1].restored + 1]
    BY <1>2
  <2>2. /\ calc.frames # <<>> /\ k < Len(SC!Order)
    BY <1>2 DEF SC!Restore, SC!InHandler, SC!Frame
  <2>3. calc' = LET o == SC!Order[calc.frames[1].restored + 1]
                    t == [calc EXCEPT !.frames[1].restored = calc.frames[1].restored + 1]
                IN  IF o \in SC!DividerRegisters
                    THEN [t EXCEPT !.div = SC!writeDivider(t.div, o, SC!Saved(calc.frames[1], o))]
                    ELSE [t EXCEPT !.it = SC!writeInterp(calc.n, t.it, o, SC!Saved(calc.frames[1], o))]
    BY DEF SC!Restore, SC!Frame
  <2>4. reg = SC!Order[calc.frames[1].restored + 1] /\ f = calc.frames[1]
    BY <1>2
  <2> QED
    BY <2>1, <2>2, <2>3, <2>4
<1>4. s = [part |-> calc.part, n |-> calc.n, it |-> calc.it, div |-> calc.div, ops |-> calc.ops, frames |-> q,
           kept |-> calc.kept]
  BY <1>1, <1>2 DEF IsCalc
<1>5. IsFrame(calc.part, calc.n, f) /\ Undone(calc.part, calc.n, calc, f, k)
  BY <1>1, <1>2, <1>3, FirstFrame
<1>6. PICK g : g = [f EXCEPT !.restored = k + 1]
  OBVIOUS
<1>7. g = [it |-> f.it, div |-> f.div, ops |-> f.ops, restored |-> k + 1]
  BY <1>5, <1>6 DEF IsFrame
<1>8. g.it = f.it /\ g.div = f.div /\ g.restored = k + 1
  BY <1>7
<1>9. /\ calc.part = "divider" => SC!Order = DividerSequence /\ Len(SC!Order) = 4
      /\ calc.part = "interpolator" => SC!Order = Sequence /\ Len(SC!Order) = 7
  BY DEF SC!Order, DividerSequence, Sequence
<1>10. k \in Nat /\ k + 1 \in 0 .. Accesses(calc.part)
  <2>1. k \in 0 .. Accesses(calc.part)
    BY <1>2, <1>5 DEF IsFrame
  <2>2. Accesses(calc.part) \in Nat /\ Accesses(calc.part) = Len(SC!Order)
    BY <1>1, <1>9 DEF Accesses
  <2> QED
    BY <1>3, <2>1, <2>2
<1>11. IsFrame(calc.part, calc.n, g)
  BY <1>5, <1>7, <1>8, <1>10 DEF IsFrame
<1>12. Chained(calc.part, calc.n, q) /\ q # <<>> /\ q[1] = g
  <2>1. Topped(calc.frames, q, g)
    BY <1>2, <1>6 DEF Topped
  <2>2. PICK p : p = calc.frames
    OBVIOUS
  <2>3. /\ Chained(calc.part, calc.n, p) /\ p # <<>> /\ Topped(p, q, g) /\ IsFrame(calc.part, calc.n, g)
        /\ g.it = p[1].it /\ g.div = p[1].div
    BY <1>1, <1>2, <1>3, <1>8, <1>11, <2>1, <2>2
  <2> QED
    BY <2>3, TopExchanged
<1>13. CASE calc.part = "divider"
  <2>1. reg = DividerSequence[k + 1] /\ k \in 0 .. 3
    <3>1. SC!Order = DividerSequence /\ Len(SC!Order) = 4
      BY <1>9, <1>13
    <3>2. reg = DividerSequence[k + 1] /\ k < 4
      BY <1>2, <1>3, <3>1, Zenon
    <3> QED
      BY <1>10, <3>2
  <2>2. reg \in SC!DividerRegisters
    BY <2>1 DEF DividerSequence, SC!DividerRegisters
  <2>3. PICK w : w = SC!writeDivider(calc.div, reg, SC!Saved(f, reg))
    OBVIOUS
  <2>4. calc' = [s EXCEPT !.div = w]
    BY <1>3, <1>4, <2>2, <2>3
  <2>5. calc' = [part |-> calc.part, n |-> calc.n, it |-> calc.it, div |-> w, ops |-> calc.ops, frames |-> q,
                 kept |-> calc.kept]
    BY <1>4, <2>4
  <2>6. calc.it = f.it /\ Divided(calc.div, f.div, k)
    BY <1>5, <1>13 DEF Undone
  <2>7. IsDivider(w) /\ Divided(w, f.div, k + 1)
    BY <1>1, <2>1, <2>3, <2>6, RestoreDivider
  <2>8. /\ IsCalc(calc') /\ calc'.part = calc.part /\ calc'.n = calc.n /\ calc'.it = calc.it /\ calc'.div = w
        /\ calc'.frames = q /\ calc'.kept = calc.kept
    BY <2>5 DEF IsCalc
  <2>9. Undone(calc.part, calc.n, calc', g, k + 1)
    BY <1>8, <1>13, <2>6, <2>7, <2>8 DEF Undone
  <2> QED
    BY <1>1, <1>8, <1>12, <2>7, <2>8, <2>9 DEF Calculated
<1>14. CASE calc.part = "interpolator"
  <2>1. reg = Sequence[k + 1] /\ k \in 0 .. 6
    <3>1. SC!Order = Sequence /\ Len(SC!Order) = 7
      BY <1>9, <1>14
    <3>2. reg = Sequence[k + 1] /\ k < 7
      BY <1>2, <1>3, <3>1, Zenon
    <3> QED
      BY <1>10, <3>2
  <2>2. reg \notin SC!DividerRegisters
    BY <2>1 DEF Sequence, SC!DividerRegisters
  <2>3. PICK w : w = SC!writeInterp(calc.n, calc.it, reg, SC!Saved(f, reg))
    OBVIOUS
  <2>4. calc' = [s EXCEPT !.it = w]
    BY <1>3, <1>4, <2>2, <2>3
  <2>5. calc' = [part |-> calc.part, n |-> calc.n, it |-> w, div |-> calc.div, ops |-> calc.ops, frames |-> q,
                 kept |-> calc.kept]
    BY <1>4, <2>4
  <2>6. /\ [calc.div EXCEPT !.dirty = TRUE] = [f.div EXCEPT !.dirty = TRUE]
        /\ Interpolated(calc.n, calc.it, f.it, k)
    BY <1>5, <1>14 DEF Undone
  <2>7. Stable(calc.n, w) /\ Interpolated(calc.n, w, f.it, k + 1)
    <3>1. Stable(calc.n, f.it)
      BY <1>5 DEF IsFrame
    <3> QED
      BY <1>1, <2>1, <2>3, <2>6, <3>1, RestoreInterpolator
  <2>8. /\ IsCalc(calc') /\ calc'.part = calc.part /\ calc'.n = calc.n /\ calc'.it = w /\ calc'.div = calc.div
        /\ calc'.frames = q /\ calc'.kept = calc.kept
    BY <2>5 DEF IsCalc
  <2>9. Undone(calc.part, calc.n, calc', g, k + 1)
    BY <1>8, <1>14, <2>6, <2>7, <2>8 DEF Undone
  <2> QED
    BY <1>1, <1>8, <1>12, <2>7, <2>8, <2>9 DEF Calculated
<1> QED
  BY <1>1, <1>13, <1>14

LEMMA CalcStart ==
  ASSUME SC!Init
  PROVE  Calculated(calc)
<1>1. PICK part \in {"divider", "interpolator"}, n \in {0, 1} :
        calc = [part |-> part, n |-> n, it |-> SC!Reset(n), div |-> SC!ResetDivider, ops |-> MaxOps,
                frames |-> <<>>, kept |-> TRUE]
  BY DEF SC!Init
<1>2. PICK r : r = [accum |-> [i \in {0, 1} |-> 0], base |-> [i \in 0 .. 2 |-> 0],
                    ctrl |-> [i \in {0, 1} |-> SC!ZeroConfig],
                    result |-> [i \in 0 .. 2 |-> 0], sm |-> [i \in {0, 1} |-> 0]]
  OBVIOUS
<1>3. SC!ZeroConfig \in Config
  BY DEF SC!ZeroConfig, Config
<1>4. IsRegs(r)
  <2>1. /\ r.accum = [i \in {0, 1} |-> 0] /\ r.base = [i \in 0 .. 2 |-> 0]
        /\ r.ctrl = [i \in {0, 1} |-> SC!ZeroConfig]
    BY <1>2
  <2>2. r = [accum |-> r.accum, base |-> r.base, ctrl |-> r.ctrl, result |-> r.result, sm |-> r.sm]
    BY <1>2
  <2>3. r.ctrl \in [{0, 1} -> Config]
    BY <1>3, <2>1
  <2>4. r.accum = [i \in {0, 1} |-> r.accum[i]] /\ r.base = [i \in 0 .. 2 |-> r.base[i]]
    BY <2>1
  <2> QED
    BY <2>2, <2>3, <2>4 DEF IsRegs
<1>5. Stable(n, SC!Reset(n))
  <2>1. SC!Reset(n) = SC!update(n, r)
    BY <1>2, Zenon DEF SC!Reset
  <2> QED
    BY <1>4, <2>1, UpdateStable
<1>6. IsDivider(SC!ResetDivider)
  BY DEF IsDivider, SC!ResetDivider
<1>7. Chained(part, n, <<>>)
  <2>1. IsSeq(<<>>)
    <3>1. <<>> \in Seq({})
      BY EmptySeq
    <3> QED
      BY <3>1 DEF IsSeq
  <2>2. Len(<<>>) = 0
    BY EmptySeq
  <2> QED
    BY <2>1, <2>2 DEF Chained
<1>8. /\ IsCalc(calc) /\ calc.part = part /\ calc.n = n /\ calc.it = SC!Reset(n) /\ calc.div = SC!ResetDivider
      /\ calc.frames = <<>> /\ calc.kept = TRUE
  BY <1>1 DEF IsCalc
<1> QED
  BY <1>5, <1>6, <1>7, <1>8 DEF Calculated

LEMMA CalcStep ==
  ASSUME Calculated(calc), SC!Next
  PROVE  Calculated(calc')
<1>1. IsCalc(calc) /\ IsDivider(calc.div) /\ Stable(calc.n, calc.it) /\ calc.n \in {0, 1} /\ IsRegs(calc.it)
  BY DEF Calculated, Stable
<1>2. CASE SC!Divide
  <2>1. PICK reg \in SC!DividerRegisters, v \in Operands :
          /\ SC!MayAccess("divider")
          /\ calc' = SC!Spent([calc EXCEPT !.div = SC!writeDivider(calc.div, reg, v)])
    BY <1>2 DEF SC!Divide
  <2>2. PICK d : d = SC!writeDivider(calc.div, reg, v)
    OBVIOUS
  <2>3. IsDivider(d)
    <3>1. \A x \in SC!DividerRegisters : IsDivider(SC!writeDivider(calc.div, x, v))
      BY <1>1, DividerWritten, Zenon
    <3> QED
      BY <2>2, <3>1, Zenon
  <2>4. calc' = SC!Spent([calc EXCEPT !.div = d])
    BY <2>1, <2>2, Zenon
  <2> QED
    BY <2>1, <2>3, <2>4, DividerAccess, Zenon
<1>3. CASE SC!ReadQuotient
  <2>1. PICK d : d = SC!readQuotient(calc.div)
    OBVIOUS
  <2>2. SC!MayAccess("divider") /\ calc' = SC!Spent([calc EXCEPT !.div = d])
    BY <1>3, <2>1 DEF SC!ReadQuotient
  <2>3. IsDivider(d)
    BY <1>1, <2>1, QuotientRead, Zenon
  <2> QED
    BY <2>2, <2>3, DividerAccess, Zenon
<1>4. CASE SC!Write
  <2>1. PICK reg \in SC!InterpRegisters \union {"ACCUM0_ADD", "ACCUM1_ADD", "BASE_1AND0"}, v \in Values :
          /\ SC!MayAccess("interpolator")
          /\ calc' = SC!Spent([calc EXCEPT !.it = SC!writeInterp(calc.n, calc.it, reg, v)])
    BY <1>4 DEF SC!Write
  <2>2. PICK it : it = SC!writeInterp(calc.n, calc.it, reg, v)
    OBVIOUS
  <2>3. Stable(calc.n, it)
    BY <1>1, <2>2, WriteStable, Zenon
  <2>4. calc' = SC!Spent([calc EXCEPT !.it = it])
    BY <2>1, <2>2, Zenon
  <2> QED
    BY <2>1, <2>3, <2>4, InterpolatorAccess, Zenon
<1>5. CASE SC!Configure
  <2>1. PICK reg \in {"CTRL0", "CTRL1"}, c \in Configs :
          /\ SC!MayAccess("interpolator")
          /\ calc' = SC!Spent([calc EXCEPT !.it = SC!writeInterp(calc.n, calc.it, reg, c)])
    BY <1>5 DEF SC!Configure
  <2>2. PICK it : it = SC!writeInterp(calc.n, calc.it, reg, c)
    OBVIOUS
  <2>3. Stable(calc.n, it)
    <3>1. c \in Nat
      BY MCChipAssumption
    <3> QED
      BY <1>1, <2>2, <3>1, WriteStable, Zenon
  <2>4. calc' = SC!Spent([calc EXCEPT !.it = it])
    BY <2>1, <2>2, Zenon
  <2> QED
    BY <2>1, <2>3, <2>4, InterpolatorAccess, Zenon
<1>6. CASE SC!Pop
  <2>1. PICK it : it = SC!readInterp(calc.n, calc.it, "POP_FULL")
    OBVIOUS
  <2>2. SC!MayAccess("interpolator") /\ calc' = SC!Spent([calc EXCEPT !.it = it])
    BY <1>6, <2>1 DEF SC!Pop
  <2>3. Stable(calc.n, it)
    BY <1>1, <2>1, WriteStable, Zenon
  <2> QED
    BY <2>2, <2>3, InterpolatorAccess, Zenon
<1>7. CASE SC!Enter
  BY <1>7, HandlerEntered
<1>8. CASE SC!Restore
  BY <1>8, HandlerRestored
<1>9. CASE SC!Return
  BY <1>9, HandlerReturned
<1> QED
  BY <1>2, <1>3, <1>4, <1>5, <1>6, <1>7, <1>8, <1>9 DEF SC!Next

HandlersOK == focus = "calculators" => Calculated(calc)

\* Whatever a program does with the divider or an interpolator, and wherever handlers
\* come, also while others are restoring, a handler that saves the registers and writes
\* them back leaves every register and every result as it was (src/sio-core.ts,
\* src/interpolator.ts, HandlersUnnoticed).
THEOREM ChipHandlersUnnoticed == MCSpec => []HandlersUnnoticed
<1>1. MCInit => HandlersOK
  <2> SUFFICES ASSUME MCInit, focus = "calculators"
               PROVE  Calculated(calc)
    BY DEF HandlersOK
  <2>1. SC!Init
    BY DEF MCInit
  <2> QED
    BY <2>1, CalcStart
<1>2. HandlersOK /\ [MCNext]_<<focus, amo, bus, io, gdb, ctl, cli, calc, link>> => HandlersOK'
  <2> SUFFICES ASSUME HandlersOK, [MCNext]_<<focus, amo, bus, io, gdb, ctl, cli, calc, link>>, focus' = "calculators"
               PROVE  Calculated(calc')
    BY DEF HandlersOK
  <2>1. CASE UNCHANGED <<focus, amo, bus, io, gdb, ctl, cli, calc, link>>
    <3>1. focus' = focus /\ calc' = calc
      BY <2>1
    <3> QED
      BY <3>1 DEF HandlersOK
  <2>2. CASE MCNext
    <3>1. focus = "calculators"
      BY <2>2 DEF MCNext
    <3>2. SC!Next
      BY <2>2, <3>1 DEF MCNext, Regions
    <3> QED
      BY <3>1, <3>2, CalcStep DEF HandlersOK
  <2> QED
    BY <2>1, <2>2
<1>3. HandlersOK => HandlersUnnoticed
  BY DEF HandlersOK, HandlersUnnoticed, Calculated, SC!HandlersUnnoticed
<1> QED
  BY <1>1, <1>2, <1>3, PTL DEF MCSpec

================================================================================
