----------------------------- MODULE DMA_proofs ------------------------------
(***************************************************************************)
(* For any channels, requests, timers and programs: no request is lost, no *)
(* idle channel moves an item, the lines follow the status, and a block    *)
(* once begun is counted down and not begun again.                         *)
(*                                                                         *)
(* The operators of DMA take and return the state of the peripheral, so    *)
(* each has a lemma about any state s.  In the middle of an operation one  *)
(* channel may be exempt from the invariant: X is the set of those.        *)
(***************************************************************************)
EXTENDS DMA, TLAPS

Channel == [EN : BOOLEAN, BUSY : BOOLEAN, IRQ_QUIET : BOOLEAN,
            treq : Dreqs \cup Timers \cup {Permanent},
            chainTo : Channels \cup ChannelCount .. 15,
            count : Nat \cup {-1}, reload : Nat, mode : Modes \cup {0}]

State == [chan : [Channels -> Channel], due : SUBSET Channels, later : SUBSET Channels,
          dreq : SUBSET Dreqs, timers : SUBSET Timers, intRaw : SUBSET Channels,
          intEnable : [Irqs -> SUBSET Channels], intForce : [Irqs -> SUBSET Channels],
          line : [Irqs -> BOOLEAN]]

Waiting(s, c) == Active(s, c) /\ s.chan[c].count # 0 /\ Granted(s, c)

\* What a channel owes: its alarm while its request is there, and a block that
\* has not been counted below zero.
Settled(s, c) == /\ Waiting(s, c) => c \in Armed(s)
                 /\ s.chan[c].BUSY => s.chan[c].count \in Nat

Lines(s) == s.line = [i \in Irqs |-> intStatus(s, i) # {}]

Inv(s, X) == /\ s \in State
             /\ s.due \cap s.later = {}
             /\ \A c \in Armed(s) : Active(s, c)
             /\ \A c \in Channels \ X : Settled(s, c)
             /\ Lines(s)

SameLines(s, t) == /\ t.intRaw = s.intRaw /\ t.intEnable = s.intEnable
                   /\ t.intForce = s.intForce /\ t.line = s.line

\* The only changes of a count outside the turn of the channel itself.
Began(s, t, c) == /\ ~s.chan[c].BUSY /\ t.chan[c].BUSY
                  /\ t.chan[c].count = t.chan[c].reload
Kept(s, t, c) == t.chan[c].BUSY = s.chan[c].BUSY /\ t.chan[c].count = s.chan[c].count

-----------------------------------------------------------------------------
LEMMA ScheduleFacts ==
  ASSUME NEW X, NEW s, Inv(s, X), NEW C \in SUBSET Channels,
         \A c \in C : Active(s, c)
  PROVE  LET t == scheduleTransfer(s, C)
         IN /\ t \in State
            /\ t.due \cap t.later = {}
            /\ \A c \in Armed(t) : Active(t, c)
            /\ \A c \in Channels \ X : Settled(t, c)
            /\ \A c \in C : Waiting(t, c) => c \in Armed(t)
            /\ Lines(t)
            /\ t.chan = s.chan /\ t.dreq = s.dreq /\ t.timers = s.timers
            /\ Armed(t) \subseteq Armed(s) \cup C
            /\ Armed(s) \subseteq Armed(t)
<1> DEFINE t == scheduleTransfer(s, C)
           now == {c \in C : Granted(s, c)}
           paced == {c \in C \ now : s.chan[c].treq \in s.timers}
<1>1. s \in State
  BY DEF Inv
<1>2. t = [s EXCEPT !.due = (s.due \ paced) \cup now, !.later = (s.later \ now) \cup paced]
  BY <1>1 DEF scheduleTransfer, State
<1> HIDE DEF t
<1>3. /\ t \in State
      /\ t.due = (s.due \ paced) \cup now /\ t.later = (s.later \ now) \cup paced
      /\ t.chan = s.chan /\ t.dreq = s.dreq /\ t.timers = s.timers
      /\ SameLines(s, t)
  BY <1>1, <1>2 DEF State, SameLines
<1>4. \A c \in Channels : /\ Active(t, c) <=> Active(s, c)
                          /\ Granted(t, c) <=> Granted(s, c)
                          /\ Waiting(t, c) <=> Waiting(s, c)
  BY <1>3 DEF Active, Granted, Waiting
<1>5. Armed(s) \subseteq Armed(t) /\ Armed(t) \subseteq Armed(s) \cup C
  BY <1>3 DEF Armed
<1>6. t.due \cap t.later = {}
  BY <1>3 DEF Inv
<1>7. \A c \in Armed(t) : Active(t, c)
  BY <1>1, <1>4, <1>5 DEF Inv, Armed, State
<1>8. \A c \in Channels \ X : Settled(t, c)
  BY <1>3, <1>4, <1>5 DEF Inv, Settled
<1>9. \A c \in C : Waiting(t, c) => c \in Armed(t)
  BY <1>3, <1>4 DEF Waiting, Armed
<1>10. Lines(t)
  BY <1>3 DEF Inv, Lines, SameLines, intStatus
<1> QED
  BY <1>3, <1>5, <1>6, <1>7, <1>8, <1>9, <1>10 DEF t

LEMMA StartFacts ==
  ASSUME NEW X, NEW s, Inv(s, X), NEW C \in SUBSET Channels
  PROVE  LET t == start(s, C)
         IN /\ Inv(t, X)
            /\ \A c \in Channels : /\ Kept(s, t, c) \/ Began(s, t, c)
                                   /\ t.chan[c].reload = s.chan[c].reload
            /\ \A c \in Channels : (c \notin C \/ s.chan[c].BUSY) =>
                 t.chan[c] = s.chan[c] /\ (c \in Armed(t) => c \in Armed(s))
            /\ Armed(s) \subseteq Armed(t)
            /\ t.dreq = s.dreq
<1> DEFINE D == {c \in C : s.chan[c].EN /\ ~s.chan[c].BUSY}
           b == [s EXCEPT !.chan = [c \in Channels |->
                  IF c \in D THEN [s.chan[c] EXCEPT !.BUSY = TRUE, !.count = s.chan[c].reload]
                             ELSE s.chan[c]]]
           E == {c \in D : s.chan[c].reload # 0}
           t == scheduleTransfer(b, E)
<1>1. start(s, C) = t
  BY DEF start, Started
<1>2. s \in State
  BY DEF Inv
<1>3. /\ b \in State
      /\ b.due = s.due /\ b.later = s.later /\ b.dreq = s.dreq
      /\ SameLines(s, b)
  <2> DEFINE ch == [c \in Channels |->
                     IF c \in D THEN [s.chan[c] EXCEPT !.BUSY = TRUE, !.count = s.chan[c].reload]
                                ELSE s.chan[c]]
  <2>1. \A c \in Channels : s.chan[c] \in Channel
    BY <1>2 DEF State
  <2>2. \A k \in Channel : [k EXCEPT !.BUSY = TRUE, !.count = k.reload] \in Channel
    BY DEF Channel
  <2>3. ch \in [Channels -> Channel]
    BY <2>1, <2>2
  <2> HIDE DEF ch
  <2>4. b = [s EXCEPT !.chan = ch]
    BY DEF ch
  <2> QED
    BY <1>2, <2>3, <2>4 DEF State, SameLines
<1>4. \A c \in D : /\ b.chan[c].BUSY /\ b.chan[c].EN
                   /\ b.chan[c].count = s.chan[c].reload
                   /\ b.chan[c].reload = s.chan[c].reload
                   /\ b.chan[c].count \in Nat
  <2> SUFFICES ASSUME NEW c \in D
               PROVE  /\ b.chan[c].BUSY /\ b.chan[c].EN
                      /\ b.chan[c].count = s.chan[c].reload
                      /\ b.chan[c].reload = s.chan[c].reload
                      /\ b.chan[c].count \in Nat
    OBVIOUS
  <2>1. b.chan[c] = [s.chan[c] EXCEPT !.BUSY = TRUE, !.count = s.chan[c].reload]
    BY <1>2 DEF State
  <2>2. s.chan[c] \in Channel /\ s.chan[c].EN
    BY <1>2 DEF State
  <2> HIDE DEF b, D
  <2> QED
    BY <2>1, <2>2 DEF Channel
<1>5. \A c \in Channels \ D : b.chan[c] = s.chan[c]
  BY <1>2 DEF State
<1> HIDE DEF b
<1>6. Inv(b, X \cup D)
  <2>1. \A c \in Armed(b) : Active(b, c)
    <3> SUFFICES ASSUME NEW c \in Armed(b)
                 PROVE  Active(b, c)
      OBVIOUS
    <3>1. c \in Channels /\ Active(s, c)
      BY <1>2, <1>3 DEF Inv, Armed, State
    <3> QED
      BY <1>5, <3>1 DEF Active
  <2>2. \A c \in Channels \ (X \cup D) : Settled(b, c)
    BY <1>3, <1>5 DEF Inv, Settled, Waiting, Active, Granted, Armed
  <2>3. Lines(b)
    BY <1>3 DEF Inv, Lines, SameLines, intStatus
  <2> QED
    BY <1>3, <2>1, <2>2, <2>3 DEF Inv
<1>7. E \in SUBSET Channels /\ \A c \in E : Active(b, c)
  BY <1>4 DEF Active
<1>8. /\ t \in State
      /\ t.due \cap t.later = {}
      /\ \A c \in Armed(t) : Active(t, c)
      /\ \A c \in Channels \ (X \cup D) : Settled(t, c)
      /\ \A c \in E : Waiting(t, c) => c \in Armed(t)
      /\ Lines(t)
      /\ t.chan = b.chan /\ t.dreq = b.dreq
      /\ Armed(t) \subseteq Armed(b) \cup E
      /\ Armed(b) \subseteq Armed(t)
  BY <1>6, <1>7, ScheduleFacts
<1> HIDE DEF t
<1>9. \A c \in D : Settled(t, c)
  BY <1>4, <1>8 DEF Settled, Waiting
<1>10. Inv(t, X)
  BY <1>8, <1>9 DEF Inv
<1>11. \A c \in Channels : /\ Kept(s, t, c) \/ Began(s, t, c)
                           /\ t.chan[c].reload = s.chan[c].reload
  <2>1. ASSUME NEW c \in D
        PROVE  Began(s, t, c) /\ t.chan[c].reload = s.chan[c].reload
    BY <1>4, <1>8 DEF Began
  <2>2. ASSUME NEW c \in Channels \ D
        PROVE  Kept(s, t, c) /\ t.chan[c].reload = s.chan[c].reload
    BY <1>5, <1>8 DEF Kept
  <2> QED
    BY <2>1, <2>2
<1>12. \A c \in Channels : (c \notin C \/ s.chan[c].BUSY) =>
         t.chan[c] = s.chan[c] /\ (c \in Armed(t) => c \in Armed(s))
  BY <1>3, <1>5, <1>8 DEF Armed
<1>13. Armed(s) \subseteq Armed(t) /\ t.dreq = s.dreq
  BY <1>3, <1>8 DEF Armed
<1> QED
  BY <1>1, <1>10, <1>11, <1>12, <1>13

-----------------------------------------------------------------------------
\* The channels outside C are left alone.
Untouched(s, t, C) ==
  \A d \in Channels \ C : t.chan[d] = s.chan[d] /\ (d \in Armed(t) => d \in Armed(s))

Counting(s, t) == \A d \in Channels : Kept(s, t, d) \/ Began(s, t, d)
SameReload(s, t) == \A d \in Channels : t.chan[d].reload = s.chan[d].reload

\* A channel that has begun in the first of two steps is busy in the second.
LEMMA CountingTwice ==
  ASSUME NEW s, NEW t, NEW u, Counting(s, t), Counting(t, u), SameReload(t, u)
  PROVE  Counting(s, u)
<1> SUFFICES ASSUME NEW d \in Channels
             PROVE  Kept(s, u, d) \/ Began(s, u, d)
  BY DEF Counting
<1>1. Kept(s, t, d) \/ Began(s, t, d)
  BY DEF Counting
<1>2. (Kept(t, u, d) \/ Began(t, u, d)) /\ u.chan[d].reload = t.chan[d].reload
  BY DEF Counting, SameReload
<1> QED
  BY <1>1, <1>2 DEF Kept, Began

LEMMA RaiseFacts ==
  ASSUME NEW X, NEW s, Inv(s, X), NEW c \in Channels
  PROVE  LET t == Raise(s, c)
         IN /\ Inv(t, X)
            /\ t.chan = s.chan /\ Armed(t) = Armed(s) /\ t.dreq = s.dreq
<1> DEFINE t == Raise(s, c)
<1>1. /\ t \in State /\ Lines(t)
      /\ t.chan = s.chan /\ t.due = s.due /\ t.later = s.later /\ t.dreq = s.dreq
  BY DEF Inv, State, Raise, checkInterrupts, intStatus, Lines
<1> HIDE DEF t
<1>2. Armed(t) = Armed(s)
  BY <1>1 DEF Armed
<1>3. \A d \in Channels : (Active(t, d) <=> Active(s, d)) /\ (Settled(t, d) <=> Settled(s, d))
  BY <1>1, <1>2 DEF Active, Settled, Waiting, Granted
<1>4. Armed(s) \subseteq Channels
  BY DEF Inv, State, Armed
<1>5. Inv(t, X)
  BY <1>1, <1>2, <1>3, <1>4 DEF Inv
<1> QED
  BY <1>1, <1>2, <1>5 DEF t

LEMMA TriggerFacts ==
  ASSUME NEW X, NEW s, Inv(s, X), NEW c \in Channels, NEW nonzero
  PROVE  LET t == trigger(s, c, nonzero)
         IN /\ Inv(t, X) /\ Counting(s, t) /\ SameReload(s, t)
            /\ Untouched(s, t, {c}) /\ t.dreq = s.dreq
<1> USE DEF SameReload
<1>1. CASE nonzero
  BY <1>1, StartFacts DEF trigger, Counting, Untouched
<1>2. CASE ~nonzero /\ s.chan[c].IRQ_QUIET
  BY <1>2, RaiseFacts DEF trigger, Counting, Untouched, Kept
<1>3. CASE ~nonzero /\ ~s.chan[c].IRQ_QUIET
  BY <1>3 DEF trigger, Counting, Untouched, Kept
<1> QED
  BY <1>1, <1>2, <1>3

LEMMA WriteControlFacts ==
  ASSUME NEW X, NEW s, Inv(s, X), NEW c \in Channels \ X, NEW v \in Control
  PROVE  LET t == writeControl(s, c, v)
         IN /\ Inv(t, X) /\ Counting(s, t) /\ Untouched(s, t, {c})
            /\ t.dreq = s.dreq
            /\ t.chan[c].BUSY = s.chan[c].BUSY /\ t.chan[c].reload = s.chan[c].reload
<1> DEFINE k == [s.chan[c] EXCEPT !.EN = v.EN, !.IRQ_QUIET = v.IRQ_QUIET,
                                  !.treq = v.treq, !.chainTo = v.chainTo]
           b == [s EXCEPT !.chan = [s.chan EXCEPT ![c] = k]]
           t == writeControl(s, c, v)
<1>0. s \in State /\ s.chan[c] \in Channel /\ s.chan \in [Channels -> Channel]
  BY DEF Inv, State
<1>1. /\ k \in Channel /\ k.BUSY = s.chan[c].BUSY
      /\ k.count = s.chan[c].count /\ k.reload = s.chan[c].reload /\ k.EN = v.EN
  BY <1>0 DEF Control, Channel
<1>2. [s EXCEPT !.chan[c] = [@ EXCEPT !.EN = v.EN, !.IRQ_QUIET = v.IRQ_QUIET,
                                      !.treq = v.treq, !.chainTo = v.chainTo]] = b
  BY <1>0 DEF State, Channel
<1>3. t = IF Active(b, c) THEN scheduleTransfer(b, {c})
          ELSE IF ~v.EN THEN Cancel(b, {c}) ELSE b
  BY <1>2 DEF writeControl
<1> HIDE DEF k
<1>4. /\ b \in State /\ SameLines(s, b)
      /\ b.due = s.due /\ b.later = s.later /\ b.dreq = s.dreq /\ b.timers = s.timers
      /\ b.chan[c] = k /\ \A d \in Channels \ {c} : b.chan[d] = s.chan[d]
  BY <1>0, <1>1 DEF State, SameLines
<1> HIDE DEF b, t
<1>5. Armed(b) = Armed(s) /\ b.due \cap b.later = {} /\ Lines(b)
  BY <1>4 DEF Inv, Lines, SameLines, intStatus, Armed
<1>6. \A d \in Channels \ {c} : /\ Active(b, d) <=> Active(s, d)
                                /\ Settled(b, d) <=> Settled(s, d)
  BY <1>4, <1>5 DEF Active, Settled, Waiting, Granted
<1>7. b.chan[c].BUSY => b.chan[c].count \in Nat
  BY <1>1, <1>4 DEF Inv, Settled
<1>8. Counting(s, b)
  BY <1>1, <1>4 DEF Counting, Kept
<1>9. CASE Active(b, c)
  <2>1. Inv(b, X \cup {c})
    <3>1. \A d \in Armed(b) : Active(b, d)
      BY <1>0, <1>5, <1>6, <1>9 DEF Inv, Armed, State
    <3> QED
      BY <1>4, <1>5, <1>6, <3>1 DEF Inv
  <2> HIDE DEF Inv
  <2>2. /\ t \in State
        /\ t.due \cap t.later = {}
        /\ \A d \in Armed(t) : Active(t, d)
        /\ \A d \in Channels \ (X \cup {c}) : Settled(t, d)
        /\ \A d \in {c} : Waiting(t, d) => d \in Armed(t)
        /\ Lines(t)
        /\ t.chan = b.chan /\ t.dreq = b.dreq
        /\ Armed(t) \subseteq Armed(b) \cup {c}
    BY <1>3, <1>9, <2>1, ScheduleFacts
  <2>3. Settled(t, c)
    BY <1>7, <2>2 DEF Settled
  <2>4. Inv(t, X)
    BY <2>2, <2>3 DEF Inv
  <2>5. Counting(s, t) /\ Untouched(s, t, {c}) /\ t.dreq = s.dreq
    BY <1>4, <1>5, <1>8, <2>2 DEF Counting, Kept, Began, Untouched
  <2> QED
    BY <1>1, <1>4, <2>2, <2>4, <2>5 DEF t
<1>10. CASE ~Active(b, c)
  <2>0. v.EN => ~b.chan[c].BUSY
    BY <1>1, <1>4, <1>10 DEF Active
  <2>1. ~Waiting(b, c)
    BY <1>10 DEF Waiting
  <2>2. CASE v.EN
    <3>1. ~s.chan[c].BUSY
      BY <1>1, <1>4, <2>0, <2>2
    <3>2. c \notin Armed(s)
      BY <3>1 DEF Inv, Active
    <3>3. \A d \in Armed(b) : Active(b, d)
      BY <1>0, <1>5, <1>6, <3>2 DEF Inv, Armed, State
    <3>4. Settled(b, c)
      BY <1>7, <2>1 DEF Settled
    <3>5. Inv(b, X)
      BY <1>4, <1>5, <1>6, <3>3, <3>4 DEF Inv
    <3>6. t = b
      BY <1>3, <1>10, <2>2
    <3> QED
      BY <1>1, <1>4, <1>5, <1>8, <3>5, <3>6 DEF Untouched, t
  <2>3. CASE ~v.EN
    <3>1. t = Cancel(b, {c})
      BY <1>3, <1>10, <2>3
    <3>2. /\ t \in State /\ SameLines(b, t)
          /\ t.chan = b.chan /\ t.due = b.due \ {c} /\ t.later = b.later \ {c}
          /\ t.dreq = b.dreq
      BY <1>4, <3>1 DEF State, Cancel, SameLines
    <3>3. Armed(t) = Armed(s) \ {c} /\ t.due \cap t.later = {}
      BY <1>4, <1>5, <3>2 DEF Armed
    <3>4. \A d \in Armed(t) : Active(t, d)
      BY <1>0, <1>6, <3>2, <3>3 DEF Inv, Active, Armed, State
    <3>5. \A d \in Channels \ {c} : Settled(b, d) => Settled(t, d)
      BY <1>5, <3>2, <3>3 DEF Settled, Waiting, Active, Granted
    <3>6. Settled(t, c)
      BY <1>7, <2>1, <3>2 DEF Settled, Waiting, Active, Granted
    <3>7. Lines(t)
      BY <1>5, <3>2 DEF Lines, SameLines, intStatus
    <3>8. Inv(t, X)
      BY <1>6, <3>2, <3>3, <3>4, <3>5, <3>6, <3>7 DEF Inv
    <3>9. Counting(s, t) /\ Untouched(s, t, {c}) /\ t.dreq = s.dreq
      BY <1>4, <1>8, <3>2, <3>3 DEF Counting, Kept, Began, Untouched
    <3> QED
      BY <1>1, <1>4, <3>2, <3>8, <3>9 DEF t
  <2> QED
    BY <2>2, <2>3
<1> QED
  BY <1>9, <1>10

-----------------------------------------------------------------------------
LEMMA WriteChannelFacts ==
  ASSUME NEW X, NEW s, Inv(s, X), NEW c \in Channels \ X, NEW w \in Write(c),
         DMAAssumption
  PROVE  LET t == writeChannel(s, c, w)
         IN Inv(t, X) /\ Counting(s, t) /\ Untouched(s, t, {c}) /\ t.dreq = s.dreq
<1> DEFINE t == writeChannel(s, c, w)
<1>0. Controls[c] \subseteq Control /\ Counts[c] \subseteq Nat
  BY DMAAssumption DEF DMAAssumption
<1>1. CASE w.kind = "control"
  <2> DEFINE u == writeControl(s, c, w.value)
  <2>1. w.value \in Control /\ w.trigger \in BOOLEAN
    BY <1>0, <1>1 DEF Write
  <2>2. t = IF w.trigger THEN start(u, {c}) ELSE u
    BY <1>1 DEF writeChannel
  <2>3. Inv(u, X) /\ Counting(s, u) /\ Untouched(s, u, {c}) /\ u.dreq = s.dreq
    BY <2>1, WriteControlFacts
  <2> HIDE DEF u, t
  <2>4. /\ Inv(t, X) /\ Counting(u, t) /\ SameReload(u, t)
        /\ Untouched(u, t, {c}) /\ t.dreq = u.dreq
    <3>1. CASE w.trigger
      BY <2>2, <2>3, <3>1, StartFacts DEF Counting, SameReload, Untouched
    <3>2. CASE ~w.trigger
      BY <2>2, <2>3, <3>2 DEF Counting, Kept, SameReload, Untouched
    <3> QED
      BY <2>1, <3>1, <3>2
  <2>5. Counting(s, t)
    BY <2>3, <2>4, CountingTwice
  <2>6. Untouched(s, t, {c})
    BY <2>3, <2>4 DEF Untouched
  <2> QED
    BY <2>3, <2>4, <2>5, <2>6 DEF t
<1>2. CASE w.kind = "count"
  <2> DEFINE k == [s.chan[c] EXCEPT !.reload = w.count, !.mode = w.mode]
             u == [s EXCEPT !.chan = [s.chan EXCEPT ![c] = k]]
             nonzero == w.count # 0 \/ w.mode # 0
  <2>0. s \in State /\ s.chan[c] \in Channel /\ s.chan \in [Channels -> Channel]
    BY DEF Inv, State
  <2>1. w.count \in Nat /\ w.mode \in Modes /\ w.trigger \in BOOLEAN
    BY <1>0, <1>2 DEF Write
  <2>2. /\ k \in Channel /\ k.EN = s.chan[c].EN /\ k.BUSY = s.chan[c].BUSY
        /\ k.count = s.chan[c].count /\ k.treq = s.chan[c].treq
    BY <2>0, <2>1 DEF Channel
  <2>3. [s EXCEPT !.chan[c] = [@ EXCEPT !.reload = w.count, !.mode = w.mode]] = u
    BY <2>0 DEF State, Channel
  <2>4. t = IF w.trigger THEN trigger(u, c, nonzero) ELSE u
    BY <1>2, <2>3 DEF writeChannel
  <2> HIDE DEF k
  <2>5. /\ u \in State /\ SameLines(s, u)
        /\ u.due = s.due /\ u.later = s.later /\ u.dreq = s.dreq
        /\ u.chan[c] = k /\ \A d \in Channels \ {c} : u.chan[d] = s.chan[d]
    BY <2>0, <2>2 DEF State, SameLines
  <2> HIDE DEF u, t, nonzero
  <2>6. Armed(u) = Armed(s) /\ Lines(u)
    BY <2>5 DEF Inv, Lines, SameLines, intStatus, Armed
  <2>7. \A d \in Channels : /\ Active(u, d) <=> Active(s, d)
                            /\ Settled(u, d) <=> Settled(s, d)
    BY <2>2, <2>5, <2>6 DEF Active, Settled, Waiting, Granted
  <2>8. Inv(u, X)
    <3>1. \A d \in Armed(u) : Active(u, d)
      BY <2>0, <2>6, <2>7 DEF Inv, Armed, State
    <3> QED
      BY <2>5, <2>6, <2>7, <3>1 DEF Inv
  <2>9. Counting(s, u) /\ Untouched(s, u, {c})
    BY <2>2, <2>5, <2>6 DEF Counting, Kept, Untouched
  <2>10. /\ Inv(t, X) /\ Counting(u, t) /\ SameReload(u, t)
         /\ Untouched(u, t, {c}) /\ t.dreq = u.dreq
    <3>1. CASE w.trigger
      BY <2>4, <2>8, <3>1, TriggerFacts
    <3>2. CASE ~w.trigger
      BY <2>4, <2>8, <3>2 DEF Counting, Kept, SameReload, Untouched
    <3> QED
      BY <2>1, <3>1, <3>2
  <2>11. Counting(s, t)
    BY <2>9, <2>10, CountingTwice
  <2>12. Untouched(s, t, {c})
    BY <2>9, <2>10 DEF Untouched
  <2> QED
    BY <2>5, <2>10, <2>11, <2>12 DEF t
<1>3. CASE w.kind = "address"
  <2>1. w.zero \in BOOLEAN /\ t = trigger(s, c, ~w.zero)
    BY <1>3 DEF Write, writeChannel
  <2> HIDE DEF t
  <2>2. Inv(t, X) /\ Counting(s, t) /\ Untouched(s, t, {c}) /\ t.dreq = s.dreq
    BY <2>1, TriggerFacts
  <2> QED
    BY <2>2 DEF t
<1> QED
  BY <1>1, <1>2, <1>3 DEF Write

LEMMA SetDREQFacts ==
  ASSUME NEW X, NEW s, Inv(s, X), NEW d \in Dreqs
  PROVE  LET t == setDREQ(s, d)
         IN /\ Inv(t, X) /\ t.chan = s.chan
            /\ \A c \in Channels : s.chan[c].treq # d /\ c \in Armed(t) => c \in Armed(s)
<1> DEFINE u == [s EXCEPT !.dreq = @ \cup {d}]
           C == {c \in Channels : s.chan[c].treq = d /\ Active(s, c)}
           t == scheduleTransfer(u, C)
<1>1. CASE d \in s.dreq
  BY <1>1 DEF setDREQ
<1>2. CASE d \notin s.dreq
  <2>1. setDREQ(s, d) = t
    BY <1>2 DEF setDREQ
  <2>2. /\ u \in State /\ SameLines(s, u)
        /\ u.due = s.due /\ u.later = s.later /\ u.chan = s.chan
        /\ u.dreq = s.dreq \cup {d}
    BY DEF Inv, State, SameLines
  <2> HIDE DEF u
  <2>3. Armed(u) = Armed(s) /\ Lines(u)
    BY <2>2 DEF Inv, Lines, SameLines, intStatus, Armed
  <2>4. \A c \in Channels : Active(u, c) <=> Active(s, c)
    BY <2>2 DEF Active
  <2>5. \A c \in Armed(u) : Active(u, c)
    BY <2>2, <2>3, <2>4 DEF Inv, State, Armed
  <2>6. \A c \in Channels \ (X \cup C) : Settled(u, c)
    BY <2>2, <2>3, <2>4 DEF Inv, Settled, Waiting, Granted
  <2>7. Inv(u, X \cup C)
    BY <2>2, <2>3, <2>5, <2>6 DEF Inv
  <2>a. C \in SUBSET Channels /\ \A c \in C : Active(u, c)
    BY <2>4
  <2> HIDE DEF C
  <2>8. /\ t \in State
        /\ t.due \cap t.later = {}
        /\ \A c \in Armed(t) : Active(t, c)
        /\ \A c \in Channels \ (X \cup C) : Settled(t, c)
        /\ \A c \in C : Waiting(t, c) => c \in Armed(t)
        /\ Lines(t)
        /\ t.chan = u.chan /\ t.dreq = u.dreq
        /\ Armed(t) \subseteq Armed(u) \cup C
    BY <2>7, <2>a, ScheduleFacts
  <2> HIDE DEF t
  <2>9. \A c \in C \ X : Settled(t, c)
    BY <2>2, <2>8, <2>a DEF Settled, Inv
  <2>10. Inv(t, X)
    BY <2>8, <2>9 DEF Inv
  <2>11. \A c \in Channels : s.chan[c].treq # d /\ c \in Armed(t) => c \in Armed(s)
    BY <2>2, <2>3, <2>8 DEF C
  <2> QED
    BY <2>1, <2>2, <2>8, <2>10, <2>11
<1> QED
  BY <1>1, <1>2

LEMMA ClearDREQFacts ==
  ASSUME NEW X, NEW s, Inv(s, X), NEW d \in Dreqs
  PROVE  LET t == clearDREQ(s, d)
         IN Inv(t, X) /\ t.chan = s.chan /\ Armed(t) = Armed(s)
<1> DEFINE t == clearDREQ(s, d)
<1>1. /\ t \in State /\ SameLines(s, t)
      /\ t.due = s.due /\ t.later = s.later /\ t.chan = s.chan
      /\ t.dreq = s.dreq \ {d}
  BY DEF Inv, State, SameLines, clearDREQ
<1> HIDE DEF t
<1>2. Armed(t) = Armed(s) /\ Lines(t)
  BY <1>1 DEF Inv, Lines, SameLines, intStatus, Armed
<1>3. \A c \in Armed(t) : Active(t, c)
  BY <1>1, <1>2 DEF Inv, Active
<1>4. \A c \in Channels \ X : Settled(t, c)
  BY <1>1, <1>2 DEF Inv, Settled, Waiting, Active, Granted
<1>5. Inv(t, X)
  BY <1>1, <1>2, <1>3, <1>4 DEF Inv
<1> QED
  BY <1>1, <1>2, <1>5 DEF t

-----------------------------------------------------------------------------
(* The turn of a channel: it is exempt, and its alarm is out of the list. *)

LEMMA OwnChange ==
  ASSUME NEW s, NEW c \in Channels, Inv(s, {c}), c \notin Armed(s), NEW k \in Channel
  PROVE  LET t == [s EXCEPT !.chan[c] = k]
         IN /\ Inv(t, {c}) /\ Armed(t) = Armed(s)
            /\ t.chan[c] = k
            /\ \A d \in Channels \ {c} : t.chan[d] = s.chan[d]
<1> DEFINE t == [s EXCEPT !.chan[c] = k]
<1>1. /\ t \in State /\ SameLines(s, t)
      /\ t.due = s.due /\ t.later = s.later /\ t.dreq = s.dreq
      /\ t.chan[c] = k
      /\ \A d \in Channels \ {c} : t.chan[d] = s.chan[d]
  BY DEF Inv, State, SameLines
<1> HIDE DEF t
<1>2. Armed(t) = Armed(s) /\ Lines(t)
  BY <1>1 DEF Inv, Lines, SameLines, intStatus, Armed
<1>3. Armed(s) \subseteq Channels \ {c}
  BY DEF Inv, State, Armed
<1>4. \A d \in Armed(t) : Active(t, d)
  BY <1>1, <1>2, <1>3 DEF Inv, Active
<1>5. \A d \in Channels \ {c} : Settled(t, d)
  BY <1>1, <1>2 DEF Inv, Settled, Waiting, Active, Granted
<1>6. Inv(t, {c})
  BY <1>1, <1>2, <1>4, <1>5 DEF Inv
<1> QED
  BY <1>1, <1>2, <1>6 DEF t

\* The turn ends with an alarm if there is one to have.
LEMMA Reschedule ==
  ASSUME NEW s, NEW c \in Channels, Inv(s, {c}), Active(s, c), s.chan[c].count \in Nat
  PROVE  LET t == scheduleTransfer(s, {c})
         IN Inv(t, {}) /\ t.chan = s.chan
<1> DEFINE t == scheduleTransfer(s, {c})
<1>1. /\ t \in State
      /\ t.due \cap t.later = {}
      /\ \A d \in Armed(t) : Active(t, d)
      /\ \A d \in Channels \ {c} : Settled(t, d)
      /\ \A d \in {c} : Waiting(t, d) => d \in Armed(t)
      /\ Lines(t)
      /\ t.chan = s.chan
  BY ScheduleFacts
<1> HIDE DEF t
<1>2. Settled(t, c)
  BY <1>1 DEF Settled
<1>3. Inv(t, {})
  BY <1>1, <1>2 DEF Inv
<1> QED
  BY <1>1, <1>3 DEF t

LEMMA TransferFacts ==
  ASSUME DMAAssumption, NEW s, NEW c \in Channels, Inv(s, {c}), c \notin Armed(s),
         NEW e \in Effects[c], ~(e.kind = "raise" /\ e.dreq = s.chan[c].treq)
  PROVE  LET t == transfer(s, e)
         IN /\ Inv(t, {c}) /\ Counting(s, t)
            /\ t.chan[c] = s.chan[c] /\ c \notin Armed(t)
<1> DEFINE t == transfer(s, e)
<1>0. \/ e.kind = "memory"
      \/ e.kind \in {"raise", "lower"} /\ e.dreq \in Dreqs
      \/ e.kind = "register" /\ e.chan \in Channels \ {c} /\ e.write \in Write(e.chan)
  BY DEF DMAAssumption
<1>1. CASE e.kind = "memory"
  BY <1>1 DEF transfer, Counting, Kept
<1>2. CASE e.kind = "raise" /\ e.dreq \in Dreqs
  <2>1. t = setDREQ(s, e.dreq)
    BY <1>2 DEF transfer
  <2> HIDE DEF t
  <2>2. /\ Inv(t, {c}) /\ t.chan = s.chan
        /\ \A d \in Channels : s.chan[d].treq # e.dreq /\ d \in Armed(t) => d \in Armed(s)
    BY <1>2, <2>1, SetDREQFacts
  <2>3. Counting(s, t) /\ t.chan[c] = s.chan[c] /\ c \notin Armed(t)
    BY <1>2, <2>2 DEF Counting, Kept
  <2> QED
    BY <2>2, <2>3 DEF t
<1>3. CASE e.kind = "lower" /\ e.dreq \in Dreqs
  <2>1. t = clearDREQ(s, e.dreq)
    BY <1>3 DEF transfer
  <2> HIDE DEF t
  <2>2. Inv(t, {c}) /\ t.chan = s.chan /\ Armed(t) = Armed(s)
    BY <1>3, <2>1, ClearDREQFacts
  <2>3. Counting(s, t) /\ t.chan[c] = s.chan[c] /\ c \notin Armed(t)
    BY <2>2 DEF Counting, Kept
  <2> QED
    BY <2>2, <2>3 DEF t
<1>4. CASE e.kind = "register" /\ e.chan \in Channels \ {c} /\ e.write \in Write(e.chan)
  <2>1. t = writeChannel(s, e.chan, e.write)
    BY <1>4 DEF transfer
  <2> HIDE DEF t
  <2>2. Inv(t, {c}) /\ Counting(s, t) /\ Untouched(s, t, {e.chan})
    BY <1>4, <2>1, WriteChannelFacts
  <2>3. t.chan[c] = s.chan[c] /\ c \notin Armed(t)
    BY <1>4, <2>2 DEF Untouched
  <2> QED
    BY <2>2, <2>3 DEF t
<1> QED
  BY <1>0, <1>1, <1>2, <1>3, <1>4

LEMMA CompletedFacts ==
  ASSUME NEW s, NEW c \in Channels, Inv(s, {c}), c \notin Armed(s)
  PROVE  LET t == Completed(s, c)
         IN /\ Inv(t, {c}) /\ Counting(s, t) /\ SameReload(s, t)
            /\ t.chan[c] = s.chan[c] /\ c \notin Armed(t)
<1> DEFINE u == IF s.chan[c].IRQ_QUIET THEN s ELSE Raise(s, c)
           n == s.chan[c].chainTo
           t == Completed(s, c)
<1>1. Inv(u, {c}) /\ u.chan = s.chan /\ c \notin Armed(u)
  BY RaiseFacts
<1> DEFINE stays == n = c \/ n >= ChannelCount
<1>2. stays \/ n \in Channels
  <2>1. n \in Channels \cup ChannelCount .. 15
    BY DEF Inv, State, Channel
  <2>2. n \in ChannelCount .. 15 => n >= ChannelCount
    BY DMAAssumption DEF DMAAssumption
  <2> QED
    BY <2>1, <2>2
<1>3. t = IF stays THEN u ELSE start(u, {n})
  BY DEF Completed
<1>6. ~stays => n # c
  OBVIOUS
<1> HIDE DEF u, n, t, stays
<1>4. CASE stays
  <2>1. Counting(s, t) /\ SameReload(s, t)
    BY <1>1, <1>3, <1>4 DEF Counting, Kept, SameReload
  <2> QED
    BY <1>1, <1>3, <1>4, <2>1 DEF t
<1>5. CASE ~stays
  <2>1. t = start(u, {n}) /\ {n} \in SUBSET Channels
    BY <1>2, <1>3, <1>5
  <2>2. /\ Inv(t, {c})
        /\ \A d \in Channels : /\ Kept(u, t, d) \/ Began(u, t, d)
                               /\ t.chan[d].reload = u.chan[d].reload
        /\ \A d \in Channels : (d \notin {n} \/ u.chan[d].BUSY) =>
             t.chan[d] = u.chan[d] /\ (d \in Armed(t) => d \in Armed(u))
    BY <1>1, <2>1, StartFacts
  <2>3. t.chan[c] = s.chan[c] /\ c \notin Armed(t)
    BY <1>1, <1>5, <1>6, <2>2
  <2>4. Counting(s, t) /\ SameReload(s, t)
    BY <1>1, <2>2 DEF Counting, Kept, Began, SameReload
  <2> QED
    BY <2>2, <2>3, <2>4 DEF t
<1> QED
  BY <1>4, <1>5

\* The count of the channel whose turn it is.
Counts1(s, t, c) ==
  t.chan[c].count # s.chan[c].count =>
    \/ t.chan[c].count = s.chan[c].count - 1
    \/ /\ s.chan[c].count <= 1 /\ s.chan[c].mode = 1
       /\ t.chan[c].count = s.chan[c].reload

LEMMA AdvanceFacts ==
  ASSUME NEW s, NEW c \in Channels, Inv(s, {c}), c \notin Armed(s),
         Active(s, c), s.chan[c].count \in Nat
  PROVE  LET t == advance(s, c)
         IN /\ Inv(t, {})
            /\ \A d \in Channels \ {c} : /\ Kept(s, t, d) \/ Began(s, t, d)
                                         /\ t.chan[d].reload = s.chan[d].reload
            /\ Counts1(s, t, c)
<1> DEFINE k == IF s.chan[c].mode = 15 THEN s.chan[c]
                ELSE [s.chan[c] EXCEPT !.count = @ - 1]
           u == Counted(s, c)
           t == advance(s, c)
<1>0. s \in State /\ s.chan[c] \in Channel /\ s.chan \in [Channels -> Channel]
  BY DEF Inv, State
<1>1. /\ k \in Channel /\ k.EN /\ k.BUSY /\ k.mode = s.chan[c].mode
      /\ k.reload = s.chan[c].reload
      /\ k.count = s.chan[c].count \/ k.count = s.chan[c].count - 1
  BY <1>0 DEF Channel, Active
<1>2. u = [s EXCEPT !.chan[c] = k]
  BY <1>0 DEF Counted, State
<1> HIDE DEF k, u, t
<1>3. /\ Inv(u, {c}) /\ Armed(u) = Armed(s)
      /\ u.chan[c] = k
      /\ \A d \in Channels \ {c} : u.chan[d] = s.chan[d]
  <2> DEFINE w == [s EXCEPT !.chan[c] = k]
  <2>1. /\ Inv(w, {c}) /\ Armed(w) = Armed(s)
        /\ w.chan[c] = k
        /\ \A d \in Channels \ {c} : w.chan[d] = s.chan[d]
    BY <1>1, OwnChange
  <2> QED
    BY <1>2, <2>1
<1>4. t = IF u.chan[c].count > 0 THEN scheduleTransfer(u, {c})
          ELSE IF u.chan[c].mode = 1
            THEN scheduleTransfer([Completed(u, c) EXCEPT !.chan[c].count = u.chan[c].reload], {c})
            ELSE [Completed(u, c) EXCEPT !.chan[c].BUSY = FALSE]
  BY DEF advance, t, u
<1>5. CASE u.chan[c].count > 0
  <2>1. t = scheduleTransfer(u, {c})
    BY <1>4, <1>5
  <2>2. Active(u, c) /\ u.chan[c].count \in Nat
    BY <1>1, <1>3, <1>5 DEF Active, Channel
  <2>3. Inv(t, {}) /\ t.chan = u.chan
    BY <1>3, <2>1, <2>2, Reschedule
  <2>4. \A d \in Channels \ {c} : Kept(s, t, d) /\ t.chan[d].reload = s.chan[d].reload
    BY <1>3, <2>3 DEF Kept
  <2>5. Counts1(s, t, c)
    BY <1>1, <1>3, <2>3 DEF Counts1
  <2> QED
    BY <2>3, <2>4, <2>5 DEF t
<1>6. CASE ~(u.chan[c].count > 0)
  <2> DEFINE v == Completed(u, c)
  <2>1. /\ Inv(v, {c}) /\ Counting(u, v) /\ SameReload(u, v)
        /\ v.chan[c] = k /\ c \notin Armed(v)
    BY <1>3, CompletedFacts
  <2> HIDE DEF v
  <2>2. v \in State /\ v.chan \in [Channels -> Channel]
    BY <2>1 DEF Inv, State
  <2>3. \A d \in Channels \ {c} : /\ Kept(s, v, d) \/ Began(s, v, d)
                                  /\ v.chan[d].reload = s.chan[d].reload
    BY <1>3, <2>1 DEF Counting, Kept, Began, SameReload
  <2>4. CASE u.chan[c].mode = 1
    <3> DEFINE k1 == [k EXCEPT !.count = k.reload]
               w == [v EXCEPT !.chan[c] = k1]
    <3>1. /\ k1 \in Channel /\ k1.EN /\ k1.BUSY /\ k1.count = k.reload
          /\ k1.count \in Nat /\ k1.reload = k.reload
      BY <1>1 DEF Channel
    <3>2. t = scheduleTransfer(w, {c})
      BY <1>3, <1>4, <1>6, <2>1, <2>2, <2>4 DEF State, v
    <3> HIDE DEF k1
    <3>3. /\ Inv(w, {c}) /\ w.chan[c] = k1
          /\ \A d \in Channels \ {c} : w.chan[d] = v.chan[d]
      BY <2>1, <3>1, OwnChange
    <3> HIDE DEF w
    <3>4. Active(w, c) /\ w.chan[c].count \in Nat
      BY <3>1, <3>3 DEF Active
    <3>5. Inv(t, {}) /\ t.chan = w.chan
      BY <3>2, <3>3, <3>4, Reschedule
    <3>6. \A d \in Channels \ {c} : /\ Kept(s, t, d) \/ Began(s, t, d)
                                    /\ t.chan[d].reload = s.chan[d].reload
      BY <2>3, <3>3, <3>5 DEF Kept, Began
    <3>7. Counts1(s, t, c)
      BY <1>0, <1>1, <1>3, <1>6, <2>4, <3>1, <3>3, <3>5 DEF Counts1, Channel
    <3> QED
      BY <3>5, <3>6, <3>7 DEF t
  <2>5. CASE u.chan[c].mode # 1
    <3> DEFINE k1 == [k EXCEPT !.BUSY = FALSE]
    <3>1. k1 \in Channel /\ ~k1.BUSY /\ k1.count = k.count
      BY <1>1 DEF Channel
    <3>2. t = [v EXCEPT !.chan[c] = k1]
      BY <1>3, <1>4, <1>6, <2>1, <2>2, <2>5 DEF State, v
    <3> HIDE DEF k1
    <3>3. /\ Inv(t, {c}) /\ t.chan[c] = k1
          /\ \A d \in Channels \ {c} : t.chan[d] = v.chan[d]
      BY <2>1, <3>1, <3>2, OwnChange
    <3>4. Settled(t, c)
      BY <3>1, <3>3 DEF Settled, Waiting, Active
    <3>5. Inv(t, {})
      BY <3>3, <3>4 DEF Inv
    <3>6. \A d \in Channels \ {c} : /\ Kept(s, t, d) \/ Began(s, t, d)
                                    /\ t.chan[d].reload = s.chan[d].reload
      BY <2>3, <3>3 DEF Kept, Began
    <3>7. Counts1(s, t, c)
      BY <1>1, <3>1, <3>3 DEF Counts1
    <3> QED
      BY <3>5, <3>6, <3>7 DEF t
  <2> QED
    BY <2>4, <2>5
<1> QED
  BY <1>5, <1>6

-----------------------------------------------------------------------------
(* The steps. *)

\* What a step may do to the counts: CountsDown, without the box.
CountStep(s, t) ==
  \A c \in Channels :
    LET k == s.chan[c]
        n == t.chan[c].count
    IN n # k.count =>
         IF k.BUSY
           THEN n = k.count - 1 \/ (k.count <= 1 /\ k.mode = 1 /\ n = k.reload)
           ELSE t.chan[c].BUSY /\ n = t.chan[c].reload

LEMMA CountingStep ==
  ASSUME NEW s, NEW t, Counting(s, t)
  PROVE  CountStep(s, t)
  BY DEF Counting, Kept, Began, CountStep

LEMMA FireStep ==
  ASSUME DMAAssumption, Inv(dma, {}), NEW c \in Channels, Fire(c)
  PROVE  Inv(dma', {}) /\ CountStep(dma, dma')
<1> DEFINE s == [dma EXCEPT !.due = @ \ {c}]
<1>1. PICK e \in Effects[c] : /\ ~(e.kind = "raise" /\ e.dreq = dma.chan[c].treq)
                              /\ dma' = advance(transfer(s, e), c)
  BY DEF Fire
<1>2. c \in dma.due
  BY DEF Fire
<1>3. Active(dma, c) /\ dma.chan[c].count \in Nat
  BY <1>2 DEF Inv, Armed, Settled, Active
<1>4. /\ s \in State /\ SameLines(dma, s) /\ s.dreq = dma.dreq
      /\ s.chan = dma.chan /\ s.due = dma.due \ {c} /\ s.later = dma.later
  BY DEF Inv, State, SameLines
<1> HIDE DEF s
<1>5. Armed(s) = Armed(dma) \ {c}
  BY <1>2, <1>4 DEF Inv, Armed
<1>6. Inv(s, {c})
  <2>1. Lines(s)
    BY <1>4 DEF Inv, Lines, SameLines, intStatus
  <2>2. \A d \in Armed(s) : Active(s, d)
    BY <1>4, <1>5 DEF Inv, Active
  <2>3. \A d \in Channels \ {c} : Settled(s, d)
    BY <1>4, <1>5 DEF Inv, Settled, Waiting, Active, Granted
  <2>4. s.due \cap s.later = {}
    BY <1>4 DEF Inv
  <2> QED
    BY <1>4, <2>1, <2>2, <2>3, <2>4 DEF Inv
<1> DEFINE t == transfer(s, e)
<1>7. /\ Inv(t, {c}) /\ Counting(s, t)
      /\ t.chan[c] = s.chan[c] /\ c \notin Armed(t)
  BY <1>1, <1>4, <1>5, <1>6, TransferFacts
<1> HIDE DEF t
<1>8. Active(t, c) /\ t.chan[c].count \in Nat /\ dma' = advance(t, c)
  BY <1>1, <1>3, <1>4, <1>7 DEF Active, t
<1>9. /\ Inv(dma', {})
      /\ \A d \in Channels \ {c} : /\ Kept(t, dma', d) \/ Began(t, dma', d)
                                   /\ dma'.chan[d].reload = t.chan[d].reload
      /\ Counts1(t, dma', c)
  BY <1>7, <1>8, AdvanceFacts
<1>10. CountStep(dma, dma')
  <2> SUFFICES ASSUME NEW d \in Channels
               PROVE  LET k == dma.chan[d]
                          n == dma'.chan[d].count
                      IN n # k.count =>
                           IF k.BUSY
                             THEN \/ n = k.count - 1
                                  \/ k.count <= 1 /\ k.mode = 1 /\ n = k.reload
                             ELSE dma'.chan[d].BUSY /\ n = dma'.chan[d].reload
    BY DEF CountStep
  <2>1. CASE d = c
    BY <1>3, <1>4, <1>7, <1>9, <2>1 DEF Counts1, Active
  <2>2. CASE d # c
    <3>1. Kept(s, t, d) \/ Began(s, t, d)
      BY <1>7 DEF Counting
    <3>2. /\ Kept(t, dma', d) \/ Began(t, dma', d)
          /\ dma'.chan[d].reload = t.chan[d].reload
      BY <1>9, <2>2
    <3>3. Kept(s, dma', d) \/ Began(s, dma', d)
      BY <3>1, <3>2 DEF Kept, Began
    <3> QED
      BY <1>4, <3>3 DEF Kept, Began
  <2> QED
    BY <2>1, <2>2
<1> QED
  BY <1>9, <1>10

LEMMA AbortStep ==
  ASSUME Inv(dma, {}), NEW C \in SUBSET Channels
  PROVE  Inv(abort(dma, C), {}) /\ CountStep(dma, abort(dma, C))
<1> DEFINE ch == [c \in Channels |-> [dma.chan[c] EXCEPT !.BUSY = @ /\ c \notin C]]
           t == abort(dma, C)
<1>0. dma \in State /\ dma.chan \in [Channels -> Channel]
  BY DEF Inv, State
<1>1. \A c \in Channels :
        /\ ch[c] \in Channel
        /\ c \in C => ~ch[c].BUSY /\ ch[c].count = dma.chan[c].count
        /\ c \notin C => ch[c] = dma.chan[c]
  <2> SUFFICES ASSUME NEW c \in Channels
               PROVE  /\ ch[c] \in Channel
                      /\ c \in C => ~ch[c].BUSY /\ ch[c].count = dma.chan[c].count
                      /\ c \notin C => ch[c] = dma.chan[c]
    OBVIOUS
  <2>1. dma.chan[c] \in Channel
    BY <1>0
  <2>2. CASE c \in C
    <3>1. ch[c] = [dma.chan[c] EXCEPT !.BUSY = FALSE]
      BY <2>1, <2>2 DEF Channel
    <3> QED
      BY <2>1, <2>2, <3>1 DEF Channel
  <2>3. CASE c \notin C
    <3>1. ch[c] = [dma.chan[c] EXCEPT !.BUSY = dma.chan[c].BUSY]
      BY <2>1, <2>3 DEF Channel
    <3> QED
      BY <2>1, <2>3, <3>1 DEF Channel
  <2> QED
    BY <2>2, <2>3
<1> DEFINE u == [dma EXCEPT !.chan = ch]
<1>2. t = Cancel(u, C)
  BY DEF abort
<1>3. ch \in [Channels -> Channel]
  BY <1>1
<1> HIDE DEF ch
<1>4. /\ t \in State /\ SameLines(dma, t) /\ t.dreq = dma.dreq
      /\ t.chan = ch /\ t.due = dma.due \ C /\ t.later = dma.later \ C
  <2>1. /\ u \in State /\ SameLines(dma, u) /\ u.dreq = dma.dreq
        /\ u.chan = ch /\ u.due = dma.due /\ u.later = dma.later
    BY <1>0, <1>3 DEF State, SameLines
  <2> HIDE DEF u
  <2> QED
    BY <1>2, <2>1 DEF State, SameLines, Cancel
<1> HIDE DEF t, u
<1>5. Armed(t) = Armed(dma) \ C /\ t.due \cap t.later = {} /\ Lines(t)
  BY <1>4 DEF Armed, Inv, Lines, SameLines, intStatus
<1>6. \A c \in Armed(t) : Active(t, c)
  BY <1>0, <1>1, <1>4, <1>5 DEF Inv, State, Armed, Active
<1>7. \A c \in Channels : Settled(t, c)
  BY <1>1, <1>4, <1>5 DEF Inv, Settled, Waiting, Active, Granted
<1>8. Inv(t, {})
  BY <1>4, <1>5, <1>6, <1>7 DEF Inv
<1>9. CountStep(dma, t)
  BY <1>1, <1>4 DEF CountStep
<1> QED
  BY <1>8, <1>9 DEF t

\* Writes that only concern the lines, or the pacing timers.
LEMMA OtherStep ==
  ASSUME Inv(dma, {}), dma' \in State, Lines(dma'),
         dma'.chan = dma.chan, dma'.due = dma.due, dma'.later = dma.later,
         dma'.dreq = dma.dreq
  PROVE  Inv(dma', {}) /\ CountStep(dma, dma')
<1>1. Armed(dma') = Armed(dma)
  BY DEF Armed
<1>2. \A c \in Channels : (Active(dma', c) <=> Active(dma, c)) /\ Settled(dma', c)
  BY <1>1 DEF Inv, Active, Settled, Waiting, Granted
<1>3. \A c \in Armed(dma') : Active(dma', c)
  BY <1>1, <1>2 DEF Inv, Armed, State
<1>4. Inv(dma', {})
  BY <1>2, <1>3 DEF Inv
<1>5. CountStep(dma, dma')
  BY DEF CountStep
<1> QED
  BY <1>4, <1>5

LEMMA ElapseStep ==
  ASSUME Inv(dma, {}), NEW c \in Channels, Elapse(c)
  PROVE  Inv(dma', {}) /\ CountStep(dma, dma')
<1>1. /\ dma' \in State /\ SameLines(dma, dma')
      /\ dma'.chan = dma.chan /\ dma'.dreq = dma.dreq
      /\ dma'.due = {c} /\ dma'.later = dma.later \ {c}
      /\ c \in dma.later /\ dma.due = {}
  BY DEF Elapse, Inv, State, SameLines
<1>2. Armed(dma') = Armed(dma) /\ Lines(dma')
  BY <1>1 DEF Armed, Inv, Lines, SameLines, intStatus
<1>3. \A d \in Channels : Settled(dma', d)
  BY <1>1, <1>2 DEF Inv, Active, Settled, Waiting, Granted
<1>4. \A d \in Armed(dma') : Active(dma', d)
  BY <1>1, <1>2 DEF Inv, Active
<1>5. Inv(dma', {})
  BY <1>1, <1>2, <1>3, <1>4 DEF Inv
<1>6. CountStep(dma, dma')
  BY <1>1 DEF CountStep
<1> QED
  BY <1>5, <1>6

LEMMA InitInv == DMAAssumption /\ Init => Inv(dma, {})
<1> SUFFICES ASSUME DMAAssumption, Init
             PROVE  Inv(dma, {})
  OBVIOUS
<1>1. /\ dma \in State
      /\ dma.due = {} /\ dma.later = {}
      /\ \A c \in Channels : ~dma.chan[c].BUSY
  BY DEF Init, State, Channel, NoMask, DMAAssumption
<1>2. Lines(dma)
  BY DEF Init, Lines, intStatus, NoMask
<1> QED
  BY <1>1, <1>2 DEF Inv, Armed, Settled, Waiting, Active

LEMMA StepInv ==
  Inv(dma, {}) /\ [Next]_vars => Inv(dma', {}) /\ CountStep(dma, dma')
<1> SUFFICES ASSUME Inv(dma, {}), [Next]_vars
             PROVE  Inv(dma', {}) /\ CountStep(dma, dma')
  OBVIOUS
<1> USE DMAAssumption
<1>1. ASSUME NEW c \in Channels, NEW w \in Write(c), WriteChannel(c, w)
      PROVE  Inv(dma', {}) /\ CountStep(dma, dma')
  <2> DEFINE t == writeChannel(dma, c, w)
  <2> DEFINE X == {}
  <2>0. Inv(dma, X) /\ c \in Channels \ X
    OBVIOUS
  <2> HIDE DEF X
  <2>1. Inv(t, X) /\ Counting(dma, t)
    BY <2>0, WriteChannelFacts
  <2>2. Inv(dma', {}) /\ Counting(dma, dma')
    BY <1>1, <2>1 DEF WriteChannel, X
  <2> QED
    BY <2>2, CountingStep
<1>2. ASSUME NEW C \in SUBSET Channels, MULTI_CHAN_TRIGGER(C)
      PROVE  Inv(dma', {}) /\ CountStep(dma, dma')
  <2>1. dma' = start(dma, C)
    BY <1>2 DEF MULTI_CHAN_TRIGGER
  <2> DEFINE t == start(dma, C)
  <2> DEFINE X == {}
  <2>2. Inv(dma, X)
    OBVIOUS
  <2> HIDE DEF X
  <2>3. Inv(t, X)
    BY <2>2, StartFacts
  <2>4. Counting(dma, t)
    <3>1. ASSUME NEW d \in Channels PROVE Kept(dma, t, d) \/ Began(dma, t, d)
      BY <2>2, StartFacts
    <3> QED
      BY <3>1 DEF Counting
  <2> HIDE DEF t
  <2>5. dma' = t
    BY <2>1 DEF t
  <2>6. Inv(dma', {}) /\ Counting(dma, dma')
    <3>1. Inv(t, {})
      BY <2>3 DEF X
    <3> QED
      BY <2>4, <2>5, <3>1, Zenon
  <2> QED
    BY <2>6, CountingStep
<1>3. ASSUME NEW C \in SUBSET Channels, CHAN_ABORT(C)
      PROVE  Inv(dma', {}) /\ CountStep(dma, dma')
  BY <1>3, AbortStep DEF CHAN_ABORT
<1>4. ASSUME NEW d \in Dreqs, Request(d)
      PROVE  Inv(dma', {}) /\ CountStep(dma, dma')
  <2>1. CASE dma' = setDREQ(dma, d)
    <3>1. Inv(dma', {}) /\ dma'.chan = dma.chan
      BY <2>1, SetDREQFacts
    <3> QED
      BY <3>1 DEF CountStep
  <2>2. CASE dma' = clearDREQ(dma, d)
    <3>1. Inv(dma', {}) /\ dma'.chan = dma.chan
      BY <2>2, ClearDREQFacts
    <3> QED
      BY <3>1 DEF CountStep
  <2> QED
    BY <1>4, <2>1, <2>2 DEF Request
<1>5. CASE \E c \in Channels : Fire(c)
  BY <1>5, FireStep
<1>6. CASE \E c \in Channels : Elapse(c)
  BY <1>6, ElapseStep
<1>7. ASSUME \/ \E C \in SUBSET Channels : INTR(C)
             \/ \E i \in Irqs, C \in Masks : INTE(i, C) \/ INTF(i, C)
             \/ \E q \in Timers, runs \in BOOLEAN : WriteTIMER(q, runs)
      PROVE  Inv(dma', {}) /\ CountStep(dma, dma')
  <2>0. dma \in State /\ Lines(dma) /\ Masks \subseteq SUBSET Channels
    BY DEF Inv, DMAAssumption
  <2> DEFINE Goal == /\ dma' \in State /\ Lines(dma')
                     /\ dma'.chan = dma.chan /\ dma'.due = dma.due
                     /\ dma'.later = dma.later /\ dma'.dreq = dma.dreq
  <2>1. ASSUME NEW C \in SUBSET Channels, INTR(C)
        PROVE  Goal
    BY <2>0, <2>1 DEF INTR, checkInterrupts, State, Lines, intStatus
  <2>2. ASSUME NEW i \in Irqs, NEW C \in Masks, INTE(i, C) \/ INTF(i, C)
        PROVE  Goal
    <3>1. CASE INTE(i, C)
      BY <2>0, <3>1 DEF INTE, checkInterrupts, State, Lines, intStatus
    <3>2. CASE INTF(i, C)
      BY <2>0, <3>2 DEF INTF, checkInterrupts, State, Lines, intStatus
    <3> QED
      BY <2>2, <3>1, <3>2
  <2>3. ASSUME NEW q \in Timers, NEW runs \in BOOLEAN, WriteTIMER(q, runs)
        PROVE  Goal
    BY <2>0, <2>3 DEF WriteTIMER, State, Lines, intStatus
  <2>4. Goal
    BY <1>7, <2>1, <2>2, <2>3
  <2> QED
    BY <2>4, OtherStep
<1>8. CASE UNCHANGED dma
  BY <1>8 DEF CountStep
<1> QED
  BY <1>1, <1>2, <1>3, <1>4, <1>5, <1>6, <1>7, <1>8
     DEF Next, CPUWrite, Progress, TickBegin, TickEnd, vars

\* The inductive invariant: nobody is exempt between two steps.
DMAInv == Inv(dma, {})

LEMMA Invariance == Spec => []DMAInv
<1>1. Init => DMAInv
  BY InitInv, DMAAssumption DEF DMAInv
<1>2. DMAInv /\ [Next]_vars => DMAInv'
  BY StepInv DEF DMAInv
<1> QED
  BY <1>1, <1>2, PTL DEF Spec

-----------------------------------------------------------------------------
TickingOK == ticking \in BOOLEAN

\* The fields stay in range: no count falls below -1, whatever is paused,
\* aborted or rewritten in the middle of a block.
THEOREM DMATypeOK == Spec => []TypeOK
<1>1. Init => TickingOK
  BY DEF Init, TickingOK
<1>2. TickingOK /\ [Next]_vars => TickingOK'
  BY DEF TickingOK, Next, CPUWrite, Progress, WriteChannel, MULTI_CHAN_TRIGGER, CHAN_ABORT, INTR,
         INTE, INTF, WriteTIMER, Request, TickBegin, Fire, Elapse, TickEnd, vars
<1>3. DMAInv /\ TickingOK => TypeOK
  <2> SUFFICES ASSUME DMAInv, TickingOK
               PROVE  TypeOK
    OBVIOUS
  <2>1. dma \in State /\ dma.due \cap dma.later = {}
    BY DEF DMAInv, Inv
  <2>2. \A c \in Channels : dma.chan[c] \in Channel
    BY <2>1 DEF State
  <2>3. \A k \in Channel :
          [EN |-> k.EN, IRQ_QUIET |-> k.IRQ_QUIET,
           treq |-> k.treq, chainTo |-> k.chainTo] \in Control
    BY DEF Channel, Control
  <2>4. Armed(dma) \subseteq Channels
    BY <2>1 DEF Armed, State
  <2> QED
    BY <2>1, <2>2, <2>3, <2>4 DEF TypeOK, State, Channel, TickingOK
<1> QED
  BY <1>1, <1>2, <1>3, Invariance, PTL DEF Spec

\* However requests, control writes and triggers interleave, a channel that may
\* move an item has its alarm in the clock's list.
THEOREM DMANoLostRequest == Spec => []NoLostRequest
<1>1. DMAInv => NoLostRequest
  BY DEF DMAInv, Inv, Settled, Waiting, NoLostRequest
<1> QED
  BY <1>1, Invariance, PTL

\* A channel that is disabled or idle has no alarm in the clock's list.
THEOREM DMAArmedIsActive == Spec => []ArmedIsActive
<1>1. DMAInv => ArmedIsActive
  BY DEF DMAInv, Inv, ArmedIsActive
<1> QED
  BY <1>1, Invariance, PTL

\* The lines to the cores are the masked and forced status.
THEOREM DMALinesFollowStatus == Spec => []LinesFollowStatus
<1>1. DMAInv => LinesFollowStatus
  BY DEF DMAInv, Inv, Lines, LinesFollowStatus
<1> QED
  BY <1>1, Invariance, PTL

\* A busy channel counts down one at a time, and no block is begun twice.
THEOREM DMACountsDown == Spec => CountsDown
<1>1. DMAInv /\ [Next]_vars =>
        [\A c \in Channels :
           LET k == dma.chan[c]
               n == dma'.chan[c].count
           IN n # k.count =>
                IF k.BUSY
                  THEN n = k.count - 1 \/ (k.count <= 1 /\ k.mode = 1 /\ n = k.reload)
                  ELSE dma'.chan[c].BUSY /\ n = dma'.chan[c].reload]_dma
  BY StepInv DEF CountStep, DMAInv
<1> QED
  BY <1>1, Invariance, PTL DEF Spec, CountsDown
=============================================================================
