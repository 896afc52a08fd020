----------------------------- MODULE MCChip_proofs -----------------------------
(***************************************************************************)
(* What the cores of a chip share.  Reservations: no increment is lost,    *)
(* for any words, any counts and any interleaving of the two cores and     *)
(* their handlers, as long as handlers use no AMOADD.W.  Pins: listeners   *)
(* and the interrupt of the bank follow every change, for any pins,        *)
(* overrides, enables and forced causes; and the two cores of an RP2040    *)
(* lose no write to the registers they share.  Bus: every store lands and  *)
(* no copy of memory outlives it, for any bytes.  Daemon: every request is *)
(* executed once, and commands given one after the other are served, for   *)
(* any number of commands, daemons and crashes.                            *)
(***************************************************************************)
EXTENDS MCChip, SequenceTheorems, WellFoundedInduction, TLAPS

-----------------------------------------------------------------------------
(* The reservations *)

Count == 0 .. M - 1
Load == {NoLoad} \cup (Words \X Count)

\* A program, or a program and a handler on top of it.
Loads == {<<p>> : p \in Load} \cup {<<p, h>> : p, h \in Load}

TypeOK == amo \in [mem : [Words -> Count], done : [Words -> Count],
                   lr_addr : [Core -> Int], loaded : [Core -> Loads]]

\* Two cores never hold a reservation on one granule: each LR.W takes it.
OneReservation == \A c \in Core : amo.lr_addr[c] = NoReservation \/ amo.lr_addr[c] # amo.lr_addr[other(c)]

\* What a core loaded last: a handler that has loaded nothing leaves that to the
\* program it interrupted.
Latest(c) == IF Top(c) # NoLoad THEN Top(c) ELSE amo.loaded[c][1]

\* While a core has the granule reserved, what it loaded last is still there.
ReservedIsCurrent ==
  \A c \in Core : \A w \in Words, v \in Count :
    Latest(c) = <<w, v>> /\ amo.lr_addr[c] = Granule(w) => amo.mem[w] = v

IInv == TypeOK /\ NoLostIncrement /\ OneReservation /\ ReservedIsCurrent

-----------------------------------------------------------------------------

\* A core has loaded nothing or a word, in the program or in a handler on top of it.
LEMMA LoadsFacts ==
  ASSUME TypeOK, NEW c \in Core
  PROVE  \/ \E p \in Load : amo.loaded[c] = <<p>> /\ Top(c) = p /\ ~InHandler(c) /\ Latest(c) = p
         \/ \E p, h \in Load : /\ amo.loaded[c] = <<p, h>> /\ Top(c) = h /\ InHandler(c)
                              /\ Latest(c) = IF h # NoLoad THEN h ELSE p
<1>1. amo.loaded[c] \in Loads
  BY DEF TypeOK
<1>2. CASE \E p \in Load : amo.loaded[c] = <<p>>
  BY <1>2 DEF Top, InHandler, Latest
<1>3. CASE \E p, h \in Load : amo.loaded[c] = <<p, h>>
  BY <1>3 DEF Top, InHandler, Latest
<1> QED  BY <1>1, <1>2, <1>3 DEF Loads

\* Initially nothing is loaded and nothing reserved.
THEOREM ReservationsInit == Init => IInv
<1> SUFFICES ASSUME Init PROVE IInv
  OBVIOUS
<1> USE ReservationsAssumption
<1>1. TypeOK
  <2>1. 0 \in Count /\ NoReservation \in Int
    BY DEF Count, NoReservation
  <2>2. <<NoLoad>> \in Loads
    BY DEF Load, Loads
  <2> QED  BY <2>1, <2>2 DEF Init, TypeOK
<1>2. NoLostIncrement
  BY DEF Init, NoLostIncrement
<1>3. OneReservation
  BY DEF Init, OneReservation
<1>4. ReservedIsCurrent
  <2> SUFFICES ASSUME NEW c \in Core, NEW w \in Words, NEW v \in Count
               PROVE  Latest(c) # <<w, v>>
    BY DEF ReservedIsCurrent
  <2>1. Latest(c) = NoLoad
    BY DEF Init, Latest, Top
  <2> QED  BY <2>1 DEF NoLoad
<1> QED  BY <1>1, <1>2, <1>3, <1>4 DEF IInv

\* The core loads or is done with what it loaded; whatever was below stays.
LEMMA SetTopFacts ==
  ASSUME TypeOK, NEW c \in Core, NEW load \in Load
  PROVE  /\ SetTop(c, load) \in [Core -> Loads]
         /\ \A d \in Core : d # c => SetTop(c, load)[d] = amo.loaded[d]
         /\ \/ SetTop(c, load)[c] = <<load>> /\ ~InHandler(c)
            \/ \E p \in Load : SetTop(c, load)[c] = <<p, load>> /\ InHandler(c) /\ amo.loaded[c][1] = p
<1>1. amo.loaded \in [Core -> Loads]
  BY DEF TypeOK
<1>2. SetTop(c, load) = [amo.loaded EXCEPT ![c] = [amo.loaded[c] EXCEPT ![Len(amo.loaded[c])] = load]]
  BY <1>1 DEF SetTop
<1>3. CASE \E p \in Load : amo.loaded[c] = <<p>>
  <2>1. [amo.loaded[c] EXCEPT ![Len(amo.loaded[c])] = load] = <<load>> /\ ~InHandler(c)
    BY <1>3 DEF InHandler
  <2> QED  BY <1>1, <1>2, <2>1 DEF Loads
<1>4. CASE \E p, h \in Load : amo.loaded[c] = <<p, h>>
  <2>1. PICK p \in Load, h \in Load : amo.loaded[c] = <<p, h>>
    BY <1>4
  <2>2. [amo.loaded[c] EXCEPT ![Len(amo.loaded[c])] = load] = <<p, load>> /\ InHandler(c) /\ amo.loaded[c][1] = p
    BY <2>1 DEF InHandler
  <2> QED  BY <1>1, <1>2, <2>2 DEF Loads
<1> QED  BY <1>1, <1>3, <1>4 DEF Loads

LEMMA GranuleFacts ==
  ASSUME NEW w \in Words
  PROVE  Granule(w) \in Int /\ Granule(w) # NoReservation
<1>1. w \in Nat /\ w \div 16 \in Nat
  BY ReservationsAssumption
<1> QED  BY <1>1 DEF Granule, NoReservation

LEMMA CoreFacts == \A c \in Core : other(c) \in Core /\ other(c) # c /\ \A d \in Core : d = c \/ d = other(c)
BY DEF Core, other

\* invalidateLrReservation takes the reservation of core c on the granule of w.
LEMMA InvalidateFacts ==
  ASSUME NEW lr \in [Core -> Int], NEW c \in Core, NEW w \in Words
  PROVE  LET new == invalidateLrReservation(lr, c, w)
         IN  /\ new \in [Core -> Int]
             /\ new[other(c)] = lr[other(c)]
             /\ new[c] # Granule(w)
             /\ new[c] \in {lr[c], NoReservation}
<1>1. NoReservation \in Int
  BY DEF NoReservation
<1> QED  BY <1>1, CoreFacts, GranuleFacts DEF invalidateLrReservation

\* A core that loaded nothing new and was not returned to keeps what it loaded last.
LEMMA LatestStays ==
  ASSUME NEW c \in Core, amo'.loaded[c] = amo.loaded[c]
  PROVE  Latest(c)' = Latest(c)
BY DEF Latest, Top

\* LR.W: what it reserves it has just read.
LEMMA LoadReserved ==
  ASSUME IInv, NEW c \in Core, NEW w \in Words, LR_W(c, w)
  PROVE  IInv'
<1> DEFINE load == <<w, amo.mem[w]>>
<1>1. TypeOK /\ NoLostIncrement /\ OneReservation /\ ReservedIsCurrent
  BY DEF IInv
<1>2. load \in Load /\ load # NoLoad
  BY <1>1 DEF TypeOK, Load, NoLoad
<1>3. /\ amo' = [amo EXCEPT !.loaded = SetTop(c, load), !.lr_addr = Reserve(c, w)]
      /\ amo'.mem = amo.mem /\ amo'.done = amo.done
      /\ amo'.loaded = SetTop(c, load) /\ amo'.lr_addr = Reserve(c, w)
  BY <1>1 DEF LR_W, TypeOK
<1>4. /\ Reserve(c, w) \in [Core -> Int]
      /\ Reserve(c, w)[c] = Granule(w)
      /\ Reserve(c, w)[other(c)] # Granule(w)
      /\ Reserve(c, w)[other(c)] \in {amo.lr_addr[other(c)], NoReservation}
  <2>1. /\ [amo.lr_addr EXCEPT ![c] = Granule(w)] \in [Core -> Int]
        /\ [amo.lr_addr EXCEPT ![c] = Granule(w)][c] = Granule(w)
        /\ [amo.lr_addr EXCEPT ![c] = Granule(w)][other(c)] = amo.lr_addr[other(c)]
    BY <1>1, CoreFacts, GranuleFacts DEF TypeOK
  <2>2. other(other(c)) = c
    BY DEF Core, other
  <2> QED  BY <2>1, <2>2, CoreFacts, InvalidateFacts, SMTT(30) DEF Reserve
<1>5. /\ SetTop(c, load) \in [Core -> Loads]
      /\ SetTop(c, load)[other(c)] = amo.loaded[other(c)]
      /\ SetTop(c, load)[c] = <<load>> \/ \E p \in Load : SetTop(c, load)[c] = <<p, load>>
  <2> HIDE DEF load
  <2>1. /\ SetTop(c, load) \in [Core -> Loads]
        /\ \A d \in Core : d # c => SetTop(c, load)[d] = amo.loaded[d]
        /\ SetTop(c, load)[c] = <<load>> \/ \E p \in Load : SetTop(c, load)[c] = <<p, load>>
    BY <1>1, <1>2, SetTopFacts
  <2> QED  BY <2>1, CoreFacts
<1>6. TypeOK'
  BY <1>1, <1>3, <1>4, <1>5 DEF TypeOK
<1>7. NoLostIncrement'
  BY <1>1, <1>3 DEF NoLostIncrement
<1>8. OneReservation'
  <2>1. amo'.lr_addr[other(c)] # amo'.lr_addr[c]
    BY <1>3, <1>4
  <2>2. other(other(c)) = c
    BY DEF Core, other
  <2> QED  BY <2>1, <2>2, CoreFacts DEF OneReservation
<1>9. ReservedIsCurrent'
  <2>1. Latest(c)' = load
    <3> HIDE DEF load
    <3>1. CASE amo'.loaded[c] = <<load>>
      BY <3>1 DEF Latest, Top
    <3>2. CASE \E p \in Load : amo'.loaded[c] = <<p, load>>
      BY <1>2, <3>2 DEF Latest, Top
    <3> QED  BY <1>3, <1>5, <3>1, <3>2
  <2>2. Latest(other(c))' = Latest(other(c))
    BY <1>3, <1>5, CoreFacts, LatestStays
  <2>3. ASSUME NEW x \in Words, NEW v \in Count, Latest(c)' = <<x, v>>
        PROVE  amo'.mem[x] = v
    <3>1. <<w, amo.mem[w]>> = <<x, v>>
      BY <2>1, <2>3
    <3>2. w = x /\ amo.mem[w] = v
      BY <3>1
    <3> QED  BY <1>3, <3>2
  <2>4. ASSUME NEW x \in Words, NEW v \in Count,
               Latest(other(c))' = <<x, v>>, amo'.lr_addr[other(c)] = Granule(x)
        PROVE  amo'.mem[x] = v
    <3>1. amo.lr_addr[other(c)] = Granule(x)
      BY <1>3, <1>4, <2>4, GranuleFacts
    <3>2. Latest(other(c)) = <<x, v>>
      BY <2>2, <2>4
    <3>3. amo.mem[x] = v
      BY <1>1, <3>1, <3>2, CoreFacts DEF ReservedIsCurrent
    <3> QED  BY <1>3, <3>3
  <2> QED  BY <2>3, <2>4, CoreFacts DEF ReservedIsCurrent
<1> QED  BY <1>6, <1>7, <1>8, <1>9 DEF IInv

\* SC.W: it stores only if what it loaded is still there, and then the other core
\* has no reservation on that granule.
LEMMA StoreConditional ==
  ASSUME IInv, NEW c \in Core, SC_W(c)
  PROVE  IInv'
<1>1. TypeOK /\ NoLostIncrement /\ OneReservation /\ ReservedIsCurrent
  BY DEF IInv
<1>2. NoLoad \in Load
  BY DEF Load
<1>3. /\ SetTop(c, NoLoad) \in [Core -> Loads]
      /\ SetTop(c, NoLoad)[other(c)] = amo.loaded[other(c)]
  BY <1>1, <1>2, SetTopFacts, CoreFacts
<1>4. amo.mem \in [Words -> Count] /\ amo.done \in [Words -> Count] /\ amo.lr_addr \in [Core -> Int]
  BY <1>1 DEF TypeOK
<1>5. NoReservation \in Int
  BY DEF NoReservation
<1>6. PICK w \in Words, v \in Count : Top(c) = <<w, v>> /\ Latest(c) = <<w, v>>
  <2>1. Top(c) \in Load /\ Latest(c) = Top(c)
    BY <1>1, LoadsFacts DEF SC_W, Latest
  <2> QED  BY <2>1 DEF SC_W, Load
<1>7. Top(c)[1] = w /\ Top(c)[2] = v
  BY <1>6
<1>8. CASE amo.lr_addr[c] = Granule(w)
  <2> DEFINE new == (v + 1) % M
  <2>1. amo.mem[w] = v /\ amo.done[w] = v
    BY <1>1, <1>6, <1>8 DEF ReservedIsCurrent, NoLostIncrement
  <2>2. new \in Count
    BY ReservationsAssumption DEF Count
  <2>3. /\ amo' = [mem |-> [amo.mem EXCEPT ![w] = new], done |-> [amo.done EXCEPT ![w] = new],
                   lr_addr |-> [amo.lr_addr EXCEPT ![c] = NoReservation], loaded |-> SetTop(c, NoLoad)]
    BY <1>1, <1>7, <1>8, <2>1 DEF SC_W, Stored, TypeOK
  <2> HIDE DEF new
  <2>4. TypeOK'
    BY <1>3, <1>4, <1>5, <2>2, <2>3 DEF TypeOK
  <2>5. NoLostIncrement'
    BY <1>1, <1>4, <2>3 DEF NoLostIncrement
  <2>6. OneReservation'
    BY <1>1, <1>4, <2>3, CoreFacts DEF OneReservation
  <2>7. ReservedIsCurrent'
    <3>1. Latest(other(c))' = Latest(other(c))
      BY <1>3, <2>3, CoreFacts, LatestStays
    <3>2. amo'.lr_addr[c] = NoReservation /\ amo'.lr_addr[other(c)] = amo.lr_addr[other(c)]
      BY <1>4, <2>3, CoreFacts
    <3>3. amo.lr_addr[other(c)] # Granule(w)
      BY <1>1, <1>8, GranuleFacts DEF OneReservation
    <3>4. ASSUME NEW x \in Words, NEW y \in Count,
                 Latest(other(c))' = <<x, y>>, amo'.lr_addr[other(c)] = Granule(x)
          PROVE  amo'.mem[x] = y
      <4>1. x # w
        BY <3>2, <3>3, <3>4
      <4>2. Latest(other(c)) = <<x, y>> /\ amo.lr_addr[other(c)] = Granule(x)
        BY <3>1, <3>2, <3>4
      <4>3. amo.mem[x] = y
        BY <1>1, <4>2, CoreFacts DEF ReservedIsCurrent
      <4> QED  BY <1>4, <2>3, <4>1, <4>3
    <3> QED  BY <3>2, <3>4, CoreFacts, GranuleFacts DEF ReservedIsCurrent
  <2> QED  BY <2>4, <2>5, <2>6, <2>7 DEF IInv
<1>9. CASE amo.lr_addr[c] # Granule(w)
  <2>1. amo' = [mem |-> amo.mem, done |-> amo.done,
                lr_addr |-> [amo.lr_addr EXCEPT ![c] = NoReservation], loaded |-> SetTop(c, NoLoad)]
    BY <1>1, <1>7, <1>9 DEF SC_W, TypeOK
  <2>2. TypeOK'
    BY <1>3, <1>4, <1>5, <2>1 DEF TypeOK
  <2>3. NoLostIncrement'
    BY <1>1, <2>1 DEF NoLostIncrement
  <2>4. OneReservation'
    BY <1>1, <1>4, <2>1, CoreFacts DEF OneReservation
  <2>5. ReservedIsCurrent'
    <3>1. Latest(other(c))' = Latest(other(c))
      BY <1>3, <2>1, CoreFacts, LatestStays
    <3>2. /\ amo'.lr_addr[c] = NoReservation /\ amo'.lr_addr[other(c)] = amo.lr_addr[other(c)]
          /\ amo'.mem = amo.mem
      BY <1>4, <2>1, CoreFacts
    <3> QED  BY <1>1, <3>1, <3>2, CoreFacts, GranuleFacts DEF ReservedIsCurrent
  <2> QED  BY <2>2, <2>3, <2>4, <2>5 DEF IInv
<1> QED  BY <1>8, <1>9

\* AMOADD.W: the other core loses its reservation on the granule, and the core has
\* loaded nothing, unless a handler did it.
LEMMA Add ==
  ASSUME ~AmoInHandler, IInv, NEW c \in Core, NEW w \in Words, AMOADD_W(c, w)
  PROVE  IInv'
<1> DEFINE new == (amo.mem[w] + 1) % M
           lr == invalidateLrReservation(amo.lr_addr, other(c), w)
<1>1. TypeOK /\ NoLostIncrement /\ OneReservation /\ ReservedIsCurrent
  BY DEF IInv
<1>2. amo.mem \in [Words -> Count] /\ amo.done \in [Words -> Count] /\ amo.lr_addr \in [Core -> Int]
  BY <1>1 DEF TypeOK
<1>3. new \in Count
  <2>1. amo.mem[w] \in Nat
    BY <1>2 DEF Count
  <2> QED  BY <2>1, ReservationsAssumption DEF Count
<1>4. amo.done[w] = amo.mem[w]
  BY <1>1 DEF NoLostIncrement
<1>5. /\ lr \in [Core -> Int]
      /\ lr[c] = amo.lr_addr[c]
      /\ lr[other(c)] # Granule(w)
      /\ lr[other(c)] \in {amo.lr_addr[other(c)], NoReservation}
  <2>1. other(other(c)) = c
    BY DEF Core, other
  <2> QED  BY <1>2, <2>1, CoreFacts, InvalidateFacts
<1>6. amo' = [mem |-> [amo.mem EXCEPT ![w] = new], done |-> [amo.done EXCEPT ![w] = new],
              lr_addr |-> lr, loaded |-> amo.loaded]
  BY <1>1, <1>4 DEF AMOADD_W, TypeOK
<1> HIDE DEF new, lr
<1>7. TypeOK'
  BY <1>1, <1>2, <1>3, <1>5, <1>6 DEF TypeOK
<1>8. NoLostIncrement'
  BY <1>1, <1>2, <1>6 DEF NoLostIncrement
<1>9. OneReservation'
  BY <1>1, <1>5, <1>6, CoreFacts DEF OneReservation
<1>10. ReservedIsCurrent'
  <2>1. \A d \in Core : Latest(d)' = Latest(d)
    BY <1>6, LatestStays
  <2>2. Latest(c) = NoLoad
    BY <1>1, LoadsFacts DEF AMOADD_W
  <2>3. ASSUME NEW x \in Words, NEW y \in Count,
               Latest(other(c))' = <<x, y>>, amo'.lr_addr[other(c)] = Granule(x)
        PROVE  amo'.mem[x] = y
    <3>1. x # w /\ amo.lr_addr[other(c)] = Granule(x)
      BY <1>5, <1>6, <2>3, GranuleFacts
    <3>2. Latest(other(c)) = <<x, y>>
      BY <2>1, <2>3, CoreFacts
    <3>3. amo.mem[x] = y
      BY <1>1, <3>1, <3>2, CoreFacts DEF ReservedIsCurrent
    <3> QED  BY <1>2, <1>6, <3>1, <3>3
  <2>4. \A x \in Words, y \in Count : Latest(c)' # <<x, y>>
    <3>1. Latest(c)' = << >>
      BY <2>1, <2>2 DEF NoLoad
    <3>2. \A x, y : << >> # <<x, y>>
      OBVIOUS
    <3> QED  BY <3>1, <3>2
  <2> QED  BY <2>3, <2>4, CoreFacts DEF ReservedIsCurrent
<1> QED  BY <1>7, <1>8, <1>9, <1>10 DEF IInv

\* What a core has loaded changes, and nothing else: the invariant holds if no core
\* has a load that it did not have.
LEMMA OnlyLoads ==
  ASSUME IInv, NEW loads \in [Core -> Loads], amo' = [amo EXCEPT !.loaded = loads],
         \A c \in Core : Latest(c)' \in {Latest(c), NoLoad}
  PROVE  IInv'
<1>1. TypeOK /\ NoLostIncrement /\ OneReservation /\ ReservedIsCurrent
  BY DEF IInv
<1>2. amo' = [mem |-> amo.mem, done |-> amo.done, lr_addr |-> amo.lr_addr, loaded |-> loads]
  BY <1>1 DEF TypeOK
<1>3. TypeOK' /\ NoLostIncrement' /\ OneReservation'
  BY <1>1, <1>2 DEF TypeOK, NoLostIncrement, OneReservation
<1>4. ReservedIsCurrent'
  <2>1. ASSUME NEW c \in Core, NEW x \in Words, NEW y \in Count,
               Latest(c)' = <<x, y>>, amo'.lr_addr[c] = Granule(x)
        PROVE  amo'.mem[x] = y
    <3>1. Latest(c) = <<x, y>>
      BY <2>1 DEF NoLoad
    <3> QED  BY <1>1, <1>2, <2>1, <3>1 DEF ReservedIsCurrent
  <2> QED  BY <2>1 DEF ReservedIsCurrent
<1> QED  BY <1>3, <1>4 DEF IInv

\* An interrupt is taken: the handler has loaded nothing.
LEMMA Interrupted ==
  ASSUME IInv, NEW c \in Core, Interrupt(c)
  PROVE  IInv'
<1>1. TypeOK /\ amo.loaded \in [Core -> Loads]
  BY DEF IInv, TypeOK
<1>2. PICK p \in Load : amo.loaded[c] = <<p>> /\ Latest(c) = p
  BY <1>1, LoadsFacts DEF Interrupt
<1> DEFINE loads == [amo.loaded EXCEPT ![c] = <<p, NoLoad>>]
<1>3. amo' = [amo EXCEPT !.loaded = loads]
  BY <1>1, <1>2 DEF Interrupt, TypeOK
<1>4. loads \in [Core -> Loads]
  BY <1>1, <1>2 DEF Load, Loads
<1>5. amo'.loaded = loads
  BY <1>1, <1>3 DEF TypeOK
<1>6. Latest(c)' = p
  BY <1>1, <1>5 DEF Latest, Top
<1>7. ASSUME NEW d \in Core, d # c PROVE Latest(d)' = Latest(d)
  BY <1>1, <1>5, <1>7, LatestStays
<1> QED  BY <1>2, <1>3, <1>4, <1>6, <1>7, OnlyLoads

\* A handler returns when it has stored what it loaded.
LEMMA Returned ==
  ASSUME IInv, NEW c \in Core, Return(c)
  PROVE  IInv'
<1>1. TypeOK /\ amo.loaded \in [Core -> Loads]
  BY DEF IInv, TypeOK
<1>2. PICK p \in Load : amo.loaded[c] = <<p, NoLoad>> /\ Latest(c) = p
  BY <1>1, LoadsFacts DEF Return
<1> DEFINE loads == [amo.loaded EXCEPT ![c] = <<p>>]
<1>3. amo' = [amo EXCEPT !.loaded = loads]
  BY <1>1, <1>2 DEF Return, TypeOK
<1>4. loads \in [Core -> Loads]
  BY <1>1, <1>2 DEF Loads
<1>5. amo'.loaded = loads
  BY <1>1, <1>3 DEF TypeOK
<1>6. Latest(c)' = p
  BY <1>1, <1>5 DEF Latest, Top
<1>7. ASSUME NEW d \in Core, d # c PROVE Latest(d)' = Latest(d)
  BY <1>1, <1>5, <1>7, LatestStays
<1> QED  BY <1>2, <1>3, <1>4, <1>6, <1>7, OnlyLoads

\* The cores start over, with the reservations they had.
LEMMA StartedOver ==
  ASSUME IInv, Reset
  PROVE  IInv'
<1> DEFINE loads == [c \in Core |-> <<NoLoad>>]
<1>1. loads \in [Core -> Loads]
  BY DEF Load, Loads
<1>2. amo' = [amo EXCEPT !.loaded = loads] /\ amo'.loaded = loads
  BY DEF Reset, IInv, TypeOK
<1>3. \A c \in Core : Latest(c)' = NoLoad
  BY <1>2 DEF Latest, Top
<1> QED  BY <1>1, <1>2, <1>3, OnlyLoads

-----------------------------------------------------------------------------

\* The inductive invariant, step by step.
THEOREM ReservationsNext == ASSUME ~AmoInHandler PROVE IInv /\ [Next]_amo => IInv'
<1> SUFFICES ASSUME IInv, [Next]_amo PROVE IInv'
  OBVIOUS
<1>1. ASSUME NEW c \in Core, SC_W(c) PROVE IInv'
  BY <1>1, StoreConditional
<1>2. ASSUME NEW c \in Core, Interrupt(c) PROVE IInv'
  BY <1>2, Interrupted
<1>3. ASSUME NEW c \in Core, Return(c) PROVE IInv'
  BY <1>3, Returned
<1>4. ASSUME NEW c \in Core, NEW w \in Words, LR_W(c, w) PROVE IInv'
  BY <1>4, LoadReserved
<1>5. ASSUME NEW c \in Core, NEW w \in Words, AMOADD_W(c, w) PROVE IInv'
  BY <1>5, Add
<1>6. CASE Reset
  BY <1>6, StartedOver
<1>7. CASE UNCHANGED amo
  BY <1>7 DEF IInv, TypeOK, NoLostIncrement, OneReservation, ReservedIsCurrent, Latest, Top
<1> QED  BY <1>1, <1>2, <1>3, <1>4, <1>5, <1>6, <1>7 DEF Next

\* Words and counts of any size, cores and handlers in any order, resets: each
\* increment that reports success is in the word, as long as handlers of interrupts
\* use LR.W and SC.W only (execAmo of src/riscv/cpu.ts).
THEOREM ReservationsNoLostIncrement == ASSUME ~AmoInHandler PROVE Spec => []NoLostIncrement
<1>1. Init => IInv
  BY ReservationsInit
<1>2. IInv /\ [Next]_amo => IInv'
  BY ReservationsNext
<1>3. IInv => NoLostIncrement
  BY DEF IInv
<1> QED  BY <1>1, <1>2, <1>3, PTL DEF Spec

\* Two cores never hold a reservation on one granule (LR.W in execAmo).
THEOREM ReservationsOneReservation == ASSUME ~AmoInHandler PROVE Spec => []OneReservation
<1>1. Init => IInv
  BY ReservationsInit
<1>2. IInv /\ [Next]_amo => IInv'
  BY ReservationsNext
<1>3. IInv => OneReservation
  BY DEF IInv
<1> QED  BY <1>1, <1>2, <1>3, PTL DEF Spec

-----------------------------------------------------------------------------
(* The pins *)

Levels == {"High", "Low", "InputPullDown", "InputPullUp", "Input"}
Causes == {"EdgeHigh", "EdgeLow", "LevelHigh", "LevelLow"}
Settings == Overrides \cup {0}
Pin == [function : GP!Functions, outover : Settings, oeover : Settings, inover : Settings,
        irqover : {0}, ie : BOOLEAN, pull : GP!Pulls, raw : BOOLEAN, last : Levels,
        status : SUBSET Causes, enable : Enables \cup {{}}, force : Forces \cup {{}}]
Outputs == [GP!Blocks -> SUBSET Pins]
IoBank == [pin : [Pins -> Pin], out : Outputs, oe : Outputs,
           old : [out : SUBSET Pins, oe : SUBSET Pins], line : BOOLEAN]

\* What ListenersTold and LevelsExclude say of one pin.
Told(s, p) == \/ s.pin[p].last = GP!Value(s, p)
              \/ s.pin[p].last = "Input" /\ GP!Value(s, p) = "InputPullDown"
OneLevel(pin) == ~({"LevelHigh", "LevelLow"} \subseteq pin.status)

\* The interrupt of a pin without an override.
Interrupts(pin) == (pin.status \cap pin.enable) \cup pin.force # {}
LineRight(s) == s.line = (\E p \in Pins : Interrupts(s.pin[p]))

\* At the end of a cycle of the PIO its outputs are those of its last check.
PioChecked(s) == s.old.out = s.out["pio"] /\ s.old.oe = s.oe["pio"]

IoRight(s) ==
  /\ s \in IoBank /\ LineRight(s) /\ PioChecked(s)
  /\ \A p \in Pins : Told(s, p) /\ OneLevel(s.pin[p])

\* Without an override a pin interrupts when it has an enabled or a forced cause.
LEMMA IrqValueIs ==
  ASSUME NEW pin \in Pin
  PROVE  GP!irqValue(pin) = Interrupts(pin)
<1>1. pin.irqover = 0 BY DEF Pin
<1> QED BY <1>1 DEF GP!irqValue, GP!applyOverride, GP!rawInterrupt, Interrupts

\* A pin has one of five levels.
LEMMA ValueIs ==
  ASSUME NEW s, NEW p
  PROVE  GP!Value(s, p) \in Levels
BY DEF GP!Value, Levels

\* The value of a pin depends on what its block drives and on its registers.
SameSettings(x, y) ==
  y.function = x.function /\ y.outover = x.outover /\ y.oeover = x.oeover /\ y.pull = x.pull

\* A pin whose settings stay, and what drives it, keeps its value.
LEMMA SameValue ==
  ASSUME NEW s, NEW t, NEW p, SameSettings(s.pin[p], t.pin[p]),
         s.pin[p].function \in GP!Functions,
         \A b \in GP!Blocks : (p \in t.out[b]) = (p \in s.out[b]) /\ (p \in t.oe[b]) = (p \in s.oe[b])
  PROVE  GP!Value(t, p) = GP!Value(s, p)
<1> DEFINE f == s.pin[p].function
<1>1. t.pin[p].function = f BY DEF SameSettings
<1>2. f # "null" => f \in GP!Blocks BY DEF GP!Blocks
<1>3. GP!gpioRawOutputValue(t, p) = GP!gpioRawOutputValue(s, p)
  <2>1. CASE f = "null" BY <1>1, <2>1 DEF GP!gpioRawOutputValue
  <2>2. CASE f # "null" BY <1>1, <1>2, <2>2 DEF GP!gpioRawOutputValue
  <2> QED BY <2>1, <2>2
<1>4. GP!gpioRawOutputEnable(t, p) = GP!gpioRawOutputEnable(s, p)
  <2>1. CASE f = "null" BY <1>1, <2>1 DEF GP!gpioRawOutputEnable
  <2>2. CASE f # "null" BY <1>1, <1>2, <2>2 DEF GP!gpioRawOutputEnable
  <2> QED BY <2>1, <2>2
<1>5. GP!outputValue(t, p) = GP!outputValue(s, p)
  BY <1>3 DEF GP!outputValue, SameSettings
<1>6. GP!outputEnable(t, p) = GP!outputEnable(s, p)
  BY <1>4 DEF GP!outputEnable, SameSettings
<1> QED BY <1>5, <1>6 DEF GP!Value, SameSettings

\* checkForUpdates tells the pins it is asked to.
LEMMA UpdatesTold ==
  ASSUME NEW s \in IoBank, NEW ps, \A p \in Pins \ ps : Told(s, p), LineRight(s),
         \A p \in Pins : OneLevel(s.pin[p])
  PROVE  LET t == GP!checkForUpdates(s, ps)
         IN  /\ t \in IoBank /\ LineRight(t) /\ \A p \in Pins : Told(t, p) /\ OneLevel(t.pin[p])
             /\ t.out = s.out /\ t.oe = s.oe /\ t.old = s.old /\ t.line = s.line
             /\ \A p \in Pins : /\ t.pin[p].ie = s.pin[p].ie /\ t.pin[p].raw = s.pin[p].raw
                                /\ t.pin[p].status = s.pin[p].status
<1> DEFINE pins == [p \in Pins |-> IF p \in ps THEN [s.pin[p] EXCEPT !.last = GP!Value(s, p)]
                                   ELSE s.pin[p]]
           t == GP!checkForUpdates(s, ps)
<1>1. t = [s EXCEPT !.pin = pins] BY DEF GP!checkForUpdates
<1>2. \A p \in Pins : s.pin[p] \in Pin BY DEF IoBank
<1>3. ASSUME NEW p \in Pins
      PROVE  /\ pins[p] \in Pin /\ SameSettings(s.pin[p], pins[p])
             /\ pins[p].status = s.pin[p].status /\ pins[p].enable = s.pin[p].enable
             /\ pins[p].force = s.pin[p].force /\ pins[p].ie = s.pin[p].ie
             /\ pins[p].raw = s.pin[p].raw
             /\ pins[p].last = IF p \in ps THEN GP!Value(s, p) ELSE s.pin[p].last
  <2> DEFINE v == GP!Value(s, p)
  <2>1. v \in Levels BY ValueIs
  <2>2. pins[p] = IF p \in ps THEN [s.pin[p] EXCEPT !.last = v] ELSE s.pin[p] OBVIOUS
  <2>3. s.pin[p] \in Pin BY <1>2
  <2> HIDE DEF v, pins
  <2>4. CASE p \in ps BY <2>1, <2>2, <2>3, <2>4 DEF Pin, SameSettings, v
  <2>5. CASE p \notin ps BY <2>2, <2>3, <2>5 DEF SameSettings
  <2> QED BY <2>4, <2>5
<1>4. pins \in [Pins -> Pin] BY <1>3
<1> HIDE DEF pins, t
<1>5. t \in IoBank /\ t.out = s.out /\ t.oe = s.oe /\ t.old = s.old /\ t.line = s.line
  BY <1>1, <1>4 DEF IoBank
<1>6. t.pin = pins BY <1>1 DEF IoBank
<1>7. LineRight(t)
  <2>1. \A p \in Pins : Interrupts(pins[p]) = Interrupts(s.pin[p]) BY <1>3 DEF Interrupts
  <2> QED BY <1>5, <1>6, <2>1 DEF LineRight
<1>8. ASSUME NEW p \in Pins PROVE Told(t, p) /\ OneLevel(t.pin[p])
  <2>1. s.pin[p].function \in GP!Functions BY <1>2 DEF Pin
  <2>2. GP!Value(t, p) = GP!Value(s, p) BY <1>3, <1>5, <1>6, <2>1, SameValue
  <2>3. Told(t, p) BY <1>3, <1>6, <2>2 DEF Told
  <2>4. OneLevel(t.pin[p]) BY <1>3, <1>6 DEF OneLevel
  <2> QED BY <2>3, <2>4
<1> QED BY <1>3, <1>5, <1>6, <1>7, <1>8 DEF t

\* updateIOInterrupt makes the line what the pins ask for.
LEMMA LineUpdated ==
  ASSUME NEW s \in IoBank, PioChecked(s), \A p \in Pins : Told(s, p) /\ OneLevel(s.pin[p])
  PROVE  IoRight(GP!updateIOInterrupt(s))
<1> DEFINE asks == \E p \in Pins : GP!irqValue(s.pin[p])
           t == GP!updateIOInterrupt(s)
<1>1. t = [s EXCEPT !.line = asks] BY DEF GP!updateIOInterrupt
<1>2. asks = (\E p \in Pins : Interrupts(s.pin[p]))
  <2>1. \A p \in Pins : GP!irqValue(s.pin[p]) = Interrupts(s.pin[p]) BY IrqValueIs DEF IoBank
  <2> QED BY <2>1
<1>3. asks \in BOOLEAN OBVIOUS
<1> HIDE DEF asks, t
<1>4. t \in IoBank /\ t.pin = s.pin /\ t.out = s.out /\ t.oe = s.oe /\ t.old = s.old
      /\ t.line = asks
  BY <1>1, <1>3 DEF IoBank
<1>5. LineRight(t) BY <1>2, <1>4 DEF LineRight
<1>6. PioChecked(t) BY <1>4 DEF PioChecked
<1>7. ASSUME NEW p \in Pins PROVE Told(t, p) /\ OneLevel(t.pin[p])
  <2>1. GP!Value(t, p) = GP!Value(s, p)
    <3>1. s.pin[p].function \in GP!Functions BY DEF IoBank, Pin
    <3> QED BY <1>4, <3>1, SameValue DEF SameSettings
  <2> QED BY <1>4, <2>1 DEF Told
<1> QED BY <1>4, <1>5, <1>6, <1>7 DEF IoRight, t

\* One pin takes new settings and is told.
LEMMA PinChanged ==
  ASSUME NEW s, IoRight(s), NEW q \in Pins, NEW x \in Pin, NEW t \in IoBank,
         x.status = s.pin[q].status /\ x.enable = s.pin[q].enable /\ x.force = s.pin[q].force,
         t.pin = [p \in Pins |-> IF p = q THEN x ELSE s.pin[p]],
         t.out = s.out, t.oe = s.oe, t.old = s.old, t.line = s.line
  PROVE  LET u == GP!checkForUpdates(t, {q})
         IN  IoRight(u) /\ u.pin[q].raw = x.raw
<1>1. \A p \in Pins : Interrupts(t.pin[p]) = Interrupts(s.pin[p]) BY DEF Interrupts
<1>2. LineRight(t) BY <1>1 DEF IoRight, LineRight
<1>3. \A p \in Pins : OneLevel(t.pin[p]) BY DEF OneLevel, IoRight
<1>4. ASSUME NEW p \in Pins \ {q} PROVE Told(t, p)
  <2>1. t.pin[p] = s.pin[p] OBVIOUS
  <2>2. s.pin[p].function \in GP!Functions BY DEF IoRight, IoBank, Pin
  <2>3. GP!Value(t, p) = GP!Value(s, p) BY <2>1, <2>2, SameValue DEF SameSettings
  <2> QED BY <2>1, <2>3 DEF Told, IoRight
<1> DEFINE u == GP!checkForUpdates(t, {q})
<1>5. /\ u \in IoBank /\ LineRight(u) /\ \A p \in Pins : Told(u, p) /\ OneLevel(u.pin[p])
      /\ u.out = t.out /\ u.oe = t.oe /\ u.old = t.old
      /\ \A p \in Pins : u.pin[p].raw = t.pin[p].raw
  BY <1>2, <1>3, <1>4, UpdatesTold
<1> HIDE DEF u
<1>6. PioChecked(u) BY <1>5 DEF IoRight, PioChecked
<1> QED BY <1>5, <1>6 DEF IoRight, u

\* Blocks drive other outputs, and the pins where that shows are told.
LEMMA OutputsChanged ==
  ASSUME NEW s, IoRight(s), NEW ps, NEW t \in IoBank, t.pin = s.pin, t.line = s.line,
         \A p \in Pins \ ps, b \in GP!Blocks :
            (p \in t.out[b]) = (p \in s.out[b]) /\ (p \in t.oe[b]) = (p \in s.oe[b]),
         PioChecked(t)
  PROVE  IoRight(GP!checkForUpdates(t, ps))
<1>1. LineRight(t) BY DEF IoRight, LineRight
<1>2. \A p \in Pins : OneLevel(t.pin[p]) BY DEF IoRight
<1>3. ASSUME NEW p \in Pins \ ps PROVE Told(t, p)
  <2>1. s.pin[p].function \in GP!Functions BY DEF IoRight, IoBank, Pin
  <2>2. GP!Value(t, p) = GP!Value(s, p) BY <2>1, SameValue DEF SameSettings
  <2> QED BY <2>2 DEF Told, IoRight
<1> DEFINE u == GP!checkForUpdates(t, ps)
<1>4. /\ u \in IoBank /\ LineRight(u) /\ \A p \in Pins : Told(u, p) /\ OneLevel(u.pin[p])
      /\ u.out = t.out /\ u.oe = t.oe /\ u.old = t.old
  BY <1>1, <1>2, <1>3, UpdatesTold
<1> HIDE DEF u
<1>5. PioChecked(u) BY <1>4 DEF PioChecked
<1> QED BY <1>4, <1>5 DEF IoRight, u

\* The fields of CTRL, and what they leave alone.
Controlled(old, f, out, oe, in) ==
  [old EXCEPT !.function = f, !.outover = out, !.oeover = oe, !.inover = in, !.irqover = 0]
Uncontrolled(old, x) == x.status = old.status /\ x.enable = old.enable /\ x.force = old.force

LEMMA ControlSet ==
  ASSUME NEW old \in Pin, NEW f \in GP!Functions, NEW out \in Settings, NEW oe \in Settings,
         NEW in \in Settings
  PROVE  /\ Controlled(old, f, out, oe, in) \in Pin
         /\ Uncontrolled(old, Controlled(old, f, out, oe, in))
<1> DEFINE x == Controlled(old, f, out, oe, in)
<1>1. Uncontrolled(old, x)
  BY DEF Pin, Controlled, Uncontrolled
<1> DEFINE y == [old EXCEPT !.function = f, !.outover = out]
<1>2. y \in Pin BY DEF Pin
<1> HIDE DEF y
<1> DEFINE z == [y EXCEPT !.oeover = oe, !.inover = in]
<1>3. z \in Pin BY <1>2 DEF Pin
<1>4. x = [z EXCEPT !.irqover = 0] BY DEF y, Controlled
<1> HIDE DEF x, z
<1>5. x \in Pin BY <1>3, <1>4 DEF Pin
<1> QED BY <1>1, <1>5 DEF x

\* CTRL selects the block that drives a pin and the overrides: the pin is told.
LEMMA CTRLStep ==
  ASSUME IoRight(io), NEW p \in Pins, NEW f \in GP!Functions, NEW out \in Settings, NEW oe \in Settings,
         NEW in \in Settings, GP!WriteCTRL(p, f, out, oe, in, 0)
  PROVE  IoRight(io')
<1> DEFINE x == [io.pin[p] EXCEPT !.function = f, !.outover = out, !.oeover = oe,
                                  !.inover = in, !.irqover = 0]
           pins == [q \in Pins |-> IF q = p THEN x ELSE io.pin[q]]
           t == [io EXCEPT !.pin = pins]
<1>1. io \in IoBank /\ io.pin \in [Pins -> Pin] BY DEF IoRight, IoBank
<1>2. x \in Pin /\ Uncontrolled(io.pin[p], x)
  <2>1. x = Controlled(io.pin[p], f, out, oe, in) BY DEF Controlled
  <2>2. io.pin[p] \in Pin BY <1>1
  <2> QED BY <2>1, <2>2, ControlSet
<1>3. io' = GP!checkForUpdates(t, {p})
  <2>1. [io EXCEPT !.pin[p] = [@ EXCEPT !.function = f, !.outover = out, !.oeover = oe,
                                        !.inover = in, !.irqover = 0]] = t
    BY <1>1 DEF IoBank
  <2> QED BY <2>1 DEF GP!WriteCTRL
<1> HIDE DEF x
<1>4. pins \in [Pins -> Pin] BY <1>1, <1>2
<1>5. t \in IoBank /\ t.pin = pins /\ t.out = io.out /\ t.oe = io.oe /\ t.old = io.old
      /\ t.line = io.line
  <2> HIDE DEF pins
  <2> QED BY <1>1, <1>4 DEF IoBank
<1> HIDE DEF t
<1> QED BY <1>2, <1>3, <1>5, PinChanged DEF Uncontrolled

\* An input sets one of the two levels and clears the other.
LEMMA StatusSet ==
  ASSUME NEW pin \in Pin, NEW v \in BOOLEAN
  PROVE  LET x == GP!SetStatus(pin, v)
         IN  /\ x \in Pin /\ OneLevel(x) /\ SameSettings(pin, x) /\ x.last = pin.last
             /\ x.enable = pin.enable /\ x.force = pin.force
<1> DEFINE x == GP!SetStatus(pin, v)
           high == (pin.status \cup {"EdgeHigh", "LevelHigh"}) \ {"LevelLow"}
           low == (pin.status \cup {"EdgeLow", "LevelLow"}) \ {"LevelHigh"}
<1>1. x = [pin EXCEPT !.raw = v, !.status = high] \/ x = [pin EXCEPT !.raw = v, !.status = low]
  BY DEF GP!SetStatus
<1>2. high \in SUBSET Causes /\ low \in SUBSET Causes BY DEF Pin, Causes
<1>3. ~({"LevelHigh", "LevelLow"} \subseteq high) /\ ~({"LevelHigh", "LevelLow"} \subseteq low)
  OBVIOUS
<1> HIDE DEF high, low, x
<1>4. x \in Pin /\ x.status \in {high, low} BY <1>1, <1>2 DEF Pin
<1>5. SameSettings(pin, x) /\ x.last = pin.last /\ x.enable = pin.enable /\ x.force = pin.force
  BY <1>1 DEF Pin, SameSettings
<1> QED BY <1>3, <1>4, <1>5 DEF OneLevel, x

\* A host drives a pin, or a pad lets through what it drives.
LEMMA InputSet ==
  ASSUME NEW s, IoRight(s), NEW p, p \in Pins, NEW v \in BOOLEAN
  PROVE  IoRight(GP!setInputValue(s, p, v))
<1> DEFINE x == GP!SetStatus(s.pin[p], v)
           pins == [q \in Pins |-> IF q = p THEN x ELSE s.pin[q]]
           t == [s EXCEPT !.pin = pins]
<1>1. s \in IoBank /\ s.pin \in [Pins -> Pin] BY DEF IoRight, IoBank
<1>2. /\ x \in Pin /\ OneLevel(x) /\ SameSettings(s.pin[p], x) /\ x.last = s.pin[p].last
  BY <1>1, StatusSet
<1>3. [s EXCEPT !.pin[p] = GP!SetStatus(@, v)] = t BY <1>1 DEF IoBank
<1>4. GP!setInputValue(s, p, v) = IF GP!irqValue(t.pin[p]) # GP!irqValue(s.pin[p])
                                  THEN GP!updateIOInterrupt(t) ELSE t
  BY <1>3 DEF GP!setInputValue
<1> HIDE DEF x
<1>5. pins \in [Pins -> Pin] BY <1>1, <1>2
<1>6. t \in IoBank /\ t.pin = pins /\ t.out = s.out /\ t.oe = s.oe /\ t.old = s.old
      /\ t.line = s.line
  <2> HIDE DEF pins
  <2> QED BY <1>1, <1>5 DEF IoBank
<1> HIDE DEF t
<1>7. PioChecked(t) BY <1>6 DEF PioChecked, IoRight
<1>8. ASSUME NEW q \in Pins PROVE Told(t, q) /\ OneLevel(t.pin[q])
  <2>1. SameSettings(s.pin[q], t.pin[q]) /\ t.pin[q].last = s.pin[q].last
    BY <1>2, <1>6 DEF SameSettings
  <2>2. s.pin[q].function \in GP!Functions BY <1>1 DEF Pin
  <2>3. GP!Value(t, q) = GP!Value(s, q) BY <1>6, <2>1, <2>2, SameValue
  <2>4. OneLevel(t.pin[q]) BY <1>2, <1>6 DEF IoRight
  <2> QED BY <2>1, <2>3, <2>4 DEF Told, IoRight
<1>9. CASE GP!irqValue(t.pin[p]) # GP!irqValue(s.pin[p])
  BY <1>4, <1>6, <1>7, <1>8, <1>9, LineUpdated
<1>10. CASE GP!irqValue(t.pin[p]) = GP!irqValue(s.pin[p])
  <2>1. Interrupts(t.pin[p]) = Interrupts(s.pin[p]) BY <1>1, <1>5, <1>6, <1>10, IrqValueIs
  <2>2. \A q \in Pins : Interrupts(t.pin[q]) = Interrupts(s.pin[q]) BY <1>6, <2>1
  <2>3. LineRight(t) BY <1>6, <2>2 DEF LineRight, IoRight
  <2> QED BY <1>4, <1>6, <1>7, <1>8, <1>10, <2>3 DEF IoRight
<1> QED BY <1>9, <1>10

\* A pad is set: its pull is told, and an input that it lets through or stops.
LEMMA PADStep ==
  ASSUME IoRight(io), NEW p \in Pins, NEW ie \in BOOLEAN, NEW pull \in GP!Pulls,
         GP!WritePAD(p, ie, pull)
  PROVE  IoRight(io')
<1> DEFINE x == [io.pin[p] EXCEPT !.ie = ie, !.pull = pull]
           pins == [q \in Pins |-> IF q = p THEN x ELSE io.pin[q]]
           t == [io EXCEPT !.pin = pins]
           u == GP!checkForUpdates(t, {p})
<1>1. io \in IoBank /\ io.pin \in [Pins -> Pin] BY DEF IoRight, IoBank
<1>2. /\ x \in Pin /\ x.status = io.pin[p].status
      /\ x.enable = io.pin[p].enable /\ x.force = io.pin[p].force /\ x.raw \in BOOLEAN
  BY <1>1 DEF Pin
<1>3. [io EXCEPT !.pin[p] = [@ EXCEPT !.ie = ie, !.pull = pull]] = t BY <1>1 DEF IoBank
<1>4. io' = IF ie # io.pin[p].ie THEN GP!refreshInput(u, p) ELSE u BY <1>3 DEF GP!WritePAD
<1> HIDE DEF x
<1>5. pins \in [Pins -> Pin] BY <1>1, <1>2
<1>6. t \in IoBank /\ t.pin = pins /\ t.out = io.out /\ t.oe = io.oe /\ t.old = io.old
      /\ t.line = io.line
  <2> HIDE DEF pins
  <2> QED BY <1>1, <1>5 DEF IoBank
<1> HIDE DEF t
<1>7. IoRight(u) /\ u.pin[p].raw = x.raw BY <1>2, <1>6, PinChanged
<1> HIDE DEF u
<1>8. CASE ie = io.pin[p].ie BY <1>4, <1>7, <1>8
<1>9. CASE ie # io.pin[p].ie
  <2>1. u.pin[p].raw \in BOOLEAN BY <1>2, <1>7, <1>9
  <2>2. io' = GP!setInputValue(u, p, u.pin[p].raw) BY <1>4, <1>9 DEF GP!refreshInput
  <2> QED BY <1>7, <1>9, <2>1, <2>2, InputSet
<1> QED BY <1>8, <1>9

\* A block drives other outputs or directions.
Drive(s, b, o, e) == [s EXCEPT !.out[b] = o, !.oe[b] = e]
PinSets == SUBSET Pins

Drove(s, t, b, o, e) ==
  /\ t \in IoBank /\ t.pin = s.pin /\ t.line = s.line /\ t.old = s.old
  /\ t.out[b] = o /\ t.oe[b] = e
  /\ \A c \in GP!Blocks \ {b} : t.out[c] = s.out[c] /\ t.oe[c] = s.oe[c]

\* Nothing else changes.
LEMMA OutputsSet ==
  ASSUME NEW s \in IoBank, NEW b \in GP!Blocks, NEW o \in PinSets, NEW e \in PinSets
  PROVE  Drove(s, Drive(s, b, o, e), b, o, e)
<1> DEFINE outs == [s.out EXCEPT ![b] = o]
           oes == [s.oe EXCEPT ![b] = e]
           t == Drive(s, b, o, e)
<1>1. outs \in Outputs /\ outs[b] = o /\ \A c \in GP!Blocks \ {b} : outs[c] = s.out[c]
  BY DEF IoBank, Outputs, PinSets
<1>2. oes \in Outputs /\ oes[b] = e /\ \A c \in GP!Blocks \ {b} : oes[c] = s.oe[c]
  BY DEF IoBank, Outputs, PinSets
<1>3. t = [s EXCEPT !.out = outs, !.oe = oes] BY DEF Drive
<1> HIDE DEF outs, oes, t
<1>4. t \in IoBank /\ t.pin = s.pin /\ t.line = s.line /\ t.old = s.old
      /\ t.out = outs /\ t.oe = oes
  BY <1>1, <1>2, <1>3 DEF IoBank
<1> QED BY <1>1, <1>2, <1>4 DEF t, Drove

\* The SIO registers tell every pin whose output or direction changed.
LEMMA SIOStep ==
  ASSUME IoRight(io), NEW r \in {"GPIO_OUT", "GPIO_OE"}, NEW op \in {"put", "set", "clr", "xor"},
         NEW m \in SUBSET Pins, GP!WriteSIO(r, op, m)
  PROVE  IoRight(io')
<1>1. io \in IoBank BY DEF IoRight
<1>2. "sio" \in GP!Blocks /\ "pio" \in GP!Blocks \ {"sio"} BY DEF GP!Blocks, GP!Functions
<1>3. io.out["sio"] \in SUBSET Pins /\ io.oe["sio"] \in SUBSET Pins
  BY <1>1, <1>2 DEF IoBank, Outputs
<1>4. \A x \in SUBSET Pins : GP!Write(x, op, m) \in SUBSET Pins BY DEF GP!Write
<1> DEFINE o == IF r = "GPIO_OUT" THEN GP!Write(io.out["sio"], op, m) ELSE io.out["sio"]
           e == IF r = "GPIO_OUT" THEN io.oe["sio"] ELSE GP!Write(io.oe["sio"], op, m)
           t == [io EXCEPT !.out["sio"] = o, !.oe["sio"] = e]
           ps == GP!pinsToUpdate(io, t)
<1>5. o \in PinSets /\ e \in PinSets BY <1>3, <1>4 DEF PinSets
<1>6. io' = GP!checkForUpdates(t, ps)
  <2> DEFINE v == GP!Write(io.out["sio"], op, m)
             w == GP!Write(io.oe["sio"], op, m)
  <2>1. CASE r = "GPIO_OUT"
    <3>1. t = [io EXCEPT !.out["sio"] = v]
      <4>1. o = v /\ e = io.oe["sio"] BY <2>1
      <4>2. [io.oe EXCEPT !["sio"] = io.oe["sio"]] = io.oe BY <1>1, <1>2 DEF IoBank, Outputs
      <4> HIDE DEF v, o, e
      <4> QED BY <1>1, <4>1, <4>2 DEF IoBank
    <3> QED BY <2>1, <3>1 DEF GP!WriteSIO
  <2>2. CASE r # "GPIO_OUT"
    <3>1. t = [io EXCEPT !.oe["sio"] = w]
      <4>1. e = w /\ o = io.out["sio"] BY <2>2
      <4>2. [io.out EXCEPT !["sio"] = io.out["sio"]] = io.out BY <1>1, <1>2 DEF IoBank, Outputs
      <4> HIDE DEF w, o, e
      <4> QED BY <1>1, <4>1, <4>2 DEF IoBank
    <3> QED BY <2>2, <3>1 DEF GP!WriteSIO
  <2> QED BY <2>1, <2>2
<1>10. t = Drive(io, "sio", o, e) BY DEF Drive
<1> HIDE DEF o, e, t
<1>7. /\ t \in IoBank /\ t.pin = io.pin /\ t.line = io.line /\ t.old = io.old
      /\ t.out["sio"] = o /\ t.oe["sio"] = e
      /\ \A c \in GP!Blocks \ {"sio"} : t.out[c] = io.out[c] /\ t.oe[c] = io.oe[c]
  <2>1. Drove(io, Drive(io, "sio", o, e), "sio", o, e) BY <1>1, <1>2, <1>5, OutputsSet
  <2>2. Drove(io, t, "sio", o, e) BY <1>10, <2>1
  <2> QED BY <2>2 DEF Drove
<1>8. ASSUME NEW p \in Pins \ ps, NEW b \in GP!Blocks
      PROVE  (p \in t.out[b]) = (p \in io.out[b]) /\ (p \in t.oe[b]) = (p \in io.oe[b])
  <2>1. CASE b = "sio" BY <2>1 DEF GP!pinsToUpdate, GP!Changed
  <2>2. CASE b # "sio" BY <1>7, <2>2
  <2> QED BY <2>1, <2>2
<1>9. PioChecked(t) BY <1>2, <1>7 DEF PioChecked, IoRight
<1> HIDE DEF ps
<1> QED BY <1>6, <1>7, <1>8, <1>9, OutputsChanged

\* The PWM tells the pin it drives.
LEMMA PWMStep ==
  ASSUME IoRight(io), NEW q \in Pins, NEW v \in BOOLEAN, NEW d \in BOOLEAN, GP!PWMOutput(q, v, d)
  PROVE  IoRight(io')
<1>1. io \in IoBank BY DEF IoRight
<1>2. "pwm" \in GP!Blocks /\ "pio" \in GP!Blocks \ {"pwm"} BY DEF GP!Blocks, GP!Functions
<1> DEFINE o == IF v THEN io.out["pwm"] \cup {q} ELSE io.out["pwm"] \ {q}
           e == IF d THEN io.oe["pwm"] \cup {q} ELSE io.oe["pwm"] \ {q}
           t == [io EXCEPT !.out["pwm"] = o, !.oe["pwm"] = e]
<1>4. io' = IF t.out # io.out \/ t.oe # io.oe THEN GP!checkForUpdates(t, {q}) ELSE t
  BY DEF GP!PWMOutput
<1>5. \A p \in Pins \ {q} : (p \in o) = (p \in io.out["pwm"]) /\ (p \in e) = (p \in io.oe["pwm"])
  OBVIOUS
<1>3. o \in PinSets /\ e \in PinSets
  <2>1. io.out["pwm"] \in SUBSET Pins /\ io.oe["pwm"] \in SUBSET Pins
    BY <1>1, <1>2 DEF IoBank, Outputs
  <2> QED BY <2>1 DEF PinSets
<1>11. t = Drive(io, "pwm", o, e) BY DEF Drive
<1> HIDE DEF o, e, t
<1>6. /\ t \in IoBank /\ t.pin = io.pin /\ t.line = io.line /\ t.old = io.old
      /\ t.out["pwm"] = o /\ t.oe["pwm"] = e
      /\ \A c \in GP!Blocks \ {"pwm"} : t.out[c] = io.out[c] /\ t.oe[c] = io.oe[c]
  <2>1. Drove(io, Drive(io, "pwm", o, e), "pwm", o, e) BY <1>1, <1>2, <1>3, OutputsSet
  <2>2. Drove(io, t, "pwm", o, e) BY <1>11, <2>1
  <2> QED BY <2>2 DEF Drove
<1>7. ASSUME NEW p \in Pins \ {q}, NEW b \in GP!Blocks
      PROVE  (p \in t.out[b]) = (p \in io.out[b]) /\ (p \in t.oe[b]) = (p \in io.oe[b])
  BY <1>5, <1>6
<1>8. PioChecked(t) BY <1>2, <1>6 DEF PioChecked, IoRight
<1>9. CASE t.out # io.out \/ t.oe # io.oe BY <1>4, <1>6, <1>7, <1>8, <1>9, OutputsChanged
<1>10. CASE t.out = io.out /\ t.oe = io.oe
  <2>1. t = io BY <1>1, <1>6, <1>10 DEF IoBank
  <2> QED BY <1>4, <1>10, <2>1
<1> QED BY <1>9, <1>10

\* The PIO tells, after a cycle, every pin that changed since the last.
LEMMA PIOStepped ==
  ASSUME IoRight(io), NEW o \in PinSets, NEW e \in PinSets, GP!PIOStep(o, e)
  PROVE  IoRight(io')
<1>1. io \in IoBank BY DEF IoRight
<1>2. "pio" \in GP!Blocks BY DEF GP!Blocks, GP!Functions
<1> DEFINE u == [io EXCEPT !.out["pio"] = o, !.oe["pio"] = e]
           t == [u EXCEPT !.old = [out |-> o, oe |-> e]]
           ps == GP!Changed(io.old.out, o) \cup GP!Changed(io.old.oe, e)
<1>8. u = Drive(io, "pio", o, e) BY DEF Drive
<1>9. GP!PIOStep(o, e) => io' = GP!checkChangedPins(u) BY DEF GP!PIOStep
<1> HIDE DEF u
<1>3. /\ u \in IoBank /\ u.pin = io.pin /\ u.line = io.line /\ u.old = io.old
      /\ u.out["pio"] = o /\ u.oe["pio"] = e
      /\ \A c \in GP!Blocks \ {"pio"} : u.out[c] = io.out[c] /\ u.oe[c] = io.oe[c]
  <2>1. Drove(io, Drive(io, "pio", o, e), "pio", o, e) BY <1>1, <1>2, OutputsSet
  <2>2. Drove(io, u, "pio", o, e) BY <1>8, <2>1
  <2> QED BY <2>2 DEF Drove
<1>4. io' = GP!checkForUpdates(t, ps)
  <2>1. io' = GP!checkChangedPins(u) BY <1>9
  <2> QED BY <1>3, <2>1 DEF GP!checkChangedPins
<1>5. /\ t \in IoBank /\ t.pin = u.pin /\ t.line = u.line /\ t.out = u.out /\ t.oe = u.oe
      /\ t.old.out = o /\ t.old.oe = e
  BY <1>3 DEF IoBank, PinSets
<1> HIDE DEF t
<1>6. ASSUME NEW p \in Pins \ ps, NEW b \in GP!Blocks
      PROVE  (p \in t.out[b]) = (p \in io.out[b]) /\ (p \in t.oe[b]) = (p \in io.oe[b])
  <2>1. CASE b = "pio"
    <3>1. io.old.out = io.out["pio"] /\ io.old.oe = io.oe["pio"] BY DEF IoRight, PioChecked
    <3>2. t.out["pio"] = o /\ t.oe["pio"] = e BY <1>3, <1>5
    <3>3. p \notin GP!Changed(io.old.out, o) /\ p \notin GP!Changed(io.old.oe, e) OBVIOUS
    <3> QED BY <2>1, <3>1, <3>2, <3>3 DEF GP!Changed
  <2>2. CASE b # "pio" BY <1>3, <1>5, <2>2
  <2> QED BY <2>1, <2>2
<1>7. PioChecked(t) BY <1>3, <1>5 DEF PioChecked
<1> HIDE DEF ps
<1> QED BY <1>3, <1>4, <1>5, <1>6, <1>7, OutputsChanged

\* A register of enables or of forced causes is written.
LEMMA MasksWritten ==
  ASSUME NEW s, IoRight(s), NEW pins \in [Pins -> Pin], NEW t, t = [s EXCEPT !.pin = pins],
         \A p \in Pins : /\ SameSettings(s.pin[p], pins[p]) /\ pins[p].last = s.pin[p].last
                         /\ OneLevel(pins[p])
  PROVE  IoRight(GP!updateIOInterrupt(t))
<1>1. s \in IoBank BY DEF IoRight
<1>2. t \in IoBank /\ t.pin = pins /\ t.out = s.out /\ t.oe = s.oe /\ t.old = s.old
  BY <1>1 DEF IoBank
<1>3. PioChecked(t) BY <1>2 DEF PioChecked, IoRight
<1>4. ASSUME NEW q \in Pins PROVE Told(t, q) /\ OneLevel(t.pin[q])
  <2>1. s.pin[q].function \in GP!Functions BY <1>1 DEF IoBank, Pin
  <2>2. GP!Value(t, q) = GP!Value(s, q) BY <1>2, <2>1, SameValue
  <2> QED BY <1>2, <2>2 DEF Told, IoRight
<1> QED BY <1>2, <1>3, <1>4, LineUpdated

\* INTE: the line is computed when an enable changed.
LEMMA INTEStep ==
  ASSUME IoRight(io), NEW enable \in [Pins -> Enables], GP!WriteINTE(enable)
  PROVE  IoRight(io')
<1> DEFINE pins == [p \in Pins |-> [io.pin[p] EXCEPT !.enable = enable[p]]]
           t == [io EXCEPT !.pin = pins]
<1>1. io \in IoBank /\ io.pin \in [Pins -> Pin] BY DEF IoRight, IoBank
<1>2. io' = IF \E p \in Pins : enable[p] # io.pin[p].enable THEN GP!updateIOInterrupt(t) ELSE t
  BY DEF GP!WriteINTE
<1>3. ASSUME NEW p \in Pins
      PROVE  pins[p] \in Pin /\ SameSettings(io.pin[p], pins[p]) /\ pins[p].last = io.pin[p].last
             /\ pins[p].status = io.pin[p].status
             /\ (enable[p] = io.pin[p].enable => pins[p] = io.pin[p])
  BY <1>1 DEF Pin, SameSettings
<1>4. pins \in [Pins -> Pin] BY <1>3
<1>5. \A p \in Pins : OneLevel(pins[p]) BY <1>3 DEF OneLevel, IoRight
<1> HIDE DEF pins
<1>6. IoRight(GP!updateIOInterrupt(t)) BY <1>3, <1>4, <1>5, MasksWritten
<1>7. (\A p \in Pins : enable[p] = io.pin[p].enable) => t = io
  <2> SUFFICES ASSUME \A p \in Pins : enable[p] = io.pin[p].enable PROVE t = io OBVIOUS
  <2>1. pins = io.pin BY <1>1, <1>3, <1>4
  <2> QED BY <1>1, <2>1 DEF IoBank
<1> QED BY <1>2, <1>6, <1>7

\* INTF: the line is computed when a forced cause changed.
LEMMA INTFStep ==
  ASSUME IoRight(io), NEW force \in [Pins -> Forces], GP!WriteINTF(force)
  PROVE  IoRight(io')
<1> DEFINE pins == [p \in Pins |-> [io.pin[p] EXCEPT !.force = force[p]]]
           t == [io EXCEPT !.pin = pins]
<1>1. io \in IoBank /\ io.pin \in [Pins -> Pin] BY DEF IoRight, IoBank
<1>2. io' = IF \E p \in Pins : force[p] # io.pin[p].force THEN GP!updateIOInterrupt(t) ELSE t
  BY DEF GP!WriteINTF
<1>3. ASSUME NEW p \in Pins
      PROVE  pins[p] \in Pin /\ SameSettings(io.pin[p], pins[p]) /\ pins[p].last = io.pin[p].last
             /\ pins[p].status = io.pin[p].status
             /\ (force[p] = io.pin[p].force => pins[p] = io.pin[p])
  BY <1>1 DEF Pin, SameSettings
<1>4. pins \in [Pins -> Pin] BY <1>3
<1>5. \A p \in Pins : OneLevel(pins[p]) BY <1>3 DEF OneLevel, IoRight
<1> HIDE DEF pins
<1>6. IoRight(GP!updateIOInterrupt(t)) BY <1>3, <1>4, <1>5, MasksWritten
<1>7. (\A p \in Pins : force[p] = io.pin[p].force) => t = io
  <2> SUFFICES ASSUME \A p \in Pins : force[p] = io.pin[p].force PROVE t = io OBVIOUS
  <2>1. pins = io.pin BY <1>1, <1>3, <1>4
  <2> QED BY <1>1, <2>1 DEF IoBank
<1> QED BY <1>2, <1>6, <1>7

\* INTR: the line is computed when an edge was cleared.
LEMMA INTRStep ==
  ASSUME IoRight(io), NEW p \in Pins, NEW bits \in SUBSET {"EdgeLow", "EdgeHigh"},
         GP!WriteINTR(p, bits)
  PROVE  IoRight(io')
<1> DEFINE cleared == bits \cap io.pin[p].status \cap {"EdgeLow", "EdgeHigh"}
           x == [io.pin[p] EXCEPT !.status = @ \ cleared]
           pins == [q \in Pins |-> IF q = p THEN x ELSE io.pin[q]]
           t == [io EXCEPT !.pin = pins]
<1>1. io \in IoBank /\ io.pin \in [Pins -> Pin] BY DEF IoRight, IoBank
<1>2. [io EXCEPT !.pin[p].status = @ \ cleared] = t
  <2> HIDE DEF cleared
  <2> QED BY <1>1 DEF IoBank
<1>3. io' = IF cleared = {} THEN io ELSE GP!updateIOInterrupt(t)
  BY <1>2 DEF GP!WriteINTR, GP!updateIRQValue
<1>4. x \in Pin /\ SameSettings(io.pin[p], x) /\ x.last = io.pin[p].last
      /\ x.status \subseteq io.pin[p].status
  <2> HIDE DEF cleared
  <2> QED BY <1>1 DEF Pin, SameSettings
<1> HIDE DEF x, cleared
<1>5. pins \in [Pins -> Pin] BY <1>1, <1>4
<1>6. \A q \in Pins : /\ SameSettings(io.pin[q], pins[q]) /\ pins[q].last = io.pin[q].last
                      /\ OneLevel(pins[q])
  BY <1>4 DEF SameSettings, OneLevel, IoRight
<1> HIDE DEF pins
<1>7. IoRight(GP!updateIOInterrupt(t)) BY <1>5, <1>6, MasksWritten
<1> QED BY <1>3, <1>7

\* At reset no pin interrupts, and the pulled-down pins have not been told.
LEMMA IoInit == GP!Init => IoRight(io)
<1> SUFFICES ASSUME GP!Init PROVE IoRight(io) OBVIOUS
<1> DEFINE x == [function |-> "null", outover |-> 0, oeover |-> 0, inover |-> 0, irqover |-> 0,
                 ie |-> FALSE, pull |-> "down", raw |-> FALSE, last |-> "Input",
                 status |-> {}, enable |-> {}, force |-> {}]
<1>1. x \in Pin /\ x.status = {} /\ x.force = {} /\ x.function = "null" /\ x.oeover = 0
      /\ x.pull = "down" /\ x.last = "Input"
  BY DEF Pin, GP!Functions, GP!Pulls, Settings, Levels
<1> HIDE DEF x
<1> DEFINE pins == [p \in Pins |-> x]
           outs == [b \in GP!Blocks |-> {}]
           oes == [b \in GP!Blocks |-> IF b = "pwm" THEN Pins ELSE {}]
<1>2. io = [pin |-> pins, out |-> outs, oe |-> oes, old |-> [out |-> {}, oe |-> {}], line |-> FALSE]
  BY DEF GP!Init, x
<1>3. pins \in [Pins -> Pin] /\ \A p \in Pins : pins[p] = x BY <1>1
<1>4. outs \in Outputs /\ oes \in Outputs /\ outs["pio"] = {} /\ oes["pio"] = {}
  BY DEF Outputs, GP!Blocks, GP!Functions
<1> HIDE DEF pins, outs, oes
<1>5. io \in IoBank BY <1>2, <1>3, <1>4 DEF IoBank
<1>6. io.pin = pins /\ io.out = outs /\ io.oe = oes /\ io.line = FALSE
      /\ io.old.out = {} /\ io.old.oe = {}
  BY <1>2
<1>7. PioChecked(io) BY <1>4, <1>6 DEF PioChecked
<1>8. LineRight(io) BY <1>1, <1>3, <1>6 DEF LineRight, Interrupts
<1>9. ASSUME NEW p \in Pins PROVE Told(io, p) /\ OneLevel(io.pin[p])
  <2>1. io.pin[p] = x BY <1>3, <1>6
  <2>2. ~GP!outputEnable(io, p)
    <3>1. GP!gpioRawOutputEnable(io, p) = FALSE BY <1>1, <2>1 DEF GP!gpioRawOutputEnable
    <3>2. GP!outputEnable(io, p) = GP!applyOverride(FALSE, 0)
      BY <1>1, <2>1, <3>1 DEF GP!outputEnable
    <3> QED BY <3>2 DEF GP!applyOverride
  <2>3. GP!Value(io, p) = "InputPullDown" BY <1>1, <2>1, <2>2 DEF GP!Value
  <2> QED BY <1>1, <2>1, <2>3 DEF Told, OneLevel
<1> QED BY <1>5, <1>7, <1>8, <1>9 DEF IoRight

\* Whatever drives a pin.
LEMMA OutputsStepped == IoRight(io) /\ OutputStep => IoRight(io')
<1> SUFFICES ASSUME IoRight(io), OutputStep PROVE IoRight(io') OBVIOUS
<1>1. Driven \in Pins BY MCChipAssumption DEF MCChipAssumption
<1>2. 0 \in Settings /\ Overrides \subseteq Settings BY DEF Settings
<1>3. ASSUME NEW r \in {"GPIO_OUT", "GPIO_OE"}, NEW op \in {"put", "set", "clr", "xor"},
             NEW m \in SUBSET {Driven}, GP!WriteSIO(r, op, m)
      PROVE  IoRight(io')
  <2>1. m \in SUBSET Pins BY <1>1
  <2> QED BY <1>3, <2>1, SIOStep
<1>4. ASSUME NEW f \in GP!Functions, NEW out \in Overrides, NEW oe \in Overrides,
             GP!WriteCTRL(Driven, f, out, oe, 0, 0)
      PROVE  IoRight(io')
  <2>1. out \in Settings /\ oe \in Settings BY <1>2
  <2> QED BY <1>1, <1>2, <1>4, <2>1, CTRLStep
<1>5. ASSUME NEW pull \in GP!Pulls, GP!WritePAD(Driven, FALSE, pull) PROVE IoRight(io')
  BY <1>1, <1>5, PADStep
<1>6. ASSUME NEW v \in BOOLEAN, NEW o \in BOOLEAN, GP!PWMOutput(Driven, v, o) PROVE IoRight(io')
  BY <1>1, <1>6, PWMStep
<1>7. ASSUME NEW o \in SUBSET {Driven}, NEW e \in SUBSET {Driven}, GP!PIOStep(o, e)
      PROVE  IoRight(io')
  <2>1. o \in PinSets /\ e \in PinSets BY <1>1 DEF PinSets
  <2> QED BY <1>7, <2>1, PIOStepped
<1> QED BY <1>3, <1>4, <1>5, <1>6, <1>7 DEF OutputStep

\* Whatever a pin hears, and whichever interrupt it enables.
LEMMA InputsStepped == IoRight(io) /\ InputStep => IoRight(io')
<1> SUFFICES ASSUME IoRight(io), InputStep PROVE IoRight(io') OBVIOUS
<1>1. "null" \in GP!Functions /\ "none" \in GP!Pulls BY DEF GP!Functions, GP!Pulls
<1>2. 0 \in Settings /\ Overrides \subseteq Settings BY DEF Settings
<1>3. ASSUME NEW p \in Pins, NEW ie \in BOOLEAN, GP!WritePAD(p, ie, "none") PROVE IoRight(io')
  BY <1>1, <1>3, PADStep
<1>4. ASSUME NEW p \in Pins, NEW b \in SUBSET {"EdgeLow", "EdgeHigh"}, GP!WriteINTR(p, b)
      PROVE  IoRight(io')
  BY <1>4, INTRStep
<1>5. ASSUME NEW p \in Pins, NEW v \in BOOLEAN, GP!SetInput(p, v) PROVE IoRight(io')
  BY <1>5, InputSet DEF GP!SetInput
<1>6. ASSUME NEW p \in Pins, NEW in \in Overrides, GP!WriteCTRL(p, "null", 0, 0, in, 0)
      PROVE  IoRight(io')
  <2>1. in \in Settings BY <1>2
  <2> QED BY <1>1, <1>2, <1>6, <2>1, CTRLStep
<1>7. ASSUME NEW e \in [Pins -> Enables], GP!WriteINTE(e) PROVE IoRight(io')
  BY <1>7, INTEStep
<1>8. ASSUME NEW f \in [Pins -> Forces], GP!WriteINTF(f) PROVE IoRight(io')
  BY <1>8, INTFStep
<1> QED BY <1>3, <1>4, <1>5, <1>6, <1>7, <1>8 DEF InputStep

\* The three properties of the pins.
LEMMA IoFollows ==
  IoRight(io) => GP!ListenersTold /\ GP!BankLineFollowsPins /\ GP!LevelsExclude
<1> SUFFICES ASSUME IoRight(io) PROVE GP!ListenersTold /\ GP!BankLineFollowsPins /\ GP!LevelsExclude
  OBVIOUS
<1>1. GP!ListenersTold BY DEF IoRight, Told, GP!ListenersTold
<1>2. GP!LevelsExclude BY DEF IoRight, OneLevel, GP!LevelsExclude
<1>3. \A p \in Pins : GP!irqValue(io.pin[p]) = Interrupts(io.pin[p])
  <2>1. \A p \in Pins : io.pin[p] \in Pin BY DEF IoRight, IoBank
  <2> QED BY <2>1, IrqValueIs
<1>4. GP!BankLineFollowsPins BY <1>3 DEF IoRight, LineRight, GP!BankLineFollowsPins
<1> QED BY <1>1, <1>2, <1>4

-----------------------------------------------------------------------------

-----------------------------------------------------------------------------
(* The registers that the cores of an RP2040 share *)

Drivers == SUBSET SO!Core
Registers == [SO!Bank -> [SO!Field -> Drivers]]
Given == [SO!Core -> [SO!Field -> BOOLEAN]]
SioBank == [reg : Registers, spinLock : SUBSET {0, 31}, told : [SO!Field -> Drivers],
            bank : SO!Bank, way : SO!Way, at : [SO!Core -> {"idle", "locked", "read", "written"}],
            seen : [SO!Core -> Drivers], where : [SO!Core -> SO!Field], gave : Given]

\* A register holds what the cores gave their pins.
Kept(s) == \A b \in SO!Bank, f \in SO!Field, c \in SO!Core :
             (c \in s.reg[b][f]) = (b = s.bank /\ s.gave[c][f])

\* Who is past its claim holds the lock, and only one core is.
Locked(s) == \A c, d \in SO!Core : /\ s.at[c] # "idle" => SO!Guard \in s.spinLock /\ s.way = "locked"
                                   /\ s.at[c] # "idle" /\ s.at[d] # "idle" => c = d

\* What a core has read is still in the register.
SeenIsCurrent(s) == \A c \in SO!Core : s.at[c] = "read" => s.seen[c] = s.reg[s.bank][s.where[c]]

SioRight(s) == s \in SioBank /\ s.told = s.reg["gpio"] /\ Kept(s) /\ Locked(s) /\ SeenIsCurrent(s)

\* At reset the registers are empty and the locks free.
LEMMA SioInit == SO!Init => SioRight(io)
<1> SUFFICES ASSUME SO!Init PROVE SioRight(io) OBVIOUS
<1>1. PICK bank \in SO!Bank, way \in SO!Way :
        io = [reg |-> SO!Nothing, spinLock |-> {}, told |-> SO!Nothing["gpio"], bank |-> bank,
              way |-> way, at |-> [c \in SO!Core |-> "idle"], seen |-> [c \in SO!Core |-> {}],
              where |-> [c \in SO!Core |-> "value"],
              gave |-> [c \in SO!Core |-> [f \in SO!Field |-> FALSE]]]
  BY DEF SO!Init
<1>2. SO!Nothing \in Registers /\ "gpio" \in SO!Bank /\ "value" \in SO!Field
  BY DEF Registers, SO!Nothing, SO!Bank, SO!Field, Drivers
<1>3. SO!Nothing["gpio"] \in [SO!Field -> Drivers] BY <1>2 DEF Registers
<1>4. {} \in Drivers BY DEF Drivers
<1>5. [c \in SO!Core |-> [f \in SO!Field |-> FALSE]] \in Given BY DEF Given
<1>6. io \in SioBank BY <1>1, <1>2, <1>3, <1>4, <1>5 DEF SioBank
<1>7. io.told = io.reg["gpio"] BY <1>1
<1>8. Kept(io)
  <2>1. \A b \in SO!Bank, f \in SO!Field : io.reg[b][f] = {} BY <1>1 DEF SO!Nothing
  <2>2. \A c \in SO!Core, f \in SO!Field : io.gave[c][f] = FALSE BY <1>1
  <2> QED BY <2>1, <2>2 DEF Kept
<1>9. \A c \in SO!Core : io.at[c] = "idle" BY <1>1
<1> QED BY <1>6, <1>7, <1>8, <1>9 DEF SioRight, Locked, SeenIsCurrent

\* A register of the bank that the program uses is written, and with it what one core gives
\* its pin; the listeners hear of it.
Rewritten(s, t, c, f, on) ==
  /\ t \in SioBank /\ t.told = t.reg["gpio"]
  /\ \A b \in SO!Bank, g \in SO!Field, d \in SO!Core :
       /\ (d \in t.reg[b][g]) = IF b = s.bank /\ g = f /\ d = c THEN on ELSE d \in s.reg[b][g]
       /\ t.gave[d][g] = IF g = f /\ d = c THEN on ELSE s.gave[d][g]
  /\ t.spinLock = s.spinLock /\ t.bank = s.bank /\ t.way = s.way
  /\ t.at = s.at /\ t.seen = s.seen /\ t.where = s.where

Same(s, t) == /\ t.spinLock = s.spinLock /\ t.bank = s.bank /\ t.way = s.way
              /\ t.at = s.at /\ t.seen = s.seen /\ t.where = s.where

\* Core c gives its pin the level on in a register.
Puts(c, on, old, new) == new = IF on THEN old \cup {c} ELSE old \ {c}

\* writeUint32 on what a core gives its pin.
LEMMA WriteFacts ==
  ASSUME NEW s \in SioBank, s.told = s.reg["gpio"], NEW c \in SO!Core, NEW f \in SO!Field,
         NEW alias, NEW bits, NEW on \in BOOLEAN,
         Puts(c, on, s.reg[s.bank][f], SO!Written(s.reg[s.bank][f], alias, bits))
  PROVE  Rewritten(s, SO!Gave(SO!writeUint32(s, s.bank, f, alias, bits), c, f, on), c, f, on)
<1> DEFINE b == s.bank
           new == SO!Written(s.reg[b][f], alias, bits)
           row == [s.reg[b] EXCEPT ![f] = new]
           reg == [s.reg EXCEPT ![b] = row]
           pins == SO!PinsToUpdate(s.reg["gpio"], reg["gpio"])
           told == SO!checkForUpdates(s.told, reg["gpio"], pins)
           u == SO!writeUint32(s, b, f, alias, bits)
           given == [s.gave EXCEPT ![c] = [s.gave[c] EXCEPT ![f] = on]]
           t == SO!Gave(u, c, f, on)
<1>1. /\ s.reg \in Registers /\ b \in SO!Bank /\ s.gave \in Given /\ "gpio" \in SO!Bank
      /\ s.reg[b] \in [SO!Field -> Drivers] /\ s.reg[b][f] \in Drivers
  BY DEF SioBank, Registers, SO!Bank
<1>2. new \in Drivers /\ new = IF on THEN s.reg[b][f] \cup {c} ELSE s.reg[b][f] \ {c}
  BY <1>1 DEF Drivers, Puts
<1> HIDE DEF b, new
<1>3. row \in [SO!Field -> Drivers] /\ row[f] = new
      /\ \A g \in SO!Field \ {f} : row[g] = s.reg[b][g]
  BY <1>1, <1>2
<1> HIDE DEF row
<1>4. reg \in Registers /\ reg[b] = row /\ \A a \in SO!Bank \ {b} : reg[a] = s.reg[a]
  BY <1>1, <1>3 DEF Registers
<1> HIDE DEF reg
<1>5. told = reg["gpio"]
  <2>1. s.reg["gpio"] \in [SO!Field -> Drivers] /\ reg["gpio"] \in [SO!Field -> Drivers]
    BY <1>1, <1>4 DEF Registers
  <2>2. told = [g \in SO!Field |-> (s.reg["gpio"][g] \ pins) \cup (reg["gpio"][g] \cap pins)]
    BY DEF SO!checkForUpdates
  <2>3. \A g \in SO!Field : SO!SymmetricDifference(s.reg["gpio"][g], reg["gpio"][g]) \subseteq pins
    BY DEF SO!PinsToUpdate, SO!Field
  <2>4. ASSUME NEW g \in SO!Field
        PROVE  (s.reg["gpio"][g] \ pins) \cup (reg["gpio"][g] \cap pins) = reg["gpio"][g]
    BY <2>3 DEF SO!SymmetricDifference
  <2> QED BY <2>1, <2>2, <2>4
<1>6. u = [s EXCEPT !.reg = reg, !.told = told]
  <2> DEFINE v == [s EXCEPT !.reg[b][f] = new]
  <2>1. v = [s EXCEPT !.reg = reg] BY DEF reg, row
  <2>2. u = [v EXCEPT !.told = SO!checkForUpdates(@, v.reg["gpio"], SO!PinsToUpdate(s.reg["gpio"], v.reg["gpio"]))]
    BY DEF SO!writeUint32, new
  <2> HIDE DEF v, u
  <2>3. v.reg = reg /\ v.told = s.told BY <2>1 DEF SioBank
  <2>4. u = [v EXCEPT !.told = told] BY <2>2, <2>3
  <2> HIDE DEF told
  <2> QED BY <2>1, <2>4 DEF SioBank
<1> HIDE DEF told, u
<1>7. u.reg = reg /\ u.told = reg["gpio"] /\ u.gave = s.gave /\ Same(s, u)
  BY <1>5, <1>6 DEF SioBank, Same
<1>8. t = [u EXCEPT !.gave = given]
  <2>1. t = [u EXCEPT !.gave[c][f] = on] BY DEF SO!Gave
  <2> QED BY <1>7, <2>1
<1>9. given \in Given /\ \A g \in SO!Field, d \in SO!Core :
        given[d][g] = IF g = f /\ d = c THEN on ELSE s.gave[d][g]
  BY <1>1 DEF Given
<1> HIDE DEF given, t
<1>10. t.reg = reg /\ t.told = reg["gpio"] /\ t.gave = given /\ Same(s, t)
  BY <1>6, <1>7, <1>8 DEF SioBank, Same
<1>12. t \in SioBank
  <2>1. reg["gpio"] \in [SO!Field -> Drivers] BY <1>1, <1>4 DEF Registers
  <2>2. u \in SioBank BY <1>4, <1>5, <1>6, <2>1 DEF SioBank
  <2> QED BY <1>8, <1>9, <2>2 DEF SioBank
<1>11. ASSUME NEW a \in SO!Bank, NEW g \in SO!Field, NEW d \in SO!Core
       PROVE  (d \in reg[a][g]) = IF a = b /\ g = f /\ d = c THEN on ELSE d \in s.reg[a][g]
  <2>1. CASE a = b /\ g = f BY <1>2, <1>3, <1>4, <2>1
  <2>2. CASE ~(a = b /\ g = f) BY <1>3, <1>4, <2>2
  <2> QED BY <2>1, <2>2
<1> QED BY <1>4, <1>9, <1>10, <1>11, <1>12 DEF Rewritten, Same, t, u, b

\* The register still holds what the cores gave their pins.
LEMMA RewrittenKept ==
  ASSUME NEW s, SioRight(s), NEW t, NEW c \in SO!Core, NEW f \in SO!Field, NEW on \in BOOLEAN,
         Rewritten(s, t, c, f, on)
  PROVE  Kept(t)
<1> SUFFICES ASSUME NEW b \in SO!Bank, NEW g \in SO!Field, NEW d \in SO!Core
             PROVE  (d \in t.reg[b][g]) = (b = t.bank /\ t.gave[d][g])
  BY DEF Kept
<1>1. (d \in s.reg[b][g]) = (b = s.bank /\ s.gave[d][g]) BY DEF SioRight, Kept
<1>2. t.bank = s.bank BY DEF Rewritten
<1>3. /\ (d \in t.reg[b][g]) = IF b = s.bank /\ g = f /\ d = c THEN on ELSE d \in s.reg[b][g]
      /\ t.gave[d][g] = IF g = f /\ d = c THEN on ELSE s.gave[d][g]
  BY DEF Rewritten
<1>4. s.gave[d][g] \in BOOLEAN /\ t.gave[d][g] \in BOOLEAN
  BY DEF SioRight, SioBank, Given, Rewritten
<1> QED BY <1>1, <1>2, <1>3, <1>4

\* By SET, CLR or XOR: other bits that are written along change nothing.
LEMMA DrivenByAlias ==
  ASSUME SioRight(io), NEW c \in SO!Core, NEW f \in SO!Field, NEW junk \in SUBSET ({0, 1, 30} \ SO!Core),
         SO!DriveByAlias(c, f, junk)
  PROVE  SioRight(io')
<1>1. io \in SioBank /\ io.told = io.reg["gpio"] /\ Kept(io) BY DEF SioRight
<1> DEFINE old == io.reg[io.bank][f]
<1>2. old \in Drivers /\ io.bank \in SO!Bank /\ io.gave[c][f] \in BOOLEAN
  BY <1>1 DEF SioBank, Registers, Given
<1>3. (c \in old) = io.gave[c][f] BY <1>1, <1>2 DEF Kept
<1>4. junk \cap {0, 1} = {} /\ c \in {0, 1} BY DEF SO!Core
<1> HIDE DEF old
<1>5. ({c} \cup junk) \cap {0, 1} = {c} BY <1>4
<1>6. SO!Written(old, "set", {c} \cup junk) = old \cup {c}
  BY <1>5 DEF SO!Written
<1>7. SO!Written(old, "clr", {c} \cup junk) = old \ {c}
  <2>1. old \ ({c} \cup junk) = old \ {c} BY <1>2, <1>4 DEF Drivers, SO!Core
  <2> QED BY <2>1 DEF SO!Written
<1>8. SO!Written(old, "xor", {c} \cup junk) = IF ~io.gave[c][f] THEN old \cup {c} ELSE old \ {c}
  <2>1. SO!Written(old, "xor", {c} \cup junk) = (old \ {c}) \cup ({c} \ old)
    BY <1>5 DEF SO!Written, SO!SymmetricDifference
  <2>2. CASE c \in old
    <3>1. (old \ {c}) \cup ({c} \ old) = old \ {c} BY <2>2
    <3> QED BY <1>2, <1>3, <2>1, <2>2, <3>1
  <2>3. CASE c \notin old
    <3>1. (old \ {c}) \cup ({c} \ old) = old \cup {c} BY <2>3
    <3> QED BY <1>2, <1>3, <2>1, <2>3, <3>1
  <2> QED BY <2>2, <2>3
<1>9. PICK w \in {<<"set", TRUE>>, <<"clr", FALSE>>, <<"xor", ~io.gave[c][f]>>} :
        io' = SO!Gave(SO!writeUint32(io, io.bank, f, w[1], {c} \cup junk), c, f, w[2])
  BY DEF SO!DriveByAlias
<1>10. w[2] \in BOOLEAN
       /\ SO!Written(old, w[1], {c} \cup junk) = IF w[2] THEN old \cup {c} ELSE old \ {c}
  <2>1. CASE w = <<"set", TRUE>> BY <1>6, <2>1
  <2>2. CASE w = <<"clr", FALSE>> BY <1>7, <2>2
  <2>3. CASE w = <<"xor", ~io.gave[c][f]>> BY <1>2, <1>8, <2>3
  <2> QED BY <1>9, <2>1, <2>2, <2>3
<1> DEFINE on == w[2]
           alias == w[1]
           bits == {c} \cup junk
<1>11. Rewritten(io, SO!Gave(SO!writeUint32(io, io.bank, f, alias, bits), c, f, on), c, f, on)
  <2> HIDE DEF on, alias, bits
  <2>1. Puts(c, on, io.reg[io.bank][f], SO!Written(io.reg[io.bank][f], alias, bits))
    BY <1>10 DEF on, alias, bits, old, Puts
  <2>2. on \in BOOLEAN BY <1>10 DEF on
  <2> QED BY <1>1, <2>1, <2>2, WriteFacts
<1>12. Rewritten(io, io', c, f, on) BY <1>9, <1>11
<1>13. on \in BOOLEAN BY <1>10
<1> HIDE DEF on
<1>14. Kept(io') BY <1>12, <1>13, RewrittenKept
<1>15. \A d \in SO!Core : io.at[d] = "idle"
  <2>1. io.way = "alias" BY DEF SO!DriveByAlias
  <2> QED BY <2>1 DEF SioRight, Locked
<1>16. \A d \in SO!Core : io'.at[d] = "idle" BY <1>12, <1>15 DEF Rewritten
<1> QED BY <1>12, <1>14, <1>16 DEF SioRight, Locked, SeenIsCurrent, Rewritten

\* A core writes back what it read, its pin changed: the register is what it read.
LEMMA WrittenBack ==
  ASSUME SioRight(io), NEW c \in SO!Core, NEW on \in BOOLEAN, SO!WriteBack(c, on)
  PROVE  SioRight(io')
<1>1. io \in SioBank /\ io.told = io.reg["gpio"] BY DEF SioRight
<1> DEFINE f == io.where[c]
           old == io.reg[io.bank][f]
           bits == IF on THEN io.seen[c] \cup {c} ELSE io.seen[c] \ {c}
           t == SO!writeUint32(io, io.bank, f, "put", bits)
           u == SO!Gave(t, c, f, on)
<1>2. io.at[c] = "read" BY DEF SO!WriteBack
<1>3. f \in SO!Field BY <1>1 DEF SioBank
<1>4. io.seen[c] = old /\ old \in Drivers
  <2>1. old \in Drivers BY <1>1, <1>3 DEF SioBank, Registers
  <2> QED BY <1>2, <2>1 DEF SioRight, SeenIsCurrent
<1>5. io' = SO!Gave([t EXCEPT !.at[c] = "written"], c, f, on) BY DEF SO!WriteBack
<1> HIDE DEF f
<1>6. Puts(c, on, old, SO!Written(old, "put", bits))
  <2>1. bits \in SUBSET {0, 1} BY <1>4 DEF Drivers, SO!Core
  <2>2. SO!Written(old, "put", bits) = bits BY <2>1 DEF SO!Written
  <2> QED BY <1>4, <2>2 DEF Puts
<1> HIDE DEF bits
<1>7. Rewritten(io, u, c, f, on)
  <2>1. Puts(c, on, io.reg[io.bank][f], SO!Written(io.reg[io.bank][f], "put", bits)) BY <1>6
  <2>2. Rewritten(io, SO!Gave(SO!writeUint32(io, io.bank, f, "put", bits), c, f, on), c, f, on)
    BY <1>1, <1>3, <2>1, WriteFacts
  <2> QED BY <2>2
<1>8. Kept(u) BY <1>3, <1>7, RewrittenKept
<1>9. io' = [u EXCEPT !.at[c] = "written"] /\ u \in SioBank
  <2>1. u \in SioBank BY <1>7 DEF Rewritten
  <2> HIDE DEF t
  <2>2. u = [t EXCEPT !.gave[c][f] = on] BY DEF SO!Gave
  <2>3. io' = [[t EXCEPT !.at[c] = "written"] EXCEPT !.gave[c][f] = on] BY <1>5 DEF SO!Gave
  <2> HIDE DEF u
  <2> QED BY <2>1, <2>2, <2>3
<1> HIDE DEF u
<1>10. /\ io' \in SioBank /\ io'.reg = u.reg /\ io'.told = u.told /\ io'.gave = u.gave
       /\ io'.bank = u.bank /\ io'.way = u.way /\ io'.spinLock = u.spinLock
       /\ io'.at = [u.at EXCEPT ![c] = "written"]
  BY <1>9 DEF SioBank
<1>11. Kept(io') BY <1>8, <1>10 DEF Kept
<1>12. \A d \in SO!Core : d # c => io.at[d] = "idle" BY <1>2 DEF SioRight, Locked
<1>13. SO!Guard \in io.spinLock /\ io.way = "locked" BY <1>2 DEF SioRight, Locked
<1>14. u.at = io.at /\ u.spinLock = io.spinLock /\ u.way = io.way /\ u.told = u.reg["gpio"]
  BY <1>7 DEF Rewritten
<1>15. io'.at[c] = "written" /\ \A d \in SO!Core : d # c => io'.at[d] = "idle"
  BY <1>9, <1>10, <1>12, <1>14 DEF SioBank
<1>16. Locked(io') BY <1>10, <1>13, <1>14, <1>15 DEF Locked
<1>17. SeenIsCurrent(io') BY <1>15 DEF SeenIsCurrent
<1> QED BY <1>10, <1>11, <1>14, <1>16, <1>17 DEF SioRight

\* A core claims the lock, if no other has it.
LEMMA Claimed ==
  ASSUME SioRight(io), NEW c \in SO!Core, SO!Claim(c)
  PROVE  SioRight(io')
<1>1. io \in SioBank BY DEF SioRight
<1>2. io.at[c] = "idle" /\ io.way = "locked" BY DEF SO!Claim
<1> DEFINE lock == io.spinLock \cup {SO!Guard}
           t == [io EXCEPT !.spinLock = lock]
           ats == [io.at EXCEPT ![c] = "locked"]
<1>3. SO!Guard \in {0, 31}
  BY DEF SO!Guard
<1>4. lock \in SUBSET {0, 31} BY <1>1, <1>3 DEF SioBank
<1>5. io' = IF SO!Guard \notin io.spinLock THEN [io EXCEPT !.spinLock = lock, !.at = ats] ELSE t
  <2>1. SO!ReadSpinlock(io, SO!Guard) = t BY DEF SO!ReadSpinlock
  <2>2. t.at = io.at BY <1>1 DEF SioBank
  <2> QED BY <1>1, <2>1, <2>2 DEF SO!Claim, SO!Claims, SioBank
<1>6. ats \in [SO!Core -> {"idle", "locked", "read", "written"}] /\ ats[c] = "locked"
      /\ \A d \in SO!Core \ {c} : ats[d] = io.at[d]
  BY <1>1 DEF SioBank
<1> HIDE DEF ats, lock
<1>7. CASE SO!Guard \in io.spinLock
  <2>1. lock = io.spinLock BY <1>7 DEF lock
  <2>2. io' = io BY <1>1, <1>5, <1>7, <2>1 DEF SioBank
  <2> QED BY <2>2
<1>8. CASE SO!Guard \notin io.spinLock
  <2>1. io' = [io EXCEPT !.spinLock = lock, !.at = ats] BY <1>5, <1>8
  <2>2. /\ io' \in SioBank /\ io'.reg = io.reg /\ io'.told = io.told /\ io'.gave = io.gave
        /\ io'.bank = io.bank /\ io'.way = io.way /\ io'.spinLock = lock /\ io'.at = ats
        /\ io'.seen = io.seen /\ io'.where = io.where
    BY <1>1, <1>4, <1>6, <2>1 DEF SioBank
  <2>3. \A d \in SO!Core : io.at[d] = "idle" BY <1>8 DEF SioRight, Locked
  <2>4. \A d \in SO!Core : d # c => io'.at[d] = "idle" BY <1>6, <2>2, <2>3
  <2>5. SO!Guard \in io'.spinLock /\ io'.way = "locked" BY <1>2, <2>2 DEF lock
  <2>6. Locked(io') BY <2>4, <2>5 DEF Locked
  <2>7. SeenIsCurrent(io') BY <1>6, <2>2, <2>4 DEF SeenIsCurrent
  <2>8. Kept(io') BY <2>2 DEF Kept, SioRight
  <2> QED BY <2>2, <2>6, <2>7, <2>8 DEF SioRight
<1> QED BY <1>7, <1>8

\* A core that holds the lock reads a register.
LEMMA ReadBefore ==
  ASSUME SioRight(io), NEW c \in SO!Core, NEW f \in SO!Field, SO!Read(c, f)
  PROVE  SioRight(io')
<1>1. io \in SioBank BY DEF SioRight
<1> DEFINE was == io.reg[io.bank][f]
           ats == [io.at EXCEPT ![c] = "read"]
           sees == [io.seen EXCEPT ![c] = was]
           wheres == [io.where EXCEPT ![c] = f]
<1>2. was \in Drivers BY <1>1 DEF SioBank, Registers
<1>3. io' = [io EXCEPT !.at = ats, !.seen = sees, !.where = wheres] /\ io.at[c] = "locked"
  BY DEF SO!Read
<1> HIDE DEF was
<1>4. ats \in [SO!Core -> {"idle", "locked", "read", "written"}] /\ ats[c] = "read"
      /\ sees \in [SO!Core -> Drivers] /\ sees[c] = was
      /\ wheres \in [SO!Core -> SO!Field] /\ wheres[c] = f
      /\ \A d \in SO!Core \ {c} : ats[d] = io.at[d]
  BY <1>1, <1>2 DEF SioBank
<1> HIDE DEF ats, sees, wheres
<1>5. /\ io' \in SioBank /\ io'.reg = io.reg /\ io'.told = io.told /\ io'.gave = io.gave
      /\ io'.bank = io.bank /\ io'.way = io.way /\ io'.spinLock = io.spinLock /\ io'.at = ats
      /\ io'.seen = sees /\ io'.where = wheres
  BY <1>1, <1>3, <1>4 DEF SioBank
<1>6. Kept(io') BY <1>5 DEF Kept, SioRight
<1>7. \A d \in SO!Core : d # c => io.at[d] = "idle" BY <1>3 DEF SioRight, Locked
<1>8. \A d \in SO!Core : d # c => io'.at[d] = "idle" BY <1>4, <1>5, <1>7
<1>9. SO!Guard \in io.spinLock /\ io.way = "locked" BY <1>3 DEF SioRight, Locked
<1>10. Locked(io') BY <1>5, <1>8, <1>9 DEF Locked
<1>11. SeenIsCurrent(io') BY <1>4, <1>5, <1>8 DEF SeenIsCurrent, was
<1> QED BY <1>5, <1>6, <1>10, <1>11 DEF SioRight

\* A core releases the lock.
LEMMA Released ==
  ASSUME SioRight(io), NEW c \in SO!Core, SO!Release(c)
  PROVE  SioRight(io')
<1>1. io \in SioBank BY DEF SioRight
<1> DEFINE lock == io.spinLock \ {SO!Guard}
           ats == [io.at EXCEPT ![c] = "idle"]
<1>2. lock \in SUBSET {0, 31} BY <1>1 DEF SioBank
<1>3. io' = [io EXCEPT !.spinLock = lock, !.at = ats] /\ io.at[c] = "written"
  BY <1>1 DEF SO!Release, SO!WriteSpinlock, SioBank
<1>4. ats \in [SO!Core -> {"idle", "locked", "read", "written"}] /\ ats[c] = "idle"
      /\ \A d \in SO!Core \ {c} : ats[d] = io.at[d]
  BY <1>1 DEF SioBank
<1> HIDE DEF ats, lock
<1>5. /\ io' \in SioBank /\ io'.reg = io.reg /\ io'.told = io.told /\ io'.gave = io.gave
      /\ io'.bank = io.bank /\ io'.way = io.way /\ io'.spinLock = lock /\ io'.at = ats
      /\ io'.seen = io.seen /\ io'.where = io.where
  BY <1>1, <1>2, <1>3, <1>4 DEF SioBank
<1>6. Kept(io') BY <1>5 DEF Kept, SioRight
<1>7. \A d \in SO!Core : d # c => io.at[d] = "idle" BY <1>3 DEF SioRight, Locked
<1>8. \A d \in SO!Core : io'.at[d] = "idle" BY <1>4, <1>5, <1>7
<1> QED BY <1>5, <1>6, <1>8 DEF SioRight, Locked, SeenIsCurrent

\* Another lock is claimed or freed.
LEMMA OtherTouched ==
  ASSUME SioRight(io), NEW l \in {0, 31}, SO!TouchOther(l)
  PROVE  SioRight(io')
<1>1. io \in SioBank BY DEF SioRight
<1>2. PICK lock \in SUBSET {0, 31} : /\ io' = [io EXCEPT !.spinLock = lock]
                                     /\ (SO!Guard \in lock) = (SO!Guard \in io.spinLock)
  <2>1. l # SO!Guard /\ (io' = SO!ReadSpinlock(io, l) \/ io' = SO!WriteSpinlock(io, l))
    BY DEF SO!TouchOther
  <2>2. io.spinLock \in SUBSET {0, 31} BY <1>1 DEF SioBank
  <2>3. CASE io' = SO!ReadSpinlock(io, l)
    <3>1. io' = [io EXCEPT !.spinLock = io.spinLock \cup {l}] BY <2>3 DEF SO!ReadSpinlock
    <3> QED BY <2>1, <2>2, <3>1
  <2>4. CASE io' = SO!WriteSpinlock(io, l)
    <3>1. io' = [io EXCEPT !.spinLock = io.spinLock \ {l}] BY <2>4 DEF SO!WriteSpinlock
    <3> QED BY <2>1, <2>2, <3>1
  <2> QED BY <2>1, <2>3, <2>4
<1>5. /\ io' \in SioBank /\ io'.reg = io.reg /\ io'.told = io.told /\ io'.gave = io.gave
      /\ io'.bank = io.bank /\ io'.way = io.way /\ io'.spinLock = lock /\ io'.at = io.at
      /\ io'.seen = io.seen /\ io'.where = io.where
  BY <1>1, <1>2 DEF SioBank
<1>6. Kept(io') BY <1>5 DEF Kept, SioRight
<1>7. Locked(io') BY <1>2, <1>5 DEF Locked, SioRight
<1>8. SeenIsCurrent(io') BY <1>5 DEF SeenIsCurrent, SioRight
<1> QED BY <1>5, <1>6, <1>7, <1>8 DEF SioRight

\* Every step of the two cores.
LEMMA SioStepped == SioRight(io) /\ SO!Next => SioRight(io')
<1> SUFFICES ASSUME SioRight(io), SO!Next PROVE SioRight(io') OBVIOUS
<1>1. ASSUME NEW c \in SO!Core, NEW f \in SO!Field, SO!Read(c, f) PROVE SioRight(io')
  BY <1>1, ReadBefore
<1>2. ASSUME NEW c \in SO!Core, NEW f \in SO!Field, NEW junk \in SUBSET ({0, 1, 30} \ SO!Core),
             SO!DriveByAlias(c, f, junk)
      PROVE  SioRight(io')
  BY <1>2, DrivenByAlias
<1>3. ASSUME NEW c \in SO!Core, NEW on \in BOOLEAN, SO!WriteBack(c, on) PROVE SioRight(io')
  BY <1>3, WrittenBack
<1>4. ASSUME NEW c \in SO!Core, SO!Claim(c) \/ SO!Release(c) PROVE SioRight(io')
  BY <1>4, Claimed, Released
<1>5. ASSUME NEW l \in {0, 31}, SO!TouchOther(l) PROVE SioRight(io')
  BY <1>5, OtherTouched
<1> QED BY <1>1, <1>2, <1>3, <1>4, <1>5 DEF SO!Next

\* The properties of the registers.
LEMMA SioFollows == SioRight(io) => SO!ListenersTold /\ SO!WritesKept
<1> SUFFICES ASSUME SioRight(io) PROVE SO!ListenersTold /\ SO!WritesKept OBVIOUS
<1>1. SO!ListenersTold BY DEF SioRight, SO!ListenersTold
<1>2. ASSUME NEW b \in SO!Bank, NEW f \in SO!Field
      PROVE  io.reg[b][f] = {c \in SO!Core : b = io.bank /\ io.gave[c][f]}
  <2>1. io.reg[b][f] \in Drivers BY DEF SioRight, SioBank, Registers
  <2>2. \A c \in SO!Core : (c \in io.reg[b][f]) <=> (b = io.bank /\ io.gave[c][f])
    BY DEF SioRight, Kept
  <2> QED BY <2>1, <2>2 DEF Drivers
<1> QED BY <1>1, <1>2 DEF SO!WritesKept

\* In focus is the RP2350's bank of pins, or the RP2040's registers.
PinsInv == /\ focus \in {"outputs", "inputs"} => IoRight(io)
           /\ focus = "sio rp2040" => SioRight(io)

\* For any number of pins and any settings: every change of a pin reaches its listeners
\* and the interrupt of its bank, whichever path made it (checkForUpdates and
\* updateIOInterrupt); and on the RP2040 two cores lose no write to a pin (writeUint32).
THEOREM PinsFollowAlways == MCSpec => []PinsFollow
<1>1. MCInit => PinsInv
  <2> SUFFICES ASSUME MCInit PROVE PinsInv OBVIOUS
  <2>1. CASE focus \in {"outputs", "inputs"}
    <3>1. GP!Init BY <2>1 DEF MCInit
    <3> QED BY <2>1, <3>1, IoInit DEF PinsInv
  <2>2. CASE focus = "sio rp2040"
    <3>1. SO!Init BY <2>2 DEF MCInit
    <3> QED BY <2>2, <3>1, SioInit DEF PinsInv
  <2> QED BY <2>1, <2>2 DEF PinsInv
<1>2. PinsInv /\ [MCNext]_<<focus, amo, bus, io, gdb, ctl, cli, calc, link>> => PinsInv'
  <2> SUFFICES ASSUME PinsInv, [MCNext]_<<focus, amo, bus, io, gdb, ctl, cli, calc, link>>
               PROVE  PinsInv'
    OBVIOUS
  <2>1. focus' = focus BY DEF MCNext
  <2>2. CASE UNCHANGED io BY <2>1, <2>2 DEF PinsInv
  <2>3. CASE focus \in {"outputs", "inputs"} /\ ~UNCHANGED io
    <3>1. OutputStep \/ InputStep BY <2>3 DEF MCNext, Regions
    <3> QED BY <2>1, <2>3, <3>1, OutputsStepped, InputsStepped DEF PinsInv
  <2>4. CASE focus = "sio rp2040" /\ ~UNCHANGED io
    <3>1. SO!Next BY <2>4 DEF MCNext, Regions
    <3> QED BY <2>1, <2>4, <3>1, SioStepped DEF PinsInv
  <2> QED BY <2>1, <2>2, <2>3, <2>4 DEF PinsInv
<1>3. PinsInv => PinsFollow
  BY IoFollows, SioFollows DEF PinsInv, PinsFollow
<1> QED BY <1>1, <1>2, <1>3, PTL DEF MCSpec

-----------------------------------------------------------------------------
(* The bus *)

\* The addresses that the program uses, and the memories they are in.
Flash == 16 .. 19
Psram == 20 .. 23
Sram == 28 .. 35
Dpram == 80 .. 83

\* The map of this chip: what is memory, and where instructions are decoded.
LEMMA Numbers ==
  /\ BU!FlashBytes = Flash /\ BU!Stores = Psram \cup Sram \cup 64 .. 67 \cup Dpram
  /\ BU!Bytes = 0 .. 3 \cup Flash \cup Psram \cup Sram \cup 64 .. 67 \cup Dpram
  /\ BU!Cached = {16, 18, 20, 22, 28, 30, 32, 34}
  /\ BU!Lanes = 0 .. 3
<1>1. BU!FlashBytes = Flash BY DEF BU!FlashBytes, BU!Region, Flash
<1>2. BU!Region(20, 4) = Psram BY DEF BU!Region, Psram
<1>3. BU!Region(28, 8) = Sram BY DEF BU!Region, Sram
<1>4. BU!Region(64, 4) = 64 .. 67 /\ BU!Region(80, 4) = Dpram BY DEF BU!Region, Dpram
<1>5. BU!Stores = Psram \cup Sram \cup 64 .. 67 \cup Dpram BY <1>2, <1>3, <1>4 DEF BU!Stores
<1>6. BU!Bytes = 0 .. 3 \cup Flash \cup Psram \cup Sram \cup 64 .. 67 \cup Dpram
  BY <1>1, <1>5 DEF BU!Bytes
<1>7. BU!Cached = {16, 18, 20, 22, 28, 30, 32, 34}
  <2>1. BU!Cached = {h \in Flash \cup Psram \cup Sram : h % 2 = 0}
    BY <1>1, <1>2, <1>3 DEF BU!Cached
  <2>2. ASSUME NEW h \in Flash \cup Psram \cup Sram
        PROVE  h % 2 = 0 <=> h \in {16, 18, 20, 22, 28, 30, 32, 34}
    BY DEF Flash, Psram, Sram
  <2>3. {16, 18, 20, 22, 28, 30, 32, 34} \subseteq Flash \cup Psram \cup Sram
    BY DEF Flash, Psram, Sram
  <2> QED BY <2>1, <2>2, <2>3
<1> QED BY <1>1, <1>5, <1>6, <1>7 DEF BU!Lanes

\* Where each address of it leads.
LEMMA Targets ==
  /\ \A a \in Flash : BU!Target(a) = "flash"
  /\ \A a \in Psram : BU!Target(a) = "psram"
  /\ \A a \in 24 .. 27 : BU!Target(a) = "flash"
  /\ \A a \in Sram : BU!Target(a) = "sram"
  /\ \A a \in 48 .. 63 : BU!Target(a) = "register"
  /\ \A a \in 64 .. 79 : BU!Target(a) = "bootram"
  /\ \A a \in Dpram : BU!Target(a) = "dpram"
  /\ \A a \in 96 .. 99 : BU!Target(a) = "sio"
  /\ BU!Target(44) = "none" /\ BU!Target(36) = "none"
<1> USE DEF BU!Target, BU!Within
<1>1. \A a \in Flash : BU!Target(a) = "flash" BY DEF Flash
<1>2. \A a \in Psram : BU!Target(a) = "psram" BY DEF Psram
<1>3. \A a \in 24 .. 27 : BU!Target(a) = "flash" OBVIOUS
<1>4. \A a \in Sram : BU!Target(a) = "sram" BY DEF Sram
<1> USE DEF BU!Page, BU!Region
<1>5. \A a \in 48 .. 63 : BU!Target(a) = "register" OBVIOUS
<1>6. \A a \in 64 .. 79 : BU!Target(a) = "bootram" OBVIOUS
<1>7. \A a \in Dpram : BU!Target(a) = "dpram" BY DEF Dpram
<1>8. \A a \in 96 .. 99 : BU!Target(a) = "sio" OBVIOUS
<1>9. BU!Target(44) = "none" /\ BU!Target(36) = "none" OBVIOUS
<1> QED BY <1>1, <1>2, <1>3, <1>4, <1>5, <1>6, <1>7, <1>8, <1>9

\* An address of a memory is its own byte.
LEMMA Cells == \A a \in Flash \cup Psram \cup Sram \cup 64 .. 67 \cup Dpram : BU!Cell(a) = a
<1>1. \A a \in Flash : BU!Cell(a) = a BY Targets DEF BU!Cell, Flash
<1> QED BY <1>1, Targets DEF BU!Cell

\* Bytes and words; the states of the bus.
Bits == SUBSET ((UNION Byte) \cup {0, 1})
WordOf == [BU!Lanes -> Bits]
BusState == [mem : [BU!Bytes -> Bits], want : [BU!Stores -> Bits], cache : [BU!Cached -> Seq(Bits)],
             reg : [{48} -> WordOf], raw : [{48} -> WordOf], sio : [value : WordOf, reads : {0, 1}],
             ppb : WordOf, seen : [{80} -> WordOf], threw : BOOLEAN]

\* The word of memory at an aligned address.
WordAt(s, w) == [i \in BU!Lanes |-> s.mem[w + i]]

\* A read of a word of a memory.
LEMMA ReadsWord ==
  ASSUME NEW s, NEW w \in {16, 20, 28, 32, 64, 80}
  PROVE  BU!readUint32(s, w) = <<WordAt(s, w), s>>
<1>1. \A i \in BU!Lanes : BU!Cell(w + i) = w + i
  BY Cells, Numbers DEF Flash, Psram, Sram, Dpram
<1>2. BU!readUint32(s, w) = <<[i \in BU!Lanes |-> s.mem[BU!Cell(w + i)]], s>>
  <2>1. BU!Target(w) \in {"flash", "psram", "sram", "dpram"} \/ (BU!Target(w) = "bootram" /\ w % 16 = 0)
    BY Targets DEF Flash, Psram, Sram, Dpram
  <2> QED BY <2>1 DEF BU!readUint32
<1> QED BY <1>1, <1>2 DEF WordAt

\* A read of two bytes of a memory.
Halves == {16, 18, 20, 22, 28, 30, 32, 34, 64, 66, 80, 82}
LEMMA ReadsHalf ==
  ASSUME NEW s, NEW a \in Halves
  PROVE  BU!readUint16(s, a) = <<<<s.mem[a], s.mem[a + 1]>>, s>>
<1>1. CASE a \in {16, 18, 20, 22, 28, 30, 32, 34}
  <2>1. BU!Direct(a) BY <1>1, Targets DEF BU!Direct, Flash, Psram, Sram
  <2>2. BU!Cell(a) = a /\ BU!Cell(a + 1) = a + 1 BY <1>1, Cells DEF Flash, Psram, Sram
  <2> QED BY <2>1, <2>2 DEF BU!readUint16
<1>2. CASE a \in {64, 66, 80, 82}
  <2>1. ~BU!Direct(a) BY <1>2, Targets DEF BU!Direct, Dpram
  <2> DEFINE w == IF a < 80 THEN 64 ELSE 80
  <2>2. BU!Word(a) = w BY <1>2 DEF BU!Word
  <2>3. BU!readUint32(s, w) = <<WordAt(s, w), s>> BY ReadsWord
  <2>4. BU!readUint16(s, a) = <<IF (a \div 2) % 2 = 1 THEN <<WordAt(s, w)[2], WordAt(s, w)[3]>>
                                ELSE <<WordAt(s, w)[0], WordAt(s, w)[1]>>, s>>
    <3> HIDE DEF w
    <3> QED BY <2>1, <2>2, <2>3 DEF BU!readUint16
  <2>5. WordAt(s, w)[0] = s.mem[w] /\ WordAt(s, w)[1] = s.mem[w + 1]
        /\ WordAt(s, w)[2] = s.mem[w + 2] /\ WordAt(s, w)[3] = s.mem[w + 3]
    BY DEF WordAt, BU!Lanes
  <2>6. CASE a \in {64, 80}
    <3>1. (a \div 2) % 2 = 0 /\ a = w BY <2>6
    <3> QED BY <2>4, <2>5, <3>1
  <2>7. CASE a \in {66, 82}
    <3>1. (a \div 2) % 2 = 1 /\ a = w + 2 BY <2>7
    <3>2. a + 1 = w + 3 BY <3>1
    <3> HIDE DEF w
    <3> QED BY <2>4, <2>5, <3>1, <3>2
  <2> QED BY <1>2, <2>6, <2>7
<1> QED BY <1>1, <1>2 DEF Halves

\* Loads of every width return the bytes that are in memory.
LEMMA WidthsAgreeAlways == BU!WidthsAgree
<1> SUFFICES ASSUME NEW b \in BU!Stores \cup BU!FlashBytes
             PROVE  /\ BU!readUint8(bus, b)[1] = bus.mem[b]
                    /\ BU!readUint16(bus, b - (b % 2))[1][(b % 2) + 1] = bus.mem[b]
                    /\ BU!readUint32(bus, BU!Word(b))[1][b % 4] = bus.mem[b]
  BY DEF BU!WidthsAgree
<1>1. b \in Flash \cup Psram \cup Sram \cup 64 .. 67 \cup Dpram BY Numbers
<1> DEFINE h == b - (b % 2)
           w == BU!Word(b)
<1>2. h \in Halves BY <1>1 DEF Halves, Flash, Psram, Sram, Dpram
<1>3. BU!readUint16(bus, h) = <<<<bus.mem[h], bus.mem[h + 1]>>, bus>> BY <1>2, ReadsHalf
<1>4. BU!readUint16(bus, h)[1][(b % 2) + 1] = bus.mem[b]
  <2>1. (b = h /\ b % 2 = 0) \/ (b = h + 1 /\ b % 2 = 1) BY <1>1 DEF Flash, Psram, Sram, Dpram
  <2> HIDE DEF h
  <2>2. CASE b = h /\ b % 2 = 0 BY <1>3, <2>2
  <2>3. CASE b = h + 1 /\ b % 2 = 1 BY <1>3, <2>3
  <2> QED BY <2>1, <2>2, <2>3
<1>5. BU!readUint8(bus, b)[1] = bus.mem[b]
  <2>1. CASE BU!Direct(b)
    <3>1. BU!Cell(b) = b BY <1>1, Cells
    <3> QED BY <2>1, <3>1 DEF BU!readUint8
  <2>2. CASE ~BU!Direct(b) BY <1>4, <2>2 DEF BU!readUint8
  <2> QED BY <2>1, <2>2
<1>6. BU!readUint32(bus, w)[1][b % 4] = bus.mem[b]
  <2>1. w \in {16, 20, 28, 32, 64, 80} BY <1>1 DEF BU!Word, Flash, Psram, Sram, Dpram
  <2>2. b % 4 \in BU!Lanes /\ w + (b % 4) = b BY <1>1, Numbers DEF BU!Word, Flash, Psram, Sram, Dpram
  <2> HIDE DEF w
  <2>3. BU!readUint32(bus, w)[1] = WordAt(bus, w) BY <2>1, ReadsWord
  <2> QED BY <2>2, <2>3 DEF WordAt
<1> QED BY <1>4, <1>5, <1>6

\* The bytes that an access at a of n bytes stores.
Reached(a, n) == {b \in BU!Stores : a <= b /\ b < a + n}

\* What was decoded from h on does not end in these bytes, unless in the next memory.
Unread(h, a, n) == \A b \in Reached(a, n) : h <= b /\ b <= h + 3 => BU!Target(b) # BU!Target(h)

\* A store of the bytes v, the first at v[1]: they land, the USB controller hears of its
\* own, and what was decoded from them is forgotten.
Landed(s, t, a, n, v) ==
  /\ t \in BusState
  /\ \A b \in BU!Bytes : t.mem[b] = IF b \in Reached(a, n) THEN v[b - a + 1] ELSE s.mem[b]
  /\ t.seen[80] = WordAt(t, 80)
  /\ \A h \in BU!Cached : t.cache[h] = BU!None \/ (t.cache[h] = s.cache[h] /\ Unread(h, a, n))

\* A store that no memory sees.
Missed(s, t) == /\ t \in BusState /\ t.mem = s.mem /\ t.want = s.want /\ t.cache = s.cache
                /\ t.seen = s.seen

\* A store that reaches no memory lands wherever it was aimed at.
LEMMA MissedLanded ==
  ASSUME NEW s, NEW t, Missed(s, t), s.seen[80] = WordAt(s, 80), NEW a, NEW n, NEW v, Reached(a, n) = {}
  PROVE  Landed(s, t, a, n, v)
BY DEF Missed, Landed, WordAt, Unread

\* A store to a memory and what it makes the cache forget.
Overwrote(s, t, a, n, v) ==
  /\ t \in BusState /\ t.want = s.want /\ t.seen = s.seen
  /\ \A b \in BU!Bytes : t.mem[b] = IF b \in Reached(a, n) THEN v[b - a + 1] ELSE s.mem[b]
Wrote(s, t, a, n, v) == Overwrote(s, t, a, n, v) /\ t.cache = s.cache

\* A whole word is put into a memory.
LEMMA PutWrites ==
  ASSUME NEW s \in BusState, NEW a \in Int, NEW v \in WordOf, a .. a + 3 \subseteq BU!Stores, NEW u,
         \A i \in 1 .. 4 : u[i] = v[i - 1]
  PROVE  Wrote(s, BU!Put(s, a, v), a, 4, u)
<1> DEFINE mem == [b \in BU!Bytes |-> IF b \in BU!Region(a, 4) THEN v[b - a] ELSE s.mem[b]]
           t == BU!Put(s, a, v)
<1>1. t = [s EXCEPT !.mem = mem] BY DEF BU!Put
<1>2. ASSUME NEW b \in BU!Bytes
      PROVE  mem[b] \in Bits /\ mem[b] = IF b \in Reached(a, 4) THEN u[b - a + 1] ELSE s.mem[b]
  <2>1. b \in Int BY Numbers DEF Flash, Psram, Sram, Dpram
  <2>2. b \in BU!Region(a, 4) <=> b \in Reached(a, 4) BY <2>1 DEF BU!Region, Reached
  <2>3. CASE b \in BU!Region(a, 4)
    <3>1. b - a \in BU!Lanes /\ (b - a) + 1 \in 1 .. 4 /\ ((b - a) + 1) - 1 = b - a
      BY <2>1, <2>3 DEF BU!Region, BU!Lanes
    <3>2. v[b - a] \in Bits BY <3>1 DEF WordOf
    <3> QED BY <2>2, <2>3, <3>1, <3>2
  <2>4. CASE b \notin BU!Region(a, 4) BY <2>2, <2>4 DEF BusState
  <2> QED BY <2>3, <2>4
<1>3. mem \in [BU!Bytes -> Bits] BY <1>2
<1> HIDE DEF mem, t
<1>4. t \in BusState /\ t.want = s.want /\ t.seen = s.seen /\ t.threw = s.threw /\ t.cache = s.cache
      /\ t.mem = mem
  BY <1>1, <1>3 DEF BusState
<1> QED BY <1>2, <1>4 DEF Wrote, Overwrote, t

\* One byte or two are.
LEMMA PutBytesWrites ==
  ASSUME NEW s \in BusState, NEW a \in Int, NEW n \in {1, 2}, NEW v \in [1 .. n -> Bits],
         a .. a + n - 1 \subseteq BU!Stores
  PROVE  Wrote(s, BU!PutBytes(s, a, n, v), a, n, v)
<1> DEFINE mem == [b \in BU!Bytes |-> IF b \in BU!Region(a, n) THEN v[b - a + 1] ELSE s.mem[b]]
           t == BU!PutBytes(s, a, n, v)
<1>1. t = [s EXCEPT !.mem = mem] BY DEF BU!PutBytes
<1>2. ASSUME NEW b \in BU!Bytes
      PROVE  mem[b] \in Bits /\ mem[b] = IF b \in Reached(a, n) THEN v[b - a + 1] ELSE s.mem[b]
  <2>1. b \in Int BY Numbers DEF Flash, Psram, Sram, Dpram
  <2>2. b \in BU!Region(a, n) <=> b \in Reached(a, n) BY <2>1 DEF BU!Region, Reached
  <2>3. CASE b \in BU!Region(a, n)
    <3>1. b - a + 1 \in 1 .. n BY <2>1, <2>3 DEF BU!Region
    <3> QED BY <2>2, <2>3, <3>1
  <2>4. CASE b \notin BU!Region(a, n) BY <2>2, <2>4 DEF BusState
  <2> QED BY <2>3, <2>4
<1>3. mem \in [BU!Bytes -> Bits] BY <1>2
<1> HIDE DEF mem, t
<1>4. t \in BusState /\ t.want = s.want /\ t.seen = s.seen /\ t.threw = s.threw /\ t.cache = s.cache
      /\ t.mem = mem
  BY <1>1, <1>3 DEF BusState
<1> QED BY <1>2, <1>4 DEF Wrote, Overwrote, t

\* The DPRAM is not written, so what the USB controller saw of it is what it is.
LEMMA SeenStays ==
  ASSUME NEW s, NEW t, NEW a, NEW n, NEW v, Overwrote(s, t, a, n, v), s.seen[80] = WordAt(s, 80),
         Reached(a, n) \cap Dpram = {}
  PROVE  t.seen[80] = WordAt(t, 80)
<1>1. ASSUME NEW i \in BU!Lanes PROVE t.mem[80 + i] = s.mem[80 + i]
  <2>1. 80 + i \in Dpram /\ 80 + i \in BU!Bytes BY Numbers DEF Dpram
  <2> QED BY <2>1 DEF Overwrote
<1> QED BY <1>1 DEF Overwrote, WordAt

\* Forgetting what was decoded from a memory.
LEMMA Invalidated ==
  ASSUME NEW s \in BusState, NEW first \in Int, NEW a \in Int, NEW n \in Int
  PROVE  LET t == BU!invalidate(s, first, a, n)
         IN  /\ t \in BusState /\ t.want = s.want /\ t.seen = s.seen /\ t.threw = s.threw /\ t.mem = s.mem
             /\ \A h \in BU!Cached :
                  t.cache[h] = IF h >= first /\ h + 2 >= a - (a % 2) /\ h < a + n
                               THEN BU!None ELSE s.cache[h]
<1> DEFINE cache == [h \in BU!Cached |-> IF h >= first /\ h + 2 >= a - (a % 2) /\ h < a + n
                                         THEN BU!None ELSE s.cache[h]]
           t == BU!invalidate(s, first, a, n)
<1>1. t = [s EXCEPT !.cache = cache] BY DEF BU!invalidate
<1>2. cache \in [BU!Cached -> Seq(Bits)]
  <2>1. BU!None \in Seq(Bits) BY DEF BU!None
  <2> QED BY <2>1 DEF BusState
<1>3. \A h \in BU!Cached : cache[h] = IF h >= first /\ h + 2 >= a - (a % 2) /\ h < a + n
                                      THEN BU!None ELSE s.cache[h]
  OBVIOUS
<1> HIDE DEF cache, t
<1>4. t \in BusState /\ t.want = s.want /\ t.seen = s.seen /\ t.threw = s.threw /\ t.mem = s.mem
      /\ t.cache = cache
  BY <1>1, <1>2 DEF BusState
<1> QED BY <1>3, <1>4 DEF t

\* A memory of instructions is written and the instructions that reach into the bytes
\* are forgotten.
LEMMA CodeWritten ==
  ASSUME NEW s \in BusState, s.seen[80] = WordAt(s, 80), NEW a \in Psram \cup Sram, NEW n \in 1 .. 4,
         NEW v, NEW u \in BusState, Wrote(s, u, a, n, v),
         \/ a + n - 1 \in Sram /\ a \in Sram
         \/ a + n - 1 \in Psram /\ a \in Psram
  PROVE  Landed(s, BU!invalidate(u, IF a \in Sram THEN 28 ELSE 20, a, n), a, n, v)
<1> DEFINE first == IF a \in Sram THEN 28 ELSE 20
           t == BU!invalidate(u, first, a, n)
<1>1. a \in 20 .. 35 /\ first \in {20, 28} /\ first <= a BY DEF Sram, Psram
<1>2. first \in Int /\ a \in Int /\ n \in Int BY <1>1
<1>3. /\ t \in BusState /\ t.want = u.want /\ t.seen = u.seen /\ t.threw = u.threw /\ t.mem = u.mem
      /\ \A h \in BU!Cached :
           t.cache[h] = IF h >= first /\ h + 2 >= a - (a % 2) /\ h < a + n THEN BU!None ELSE u.cache[h]
  BY <1>2, Invalidated
<1> HIDE DEF t
<1>4. Overwrote(s, t, a, n, v) BY <1>3 DEF Wrote, Overwrote
<1>5. Reached(a, n) \cap Dpram = {} BY <1>1 DEF Reached, Dpram
<1>6. t.seen[80] = WordAt(t, 80) BY <1>4, <1>5, SeenStays
<1>7. ASSUME NEW h \in BU!Cached PROVE t.cache[h] = BU!None \/ (t.cache[h] = s.cache[h] /\ Unread(h, a, n))
  <2>1. h \in {16, 18, 20, 22, 28, 30, 32, 34} BY Numbers
  <2>2. CASE h >= first /\ h + 2 >= a - (a % 2) /\ h < a + n BY <1>3, <2>2
  <2>3. CASE ~(h >= first /\ h + 2 >= a - (a % 2) /\ h < a + n)
    <3>1. t.cache[h] = s.cache[h] BY <1>3, <2>3 DEF Wrote
    <3>2. ASSUME NEW b \in Reached(a, n), h <= b, b <= h + 3 PROVE BU!Target(b) # BU!Target(h)
      <4>1. a <= b /\ b < a + n /\ b \in Int BY Numbers DEF Reached, Psram, Sram, Dpram
      <4>2. h < first
        <5>1. h < a + n BY <1>1, <3>2, <4>1, <2>1
        <5>2. h + 2 >= a - (a % 2) BY <1>1, <3>2, <4>1, <2>1
        <5> QED BY <2>1, <2>3, <5>1, <5>2, <1>1
      <4>3. CASE a \in Sram
        <5>1. b \in Sram BY <4>1, <4>3 DEF Sram, Psram
        <5>2. h \in Flash \cup Psram BY <2>1, <4>2, <4>3 DEF Flash, Psram
        <5> QED BY <5>1, <5>2, Targets
      <4>4. CASE a \in Psram
        <5>1. b \in Psram BY <4>1, <4>4 DEF Sram, Psram
        <5>2. h \in Flash BY <2>1, <4>2, <4>4 DEF Flash, Psram, Sram
        <5> QED BY <5>1, <5>2, Targets
      <4> QED BY <4>3, <4>4
    <3> QED BY <3>1, <3>2 DEF Unread
  <2> QED BY <2>2, <2>3
<1> HIDE DEF first
<1>8. Landed(s, t, a, n, v) BY <1>4, <1>6, <1>7 DEF Landed, Overwrote
<1> QED BY <1>8 DEF t, first

\* No decoded instruction is near: the boot RAM and the DPRAM.
LEMMA FarWritten ==
  ASSUME NEW s \in BusState, NEW a \in Int, a >= 64, NEW n \in 1 .. 4, NEW v, NEW t,
         Wrote(s, t, a, n, v), t.seen[80] = WordAt(t, 80)
  PROVE  Landed(s, t, a, n, v)
<1>1. ASSUME NEW h \in BU!Cached PROVE Unread(h, a, n)
  <2>1. h \in {16, 18, 20, 22, 28, 30, 32, 34} BY Numbers
  <2>2. \A b \in Reached(a, n) : b \in Int /\ a <= b BY Numbers DEF Reached, Psram, Sram, Dpram
  <2> QED BY <2>1, <2>2 DEF Unread
<1> QED BY <1>1 DEF Landed, Wrote, Overwrote

\* The word w stores, when it is stored whole.
WholeAt == {16, 20, 28, 32, 48, 52, 64, 68, 80, 96}

\* A store below the DPRAM.
LEMMA SeenFar ==
  ASSUME NEW s, NEW t, NEW a \in Int, NEW n \in 1 .. 4, NEW v, Wrote(s, t, a, n, v), s.seen[80] = WordAt(s, 80),
         a + n <= 80
  PROVE  t.seen[80] = WordAt(t, 80)
<1>1. Reached(a, n) \cap Dpram = {} BY DEF Reached, Dpram
<1>2. Overwrote(s, t, a, n, v) BY DEF Wrote
<1> QED BY <1>1, <1>2, SeenStays

\* A peripheral's register takes any word, through any of its aliases.
LEMMA RegisterTyped ==
  ASSUME NEW s \in BusState, NEW w \in 48 .. 63, NEW v \in WordOf
  PROVE  Missed(s, BU!writeUint32Atomic(s, w, v))
<1>1. BU!Register(w) = 48
  <2>1. \E p \in {48} : w \in BU!Page(p) BY DEF BU!Page, BU!Region
  <2> QED BY <2>1 DEF BU!Register
<1> DEFINE new(type) == IF type = 0 THEN v ELSE BU!atomicUpdate(s.reg[48], type, v)
           type == (w % 16) \div 4
           regs == [s.reg EXCEPT ![48] = new(type)]
           raws == [s.raw EXCEPT ![48] = v]
           t == BU!writeUint32Atomic(s, w, v)
<1>2. t = [s EXCEPT !.reg = regs, !.raw = raws] BY <1>1 DEF BU!writeUint32Atomic
<1>3. new(type) \in WordOf
  <2>1. type \in 0 .. 3 OBVIOUS
  <2>2. s.reg[48] \in WordOf BY DEF BusState
  <2>3. ASSUME NEW i \in BU!Lanes, NEW k \in 1 .. 3
        PROVE  (CASE k = 1 -> (s.reg[48][i] \ v[i]) \cup (v[i] \ s.reg[48][i])
                  [] k = 2 -> s.reg[48][i] \cup v[i]
                  [] k = 3 -> s.reg[48][i] \ v[i]) \in Bits
    <3>1. s.reg[48][i] \in Bits /\ v[i] \in Bits BY <2>2 DEF WordOf
    <3>2. k = 1 \/ k = 2 \/ k = 3 OBVIOUS
    <3> QED BY <3>1, <3>2 DEF Bits
  <2>4. \A k \in 1 .. 3 : BU!atomicUpdate(s.reg[48], k, v) \in WordOf
    BY <2>3 DEF BU!atomicUpdate, WordOf
  <2> HIDE DEF type
  <2> QED BY <2>1, <2>4
<1> HIDE DEF new, type
<1>4. regs \in [{48} -> WordOf] /\ raws \in [{48} -> WordOf] BY <1>3 DEF BusState
<1> HIDE DEF regs, raws, t
<1>5. Missed(s, t) BY <1>2, <1>4 DEF Missed, BusState
<1> QED BY <1>5 DEF t

\* A SIO register takes any word.
LEMMA SioTyped ==
  ASSUME NEW s \in BusState, NEW v \in WordOf
  PROVE  Missed(s, [s EXCEPT !.sio.value = v])
<1> DEFINE sio == [s.sio EXCEPT !.value = v]
           t == [s EXCEPT !.sio.value = v]
<1>1. t = [s EXCEPT !.sio = sio] OBVIOUS
<1>2. sio \in [value : WordOf, reads : {0, 1}] BY DEF BusState
<1> HIDE DEF sio, t
<1>3. Missed(s, t) BY <1>1, <1>2 DEF Missed, BusState
<1> QED BY <1>3 DEF t

\* A read counts in the SIO.
LEMMA SioRead ==
  ASSUME NEW s \in BusState, NEW w, BU!Target(w) = "sio"
  PROVE  Missed(s, BU!readUint32(s, w)[2]) /\ BU!readUint32(s, w)[1] \in WordOf
<1> DEFINE sio == [s.sio EXCEPT !.reads = (@ + 1) % 2]
           t == [s EXCEPT !.sio.reads = (@ + 1) % 2]
<1>1. t = [s EXCEPT !.sio = sio] OBVIOUS
<1>2. sio \in [value : WordOf, reads : {0, 1}] BY DEF BusState
<1> HIDE DEF sio
<1>3. BU!readUint32(s, w) = <<s.sio.value, t>> BY DEF BU!readUint32
<1> HIDE DEF t
<1>4. Missed(s, t) BY <1>1, <1>2 DEF Missed, BusState
<1>5. s.sio.value \in WordOf BY DEF BusState
<1> QED BY <1>3, <1>4, <1>5

\* A whole word.
LEMMA WordWritten ==
  ASSUME NEW s \in BusState, s.seen[80] = WordAt(s, 80), NEW w \in WholeAt, NEW v \in WordOf, NEW u,
         \A i \in 1 .. 4 : u[i] = v[i - 1]
  PROVE  Landed(s, BU!writeUint32(s, w, v), w, 4, u)
<1> DEFINE t == BU!writeUint32(s, w, v)
<1>1. CASE w \in {28, 32}
  <2>1. w \in Int /\ w \in Sram /\ w + 4 - 1 \in Sram /\ w .. w + 3 \subseteq BU!Stores BY <1>1, Numbers DEF Sram
  <2>2. t = BU!invalidate(BU!Put(s, w, v), 28, w, 4)
    BY <2>1, Targets DEF BU!writeUint32, BU!invalidateSramDecode
  <2>3. Wrote(s, BU!Put(s, w, v), w, 4, u) BY <2>1, PutWrites
  <2>4. BU!Put(s, w, v) \in BusState BY <2>3 DEF Wrote, Overwrote
  <2> HIDE DEF t
  <2>5. Landed(s, BU!invalidate(BU!Put(s, w, v), IF w \in Sram THEN 28 ELSE 20, w, 4), w, 4, u)
    BY <2>1, <2>3, <2>4, CodeWritten
  <2> QED BY <2>1, <2>2, <2>5 DEF t
<1>2. CASE w = 20
  <2>1. w \in Int /\ w \in Psram /\ w + 4 - 1 \in Psram /\ w \notin Sram /\ w .. w + 3 \subseteq BU!Stores
    BY <1>2, Numbers DEF Psram, Sram
  <2>2. t = BU!invalidate(BU!Put(s, w, v), 20, w, 4)
    BY <2>1, Targets DEF BU!writeUint32, BU!invalidatePsramDecode
  <2>3. Wrote(s, BU!Put(s, w, v), w, 4, u) BY <2>1, PutWrites
  <2>4. BU!Put(s, w, v) \in BusState BY <2>3 DEF Wrote, Overwrote
  <2> HIDE DEF t
  <2>5. Landed(s, BU!invalidate(BU!Put(s, w, v), IF w \in Sram THEN 28 ELSE 20, w, 4), w, 4, u)
    BY <2>1, <2>3, <2>4, CodeWritten
  <2> QED BY <2>1, <2>2, <2>5 DEF t
<1>3. CASE w \in {16, 68}
  <2>1. t = s
    <3>1. BU!Target(w) = "flash" \/ (BU!Target(w) = "bootram" /\ ~(w % 16 < 4))
      BY <1>3, Targets DEF Flash
    <3> QED BY <3>1 DEF BU!writeUint32
  <2>2. Reached(w, 4) = {} BY <1>3, Numbers DEF Reached, Psram, Sram, Dpram
  <2>3. Missed(s, t) BY <2>1 DEF Missed
  <2> HIDE DEF t
  <2>4. Landed(s, t, w, 4, u) BY <2>2, <2>3, MissedLanded
  <2> QED BY <2>4 DEF t
<1>4. CASE w \in {48, 52}
  <2>1. t = BU!writeUint32Atomic(s, w, v) BY <1>4, Targets DEF BU!writeUint32
  <2>2. Reached(w, 4) = {} BY <1>4, Numbers DEF Reached, Psram, Sram, Dpram
  <2> HIDE DEF t
  <2>3. Missed(s, t) BY <1>4, <2>1, RegisterTyped
  <2>4. Landed(s, t, w, 4, u) BY <2>2, <2>3, MissedLanded
  <2> QED BY <2>4 DEF t
<1>5. CASE w = 96
  <2>1. t = [s EXCEPT !.sio.value = v] BY <1>5, Targets DEF BU!writeUint32
  <2>2. Reached(w, 4) = {} BY <1>5, Numbers DEF Reached, Psram, Sram, Dpram
  <2>3. Missed(s, t) BY <2>1, SioTyped
  <2> HIDE DEF t
  <2>4. Landed(s, t, w, 4, u) BY <2>2, <2>3, MissedLanded
  <2> QED BY <2>4 DEF t
<1>6. CASE w = 64
  <2>1. w .. w + 3 \subseteq BU!Stores BY <1>6, Numbers
  <2>2. t = BU!Put(s, w, v) BY <1>6, Targets DEF BU!writeUint32
  <2> HIDE DEF t
  <2>3. Wrote(s, t, w, 4, u) BY <1>6, <2>1, <2>2, PutWrites
  <2>6. w \in Int /\ 4 \in 1 .. 4 /\ w + 4 <= 80 /\ w >= 64 BY <1>6
  <2>4. t.seen[80] = WordAt(t, 80) BY <2>3, <2>6, SeenFar
  <2>5. Landed(s, t, w, 4, u) BY <2>3, <2>4, <2>6, FarWritten
  <2> QED BY <2>5 DEF t
<1>7. CASE w = 80
  <2> DEFINE p == BU!Put(s, w, v)
             seen == [s.seen EXCEPT ![80] = v]
  <2>1. w .. w + 3 \subseteq BU!Stores /\ 80 \in Dpram BY <1>7, Numbers DEF Dpram
  <2>2. t = [p EXCEPT !.seen[80] = v] BY <1>7, <2>1, Targets DEF BU!writeUint32
  <2>3. Wrote(s, p, w, 4, u) BY <1>7, <2>1, PutWrites
  <2> HIDE DEF p
  <2>4. t = [p EXCEPT !.seen = seen] BY <2>2, <2>3 DEF Wrote, Overwrote
  <2>5. seen \in [{80} -> WordOf] /\ seen[80] = v BY DEF BusState
  <2> HIDE DEF t, seen
  <2>6. t \in BusState /\ t.mem = p.mem /\ t.cache = p.cache /\ t.want = p.want
        /\ t.seen[80] = v
    <3>1. p \in BusState BY <2>3 DEF Wrote, Overwrote
    <3> QED BY <2>4, <2>5, <3>1 DEF BusState
  <2>7. \A i \in BU!Lanes : t.mem[80 + i] = v[i]
    <3>1. ASSUME NEW i \in BU!Lanes PROVE p.mem[80 + i] = v[i]
      <4>1. 80 + i \in BU!Bytes /\ 80 + i \in Reached(80, 4) /\ i \in Int
        BY Numbers DEF Dpram, Reached
      <4>2. p.mem[80 + i] = u[(80 + i) - 80 + 1] BY <1>7, <2>3, <4>1 DEF Wrote, Overwrote
      <4>3. (80 + i) - 80 + 1 = i + 1 /\ i + 1 \in 1 .. 4 /\ (i + 1) - 1 = i BY Numbers
      <4>4. u[i + 1] = v[(i + 1) - 1] BY <4>3
      <4> HIDE DEF p
      <4> QED BY <4>2, <4>3, <4>4
    <3> QED BY <2>6, <3>1
  <2>8. v = [i \in BU!Lanes |-> v[i]] BY DEF WordOf
  <2>9. t.seen[80] = WordAt(t, 80)
    <3>1. WordAt(t, 80) = [i \in BU!Lanes |-> v[i]] BY <2>7 DEF WordAt
    <3> QED BY <2>6, <2>8, <3>1
  <2>10. \A h \in BU!Cached : Unread(h, 80, 4)
    <3>1. \A h \in BU!Cached : h \in {16, 18, 20, 22, 28, 30, 32, 34} BY Numbers
    <3>2. \A b \in Reached(80, 4) : b \in Int /\ 80 <= b BY Numbers DEF Reached, Psram, Sram, Dpram
    <3> QED BY <3>1, <3>2 DEF Unread
  <2>11. Landed(s, t, w, 4, u) BY <1>7, <2>3, <2>6, <2>9, <2>10 DEF Landed, Wrote, Overwrote
  <2> QED BY <2>11 DEF t
<1> QED BY <1>1, <1>2, <1>3, <1>4, <1>5, <1>6, <1>7 DEF WholeAt

\* The word of the boot RAM.
LEMMA BootWord ==
  ASSUME NEW s \in BusState, s.seen[80] = WordAt(s, 80), NEW w, w = 64, NEW v, NEW t, Wrote(s, t, w, 4, v)
  PROVE  Landed(s, t, w, 4, v)
<1>1. w \in Int /\ 4 \in 1 .. 4 /\ w + 4 <= 80 /\ w >= 64 OBVIOUS
<1>2. t.seen[80] = WordAt(t, 80) BY <1>1, SeenFar
<1> QED BY <1>1, <1>2, FarWritten

\* Which accesses store nothing, and where the pages lead.
LEMMA NothingReached ==
  ASSUME NEW a \in Int, NEW n \in Int, (a >= 36 /\ a + n <= 64) \/ (a >= 68 /\ a + n <= 80) \/ a >= 84
  PROVE  Reached(a, n) = {}
<1>1. \A b \in Reached(a, n) : b \in Int /\ a <= b /\ b < a + n BY Numbers DEF Reached, Psram, Sram, Dpram
<1>2. \A b \in Reached(a, n) : b \in 20 .. 23 \cup 28 .. 35 \cup 64 .. 67 \cup 80 .. 83
  BY Numbers DEF Reached, Psram, Sram, Dpram
<1>3. \A b \in Reached(a, n) : FALSE BY <1>1, <1>2
<1> QED BY <1>3

\* The three pages of them.
LEMMA RegisterPage == \A a \in 48 .. 63 : BU!Target(a) = "register"
BY Targets

LEMMA BootPage == \A a \in 64 .. 79 : BU!Target(a) = "bootram"
BY Targets

LEMMA DpramPage == \A a \in 80 .. 83 : BU!Target(a) = "dpram"
BY Targets DEF Dpram

\* A word written with only some of its bytes changed.
Narrow == {1, 2}
LEMMA MergeTyped ==
  ASSUME NEW word \in WordOf, NEW a \in Int, NEW n \in Narrow, NEW v \in [1 .. n -> Bits]
  PROVE  BU!Merge(word, a, n, v) \in WordOf
<1>0. n \in {1, 2} BY DEF Narrow
<1>1. ASSUME NEW i \in BU!Lanes
      PROVE  (IF BU!Within(i, a % 4, n) THEN v[i - (a % 4) + 1] ELSE word[i]) \in Bits
  <2>1. CASE BU!Within(i, a % 4, n)
    <3>1. i - (a % 4) + 1 \in 1 .. n BY <1>0, <2>1 DEF BU!Within, BU!Lanes
    <3> QED BY <2>1, <3>1
  <2>2. CASE ~BU!Within(i, a % 4, n) BY <2>2 DEF WordOf
  <2> QED BY <2>1, <2>2
<1> QED BY <1>1 DEF BU!Merge, WordOf

\* An access within a word, and the bytes of the word after it.
InWord(a, n, w) == w \in {64, 80} /\ a \in w .. w + 3 /\ n \in {1, 2} /\ a + n <= w + 4
Merged(s, w, a, n, v, u) == \A i \in 1 .. 4 : u[i] = BU!Merge(WordAt(s, w), a, n, v)[i - 1]

\* A read-modify-write of the word changes the bytes of the access alone.
LEMMA MergeLanded ==
  ASSUME NEW s, NEW w, NEW a, NEW n, NEW v, NEW u, NEW t,
         InWord(a, n, w), Merged(s, w, a, n, v, u), Landed(s, t, w, 4, u)
  PROVE  Landed(s, t, a, n, v)
<1>0. w \in {64, 80} /\ a \in w .. w + 3 /\ n \in {1, 2} /\ a + n <= w + 4 BY DEF InWord
<1>1. a \in Int /\ w \in Int /\ a % 4 = a - w BY <1>0
<1>2. Reached(a, n) \subseteq Reached(w, 4)
  <2>1. ASSUME NEW b \in Reached(a, n) PROVE b \in BU!Stores /\ w <= b /\ b < w + 4
    <3>1. b \in BU!Stores /\ a <= b /\ b < a + n BY DEF Reached
    <3>2. b \in Int BY <3>1, Numbers DEF Psram, Sram, Dpram
    <3> QED BY <1>0, <1>1, <3>1, <3>2
  <2> QED BY <2>1 DEF Reached
<1>3. \A h \in BU!Cached : Unread(h, w, 4) => Unread(h, a, n) BY <1>2 DEF Unread
<1>4. ASSUME NEW b \in BU!Bytes
      PROVE  t.mem[b] = IF b \in Reached(a, n) THEN v[b - a + 1] ELSE s.mem[b]
  <2>1. t.mem[b] = IF b \in Reached(w, 4) THEN u[b - w + 1] ELSE s.mem[b] BY DEF Landed
  <2>2. CASE b \notin Reached(w, 4) BY <1>2, <2>1, <2>2
  <2>3. CASE b \in Reached(w, 4)
    <3> DEFINE i == b - w
    <3>1. b \in Int /\ i \in BU!Lanes /\ i + 1 \in 1 .. 4 /\ (i + 1) - 1 = i /\ w + i = b
      BY <1>0, <2>3, Numbers DEF Reached, Psram, Sram, Dpram
    <3>2. t.mem[b] = BU!Merge(WordAt(s, w), a, n, v)[i]
      <4>1. u[i + 1] = BU!Merge(WordAt(s, w), a, n, v)[(i + 1) - 1] BY <3>1 DEF Merged
      <4> QED BY <2>1, <2>3, <3>1, <4>1
    <3>3. BU!Merge(WordAt(s, w), a, n, v)[i]
            = IF BU!Within(i, a % 4, n) THEN v[i - (a % 4) + 1] ELSE WordAt(s, w)[i]
      <4> HIDE DEF i
      <4> QED BY <3>1 DEF BU!Merge
    <3>4. BU!Within(i, a % 4, n) <=> b \in Reached(a, n)
      <4>1. BU!Within(i, a % 4, n) <=> (a <= b /\ b < a + n)
        <5> DEFINE k == a % 4
        <5>1. a = w + k /\ b = w + i /\ k \in Int /\ i \in Int /\ w \in Int BY <1>1, <3>1
        <5> HIDE DEF i, k
        <5>4. n \in Int BY <1>0
        <5>3. (i >= k <=> a <= b) /\ (i < k + n <=> b < a + n) BY <5>1, <5>4
        <5>2. BU!Within(i, k, n) <=> (a <= b /\ b < a + n) BY <5>3 DEF BU!Within
        <5> QED BY <5>2 DEF k
      <4>2. b \in BU!Stores BY <2>3 DEF Reached
      <4> QED BY <4>1, <4>2 DEF Reached
    <3>5. i - (a % 4) + 1 = b - a + 1 BY <1>1, <3>1
    <3>6. WordAt(s, w)[i] = s.mem[b]
      <4> HIDE DEF i
      <4> QED BY <3>1 DEF WordAt
    <3> HIDE DEF i
    <3>7. CASE b \in Reached(a, n) BY <3>2, <3>3, <3>4, <3>5, <3>7
    <3>8. CASE b \notin Reached(a, n) BY <3>2, <3>3, <3>4, <3>6, <3>8
    <3> QED BY <3>7, <3>8
  <2> QED BY <2>2, <2>3
<1> QED BY <1>3, <1>4 DEF Landed

\* The addresses that narrow stores are made to.
NarrowAt == 16 .. 23 \cup 28 .. 35 \cup 48 .. 55 \cup 64 .. 71 \cup 80 .. 83 \cup 96 .. 99

\* What a word of memory holds.
LEMMA WordAtTyped ==
  ASSUME NEW s \in BusState, NEW w \in {64, 80}
  PROVE  WordAt(s, w) \in WordOf
<1>1. \A i \in BU!Lanes : w + i \in BU!Bytes BY Numbers DEF Dpram
<1>2. \A i \in BU!Lanes : s.mem[w + i] \in Bits BY <1>1 DEF BusState
<1> QED BY <1>2 DEF WordAt, WordOf

\* A byte or a halfword is stored, whichever way the target takes.
LEMMA NarrowWritten ==
  ASSUME NEW s \in BusState, s.seen[80] = WordAt(s, 80), NEW a \in NarrowAt, NEW n \in {1, 2}, a % n = 0,
         NEW v \in [1 .. n -> Bits]
  PROVE  Landed(s, BU!WriteNarrow(s, a, n, v), a, n, v)
<1> DEFINE t == BU!WriteNarrow(s, a, n, v)
           w == BU!Word(a)
<1> HIDE DEF t, w
<1>0. a \in Int /\ n \in 1 .. 4 /\ n \in Narrow BY DEF NarrowAt, Narrow
<1>1. CASE a \in Sram
  <2>1. a + n - 1 \in Sram /\ a .. a + n - 1 \subseteq BU!Stores
    <3>1. a + n - 1 \in Sram BY <1>1 DEF Sram
    <3> QED BY <1>1, <3>1, Numbers DEF Sram
  <2>2. t = BU!invalidate(BU!PutBytes(s, a, n, v), 28, a, n)
    BY <1>1, Targets DEF t, BU!WriteNarrow, BU!invalidateSramDecode
  <2>3. Wrote(s, BU!PutBytes(s, a, n, v), a, n, v) BY <1>0, <2>1, PutBytesWrites
  <2>4. BU!PutBytes(s, a, n, v) \in BusState BY <2>3 DEF Wrote, Overwrote
  <2>5. Landed(s, BU!invalidate(BU!PutBytes(s, a, n, v), IF a \in Sram THEN 28 ELSE 20, a, n), a, n, v)
    BY <1>0, <1>1, <2>1, <2>3, <2>4, CodeWritten
  <2> QED BY <1>1, <2>2, <2>5 DEF t
<1>2. CASE a \in Psram
  <2>1. a + n - 1 \in Psram /\ a .. a + n - 1 \subseteq BU!Stores /\ a \notin Sram
    <3>1. a + n - 1 \in Psram BY <1>2 DEF Psram
    <3> QED BY <1>2, <3>1, Numbers DEF Sram, Psram
  <2>2. t = BU!invalidate(BU!PutBytes(s, a, n, v), 20, a, n)
    BY <1>2, Targets DEF t, BU!WriteNarrow, BU!invalidatePsramDecode
  <2>3. Wrote(s, BU!PutBytes(s, a, n, v), a, n, v) BY <1>0, <2>1, PutBytesWrites
  <2>4. BU!PutBytes(s, a, n, v) \in BusState BY <2>3 DEF Wrote, Overwrote
  <2>5. Landed(s, BU!invalidate(BU!PutBytes(s, a, n, v), IF a \in Sram THEN 28 ELSE 20, a, n), a, n, v)
    BY <1>0, <1>2, <2>1, <2>3, <2>4, CodeWritten
  <2> QED BY <2>1, <2>2, <2>5 DEF t
<1>3. CASE a \in Flash \cup 68 .. 71
  <2>1. t = s
    <3>1. BU!Target(a) = "flash" \/ (BU!Target(a) = "bootram" /\ ~(a % 16 < 4))
      <4>1. CASE a \in Flash BY <4>1, Targets
      <4>2. CASE a \in 68 .. 71
        <5>1. a \in 64 .. 79 /\ ~(a % 16 < 4) BY <4>2
        <5> QED BY <5>1, BootPage
      <4> QED BY <1>3, <4>1, <4>2
    <3> QED BY <3>1 DEF t, BU!WriteNarrow
  <2>2. Reached(a, n) = {}
    <3>1. \A b \in Reached(a, n) : b \in 16 .. 20 \cup 68 .. 72 /\ a <= b /\ b < a + n
      BY <1>3, Numbers DEF Reached, Psram, Sram, Dpram, Flash
    <3>2. a + n <= 20 \/ a \in 68 .. 71 BY <1>3 DEF Flash
    <3>3. \A b \in Reached(a, n) : b \in 16 .. 19 \cup 68 .. 72 BY <1>0, <1>3, <3>1, <3>2 DEF Flash
    <3> QED BY <3>3, Numbers DEF Reached, Psram, Sram, Dpram
  <2>3. Missed(s, t) BY <2>1 DEF Missed
  <2>4. Landed(s, t, a, n, v) BY <2>2, <2>3, MissedLanded
  <2> QED BY <2>4 DEF t
<1>4. CASE a \in 48 .. 55
  <2>1. t = BU!writeUint32Atomic(s, w, BU!Replicate(n, v))
    <3>1. a \in 48 .. 63 BY <1>4
    <3>2. BU!Target(a) = "register" BY <3>1, RegisterPage
    <3> QED BY <3>2 DEF t, w, BU!WriteNarrow
  <2>2. w \in 48 .. 63 BY <1>4 DEF w, BU!Word
  <2>3. BU!Replicate(n, v) \in WordOf
    <3>1. \A i \in BU!Lanes : (i % n) + 1 \in 1 .. n BY DEF BU!Lanes
    <3> QED BY <3>1 DEF BU!Replicate, WordOf
  <2>4. Reached(a, n) = {}
    <3>1. a >= 36 /\ a + n <= 64 /\ n \in Int BY <1>4
    <3> QED BY <1>0, <3>1, NothingReached
  <2>5. Missed(s, t) BY <2>1, <2>2, <2>3, RegisterTyped
  <2>6. Landed(s, t, a, n, v) BY <2>4, <2>5, MissedLanded
  <2> QED BY <2>6 DEF t
<1>5. CASE a \in 64 .. 67
  <2>1. w = 64 /\ a % 16 < 4 /\ BU!Target(a) = "bootram"
    <3>1. w = 64 /\ a % 16 < 4 BY <1>5 DEF w, BU!Word
    <3>2. a \in 64 .. 79 BY <1>5
    <3> QED BY <3>1, <3>2, BootPage
  <2> DEFINE merged == BU!Merge(WordAt(s, 64), a, n, v)
             u == [i \in 1 .. 4 |-> merged[i - 1]]
  <2>2. BU!readUint32(s, 64)[1] = WordAt(s, 64) BY ReadsWord
  <2>3. t = BU!Put(s, 64, merged)
    <3> QED BY <2>1, <2>2 DEF t, BU!WriteNarrow, BU!ByteAddressable, w
  <2>4. merged \in WordOf
    <3>1. WordAt(s, 64) \in WordOf BY WordAtTyped
    <3> QED BY <1>0, <3>1, MergeTyped
  <2>5. w .. w + 3 \subseteq BU!Stores /\ w \in Int BY <2>1, Numbers
  <2>8. t = BU!Put(s, w, merged) BY <2>1, <2>3
  <2>6. \A i \in 1 .. 4 : u[i] = merged[i - 1] OBVIOUS
  <2> HIDE DEF u, merged
  <2>7. Wrote(s, t, w, 4, u)
    <3>1. Wrote(s, BU!Put(s, w, merged), w, 4, u) BY <2>4, <2>5, <2>6, PutWrites
    <3> QED BY <2>8, <3>1
  <2>10. Landed(s, t, w, 4, u) BY <2>1, <2>7, BootWord
  <2>11. InWord(a, n, w) BY <1>5, <2>1 DEF InWord
  <2>13. Merged(s, w, a, n, v, u) BY <2>1, <2>6 DEF Merged, merged
  <2>12. Landed(s, t, a, n, v) BY <2>10, <2>11, <2>13, MergeLanded
  <2> QED BY <2>12 DEF t
<1>6. CASE a \in 80 .. 83
  <2>1. w = 80 /\ BU!Target(a) = "dpram"
    <3>1. w = 80 BY <1>6 DEF w, BU!Word
    <3>2. BU!Target(a) = "dpram" BY <1>6, DpramPage
    <3> QED BY <3>1, <3>2
  <2> DEFINE merged == BU!Merge(WordAt(s, 80), a, n, v)
             u == [i \in 1 .. 4 |-> merged[i - 1]]
  <2>2. BU!readUint32(s, 80) = <<WordAt(s, 80), s>> BY ReadsWord
  <2>3. t = BU!writeUint32(s, 80, merged)
    <3> QED BY <2>1, <2>2 DEF t, BU!WriteNarrow, w
  <2>4. merged \in WordOf
    <3>1. WordAt(s, 80) \in WordOf BY WordAtTyped
    <3> QED BY <1>0, <3>1, MergeTyped
  <2>5. \A i \in 1 .. 4 : u[i] = merged[i - 1] OBVIOUS
  <2> HIDE DEF u, merged
  <2>6. 80 \in WholeAt BY DEF WholeAt
  <2>7. Landed(s, BU!writeUint32(s, 80, merged), 80, 4, u) BY <2>4, <2>5, <2>6, WordWritten
  <2>8. Landed(s, t, 80, 4, u) BY <2>3, <2>7
  <2>9. InWord(a, n, w) BY <1>6, <2>1 DEF InWord
  <2>11. Merged(s, w, a, n, v, u) BY <2>1, <2>5 DEF Merged, merged
  <2>12. Landed(s, t, w, 4, u) BY <2>1, <2>8
  <2>10. Landed(s, t, a, n, v) BY <2>9, <2>11, <2>12, MergeLanded
  <2> QED BY <2>10 DEF t
<1>7. CASE a \in 96 .. 99
  <2>1. w = 96 /\ BU!Target(a) = "sio" /\ BU!Target(96) = "sio"
    <3>1. w = 96 BY <1>7 DEF w, BU!Word
    <3>2. 96 \in 96 .. 99 OBVIOUS
    <3> QED BY <1>7, <3>1, <3>2, Targets
  <2> DEFINE r == BU!readUint32(s, 96)
             merged == BU!Merge(r[1], a, n, v)
  <2>2. t = BU!writeUint32(r[2], 96, merged)
    <3> HIDE DEF r
    <3>1. t = BU!writeUint32(BU!readUint32(s, w)[2], w, BU!Merge(BU!readUint32(s, w)[1], a, n, v))
      BY <2>1 DEF t, BU!WriteNarrow, w
    <3> QED BY <2>1, <3>1 DEF r
  <2>3. Missed(s, r[2]) /\ r[1] \in WordOf BY <2>1, SioRead
  <2> HIDE DEF r
  <2>4. merged \in WordOf BY <1>0, <2>3, MergeTyped
  <2> HIDE DEF merged
  <2>5. t = [r[2] EXCEPT !.sio.value = merged] BY <2>1, <2>2 DEF BU!writeUint32
  <2>6. Missed(r[2], t)
    <3>1. r[2] \in BusState BY <2>3 DEF Missed
    <3>2. Missed(r[2], [r[2] EXCEPT !.sio.value = merged]) BY <2>4, <3>1, SioTyped
    <3> QED BY <2>5, <3>2
  <2>7. Missed(s, t) BY <2>3, <2>6 DEF Missed
  <2>8. Reached(a, n) = {}
    <3>1. a >= 84 /\ n \in Int BY <1>7
    <3> QED BY <1>0, <3>1, NothingReached
  <2>9. Landed(s, t, a, n, v) BY <2>7, <2>8, MissedLanded
  <2> QED BY <2>9 DEF t
<1> QED BY <1>1, <1>2, <1>3, <1>4, <1>5, <1>6, <1>7 DEF NarrowAt, Flash, Psram, Sram

\* What the run checks, of any state of the bus; and the inductive invariant: with the
\* types, it needs no more than that.
Fresh(s) == \A h \in BU!Cached : \/ s.cache[h] = BU!None
                                 \/ s.cache[h] = BU!decodeUncached(s, h)
                                 \/ Len(s.cache[h]) = 4 /\ BU!Target(h) # BU!Target(h + 2)

BusRight(s) == /\ s \in BusState /\ Fresh(s) /\ s.seen[80] = WordAt(s, 80)
               /\ \A b \in BU!Stores : s.mem[b] = s.want[b]

\* The invariant is what the run checks.
LEMMA BusCoherentIs == BusRight(bus) => BU!DecodeCacheFresh /\ BU!StoresLand /\ BU!WidthsAgree /\ BU!DpramSeen
<1> SUFFICES ASSUME BusRight(bus)
             PROVE BU!DecodeCacheFresh /\ BU!StoresLand /\ BU!WidthsAgree /\ BU!DpramSeen
  OBVIOUS
<1>1. BU!DecodeCacheFresh BY DEF BusRight, Fresh, BU!DecodeCacheFresh
<1>2. BU!StoresLand BY DEF BusRight, BU!StoresLand
<1>3. BU!DpramSeen
  <2>1. DOMAIN bus.seen = {80} BY DEF BusRight, BusState
  <2>2. BU!readUint32(bus, 80)[1] = WordAt(bus, 80) BY ReadsWord
  <2> QED BY <2>1, <2>2 DEF BusRight, BU!DpramSeen
<1> QED BY <1>1, <1>2, <1>3, WidthsAgreeAlways

\* A halfword read is two bytes, wherever.
LEMMA HalfIsPair == \A s, a : \E x, y : BU!readUint16(s, a)[1] = <<x, y>>
<1> SUFFICES ASSUME NEW s, NEW a PROVE \E x, y : BU!readUint16(s, a)[1] = <<x, y>> OBVIOUS
<1>1. CASE BU!Direct(a) BY <1>1 DEF BU!readUint16
<1>2. CASE ~BU!Direct(a)
  <2> DEFINE r == BU!readUint32(s, BU!Word(a))
  <2>1. BU!readUint16(s, a) = <<IF (a \div 2) % 2 = 1 THEN <<r[1][2], r[1][3]>> ELSE <<r[1][0], r[1][1]>>, r[2]>>
    BY <1>2 DEF BU!readUint16
  <2> HIDE DEF r
  <2> QED BY <2>1
<1> QED BY <1>1, <1>2

\* Two halfwords are four bytes.
LEMMA TwoAndTwo == \A a, b, c, d : Len(<<a, b>> \o <<c, d>>) = 4
<1> SUFFICES ASSUME NEW a, NEW b, NEW c, NEW d PROVE Len(<<a, b>> \o <<c, d>>) = 4 OBVIOUS
<1> DEFINE S == {a, b, c, d}
           first == <<a, b>>
           second == <<c, d>>
<1>1. first \in Seq(S) /\ second \in Seq(S) OBVIOUS
<1>2. Len(first) = 2 /\ Len(second) = 2 OBVIOUS
<1> HIDE DEF first, second, S
<1>3. Len(first \o second) = Len(first) + Len(second) BY <1>1, ConcatProperties
<1> QED BY <1>2, <1>3 DEF first, second

\* An instruction that is decoded.
LEMMA Decodes ==
  ASSUME NEW s, NEW h \in BU!Cached
  PROVE  /\ s.mem[h] # UNION Byte => BU!decodeUncached(s, h) = <<s.mem[h], s.mem[h + 1]>>
         /\ s.mem[h] = UNION Byte =>
              /\ BU!decodeUncached(s, h) = <<s.mem[h], s.mem[h + 1]>> \o BU!readUint16(s, h + 2)[1]
              /\ Len(BU!decodeUncached(s, h)) = 4
<1>1. h \in {16, 18, 20, 22, 28, 30, 32, 34} BY Numbers
<1>2. BU!readUint16(s, h)[1] = <<s.mem[h], s.mem[h + 1]>>
  <2>1. h \in Halves BY <1>1 DEF Halves
  <2>2. BU!readUint16(s, h) = <<<<s.mem[h], s.mem[h + 1]>>, s>> BY <2>1, ReadsHalf
  <2> QED BY <2>2
<1> DEFINE first == <<s.mem[h], s.mem[h + 1]>>
<1>3. BU!decodeUncached(s, h)
        = IF s.mem[h] = UNION Byte THEN first \o BU!readUint16(s, h + 2)[1] ELSE first
  BY <1>2 DEF BU!decodeUncached
<1>4. Len(first \o BU!readUint16(s, h + 2)[1]) = 4
  <2>1. PICK x, y : BU!readUint16(s, h + 2)[1] = <<x, y>> BY HalfIsPair
  <2>2. Len(first \o <<x, y>>) = 4 BY TwoAndTwo
  <2> HIDE DEF first
  <2> QED BY <2>1, <2>2
<1> HIDE DEF first
<1> QED BY <1>3, <1>4 DEF first

\* Where an instruction ends in the memory it begins in.
SameEnd == {16, 20, 28, 30, 32}
LEMMA Ends ==
  \A h \in BU!Cached : /\ h \in SameEnd => h + 2 \in BU!Cached /\ BU!Target(h) = BU!Target(h + 2)
                       /\ h \notin SameEnd => BU!Target(h) # BU!Target(h + 2)
<1>1. \A h \in BU!Cached : h \in {16, 18, 20, 22, 28, 30, 32, 34} BY Numbers
<1>2. BU!Target(16) = "flash" /\ BU!Target(18) = "flash" /\ BU!Target(20) = "psram"
      /\ BU!Target(22) = "psram" /\ BU!Target(24) = "flash" /\ BU!Target(36) = "none"
      /\ \A h \in {28, 30, 32, 34} : BU!Target(h) = "sram"
  BY Targets DEF Flash, Psram, Sram
<1> QED BY <1>1, <1>2, Numbers DEF SameEnd

\* A store leaves every decoded instruction that it does not forget as it is in memory.
LEMMA FreshStays ==
  ASSUME NEW s \in BusState, Fresh(s), NEW a, NEW n, NEW v, NEW t, Landed(s, t, a, n, v)
  PROVE  Fresh(t)
<1> SUFFICES ASSUME NEW h \in BU!Cached, t.cache[h] # BU!None
             PROVE  \/ t.cache[h] = BU!decodeUncached(t, h)
                    \/ Len(t.cache[h]) = 4 /\ BU!Target(h) # BU!Target(h + 2)
  BY DEF Fresh
<1>1. h \in {16, 18, 20, 22, 28, 30, 32, 34} BY Numbers
<1>2. t.cache[h] = s.cache[h] /\ Unread(h, a, n) BY DEF Landed
<1>3. \/ s.cache[h] = BU!decodeUncached(s, h)
      \/ Len(s.cache[h]) = 4 /\ BU!Target(h) # BU!Target(h + 2)
  BY <1>2 DEF Fresh
<1>4. ASSUME NEW b \in h .. h + 3, b \in BU!Bytes, BU!Target(b) = BU!Target(h) PROVE t.mem[b] = s.mem[b]
  <2>1. b \notin Reached(a, n) BY <1>1, <1>2, <1>4 DEF Unread
  <2> QED BY <1>4, <2>1 DEF Landed
<1>5. h \in BU!Bytes /\ h + 1 \in BU!Bytes /\ BU!Target(h + 1) = BU!Target(h)
  <2>1. (h \in Flash /\ h + 1 \in Flash) \/ (h \in Psram /\ h + 1 \in Psram) \/ (h \in Sram /\ h + 1 \in Sram)
    BY <1>1 DEF Flash, Psram, Sram
  <2> QED BY <2>1, Targets, Numbers
<1>6. t.mem[h] = s.mem[h] /\ t.mem[h + 1] = s.mem[h + 1]
  <2>1. h \in h .. h + 3 /\ h + 1 \in h .. h + 3 BY <1>1
  <2> QED BY <1>4, <1>5, <2>1
<1>7. CASE h \notin SameEnd
  <2>1. BU!Target(h) # BU!Target(h + 2) BY <1>7, Ends
  <2>2. CASE s.mem[h] = UNION Byte
    <3>1. Len(BU!decodeUncached(s, h)) = 4 BY <2>2, Decodes
    <3> QED BY <1>2, <1>3, <2>1, <3>1
  <2>3. CASE s.mem[h] # UNION Byte
    <3>1. BU!decodeUncached(t, h) = BU!decodeUncached(s, h)
      <4>1. BU!decodeUncached(s, h) = <<s.mem[h], s.mem[h + 1]>> BY <2>3, Decodes
      <4>2. BU!decodeUncached(t, h) = <<t.mem[h], t.mem[h + 1]>> BY <1>6, <2>3, Decodes
      <4> QED BY <1>6, <4>1, <4>2
    <3> QED BY <1>2, <1>3, <3>1
  <2> QED BY <2>2, <2>3
<1>8. CASE h \in SameEnd
  <2>1. h + 2 \in BU!Cached /\ BU!Target(h + 2) = BU!Target(h) BY <1>8, Ends
  <2>2. h + 2 \in {18, 22, 30, 32, 34} BY <1>8 DEF SameEnd
  <2>3. BU!readUint16(s, h + 2)[1] = <<s.mem[h + 2], s.mem[h + 2 + 1]>>
        /\ BU!readUint16(t, h + 2)[1] = <<t.mem[h + 2], t.mem[h + 2 + 1]>>
    <3> DEFINE k == h + 2
    <3>1. k \in Halves BY <2>2 DEF Halves
    <3> HIDE DEF k
    <3>2. BU!readUint16(s, k) = <<<<s.mem[k], s.mem[k + 1]>>, s>> BY <3>1, ReadsHalf
    <3>3. BU!readUint16(t, k) = <<<<t.mem[k], t.mem[k + 1]>>, t>> BY <3>1, ReadsHalf
    <3>4. BU!readUint16(s, k)[1] = <<s.mem[k], s.mem[k + 1]>>
          /\ BU!readUint16(t, k)[1] = <<t.mem[k], t.mem[k + 1]>>
      BY <3>2, <3>3
    <3> QED BY <3>4 DEF k
  <2>4. t.mem[h + 2] = s.mem[h + 2] /\ t.mem[h + 2 + 1] = s.mem[h + 2 + 1]
    <3>1. h + 2 \in h .. h + 3 /\ h + 2 + 1 \in h .. h + 3 BY <1>1
    <3>2. h + 2 \in BU!Bytes /\ h + 2 + 1 \in BU!Bytes BY <2>2, Numbers DEF Flash, Psram, Sram
    <3>3. BU!Target(h + 2 + 1) = BU!Target(h + 2)
      <4>1. (h + 2 \in Flash /\ h + 2 + 1 \in Flash) \/ (h + 2 \in Psram /\ h + 2 + 1 \in Psram)
            \/ (h + 2 \in Sram /\ h + 2 + 1 \in Sram)
        BY <2>2 DEF Flash, Psram, Sram
      <4> QED BY <4>1, Targets
    <3> QED BY <1>4, <2>1, <3>1, <3>2, <3>3
  <2>5. BU!decodeUncached(t, h) = BU!decodeUncached(s, h)
    <3>1. CASE s.mem[h] = UNION Byte
      <4>1. BU!decodeUncached(s, h) = <<s.mem[h], s.mem[h + 1]>> \o BU!readUint16(s, h + 2)[1]
        BY <3>1, Decodes
      <4>2. BU!decodeUncached(t, h) = <<t.mem[h], t.mem[h + 1]>> \o BU!readUint16(t, h + 2)[1]
        BY <1>6, <3>1, Decodes
      <4> QED BY <1>6, <2>3, <2>4, <4>1, <4>2
    <3>2. CASE s.mem[h] # UNION Byte
      <4>1. BU!decodeUncached(s, h) = <<s.mem[h], s.mem[h + 1]>> BY <3>2, Decodes
      <4>2. BU!decodeUncached(t, h) = <<t.mem[h], t.mem[h + 1]>> BY <1>6, <3>2, Decodes
      <4> QED BY <1>6, <4>1, <4>2
    <3> QED BY <3>1, <3>2
  <2>6. BU!Target(h) = BU!Target(h + 2) BY <2>1
  <2> QED BY <1>2, <1>3, <2>5, <2>6
<1> QED BY <1>7, <1>8

\* Nothing that the properties see has changed.
LEMMA RightStays ==
  ASSUME NEW s, BusRight(s), NEW t, Missed(s, t)
  PROVE  BusRight(t)
<1>1. s \in BusState /\ s.seen[80] = WordAt(s, 80) /\ Fresh(s) BY DEF BusRight
<1>2. Landed(s, t, 100, 1, <<>>)
  <2>1. Reached(100, 1) = {} BY Numbers DEF Reached, Psram, Sram, Dpram
  <2> QED BY <1>1, <2>1, MissedLanded
<1>3. Fresh(t) BY <1>1, <1>2, FreshStays
<1> QED BY <1>2, <1>3 DEF BusRight, Landed, Missed

\* What is read depends on the memories and registers alone.
LEMMA ReadsSame ==
  ASSUME NEW s, NEW t, t.mem = s.mem, t.sio = s.sio, t.ppb = s.ppb, t.reg = s.reg, NEW a
  PROVE  BU!decodeUncached(t, a) = BU!decodeUncached(s, a)
<1>1. ASSUME NEW w PROVE BU!readUint32(t, w)[1] = BU!readUint32(s, w)[1]
  <2>1. CASE BU!Target(w) = "sio" BY <2>1 DEF BU!readUint32
  <2>2. CASE BU!Target(w) = "ppb" BY <2>2 DEF BU!readUint32
  <2>3. CASE BU!Target(w) = "register" BY <2>3 DEF BU!readUint32
  <2>4. CASE BU!Target(w) \notin {"sio", "ppb", "register"}
    <3>1. CASE BU!Target(w) = "bootram" /\ w % 16 >= 4 BY <3>1 DEF BU!readUint32
    <3>2. CASE ~(BU!Target(w) = "bootram" /\ w % 16 >= 4)
      <4>1. BU!readUint32(t, w) = <<[i \in BU!Lanes |-> t.mem[BU!Cell(w + i)]], t>>
        BY <2>4, <3>2 DEF BU!readUint32
      <4>2. BU!readUint32(s, w) = <<[i \in BU!Lanes |-> s.mem[BU!Cell(w + i)]], s>>
        BY <2>4, <3>2 DEF BU!readUint32
      <4> QED BY <4>1, <4>2
    <3> QED BY <3>1, <3>2
  <2> QED BY <2>1, <2>2, <2>3, <2>4
<1>2. ASSUME NEW b PROVE BU!readUint16(t, b)[1] = BU!readUint16(s, b)[1]
  <2>1. CASE BU!Direct(b) BY <2>1 DEF BU!readUint16
  <2>2. CASE ~BU!Direct(b)
    <3> DEFINE w == BU!Word(b)
    <3>1. BU!readUint32(t, w)[1] = BU!readUint32(s, w)[1] BY <1>1
    <3>2. BU!readUint16(t, b)[1] = IF (b \div 2) % 2 = 1
            THEN <<BU!readUint32(t, w)[1][2], BU!readUint32(t, w)[1][3]>>
            ELSE <<BU!readUint32(t, w)[1][0], BU!readUint32(t, w)[1][1]>>
      BY <2>2 DEF BU!readUint16
    <3>3. BU!readUint16(s, b)[1] = IF (b \div 2) % 2 = 1
            THEN <<BU!readUint32(s, w)[1][2], BU!readUint32(s, w)[1][3]>>
            ELSE <<BU!readUint32(s, w)[1][0], BU!readUint32(s, w)[1][1]>>
      BY <2>2 DEF BU!readUint16
    <3> HIDE DEF w
    <3> QED BY <3>1, <3>2, <3>3
  <2> QED BY <2>1, <2>2
<1>3. BU!readUint16(t, a)[1] = BU!readUint16(s, a)[1] /\ BU!readUint16(t, a + 2)[1] = BU!readUint16(s, a + 2)[1]
  BY <1>2
<1> QED BY <1>3 DEF BU!decodeUncached

\* Reading changes nothing that the properties see.
LEMMA ReadKeeps ==
  ASSUME NEW s \in BusState, NEW a
  PROVE  /\ Missed(s, BU!readUint32(s, a)[2]) /\ Missed(s, BU!readUint16(s, a)[2])
         /\ Missed(s, BU!readUint8(s, a)[2])
<1>0. Missed(s, s) BY DEF Missed
<1>1. ASSUME NEW w PROVE Missed(s, BU!readUint32(s, w)[2])
  <2>1. CASE BU!Target(w) = "sio" BY <2>1, SioRead
  <2>2. CASE BU!Target(w) # "sio"
    <3>1. BU!readUint32(s, w)[2] = s BY <2>2 DEF BU!readUint32
    <3> QED BY <1>0, <3>1
  <2> QED BY <2>1, <2>2
<1>2. ASSUME NEW b PROVE Missed(s, BU!readUint16(s, b)[2])
  <2>1. CASE BU!Direct(b)
    <3>1. BU!readUint16(s, b)[2] = s BY <2>1 DEF BU!readUint16
    <3> QED BY <1>0, <3>1
  <2>2. CASE ~BU!Direct(b)
    <3>1. BU!readUint16(s, b)[2] = BU!readUint32(s, BU!Word(b))[2] BY <2>2 DEF BU!readUint16
    <3> QED BY <1>1, <3>1
  <2> QED BY <2>1, <2>2
<1>3. Missed(s, BU!readUint8(s, a)[2])
  <2>1. CASE BU!Direct(a)
    <3>1. BU!readUint8(s, a)[2] = s BY <2>1 DEF BU!readUint8
    <3> QED BY <1>0, <3>1
  <2>2. CASE ~BU!Direct(a)
    <3>1. BU!readUint8(s, a)[2] = BU!readUint16(s, a - (a % 2))[2] BY <2>2 DEF BU!readUint8
    <3> QED BY <1>2, <3>1
  <2> QED BY <2>1, <2>2
<1> QED BY <1>1, <1>2, <1>3

\* An access that throws changes nothing else.
LEMMA ThrewMissed == \A s \in BusState : Missed(s, [s EXCEPT !.threw = TRUE])
<1> SUFFICES ASSUME NEW s \in BusState PROVE Missed(s, [s EXCEPT !.threw = TRUE]) OBVIOUS
<1> DEFINE t == [s EXCEPT !.threw = TRUE]
<1>1. t \in BusState /\ t.mem = s.mem /\ t.want = s.want /\ t.cache = s.cache /\ t.seen = s.seen
  BY DEF BusState
<1> HIDE DEF t
<1>2. Missed(s, t) BY <1>1 DEF Missed
<1> QED BY <1>2 DEF t

\* The addresses that the program uses.
Used == NarrowAt \cup {44}

\* Every action keeps the invariant: a store,
LEMMA StoreRight ==
  ASSUME BusRight(bus), NEW a \in Used, NEW n \in {1, 2, 4}, NEW v \in [1 .. n -> Bits], BU!Store(a, n, v)
  PROVE  BusRight(bus')
<1> DEFINE s == bus
<1>1. s \in BusState /\ s.seen[80] = WordAt(s, 80) /\ Fresh(s) /\ \A b \in BU!Stores : s.mem[b] = s.want[b]
  BY DEF BusRight
<1>2. CASE BU!Throws(a, n)
  <2>1. bus' = [s EXCEPT !.threw = TRUE] BY <1>2 DEF BU!Store
  <2>2. Missed(s, bus') BY <1>1, <2>1, ThrewMissed
  <2> HIDE DEF s
  <2> QED BY <2>2, RightStays DEF s
<1>3. CASE ~BU!Throws(a, n)
  <2> DEFINE lanes == [i \in BU!Lanes |-> v[i + 1]]
             u == CASE n = 1 -> BU!writeUint8(s, a, v)
                    [] n = 2 -> BU!writeUint16(s, a, v)
                    [] n = 4 -> BU!writeUint32(s, a, lanes)
             meant == BU!Meant(a, n, v)
  <2>1. bus' = [u EXCEPT !.want = meant] BY <1>3 DEF BU!Store
  <2>2. a \in NarrowAt
    <3>1. a # 44
      <4>1. BU!Word(44) = 44 BY DEF BU!Word
      <4> QED BY <1>3, <4>1, Targets DEF BU!Throws
    <3> QED BY <3>1 DEF Used
  <2>3. Landed(s, u, a, n, v)
    <3>1. CASE n = 4
      <4>1. a % 4 = 0 BY <1>3, <3>1 DEF BU!Throws, BU!Aligned
      <4>2. a \in WholeAt BY <2>2, <4>1 DEF NarrowAt, WholeAt
      <4>3. lanes \in WordOf
        <5>1. \A i \in BU!Lanes : i + 1 \in 1 .. n BY <3>1 DEF BU!Lanes
        <5> QED BY <5>1 DEF WordOf
      <4>4. \A i \in 1 .. 4 : v[i] = lanes[i - 1]
        <5>1. \A i \in 1 .. 4 : i - 1 \in BU!Lanes /\ (i - 1) + 1 = i BY DEF BU!Lanes
        <5> QED BY <5>1
      <4>5. u = BU!writeUint32(s, a, lanes) BY <3>1
      <4> HIDE DEF u, lanes, s
      <4>6. Landed(s, BU!writeUint32(s, a, lanes), a, 4, v) BY <1>1, <4>2, <4>3, <4>4, WordWritten
      <4> QED BY <3>1, <4>5, <4>6
    <3>2. CASE n \in {1, 2}
      <4>1. a % n = 0 BY <3>2 DEF BU!Store, BU!Aligned
      <4>2. u = BU!WriteNarrow(s, a, n, v) BY <3>2 DEF BU!writeUint8, BU!writeUint16
      <4> HIDE DEF u, s
      <4>3. Landed(s, BU!WriteNarrow(s, a, n, v), a, n, v) BY <1>1, <2>2, <3>2, <4>1, NarrowWritten
      <4> QED BY <4>2, <4>3
    <3> QED BY <3>1, <3>2
  <2> HIDE DEF u
  <2>4. ASSUME NEW b \in BU!Stores
        PROVE  /\ (IF b \in BU!Region(a, n) THEN v[b - a + 1] ELSE s.want[b]) \in Bits
               /\ (IF b \in BU!Region(a, n) THEN v[b - a + 1] ELSE s.want[b]) = u.mem[b]
    <3>1. b \in BU!Bytes /\ b \in Int /\ a \in Int BY <2>2, Numbers DEF NarrowAt, Psram, Sram, Dpram
    <3>2. b \in BU!Region(a, n) <=> b \in Reached(a, n) BY <3>1 DEF BU!Region, Reached
    <3>3. u.mem[b] = IF b \in Reached(a, n) THEN v[b - a + 1] ELSE s.mem[b] BY <2>3, <3>1 DEF Landed
    <3>4. u.mem[b] \in Bits BY <2>3, <3>1 DEF Landed, BusState
    <3>5. s.mem[b] = s.want[b] BY <1>1
    <3> QED BY <3>2, <3>3, <3>4, <3>5
  <2>5. meant \in [BU!Stores -> Bits] /\ \A b \in BU!Stores : meant[b] = u.mem[b]
    <3>1. meant = [b \in BU!Stores |-> IF b \in BU!Region(a, n) THEN v[b - a + 1] ELSE s.want[b]]
      BY DEF BU!Meant
    <3> HIDE DEF meant, s
    <3> QED BY <2>4, <3>1
  <2> HIDE DEF meant, s
  <2>6. bus' \in BusState /\ bus'.want = meant /\ bus'.mem = u.mem /\ bus'.cache = u.cache /\ bus'.seen = u.seen
    BY <2>1, <2>3, <2>5 DEF Landed, BusState
  <2>7. Landed(s, bus', a, n, v) BY <2>3, <2>6 DEF Landed, WordAt
  <2>8. Fresh(bus') BY <1>1, <2>7, FreshStays
  <2> QED BY <2>5, <2>6, <2>7, <2>8 DEF BusRight, Landed
<1> QED BY <1>2, <1>3

\* a load,
LEMMA LoadRight ==
  ASSUME BusRight(bus), NEW a, NEW n \in {1, 2, 4}, BU!Load(a, n)
  PROVE  BusRight(bus')
<1>1. bus \in BusState BY DEF BusRight
<1>2. \/ bus' = [bus EXCEPT !.threw = TRUE]
      \/ bus' = BU!readUint8(bus, a)[2] \/ bus' = BU!readUint16(bus, a)[2] \/ bus' = BU!readUint32(bus, a)[2]
  BY DEF BU!Load
<1>3. Missed(bus, bus') BY <1>1, <1>2, ReadKeeps, ThrewMissed
<1> QED BY <1>3, RightStays

\* Two bytes of memory, and two more, are bytes.
LEMMA PairsTyped ==
  /\ \A a, b \in Bits : <<a, b>> \in Seq(Bits)
  /\ \A a, b, c, d \in Bits : <<a, b>> \o <<c, d>> \in Seq(Bits)
<1>1. \A a, b \in Bits : <<a, b>> \in Seq(Bits)
  <2> HIDE DEF Bits
  <2> QED OBVIOUS
<1>2. ASSUME NEW a \in Bits, NEW b \in Bits, NEW c \in Bits, NEW d \in Bits
      PROVE  <<a, b>> \o <<c, d>> \in Seq(Bits)
  <2> DEFINE first == <<a, b>>
             second == <<c, d>>
  <2>1. first \in Seq(Bits) /\ second \in Seq(Bits) BY <1>1
  <2> HIDE DEF first, second
  <2>2. first \o second \in Seq(Bits) BY <2>1, ConcatProperties
  <2> QED BY <2>2 DEF first, second
<1> QED BY <1>1, <1>2

\* A halfword of code.
LEMMA HalfTyped ==
  ASSUME NEW s \in BusState, NEW a \in {16, 18, 20, 22, 24, 28, 30, 32, 34}
  PROVE  \E x, y \in Bits : BU!readUint16(s, a)[1] = <<x, y>>
<1>1. CASE a # 24
  <2>1. a \in Halves BY <1>1 DEF Halves
  <2>2. BU!readUint16(s, a) = <<<<s.mem[a], s.mem[a + 1]>>, s>> BY <2>1, ReadsHalf
  <2>3. a \in BU!Bytes /\ a + 1 \in BU!Bytes BY <1>1, Numbers DEF Flash, Psram, Sram
  <2>4. s.mem[a] \in Bits /\ s.mem[a + 1] \in Bits BY <2>3 DEF BusState
  <2>5. BU!readUint16(s, a)[1] = <<s.mem[a], s.mem[a + 1]>> BY <2>2
  <2> QED BY <2>4, <2>5
<1>2. CASE a = 24
  <2>1. BU!Target(a) = "flash" /\ BU!Target(a + 1) = "flash"
    <3>1. a \in 24 .. 27 /\ a + 1 \in 24 .. 27 BY <1>2
    <3> QED BY <3>1, Targets
  <2>2. BU!Direct(a) BY <2>1 DEF BU!Direct
  <2>3. BU!Cell(a) = 16 /\ BU!Cell(a + 1) = 17
    <3>1. BU!Cell(a) = 16 + ((a - 16) % 4) /\ BU!Cell(a + 1) = 16 + ((a + 1 - 16) % 4) BY <2>1 DEF BU!Cell
    <3> QED BY <1>2, <3>1
  <2>4. BU!readUint16(s, a)[1] = <<s.mem[16], s.mem[17]>>
    <3>1. BU!readUint16(s, a) = <<<<s.mem[16], s.mem[17]>>, s>> BY <2>2, <2>3 DEF BU!readUint16
    <3> QED BY <3>1
  <2>5. 16 \in BU!Bytes /\ 17 \in BU!Bytes BY Numbers DEF Flash
  <2>6. s.mem[16] \in Bits /\ s.mem[17] \in Bits BY <2>5 DEF BusState
  <2> QED BY <2>4, <2>6
<1> QED BY <1>1, <1>2

\* the decoding of an instruction,
LEMMA FetchRight ==
  ASSUME BusRight(bus), NEW a \in Used, BU!Fetch(a)
  PROVE  BusRight(bus')
<1> DEFINE s == bus
           entry == BU!decodeUncached(s, a)
           wide == ~BU!Throws(a, 2) /\ BU!readUint16(s, a)[1][1] = UNION Byte
           cache == [s.cache EXCEPT ![a] = entry]
<1>1. s \in BusState /\ s.seen[80] = WordAt(s, 80) /\ Fresh(s) /\ \A b \in BU!Stores : s.mem[b] = s.want[b]
  BY DEF BusRight
<1>2. a \in BU!Cached /\ a \in {16, 18, 20, 22, 28, 30, 32, 34}
  <2>1. a % 2 = 0 /\ BU!Target(a) \in {"sram", "psram", "flash", "bootrom"} BY DEF BU!Fetch, BU!Aligned
  <2>2. a \in Flash \cup Psram \cup Sram
    <3>1. \A b \in 48 .. 55 \cup 64 .. 71 \cup 80 .. 83 \cup 96 .. 99 \cup {44} :
            BU!Target(b) \in {"register", "bootram", "dpram", "sio", "none"}
      BY Targets DEF Dpram
    <3> QED BY <2>1, <3>1 DEF Used, NarrowAt, Flash, Psram, Sram
  <2> QED BY <2>1, <2>2, Numbers DEF Flash, Psram, Sram
<1>3. BU!Direct(a) /\ BU!Cell(a) = a /\ ~BU!Throws(a, 2)
  <2>1. a \in Flash \cup Psram \cup Sram BY <1>2 DEF Flash, Psram, Sram
  <2>2. BU!Direct(a) BY <2>1, Targets DEF BU!Direct
  <2>3. BU!Word(a) \in Flash \cup Psram \cup Sram BY <1>2 DEF BU!Word, Flash, Psram, Sram
  <2>4. BU!Target(BU!Word(a)) # "none" BY <2>3, Targets
  <2> QED BY <2>1, <2>2, <2>4, Cells DEF BU!Throws
<1>4. bus' = IF wide /\ BU!Throws(a + 2, 2) THEN [s EXCEPT !.threw = TRUE] ELSE BU!getDecodeEntry(s, a)
  BY <1>3 DEF BU!Fetch
<1>5. CASE wide /\ BU!Throws(a + 2, 2)
  <2>1. Missed(s, bus') BY <1>1, <1>4, <1>5, ThrewMissed
  <2> HIDE DEF s
  <2> QED BY <2>1, RightStays DEF s
<1>6. CASE ~(wide /\ BU!Throws(a + 2, 2)) /\ s.cache[a] # BU!None
  <2>1. bus' = s BY <1>3, <1>4, <1>6 DEF BU!getDecodeEntry
  <2> QED BY <2>1
<1>7. CASE ~(wide /\ BU!Throws(a + 2, 2)) /\ s.cache[a] = BU!None
  <2>1. bus' = [s EXCEPT !.cache = cache]
    <3>1. bus' = BU!getDecodeEntry(s, a) BY <1>4, <1>7
    <3> QED BY <1>3, <1>7, <3>1 DEF BU!getDecodeEntry
  <2>2. entry \in Seq(Bits)
    <3>1. a \in BU!Bytes /\ a + 1 \in BU!Bytes BY <1>2, Numbers DEF Flash, Psram, Sram
    <3>2. s.mem[a] \in Bits /\ s.mem[a + 1] \in Bits BY <1>1, <3>1 DEF BusState
    <3>3. CASE s.mem[a] # UNION Byte
      <4>1. entry = <<s.mem[a], s.mem[a + 1]>> BY <1>2, <3>3, Decodes
      <4> QED BY <3>2, <4>1, PairsTyped
    <3>4. CASE s.mem[a] = UNION Byte
      <4>1. BU!readUint16(s, a)[1][1] = s.mem[a]
        <5>1. a \in Halves BY <1>2 DEF Halves
        <5>2. BU!readUint16(s, a) = <<<<s.mem[a], s.mem[a + 1]>>, s>> BY <5>1, ReadsHalf
        <5> QED BY <5>2
      <4>2. ~BU!Throws(a + 2, 2) BY <1>3, <1>7, <3>4, <4>1
      <4>3. a # 34
        <5>1. BU!Word(36) = 36 BY DEF BU!Word
        <5>2. BU!Throws(36, 2) BY <5>1, Targets DEF BU!Throws
        <5> QED BY <4>2, <5>2
      <4>4. a + 2 \in {16, 18, 20, 22, 24, 28, 30, 32, 34} BY <1>2, <4>3
      <4> DEFINE k == a + 2
      <4>5. k \in {16, 18, 20, 22, 24, 28, 30, 32, 34} BY <4>4
      <4>6. entry = <<s.mem[a], s.mem[a + 1]>> \o BU!readUint16(s, k)[1] BY <1>2, <3>4, Decodes
      <4> HIDE DEF k, entry, s
      <4>7. PICK x \in Bits, y \in Bits : BU!readUint16(s, k)[1] = <<x, y>> BY <1>1, <4>5, HalfTyped
      <4> QED BY <3>2, <4>6, <4>7, PairsTyped
    <3> QED BY <3>3, <3>4
  <2>3. cache \in [BU!Cached -> Seq(Bits)] /\ cache[a] = entry
        /\ \A h \in BU!Cached : h # a => cache[h] = s.cache[h]
    <3> HIDE DEF entry
    <3> QED BY <1>1, <1>2, <2>2 DEF BusState
  <2> HIDE DEF cache, entry, s
  <2>4. bus' \in BusState /\ bus'.mem = s.mem /\ bus'.want = s.want /\ bus'.seen = s.seen /\ bus'.cache = cache
        /\ bus'.sio = s.sio /\ bus'.ppb = s.ppb /\ bus'.reg = s.reg
    BY <1>1, <2>1, <2>3 DEF BusState
  <2>5. \A h \in BU!Cached : BU!decodeUncached(bus', h) = BU!decodeUncached(s, h) BY <2>4, ReadsSame
  <2>6. Fresh(bus')
    <3>1. ASSUME NEW h \in BU!Cached, h # a
          PROVE  \/ bus'.cache[h] = BU!None
                 \/ bus'.cache[h] = BU!decodeUncached(bus', h)
                 \/ Len(bus'.cache[h]) = 4 /\ BU!Target(h) # BU!Target(h + 2)
      <4>1. bus'.cache[h] = s.cache[h] BY <2>3, <2>4, <3>1
      <4> QED BY <1>1, <2>5, <4>1 DEF Fresh
    <3>2. bus'.cache[a] = BU!decodeUncached(bus', a) BY <1>2, <2>3, <2>4, <2>5 DEF entry
    <3> QED BY <3>1, <3>2 DEF Fresh
  <2>7. bus'.seen[80] = WordAt(bus', 80) BY <1>1, <2>4 DEF WordAt
  <2> QED BY <1>1, <2>4, <2>6, <2>7 DEF BusRight
<1> QED BY <1>5, <1>6, <1>7

\* the loading of firmware.
LEMMA LoadFirmwareRight ==
  ASSUME BusRight(bus), NEW r \in Bits, BU!LoadFirmware(Image, r)
  PROVE  BusRight(bus')
<1> DEFINE s == BU!invalidateDecodeCache(bus)
           none == [h \in BU!Cached |-> BU!None]
           mem == [b \in BU!Bytes |-> IF b \in BU!FlashBytes THEN Image[b]
                                      ELSE IF b \in BU!Region(28, 8) THEN r ELSE bus.mem[b]]
           want == [b \in BU!Stores |-> IF b \in BU!Region(28, 8) THEN r ELSE bus.want[b]]
<1>1. bus \in BusState /\ bus.seen[80] = WordAt(bus, 80) /\ \A b \in BU!Stores : bus.mem[b] = bus.want[b]
  BY DEF BusRight
<1>2. s = [bus EXCEPT !.cache = none] BY DEF BU!invalidateDecodeCache
<1>3. none \in [BU!Cached -> Seq(Bits)]
  <2>1. BU!None \in Seq(Bits) BY DEF BU!None
  <2> QED BY <2>1
<1>4. mem \in [BU!Bytes -> Bits]
  <2>1. \A b \in BU!FlashBytes : Image[b] \in Bits
    <3>1. {0, 1} \in Bits /\ {} \in Bits
      <4> DEFINE all == (UNION Byte) \cup {0, 1}
      <4>1. 0 \in all /\ 1 \in all OBVIOUS
      <4> HIDE DEF all
      <4>2. {0, 1} \in SUBSET all /\ {} \in SUBSET all BY <4>1
      <4> QED BY <4>2 DEF all, Bits
    <3>2. ASSUME NEW b \in BU!FlashBytes PROVE Image[b] = {0, 1} \/ Image[b] = {}
      <4>1. b \in 16 .. 19 BY Numbers DEF Flash
      <4> QED BY <4>1 DEF Image
    <3> QED BY <3>1, <3>2
  <2> QED BY <1>1, <2>1 DEF BusState
<1>5. want \in [BU!Stores -> Bits] /\ \A b \in BU!Stores : want[b] = mem[b]
  <2>1. \A b \in BU!Stores : b \in BU!Bytes /\ b \notin BU!FlashBytes BY Numbers DEF Flash, Psram, Sram, Dpram
  <2>2. \A b \in BU!Stores : bus.want[b] \in Bits BY <1>1 DEF BusState
  <2> QED BY <1>1, <2>1, <2>2
<1>6. \A b \in Dpram : mem[b] = bus.mem[b]
  <2>1. \A b \in Dpram : b \in BU!Bytes /\ b \notin BU!FlashBytes /\ b \notin BU!Region(28, 8)
    BY Numbers DEF Flash, Dpram, BU!Region
  <2> QED BY <2>1
<1>7. bus' = [s EXCEPT !.mem = mem, !.want = want]
  <2>1. s.mem = bus.mem /\ s.want = bus.want BY <1>1, <1>2 DEF BusState
  <2> HIDE DEF s
  <2>2. bus' = [s EXCEPT !.mem = [b \in BU!Bytes |-> IF b \in BU!FlashBytes THEN Image[b]
                                                     ELSE IF b \in BU!Region(28, 8) THEN r ELSE s.mem[b]],
                         !.want = [b \in BU!Stores |-> IF b \in BU!Region(28, 8) THEN r ELSE s.want[b]]]
    BY DEF BU!LoadFirmware, s
  <2> QED BY <2>1, <2>2
<1> HIDE DEF s, none, mem, want
<1>8. s \in BusState /\ s.cache = none /\ s.seen = bus.seen BY <1>1, <1>2, <1>3 DEF BusState
<1>9. bus' \in BusState /\ bus'.mem = mem /\ bus'.want = want /\ bus'.cache = none /\ bus'.seen = bus.seen
  BY <1>4, <1>5, <1>7, <1>8 DEF BusState
<1>10. Fresh(bus')
  <2>1. \A h \in BU!Cached : bus'.cache[h] = BU!None BY <1>9 DEF none
  <2> QED BY <2>1 DEF Fresh
<1>11. bus'.seen[80] = WordAt(bus', 80)
  <2>1. \A i \in BU!Lanes : bus'.mem[80 + i] = bus.mem[80 + i] BY <1>6, <1>9, Numbers DEF Dpram
  <2> QED BY <1>1, <1>9, <2>1 DEF WordAt
<1> QED BY <1>5, <1>9, <1>10, <1>11 DEF BusRight

\* The bus as it is built.
LEMMA InitRight == BU!Init => BusRight(bus)
<1> SUFFICES ASSUME BU!Init PROVE BusRight(bus) OBVIOUS
<1> DEFINE blank == [i \in BU!Lanes |-> {}]
           mem == [b \in BU!Bytes |-> IF b \in BU!FlashBytes THEN UNION Byte ELSE {}]
           want == [b \in BU!Stores |-> {}]
           cache == [h \in BU!Cached |-> BU!None]
           reg == [p \in {48} |-> blank]
           sio == [value |-> blank, reads |-> 0]
           seen == [a \in {d \in BU!Region(80, 4) : d % 4 = 0} |-> blank]
<1>1. {d \in BU!Region(80, 4) : d % 4 = 0} = {80} BY DEF BU!Region
<1>2. bus = [mem |-> mem, want |-> want, cache |-> cache, reg |-> reg, raw |-> reg, sio |-> sio,
             ppb |-> blank, seen |-> seen, threw |-> FALSE]
  BY DEF BU!Init
<1>3. {} \in Bits /\ UNION Byte \in Bits BY DEF Bits
<1>4. blank \in WordOf BY <1>3 DEF WordOf
<1>5. mem \in [BU!Bytes -> Bits] /\ want \in [BU!Stores -> Bits] BY <1>3
<1>6. cache \in [BU!Cached -> Seq(Bits)]
  <2>1. BU!None \in Seq(Bits) BY DEF BU!None
  <2> QED BY <2>1
<1>7. reg \in [{48} -> WordOf] BY <1>4
<1>8. sio \in [value : WordOf, reads : {0, 1}] BY <1>4
<1>9. seen \in [{80} -> WordOf] /\ seen[80] = blank BY <1>1, <1>4
<1>10. \A b \in BU!Stores : mem[b] = {} /\ want[b] = {}
  <2>1. \A b \in BU!Stores : b \in BU!Bytes /\ b \notin BU!FlashBytes BY Numbers DEF Flash, Psram, Sram, Dpram
  <2> QED BY <2>1
<1>11. \A h \in BU!Cached : cache[h] = BU!None OBVIOUS
<1>12. \A i \in BU!Lanes : mem[80 + i] = {}
  <2>1. \A i \in BU!Lanes : 80 + i \in BU!Stores BY Numbers DEF Dpram
  <2> HIDE DEF mem, want
  <2> QED BY <1>10, <2>1
<1>13. blank = [i \in BU!Lanes |-> mem[80 + i]] BY <1>12
<1> HIDE DEF blank, mem, want, cache, reg, sio, seen
<1>14. bus \in BusState BY <1>2, <1>4, <1>5, <1>6, <1>7, <1>8, <1>9 DEF BusState
<1>15. bus.mem = mem /\ bus.want = want /\ bus.cache = cache /\ bus.seen = seen BY <1>2
<1>16. Fresh(bus) BY <1>11, <1>15 DEF Fresh
<1>17. bus.seen[80] = WordAt(bus, 80) BY <1>9, <1>13, <1>15 DEF WordAt
<1>18. \A b \in BU!Stores : bus.mem[b] = bus.want[b] BY <1>10, <1>15
<1> QED BY <1>14, <1>16, <1>17, <1>18 DEF BusRight

BusInv == focus \in Regions => BusRight(bus)

\* Whatever the focus, its addresses are among those above.
LEMMA BusStepRight ==
  ASSUME focus \in Regions, BusRight(bus), BusStep \/ LoadFirmware
  PROVE  BusRight(bus')
<1>1. \A v \in Byte : v \in Bits BY DEF Bits
<1>2. CASE BusStep
  <2>1. PICK a \in AddressesOf[focus] :
          \/ \E v \in Byte : BU!Store(a, 1, <<v>>)
          \/ \E v, w \in Byte : BU!Store(a, 2, <<v, w>>)
          \/ \E v \in Words2 : BU!Store(a, 4, v)
          \/ \E n \in {1, 2, 4} : BU!Load(a, n)
          \/ BU!Fetch(a)
    BY <1>2 DEF BusStep
  <2>2. a \in Used BY <2>1 DEF AddressesOf, Regions, Used, NarrowAt
  <2>3. ASSUME NEW v \in Byte, BU!Store(a, 1, <<v>>) PROVE BusRight(bus')
    <3> DEFINE p == <<v>>
    <3>1. p \in [1 .. 1 -> Bits] BY <1>1
    <3> HIDE DEF p
    <3>2. BU!Store(a, 1, p) BY <2>3 DEF p
    <3> QED BY <2>2, <3>1, <3>2, StoreRight
  <2>4. ASSUME NEW v \in Byte, NEW w \in Byte, BU!Store(a, 2, <<v, w>>) PROVE BusRight(bus')
    <3> DEFINE p == <<v, w>>
    <3>1. p \in [1 .. 2 -> Bits] BY <1>1
    <3> HIDE DEF p
    <3>2. BU!Store(a, 2, p) BY <2>4 DEF p
    <3> QED BY <2>2, <3>1, <3>2, StoreRight
  <2>5. ASSUME NEW p \in Words2, BU!Store(a, 4, p) PROVE BusRight(bus')
    <3>1. p \in [1 .. 4 -> Bits] BY <1>1, <2>5 DEF Words2
    <3> QED BY <2>2, <2>5, <3>1, StoreRight
  <2>6. ASSUME NEW n \in {1, 2, 4}, BU!Load(a, n) PROVE BusRight(bus') BY <2>6, LoadRight
  <2>7. ASSUME BU!Fetch(a) PROVE BusRight(bus') BY <2>2, <2>7, FetchRight
  <2> QED BY <2>1, <2>3, <2>4, <2>5, <2>6, <2>7
<1>3. CASE LoadFirmware
  <2>1. PICK r \in Byte : BU!LoadFirmware(Image, r) BY <1>3 DEF LoadFirmware
  <2> QED BY <1>1, <2>1, LoadFirmwareRight
<1> QED BY <1>2, <1>3

\* For any bytes: every store lands and moves nothing else, every width reads memory
\* alike, and neither a decoded instruction (getDecodeEntry, invalidateSramDecode,
\* invalidatePsramDecode) nor a word of the DPRAM that the USB controller was told of
\* (DPRAMUpdated) outlives the memory it came from.
THEOREM BusCoherentAlways == MCSpec => []BusCoherent
<1>1. MCInit => BusInv BY InitRight DEF MCInit, BusInv
<1>2. BusInv /\ [MCNext]_<<focus, amo, bus, io, gdb, ctl, cli, calc, link>> => BusInv'
  <2> SUFFICES ASSUME BusInv, [MCNext]_<<focus, amo, bus, io, gdb, ctl, cli, calc, link>>, focus' \in Regions
               PROVE  BusRight(bus')
    BY DEF BusInv, BusRight, BusState, Fresh, WordAt
  <2>1. focus' = focus BY DEF MCNext
  <2>2. focus \in Regions /\ BusRight(bus) BY <2>1 DEF BusInv
  <2>3. CASE BusStep \/ LoadFirmware BY <2>2, <2>3, BusStepRight
  <2>4. CASE ~(BusStep \/ LoadFirmware)
    <3>1. bus' = bus BY <2>2, <2>4 DEF MCNext, Regions
    <3> QED BY <2>2, <3>1
  <2> QED BY <2>3, <2>4
<1>3. BusInv => BusCoherent BY BusCoherentIs DEF BusInv, BusCoherent
<1> QED BY <1>1, <1>2, <1>3, PTL DEF MCSpec

-----------------------------------------------------------------------------
(* The daemon *)

\* Where a process and a command may be.
Leaving == {"signalled", "closing", "closed", "cleaned"}
Place == DM!Start \cup Leaving \cup {"unborn", "gone", "up"}
Over == {"ok", "failed"}
Stage == {"unborn", "begin", "connect", "awaiting", "stale", "nothing to stop", "again", "stopping",
          "sent"} \cup Over
Order == [kind : Requests \cup {"none"}, at : Stage, pid : Pid \cup {0}, met : BOOLEAN, ran : 0 .. 1]
Cli == [mode : {"sequential", "overlapping"}, sock : Pid \cup {0}, state : Pid \cup {0}, crashes : Int,
        proc : [Pid -> Place], good : [Pid -> BOOLEAN], inbox : [Pid -> SUBSET Command],
        cmd : [Command -> Order]]

Alive(s, p) == s.proc[p] \notin {"unborn", "gone"}

\* What a command may be by the time it is there.
KindAt(o) ==
  /\ o.at \in {"connect", "sent"} => o.kind \in {"tool", "tool only", "status"}
  /\ o.at = "awaiting" => o.kind \in {"tool", "start", "start bad", "restart"}
  /\ o.at = "stale" => o.kind \in {"start", "start bad", "restart"}
  /\ o.at = "again" => o.kind = "restart"
  /\ o.at \in {"stopping", "nothing to stop"} => o.kind \in {"stop", "restart"}

\* A request is in one inbox at most, and not yet executed while it is there.
RanOnce(o) == /\ o.ran = 1 => o.at \in Over
              /\ o.kind \in {"tool", "tool only", "status"} /\ o.at = "ok" => o.ran = 1
Once(s, c) ==
  /\ KindAt(s.cmd[c]) /\ RanOnce(s.cmd[c])
  /\ \A p \in Pid : c \in s.inbox[p] =>
       s.cmd[c].at \in {"sent", "failed"} /\ s.cmd[c].ran = 0 /\ s.cmd[c].pid = p

\* What the two files say of a process.
FilesFollow(s, p) ==
  /\ s.proc[p] \in Leaving \cup {"stated", "up"} => s.state = p
  /\ s.proc[p] \in {"listening", "stated", "up", "signalled"} => s.sock = p
  /\ s.proc[p] \in DM!Start \ {"stated"} => s.state # p
  /\ s.proc[p] \in {"booting", "ready"} => s.sock = 0
  /\ s.proc[p] = "unborn" => s.state # p /\ s.sock # p

\* The process that a command awaits is the only one, and it comes unless it crashes.
Awaited(s, o) ==
  /\ o.pid # 0 /\ s.proc[o.pid] \in DM!Start \cup {"up", "gone"}
  /\ \A p \in Pid : Alive(s, p) => p = o.pid
  /\ o.kind # "start bad" => s.good[o.pid] /\ (s.proc[o.pid] = "gone" => o.met)

Stopping(s, o) ==
  /\ o.pid # 0 /\ s.proc[o.pid] \in Leaving \cup {"gone"}
  /\ \A p \in Pid : Alive(s, p) => p = o.pid

\* What a command finds when it is there, and how it ends.
Proceeds(s, o) ==
  /\ o.at = "begin" => \A p \in Pid : Alive(s, p) => s.proc[p] = "up"
  /\ o.at \in {"connect", "sent"} => \A p \in Pid : Alive(s, p) => s.proc[p] \in {"listening", "stated", "up"}
  /\ o.at = "connect" => o.met \/ \E p \in Pid : Alive(s, p)
  /\ o.at = "sent" => o.pid # 0 /\ (o.met \/ Alive(s, o.pid))
  /\ o.at = "awaiting" => Awaited(s, o)
  /\ o.at \in {"stale", "nothing to stop", "again"} => \A p \in Pid : ~Alive(s, p)
  /\ o.at = "stopping" => Stopping(s, o)
  /\ o.at = "ok" /\ o.kind = "stop" => o.pid # 0 /\ s.proc[o.pid] = "gone"
  /\ o.at = "failed" /\ o.kind \in {"tool", "start", "restart"} => o.met

\* Commands one after the other, one process at a time, told to stop by a command.
InTurn(s) == \A c, d \in Command : d < c /\ s.cmd[c].at # "unborn" => s.cmd[d].at \in Over
OneAlive(s) == \A p, q \in Pid : Alive(s, p) /\ Alive(s, q) => p = q
LeavingStops(s) == \A p \in Pid : s.proc[p] \in Leaving => \E c \in Command : s.cmd[c].at = "stopping"
InOrder(s) == /\ InTurn(s) /\ OneAlive(s) /\ LeavingStops(s)
              /\ \A p \in Pid : FilesFollow(s, p)
              /\ \A c \in Command : Proceeds(s, s.cmd[c])

CliRight(s) == s \in Cli /\ (\A c \in Command : Once(s, c)) /\ (s.mode = "sequential" => InOrder(s))

LEMMA Numbered == /\ Pid \subseteq Nat \ {0} /\ Command \subseteq Nat \ {0} /\ 0 \notin Pid
                  /\ \A p \in Pid : p \in Int /\ p # 0
                  /\ \A c \in Command : c \in Int
BY MCChipAssumption DEF MCChipAssumption

LEMMA PlacesAre ==
  /\ DM!Start = {"spawned", "stale", "fresh", "booting", "ready", "listening", "stated"}
  /\ DM!Start \subseteq Place /\ Leaving \subseteq Place
  /\ "unborn" \in Place /\ "gone" \in Place /\ "up" \in Place
BY DEF DM!Start, Place

-----------------------------------------------------------------------------
(* What every step keeps *)

\* At most one command is under way.
LEMMA OneUnderWay ==
  ASSUME NEW s \in Cli, InTurn(s), NEW c \in Command, s.cmd[c].at \notin Over, s.cmd[c].at # "unborn",
         NEW d \in Command, d # c
  PROVE  s.cmd[d].at \in Over \cup {"unborn"}
<1>1. d < c \/ c < d BY Numbered
<1> QED BY <1>1 DEF InTurn

\* A command that has ended needs only that who is gone stays gone.
LEMMA EndedProceeds ==
  ASSUME NEW s, NEW t, NEW o, o.at \in Over \cup {"unborn"}, Proceeds(s, o),
         o.pid # 0 /\ s.proc[o.pid] = "gone" => t.proc[o.pid] = "gone"
  PROVE  Proceeds(t, o)
BY DEF Proceeds, Over

\* What a command finds is where the processes are, and whether they can boot.
LEMMA SameProceeds ==
  ASSUME NEW s, NEW t, t.proc = s.proc, t.good = s.good, NEW o, Proceeds(s, o)
  PROVE  Proceeds(t, o)
<1>1. \A p : Alive(s, p) = Alive(t, p) BY DEF Alive
<1>2. Awaited(s, o) => Awaited(t, o) BY <1>1 DEF Awaited
<1>3. Stopping(s, o) => Stopping(t, o) BY <1>1 DEF Stopping
<1> QED BY <1>1, <1>2, <1>3 DEF Proceeds

\* The others are not alive: nothing is said of them but that no file is theirs before
\* they are born.
LEMMA OthersFollow ==
  ASSUME NEW s, OneAlive(s), NEW p \in Pid, Alive(s, p), NEW t, NEW q \in Pid, q # p, FilesFollow(s, q),
         t.proc[q] = s.proc[q], t.state \in {s.state, p, 0}, t.sock \in {s.sock, p, 0}
  PROVE  FilesFollow(t, q)
<1>1. s.proc[q] \in {"unborn", "gone"} BY DEF OneAlive, Alive
<1>2. CASE s.proc[q] = "gone" BY <1>2 DEF FilesFollow, Leaving, DM!Start
<1>3. CASE s.proc[q] = "unborn"
  <2>1. t.state # q /\ t.sock # q BY <1>3, Numbered DEF FilesFollow
  <2> QED BY <1>3, <2>1 DEF FilesFollow, Leaving, DM!Start
<1> QED BY <1>1, <1>2, <1>3

\* A process goes on and no command hears of it.
Turns(s, t, p, place) ==
  /\ t \in Cli /\ t.mode = s.mode /\ t.good = s.good /\ t.cmd = s.cmd
  /\ t.proc[p] = place /\ \A q \in Pid : q # p => t.proc[q] = s.proc[q]
  /\ \A q \in Pid : t.inbox[q] \subseteq s.inbox[q]

LEMMA OnceStays ==
  ASSUME NEW s, NEW t, NEW c \in Command, Once(s, c), t.cmd = s.cmd, \A q \in Pid : t.inbox[q] \subseteq s.inbox[q]
  PROVE  Once(t, c)
BY DEF Once

\* Its record, with its place and one of the two files changed.
Goes(s, p, place) == [s EXCEPT !.proc[p] = place]
GoesSock(s, x, p, place) == [s EXCEPT !.sock = x, !.proc[p] = place]
GoesState(s, x, p, place) == [s EXCEPT !.state = x, !.proc[p] = place]

\* It turns, and leaves the files so.
Files(t, x, y) == t.sock = x /\ t.state = y

LEMMA Turned ==
  ASSUME NEW s \in Cli, NEW p \in Pid, NEW place \in Place, NEW x \in Pid \cup {0}
  PROVE  /\ Turns(s, Goes(s, p, place), p, place) /\ Files(Goes(s, p, place), s.sock, s.state)
         /\ Turns(s, DM!Exit(s, p), p, "gone") /\ Files(DM!Exit(s, p), s.sock, s.state)
         /\ Turns(s, GoesSock(s, x, p, place), p, place) /\ Files(GoesSock(s, x, p, place), x, s.state)
         /\ Turns(s, GoesState(s, x, p, place), p, place) /\ Files(GoesState(s, x, p, place), s.sock, x)
<1>1. Turns(s, Goes(s, p, place), p, place) /\ Files(Goes(s, p, place), s.sock, s.state)
  BY DEF Turns, Files, Goes, Cli
<1>2. Turns(s, DM!Exit(s, p), p, "gone") /\ Files(DM!Exit(s, p), s.sock, s.state)
  BY PlacesAre DEF Turns, Files, Cli, DM!Exit
<1>3. Turns(s, GoesSock(s, x, p, place), p, place) /\ Files(GoesSock(s, x, p, place), x, s.state)
  BY DEF Turns, Files, GoesSock, Cli
<1>4. Turns(s, GoesState(s, x, p, place), p, place) /\ Files(GoesState(s, x, p, place), s.sock, x)
  BY DEF Turns, Files, GoesState, Cli
<1> QED BY <1>1, <1>2, <1>3, <1>4

\* A process that starts goes on to listen and to be up, one that stops to be gone, and one
\* that cannot boot is gone.
Onwards(s, p, place) ==
  \/ /\ s.proc[p] \in DM!Start /\ place \in DM!Start \cup {"up"}
     /\ s.proc[p] \in {"listening", "stated"} => place \in {"stated", "up"}
  \/ s.proc[p] \in Leaving /\ place \in Leaving \cup {"gone"}
  \/ s.proc[p] = "booting" /\ ~s.good[p] /\ place = "gone"

LEMMA TurnProceeds ==
  ASSUME NEW s \in Cli, NEW t, NEW p \in Pid, NEW place, Turns(s, t, p, place), Onwards(s, p, place),
         OneAlive(s), NEW o \in Order, KindAt(o), Proceeds(s, o)
  PROVE  Proceeds(t, o)
<1>1. Alive(s, p) BY PlacesAre DEF Onwards, Alive, Leaving
<1>2. \A q \in Pid : Alive(t, q) => q = p BY <1>1 DEF Turns, OneAlive, Alive
<1>3. \A q \in Pid : s.proc[q] = "gone" => t.proc[q] = "gone" BY <1>1 DEF Turns, Alive
<1>4. o.pid \in Pid \cup {0} BY DEF Order
<1>5. o.at \in Stage BY DEF Order
<1>6. CASE o.at \in Over \cup {"unborn"} BY <1>3, <1>4, <1>6, EndedProceeds
<1>7. CASE o.at = "begin"
  <2>1. s.proc[p] = "up" BY <1>1, <1>7 DEF Proceeds
  <2> QED BY <2>1 DEF Onwards, DM!Start, Leaving
<1>8. CASE o.at \in {"connect", "sent"}
  <2>1. s.proc[p] \in {"listening", "stated", "up"} BY <1>1, <1>8 DEF Proceeds
  <2>2. place \in {"stated", "up"} BY <2>1 DEF Onwards, DM!Start, Leaving
  <2>3. t.proc[p] = place BY DEF Turns
  <2>4. Alive(t, p) BY <2>2, <2>3 DEF Alive
  <2>5. \A q \in Pid : Alive(s, q) => q = p BY <1>1 DEF OneAlive
  <2> QED BY <1>2, <1>4, <1>8, <2>2, <2>3, <2>4, <2>5 DEF Proceeds, Over
<1>9. CASE o.at = "awaiting"
  <2>1. Awaited(s, o) BY <1>9 DEF Proceeds
  <2>2. p = o.pid /\ s.proc[p] \in DM!Start \cup {"up", "gone"} BY <1>1, <2>1 DEF Awaited
  <2>3. t.proc[p] = place /\ t.good = s.good BY DEF Turns
  <2>4. place \in DM!Start \cup {"up"} \/ (place = "gone" /\ ~s.good[p])
    BY <2>2 DEF Onwards, DM!Start, Leaving
  <2>5. Awaited(t, o)
    <3>1. o.pid # 0 BY <2>1 DEF Awaited
    <3>2. o.kind # "start bad" => place # "gone" BY <2>1, <2>2, <2>4, PlacesAre DEF Awaited
    <3>3. o.kind # "start bad" => t.good[p] BY <2>1, <2>2, <2>3 DEF Awaited
    <3> QED BY <1>2, <2>2, <2>3, <2>4, <3>1, <3>2, <3>3 DEF Awaited
  <2> QED BY <1>9, <2>5 DEF Proceeds, Over
<1>10. CASE o.at \in {"stale", "nothing to stop", "again"} BY <1>1, <1>10 DEF Proceeds
<1>11. CASE o.at = "stopping"
  <2>1. Stopping(s, o) BY <1>11 DEF Proceeds
  <2>2. p = o.pid /\ s.proc[p] \in Leaving \cup {"gone"} BY <1>1, <2>1 DEF Stopping
  <2>3. place \in Leaving \cup {"gone"} BY <1>1, <2>2, PlacesAre DEF Onwards, Leaving
  <2>4. t.proc[p] = place BY DEF Turns
  <2>5. Stopping(t, o) BY <1>2, <2>1, <2>2, <2>3, <2>4 DEF Stopping
  <2> QED BY <1>11, <2>5 DEF Proceeds, Over
<1> QED BY <1>5, <1>6, <1>7, <1>8, <1>9, <1>10, <1>11 DEF Stage

\* So a step of a process keeps the invariant, as long as the two files still say where it is.
LEMMA TurnRight ==
  ASSUME NEW s, NEW t, CliRight(s), NEW p \in Pid, NEW place, Turns(s, t, p, place),
         s.mode = "sequential" =>
           /\ Onwards(s, p, place) /\ FilesFollow(t, p)
           /\ t.state \in {s.state, p, 0} /\ t.sock \in {s.sock, p, 0}
  PROVE  CliRight(t)
<1>1. t \in Cli /\ s \in Cli BY DEF Turns, CliRight
<1>2. \A c \in Command : Once(t, c)
  <2> SUFFICES ASSUME NEW c \in Command PROVE Once(t, c) OBVIOUS
  <2>1. Once(s, c) BY DEF CliRight
  <2>2. t.cmd = s.cmd /\ \A q \in Pid : t.inbox[q] \subseteq s.inbox[q] BY DEF Turns
  <2> QED BY <2>1, <2>2, OnceStays
<1>3. ASSUME t.mode = "sequential" PROVE InOrder(t)
  <2>1. s.mode = "sequential" /\ t.cmd = s.cmd BY <1>3 DEF Turns
  <2>2. InOrder(s) BY <2>1 DEF CliRight
  <2>3. Onwards(s, p, place) /\ FilesFollow(t, p) BY <2>1
  <2>4. t.state \in {s.state, p, 0} /\ t.sock \in {s.sock, p, 0} BY <2>1
  <2>5. OneAlive(s) BY <2>2 DEF InOrder
  <2>6. Alive(s, p) BY <2>3, PlacesAre DEF Onwards, Alive, Leaving
  <2>7. OneAlive(t) BY <2>5, <2>6 DEF Turns, OneAlive, Alive
  <2>8. LeavingStops(t)
    <3>1. LeavingStops(s) BY <2>2 DEF InOrder
    <3>2. \A q \in Pid : t.proc[q] \in Leaving => s.proc[q] \in Leaving
      <4>1. t.proc[p] = place /\ \A q \in Pid : q # p => t.proc[q] = s.proc[q] BY DEF Turns
      <4>2. place \in Leaving => s.proc[p] \in Leaving BY <2>3 DEF Onwards, DM!Start, Leaving
      <4> QED BY <4>1, <4>2
    <3> QED BY <2>1, <3>1, <3>2 DEF LeavingStops
  <2>9. ASSUME NEW q \in Pid PROVE FilesFollow(t, q)
    <3>1. CASE q = p BY <2>3, <3>1
    <3>2. CASE q # p
      <4>1. FilesFollow(s, q) /\ t.proc[q] = s.proc[q] BY <2>2, <3>2 DEF InOrder, Turns
      <4> QED BY <2>4, <2>5, <2>6, <3>2, <4>1, OthersFollow
    <3> QED BY <3>1, <3>2
  <2>10. ASSUME NEW c \in Command PROVE Proceeds(t, t.cmd[c])
    <3>1. s.cmd[c] \in Order BY <1>1 DEF Cli
    <3>2. KindAt(s.cmd[c]) BY DEF CliRight, Once
    <3>3. Proceeds(s, s.cmd[c]) BY <2>2 DEF InOrder
    <3>4. Proceeds(t, s.cmd[c]) BY <1>1, <2>3, <2>5, <3>1, <3>2, <3>3, TurnProceeds
    <3> QED BY <2>1, <3>4
  <2>11. InTurn(t) BY <2>1, <2>2 DEF InOrder, InTurn
  <2> QED BY <2>7, <2>8, <2>9, <2>10, <2>11 DEF InOrder
<1> QED BY <1>1, <1>2, <1>3 DEF CliRight

-----------------------------------------------------------------------------
(* The steps of a process *)

LEMMA StartsRight ==
  ASSUME CliRight(cli), NEW p \in Pid, DM!cmdStart(p) \/ DM!RemoveState(p) \/ DM!RemoveSocket(p)
  PROVE  CliRight(cli')
<1>1. cli \in Cli BY DEF CliRight
<1>2. {"stale", "fresh", "booting"} \subseteq DM!Start /\ DM!Start \subseteq Place BY PlacesAre
<1>3. 0 \in Pid \cup {0} OBVIOUS
<1>4. ASSUME cli.mode = "sequential" PROVE FilesFollow(cli, p) /\ OneAlive(cli)
  BY <1>4 DEF CliRight, InOrder
<1>5. CASE DM!cmdStart(p)
  <2> DEFINE place == DM!readState(cli)
  <2>1. cli.proc[p] = "spawned" BY <1>5 DEF DM!cmdStart
  <2>2. place \in {"running", "stale", "fresh"} BY DEF DM!readState
  <2>3. ASSUME cli.mode = "sequential" PROVE place # "running"
    <3>1. cli.state # p /\ Alive(cli, p) BY <1>4, <2>1, <2>3 DEF FilesFollow, DM!Start, Alive
    <3>2. cli.state \in Pid \cup {0} BY <1>1 DEF Cli
    <3>3. ~DM!pidAlive(cli, cli.state)
      BY <1>4, <2>3, <3>1, <3>2 DEF DM!pidAlive, DM!None, OneAlive, Alive
    <3> QED BY <3>3 DEF DM!readState
  <2>4. CASE place = "running"
    <3>1. cli' = DM!Exit(cli, p) BY <1>5, <2>4 DEF DM!cmdStart
    <3>2. Turns(cli, cli', p, "gone") BY <1>1, <1>2, <3>1, Turned DEF Files
    <3> QED BY <2>3, <2>4, <3>2, TurnRight
  <2>5. CASE place # "running"
    <3>1. cli' = Goes(cli, p, place) BY <1>5, <2>5 DEF Goes, DM!cmdStart
    <3>2. place \in {"stale", "fresh"} BY <2>2, <2>5
    <3> HIDE DEF place
    <3>3. Turns(cli, cli', p, place) /\ cli'.sock = cli.sock /\ cli'.state = cli.state
      BY <1>1, <1>2, <3>1, <3>2, Turned DEF Files
    <3>4. cli.mode = "sequential" => FilesFollow(cli', p)
      BY <1>4, <2>1, <3>2, <3>3, PlacesAre DEF FilesFollow, Turns, Leaving
    <3>5. Onwards(cli, p, place) BY <2>1, <3>2 DEF Onwards, DM!Start
    <3> QED BY <3>3, <3>4, <3>5, TurnRight
  <2> QED BY <2>4, <2>5
<1>6. CASE DM!RemoveState(p)
  <2>1. cli.proc[p] = "stale" /\ cli' = GoesState(cli, 0, p, "fresh")
    BY <1>6 DEF GoesState, DM!RemoveState, DM!None
  <2>2. Turns(cli, cli', p, "fresh") /\ cli'.sock = cli.sock /\ cli'.state = 0
    BY <1>1, <1>2, <1>3, <2>1, Turned DEF Files
  <2>3. cli.mode = "sequential" => FilesFollow(cli', p)
    BY <1>4, <2>1, <2>2, Numbered, PlacesAre DEF FilesFollow, Turns, Leaving
  <2>4. Onwards(cli, p, "fresh") BY <2>1 DEF Onwards, DM!Start
  <2> QED BY <2>2, <2>3, <2>4, TurnRight
<1>7. CASE DM!RemoveSocket(p)
  <2>1. cli.proc[p] = "fresh" /\ cli' = GoesSock(cli, 0, p, "booting")
    BY <1>7 DEF GoesSock, DM!RemoveSocket, DM!UnlinkSocket, DM!None
  <2>2. Turns(cli, cli', p, "booting") /\ cli'.sock = 0 /\ cli'.state = cli.state
    BY <1>1, <1>2, <1>3, <2>1, Turned DEF Files
  <2>3. cli.mode = "sequential" => FilesFollow(cli', p)
    BY <1>4, <2>1, <2>2, Numbered, PlacesAre DEF FilesFollow, Turns, Leaving
  <2>4. Onwards(cli, p, "booting") BY <2>1 DEF Onwards, DM!Start
  <2> QED BY <2>2, <2>3, <2>4, TurnRight
<1> QED BY <1>5, <1>6, <1>7

LEMMA BootsRight ==
  ASSUME CliRight(cli), NEW p \in Pid,
         DM!Boot(p) \/ DM!Listen(p) \/ DM!WriteState(p) \/ DM!InstallHandlers(p)
  PROVE  CliRight(cli')
<1>1. cli \in Cli BY DEF CliRight
<1>2. {"ready", "listening", "stated", "up"} \subseteq Place /\ p \in Pid \cup {0} BY DEF Place, DM!Start
<1>3. ASSUME cli.mode = "sequential" PROVE FilesFollow(cli, p) BY <1>3 DEF CliRight, InOrder
<1>4. CASE DM!Boot(p)
  <2>1. cli.proc[p] = "booting" BY <1>4 DEF DM!Boot
  <2>2. CASE cli.good[p]
    <3>1. cli' = Goes(cli, p, "ready") BY <1>4, <2>2 DEF Goes, DM!Boot
    <3>2. Turns(cli, cli', p, "ready") /\ cli'.sock = cli.sock /\ cli'.state = cli.state
      BY <1>1, <1>2, <3>1, Turned DEF Files
    <3>3. cli.mode = "sequential" => FilesFollow(cli', p)
      BY <1>3, <2>1, <3>2, PlacesAre DEF FilesFollow, Turns, Leaving
    <3>4. Onwards(cli, p, "ready") BY <2>1 DEF Onwards, DM!Start
    <3> QED BY <3>2, <3>3, <3>4, TurnRight
  <2>3. CASE ~cli.good[p]
    <3>1. cli' = DM!Exit(cli, p) BY <1>4, <2>3 DEF DM!Boot
    <3>2. Turns(cli, cli', p, "gone") /\ cli'.sock = cli.sock /\ cli'.state = cli.state
      BY <1>1, <1>2, <3>1, Turned, PlacesAre DEF Files
    <3>3. FilesFollow(cli', p) BY <3>2 DEF FilesFollow, Turns, Leaving, DM!Start
    <3>4. Onwards(cli, p, "gone") BY <2>1, <2>3 DEF Onwards
    <3> QED BY <3>2, <3>3, <3>4, TurnRight
  <2> QED BY <2>2, <2>3
<1>5. CASE DM!Listen(p)
  <2>1. cli.proc[p] = "ready" BY <1>5 DEF DM!Listen
  <2>2. CASE cli.sock # 0
    <3>1. cli' = DM!Exit(cli, p) BY <1>5, <2>2 DEF DM!Listen, DM!None
    <3>2. Turns(cli, cli', p, "gone") BY <1>1, <1>2, <3>1, Turned, PlacesAre DEF Files
    <3>3. cli.mode # "sequential" BY <1>3, <2>1, <2>2 DEF FilesFollow
    <3> QED BY <3>2, <3>3, TurnRight
  <2>3. CASE cli.sock = 0
    <3>1. cli' = GoesSock(cli, p, p, "listening") BY <1>5, <2>3 DEF GoesSock, DM!Listen, DM!None
    <3>2. Turns(cli, cli', p, "listening") /\ cli'.sock = p /\ cli'.state = cli.state
      BY <1>1, <1>2, <3>1, Turned DEF Files
    <3>3. cli.mode = "sequential" => FilesFollow(cli', p)
      BY <1>3, <2>1, <3>2, PlacesAre DEF FilesFollow, Turns, Leaving
    <3>4. Onwards(cli, p, "listening") BY <2>1 DEF Onwards, DM!Start
    <3> QED BY <3>2, <3>3, <3>4, TurnRight
  <2> QED BY <2>2, <2>3
<1>6. CASE DM!WriteState(p)
  <2>1. cli.proc[p] = "listening" /\ cli' = GoesState(cli, p, p, "stated")
    BY <1>6 DEF GoesState, DM!WriteState
  <2>2. Turns(cli, cli', p, "stated") /\ cli'.sock = cli.sock /\ cli'.state = p
    BY <1>1, <1>2, <2>1, Turned DEF Files
  <2>3. cli.mode = "sequential" => FilesFollow(cli', p)
    BY <1>3, <2>1, <2>2, PlacesAre DEF FilesFollow, Turns, Leaving
  <2>4. Onwards(cli, p, "stated") BY <2>1 DEF Onwards, DM!Start
  <2> QED BY <2>2, <2>3, <2>4, TurnRight
<1>7. CASE DM!InstallHandlers(p)
  <2>1. cli.proc[p] = "stated" /\ cli' = Goes(cli, p, "up") BY <1>7 DEF Goes, DM!InstallHandlers
  <2>2. Turns(cli, cli', p, "up") /\ cli'.sock = cli.sock /\ cli'.state = cli.state
    BY <1>1, <1>2, <2>1, Turned DEF Files
  <2>3. cli.mode = "sequential" => FilesFollow(cli', p)
    BY <1>3, <2>1, <2>2, PlacesAre DEF FilesFollow, Turns, Leaving
  <2>4. Onwards(cli, p, "up") BY <2>1 DEF Onwards, DM!Start
  <2> QED BY <2>2, <2>3, <2>4, TurnRight
<1> QED BY <1>4, <1>5, <1>6, <1>7

LEMMA LeavesRight ==
  ASSUME CliRight(cli), NEW p \in Pid,
         DM!Close(p) \/ DM!Closed(p) \/ DM!CleanSocket(p) \/ DM!CleanState(p)
  PROVE  CliRight(cli')
<1>1. cli \in Cli BY DEF CliRight
<1>2. {"closing", "closed", "cleaned", "gone"} \subseteq Place /\ 0 \in Pid \cup {0} BY DEF Place, Leaving
<1>3. ASSUME cli.mode = "sequential" PROVE FilesFollow(cli, p) BY <1>3 DEF CliRight, InOrder
<1>4. CASE DM!Close(p)
  <2>1. cli.proc[p] = "signalled" /\ cli' = [DM!UnlinkFirst(cli) EXCEPT !.proc[p] = "closing"]
    BY <1>4 DEF DM!Close
  <2>2. cli' = GoesSock(cli, 0, p, "closing") BY <1>1, <2>1 DEF GoesSock, DM!UnlinkFirst, DM!None, Cli
  <2>3. Turns(cli, cli', p, "closing") /\ cli'.sock = 0 /\ cli'.state = cli.state
    BY <1>1, <1>2, <2>2, Turned DEF Files
  <2>4. cli.mode = "sequential" => FilesFollow(cli', p)
    BY <1>3, <2>1, <2>3, PlacesAre DEF FilesFollow, Turns, Leaving
  <2>5. Onwards(cli, p, "closing") BY <2>1 DEF Onwards, Leaving
  <2> QED BY <2>3, <2>4, <2>5, TurnRight
<1>5. CASE DM!Closed(p)
  <2>1. cli.proc[p] = "closing" /\ cli' = Goes(cli, p, "closed") BY <1>5 DEF Goes, DM!Closed
  <2>2. Turns(cli, cli', p, "closed") /\ cli'.sock = cli.sock /\ cli'.state = cli.state
    BY <1>1, <1>2, <2>1, Turned DEF Files
  <2>3. cli.mode = "sequential" => FilesFollow(cli', p)
    BY <1>3, <2>1, <2>2, PlacesAre DEF FilesFollow, Turns, Leaving
  <2>4. Onwards(cli, p, "closed") BY <2>1 DEF Onwards, Leaving
  <2> QED BY <2>2, <2>3, <2>4, TurnRight
<1>6. CASE DM!CleanSocket(p)
  <2>1. cli.proc[p] = "closed" /\ cli' = [DM!UnlinkFirst(cli) EXCEPT !.proc[p] = "cleaned"]
    BY <1>6 DEF DM!CleanSocket
  <2>2. cli' = GoesSock(cli, 0, p, "cleaned") BY <1>1, <2>1 DEF GoesSock, DM!UnlinkFirst, DM!None, Cli
  <2>3. Turns(cli, cli', p, "cleaned") /\ cli'.sock = 0 /\ cli'.state = cli.state
    BY <1>1, <1>2, <2>2, Turned DEF Files
  <2>4. cli.mode = "sequential" => FilesFollow(cli', p)
    BY <1>3, <2>1, <2>3, PlacesAre DEF FilesFollow, Turns, Leaving
  <2>5. Onwards(cli, p, "cleaned") BY <2>1 DEF Onwards, Leaving
  <2> QED BY <2>3, <2>4, <2>5, TurnRight
<1>7. CASE DM!CleanState(p)
  <2> DEFINE s == DM!UnlinkSecond(cli)
  <2>1. cli.proc[p] = "cleaned" /\ cli' = DM!Exit(s, p) BY <1>7 DEF DM!CleanState
  <2>2. s = [cli EXCEPT !.state = 0] BY DEF DM!UnlinkSecond, DM!None
  <2> HIDE DEF s
  <2>3. s \in Cli BY <1>1, <2>2 DEF Cli
  <2>4. Turns(s, cli', p, "gone") /\ cli'.sock = s.sock /\ cli'.state = s.state
    BY <1>2, <2>1, <2>3, Turned DEF Files
  <2>5. Turns(cli, cli', p, "gone") /\ cli'.sock = cli.sock /\ cli'.state = 0
    BY <1>1, <2>2, <2>4 DEF Turns, Cli
  <2>6. FilesFollow(cli', p) BY <2>5 DEF FilesFollow, Turns, Leaving, DM!Start
  <2>7. Onwards(cli, p, "gone") BY <2>1 DEF Onwards, Leaving
  <2> QED BY <2>5, <2>6, <2>7, TurnRight
<1> QED BY <1>4, <1>5, <1>6, <1>7

\* A killed process leaves its files, and every command that runs has met the crash.
Killed(s, t, p) ==
  /\ t \in Cli /\ t.mode = s.mode /\ t.good = s.good /\ t.sock = s.sock /\ t.state = s.state
  /\ t.proc[p] = "gone" /\ \A q \in Pid : q # p => t.proc[q] = s.proc[q]
  /\ \A q \in Pid : t.inbox[q] \subseteq s.inbox[q]
  /\ \A c \in Command :
       /\ t.cmd[c].kind = s.cmd[c].kind /\ t.cmd[c].at = s.cmd[c].at
       /\ t.cmd[c].pid = s.cmd[c].pid /\ t.cmd[c].ran = s.cmd[c].ran
       /\ t.cmd[c].met = (s.cmd[c].met \/ s.cmd[c].at \notin {"unborn", "ok", "failed"})

LEMMA CrashKills ==
  ASSUME cli \in Cli, NEW p \in Pid, DM!Crash(p)
  PROVE  Killed(cli, cli', p)
<1> DEFINE s == DM!Exit(cli, p)
           cmd == [c \in Command |-> DM!Met(cli.cmd[c])]
           k == s.crashes + 1
<1>1. Turns(cli, s, p, "gone") /\ Files(s, cli.sock, cli.state) BY PlacesAre, Turned
<1>2. s \in Cli /\ s.cmd = cli.cmd BY <1>1 DEF Turns
<1>3. cli' = [s EXCEPT !.crashes = k, !.cmd = cmd]
  <2>1. cli' = [s EXCEPT !.crashes = k, !.cmd = [c \in Command |-> DM!Met(s.cmd[c])]] BY DEF DM!Crash
  <2>2. [c \in Command |-> DM!Met(s.cmd[c])] = cmd BY <1>2
  <2> HIDE DEF s, cmd, k
  <2> QED BY <2>1, <2>2
<1>4. k \in Int BY <1>2 DEF Cli
<1>5. ASSUME NEW o \in Order
      PROVE  LET n == DM!Met(o)
             IN  /\ n \in Order /\ n.kind = o.kind /\ n.at = o.at /\ n.pid = o.pid /\ n.ran = o.ran
                 /\ n.met = (o.met \/ o.at \notin {"unborn", "ok", "failed"})
  <2> DEFINE m == o.met \/ o.at \notin {"unborn", "ok", "failed"}
  <2>1. DM!Met(o) = [o EXCEPT !.met = m] BY DEF DM!Met
  <2>2. m \in BOOLEAN BY DEF Order
  <2> HIDE DEF m
  <2>3. /\ DM!Met(o) \in Order /\ DM!Met(o).kind = o.kind /\ DM!Met(o).at = o.at /\ DM!Met(o).pid = o.pid
        /\ DM!Met(o).ran = o.ran /\ DM!Met(o).met = m
    BY <2>1, <2>2 DEF Order
  <2> QED BY <2>3 DEF m
<1>6. \A c \in Command : cli.cmd[c] \in Order /\ cmd[c] = DM!Met(cli.cmd[c]) BY DEF Cli
<1>7. cmd \in [Command -> Order]
  <2>1. \A c \in Command : cmd[c] \in Order BY <1>5, <1>6
  <2>2. cmd = [c \in Command |-> cmd[c]] OBVIOUS
  <2> HIDE DEF cmd
  <2> QED BY <2>1, <2>2
<1> HIDE DEF cmd, s, k
<1>8. /\ cli' \in Cli /\ cli'.cmd = cmd /\ cli'.mode = s.mode /\ cli'.good = s.good /\ cli'.sock = s.sock
      /\ cli'.state = s.state /\ cli'.proc = s.proc /\ cli'.inbox = s.inbox
  BY <1>2, <1>3, <1>4, <1>7 DEF Cli
<1>9. ASSUME NEW c \in Command
      PROVE  LET o == cli.cmd[c]
                 n == cli'.cmd[c]
             IN  /\ n.kind = o.kind /\ n.at = o.at /\ n.pid = o.pid /\ n.ran = o.ran
                 /\ n.met = (o.met \/ o.at \notin {"unborn", "ok", "failed"})
  BY <1>5, <1>6, <1>8
<1> QED BY <1>1, <1>8, <1>9 DEF Killed, Turns, Files

LEMMA KilledRight ==
  ASSUME NEW s, NEW t, CliRight(s), NEW p \in Pid, Alive(s, p), Killed(s, t, p)
  PROVE  CliRight(t)
<1>1. s \in Cli /\ t \in Cli BY DEF Killed, CliRight
<1>2. ASSUME NEW c \in Command PROVE Once(t, c)
  <2> DEFINE o == s.cmd[c]
             n == t.cmd[c]
  <2>1. Once(s, c) BY DEF CliRight
  <2>2. KindAt(o) /\ RanOnce(o) BY <2>1 DEF Once
  <2>3. n.kind = o.kind /\ n.at = o.at /\ n.ran = o.ran /\ n.pid = o.pid BY DEF Killed
  <2>4. \A q \in Pid : t.inbox[q] \subseteq s.inbox[q] BY DEF Killed
  <2>5. \A q \in Pid : c \in s.inbox[q] => o.at \in {"sent", "failed"} /\ o.ran = 0 /\ o.pid = q
    BY <2>1 DEF Once
  <2> HIDE DEF o, n
  <2>6. KindAt(n) /\ RanOnce(n) BY <2>2, <2>3 DEF KindAt, RanOnce
  <2>7. \A q \in Pid : c \in t.inbox[q] => n.at \in {"sent", "failed"} /\ n.ran = 0 /\ n.pid = q
    BY <2>3, <2>4, <2>5
  <2> QED BY <2>6, <2>7 DEF Once, n
<1>3. ASSUME t.mode = "sequential" PROVE InOrder(t)
  <2>1. InOrder(s) BY <1>3 DEF CliRight, Killed
  <2>2. OneAlive(s) BY <2>1 DEF InOrder
  <2>3. \A q \in Pid : ~Alive(t, q) BY <2>2 DEF Killed, Alive, OneAlive
  <2>4. OneAlive(t) BY <2>3 DEF OneAlive
  <2>5. LeavingStops(t) BY <2>3 DEF LeavingStops, Alive, Leaving
  <2>6. InTurn(t) BY <2>1 DEF InOrder, InTurn, Killed
  <2>7. ASSUME NEW q \in Pid PROVE FilesFollow(t, q)
    <3>1. CASE q = p BY <3>1 DEF Killed, FilesFollow, Leaving, DM!Start
    <3>2. CASE q # p
      <4>1. FilesFollow(s, q) BY <2>1 DEF InOrder
      <4>2. t.proc[q] = s.proc[q] /\ t.state = s.state /\ t.sock = s.sock BY <3>2 DEF Killed
      <4> QED BY <2>2, <3>2, <4>1, <4>2, OthersFollow
    <3> QED BY <3>1, <3>2
  <2>8. ASSUME NEW c \in Command PROVE Proceeds(t, t.cmd[c])
    <3> DEFINE o == s.cmd[c]
               n == t.cmd[c]
    <3>1. Proceeds(s, o) BY <2>1 DEF InOrder
    <3>2. /\ n.kind = o.kind /\ n.at = o.at /\ n.pid = o.pid
          /\ n.met = (o.met \/ o.at \notin {"unborn", "ok", "failed"})
      BY DEF Killed
    <3>3. o.pid \in Pid \cup {0} /\ o.at \in Stage BY <1>1 DEF Cli, Order
    <3>4. \A q \in Pid : s.proc[q] = "gone" => t.proc[q] = "gone" BY DEF Killed
    <3> SUFFICES Proceeds(t, n) OBVIOUS
    <3> HIDE DEF o, n
    <3>5. CASE o.at \in Over \cup {"unborn"}
      <4>1. n.pid # 0 /\ s.proc[n.pid] = "gone" => t.proc[n.pid] = "gone" BY <3>2, <3>3, <3>4
      <4>2. Proceeds(s, n) BY <3>1, <3>2, <3>5 DEF Proceeds, Over
      <4> QED BY <3>2, <3>5, <4>1, <4>2, EndedProceeds
    <3>6. CASE o.at \in {"begin", "connect", "sent", "stale", "nothing to stop", "again"}
      BY <2>3, <3>1, <3>2, <3>6 DEF Proceeds, Over
    <3>7. CASE o.at = "awaiting"
      <4>1. Awaited(s, o) /\ n.met BY <3>1, <3>2, <3>7 DEF Proceeds
      <4>2. t.good = s.good BY DEF Killed
      <4>3. o.pid = p BY <4>1 DEF Awaited
      <4>4. t.proc[p] = "gone" BY DEF Killed
      <4>5. Awaited(t, n) BY <2>3, <3>2, <4>1, <4>2, <4>3, <4>4 DEF Awaited
      <4> QED BY <3>2, <3>7, <4>5 DEF Proceeds, Over
    <3>8. CASE o.at = "stopping"
      <4>1. Stopping(s, o) BY <3>1, <3>8 DEF Proceeds
      <4>2. o.pid = p BY <4>1 DEF Stopping
      <4>3. t.proc[p] = "gone" BY DEF Killed
      <4>4. Stopping(t, n) BY <2>3, <3>2, <4>1, <4>2, <4>3 DEF Stopping
      <4> QED BY <3>2, <3>8, <4>4 DEF Proceeds, Over
    <3> QED BY <3>3, <3>5, <3>6, <3>7, <3>8 DEF Stage
  <2> QED BY <2>4, <2>5, <2>6, <2>7, <2>8 DEF InOrder
<1> QED BY <1>1, <1>2, <1>3 DEF CliRight

LEMMA CrashRight == ASSUME CliRight(cli), NEW p \in Pid, DM!Crash(p) PROVE CliRight(cli')
<1>1. cli \in Cli BY DEF CliRight
<1>2. Alive(cli, p) BY DEF DM!Crash, DM!pidAlive, Alive
<1> QED BY <1>1, <1>2, CrashKills, KilledRight

-----------------------------------------------------------------------------
(* What every step of a command keeps *)

\* One command goes on; the others and their requests stay.
Moves(s, t, c) ==
  /\ t \in Cli /\ t.mode = s.mode /\ t.cmd[c].at # "unborn"
  /\ \A d \in Command : d # c => t.cmd[d] = s.cmd[d]
  /\ \A q \in Pid, d \in Command : d # c /\ d \in t.inbox[q] => d \in s.inbox[q]

\* Nobody comes back.
Departed(s, t) == \A p \in Pid : s.proc[p] = "gone" => t.proc[p] = "gone"

LEMMA MoveRight ==
  ASSUME NEW s, NEW t, CliRight(s), NEW c \in Command, Moves(s, t, c), Once(t, c),
         s.cmd[c].at \notin Over \cup {"unborn"},
         t.mode = "sequential" =>
           /\ Departed(s, t) /\ OneAlive(t) /\ LeavingStops(t)
           /\ \A p \in Pid : FilesFollow(t, p)
           /\ Proceeds(t, t.cmd[c])
  PROVE  CliRight(t)
<1>1. s \in Cli /\ t \in Cli BY DEF Moves, CliRight
<1>2. ASSUME NEW d \in Command PROVE Once(t, d)
  <2>1. CASE d = c BY <2>1
  <2>2. CASE d # c
    <3>1. t.cmd[d] = s.cmd[d] /\ \A q \in Pid : d \in t.inbox[q] => d \in s.inbox[q] BY <2>2 DEF Moves
    <3>2. Once(s, d) BY DEF CliRight
    <3> QED BY <3>1, <3>2 DEF Once
  <2> QED BY <2>1, <2>2
<1>3. ASSUME t.mode = "sequential" PROVE InOrder(t)
  <2>1. InOrder(s) BY <1>3 DEF CliRight, Moves
  <2>2. InTurn(s) BY <2>1 DEF InOrder
  <2>3. s.cmd[c].at \notin Over /\ s.cmd[c].at # "unborn" OBVIOUS
  <2>4. \A d \in Command : d # c => s.cmd[d].at \in Over \cup {"unborn"} BY <1>1, <2>2, <2>3, OneUnderWay
  <2>5. \A d \in Command : d # c => t.cmd[d] = s.cmd[d] BY DEF Moves
  <2>6. InTurn(t)
    <3> SUFFICES ASSUME NEW d \in Command, NEW e \in Command, d < e, t.cmd[e].at # "unborn"
                 PROVE  t.cmd[d].at \in Over
      BY DEF InTurn
    <3>1. d # e BY Numbered
    <3>2. CASE e = c
      <4>1. s.cmd[d].at \in Over BY <2>2, <2>3, <3>2 DEF InTurn
      <4> QED BY <2>5, <3>1, <3>2, <4>1
    <3>3. CASE e # c
      <4>1. s.cmd[d].at \in Over BY <2>2, <2>5, <3>3 DEF InTurn
      <4>2. d # c BY <2>3, <4>1
      <4> QED BY <2>5, <4>1, <4>2
    <3> QED BY <3>2, <3>3
  <2>7. ASSUME NEW d \in Command PROVE Proceeds(t, t.cmd[d])
    <3>1. CASE d = c BY <1>3, <3>1
    <3>2. CASE d # c
      <4>1. Proceeds(s, s.cmd[d]) BY <2>1 DEF InOrder
      <4>2. s.cmd[d].pid \in Pid \cup {0} BY <1>1 DEF Cli, Order
      <4>3. s.cmd[d].pid # 0 /\ s.proc[s.cmd[d].pid] = "gone" => t.proc[s.cmd[d].pid] = "gone"
        BY <1>3, <4>2 DEF Departed
      <4>4. s.cmd[d].at \in Over \cup {"unborn"} BY <2>4, <3>2
      <4>5. Proceeds(t, s.cmd[d]) BY <4>1, <4>3, <4>4, EndedProceeds
      <4> QED BY <2>5, <3>2, <4>5
    <3> QED BY <3>1, <3>2
  <2> QED BY <1>3, <2>6, <2>7 DEF InOrder
<1> QED BY <1>1, <1>2, <1>3 DEF CliRight

\* The daemon executes a request and answers it.
Answered(s, t, p, c) ==
  /\ t \in Cli /\ t.mode = s.mode /\ t.good = s.good /\ t.sock = s.sock /\ t.state = s.state /\ t.proc = s.proc
  /\ c \notin t.inbox[p] /\ \A q \in Pid : t.inbox[q] \subseteq s.inbox[q]
  /\ \A d \in Command : d # c => t.cmd[d] = s.cmd[d]
  /\ t.cmd[c].kind = s.cmd[c].kind /\ t.cmd[c].pid = s.cmd[c].pid /\ t.cmd[c].met = s.cmd[c].met
  /\ t.cmd[c].ran = 1 /\ t.cmd[c].at = IF s.cmd[c].at = "sent" THEN "ok" ELSE s.cmd[c].at

LEMMA ConnectionAnswers ==
  ASSUME CliRight(cli), NEW p \in Pid, NEW c \in Command, DM!handleConnection(p, c)
  PROVE  Answered(cli, cli', p, c) /\ c \in cli.inbox[p]
<1> DEFINE o == cli.cmd[c]
           n == [o EXCEPT !.ran = o.ran + 1, !.at = IF o.at = "sent" THEN "ok" ELSE o.at]
           in == cli.inbox[p] \ {c}
<1>1. cli \in Cli /\ o \in Order /\ in \in SUBSET Command BY DEF CliRight, Cli
<1>2. c \in cli.inbox[p] BY DEF DM!handleConnection
<1>3. o.at \in {"sent", "failed"} /\ o.ran = 0 BY <1>2 DEF CliRight, Once
<1>4. cli' = [cli EXCEPT !.inbox[p] = in, !.cmd[c] = n] BY DEF DM!handleConnection, DM!Answer, DM!Executed
<1>5. n \in Order /\ n.kind = o.kind /\ n.pid = o.pid /\ n.met = o.met /\ n.ran = 1
      /\ n.at = IF o.at = "sent" THEN "ok" ELSE o.at
  <2>1. o.ran + 1 = 1 BY <1>3
  <2>2. n = [o EXCEPT !.ran = 1, !.at = IF o.at = "sent" THEN "ok" ELSE o.at] BY <2>1
  <2>3. 1 \in 0 .. 1 /\ "ok" \in Stage BY DEF Stage, Over
  <2> HIDE DEF o, n
  <2> QED BY <1>1, <2>2, <2>3 DEF Order
<1>6. c \notin in OBVIOUS
<1> HIDE DEF n, in
<1> QED BY <1>1, <1>2, <1>4, <1>5, <1>6 DEF Answered, Cli, in

LEMMA AnsweredRight ==
  ASSUME NEW s, NEW t, CliRight(s), NEW p \in Pid, NEW c \in Command, Answered(s, t, p, c), c \in s.inbox[p]
  PROVE  CliRight(t)
<1> DEFINE o == s.cmd[c]
           n == t.cmd[c]
<1>1. s \in Cli /\ t \in Cli BY DEF Answered, CliRight
<1>2. Once(s, c) BY DEF CliRight
<1>3. o.at \in {"sent", "failed"} /\ o.pid = p /\ KindAt(o) BY <1>2 DEF Once
<1>4. /\ n.kind = o.kind /\ n.pid = o.pid /\ n.met = o.met /\ n.ran = 1
      /\ n.at = IF o.at = "sent" THEN "ok" ELSE o.at
  BY DEF Answered
<1>5. Once(t, c)
  <2>1. \A q \in Pid : c \notin t.inbox[q]
    <3> SUFFICES ASSUME NEW q \in Pid, c \in t.inbox[q] PROVE FALSE OBVIOUS
    <3>1. c \in s.inbox[q] BY DEF Answered
    <3>2. q = p BY <1>2, <1>3, <3>1 DEF Once
    <3> QED BY <3>2 DEF Answered
  <2> HIDE DEF o, n
  <2>2. KindAt(n) /\ RanOnce(n) BY <1>3, <1>4 DEF KindAt, RanOnce, Over
  <2> QED BY <2>1, <2>2 DEF Once, n
<1>6. Moves(s, t, c)
  <2>1. n.at # "unborn" BY <1>3, <1>4
  <2> QED BY <2>1 DEF Moves, Answered
<1>7. ASSUME s.mode = "sequential"
      PROVE  /\ Departed(s, t) /\ OneAlive(t) /\ \A q \in Pid : FilesFollow(t, q)
             /\ LeavingStops(t) /\ Proceeds(t, n)
  <2>1. InOrder(s) BY <1>7 DEF CliRight
  <2>2. t.proc = s.proc /\ t.sock = s.sock /\ t.state = s.state BY DEF Answered
  <2>3. Departed(s, t) BY <2>2 DEF Departed
  <2>4. OneAlive(t) BY <2>1, <2>2 DEF InOrder, OneAlive, Alive
  <2>5. \A q \in Pid : FilesFollow(t, q) BY <2>1, <2>2 DEF InOrder, FilesFollow
  <2>6. LeavingStops(t)
    <3> SUFFICES ASSUME NEW q \in Pid, t.proc[q] \in Leaving
                 PROVE  \E d \in Command : t.cmd[d].at = "stopping"
      BY DEF LeavingStops
    <3>1. PICK d \in Command : s.cmd[d].at = "stopping" BY <2>1, <2>2 DEF InOrder, LeavingStops
    <3>2. d # c BY <1>3, <3>1
    <3> QED BY <3>1, <3>2 DEF Answered
  <2>7. Proceeds(t, n)
    <3>1. Proceeds(s, o) BY <2>1 DEF InOrder
    <3> HIDE DEF o, n
    <3>2. CASE o.at = "sent"
      <4>1. n.at = "ok" /\ n.kind # "stop" BY <1>3, <1>4, <3>2 DEF KindAt
      <4> QED BY <4>1 DEF Proceeds
    <3>3. CASE o.at = "failed" BY <1>4, <3>1, <3>3 DEF Proceeds
    <3> QED BY <1>3, <3>2, <3>3
  <2> QED BY <2>3, <2>4, <2>5, <2>6, <2>7
<1>8. CASE o.at = "sent"
  <2>1. s.cmd[c].at \notin Over \cup {"unborn"} BY <1>8 DEF Over
  <2>2. t.mode = s.mode BY DEF Answered
  <2> QED BY <1>5, <1>6, <1>7, <2>1, <2>2, MoveRight
<1>9. CASE o.at = "failed"
  <2>1. n.at = o.at BY <1>4, <1>9
  <2>2. \A d \in Command : t.cmd[d].at = s.cmd[d].at
    <3> SUFFICES ASSUME NEW d \in Command PROVE t.cmd[d].at = s.cmd[d].at OBVIOUS
    <3>1. CASE d = c BY <2>1, <3>1
    <3>2. CASE d # c BY <3>2 DEF Answered
    <3> QED BY <3>1, <3>2
  <2>3. \A d \in Command : Once(t, d)
    <3> SUFFICES ASSUME NEW d \in Command PROVE Once(t, d) OBVIOUS
    <3>1. CASE d = c BY <1>5, <3>1
    <3>2. CASE d # c
      <4>1. t.cmd[d] = s.cmd[d] /\ \A q \in Pid : t.inbox[q] \subseteq s.inbox[q] BY <3>2 DEF Answered
      <4>2. Once(s, d) BY DEF CliRight
      <4> QED BY <4>1, <4>2 DEF Once
    <3> QED BY <3>1, <3>2
  <2>4. ASSUME t.mode = "sequential" PROVE InOrder(t)
    <3>1. s.mode = "sequential" BY <2>4 DEF Answered
    <3>2. InOrder(s) BY <3>1 DEF CliRight
    <3>3. InTurn(t) BY <2>2, <3>2 DEF InOrder, InTurn
    <3>4. ASSUME NEW d \in Command PROVE Proceeds(t, t.cmd[d])
      <4>1. CASE d = c BY <1>7, <3>1, <4>1
      <4>2. CASE d # c
        <5>1. Proceeds(s, s.cmd[d]) BY <3>2 DEF InOrder
        <5>2. t.cmd[d] = s.cmd[d] /\ t.proc = s.proc /\ t.good = s.good BY <4>2 DEF Answered
        <5> QED BY <5>1, <5>2, SameProceeds
      <4> QED BY <4>1, <4>2
    <3> QED BY <1>7, <3>1, <3>3, <3>4 DEF InOrder
  <2> QED BY <1>1, <2>3, <2>4 DEF CliRight
<1> QED BY <1>3, <1>8, <1>9

-----------------------------------------------------------------------------
(* A command that only goes on *)

\* The command, there.
Has(o, at) == [o EXCEPT !.at = at]

LEMMA HasIs ==
  ASSUME NEW o \in Order, NEW at \in Stage
  PROVE  /\ Has(o, at) \in Order /\ Has(o, at).at = at /\ Has(o, at).kind = o.kind
         /\ Has(o, at).pid = o.pid /\ Has(o, at).met = o.met /\ Has(o, at).ran = o.ran
BY DEF Has, Order

LEMMA AtIs ==
  ASSUME NEW s \in Cli, NEW c \in Command, NEW at \in Stage \ {"unborn"}
  PROVE  LET t == DM!At(s, c, at)
         IN  /\ Moves(s, t, c) /\ t.cmd[c] = Has(s.cmd[c], at)
             /\ t.proc = s.proc /\ t.sock = s.sock /\ t.state = s.state /\ t.good = s.good
             /\ t.inbox = s.inbox /\ t.mode = s.mode
<1> DEFINE n == Has(s.cmd[c], at)
           t == DM!At(s, c, at)
<1>1. t = [s EXCEPT !.cmd[c] = n] BY DEF DM!At, Has
<1>2. s.cmd[c] \in Order BY DEF Cli
<1>3. n \in Order /\ n.at = at BY <1>2, HasIs
<1> HIDE DEF n, t
<1> SUFFICES /\ Moves(s, t, c) /\ t.cmd[c] = n
             /\ t.proc = s.proc /\ t.sock = s.sock /\ t.state = s.state /\ t.good = s.good
             /\ t.inbox = s.inbox /\ t.mode = s.mode
  BY DEF n, t
<1>4. t \in Cli /\ t.cmd[c] = n /\ \A d \in Command : d # c => t.cmd[d] = s.cmd[d] BY <1>1, <1>3 DEF Cli
<1>5. /\ t.proc = s.proc /\ t.sock = s.sock /\ t.state = s.state /\ t.good = s.good
      /\ t.inbox = s.inbox /\ t.mode = s.mode
  BY <1>1 DEF Cli
<1> QED BY <1>3, <1>4, <1>5 DEF Moves

\* Nothing is alive.
Quiet(s) == \A p \in Pid : ~Alive(s, p)

\* It may: its kind may be there, its request was executed when it ends with an answer and
\* is no longer in an inbox when it has not failed, and it finds what it should.
May(s, c, at) ==
  LET o == s.cmd[c]
      n == Has(o, at)
  IN  /\ at \in Stage \ {"unborn"} /\ o.at \notin Over \cup {"unborn"}
      /\ KindAt(n) /\ RanOnce(n) /\ (o.at = "sent" => at = "failed")
      /\ s.mode = "sequential" => Proceeds(s, n) /\ (o.at = "stopping" => Quiet(s))

LEMMA AtRight ==
  ASSUME NEW s, CliRight(s), NEW c \in Command, NEW at, May(s, c, at)
  PROVE  CliRight(DM!At(s, c, at))
<1> DEFINE t == DM!At(s, c, at)
           o == s.cmd[c]
           n == Has(o, at)
<1>1. s \in Cli /\ at \in Stage \ {"unborn"} /\ o.at \notin Over \cup {"unborn"} BY DEF CliRight, May
<1>2. /\ Moves(s, t, c) /\ t.cmd[c] = n
      /\ t.proc = s.proc /\ t.sock = s.sock /\ t.state = s.state /\ t.good = s.good
      /\ t.inbox = s.inbox /\ t.mode = s.mode
  BY <1>1, AtIs
<1>3. o \in Order BY <1>1 DEF Cli
<1>4. n.at = at /\ n.pid = o.pid /\ n.ran = o.ran BY <1>1, <1>3, HasIs
<1>5. KindAt(n) /\ RanOnce(n) /\ (o.at = "sent" => at = "failed") BY DEF May
<1> HIDE DEF t
<1>6. Once(t, c)
  <2>1. Once(s, c) BY DEF CliRight
  <2>2. ASSUME NEW p \in Pid, c \in t.inbox[p] PROVE n.at \in {"sent", "failed"} /\ n.ran = 0 /\ n.pid = p
    <3>1. o.at \in {"sent", "failed"} /\ o.ran = 0 /\ o.pid = p BY <1>2, <2>1, <2>2 DEF Once
    <3> QED BY <1>1, <1>4, <1>5, <3>1 DEF Over
  <2> QED BY <1>2, <1>5, <2>2 DEF Once
<1>7. ASSUME t.mode = "sequential"
      PROVE  /\ Departed(s, t) /\ OneAlive(t) /\ \A q \in Pid : FilesFollow(t, q)
             /\ LeavingStops(t) /\ Proceeds(t, n)
  <2>1. InOrder(s) BY <1>2, <1>7 DEF CliRight
  <2>2. Departed(s, t) BY <1>2 DEF Departed
  <2>3. OneAlive(t) BY <1>2, <2>1 DEF InOrder, OneAlive, Alive
  <2>4. \A q \in Pid : FilesFollow(t, q) BY <1>2, <2>1 DEF InOrder, FilesFollow
  <2>5. LeavingStops(t)
    <3> SUFFICES ASSUME NEW q \in Pid, t.proc[q] \in Leaving
                 PROVE  \E d \in Command : t.cmd[d].at = "stopping"
      BY DEF LeavingStops
    <3>1. PICK d \in Command : s.cmd[d].at = "stopping" BY <1>2, <2>1 DEF InOrder, LeavingStops
    <3>2. d # c
      <4>1. Alive(s, q) BY <1>2 DEF Alive, Leaving
      <4> QED BY <1>2, <1>7, <3>1, <4>1 DEF May, Quiet
    <3> QED BY <1>2, <3>1, <3>2 DEF Moves
  <2>6. Proceeds(s, n) BY <1>2, <1>7 DEF May
  <2> HIDE DEF n
  <2>7. Proceeds(t, n) BY <1>2, <2>6, SameProceeds
  <2> QED BY <2>2, <2>3, <2>4, <2>5, <2>7
<1>8. CliRight(t) BY <1>1, <1>2, <1>6, <1>7, MoveRight
<1> QED BY <1>8 DEF t

\* The files of nobody are removed.
NoState(s) == [s EXCEPT !.state = 0]

LEMMA DropRight ==
  ASSUME NEW s, CliRight(s), s.mode = "sequential" => Quiet(s)
  PROVE  /\ CliRight(NoState(s)) /\ NoState(s).proc = s.proc /\ NoState(s).cmd = s.cmd
         /\ NoState(s).mode = s.mode /\ NoState(s).good = s.good
<1> DEFINE t == NoState(s)
<1>1. s \in Cli BY DEF CliRight
<1>2. /\ t \in Cli /\ t.proc = s.proc /\ t.cmd = s.cmd /\ t.mode = s.mode /\ t.good = s.good
      /\ t.inbox = s.inbox /\ t.sock = s.sock /\ t.state = 0
  BY <1>1 DEF Cli, NoState
<1> HIDE DEF t
<1>3. \A c \in Command : Once(t, c) BY <1>2 DEF CliRight, Once
<1>4. ASSUME t.mode = "sequential" PROVE InOrder(t)
  <2>1. InOrder(s) /\ Quiet(s) BY <1>2, <1>4 DEF CliRight
  <2>2. OneAlive(t) /\ LeavingStops(t) /\ InTurn(t)
    BY <1>2, <2>1 DEF InOrder, OneAlive, Alive, LeavingStops, InTurn
  <2>3. ASSUME NEW p \in Pid PROVE FilesFollow(t, p)
    <3>1. FilesFollow(s, p) BY <2>1 DEF InOrder
    <3>2. s.proc[p] \in {"unborn", "gone"} BY <2>1 DEF Quiet, Alive
    <3> QED BY <1>2, <3>1, <3>2, Numbered DEF FilesFollow, Leaving, DM!Start
  <2>4. ASSUME NEW c \in Command PROVE Proceeds(t, t.cmd[c])
    <3>1. Proceeds(s, s.cmd[c]) BY <2>1 DEF InOrder
    <3> QED BY <1>2, <3>1, SameProceeds
  <2> QED BY <2>2, <2>3, <2>4 DEF InOrder
<1>5. CliRight(t) BY <1>2, <1>3, <1>4 DEF CliRight
<1> QED BY <1>2, <1>5 DEF t

-----------------------------------------------------------------------------
(* A command that starts a daemon *)

Spawned(s, t, c, p) ==
  /\ t \in Cli /\ t.mode = s.mode /\ t.sock = s.sock /\ t.state = s.state /\ t.inbox = s.inbox
  /\ s.proc[p] = "unborn" /\ t.proc[p] = "spawned" /\ \A q \in Pid : q # p => t.proc[q] = s.proc[q]
  /\ t.good[p] = (s.cmd[c].kind # "start bad")
  /\ \A d \in Command : d # c => t.cmd[d] = s.cmd[d]
  /\ t.cmd[c].kind = s.cmd[c].kind /\ t.cmd[c].met = s.cmd[c].met /\ t.cmd[c].ran = s.cmd[c].ran
  /\ t.cmd[c].at = "awaiting" /\ t.cmd[c].pid = p

First(S) == CHOOSE x \in S : \A y \in S : x <= y

LEMMA FirstIs == ASSUME NEW S, S \subseteq Nat, S # {} PROVE First(S) \in S
<1>1. PICK x \in S : \A y \in S : ~ (<<y, x>> \in OpToRel(<, Nat)) BY NatLessThanWellFounded, WFMin
<1>2. ASSUME NEW y \in S PROVE x <= y
  <2>1. CASE y < x
    <3>1. <<y, x>> \in Nat \X Nat BY <2>1
    <3>2. <<y, x>> \in {ss \in Nat \X Nat : ss[1] < ss[2]} BY <2>1, <3>1
    <3>3. <<y, x>> \in OpToRel(<, Nat) BY <3>2, Zenon DEF OpToRel
    <3> QED BY <1>1, <3>3
  <2> QED BY <2>1
<1> QED BY <1>2 DEF First

LEMMA SpawnIs ==
  ASSUME NEW s \in Cli, NEW c \in Command, DM!Unborn(s) # {}
  PROVE  \E p \in Pid : Spawned(s, DM!spawn(s, c), c, p)
<1> DEFINE p == First(DM!Unborn(s))
           t == DM!spawn(s, c)
           o == s.cmd[c]
           n == [o EXCEPT !.pid = p, !.at = "awaiting"]
           good == s.cmd[c].kind # "start bad"
<1>1. DM!Unborn(s) \subseteq Nat BY Numbered DEF DM!Unborn
<1>2. p \in DM!Unborn(s) BY <1>1, FirstIs
<1>3. p \in Pid /\ s.proc[p] = "unborn" BY <1>2 DEF DM!Unborn
<1>4. t = [s EXCEPT !.proc[p] = "spawned", !.good[p] = good, !.cmd[c].pid = p, !.cmd[c].at = "awaiting"]
  BY Zenon DEF DM!spawn, First
<1>5. o \in Order /\ good \in BOOLEAN /\ "spawned" \in Place /\ "awaiting" \in Stage
  BY PlacesAre DEF Cli, Stage
<1> HIDE DEF p
<1>6. n \in Order /\ n.kind = o.kind /\ n.met = o.met /\ n.ran = o.ran /\ n.at = "awaiting" /\ n.pid = p
  BY <1>3, <1>5 DEF Order
<1> HIDE DEF t, n, good
<1>7. /\ t \in Cli /\ t.mode = s.mode /\ t.sock = s.sock /\ t.state = s.state /\ t.inbox = s.inbox
      /\ t.proc = [s.proc EXCEPT ![p] = "spawned"] /\ t.good = [s.good EXCEPT ![p] = good]
      /\ t.cmd = [s.cmd EXCEPT ![c] = n]
  <2>1. t.cmd = [s.cmd EXCEPT ![c] = n] BY <1>4, <1>5 DEF Cli, Order, n
  <2>2. /\ t.mode = s.mode /\ t.sock = s.sock /\ t.state = s.state /\ t.inbox = s.inbox
        /\ t.proc = [s.proc EXCEPT ![p] = "spawned"] /\ t.good = [s.good EXCEPT ![p] = good]
    BY <1>4 DEF Cli
  <2>3. [s.proc EXCEPT ![p] = "spawned"] \in [Pid -> Place] /\ [s.good EXCEPT ![p] = good] \in [Pid -> BOOLEAN]
        /\ [s.cmd EXCEPT ![c] = n] \in [Command -> Order]
    BY <1>3, <1>5, <1>6 DEF Cli
  <2>4. t = [s EXCEPT !.proc = t.proc, !.good = t.good, !.cmd = t.cmd] BY <1>4 DEF Cli
  <2>5. t \in Cli BY <2>1, <2>2, <2>3, <2>4 DEF Cli
  <2> QED BY <2>1, <2>2, <2>5
<1>8. s.proc \in [Pid -> Place] /\ s.good \in [Pid -> BOOLEAN] /\ s.cmd \in [Command -> Order] BY DEF Cli
<1>9. Spawned(s, t, c, p) BY <1>3, <1>6, <1>7, <1>8 DEF Spawned, good
<1> QED BY <1>3, <1>9 DEF t

LEMMA SpawnRight ==
  ASSUME NEW s, CliRight(s), NEW c \in Command, DM!Unborn(s) # {},
         s.cmd[c].at \in {"begin", "stale", "again"},
         s.cmd[c].kind \in {"tool", "start", "start bad", "restart"},
         s.mode = "sequential" => Quiet(s)
  PROVE  CliRight(DM!spawn(s, c))
<1> DEFINE t == DM!spawn(s, c)
           o == s.cmd[c]
           n == t.cmd[c]
<1>1. s \in Cli BY DEF CliRight
<1>2. PICK p \in Pid : Spawned(s, t, c, p) BY <1>1, SpawnIs
<1> HIDE DEF t
<1>3. Moves(s, t, c) BY <1>2 DEF Spawned, Moves
<1>4. n.at = "awaiting" /\ n.kind = o.kind /\ n.pid = p /\ n.ran = o.ran /\ n.met = o.met BY <1>2 DEF Spawned
<1>5. Once(s, c) BY DEF CliRight
<1>6. Once(t, c)
  <2>1. \A q \in Pid : c \notin t.inbox[q] BY <1>2, <1>5 DEF Spawned, Once
  <2>2. RanOnce(o) BY <1>5 DEF Once
  <2> HIDE DEF n
  <2>3. KindAt(n) /\ RanOnce(n) BY <1>4, <2>2 DEF KindAt, RanOnce, Over
  <2> QED BY <2>1, <2>3 DEF Once, n
<1>7. ASSUME t.mode = "sequential"
      PROVE  /\ Departed(s, t) /\ OneAlive(t) /\ \A q \in Pid : FilesFollow(t, q)
             /\ LeavingStops(t) /\ Proceeds(t, n)
  <2>1. InOrder(s) /\ Quiet(s) BY <1>2, <1>7 DEF CliRight, Spawned
  <2>2. Departed(s, t) BY <1>2 DEF Departed, Spawned
  <2>3. \A q \in Pid : Alive(t, q) => q = p BY <1>2, <2>1 DEF Quiet, Alive, Spawned
  <2>4. OneAlive(t) BY <2>3 DEF OneAlive
  <2>5. t.proc[p] = "spawned" BY <1>2 DEF Spawned
  <2>6. ASSUME NEW q \in Pid PROVE FilesFollow(t, q)
    <3>1. FilesFollow(s, q) /\ s.proc[q] \in {"unborn", "gone"} BY <2>1 DEF InOrder, Quiet, Alive
    <3>2. t.state = s.state /\ t.sock = s.sock BY <1>2 DEF Spawned
    <3>3. CASE q = p
      <4>1. s.proc[p] = "unborn" BY <1>2 DEF Spawned
      <4> QED BY <2>5, <3>1, <3>2, <3>3, <4>1, PlacesAre DEF FilesFollow, Leaving
    <3>4. CASE q # p
      <4>1. t.proc[q] = s.proc[q] BY <1>2, <3>4 DEF Spawned
      <4> QED BY <3>1, <3>2, <4>1 DEF FilesFollow, Leaving, DM!Start
    <3> QED BY <3>3, <3>4
  <2>7. LeavingStops(t) BY <2>3, <2>5 DEF LeavingStops, Leaving, Alive
  <2>8. Awaited(t, n)
    <3>1. p # 0 BY Numbered
    <3>2. t.good[p] = (o.kind # "start bad") BY <1>2 DEF Spawned
    <3> HIDE DEF n
    <3> QED BY <1>4, <2>3, <2>5, <3>1, <3>2, PlacesAre DEF Awaited
  <2> HIDE DEF n
  <2>9. Proceeds(t, n) BY <1>4, <2>8 DEF Proceeds, Over
  <2> QED BY <2>2, <2>4, <2>6, <2>7, <2>9
<1>8. o.at \notin Over \cup {"unborn"} BY DEF Over
<1>9. CliRight(t) BY <1>3, <1>6, <1>7, <1>8, MoveRight
<1> QED BY <1>9 DEF t

-----------------------------------------------------------------------------
(* The steps of a command *)

\* What the socket and the state file tell who runs commands one after the other.
LEMMA FoundIs ==
  ASSUME NEW s, CliRight(s), s.mode = "sequential", NEW p \in Pid, Alive(s, p),
         s.proc[p] \in {"listening", "stated", "up"}
  PROVE  DM!probeSocket(s) /\ s.sock = p /\ (s.proc[p] = "up" => DM!readState(s) = "running")
<1>1. FilesFollow(s, p) BY DEF CliRight, InOrder
<1>2. s.sock = p /\ p # 0 BY <1>1, Numbered DEF FilesFollow
<1>3. DM!probeSocket(s) BY <1>2 DEF DM!probeSocket, DM!Accepting, DM!None
<1>4. ASSUME s.proc[p] = "up" PROVE DM!readState(s) = "running"
  <2>1. s.state = p BY <1>1, <1>4 DEF FilesFollow
  <2>2. DM!pidAlive(s, s.state) BY <1>2, <1>4, <2>1 DEF DM!pidAlive, DM!None
  <2> QED BY <2>2 DEF DM!readState
<1> QED BY <1>2, <1>3, <1>4

\* A command that begins finds the one process that is alive, by either file.
LEMMA BeginFinds ==
  ASSUME NEW s, CliRight(s), s.mode = "sequential", NEW c \in Command, s.cmd[c].at = "begin"
  PROVE  /\ ~DM!probeSocket(s) => Quiet(s)
         /\ DM!readState(s) # "running" => Quiet(s)
<1>1. Proceeds(s, s.cmd[c]) BY DEF CliRight, InOrder
<1>2. \A p \in Pid : Alive(s, p) => s.proc[p] = "up" BY <1>1 DEF Proceeds
<1>3. \A p \in Pid : Alive(s, p) => DM!probeSocket(s) /\ DM!readState(s) = "running" BY <1>2, FoundIs
<1> QED BY <1>3 DEF Quiet

\* Who is found is alive.
LEMMA ProbedIs ==
  ASSUME NEW s \in Cli, DM!probeSocket(s)
  PROVE  s.sock \in Pid /\ Alive(s, s.sock) /\ s.proc[s.sock] \in {"listening", "stated", "up", "signalled"}
BY DEF DM!probeSocket, DM!Accepting, DM!None, Alive, Cli

LEMMA RunningIs ==
  ASSUME NEW s \in Cli, DM!readState(s) = "running"
  PROVE  s.state \in Pid /\ Alive(s, s.state)
BY DEF DM!readState, DM!pidAlive, DM!None, Alive, Cli

LEMMA GiveRight ==
  ASSUME CliRight(cli), NEW c \in Command, NEW kind \in Requests, DM!Give(c, kind)
  PROVE  CliRight(cli')
<1> DEFINE o == cli.cmd[c]
           n == [o EXCEPT !.kind = kind, !.at = "begin"]
           t == cli'
<1>1. cli \in Cli /\ o \in Order /\ "begin" \in Stage BY DEF CliRight, Cli, Stage
<1>2. o.at = "unborn" BY DEF DM!Give
<1>3. /\ n \in Order /\ n.kind = kind /\ n.at = "begin" /\ n.pid = o.pid /\ n.ran = o.ran /\ n.met = o.met
  BY <1>1 DEF Order
<1>4. t = [cli EXCEPT !.cmd[c].kind = kind, !.cmd[c].at = "begin"] BY DEF DM!Give
<1>5. t.cmd = [cli.cmd EXCEPT ![c] = n] BY <1>1, <1>4 DEF Cli, Order
<1>6. /\ t.mode = cli.mode /\ t.sock = cli.sock /\ t.state = cli.state /\ t.inbox = cli.inbox
      /\ t.proc = cli.proc /\ t.good = cli.good
  BY <1>4, <1>1 DEF Cli
<1>7. [cli.cmd EXCEPT ![c] = n] \in [Command -> Order] BY <1>1, <1>3 DEF Cli
<1>8. t = [cli EXCEPT !.cmd = t.cmd] BY <1>1, <1>4 DEF Cli
<1>9. t \in Cli BY <1>1, <1>5, <1>7, <1>8 DEF Cli
<1>10. t.cmd[c] = n /\ \A d \in Command : d # c => t.cmd[d] = cli.cmd[d] BY <1>1, <1>5 DEF Cli
<1>11. Once(t, c)
  <2>1. Once(cli, c) BY DEF CliRight
  <2>2. \A q \in Pid : c \notin t.inbox[q] BY <1>2, <1>6, <2>1 DEF Once
  <2>3. RanOnce(o) BY <2>1 DEF Once
  <2> HIDE DEF o, n
  <2>4. KindAt(n) /\ RanOnce(n) BY <1>2, <1>3, <2>3 DEF KindAt, RanOnce, Over
  <2> QED BY <1>10, <2>2, <2>4 DEF Once
<1> HIDE DEF n
<1>12. ASSUME NEW d \in Command PROVE Once(t, d)
  <2>1. CASE d = c BY <1>11, <2>1
  <2>2. CASE d # c
    <3>1. Once(cli, d) /\ t.cmd[d] = cli.cmd[d] BY <1>10, <2>2 DEF CliRight
    <3> QED BY <1>6, <3>1 DEF Once
  <2> QED BY <2>1, <2>2
<1>13. ASSUME t.mode = "sequential" PROVE InOrder(t)
  <2>1. InOrder(cli) /\ ~DM!Overlap BY <1>6, <1>13 DEF CliRight, DM!Overlap
  <2>2. \A d \in Command : d < c => cli.cmd[d].at \in Over BY <2>1 DEF DM!Give, DM!Ended, Over
  <2>3. \A d \in Command : c < d => cli.cmd[d].at = "unborn"
    BY <1>2, <2>1 DEF InOrder, InTurn, Over
  <2>4. \A d \in Command : d # c => cli.cmd[d].at \in Over \cup {"unborn"}
    <3>1. \A d \in Command : d # c => d < c \/ c < d BY Numbered
    <3> QED BY <2>2, <2>3, <3>1
  <2>5. \A p \in Pid : Alive(cli, p) => cli.proc[p] = "up"
    <3> SUFFICES ASSUME NEW p \in Pid, Alive(cli, p) PROVE cli.proc[p] = "up" OBVIOUS
    <3>1. cli.proc[p] \notin DM!Start BY <2>1 DEF DM!Give, DM!Settled
    <3>2. cli.proc[p] \notin Leaving
      <4>1. \A d \in Command : cli.cmd[d].at # "stopping"
        <5>1. \A d \in Command : d # c => cli.cmd[d].at # "stopping" BY <2>4 DEF Over
        <5> QED BY <1>2, <5>1
      <4> QED BY <2>1, <4>1 DEF InOrder, LeavingStops
    <3>3. cli.proc[p] \in Place BY <1>1 DEF Cli
    <3> QED BY <3>1, <3>2, <3>3 DEF Place, Alive
  <2>6. InTurn(t)
    <3> SUFFICES ASSUME NEW d \in Command, NEW e \in Command, d < e, t.cmd[e].at # "unborn"
                 PROVE  t.cmd[d].at \in Over
      BY DEF InTurn
    <3>1. d # e BY Numbered
    <3>2. CASE e = c BY <1>10, <2>2, <3>1, <3>2
    <3>3. CASE e # c
      <4>1. cli.cmd[e].at # "unborn" BY <1>10, <3>3
      <4>2. d # c BY <2>3, <4>1
      <4> QED BY <1>10, <2>1, <4>1, <4>2 DEF InOrder, InTurn
    <3> QED BY <3>2, <3>3
  <2>7. OneAlive(t) /\ \A p \in Pid : FilesFollow(t, p)
    BY <1>6, <2>1 DEF InOrder, OneAlive, Alive, FilesFollow
  <2>8. LeavingStops(t) BY <1>6, <2>5 DEF LeavingStops, Alive, Leaving
  <2>9. ASSUME NEW d \in Command PROVE Proceeds(t, t.cmd[d])
    <3>1. CASE d = c
      <4>1. \A p \in Pid : Alive(t, p) => t.proc[p] = "up" BY <1>6, <2>5 DEF Alive
      <4>2. Proceeds(t, n) BY <1>3, <4>1 DEF Proceeds
      <4> QED BY <1>10, <3>1, <4>2
    <3>2. CASE d # c
      <4>1. Proceeds(cli, cli.cmd[d]) BY <2>1 DEF InOrder
      <4> QED BY <1>6, <1>10, <3>2, <4>1, SameProceeds
    <3> QED BY <3>1, <3>2
  <2> QED BY <2>6, <2>7, <2>8, <2>9 DEF InOrder
<1> QED BY <1>9, <1>12, <1>13 DEF CliRight

\* It may end in a way about which little is said.
LEMMA MayBe ==
  ASSUME NEW s, CliRight(s), NEW c \in Command, NEW at \in Stage \ {"unborn"},
         s.cmd[c].at \notin Over \cup {"unborn", "sent", "stopping"},
         KindAt(Has(s.cmd[c], at)),
         at = "ok" => s.cmd[c].kind \notin {"tool", "tool only", "status"},
         s.mode = "sequential" => Proceeds(s, Has(s.cmd[c], at))
  PROVE  May(s, c, at)
<1> DEFINE o == s.cmd[c]
<1>1. s \in Cli /\ RanOnce(o) BY DEF CliRight, Once
<1>2. o \in Order BY <1>1 DEF Cli
<1> HIDE DEF o
<1>3. RanOnce(Has(o, at)) BY <1>1, <1>2, HasIs DEF RanOnce, o
<1> QED BY <1>3 DEF May, o

LEMMA EnsureDaemonRight ==
  ASSUME CliRight(cli), NEW c \in Command, DM!ensureDaemon(c)
  PROVE  CliRight(cli')
<1> DEFINE o == cli.cmd[c]
<1>1. cli \in Cli /\ o \in Order BY DEF CliRight, Cli
<1>2. o.at = "begin" /\ o.kind \in {"tool", "tool only"} BY DEF DM!ensureDaemon
<1>3. cli.mode = "sequential" => Proceeds(cli, o) BY DEF CliRight, InOrder
<1> HIDE DEF o
<1>4. CASE DM!probeSocket(cli)
  <2> DEFINE n == Has(o, "connect")
  <2>1. cli' = DM!At(cli, c, "connect") BY <1>4 DEF DM!ensureDaemon
  <2>2. n.at = "connect" /\ n.kind = o.kind BY <1>1, HasIs DEF Stage
  <2> HIDE DEF n
  <2>3. cli.sock \in Pid /\ Alive(cli, cli.sock) BY <1>1, <1>4, ProbedIs
  <2>4. cli.mode = "sequential" => Proceeds(cli, n) BY <1>2, <1>3, <2>2, <2>3 DEF Proceeds, Over
  <2>5. KindAt(n) BY <1>2, <2>2 DEF KindAt
  <2>6. May(cli, c, "connect") BY <1>2, <2>4, <2>5, MayBe DEF Stage, Over, n, o
  <2> QED BY <2>1, <2>6, AtRight
<1>5. CASE ~DM!probeSocket(cli) /\ o.kind = "tool only"
  <2> DEFINE n == Has(o, "failed")
  <2>1. cli' = DM!At(cli, c, "failed") BY <1>5 DEF DM!ensureDaemon, o
  <2>2. n.at = "failed" /\ n.kind = o.kind BY <1>1, HasIs DEF Stage, Over
  <2> HIDE DEF n
  <2>3. Proceeds(cli, n) BY <1>5, <2>2 DEF Proceeds
  <2>4. KindAt(n) BY <1>2, <2>2 DEF KindAt
  <2>5. May(cli, c, "failed") BY <1>2, <2>3, <2>4, MayBe DEF Stage, Over, n, o
  <2> QED BY <2>1, <2>5, AtRight
<1>6. CASE ~DM!probeSocket(cli) /\ o.kind # "tool only"
  <2>1. DM!Unborn(cli) # {} /\ cli' = DM!spawn(cli, c) BY <1>6 DEF DM!ensureDaemon, o
  <2>2. cli.mode = "sequential" => Quiet(cli) BY <1>2, <1>6, BeginFinds DEF o
  <2> QED BY <1>2, <1>6, <2>1, <2>2, SpawnRight DEF o
<1> QED BY <1>4, <1>5, <1>6

LEMMA StatusRight ==
  ASSUME CliRight(cli), NEW c \in Command, DM!cmdStatus(c)
  PROVE  CliRight(cli')
<1> DEFINE o == cli.cmd[c]
<1>1. cli \in Cli /\ o \in Order BY DEF CliRight, Cli
<1>2. o.at = "begin" /\ o.kind = "status" BY DEF DM!cmdStatus
<1>3. cli.mode = "sequential" => Proceeds(cli, o) BY DEF CliRight, InOrder
<1> HIDE DEF o
<1>4. CASE DM!readState(cli) = "running"
  <2> DEFINE n == Has(o, "connect")
  <2>1. cli' = DM!At(cli, c, "connect") BY <1>4 DEF DM!cmdStatus
  <2>2. n.at = "connect" /\ n.kind = o.kind BY <1>1, HasIs DEF Stage
  <2> HIDE DEF n
  <2>3. cli.state \in Pid /\ Alive(cli, cli.state) BY <1>1, <1>4, RunningIs
  <2>4. cli.mode = "sequential" => Proceeds(cli, n) BY <1>2, <1>3, <2>2, <2>3 DEF Proceeds, Over
  <2>5. KindAt(n) BY <1>2, <2>2 DEF KindAt
  <2>6. May(cli, c, "connect") BY <1>2, <2>4, <2>5, MayBe DEF Stage, Over, n, o
  <2> QED BY <2>1, <2>6, AtRight
<1>5. CASE DM!readState(cli) # "running"
  <2> DEFINE n == Has(o, "failed")
  <2>1. cli' = DM!At(cli, c, "failed") BY <1>5 DEF DM!cmdStatus
  <2>2. n.at = "failed" /\ n.kind = o.kind BY <1>1, HasIs DEF Stage, Over
  <2> HIDE DEF n
  <2>3. Proceeds(cli, n) BY <1>2, <2>2 DEF Proceeds
  <2>4. KindAt(n) BY <2>2 DEF KindAt
  <2>5. May(cli, c, "failed") BY <1>2, <2>3, <2>4, MayBe DEF Stage, Over, n, o
  <2> QED BY <2>1, <2>5, AtRight
<1> QED BY <1>4, <1>5

LEMMA StartDetachedRight ==
  ASSUME CliRight(cli), NEW c \in Command, DM!StartDetached(c)
  PROVE  CliRight(cli')
<1> DEFINE o == cli.cmd[c]
<1>1. cli \in Cli /\ o \in Order BY DEF CliRight, Cli
<1>2. KindAt(o) BY DEF CliRight, Once
<1>3. (o.at = "begin" /\ o.kind \in {"start", "start bad"}) \/ o.at = "again" BY DEF DM!StartDetached
<1>4. cli.mode = "sequential" => Proceeds(cli, o) BY DEF CliRight, InOrder
<1>5. cli.mode = "sequential" /\ DM!readState(cli) # "running" => Quiet(cli)
  <2>1. CASE o.at = "begin" BY <2>1, BeginFinds
  <2>2. CASE o.at = "again" BY <1>4, <2>2 DEF Proceeds, Quiet
  <2> QED BY <1>3, <2>1, <2>2
<1> HIDE DEF o
<1>6. o.kind \in {"start", "start bad", "restart"} BY <1>2, <1>3 DEF KindAt
<1>7. CASE DM!readState(cli) = "running"
  <2> DEFINE n == Has(o, "ok")
  <2>1. cli' = DM!At(cli, c, "ok") BY <1>7 DEF DM!StartDetached
  <2>2. n.at = "ok" /\ n.kind = o.kind BY <1>1, HasIs DEF Stage, Over
  <2> HIDE DEF n
  <2>3. Proceeds(cli, n) /\ KindAt(n) BY <1>6, <2>2 DEF Proceeds, KindAt
  <2>4. May(cli, c, "ok") BY <1>3, <1>6, <2>3, MayBe DEF Stage, Over, n, o
  <2> QED BY <2>1, <2>4, AtRight
<1>8. CASE DM!readState(cli) = "stale"
  <2> DEFINE n == Has(o, "stale")
  <2>1. cli' = DM!At(cli, c, "stale") BY <1>8 DEF DM!StartDetached
  <2>2. n.at = "stale" /\ n.kind = o.kind BY <1>1, HasIs DEF Stage, Over
  <2>3. cli.mode = "sequential" => Quiet(cli) BY <1>5, <1>8
  <2> HIDE DEF n
  <2>4. cli.mode = "sequential" => Proceeds(cli, n) BY <2>2, <2>3 DEF Proceeds, Quiet, Over
  <2>5. KindAt(n) BY <1>6, <2>2 DEF KindAt
  <2>6. May(cli, c, "stale") BY <1>3, <2>4, <2>5, MayBe DEF Stage, Over, n, o
  <2> QED BY <2>1, <2>6, AtRight
<1>9. CASE DM!readState(cli) \notin {"running", "stale"}
  <2>1. DM!Unborn(cli) # {} /\ cli' = DM!spawn(cli, c) BY <1>9 DEF DM!StartDetached
  <2>2. cli.mode = "sequential" => Quiet(cli) BY <1>5, <1>9
  <2> QED BY <1>3, <1>6, <2>1, <2>2, SpawnRight DEF o
<1> QED BY <1>7, <1>8, <1>9

\* A stop that ends, in any way: a restart goes on, a stop reports.
LEMMA StoppedRight ==
  ASSUME NEW s, CliRight(s), NEW c \in Command, NEW at \in Over,
         s.cmd[c].at \in {"begin", "nothing to stop", "stopping"}, s.cmd[c].kind \in {"stop", "restart"},
         s.mode = "sequential" =>
           Quiet(s) /\ (at = "ok" => s.cmd[c].pid # 0 /\ s.proc[s.cmd[c].pid] = "gone")
  PROVE  CliRight(DM!Stopped(s, c, at))
<1> DEFINE o == s.cmd[c]
           to == IF o.kind = "restart" THEN "again" ELSE at
           n == Has(o, to)
<1>1. s \in Cli /\ o \in Order /\ to \in Stage \ {"unborn"} BY DEF CliRight, Cli, Stage, Over
<1>2. n.at = to /\ n.kind = o.kind /\ n.pid = o.pid /\ n.ran = o.ran BY <1>1, HasIs
<1>3. RanOnce(o) BY DEF CliRight, Once
<1>4. o.at \notin Over \cup {"unborn", "sent"} BY DEF Over
<1>5. DM!Stopped(s, c, at) = DM!At(s, c, to) BY DEF DM!Stopped
<1> HIDE DEF n
<1>6. CASE o.kind = "restart"
  <2>1. n.at = "again" /\ n.kind = "restart" BY <1>2, <1>6
  <2>2. o.ran # 1 BY <1>3, <1>4 DEF RanOnce
  <2>3. KindAt(n) /\ RanOnce(n) BY <1>2, <2>1, <2>2 DEF KindAt, RanOnce
  <2>4. s.mode = "sequential" => Proceeds(s, n) BY <2>1 DEF Proceeds, Quiet, Over
  <2>5. May(s, c, to) BY <1>1, <1>4, <2>3, <2>4 DEF May, n
  <2> QED BY <1>5, <2>5, AtRight
<1>7. CASE o.kind = "stop"
  <2>1. n.at = at /\ n.kind = "stop" BY <1>2, <1>7
  <2>2. KindAt(n) /\ RanOnce(n) BY <2>1 DEF KindAt, RanOnce, Over
  <2>3. s.mode = "sequential" => Proceeds(s, n) BY <1>2, <2>1 DEF Proceeds, Over
  <2>4. May(s, c, to) BY <1>1, <1>4, <2>2, <2>3 DEF May, n
  <2> QED BY <1>5, <2>4, AtRight
<1> QED BY <1>6, <1>7

\* A signal takes a process one step on its way out.
LEMMA SignalIs ==
  ASSUME NEW s \in Cli, NEW p \in Pid
  PROVE  LET t == DM!Signal(s, p)
         IN  /\ \E place \in Place : Turns(s, t, p, place)
             /\ t.sock = s.sock /\ t.state = s.state
             /\ s.proc[p] = "up" => t.proc[p] = "signalled" /\ t.inbox = s.inbox
<1> DEFINE t == DM!Signal(s, p)
<1>1. CASE s.proc[p] \in DM!Start
  <2>1. t = DM!Exit(s, p) BY <1>1, PlacesAre DEF DM!Signal
  <2> HIDE DEF t
  <2>2. Turns(s, t, p, "gone") /\ Files(t, s.sock, s.state) BY <2>1, Turned, PlacesAre
  <2>3. s.proc[p] # "up" BY <1>1 DEF DM!Start
  <2> QED BY <2>2, <2>3, PlacesAre DEF Files, t
<1>2. CASE s.proc[p] = "up"
  <2>1. t = Goes(s, p, "signalled") BY <1>2, PlacesAre DEF DM!Signal, Goes
  <2> HIDE DEF t
  <2>2. "signalled" \in Place BY DEF Place, Leaving
  <2>3. Turns(s, t, p, "signalled") /\ Files(t, s.sock, s.state) BY <2>1, <2>2, Turned
  <2>4. t.inbox = s.inbox BY <2>1 DEF Goes, Cli
  <2> QED BY <2>2, <2>3, <2>4 DEF Files, Turns, t
<1>3. CASE s.proc[p] = "closing"
  <2>1. t = [s EXCEPT !.proc[p] = "closed", !.inbox[p] = {}] BY <1>3, PlacesAre DEF DM!Signal
  <2> HIDE DEF t
  <2>2. "closed" \in Place BY DEF Place, Leaving
  <2>3. Turns(s, t, p, "closed") /\ Files(t, s.sock, s.state) BY <2>1, <2>2 DEF Turns, Files, Cli
  <2> QED BY <1>3, <2>2, <2>3 DEF Files, t
<1>4. CASE s.proc[p] \notin DM!Start \cup {"up", "closing"}
  <2>1. t = s BY <1>4 DEF DM!Signal
  <2> HIDE DEF t
  <2>2. s.proc[p] \in Place BY DEF Cli
  <2>3. Turns(s, s, p, s.proc[p]) BY DEF Turns
  <2> QED BY <1>4, <2>1, <2>2, <2>3 DEF t
<1> QED BY <1>1, <1>2, <1>3, <1>4

LEMMA StopRight ==
  ASSUME CliRight(cli), NEW c \in Command, DM!cmdStop(c)
  PROVE  CliRight(cli')
<1> DEFINE o == cli.cmd[c]
<1>1. cli \in Cli /\ o \in Order BY DEF CliRight, Cli
<1>2. o.at = "begin" /\ o.kind \in {"stop", "restart"} BY DEF DM!cmdStop
<1>3. cli.mode = "sequential" => Proceeds(cli, o) BY DEF CliRight, InOrder
<1>4. cli.mode = "sequential" /\ DM!readState(cli) # "running" => Quiet(cli) BY <1>2, BeginFinds
<1>5. CASE DM!readState(cli) = "running"
  <2> DEFINE p == cli.state
             s == DM!Signal(cli, p)
             n == [o EXCEPT !.at = "stopping", !.pid = p]
             t == cli'
  <2>1. p \in Pid /\ Alive(cli, p) BY <1>1, <1>5, RunningIs
  <2>2. t = [s EXCEPT !.cmd[c].at = "stopping", !.cmd[c].pid = p] BY <1>5 DEF DM!cmdStop
  <2> HIDE DEF p, s
  <2>3. PICK place \in Place : Turns(cli, s, p, place) BY <1>1, <2>1, SignalIs DEF s
  <2>4. s.sock = cli.sock /\ s.state = cli.state BY <1>1, <2>1, SignalIs DEF s
  <2>5. cli.proc[p] = "up" => s.proc[p] = "signalled" BY <1>1, <2>1, SignalIs DEF s
  <2>6. s \in Cli /\ s.cmd = cli.cmd /\ s.mode = cli.mode BY <2>3 DEF Turns
  <2>7. n \in Order /\ n.at = "stopping" /\ n.pid = p /\ n.kind = o.kind /\ n.ran = o.ran
    BY <1>1, <2>1 DEF Order, Stage
  <2>8. t.cmd = [s.cmd EXCEPT ![c] = n] BY <1>1, <2>2, <2>6 DEF Cli, Order
  <2>9. /\ t.mode = s.mode /\ t.sock = s.sock /\ t.state = s.state /\ t.inbox = s.inbox /\ t.proc = s.proc
        /\ t.good = s.good
    BY <2>2, <2>6 DEF Cli
  <2>10. [s.cmd EXCEPT ![c] = n] \in [Command -> Order] BY <2>6, <2>7 DEF Cli
  <2>11. t = [s EXCEPT !.cmd = t.cmd] BY <2>2, <2>6 DEF Cli
  <2>12. t \in Cli BY <2>6, <2>8, <2>10, <2>11 DEF Cli
  <2>13. t.cmd[c] = n /\ \A d \in Command : d # c => t.cmd[d] = cli.cmd[d] BY <2>6, <2>8 DEF Cli
  <2> HIDE DEF n
  <2>14. Moves(cli, t, c) BY <2>3, <2>6, <2>7, <2>9, <2>12, <2>13 DEF Moves, Turns
  <2>15. Once(t, c)
    <3>1. Once(cli, c) BY DEF CliRight
    <3>2. \A q \in Pid : c \notin t.inbox[q] BY <1>2, <2>3, <2>9, <3>1 DEF Once, Turns
    <3>3. RanOnce(o) BY <3>1 DEF Once
    <3> HIDE DEF o
    <3>4. KindAt(n) /\ RanOnce(n) BY <1>2, <2>7, <3>3 DEF KindAt, RanOnce, Over
    <3> QED BY <2>13, <3>2, <3>4 DEF Once
  <2>16. ASSUME t.mode = "sequential"
         PROVE  /\ Departed(cli, t) /\ OneAlive(t) /\ \A q \in Pid : FilesFollow(t, q)
                /\ LeavingStops(t) /\ Proceeds(t, n)
    <3>1. InOrder(cli) BY <2>6, <2>9, <2>16 DEF CliRight
    <3>2. cli.proc[p] = "up" BY <1>2, <1>3, <2>1, <2>6, <2>9, <2>16 DEF Proceeds
    <3>3. t.proc[p] = "signalled" BY <2>5, <2>9, <3>2
    <3>4. \A q \in Pid : q # p => t.proc[q] = cli.proc[q] BY <2>3, <2>9 DEF Turns
    <3>5. Departed(cli, t) BY <3>2, <3>4 DEF Departed
    <3>6. \A q \in Pid : Alive(t, q) => q = p BY <2>1, <3>1, <3>4 DEF InOrder, OneAlive, Alive
    <3>7. OneAlive(t) BY <3>6 DEF OneAlive
    <3>8. ASSUME NEW q \in Pid PROVE FilesFollow(t, q)
      <4>1. FilesFollow(cli, q) /\ t.state = cli.state /\ t.sock = cli.sock BY <2>4, <2>9, <3>1 DEF InOrder
      <4>2. CASE q = p BY <3>2, <3>3, <4>1, <4>2, PlacesAre DEF FilesFollow, Leaving
      <4>3. CASE q # p BY <3>4, <4>1, <4>3 DEF FilesFollow
      <4> QED BY <4>2, <4>3
    <3>9. LeavingStops(t) BY <2>7, <2>13 DEF LeavingStops
    <3>10. p # 0 BY <2>1, Numbered
    <3>11. Stopping(t, n) BY <2>7, <3>3, <3>6, <3>10 DEF Stopping, Leaving
    <3>12. Proceeds(t, n) BY <2>7, <3>11 DEF Proceeds, Over
    <3> QED BY <3>5, <3>7, <3>8, <3>9, <3>12
  <2>17. o.at \notin Over \cup {"unborn"} BY <1>2 DEF Over
  <2> QED BY <2>13, <2>14, <2>15, <2>16, <2>17, MoveRight
<1>6. CASE DM!readState(cli) = "stale"
  <2> DEFINE n == Has(o, "nothing to stop")
  <2>1. cli' = DM!At(cli, c, "nothing to stop") BY <1>6 DEF DM!cmdStop
  <2>2. n.at = "nothing to stop" /\ n.kind = o.kind BY <1>1, HasIs DEF Stage, Over
  <2>3. cli.mode = "sequential" => Quiet(cli) BY <1>4, <1>6
  <2> HIDE DEF n, o
  <2>4. cli.mode = "sequential" => Proceeds(cli, n) BY <2>2, <2>3 DEF Proceeds, Quiet, Over
  <2>5. KindAt(n) BY <1>2, <2>2 DEF KindAt
  <2>6. May(cli, c, "nothing to stop") BY <1>2, <2>4, <2>5, MayBe DEF Stage, Over, n, o
  <2> QED BY <2>1, <2>6, AtRight
<1>7. CASE DM!readState(cli) \notin {"running", "stale"}
  <2>1. cli' = DM!Stopped(cli, c, "failed") BY <1>7 DEF DM!cmdStop
  <2>2. cli.mode = "sequential" => Quiet(cli) BY <1>4, <1>7
  <2>3. "failed" \in Over /\ "failed" # "ok" BY DEF Over
  <2> QED BY <1>2, <2>1, <2>2, <2>3, StoppedRight
<1> QED BY <1>5, <1>6, <1>7

LEMMA DropStaleRight ==
  ASSUME CliRight(cli), NEW c \in Command, DM!DropStale(c)
  PROVE  CliRight(cli')
<1> DEFINE o == cli.cmd[c]
           s == NoState(cli)
<1>1. KindAt(o) BY DEF CliRight, Once
<1>2. o.at \in {"stale", "nothing to stop"} BY DEF DM!DropStale
<1>3. cli.mode = "sequential" => Quiet(cli)
  <2>1. cli.mode = "sequential" => Proceeds(cli, o) BY DEF CliRight, InOrder
  <2> QED BY <1>2, <2>1 DEF Proceeds, Quiet
<1>4. CliRight(s) /\ s.proc = cli.proc /\ s.cmd = cli.cmd /\ s.mode = cli.mode BY <1>3, DropRight
<1>5. \/ o.at = "stale" /\ DM!Unborn(cli) # {} /\ cli' = DM!spawn(s, c)
      \/ o.at = "nothing to stop" /\ cli' = DM!Stopped(s, c, "failed")
  BY DEF DM!DropStale, DM!None, NoState
<1> HIDE DEF o, s
<1>6. s.mode = "sequential" => Quiet(s) BY <1>3, <1>4 DEF Quiet, Alive
<1>7. s.cmd[c] = o BY <1>4 DEF o
<1>8. CASE o.at = "stale"
  <2>1. DM!Unborn(s) # {} /\ cli' = DM!spawn(s, c) BY <1>4, <1>5, <1>8 DEF DM!Unborn
  <2>2. o.kind \in {"tool", "start", "start bad", "restart"} BY <1>1, <1>8 DEF KindAt
  <2> QED BY <1>4, <1>6, <1>7, <1>8, <2>1, <2>2, SpawnRight
<1>9. CASE o.at = "nothing to stop"
  <2>1. cli' = DM!Stopped(s, c, "failed") BY <1>5, <1>9
  <2>2. o.kind \in {"stop", "restart"} BY <1>1, <1>9 DEF KindAt
  <2>3. "failed" \in Over /\ "failed" # "ok" BY DEF Over
  <2> QED BY <1>4, <1>6, <1>7, <1>9, <2>1, <2>2, <2>3, StoppedRight
<1> QED BY <1>2, <1>8, <1>9

LEMMA WaitForSocketRight ==
  ASSUME CliRight(cli), NEW c \in Command, DM!waitForSocket(c)
  PROVE  CliRight(cli')
<1> DEFINE o == cli.cmd[c]
<1>1. cli \in Cli /\ o \in Order BY DEF CliRight, Cli
<1>2. o.at = "awaiting" BY DEF DM!waitForSocket
<1>3. o.kind \in {"tool", "start", "start bad", "restart"} BY <1>2 DEF CliRight, Once, KindAt
<1>4. cli.mode = "sequential" => Awaited(cli, o) BY <1>2 DEF CliRight, InOrder, Proceeds
<1>5. CASE DM!probeSocket(cli)
  <2> DEFINE at == IF o.kind = "tool" THEN "connect" ELSE "ok"
             n == Has(o, at)
  <2>1. cli' = DM!At(cli, c, at) BY <1>5 DEF DM!waitForSocket
  <2>2. at \in Stage \ {"unborn"} BY DEF Stage, Over
  <2>3. n.at = at /\ n.kind = o.kind BY <1>1, <2>2, HasIs
  <2> HIDE DEF n
  <2>4. cli.sock \in Pid /\ Alive(cli, cli.sock) /\ cli.proc[cli.sock] \in {"listening", "stated", "up", "signalled"}
    BY <1>1, <1>5, ProbedIs
  <2>5. KindAt(n) BY <1>3, <2>3 DEF KindAt
  <2>6. cli.mode = "sequential" => Proceeds(cli, n)
    <3> HAVE cli.mode = "sequential"
    <3>1. cli.sock = o.pid BY <1>4, <2>4 DEF Awaited
    <3>2. cli.proc[cli.sock] \in {"listening", "stated", "up"} BY <1>4, <2>4, <3>1 DEF Awaited, DM!Start
    <3>3. \A p \in Pid : Alive(cli, p) => p = cli.sock BY <1>4, <3>1 DEF Awaited
    <3>4. CASE o.kind = "tool"
      <4>1. n.at = "connect" BY <2>3, <3>4
      <4> QED BY <2>4, <3>2, <3>3, <4>1 DEF Proceeds, Over
    <3>5. CASE o.kind # "tool"
      <4>1. n.at = "ok" /\ n.kind # "stop" BY <1>3, <2>3, <3>5
      <4> QED BY <4>1 DEF Proceeds
    <3> QED BY <3>4, <3>5
  <2>7. at = "ok" => o.kind \notin {"tool", "tool only", "status"} BY <1>3
  <2>8. May(cli, c, at)
    <3> HIDE DEF at
    <3> QED BY <1>2, <2>2, <2>5, <2>6, <2>7, MayBe DEF n, Over
  <2> HIDE DEF at
  <2> QED BY <2>1, <2>8, AtRight
<1>6. CASE ~DM!probeSocket(cli)
  <2> DEFINE n == Has(o, "failed")
  <2>1. cli' = DM!At(cli, c, "failed") /\ (DM!Overlap \/ DM!Hopeless(c)) BY <1>6 DEF DM!waitForSocket
  <2>2. n.at = "failed" /\ n.kind = o.kind /\ n.met = o.met BY <1>1, HasIs DEF Stage, Over
  <2> HIDE DEF n
  <2>3. KindAt(n) BY <2>2 DEF KindAt
  <2>4. cli.mode = "sequential" => Proceeds(cli, n)
    <3> HAVE cli.mode = "sequential"
    <3>1. DM!Hopeless(c) BY <2>1 DEF DM!Overlap
    <3>2. o.pid # 0 /\ cli.proc[o.pid] = "gone"
      BY <1>4, <3>1 DEF Awaited, DM!Hopeless, DM!pidAlive, DM!None, DM!Start
    <3>3. o.kind # "start bad" => o.met BY <1>4, <3>2 DEF Awaited
    <3> QED BY <2>2, <3>3 DEF Proceeds
  <2>5. May(cli, c, "failed") BY <1>2, <2>3, <2>4, MayBe DEF Stage, Over, n
  <2> QED BY <2>1, <2>5, AtRight
<1> QED BY <1>5, <1>6

LEMMA ConnectRight ==
  ASSUME CliRight(cli), NEW c \in Command, DM!Connect(c)
  PROVE  CliRight(cli')
<1> DEFINE o == cli.cmd[c]
<1>1. cli \in Cli /\ o \in Order BY DEF CliRight, Cli
<1>2. o.at = "connect" BY DEF DM!Connect
<1>3. Once(cli, c) BY DEF CliRight
<1>4. cli.mode = "sequential" => Proceeds(cli, o) BY DEF CliRight, InOrder
<1>5. o.kind \in {"tool", "tool only", "status"} BY <1>2, <1>3 DEF Once, KindAt
<1>6. CASE DM!probeSocket(cli)
  <2> DEFINE p == cli.sock
             in == cli.inbox[p] \cup {c}
             n == [o EXCEPT !.at = "sent", !.pid = p]
             t == cli'
  <2>1. p \in Pid /\ Alive(cli, p) BY <1>1, <1>6, ProbedIs
  <2>2. t = [cli EXCEPT !.inbox[p] = in, !.cmd[c].at = "sent", !.cmd[c].pid = p] BY <1>6 DEF DM!Connect
  <2>3. in \in SUBSET Command BY <1>1, <2>1 DEF Cli
  <2> HIDE DEF p, in
  <2>4. n \in Order /\ n.at = "sent" /\ n.pid = p /\ n.kind = o.kind /\ n.ran = o.ran /\ n.met = o.met
    BY <1>1, <2>1 DEF Order, Stage
  <2>5. t.cmd = [cli.cmd EXCEPT ![c] = n] BY <1>1, <2>2 DEF Cli, Order
  <2>6. /\ t.mode = cli.mode /\ t.sock = cli.sock /\ t.state = cli.state /\ t.proc = cli.proc /\ t.good = cli.good
        /\ t.inbox = [cli.inbox EXCEPT ![p] = in]
    BY <1>1, <2>2 DEF Cli
  <2>7. /\ [cli.cmd EXCEPT ![c] = n] \in [Command -> Order]
        /\ [cli.inbox EXCEPT ![p] = in] \in [Pid -> SUBSET Command]
    BY <1>1, <2>3, <2>4 DEF Cli
  <2>8. t = [cli EXCEPT !.inbox = t.inbox, !.cmd = t.cmd] BY <1>1, <2>2 DEF Cli
  <2>9. t \in Cli BY <1>1, <2>5, <2>6, <2>7, <2>8 DEF Cli
  <2>10. t.cmd[c] = n /\ \A d \in Command : d # c => t.cmd[d] = cli.cmd[d] BY <1>1, <2>5 DEF Cli
  <2>11. t.inbox[p] = in /\ \A q \in Pid : q # p => t.inbox[q] = cli.inbox[q] BY <1>1, <2>1, <2>6 DEF Cli
  <2> HIDE DEF n
  <2>12. Moves(cli, t, c)
    <3>1. \A q \in Pid, d \in Command : d # c /\ d \in t.inbox[q] => d \in cli.inbox[q] BY <2>11 DEF in
    <3> QED BY <2>4, <2>6, <2>9, <2>10, <3>1 DEF Moves
  <2>13. Once(t, c)
    <3>1. \A q \in Pid : c \notin cli.inbox[q] BY <1>2, <1>3 DEF Once
    <3>2. \A q \in Pid : c \in t.inbox[q] => q = p BY <2>11, <3>1
    <3>3. RanOnce(o) BY <1>3 DEF Once
    <3> HIDE DEF o
    <3>4. n.ran = 0 BY <1>1, <1>2, <2>4, <3>3 DEF RanOnce, Over, Order
    <3>5. KindAt(n) BY <1>5, <2>4 DEF KindAt, o
    <3>6. RanOnce(n) BY <2>4, <3>4 DEF RanOnce
    <3> QED BY <2>4, <2>10, <3>2, <3>4, <3>5, <3>6 DEF Once
  <2>14. ASSUME t.mode = "sequential"
         PROVE  /\ Departed(cli, t) /\ OneAlive(t) /\ \A q \in Pid : FilesFollow(t, q)
                /\ LeavingStops(t) /\ Proceeds(t, n)
    <3>1. InOrder(cli) BY <2>6, <2>14 DEF CliRight
    <3>2. Departed(cli, t) BY <2>6 DEF Departed
    <3>3. OneAlive(t) /\ \A q \in Pid : FilesFollow(t, q) BY <2>6, <3>1 DEF InOrder, OneAlive, Alive, FilesFollow
    <3>4. \A q \in Pid : Alive(cli, q) => cli.proc[q] \in {"listening", "stated", "up"}
      BY <1>2, <1>4, <2>6, <2>14 DEF Proceeds
    <3>5. LeavingStops(t) BY <2>6, <3>4 DEF LeavingStops, Alive, Leaving
    <3>6. p # 0 /\ Alive(t, p) BY <2>1, <2>6, Numbered DEF Alive
    <3>7. \A q \in Pid : Alive(t, q) => t.proc[q] \in {"listening", "stated", "up"} BY <2>6, <3>4 DEF Alive
    <3>8. Proceeds(t, n) BY <2>4, <3>6, <3>7 DEF Proceeds, Over
    <3> QED BY <3>2, <3>3, <3>5, <3>8
  <2>15. o.at \notin Over \cup {"unborn"} BY <1>2 DEF Over
  <2> QED BY <2>10, <2>12, <2>13, <2>14, <2>15, MoveRight
<1>7. CASE ~DM!probeSocket(cli)
  <2> DEFINE n == Has(o, "failed")
  <2>1. cli' = DM!At(cli, c, "failed") BY <1>7 DEF DM!Connect
  <2>2. n.at = "failed" /\ n.kind = o.kind /\ n.met = o.met BY <1>1, HasIs DEF Stage, Over
  <2> HIDE DEF n
  <2>3. KindAt(n) BY <2>2 DEF KindAt
  <2>4. cli.mode = "sequential" => Proceeds(cli, n)
    <3> HAVE cli.mode = "sequential"
    <3>1. \A p \in Pid : ~Alive(cli, p)
      <4>1. \A p \in Pid : Alive(cli, p) => cli.proc[p] \in {"listening", "stated", "up"}
        BY <1>2, <1>4 DEF Proceeds
      <4> QED BY <1>7, <4>1, FoundIs
    <3>2. o.met BY <1>2, <1>4, <3>1 DEF Proceeds
    <3> QED BY <2>2, <3>2 DEF Proceeds
  <2>5. May(cli, c, "failed") BY <1>2, <2>3, <2>4, MayBe DEF Stage, Over, n
  <2> QED BY <2>1, <2>5, AtRight
<1> QED BY <1>6, <1>7

LEMMA NoAnswerRight ==
  ASSUME CliRight(cli), NEW c \in Command, DM!NoAnswer(c)
  PROVE  CliRight(cli')
<1> DEFINE o == cli.cmd[c]
           n == Has(o, "failed")
<1>1. cli \in Cli /\ o \in Order BY DEF CliRight, Cli
<1>2. /\ o.at = "sent" /\ (DM!Overlap \/ DM!Hopeless(c))
      /\ cli' = DM!At(cli, c, "failed")
  BY DEF DM!NoAnswer, DM!AfterTimeout
<1>3. RanOnce(o) BY DEF CliRight, Once
<1>4. n.at = "failed" /\ n.kind = o.kind /\ n.met = o.met BY <1>1, HasIs DEF Stage, Over
<1>5. cli.mode = "sequential" => Proceeds(cli, o) BY DEF CliRight, InOrder
<1> HIDE DEF n
<1>6. KindAt(n) /\ RanOnce(n) BY <1>4 DEF KindAt, RanOnce, Over
<1>7. cli.mode = "sequential" => Proceeds(cli, n)
  <2> HAVE cli.mode = "sequential"
  <2>1. DM!Hopeless(c) BY <1>2 DEF DM!Overlap
  <2>2. o.pid # 0 /\ ~Alive(cli, o.pid) BY <1>2, <1>5, <2>1 DEF Proceeds, DM!Hopeless, DM!pidAlive, DM!None, Alive
  <2>3. o.met BY <1>2, <1>5, <2>2 DEF Proceeds
  <2> QED BY <1>4, <2>3 DEF Proceeds
<1>8. May(cli, c, "failed")
  <2>1. "failed" \in Stage \ {"unborn"} /\ o.at \notin Over \cup {"unborn"} /\ o.at # "stopping"
    BY <1>2 DEF Stage, Over
  <2> QED BY <1>6, <1>7, <2>1 DEF May, n
<1> QED BY <1>2, <1>8, AtRight

LEMMA WaitForStopRight ==
  ASSUME CliRight(cli), NEW c \in Command, DM!waitForStop(c)
  PROVE  CliRight(cli')
<1> DEFINE o == cli.cmd[c]
<1>1. o.at = "stopping" BY DEF DM!waitForStop
<1>2. o.kind \in {"stop", "restart"} BY <1>1 DEF CliRight, Once, KindAt
<1>3. cli.mode = "sequential" => Stopping(cli, o) BY <1>1 DEF CliRight, InOrder, Proceeds
<1>4. cli.mode = "sequential" => \A p \in Pid : FilesFollow(cli, p) BY DEF CliRight, InOrder
<1>5. {"ok", "failed"} \subseteq Over /\ "failed" # "ok" BY DEF Over
<1>6. cli \in Cli /\ o.pid \in Pid \cup {0} BY DEF CliRight, Cli, Order
<1>7. CASE cli.state = 0
  <2>1. cli' = DM!Stopped(cli, c, "ok") BY <1>7 DEF DM!waitForStop, DM!None
  <2>2. cli.mode = "sequential" => Quiet(cli) /\ o.pid # 0 /\ cli.proc[o.pid] = "gone"
    <3> HAVE cli.mode = "sequential"
    <3>1. o.pid \in Pid BY <1>3, <1>6 DEF Stopping
    <3>2. cli.proc[o.pid] \notin Leaving BY <1>4, <1>7, <3>1, Numbered DEF FilesFollow
    <3>3. cli.proc[o.pid] = "gone" BY <1>3, <3>2 DEF Stopping
    <3>4. Quiet(cli) BY <1>3, <3>3 DEF Stopping, Quiet, Alive
    <3> QED BY <3>1, <3>3, <3>4, Numbered
  <2> QED BY <1>1, <1>2, <1>5, <2>1, <2>2, StoppedRight
<1>8. CASE cli.state # 0
  <2>1. cli' = DM!Stopped(cli, c, "failed") /\ (DM!Overlap \/ DM!Hopeless(c)) BY <1>8 DEF DM!waitForStop, DM!None
  <2>2. cli.mode = "sequential" => Quiet(cli)
    <3> HAVE cli.mode = "sequential"
    <3>1. DM!Hopeless(c) BY <2>1 DEF DM!Overlap
    <3>2. ~Alive(cli, o.pid) BY <1>3, <3>1 DEF Stopping, DM!Hopeless, DM!pidAlive, DM!None, Alive
    <3> QED BY <1>3, <3>2 DEF Stopping, Quiet
  <2> QED BY <1>1, <1>2, <1>5, <2>1, <2>2, StoppedRight
<1> QED BY <1>7, <1>8

-----------------------------------------------------------------------------

LEMMA DaemonStepped == CliRight(cli) /\ DM!Next => CliRight(cli')
<1> SUFFICES ASSUME CliRight(cli), DM!Next PROVE CliRight(cli') OBVIOUS
<1>1. ASSUME NEW p \in Pid, DM!DaemonStep(p) PROVE CliRight(cli')
  <2>1. ASSUME NEW c \in Command, DM!handleConnection(p, c) PROVE CliRight(cli')
    BY <2>1, ConnectionAnswers, AnsweredRight
  <2> QED BY <1>1, <2>1, StartsRight, BootsRight, LeavesRight DEF DM!DaemonStep
<1>2. ASSUME NEW c \in Command, DM!CommandStep(c) PROVE CliRight(cli')
  BY <1>2, EnsureDaemonRight, StatusRight, StartDetachedRight, StopRight, DropStaleRight, WaitForSocketRight,
     ConnectRight, NoAnswerRight, WaitForStopRight
     DEF DM!CommandStep
<1> QED BY <1>1, <1>2, CrashRight, GiveRight DEF DM!Next

LEMMA CliInit == DM!Init => CliRight(cli)
<1> SUFFICES ASSUME DM!Init PROVE CliRight(cli) OBVIOUS
<1> DEFINE o == [kind |-> "none", at |-> "unborn", pid |-> 0, met |-> FALSE, ran |-> 0]
           proc == [p \in Pid |-> "unborn"]
           good == [p \in Pid |-> TRUE]
           inbox == [p \in Pid |-> {}]
           cmd == [c \in Command |-> o]
<1>1. PICK m \in {"sequential", "overlapping"} :
        cli = [mode |-> m, sock |-> 0, state |-> 0, crashes |-> 0, proc |-> proc, good |-> good,
               inbox |-> inbox, cmd |-> cmd]
  BY DEF DM!Init, DM!None
<1>2. o \in Order BY DEF Order, Stage
<1>3. o.at = "unborn" /\ o.ran = 0 /\ o.pid = 0 OBVIOUS
<1> HIDE DEF o
<1>4. proc \in [Pid -> Place] /\ good \in [Pid -> BOOLEAN] /\ inbox \in [Pid -> SUBSET Command]
      /\ cmd \in [Command -> Order]
  BY <1>2, PlacesAre
<1>5. (\A p \in Pid : proc[p] = "unborn" /\ inbox[p] = {}) /\ \A c \in Command : cmd[c] = o OBVIOUS
<1> HIDE DEF proc, good, inbox, cmd
<1>6. cli \in Cli BY <1>1, <1>4 DEF Cli
<1>7. cli.proc = proc /\ cli.inbox = inbox /\ cli.cmd = cmd /\ cli.sock = 0 /\ cli.state = 0 BY <1>1
<1>8. ASSUME NEW c \in Command PROVE Once(cli, c)
  <2>1. KindAt(o) /\ RanOnce(o) BY <1>3 DEF KindAt, RanOnce, Over
  <2>2. \A p \in Pid : c \notin cli.inbox[p] BY <1>5, <1>7
  <2> QED BY <1>5, <1>7, <2>1, <2>2 DEF Once
<1>9. Quiet(cli) BY <1>5, <1>7 DEF Quiet, Alive
<1>10. InOrder(cli)
  <2>1. InTurn(cli) BY <1>3, <1>5, <1>7 DEF InTurn
  <2>2. OneAlive(cli) /\ LeavingStops(cli) BY <1>9 DEF OneAlive, LeavingStops, Quiet, Alive, Leaving
  <2>3. \A p \in Pid : FilesFollow(cli, p)
    BY <1>5, <1>7, Numbered, PlacesAre DEF FilesFollow, Leaving
  <2>4. \A c \in Command : Proceeds(cli, cli.cmd[c]) BY <1>3, <1>5, <1>7 DEF Proceeds, Over
  <2> QED BY <2>1, <2>2, <2>3, <2>4 DEF InOrder
<1> QED BY <1>6, <1>8, <1>10 DEF CliRight

LEMMA DaemonFollows == CliRight(cli) => DM!RequestsOnce /\ DM!OneDaemon /\ DM!CommandsServed
<1> SUFFICES ASSUME CliRight(cli) PROVE DM!RequestsOnce /\ DM!OneDaemon /\ DM!CommandsServed OBVIOUS
<1>1. cli \in Cli BY DEF CliRight
<1>2. DM!RequestsOnce
  <2> SUFFICES ASSUME NEW c \in Command
               PROVE  /\ cli.cmd[c].ran <= 1
                      /\ cli.cmd[c].kind \in {"tool", "tool only", "status"} /\ cli.cmd[c].at = "ok" =>
                           cli.cmd[c].ran = 1
                      /\ cli.cmd[c].at \in {"begin", "awaiting", "connect"} => cli.cmd[c].ran = 0
    BY DEF DM!RequestsOnce
  <2> DEFINE o == cli.cmd[c]
  <2>1. RanOnce(o) BY DEF CliRight, Once
  <2>2. o.ran \in 0 .. 1 BY <1>1 DEF Cli, Order
  <2> HIDE DEF o
  <2>3. o.ran = 0 \/ o.ran = 1 BY <2>2
  <2>4. o.at \in {"begin", "awaiting", "connect"} => o.ran = 0 BY <2>1, <2>3 DEF RanOnce, Over
  <2>5. o.ran <= 1 BY <2>3
  <2> QED BY <2>1, <2>4, <2>5 DEF RanOnce, o
<1>3. ASSUME cli.mode = "sequential" PROVE DM!OneDaemon /\ DM!CommandsServed
  <2>1. InOrder(cli) BY <1>3 DEF CliRight
  <2>2. \A p, q \in Pid : DM!Accepting(cli, p) /\ DM!Accepting(cli, q) => p = q
    BY <2>1 DEF InOrder, OneAlive, Alive, DM!Accepting
  <2>3. \A p \in Pid : cli.proc[p] \in {"stated", "up", "signalled"} => cli.sock = p /\ cli.state = p
    BY <2>1 DEF InOrder, FilesFollow, Leaving
  <2>4. ASSUME NEW c \in Command
        PROVE  /\ cli.cmd[c].kind \in {"tool", "start", "restart"} /\ cli.cmd[c].at = "failed" => cli.cmd[c].met
               /\ cli.cmd[c].kind = "stop" /\ cli.cmd[c].at = "ok" => ~DM!pidAlive(cli, cli.cmd[c].pid)
    <3>1. Proceeds(cli, cli.cmd[c]) BY <2>1 DEF InOrder
    <3> QED BY <3>1 DEF Proceeds, DM!pidAlive
  <2>5. DM!OneDaemon BY <2>2, <2>3 DEF DM!OneDaemon
  <2>6. DM!CommandsServed BY <2>4 DEF DM!CommandsServed
  <2> QED BY <2>5, <2>6
<1>4. ASSUME cli.mode # "sequential" PROVE DM!OneDaemon /\ DM!CommandsServed
  <2>1. DM!Overlap BY <1>1, <1>4 DEF DM!Overlap, Cli
  <2> QED BY <2>1 DEF DM!OneDaemon, DM!CommandsServed
<1> QED BY <1>2, <1>3, <1>4

DaemonInv == focus = "daemon" => CliRight(cli)

\* For any number of commands, of daemons and of crashes, whatever is asked: a request is
\* executed at most once and reported only if it was (sendRequest, handleConnection), and who
\* runs commands one after the other finds the one daemon there is, or gets one, whatever
\* crashed daemons have left (cmdStart, startDaemon, ensureDaemon, cmdStop).
THEOREM DaemonServesAlways == MCSpec => []DaemonServes
<1>1. MCInit => DaemonInv BY CliInit DEF MCInit, DaemonInv
<1>2. DaemonInv /\ [MCNext]_<<focus, amo, bus, io, gdb, ctl, cli, calc, link>> => DaemonInv'
  <2> SUFFICES ASSUME DaemonInv, [MCNext]_<<focus, amo, bus, io, gdb, ctl, cli, calc, link>>, focus' = "daemon"
               PROVE  CliRight(cli)'
    BY DEF DaemonInv
  <2>1. focus' = focus BY DEF MCNext
  <2>2. focus = "daemon" /\ CliRight(cli) BY <2>1 DEF DaemonInv
  <2>3. CliRight(cli')
    <3>1. CASE DM!Next BY <2>2, <3>1, DaemonStepped
    <3>2. CASE ~DM!Next
      <4>1. cli' = cli BY <2>2, <3>2 DEF MCNext, Regions
      <4> QED BY <2>2, <4>1
    <3> QED BY <3>1, <3>2
  <2> QED BY <2>3 DEF CliRight, Cli, Once, InOrder, InTurn, OneAlive, LeavingStops, FilesFollow, Proceeds,
                      Awaited, Stopping, Alive
<1>3. DaemonInv => DaemonServes BY DaemonFollows DEF DaemonInv, DaemonServes
<1> QED BY <1>1, <1>2, <1>3, PTL DEF MCSpec
=============================================================================
