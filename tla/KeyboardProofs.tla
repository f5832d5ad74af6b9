---------------------------- MODULE KeyboardProofs ----------------------------
(***************************************************************************)
(* Theorems about Keyboard, for every buffer size, every set of characters *)
(* and any number of scancodes: the line that was typed arrives, and the   *)
(* keyboard is not silenced.                                               *)
(***************************************************************************)
EXTENDS Keyboard, SequenceTheorems, NaturalsInduction, WellFoundedInduction, TLAPS

(* The driver listens only while the shell waits for a line; without one   *)
(* of the other mishaps nothing in service blocks the keyboard, and a      *)
(* scancode in the controller has made its request.                        *)
ListensInWait == keyboard_input_on => cpu = "wait"

NothingBlocks ==
    mishaps \subseteq {"arrow"} =>
        /\ inService = {}
        /\ queue # <<>> => IRQ_KEYBOARD \in requests

(* What waits in the controller was sent last.                             *)
QueueIsLast == \A i \in 1 .. Len(queue) : queue[i] = pressed[Len(pressed) - Len(queue) + i]

Holds(buffer, l) ==
    \A i \in 0 .. BufferSize - 1 : buffer[i] = IF i < Len(l) THEN l[i + 1] ELSE Nul

(* Nothing is read for a line before the shell waits for it; from then on  *)
(* the buffer holds the line, and the index is at its end until Enter.     *)
LineSoFar ==
    mishaps = {} =>
        /\ buffer_index = IF keyboard_input_on THEN Len(LineOf(Taken)) ELSE 0
        /\ cpu \in {"wait", "copy"} => Holds(keyboard_buffer, LineOf(Taken))
        /\ cpu \notin {"wait", "copy"} => Len(queue) = Len(pressed)

IInv == TypeOK /\ ListensInWait /\ NothingBlocks /\ StaysInBuffer /\ QueueIsLast /\ LineSoFar

-----------------------------------------------------------------------------
(* Types, one lemma per group of actions.                                  *)

LEMMA KeySequences == \A key \in Keys : key \in Seq(Scancodes)
<1> SUFFICES ASSUME NEW key \in Keys PROVE key \in Seq(Scancodes)
    OBVIOUS
<1>1. ASSUME NEW k \in Scancodes, key = <<k>> PROVE key \in Seq(Scancodes)
    BY <1>1
<1>2. ASSUME NEW k \in Scancodes, key = <<EXTENDED, k>> PROVE key \in Seq(Scancodes)
    <2>1. EXTENDED \in Scancodes
        BY DEF Scancodes
    <2> QED
        BY <1>2, <2>1
<1> QED
    BY <1>1, <1>2 DEF Keys, Scancodes

LEMMA InitType == Init => TypeOK
BY NulAssumption, BufferAssumption DEF Init, TypeOK, Cells, Irqs, Phases, Mishaps

LEMMA HardwareType ==
    ASSUME TypeOK, (\E key \in Keys : Press(key)) \/ Tick \/ TimerInterrupt
    PROVE  TypeOK'
<1>1. ASSUME NEW key \in Keys, Press(key) PROVE TypeOK'
    <2>1. key \in Seq(Scancodes)
        BY KeySequences
    <2>2. /\ queue \o key \in Seq(Scancodes) /\ pressed \o key \in Seq(Scancodes)
          /\ Len(queue \o key) <= Len(pressed \o key)
        BY <2>1 DEF TypeOK
    <2> QED
        BY <1>1, <2>2 DEF Press, TypeOK, driver, Irqs
<1>2. ASSUME Tick PROVE TypeOK'
    BY <1>2 DEF Tick, TypeOK, driver, Irqs
<1>3. ASSUME TimerInterrupt PROVE TypeOK'
    BY <1>3 DEF TimerInterrupt, Remembers, TypeOK, driver, Irqs, Mishaps
<1> QED
    BY <1>1, <1>2, <1>3

(* What reading a scancode does to the hardware.                           *)
LEMMA TakesFacts ==
    ASSUME TypeOK, NEW k \in Scancodes, Takes(k)
    PROVE  /\ queue' \in Seq(Scancodes) /\ Len(queue') <= Len(pressed')
           /\ pressed' \in Seq(Scancodes) /\ cpu' \in Phases /\ requests' \subseteq Irqs
           /\ queue' # <<>> => IRQ_KEYBOARD \in requests'
           /\ keyboard_input_on /\ cpu' = cpu
<1>1. /\ queue # <<>> /\ queue' = Tail(queue) /\ UNCHANGED <<cpu, pressed>>
      /\ requests' = IF queue' = <<>> THEN requests \ {IRQ_KEYBOARD} ELSE requests
      /\ IRQ_KEYBOARD \in requests /\ keyboard_input_on
    BY DEF Takes, Delivered
<1>2. Tail(queue) \in Seq(Scancodes) /\ Len(Tail(queue)) <= Len(queue)
    BY <1>1 DEF TypeOK
<1> QED
    BY <1>1, <1>2 DEF TypeOK

(* What the driver does to its buffer.                                     *)
LEMMA BufferType ==
    ASSUME TypeOK, NEW i \in Cells, NEW c \in Chars \cup {Nul}
    PROVE  [keyboard_buffer EXCEPT ![i] = c] \in [Cells -> Chars \cup {Nul}]
BY DEF TypeOK

(* Each branch of keyboard_isr keeps the index in the buffer, writes one   *)
(* byte or none, and only an arrow's byte can be the one behind it.        *)
WritesWithin ==
    /\ keyboard_input_on' \in BOOLEAN /\ read_extended_mode' \in BOOLEAN
    /\ buffer_index' \in 0 .. BufferSize
    /\ keyboard_buffer' \in [Cells -> Chars \cup {Nul}]
    /\ "arrow" \in mishaps' \/ keyboard_buffer'[BufferSize] = keyboard_buffer[BufferSize]

LEMMA BranchesWriteWithin ==
    ASSUME TypeOK, KeyboardInterrupt
    PROVE  WritesWithin
<1>1. BufferSize \in Nat \ {0} /\ buffer_index \in 0 .. BufferSize
    BY BufferAssumption DEF TypeOK
<1>2. ASSUME UNCHANGED keyboard_buffer,
             keyboard_input_on' \in BOOLEAN, read_extended_mode' \in BOOLEAN,
             buffer_index' \in 0 .. BufferSize
      PROVE  WritesWithin
    BY <1>2 DEF WritesWithin, TypeOK
<1>3. ASSUME IsrNotListening PROVE WritesWithin
    BY <1>1, <1>2, <1>3 DEF IsrNotListening, TypeOK
<1>4. ASSUME IsrExtended PROVE WritesWithin
    BY <1>1, <1>2, <1>4 DEF IsrExtended, TypeOK
<1>5. ASSUME IsrEnter PROVE WritesWithin
    <2>1. /\ UNCHANGED <<read_extended_mode, keyboard_buffer>>
          /\ buffer_index' = 0 /\ keyboard_input_on' = FALSE
        BY <1>5 DEF IsrEnter
    <2>2. 0 \in 0 .. BufferSize
        BY <1>1
    <2> QED
        BY <1>2, <2>1, <2>2 DEF TypeOK
<1>6. ASSUME IsrBack PROVE WritesWithin
    <2>1. CASE buffer_index > 0
        <3>1. /\ buffer_index' = buffer_index - 1
              /\ keyboard_buffer' = [keyboard_buffer EXCEPT ![buffer_index - 1] = Nul]
              /\ UNCHANGED <<keyboard_input_on, read_extended_mode>>
            BY <1>6, <2>1 DEF IsrBack
        <3>2. buffer_index - 1 \in 0 .. BufferSize - 1 /\ buffer_index - 1 \in Cells
            BY <1>1, <2>1 DEF Cells
        <3> QED
            BY <1>1, <3>1, <3>2, BufferType DEF WritesWithin, TypeOK, Cells
    <2>2. CASE ~(buffer_index > 0)
        BY <1>1, <1>2, <1>6, <2>2 DEF IsrBack, TypeOK
    <2> QED
        BY <2>1, <2>2
<1>7. ASSUME NEW k \in Scancodes, IsrArrow(k) PROVE WritesWithin
    <2>1. /\ "arrow" \in mishaps' /\ read_extended_mode' = FALSE
          /\ UNCHANGED keyboard_input_on
        BY <1>7 DEF IsrArrow, Remembers
    <2>2. buffer_index' \in 0 .. BufferSize
        BY <1>1, <1>7 DEF IsrArrow
    <2>3. PICK c \in Chars \cup {Nul} : keyboard_buffer' = [keyboard_buffer EXCEPT ![buffer_index'] = c]
        BY <1>7 DEF IsrArrow
    <2>4. keyboard_buffer' \in [Cells -> Chars \cup {Nul}]
        BY <2>2, <2>3 DEF TypeOK, Cells
    <2> QED
        BY <2>1, <2>2, <2>4 DEF WritesWithin, TypeOK
<1>8. ASSUME NEW k \in Scancodes, IsrIgnores(k) PROVE WritesWithin
    BY <1>1, <1>2, <1>8 DEF IsrIgnores, TypeOK
<1>9. ASSUME NEW k \in Scancodes, IsrChar(k) PROVE WritesWithin
    <2>1. CASE HasRoom(buffer_index)
        <3>1. /\ buffer_index' = buffer_index + 1 /\ k \in Chars
              /\ keyboard_buffer' = [keyboard_buffer EXCEPT ![buffer_index] = k]
              /\ UNCHANGED <<keyboard_input_on, read_extended_mode>>
            BY <1>9, <2>1 DEF IsrChar
        <3>2. buffer_index \in 0 .. BufferSize - 1 /\ buffer_index \in Cells
            BY <1>1, <2>1 DEF HasRoom, Cells
        <3> QED
            BY <1>1, <3>1, <3>2, BufferType DEF WritesWithin, TypeOK, Cells
    <2>2. CASE ~HasRoom(buffer_index)
        BY <1>1, <1>2, <1>9, <2>2 DEF IsrChar, TypeOK
    <2> QED
        BY <2>1, <2>2
<1>10. ASSUME NEW k \in Scancodes, IsrUnmapped(k) PROVE WritesWithin
    BY <1>1, <1>2, <1>10 DEF IsrUnmapped, driver, TypeOK
<1> QED
    BY <1>3, <1>4, <1>5, <1>6, <1>7, <1>8, <1>9, <1>10 DEF KeyboardInterrupt

LEMMA InterruptType ==
    ASSUME TypeOK, KeyboardInterrupt
    PROVE  /\ queue' \in Seq(Scancodes) /\ Len(queue') <= Len(pressed')
           /\ pressed' \in Seq(Scancodes) /\ cpu' \in Phases
           /\ requests' \subseteq Irqs /\ inService' \subseteq Irqs /\ mishaps' \subseteq Mishaps
<1>1. CASE IsrNotListening
    BY <1>1 DEF IsrNotListening, Remembers, TypeOK, Mishaps
<1>2. ASSUME NEW k \in Scancodes, Takes(k),
             inService' \in {inService, inService \cup {IRQ_KEYBOARD}},
             mishaps' \in {mishaps, mishaps \cup {"arrow"}, mishaps \cup {"unacked"}}
      PROVE  /\ queue' \in Seq(Scancodes) /\ Len(queue') <= Len(pressed')
             /\ pressed' \in Seq(Scancodes) /\ cpu' \in Phases
             /\ requests' \subseteq Irqs /\ inService' \subseteq Irqs /\ mishaps' \subseteq Mishaps
    BY <1>2, TakesFacts DEF TypeOK, Irqs, Mishaps
<1>3. \A k \in Scancodes : IsrArrow(k) \/ IsrIgnores(k) \/ IsrChar(k) \/ IsrUnmapped(k) =>
          /\ Takes(k)
          /\ inService' \in {inService, inService \cup {IRQ_KEYBOARD}}
          /\ mishaps' \in {mishaps, mishaps \cup {"arrow"}, mishaps \cup {"unacked"}}
    BY DEF IsrArrow, IsrIgnores, IsrChar, IsrUnmapped, Acknowledged, Remembers
<1>4. IsrExtended \/ IsrEnter \/ IsrBack =>
          /\ \E k \in Scancodes : Takes(k)
          /\ inService' = inService /\ mishaps' = mishaps
    BY DEF IsrExtended, IsrEnter, IsrBack, Acknowledged, Scancodes
<1> QED
    BY <1>1, <1>2, <1>3, <1>4 DEF KeyboardInterrupt

Processor == InitializeIdt \/ ActivateKeyboardInterrupt \/ OtherCall \/ ReadLine \/ LeaveLoop \/ ReturnLine

LEMMA ProcessorType ==
    ASSUME TypeOK, Processor
    PROVE  TypeOK'
<1>1. CASE InitializeIdt \/ ActivateKeyboardInterrupt \/ OtherCall \/ LeaveLoop
    BY <1>1 DEF InitializeIdt, ActivateKeyboardInterrupt, OtherCall, LeaveLoop, TypeOK,
                driver, hardware, Phases
<1>2. CASE ReadLine
    BY <1>2 DEF ReadLine, ClearedBuffer, TypeOK, hardware, Phases, Cells
<1>3. CASE ReturnLine
    BY <1>3 DEF ReturnLine, TypeOK, driver, hardware, Phases
<1> QED
    BY <1>1, <1>2, <1>3 DEF Processor

LEMMA StepType ==
    ASSUME TypeOK, [Next]_vars
    PROVE  TypeOK'
<1>1. CASE (\E key \in Keys : Press(key)) \/ Tick \/ TimerInterrupt
    BY <1>1, HardwareType
<1>2. CASE KeyboardInterrupt
    BY <1>2, InterruptType, BranchesWriteWithin DEF WritesWithin, TypeOK
<1>3. CASE Processor
    BY <1>3, ProcessorType
<1>4. CASE UNCHANGED vars
    BY <1>4 DEF vars, driver, hardware, TypeOK
<1> QED
    BY <1>1, <1>2, <1>3, <1>4 DEF Next, Processor

-----------------------------------------------------------------------------
(* The other parts of the invariant.                                       *)

LEMMA StepListens ==
    ASSUME ListensInWait, [Next]_vars
    PROVE  ListensInWait'
<1>1. CASE (\E key \in Keys : Press(key)) \/ Tick \/ TimerInterrupt \/ UNCHANGED vars
    BY <1>1 DEF Press, Tick, TimerInterrupt, vars, driver, ListensInWait
<1>2. CASE KeyboardInterrupt
    <2>1. cpu' = cpu /\ (keyboard_input_on' => keyboard_input_on)
        BY <1>2 DEF KeyboardInterrupt, IsrNotListening, IsrExtended, IsrEnter, IsrBack,
                    IsrArrow, IsrIgnores, IsrChar, IsrUnmapped, Takes, driver
    <2> QED
        BY <2>1 DEF ListensInWait
<1>3. CASE Processor
    BY <1>3 DEF Processor, InitializeIdt, ActivateKeyboardInterrupt, OtherCall, ReadLine,
                LeaveLoop, ReturnLine, driver, ListensInWait
<1> QED
    BY <1>1, <1>2, <1>3 DEF Next, Processor

LEMMA StepBlocks ==
    ASSUME TypeOK, NothingBlocks, [Next]_vars
    PROVE  NothingBlocks'
<1>1. ASSUME NEW key \in Keys, Press(key) PROVE NothingBlocks'
    BY <1>1 DEF Press, NothingBlocks
<1>2. CASE Tick \/ Processor \/ UNCHANGED vars
    BY <1>2 DEF Tick, Processor, InitializeIdt, ActivateKeyboardInterrupt, OtherCall, ReadLine,
                LeaveLoop, ReturnLine, vars, hardware, NothingBlocks
<1>3. CASE TimerInterrupt
    BY <1>3 DEF TimerInterrupt, Remembers, NothingBlocks
<1>4. CASE IsrNotListening
    BY <1>4 DEF IsrNotListening, Remembers, NothingBlocks
<1>5. ASSUME NEW k \in Scancodes, Takes(k), Acknowledged, mishaps \subseteq mishaps'
      PROVE  NothingBlocks'
    BY <1>5, TakesFacts DEF Acknowledged, NothingBlocks
<1>6. CASE IsrExtended \/ IsrEnter \/ IsrBack
    BY <1>5, <1>6 DEF IsrExtended, IsrEnter, IsrBack, Scancodes
<1>7. ASSUME NEW k \in Scancodes, IsrArrow(k) \/ IsrChar(k) \/ IsrUnmapped(k) PROVE NothingBlocks'
    BY <1>5, <1>7 DEF IsrArrow, IsrChar, IsrUnmapped, Remembers
<1>8. ASSUME NEW k \in Scancodes, IsrIgnores(k) PROVE NothingBlocks'
    BY <1>8 DEF IsrIgnores, Remembers, NothingBlocks
<1> QED
    BY <1>1, <1>2, <1>3, <1>4, <1>6, <1>7, <1>8 DEF Next, Processor, KeyboardInterrupt

LEMMA StepStays ==
    ASSUME TypeOK, StaysInBuffer, [Next]_vars
    PROVE  StaysInBuffer'
<1>1. CASE (\E key \in Keys : Press(key)) \/ Tick \/ TimerInterrupt \/ UNCHANGED vars
    BY <1>1 DEF Press, Tick, TimerInterrupt, Remembers, vars, driver, StaysInBuffer
<1>2. CASE KeyboardInterrupt
    <2>1. mishaps \subseteq mishaps'
        BY <1>2 DEF KeyboardInterrupt, IsrNotListening, IsrExtended, IsrEnter, IsrBack,
                    IsrArrow, IsrIgnores, IsrChar, IsrUnmapped, Remembers
    <2> QED
        BY <1>2, <2>1, BranchesWriteWithin DEF WritesWithin, StaysInBuffer
<1>3. CASE ReadLine
    BY <1>3, BufferAssumption DEF ReadLine, ClearedBuffer, StaysInBuffer, Cells
<1>4. CASE Processor /\ ~ReadLine
    BY <1>4 DEF Processor, InitializeIdt, ActivateKeyboardInterrupt, OtherCall,
                LeaveLoop, ReturnLine, driver, StaysInBuffer
<1> QED
    BY <1>1, <1>2, <1>3, <1>4 DEF Next, Processor

-----------------------------------------------------------------------------
(* The line is what was typed.                                             *)

(* after is the line behind each of the first m keys.                      *)
LinesAfter(keys, m, after) ==
    after = [n \in 0 .. m |-> IF n = 0 THEN <<>> ELSE Edit(after[n - 1], keys[n])]

LEMMA LeastNumber ==
    ASSUME NEW S \in SUBSET Nat, S # {}
    PROVE  \E i \in S : \A j \in S : i <= j
<1> DEFINE R == {p \in Nat \X Nat : p[1] < p[2]}
<1>1. IsWellFoundedOn(R, Nat)
    BY NatLessThanWellFounded DEF OpToRel
<1>2. PICK i \in S : \A j \in S : ~ (<<j, i>> \in R)
    <2> HIDE DEF R
    <2> QED BY <1>1, WFMin
<1>3. \A j \in S : <<j, i>> \in Nat \X Nat /\ <<j, i>>[1] = j /\ <<j, i>>[2] = i
    OBVIOUS
<1>4. \A j \in S : ~ (j < i)
    BY <1>2, <1>3
<1> QED
    BY <1>4

LEMMA LinesExist ==
    ASSUME NEW keys, NEW n \in Nat
    PROVE  \E after : LinesAfter(keys, n, after)
<1> DEFINE S == {m \in Nat : ~ \E after : LinesAfter(keys, m, after)}
<1> SUFFICES ASSUME S # {} PROVE FALSE
    OBVIOUS
<1>1. PICK m \in S : \A j \in S : m <= j
    <2> S \in SUBSET Nat
        OBVIOUS
    <2> HIDE DEF S
    <2> QED
        BY LeastNumber
<1>2. m \in Nat /\ ~ \E after : LinesAfter(keys, m, after)
    OBVIOUS
<1>3. CASE m = 0
    <2> DEFINE after == [k \in 0 .. m |-> <<>>]
    <2>1. \A k \in 0 .. m : k = 0
        BY <1>3
    <2>2. LinesAfter(keys, m, after)
        BY <2>1 DEF LinesAfter
    <2> QED
        BY <1>2, <2>2
<1>4. CASE m # 0
    <2>1. m - 1 \in Nat /\ m - 1 \notin S
        BY <1>1, <1>2, <1>4
    <2>2. PICK before : LinesAfter(keys, m - 1, before)
        BY <2>1
    <2> DEFINE Line(f, k) == IF k = 0 THEN <<>> ELSE Edit(f[k - 1], keys[k])
               after == [k \in 0 .. m |-> Line(before, k)]
    <2>3. ASSUME NEW k \in 0 .. m, k # 0 PROVE after[k - 1] = before[k - 1]
        <3>1. k - 1 \in 0 .. m - 1 /\ k - 1 \in 0 .. m
            BY <1>2, <2>3
        <3>2. before[k - 1] = Line(before, k - 1)
            BY <2>2, <3>1 DEF LinesAfter
        <3> QED
            BY <3>1, <3>2
    <2>4. \A k \in 0 .. m : Line(before, k) = Line(after, k)
        BY <2>3
    <2>5. after = [k \in 0 .. m |-> Line(after, k)]
        BY <2>4
    <2>6. LinesAfter(keys, m, after)
        BY <2>5 DEF LinesAfter
    <2> QED
        BY <1>2, <2>6
<1> QED
    BY <1>3, <1>4

LEMMA LinesAreIt ==
    ASSUME NEW keys, Len(keys) \in Nat
    PROVE  \E after : LinesAfter(keys, Len(keys), after) /\ LineOf(keys) = after[Len(keys)]
<1> DEFINE it == CHOOSE after : LinesAfter(keys, Len(keys), after)
<1>1. LineOf(keys) = it[Len(keys)]
    BY Zenon DEF LineOf, LinesAfter
<1>2. LinesAfter(keys, Len(keys), it)
    <2>1. \E after : LinesAfter(keys, Len(keys), after)
        BY LinesExist
    <2> QED
        BY <2>1, Zenon
<1> QED
    BY <1>1, <1>2

(* Lines consist of characters and fit the buffer.                         *)
IsLine(l) == l \in Seq(Chars) /\ Len(l) <= BufferSize

LEMMA PrefixFacts ==
    ASSUME NEW S, NEW s \in Seq(S), NEW n \in 0 .. Len(s)
    PROVE  /\ SubSeq(s, 1, n) \in Seq(S) /\ Len(SubSeq(s, 1, n)) = n
           /\ \A i \in 1 .. n : SubSeq(s, 1, n)[i] = s[i]
<1> DEFINE p == SubSeq(s, 1, n)
<1>1. n \in Int /\ 1 \in Int /\ \A i \in 1 .. n : s[i] \in S
    OBVIOUS
<1>2. /\ p \in Seq(S)
      /\ Len(p) = IF 1 <= n THEN n - 1 + 1 ELSE 0
      /\ \A i \in 1 .. n - 1 + 1 : p[i] = s[1 + i - 1]
    BY <1>1, SubSeqProperties
<1> HIDE DEF p
<1>3. Len(p) = n
    BY <1>2
<1>4. ASSUME NEW i \in 1 .. n PROVE p[i] = s[i]
    <2>1. i \in 1 .. n - 1 + 1 /\ 1 + i - 1 = i
        OBVIOUS
    <2> QED
        BY <1>2, <2>1
<1> QED
    BY <1>2, <1>3, <1>4 DEF p

LEMMA FrontOfLine ==
    ASSUME NEW l \in Seq(Chars), l # <<>>
    PROVE  /\ Front(l) \in Seq(Chars) /\ Len(Front(l)) = Len(l) - 1
           /\ \A i \in 1 .. Len(l) - 1 : Front(l)[i] = l[i]
<1>1. Len(l) - 1 \in 0 .. Len(l)
    OBVIOUS
<1> QED
    BY <1>1, PrefixFacts DEF Front

LEMMA EditsLine ==
    ASSUME NEW l, IsLine(l), NEW key \in Scancodes
    PROVE  IsLine(Edit(l, key))
<1>1. CASE key = BACK /\ l # <<>>
    <2>1. l \in Seq(Chars) /\ Len(l) \in Nat /\ Len(l) # 0
        BY <1>1 DEF IsLine
    <2>2. Front(l) \in Seq(Chars) /\ Len(Front(l)) = Len(l) - 1
        BY <2>1, FrontOfLine
    <2> QED
        BY <1>1, <2>1, <2>2, BufferAssumption DEF Edit, IsLine
<1>2. CASE key \in Chars /\ Len(l) < BufferSize /\ key # BACK
    BY <1>2, BufferAssumption DEF Edit, IsLine
<1> QED
    BY <1>1, <1>2 DEF Edit

LEMMA LinesAreLines ==
    ASSUME NEW keys \in Seq(Scancodes), NEW m \in 0 .. Len(keys), NEW after,
           LinesAfter(keys, m, after), NEW n \in 0 .. m
    PROVE  IsLine(after[n])
<1> DEFINE S == {k \in 0 .. m : ~IsLine(after[k])}
<1> SUFFICES ASSUME S # {} PROVE FALSE
    OBVIOUS
<1>1. PICK k \in S : \A j \in S : k <= j
    <2> S \in SUBSET Nat
        OBVIOUS
    <2> HIDE DEF S
    <2> QED
        BY LeastNumber
<1>2. k \in Nat /\ k \in 0 .. m /\ ~IsLine(after[k])
    OBVIOUS
<1>3. after[k] = IF k = 0 THEN <<>> ELSE Edit(after[k - 1], keys[k])
    BY <1>2 DEF LinesAfter
<1>4. IsLine(<<>>)
    BY BufferAssumption DEF IsLine
<1>5. k # 0
    BY <1>2, <1>3, <1>4
<1>6. k - 1 \in 0 .. m /\ ~(k <= k - 1)
    BY <1>2, <1>5
<1>7. IsLine(after[k - 1])
    BY <1>1, <1>6
<1>8. keys[k] \in Scancodes
    BY <1>2, <1>5
<1> QED
    BY <1>2, <1>3, <1>5, <1>7, <1>8, EditsLine

(* Equal keys make equal lines.                                            *)
SameUpTo(m, keys, more) == \A k \in 1 .. m : more[k] = keys[k]

LEMMA SameLines ==
    ASSUME NEW keys, NEW more, NEW m \in Nat, NEW n \in Nat, m <= n,
           SameUpTo(m, keys, more),
           NEW f, LinesAfter(keys, m, f), NEW g, LinesAfter(more, n, g)
    PROVE  f[m] = g[m]
<1> DEFINE S == {k \in 0 .. m : f[k] # g[k]}
<1> SUFFICES ASSUME S # {} PROVE FALSE
    OBVIOUS
<1>1. PICK k \in S : \A j \in S : k <= j
    <2> S \in SUBSET Nat
        OBVIOUS
    <2> HIDE DEF S
    <2> QED
        BY LeastNumber
<1>2. k \in Nat /\ k \in 0 .. m /\ k \in 0 .. n /\ f[k] # g[k]
    OBVIOUS
<1>3. /\ f[k] = IF k = 0 THEN <<>> ELSE Edit(f[k - 1], keys[k])
      /\ g[k] = IF k = 0 THEN <<>> ELSE Edit(g[k - 1], more[k])
    BY <1>2 DEF LinesAfter
<1>4. k # 0
    BY <1>2, <1>3
<1>5. k - 1 \in 0 .. m /\ ~(k <= k - 1) /\ k \in 1 .. m
    BY <1>2, <1>4
<1>6. f[k - 1] = g[k - 1] /\ more[k] = keys[k]
    BY <1>1, <1>5 DEF SameUpTo
<1> QED
    BY <1>2, <1>3, <1>4, <1>6

(* One more key edits the line once more.                                  *)
LEMMA LineGrows ==
    ASSUME NEW keys \in Seq(Scancodes), NEW key \in Scancodes
    PROVE  IsLine(LineOf(keys)) /\ LineOf(Append(keys, key)) = Edit(LineOf(keys), key)
<1> DEFINE more == Append(keys, key)
           m == Len(keys)
<1>1. m \in Nat /\ Len(more) = m + 1 /\ more[m + 1] = key /\ \A k \in 1 .. m : more[k] = keys[k]
    OBVIOUS
<1> HIDE DEF more
<1>2. PICK f : LinesAfter(keys, m, f) /\ LineOf(keys) = f[m]
    BY <1>1, LinesAreIt
<1>7. m + 1 \in Nat /\ Len(more) \in Nat
    BY <1>1
<1>3. PICK g : LinesAfter(more, m + 1, g) /\ LineOf(more) = g[m + 1]
    BY <1>1, <1>7, LinesAreIt
<1>4. f[m] = g[m]
    <2>1. m <= m + 1
        BY <1>1
    <2> HIDE DEF m
    <2> QED
        <3>1. LinesAfter(keys, m, f) /\ LinesAfter(more, m + 1, g)
            BY <1>2, <1>3
        <3>2. SameUpTo(m, keys, more)
            BY <1>1 DEF SameUpTo
        <3> DEFINE n == m + 1
        <3>3. m \in Nat /\ n \in Nat /\ m <= n /\ LinesAfter(more, n, g)
            BY <1>1, <1>7, <2>1, <3>1
        <3> HIDE DEF n
        <3> QED
            BY <3>1, <3>2, <3>3, SameLines
<1>5. g[m + 1] = Edit(g[m], more[m + 1])
    <2>1. m + 1 \in 0 .. m + 1 /\ m + 1 # 0 /\ (m + 1) - 1 = m
        BY <1>1
    <2> QED
        BY <1>1, <1>3, <2>1 DEF LinesAfter
<1>6. IsLine(f[m])
    BY <1>1, <1>2, LinesAreLines
<1> QED
    BY <1>1, <1>2, <1>3, <1>4, <1>5, <1>6 DEF more

LEMMA NoKeysNoLine == LineOf(<<>>) = <<>>
<1>1. Len(<<>>) = 0
    OBVIOUS
<1>2. PICK f : LinesAfter(<<>>, 0, f) /\ LineOf(<<>>) = f[0]
    BY <1>1, LinesAreIt
<1> QED
    BY <1>2 DEF LinesAfter

(* What waits in the controller was sent last.                             *)
LEMMA TakenFacts ==
    ASSUME TypeOK
    PROVE  /\ Taken \in Seq(Scancodes) /\ Len(Taken) = Len(pressed) - Len(queue)
           /\ \A i \in 1 .. Len(pressed) - Len(queue) : Taken[i] = pressed[i]
           /\ IsLine(LineOf(Taken))
<1> DEFINE n == Len(pressed) - Len(queue)
<1>1. n \in 0 .. Len(pressed) /\ pressed \in Seq(Scancodes)
    BY DEF TypeOK
<1>2. /\ Taken \in Seq(Scancodes) /\ Len(Taken) = n
      /\ \A i \in 1 .. n : Taken[i] = pressed[i]
    BY <1>1, PrefixFacts DEF Taken
<1>3. BACK \in Scancodes
    BY DEF Scancodes
<1> QED
    BY <1>2, <1>3, LineGrows

LEMMA PressedTaken ==
    ASSUME TypeOK, QueueIsLast, NEW key \in Keys, Press(key)
    PROVE  Taken' = Taken /\ QueueIsLast'
<1>1. key \in Seq(Scancodes) /\ queue \in Seq(Scancodes) /\ pressed \in Seq(Scancodes)
      /\ queue' = queue \o key /\ pressed' = pressed \o key /\ Len(queue) <= Len(pressed)
    BY KeySequences DEF TypeOK, Press
<1>2. /\ Len(queue') = Len(queue) + Len(key) /\ Len(pressed') = Len(pressed) + Len(key)
      /\ \A i \in 1 .. Len(pressed) : pressed'[i] = pressed[i]
      /\ \A i \in 1 .. Len(key) : pressed'[Len(pressed) + i] = key[i]
      /\ \A i \in 1 .. Len(queue) : queue'[i] = queue[i]
      /\ \A i \in 1 .. Len(key) : queue'[Len(queue) + i] = key[i]
    BY <1>1
<1>3. QueueIsLast'
    <2> SUFFICES ASSUME NEW i \in 1 .. Len(queue')
                 PROVE  queue'[i] = pressed'[Len(pressed') - Len(queue') + i]
        BY DEF QueueIsLast
    <2>1. CASE i <= Len(queue)
        BY <1>1, <1>2, <2>1 DEF QueueIsLast
    <2>2. CASE ~(i <= Len(queue))
        <3>1. i - Len(queue) \in 1 .. Len(key) /\ Len(queue) + (i - Len(queue)) = i
              /\ Len(pressed) + (i - Len(queue)) = Len(pressed') - Len(queue') + i
            BY <1>1, <1>2, <2>2
        <3> QED
            BY <1>2, <3>1
    <2> QED
        BY <2>1, <2>2
<1>4. Taken' = Taken
    <2> DEFINE n == Len(pressed) - Len(queue)
               s == SubSeq(pressed, 1, n)
               t == SubSeq(pressed', 1, n)
    <2>1. n \in 0 .. Len(pressed) /\ n \in 0 .. Len(pressed') /\ pressed' \in Seq(Scancodes)
          /\ Len(pressed') - Len(queue') = n
        BY <1>1, <1>2
    <2>2. s \in Seq(Scancodes) /\ Len(s) = n /\ \A i \in 1 .. n : s[i] = pressed[i]
        BY <1>1, <2>1, PrefixFacts
    <2>3. t \in Seq(Scancodes) /\ Len(t) = n /\ \A i \in 1 .. n : t[i] = pressed'[i]
        BY <1>1, <2>1, PrefixFacts
    <2>4. Taken = s /\ Taken' = t
        BY <2>1 DEF Taken
    <2> HIDE DEF s, t
    <2>5. \A i \in 1 .. n : pressed'[i] = pressed[i]
        BY <1>2, <2>1
    <2>6. s = t
        BY <2>2, <2>3, <2>5, SeqEqual
    <2> QED
        BY <2>4, <2>6
<1> QED
    BY <1>3, <1>4

(* Reading a scancode puts it behind those taken.                          *)
LEMMA TakesNext ==
    ASSUME TypeOK, QueueIsLast, NEW k \in Scancodes, Takes(k)
    PROVE  Taken' = Append(Taken, k) /\ QueueIsLast'
<1>1. queue \in Seq(Scancodes) /\ pressed \in Seq(Scancodes) /\ queue # <<>>
      /\ queue' = Tail(queue) /\ pressed' = pressed /\ Len(queue) <= Len(pressed)
      /\ k = queue[1]
    BY DEF TypeOK, Takes
<1>2. Len(queue') = Len(queue) - 1 /\ \A i \in 1 .. Len(queue') : queue'[i] = queue[i + 1]
    BY <1>1
<1>3. QueueIsLast'
    BY <1>1, <1>2 DEF QueueIsLast
<1> DEFINE n == Len(pressed) - Len(queue)
           s == SubSeq(pressed, 1, n)
           t == SubSeq(pressed, 1, n + 1)
           e == Append(s, k)
<1>4. n \in 0 .. Len(pressed) /\ n + 1 \in 0 .. Len(pressed) /\ Len(pressed') - Len(queue') = n + 1
    BY <1>1, <1>2
<1>5. s \in Seq(Scancodes) /\ Len(s) = n /\ \A i \in 1 .. n : s[i] = pressed[i]
    BY <1>1, <1>4, PrefixFacts
<1>6. t \in Seq(Scancodes) /\ Len(t) = n + 1 /\ \A i \in 1 .. n + 1 : t[i] = pressed[i]
    BY <1>1, <1>4, PrefixFacts
<1>7. Taken = s /\ Taken' = t
    BY <1>1, <1>4 DEF Taken
<1> HIDE DEF s, t
<1>8. pressed[n + 1] = k
    <2>1. 1 \in 1 .. Len(queue)
        BY <1>1
    <2> QED
        BY <1>1, <2>1 DEF QueueIsLast
<1>9. e \in Seq(Scancodes) /\ Len(e) = n + 1 /\ e[n + 1] = k /\ \A i \in 1 .. n : e[i] = s[i]
    BY <1>4, <1>5
<1> HIDE DEF e
<1>10. \A i \in 1 .. n + 1 : e[i] = t[i]
    <2> SUFFICES ASSUME NEW i \in 1 .. n + 1 PROVE e[i] = t[i]
        OBVIOUS
    <2>1. CASE i = n + 1
        BY <1>6, <1>8, <1>9, <2>1
    <2>2. CASE i # n + 1
        <3>1. i \in 1 .. n
            BY <1>4, <2>2
        <3>2. e[i] = s[i] /\ s[i] = pressed[i]
            BY <1>5, <1>9, <3>1
        <3> QED
            BY <1>6, <3>2
    <2> QED
        BY <2>1, <2>2
<1>11. e = t
    BY <1>6, <1>9, <1>10, SeqEqual
<1> QED
    BY <1>3, <1>7, <1>11 DEF e

LEMMA StepQueue ==
    ASSUME TypeOK, QueueIsLast, [Next]_vars
    PROVE  QueueIsLast'
<1>1. CASE \E key \in Keys : Press(key)
    BY <1>1, PressedTaken
<1>2. CASE Tick \/ TimerInterrupt \/ IsrNotListening \/ (Processor /\ ~ReturnLine) \/ UNCHANGED vars
    <2>1. queue' = queue /\ pressed' = pressed
        BY <1>2 DEF Tick, TimerInterrupt, IsrNotListening, Processor, InitializeIdt,
                    ActivateKeyboardInterrupt, OtherCall, ReadLine, LeaveLoop, hardware, vars
    <2> QED
        BY <2>1 DEF QueueIsLast
<1>3. CASE ReturnLine
    <2>1. queue' = queue /\ pressed' = queue /\ queue \in Seq(Scancodes)
        BY <1>3 DEF ReturnLine, hardware, TypeOK
    <2> QED
        BY <2>1 DEF QueueIsLast
<1>4. CASE KeyboardInterrupt /\ ~IsrNotListening
    <2>1. \E k \in Scancodes : Takes(k)
        BY <1>4 DEF KeyboardInterrupt, IsrExtended, IsrEnter, IsrBack, IsrArrow, IsrIgnores,
                    IsrChar, IsrUnmapped, Scancodes
    <2> QED
        BY <2>1, TakesNext
<1> QED
    BY <1>1, <1>2, <1>3, <1>4 DEF Next, Processor

(* What a key does to the buffer and the index while the driver listens is *)
(* what it does to the line.                                               *)
LEMMA KeyEditsBuffer ==
    ASSUME TypeOK, NEW l, IsLine(l), Holds(keyboard_buffer, l), buffer_index = Len(l),
           NEW k \in Scancodes, mishaps' = {}, keyboard_input_on,
           \/ k = EXTENDED /\ IsrExtended
           \/ k = ENTER /\ IsrEnter
           \/ k = BACK /\ IsrBack
           \/ IsrChar(k)
           \/ IsrUnmapped(k)
    PROVE  /\ Holds(keyboard_buffer', Edit(l, k))
           /\ buffer_index' = IF keyboard_input_on' THEN Len(Edit(l, k)) ELSE 0
<1>1. /\ BufferSize \in Nat \ {0} /\ l \in Seq(Chars) /\ Len(l) \in Nat /\ Len(l) <= BufferSize
      /\ keyboard_buffer \in [Cells -> Chars \cup {Nul}]
    BY BufferAssumption DEF TypeOK, IsLine
<1>2. CASE k \notin Chars /\ k # BACK
    <2>1. Edit(l, k) = l
        BY <1>2 DEF Edit
    <2>2. /\ keyboard_buffer' = keyboard_buffer
          /\ buffer_index' = IF keyboard_input_on' THEN buffer_index ELSE 0
        BY <1>2 DEF IsrExtended, IsrEnter, IsrChar, IsrUnmapped, driver
    <2> QED
        BY <2>1, <2>2
<1>3. CASE k = BACK
    <2>0. IsrBack
        BY <1>3, CharAssumption DEF IsrChar, IsrUnmapped, ENTER, BACK, EXTENDED, UNMAPPED, LEFT, RIGHT
    <2>1. CASE l = <<>>
        <3>1. Edit(l, k) = l /\ buffer_index = 0
            BY <1>3, <2>1 DEF Edit
        <3> QED
            BY <2>0, <3>1 DEF IsrBack
    <2>2. CASE l # <<>>
        <3>1. /\ Edit(l, k) = Front(l) /\ Len(Front(l)) = Len(l) - 1
              /\ \A i \in 1 .. Len(l) - 1 : Front(l)[i] = l[i]
            BY <1>1, <1>3, <2>2, FrontOfLine DEF Edit
        <3>2. Len(l) > 0
            BY <1>1, <2>2
        <3>3. /\ buffer_index' = Len(l) - 1 /\ keyboard_input_on'
              /\ keyboard_buffer' = [keyboard_buffer EXCEPT ![Len(l) - 1] = Nul]
            BY <2>0, <3>2 DEF IsrBack
        <3>4. ASSUME NEW i \in 0 .. BufferSize - 1
              PROVE  keyboard_buffer'[i] = IF i < Len(l) - 1 THEN Front(l)[i + 1] ELSE Nul
            <4>1. i \in Cells
                BY <1>1 DEF Cells
            <4>2. keyboard_buffer[i] = IF i < Len(l) THEN l[i + 1] ELSE Nul
                BY DEF Holds
            <4>3. CASE i < Len(l) - 1
                <5>1. i + 1 \in 1 .. Len(l) - 1 /\ i # Len(l) - 1 /\ i < Len(l)
                    BY <1>1, <4>3
                <5> QED
                    BY <1>1, <3>1, <3>3, <4>1, <4>2, <4>3, <5>1
            <4>4. CASE i = Len(l) - 1
                BY <1>1, <3>3, <4>1, <4>4
            <4>5. CASE i > Len(l) - 1
                BY <1>1, <3>3, <4>1, <4>2, <4>5
            <4> QED
                BY <1>1, <4>3, <4>4, <4>5
        <3> QED
            BY <3>1, <3>3, <3>4 DEF Holds
    <2> QED
        BY <2>1, <2>2
<1>4. CASE k \in Chars
    <2>0. IsrChar(k) /\ k # BACK
        BY <1>4, CharAssumption DEF IsrUnmapped
    <2>1. CASE Len(l) < BufferSize
        <3>1. Edit(l, k) = Append(l, k)
            BY <1>4, <2>0, <2>1 DEF Edit
        <3> DEFINE e == Append(l, k)
        <3>2. Len(e) = Len(l) + 1 /\ e[Len(l) + 1] = k /\ \A i \in 1 .. Len(l) : e[i] = l[i]
            BY <1>1
        <3> HIDE DEF e
        <3>3. /\ buffer_index' = Len(l) + 1 /\ keyboard_input_on'
              /\ keyboard_buffer' = [keyboard_buffer EXCEPT ![Len(l)] = k]
            BY <2>0, <2>1 DEF IsrChar, HasRoom
        <3>4. ASSUME NEW i \in 0 .. BufferSize - 1
              PROVE  keyboard_buffer'[i] = IF i < Len(e) THEN e[i + 1] ELSE Nul
            <4>1. i \in Cells
                BY <1>1 DEF Cells
            <4>2. keyboard_buffer[i] = IF i < Len(l) THEN l[i + 1] ELSE Nul
                BY DEF Holds
            <4>3. CASE i < Len(l)
                <5>1. i + 1 \in 1 .. Len(l) /\ i # Len(l) /\ i < Len(e)
                    BY <1>1, <3>2, <4>3
                <5> QED
                    BY <1>1, <3>2, <3>3, <4>1, <4>2, <4>3, <5>1
            <4>4. CASE i = Len(l)
                BY <1>1, <3>2, <3>3, <4>1, <4>4
            <4>5. CASE i > Len(l)
                BY <1>1, <3>2, <3>3, <4>1, <4>2, <4>5
            <4> QED
                BY <1>1, <4>3, <4>4, <4>5
        <3>5. Edit(l, k) = e
            BY <3>1 DEF e
        <3> QED
            BY <3>2, <3>3, <3>4, <3>5 DEF Holds
    <2>2. CASE ~(Len(l) < BufferSize)
        BY <1>4, <2>0, <2>2 DEF Edit, IsrChar, HasRoom
    <2> QED
        BY <2>1, <2>2
<1> QED
    BY <1>2, <1>3, <1>4

LEMMA StepLine ==
    ASSUME TypeOK, ListensInWait, QueueIsLast, LineSoFar, [Next]_vars
    PROVE  LineSoFar'
<1> SUFFICES ASSUME mishaps' = {}
             PROVE  /\ buffer_index' = IF keyboard_input_on' THEN Len(LineOf(Taken')) ELSE 0
                    /\ cpu' \in {"wait", "copy"} => Holds(keyboard_buffer', LineOf(Taken'))
                    /\ cpu' \notin {"wait", "copy"} => Len(queue') = Len(pressed')
    BY DEF LineSoFar, Holds
<1>1. /\ mishaps = {}
      /\ ~(TimerInterrupt \/ IsrNotListening \/ \E k \in Scancodes : IsrArrow(k) \/ IsrIgnores(k))
    BY DEF Next, Press, Tick, TimerInterrupt, KeyboardInterrupt, IsrNotListening, IsrExtended,
           IsrEnter, IsrBack, IsrArrow, IsrIgnores, IsrChar, IsrUnmapped, InitializeIdt,
           ActivateKeyboardInterrupt, OtherCall, ReadLine, LeaveLoop, ReturnLine, Remembers, vars
<1>2. /\ buffer_index = IF keyboard_input_on THEN Len(LineOf(Taken)) ELSE 0
      /\ cpu \in {"wait", "copy"} => Holds(keyboard_buffer, LineOf(Taken))
      /\ cpu \notin {"wait", "copy"} => Len(queue) = Len(pressed)
      /\ keyboard_input_on => cpu = "wait"
    BY <1>1 DEF LineSoFar, ListensInWait
<1>3. ASSUME NEW key \in Keys, Press(key)
      PROVE  /\ buffer_index' = IF keyboard_input_on' THEN Len(LineOf(Taken')) ELSE 0
             /\ cpu' \in {"wait", "copy"} => Holds(keyboard_buffer', LineOf(Taken'))
             /\ cpu' \notin {"wait", "copy"} => Len(queue') = Len(pressed')
    <2>1. Taken' = Taken
        BY <1>3, PressedTaken
    <2>2. /\ UNCHANGED <<keyboard_input_on, buffer_index, keyboard_buffer, cpu>>
          /\ queue' = queue \o key /\ pressed' = pressed \o key
        BY <1>3 DEF Press, driver
    <2>3. Len(queue) = Len(pressed) => Len(queue') = Len(pressed')
        <3>1. key \in Seq(Scancodes) /\ queue \in Seq(Scancodes) /\ pressed \in Seq(Scancodes)
            BY KeySequences DEF TypeOK
        <3>2. Len(queue \o key) = Len(queue) + Len(key) /\ Len(pressed \o key) = Len(pressed) + Len(key)
            BY <3>1
        <3> QED
            BY <2>2, <3>2
    <2> QED
        BY <1>2, <2>1, <2>2, <2>3
<1>4. CASE Tick \/ InitializeIdt \/ ActivateKeyboardInterrupt \/ OtherCall \/ LeaveLoop \/ UNCHANGED vars
    <2>1. /\ UNCHANGED <<keyboard_input_on, buffer_index, keyboard_buffer, queue, pressed>>
          /\ cpu' \in {"wait", "copy"} <=> cpu \in {"wait", "copy"}
        BY <1>4 DEF Tick, InitializeIdt, ActivateKeyboardInterrupt, OtherCall, LeaveLoop, vars,
                    driver, hardware
    <2>2. Taken' = Taken
        BY <2>1 DEF Taken
    <2> QED
        BY <1>2, <2>1, <2>2
<1>5. ASSUME Len(queue') = Len(pressed') PROVE LineOf(Taken') = <<>>
    <2>1. Taken' = <<>>
        <3>1. TypeOK'
            BY StepType
        <3>2. pressed' \in Seq(Scancodes) /\ queue' \in Seq(Scancodes)
            BY <3>1 DEF TypeOK
        <3>3. Len(pressed') - Len(queue') = 0 /\ 0 \in 0 .. Len(pressed')
            BY <1>5, <3>2
        <3>4. SubSeq(pressed', 1, 0) \in Seq(Scancodes) /\ Len(SubSeq(pressed', 1, 0)) = 0
            BY <3>2, <3>3, PrefixFacts
        <3> QED
            BY <3>3, <3>4, EmptySeq DEF Taken
    <2> QED
        BY <2>1, NoKeysNoLine
<1>6. CASE ReadLine
    <2>1. /\ cpu = "shell" /\ cpu' = "wait" /\ keyboard_buffer' = ClearedBuffer
          /\ keyboard_input_on' /\ UNCHANGED <<buffer_index, queue, pressed>>
        BY <1>6 DEF ReadLine, hardware
    <2>2. Len(queue') = Len(pressed') /\ buffer_index' = 0
        BY <1>2, <2>1
    <2>3. \A i \in 0 .. BufferSize - 1 : keyboard_buffer'[i] = Nul
        BY <2>1, BufferAssumption DEF ClearedBuffer, Cells
    <2>4. LineOf(Taken') = <<>> /\ Len(<<>>) = 0
        BY <1>5, <2>2
    <2>5. Holds(keyboard_buffer', <<>>)
        BY <2>3 DEF Holds
    <2> QED
        BY <2>1, <2>2, <2>4, <2>5
<1>7. CASE ReturnLine
    <2>1. /\ cpu = "copy" /\ cpu' = "shell" /\ pressed' = queue
          /\ UNCHANGED <<buffer_index, queue, keyboard_input_on>>
        BY <1>7 DEF ReturnLine, driver, hardware
    <2> QED
        BY <1>2, <2>1
<1>8. CASE KeyboardInterrupt
    <2>1. PICK k \in Scancodes :
              /\ Takes(k)
              /\ \/ k = EXTENDED /\ IsrExtended
                 \/ k = ENTER /\ IsrEnter
                 \/ k = BACK /\ IsrBack
                 \/ IsrChar(k)
                 \/ IsrUnmapped(k)
        BY <1>1, <1>8 DEF KeyboardInterrupt, IsrExtended, IsrEnter, IsrBack, IsrChar, IsrUnmapped, Scancodes
    <2>2. keyboard_input_on /\ cpu' = cpu /\ cpu = "wait"
        BY <1>2, <2>1 DEF Takes
    <2>3. Taken \in Seq(Scancodes) /\ IsLine(LineOf(Taken))
        BY TakenFacts
    <2>4. Taken' = Append(Taken, k)
        BY <2>1, TakesNext
    <2>5. LineOf(Taken') = Edit(LineOf(Taken), k)
        BY <2>3, <2>4, LineGrows
    <2>6. /\ Holds(keyboard_buffer', Edit(LineOf(Taken), k))
          /\ buffer_index' = IF keyboard_input_on' THEN Len(Edit(LineOf(Taken), k)) ELSE 0
        BY <1>2, <2>1, <2>2, <2>3, KeyEditsBuffer
    <2> QED
        BY <2>2, <2>5, <2>6
<1> QED
    BY <1>1, <1>3, <1>4, <1>6, <1>7, <1>8 DEF Next

LEMMA InitInv == Init => IInv
<1>1. Init => ListensInWait /\ NothingBlocks /\ StaysInBuffer
    BY BufferAssumption DEF Init, ListensInWait, NothingBlocks, StaysInBuffer, Cells
<1>2. Init => QueueIsLast
    BY DEF Init, QueueIsLast
<1>3. Init => LineSoFar
    BY DEF Init, LineSoFar
<1> QED
    BY <1>1, <1>2, <1>3, InitType DEF IInv

-----------------------------------------------------------------------------
(* The strengthened invariant holds whenever keys are pressed.             *)
THEOREM Invariance == Spec => []IInv
<1>1. IInv /\ [Next]_vars => IInv'
    BY StepType, StepListens, StepBlocks, StepStays, StepQueue, StepLine DEF IInv
<1> QED
    BY InitInv, <1>1, PTL DEF Spec

(* The line the shell gets is the keys in order, with the backspaces done  *)
(* and what did not fit dropped, for every buffer size, unless a mishap.   *)
THEOREM LinesArriveAsTyped == Spec => []LineAsTyped
<1>1. IInv => LineAsTyped
    BY DEF IInv, LineSoFar, Holds, LineAsTyped
<1> QED
    BY <1>1, Invariance, PTL

(* The driver's variables keep their types: the index never leaves the     *)
(* buffer by more than the one byte behind it.                             *)
THEOREM TypeCorrect == Spec => []TypeOK
<1>1. IInv => TypeOK
    BY DEF IInv
<1> QED
    BY <1>1, Invariance, PTL

(* However fast and however long keys are pressed, while the driver        *)
(* listens a waiting scancode has its interrupt on the way.                *)
THEOREM AlwaysHeard == Spec => []Heard
<1>1. IInv => Heard
    BY DEF IInv, ListensInWait, NothingBlocks, Heard, Delivered, InterruptsEnabled, Masked,
           IRQ_TIMER, IRQ_KEYBOARD
<1> QED
    BY <1>1, Invariance, PTL

(* The driver never writes behind its buffer without an arrow key.         *)
THEOREM BufferHolds == Spec => []StaysInBuffer
<1>1. IInv => StaysInBuffer
    BY DEF IInv
<1> QED
    BY <1>1, Invariance, PTL

=============================================================================
