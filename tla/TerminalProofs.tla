---------------------------- MODULE TerminalProofs ----------------------------
(***************************************************************************)
(* Theorems about Terminal, for screens, lines and buffers of every size:  *)
(* the screen position stays on the screen, the line that is shown is the  *)
(* one in the buffer, the shell acts on the words of that line, and on no  *)
(* word of an earlier one.                                                 *)
(***************************************************************************)
EXTENDS Terminal, SequenceTheorems, NaturalsInduction, WellFoundedInduction, TLAPS

-----------------------------------------------------------------------------
(* Rows and columns.                                                       *)

Area == Columns * Rows

LEMMA Quotient ==
    ASSUME NEW x \in Nat
    PROVE  /\ x \div Columns \in Nat
           /\ (x \div Columns) * Columns <= x
           /\ x < (x \div Columns) * Columns + Columns
BY SizeAssumption

LEMMA AreaFacts ==
    /\ Area \in Nat /\ Area >= 1
    /\ Positions = 0 .. Area - 1 /\ OffScreen = Area
    /\ \A x \in Nat : x \div Columns >= Rows <=> x >= Area
    /\ \A x \in Positions : (x \div Columns + 1) * Columns \in 1 .. Area
<1>1. Area \in Nat /\ Area >= 1
    BY SizeAssumption DEF Area
<1>2. ASSUME NEW x \in Nat PROVE x \div Columns >= Rows <=> x >= Area
    <2> DEFINE q == x \div Columns
    <2>1. q \in Nat /\ q * Columns <= x /\ x < q * Columns + Columns
        BY Quotient
    <2> HIDE DEF q
    <2>2. CASE q >= Rows
        <3>1. q * Columns >= Rows * Columns
            BY <2>1, <2>2, SizeAssumption
        <3> QED
            BY <2>1, <2>2, <3>1, SizeAssumption DEF Area, q
    <2>3. CASE q + 1 <= Rows
        <3>1. q * Columns + Columns <= Rows * Columns
            BY <2>1, <2>3, SizeAssumption
        <3> QED
            BY <2>1, <2>3, <3>1, SizeAssumption DEF Area, q
    <2> QED
        BY <2>1, <2>2, <2>3, SizeAssumption
<1>3. ASSUME NEW x \in Positions PROVE (x \div Columns + 1) * Columns \in 1 .. Area
    <2> DEFINE q == x \div Columns
    <2>1. x \in Nat /\ x < Area
        BY <1>1 DEF Positions, Area
    <2>2. q \in Nat /\ q * Columns <= x /\ x < q * Columns + Columns /\ ~(q >= Rows)
        BY <1>1, <1>2, <2>1, Quotient
    <2> HIDE DEF q
    <2>3. (q + 1) * Columns = q * Columns + Columns /\ q * Columns + Columns <= Rows * Columns
        BY <2>2, SizeAssumption
    <2>4. (q + 1) * Columns \in 1 .. Area
        BY <1>1, <2>1, <2>2, <2>3, SizeAssumption DEF Area
    <2> QED
        BY <2>4 DEF q
<1>4. Positions = 0 .. Area - 1 /\ OffScreen = Area
    BY DEF Positions, OffScreen, Area
<1> QED
    BY <1>1, <1>2, <1>3, <1>4

-----------------------------------------------------------------------------
(* The display: what each operation of framebuffer.c makes of one whose    *)
(* tracker was moved by a place or to the next row.                        *)

Shown    == Chars \cup {Nul}
Screens  == [Positions -> Shown]
Cursors  == Positions \cup {OffScreen}
Displays == [tracker : Positions, screen : Screens, cursor : Cursors]
Moving   == [tracker : -1 .. Area, screen : Screens, cursor : Cursors]

LEMMA DisplaysMove == Displays \subseteq Moving
BY AreaFacts DEF Displays, Moving

LEMMA ResolvedFacts ==
    ASSUME NEW d \in Moving
    PROVE  /\ Resolved(d) \in Displays
           /\ d.tracker \in Positions => Resolved(d) = d
<1>1. d.tracker \in -1 .. Area /\ d.screen \in Screens /\ d.cursor \in Cursors
    BY DEF Moving
<1>2. CASE d.tracker \in Positions
    <2>1. ~(d.tracker <= -1) /\ d.tracker \in Nat /\ ~(d.tracker \div Columns >= Rows)
        BY <1>2, AreaFacts
    <2>2. Resolved(d) = [d EXCEPT !.tracker = d.tracker]
        BY <2>1 DEF Resolved
    <2>3. Resolved(d) = d
        BY <2>2 DEF Moving
    <2> QED
        BY <1>1, <1>2, <2>3 DEF Moving, Displays
<1>3. CASE d.tracker = -1
    <2>1. d.tracker <= -1 /\ Area + d.tracker \in Positions /\ Area + d.tracker \in Nat
        BY <1>3, AreaFacts
    <2>2. ~((Area + d.tracker) \div Columns >= Rows)
        BY <2>1, AreaFacts
    <2>3. Resolved(d) = [d EXCEPT !.tracker = Area + d.tracker]
        BY <2>1, <2>2 DEF Resolved, Area
    <2> QED
        BY <1>1, <1>3, <2>1, <2>3, AreaFacts DEF Moving, Displays
<1>4. CASE d.tracker = Area
    <2>1. ~(d.tracker <= -1) /\ d.tracker \in Nat /\ d.tracker \div Columns >= Rows
        BY <1>4, AreaFacts
    <2>2. Resolved(d) = [d EXCEPT !.tracker = d.tracker - Area, !.screen = Empty]
        BY <2>1 DEF Resolved, Area
    <2>3. d.tracker - Area \in Positions /\ Empty \in Screens /\ d.tracker \notin Positions
        BY <1>4, AreaFacts DEF Empty, Screens, Shown
    <2> QED
        BY <1>1, <1>4, <2>2, <2>3 DEF Moving, Displays
<1> QED
    BY <1>1, <1>2, <1>3, <1>4, AreaFacts

LEMMA WriteFacts ==
    ASSUME NEW d \in Moving, NEW c \in Shown, NEW e \in Write(d, c)
    PROVE  /\ e \in Displays
           /\ d.tracker \in Positions =>
                 /\ e.tracker = d.tracker /\ e.cursor = d.cursor
                 /\ e.screen = [d.screen EXCEPT ![d.tracker] = c]
<1> DEFINE r == Resolved(d)
<1>1. r \in Displays /\ (d.tracker \in Positions => r = d)
    BY ResolvedFacts
<1>2. e = [r EXCEPT !.screen[r.tracker] = c] \/ (d.tracker < 0 /\ e = r)
    BY DEF Write
<1> HIDE DEF r
<1>3. ASSUME e = [r EXCEPT !.screen[r.tracker] = c]
      PROVE  /\ e \in Displays /\ e.tracker = r.tracker /\ e.cursor = r.cursor
             /\ e.screen = [r.screen EXCEPT ![r.tracker] = c]
    <2>1. e = [r EXCEPT !.screen = [r.screen EXCEPT ![r.tracker] = c]]
        BY <1>3
    <2>2. [r.screen EXCEPT ![r.tracker] = c] \in Screens
        BY <1>1 DEF Displays, Screens
    <2> QED
        BY <1>1, <2>1, <2>2 DEF Displays
<1>4. d.tracker \in Positions => ~(d.tracker < 0)
    BY AreaFacts
<1> QED
    BY <1>1, <1>2, <1>3, <1>4

LEMMA SetCursorFacts ==
    ASSUME NEW d \in Moving, NEW e \in SetCursor(d)
    PROVE  /\ e \in Displays
           /\ d.tracker \in Positions =>
                 e.tracker = d.tracker /\ e.screen = d.screen /\ e.cursor = d.tracker
           /\ d.tracker >= 0 => e.cursor = e.tracker
<1> DEFINE r == Resolved(d)
<1>1. r \in Displays /\ (d.tracker \in Positions => r = d)
    BY ResolvedFacts
<1>2. e = [r EXCEPT !.cursor = r.tracker] \/ (d.tracker < 0 /\ e = [r EXCEPT !.cursor = OffScreen])
    BY DEF SetCursor
<1> HIDE DEF r
<1>3. d.tracker \in -1 .. Area /\ (d.tracker \in Positions => ~(d.tracker < 0))
    BY AreaFacts DEF Moving
<1>4. ASSUME NEW x \in Cursors, e = [r EXCEPT !.cursor = x]
      PROVE  e \in Displays /\ e.tracker = r.tracker /\ e.screen = r.screen /\ e.cursor = x
    BY <1>1, <1>4 DEF Displays
<1>5. r.tracker \in Cursors /\ OffScreen \in Cursors
    BY <1>1 DEF Displays, Cursors
<1> QED
    BY <1>1, <1>2, <1>3, <1>4, <1>5

LEMMA MovedFacts ==
    ASSUME NEW d \in Displays
    PROVE  /\ \A n \in {-1, 0, 1} :
                 /\ Moved(d, n) \in Moving /\ Moved(d, n).tracker = d.tracker + n
                 /\ Moved(d, n).screen = d.screen /\ Moved(d, n).cursor = d.cursor
           /\ NextRow(d) \in Moving /\ NextRow(d).tracker >= 0 /\ NextRow(d).screen = d.screen
<1>1. d.tracker \in Positions /\ d.tracker \in 0 .. Area - 1 /\ Area \in Nat
    BY AreaFacts DEF Displays
<1>2. ASSUME NEW n \in {-1, 0, 1}
      PROVE  /\ Moved(d, n) \in Moving /\ Moved(d, n).tracker = d.tracker + n
             /\ Moved(d, n).screen = d.screen /\ Moved(d, n).cursor = d.cursor
    <2>1. d.tracker + n \in -1 .. Area
        BY <1>1
    <2> QED
        BY <2>1 DEF Moved, Displays, Moving
<1>3. (d.tracker \div Columns + 1) * Columns \in 1 .. Area
    BY <1>1, AreaFacts
<1> DEFINE x == (d.tracker \div Columns + 1) * Columns
<1>4. NextRow(d) = [d EXCEPT !.tracker = x]
    BY DEF NextRow
<1>5. x \in -1 .. Area /\ x >= 0
    BY <1>1, <1>3
<1> HIDE DEF x
<1> QED
    BY <1>2, <1>4, <1>5 DEF Displays, Moving

LEMMA PutFacts ==
    ASSUME NEW d \in Displays, NEW c \in Shown, NEW e \in Put(d, c)
    PROVE  /\ e \in Displays /\ e.cursor = e.tracker
           /\ d.tracker + 1 \in Positions =>
                 /\ e.tracker = d.tracker + 1
                 /\ e.screen = [d.screen EXCEPT ![d.tracker] = c]
<1>1. PICK w \in Write(d, c) : e \in SetCursor(Moved(w, 1))
    BY DEF Put
<1>2. /\ d \in Moving /\ d.tracker \in Positions
      /\ w \in Displays /\ w.tracker = d.tracker
      /\ w.screen = [d.screen EXCEPT ![d.tracker] = c]
    BY DisplaysMove, WriteFacts DEF Displays
<1>3. /\ Moved(w, 1) \in Moving /\ Moved(w, 1).tracker = w.tracker + 1
      /\ Moved(w, 1).screen = w.screen
    BY <1>2, MovedFacts
<1>4. Moved(w, 1).tracker >= 0
    BY <1>2, <1>3, AreaFacts
<1> QED
    BY <1>1, <1>2, <1>3, <1>4, SetCursorFacts

LEMMA PutNewlineFacts ==
    ASSUME NEW d \in Displays, NEW e \in PutNewline(d)
    PROVE  e \in Displays /\ e.cursor = e.tracker
<1>1. PICK w \in Write(NextRow(d), Nul) : e \in SetCursor(w)
    BY DEF PutNewline
<1>2. w \in Displays
    BY MovedFacts, WriteFacts DEF Shown
<1>3. w \in Moving /\ w.tracker \in Positions
    BY <1>2, DisplaysMove DEF Displays
<1> QED
    BY <1>1, <1>3, SetCursorFacts

LEMMA EnteredFacts ==
    ASSUME NEW d \in Displays, NEW e \in Entered(d)
    PROVE  e \in Displays /\ e.cursor = e.tracker
<1>1. PICK w \in SetCursor(NextRow(d)) : e \in Write(w, Blank)
    BY DEF Entered
<1>2. w \in Displays /\ w.cursor = w.tracker
    BY MovedFacts, SetCursorFacts
<1>3. w \in Moving /\ w.tracker \in Positions /\ Blank \in Shown
    BY <1>2, DisplaysMove DEF Displays, Shown, Chars
<1> QED
    BY <1>1, <1>2, <1>3, WriteFacts

LEMMA BackspacedFacts ==
    ASSUME NEW d \in Displays, NEW n \in {0, 1}, NEW e \in Backspaced(d, n)
    PROVE  /\ e \in Displays
           /\ d.tracker - n \in Positions =>
                 /\ e.tracker = d.tracker - n /\ e.cursor = e.tracker
                 /\ e.screen = [d.screen EXCEPT ![d.tracker] = Blank]
<1>1. PICK w \in Write(d, Blank) : e \in SetCursor(Moved(w, -n))
    BY DEF Backspaced
<1>2. /\ d \in Moving /\ d.tracker \in Positions /\ Blank \in Shown
    BY DisplaysMove DEF Displays, Shown, Chars
<1>3. /\ w \in Displays /\ w.tracker = d.tracker
      /\ w.screen = [d.screen EXCEPT ![d.tracker] = Blank]
    BY <1>2, WriteFacts
<1>4. -n \in {-1, 0, 1} /\ d.tracker + (-n) = d.tracker - n
    BY <1>2, AreaFacts
<1>5. /\ Moved(w, -n) \in Moving /\ Moved(w, -n).tracker = w.tracker + (-n)
      /\ Moved(w, -n).screen = w.screen
    BY <1>3, <1>4, MovedFacts
<1> QED
    BY <1>1, <1>3, <1>4, <1>5, SetCursorFacts

LEMMA ArrowedFacts ==
    ASSUME NEW d \in Moving, NEW c \in Shown, NEW e \in Arrowed(d, c)
    PROVE  /\ e \in Displays
           /\ d.tracker \in Positions =>
                 /\ e.tracker = d.tracker /\ e.cursor = e.tracker
                 /\ e.screen = [d.screen EXCEPT ![d.tracker] = c]
<1>1. PICK w \in Write(d, c) : e \in SetCursor(w)
    BY DEF Arrowed
<1>2. /\ w \in Displays
      /\ d.tracker \in Positions =>
            /\ w.tracker = d.tracker /\ w.screen = [d.screen EXCEPT ![d.tracker] = c]
    BY <1>1, WriteFacts
<1>3. w \in Moving /\ w.tracker \in Positions
    BY <1>2, DisplaysMove DEF Displays
<1> QED
    BY <1>1, <1>2, <1>3, SetCursorFacts

-----------------------------------------------------------------------------
(* What parse_input returns: a list of words, not more than there is room  *)
(* for.                                                                    *)

LEMMA LeastNumber ==
    ASSUME NEW S \in SUBSET Nat, S # {}
    PROVE  \E i \in S : \A j \in S : i <= j
<1> DEFINE R == {p \in Nat \X Nat : p[1] < p[2]}
<1>1. IsWellFoundedOn(R, Nat)
    BY NatLessThanWellFounded DEF OpToRel
<1>2. PICK i \in S : \A j \in S : ~ (<<j, i>> \in R)
    <2> HIDE DEF R
    <2> QED BY <1>1, WFMin
<1>3. \A j \in S : <<j, i>> \in Nat \X Nat /\ <<j, i>>[1] = j /\ <<j, i>>[2] = i
    OBVIOUS
<1>4. \A j \in S : ~ (j < i)
    BY <1>2, <1>3
<1> QED
    BY <1>4

LEMMA LengthFacts ==
    ASSUME NEW s \in Seq(Shown)
    PROVE  /\ stringLength(s) \in 0 .. Len(s)
           /\ stringLength(s) = Len(s) \/ s[stringLength(s) + 1] = Nul
           /\ \A k \in 1 .. stringLength(s) : s[k] # Nul
<1> DEFINE S == {n \in 0 .. Len(s) : n = Len(s) \/ s[n + 1] = Nul}
<1>1. Len(s) \in S /\ S \in SUBSET Nat
    OBVIOUS
<1>2. PICK n \in S : \A m \in S : n <= m
    <2> HIDE DEF S
    <2> QED
        BY <1>1, LeastNumber
<1>3. n \in 0 .. Len(s) /\ (n = Len(s) \/ s[n + 1] = Nul)
    OBVIOUS
<1>4. ASSUME NEW k \in 1 .. n, s[k] = Nul PROVE FALSE
    <2>1. k - 1 \in 0 .. Len(s) /\ (k - 1) + 1 = k /\ ~(n <= k - 1)
        BY <1>3
    <2>2. k - 1 \in S
        BY <1>4, <2>1
    <2> QED
        BY <1>2, <2>1, <2>2
<1> QED
    BY <1>3, <1>4 DEF stringLength

LEMMA SkipFacts ==
    ASSUME NEW s, NEW len \in Nat, NEW i \in 0 .. len
    PROVE  LET k == SkipBlanks(s, i, len)
           IN  /\ k \in i .. len /\ (k = len \/ s[k + 1] # Blank)
               /\ \A x \in i + 1 .. k : s[x] = Blank
<1> DEFINE S == {k \in i .. len : k = len \/ s[k + 1] # Blank}
<1>1. len \in S /\ S \in SUBSET Nat
    OBVIOUS
<1>2. PICK k \in S : \A m \in S : k <= m
    <2> HIDE DEF S
    <2> QED
        BY <1>1, LeastNumber
<1>3. k \in i .. len /\ (k = len \/ s[k + 1] # Blank)
    OBVIOUS
<1>4. ASSUME NEW x \in i + 1 .. k, s[x] # Blank PROVE FALSE
    <2>1. x - 1 \in i .. len /\ (x - 1) + 1 = x /\ ~(k <= x - 1)
        BY <1>3
    <2>2. x - 1 \in S
        BY <1>4, <2>1
    <2> QED
        BY <1>2, <2>1, <2>2
<1> QED
    BY <1>3, <1>4 DEF SkipBlanks

LEMMA EndFacts ==
    ASSUME NEW s, NEW len \in Nat, NEW i \in 0 .. len
    PROVE  LET k == WordEnd(s, i, len)
           IN  /\ k \in i .. len /\ (k = len \/ s[k + 1] = Blank)
               /\ \A x \in i + 1 .. k : s[x] # Blank
<1> DEFINE S == {k \in i .. len : k = len \/ s[k + 1] = Blank}
<1>1. len \in S /\ S \in SUBSET Nat
    OBVIOUS
<1>2. PICK k \in S : \A m \in S : k <= m
    <2> HIDE DEF S
    <2> QED
        BY <1>1, LeastNumber
<1>3. k \in i .. len /\ (k = len \/ s[k + 1] = Blank)
    OBVIOUS
<1>4. ASSUME NEW x \in i + 1 .. k, s[x] = Blank PROVE FALSE
    <2>1. x - 1 \in i .. len /\ (x - 1) + 1 = x /\ ~(k <= x - 1)
        BY <1>3
    <2>2. x - 1 \in S
        BY <1>4, <2>1
    <2> QED
        BY <1>2, <2>1, <2>2
<1> QED
    BY <1>3, <1>4 DEF WordEnd

(* The parser's places: the next word's first character and its end.      *)
First(s, len, i) == SkipBlanks(s, i, len)
End(s, len, i)   == WordEnd(s, First(s, len, i), len)
WordFrom(s, len, i) == SubSeq(s, First(s, len, i) + 1, End(s, len, i))

(* The words from each position on, with room for none to m of them.       *)
ParsedBy(s, len, m, from) ==
    from = [room \in 0 .. m |->
               [i \in 0 .. len |->
                   IF room = 0 \/ First(s, len, i) = len THEN <<>>
                   ELSE <<WordFrom(s, len, i)>> \o from[room - 1][End(s, len, i)]]]

(* From i on: blanks up to f, and no more of them from there to e.         *)
Places(s, len, i, f, e) ==
    /\ f \in i .. len /\ f \in 0 .. len /\ (f = len \/ s[f + 1] # Blank)
    /\ \A x \in i + 1 .. f : s[x] = Blank
    /\ e \in f .. len /\ e \in 0 .. len /\ (e = len \/ s[e + 1] = Blank)
    /\ \A x \in f + 1 .. e : s[x] # Blank

LEMMA PlaceFacts ==
    ASSUME NEW s, NEW len \in Nat, NEW i \in 0 .. len
    PROVE  Places(s, len, i, First(s, len, i), End(s, len, i))
<1> DEFINE f == First(s, len, i)
<1>1. /\ f \in i .. len /\ (f = len \/ s[f + 1] # Blank)
      /\ \A x \in i + 1 .. f : s[x] = Blank
    BY SkipFacts DEF First
<1>2. f \in 0 .. len
    BY <1>1
<1> HIDE DEF f
<1>3. /\ WordEnd(s, f, len) \in f .. len
      /\ WordEnd(s, f, len) = len \/ s[WordEnd(s, f, len) + 1] = Blank
      /\ \A x \in f + 1 .. WordEnd(s, f, len) : s[x] # Blank
    BY <1>2, EndFacts
<1>4. WordEnd(s, f, len) \in 0 .. len
    BY <1>2, <1>3
<1>5. Places(s, len, i, f, WordEnd(s, f, len))
    BY <1>1, <1>2, <1>3, <1>4 DEF Places
<1> QED
    BY <1>5 DEF End, f

LEMMA ParseExists ==
    ASSUME NEW s, NEW len \in Nat, NEW n \in Nat
    PROVE  \E from : ParsedBy(s, len, n, from)
<1> DEFINE S == {m \in Nat : ~ \E from : ParsedBy(s, len, m, from)}
<1> SUFFICES ASSUME S # {} PROVE FALSE
    OBVIOUS
<1>1. PICK m \in S : \A j \in S : m <= j
    <2> S \in SUBSET Nat
        OBVIOUS
    <2> HIDE DEF S
    <2> QED
        BY LeastNumber
<1>2. m \in Nat /\ ~ \E from : ParsedBy(s, len, m, from)
    OBVIOUS
<1> DEFINE Words1(from, room) ==
              [i \in 0 .. len |->
                  IF room = 0 \/ First(s, len, i) = len THEN <<>>
                  ELSE <<WordFrom(s, len, i)>> \o from[room - 1][End(s, len, i)]]
<1>3. CASE m = 0
    <2> DEFINE from == [room \in 0 .. m |-> Words1(<<>>, 0)]
    <2>1. \A room \in 0 .. m : room = 0
        BY <1>3
    <2>2. \A room \in 0 .. m : Words1(<<>>, 0) = Words1(from, room)
        BY <2>1
    <2>3. from = [room \in 0 .. m |-> Words1(from, room)]
        BY <2>2
    <2>4. ParsedBy(s, len, m, from)
        BY <2>3 DEF ParsedBy
    <2> QED
        BY <1>2, <2>4
<1>4. CASE m # 0
    <2>1. m - 1 \in Nat /\ m - 1 \notin S
        BY <1>1, <1>2, <1>4
    <2>2. PICK before : ParsedBy(s, len, m - 1, before)
        BY <2>1
    <2> DEFINE from == [room \in 0 .. m |-> Words1(before, room)]
    <2>3. ASSUME NEW room \in 0 .. m, room # 0 PROVE from[room - 1] = before[room - 1]
        <3>1. room - 1 \in 0 .. m - 1 /\ room - 1 \in 0 .. m
            BY <1>2, <2>3
        <3>2. before[room - 1] = Words1(before, room - 1)
            BY <2>2, <3>1 DEF ParsedBy
        <3> QED
            BY <3>1, <3>2
    <2>4. \A room \in 0 .. m : Words1(before, room) = Words1(from, room)
        BY <2>3
    <2>5. from = [room \in 0 .. m |-> Words1(from, room)]
        BY <2>4
    <2>6. ParsedBy(s, len, m, from)
        BY <2>5 DEF ParsedBy
    <2> QED
        BY <1>2, <2>6
<1> QED
    BY <1>3, <1>4

LEMMA ParseIsIt ==
    ASSUME NEW s \in Seq(Shown)
    PROVE  \E from : /\ ParsedBy(s, stringLength(s), MAX_ARGS, from)
                     /\ parse_input(s) = from[MAX_ARGS][0]
<1> DEFINE len == stringLength(s)
           it == CHOOSE from : ParsedBy(s, len, MAX_ARGS, from)
<1>1. parse_input(s) = it[MAX_ARGS][0]
    BY Zenon DEF parse_input, ParsedBy, First, End, WordFrom
<1>2. len \in Nat /\ MAX_ARGS \in Nat
    BY LengthFacts, WordsAssumption
<1> HIDE DEF len
<1>3. ParsedBy(s, len, MAX_ARGS, it)
    <2>1. \E from : ParsedBy(s, len, MAX_ARGS, from)
        BY <1>2, ParseExists
    <2> QED
        BY <2>1, Zenon
<1> QED
    BY <1>1, <1>3 DEF len

LEMMA ParsedFits ==
    ASSUME NEW s \in Seq(Shown), NEW len \in 0 .. Len(s), NEW m \in Nat, NEW from,
           ParsedBy(s, len, m, from), NEW room \in 0 .. m
    PROVE  \A i \in 0 .. len : /\ from[room][i] \in Seq(Seq(Shown))
                               /\ Len(from[room][i]) <= room
<1> DEFINE Fits(r) == \A i \in 0 .. len : from[r][i] \in Seq(Seq(Shown)) /\ Len(from[r][i]) <= r
           S == {r \in 0 .. m : ~Fits(r)}
<1> SUFFICES ASSUME S # {} PROVE FALSE
    OBVIOUS
<1>1. PICK r \in S : \A j \in S : r <= j
    <2> S \in SUBSET Nat
        OBVIOUS
    <2> HIDE DEF S
    <2> QED
        BY LeastNumber
<1>2. r \in Nat /\ r \in 0 .. m /\ ~Fits(r) /\ len \in Nat
    OBVIOUS
<1>3. \A i \in 0 .. len :
          from[r][i] = IF r = 0 \/ First(s, len, i) = len THEN <<>>
                       ELSE <<WordFrom(s, len, i)>> \o from[r - 1][End(s, len, i)]
    <2> DEFINE Step(f, q) ==
                  [i \in 0 .. len |->
                      IF q = 0 \/ First(s, len, i) = len THEN <<>>
                      ELSE <<WordFrom(s, len, i)>> \o f[q - 1][End(s, len, i)]]
    <2>1. from = [q \in 0 .. m |-> Step(from, q)]
        BY DEF ParsedBy
    <2>2. from[r] = Step(from, r)
        <3> HIDE DEF Step
        <3> QED
            BY <1>2, <2>1
    <2> QED
        BY <2>2
<1>4. r = 0 \/ Fits(r - 1)
    <2> SUFFICES ASSUME r # 0 PROVE Fits(r - 1)
        OBVIOUS
    <2>1. r - 1 \in 0 .. m /\ ~(r <= r - 1)
        BY <1>2
    <2>2. r - 1 \notin S
        BY <1>1, <2>1
    <2> QED
        BY <2>1, <2>2
<1>5. ASSUME NEW i \in 0 .. len
      PROVE  from[r][i] \in Seq(Seq(Shown)) /\ Len(from[r][i]) <= r
    <2>1. CASE r = 0 \/ First(s, len, i) = len
        <3>1. from[r][i] = <<>>
            BY <1>3, <2>1
        <3> QED
            BY <1>2, <3>1
    <2>2. CASE r # 0 /\ First(s, len, i) # len
        <3> DEFINE rest == from[r - 1][End(s, len, i)]
        <3>1. End(s, len, i) \in 0 .. len
            BY <1>2, PlaceFacts DEF Places
        <3>2. rest \in Seq(Seq(Shown)) /\ Len(rest) <= r - 1
            BY <1>4, <2>2, <3>1
        <3>3. WordFrom(s, len, i) \in Seq(Shown)
            <4> DEFINE f == First(s, len, i)
                       e == End(s, len, i)
            <4>1. f \in 0 .. len /\ e \in 0 .. len
                BY <1>2, PlaceFacts DEF Places
            <4> HIDE DEF f, e
            <4>2. f + 1 \in Int /\ e \in Int /\ \A x \in f + 1 .. e : s[x] \in Shown
                BY <4>1
            <4>3. SubSeq(s, f + 1, e) \in Seq(Shown)
                BY <4>2, SubSeqProperties
            <4> QED
                BY <4>3 DEF WordFrom, f, e
        <3>4. from[r][i] = <<WordFrom(s, len, i)>> \o rest
            BY <1>3, <2>2
        <3> DEFINE w == WordFrom(s, len, i)
        <3>5. from[r][i] = <<w>> \o rest /\ w \in Seq(Shown)
            BY <3>3, <3>4
        <3> HIDE DEF rest, w
        <3>6. <<w>> \in Seq(Seq(Shown)) /\ Len(<<w>>) = 1
            BY <3>5
        <3>7. <<w>> \o rest \in Seq(Seq(Shown)) /\ Len(<<w>> \o rest) = 1 + Len(rest)
            BY <3>2, <3>6
        <3>8. Len(rest) \in Nat
            BY <3>2
        <3> QED
            BY <1>2, <2>2, <3>2, <3>5, <3>7, <3>8
    <2> QED
        BY <2>1, <2>2
<1> QED
    BY <1>2, <1>5

-----------------------------------------------------------------------------
(* Types.                                                                  *)

LEMMA CodeFacts ==
    ASSUME NEW word
    PROVE  /\ CodeOf(word) \in 0 .. Len(Names)
           /\ \A k \in DOMAIN Names : Matches(word, Names[k]) =>
                 /\ CodeOf(word) + 1 \in DOMAIN Names /\ CodeOf(word) + 1 <= k
                 /\ Matches(word, Names[CodeOf(word) + 1])
<1> DEFINE S == {k \in DOMAIN Names : Matches(word, Names[k])}
<1>1. DOMAIN Names = 1 .. Len(Names) /\ Len(Names) \in Nat
    BY NamesAssumption
<1>2. CASE S = {}
    BY <1>1, <1>2 DEF CodeOf
<1>3. CASE S # {}
    <2>1. S \in SUBSET Nat
        BY <1>1
    <2>2. CodeOf(word) = (CHOOSE k \in S : \A other \in S : k <= other) - 1
        BY <1>3 DEF CodeOf
    <2> DEFINE k0 == CHOOSE k \in S : \A other \in S : k <= other
    <2>3. k0 \in S /\ \A other \in S : k0 <= other
        <3> HIDE DEF S
        <3> QED
            BY <1>3, <2>1, LeastNumber
    <2>4. CodeOf(word) = k0 - 1
        BY <2>2
    <2> HIDE DEF k0
    <2>5. k0 \in 1 .. Len(Names) /\ Matches(word, Names[k0])
        BY <1>1, <2>3
    <2>6. CodeOf(word) + 1 = k0 /\ CodeOf(word) \in 0 .. Len(Names)
        BY <1>1, <2>4, <2>5
    <2> QED
        BY <1>1, <2>3, <2>5, <2>6
<1> QED
    BY <1>2, <1>3

LEMMA InputFacts ==
    ASSUME NEW l \in [0 .. LineSize - 1 -> Shown], NEW tail \in Tails
    PROVE  /\ InputWith(l, tail) \in Seq(Shown)
           /\ Len(InputWith(l, tail)) >= LineSize
           /\ \A k \in 1 .. LineSize : InputWith(l, tail)[k] = l[k - 1]
<1> DEFINE front == [k \in 1 .. LineSize |-> l[k - 1]]
<1>1. LineSize \in Nat /\ tail \in Seq(Shown)
    BY BufferAssumption, TailsAssumption DEF Shown
<1>2. \A k \in 1 .. LineSize : l[k - 1] \in Shown
    <2> TAKE k \in 1 .. LineSize
    <2>1. k - 1 \in 0 .. LineSize - 1
        BY <1>1
    <2> QED
        BY <2>1
<1>3. front \in Seq(Shown) /\ Len(front) = LineSize /\ (\A k \in 1 .. LineSize : front[k] = l[k - 1])
    BY <1>1, <1>2
<1>4. InputWith(l, tail) = front \o tail
    BY DEF InputWith
<1> HIDE DEF front
<1>6. Len(tail) \in Nat
    BY <1>1
<1>5. /\ front \o tail \in Seq(Shown) /\ Len(front \o tail) = LineSize + Len(tail)
      /\ \A k \in 1 .. LineSize : (front \o tail)[k] = front[k]
    <2>1. /\ front \o tail \in Seq(Shown) /\ Len(front \o tail) = Len(front) + Len(tail)
          /\ \A k \in 1 .. Len(front) + Len(tail) :
                (front \o tail)[k] = IF k <= Len(front) THEN front[k] ELSE tail[k - Len(front)]
        BY <1>1, <1>3, ConcatProperties
    <2>2. \A k \in 1 .. LineSize : k \in 1 .. Len(front) + Len(tail) /\ k <= Len(front)
        BY <1>1, <1>3, <1>6
    <2> QED
        BY <1>3, <2>1, <2>2
<1> QED
    BY <1>1, <1>3, <1>4, <1>5, <1>6

LEMMA ParseFacts ==
    ASSUME NEW s \in Seq(Shown)
    PROVE  parse_input(s) \in Seq(Seq(Shown)) /\ Len(parse_input(s)) \in 0 .. MAX_ARGS
<1> DEFINE len == stringLength(s)
<1>1. len \in 0 .. Len(s) /\ len \in Nat /\ MAX_ARGS \in Nat
    BY LengthFacts, WordsAssumption
<1>2. PICK from : ParsedBy(s, len, MAX_ARGS, from) /\ parse_input(s) = from[MAX_ARGS][0]
    BY ParseIsIt
<1>3. MAX_ARGS \in 0 .. MAX_ARGS /\ 0 \in 0 .. len
    BY <1>1
<1> HIDE DEF len
<1>4. from[MAX_ARGS][0] \in Seq(Seq(Shown)) /\ Len(from[MAX_ARGS][0]) <= MAX_ARGS
    BY <1>1, <1>2, <1>3, ParsedFits
<1> QED
    BY <1>1, <1>2, <1>4

(* What TypeOK needs to last: the line starts on the screen.               *)
TInv == TypeOK /\ start \in Positions

LEMMA TypesOf ==
    TypeOK <=> /\ display \in Displays
               /\ keyboard_buffer \in [0 .. BufferSize -> Shown]
               /\ buffer_index \in 0 .. BufferSize
               /\ pc \in Phases
               /\ buf \in [0 .. LineSize - 1 -> Shown]
               /\ DOMAIN args = Words /\ argcount \in 0 .. MAX_ARGS
               /\ retcode \in [code : 0 .. Len(Names), above : {0, 1}]
               /\ mishaps \subseteq Mishaps
BY DEF TypeOK, Displays, Screens, Cursors, Shown

LEMMA InitTypes == Init => TInv
<1> SUFFICES ASSUME Init PROVE TInv
    OBVIOUS
<1>1. 0 \in Positions /\ Empty \in Screens /\ Nul \in Shown
    BY AreaFacts DEF Empty, Screens, Shown
<1>2. display \in Displays
    BY <1>1 DEF Init, Displays, Cursors
<1>3. /\ BufferSize \in Nat /\ LineSize \in Nat /\ MAX_ARGS \in Nat
      /\ Len(Names) \in Nat
    BY BufferAssumption, WordsAssumption, NamesAssumption
<1>4. retcode \in [code : 0 .. Len(Names), above : {0, 1}]
    BY <1>3 DEF Init
<1> QED
    BY <1>1, <1>2, <1>3, <1>4, TypesOf DEF Init, TInv, Phases

(* What Remembers adds are mishaps.                                        *)
LEMMA RemembersFacts ==
    ASSUME NEW d, NEW kinds \in SUBSET Mishaps, mishaps \subseteq Mishaps, Remembers(d, kinds)
    PROVE  /\ mishaps' \subseteq Mishaps /\ mishaps \subseteq mishaps' /\ kinds \subseteq mishaps'
           /\ d.tracker \notin Positions => "torn" \in mishaps'
BY DEF Remembers, Mishaps

LEMMA KeyKinds ==
    /\ {} \in SUBSET Mishaps /\ {"arrow"} \in SUBSET Mishaps
    /\ (IF "arrow" \in mishaps THEN {"rubbed"} ELSE {}) \in SUBSET Mishaps
BY DEF Mishaps

(* An arrow key keeps to the buffer, its last element included, and takes  *)
(* a character from memory.                                                *)
LEMMA ArrowStays ==
    ASSUME TypeOK, NEW n, n = Left(buffer_index) \/ n = Right(buffer_index)
    PROVE  /\ n \in {-1, 0, 1} /\ buffer_index + n \in 0 .. BufferSize
           /\ Moved(display, n) \in Moving /\ Moved(display, n).tracker = display.tracker + n
           /\ Under(Moved(display, n)) \subseteq Shown
<1>1. n \in {-1, 0, 1} /\ buffer_index + n \in 0 .. BufferSize
    BY BufferAssumption DEF TypeOK, Left, Right
<1>2. display \in Displays
    BY TypesOf
<1>3. /\ Moved(display, n) \in Moving /\ Moved(display, n).tracker = display.tracker + n
      /\ Moved(display, n).screen = display.screen
    BY <1>1, <1>2, MovedFacts
<1>4. Under(Moved(display, n)) \subseteq Shown
    BY <1>2, <1>3 DEF Under, Displays, Screens, Shown
<1> QED
    BY <1>1, <1>3, <1>4

LEMMA StepTypes == TInv /\ [Next]_vars => TInv'
<1> SUFFICES ASSUME TInv, [Next]_vars PROVE TInv'
    OBVIOUS
<1>1. /\ display \in Displays
      /\ keyboard_buffer \in [0 .. BufferSize -> Shown]
      /\ buffer_index \in 0 .. BufferSize
      /\ pc \in Phases
      /\ buf \in [0 .. LineSize - 1 -> Shown]
      /\ DOMAIN args = Words /\ argcount \in 0 .. MAX_ARGS
      /\ retcode \in [code : 0 .. Len(Names), above : {0, 1}]
      /\ mishaps \subseteq Mishaps
      /\ start \in Positions
    BY TypesOf DEF TInv
<1>2. TypeOK' <=> /\ display' \in Displays
                  /\ keyboard_buffer' \in [0 .. BufferSize -> Shown]
                  /\ buffer_index' \in 0 .. BufferSize
                  /\ pc' \in Phases
                  /\ buf' \in [0 .. LineSize - 1 -> Shown]
                  /\ DOMAIN args' = Words /\ argcount' \in 0 .. MAX_ARGS
                  /\ retcode' \in [code : 0 .. Len(Names), above : {0, 1}]
                  /\ mishaps' \subseteq Mishaps
    BY DEF TypeOK, Displays, Screens, Cursors, Shown
<1>3. Nul \in Shown /\ Chars \subseteq Shown /\ BufferSize \in Nat /\ LineSize \in 1 .. BufferSize
    BY BufferAssumption DEF Shown
<1>4. ASSUME NEW c \in Chars, CharKey(c) PROVE TInv'
    <2>1. display' \in Displays
        BY <1>1, <1>3, <1>4, PutFacts DEF CharKey, Typed
    <2>2. mishaps' \subseteq Mishaps
        BY <1>1, <1>4, RemembersFacts, KeyKinds DEF CharKey
    <2> QED
        BY <1>1, <1>2, <1>3, <1>4, <2>1, <2>2 DEF CharKey, TInv, shell
<1>5. ASSUME BackKey PROVE TInv'
    <2>1. Back(buffer_index) \in {0, 1}
        BY DEF Back
    <2>2. display' \in Displays
        BY <1>1, <1>5, <2>1, BackspacedFacts DEF BackKey
    <2>3. mishaps' \subseteq Mishaps
        BY <1>1, <1>5, RemembersFacts, KeyKinds DEF BackKey
    <2>4. buffer_index' \in 0 .. BufferSize /\ keyboard_buffer' \in [0 .. BufferSize -> Shown]
        BY <1>1, <1>3, <1>5 DEF BackKey
    <2> QED
        BY <1>1, <1>2, <1>5, <2>2, <2>3, <2>4 DEF BackKey, TInv, shell
<1>6. ASSUME NEW n, n = Left(buffer_index) \/ n = Right(buffer_index), ArrowKey(n) PROVE TInv'
    <2>1. /\ buffer_index + n \in 0 .. BufferSize /\ Moved(display, n) \in Moving
          /\ Under(Moved(display, n)) \subseteq Shown
        BY <1>6, ArrowStays DEF TInv
    <2>2. PICK c \in Under(Moved(display, n)) :
              /\ keyboard_buffer' = [keyboard_buffer EXCEPT ![buffer_index + n] = c]
              /\ display' \in Arrowed(Moved(display, n), c)
        BY <1>6 DEF ArrowKey
    <2>3. display' \in Displays
        BY <2>1, <2>2, ArrowedFacts
    <2>4. mishaps' \subseteq Mishaps
        BY <1>1, <1>6, RemembersFacts, KeyKinds DEF ArrowKey
    <2>5. keyboard_buffer' \in [0 .. BufferSize -> Shown]
        BY <1>1, <2>1, <2>2
    <2> QED
        BY <1>1, <1>2, <1>6, <2>1, <2>3, <2>4, <2>5 DEF ArrowKey, TInv, shell
<1>7. ASSUME EnterKey PROVE TInv'
    <2>1. display' \in Displays
        BY <1>1, <1>7, EnteredFacts DEF EnterKey
    <2> QED
        BY <1>1, <1>2, <1>3, <1>7, <2>1 DEF EnterKey, TInv, shell, Phases
<1>8. ASSUME Puts PROVE TInv'
    <2>1. display' \in Displays
        BY <1>1, <1>3, <1>8, PutFacts, PutNewlineFacts DEF Puts, Chars
    <2> QED
        BY <1>1, <1>2, <1>8, <2>1 DEF Puts, TInv, shell, line
<1>9. ASSUME ReadLine PROVE TInv'
    <2>1. keyboard_buffer' \in [0 .. BufferSize -> Shown]
        BY <1>1, <1>3, <1>9 DEF ReadLine
    <2>2. start' \in Positions
        BY <1>1, <1>9 DEF ReadLine, Displays
    <2> QED
        BY <1>1, <1>2, <1>9, <2>1, <2>2 DEF ReadLine, TInv, shell, Phases
<1>10. ASSUME ParseInput PROVE TInv'
    <2>1. PICK tail \in Tails :
              LET words == parse_input(InputWith(buf', tail))
              IN  /\ args' = [k \in Words |-> IF k < Len(words) THEN words[k + 1] ELSE args[k]]
                  /\ argcount' = Len(words)
        BY <1>10 DEF ParseInput
    <2>2. buf' \in [0 .. LineSize - 1 -> Shown]
        BY <1>1, <1>3, <1>10 DEF ParseInput
    <2>3. argcount' \in 0 .. MAX_ARGS
        BY <2>1, <2>2, InputFacts, ParseFacts
    <2>4. DOMAIN args' = Words
        BY <2>1
    <2> QED
        BY <1>1, <1>2, <1>10, <2>2, <2>3, <2>4 DEF ParseInput, TInv, line, Phases
<1>11. ASSUME Recognise PROVE TInv'
    <2>1. retcode' \in [code : 0 .. Len(Names), above : {0, 1}]
        BY <1>11, CodeFacts DEF Recognise
    <2> QED
        BY <1>1, <1>2, <1>11, <2>1 DEF Recognise, TInv, line, Phases
<1>12. ASSUME Clear PROVE TInv'
    BY <1>1, <1>2, <1>3, <1>12 DEF Clear, ClearedWords, TInv, line, Phases
<1>13. ASSUME UNCHANGED vars PROVE TInv'
    BY <1>1, <1>2, <1>13 DEF vars, line, shell, TInv
<1> QED
    BY <1>4, <1>5, <1>6, <1>7, <1>8, <1>9, <1>10, <1>11, <1>12, <1>13 DEF Next, Key

(* Every state of the terminal is one of its types: the tracker, which keys *)
(* move over both ends of the screen, is back on it after each of them     *)
(* (get_resolution_row), and the buffers are written within their bounds.  *)
THEOREM TypeCorrect == Spec => []TypeOK
<1>1. TInv => TypeOK
    BY DEF TInv
<1> QED
    BY <1>1, InitTypes, StepTypes, PTL DEF Spec

-----------------------------------------------------------------------------
(* The line on the screen.                                                 *)

(* Between lines the index is 0, and whatever was printed last has left    *)
(* the cursor at the tracker.                                              *)
Quiet == pc # "wait" => buffer_index = 0 /\ display.cursor = display.tracker

(* As long as no arrow key came, the buffer is filled up to the index.     *)
Filled ==
    Waiting /\ mishaps = {} =>
        \A i \in 0 .. BufferSize - 1 : keyboard_buffer[i] # Nul <=> i < buffer_index

EchoInv == Quiet /\ EchoIsLine /\ Filled

LEMMA InitEcho == Init => EchoInv
BY DEF Init, EchoInv, Quiet, EchoIsLine, Filled, Waiting

LEMMA CharKeyEchoes ==
    ASSUME TInv, EchoInv, NEW c \in Chars, CharKey(c)
    PROVE  EchoInv'
<1>1. /\ display \in Displays /\ display.tracker \in Positions /\ display.screen \in Screens
      /\ keyboard_buffer \in [0 .. BufferSize -> Shown]
      /\ buffer_index \in 0 .. BufferSize /\ mishaps \subseteq Mishaps /\ start \in Positions
    BY TypesOf DEF TInv, Displays
<1>2. /\ pc = "wait" /\ pc' = "wait" /\ start' = start /\ buffer_index < BufferSize
      /\ keyboard_buffer' = [keyboard_buffer EXCEPT ![buffer_index] = c]
      /\ buffer_index' = buffer_index + 1
      /\ display' \in Put(display, c) /\ Remembers(Moved(display, 1), {})
    BY DEF CharKey, Waiting, Typed
<1>3. BufferSize \in Nat /\ c \in Shown /\ c # Nul /\ Positions = 0 .. Area - 1 /\ Area \in Nat
    BY AreaFacts, BufferAssumption, CharAssumption DEF Shown
<1>4. mishaps \subseteq mishaps' /\ (display.tracker + 1 \notin Positions => "torn" \in mishaps')
    BY <1>1, <1>2, RemembersFacts, KeyKinds, MovedFacts
<1>5. EchoIsLine'
    <2> SUFFICES ASSUME mishaps' \subseteq {"arrow"}
                 PROVE  /\ display'.tracker = start + (buffer_index + 1)
                        /\ display'.cursor = display'.tracker
                        /\ \A i \in 0 .. BufferSize - 1 :
                              keyboard_buffer'[i] # Nul =>
                                  /\ start + i \in Positions
                                  /\ keyboard_buffer'[i] = display'.screen[start + i]
        BY <1>2 DEF EchoIsLine
    <2>1. display.tracker + 1 \in Positions /\ mishaps \subseteq {"arrow"}
        BY <1>4
    <2>2. /\ display.tracker = start + buffer_index
          /\ \A i \in 0 .. BufferSize - 1 :
                keyboard_buffer[i] # Nul =>
                    /\ start + i \in Positions
                    /\ keyboard_buffer[i] = display.screen[start + i]
        BY <1>2, <2>1 DEF EchoInv, EchoIsLine, Waiting
    <2>3. /\ display'.cursor = display'.tracker /\ display'.tracker = display.tracker + 1
          /\ display'.screen = [display.screen EXCEPT ![display.tracker] = c]
        BY <1>1, <1>2, <1>3, <2>1, PutFacts
    <2>4. ASSUME NEW i \in 0 .. BufferSize - 1, keyboard_buffer'[i] # Nul
          PROVE  start + i \in Positions /\ keyboard_buffer'[i] = display'.screen[start + i]
        <3>1. CASE i = buffer_index
            BY <1>1, <1>2, <1>3, <2>2, <2>3, <3>1 DEF Screens
        <3>2. CASE i # buffer_index
            <4>1. keyboard_buffer'[i] = keyboard_buffer[i] /\ start + i # display.tracker
                BY <1>1, <1>2, <1>3, <2>2, <3>2
            <4> QED
                BY <1>1, <2>2, <2>3, <2>4, <4>1 DEF Screens
        <3> QED
            BY <3>1, <3>2
    <2> QED
        BY <1>1, <1>3, <2>2, <2>3, <2>4
<1>6. Filled'
    <2> SUFFICES ASSUME mishaps' = {}, NEW i \in 0 .. BufferSize - 1
                 PROVE  keyboard_buffer'[i] # Nul <=> i < buffer_index + 1
        BY <1>2 DEF Filled
    <2>1. keyboard_buffer[i] # Nul <=> i < buffer_index
        BY <1>2, <1>4 DEF EchoInv, Filled, Waiting
    <2> QED
        BY <1>1, <1>2, <1>3, <2>1
<1> QED
    BY <1>2, <1>5, <1>6 DEF EchoInv, Quiet

LEMMA BackKeyEchoes ==
    ASSUME TInv, EchoInv, BackKey
    PROVE  EchoInv'
<1> DEFINE n == Back(buffer_index)
<1>1. /\ display \in Displays /\ display.tracker \in Positions /\ display.screen \in Screens
      /\ keyboard_buffer \in [0 .. BufferSize -> Shown]
      /\ buffer_index \in 0 .. BufferSize /\ mishaps \subseteq Mishaps /\ start \in Positions
    BY TypesOf DEF TInv, Displays
<1>2. BufferSize \in Nat /\ Nul \in Shown /\ Positions = 0 .. Area - 1 /\ Area \in Nat
    BY AreaFacts, BufferAssumption DEF Shown
<1>3. /\ n \in {0, 1} /\ n <= buffer_index /\ buffer_index' = buffer_index - n
      /\ n = 0 => keyboard_buffer' = keyboard_buffer /\ buffer_index = 0
      /\ n = 1 => keyboard_buffer' = [keyboard_buffer EXCEPT ![buffer_index - 1] = Nul]
    BY <1>1, <1>2 DEF BackKey, Back
<1>4. /\ pc = "wait" /\ pc' = "wait" /\ start' = start
      /\ display' \in Backspaced(display, n)
      /\ Remembers(Moved(display, -n), IF "arrow" \in mishaps THEN {"rubbed"} ELSE {})
    BY DEF BackKey, Waiting
<1> HIDE DEF n
<1>5. -n \in {-1, 0, 1} /\ display.tracker + (-n) = display.tracker - n
    BY <1>1, <1>2, <1>3
<1>6. /\ mishaps \subseteq mishaps' /\ ("arrow" \in mishaps => "rubbed" \in mishaps')
      /\ (display.tracker - n \notin Positions => "torn" \in mishaps')
    BY <1>1, <1>4, <1>5, RemembersFacts, KeyKinds, MovedFacts
<1>7. ASSUME mishaps' \subseteq {"arrow"}
      PROVE  /\ mishaps = {} /\ display.tracker - n \in Positions
             /\ display.tracker = start + buffer_index
             /\ \A i \in 0 .. BufferSize - 1 :
                   /\ keyboard_buffer[i] # Nul <=> i < buffer_index
                   /\ keyboard_buffer[i] # Nul =>
                         /\ start + i \in Positions
                         /\ keyboard_buffer[i] = display.screen[start + i]
             /\ display'.cursor = display'.tracker /\ display'.tracker = display.tracker - n
             /\ display'.screen = [display.screen EXCEPT ![display.tracker] = Blank]
    <2>1. mishaps = {} /\ display.tracker - n \in Positions
        BY <1>6, <1>7
    <2>2. /\ display.tracker = start + buffer_index
          /\ \A i \in 0 .. BufferSize - 1 :
                /\ keyboard_buffer[i] # Nul <=> i < buffer_index
                /\ keyboard_buffer[i] # Nul =>
                      /\ start + i \in Positions
                      /\ keyboard_buffer[i] = display.screen[start + i]
        BY <1>4, <2>1 DEF EchoInv, EchoIsLine, Filled, Waiting
    <2>3. /\ display'.cursor = display'.tracker /\ display'.tracker = display.tracker - n
          /\ display'.screen = [display.screen EXCEPT ![display.tracker] = Blank]
        BY <1>1, <1>3, <1>4, <2>1, BackspacedFacts
    <2> QED
        BY <2>1, <2>2, <2>3
<1>8. \A i \in 0 .. BufferSize - 1 :
          keyboard_buffer'[i] = IF n = 1 /\ i = buffer_index - 1 THEN Nul ELSE keyboard_buffer[i]
    BY <1>1, <1>2, <1>3
<1>9. EchoIsLine'
    <2> SUFFICES ASSUME mishaps' \subseteq {"arrow"}
                 PROVE  /\ display'.tracker = start + (buffer_index - n)
                        /\ display'.cursor = display'.tracker
                        /\ \A i \in 0 .. BufferSize - 1 :
                              keyboard_buffer'[i] # Nul =>
                                  /\ start + i \in Positions
                                  /\ keyboard_buffer'[i] = display'.screen[start + i]
        BY <1>3, <1>4 DEF EchoIsLine
    <2>1. ASSUME NEW i \in 0 .. BufferSize - 1, keyboard_buffer'[i] # Nul
          PROVE  start + i \in Positions /\ keyboard_buffer'[i] = display'.screen[start + i]
        <3>1. keyboard_buffer'[i] = keyboard_buffer[i] /\ i < buffer_index
            BY <1>7, <1>8, <2>1
        <3>2. start + i # display.tracker /\ start + i \in Positions
            BY <1>1, <1>2, <1>7, <2>1, <3>1
        <3> QED
            BY <1>1, <1>7, <2>1, <3>1, <3>2 DEF Screens
    <2> QED
        BY <1>1, <1>2, <1>3, <1>7, <2>1
<1>10. Filled'
    <2> SUFFICES ASSUME mishaps' = {}, NEW i \in 0 .. BufferSize - 1
                 PROVE  keyboard_buffer'[i] # Nul <=> i < buffer_index - n
        BY <1>3, <1>4 DEF Filled
    <2>1. keyboard_buffer[i] # Nul <=> i < buffer_index
        BY <1>7
    <2> QED
        BY <1>1, <1>2, <1>3, <1>8, <2>1
<1> QED
    BY <1>4, <1>9, <1>10 DEF EchoInv, Quiet

LEMMA ArrowKeyEchoes ==
    ASSUME TInv, EchoInv, NEW n, n = Left(buffer_index) \/ n = Right(buffer_index), ArrowKey(n)
    PROVE  EchoInv'
<1>1. /\ display \in Displays /\ display.tracker \in Positions /\ display.screen \in Screens
      /\ keyboard_buffer \in [0 .. BufferSize -> Shown]
      /\ buffer_index \in 0 .. BufferSize /\ mishaps \subseteq Mishaps /\ start \in Positions
    BY TypesOf DEF TInv, Displays
<1>2. BufferSize \in Nat /\ Positions = 0 .. Area - 1 /\ Area \in Nat
    BY AreaFacts, BufferAssumption
<1>3. /\ pc = "wait" /\ pc' = "wait" /\ start' = start /\ buffer_index' = buffer_index + n
      /\ Remembers(Moved(display, n), {"arrow"})
    BY DEF ArrowKey, Waiting
<1> DEFINE d == Moved(display, n)
<1>4. PICK c \in Under(d) :
          /\ keyboard_buffer' = [keyboard_buffer EXCEPT ![buffer_index + n] = c]
          /\ display' \in Arrowed(d, c)
    BY DEF ArrowKey
<1>5. n \in {-1, 0, 1} /\ buffer_index + n \in 0 .. BufferSize /\ c \in Shown
    BY <1>4, ArrowStays DEF TInv
<1>6. d \in Moving /\ d.tracker = display.tracker + n /\ d.screen = display.screen
    BY <1>1, <1>5, MovedFacts
<1>7. /\ mishaps \subseteq mishaps' /\ "arrow" \in mishaps'
      /\ (d.tracker \notin Positions => "torn" \in mishaps')
    BY <1>1, <1>3, RemembersFacts, KeyKinds
<1> HIDE DEF d
<1>8. EchoIsLine'
    <2> SUFFICES ASSUME mishaps' \subseteq {"arrow"}
                 PROVE  /\ display'.tracker = start + (buffer_index + n)
                        /\ display'.cursor = display'.tracker
                        /\ \A i \in 0 .. BufferSize - 1 :
                              keyboard_buffer'[i] # Nul =>
                                  /\ start + i \in Positions
                                  /\ keyboard_buffer'[i] = display'.screen[start + i]
        BY <1>3 DEF EchoIsLine
    <2>1. d.tracker \in Positions /\ mishaps \subseteq {"arrow"}
        BY <1>7
    <2>2. /\ display.tracker = start + buffer_index
          /\ \A i \in 0 .. BufferSize - 1 :
                keyboard_buffer[i] # Nul =>
                    /\ start + i \in Positions
                    /\ keyboard_buffer[i] = display.screen[start + i]
        BY <1>3, <2>1 DEF EchoInv, EchoIsLine, Waiting
    <2>3. c = display.screen[d.tracker]
        BY <1>4, <1>6, <2>1 DEF Under
    <2>4. /\ display'.tracker = d.tracker /\ display'.cursor = display'.tracker
          /\ display'.screen = display.screen
        BY <1>1, <1>4, <1>5, <1>6, <2>1, <2>3, ArrowedFacts DEF Screens
    <2>5. ASSUME NEW i \in 0 .. BufferSize - 1, keyboard_buffer'[i] # Nul
          PROVE  start + i \in Positions /\ keyboard_buffer'[i] = display'.screen[start + i]
        <3>1. CASE i = buffer_index + n
            <4>1. start + i = d.tracker
                BY <1>1, <1>2, <1>5, <1>6, <2>2, <3>1
            <4>2. keyboard_buffer'[i] = c
                BY <1>1, <1>4, <1>5, <3>1
            <4> QED
                BY <2>1, <2>3, <2>4, <4>1, <4>2
        <3>2. CASE i # buffer_index + n
            <4>1. keyboard_buffer'[i] = keyboard_buffer[i]
                BY <1>1, <1>2, <1>4, <3>2
            <4> QED
                BY <2>2, <2>4, <2>5, <4>1
        <3> QED
            BY <3>1, <3>2
    <2> QED
        BY <1>1, <1>2, <1>5, <1>6, <2>2, <2>4, <2>5
<1>9. Filled'
    BY <1>7 DEF Filled
<1> QED
    BY <1>3, <1>8, <1>9 DEF EchoInv, Quiet

LEMMA StepEcho == TInv /\ EchoInv /\ [Next]_vars => EchoInv'
<1> SUFFICES ASSUME TInv, EchoInv, [Next]_vars PROVE EchoInv'
    OBVIOUS
<1>1. display \in Displays
    BY TypesOf DEF TInv
<1>2. ASSUME EnterKey PROVE EchoInv'
    <2>1. display'.cursor = display'.tracker
        BY <1>1, <1>2, EnteredFacts DEF EnterKey
    <2> QED
        BY <1>2, <2>1 DEF EnterKey, EchoInv, Quiet, EchoIsLine, Filled, Waiting
<1>3. ASSUME Puts PROVE EchoInv'
    <2>1. display'.cursor = display'.tracker
        BY <1>1, <1>3, PutFacts, PutNewlineFacts DEF Puts, Shown, Chars
    <2> QED
        BY <1>3, <2>1 DEF Puts, line, EchoInv, Quiet, EchoIsLine, Filled, Waiting
<1>4. ASSUME ReadLine PROVE EchoInv'
    <2>1. /\ pc' = "wait" /\ buffer_index' = 0 /\ display' = display /\ start' = display.tracker
          /\ display.cursor = display.tracker /\ display.tracker \in Nat /\ BufferSize \in Nat
        BY <1>1, <1>4, AreaFacts, BufferAssumption DEF ReadLine, EchoInv, Quiet, Displays
    <2>2. \A i \in 0 .. BufferSize - 1 : keyboard_buffer'[i] = Nul
        BY <1>4, <2>1 DEF ReadLine
    <2> QED
        BY <2>1, <2>2 DEF EchoInv, Quiet, EchoIsLine, Filled, Waiting
<1>5. ASSUME ParseInput \/ Recognise \/ Clear PROVE EchoInv'
    BY <1>5 DEF ParseInput, Recognise, Clear, line, EchoInv, Quiet, EchoIsLine, Filled, Waiting
<1>6. ASSUME UNCHANGED vars PROVE EchoInv'
    BY <1>6 DEF vars, line, EchoInv, Quiet, EchoIsLine, Filled, Waiting
<1> QED
    BY <1>2, <1>3, <1>4, <1>5, <1>6, CharKeyEchoes, BackKeyEchoes, ArrowKeyEchoes DEF Next, Key

(* However the user types, rubs out and walks over the line, the buffer    *)
(* that keyboard_isr fills is what it has drawn on the screen, until the   *)
(* screen is cleared under the line or a backspace follows an arrow key.   *)
THEOREM EchoIsFaithful == Spec => []EchoIsLine
<1>1. EchoInv => EchoIsLine
    BY DEF EchoInv
<1> QED
    BY <1>1, InitTypes, InitEcho, StepTypes, StepEcho, PTL DEF Spec

-----------------------------------------------------------------------------
(* The words of earlier lines.                                             *)

(* Until a line is parsed, the words are as clearing or memory left them.  *)
Cleared == pc \in {"print", "wait", "entered"} => \A k \in Words : args[k] \in Leftovers

WordsInv == Cleared /\ NoWordLeft

LEMMA InitWords == Init => WordsInv
BY DEF Init, WordsInv, Cleared, NoWordLeft

LEMMA StepWords == TInv /\ WordsInv /\ [Next]_vars => WordsInv'
<1> SUFFICES ASSUME TInv, WordsInv, [Next]_vars PROVE WordsInv'
    OBVIOUS
<1>1. argcount \in 0 .. MAX_ARGS /\ MAX_ARGS \in Nat /\ Words = 0 .. MAX_ARGS - 1
    BY WordsAssumption DEF TInv, TypeOK, Words
<1>2. ASSUME Key \/ Puts \/ ReadLine PROVE WordsInv'
    <2>1. args' = args /\ argcount' = argcount /\ pc \in {"print", "wait"}
        BY <1>2 DEF Key, CharKey, BackKey, ArrowKey, EnterKey, Puts, ReadLine, shell, Waiting
    <2>2. pc' \in {"print", "wait", "entered"}
        BY <1>2 DEF Key, CharKey, BackKey, ArrowKey, EnterKey, Puts, ReadLine, Waiting
    <2> QED
        BY <2>1, <2>2 DEF WordsInv, Cleared, NoWordLeft
<1>3. ASSUME ParseInput PROVE WordsInv'
    <2>1. PICK tail \in Tails :
              LET words == parse_input(InputWith(buf', tail))
              IN  /\ args' = [k \in Words |-> IF k < Len(words) THEN words[k + 1] ELSE args[k]]
                  /\ argcount' = Len(words)
        BY <1>3 DEF ParseInput
    <2>2. buf' \in [0 .. LineSize - 1 -> Shown]
        BY <1>3, StepTypes, TypesOf, BufferAssumption DEF ParseInput, TInv
    <2>3. argcount' \in 0 .. MAX_ARGS
        BY <2>1, <2>2, InputFacts, ParseFacts
    <2>4. \A k \in argcount' .. MAX_ARGS - 1 : k \in Words /\ args'[k] = args[k]
        BY <1>1, <2>1, <2>3
    <2>5. pc = "entered" /\ pc' = "parsed"
        BY <1>3 DEF ParseInput
    <2> QED
        BY <2>4, <2>5 DEF WordsInv, Cleared, NoWordLeft
<1>4. ASSUME Recognise PROVE WordsInv'
    BY <1>4 DEF Recognise, WordsInv, Cleared, NoWordLeft
<1>5. ASSUME Clear PROVE WordsInv'
    BY <1>5, LeftoversAssumption DEF Clear, ClearedWords, NoWord, WordsInv, Cleared, NoWordLeft
<1>6. ASSUME UNCHANGED vars PROVE WordsInv'
    BY <1>6 DEF vars, shell, WordsInv, Cleared, NoWordLeft
<1> QED
    BY <1>2, <1>3, <1>4, <1>5, <1>6 DEF Next

(* A command that looks at an argument the user did not type finds what    *)
(* system call 6 left there, never a word of the line before.              *)
THEOREM NoWordIsLeft == Spec => []NoWordLeft
<1>1. WordsInv => NoWordLeft
    BY DEF WordsInv
<1> QED
    BY <1>1, InitTypes, InitWords, StepTypes, StepWords, PTL DEF Spec

-----------------------------------------------------------------------------
(* The words of this line.                                                 *)

(* The starts of words behind position i, and what lists them.             *)
Behind(l, i) == {k \in WordStarts(l) : k > i}

Lists(words, l, i) ==
    /\ words \in Seq(Seq(Shown))
    /\ \E starts \in [1 .. Len(words) -> Behind(l, i)] :
          /\ \A m, n \in 1 .. Len(words) : m < n => starts[m] < starts[n]
          /\ \A k \in Behind(l, i) : \E n \in 1 .. Len(words) : starts[n] = k
          /\ \A n \in 1 .. Len(words) : words[n] = WordAt(l, starts[n])

(* Between words: where the parser stands when it looks for the next one.  *)
Between(l, i) == i \in 0 .. Len(l) /\ (i = 0 \/ i = Len(l) \/ l[i + 1] = Blank)

LEMMA NoneBehind ==
    ASSUME NEW l \in Seq(Chars), NEW i \in 0 .. Len(l),
           \A x \in i + 1 .. Len(l) : l[x] = Blank
    PROVE  Lists(<<>>, l, i)
<1>1. Behind(l, i) = {}
    BY DEF Behind, WordStarts
<1>2. << >> \in Seq(Seq(Shown)) /\ Len(<< >>) = 0 /\ 1 .. 0 = {}
    OBVIOUS
<1> DEFINE starts == [n \in 1 .. 0 |-> 0]
<1>3. starts \in [1 .. 0 -> Behind(l, i)]
    BY <1>2
<1> QED
    BY <1>1, <1>2, <1>3 DEF Lists

(* The next word from i on is the one from f + 1 to e: it starts there,    *)
(* and no other word does before e.                                        *)
NextIs(l, i, f, e) ==
    /\ Between(l, i) /\ f \in i .. Len(l) - 1 /\ \A x \in i + 1 .. f : l[x] = Blank
    /\ e \in f + 1 .. Len(l) /\ (e = Len(l) \/ l[e + 1] = Blank)
    /\ \A x \in f + 1 .. e : l[x] # Blank

LEMMA OneWord ==
    ASSUME NEW l \in Seq(Chars), NEW i, NEW f, NEW e, NextIs(l, i, f, e)
    PROVE  /\ Behind(l, i) = {f + 1} \cup Behind(l, e)
           /\ f + 1 \notin Behind(l, e) /\ \A k \in Behind(l, e) : f + 1 < k
           /\ WordAt(l, f + 1) = SubSeq(l, f + 1, e)
           /\ Between(l, e) /\ (i > 0 => e >= i + 2)
<1>0. /\ Between(l, i) /\ f \in i .. Len(l) - 1 /\ \A x \in i + 1 .. f : l[x] = Blank
      /\ e \in f + 1 .. Len(l) /\ (e = Len(l) \/ l[e + 1] = Blank)
      /\ \A x \in f + 1 .. e : l[x] # Blank
    BY DEF NextIs
<1>1. i \in Nat /\ f \in Nat /\ e \in Nat /\ Len(l) \in Nat /\ f >= i /\ e >= f + 1 /\ e <= Len(l)
    BY <1>0 DEF Between
<1>2. f + 1 \in DOMAIN l /\ l[f + 1] # Blank
    BY <1>0, <1>1
<1>3. f + 1 = 1 \/ l[f] = Blank
    <2>1. CASE f = i
        BY <1>0, <1>1, <1>2, <2>1 DEF Between
    <2>2. CASE f # i
        BY <1>0, <1>1, <2>2
    <2> QED
        BY <2>1, <2>2
<1>4. f + 1 \in WordStarts(l)
    BY <1>1, <1>2, <1>3 DEF WordStarts
<1>5. ASSUME NEW k \in WordStarts(l), k > i, k # f + 1 PROVE k > e
    <2>1. k \in 1 .. Len(l) /\ l[k] # Blank /\ (k = 1 \/ l[k - 1] = Blank)
        BY DEF WordStarts
    <2>2. ~(k \in i + 1 .. f)
        BY <1>0, <2>1
    <2>3. ~(k - 1 \in f + 1 .. e) \/ k = 1
        BY <1>0, <2>1
    <2> QED
        BY <1>1, <1>5, <2>1, <2>2, <2>3
<1>6. Behind(l, i) = {f + 1} \cup Behind(l, e)
    <2>1. \A k \in WordStarts(l) : k \in Nat
        BY DEF WordStarts
    <2> QED
        BY <1>1, <1>4, <1>5, <2>1 DEF Behind
<1>7. \A k \in Behind(l, e) : f + 1 < k
    <2>1. \A k \in Behind(l, e) : k \in Nat /\ k > e
        BY DEF Behind, WordStarts
    <2> QED
        BY <1>1, <2>1
<1>8. f + 1 \notin Behind(l, e)
    BY <1>1, <1>7
<1>9. WordAt(l, f + 1) = SubSeq(l, f + 1, e)
    <2> DEFINE P(x) == (x = Len(l) \/ l[x + 1] = Blank) /\ \A y \in f + 1 .. x : l[y] # Blank
    <2>1. e \in f + 1 .. Len(l) /\ P(e)
        BY <1>0
    <2>2. ASSUME NEW x \in f + 1 .. Len(l), P(x) PROVE x = e
        <3>1. x \in Nat /\ x >= f + 1 /\ x <= Len(l)
            BY <1>1
        <3>2. CASE x < e
            <4>1. x + 1 \in f + 1 .. e /\ x # Len(l)
                BY <1>1, <3>1, <3>2
            <4> QED
                BY <1>0, <2>2, <4>1
        <3>3. CASE e < x
            <4>1. e + 1 \in f + 1 .. x /\ e # Len(l)
                BY <1>1, <3>1, <3>3
            <4> QED
                BY <1>0, <2>2, <4>1
        <3> QED
            BY <1>1, <3>1, <3>2, <3>3
    <2>3. (CHOOSE x \in f + 1 .. Len(l) : P(x)) = e
        <3> HIDE DEF P
        <3> QED
            BY <2>1, <2>2
    <2> QED
        BY <2>3 DEF WordAt
<1>10. Between(l, e)
    BY <1>0, <1>1 DEF Between
<1>11. i > 0 => e >= i + 2
    <2> SUFFICES ASSUME i > 0, f = i PROVE FALSE
        BY <1>1
    <2> QED
        BY <1>0, <1>1, <1>2 DEF Between
<1> QED
    BY <1>6, <1>7, <1>8, <1>9, <1>10, <1>11

LEMMA OneMore ==
    ASSUME NEW l \in Seq(Chars), NEW i, NEW e, NEW k, NEW rest, Lists(rest, l, e),
           WordAt(l, k) \in Seq(Shown),
           Behind(l, i) = {k} \cup Behind(l, e), \A x \in Behind(l, e) : k < x
    PROVE  Lists(<<WordAt(l, k)>> \o rest, l, i)
<1>1. PICK starts \in [1 .. Len(rest) -> Behind(l, e)] :
          /\ \A m, n \in 1 .. Len(rest) : m < n => starts[m] < starts[n]
          /\ \A x \in Behind(l, e) : \E n \in 1 .. Len(rest) : starts[n] = x
          /\ \A n \in 1 .. Len(rest) : rest[n] = WordAt(l, starts[n])
    BY DEF Lists
<1> DEFINE w == WordAt(l, k)
           all == <<w>> \o rest
<1>2. rest \in Seq(Seq(Shown)) /\ Len(rest) \in Nat
    BY DEF Lists
<1>3. w \in Seq(Shown)
    OBVIOUS
<1> HIDE DEF w
<1>4. <<w>> \in Seq(Seq(Shown)) /\ Len(<<w>>) = 1 /\ <<w>>[1] = w
    BY <1>3
<1>5. /\ all \in Seq(Seq(Shown)) /\ Len(all) = Len(rest) + 1
      /\ all[1] = w
      /\ \A n \in 2 .. Len(all) : all[n] = rest[n - 1]
    BY <1>2, <1>4
<1> HIDE DEF all
<1> DEFINE longer == [n \in 1 .. Len(all) |-> IF n = 1 THEN k ELSE starts[n - 1]]
<1>6. \A n \in 1 .. Len(all) : n # 1 => n - 1 \in 1 .. Len(rest)
    BY <1>2, <1>5
<1>7. longer \in [1 .. Len(all) -> Behind(l, i)]
    BY <1>6
<1>8. \A n \in 1 .. Len(all) : longer[n] = IF n = 1 THEN k ELSE starts[n - 1]
    OBVIOUS
<1> HIDE DEF longer
<1>9. ASSUME NEW m \in 1 .. Len(all), NEW n \in 1 .. Len(all), m < n
      PROVE  longer[m] < longer[n]
    <2>1. n # 1
        BY <1>2, <1>5, <1>9
    <2>4. n - 1 \in 1 .. Len(rest) /\ longer[n] = starts[n - 1]
        BY <1>6, <1>8, <2>1
    <2>2. CASE m = 1
        <3>1. starts[n - 1] \in Behind(l, e)
            BY <1>1, <2>4
        <3>2. longer[m] = k
            BY <1>8, <2>2
        <3> QED
            BY <2>4, <3>1, <3>2
    <2>3. CASE m # 1
        <3>1. m - 1 \in 1 .. Len(rest) /\ longer[m] = starts[m - 1] /\ m - 1 < n - 1
            <4>1. m - 1 < n - 1
                BY <1>2, <1>5, <1>9
            <4>2. m - 1 \in 1 .. Len(rest)
                BY <1>6, <2>3
            <4>3. longer[m] = starts[m - 1]
                BY <1>8, <2>3
            <4> QED
                BY <4>1, <4>2, <4>3
        <3> QED
            BY <1>1, <2>4, <3>1
    <2> QED
        BY <2>2, <2>3
<1>10. ASSUME NEW x \in Behind(l, i) PROVE \E n \in 1 .. Len(all) : longer[n] = x
    <2>1. CASE x = k
        <3>1. 1 \in 1 .. Len(all) /\ longer[1] = k
            BY <1>2, <1>5, <1>8
        <3> QED
            BY <2>1, <3>1
    <2>2. CASE x # k
        <3>1. PICK n \in 1 .. Len(rest) : starts[n] = x
            BY <1>1, <2>2
        <3>2. n + 1 \in 1 .. Len(all) /\ n + 1 # 1 /\ (n + 1) - 1 = n
            BY <1>2, <1>5
        <3> QED
            BY <1>8, <3>1, <3>2
    <2> QED
        BY <2>1, <2>2
<1>11. ASSUME NEW n \in 1 .. Len(all) PROVE all[n] = WordAt(l, longer[n])
    <2>1. CASE n = 1
        BY <1>5, <1>8, <2>1 DEF w
    <2>2. CASE n # 1
        <3>1. n \in 2 .. Len(all) /\ n - 1 \in 1 .. Len(rest)
            BY <1>2, <1>5, <1>6, <2>2
        <3> QED
            BY <1>1, <1>5, <1>8, <2>2, <3>1
    <2> QED
        BY <2>1, <2>2
<1>12. Lists(all, l, i)
    BY <1>5, <1>7, <1>9, <1>10, <1>11 DEF Lists
<1> QED
    BY <1>12 DEF all, w

LEMMA SameWord ==
    ASSUME NEW s \in Seq(Shown), NEW l \in Seq(Chars), NEW f \in Nat, NEW e \in Nat,
           e <= Len(l), \A x \in 1 .. Len(l) : s[x] = l[x]
    PROVE  SubSeq(s, f + 1, e) = SubSeq(l, f + 1, e) /\ SubSeq(l, f + 1, e) \in Seq(Shown)
<1>1. f + 1 \in Int /\ e \in Int /\ Len(l) \in Nat
    OBVIOUS
<1>2. \A x \in f + 1 .. e : x \in 1 .. Len(l) /\ s[x] = l[x] /\ l[x] \in Shown /\ s[x] \in Shown
    BY DEF Shown
<1> DEFINE u == SubSeq(s, f + 1, e)
           v == SubSeq(l, f + 1, e)
<1>3. /\ u \in Seq(Shown) /\ Len(u) = IF f + 1 <= e THEN e - (f + 1) + 1 ELSE 0
      /\ \A i \in 1 .. e - (f + 1) + 1 : u[i] = s[(f + 1) + i - 1]
    BY <1>1, <1>2, SubSeqProperties
<1>4. /\ v \in Seq(Shown) /\ Len(v) = IF f + 1 <= e THEN e - (f + 1) + 1 ELSE 0
      /\ \A i \in 1 .. e - (f + 1) + 1 : v[i] = l[(f + 1) + i - 1]
    BY <1>1, <1>2, SubSeqProperties
<1> HIDE DEF u, v
<1>5. Len(u) = Len(v) /\ \A i \in 1 .. Len(u) : u[i] = v[i]
    <2>1. \A i \in 1 .. Len(u) : /\ i \in 1 .. e - (f + 1) + 1
                                 /\ (f + 1) + i - 1 \in f + 1 .. e
        BY <1>1, <1>3
    <2> QED
        BY <1>2, <1>3, <1>4, <2>1
<1>6. u = v
    BY <1>3, <1>4, <1>5, SeqEqual
<1> QED
    BY <1>4, <1>6 DEF u, v

(* What one turn of the parser's loop does.                                *)
LEMMA NextWord ==
    ASSUME NEW s \in Seq(Shown), NEW l \in Seq(Chars), \A x \in 1 .. Len(l) : s[x] = l[x],
           NEW i \in 0 .. Len(l), Between(l, i)
    PROVE  /\ First(s, Len(l), i) = Len(l) => Lists(<<>>, l, i)
           /\ First(s, Len(l), i) # Len(l) =>
                 /\ End(s, Len(l), i) \in i + 1 .. Len(l) /\ Between(l, End(s, Len(l), i))
                 /\ i > 0 => End(s, Len(l), i) >= i + 2
                 /\ \A rest : Lists(rest, l, End(s, Len(l), i)) =>
                                  Lists(<<WordFrom(s, Len(l), i)>> \o rest, l, i)
<1> DEFINE f == First(s, Len(l), i)
           e == End(s, Len(l), i)
<1>1. /\ f \in i .. Len(l) /\ f \in 0 .. Len(l) /\ (f = Len(l) \/ s[f + 1] # Blank)
      /\ \A x \in i + 1 .. f : s[x] = Blank
      /\ e \in f .. Len(l) /\ e \in 0 .. Len(l) /\ (e = Len(l) \/ s[e + 1] = Blank)
      /\ \A x \in f + 1 .. e : s[x] # Blank
    <2> DEFINE len == Len(l)
    <2>1. len \in Nat /\ i \in 0 .. len
        OBVIOUS
    <2> HIDE DEF len
    <2>2. Places(s, len, i, First(s, len, i), End(s, len, i))
        BY <2>1, PlaceFacts
    <2> QED
        BY <2>2 DEF Places, len
<1>2. WordFrom(s, Len(l), i) = SubSeq(s, f + 1, e)
    BY DEF WordFrom
<1> HIDE DEF f, e
<1>3. Len(l) \in Nat /\ f \in Nat /\ e \in Nat /\ i \in Nat
    BY <1>1
<1>4. \A x \in i + 1 .. f : l[x] = Blank
    <2>1. \A x \in i + 1 .. f : x \in 1 .. Len(l)
        BY <1>1, <1>3
    <2> QED
        BY <1>1, <2>1
<1>5. f = Len(l) => Lists(<<>>, l, i)
    BY <1>4, NoneBehind
<1>6. ASSUME f # Len(l)
      PROVE  /\ e \in i + 1 .. Len(l) /\ Between(l, e) /\ (i > 0 => e >= i + 2)
             /\ \A rest : Lists(rest, l, e) => Lists(<<SubSeq(s, f + 1, e)>> \o rest, l, i)
    <2>1. f \in i .. Len(l) - 1 /\ f + 1 \in 1 .. Len(l) /\ s[f + 1] # Blank
        BY <1>1, <1>3, <1>6
    <2>2. e # f
        <3> SUFFICES ASSUME e = f PROVE FALSE
            OBVIOUS
        <3> QED
            BY <1>1, <1>6, <2>1
    <2>3. e \in f + 1 .. Len(l) /\ e \in i + 1 .. Len(l) /\ (e # Len(l) => e + 1 \in 1 .. Len(l))
        BY <1>1, <1>3, <2>2
    <2>4. e = Len(l) \/ l[e + 1] = Blank
        BY <1>1, <2>3
    <2>5. \A x \in f + 1 .. e : l[x] # Blank
        <3>1. \A x \in f + 1 .. e : x \in 1 .. Len(l)
            BY <1>3, <2>3
        <3> QED
            BY <1>1, <3>1
    <2>6. /\ Behind(l, i) = {f + 1} \cup Behind(l, e)
          /\ \A k \in Behind(l, e) : f + 1 < k
          /\ WordAt(l, f + 1) = SubSeq(l, f + 1, e)
          /\ Between(l, e) /\ (i > 0 => e >= i + 2)
        <3>1. NextIs(l, i, f, e)
            BY <1>4, <2>1, <2>3, <2>4, <2>5 DEF NextIs
        <3> QED
            BY <3>1, OneWord
    <2>7. e <= Len(l)
        BY <1>3, <2>3
    <2>8. SubSeq(s, f + 1, e) = WordAt(l, f + 1) /\ WordAt(l, f + 1) \in Seq(Shown)
        <3>1. SubSeq(s, f + 1, e) = SubSeq(l, f + 1, e) /\ SubSeq(l, f + 1, e) \in Seq(Shown)
            BY <1>3, <2>7, SameWord, Zenon
        <3> QED
            BY <2>6, <3>1
    <2>9. ASSUME NEW rest, Lists(rest, l, e)
          PROVE  Lists(<<WordAt(l, f + 1)>> \o rest, l, i)
        <3> DEFINE k == f + 1
        <3>1. /\ WordAt(l, k) \in Seq(Shown) /\ Behind(l, i) = {k} \cup Behind(l, e)
              /\ \A x \in Behind(l, e) : k < x
            BY <2>6, <2>8
        <3> HIDE DEF k
        <3>2. Lists(<<WordAt(l, k)>> \o rest, l, i)
            BY <2>9, <3>1, OneMore
        <3> QED
            BY <3>2 DEF k
    <2> QED
        BY <2>3, <2>6, <2>8, <2>9
<1> QED
    BY <1>2, <1>5, <1>6 DEF f, e

(* There is room for the words behind i: each takes two characters of the  *)
(* line with the blank before it, except one at the line's start.          *)
Roomy(l, i, room) == (i = 0 => 2 * room >= Len(l) + 1) /\ (i > 0 => 2 * room >= Len(l) - i)

LEMMA ParsedLists ==
    ASSUME NEW s \in Seq(Shown), NEW l \in Seq(Chars), Len(l) <= Len(s),
           \A x \in 1 .. Len(l) : s[x] = l[x],
           NEW m \in Nat, NEW from, ParsedBy(s, Len(l), m, from), NEW room \in 0 .. m
    PROVE  \A i \in 0 .. Len(l) :
               Between(l, i) /\ Roomy(l, i, room) => Lists(from[room][i], l, i)
<1> DEFINE len == Len(l)
           Fine(r)  == \A i \in 0 .. len :
                           Between(l, i) /\ Roomy(l, i, r) => Lists(from[r][i], l, i)
           S == {r \in 0 .. m : ~Fine(r)}
<1> SUFFICES ASSUME S # {} PROVE FALSE
    OBVIOUS
<1>1. PICK r \in S : \A j \in S : r <= j
    <2> S \in SUBSET Nat
        OBVIOUS
    <2> HIDE DEF S
    <2> QED
        BY LeastNumber
<1>2. r \in Nat /\ r \in 0 .. m /\ ~Fine(r) /\ len \in Nat
    OBVIOUS
<1>3. \A i \in 0 .. len :
          from[r][i] = IF r = 0 \/ First(s, len, i) = len THEN <<>>
                       ELSE <<WordFrom(s, len, i)>> \o from[r - 1][End(s, len, i)]
    <2> DEFINE Step(f, q) ==
                  [i \in 0 .. len |->
                      IF q = 0 \/ First(s, len, i) = len THEN <<>>
                      ELSE <<WordFrom(s, len, i)>> \o f[q - 1][End(s, len, i)]]
    <2>1. from = [q \in 0 .. m |-> Step(from, q)]
        BY DEF ParsedBy
    <2>2. from[r] = Step(from, r)
        <3> HIDE DEF Step
        <3> QED
            BY <1>2, <2>1
    <2> QED
        BY <2>2
<1>4. r = 0 \/ Fine(r - 1)
    <2> SUFFICES ASSUME r # 0 PROVE Fine(r - 1)
        OBVIOUS
    <2>1. r - 1 \in 0 .. m /\ ~(r <= r - 1)
        BY <1>2
    <2>2. r - 1 \notin S
        BY <1>1, <2>1
    <2> QED
        BY <2>1, <2>2
<1>5. \A x \in 1 .. len : s[x] = l[x]
    OBVIOUS
<1>6. ASSUME NEW i \in 0 .. len, Between(l, i), Roomy(l, i, r)
      PROVE  Lists(from[r][i], l, i)
    <2> DEFINE e == End(s, len, i)
    <2>1. CASE First(s, len, i) = len
        <3>1. Lists(<<>>, l, i)
            BY <1>5, <1>6, <2>1, NextWord
        <3> QED
            BY <1>3, <2>1, <3>1
    <2>2. CASE First(s, len, i) # len
        <3>1. /\ e \in i + 1 .. len /\ Between(l, e) /\ (i > 0 => e >= i + 2)
              /\ \A rest : Lists(rest, l, e) => Lists(<<WordFrom(s, len, i)>> \o rest, l, i)
            BY <1>5, <1>6, <2>2, NextWord
        <3> HIDE DEF e
        <3>2. (i = 0 => 2 * r >= len + 1) /\ (i > 0 => 2 * r >= len - i)
            BY <1>6 DEF Roomy
        <3>3. e \in 0 .. len /\ e > 0 /\ e > i
            BY <1>2, <3>1
        <3>4. r # 0 /\ 2 * (r - 1) >= len - e
            <4> HIDE DEF len
            <4> QED
                BY <1>2, <3>1, <3>2, <3>3
        <3>5. Roomy(l, e, r - 1)
            BY <3>3, <3>4 DEF Roomy
        <3>6. Lists(from[r - 1][e], l, e)
            BY <1>4, <3>1, <3>3, <3>4, <3>5
        <3>7. from[r][i] = <<WordFrom(s, len, i)>> \o from[r - 1][e]
            BY <1>3, <2>2, <3>4 DEF e
        <3> QED
            BY <3>1, <3>6, <3>7
    <2> QED
        BY <2>1, <2>2
<1> QED
    BY <1>2, <1>6

(* A line that is shorter than the shell's buffer, with zeroes behind it.  *)
LEMMA LineIsListed ==
    ASSUME NEW s \in Seq(Shown), NEW l \in Seq(Chars), Len(l) < LineSize, LineSize <= Len(s),
           \A x \in 1 .. Len(l) : s[x] = l[x], s[Len(l) + 1] = Nul
    PROVE  Lists(parse_input(s), l, 0)
<1>1. Len(l) \in Nat /\ Len(s) \in Nat /\ LineSize \in Nat /\ MAX_ARGS \in Nat
    BY BufferAssumption, WordsAssumption
<1>2. stringLength(s) = Len(l)
    <2> DEFINE n == stringLength(s)
    <2>1. n \in 0 .. Len(s) /\ (n = Len(s) \/ s[n + 1] = Nul) /\ \A k \in 1 .. n : s[k] # Nul
        BY LengthFacts
    <2>2. \A x \in 1 .. Len(l) : s[x] # Nul
        BY CharAssumption
    <2> HIDE DEF n
    <2>3. ~(n < Len(l))
        <3> SUFFICES ASSUME n < Len(l) PROVE FALSE
            OBVIOUS
        <3>1. n + 1 \in 1 .. Len(l) /\ n # Len(s)
            BY <1>1, <2>1
        <3> QED
            BY <2>1, <2>2, <3>1
    <2>4. ~(Len(l) < n)
        <3> SUFFICES ASSUME Len(l) < n PROVE FALSE
            OBVIOUS
        <3>1. Len(l) + 1 \in 1 .. n
            BY <1>1, <2>1
        <3> QED
            BY <2>1, <3>1
    <2>5. n = Len(l)
        BY <1>1, <2>1, <2>3, <2>4
    <2> QED
        BY <2>5 DEF n
<1>3. PICK from : ParsedBy(s, Len(l), MAX_ARGS, from) /\ parse_input(s) = from[MAX_ARGS][0]
    BY <1>2, ParseIsIt
<1>4. 2 * MAX_ARGS >= Len(l) + 1
    BY <1>1, WordsAssumption
<1>5. Between(l, 0) /\ Roomy(l, 0, MAX_ARGS) /\ 0 \in 0 .. Len(l) /\ MAX_ARGS \in 0 .. MAX_ARGS
    BY <1>1, <1>4 DEF Between, Roomy
<1>6. Len(l) <= Len(s)
    BY <1>1
<1> QED
    BY <1>1, <1>3, <1>5, <1>6, ParsedLists

(* The line that was entered is the one in the buffer; then its words are  *)
(* the shell's; then the code is that of the first of them.                *)
LineEntered ==
    pc = "entered" /\ mishaps = {} =>
        /\ shown \in Seq(Chars)
        /\ \A i \in 0 .. BufferSize - 1 :
              keyboard_buffer[i] = IF i < Len(shown) THEN shown[i + 1] ELSE Nul

LineParsed ==
    pc \in {"parsed", "recognised"} /\ mishaps = {} /\ Len(shown) < LineSize =>
        AreWordsOf([n \in 1 .. argcount |-> args[n - 1]], shown)

CodeRead == pc = "recognised" => retcode.code = CodeOf(args[0])

RunsInv == LineEntered /\ LineParsed /\ CodeRead

LEMMA InitRuns == Init => RunsInv
BY DEF Init, RunsInv, LineEntered, LineParsed, CodeRead

LEMMA EnterKeyRuns ==
    ASSUME TInv, EchoInv, EnterKey
    PROVE  RunsInv'
<1>1. /\ display \in Displays /\ display.tracker \in Positions
      /\ keyboard_buffer \in [0 .. BufferSize -> Shown]
      /\ buffer_index \in 0 .. BufferSize /\ start \in Positions
    BY TypesOf DEF TInv, Displays
<1>2. /\ pc = "wait" /\ pc' = "entered" /\ mishaps' = mishaps /\ shown' = OnScreen
      /\ keyboard_buffer' = keyboard_buffer
    BY DEF EnterKey, Waiting
<1>3. BufferSize \in Nat /\ Positions = 0 .. Area - 1 /\ Area \in Nat
    BY AreaFacts, BufferAssumption
<1>4. ASSUME mishaps = {}
      PROVE  /\ OnScreen \in Seq(Chars)
             /\ \A i \in 0 .. BufferSize - 1 :
                   keyboard_buffer[i] = IF i < Len(OnScreen) THEN OnScreen[i + 1] ELSE Nul
    <2>1. /\ display.tracker = start + buffer_index
          /\ \A i \in 0 .. BufferSize - 1 :
                /\ keyboard_buffer[i] # Nul <=> i < buffer_index
                /\ keyboard_buffer[i] # Nul => keyboard_buffer[i] = display.screen[start + i]
        BY <1>2, <1>4 DEF EchoInv, EchoIsLine, Filled, Waiting
    <2>2. display.tracker - start = buffer_index
        BY <1>1, <1>3, <2>1
    <2>3. OnScreen = [k \in 1 .. buffer_index |-> display.screen[start + k - 1]]
        BY <2>2 DEF OnScreen
    <2>4. ASSUME NEW k \in 1 .. buffer_index
          PROVE  display.screen[start + k - 1] = keyboard_buffer[k - 1] /\ keyboard_buffer[k - 1] \in Chars
        <3>1. k - 1 \in 0 .. BufferSize - 1 /\ k - 1 < buffer_index /\ start + (k - 1) = start + k - 1
            BY <1>1, <1>3
        <3>2. keyboard_buffer[k - 1] # Nul /\ k - 1 \in 0 .. BufferSize
            BY <1>3, <2>1, <3>1
        <3>3. keyboard_buffer[k - 1] \in Chars
            BY <1>1, <3>2 DEF Shown
        <3> QED
            BY <2>1, <3>1, <3>2, <3>3
    <2>5. /\ OnScreen \in Seq(Chars) /\ Len(OnScreen) = buffer_index
          /\ \A k \in 1 .. buffer_index : OnScreen[k] = keyboard_buffer[k - 1]
        <3>1. buffer_index \in Nat
            BY <1>1, <1>3
        <3> QED
            BY <2>3, <2>4, <3>1
    <2>6. ASSUME NEW i \in 0 .. BufferSize - 1
          PROVE  keyboard_buffer[i] = IF i < buffer_index THEN OnScreen[i + 1] ELSE Nul
        <3>1. CASE i < buffer_index
            <4>1. i + 1 \in 1 .. buffer_index /\ (i + 1) - 1 = i
                BY <1>1, <1>3, <3>1
            <4> QED
                BY <2>5, <3>1, <4>1
        <3>2. CASE ~(i < buffer_index)
            BY <2>1, <3>2
        <3> QED
            BY <3>1, <3>2
    <2> QED
        BY <2>5, <2>6
<1>5. LineEntered'
    <2> SUFFICES ASSUME mishaps' = {}
                 PROVE  /\ shown' \in Seq(Chars)
                        /\ \A i \in 0 .. BufferSize - 1 :
                              keyboard_buffer'[i] = IF i < Len(shown') THEN shown'[i + 1] ELSE Nul
        BY DEF LineEntered
    <2> QED
        BY <1>2, <1>4
<1> QED
    BY <1>2, <1>5 DEF RunsInv, LineParsed, CodeRead

LEMMA ParseInputRuns ==
    ASSUME TInv, TInv', RunsInv, ParseInput
    PROVE  RunsInv'
<1>1. /\ pc = "entered" /\ pc' = "parsed" /\ mishaps' = mishaps /\ shown' = shown
      /\ buf' = [i \in 0 .. LineSize - 1 |-> keyboard_buffer[i]]
    BY DEF ParseInput
<1>2. PICK tail \in Tails :
          LET words == parse_input(InputWith(buf', tail))
          IN  /\ args' = [k \in Words |-> IF k < Len(words) THEN words[k + 1] ELSE args[k]]
              /\ argcount' = Len(words)
    BY DEF ParseInput
<1> DEFINE s     == InputWith(buf', tail)
           words == parse_input(s)
<1>3. buf' \in [0 .. LineSize - 1 -> Shown]
    BY DEF TInv, TypeOK, Shown
<1>4. BufferSize \in Nat /\ LineSize \in 1 .. BufferSize /\ MAX_ARGS \in Nat
    BY BufferAssumption, WordsAssumption
<1>5. /\ s \in Seq(Shown) /\ Len(s) >= LineSize
      /\ \A k \in 1 .. LineSize : s[k] = keyboard_buffer[k - 1]
    <2>1. /\ s \in Seq(Shown) /\ Len(s) >= LineSize
          /\ \A k \in 1 .. LineSize : s[k] = buf'[k - 1]
        BY <1>3, InputFacts
    <2>2. \A k \in 1 .. LineSize : k - 1 \in 0 .. LineSize - 1
        BY <1>4
    <2> QED
        BY <1>1, <2>1, <2>2
<1>6. words \in Seq(Seq(Shown)) /\ Len(words) \in 0 .. MAX_ARGS
    BY <1>5, ParseFacts
<1>7. /\ args' = [k \in Words |-> IF k < Len(words) THEN words[k + 1] ELSE args[k]]
      /\ argcount' = Len(words)
    BY <1>2
<1> DEFINE listed == [n \in 1 .. argcount' |-> args'[n - 1]]
<1>8. listed = words
    <2> HIDE DEF words
    <2>1. \A n \in 1 .. Len(words) :
              n - 1 \in Words /\ n - 1 < Len(words) /\ (n - 1) + 1 = n
        BY <1>4, <1>6 DEF Words
    <2>2. \A n \in 1 .. Len(words) : args'[n - 1] = words[n]
        BY <1>7, <2>1
    <2>3. words = [n \in 1 .. Len(words) |-> words[n]]
        BY <1>6
    <2>4. listed = [n \in 1 .. Len(words) |-> args'[n - 1]]
        BY <1>7
    <2> QED
        BY <2>2, <2>3, <2>4
<1>9. ASSUME mishaps = {}, Len(shown) < LineSize
      PROVE  AreWordsOf(listed, shown)
    <2>1. /\ shown \in Seq(Chars)
          /\ \A i \in 0 .. BufferSize - 1 :
                keyboard_buffer[i] = IF i < Len(shown) THEN shown[i + 1] ELSE Nul
        BY <1>1, <1>9 DEF RunsInv, LineEntered
    <2>2. Len(shown) \in Nat
        BY <2>1
    <2>3. \A x \in 1 .. Len(shown) : s[x] = shown[x]
        <3> TAKE x \in 1 .. Len(shown)
        <3>1. x \in 1 .. LineSize /\ x - 1 \in 0 .. BufferSize - 1 /\ x - 1 < Len(shown) /\ (x - 1) + 1 = x
            BY <1>4, <1>9, <2>2
        <3> HIDE DEF s
        <3> QED
            BY <1>5, <2>1, <3>1
    <2>4. s[Len(shown) + 1] = Nul
        <3>1. Len(shown) + 1 \in 1 .. LineSize /\ Len(shown) \in 0 .. BufferSize - 1 /\ (Len(shown) + 1) - 1 = Len(shown)
            BY <1>4, <1>9, <2>2
        <3> HIDE DEF s
        <3> QED
            BY <1>5, <2>1, <2>2, <3>1
    <2> HIDE DEF s
    <2>5. LineSize <= Len(s)
        BY <1>4, <1>5
    <2>6. Lists(parse_input(s), shown, 0)
        BY <1>5, <1>9, <2>1, <2>3, <2>4, <2>5, LineIsListed
    <2> HIDE DEF words, listed
    <2>7. PICK starts \in [1 .. Len(words) -> Behind(shown, 0)] :
              /\ \A m, n \in 1 .. Len(words) : m < n => starts[m] < starts[n]
              /\ \A k \in Behind(shown, 0) : \E n \in 1 .. Len(words) : starts[n] = k
              /\ \A n \in 1 .. Len(words) : words[n] = WordAt(shown, starts[n])
        BY <2>6 DEF Lists, words
    <2>8. Behind(shown, 0) = WordStarts(shown)
        BY <2>1 DEF Behind, WordStarts
    <2>9. DOMAIN words = 1 .. Len(words)
        BY <1>6
    <2>10. AreWordsOf(words, shown)
        BY <2>7, <2>8, <2>9 DEF AreWordsOf
    <2> QED
        BY <1>8, <2>10
<1>10. LineParsed'
    <2> SUFFICES ASSUME mishaps' = {}, Len(shown') < LineSize
                 PROVE  AreWordsOf([n \in 1 .. argcount' |-> args'[n - 1]], shown')
        BY DEF LineParsed
    <2> QED
        BY <1>1, <1>9
<1> QED
    BY <1>1, <1>10 DEF RunsInv, LineEntered, CodeRead

LEMMA StepRuns == TInv /\ TInv' /\ EchoInv /\ RunsInv /\ [Next]_vars => RunsInv'
<1> SUFFICES ASSUME TInv, TInv', EchoInv, RunsInv, [Next]_vars PROVE RunsInv'
    OBVIOUS
<1>1. ASSUME Puts \/ ReadLine \/ Clear \/ BackKey \/ (\E c \in Chars : CharKey(c))
                  \/ ArrowKey(Left(buffer_index)) \/ ArrowKey(Right(buffer_index))
      PROVE  RunsInv'
    <2>1. pc' \in {"print", "wait"}
        BY <1>1 DEF Puts, ReadLine, Clear, BackKey, CharKey, ArrowKey, Waiting
    <2> QED
        BY <2>1 DEF RunsInv, LineEntered, LineParsed, CodeRead
<1>2. ASSUME Recognise PROVE RunsInv'
    <2>1. /\ pc = "parsed" /\ pc' = "recognised" /\ retcode'.code = CodeOf(args[0])
          /\ args' = args /\ argcount' = argcount /\ shown' = shown /\ mishaps' = mishaps
        BY <1>2 DEF Recognise
    <2>2. LineParsed'
        BY <2>1 DEF RunsInv, LineParsed
    <2> QED
        BY <2>1, <2>2 DEF RunsInv, LineEntered, CodeRead
<1>3. ASSUME UNCHANGED vars PROVE RunsInv'
    BY <1>3 DEF vars, line, shell, RunsInv, LineEntered, LineParsed, CodeRead
<1> QED
    BY <1>1, <1>2, <1>3, EnterKeyRuns, ParseInputRuns DEF Next, Key

(* A name is recognised as its own command: no other has it for an         *)
(* abbreviation before it.                                                 *)
LEMMA NameIsIt ==
    ASSUME NEW k \in DOMAIN Names
    PROVE  CodeOf(Names[k]) + 1 = k /\ CodeOf(Names[k]) # Len(Names)
<1>1. DOMAIN Names = 1 .. Len(Names) /\ Len(Names) \in Nat /\ Names[k] \in Seq(Letters)
    BY NamesAssumption
<1>2. Matches(Names[k], Names[k])
    BY <1>1 DEF Matches, IsPrefix
<1>3. /\ CodeOf(Names[k]) \in 0 .. Len(Names)
      /\ CodeOf(Names[k]) + 1 \in DOMAIN Names /\ CodeOf(Names[k]) + 1 <= k
      /\ Matches(Names[k], Names[CodeOf(Names[k]) + 1])
    BY <1>2, CodeFacts
<1>4. ~(CodeOf(Names[k]) + 1 < k)
    BY <1>3, NamesAssumption DEF Matches
<1> QED
    BY <1>1, <1>3, <1>4

(* Unless a mishap came between the screen and the buffer, the words that  *)
(* parse_input gives the shell are those the user saw when Enter was       *)
(* pressed, all of them and in order, and a command's name in front is     *)
(* that command, however much of it earlier names have in common with it.  *)
THEOREM ShownIsRun == Spec => []RunsWhatIsShown
<1>1. RunsInv => RunsWhatIsShown
    <2> SUFFICES ASSUME RunsInv, pc = "recognised", mishaps = {}, Len(shown) < LineSize
                 PROVE  /\ AreWordsOf([n \in 1 .. argcount |-> args[n - 1]], shown)
                        /\ retcode.above = 0 /\ argcount > 0 =>
                              \A k \in DOMAIN Names :
                                  args[0] = Names[k] =>
                                      Command = IF argcount > MaxWords[k]
                                                  THEN "too many arguments" ELSE Names[k]
        BY DEF RunsWhatIsShown
    <2>1. AreWordsOf([n \in 1 .. argcount |-> args[n - 1]], shown)
        BY DEF RunsInv, LineParsed
    <2>2. ASSUME retcode.above = 0, NEW k \in DOMAIN Names, args[0] = Names[k]
          PROVE  Command = IF argcount > MaxWords[k] THEN "too many arguments" ELSE Names[k]
        <3>1. retcode.code + 1 = k /\ retcode.code # Len(Names)
            BY <2>2, NameIsIt DEF RunsInv, CodeRead
        <3> QED
            BY <2>2, <3>1 DEF Command
    <2> QED
        BY <2>1, <2>2
<1> QED
    BY <1>1, InitTypes, InitEcho, InitRuns, StepTypes, StepEcho, StepRuns, PTL DEF Spec

=============================================================================
