------------------------------- MODULE Terminal -------------------------------
(***************************************************************************)
(* What the user sees and what the shell does with it: the screen of       *)
(* framebuffer.c with the position that the keyboard driver and puts share *)
(* (tracker), the keys as keyboard_isr draws them, and the shell's         *)
(* treatment of the line it gets (user-shell.c): parse_input, the system   *)
(* call that recognises the command, and the clearing of line and words.   *)
(*                                                                         *)
(* Here each key comes while the shell waits for its line; Keyboard has    *)
(* the moments when keys may come.  What the commands do is in Shell.      *)
(* Colours are left out.                                                   *)
(***************************************************************************)
EXTENDS Integers, Sequences, SequencesExt

CONSTANTS
    Letters,     \* the printable characters other than the blank
    Blank, Nul,
    Columns, Rows,  \* 80 and 25
    BufferSize,  \* KEYBOARD_BUFFER_SIZE (256)
    LineSize,    \* the shell's buf (16)
    MAX_ARGS,    \* 10
    Names,       \* the commands' names, in the order of their codes
    MaxWords,    \* how many words each of them takes, its name included
    Tails,       \* what may stand in memory behind the shell's buf
    Leftovers    \* what may stand in an uninitialised word of the shell's

Chars     == Letters \cup {Blank}
Positions == 0 .. Columns * Rows - 1
OffScreen == Columns * Rows

ASSUME CharAssumption   == Blank \notin Letters /\ Nul \notin Chars
ASSUME SizeAssumption   == Columns \in Nat \ {0} /\ Rows \in Nat \ {0}
ASSUME BufferAssumption ==
    BufferSize \in Nat /\ LineSize \in 1 .. BufferSize /\ BufferSize < Columns * Rows
(* A line has fewer words than the shell has room for.                     *)
ASSUME WordsAssumption  == MAX_ARGS \in Nat /\ LineSize \div 2 < MAX_ARGS
(* No name is an abbreviation of an earlier one.                           *)
ASSUME NamesAssumption  ==
    /\ Names \in Seq(Seq(Letters))
    /\ \A j, k \in DOMAIN Names : j < k => ~IsPrefix(Names[k], Names[j])
ASSUME TailsAssumption  == Tails \subseteq Seq(Chars \cup {Nul})
(* Memory may hold zeroes.                                                 *)
ASSUME LeftoversAssumption == <<>> \in Leftovers

(* What stands between the line on the screen and the line in the shell:   *)
(*   arrow     an arrow key copied a character from the screen             *)
(*   rubbed    a backspace behind an arrow key                             *)
(*   torn      the screen was cleared under the line, or the line taken    *)
(*             back over the top of the screen                             *)
Mishaps == {"arrow", "rubbed", "torn"}

VARIABLES
    display,          \* tracker, screen, cursor
    keyboard_buffer, buffer_index,
    pc,               \* where the shell's loop is, see Phases
    buf,              \* the shell's line
    args, argcount,   \* its words
    retcode,          \* the command's code, and the bytes above it
    start,            \* where on the screen the line starts (history)
    shown,            \* the line on the screen when Enter was pressed (history)
    mishaps           \* of this line (history)

line  == <<keyboard_buffer, buffer_index>>
shell == <<buf, args, argcount, retcode>>
vars  == <<display, line, pc, shell, start, shown, mishaps>>

(* print: commands and prompt; wait: system call 4; then the loop's steps. *)
Phases == {"print", "wait", "entered", "parsed", "recognised"}

Words  == 0 .. MAX_ARGS - 1
NoWord == <<>>
Empty  == [x \in Positions |-> Nul]

Init ==
    /\ display = [tracker |-> 0, screen |-> Empty, cursor |-> 0]
    /\ keyboard_buffer = [i \in 0 .. BufferSize |-> Nul]
    /\ buffer_index = 0
    /\ pc = "print"
    /\ buf = [i \in 0 .. LineSize - 1 |-> Nul]
    /\ \E word \in Leftovers : args = [k \in Words |-> word]
    /\ argcount = 0
    /\ retcode = [code |-> 0, above |-> 0]
    /\ start = 0
    /\ shown = <<>>
    /\ mishaps = {}

-----------------------------------------------------------------------------
(* framebuffer.c, each operation with all the displays it may lead to.     *)

BugClearsLate(d) ==
    LET at == IF d.tracker <= -1 THEN Columns * Rows + d.tracker ELSE d.tracker
    IN  IF at \div Columns > Rows
          THEN [d EXCEPT !.tracker = at - Columns * Rows, !.screen = Empty]
          ELSE [d EXCEPT !.tracker = at]

(* get_resolution_row: what it does to the tracker and the screen.         *)
Resolved(d) ==
    LET at == IF d.tracker <= -1 THEN Columns * Rows + d.tracker ELSE d.tracker
    IN  IF at \div Columns >= Rows
          THEN [d EXCEPT !.tracker = at - Columns * Rows, !.screen = Empty]
          ELSE [d EXCEPT !.tracker = at]

(* framebuffer_write(get_resolution_row(), get_resolution_col(), c): if    *)
(* the column is evaluated first, that of a negative tracker is 255.       *)
Write(d, c) ==
    LET r == Resolved(d)
    IN  {[r EXCEPT !.screen[r.tracker] = c]} \cup (IF d.tracker < 0 THEN {r} ELSE {})

(* framebuffer_set_cursor, with the same arguments; it writes what it read.*)
SetCursor(d) ==
    LET r == Resolved(d)
    IN  {[r EXCEPT !.cursor = r.tracker]}
            \cup (IF d.tracker < 0 THEN {[r EXCEPT !.cursor = OffScreen]} ELSE {})

Moved(d, n) == [d EXCEPT !.tracker = @ + n]
NextRow(d)  == [d EXCEPT !.tracker = (@ \div Columns + 1) * Columns]

(* *(MEMORY_FRAMEBUFFER + tracker*2), not always on the screen.            *)
Under(d) == IF d.tracker \in Positions THEN {d.screen[d.tracker]} ELSE Chars \cup {Nul}

(* puts: one turn of its loop.                                             *)
Put(d, c)     == UNION {SetCursor(Moved(e, 1)) : e \in Write(d, c)}
PutNewline(d) == UNION {SetCursor(e) : e \in Write(NextRow(d), Nul)}

(* The display after Enter, a backspace, a character, an arrow key.        *)
Entered(d)    == UNION {Write(e, Blank) : e \in SetCursor(NextRow(d))}
Backspaced(d, n) == UNION {SetCursor(Moved(e, -n)) : e \in Write(d, Blank)}
Typed(d, c)   == Put(d, c)
Arrowed(d, c) == UNION {SetCursor(e) : e \in Write(d, c)}

-----------------------------------------------------------------------------
(* keyboard_isr, while the shell waits.                                    *)

Waiting == pc = "wait"

(* d is the display when the tracker was moved.                            *)
Remembers(d, kinds) ==
    mishaps' = mishaps \cup kinds \cup (IF d.tracker \in Positions THEN {} ELSE {"torn"})

CharKey(c) ==
    /\ Waiting
    /\ buffer_index < BufferSize
    /\ display' \in Typed(display, c)
    /\ keyboard_buffer' = [keyboard_buffer EXCEPT ![buffer_index] = c]
    /\ buffer_index' = buffer_index + 1
    /\ Remembers(Moved(display, 1), {})
    /\ UNCHANGED <<pc, shell, start, shown>>

BugMovesAlways(index) == 1
(* At the start of the line a backspace only blanks the character there.   *)
Back(index) == IF index > 0 THEN 1 ELSE 0

BackKey ==
    /\ Waiting
    /\ display' \in Backspaced(display, Back(buffer_index))
    /\ buffer_index' = IF buffer_index > 0 THEN buffer_index - 1 ELSE 0
    /\ keyboard_buffer' = IF buffer_index > 0
                            THEN [keyboard_buffer EXCEPT ![buffer_index - 1] = Nul]
                            ELSE keyboard_buffer
    /\ Remembers(Moved(display, -Back(buffer_index)),
                 IF "arrow" \in mishaps THEN {"rubbed"} ELSE {})
    /\ UNCHANGED <<pc, shell, start, shown>>

Left(index)  == IF index > 0 THEN -1 ELSE 0
Right(index) == IF index < BufferSize THEN 1 ELSE 0

(* The line takes the character that stands where the arrow key leads.     *)
ArrowKey(n) ==
    /\ Waiting
    /\ buffer_index' = buffer_index + n
    /\ \E c \in Under(Moved(display, n)) :
          /\ keyboard_buffer' = [keyboard_buffer EXCEPT ![buffer_index + n] = c]
          /\ display' \in Arrowed(Moved(display, n), c)
    /\ Remembers(Moved(display, n), {"arrow"})
    /\ UNCHANGED <<pc, shell, start, shown>>

(* The characters on the screen from the line's start to the tracker.      *)
OnScreen == [k \in 1 .. display.tracker - start |-> display.screen[start + k - 1]]

EnterKey ==
    /\ Waiting
    /\ display' \in Entered(display)
    /\ buffer_index' = 0
    /\ pc' = "entered"
    /\ shown' = OnScreen
    /\ UNCHANGED <<keyboard_buffer, shell, start, mishaps>>

Key == \/ \E c \in Chars : CharKey(c)
       \/ BackKey
       \/ ArrowKey(Left(buffer_index))
       \/ ArrowKey(Right(buffer_index))
       \/ EnterKey

-----------------------------------------------------------------------------
(* The shell's loop.                                                       *)

(* What a command or the prompt prints, a character at a time.             *)
Puts ==
    /\ pc = "print"
    /\ \/ \E c \in Letters : display' \in Put(display, c)
       \/ display' \in PutNewline(display)
    /\ UNCHANGED <<line, pc, shell, start, shown, mishaps>>

(* System call 4: clear_keyboard_buffer and keyboard_state_activate.       *)
ReadLine ==
    /\ pc = "print"
    /\ pc' = "wait"
    /\ keyboard_buffer' =
          [i \in 0 .. BufferSize |-> IF i < BufferSize THEN Nul ELSE keyboard_buffer[i]]
    /\ start' = display.tracker
    /\ mishaps' = {}
    /\ UNCHANGED <<display, buffer_index, shell, shown>>

stringLength(s) ==
    CHOOSE n \in 0 .. Len(s) : (n = Len(s) \/ s[n + 1] = Nul) /\ \A k \in 1 .. n : s[k] # Nul

(* The memory that parse_input is given: a full line has no terminator.    *)
InputWith(l, tail) == [k \in 1 .. LineSize |-> l[k - 1]] \o tail

BugKeepsLeading(s, i, len) == i
SkipBlanks(s, i, len) == CHOOSE k \in i .. len : (k = len \/ s[k + 1] # Blank)
                                    /\ \A x \in i + 1 .. k : s[x] = Blank
WordEnd(s, i, len) == CHOOSE k \in i .. len : (k = len \/ s[k + 1] = Blank)
                                    /\ \A x \in i + 1 .. k : s[x] # Blank

(* The words from position i on, as many as there is room for.             *)
parse_input(s) ==
    LET len      == stringLength(s)
        first(i) == SkipBlanks(s, i, len)
        end(i)   == WordEnd(s, first(i), len)
        from[room \in 0 .. MAX_ARGS] ==
            [i \in 0 .. len |->
                IF room = 0 \/ first(i) = len THEN <<>>
                ELSE <<SubSeq(s, first(i) + 1, end(i))>> \o from[room - 1][end(i)]]
    IN  from[MAX_ARGS][0]

(* memcpy gives the shell its line, and parse_input fills the words it     *)
(* found and leaves the others.                                            *)
ParseInput ==
    /\ pc = "entered"
    /\ pc' = "parsed"
    /\ buf' = [i \in 0 .. LineSize - 1 |-> keyboard_buffer[i]]
    /\ \E tail \in Tails :
          LET words == parse_input(InputWith(buf', tail))
          IN  /\ args' = [k \in Words |-> IF k < Len(words) THEN words[k + 1] ELSE args[k]]
              /\ argcount' = Len(words)
    /\ UNCHANGED <<display, line, retcode, start, shown, mishaps>>

BugComparesName(word, name) == IsPrefix(name, word)
(* memcmp over the length of the word: an abbreviation matches, and an     *)
(* empty line matches the first name.                                      *)
Matches(word, name) == IsPrefix(word, name)

CodeOf(word) ==
    LET matching == {k \in DOMAIN Names : Matches(word, Names[k])}
    IN  IF matching = {} THEN Len(Names)
        ELSE (CHOOSE k \in matching : \A other \in matching : k <= other) - 1

(* System call 7 assigns the lowest byte of retcode only; main never       *)
(* assigns the others.                                                     *)
Recognise ==
    /\ pc = "parsed"
    /\ pc' = "recognised"
    /\ \E above \in {0, 1} : retcode' = [code |-> CodeOf(args[0]), above |-> above]
    /\ UNCHANGED <<display, line, buf, args, argcount, start, shown, mishaps>>

(* main compares the whole of retcode, and counts the words.               *)
Command ==
    IF retcode.above # 0 THEN "no answer"
    ELSE IF retcode.code = Len(Names) THEN "command not found"
    ELSE IF argcount > MaxWords[retcode.code + 1] THEN "too many arguments"
    ELSE Names[retcode.code + 1]

BugWordsKept == args
ClearedWords == [k \in Words |-> NoWord]

(* The command is run (see Shell), then system call 6 clears line and words*)
Clear ==
    /\ pc = "recognised"
    /\ pc' = "print"
    /\ buf' = [i \in 0 .. LineSize - 1 |-> Nul]
    /\ args' = ClearedWords
    /\ UNCHANGED <<display, line, argcount, retcode, start, shown, mishaps>>

Next == Key \/ Puts \/ ReadLine \/ ParseInput \/ Recognise \/ Clear

Spec == Init /\ [][Next]_vars

-----------------------------------------------------------------------------
(* Properties.                                                             *)

(* Between two steps the tracker is a place on the screen, although keys   *)
(* move it over both ends and the screen is read and written there.        *)
TypeOK ==
    /\ display \in [tracker : Positions, screen : [Positions -> Chars \cup {Nul}],
                    cursor : Positions \cup {OffScreen}]
    /\ keyboard_buffer \in [0 .. BufferSize -> Chars \cup {Nul}]
    /\ buffer_index \in 0 .. BufferSize
    /\ pc \in Phases
    /\ buf \in [0 .. LineSize - 1 -> Chars \cup {Nul}]
    /\ DOMAIN args = Words /\ argcount \in 0 .. MAX_ARGS
    /\ retcode \in [code : 0 .. Len(Names), above : {0, 1}]
    /\ mishaps \subseteq Mishaps

(* The line in the driver's buffer is the one on the screen, character for *)
(* character and with the cursor in its place, arrow keys included, and no *)
(* key leads back over its start: until the screen is cleared under it, or *)
(* a backspace follows an arrow key.                                       *)
EchoIsLine ==
    Waiting /\ mishaps \subseteq {"arrow"} =>
        /\ display.tracker = start + buffer_index
        /\ display.cursor = display.tracker
        /\ \A i \in 0 .. BufferSize - 1 :
              keyboard_buffer[i] # Nul =>
                  /\ start + i \in Positions
                  /\ keyboard_buffer[i] = display.screen[start + i]

(* The words of a line: its longest parts without blanks, in order.        *)
WordStarts(s) == {k \in DOMAIN s : s[k] # Blank /\ (k = 1 \/ s[k - 1] = Blank)}
WordAt(s, k)  == SubSeq(s, k, CHOOSE e \in k .. Len(s) :
                     (e = Len(s) \/ s[e + 1] = Blank) /\ \A x \in k .. e : s[x] # Blank)
AreWordsOf(words, s) ==
    \E starts \in [DOMAIN words -> WordStarts(s)] :
        /\ \A m, n \in DOMAIN words : m < n => starts[m] < starts[n]
        /\ \A k \in WordStarts(s) : \E n \in DOMAIN words : starts[n] = k
        /\ \A n \in DOMAIN words : words[n] = WordAt(s, starts[n])

(* The shell acts on the words that stood on the screen up to the cursor   *)
(* when Enter was pressed, and runs the command that the first of them is  *)
(* the name of, unless there are too many.  Not covered: a line as long as *)
(* the shell's buffer, and what memory held in retcode.                    *)
RunsWhatIsShown ==
    pc = "recognised" /\ mishaps = {} /\ Len(shown) < LineSize =>
        /\ AreWordsOf([n \in 1 .. argcount |-> args[n - 1]], shown)
        /\ retcode.above = 0 /\ argcount > 0 =>
              \A k \in DOMAIN Names :
                  args[0] = Names[k] =>
                      Command = IF argcount > MaxWords[k] THEN "too many arguments" ELSE Names[k]

(* A word that was not typed is empty: a command never gets an argument of *)
(* the line before.  On the first line it is what memory held.             *)
NoWordLeft ==
    pc \in {"parsed", "recognised"} =>
        \A k \in argcount .. MAX_ARGS - 1 : args[k] \in Leftovers

=============================================================================
