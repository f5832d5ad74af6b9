------------------------------- MODULE Keyboard -------------------------------
(***************************************************************************)
(* How a typed line reaches the shell: the keyboard driver                 *)
(* (keyboard/keyboard.c), the interrupt entry and system call 4            *)
(* (interrupt/interrupt.c), and the hardware they drive.                   *)
(*                                                                         *)
(* The hardware, modelled from how the code uses it: the keyboard          *)
(* controller queues scancodes and holds its interrupt line up while a     *)
(* scancode waits; reading the data port takes one.  The interrupt         *)
(* controller is edge triggered: only a rising line makes a request, and a *)
(* request in service blocks itself and every lower priority until         *)
(* pic_ack.  Gates clear the interrupt flag, so a handler and a system     *)
(* call run uninterrupted unless they enable interrupts themselves.        *)
(*                                                                         *)
(* The screen is left out: the character an arrow key copies from it to    *)
(* the buffer is any character.                                            *)
(***************************************************************************)
EXTENDS Integers, Sequences, SequencesExt

CONSTANTS
    Chars,       \* the printable characters (keyboard_scancode_1_to_ascii_map)
    Nul,         \* the zero byte
    BufferSize,  \* KEYBOARD_BUFFER_SIZE (256 in the code)
    MaxPressed   \* bound: scancodes sent since the line before was delivered

ASSUME NulAssumption    == Nul \notin Chars
ASSUME BufferAssumption == BufferSize \in Nat \ {0}
ASSUME BoundAssumption  == MaxPressed \in Nat

(* Scancodes by what the driver makes of them; a printable key's scancode  *)
(* is its character.                                                       *)
ENTER    == "enter"
BACK     == "back"
UNMAPPED == "unmapped"  \* the map holds 0: releases, shift, function keys
EXTENDED == "extended"  \* EXTENDED_SCANCODE_BYTE
LEFT     == "left"      \* EXT_SCANCODE_LEFT, unmapped on its own
RIGHT    == "right"     \* EXT_SCANCODE_RIGHT, unmapped on its own
Scancodes == Chars \cup {ENTER, BACK, UNMAPPED, EXTENDED, LEFT, RIGHT}
ASSUME CharAssumption == Chars \cap {ENTER, BACK, UNMAPPED, EXTENDED, LEFT, RIGHT} = {}

(* A press or release sends one scancode, those of arrows and of the other *)
(* extended keys two.                                                      *)
Keys == {<<k>> : k \in Chars \cup {ENTER, BACK, UNMAPPED}}
            \cup {<<EXTENDED, k>> : k \in {LEFT, RIGHT, UNMAPPED}}

IRQ_TIMER    == 0
IRQ_KEYBOARD == 1
Irqs == {IRQ_TIMER, IRQ_KEYBOARD}

(* What cuts the line between keyboard and shell, or makes a line other    *)
(* than the keys that were pressed; recorded for the properties:           *)
(*   unread    a scancode was acknowledged and left in the controller      *)
(*   unacked   an extended scancode was not acknowledged                   *)
(*   timer     a timer interrupt was not acknowledged                      *)
(*   arrow     an arrow key moved in the line                              *)
Mishaps == {"unread", "unacked", "timer", "arrow"}

VARIABLES
    keyboard_input_on, read_extended_mode, buffer_index,  \* keyboard_state
    keyboard_buffer,  \* its array, and at BufferSize the byte behind it
    queue,      \* scancodes waiting in the keyboard controller
    requests,   \* interrupts requested and not yet served
    inService,  \* interrupts served and not yet acknowledged
    cpu,        \* where the processor is, see Phases
    pressed,    \* every scancode sent since the line before was delivered (history)
    mishaps     \* the mishaps so far (history)

driver   == <<keyboard_input_on, read_extended_mode, buffer_index, keyboard_buffer>>
hardware == <<queue, requests, inService>>
vars     == <<driver, hardware, cpu, pressed, mishaps>>

(*   boot   kernel_setup from pic_remap to initialize_idt, interrupts off  *)
(*   idt    between initialize_idt's sti and activate_keyboard_interrupt   *)
(*   shell  the rest of kernel_setup, and the shell                        *)
(*   call   a system call other than 4, interrupts off                     *)
(*   wait   system call 4, waiting for the line                            *)
(*   copy   system call 4, after its loop                                  *)
Phases == {"boot", "idt", "shell", "call", "wait", "copy"}

Cells == 0 .. BufferSize

TypeOK ==
    /\ keyboard_input_on \in BOOLEAN
    /\ read_extended_mode \in BOOLEAN
    /\ buffer_index \in 0 .. BufferSize
    /\ keyboard_buffer \in [Cells -> Chars \cup {Nul}]
    /\ queue \in Seq(Scancodes)
    /\ requests \subseteq Irqs /\ inService \subseteq Irqs
    /\ cpu \in Phases
    /\ pressed \in Seq(Scancodes) /\ Len(queue) <= Len(pressed)
    /\ mishaps \subseteq Mishaps

Init ==
    /\ keyboard_input_on = FALSE /\ read_extended_mode = FALSE /\ buffer_index = 0
    /\ keyboard_buffer = [i \in Cells |-> Nul]
    /\ queue = <<>> /\ requests = {} /\ inService = {}
    /\ cpu = "boot"
    /\ pressed = <<>>
    /\ mishaps = {}

-----------------------------------------------------------------------------
(* The hardware.                                                           *)

(* The line rises with the first scancode of an empty controller.          *)
Press(key) ==
    /\ Len(pressed) + Len(key) <= MaxPressed
    /\ queue' = queue \o key
    /\ pressed' = pressed \o key
    /\ requests' = IF queue = <<>> THEN requests \cup {IRQ_KEYBOARD} ELSE requests
    /\ UNCHANGED <<driver, inService, cpu, mishaps>>

(* Masked from activate_keyboard_interrupt on.                             *)
Tick ==
    /\ cpu \in {"boot", "idt"}
    /\ requests' = requests \cup {IRQ_TIMER}
    /\ UNCHANGED <<driver, queue, inService, cpu, pressed, mishaps>>

Masked == IF cpu \in {"boot", "idt"} THEN {} ELSE {IRQ_TIMER}

InterruptsEnabled == cpu \notin {"boot", "call"}

Delivered(irq) ==
    /\ InterruptsEnabled
    /\ irq \in requests \ Masked
    /\ \A i \in inService : irq < i

Remembers(kinds) == mishaps' = mishaps \cup kinds

-----------------------------------------------------------------------------
(* main_interrupt_handler and keyboard_isr; every branch but two ends with *)
(* pic_ack.                                                                *)

TimerInterrupt ==
    /\ Delivered(IRQ_TIMER)
    /\ requests' = requests \ {IRQ_TIMER}
    /\ inService' = inService \cup {IRQ_TIMER}
    /\ Remembers({"timer"})
    /\ UNCHANGED <<driver, queue, cpu, pressed>>

(* Nobody listens: the data port is not read, so the line stays up.        *)
IsrNotListening ==
    /\ Delivered(IRQ_KEYBOARD)
    /\ ~keyboard_input_on
    /\ buffer_index' = 0
    /\ requests' = requests \ {IRQ_KEYBOARD}
    /\ Remembers({"unread"})
    /\ UNCHANGED <<keyboard_input_on, read_extended_mode, keyboard_buffer,
                   queue, inService, cpu, pressed>>

(* in(KEYBOARD_DATA_PORT): the line falls, and rises again for the next    *)
(* scancode.                                                               *)
Takes(scancode) ==
    /\ Delivered(IRQ_KEYBOARD)
    /\ keyboard_input_on
    /\ queue # <<>> /\ scancode = Head(queue)
    /\ queue' = Tail(queue)
    /\ requests' = IF queue' = <<>> THEN requests \ {IRQ_KEYBOARD} ELSE requests
    /\ UNCHANGED <<cpu, pressed>>

(* Wrong variants of a definition, named Bug..., stand in front of it; they *)
(* show that the properties notice the mistake.                            *)
BugNeverAcked == inService' = inService \cup {IRQ_KEYBOARD}
Acknowledged == UNCHANGED inService

IsrExtended ==
    /\ Takes(EXTENDED)
    /\ read_extended_mode' = TRUE
    /\ Acknowledged
    /\ UNCHANGED <<keyboard_input_on, buffer_index, keyboard_buffer, mishaps>>

(* The index may become BufferSize, and the byte behind the buffer is      *)
(* written then.                                                           *)
IsrArrow(scancode) ==
    /\ Takes(scancode)
    /\ read_extended_mode
    /\ scancode \in {LEFT, RIGHT}
    /\ read_extended_mode' = FALSE
    /\ buffer_index' =
          IF scancode = LEFT
            THEN IF buffer_index > 0 THEN buffer_index - 1 ELSE 0
            ELSE IF buffer_index < BufferSize THEN buffer_index + 1 ELSE BufferSize
    /\ \E c \in Chars \cup {Nul} :
          keyboard_buffer' = [keyboard_buffer EXCEPT ![buffer_index'] = c]
    /\ Acknowledged
    /\ Remembers({"arrow"})
    /\ UNCHANGED keyboard_input_on

(* "Ignore any other extended scancode": return, without pic_ack.          *)
IsrIgnores(scancode) ==
    /\ Takes(scancode)
    /\ read_extended_mode
    /\ scancode \notin {EXTENDED, LEFT, RIGHT}
    /\ read_extended_mode' = FALSE
    /\ inService' = inService \cup {IRQ_KEYBOARD}
    /\ Remembers({"unacked"})
    /\ UNCHANGED <<keyboard_input_on, buffer_index, keyboard_buffer>>

IsrEnter ==
    /\ Takes(ENTER)
    /\ ~read_extended_mode
    /\ buffer_index' = 0
    /\ keyboard_input_on' = FALSE
    /\ Acknowledged
    /\ UNCHANGED <<read_extended_mode, keyboard_buffer, mishaps>>

IsrBack ==
    /\ Takes(BACK)
    /\ ~read_extended_mode
    /\ IF buffer_index > 0
         THEN /\ buffer_index' = buffer_index - 1
              /\ keyboard_buffer' = [keyboard_buffer EXCEPT ![buffer_index - 1] = Nul]
         ELSE UNCHANGED <<buffer_index, keyboard_buffer>>
    /\ Acknowledged
    /\ UNCHANGED <<keyboard_input_on, read_extended_mode, mishaps>>

BugOneMore(index) == index <= BufferSize
HasRoom(index)    == index < BufferSize

IsrChar(c) ==
    /\ Takes(c)
    /\ ~read_extended_mode
    /\ c \in Chars
    /\ IF HasRoom(buffer_index)
         THEN /\ buffer_index' = buffer_index + 1
              /\ keyboard_buffer' = [keyboard_buffer EXCEPT ![buffer_index] = c]
         ELSE UNCHANGED <<buffer_index, keyboard_buffer>>
    /\ Acknowledged
    /\ UNCHANGED <<keyboard_input_on, read_extended_mode, mishaps>>

IsrUnmapped(scancode) ==
    /\ Takes(scancode)
    /\ ~read_extended_mode
    /\ scancode \in {UNMAPPED, LEFT, RIGHT}
    /\ Acknowledged
    /\ UNCHANGED <<driver, mishaps>>

KeyboardInterrupt ==
    \/ IsrNotListening
    \/ IsrExtended
    \/ IsrEnter
    \/ IsrBack
    \/ \E k \in Scancodes : IsrArrow(k) \/ IsrIgnores(k) \/ IsrChar(k) \/ IsrUnmapped(k)

-----------------------------------------------------------------------------
(* The processor.                                                          *)

(* initialize_idt ends with sti.                                           *)
InitializeIdt ==
    /\ cpu = "boot"
    /\ cpu' = "idt"
    /\ UNCHANGED <<driver, hardware, pressed, mishaps>>

ActivateKeyboardInterrupt ==
    /\ cpu = "idt"
    /\ cpu' = "shell"
    /\ UNCHANGED <<driver, hardware, pressed, mishaps>>

OtherCall ==
    /\ cpu \in {"shell", "call"}
    /\ cpu' = IF cpu = "shell" THEN "call" ELSE "shell"
    /\ UNCHANGED <<driver, hardware, pressed, mishaps>>

BugKeepsOldLine == keyboard_buffer
ClearedBuffer == [i \in Cells |-> IF i < BufferSize THEN Nul ELSE keyboard_buffer[i]]

(* System call 4: clear_keyboard_buffer, keyboard_state_activate, sti.     *)
ReadLine ==
    /\ cpu = "shell"
    /\ cpu' = "wait"
    /\ keyboard_buffer' = ClearedBuffer
    /\ keyboard_input_on' = TRUE
    /\ UNCHANGED <<read_extended_mode, buffer_index, hardware, pressed, mishaps>>

LeaveLoop ==
    /\ cpu = "wait"
    /\ ~keyboard_input_on
    /\ cpu' = "copy"
    /\ UNCHANGED <<driver, hardware, pressed, mishaps>>

(* The scancodes the driver has read, and those of a line.                 *)
Taken == SubSeq(pressed, 1, Len(pressed) - Len(queue))

(* get_keyboard_buffer and memcpy give the buffer to the shell; what was   *)
(* read for it is history.                                                 *)
ReturnLine ==
    /\ cpu = "copy"
    /\ cpu' = "shell"
    /\ pressed' = queue
    /\ UNCHANGED <<driver, hardware, mishaps>>

Next ==
    \/ \E key \in Keys : Press(key)
    \/ Tick
    \/ TimerInterrupt
    \/ KeyboardInterrupt
    \/ InitializeIdt
    \/ ActivateKeyboardInterrupt
    \/ OtherCall
    \/ ReadLine
    \/ LeaveLoop
    \/ ReturnLine

Spec == Init /\ [][Next]_vars

(* The processor takes a deliverable interrupt, and goes on with what it   *)
(* runs; that the shell's commands end and it asks for its next line is    *)
(* assumed of the shell.                                                   *)
Fairness ==
    /\ WF_vars(TimerInterrupt)
    /\ WF_vars(KeyboardInterrupt)
    /\ WF_vars(InitializeIdt \/ ActivateKeyboardInterrupt)
    /\ SF_vars(ReadLine)
    /\ WF_vars(OtherCall /\ cpu = "call")
    /\ WF_vars(LeaveLoop)
    /\ WF_vars(ReturnLine)

FairSpec == Spec /\ Fairness

-----------------------------------------------------------------------------
(* Properties.                                                             *)

(* What a user expects a line to be: the keys in order, the ones behind    *)
(* the end of the buffer dropped, a backspace taking back the last.        *)
Edit(line, key) ==
    IF key = BACK THEN IF line = <<>> THEN line ELSE Front(line)
    ELSE IF key \in Chars /\ Len(line) < BufferSize THEN Append(line, key)
    ELSE line

LineOf(keys) ==
    LET after[n \in 0 .. Len(keys)] ==
            IF n = 0 THEN <<>> ELSE Edit(after[n - 1], keys[n])
    IN  after[Len(keys)]

(* The line the shell gets is the one that was typed: no key is lost,      *)
(* doubled or moved to another line, whenever it was pressed.              *)
LineAsTyped ==
    mishaps = {} /\ cpu \in {"wait", "copy"} =>
        \A i \in 0 .. BufferSize - 1 :
            keyboard_buffer[i] = IF i < Len(LineOf(Taken)) THEN LineOf(Taken)[i + 1] ELSE Nul

(* While the driver listens, a scancode in the controller has an interrupt *)
(* on its way: input only stops by an interrupt that was not acknowledged  *)
(* or a scancode that was not read.                                        *)
Heard ==
    mishaps \subseteq {"arrow"} /\ keyboard_input_on /\ queue # <<>> => Delivered(IRQ_KEYBOARD)

(* Without arrow keys the driver never writes behind its buffer.           *)
StaysInBuffer == "arrow" \notin mishaps => keyboard_buffer[BufferSize] = Nul

(* Enter ends the wait: a line with an Enter reaches the shell, unless a   *)
(* key comes when nobody listens or one of the other mishaps happens.      *)
EnterDelivers ==
    mishaps = {} /\ (\E i \in DOMAIN pressed : pressed[i] = ENTER)
        ~> cpu = "copy" \/ mishaps # {}

-----------------------------------------------------------------------------
(* keyboard.c on keyboard_isr: "Ignore any other extended scancode", so    *)
(* one that was ignored does not stop later input.                         *)
IgnoredIsIgnored ==
    mishaps \subseteq {"unacked"} /\ keyboard_input_on /\ queue # <<>> => Delivered(IRQ_KEYBOARD)

=============================================================================
