------------------------------- MODULE Keyboard -------------------------------
(***************************************************************************)
(* The keyboard, from the byte the controller puts on port 0x60 to the     *)
(* character get_monitor_char returns: keyboard_handler and                *)
(* wait_for_keyboard of driver/keyboard.c, get_monitor_char of             *)
(* driver/dadio.c, the interrupt stubs of hal/interruptstubs.asm and       *)
(* kernel_wait of hal/x86.asm.                                             *)
(*                                                                         *)
(* Interrupt gates keep further interrupts out, so a handler is one step;  *)
(* it may come between any two steps of the foreground, which reads the    *)
(* flag, the character and the scan code the handler writes one at a time. *)
(*                                                                         *)
(* The keyboard and its controller are not part of the repository.  The    *)
(* keyboard sends one byte for a key and two, the first being 0xe0, for an *)
(* extended key; the controller queues them and asks for an interrupt for  *)
(* each.  Port 0x60 keeps giving the last byte once the queue is empty,    *)
(* and the interrupt of a byte that was read early may still come.         *)
(*                                                                         *)
(* Every byte carries the key it is of and the modifiers as they were      *)
(* typed before it.  The code sees its number alone; what a key was meant  *)
(* to be is told from the rest.                                            *)
(***************************************************************************)
EXTENDS Naturals, SequencesExt

CONSTANTS
  Keys,      \* the keys there are
  MaxEvents  \* bound: how often keys are pressed and released in all

\* Keys are named by their make codes, extended keys by that of the second byte.
Plain     == 1 .. 93      \* codes of one byte
Beside(c) == 1000 + c     \* the extended key whose second byte is c
KeypadMinus == 74
Keypad4  == 75
Keypad6  == 77
LShift   == 42
RShift   == 54
CapsLock == 58
NumLock  == 69
Extended == 224
Break    == 128           \* added to a make code when the key is released
Left     == Beside(Keypad4)
Right    == Beside(Keypad6)
Shifts    == {LShift, RShift}
Modifiers == Shifts \cup {CapsLock, NumLock}

\* No extended key has the second byte of a modifier: the keyboard makes up no
\* Shifts of its own.
ASSUME KeysAssumption ==
  /\ Keys \subseteq Plain \cup {Beside(c) : c \in Plain \ Modifiers}
  /\ MaxEvents \in Nat

NoChar     == 0
LeftArrow  == 17
RightArrow == 18

VARIABLES
  down,      \* keys held down
  events,    \* presses and releases so far
  typed,     \* the modifiers, as typed
  wire,      \* bytes sent and not yet read
  port,      \* how many of them are in the controller
  last,      \* the byte read last
  irq,       \* the controller asks for an interrupt
  kbd,       \* is_shift_pressed, caps_toggle, num_lock_toggle, _latest_char
             \* and _latest_scan_code
  flag,      \* _is_keyboard_interrupt
  pc,        \* where the foreground is
  x,         \* get_monitor_char's x
  answer,    \* what get_monitor_char returned last
  heard,     \* interrupts handled since the flag was cleared, up to 2 (history)
  meant,     \* characters meant by the presses handled since then (history)
  slips,     \* characters those presses may be taken for instead (history)
  again,     \* characters told of once more since then, by a press that left
             \* _latest_char as it was (history)
  current,   \* characters of the press _latest_char tells of (history)
  due        \* what the first press since then is to be answered with (history)

keyboard   == <<down, events, typed>>
controller == <<wire, port, last, irq>>
history    == <<heard, meant, slips, again, current, due>>
vars == <<keyboard, controller, kbd, flag, pc, x, answer, history>>

NoModifiers == [shift |-> FALSE, caps |-> FALSE, num |-> FALSE]
NoByte      == [code |-> 0, key |-> 0, make |-> FALSE, typed |-> NoModifiers]

Init ==
  /\ down = {} /\ events = 0 /\ typed = NoModifiers
  /\ wire = <<>> /\ port = 0 /\ last = NoByte /\ irq = FALSE
  /\ kbd = [shift |-> FALSE, caps |-> FALSE, num |-> FALSE, char |-> NoChar, scan |-> 0]
  /\ flag = FALSE /\ pc = "clear" /\ x = NoChar /\ answer = NoChar
  /\ heard = 0 /\ meant = {} /\ slips = {} /\ again = {} /\ current = {} /\ due = {}

-----------------------------------------------------------------------------
(* The user, the keyboard and the controller. *)

\* Shift counts from the press of either Shift to the release of either, and
\* the locks turn at each press.
Turned(m, k, make) ==
  [shift |-> IF k \in Shifts THEN make ELSE m.shift,
   caps  |-> IF k = CapsLock /\ make THEN ~m.caps ELSE m.caps,
   num   |-> IF k = NumLock /\ make THEN ~m.num ELSE m.num]

Bytes(k, make, m) ==
  LET byte(c)  == [code |-> c, key |-> k, make |-> make, typed |-> m]
      broken(c) == IF make THEN c ELSE c + Break
  IN  IF k > 1000 THEN <<byte(Extended), byte(broken(k - 1000))>> ELSE <<byte(broken(k))>>

Touch(k) ==
  /\ events < MaxEvents
  /\ events' = events + 1
  /\ down' = IF k \in down THEN down \ {k} ELSE down \cup {k}
  /\ wire' = wire \o Bytes(k, k \notin down, typed)
  /\ typed' = Turned(typed, k, k \notin down)
  /\ UNCHANGED <<port, last, irq, kbd, flag, pc, x, answer, history>>

ByteArrives ==
  /\ port < Len(wire)
  /\ port' = port + 1
  /\ irq' = TRUE
  /\ UNCHANGED <<keyboard, wire, last, kbd, flag, pc, x, answer, history>>

\* read_port(0x60) with n bytes of q in the controller: the byte and what stays.
Read(q, n, stale) ==
  IF n = 0 THEN [byte |-> stale, rest |-> q, left |-> 0]
  ELSE [byte |-> Head(q), rest |-> Tail(q), left |-> n - 1]

-----------------------------------------------------------------------------
(* keyboard_handler *)

\* _scancode_std, with the values of the KEY_ names.
KeyValue == <<
  \h1001, 49, 50, 51, 52, 53, 54, 55, 56, 57, 48, 45, 61, 8,
  \h4000, 113, 119, 101, 114, 116, 121, 117, 105, 111, 112, 91, 93, 10,
  \h4003, 97, 115, 100, 102, 103, 104, 106, 107, 108, 59, 39, 96,
  \h4002, 92, 122, 120, 99, 118, 98, 110, 109, 44, 46, 47, \h4006,
  42, \h4008, 32, \h4001,
  \h1201, \h1202, \h1203, \h1204, \h1205, \h1206, \h1207, \h1208, \h1209, \h120a,
  \h300f, \h4010, 55, 56, 57, 45, 52, 53, 54, \h4012, 49, 50, 51, 48, 46,
  \h4012, \h4012, \h4012>>
Listed == 1 .. 86  \* the codes below 0x57

StdChar_Uncut(s) == KeyValue[s]  \* Mutant: the value is not cut to a char.
StdChar(s) == KeyValue[s] % 256  \* the cast to char
IsAlphabet(c) == c >= 97 /\ c <= 122
IsOnKeypad(s) == s >= 71 /\ s <= 82 /\ s # 78

\* The switch for keys with Shift: 1234567890-=[]\;',./` and what they become.
Switched == <<49, 50, 51, 52, 53, 54, 55, 56, 57, 48, 45, 61, 91, 93, 92, 59, 39, 44, 46, 47, 96>>
Becomes  == <<33, 64, 35, 36, 37, 94, 38, 42, 40, 41, 95, 43, 123, 125, 124, 58, 34, 60, 62, 63, 126>>
HasSign(c) == \E i \in 1 .. 21 : Switched[i] = c
Sign(c)    == Becomes[CHOOSE i \in 1 .. 21 : Switched[i] = c]
Capital(c) == c - 32

\* Mutant: a release leaves the character alone.
NewChar_KeptOnRelease(k, s) ==
  IF s \notin Listed \/ s \in Modifiers THEN k.char
  ELSE IF IsAlphabet(StdChar(s)) /\ k.shift # k.caps THEN Capital(StdChar(s)) ELSE StdChar(s)

\* _latest_char after code s.  A modifier leaves it alone, and so does a key
\* without a case in the switch while Shift is held.
NewChar(k, s) ==
  CASE s \notin Listed                                -> NoChar
    [] s \in Modifiers                                -> k.char
    [] s \in Listed \ Modifiers /\ IsAlphabet(StdChar(s)) ->
         IF k.shift # k.caps THEN Capital(StdChar(s)) ELSE StdChar(s)
    [] s \in Listed \ Modifiers /\ ~IsAlphabet(StdChar(s)) /\ k.shift ->
         IF HasSign(StdChar(s)) THEN Sign(StdChar(s)) ELSE k.char
    [] s \in Listed \ Modifiers /\ ~IsAlphabet(StdChar(s)) /\ ~k.shift ->
         IF IsOnKeypad(s) /\ ~k.num THEN NoChar ELSE StdChar(s)

Handle(k, s) ==
  [shift |-> IF s \in Shifts THEN TRUE
             ELSE IF s \in {r + Break : r \in Shifts} THEN FALSE ELSE k.shift,
   caps  |-> IF s = CapsLock THEN ~k.caps ELSE k.caps,
   num   |-> IF s = NumLock THEN ~k.num ELSE k.num,
   char  |-> NewChar(k, s),
   scan  |-> s]

HandleExtended(k, second) ==
  [k EXCEPT !.char = CASE second = Keypad4 -> LeftArrow
                       [] second = Keypad6 -> RightArrow
                       [] OTHER            -> NoChar,
            !.scan = second]

-----------------------------------------------------------------------------
(* What the keys stand for, to whoever presses them. *)

KeypadDigits == {71, 72, 73, 75, 76, 77, 79, 80, 81, 82}
Arrows(k) == CASE k = Keypad4 -> {LeftArrow} [] k = Keypad6 -> {RightArrow} [] OTHER -> {}

\* The character on key k with modifiers m, if it has one: those of KEYCODE, the
\* capital or the sign with Shift, an arrow on keypad 4 and 6 unless NumLock and
\* nothing else makes them digits.
Meaning(k, m) ==
  LET v == KeyValue[k]
  IN  IF k \notin Plain
      THEN CASE k = Beside(28) -> {10} [] k = Beside(53) -> {47} [] OTHER -> Arrows(k - 1000)
      ELSE IF k \notin Listed \ Modifiers \/ v >= 256 THEN {}
      ELSE IF IsAlphabet(v) THEN {IF m.shift # m.caps THEN Capital(v) ELSE v}
      ELSE IF (m.shift /\ Arrows(k) # {}) \/ (~m.shift /\ ~m.num /\ k \in KeypadDigits)
           THEN Arrows(k)
      ELSE {IF m.shift /\ HasSign(v) THEN Sign(v) ELSE v}

\* The presses keyboard.c answers with something else.  A modifier, and with
\* Shift a key without a case in the switch, leaves _latest_char as it was.
Repeats(k, m) ==
  \/ k \in Modifiers
  \/ k \in Listed /\ m.shift /\ ~IsAlphabet(StdChar(k)) /\ ~HasSign(StdChar(k))
\* The keypad's minus without NumLock, and Enter and / beside the keypad, are
\* not answered.
Unanswered(k, m) ==
  \/ k \notin Plain /\ Arrows(k - 1000) = {}
  \/ k = KeypadMinus /\ ~m.num /\ ~m.shift
\* Of a key that is no character (Alt, Ctrl, Esc, F1 to F10, ...) the low byte is.
IsCut(k) == k \in Listed \ Modifiers /\ KeyValue[k] >= 256

\* The character a press is taken for, if any.
TakenFor(k, m) ==
  CASE Repeats(k, m) \/ Unanswered(k, m)                -> {}
    [] IsCut(k) /\ ~Repeats(k, m)                       -> {KeyValue[k] % 256} \ {NoChar}
    [] ~IsCut(k) /\ ~Repeats(k, m) /\ ~Unanswered(k, m) -> Meaning(k, m)

\* get_monitor_char goes by the scan code for keypad 4 and 6, and by a character
\* it read earlier: together with another press, these may be taken for these.
Mixed(k, m) ==
  IF Arrows(k) = {} THEN {}
  ELSE IF m.shift THEN {Sign(KeyValue[k])} ELSE IF m.num THEN Arrows(k) ELSE {}

\* The history of an interrupt that handles the press of byte b as one of key k.
Record(b, make, k) ==
  LET means  == IF make THEN Meaning(b.key, b.typed) ELSE {}
      taken  == IF make THEN TakenFor(k, b.typed) ELSE {}
      offers == taken \cup IF make THEN Mixed(k, b.typed) ELSE {}
      leaves == make /\ Repeats(k, b.typed)
  IN  /\ heard' = IF heard < 2 THEN heard + 1 ELSE heard
      /\ meant' = meant \cup means
      /\ slips' = slips \cup (offers \ means)
      /\ again' = IF leaves THEN again \cup current ELSE again
      /\ current' = IF leaves THEN current ELSE offers
      /\ due' = CASE heard # 0          -> {}
                  [] heard = 0 /\ leaves  -> current \cup {NoChar}
                  [] heard = 0 /\ ~leaves -> IF taken = {} THEN {NoChar} ELSE taken

\* An interrupt ends a hlt.
Wake == pc' = IF pc = "halted" THEN "check" ELSE pc

\* After 0xe0 the second byte is read at once, whether or not it has come; one
\* that comes later is taken for the key without the 0xe0.
KeyboardInterrupt ==
  /\ irq
  /\ LET first  == Read(wire, port, last)
         second == Read(first.rest, first.left, first.byte)
     IN  IF first.byte.code = Extended
         THEN /\ kbd' = HandleExtended(kbd, second.byte.code)
              /\ wire' = second.rest /\ port' = second.left /\ last' = second.byte
              /\ irq' \in {second.left # 0, first.left # 0}
              /\ Record(second.byte, second.byte.make /\ second.byte.code # Extended,
                        second.byte.key)
         ELSE /\ kbd' = Handle(kbd, first.byte.code)
              /\ wire' = first.rest /\ port' = first.left /\ last' = first.byte
              /\ irq' = (first.left # 0)
              /\ Record(first.byte, first.byte.make, first.byte.key % 1000)
  /\ flag' = TRUE
  /\ Wake
  /\ UNCHANGED <<keyboard, x, answer>>

\* The timer's interrupt: nothing it writes is read here.
TimerInterrupt ==
  /\ Wake
  /\ UNCHANGED <<keyboard, controller, kbd, flag, x, answer, history>>

-----------------------------------------------------------------------------
(* wait_for_keyboard: clear the flag; halt and test it until it is set.    *)

Foreground == <<keyboard, controller, kbd>>

ClearFlag ==
  /\ pc = "clear"
  /\ flag' = FALSE
  /\ pc' = "halt"
  /\ heard' = 0 /\ meant' = {} /\ slips' = {} /\ again' = {} /\ due' = {}
  /\ UNCHANGED <<Foreground, x, answer, current>>

Halt ==
  /\ pc = "halt"
  /\ pc' = "halted"
  /\ UNCHANGED <<Foreground, flag, x, answer, history>>

CheckFlag_ClearsFirst ==  \* Mutant: the flag is cleared before it is tested.
  /\ pc = "check"
  /\ flag' = FALSE
  /\ pc' = IF flag' THEN "taken" ELSE "halt"
  /\ UNCHANGED <<Foreground, x, answer, history>>

CheckFlag ==
  /\ pc = "check"
  /\ pc' = IF flag THEN "taken" ELSE "halt"
  /\ UNCHANGED <<Foreground, flag, x, answer, history>>

TakeFlag ==
  /\ pc = "taken"
  /\ flag' = FALSE
  /\ pc' = "getchar"
  /\ UNCHANGED <<Foreground, x, answer, history>>

(* The rest of get_monitor_char's loop. *)

GetLatestChar ==
  /\ pc = "getchar"
  /\ x' = kbd.char
  /\ pc' = "getscan"
  /\ UNCHANGED <<Foreground, flag, answer, history>>

Answer_CharOnly(c, scanned) == c  \* Mutant: the scan code is not looked at.
\* What get_monitor_char makes of a character and a scan code.
Answer(c, scanned) ==
  CASE scanned = Keypad4 -> IF c = 52 THEN c ELSE LeftArrow
    [] scanned = Keypad6 -> IF c = 54 THEN c ELSE RightArrow
    [] OTHER             -> c

GetLatestScanCode ==
  /\ pc = "getscan"
  /\ LET result == Answer(x, kbd.scan)
     IN  IF result = NoChar
         THEN pc' = "clear" /\ UNCHANGED answer
         ELSE pc' = "returned" /\ answer' = result
  /\ x' = NoChar
  /\ UNCHANGED <<Foreground, flag, history>>

\* The caller has used the answer and calls again.
NextCall ==
  /\ pc = "returned"
  /\ pc' = "clear"
  /\ answer' = NoChar
  /\ UNCHANGED <<Foreground, flag, x, history>>

Kernel == ClearFlag \/ Halt \/ CheckFlag \/ TakeFlag \/ GetLatestChar \/ GetLatestScanCode
          \/ NextCall

Next ==
  \/ \E k \in Keys : Touch(k)
  \/ ByteArrives
  \/ KeyboardInterrupt
  \/ TimerInterrupt
  \/ Kernel

\* The processor runs, and the timer ticks for ever: set_timer programs a
\* periodic mode.  Users need not type.
Spec == Init /\ [][Next]_vars /\ WF_vars(Kernel) /\ WF_vars(TimerInterrupt)

-----------------------------------------------------------------------------
(* Properties *)

Chars == 0 .. 255
Modifier == [shift : BOOLEAN, caps : BOOLEAN, num : BOOLEAN]
Byte == [code : 1 .. Extended, key : Keys, make : BOOLEAN, typed : Modifier]

\* Every variable has its type: the handler's character is a char, and the
\* keyboard and the controller hold bytes of the keys there are.
TypeOK ==
  /\ down \subseteq Keys /\ events \in 0 .. MaxEvents /\ typed \in Modifier
  /\ wire \in Seq(Byte) /\ port \in 0 .. Len(wire) /\ last \in Byte \cup {NoByte}
  /\ irq \in BOOLEAN /\ flag \in BOOLEAN
  /\ kbd \in [shift : BOOLEAN, caps : BOOLEAN, num : BOOLEAN, char : Chars, scan : 0 .. Extended]
  /\ pc \in {"clear", "halt", "halted", "check", "taken", "getchar", "getscan", "returned"}
  /\ x \in Chars /\ answer \in Chars
  /\ heard \in 0 .. 2
  /\ \A h \in {meant, slips, again, current, due} : h \subseteq Chars

(***************************************************************************)
(* What get_monitor_char returns is the character of a key pressed, with   *)
(* the modifiers typed before it, and handled since the call last began to *)
(* wait, although the character and the scan code it puts together may be  *)
(* of different keys; or one of the slips the code has for such a press:   *)
(* the low byte of a key that is no character, what the keypad's key gives *)
(* for an extended key whose second byte came late or was read twice, a    *)
(* mixture with keypad 4 or 6.  The exception is a press that leaves       *)
(* _latest_char alone (a modifier, or Shift with a key that has no case in *)
(* the switch): it makes the call return the character of the key pressed  *)
(* before, if nothing was released since.                                  *)
(***************************************************************************)
AnswerIsAKey ==
  pc = "returned" => answer \in meant \cup slips \cup again

\* If a single press or release is handled while get_monitor_char waits, at
\* whichever step of the wait its interrupt comes, the call returns what the
\* press stands for, and goes on waiting after a release or a press without a
\* character; the presses that Repeats, Unanswered and IsCut name, and an
\* extended key whose second byte came late, get what is said there.
SinglePressAnswered ==
  [][GetLatestScanCode /\ heard = 1 =>
       IF pc' = "returned" THEN answer' \in due ELSE NoChar \in due]_vars

\* An interrupt that comes while get_monitor_char waits ends the wait, even one
\* between the test of the flag and the hlt (the timer's next tick ends that).
KeyEndsWait == flag /\ pc \in {"halt", "halted", "check"} ~> pc = "getchar"
=============================================================================
