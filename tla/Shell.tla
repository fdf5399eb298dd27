-------------------------------- MODULE Shell --------------------------------
(***************************************************************************)
(* The kernel shell's command line, kernel/kshell.c, and the cursor of the *)
(* text display it is written on, driver/dadio.c.  One step is what the    *)
(* loop of kshell does with one character of get_monitor_char, a prompt    *)
(* for the next line included; nothing else writes what it uses.           *)
(*                                                                         *)
(* A command is known by its first word, of which the model keeps what it  *)
(* prints: a text is a sequence of numbers, 0 for a newline and n for n    *)
(* characters.  Only the cells of the line being edited are modelled, by   *)
(* their distance from the end of the prompt.  Colours are left out.       *)
(***************************************************************************)
EXTENDS Integers, SequencesExt, FiniteSetsExt

CONSTANTS
  Letters,      \* characters that are not spaces
  MaxCommand,   \* MAX_COMMAND_SIZE: 50
  MaxToken,     \* MAX_TOKEN_SIZE: 25
  MaxName,      \* MAX_NAME_SIZE: 20
  Width, Rows,  \* of the display: 80 and 25
  Commands,     \* what each command but fresh and name may print
  FreshWord, NameWord, HelpWord,  \* the words "fresh", "name" and "help"
  FreshUsage, NameUsage,          \* the texts these two print for "help"
  Nickname,     \* a word and the length of the name command_name makes of it
  FirstName,    \* the length of "shell"
  Banner,       \* where command_fresh leaves the cursor: 67
  NotFound,     \* the length of " - Command not found: "
  Overrun,      \* how much may be printed from behind a token buffer without NUL
  CursorLimit   \* bound: commands that would take the cursor past it are not given

Space == " "
Nul   == "nul"
Old   == "old"   \* whatever a cell showed before
Chars == Letters \cup {Space}
NL    == 0

ASSUME SizesAssumption ==
  /\ MaxCommand \in Nat \ {0} /\ MaxToken \in Nat \ {0} /\ MaxName \in Nat \ {0}
  /\ Width \in Nat \ {0} /\ Rows \in Nat \ {0}
  /\ Nul \notin Chars /\ Old \notin Chars
  /\ FirstName \in 0 .. MaxName - 1 /\ Nickname[2] \in 0 .. MaxName - 1
  /\ CursorLimit \in Nat

VARIABLES
  buf,     \* _cmd_buffer
  i,       \* the loop's index
  cursor,  \* the display's cursor, in cells
  start,   \* where the prompt ended (not in the code)
  cells,   \* what the display shows from there
  name,    \* the length of _shell_name
  ran      \* the words parse_command looked at in the last step (history)

vars == <<buf, i, cursor, start, cells, name, ran>>

Indices == 0 .. MaxCommand - 1

-----------------------------------------------------------------------------
(* The display *)

\* monitor_puts on a newline: the row after the last one is the first.
NewLine(p) ==
  LET next == p - (p % Width) + Width
  IN  IF next = Width * Rows THEN 0 ELSE next

Puts(p, text) == FoldLeft(LAMBDA q, n : IF n = NL THEN NewLine(q) ELSE q + n, p, text)

\* Cells with the characters q drawn from offset k on, as putc does.
Draw(shown, k, q) ==
  [j \in Indices |-> IF j \in k .. k + Len(q) - 1 THEN q[j - k + 1] ELSE shown[j]]

-----------------------------------------------------------------------------
(* Words *)

At(k) == IF k \in Indices THEN buf[k] ELSE Nul
SkipSpaces(k) == Min({j \in k .. MaxCommand : At(j) # Space})
SkipWord(k)   == Min({j \in k .. MaxCommand : At(j) \in {Space, Nul}})

TokenAt(k) ==
  LET size == Min({SkipWord(k) - k, MaxToken})
  IN  [j \in 1 .. size |-> buf[k + j - 1]]

\* Where extract_token(n) begins to copy.  At the text's end there is no word.
NextWord(k) == SkipSpaces(SkipWord(k))
WordStart(n) ==
  CASE n = 0 -> SkipSpaces(0)
    [] n = 1 -> NextWord(SkipSpaces(0))
    [] n = 2 -> NextWord(NextWord(SkipSpaces(0)))

Token(n) == TokenAt(WordStart(n))

-----------------------------------------------------------------------------
(* The loop *)

Flush_None(b) == b  \* Mutant: the buffer is not flushed.
\* flush_command_buffer: clears the buffer up to its first NUL.
Flush(b) ==
  LET end == Min({k \in Indices : b[k] = Nul} \cup {MaxCommand})
  IN  [k \in Indices |-> IF k < end THEN Nul ELSE b[k]]

\* The prompt for the next line, from cursor p on; b is the buffer.
Prompt(p, b) ==
  /\ cursor' = Puts(p, <<NL, name', 2>>)
  /\ cursor' \in 0 .. CursorLimit
  /\ start' = cursor'
  /\ cells' = [k \in Indices |-> Old]
  /\ buf' = Flush(b)
  /\ i' = 0

\* Where the first prompt ends, after command_fresh.
FirstPrompt == Puts(Banner, <<NL, FirstName, 2>>)
ASSUME FirstPromptAssumption == FirstPrompt \in 0 .. CursorLimit

Init ==
  /\ name = FirstName
  /\ cursor = FirstPrompt
  /\ start = cursor
  /\ cells = [k \in Indices |-> Old]
  /\ buf = [k \in Indices |-> Nul]
  /\ i = 0
  /\ ran = <<>>

LeftArrow_Unchecked ==  \* Mutant: no test of i.
  /\ i' = i - 1
  /\ cursor' = cursor - 1
  /\ ran' = <<>>
  /\ UNCHANGED <<buf, start, cells, name>>

LeftArrow ==
  /\ IF i # 0 THEN i' = i - 1 /\ cursor' = cursor - 1
              ELSE UNCHANGED <<i, cursor>>
  /\ ran' = <<>>
  /\ UNCHANGED <<buf, start, cells, name>>

CanGoRight == buf[i] # Nul

RightArrow ==
  /\ IF CanGoRight THEN i' = i + 1 /\ cursor' = cursor + 1
                   ELSE UNCHANGED <<i, cursor>>
  /\ ran' = <<>>
  /\ UNCHANGED <<buf, start, cells, name>>

\* The end of the text at or after place k.
TextEnd(k) == Min({j \in k .. MaxCommand : At(j) = Nul})

Redrawn_FromHere(k) == Draw(cells, k, [j \in 1 .. TextEnd(k) - k |-> At(k + j)])  \* Mutant
\* putc('\b') blanks the cell before the cursor; what follows in the text, with
\* the NUL after it, is then drawn one place to the left.
Redrawn(k) == Draw(cells, k - 1, [j \in 1 .. TextEnd(k) - k + 1 |-> At(k + j - 1)])

Backspace ==
  /\ IF i = 0 THEN UNCHANGED <<buf, i, cursor, cells>>
     ELSE /\ buf' = [k \in Indices |-> IF k \in i - 1 .. TextEnd(i) - 1 THEN At(k + 1) ELSE buf[k]]
          /\ cells' = Redrawn(i)
          /\ i' = i - 1
          /\ cursor' = cursor - 1
  /\ ran' = <<>>
  /\ UNCHANGED <<start, name>>

Type(c) ==
  /\ i < MaxCommand - 1
  /\ buf' = [buf EXCEPT ![i] = c]
  /\ cells' = [cells EXCEPT ![i] = c]
  /\ cursor' = cursor + 1
  /\ i' = i + 1
  /\ ran' = <<>>
  /\ UNCHANGED <<start, name>>

\* The character that ends the loop: the line is not parsed.
TypeLast(c) ==
  /\ i = MaxCommand - 1
  /\ ran' = <<>>
  /\ UNCHANGED name
  /\ Prompt(cursor + 1, [buf EXCEPT ![i] = c])

\* command_fresh: usage, or a clear screen.
Fresh ==
  /\ UNCHANGED name
  /\ Prompt(IF HelpWord \in {Token(1), Token(2)} THEN Puts(cursor, FreshUsage) ELSE Banner, buf)

NameLength(word) == IF word = Nickname[1] THEN Nickname[2] ELSE Len(word)

\* command_name copies its word to _shell_name without looking at its size: a
\* longer one than fits is written past the array's end, which is not modelled.
NameFits == Len(Token(1)) < MaxName

Name ==
  IF Token(1) = HelpWord
  THEN UNCHANGED name /\ Prompt(Puts(cursor, NameUsage), buf)
  ELSE NameFits /\ name' = NameLength(Token(1)) /\ Prompt(cursor, buf)

\* The other commands change nothing but the display (and the timer's rate).
OtherCommand ==
  /\ UNCHANGED name
  /\ \E text \in Commands[Token(0)] : Prompt(Puts(cursor, text), buf)

\* A token of MAX_TOKEN_SIZE has no NUL: what follows it in memory is printed too.
CommandNotFound ==
  /\ UNCHANGED name
  /\ \E more \in IF Len(Token(0)) = MaxToken THEN Overrun ELSE {0} :
       Prompt(Puts(cursor, <<NotFound, Len(Token(0)) + more>>), buf)

Enter ==
  /\ ran' = <<Token(0), Token(1)>>
  /\ \/ Token(0) = FreshWord /\ Fresh
     \/ Token(0) = NameWord /\ Name
     \/ Token(0) \in DOMAIN Commands /\ OtherCommand
     \/ Token(0) \notin DOMAIN Commands \cup {FreshWord, NameWord} /\ CommandNotFound

Next ==
  \/ LeftArrow \/ RightArrow \/ Backspace \/ Enter
  \/ \E c \in Chars : Type(c) \/ TypeLast(c)

Spec == Init /\ [][Next]_vars

-----------------------------------------------------------------------------
(* Properties *)

\* Every variable has its type; the loop's index stays in the buffer.
TypeOK ==
  /\ buf \in [Indices -> Chars \cup {Nul}]
  /\ i \in Indices
  /\ cursor \in 0 .. CursorLimit + MaxCommand /\ start \in 0 .. CursorLimit
  /\ cells \in [Indices -> Chars \cup {Nul, Old}]
  /\ name \in 0 .. MaxName - 1

\* The buffer holds a text and then NULs only, and the place of the editor is
\* in the text or at its end.  flush_command_buffer and extract_token stop at
\* the first NUL: what is behind one would come back in a later command.
NoHoles ==
  /\ \A k \in Indices : buf[k] = Nul => \A j \in k .. MaxCommand - 1 : buf[j] = Nul
  /\ \A k \in 0 .. i - 1 : buf[k] # Nul
  /\ buf[MaxCommand - 1] = Nul

\* The display shows the text in the buffer, and the cursor is at the place the
\* next character goes, although arrows, backspace and echo move the display's
\* cursor and the buffer's index each in its own way.
EchoIsBuffer ==
  /\ \A k \in Indices : buf[k] # Nul => cells[k] = buf[k]
  /\ cursor = start + i

\* The inductive invariant of the proofs.
Inv == TypeOK /\ NoHoles /\ EchoIsBuffer

\* What the command line does is what LineEditor says.
Editor == INSTANCE LineEditor WITH
  text <- [j \in 1 .. TextEnd(0) |-> buf[j - 1]],
  pos  <- i
ImplementsEditor == Editor!Spec

\* "Cursor positions correctly after prints": it stays on the display.
CursorOnScreen == cursor < Width * Rows
=============================================================================
