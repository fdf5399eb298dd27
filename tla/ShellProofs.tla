------------------------------ MODULE ShellProofs ------------------------------
(***************************************************************************)
(* The shell's command buffer, index and display agree for buffers, names  *)
(* and displays of every size and whatever the commands print.             *)
(***************************************************************************)
EXTENDS Shell, WellFoundedInduction, FiniteSetTheorems, SequenceTheorems, TLAPS

\* The least of some naturals: what SkipSpaces, SkipWord, TextEnd and Flush
\* find by counting up.
LEMMA MinOfNats ==
  ASSUME NEW S, S \subseteq Nat, S # {}
  PROVE  /\ Min(S) \in S
         /\ \A y \in S : Min(S) <= y
<1> DEFINE R == OpToRel(<, Nat)
<1>1. \E x \in S : \A y \in S : ~(<<y, x>> \in R)
  <2>1. IsWellFoundedOn(R, Nat)
    BY NatLessThanWellFounded
  <2> HIDE DEF R
  <2> QED
    BY <2>1, WFMin
<1>2. \A x, y \in Nat : y < x => <<y, x>> \in R
  BY DEF OpToRel
<1> HIDE DEF R
<1>3. PICK x \in S : \A y \in S : ~(<<y, x>> \in R)
  BY <1>1
<1>4. \A y \in S : x <= y
  <2> TAKE y \in S
  <2>1. x \in Nat /\ y \in Nat /\ ~(y < x)
    BY <1>2, <1>3
  <2> QED
    BY <2>1
<1> QED
  BY <1>4 DEF Min

-----------------------------------------------------------------------------
(* What the searches of the shell find *)

Content == Chars \cup {Nul}

\* A place of the buffer holds a character or NUL, and what is behind the
\* buffer counts as NUL.
LEMMA AtType ==
  ASSUME buf \in [Indices -> Content], NEW k \in Int
  PROVE  /\ At(k) \in Content
         /\ k \in Indices => At(k) = buf[k]
         /\ k \notin Indices => At(k) = Nul
BY DEF At, Content

\* The end of the text at or after k: the first NUL there.
LEMMA TextEndIs ==
  ASSUME buf \in [Indices -> Content], NEW k \in 0 .. MaxCommand
  PROVE  /\ TextEnd(k) \in k .. MaxCommand
         /\ At(TextEnd(k)) = Nul
         /\ \A j \in k .. TextEnd(k) - 1 : At(j) # Nul
<1> DEFINE S == {j \in k .. MaxCommand : At(j) = Nul}
<1>1. MaxCommand \in S /\ S \subseteq Nat
  BY SizesAssumption DEF At, Indices
<1>2. TextEnd(k) = Min(S)
  BY DEF TextEnd
<1>3. TextEnd(k) \in S /\ \A y \in S : TextEnd(k) <= y
  <2> HIDE DEF S
  <2> QED
    BY <1>1, <1>2, MinOfNats
<1>4. ASSUME NEW j \in k .. TextEnd(k) - 1 PROVE At(j) # Nul
  BY <1>3, SizesAssumption
<1> QED
  BY <1>3, <1>4

\* extract_token stops within the buffer or at its end, so a word begins at a
\* place and has a size.
LEMMA SkipsInRange ==
  ASSUME NEW k \in 0 .. MaxCommand
  PROVE  /\ SkipSpaces(k) \in k .. MaxCommand
         /\ SkipWord(k) \in k .. MaxCommand
<1> DEFINE S == {j \in k .. MaxCommand : At(j) # Space}
           W == {j \in k .. MaxCommand : At(j) \in {Space, Nul}}
<1>1. /\ MaxCommand \in S /\ S \subseteq Nat
      /\ MaxCommand \in W /\ W \subseteq Nat
  BY SizesAssumption DEF At, Indices, Chars
<1>2. Min(S) \in S /\ Min(W) \in W
  <2> HIDE DEF S, W
  <2> QED
    BY <1>1, MinOfNats
<1> QED
  BY <1>2 DEF SkipSpaces, SkipWord

LEMMA TokenLength ==
  ASSUME NEW n \in 0 .. 2
  PROVE  Len(Token(n)) \in 0 .. MaxToken
<1>1. WordStart(n) \in 0 .. MaxCommand
  <2>1. SkipSpaces(0) \in 0 .. MaxCommand
    BY SkipsInRange, SizesAssumption
  <2>2. \A k \in 0 .. MaxCommand : NextWord(k) \in 0 .. MaxCommand
    BY SkipsInRange, SizesAssumption DEF NextWord
  <2> QED
    BY <2>1, <2>2 DEF WordStart
<1> DEFINE k == WordStart(n)
           size == Min({SkipWord(k) - k, MaxToken})
<1>2. SkipWord(k) - k \in Nat
  BY <1>1, SkipsInRange
<1>3. size \in 0 .. MaxToken
  <2> HIDE DEF k
  <2>1. {SkipWord(k) - k, MaxToken} \subseteq Nat /\ MaxToken \in {SkipWord(k) - k, MaxToken}
    BY <1>2, SizesAssumption
  <2>2. /\ Min({SkipWord(k) - k, MaxToken}) \in {SkipWord(k) - k, MaxToken}
        /\ Min({SkipWord(k) - k, MaxToken}) <= MaxToken
    BY <2>1, MinOfNats
  <2> QED
    BY <2>1, <2>2
<1>4. Token(n) = [j \in 1 .. size |-> buf[k + j - 1]]
  BY DEF Token, TokenAt
<1> HIDE DEF size, k
<1> QED
  BY <1>3, <1>4

\* flush_command_buffer leaves nothing of a text that has no NUL inside.
LEMMA FlushClears ==
  ASSUME NEW b \in [Indices -> Content],
         \A k \in Indices : b[k] = Nul => \A j \in k .. MaxCommand - 1 : b[j] = Nul
  PROVE  Flush(b) = [k \in Indices |-> Nul]
<1> DEFINE S == {k \in Indices : b[k] = Nul} \cup {MaxCommand}
           end == Min(S)
<1>1. S \subseteq Nat /\ MaxCommand \in S
  BY SizesAssumption DEF Indices
<1>2. end \in S /\ \A y \in S : end <= y
  <2> HIDE DEF S
  <2> QED
    BY <1>1, MinOfNats
<1>3. ASSUME NEW k \in Indices, ~(k < end) PROVE b[k] = Nul
  <2>1. end \in Indices /\ b[end] = Nul
    BY <1>2, <1>3, SizesAssumption DEF Indices
  <2>2. k \in end .. MaxCommand - 1
    BY <1>3, <2>1, SizesAssumption DEF Indices
  <2> QED
    BY <2>1, <2>2
<1>4. Flush(b) = [k \in Indices |-> IF k < end THEN Nul ELSE b[k]]
  BY DEF Flush
<1> HIDE DEF end
<1> QED
  BY <1>3, <1>4

-----------------------------------------------------------------------------
(* The invariant *)

LEMMA AddZero == \A x \in Int : x = x + 0
OBVIOUS

LEMMA SumInRange ==
  \A m, n \in Nat : \A x \in 0 .. m, y \in 0 .. n - 1 : x + y \in 0 .. m + n
OBVIOUS

\* A prompt begins an empty line, whatever was printed before it.
LEMMA PromptInv ==
  ASSUME NEW p, NEW b \in [Indices -> Content], Prompt(p, b),
         \A k \in Indices : b[k] = Nul => \A j \in k .. MaxCommand - 1 : b[j] = Nul,
         name' \in 0 .. MaxName - 1
  PROVE  Inv'
<1>1. buf' = [k \in Indices |-> Nul] /\ cells' = [k \in Indices |-> Old] /\ i' = 0
  BY FlushClears DEF Prompt
<1>2. cursor' \in 0 .. CursorLimit /\ start' = cursor'
  BY DEF Prompt
<1>3. TypeOK'
  BY <1>1, <1>2, SizesAssumption DEF TypeOK, Indices
<1>4. NoHoles'
  BY <1>1, SizesAssumption DEF NoHoles, Indices
<1>5. EchoIsBuffer'
  <2>1. \A k \in Indices : buf'[k] = Nul
    BY <1>1
  <2>2. cursor' \in Int /\ start' = cursor' /\ i' = 0
    BY <1>1, <1>2
  <2>3. cursor' = start' + i'
    BY <2>2, AddZero, Zenon
  <2> QED
    BY <2>1, <2>3 DEF EchoIsBuffer
<1> QED
  BY <1>3, <1>4, <1>5 DEF Inv

LEMMA InitInv ==
  ASSUME Init
  PROVE  Inv
<1>1. TypeOK
  BY SizesAssumption, FirstPromptAssumption DEF Init, TypeOK, Indices
<1>2. NoHoles
  BY SizesAssumption DEF Init, NoHoles, Indices
<1>3. EchoIsBuffer
  <2>1. \A k \in Indices : buf[k] = Nul
    BY DEF Init
  <2>2. cursor = start + i
    BY FirstPromptAssumption, SizesAssumption DEF Init
  <2> QED
    BY <2>1, <2>2 DEF EchoIsBuffer
<1> QED
  BY <1>1, <1>2, <1>3 DEF Inv

\* The arrows stay in the text, because the test on the right is for its end.
LEMMA ArrowsInv ==
  ASSUME Inv, LeftArrow \/ RightArrow
  PROVE  Inv'
<1>1. /\ buf' = buf /\ cells' = cells /\ start' = start /\ name' = name
      /\ buf \in [Indices -> Content] /\ i \in Indices
      /\ cursor = start + i /\ start \in 0 .. CursorLimit
  BY DEF Inv, TypeOK, EchoIsBuffer, LeftArrow, RightArrow, Content
<1>2. \/ i' = i /\ cursor' = cursor
      \/ i # 0 /\ i' = i - 1 /\ cursor' = cursor - 1
      \/ buf[i] # Nul /\ i' = i + 1 /\ cursor' = cursor + 1
  BY DEF LeftArrow, RightArrow, CanGoRight
<1>3. buf[i] # Nul => i < MaxCommand - 1
  BY <1>1, SizesAssumption DEF Inv, NoHoles, Indices
<1>4. i' \in Indices /\ cursor' = start + i'
  BY <1>1, <1>2, <1>3, SizesAssumption DEF Indices
<1>5. \A k \in 0 .. i' - 1 : buf[k] # Nul
  BY <1>1, <1>2, SizesAssumption DEF Inv, NoHoles, Indices
<1>6. TypeOK'
  <2>1. /\ MaxCommand \in Nat /\ CursorLimit \in Nat
        /\ i' \in 0 .. MaxCommand - 1 /\ start \in 0 .. CursorLimit
        /\ cursor' = start + i'
    BY <1>1, <1>4, SizesAssumption DEF Indices
  <2>2. cursor' \in 0 .. CursorLimit + MaxCommand
    BY <2>1, SumInRange, Zenon
  <2> QED
    BY <1>1, <1>4, <2>2 DEF Inv, TypeOK
<1>7. NoHoles'
  BY <1>1, <1>5 DEF Inv, NoHoles
<1>8. EchoIsBuffer'
  BY <1>1, <1>4 DEF Inv, EchoIsBuffer
<1> QED
  BY <1>6, <1>7, <1>8 DEF Inv

\* Backspace moves what follows, with its NUL, one place to the left in both
\* buffer and display.
LEMMA BackspaceInv ==
  ASSUME Inv, Backspace
  PROVE  Inv'
<1>1. /\ buf \in [Indices -> Content] /\ i \in Indices /\ cells \in [Indices -> Content \cup {Old}]
      /\ cursor = start + i /\ start \in 0 .. CursorLimit /\ start' = start /\ name' = name
      /\ name \in 0 .. MaxName - 1
  BY DEF Inv, TypeOK, EchoIsBuffer, Backspace, Content
<1>2. CASE i = 0
  BY <1>2 DEF Inv, TypeOK, NoHoles, EchoIsBuffer, Backspace
<1>3. CASE i # 0
  <2> DEFINE end == TextEnd(i)
             moved == i - 1 .. end - 1
  <2>1. /\ buf' = [k \in Indices |-> IF k \in moved THEN At(k + 1) ELSE buf[k]]
        /\ cells' = Draw(cells, i - 1, [j \in 1 .. end - i + 1 |-> At(i + j - 1)])
        /\ i' = i - 1 /\ cursor' = cursor - 1
    BY <1>3 DEF Backspace, Redrawn
  <2>2. /\ end \in i .. MaxCommand /\ At(end) = Nul
        /\ \A j \in i .. end - 1 : At(j) # Nul
    BY <1>1, TextEndIs, SizesAssumption DEF Indices
  <2>3. end <= MaxCommand - 1
    <3>1. At(MaxCommand - 1) = Nul
      BY <1>1, AtType, SizesAssumption DEF Inv, NoHoles, Indices
    <3> QED
      BY <1>1, <2>2, <3>1, SizesAssumption DEF Indices
  <2> HIDE DEF end
  <2>4. cells' = [k \in Indices |-> IF k \in moved THEN At(k + 1) ELSE cells[k]]
    <3> DEFINE q == [j \in 1 .. end - i + 1 |-> At(i + j - 1)]
    <3>1. Len(q) = end - i + 1
      BY <1>1, <2>2 DEF Indices
    <3>2. i - 1 .. i - 1 + Len(q) - 1 = moved
      BY <1>1, <2>2, <3>1 DEF Indices
    <3>3. \A k \in moved : q[k - (i - 1) + 1] = At(k + 1)
      BY <1>1, <2>2 DEF Indices
    <3> HIDE DEF q, moved
    <3> QED
      BY <2>1, <3>2, <3>3 DEF Draw, q
  <2>5. \A k \in Indices : At(k + 1) \in Content
    BY <1>1, AtType DEF Indices
  <2>6. TypeOK'
    <3>1. buf' \in [Indices -> Content] /\ cells' \in [Indices -> Content \cup {Old}]
      BY <1>1, <2>1, <2>4, <2>5
    <3>2. i' \in Indices /\ cursor' \in 0 .. CursorLimit + MaxCommand
      BY <1>1, <1>3, <2>1, SizesAssumption DEF Indices
    <3> QED
      BY <1>1, <3>1, <3>2 DEF TypeOK, Content
  <2>7. NoHoles'
    <3>1. \A k \in 0 .. i' - 1 : buf'[k] # Nul
      BY <1>1, <1>3, <2>1, <2>2, SizesAssumption DEF Inv, NoHoles, Indices
    <3>2. \A k \in i' .. end - 2 : buf'[k] # Nul
      BY <1>1, <1>3, <2>1, <2>2, <2>3, SizesAssumption DEF Indices
    <3>3. \A k \in end .. MaxCommand - 1 : buf[k] = Nul
      <4>1. end \in Indices /\ buf[end] = Nul
        BY <1>1, <2>2, <2>3, AtType, SizesAssumption DEF Indices
      <4> QED
        BY <4>1 DEF Inv, NoHoles
    <3>4. \A k \in end - 1 .. MaxCommand - 1 : buf'[k] = Nul
      BY <1>1, <1>3, <2>1, <2>2, <2>3, <3>3, SizesAssumption DEF Indices
    <3>5. \A k \in Indices : buf'[k] = Nul => k >= end - 1
      <4> SUFFICES ASSUME NEW k \in Indices, k < end - 1
                   PROVE  buf'[k] # Nul
        BY <1>1, <2>2 DEF Indices
      <4>1. k \in 0 .. i' - 1 \/ k \in i' .. end - 2
        BY <1>1, <1>3, <2>1, <2>2 DEF Indices
      <4> QED
        BY <3>1, <3>2, <4>1
    <3>6. \A k \in Indices : buf'[k] = Nul => \A j \in k .. MaxCommand - 1 : buf'[j] = Nul
      BY <1>1, <2>2, <3>4, <3>5, SizesAssumption DEF Indices
    <3>7. buf'[MaxCommand - 1] = Nul
      BY <1>1, <2>2, <2>3, <3>4, SizesAssumption DEF Indices
    <3> QED
      BY <3>1, <3>6, <3>7 DEF NoHoles
  <2>8. EchoIsBuffer'
    <3>1. \A k \in Indices : buf'[k] # Nul => cells'[k] = buf'[k]
      BY <2>1, <2>4 DEF Inv, EchoIsBuffer
    <3>2. cursor' = start' + i'
      BY <1>1, <2>1 DEF Indices
    <3> QED
      BY <3>1, <3>2 DEF EchoIsBuffer
  <2> QED
    BY <2>6, <2>7, <2>8 DEF Inv
<1> QED
  BY <1>2, <1>3

LEMMA TypeInv ==
  ASSUME Inv, NEW c \in Chars, Type(c)
  PROVE  Inv'
<1>1. /\ buf \in [Indices -> Content] /\ i \in Indices /\ cells \in [Indices -> Content \cup {Old}]
      /\ cursor = start + i /\ start \in 0 .. CursorLimit /\ start' = start /\ name' = name
      /\ name \in 0 .. MaxName - 1
      /\ c \in Content /\ c # Nul /\ i < MaxCommand - 1
      /\ buf' = [buf EXCEPT ![i] = c] /\ cells' = [cells EXCEPT ![i] = c]
      /\ cursor' = cursor + 1 /\ i' = i + 1
  BY SizesAssumption DEF Inv, TypeOK, EchoIsBuffer, Type, Content
<1>2. TypeOK'
  <2>1. buf' \in [Indices -> Content] /\ cells' \in [Indices -> Content \cup {Old}]
    BY <1>1
  <2>2. i' \in Indices /\ cursor' \in 0 .. CursorLimit + MaxCommand
    BY <1>1, SizesAssumption DEF Indices
  <2> QED
    BY <1>1, <2>1, <2>2 DEF TypeOK, Content
<1>3. NoHoles'
  <2>1. \A k \in 0 .. i' - 1 : buf'[k] # Nul
    BY <1>1, SizesAssumption DEF Inv, NoHoles, Indices
  <2>2. \A k \in Indices : buf'[k] = Nul => k > i /\ buf[k] = Nul
    BY <1>1, <2>1, SizesAssumption DEF Indices
  <2>3. \A k \in Indices : buf'[k] = Nul => \A j \in k .. MaxCommand - 1 : buf'[j] = Nul
    BY <1>1, <2>2, SizesAssumption DEF Inv, NoHoles, Indices
  <2>4. buf'[MaxCommand - 1] = Nul
    BY <1>1, SizesAssumption DEF Inv, NoHoles, Indices
  <2> QED
    BY <2>1, <2>3, <2>4 DEF NoHoles
<1>4. EchoIsBuffer'
  <2>1. \A k \in Indices : buf'[k] # Nul => cells'[k] = buf'[k]
    BY <1>1 DEF Inv, EchoIsBuffer
  <2>2. cursor' = start' + i'
    BY <1>1 DEF Indices
  <2> QED
    BY <2>1, <2>2 DEF EchoIsBuffer
<1> QED
  BY <1>2, <1>3, <1>4 DEF Inv

\* The line that is full has no NUL left for the flush to stop at.
LEMMA TypeLastInv ==
  ASSUME Inv, NEW c \in Chars, TypeLast(c)
  PROVE  Inv'
<1> DEFINE b == [buf EXCEPT ![i] = c]
<1>1. /\ buf \in [Indices -> Content] /\ i \in Indices /\ i = MaxCommand - 1
      /\ c \in Content /\ c # Nul /\ name' \in 0 .. MaxName - 1
      /\ \A k \in 0 .. i - 1 : buf[k] # Nul
  BY SizesAssumption DEF Inv, TypeOK, NoHoles, TypeLast, Content
<1>2. b \in [Indices -> Content] /\ \A k \in Indices : b[k] # Nul
  BY <1>1, SizesAssumption DEF Indices
<1>3. Prompt(cursor + 1, b)
  BY DEF TypeLast
<1> HIDE DEF b
<1> QED
  BY <1>1, <1>2, <1>3, PromptInv

\* Whatever the command, its name stays in its array and its line is flushed.
LEMMA EnterInv ==
  ASSUME Inv, Enter
  PROVE  Inv'
<1>1. /\ buf \in [Indices -> Content] /\ name \in 0 .. MaxName - 1
      /\ \A k \in Indices : buf[k] = Nul => \A j \in k .. MaxCommand - 1 : buf[j] = Nul
  BY DEF Inv, TypeOK, NoHoles, Content
<1>2. /\ name' \in 0 .. MaxName - 1
      /\ \E p : Prompt(p, buf)
  <2>1. CASE Fresh
    BY <1>1, <2>1 DEF Fresh
  <2>2. CASE Name
    <3>1. CASE Token(1) = HelpWord
      BY <1>1, <2>2, <3>1 DEF Name
    <3>2. CASE Token(1) # HelpWord
      <4>1. name' = NameLength(Token(1)) /\ Len(Token(1)) < MaxName /\ Prompt(cursor, buf)
        BY <2>2, <3>2 DEF Name, NameFits
      <4>2. Len(Token(1)) \in Nat
        BY TokenLength, SizesAssumption
      <4> QED
        BY <4>1, <4>2, SizesAssumption DEF NameLength
    <3> QED
      BY <3>1, <3>2
  <2>3. CASE OtherCommand
    BY <1>1, <2>3 DEF OtherCommand
  <2>4. CASE CommandNotFound
    BY <1>1, <2>4 DEF CommandNotFound
  <2> QED
    BY <2>1, <2>2, <2>3, <2>4 DEF Enter
<1> QED
  BY <1>1, <1>2, PromptInv

LEMMA NextInv ==
  ASSUME Inv, [Next]_vars
  PROVE  Inv'
<1>1. CASE UNCHANGED vars
  BY <1>1 DEF Inv, TypeOK, NoHoles, EchoIsBuffer, vars
<1>2. CASE Next
  BY <1>2, ArrowsInv, BackspaceInv, TypeInv, TypeLastInv, EnterInv DEF Next
<1> QED
  BY <1>1, <1>2

-----------------------------------------------------------------------------
(* The line editor: the text *)

Text == [j \in 1 .. TextEnd(0) |-> buf[j - 1]]

\* A buffer whose first NUL is at n holds a text of n characters.
LEMMA FirstNul ==
  ASSUME NEW b \in [Indices -> Content], NEW n \in Indices, b[n] = Nul,
         \A k \in 0 .. n - 1 : b[k] # Nul
  PROVE  Min({j \in 0 .. MaxCommand : (IF j \in Indices THEN b[j] ELSE Nul) = Nul}) = n
<1> DEFINE S == {j \in 0 .. MaxCommand : (IF j \in Indices THEN b[j] ELSE Nul) = Nul}
<1>1. S \subseteq Nat /\ n \in S /\ \A y \in S : n <= y
  BY SizesAssumption DEF Indices
<1> HIDE DEF S
<1> DEFINE m == Min(S)
<1>2. m \in S /\ \A y \in S : m <= y
  BY <1>1, MinOfNats
<1> HIDE DEF m
<1>3. m \in Nat /\ n \in Nat /\ m <= n /\ n <= m
  BY <1>1, <1>2
<1>4. m = n
  BY <1>3
<1> QED
  BY <1>4 DEF S, m

LEMMA TextAfter ==
  ASSUME NEW n \in Indices, buf' \in [Indices -> Content], buf'[n] = Nul,
         \A k \in 0 .. n - 1 : buf'[k] # Nul
  PROVE  Text' = [j \in 1 .. n |-> buf'[j - 1]]
<1>1. TextEnd(0)' = Min({j \in 0 .. MaxCommand : (IF j \in Indices THEN buf'[j] ELSE Nul) = Nul})
  BY DEF TextEnd, At
<1>2. TextEnd(0)' = n
  BY <1>1, FirstNul
<1> QED
  BY <1>2 DEF Text

\* The text in the buffer, and the place of the editor in it.
LEMMA TextShape ==
  ASSUME Inv
  PROVE  /\ TextEnd(0) \in Indices /\ TextEnd(0) \in Nat /\ i \in 0 .. TextEnd(0)
         /\ buf \in [Indices -> Content]
         /\ \A k \in 0 .. TextEnd(0) - 1 : k \in Indices /\ buf[k] \in Chars
         /\ \A k \in TextEnd(0) .. MaxCommand - 1 : buf[k] = Nul
         /\ Len(Text) = TextEnd(0) /\ Text \in Seq(Chars)
         /\ \A j \in 1 .. TextEnd(0) : Text[j] = buf[j - 1]
<1> DEFINE n == TextEnd(0)
<1>1. buf \in [Indices -> Content] /\ i \in Indices
  BY DEF Inv, TypeOK, Content
<1>2. n \in 0 .. MaxCommand /\ At(n) = Nul /\ \A k \in 0 .. n - 1 : At(k) # Nul
  BY <1>1, TextEndIs, SizesAssumption
<1>3. n \in Indices
  <2>1. MaxCommand - 1 \in 0 .. MaxCommand - 1 /\ At(MaxCommand - 1) = Nul
    BY <1>1, AtType, SizesAssumption DEF Inv, NoHoles, Indices
  <2>2. ~(MaxCommand - 1 \in 0 .. n - 1)
    BY <1>2, <2>1
  <2> QED
    BY <1>2, <2>2, SizesAssumption DEF Indices
<1> HIDE DEF n
<1>4. \A k \in 0 .. n - 1 : k \in Indices /\ buf[k] \in Chars
  BY <1>1, <1>2, <1>3, AtType, SizesAssumption DEF Indices, Content
<1>5. \A k \in n .. MaxCommand - 1 : buf[k] = Nul
  BY <1>1, <1>2, <1>3, AtType DEF Inv, NoHoles, n
<1>6. i \in 0 .. n
  <2>1. buf[n] = Nul
    BY <1>1, <1>2, <1>3, AtType DEF Indices
  <2> QED
    BY <1>1, <1>3, <2>1, SizesAssumption DEF Inv, NoHoles, Indices
<1>7. Text = [j \in 1 .. n |-> buf[j - 1]]
  BY DEF Text, n
<1>8. n \in Nat
  BY <1>3, SizesAssumption DEF Indices
<1>9. \A j \in 1 .. n : buf[j - 1] \in Chars
  BY <1>4, <1>8
<1>10. Text \in Seq(Chars) /\ Len(Text) = n
  BY <1>7, <1>8, <1>9
<1> QED
  BY <1>1, <1>3, <1>4, <1>5, <1>6, <1>7, <1>8, <1>10 DEF n

\* After a prompt there is no text.
LEMMA PromptDiscards ==
  ASSUME NEW p, NEW b \in [Indices -> Content], Prompt(p, b),
         \A k \in Indices : b[k] = Nul => \A j \in k .. MaxCommand - 1 : b[j] = Nul
  PROVE  Text' = <<>> /\ i' = 0
<1>1. buf' = [k \in Indices |-> Nul] /\ i' = 0
  BY FlushClears DEF Prompt
<1>2. 0 \in Indices
  BY SizesAssumption DEF Indices
<1>3. Text' = [j \in 1 .. 0 |-> buf'[j - 1]]
  BY <1>1, <1>2, TextAfter DEF Content
<1> QED
  BY <1>1, <1>3

LEMMA ArrowsEdit ==
  ASSUME Inv, LeftArrow \/ RightArrow
  PROVE  Editor!Left \/ Editor!Right \/ Editor!Ignored
<1>1. buf' = buf /\ ran' = <<>>
  BY DEF LeftArrow, RightArrow
<1>2. Text' = Text
  BY <1>1 DEF Text, TextEnd, At
<1>3. \/ i' = i
      \/ i # 0 /\ i' = i - 1
      \/ buf[i] # Nul /\ i' = i + 1
  BY DEF LeftArrow, RightArrow, CanGoRight
<1>4. i \in Nat /\ (buf[i] # Nul => i < Len(Text))
  BY TextShape DEF Inv, TypeOK, Indices
<1>5. CASE i' = i
  BY <1>1, <1>2, <1>5 DEF Editor!Ignored, Text
<1>6. CASE i # 0 /\ i' = i - 1
  BY <1>1, <1>2, <1>4, <1>6 DEF Editor!Left, Text
<1>7. CASE buf[i] # Nul /\ i' = i + 1
  BY <1>1, <1>2, <1>4, <1>7 DEF Editor!Right, Text
<1> QED
  BY <1>3, <1>5, <1>6, <1>7

LEMMA BackspaceEdits ==
  ASSUME Inv, Backspace
  PROVE  Editor!Backspace \/ Editor!Ignored
<1> DEFINE n == TextEnd(0)
<1>1. /\ n \in Indices /\ n \in Nat /\ i \in 0 .. n /\ buf \in [Indices -> Content]
      /\ \A k \in 0 .. n - 1 : k \in Indices /\ buf[k] \in Chars
      /\ \A k \in n .. MaxCommand - 1 : buf[k] = Nul
      /\ Len(Text) = n /\ Text \in Seq(Chars) /\ \A j \in 1 .. n : Text[j] = buf[j - 1]
  BY TextShape
<1>2. ran' = <<>>
  BY DEF Backspace
<1> HIDE DEF n
<1>3. CASE i = 0
  <2>1. Text' = Text /\ i' = i
    BY <1>3 DEF Backspace, Text, TextEnd, At
  <2> QED
    BY <1>2, <2>1 DEF Editor!Ignored, Text
<1>4. CASE i # 0
  <2>1. TextEnd(i) = n
    <3> DEFINE e == TextEnd(i)
    <3>0. i \in 0 .. MaxCommand
      BY <1>1, SizesAssumption DEF Indices
    <3>1. e \in i .. MaxCommand /\ At(e) = Nul /\ \A j \in i .. e - 1 : At(j) # Nul
      BY <1>1, <3>0, TextEndIs
    <3> HIDE DEF e
    <3>2. At(n) = Nul /\ \A k \in 0 .. n - 1 : At(k) # Nul
      BY <1>1, AtType, SizesAssumption DEF Indices
    <3>3. e \in Nat /\ ~(e < n) /\ ~(n < e)
      BY <1>1, <3>1, <3>2, SizesAssumption
    <3>4. e = n
      BY <1>1, <3>3
    <3> QED
      BY <3>4 DEF e
  <2>2. /\ buf' = [k \in Indices |-> IF k \in i - 1 .. n - 1 THEN At(k + 1) ELSE buf[k]]
        /\ i' = i - 1
    BY <1>4, <2>1 DEF Backspace
  <2>3. \A k \in 0 .. n - 1 : At(k + 1) = buf[k + 1] /\ k + 1 \in Indices
    BY <1>1, SizesAssumption DEF At, Indices
  <2>4. buf' \in [Indices -> Content]
    <3>1. \A k \in Indices : k \in i - 1 .. n - 1 => At(k + 1) \in Content
      BY AtType, <1>1 DEF Indices
    <3> QED
      BY <1>1, <2>2, <3>1
  <2>5. n - 1 \in Indices /\ buf'[n - 1] = Nul
    <3>1. n - 1 \in Indices /\ n - 1 \in i - 1 .. n - 1 /\ n - 1 \in 0 .. n - 1
      BY <1>1, <1>4, SizesAssumption DEF Indices
    <3>2. buf[n] = Nul /\ (n - 1) + 1 = n
      BY <1>1, SizesAssumption DEF Indices
    <3>3. At((n - 1) + 1) = buf[(n - 1) + 1]
      BY <2>3, <3>1
    <3>4. buf'[n - 1] = At((n - 1) + 1)
      BY <2>2, <3>1
    <3> QED
      BY <3>1, <3>2, <3>3, <3>4
  <2>6. /\ \A k \in 0 .. i - 2 : buf'[k] = buf[k]
        /\ \A k \in i - 1 .. n - 2 : buf'[k] = buf[k + 1]
    BY <1>1, <1>4, <2>2, <2>3, SizesAssumption DEF Indices
  <2>7. \A k \in 0 .. (n - 1) - 1 : buf'[k] # Nul
    <3> SUFFICES ASSUME NEW k \in 0 .. n - 2
                 PROVE  buf'[k] # Nul
      BY <1>1
    <3>1. CASE k \in 0 .. i - 2
      BY <1>1, <2>6, <3>1, SizesAssumption
    <3>2. CASE k \in i - 1 .. n - 2
      BY <1>1, <2>6, <3>2, SizesAssumption
    <3> QED
      BY <1>1, <1>4, <3>1, <3>2
  <2>8. Text' = [j \in 1 .. n - 1 |-> buf'[j - 1]]
    BY <2>4, <2>5, <2>7, TextAfter
  <2>9. Text' = SubSeq(Text, 1, i - 1) \o SubSeq(Text, i + 1, Len(Text))
    <3> DEFINE before == SubSeq(Text, 1, i - 1)
               after  == SubSeq(Text, i + 1, Len(Text))
    <3>1. /\ before \in Seq(Chars) /\ Len(before) = i - 1
          /\ \A j \in 1 .. i - 1 : before[j] = buf[j - 1]
      BY <1>1, <1>4
    <3>2. /\ after \in Seq(Chars) /\ Len(after) = n - i
          /\ \A j \in 1 .. n - i : after[j] = buf[i + j - 1]
      BY <1>1, <1>4
    <3> HIDE DEF before, after
    <3> DEFINE both == before \o after
    <3>3. /\ both \in Seq(Chars) /\ Len(both) = n - 1
          /\ \A j \in 1 .. i - 1 : both[j] = before[j]
          /\ \A j \in i .. n - 1 : both[j] = after[j - (i - 1)]
      <4>1. /\ both \in Seq(Chars) /\ Len(both) = Len(before) + Len(after)
            /\ \A j \in 1 .. Len(before) + Len(after) :
                 both[j] = IF j <= Len(before) THEN before[j] ELSE after[j - Len(before)]
        BY <3>1, <3>2, ConcatProperties
      <4> HIDE DEF both
      <4>2. Len(before) + Len(after) = n - 1
        BY <1>1, <3>1, <3>2
      <4> QED
        BY <1>1, <1>4, <3>1, <3>2, <4>1, <4>2
    <3> HIDE DEF both
    <3>4. \A j \in 1 .. n - 1 : both[j] = buf'[j - 1]
      <4> SUFFICES ASSUME NEW j \in 1 .. n - 1
                   PROVE  both[j] = buf'[j - 1]
        OBVIOUS
      <4>1. CASE j \in 1 .. i - 1
        BY <1>1, <2>6, <3>1, <3>3, <4>1
      <4>2. CASE j \in i .. n - 1
        <5>1. after[j - (i - 1)] = buf[j]
          BY <1>1, <1>4, <3>2, <4>2
        <5>2. buf'[j - 1] = buf[j]
          BY <1>1, <1>4, <2>6, <4>2
        <5>3. both[j] = after[j - (i - 1)]
          BY <3>3, <4>2
        <5> QED
          BY <5>1, <5>2, <5>3
      <4> QED
        BY <1>1, <1>4, <4>1, <4>2
    <3>5. both = [j \in 1 .. n - 1 |-> buf'[j - 1]]
      <4>1. both = [j \in 1 .. n - 1 |-> both[j]]
        BY <1>1, <3>3
      <4> QED
        BY <3>4, <4>1
    <3> QED
      BY <2>8, <3>5 DEF both, before, after
  <2> QED
    <3>1. i > 0 /\ i' = i - 1
      BY <1>1, <1>4, <2>2
    <3> QED
      BY <1>2, <2>9, <3>1 DEF Editor!Backspace, Text
<1> QED
  BY <1>3, <1>4

LEMMA TypeEdits ==
  ASSUME Inv, NEW c \in Chars, Type(c)
  PROVE  Editor!Type
<1> DEFINE n == TextEnd(0)
<1>1. /\ n \in Indices /\ n \in Nat /\ i \in 0 .. n /\ buf \in [Indices -> Content]
      /\ \A k \in 0 .. n - 1 : k \in Indices /\ buf[k] \in Chars
      /\ \A k \in n .. MaxCommand - 1 : buf[k] = Nul
      /\ Len(Text) = n /\ Text \in Seq(Chars) /\ \A j \in 1 .. n : Text[j] = buf[j - 1]
      /\ Text = [j \in 1 .. n |-> buf[j - 1]]
  BY TextShape DEF Text
<1>2. /\ ran' = <<>> /\ i' = i + 1 /\ i < MaxCommand - 1
      /\ buf' = [buf EXCEPT ![i] = c] /\ c # Nul /\ c \in Content
  BY SizesAssumption DEF Type, Content
<1> HIDE DEF n
<1>3. buf' \in [Indices -> Content]
  BY <1>1, <1>2
<1>4. i \in Indices /\ buf'[i] = c /\ \A k \in Indices : k # i => buf'[k] = buf[k]
  BY <1>1, <1>2, SizesAssumption DEF Indices
<1>5. Text' = IF i < Len(Text) THEN [Text EXCEPT ![i + 1] = c] ELSE Append(Text, c)
  <2>1. CASE i < n
    <3>1. buf'[n] = Nul /\ \A k \in 0 .. n - 1 : buf'[k] # Nul
      BY <1>1, <1>2, <1>4, <2>1, SizesAssumption DEF Indices
    <3>2. Text' = [j \in 1 .. n |-> buf'[j - 1]]
      BY <1>1, <1>3, <3>1, TextAfter
    <3>3. [Text EXCEPT ![i + 1] = c] = [j \in 1 .. n |-> IF j = i + 1 THEN c ELSE buf[j - 1]]
      BY <1>1
    <3>4. \A j \in 1 .. n : buf'[j - 1] = IF j = i + 1 THEN c ELSE buf[j - 1]
      BY <1>1, <1>4, <2>1 DEF Indices
    <3>5. Text' = [Text EXCEPT ![i + 1] = c]
      BY <3>2, <3>3, <3>4
    <3> QED
      BY <1>1, <2>1, <3>5
  <2>2. CASE i = n
    <3>1. n + 1 \in Indices /\ buf'[n + 1] = Nul /\ \A k \in 0 .. (n + 1) - 1 : buf'[k] # Nul
      BY <1>1, <1>2, <1>4, <2>2, SizesAssumption DEF Indices
    <3>2. Text' = [j \in 1 .. n + 1 |-> buf'[j - 1]]
      BY <1>3, <3>1, TextAfter
    <3>3. Append(Text, c) = [j \in 1 .. n + 1 |-> IF j = n + 1 THEN c ELSE buf[j - 1]]
      BY <1>1
    <3>4. \A j \in 1 .. n + 1 : buf'[j - 1] = IF j = n + 1 THEN c ELSE buf[j - 1]
      <4> SUFFICES ASSUME NEW j \in 1 .. n + 1
                   PROVE  buf'[j - 1] = IF j = n + 1 THEN c ELSE buf[j - 1]
        OBVIOUS
      <4>1. CASE j = n + 1
        BY <1>1, <1>4, <2>2, <4>1
      <4>2. CASE j # n + 1
        <5>1. j - 1 \in 0 .. n - 1
          BY <1>1, <4>2
        <5> QED
          BY <1>1, <1>4, <2>2, <4>2, <5>1
      <4> QED
        BY <4>1, <4>2
    <3>5. Text' = Append(Text, c)
      BY <3>2, <3>3, <3>4
    <3> QED
      BY <1>1, <2>2, <3>5
  <2>3. i < n \/ i = n
    BY <1>1
  <2> QED
    BY <2>1, <2>2, <2>3
<1>6. i + 1 < MaxCommand
  BY <1>1, <1>2, SizesAssumption
<1> QED
  BY <1>2, <1>5, <1>6 DEF Editor!Type, Text

LEMMA TypeLastEdits ==
  ASSUME Inv, NEW c \in Chars, TypeLast(c)
  PROVE  Editor!TypeLast
<1> DEFINE b == [buf EXCEPT ![i] = c]
<1>1. /\ buf \in [Indices -> Content] /\ i \in Indices /\ i = MaxCommand - 1
      /\ c \in Content /\ c # Nul /\ ran' = <<>>
      /\ \A k \in 0 .. i - 1 : buf[k] # Nul
  BY SizesAssumption DEF Inv, TypeOK, NoHoles, TypeLast, Content
<1>2. b \in [Indices -> Content] /\ \A k \in Indices : b[k] # Nul
  BY <1>1, SizesAssumption DEF Indices
<1>3. Prompt(cursor + 1, b)
  BY DEF TypeLast
<1> HIDE DEF b
<1>4. Text' = <<>> /\ i' = 0
  BY <1>2, <1>3, PromptDiscards
<1>5. i + 1 = MaxCommand
  BY <1>1, SizesAssumption
<1> QED
  BY <1>1, <1>4, <1>5 DEF Editor!TypeLast, Editor!Discard, Text

-----------------------------------------------------------------------------
(* The line editor: the words *)

Rank(S, k) == Cardinality({j \in S : j <= k})

\* The first of a set of numbers is the one that one element is up to, ...
LEMMA RankOne ==
  ASSUME NEW S, S \subseteq Nat, IsFiniteSet(S), NEW a \in S, \A x \in S : a <= x
  PROVE  \A k \in S : Rank(S, k) = 1 <=> k = a
<1> SUFFICES ASSUME NEW k \in S
             PROVE  Rank(S, k) = 1 <=> k = a
  OBVIOUS
<1> DEFINE U == {j \in S : j <= k}
<1>1. IsFiniteSet(U)
  BY FS_Subset
<1>2. a \in U /\ k \in U
  OBVIOUS
<1>3. k = a => U = {a}
  <2>1. ASSUME k = a, NEW x \in U PROVE x = a
    <3>1. x \in Nat /\ a \in Nat /\ x <= a /\ a <= x
      BY <2>1
    <3> QED
      BY <3>1
  <2> QED
    BY <1>2, <2>1
<1> HIDE DEF U
<1>4. Cardinality(U) = 1 <=> \E x : U = {x}
  BY <1>1, FS_Singleton
<1>5. (\E x : U = {x}) <=> k = a
  BY <1>2, <1>3
<1> QED
  BY <1>4, <1>5 DEF U, Rank

\* a and b are the first two of S.
FirstTwo(S, a, b) ==
  a \in S /\ b \in S /\ a < b /\ \A x \in S : x = a \/ b <= x

\* ... and the second the one that two are up to.
LEMMA RankTwo ==
  ASSUME NEW S, S \subseteq Nat, IsFiniteSet(S), NEW a, NEW b, FirstTwo(S, a, b)
  PROVE  \A k \in S : Rank(S, k) = 2 <=> k = b
<1> USE DEF FirstTwo
<1> SUFFICES ASSUME NEW k \in S
             PROVE  Rank(S, k) = 2 <=> k = b
  OBVIOUS
<1> DEFINE U == {j \in S : j <= k}
           V == {j \in S \ {a} : j <= k}
<1>1. IsFiniteSet(U) /\ IsFiniteSet(S \ {a})
  BY FS_Subset
<1>2. a \in U /\ V = U \ {a}
  OBVIOUS
<1>3. Cardinality(V) = Cardinality(U) - 1 /\ Cardinality(U) \in Nat
  BY <1>1, <1>2, FS_RemoveElement, FS_CardinalityType
<1>4. CASE k = a
  <2>1. ASSUME NEW x \in V PROVE FALSE
    <3>1. x \in Nat /\ a \in Nat /\ b \in Nat /\ b <= x /\ x <= a
      BY <1>4
    <3> QED
      BY <3>1
  <2>2. V = {}
    BY <2>1
  <2>3. Cardinality(V) = 0
    BY <2>2, FS_EmptySet
  <2> HIDE DEF U, V
  <2>4. Cardinality(U) = 1 /\ k # b
    <3>1. a # b
      OBVIOUS
    <3> QED
      BY <1>3, <1>4, <2>3, <3>1
  <2> QED
    BY <2>4 DEF U, Rank
<1>5. CASE k # a
  <2>1. b \in S \ {a} /\ \A x \in S \ {a} : b <= x
    OBVIOUS
  <2> DEFINE W == S \ {a}
  <2>2. W \subseteq Nat /\ IsFiniteSet(W) /\ b \in W /\ k \in W /\ \A x \in W : b <= x
    BY <1>1, <1>5, <2>1
  <2>3. Rank(W, k) = 1 <=> k = b
    <3> HIDE DEF W
    <3> QED
      BY <2>2, RankOne
  <2>4. Cardinality(V) = 1 <=> k = b
    BY <2>3 DEF Rank
  <2> HIDE DEF U, V, W
  <2>5. Cardinality(U) = 2 <=> k = b
    BY <1>3, <2>4
  <2> QED
    BY <2>5 DEF U, Rank
<1> QED
  BY <1>4, <1>5

LEMMA SkipSpacesIs ==
  ASSUME NEW k \in 0 .. MaxCommand
  PROVE  /\ SkipSpaces(k) \in k .. MaxCommand /\ At(SkipSpaces(k)) # Space
         /\ \A j \in k .. SkipSpaces(k) - 1 : At(j) = Space
<1> DEFINE S == {j \in k .. MaxCommand : At(j) # Space}
           m == Min(S)
<1>1. MaxCommand \in S /\ S \subseteq Nat
  BY SizesAssumption DEF At, Indices, Chars
<1>2. m \in S /\ \A y \in S : m <= y
  <2> HIDE DEF S
  <2> QED
    BY <1>1, MinOfNats
<1>3. SkipSpaces(k) = m
  BY DEF SkipSpaces
<1> HIDE DEF m
<1>4. ASSUME NEW j \in k .. m - 1 PROVE At(j) = Space
  BY <1>2, SizesAssumption
<1> QED
  BY <1>2, <1>3, <1>4

LEMMA SkipWordIs ==
  ASSUME NEW k \in 0 .. MaxCommand
  PROVE  /\ SkipWord(k) \in k .. MaxCommand /\ At(SkipWord(k)) \in {Space, Nul}
         /\ \A j \in k .. SkipWord(k) - 1 : At(j) \notin {Space, Nul}
<1> DEFINE S == {j \in k .. MaxCommand : At(j) \in {Space, Nul}}
           m == Min(S)
<1>1. MaxCommand \in S /\ S \subseteq Nat
  BY SizesAssumption DEF At, Indices
<1>2. m \in S /\ \A y \in S : m <= y
  <2> HIDE DEF S
  <2> QED
    BY <1>1, MinOfNats
<1>3. SkipWord(k) = m
  BY DEF SkipWord
<1> HIDE DEF m
<1>4. ASSUME NEW j \in k .. m - 1 PROVE At(j) \notin {Space, Nul}
  BY <1>2, SizesAssumption
<1> QED
  BY <1>2, <1>3, <1>4

\* What the buffer holds, by the places of the text.
LEMMA AtText ==
  ASSUME Inv
  PROVE  /\ TextEnd(0) \in Nat /\ TextEnd(0) < MaxCommand /\ Len(Text) = TextEnd(0)
         /\ Text \in Seq(Chars)
         /\ \A k \in 0 .. TextEnd(0) - 1 :
              At(k) = Text[k + 1] /\ At(k) = buf[k] /\ At(k) # Nul
         /\ \A k \in TextEnd(0) .. MaxCommand : At(k) = Nul
         /\ Nul # Space
<1> DEFINE n == TextEnd(0)
<1>1. /\ n \in Indices /\ n \in Nat
      /\ \A k \in 0 .. n - 1 : k \in Indices /\ buf[k] \in Chars
      /\ \A k \in n .. MaxCommand - 1 : buf[k] = Nul
      /\ Len(Text) = n /\ Text \in Seq(Chars) /\ \A j \in 1 .. n : Text[j] = buf[j - 1]
  BY TextShape
<1> HIDE DEF n
<1>2. n < MaxCommand
  BY <1>1, SizesAssumption DEF Indices
<1>3. \A k \in 0 .. n - 1 : At(k) = buf[k] /\ At(k) # Nul
  BY <1>1, SizesAssumption DEF At
<1>4. \A k \in 0 .. n - 1 : k + 1 \in 1 .. n /\ (k + 1) - 1 = k
  BY <1>1
<1>5. \A k \in 0 .. n - 1 : Text[k + 1] = buf[k]
  BY <1>1, <1>4
<1>6. \A k \in n .. MaxCommand : At(k) = Nul
  BY <1>1, SizesAssumption DEF At, Indices
<1>7. Nul # Space
  BY SizesAssumption DEF Chars
<1> QED
  BY <1>1, <1>2, <1>3, <1>5, <1>6, <1>7 DEF n

\* What extract_token copies from the beginning of a word is the word.
LEMMA TokenIsWord ==
  ASSUME Inv, NEW s \in 0 .. TextEnd(0) - 1, At(s) # Space
  PROVE  LET from == s + 1
             ends == CHOOSE e \in from .. Len(Text) :
                       /\ \A j \in from .. e : Text[j] # Space
                       /\ e = Len(Text) \/ Text[e + 1] = Space \/ e = from + MaxToken - 1
                       /\ e < from + MaxToken
         IN  TokenAt(s) = SubSeq(Text, from, ends)
<1> DEFINE n == TextEnd(0)
           w == SkipWord(s)
           size == Min({w - s, MaxToken})
           from == s + 1
           P(e) == /\ \A j \in from .. e : Text[j] # Space
                   /\ e = Len(Text) \/ Text[e + 1] = Space \/ e = from + MaxToken - 1
                   /\ e < from + MaxToken
<1>1. /\ n \in Nat /\ n < MaxCommand /\ Len(Text) = n /\ Text \in Seq(Chars)
      /\ \A k \in 0 .. n - 1 : At(k) = Text[k + 1] /\ At(k) = buf[k] /\ At(k) # Nul
      /\ \A k \in n .. MaxCommand : At(k) = Nul
      /\ Nul # Space
  BY AtText
<1>2. s \in 0 .. n - 1 /\ s \in Nat /\ s \in 0 .. MaxCommand /\ At(s) # Nul
  BY <1>1, SizesAssumption
<1>3. /\ w \in s .. MaxCommand /\ At(w) \in {Space, Nul}
      /\ \A j \in s .. w - 1 : At(j) \notin {Space, Nul}
  BY <1>2, SkipWordIs
<1>4. TokenAt(s) = [j \in 1 .. size |-> buf[s + j - 1]]
  BY DEF TokenAt
<1> HIDE DEF n, w
<1>5. w \in s + 1 .. n /\ w \in Nat
  <2>1. w # s
    BY <1>2, <1>3
  <2>2. ASSUME n < w PROVE FALSE
    <3>1. n \in s .. w - 1 /\ n \in n .. MaxCommand
      BY <1>1, <1>2, <1>3, <2>2, SizesAssumption
    <3> QED
      BY <1>1, <1>3, <3>1
  <2> QED
    BY <1>1, <1>2, <1>3, <2>1, <2>2, SizesAssumption
<1>6. size \in {w - s, MaxToken} /\ size <= w - s /\ size <= MaxToken
  <2>1. {w - s, MaxToken} \subseteq Nat /\ {w - s, MaxToken} # {}
    BY <1>2, <1>5, SizesAssumption
  <2>2. size \in {w - s, MaxToken} /\ \A y \in {w - s, MaxToken} : size <= y
    BY <2>1, MinOfNats
  <2> QED
    BY <2>2
<1> HIDE DEF size
<1>7. size \in Nat /\ size >= 1 /\ s + size <= w
  BY <1>2, <1>5, <1>6, SizesAssumption
<1>8. \A j \in from .. w : Text[j] # Space
  <2> SUFFICES ASSUME NEW j \in from .. w
               PROVE  Text[j] # Space
    OBVIOUS
  <2>1. j - 1 \in 0 .. n - 1 /\ j - 1 \in s .. w - 1 /\ (j - 1) + 1 = j
    BY <1>1, <1>2, <1>5
  <2>2. At(j - 1) = Text[(j - 1) + 1] /\ At(j - 1) # Space
    BY <1>1, <1>3, <2>1
  <2> QED
    BY <2>1, <2>2
<1>9. w = n \/ Text[w + 1] = Space
  BY <1>1, <1>2, <1>3, <1>5
<1>10. P(s + size) /\ s + size \in from .. Len(Text)
  <2>1. \A j \in from .. s + size : Text[j] # Space
    BY <1>2, <1>5, <1>7, <1>8
  <2>2. s + size = Len(Text) \/ Text[(s + size) + 1] = Space \/ s + size = from + MaxToken - 1
    BY <1>1, <1>2, <1>5, <1>6, <1>9, SizesAssumption
  <2>3. s + size < from + MaxToken /\ s + size \in from .. Len(Text)
    BY <1>1, <1>2, <1>5, <1>6, <1>7, SizesAssumption
  <2> QED
    BY <2>1, <2>2, <2>3
<1>11. ASSUME NEW e \in from .. Len(Text), P(e)
       PROVE  e = s + size
  <2>1. e \in Nat /\ e >= s + 1 /\ e <= n /\ e <= s + MaxToken
    BY <1>1, <1>2, <1>11, SizesAssumption
  <2>2. e <= w
    <3> SUFFICES ASSUME w < e
                 PROVE  FALSE
      BY <1>5, <2>1
    <3>1. w + 1 \in from .. e /\ w # n
      BY <1>1, <1>2, <1>5, <2>1
    <3> QED
      BY <1>9, <1>11, <3>1
  <2>3. e <= s + size
    BY <1>2, <1>5, <1>6, <2>1, <2>2, SizesAssumption
  <2>4. ~(e < s + size)
    <3> SUFFICES ASSUME e < s + size
                 PROVE  FALSE
      OBVIOUS
    <3>1. e # n /\ e # from + MaxToken - 1 /\ e + 1 \in from .. w
      BY <1>1, <1>2, <1>5, <1>6, <1>7, <2>1, SizesAssumption
    <3> QED
      BY <1>1, <1>8, <1>11, <3>1
  <2> QED
    BY <1>2, <1>7, <2>1, <2>3, <2>4
<1>12. (CHOOSE e \in from .. Len(Text) : P(e)) = s + size
  <2> HIDE DEF P
  <2> QED
    BY <1>10, <1>11
<1>13. SubSeq(Text, from, s + size) = [j \in 1 .. size |-> buf[s + j - 1]]
  <2>1. \A k \in from .. s + size : Text[k] \in Chars
    BY <1>1, <1>2, <1>5, <1>7
  <2> DEFINE q == SubSeq(Text, from, s + size)
  <2>2. /\ q \in Seq(Chars) /\ Len(q) = size
        /\ \A j \in 1 .. size : q[j] = Text[s + j]
    <3>1. from \in Int /\ s + size \in Int
      BY <1>2, <1>7
    <3>2. /\ q \in Seq(Chars)
          /\ Len(q) = IF from <= s + size THEN (s + size) - from + 1 ELSE 0
          /\ \A j \in 1 .. (s + size) - from + 1 : q[j] = Text[from + j - 1]
      BY <2>1, <3>1, SubSeqProperties
    <3> HIDE DEF q
    <3>3. (s + size) - from + 1 = size /\ from <= s + size
      BY <1>2, <1>7
    <3>4. \A j \in 1 .. size : from + j - 1 = s + j
      BY <1>2, <1>7
    <3> QED
      BY <3>2, <3>3, <3>4
  <2> HIDE DEF q
  <2>3. \A j \in 1 .. size : q[j] = buf[s + j - 1]
    <3> SUFFICES ASSUME NEW j \in 1 .. size
                 PROVE  Text[s + j] = buf[s + j - 1]
      BY <2>2
    <3>1. s + j - 1 \in 0 .. n - 1 /\ (s + j - 1) + 1 = s + j
      BY <1>1, <1>2, <1>5, <1>7
    <3>2. Text[(s + j - 1) + 1] = buf[s + j - 1]
      BY <1>1, <3>1
    <3> QED
      BY <3>1, <3>2
  <2>4. q = [j \in 1 .. size |-> q[j]]
    BY <2>2
  <2> QED
    BY <2>3, <2>4 DEF q
<1> QED
  BY <1>4, <1>12, <1>13

\* The words begin where extract_token finds them.
LEMMA StartsAre ==
  ASSUME Inv
  PROVE  LET n  == TextEnd(0)
             s0 == SkipSpaces(0)
             s1 == NextWord(s0)
             S  == Editor!Starts(Text)
         IN  /\ S \subseteq 1 .. n
             /\ s0 \in 0 .. n /\ s1 \in 0 .. n
             /\ s0 = n => s1 = n /\ S = {}
             /\ s0 < n => s0 + 1 \in S /\ \A x \in S : s0 + 1 <= x
             /\ s0 < n /\ s1 = n => S = {s0 + 1}
             /\ s1 < n => /\ s0 < s1 /\ s1 + 1 \in S
                          /\ \A x \in S : x = s0 + 1 \/ s1 + 1 <= x
<1> DEFINE n  == TextEnd(0)
           s0 == SkipSpaces(0)
           e0 == SkipWord(s0)
           s1 == SkipSpaces(e0)
           S  == Editor!Starts(Text)
<1>1. /\ n \in Nat /\ n < MaxCommand /\ MaxCommand \in Nat /\ Len(Text) = n
      /\ \A k \in 0 .. n - 1 : At(k) = Text[k + 1] /\ At(k) # Nul
      /\ \A k \in n .. MaxCommand : At(k) = Nul
      /\ Nul # Space
  BY AtText, SizesAssumption
<1>2. /\ s0 \in 0 .. MaxCommand /\ At(s0) # Space
      /\ \A j \in 0 .. s0 - 1 : At(j) = Space
  BY <1>1, SkipSpacesIs
<1>3. /\ e0 \in s0 .. MaxCommand /\ At(e0) \in {Space, Nul}
      /\ \A j \in s0 .. e0 - 1 : At(j) \notin {Space, Nul}
  BY <1>2, SkipWordIs
<1>4. /\ s1 \in e0 .. MaxCommand /\ At(s1) # Space
      /\ \A j \in e0 .. s1 - 1 : At(j) = Space
  <2> HIDE DEF e0
  <2>1. e0 \in 0 .. MaxCommand
    BY <1>2, <1>3
  <2> QED
    BY <2>1, SkipSpacesIs
<1>5. NextWord(s0) = s1
  BY DEF NextWord
<1>6. \A x : x \in S <=> /\ x \in 1 .. Len(Text) /\ Text[x] # Space
                         /\ x = 1 \/ Text[x - 1] = Space
  <2>1. Editor!Space = Space
    BY Zenon DEF Editor!Space, Space
  <2> QED
    BY <2>1 DEF Editor!Starts
<1> HIDE DEF n, s0, e0, s1, S
<1>7. \A x : x \in S <=> /\ x \in 1 .. n /\ At(x - 1) # Space
                         /\ x = 1 \/ At(x - 2) = Space
  <2>1. ASSUME NEW x \in 1 .. n PROVE x - 1 \in 0 .. n - 1 /\ Text[x] = At(x - 1)
    <3>1. x - 1 \in 0 .. n - 1 /\ (x - 1) + 1 = x
      BY <1>1
    <3> QED
      BY <1>1, <3>1
  <2>2. ASSUME NEW x \in 1 .. n, x # 1 PROVE Text[x - 1] = At(x - 2)
    <3>1. x - 2 \in 0 .. n - 1 /\ (x - 2) + 1 = x - 1
      BY <1>1, <2>2
    <3> QED
      BY <1>1, <3>1
  <2> QED
    BY <1>1, <1>6, <2>1, <2>2
<1>8. s0 <= n /\ e0 <= n /\ s1 <= n
  <2>1. At(n) = Nul /\ n \in n .. MaxCommand
    BY <1>1
  <2>2. ASSUME n < s0 PROVE FALSE
    <3>1. n \in 0 .. s0 - 1
      BY <1>1, <1>2, <2>2
    <3> QED
      BY <1>1, <1>2, <2>1, <3>1
  <2>3. s0 <= n
    BY <1>1, <1>2, <2>2
  <2>4. ASSUME n < e0 PROVE FALSE
    <3>1. n \in s0 .. e0 - 1
      BY <1>1, <1>2, <1>3, <2>3, <2>4
    <3> QED
      BY <1>3, <2>1, <3>1
  <2>5. e0 <= n
    BY <1>1, <1>2, <1>3, <2>4
  <2>6. ASSUME n < s1 PROVE FALSE
    <3>1. n \in e0 .. s1 - 1
      BY <1>1, <1>2, <1>3, <1>4, <2>5, <2>6
    <3> QED
      BY <1>1, <1>4, <2>1, <3>1
  <2> QED
    BY <1>1, <1>2, <1>3, <1>4, <2>3, <2>5, <2>6
<1>9. ASSUME NEW x \in S PROVE s0 + 1 <= x /\ (x = s0 + 1 \/ s1 + 1 <= x)
  <2>1. x \in 1 .. n /\ At(x - 1) # Space /\ (x = 1 \/ At(x - 2) = Space)
    BY <1>7
  <2>2. s0 + 1 <= x
    <3> SUFFICES ASSUME x < s0 + 1
                 PROVE  FALSE
      BY <1>2, <2>1
    <3>1. x - 1 \in 0 .. s0 - 1
      BY <1>2, <2>1
    <3> QED
      BY <1>2, <2>1, <3>1
  <2>3. CASE s0 + 1 < x /\ x <= e0
    <3>1. x # 1 /\ x - 2 \in s0 .. e0 - 1
      BY <1>2, <1>3, <2>1, <2>3
    <3> QED
      BY <1>3, <2>1, <3>1
  <2>4. CASE e0 < x /\ x <= s1
    <3>1. x - 1 \in e0 .. s1 - 1
      BY <1>2, <1>3, <1>4, <2>1, <2>4
    <3> QED
      BY <1>4, <2>1, <3>1
  <2> QED
    BY <1>2, <1>3, <1>4, <2>1, <2>2, <2>3, <2>4
<1>10. S \subseteq 1 .. n
  BY <1>7
<1>11. s0 \in 0 .. n /\ s1 \in s0 .. n /\ s1 \in 0 .. n /\ e0 \in Nat
  BY <1>1, <1>2, <1>3, <1>4, <1>8
<1>12. s0 = n => s1 = n /\ S = {}
  <2> SUFFICES ASSUME s0 = n
               PROVE  s1 = n /\ S = {}
    OBVIOUS
  <2>1. ASSUME NEW x \in S PROVE FALSE
    <3>1. x \in 1 .. n /\ n + 1 <= x
      BY <1>9, <1>10
    <3> QED
      BY <1>1, <3>1
  <2>2. s1 = n
    BY <1>1, <1>11
  <2> QED
    BY <2>1, <2>2
<1>13. s0 < n => s0 + 1 \in S
  <2> SUFFICES ASSUME s0 < n
               PROVE  s0 + 1 \in S
    OBVIOUS
  <2>1. s0 + 1 \in 1 .. n /\ (s0 + 1) - 1 = s0 /\ (s0 + 1 = 1 \/ (s0 + 1) - 2 \in 0 .. s0 - 1)
    BY <1>1, <1>2
  <2> QED
    BY <1>2, <1>7, <2>1
<1>14. s1 < n => s0 < s1 /\ s1 + 1 \in S
  <2> SUFFICES ASSUME s1 < n
               PROVE  s0 < s1 /\ s1 + 1 \in S
    OBVIOUS
  <2>1. At(s1) # Nul
    BY <1>1, <1>11
  <2>2. e0 < s1
    <3>1. e0 # s1
      BY <1>3, <1>4, <2>1
    <3> QED
      BY <1>4, <1>11, <3>1
  <2>3. /\ s0 < s1 /\ s1 + 1 \in 1 .. n /\ (s1 + 1) - 1 = s1
        /\ (s1 + 1) - 2 \in e0 .. s1 - 1
    BY <1>1, <1>3, <1>11, <2>2
  <2> QED
    BY <1>4, <1>7, <2>3
<1>15. s0 < n /\ s1 = n => S = {s0 + 1}
  <2> SUFFICES ASSUME s0 < n, s1 = n
               PROVE  S = {s0 + 1}
    OBVIOUS
  <2>1. ASSUME NEW x \in S PROVE x = s0 + 1
    <3>1. x \in 1 .. n /\ (x = s0 + 1 \/ n + 1 <= x)
      BY <1>9, <1>10
    <3> QED
      BY <1>1, <3>1
  <2> QED
    BY <1>13, <2>1
<1> QED
  BY <1>5, <1>9, <1>10, <1>11, <1>12, <1>13, <1>14, <1>15 DEF n, s0, S

\* At the end of the text there is no word.
LEMMA NoTokenAtEnd ==
  ASSUME Inv
  PROVE  TokenAt(TextEnd(0)) = <<>>
<1> DEFINE n == TextEnd(0)
           w == SkipWord(n)
           size == Min({w - n, MaxToken})
<1>1. n \in Nat /\ n \in 0 .. MaxCommand /\ \A k \in n .. MaxCommand : At(k) = Nul
  BY AtText, SizesAssumption
<1>2. TokenAt(n) = [j \in 1 .. size |-> buf[n + j - 1]]
  BY DEF TokenAt
<1> HIDE DEF n
<1>3. w \in n .. MaxCommand /\ \A j \in n .. w - 1 : At(j) \notin {Space, Nul}
  BY <1>1, SkipWordIs
<1> HIDE DEF w
<1>4. w = n
  <2> SUFFICES ASSUME n < w
               PROVE  FALSE
    BY <1>1, <1>3
  <2>1. n \in n .. w - 1 /\ n \in n .. MaxCommand
    BY <1>1, <1>3
  <2> QED
    BY <1>1, <1>3, <2>1
<1>5. size = 0
  <2>1. {w - n, MaxToken} \subseteq Nat /\ {w - n, MaxToken} # {} /\ 0 \in {w - n, MaxToken}
    BY <1>1, <1>4, SizesAssumption
  <2> DEFINE T == {w - n, MaxToken}
  <2>2. size \in T /\ size <= 0
    <3> HIDE DEF T
    <3> QED
      BY <2>1, MinOfNats DEF T
  <2> QED
    BY <2>1, <2>2
<1> HIDE DEF size
<1> QED
  BY <1>2, <1>5 DEF n

\* LineEditor counts as this module does.
LEMMA SameCount == \A S : Editor!Cardinality(S) = Cardinality(S)
BY Zenon DEF Editor!Cardinality, Cardinality

\* The m-th word of the text is what is copied from where it begins.
LEMMA WordIsToken ==
  ASSUME Inv, NEW m \in Nat, NEW s \in 0 .. TextEnd(0) - 1, At(s) # Space,
         s + 1 \in Editor!Starts(Text), ~(Cardinality(Editor!Starts(Text)) < m),
         \A k \in Editor!Starts(Text) :
           Rank(Editor!Starts(Text), k) = m <=> k = s + 1
  PROVE  Editor!Word(Text, m) = TokenAt(s)
<1> DEFINE S == Editor!Starts(Text)
           a == s + 1
           P(from, e) == /\ \A j \in from .. e : Text[j] # Editor!Space
                         /\ e = Len(Text) \/ Text[e + 1] = Editor!Space \/ e = from + MaxToken - 1
                         /\ e < from + MaxToken
           from == CHOOSE k \in S : Cardinality({j \in S : j <= k}) = m
<1>1. from = a
  <2>1. a \in S /\ \A k \in S : Cardinality({j \in S : j <= k}) = m <=> k = a
    BY DEF Rank
  <2> HIDE DEF S, a
  <2> QED
    BY <2>1
<1>2. Editor!Word(Text, m) = SubSeq(Text, from, CHOOSE e \in from .. Len(Text) : P(from, e))
  BY Zenon, SameCount DEF Editor!Word
<1>3. Editor!Word(Text, m) = SubSeq(Text, a, CHOOSE e \in a .. Len(Text) : P(a, e))
  <2> HIDE DEF from, a, P
  <2> QED
    BY <1>1, <1>2
<1>4. Editor!Space = Space
  BY Zenon DEF Editor!Space, Space
<1>5. TokenAt(s) = SubSeq(Text, a, CHOOSE e \in a .. Len(Text) :
                             /\ \A j \in a .. e : Text[j] # Space
                             /\ e = Len(Text) \/ Text[e + 1] = Space \/ e = a + MaxToken - 1
                             /\ e < a + MaxToken)
  BY TokenIsWord
<1> HIDE DEF a
<1> QED
  BY Zenon, <1>3, <1>4, <1>5

\* What parse_command looks at first are the first two words of the text.
LEMMA WordsAre ==
  ASSUME Inv
  PROVE  Editor!Word(Text, 1) = Token(0) /\ Editor!Word(Text, 2) = Token(1)
<1> DEFINE n  == TextEnd(0)
           s0 == SkipSpaces(0)
           s1 == NextWord(s0)
           S  == Editor!Starts(Text)
<1>1. /\ S \subseteq 1 .. n
      /\ s0 \in 0 .. n /\ s1 \in 0 .. n
      /\ s0 = n => s1 = n /\ S = {}
      /\ s0 < n => s0 + 1 \in S /\ \A x \in S : s0 + 1 <= x
      /\ s0 < n /\ s1 = n => S = {s0 + 1}
      /\ s1 < n => s0 < s1 /\ s1 + 1 \in S /\ \A x \in S : x = s0 + 1 \/ s1 + 1 <= x
  BY StartsAre
<1>2. Token(0) = TokenAt(s0) /\ Token(1) = TokenAt(s1)
  BY DEF Token, WordStart
<1>3. n \in Nat /\ n < MaxCommand /\ MaxCommand \in Nat
  BY AtText, SizesAssumption
<1>4. At(s0) # Space
  BY <1>3, SkipSpacesIs
<1>5. At(s1) # Space
  <2>1. s0 \in 0 .. MaxCommand
    BY <1>1, <1>3
  <2> DEFINE e0 == SkipWord(s0)
  <2>2. e0 \in 0 .. MaxCommand
    <3> HIDE DEF s0
    <3> QED
      BY <2>1, SkipWordIs
  <2>3. s1 = SkipSpaces(e0)
    BY DEF NextWord
  <2> HIDE DEF e0, s1
  <2> QED
    BY <2>2, <2>3, SkipSpacesIs
<1>6. TokenAt(n) = <<>>
  BY NoTokenAtEnd
<1>7. \A m : Cardinality(S) < m => Editor!Word(Text, m) = <<>>
  BY Zenon, SameCount DEF Editor!Word
<1> HIDE DEF s0, s1, S, n
<1>8. IsFiniteSet(S) /\ S \subseteq Nat
  <2>1. IsFiniteSet(1 .. n)
    BY <1>3, FS_Interval
  <2>2. 1 .. n \subseteq Nat
    BY <1>3
  <2>3. S \subseteq 1 .. n
    BY <1>1
  <2> QED
    BY <2>1, <2>2, <2>3, FS_Subset
<1>9. \A s \in 0 .. n : s = n \/ s \in 0 .. n - 1
  BY <1>3
<1>10. \A m \in Nat, s \in 0 .. n - 1 :
         /\ At(s) # Space /\ s + 1 \in S /\ ~(Cardinality(S) < m)
         /\ \A k \in S : Rank(S, k) = m <=> k = s + 1
         => Editor!Word(Text, m) = TokenAt(s)
  BY WordIsToken DEF S, n
<1>11. Editor!Word(Text, 1) = Token(0)
  <2>1. CASE s0 = n
    <3>1. Cardinality(S) = 0
      BY <1>1, <1>8, <2>1, FS_EmptySet
    <3> QED
      BY <1>2, <1>6, <1>7, <2>1, <3>1
  <2>2. CASE s0 \in 0 .. n - 1
    <3> DEFINE a == s0 + 1
    <3>1. a \in S /\ \A x \in S : a <= x
      BY <1>1, <1>3, <2>2
    <3> HIDE DEF a
    <3>2. \A k \in S : Rank(S, k) = 1 <=> k = a
      BY <1>8, <3>1, RankOne
    <3>3. ~(Cardinality(S) < 1)
      BY <1>8, <3>1, FS_EmptySet, FS_CardinalityType
    <3> QED
      BY <1>2, <1>4, <1>10, <2>2, <3>1, <3>2, <3>3 DEF a
  <2> QED
    BY <1>1, <1>9, <2>1, <2>2
<1>12. Editor!Word(Text, 2) = Token(1)
  <2>1. CASE s0 = n
    <3>1. Cardinality(S) = 0
      BY <1>1, <1>8, <2>1, FS_EmptySet
    <3> QED
      BY <1>1, <1>2, <1>6, <1>7, <2>1, <3>1
  <2>2. CASE s0 \in 0 .. n - 1 /\ s1 = n
    <3>1. S = {s0 + 1}
      BY <1>1, <1>3, <2>2
    <3>2. Cardinality(S) = 1
      BY <3>1, FS_Singleton
    <3> QED
      BY <1>2, <1>6, <1>7, <2>2, <3>2
  <2>3. CASE s0 \in 0 .. n - 1 /\ s1 \in 0 .. n - 1
    <3> DEFINE a == s0 + 1
               b == s1 + 1
    <3>1. FirstTwo(S, a, b)
      BY <1>1, <1>3, <2>3 DEF FirstTwo
    <3> HIDE DEF a, b
    <3>2. \A k \in S : Rank(S, k) = 2 <=> k = b
      BY <1>8, <3>1, RankTwo
    <3>3. ~(Cardinality(S) < 2)
      <4>1. Rank(S, b) = 2
        BY <3>1, <3>2 DEF FirstTwo
      <4>2. Rank(S, b) <= Cardinality(S)
        BY <1>8, FS_Subset DEF Rank
      <4> QED
        BY <1>8, <4>1, <4>2, FS_CardinalityType
    <3> QED
      BY <1>2, <1>5, <1>10, <2>3, <3>1, <3>2, <3>3 DEF b, FirstTwo
  <2> QED
    BY <1>1, <1>9, <2>1, <2>2, <2>3
<1> QED
  BY <1>11, <1>12

LEMMA EnterEdits ==
  ASSUME Inv, Enter
  PROVE  Editor!Enter
<1>1. /\ buf \in [Indices -> Content]
      /\ \A k \in Indices : buf[k] = Nul => \A j \in k .. MaxCommand - 1 : buf[j] = Nul
  BY DEF Inv, TypeOK, NoHoles, Content
<1>2. \E p : Prompt(p, buf)
  BY DEF Enter, Fresh, Name, OtherCommand, CommandNotFound
<1>3. Text' = <<>> /\ i' = 0
  BY <1>1, <1>2, PromptDiscards
<1>4. ran' = <<Editor!Word(Text, 1), Editor!Word(Text, 2)>>
  BY WordsAre DEF Enter
<1> QED
  BY <1>3, <1>4 DEF Editor!Enter, Editor!Discard, Text

LEMMA InitEdits ==
  ASSUME Init
  PROVE  Editor!Init
<1>1. buf = [k \in Indices |-> Nul] /\ i = 0 /\ ran = <<>>
  BY DEF Init
<1>2. 0 \in Indices /\ buf \in [Indices -> Content] /\ buf[0] = Nul
  BY <1>1, SizesAssumption DEF Indices, Content
<1>3. TextEnd(0) = 0
  <2>1. TextEnd(0) = Min({j \in 0 .. MaxCommand : (IF j \in Indices THEN buf[j] ELSE Nul) = Nul})
    BY DEF TextEnd, At
  <2> QED
    BY <1>2, <2>1, FirstNul
<1>4. Text = <<>>
  BY <1>3 DEF Text
<1> QED
  BY <1>1, <1>4 DEF Editor!Init, Text

LEMMA NextEdits ==
  ASSUME Inv, [Next]_vars
  PROVE  [Editor!Next]_(Editor!vars)
<1>1. CASE UNCHANGED vars
  BY <1>1 DEF vars, Editor!vars, TextEnd, At
<1>2. CASE LeftArrow \/ RightArrow
  BY <1>2, ArrowsEdit DEF Editor!Next
<1>3. CASE Backspace
  BY <1>3, BackspaceEdits DEF Editor!Next
<1>4. CASE Enter
  BY <1>4, EnterEdits DEF Editor!Next
<1>5. CASE \E c \in Chars : Type(c) \/ TypeLast(c)
  BY <1>5, TypeEdits, TypeLastEdits DEF Editor!Next
<1> QED
  BY <1>1, <1>2, <1>3, <1>4, <1>5 DEF Next

-----------------------------------------------------------------------------
(* The theorems *)

LEMMA ShellInv == Spec => []Inv
<1>1. Init => Inv
  BY InitInv
<1>2. Inv /\ [Next]_vars => Inv'
  BY NextInv
<1> QED
  BY <1>1, <1>2, PTL DEF Spec

\* The loop's index never leaves the command buffer, the name its array.
THEOREM ShellTypeOK == Spec => []TypeOK
<1>1. Inv => TypeOK
  BY DEF Inv
<1> QED
  BY <1>1, ShellInv, PTL

\* The command buffer is a text followed by NULs only, so that nothing of a
\* line survives the flush to come back in a later command.
THEOREM ShellNoHoles == Spec => []NoHoles
<1>1. Inv => NoHoles
  BY DEF Inv
<1> QED
  BY <1>1, ShellInv, PTL

\* The display shows what is in the buffer, with the cursor at the index.
THEOREM ShellEchoIsBuffer == Spec => []EchoIsBuffer
<1>1. Inv => EchoIsBuffer
  BY DEF Inv
<1> QED
  BY <1>1, ShellInv, PTL

\* The buffer, its loops and the flush do what LineEditor says of a text and a
\* place in it: also the words the shell acts on are the first two of the text.
THEOREM ShellImplementsEditor == Spec => ImplementsEditor
<1>1. Init => Editor!Init
  BY InitEdits
<1>2. Inv /\ [Next]_vars => [Editor!Next]_(Editor!vars)
  BY NextEdits
<1> QED
  BY <1>1, <1>2, ShellInv, PTL DEF Spec, ImplementsEditor, Editor!Spec
=============================================================================
