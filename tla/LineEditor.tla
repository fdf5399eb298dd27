------------------------------ MODULE LineEditor ------------------------------
(***************************************************************************)
(* What editing a command line of the kernel shell means, without buffers, *)
(* loops and screen: a text and a place in it.  Characters overwrite what  *)
(* is at the place, the arrows move within the text, backspace removes the *)
(* character before the place, and Enter gives the first two words to the  *)
(* shell.  The last character the line has room for discards the line.     *)
(* Shell is shown to implement this module.                                *)
(***************************************************************************)
EXTENDS Naturals, Sequences, FiniteSets

CONSTANTS Chars, MaxCommand, MaxToken

VARIABLES
  text,  \* the line
  pos,   \* how many of its characters are before the place
  ran    \* the words given to the shell by the last step, or none

vars == <<text, pos, ran>>

Space == " "

\* Where the words of t begin.
Starts(t) == {k \in 1 .. Len(t) : t[k] # Space /\ (k = 1 \/ t[k - 1] = Space)}
\* The n-th word of t, of which no more than MaxToken characters count.
Word(t, n) ==
  IF Cardinality(Starts(t)) < n THEN <<>>
  ELSE LET from == CHOOSE k \in Starts(t) : Cardinality({j \in Starts(t) : j <= k}) = n
           ends == CHOOSE e \in from .. Len(t) :
                     /\ \A j \in from .. e : t[j] # Space
                     /\ e = Len(t) \/ t[e + 1] = Space \/ e = from + MaxToken - 1
                     /\ e < from + MaxToken
       IN  SubSeq(t, from, ends)

Init == text = <<>> /\ pos = 0 /\ ran = <<>>

Discard == text' = <<>> /\ pos' = 0

Type ==
  /\ pos + 1 < MaxCommand
  /\ \E c \in Chars :
       text' = IF pos < Len(text) THEN [text EXCEPT ![pos + 1] = c] ELSE Append(text, c)
  /\ pos' = pos + 1
  /\ ran' = <<>>

TypeLast ==
  /\ pos + 1 = MaxCommand
  /\ Discard
  /\ ran' = <<>>

Left ==
  /\ pos > 0
  /\ pos' = pos - 1
  /\ ran' = <<>>
  /\ UNCHANGED text

Right ==
  /\ pos < Len(text)
  /\ pos' = pos + 1
  /\ ran' = <<>>
  /\ UNCHANGED text

Backspace ==
  /\ pos > 0
  /\ text' = SubSeq(text, 1, pos - 1) \o SubSeq(text, pos + 1, Len(text))
  /\ pos' = pos - 1
  /\ ran' = <<>>

Ignored == ran' = <<>> /\ UNCHANGED <<text, pos>>

Enter ==
  /\ ran' = <<Word(text, 1), Word(text, 2)>>
  /\ Discard

Next == Type \/ TypeLast \/ Left \/ Right \/ Backspace \/ Ignored \/ Enter

Spec == Init /\ [][Next]_vars
=============================================================================
