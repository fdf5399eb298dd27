---------------------------- MODULE KeyboardProofs ----------------------------
(***************************************************************************)
(* get_monitor_char answers with nothing but what was typed while it       *)
(* waited, or one of the slips Keyboard names, for every set of keys,      *)
(* however many are pressed, however fast, and whenever their interrupts   *)
(* come.                                                                   *)
(***************************************************************************)
EXTENDS Keyboard, SequenceTheorems, TLAPS

-----------------------------------------------------------------------------
(* The tables *)

LEMMA Values ==
  ASSUME NEW s \in Listed
  PROVE  /\ KeyValue[s] \in Nat /\ KeyValue[s] >= 8
         /\ StdChar(s) \in Chars
         /\ KeyValue[s] < 256 => StdChar(s) = KeyValue[s]
         /\ KeyValue[s] >= 256 => StdChar(s) <= 18 /\ ~IsOnKeypad(s)
<1>1. KeyValue[s] \in Nat /\ KeyValue[s] >= 8
  BY DEF Listed, KeyValue
<1>2. KeyValue[s] >= 256 => KeyValue[s] % 256 <= 18 /\ ~IsOnKeypad(s)
  BY DEF Listed, KeyValue, IsOnKeypad
<1>3. KeyValue[s] % 256 \in 0 .. 255
  BY <1>1
<1>4. KeyValue[s] < 256 => KeyValue[s] % 256 = KeyValue[s]
  BY <1>1
<1> QED
  BY <1>1, <1>2, <1>3, <1>4 DEF StdChar, Chars

\* Letters are not on the keypad, and the digits that are arrows are 4 and 6.
LEMMA KeypadValues ==
  /\ \A s \in Listed : IsAlphabet(KeyValue[s]) => s \notin 71 .. 82
  /\ KeyValue[Keypad4] = 52 /\ KeyValue[Keypad6] = 54
<1>1. \A s \in Listed : KeyValue[s] >= 97 /\ KeyValue[s] <= 122 => s \notin 71 .. 82
  BY DEF Listed, KeyValue
<1>2. KeyValue[75] = 52 /\ KeyValue[77] = 54
  BY DEF KeyValue
<1> QED
  BY <1>1, <1>2 DEF Keypad4, Keypad6, IsAlphabet

\* The switch gives characters, and has those of keypad 4 and 6.
LEMMA SignType ==
  ASSUME NEW c, HasSign(c)
  PROVE  Sign(c) \in Chars \ {NoChar}
<1> DEFINE i == CHOOSE i \in 1 .. 21 : Switched[i] = c
<1>1. i \in 1 .. 21
  BY DEF HasSign
<1> HIDE DEF i
<1>2. Becomes[i] \in 1 .. 126
  BY <1>1 DEF Becomes
<1>3. Sign(c) = Becomes[i]
  BY DEF Sign, i
<1> QED
  BY <1>2, <1>3 DEF Chars, NoChar

LEMMA SignsOfDigits == HasSign(52) /\ HasSign(54)
<1>1. Switched[4] = 52 /\ Switched[6] = 54
  BY DEF Switched
<1> QED
  BY <1>1 DEF HasSign

\* What the cast leaves of a key that is no character has no capital and no sign.
LEMMA NoSignOfCut ==
  ASSUME NEW c, c <= 18, c \in Nat
  PROVE  ~HasSign(c) /\ ~IsAlphabet(c)
<1>1. \A i \in 1 .. 21 : Switched[i] >= 39 /\ Switched[i] \in Nat
  BY DEF Switched
<1> QED
  BY <1>1 DEF HasSign, IsAlphabet

KbdType == [shift : BOOLEAN, caps : BOOLEAN, num : BOOLEAN, char : Chars, scan : 0 .. Extended]
Mods(k) == [shift |-> k.shift, caps |-> k.caps, num |-> k.num]

LEMMA ModsType ==
  ASSUME NEW k \in KbdType
  PROVE  /\ Mods(k) \in Modifier
         /\ Mods(k).shift = k.shift /\ Mods(k).caps = k.caps /\ Mods(k).num = k.num
         /\ k.shift \in BOOLEAN /\ k.caps \in BOOLEAN /\ k.num \in BOOLEAN /\ k.char \in Chars
  BY DEF KbdType, Mods, Modifier

\* What the characters and the scan codes of a press can be taken for.
Answers(k, s, m) ==
  /\ Meaning(s, m) \subseteq Chars \ {NoChar}
  /\ TakenFor(s, m) \subseteq Chars \ {NoChar}
  /\ Mixed(s, m) \subseteq Chars \ {NoChar}
  /\ NewChar(k, s) \in Chars
  /\ Repeats(s, m) => NewChar(k, s) = k.char /\ s # Keypad4 /\ s # Keypad6
  /\ ~Repeats(s, m) =>
       /\ NewChar(k, s) \in TakenFor(s, m) \cup Mixed(s, m) \cup {NoChar}
       /\ s = Keypad4 => LeftArrow \in TakenFor(s, m) \cup Mixed(s, m)
       /\ s = Keypad6 => RightArrow \in TakenFor(s, m) \cup Mixed(s, m)
       /\ Answer(NewChar(k, s), s) \in
            (IF TakenFor(s, m) = {} THEN {NoChar} ELSE TakenFor(s, m))

LEMMA KeypadArrow ==
  ASSUME NEW k \in KbdType, NEW s \in {Keypad4, Keypad6}
  PROVE  Answers(k, s, Mods(k))
<1> DEFINE m == Mods(k)
<1>1. /\ m.shift = k.shift /\ m.caps = k.caps /\ m.num = k.num
      /\ k.shift \in BOOLEAN /\ k.num \in BOOLEAN /\ k.char \in Chars
  BY ModsType
<1> SUFFICES Answers(k, s, m)
  OBVIOUS
<1> HIDE DEF m
<1> DEFINE c == IF s = Keypad4 THEN 52 ELSE 54
           a == IF s = Keypad4 THEN LeftArrow ELSE RightArrow
<1>2. /\ s \in Listed /\ s \in Plain /\ s \notin Modifiers /\ s # KeypadMinus
      /\ IsOnKeypad(s) /\ s \in KeypadDigits
  BY DEF Listed, Plain, Modifiers, Shifts, LShift, RShift, CapsLock, NumLock, KeypadMinus,
         IsOnKeypad, KeypadDigits, Keypad4, Keypad6
<1>3. KeyValue[s] = c /\ StdChar(s) = c
  BY <1>2, KeypadValues, Values DEF Keypad4, Keypad6
<1>4. Arrows(s) = {a} /\ a \in Chars \ {NoChar} /\ c \in Chars \ {NoChar} /\ c # a
  BY DEF Arrows, LeftArrow, RightArrow, Chars, NoChar, Keypad4, Keypad6
<1>5. ~IsAlphabet(c) /\ HasSign(c) /\ Sign(c) \in Chars \ {NoChar} /\ ~(c >= 256)
  BY SignsOfDigits, SignType DEF IsAlphabet
<1>6. ~Repeats(s, m) /\ ~IsCut(s) /\ ~Unanswered(s, m)
  BY <1>2, <1>3, <1>5 DEF Repeats, IsCut, Unanswered
<1>7. \A d : Answer(d, s) = IF d = c THEN c ELSE a
  BY DEF Answer, Keypad4, Keypad6
<1>8. Answer(c, s) = c /\ Answer(NoChar, s) = a
  BY <1>4, <1>7
<1>9. TakenFor(s, m) = Meaning(s, m)
  BY <1>6 DEF TakenFor
<1>10. a \in {LeftArrow, RightArrow} /\ (s = Keypad4 => a = LeftArrow) /\ (s = Keypad6 => a = RightArrow)
  BY DEF Keypad4, Keypad6
<1>11. CASE m.shift
  <2>1. Meaning(s, m) = {a}
    BY <1>2, <1>3, <1>4, <1>5, <1>11 DEF Meaning
  <2>2. Mixed(s, m) = {Sign(c)}
    BY <1>3, <1>4, <1>11 DEF Mixed
  <2>3. NewChar(k, s) = Sign(c)
    BY <1>1, <1>2, <1>3, <1>5, <1>11 DEF NewChar
  <2>4. Sign(c) # c
    <3>1. \A i \in 1 .. 21 : Switched[i] = 52 => i = 4
      BY DEF Switched
    <3>2. \A i \in 1 .. 21 : Switched[i] = 54 => i = 6
      BY DEF Switched
    <3>3. Becomes[4] = 36 /\ Becomes[6] = 94
      BY DEF Becomes
    <3>4. Switched[4] = 52 /\ Switched[6] = 54
      BY DEF Switched
    <3>5. Sign(52) = Becomes[4]
      BY <3>1, <3>4 DEF Sign
    <3>6. Sign(54) = Becomes[6]
      BY <3>2, <3>4 DEF Sign
    <3> QED
      BY <3>3, <3>5, <3>6
  <2>5. Answer(Sign(c), s) = a
    BY <1>7, <2>4
  <2> HIDE DEF c, a
  <2> QED
    BY <1>4, <1>5, <1>6, <1>9, <1>10, <2>1, <2>2, <2>3, <2>5 DEF Answers
<1>12. CASE ~m.shift /\ m.num
  <2>1. Meaning(s, m) = {c}
    BY <1>2, <1>3, <1>4, <1>5, <1>12 DEF Meaning
  <2>2. Mixed(s, m) = {a}
    BY <1>3, <1>4, <1>12 DEF Mixed
  <2>3. NewChar(k, s) = c
    BY <1>1, <1>2, <1>3, <1>5, <1>12 DEF NewChar
  <2> HIDE DEF c, a
  <2> QED
    BY <1>4, <1>6, <1>8, <1>9, <1>10, <2>1, <2>2, <2>3 DEF Answers
<1>13. CASE ~m.shift /\ ~m.num
  <2>1. Meaning(s, m) = {a}
    BY <1>2, <1>3, <1>4, <1>5, <1>13 DEF Meaning
  <2>2. Mixed(s, m) = {}
    BY <1>3, <1>4, <1>13 DEF Mixed
  <2>3. NewChar(k, s) = NoChar
    BY <1>1, <1>2, <1>3, <1>5, <1>13 DEF NewChar
  <2>4. NoChar \in Chars
    BY DEF NoChar, Chars
  <2> HIDE DEF c, a
  <2> QED
    BY <1>4, <1>6, <1>8, <1>9, <1>10, <2>1, <2>2, <2>3, <2>4 DEF Answers
<1> QED
  BY <1>1, <1>11, <1>12, <1>13

\* Every make code, with the modifiers as they are, is answered as it is taken for.
LEMMA PressAnswers ==
  ASSUME NEW k \in KbdType, NEW s \in Plain
  PROVE  Answers(k, s, Mods(k))
<1> DEFINE m == Mods(k)
<1>1. /\ m.shift = k.shift /\ m.caps = k.caps /\ m.num = k.num
      /\ k.shift \in BOOLEAN /\ k.caps \in BOOLEAN /\ k.num \in BOOLEAN /\ k.char \in Chars
  BY ModsType
<1> SUFFICES ASSUME s # Keypad4, s # Keypad6
             PROVE  Answers(k, s, m)
  BY KeypadArrow
<1> HIDE DEF m
<1>2. Arrows(s) = {} /\ Mixed(s, m) = {}
  BY DEF Arrows, Mixed
<1>3. \A d : Answer(d, s) = d
  BY DEF Answer
<1>4. NoChar \in Chars
  BY DEF NoChar, Chars
<1>5. \A c \in Nat : IsAlphabet(c) => Capital(c) \in 65 .. 90
  BY DEF IsAlphabet, Capital
<1>6. CASE s \notin Listed
  <2>1. s \notin Modifiers /\ s # KeypadMinus
    BY <1>6 DEF Listed, Modifiers, Shifts, LShift, RShift, CapsLock, NumLock, KeypadMinus
  <2>2. ~Repeats(s, m) /\ ~Unanswered(s, m) /\ ~IsCut(s) /\ Meaning(s, m) = {}
    BY <1>6, <2>1 DEF Repeats, Unanswered, IsCut, Meaning
  <2>4. TakenFor(s, m) = {}
    BY <2>2 DEF TakenFor
  <2>5. NewChar(k, s) = NoChar
    BY <1>6, <2>1 DEF NewChar
  <2>3. TakenFor(s, m) = {} /\ NewChar(k, s) = NoChar
    BY <2>4, <2>5
  <2> QED
    BY <1>2, <1>3, <1>4, <2>2, <2>3 DEF Answers
<1>7. CASE s \in Modifiers
  <2>1. s \in Listed
    BY <1>7 DEF Listed, Modifiers, Shifts, LShift, RShift, CapsLock, NumLock
  <2>2. Repeats(s, m) /\ Meaning(s, m) = {} /\ TakenFor(s, m) = {}
    BY <1>7 DEF Repeats, Meaning, TakenFor
  <2>3. NewChar(k, s) = k.char
    BY <1>7, <2>1 DEF NewChar
  <2> QED
    BY <1>1, <1>2, <2>2, <2>3 DEF Answers
<1>8. CASE s \in Listed \ Modifiers
  <2> DEFINE v == KeyValue[s]
             c == StdChar(s)
  <2>1. /\ v \in Nat /\ v >= 8 /\ c \in Chars
        /\ v < 256 => c = v
        /\ v >= 256 => c <= 18 /\ ~IsOnKeypad(s)
    BY <1>8, Values
  <2>2. s = KeypadMinus => v < 256 /\ ~IsAlphabet(v)
    <3>1. KeyValue[74] = 45
      BY DEF KeyValue
    <3> QED
      BY <3>1 DEF KeypadMinus, IsAlphabet
  <2>3. IsAlphabet(v) => ~IsOnKeypad(s) /\ s \notin KeypadDigits
    <3>1. IsAlphabet(v) => s \notin 71 .. 82
      BY <1>8, KeypadValues
    <3>2. s \in KeypadDigits => s \in 71 .. 82
      BY DEF KeypadDigits
    <3>3. IsOnKeypad(s) => s \in 71 .. 82
      BY <1>8 DEF IsOnKeypad, Listed
    <3> HIDE DEF v
    <3> QED
      BY <3>1, <3>2, <3>3
  <2>4. IsOnKeypad(s) <=> s \in KeypadDigits \/ s = KeypadMinus
    BY <1>8 DEF IsOnKeypad, KeypadDigits, KeypadMinus, Listed
  <2>5. IsAlphabet(v) => v < 256
    BY <2>1 DEF IsAlphabet
  <2>6. HasSign(c) => Sign(c) \in Chars \ {NoChar}
    BY SignType
  <2>7. IsCut(s) <=> v >= 256
    BY <1>8 DEF IsCut
  <2>8. Repeats(s, m) <=> m.shift /\ ~IsAlphabet(c) /\ ~HasSign(c)
    BY <1>1, <1>8 DEF Repeats
  <2>9. Unanswered(s, m) <=> s = KeypadMinus /\ ~m.num /\ ~m.shift
    BY DEF Unanswered
  <2>10. KeyValue[s] % 256 = c
    BY DEF StdChar
  <2> HIDE DEF v, c
  <2>11. CASE v >= 256
    <3>1. ~HasSign(c) /\ ~IsAlphabet(c) /\ s # KeypadMinus
      BY <2>1, <2>2, <2>11, NoSignOfCut DEF Chars
    <3>2. Meaning(s, m) = {}
      BY <2>11 DEF Meaning, v
    <3>3. CASE m.shift
      <4>1. Repeats(s, m) /\ TakenFor(s, m) = {}
        BY <2>8, <3>1, <3>3 DEF TakenFor
      <4>2. NewChar(k, s) = k.char
        BY <1>1, <1>8, <3>1, <3>3 DEF NewChar, c
      <4> QED
        BY <1>1, <1>2, <3>2, <4>1, <4>2 DEF Answers
    <3>4. CASE ~m.shift
      <4>1. ~Repeats(s, m) /\ ~Unanswered(s, m)
        BY <2>8, <2>9, <3>1, <3>4
      <4>2. TakenFor(s, m) = {c} \ {NoChar}
        BY <2>7, <2>10, <2>11, <4>1 DEF TakenFor
      <4>3. NewChar(k, s) = c
        BY <1>1, <1>8, <2>1, <2>11, <3>1, <3>4 DEF NewChar, c
      <4>4. c \in Chars
        BY <2>1
      <4> QED
        BY <1>2, <1>3, <3>2, <4>1, <4>2, <4>3, <4>4 DEF Answers
    <3> QED
      BY <1>1, <3>3, <3>4
  <2>12. CASE IsAlphabet(v)
    <3> DEFINE d == IF m.shift # m.caps THEN Capital(v) ELSE v
    <3>1. v < 256 /\ ~(v >= 256) /\ c = v
      BY <2>1, <2>5, <2>12
    <3>2. Meaning(s, m) = {d}
      BY <1>8, <2>12, <3>1 DEF Meaning, v
    <3>3. ~Repeats(s, m) /\ ~Unanswered(s, m) /\ ~IsCut(s)
      BY <2>2, <2>7, <2>8, <2>9, <2>12, <3>1
    <3>4. TakenFor(s, m) = {d}
      BY <3>2, <3>3 DEF TakenFor
    <3>5. NewChar(k, s) = d
      BY <1>1, <1>8, <2>12, <3>1 DEF NewChar, c
    <3>6. d \in Chars \ {NoChar}
      BY <1>5, <2>1, <2>12, <3>1 DEF Chars, NoChar
    <3> HIDE DEF d
    <3> QED
      BY <1>2, <1>3, <3>2, <3>3, <3>4, <3>5, <3>6 DEF Answers
  <2>13. CASE v < 256 /\ ~IsAlphabet(v) /\ m.shift
    <3>1. ~(v >= 256) /\ c = v
      BY <2>1, <2>13
    <3>2. Meaning(s, m) = {IF HasSign(v) THEN Sign(v) ELSE v}
      <4>1. ~((m.shift /\ Arrows(s) # {}) \/ (~m.shift /\ ~m.num /\ s \in KeypadDigits))
        BY <1>2, <2>13
      <4>2. Meaning(s, m) = {IF m.shift /\ HasSign(v) THEN Sign(v) ELSE v}
        BY <1>8, <2>13, <3>1, <4>1 DEF Meaning, v
      <4> QED
        BY <2>13, <4>2
    <3>3. ~Unanswered(s, m) /\ ~IsCut(s)
      BY <2>7, <2>9, <2>13, <3>1
    <3>4. v \in Chars \ {NoChar}
      BY <2>1, <3>1 DEF NoChar
    <3>5. CASE HasSign(v)
      <4>1. ~Repeats(s, m)
        BY <2>8, <3>1, <3>5
      <4>2. TakenFor(s, m) = {Sign(v)}
        BY <3>2, <3>3, <3>5, <4>1 DEF TakenFor
      <4>3. NewChar(k, s) = Sign(v)
        BY <1>1, <1>8, <2>13, <3>1, <3>5 DEF NewChar, c
      <4> QED
        BY <1>2, <1>3, <2>6, <3>1, <3>2, <3>5, <4>1, <4>2, <4>3 DEF Answers
    <3>6. CASE ~HasSign(v)
      <4>1. Repeats(s, m)
        BY <2>8, <2>13, <3>1, <3>6
      <4>2. TakenFor(s, m) = {}
        BY <4>1 DEF TakenFor
      <4>3. NewChar(k, s) = k.char
        BY <1>1, <1>8, <2>13, <3>1, <3>6 DEF NewChar, c
      <4> QED
        BY <1>1, <1>2, <3>2, <3>4, <3>6, <4>1, <4>2, <4>3 DEF Answers
    <3> QED
      BY <3>5, <3>6
  <2>14. CASE v < 256 /\ ~IsAlphabet(v) /\ ~m.shift
    <3>1. ~(v >= 256) /\ c = v /\ v \in Chars \ {NoChar}
      BY <2>1, <2>14 DEF NoChar
    <3>2. ~Repeats(s, m) /\ ~IsCut(s)
      BY <2>7, <2>8, <2>14, <3>1
    <3>3. NewChar(k, s) = IF IsOnKeypad(s) /\ ~m.num THEN NoChar ELSE v
      BY <1>1, <1>8, <2>14, <3>1 DEF NewChar, c
    <3>4. Meaning(s, m) = IF s \in KeypadDigits /\ ~m.num THEN {} ELSE {v}
      <4>1. CASE s \in KeypadDigits /\ ~m.num
        BY <1>2, <1>8, <2>14, <3>1, <4>1 DEF Meaning, v
      <4>2. CASE ~(s \in KeypadDigits /\ ~m.num)
        <5>1. Meaning(s, m) = {IF m.shift /\ HasSign(v) THEN Sign(v) ELSE v}
          BY <1>2, <1>8, <2>14, <3>1, <4>2 DEF Meaning, v
        <5> QED
          BY <2>14, <4>2, <5>1
      <4> QED
        BY <4>1, <4>2
    <3>5. CASE s = KeypadMinus /\ ~m.num
      <4>3. Unanswered(s, m)
        BY <2>9, <2>14, <3>5
      <4>1. TakenFor(s, m) = {}
        BY <3>2, <4>3, Zenon DEF TakenFor
      <4>2. NewChar(k, s) = NoChar
        BY <2>4, <3>3, <3>5
      <4> QED
        BY <1>2, <1>3, <1>4, <3>1, <3>2, <3>4, <4>1, <4>2 DEF Answers
    <3>6. CASE ~(s = KeypadMinus /\ ~m.num)
      <4>1. ~Unanswered(s, m)
        BY <2>9, <3>6
      <4>2. TakenFor(s, m) = Meaning(s, m)
        BY <3>2, <4>1 DEF TakenFor
      <4>3. CASE s \in KeypadDigits /\ ~m.num
        <5>1. NewChar(k, s) = NoChar /\ Meaning(s, m) = {}
          BY <2>4, <3>3, <3>4, <4>3
        <5> QED
          BY <1>2, <1>3, <1>4, <3>2, <4>2, <5>1 DEF Answers
      <4>4. CASE ~(s \in KeypadDigits /\ ~m.num)
        <5>1. NewChar(k, s) = v /\ Meaning(s, m) = {v}
          BY <2>4, <3>3, <3>4, <3>6, <4>4
        <5> QED
          BY <1>2, <1>3, <3>1, <3>2, <4>2, <5>1 DEF Answers
      <4> QED
        BY <4>3, <4>4
    <3> QED
      BY <3>5, <3>6
  <2> QED
    BY <1>1, <2>1, <2>5, <2>11, <2>12, <2>13, <2>14
<1> QED
  BY <1>6, <1>7, <1>8

-----------------------------------------------------------------------------
(* The bytes on the wire *)

\* The byte is one of its key.
Coded(b) ==
  \/ b.code = Extended /\ b.key > 1000
  \/ b.code = (b.key % 1000) + (IF b.make THEN 0 ELSE Break)
After(b) == Turned(b.typed, b.key, b.make)
Follows(b, c) ==
  /\ c.typed = After(b)
  /\ b.code = Extended => c.code # Extended /\ c.key = b.key /\ c.make = b.make
Ends(b, t) == b.code # Extended /\ After(b) = t

\* The bytes of q take the modifiers from m to t.
Linked(q, m, t) ==
  /\ \A i \in 1 .. Len(q) : Coded(q[i])
  /\ \A i \in 1 .. Len(q) - 1 : Follows(q[i], q[i + 1])
  /\ q = <<>> => m = t
  /\ q # <<>> => q[1].typed = m /\ Ends(q[Len(q)], t)

\* The codes of a key's bytes, and that of 0xe0 apart from them.
LEMMA KeyCodes ==
  ASSUME NEW k \in Keys
  PROVE  /\ k \in Nat /\ k % 1000 \in Plain
         /\ k > 1000 => k % 1000 = k - 1000 /\ k % 1000 \notin Modifiers /\ k \notin Modifiers
                        /\ k = Beside(k % 1000) /\ k \notin Plain
         /\ ~(k > 1000) => k % 1000 = k /\ k \in Plain
<1>1. CASE k \in Plain
  <2>1. k \in Nat /\ k < 1000 /\ k > 0
    BY <1>1 DEF Plain
  <2>2. k % 1000 = k
    BY <2>1
  <2> QED
    BY <1>1, <2>1, <2>2
<1>2. CASE k \in {Beside(c) : c \in Plain \ Modifiers}
  <2>1. PICK c \in Plain \ Modifiers : k = 1000 + c
    BY <1>2 DEF Beside
  <2>2. c \in 1 .. 93
    BY DEF Plain
  <2>3. (1000 + c) % 1000 = c
    BY <2>2
  <2>4. k \in Nat /\ k > 1000 /\ k - 1000 = c /\ k % 1000 = c
    BY <2>1, <2>2, <2>3
  <2>5. k \notin Modifiers /\ k \notin Plain
    BY <2>4, <2>2 DEF Plain, Modifiers, Shifts, LShift, RShift, CapsLock, NumLock
  <2> QED
    BY <2>1, <2>4, <2>5 DEF Beside
<1> QED
  BY <1>1, <1>2, KeysAssumption

\* An extended key leaves the modifiers alone.
LEMMA AfterExtended ==
  ASSUME NEW k, k \notin Modifiers, NEW make \in BOOLEAN, NEW m \in Modifier
  PROVE  Turned(m, k, make) = m
<1>1. k \notin Shifts /\ k # CapsLock /\ k # NumLock
  BY DEF Modifiers
<1>2. Turned(m, k, make) = [shift |-> m.shift, caps |-> m.caps, num |-> m.num]
  BY <1>1 DEF Turned
<1> QED
  BY <1>2 DEF Modifier

LEMMA TurnedType ==
  ASSUME NEW k, NEW make \in BOOLEAN, NEW m \in Modifier
  PROVE  Turned(m, k, make) \in Modifier
  BY DEF Turned, Modifier

\* A byte put behind others that were typed before it.
LEMMA LinkedAppend ==
  ASSUME NEW q \in Seq(Byte), NEW m, NEW t, Linked(q, m, t),
         NEW b \in Byte, Coded(b), b.typed = t, b.code # Extended
  PROVE  Linked(q \o <<b>>, m, After(b))
<1> DEFINE r == q \o <<b>>
           n == Len(q)
<1>1. /\ n \in Nat /\ Len(r) = n + 1 /\ r[n + 1] = b /\ r # <<>>
      /\ \A i \in 1 .. n : r[i] = q[i]
  OBVIOUS
<1> HIDE DEF r
<1>2. \A i \in 1 .. Len(r) : Coded(r[i])
  <2> SUFFICES ASSUME NEW i \in 1 .. n + 1 PROVE Coded(r[i])
    BY <1>1
  <2>1. CASE i = n + 1
    BY <1>1, <2>1
  <2>2. CASE i \in 1 .. n
    BY <1>1, <2>2 DEF Linked
  <2> QED
    BY <1>1, <2>1, <2>2
<1>3. \A i \in 1 .. Len(r) - 1 : Follows(r[i], r[i + 1])
  <2> SUFFICES ASSUME NEW i \in 1 .. n PROVE Follows(r[i], r[i + 1])
    BY <1>1
  <2>1. CASE i = n
    <3>1. q # <<>>
      BY <2>1
    <3>2. Ends(q[n], t)
      BY <3>1 DEF Linked
    <3>3. r[i] = q[n] /\ r[i + 1] = b
      BY <1>1, <2>1
    <3> HIDE DEF n
    <3> QED
      BY <3>2, <3>3 DEF Follows, Ends
  <2>2. CASE i \in 1 .. n - 1
    <3>1. r[i] = q[i] /\ r[i + 1] = q[i + 1]
      BY <1>1, <2>2
    <3> QED
      BY <2>2, <3>1 DEF Linked
  <2> QED
    BY <1>1, <2>1, <2>2
<1>4. r[1].typed = m
  <2>1. CASE q = <<>>
    BY <1>1, <2>1 DEF Linked
  <2>2. CASE q # <<>>
    <3>1. 1 \in 1 .. n
      BY <2>2
    <3> QED
      BY <1>1, <2>2, <3>1 DEF Linked
  <2> QED
    BY <2>1, <2>2
<1>5. Ends(r[Len(r)], After(b))
  BY <1>1 DEF Ends
<1> HIDE DEF n
<1>6. Linked(r, m, After(b))
  BY <1>1, <1>2, <1>3, <1>4, <1>5 DEF Linked
<1> QED
  BY <1>6 DEF r

\* An extended key's two bytes come one behind the other.
LEMMA LinkedAppendTwo ==
  ASSUME NEW q \in Seq(Byte), NEW m, NEW t, Linked(q, m, t),
         NEW b \in Byte, NEW c \in Byte, Coded(b), Coded(c), b.typed = t, After(b) = t,
         b.code = Extended, Follows(b, c), c.code # Extended, After(c) = t
  PROVE  Linked(q \o <<b, c>>, m, t)
<1> DEFINE r == q \o <<b, c>>
           n == Len(q)
<1>1. /\ n \in Nat /\ Len(r) = n + 2 /\ r[n + 1] = b /\ r[n + 2] = c /\ r # <<>>
      /\ \A i \in 1 .. n : r[i] = q[i]
  OBVIOUS
<1> HIDE DEF r
<1>2. \A i \in 1 .. Len(r) : Coded(r[i])
  <2> SUFFICES ASSUME NEW i \in 1 .. n + 2 PROVE Coded(r[i])
    BY <1>1
  <2>1. CASE i = n + 1 \/ i = n + 2
    BY <1>1, <2>1
  <2>2. CASE i \in 1 .. n
    BY <1>1, <2>2 DEF Linked
  <2> QED
    BY <1>1, <2>1, <2>2
<1>3. \A i \in 1 .. Len(r) - 1 : Follows(r[i], r[i + 1])
  <2> SUFFICES ASSUME NEW i \in 1 .. n + 1 PROVE Follows(r[i], r[i + 1])
    BY <1>1
  <2>1. CASE i = n /\ n # 0
    <3>1. q # <<>>
      BY <2>1
    <3>2. Ends(q[n], t)
      BY <3>1 DEF Linked
    <3>3. r[i] = q[n] /\ r[i + 1] = b
      BY <1>1, <2>1
    <3> HIDE DEF n
    <3> QED
      BY <3>2, <3>3 DEF Follows, Ends
  <2>2. CASE i \in 1 .. n - 1
    <3>1. r[i] = q[i] /\ r[i + 1] = q[i + 1]
      BY <1>1, <2>2
    <3> QED
      BY <2>2, <3>1 DEF Linked
  <2>3. CASE i = n + 1
    <3>1. i + 1 = n + 2
      BY <1>1, <2>3
    <3>2. r[i] = b /\ r[i + 1] = c
      BY <1>1, <2>3, <3>1
    <3> QED
      BY <3>2
  <2> QED
    BY <1>1, <2>1, <2>2, <2>3
<1>4. r[1].typed = m
  <2>1. CASE q = <<>>
    <3>1. r[1] = b
      BY <1>1, <2>1
    <3> QED
      BY <2>1, <3>1 DEF Linked
  <2>2. CASE q # <<>>
    <3>1. 1 \in 1 .. n
      BY <2>2
    <3> QED
      BY <1>1, <2>2, <3>1 DEF Linked
  <2> QED
    BY <2>1, <2>2
<1>5. Ends(r[Len(r)], t)
  BY <1>1 DEF Ends
<1> HIDE DEF n
<1>6. Linked(r, m, t)
  BY <1>1, <1>2, <1>3, <1>4, <1>5 DEF Linked
<1> QED
  BY <1>6 DEF r

\* The byte in front taken away.
LEMMA LinkedTail ==
  ASSUME NEW q \in Seq(Byte), q # <<>>, NEW m, NEW t, Linked(q, m, t)
  PROVE  /\ Head(q) \in Byte /\ Coded(Head(q)) /\ Head(q).typed = m
         /\ Tail(q) \in Seq(Byte) /\ Len(Tail(q)) = Len(q) - 1
         /\ Linked(Tail(q), After(Head(q)), t)
         /\ Tail(q) # <<>> => Follows(Head(q), Tail(q)[1])
<1> DEFINE r == Tail(q)
           n == Len(q)
           h == Head(q)
<1>1. /\ n \in Nat /\ n >= 1 /\ r \in Seq(Byte) /\ Len(r) = n - 1
      /\ h = q[1] /\ h \in Byte
      /\ \A i \in 1 .. n - 1 : r[i] = q[i + 1]
  OBVIOUS
<1>2. Coded(h) /\ h.typed = m /\ Ends(q[n], t)
  BY <1>1 DEF Linked
<1>3. \A i \in 1 .. n - 1 : Follows(q[i], q[i + 1]) /\ Coded(q[i + 1])
  BY <1>1 DEF Linked
<1> HIDE DEF r, h, n
<1>4. \A i \in 1 .. Len(r) : Coded(r[i])
  BY <1>1, <1>3
<1>5. \A i \in 1 .. Len(r) - 1 : Follows(r[i], r[i + 1])
  <2> SUFFICES ASSUME NEW i \in 1 .. n - 2 PROVE Follows(r[i], r[i + 1])
    BY <1>1
  <2>1. i \in 1 .. n - 1 /\ i + 1 \in 1 .. n - 1
    BY <1>1
  <2>2. r[i] = q[i + 1] /\ r[i + 1] = q[(i + 1) + 1]
    BY <1>1, <2>1
  <2> QED
    BY <1>3, <2>1, <2>2
<1>6. r = <<>> => After(h) = t
  <2> SUFFICES ASSUME r = <<>> PROVE After(h) = t
    OBVIOUS
  <2>1. n = 1
    BY <1>1
  <2> QED
    BY <1>1, <1>2, <2>1 DEF Ends
<1>7. r # <<>> => Follows(h, r[1]) /\ r[1].typed = After(h) /\ Ends(r[Len(r)], t)
  <2> SUFFICES ASSUME r # <<>>
               PROVE  Follows(h, r[1]) /\ r[1].typed = After(h) /\ Ends(r[Len(r)], t)
    OBVIOUS
  <2>1. n - 1 >= 1
    BY <1>1
  <2>2. r[1] = q[2] /\ r[n - 1] = q[n]
    BY <1>1, <2>1
  <2>3. Follows(q[1], q[2])
    BY <1>1, <1>3, <2>1
  <2> QED
    BY <1>1, <1>2, <2>2, <2>3 DEF Follows
<1>8. Linked(r, After(h), t)
  BY <1>4, <1>5, <1>6, <1>7 DEF Linked
<1> QED
  BY <1>1, <1>2, <1>7, <1>8 DEF r, h, n

\* A byte read again is the second byte of an extended key, read before its
\* interrupt, and no modifier was read since.
ReadAgain ==
  irq /\ port = 0 =>
    /\ last \in Byte /\ Coded(last) /\ last.code # Extended /\ last.key > 1000
    /\ last.typed = Mods(kbd)

\* The bytes to come take the handler's modifiers to those that were typed.
Sent == Linked(wire, Mods(kbd), typed)

\* _latest_char tells of the press that is current, and once an interrupt was
\* handled since the flag was cleared that press is among those told of since.
TellsCurrent ==
  /\ kbd.char # NoChar => kbd.char \in current
  /\ heard >= 1 => current \subseteq meant \cup slips \cup again
  /\ heard >= 1 /\ kbd.scan = Keypad4 => LeftArrow \in meant \cup slips \cup again
  /\ heard >= 1 /\ kbd.scan = Keypad6 => RightArrow \in meant \cup slips \cup again

\* The foreground reads a character only after an interrupt.
Waited ==
  /\ flag => heard >= 1
  /\ pc \in {"taken", "getchar", "getscan"} => heard >= 1
  /\ x # NoChar => pc = "getscan" /\ x \in meant \cup slips \cup again

\* While one interrupt was handled since the flag was cleared, character and scan
\* code make what is due for its press, and so does the character already read.
OnePress ==
  heard = 1 => /\ Answer(kbd.char, kbd.scan) \in due
               /\ pc = "getscan" => x = kbd.char

HistoryType ==
  /\ heard \in 0 .. 2
  /\ meant \subseteq Chars /\ slips \subseteq Chars /\ again \subseteq Chars
  /\ current \subseteq Chars /\ due \subseteq Chars

Places == {"clear", "halt", "halted", "check", "taken", "getchar", "getscan", "returned"}

\* TypeOK in parts.
Types ==
  /\ down \subseteq Keys /\ events \in 0 .. MaxEvents /\ typed \in Modifier
  /\ wire \in Seq(Byte) /\ port \in 0 .. Len(wire) /\ last \in Byte \cup {NoByte}
  /\ irq \in BOOLEAN /\ flag \in BOOLEAN
  /\ kbd \in KbdType
  /\ pc \in Places
  /\ x \in Chars /\ answer \in Chars
  /\ HistoryType

History == TellsCurrent /\ Waited /\ AnswerIsAKey /\ OnePress
Inv == Types /\ Sent /\ ReadAgain /\ History

LEMMA TypesOK == Types <=> TypeOK
  BY DEF Types, TypeOK, HistoryType, KbdType, Places

LEMMA BytesType ==
  ASSUME NEW k \in Keys, NEW make \in BOOLEAN, NEW m \in Modifier,
         NEW q \in Seq(Byte), NEW n, Linked(q, n, m)
  PROVE  /\ q \o Bytes(k, make, m) \in Seq(Byte)
         /\ Len(q \o Bytes(k, make, m)) >= Len(q)
         /\ Linked(q \o Bytes(k, make, m), n, Turned(m, k, make))
<1> DEFINE byte(c)  == [code |-> c, key |-> k, make |-> make, typed |-> m]
           broken(c) == IF make THEN c ELSE c + Break
           s == k % 1000
<1>1. /\ k \in Nat /\ s \in 1 .. 93
      /\ k > 1000 => s = k - 1000 /\ k \notin Modifiers
      /\ ~(k > 1000) => s = k
  BY KeyCodes DEF Plain
<1>2. broken(s) \in 1 .. 221 /\ broken(s) # Extended
  BY <1>1 DEF Break, Extended
<1>3. byte(broken(s)) \in Byte /\ Coded(byte(broken(s)))
  <2>1. broken(s) \in 1 .. Extended
    BY <1>2 DEF Extended
  <2>2. broken(s) = (k % 1000) + (IF make THEN 0 ELSE Break)
    BY <1>1 DEF Break
  <2> HIDE DEF broken
  <2>3. byte(broken(s)) \in Byte
    BY <2>1 DEF Byte
  <2>4. Coded(byte(broken(s)))
    BY <2>2 DEF Coded
  <2> QED
    BY <2>3, <2>4
<1>4. After(byte(broken(s))) = Turned(m, k, make)
  BY DEF After
<1>5. CASE k > 1000
  <2>1. byte(Extended) \in Byte /\ Coded(byte(Extended))
    BY <1>5 DEF Byte, Coded, Extended
  <2>2. Turned(m, k, make) = m
    BY <1>1, <1>5, AfterExtended
  <2>3. After(byte(Extended)) = m
    BY <2>2 DEF After
  <2>4. Bytes(k, make, m) = <<byte(Extended), byte(broken(s))>>
    BY <1>1, <1>5 DEF Bytes
  <2>5. byte(Extended).code = Extended /\ byte(Extended).typed = m
    OBVIOUS
  <2>6. byte(broken(s)).code # Extended
    BY <1>2
  <2>7. Follows(byte(Extended), byte(broken(s)))
    BY <2>3, <2>6 DEF Follows
  <2>8. After(byte(broken(s))) = m
    BY <1>4, <2>2
  <2> HIDE DEF byte, broken
  <2>9. Linked(q \o <<byte(Extended), byte(broken(s))>>, n, m)
    BY <1>3, <2>1, <2>3, <2>5, <2>6, <2>7, <2>8, LinkedAppendTwo
  <2>10. q \o <<byte(Extended), byte(broken(s))>> \in Seq(Byte)
         /\ Len(q \o <<byte(Extended), byte(broken(s))>>) >= Len(q)
    BY <1>3, <2>1
  <2> QED
    BY <2>2, <2>4, <2>9, <2>10
<1>6. CASE ~(k > 1000)
  <2>1. Bytes(k, make, m) = <<byte(broken(s))>>
    BY <1>1, <1>6 DEF Bytes
  <2>2. byte(broken(s)).code # Extended /\ byte(broken(s)).typed = m
    BY <1>2
  <2> HIDE DEF byte, broken
  <2>3. Linked(q \o <<byte(broken(s))>>, n, Turned(m, k, make))
    BY <1>3, <1>4, <2>2, LinkedAppend
  <2>4. q \o <<byte(broken(s))>> \in Seq(Byte) /\ Len(q \o <<byte(broken(s))>>) >= Len(q)
    BY <1>3
  <2> QED
    BY <2>1, <2>3, <2>4
<1> QED
  BY <1>5, <1>6

\* A read of the controller's port.
Got(r, m, t) ==
  /\ r.byte \in Byte /\ Coded(r.byte) /\ r.byte.typed = m
  /\ r.rest \in Seq(Byte) /\ r.left \in 0 .. Len(r.rest)
  /\ Linked(r.rest, After(r.byte), t)
  /\ r.byte.code = Extended /\ r.left # 0 => Follows(r.byte, r.rest[1])

\* Reading the port when the controller has a byte.
LEMMA ReadGets ==
  ASSUME NEW q \in Seq(Byte), NEW n \in 1 .. Len(q), NEW stale, NEW m, NEW t, Linked(q, m, t)
  PROVE  Got(Read(q, n, stale), m, t) /\ Read(q, n, stale).left = n - 1
                                      /\ Read(q, n, stale).rest = Tail(q)
                                      /\ Read(q, n, stale).byte = Head(q)
<1>1. q # <<>> /\ n # 0
  OBVIOUS
<1>2. Read(q, n, stale) = [byte |-> Head(q), rest |-> Tail(q), left |-> n - 1]
  BY <1>1 DEF Read
<1>3. n - 1 \in 0 .. Len(Tail(q))
  BY <1>1
<1>4. n - 1 # 0 => Tail(q) # <<>>
  <2>1. Len(Tail(q)) = Len(q) - 1 /\ Tail(q) \in Seq(Byte)
    BY <1>1
  <2>2. n - 1 # 0 => Len(Tail(q)) # 0
    BY <2>1
  <2> QED
    BY <2>2
<1>5. /\ Head(q) \in Byte /\ Coded(Head(q)) /\ Head(q).typed = m
      /\ Tail(q) \in Seq(Byte)
      /\ Linked(Tail(q), After(Head(q)), t)
      /\ Tail(q) # <<>> => Follows(Head(q), Tail(q)[1])
  BY <1>1, LinkedTail
<1> QED
  BY <1>2, <1>3, <1>4, <1>5 DEF Got

\* The first byte an interrupt reads, new or read again.
LEMMA FirstGets ==
  ASSUME Inv, irq
  PROVE  /\ Got(Read(wire, port, last), Mods(kbd), typed)
         /\ Read(wire, port, last).byte.key > 1000 \/ port # 0
<1>1. /\ wire \in Seq(Byte) /\ port \in 0 .. Len(wire) /\ Linked(wire, Mods(kbd), typed)
      /\ Mods(kbd) \in Modifier
  BY ModsType DEF Inv, Types, Sent
<1>2. CASE port # 0
  <2>1. port \in 1 .. Len(wire)
    BY <1>1, <1>2
  <2> QED
    BY <1>1, <1>2, <2>1, ReadGets
<1>3. CASE port = 0
  <2>1. /\ last \in Byte /\ Coded(last) /\ last.code # Extended /\ last.key > 1000
        /\ last.typed = Mods(kbd)
    BY <1>3 DEF Inv, ReadAgain
  <2>2. Read(wire, port, last) = [byte |-> last, rest |-> wire, left |-> 0]
    BY <1>3 DEF Read
  <2>3. last.key \in Keys /\ last.make \in BOOLEAN
    BY <2>1 DEF Byte
  <2>4. last.key \notin Modifiers
    BY <2>1, <2>3, KeyCodes
  <2>5. After(last) = Mods(kbd)
    BY <1>1, <2>1, <2>3, <2>4, AfterExtended DEF After
  <2>6. 0 \in 0 .. Len(wire)
    BY <1>1
  <2> QED
    BY <1>1, <2>1, <2>2, <2>5, <2>6 DEF Got
<1> QED
  BY <1>2, <1>3

-----------------------------------------------------------------------------
(* The keyboard's interrupt *)

\* What the handler leaves in new, when it handles the press of k, if make says so.
Outcome(new, make, k, m) ==
  IF make
  THEN /\ TakenFor(k, m) \subseteq Chars /\ Mixed(k, m) \subseteq Chars
       /\ Repeats(k, m) => new.char = kbd.char /\ new.scan # Keypad4 /\ new.scan # Keypad6
       /\ ~Repeats(k, m) =>
            /\ new.char \in TakenFor(k, m) \cup Mixed(k, m) \cup {NoChar}
            /\ new.scan = Keypad4 => LeftArrow \in TakenFor(k, m) \cup Mixed(k, m)
            /\ new.scan = Keypad6 => RightArrow \in TakenFor(k, m) \cup Mixed(k, m)
            /\ Answer(new.char, new.scan) \in
                 (IF TakenFor(k, m) = {} THEN {NoChar} ELSE TakenFor(k, m))
  ELSE new.char = NoChar /\ new.scan # Keypad4 /\ new.scan # Keypad6

\* What the history says of an interrupt, when what the handler made of its byte
\* is what the byte is recorded as.
LEMMA RecordTells ==
  ASSUME Inv, NEW b, NEW make \in BOOLEAN, NEW k,
         Record(b, make, k), Wake, flag' = TRUE, x' = x, answer' = answer,
         kbd' \in KbdType, Meaning(b.key, b.typed) \subseteq Chars,
         Outcome(kbd', make, k, b.typed)
  PROVE  History' /\ HistoryType' /\ pc' \in Places
<1> DEFINE means  == IF make THEN Meaning(b.key, b.typed) ELSE {}
           taken  == IF make THEN TakenFor(k, b.typed) ELSE {}
           mixed  == IF make THEN Mixed(k, b.typed) ELSE {}
           offers == taken \cup mixed
           leaves == make /\ Repeats(k, b.typed)
           told   == meant \cup slips \cup again
<1>1. /\ heard' = IF heard < 2 THEN heard + 1 ELSE heard
      /\ meant' = meant \cup means
      /\ slips' = slips \cup (offers \ means)
      /\ again' = IF leaves THEN again \cup current ELSE again
      /\ current' = IF leaves THEN current ELSE offers
  BY DEF Record
<1>2. /\ heard # 0 => due' = {}
      /\ heard = 0 /\ leaves => due' = current \cup {NoChar}
      /\ heard = 0 /\ ~leaves => due' = IF taken = {} THEN {NoChar} ELSE taken
  BY DEF Record
<1>3. means \subseteq Chars /\ taken \subseteq Chars /\ mixed \subseteq Chars
  BY DEF Outcome
<1>4. leaves => kbd'.char = kbd.char /\ kbd'.scan # Keypad4 /\ kbd'.scan # Keypad6
  BY DEF Outcome
<1>5. ~leaves => /\ kbd'.char \in offers \cup {NoChar}
                 /\ kbd'.scan = Keypad4 => LeftArrow \in offers
                 /\ kbd'.scan = Keypad6 => RightArrow \in offers
  BY DEF Outcome
<1>6. ~leaves => Answer(kbd'.char, kbd'.scan) \in (IF taken = {} THEN {NoChar} ELSE taken)
  <2>1. CASE make
    BY <2>1 DEF Outcome
  <2>2. CASE ~make
    BY <2>2 DEF Outcome, Answer
  <2> QED
    BY <2>1, <2>2
<1> HIDE DEF means, taken, mixed, leaves
<1>7. /\ heard \in 0 .. 2 /\ meant \subseteq Chars /\ slips \subseteq Chars
      /\ again \subseteq Chars /\ current \subseteq Chars
      /\ NoChar \in Chars /\ LeftArrow \in Chars
  BY DEF Inv, Types, HistoryType, NoChar, LeftArrow, Chars
<1>8. heard' \in 0 .. 2 /\ heard' >= 1 /\ (heard' = 1 => heard = 0)
  BY <1>1, <1>7
<1>9. told \subseteq meant' \cup slips' \cup again' /\ offers \subseteq meant' \cup slips' \cup again'
  BY <1>1
<1>10. HistoryType'
  <2>1. due' \subseteq Chars
    BY <1>2, <1>3, <1>7
  <2>2. /\ meant' \subseteq Chars /\ slips' \subseteq Chars
        /\ again' \subseteq Chars /\ current' \subseteq Chars
    BY <1>1, <1>3, <1>7
  <2> QED
    BY <1>8, <2>1, <2>2 DEF HistoryType
<1>11. pc' = (IF pc = "halted" THEN "check" ELSE pc) /\ pc \in Places
  BY DEF Wake, Inv, Types
<1>12. pc' \in Places
  BY <1>11 DEF Places
<1>13. TellsCurrent'
  <2>1. CASE leaves
    <3>1. current' = current /\ again' = again \cup current
      BY <1>1, <2>1
    <3>2. kbd'.char # NoChar => kbd'.char \in current'
      BY <1>4, <2>1, <3>1 DEF Inv, History, TellsCurrent
    <3>3. current' \subseteq meant' \cup slips' \cup again'
      BY <3>1
    <3> QED
      BY <1>4, <2>1, <3>2, <3>3 DEF TellsCurrent
  <2>2. CASE ~leaves
    <3>1. current' = offers
      BY <1>1, <2>2
    <3> HIDE DEF offers
    <3> QED
      BY <1>5, <1>9, <2>2, <3>1 DEF TellsCurrent
  <2> QED
    BY <2>1, <2>2
<1>14. Waited'
  BY <1>8, <1>9, <1>11 DEF Inv, History, Waited
<1>15. AnswerIsAKey'
  BY <1>9, <1>11 DEF Inv, History, AnswerIsAKey
<1>16. OnePress'
  <2> SUFFICES ASSUME heard' = 1
               PROVE  Answer(kbd'.char, kbd'.scan) \in due' /\ (pc' = "getscan" => x' = kbd'.char)
    BY DEF OnePress
  <2>1. heard = 0
    BY <1>8
  <2>2. pc' # "getscan"
    BY <1>11, <2>1 DEF Inv, History, Waited
  <2>3. Answer(kbd'.char, kbd'.scan) \in due'
    <3>1. CASE leaves
      <4>1. Answer(kbd'.char, kbd'.scan) = kbd.char
        BY <1>4, <3>1 DEF Answer
      <4>2. kbd.char \in current \cup {NoChar}
        BY DEF Inv, History, TellsCurrent
      <4> QED
        BY <1>2, <2>1, <3>1, <4>1, <4>2
    <3>2. CASE ~leaves
      BY <1>2, <1>6, <2>1, <3>2
    <3> QED
      BY <3>1, <3>2
  <2> QED
    BY <2>2, <2>3
<1> QED
  BY <1>10, <1>12, <1>13, <1>14, <1>15, <1>16 DEF History

\* keyboard_handler on a code without the 0xe0.
LEMMA HandleTells ==
  ASSUME kbd \in KbdType, NEW b \in Byte, Coded(b), b.code # Extended, b.typed = Mods(kbd)
  PROVE  /\ Handle(kbd, b.code) \in KbdType
         /\ Mods(Handle(kbd, b.code)) = After(b)
         /\ Outcome(Handle(kbd, b.code), b.make, b.key % 1000, b.typed)
<1> DEFINE s == b.key % 1000
           m == b.typed
           new == Handle(kbd, b.code)
<1>1. /\ b.key \in Keys /\ b.make \in BOOLEAN /\ b.code \in 1 .. Extended
  BY DEF Byte
<1>2. /\ s \in 1 .. 93
      /\ b.key > 1000 => s \notin Modifiers /\ b.key \notin Modifiers
      /\ ~(b.key > 1000) => b.key = s
  BY <1>1, KeyCodes DEF Plain
<1>3. b.code = s + (IF b.make THEN 0 ELSE Break)
  BY DEF Coded
<1>4. /\ m.shift = kbd.shift /\ m.caps = kbd.caps /\ m.num = kbd.num
      /\ kbd.shift \in BOOLEAN /\ kbd.caps \in BOOLEAN /\ kbd.num \in BOOLEAN /\ kbd.char \in Chars
  BY ModsType
<1> HIDE DEF s, m, new
<1>5. /\ b.key \in Shifts <=> s \in Shifts
      /\ b.key = CapsLock <=> s = CapsLock
      /\ b.key = NumLock <=> s = NumLock
  BY <1>2 DEF Modifiers
<1>6. /\ new.char = NewChar(kbd, b.code) /\ new.scan = b.code
      /\ new.shift = IF b.code \in Shifts THEN TRUE
                     ELSE IF b.code \in {r + Break : r \in Shifts} THEN FALSE ELSE kbd.shift
      /\ new.caps = IF b.code = CapsLock THEN ~kbd.caps ELSE kbd.caps
      /\ new.num = IF b.code = NumLock THEN ~kbd.num ELSE kbd.num
  BY DEF new, Handle
<1>7. After(b) = [shift |-> IF s \in Shifts THEN b.make ELSE kbd.shift,
                  caps |-> IF s = CapsLock /\ b.make THEN ~kbd.caps ELSE kbd.caps,
                  num |-> IF s = NumLock /\ b.make THEN ~kbd.num ELSE kbd.num]
  BY <1>4, <1>5 DEF After, Turned, m
<1>8. CASE b.make
  <2>1. b.code = s
    BY <1>2, <1>3, <1>8
  <2>2. Answers(kbd, s, Mods(kbd))
    BY <1>2, PressAnswers DEF Plain
  <2>3. Answers(kbd, s, m)
    BY <2>2 DEF m
  <2>4. s \notin {r + Break : r \in Shifts}
    BY <1>2 DEF Shifts, LShift, RShift, Break
  <2>5. Mods(new) = After(b)
    BY <1>6, <1>7, <1>8, <2>1, <2>4 DEF Mods
  <2>6. new \in KbdType
    <3>1. NewChar(kbd, b.code) \in Chars
      BY <2>1, <2>3 DEF Answers
    <3>2. b.code \in 0 .. Extended
      BY <1>1 DEF Extended
    <3> DEFINE c == NewChar(kbd, b.code)
               shift == IF b.code \in Shifts THEN TRUE
                        ELSE IF b.code \in {r + Break : r \in Shifts} THEN FALSE ELSE kbd.shift
               caps == IF b.code = CapsLock THEN ~kbd.caps ELSE kbd.caps
               num == IF b.code = NumLock THEN ~kbd.num ELSE kbd.num
    <3>3. shift \in BOOLEAN /\ caps \in BOOLEAN /\ num \in BOOLEAN
      BY <1>4
    <3>4. new = [shift |-> shift, caps |-> caps, num |-> num, char |-> c, scan |-> b.code]
      BY DEF new, Handle
    <3> HIDE DEF c, shift, caps, num
    <3>5. c \in Chars
      BY <3>1 DEF c
    <3> QED
      BY <3>2, <3>3, <3>4, <3>5 DEF KbdType
  <2>7. Outcome(new, b.make, s, m)
    BY <1>6, <1>8, <2>1, <2>3 DEF Outcome, Answers
  <2> QED
    BY <2>5, <2>6, <2>7 DEF new, s, m
<1>9. CASE ~b.make
  <2>1. b.code = s + 128 /\ b.code >= 129
    BY <1>2, <1>3, <1>9 DEF Break
  <2>2. b.code \notin Listed /\ b.code \notin Shifts /\ b.code # CapsLock /\ b.code # NumLock
        /\ b.code # Keypad4 /\ b.code # Keypad6
    BY <2>1 DEF Listed, Shifts, LShift, RShift, CapsLock, NumLock, Keypad4, Keypad6
  <2>3. b.code \in {r + Break : r \in Shifts} <=> s \in Shifts
    BY <1>2, <2>1 DEF Shifts, LShift, RShift, Break
  <2>4. new.char = NoChar
    BY <1>6, <2>2 DEF NewChar, Modifiers
  <2>5. Mods(new) = After(b)
    <3>1. new.caps = kbd.caps /\ new.num = kbd.num
      BY <1>6, <2>2
    <3>2. new.shift = IF s \in Shifts THEN FALSE ELSE kbd.shift
      BY <1>6, <2>2, <2>3
    <3>3. After(b) = [shift |-> IF s \in Shifts THEN FALSE ELSE kbd.shift,
                      caps |-> kbd.caps, num |-> kbd.num]
      <4>1. b.make = FALSE
        BY <1>1, <1>9
      <4> QED
        BY <1>7, <4>1
    <3> QED
      BY <3>1, <3>2, <3>3 DEF Mods
  <2>6. new \in KbdType
    <3>1. NewChar(kbd, b.code) \in Chars
      BY <1>6, <2>4 DEF NoChar, Chars
    <3>2. b.code \in 0 .. Extended
      BY <1>1 DEF Extended
    <3> DEFINE c == NewChar(kbd, b.code)
               shift == IF b.code \in Shifts THEN TRUE
                        ELSE IF b.code \in {r + Break : r \in Shifts} THEN FALSE ELSE kbd.shift
               caps == IF b.code = CapsLock THEN ~kbd.caps ELSE kbd.caps
               num == IF b.code = NumLock THEN ~kbd.num ELSE kbd.num
    <3>3. shift \in BOOLEAN /\ caps \in BOOLEAN /\ num \in BOOLEAN
      BY <1>4
    <3>4. new = [shift |-> shift, caps |-> caps, num |-> num, char |-> c, scan |-> b.code]
      BY DEF new, Handle
    <3> HIDE DEF c, shift, caps, num
    <3>5. c \in Chars
      BY <3>1 DEF c
    <3> QED
      BY <3>2, <3>3, <3>4, <3>5 DEF KbdType
  <2>7. Outcome(new, b.make, s, m)
    BY <1>6, <1>9, <2>2, <2>4 DEF Outcome
  <2> QED
    BY <2>5, <2>6, <2>7 DEF new, s, m
<1> QED
  BY <1>1, <1>8, <1>9

\* keyboard_handler on 0xe0 and the byte it reads with it.
LEMMA HandleExtendedTells ==
  ASSUME kbd \in KbdType, NEW b \in Byte, Coded(b), b.key > 1000
  PROVE  /\ HandleExtended(kbd, b.code) \in KbdType
         /\ Mods(HandleExtended(kbd, b.code)) = Mods(kbd)
         /\ Outcome(HandleExtended(kbd, b.code), b.make /\ b.code # Extended, b.key, b.typed)
<1> DEFINE s == b.key % 1000
           m == b.typed
           new == HandleExtended(kbd, b.code)
<1>1. /\ b.key \in Keys /\ b.make \in BOOLEAN /\ b.code \in 0 .. Extended
  BY DEF Byte
<1>2. /\ s \in 1 .. 93 /\ s = b.key - 1000 /\ b.key \notin Modifiers /\ b.key \notin Plain
      /\ b.key = 1000 + s /\ b.key \in Nat
  BY <1>1, KeyCodes DEF Plain, Beside
<1>3. b.code = Extended \/ b.code = s + (IF b.make THEN 0 ELSE Break)
  BY DEF Coded
<1> HIDE DEF s, m
<1>4. /\ new.scan = b.code
      /\ new.char = CASE b.code = Keypad4 -> LeftArrow
                      [] b.code = Keypad6 -> RightArrow
                      [] OTHER            -> NoChar
      /\ new.shift = kbd.shift /\ new.caps = kbd.caps /\ new.num = kbd.num
  BY DEF HandleExtended, KbdType
<1>5. new \in KbdType
  <2>1. (CASE b.code = Keypad4 -> LeftArrow [] b.code = Keypad6 -> RightArrow
           [] OTHER -> NoChar) \in Chars
    BY DEF Chars, LeftArrow, RightArrow, NoChar
  <2> QED
    BY <1>1, <2>1 DEF HandleExtended, KbdType
<1> HIDE DEF new
<1>6. Mods(new) = Mods(kbd)
  BY <1>4 DEF Mods
<1>7. CASE b.make /\ b.code # Extended
  <2>1. b.code = s
    BY <1>2, <1>3, <1>7
  <2>2. ~Repeats(b.key, m)
    BY <1>2 DEF Repeats, Listed
  <2>3. ~IsCut(b.key)
    BY <1>2 DEF IsCut, Listed
  <2>4. Arrows(b.key) = {} /\ b.key # KeypadMinus
    BY <1>2 DEF Arrows, Keypad4, Keypad6, KeypadMinus
  <2>5. Unanswered(b.key, m) <=> Arrows(s) = {}
    BY <1>2, <2>4 DEF Unanswered
  <2>6. TakenFor(b.key, m) = Arrows(s)
    <3>1. CASE Arrows(s) = {}
      <4>1. Unanswered(b.key, m)
        BY <2>5, <3>1
      <4> QED
        BY <2>2, <2>3, <3>1, <4>1, Zenon DEF TakenFor
    <3>2. CASE Arrows(s) # {}
      <4>1. ~Unanswered(b.key, m)
        BY <2>5, <3>2
      <4>2. TakenFor(b.key, m) = Meaning(b.key, m)
        BY <2>2, <2>3, <4>1 DEF TakenFor
      <4>3. s = 75 \/ s = 77
        BY <3>2 DEF Arrows, Keypad4, Keypad6
      <4>4. Meaning(b.key, m) = Arrows(b.key - 1000)
        BY <1>2, <4>3 DEF Meaning, Beside
      <4> QED
        BY <1>2, <4>2, <4>4
    <3> QED
      BY <3>1, <3>2
  <2>7. Mixed(b.key, m) = {}
    BY <2>4 DEF Mixed
  <2>8. /\ Arrows(s) \subseteq Chars
        /\ new.char \in Arrows(s) \cup {NoChar}
        /\ s = Keypad4 => LeftArrow \in Arrows(s)
        /\ s = Keypad6 => RightArrow \in Arrows(s)
    BY <1>4, <2>1 DEF Arrows, Keypad4, Keypad6, Chars, LeftArrow, RightArrow
  <2>9. Answer(new.char, new.scan) \in (IF Arrows(s) = {} THEN {NoChar} ELSE Arrows(s))
    BY <1>4, <2>1 DEF Answer, Arrows, Keypad4, Keypad6, LeftArrow, RightArrow
  <2> QED
    BY <1>4, <1>5, <1>6, <1>7, <2>1, <2>2, <2>6, <2>7, <2>8, <2>9 DEF Outcome, new, m
<1>8. CASE ~(b.make /\ b.code # Extended)
  <2>1. b.code # Keypad4 /\ b.code # Keypad6
    <3>1. CASE b.code = Extended
      BY <3>1 DEF Extended, Keypad4, Keypad6
    <3>2. CASE b.code # Extended
      BY <1>2, <1>3, <1>8, <3>2 DEF Break, Keypad4, Keypad6
    <3> QED
      BY <3>1, <3>2
  <2>2. new.char = NoChar
    BY <1>4, <2>1
  <2> QED
    BY <1>4, <1>5, <1>6, <1>8, <2>1, <2>2 DEF Outcome, new
<1> QED
  BY <1>7, <1>8

LEMMA MeaningType ==
  ASSUME kbd \in KbdType, NEW b \in Byte, b.typed = Mods(kbd)
  PROVE  Meaning(b.key, b.typed) \subseteq Chars
<1>1. b.key \in Keys
  BY DEF Byte
<1>2. CASE b.key \in Plain
  BY <1>2, PressAnswers DEF Answers
<1>3. CASE b.key \notin Plain
  BY <1>3 DEF Meaning, Arrows, Chars, LeftArrow, RightArrow
<1> QED
  BY <1>2, <1>3

\* The handler, with one byte or with 0xe0 and the byte it reads with it.
LEMMA KeyboardInterruptInv ==
  ASSUME Inv, KeyboardInterrupt
  PROVE  Inv'
<1> DEFINE first  == Read(wire, port, last)
           second == Read(first.rest, first.left, first.byte)
           b == first.byte
           c == second.byte
<1>1. /\ irq /\ flag' = TRUE /\ Wake /\ x' = x /\ answer' = answer
      /\ down' = down /\ events' = events /\ typed' = typed
  BY DEF KeyboardInterrupt, keyboard
<1>2. kbd \in KbdType /\ Mods(kbd) \in Modifier
  BY ModsType DEF Inv, Types
<1>3. Got(first, Mods(kbd), typed) /\ (b.key > 1000 \/ port # 0)
  BY <1>1, FirstGets
<1>4. CASE b.code # Extended
  <2>1. /\ kbd' = Handle(kbd, b.code)
        /\ wire' = first.rest /\ port' = first.left /\ last' = b /\ irq' = (first.left # 0)
        /\ Record(b, b.make, b.key % 1000)
    BY <1>4 DEF KeyboardInterrupt
  <2> HIDE DEF first
  <2>2. b \in Byte /\ Coded(b) /\ b.typed = Mods(kbd) /\ b.make \in BOOLEAN
    BY <1>3 DEF Got, Byte
  <2>3. /\ kbd' \in KbdType /\ Mods(kbd') = After(b)
        /\ Outcome(kbd', b.make, b.key % 1000, b.typed)
    BY <1>2, <1>4, <2>1, <2>2, HandleTells
  <2>4. Meaning(b.key, b.typed) \subseteq Chars
    BY <1>2, <2>2, MeaningType
  <2>5. History' /\ HistoryType' /\ pc' \in Places
    BY <1>1, <2>1, <2>2, <2>3, <2>4, RecordTells
  <2>6. Sent'
    BY <1>1, <1>3, <2>1, <2>3 DEF Got, Sent
  <2>7. ReadAgain'
    BY <2>1 DEF ReadAgain
  <2>8. wire' \in Seq(Byte) /\ port' \in 0 .. Len(wire') /\ last' \in Byte /\ irq' \in BOOLEAN
    BY <1>3, <2>1, <2>2 DEF Got
  <2>9. Types'
    BY <1>1, <2>3, <2>5, <2>8 DEF Inv, Types
  <2> QED
    BY <2>5, <2>6, <2>7, <2>9 DEF Inv
<1>5. CASE b.code = Extended
  <2>1. /\ kbd' = HandleExtended(kbd, c.code)
        /\ wire' = second.rest /\ port' = second.left /\ last' = c
        /\ irq' \in {second.left # 0, first.left # 0}
        /\ Record(c, c.make /\ c.code # Extended, c.key)
    BY <1>5 DEF KeyboardInterrupt
  <2> HIDE DEF first
  <2>2. /\ b \in Byte /\ Coded(b) /\ b.typed = Mods(kbd) /\ b.make \in BOOLEAN /\ b.key \in Keys
        /\ first.rest \in Seq(Byte) /\ first.left \in 0 .. Len(first.rest)
        /\ Linked(first.rest, After(b), typed)
        /\ first.left # 0 => Follows(b, first.rest[1])
    BY <1>3, <1>5 DEF Got, Byte
  <2>3. b.key > 1000 /\ b.key \notin Modifiers
    <3> HIDE DEF b
    <3>1. b.key % 1000 \in 1 .. 93
      <4>1. b.key % 1000 \in Plain
        BY <2>2, KeyCodes
      <4> QED
        BY <4>1 DEF Plain
    <3>2. b.code # (b.key % 1000) + (IF b.make THEN 0 ELSE Break)
      BY <1>5, <3>1 DEF Extended, Break
    <3>3. b.key > 1000
      BY <2>2, <3>2 DEF Coded
    <3> QED
      BY <2>2, <3>3, KeyCodes
  <2>4. After(b) = Mods(kbd)
    BY <1>2, <2>2, <2>3, AfterExtended DEF After
  <2>5. /\ c \in Byte /\ Coded(c) /\ c.key > 1000 /\ c.typed = Mods(kbd)
        /\ second.rest \in Seq(Byte) /\ second.left \in 0 .. Len(second.rest)
        /\ Linked(second.rest, Mods(kbd), typed)
        /\ irq' /\ second.left = 0 => c.code # Extended
    <3>1. CASE first.left = 0
      <4>1. second = [byte |-> b, rest |-> first.rest, left |-> 0]
        BY <3>1 DEF Read
      <4>2. second.left = 0
        BY <4>1
      <4>3. irq' = FALSE
        <5>1. (second.left # 0) = FALSE /\ (first.left # 0) = FALSE
          BY <3>1, <4>2
        <5> HIDE DEF second
        <5> QED
          BY <2>1, <5>1
      <4>4. 0 \in 0 .. Len(first.rest)
        BY <2>2
      <4> HIDE DEF second
      <4> QED
        BY <2>2, <2>3, <2>4, <4>1, <4>3, <4>4
    <3>2. CASE first.left # 0
      <4>1. first.left \in 1 .. Len(first.rest) /\ first.rest # <<>>
        BY <2>2, <3>2
      <4>2. /\ Got(second, After(b), typed)
            /\ second.byte = Head(first.rest)
        BY <2>2, <4>1, ReadGets
      <4>3. Head(first.rest) = first.rest[1]
        BY <2>2, <4>1
      <4>4. Follows(b, c)
        BY <2>2, <3>2, <4>2, <4>3
      <4> HIDE DEF second
      <4>5. c \in Byte /\ Coded(c) /\ c.typed = Mods(kbd) /\ c.make \in BOOLEAN
        BY <2>4, <4>2 DEF Got, Byte
      <4>6. c.code # Extended /\ c.key = b.key
        BY <1>5, <4>4 DEF Follows
      <4>7. After(c) = Mods(kbd)
        BY <1>2, <2>3, <4>5, <4>6, AfterExtended DEF After
      <4> QED
        BY <2>3, <4>2, <4>5, <4>6, <4>7 DEF Got
    <3> QED
      BY <3>1, <3>2
  <2> HIDE DEF second
  <2> DEFINE make == c.make /\ c.code # Extended
  <2>6. make \in BOOLEAN
    BY <2>5 DEF Byte
  <2>7. /\ kbd' \in KbdType /\ Mods(kbd') = Mods(kbd)
        /\ Outcome(kbd', make, c.key, c.typed)
    BY <1>2, <2>1, <2>5, HandleExtendedTells
  <2>8. Meaning(c.key, c.typed) \subseteq Chars
    BY <1>2, <2>5, MeaningType
  <2>9. Record(c, make, c.key)
    BY <2>1
  <2> HIDE DEF make
  <2>10. History' /\ HistoryType' /\ pc' \in Places
    BY <1>1, <2>6, <2>7, <2>8, <2>9, RecordTells
  <2>11. Sent'
    BY <1>1, <2>1, <2>5, <2>7 DEF Sent
  <2>12. ReadAgain'
    BY <2>1, <2>5, <2>7 DEF ReadAgain
  <2>13. wire' \in Seq(Byte) /\ port' \in 0 .. Len(wire') /\ last' \in Byte /\ irq' \in BOOLEAN
    BY <2>1, <2>5
  <2>14. Types'
    BY <1>1, <2>7, <2>10, <2>13 DEF Inv, Types
  <2> QED
    BY <2>10, <2>11, <2>12, <2>14 DEF Inv
<1> QED
  BY <1>4, <1>5

-----------------------------------------------------------------------------
(* The other steps *)

LEMMA InitInv == Init => Inv
<1> SUFFICES ASSUME Init PROVE Inv
  OBVIOUS
<1>1. NoModifiers \in Modifier /\ kbd \in KbdType /\ Mods(kbd) = NoModifiers
  BY DEF Init, NoModifiers, Modifier, KbdType, Mods, Chars, NoChar, Extended
<1>2. /\ 0 \in 0 .. MaxEvents /\ <<>> \in Seq(Byte) /\ 0 \in 0 .. Len(<<>>)
      /\ NoChar \in Chars /\ "clear" \in Places /\ 0 \in 0 .. 2
  BY KeysAssumption DEF NoChar, Chars, Places
<1>3. HistoryType
  BY <1>2 DEF Init, HistoryType
<1>4. Types
  BY <1>1, <1>2, <1>3 DEF Init, Types
<1>5. Sent
  BY <1>1 DEF Init, Sent, Linked
<1>6. ReadAgain
  BY DEF Init, ReadAgain
<1>7. History
  BY DEF Init, History, TellsCurrent, Waited, AnswerIsAKey, OnePress, Keypad4, Keypad6
<1> QED
  BY <1>4, <1>5, <1>6, <1>7 DEF Inv

LEMMA TouchInv ==
  ASSUME Inv, NEW k \in Keys, Touch(k)
  PROVE  Inv'
<1> DEFINE make == k \notin down
<1>1. make \in BOOLEAN
  OBVIOUS
<1>2. /\ wire' = wire \o Bytes(k, make, typed) /\ typed' = Turned(typed, k, make)
      /\ events < MaxEvents /\ events' = events + 1
      /\ down' = IF k \in down THEN down \ {k} ELSE down \cup {k}
      /\ UNCHANGED <<port, last, irq, kbd, flag, pc, x, answer, heard, meant, slips, again,
                     current, due>>
  BY DEF Touch, history
<1> HIDE DEF make
<1>3. /\ wire \in Seq(Byte) /\ port \in 0 .. Len(wire) /\ typed \in Modifier
      /\ Linked(wire, Mods(kbd), typed)
  BY DEF Inv, Types, Sent
<1>4. /\ wire' \in Seq(Byte) /\ Len(wire') >= Len(wire)
      /\ Linked(wire', Mods(kbd), typed')
  BY <1>1, <1>2, <1>3, BytesType
<1>5. typed' \in Modifier
  BY <1>1, <1>2, <1>3, TurnedType
<1>6. port' \in 0 .. Len(wire')
  BY <1>2, <1>3, <1>4
<1>7. down' \subseteq Keys /\ events' \in 0 .. MaxEvents
  BY <1>2, KeysAssumption DEF Inv, Types
<1>8. Types'
  BY <1>2, <1>4, <1>5, <1>6, <1>7 DEF Inv, Types, HistoryType
<1>9. Sent'
  BY <1>2, <1>4 DEF Sent
<1>10. ReadAgain'
  BY <1>2 DEF Inv, ReadAgain
<1>11. History'
  BY <1>2 DEF Inv, History, TellsCurrent, Waited, AnswerIsAKey, OnePress
<1> QED
  BY <1>8, <1>9, <1>10, <1>11 DEF Inv

LEMMA ByteArrivesInv ==
  ASSUME Inv, ByteArrives
  PROVE  Inv'
<1>1. /\ port < Len(wire) /\ port' = port + 1 /\ irq' = TRUE
      /\ UNCHANGED <<down, events, typed, wire, last, kbd, flag, pc, x, answer, heard, meant,
                     slips, again, current, due>>
  BY DEF ByteArrives, keyboard, history
<1>2. wire \in Seq(Byte) /\ port \in 0 .. Len(wire)
  BY DEF Inv, Types
<1>3. port' \in 0 .. Len(wire') /\ port' # 0
  BY <1>1, <1>2
<1>4. Types'
  BY <1>1, <1>3 DEF Inv, Types, HistoryType
<1>5. Sent' /\ ReadAgain'
  BY <1>1, <1>3 DEF Inv, Sent, ReadAgain
<1>6. History'
  BY <1>1 DEF Inv, History, TellsCurrent, Waited, AnswerIsAKey, OnePress
<1> QED
  BY <1>4, <1>5, <1>6 DEF Inv

LEMMA TimerInterruptInv ==
  ASSUME Inv, TimerInterrupt
  PROVE  Inv'
<1>1. /\ pc' = IF pc = "halted" THEN "check" ELSE pc
      /\ UNCHANGED <<down, events, typed, wire, port, last, irq, kbd, flag, x, answer, heard,
                     meant, slips, again, current, due>>
  BY DEF TimerInterrupt, Wake, keyboard, controller, history
<1>2. Types'
  BY <1>1 DEF Inv, Types, HistoryType, Places
<1>3. Sent' /\ ReadAgain'
  BY <1>1 DEF Inv, Sent, ReadAgain
<1>4. History'
  BY <1>1 DEF Inv, History, TellsCurrent, Waited, AnswerIsAKey, OnePress
<1> QED
  BY <1>2, <1>3, <1>4 DEF Inv

\* The foreground.
LEMMA KernelInv ==
  ASSUME Inv, Kernel
  PROVE  Inv'
<1>1. UNCHANGED <<down, events, typed, wire, port, last, irq, kbd, current>>
  BY DEF Kernel, ClearFlag, Halt, CheckFlag, TakeFlag, GetLatestChar, GetLatestScanCode,
         NextCall, Foreground, keyboard, controller, history
<1>2. Sent' /\ ReadAgain'
  BY <1>1 DEF Inv, Sent, ReadAgain
<1> DEFINE told == meant \cup slips \cup again
<1>3. CASE ClearFlag
  <2>1. /\ pc = "clear" /\ flag' = FALSE /\ pc' = "halt" /\ x' = x /\ answer' = answer
        /\ heard' = 0 /\ meant' = {} /\ slips' = {} /\ again' = {} /\ due' = {}
    BY <1>3 DEF ClearFlag
  <2>2. HistoryType'
    BY <1>1, <2>1 DEF Inv, Types, HistoryType
  <2>3. Types'
    BY <1>1, <2>1, <2>2 DEF Inv, Types, Places
  <2>4. History'
    BY <1>1, <2>1 DEF Inv, History, TellsCurrent, Waited, AnswerIsAKey, OnePress
  <2> QED
    BY <1>2, <2>3, <2>4 DEF Inv
<1>4. CASE Halt \/ CheckFlag \/ TakeFlag \/ NextCall
  <2>1. /\ UNCHANGED <<x, heard, meant, slips, again, current, due>>
        /\ \/ pc = "halt" /\ pc' = "halted" /\ UNCHANGED <<flag, answer>>
           \/ pc = "check" /\ pc' = (IF flag THEN "taken" ELSE "halt") /\ UNCHANGED <<flag, answer>>
           \/ pc = "taken" /\ pc' = "getchar" /\ flag' = FALSE /\ answer' = answer
           \/ pc = "returned" /\ pc' = "clear" /\ flag' = flag /\ answer' = NoChar
    BY <1>4 DEF Halt, CheckFlag, TakeFlag, NextCall, history
  <2>2. NoChar \in Chars
    BY DEF NoChar, Chars
  <2>3. Types'
    BY <1>1, <2>1, <2>2 DEF Inv, Types, HistoryType, Places
  <2>4. History'
    BY <1>1, <2>1 DEF Inv, History, TellsCurrent, Waited, AnswerIsAKey, OnePress
  <2> QED
    BY <1>2, <2>3, <2>4 DEF Inv
<1>5. CASE GetLatestChar
  <2>1. /\ pc = "getchar" /\ x' = kbd.char /\ pc' = "getscan"
        /\ UNCHANGED <<flag, answer, heard, meant, slips, again, current, due>>
    BY <1>5 DEF GetLatestChar, history
  <2>2. kbd.char \in Chars
    BY DEF Inv, Types, KbdType
  <2>3. Types'
    BY <1>1, <2>1, <2>2 DEF Inv, Types, HistoryType, Places
  <2>4. x' # NoChar => x' \in told
    BY <2>1 DEF Inv, History, TellsCurrent, Waited
  <2>5. History'
    BY <1>1, <2>1, <2>4 DEF Inv, History, TellsCurrent, Waited, AnswerIsAKey, OnePress
  <2> QED
    BY <1>2, <2>3, <2>5 DEF Inv
<1>6. CASE GetLatestScanCode
  <2> DEFINE result == Answer(x, kbd.scan)
  <2>1. /\ pc = "getscan" /\ x' = NoChar
        /\ UNCHANGED <<flag, heard, meant, slips, again, current, due>>
        /\ \/ result = NoChar /\ pc' = "clear" /\ answer' = answer
           \/ result # NoChar /\ pc' = "returned" /\ answer' = result
    BY <1>6 DEF GetLatestScanCode, history
  <2>2. heard >= 1
    BY <2>1 DEF Inv, History, Waited
  <2>3. result # NoChar => result \in told
    BY <2>1, <2>2 DEF Answer, Inv, History, TellsCurrent, Waited
  <2>4. told \subseteq Chars /\ NoChar \in Chars
    BY DEF Inv, Types, HistoryType, NoChar, Chars
  <2> HIDE DEF result, told
  <2>5. answer' \in Chars /\ x' \in Chars /\ pc' \in Places
    BY <2>1, <2>3, <2>4 DEF Inv, Types, Places
  <2>6. Types'
    BY <1>1, <2>1, <2>5 DEF Inv, Types, HistoryType
  <2>7. History'
    BY <1>1, <2>1, <2>2, <2>3 DEF Inv, History, TellsCurrent, Waited, AnswerIsAKey, OnePress, told
  <2> QED
    BY <1>2, <2>6, <2>7 DEF Inv
<1> QED
  BY <1>3, <1>4, <1>5, <1>6 DEF Kernel

LEMMA NextInv == Inv /\ [Next]_vars => Inv'
<1> SUFFICES ASSUME Inv, [Next]_vars PROVE Inv'
  OBVIOUS
<1>1. CASE Next
  BY <1>1, TouchInv, ByteArrivesInv, KeyboardInterruptInv, TimerInterruptInv, KernelInv DEF Next
<1>2. CASE UNCHANGED vars
  <2>1. UNCHANGED <<down, events, typed, wire, port, last, irq, kbd, flag, pc, x, answer, heard,
                    meant, slips, again, current, due>>
    BY <1>2 DEF vars, keyboard, controller, history
  <2>2. Types' /\ Sent' /\ ReadAgain'
    BY <2>1 DEF Inv, Types, HistoryType, Sent, ReadAgain
  <2>3. History'
    BY <2>1 DEF Inv, History, TellsCurrent, Waited, AnswerIsAKey, OnePress
  <2> QED
    BY <2>2, <2>3 DEF Inv
<1> QED
  BY <1>1, <1>2

-----------------------------------------------------------------------------
\* Whatever is typed, the character stays a char, the bytes are of the keys there
\* are, and the foreground is at a step of its loop.
THEOREM KeyboardTypeOK == Spec => []TypeOK
<1>1. Inv => TypeOK
  BY TypesOK DEF Inv
<1> QED
  BY <1>1, InitInv, NextInv, PTL DEF Spec

\* Whatever keys there are and whenever their interrupts come, get_monitor_char
\* returns the character of a key pressed and handled while it waited, or what
\* the code is known to take such a press for, or once more the character of the
\* press before a press that leaves none.
THEOREM KeyboardAnswerIsAKey == Spec => []AnswerIsAKey
<1>1. Inv => AnswerIsAKey
  BY DEF Inv, History
<1> QED
  BY <1>1, InitInv, NextInv, PTL DEF Spec

LEMMA OnePressAnswers ==
  ASSUME Inv, GetLatestScanCode, heard = 1
  PROVE  IF pc' = "returned" THEN answer' \in due ELSE NoChar \in due
<1>1. x = kbd.char /\ Answer(kbd.char, kbd.scan) \in due
  BY DEF GetLatestScanCode, Inv, History, OnePress
<1>2. \/ Answer(x, kbd.scan) = NoChar /\ pc' = "clear"
      \/ pc' = "returned" /\ answer' = Answer(x, kbd.scan)
  BY DEF GetLatestScanCode
<1> QED
  BY <1>1, <1>2

\* If one interrupt alone is handled while get_monitor_char waits, the call
\* answers with what its press, with the modifiers typed before it, is due,
\* at whichever step of the wait the interrupt came.
THEOREM KeyboardSinglePressAnswered == Spec => SinglePressAnswered
<1>1. Inv => [GetLatestScanCode /\ heard = 1 =>
                IF pc' = "returned" THEN answer' \in due ELSE NoChar \in due]_vars
  BY OnePressAnswers
<1> QED
  BY <1>1, InitInv, NextInv, PTL DEF Spec, SinglePressAnswered
=============================================================================
