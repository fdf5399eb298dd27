SPECIFICATION Spec
CONSTANTS
  Keys = {30, 5, 57, 74, 75, 78, 56, 42, 58, 69, 1075, 1077, 1028}
  MaxEvents = 3
INVARIANTS TypeOK AnswerIsAKey
PROPERTIES SinglePressAnswered KeyEndsWait
