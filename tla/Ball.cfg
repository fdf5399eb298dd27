SPECIFICATION Spec
CONSTANTS
  Lines = {0, 1, 5, 12, 14}
  Chars = {"s", "d", "j", "i", "x", "none"}
  Width = 3
  Height = 2
  MaxPending = 1
CHECK_DEADLOCK FALSE
INVARIANTS TypeOK ServiceEnds ShowsTheBalls
PROPERTIES TicksArePlayed
