SPECIFICATION SpecInterrupts
CONSTANTS
  Lines = {0, 1}
  Chars = {"none"}
  Width = 1
  Height = 1
  MaxPending = 1
CHECK_DEADLOCK FALSE
INVARIANTS DiagnosisIsTrue
