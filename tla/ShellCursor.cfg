SPECIFICATION Spec
CONSTANTS
  Letters = {"f", "h", "n"}
  MaxCommand = 6
  MaxToken = 3
  MaxName = 3
  Width = 10
  Rows = 3
  Commands <- MCCommands
  FreshWord <- MCFresh
  NameWord <- MCName
  HelpWord <- MCHelp
  FreshUsage <- MCFreshUsage
  NameUsage <- MCNameUsage
  Nickname <- MCNickname
  Overrun = {0, 1}
  FirstName = 1
  Banner = 6
  NotFound = 4
  CursorLimit = 50
INVARIANT CursorOnScreen
