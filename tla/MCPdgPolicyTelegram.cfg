\* One edit is enough: deleting the last domain drops the Telegram rule.
CONSTANTS
  None = None
  Reserved <- MCReserved
  Editor = {"bot", "web"}
  RuleSet = {"q", "r"}
  Listed <- MCListed
  Menu <- MCMenu
  AtStart <- MCAtStart
  MaxEdits = 2
  Discipline = {"undisturbed"}
SPECIFICATION Spec
PROPERTY TelegramPinKept
\* Users may stop editing, and the number of edits is bounded.
CHECK_DEADLOCK FALSE
