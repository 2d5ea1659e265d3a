\* Two edits are enough: the web adds a policy group named direct and deletes it.
CONSTANTS
  None = None
  Reserved <- MCReserved
  Editor = {"bot", "web"}
  RuleSet = {"q", "r"}
  Listed <- MCListed
  Menu <- MCNamedDirect
  AtStart <- MCAtStart
  MaxEdits = 2
  Discipline = {"undisturbed"}
SPECIFICATION Spec
INVARIANT AggregatesAgree
\* Users may stop editing, and the number of edits is bounded.
CHECK_DEADLOCK FALSE
