\* Two editors, two commits: every pair of requests in every interleaving.
CONSTANTS
  None = None
  Reserved <- MCReserved
  Editor = {"bot", "web"}
  RuleSet = {"q", "r"}
  Listed <- MCListed
  Menu <- MCMenu
  AtStart <- MCAtStart
  MaxEdits = 2
  Discipline = {"undisturbed"}
SPECIFICATION Spec
INVARIANTS Closed RuleSetsAgree DerivedAgree RuledDomainsReachGateway DomainTestAgrees
PROPERTIES EditsAreAtomic ChecksStand
\* Users may stop editing, and the number of edits is bounded.
CHECK_DEADLOCK FALSE
