SPECIFICATION Spec
CONSTANTS
  a = a
  b = b
  c = c
  Players <- Three
  MaxPlayers = 3
  SmallBlind = 1
  BigBlind = 2
  BuyIns = {1, 2, 5}
  Amounts = {2, 3, 4}
  DeckSize = 52
  HoleCards = 2
  MaxHands = 3
  MaxChips = 8
SYMMETRY Symmetry
INVARIANTS
  TypeOK
  ToCallNonNegative
  TurnIsActive
PROPERTIES
  ChipsConserved
  EveryActionCounts
CHECK_DEADLOCK FALSE
