SPECIFICATION Spec
CONSTANTS
  a = a
  b = b
  c = c
  Players <- Three
  MaxPlayers = 3
  SmallBlind = 1
  BigBlind = 2
  BuyIns = {4}
  Amounts = {2}
  DeckSize = 52
  HoleCards = 2
  MaxHands = 1
  MaxChips = 8
PROPERTIES
  RoundClosesAfterAllActed
CHECK_DEADLOCK FALSE
