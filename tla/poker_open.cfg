SPECIFICATION OpenSpec
CONSTANTS
  a = a
  b = b
  c = c
  Players <- Three
  MaxPlayers = 3
  SmallBlind = 1
  BigBlind = 2
  BuyIns = {0, 3}
  Amounts = {2}
  DeckSize = 52
  HoleCards = 2
  MaxHands = 2
  MaxChips = 6
SYMMETRY Symmetry
PROPERTIES
  NoChipsMadeInHand
  FoldedStaysOut
CHECK_DEADLOCK FALSE
