CONSTANTS
  Groups = 3
  Hex <- MCHex
  Alphabet6 <- MCAlphabet6
  Alphabet4 <- MCAlphabet4
  MaxLen = 8
  Keys <- MCKeys
  Values <- MCValues
  Urls <- MCUrls
  Heads <- MCHeads
  Bodies <- MCBodies
  Methods <- MCMethods
  MaxPairs = 2
SPECIFICATION Spec
INVARIANTS AddressMeaning AddressReadsBack TornTextIsOwn
CHECK_DEADLOCK FALSE
