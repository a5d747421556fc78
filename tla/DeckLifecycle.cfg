SPECIFICATION Spec
CONSTANTS
  Decks = {d1, d2}
  Uploads = {a, b}
  Requests = {r1}
  Hand = Hand
  Nothing = Nothing
  MaxEvents = 4
  MaxCrashes = 1
INVARIANTS
  TypeOK
  OfferedIsStored
  MapMatchesCards
  PurgedLeavesNothing
SYMMETRY Alike
CHECK_DEADLOCK FALSE
