SPECIFICATION Spec
CONSTANTS
  BITS_PER_LONG = 4
  ULongs = 16
  Lengths = {3, 5, 8, 12}
  Used = {0, 1, 2, 3, 4, 6, 7, 8, 10, 11}
  NoAnswer = NoAnswer
  Void = Void
INVARIANT SearchInvariant
PROPERTY ImplementsSet
