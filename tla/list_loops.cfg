SPECIFICATION Spec
CONSTANTS
  Heads = {h1, h2}
  Entries = {e1, e2, e3, e4}
  MaxAdds = 2
INVARIANTS Rings MeetsWhatStayed MeetsOnce LoopStaysInList
PROPERTIES ImplementsOrder AddsAtItsEnd LoopEnds
