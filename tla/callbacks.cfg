SPECIFICATION CallbackSpec
CONSTANTS
  Heads = {NODE_ONLINE, NODE_OFFLINE}
  Entries = {1, 2, 3, 4}
  MaxAdds = 0
  NULL = NULL
  NoType = NoType
INVARIANT CallsTheTable
