SPECIFICATION Spec
CONSTANTS
  a = a  b = b  c = c  d = d
  Elements = {a, b, c, d}
  Less <- WeakOrder
  Size = 5
  NoElement = NoElement
INVARIANTS SiftOrder RootIsMinimal
PROPERTY ImplementsQueue
