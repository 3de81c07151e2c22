\* A ring of three slots, two readers that join before the ring wraps.
CONSTANTS
  a = a
  b = b
  r1 = r1
  r2 = r2
  EmptySlot = EmptySlot
  None = None
  Length = 3
  Readers <- MCReaders
  Tokens <- MCTokens
  LateReaders = FALSE
  MaxWrites = 8
SPECIFICATION Spec
INVARIANTS
  TypeOK
  PositionsOrdered
  NothingOverwritten
  SlotsCounted
PROPERTY
  ImplementsQueue
