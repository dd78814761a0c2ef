SPECIFICATION Spec
CONSTANTS
  BLOCK_ITEMS = 3
  MAX_BLOCKS = 2
  Slots <- MCSlots
  CommVars <- MCComms
  TypeVars <- MCTypes
  BufferSize = 88
  Plans <- MCPlans
  Garbage <- MCGarbage
INVARIANT HandlesOwned
INVARIANT TypesRight
PROPERTY KeepsPromises
\* A program ends when it has made its calls or the library has ended it.
CHECK_DEADLOCK FALSE
