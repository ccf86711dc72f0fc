SPECIFICATION Spec
CONSTANTS
  Width = 8
  NewCapacity <- CapacityOf
  NewBits <- BitsOf
  SlotIndex <- SlotOf
  Sizes = {0, 1, 2, 3, 4, 5, 7, 8, 9, 16, 17, 31, 32, 33}
  LineElements = {0, 1, 2, 4}
  LifeBound = 8
INVARIANTS
  LifeInv
  RoundUpIsLeast
  RemapSwapsDigits
  LapFillsEverySlot
  VisitsLiveCells
  DestroyedOnce
  NoBlockLeft
CHECK_DEADLOCK FALSE
