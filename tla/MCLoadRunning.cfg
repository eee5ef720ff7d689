SPECIFICATION Spec
CONSTANTS
  SlotLimit = 2
  ForeignLimit = 2
  MaxGen = 1
  MaxFree = 2
  blank = blank
  part = part
  full = full
  Blank = blank
  Data <- MCData
  ReadBack <- MCReadBack
PROPERTIES
  CreatedIsNew
