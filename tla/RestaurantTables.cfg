CONSTANTS
  r1 = r1  r2 = r2
  Dialogue = {d1}
  Row = {r1, r2}
  Sweeper = {job}
  MaxParty = 2
  AutoLimit = 1
  Decision = {"cancelled"}
  Change <- LargeAndLate
  Happens = {"purge", "cancel", "restart"}
  NoFlow = NoFlow  NoCopy = NoCopy  NoRow = NoRow  NoData = NoData
SPECIFICATION Spec
INVARIANTS OneRowPerDialogue Acceptable
PROPERTIES RowIsAsShown IsDesk
SYMMETRY Symmetry
CHECK_DEADLOCK FALSE
