SPECIFICATION Spec
CONSTANTS
  Phone = {p1, p2}
  Route = {r1}
  Job = {}
  RemindAfter = 1
  Grace = 1
  CloseAfter = 4
  Trouble <- SwitchOnly
  MaxRestarts = 0
  NoPhone = NoPhone
  NoEntry = NoEntry
  NoDoc = NoDoc
SYMMETRY Symmetry
INVARIANT RemindsOnce
PROPERTIES
  ClosesOnlySilent
  DropsOnlyLate
