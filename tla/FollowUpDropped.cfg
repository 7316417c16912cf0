SPECIFICATION Spec
CONSTANTS
  Phone = {p1}
  Route = {r1}
  Job = {}
  RemindAfter = 1
  Grace = 0
  CloseAfter = 3
  Trouble <- NoTrouble
  MaxRestarts = 0
  NoPhone = NoPhone
  NoEntry = NoEntry
  NoDoc = NoDoc
PROPERTY UnansweredIsKept
