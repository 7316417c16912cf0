SPECIFICATION FairSpec
CONSTANTS
  Phone = {p1}
  Route = {r1}
  Job = {j1}
  RemindAfter = 1
  Grace = 1
  CloseAfter = 3
  Trouble <- AnswerLost
  MaxRestarts = 1
  NoPhone = NoPhone
  NoEntry = NoEntry
  NoDoc = NoDoc
PROPERTY EntriesLeave
