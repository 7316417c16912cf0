SPECIFICATION Spec
CONSTANTS
  d = d  p1 = p1  p2 = p2
  Asked <- DateAndRoute
  KeyField = {"date"}
  Value = {d, p1, p2}
  Said <- Mentions
  Row = {r1, r2}
  Decision = {"cancelled"}
  Message = {m1, m2}
  Task = {t1, t2}
  Wording <- Messages
  Situations <- Conversations
  MaxEpoch = 1
  SweptEpoch = 0
  Happens = {"restart", "purge", "staff", "close", "sweep"}
  NoValue = NoValue  NoFlow = NoFlow  NoRow = NoRow  NoData = NoData  NoMessage = NoMessage
INVARIANTS AnsweredOnce SilentForStaff BookedOnce PriceIsNotInvented OpenQuestionIsHeard
PROPERTIES TransferIsAsShown ExpiredIsNotBooked
SYMMETRY Symmetry
