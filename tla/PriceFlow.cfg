SPECIFICATION Spec
CONSTANTS
  LastDay = 4
  Season = {3, 4}
  Message <- Messages
  Backlog <- Backlogs
  Swept <- SweptEntries
  Slot = {s1, s2}
  deluxe = deluxe  land = land  street = street  cottage = cottage
  exclusiveLand = exclusiveLand  jacuzzi = jacuzzi
  Room = {deluxe, land, street, cottage}
  Named = {deluxe, land, street}
  Key = {deluxe, exclusiveLand}
  KeyOf <- Keys
  Most = 1
  Listed <- SomeRows
  Tag = {jacuzzi}
  Tags <- Features
  PriceAnswers <- OfferLists
  Availabilities <- RowLists
  Wishes <- WishesForRooms
  NoNumber = NoNumber  Failed = Failed  Unreadable = Unreadable
  NoDay = NoDay  NoFlow = NoFlow  NoQuery = NoQuery  NoJob = NoJob
INVARIANTS AsksWhatIsMissing AskedIsComplete NeverAskedBack PricedIsInStock
PROPERTIES OldFlowIsLeft
SYMMETRY Symmetry
