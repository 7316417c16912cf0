SPECIFICATION Spec
CONSTANTS
  Query = {q1}
  Context = {c1}
  Booking = {b1, b2}
  Request = {r1}
  FlowTimeout = 1
  OfferTimeout = 0
  PaymentTimeout = 0
  PricePath <- BothPaths
  CanCleanUp = TRUE
  NoQuery = NoQuery
  NoContext = NoContext
  NoFlow = NoFlow
  NoOffers = NoOffers
  NoPayment = NoPayment
  NoRow = NoRow
  NoEntry = NoEntry
  NoSummary = NoSummary
SYMMETRY Symmetry
INVARIANTS
  PriceIsNotOlder
  RowIsWhatWasShown
  OneRowPerContext
  OneOpenQuestion
PROPERTY IsDesk
