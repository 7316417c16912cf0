SPECIFICATION Spec
CONSTANTS
  Query = {q1, q2}
  Context = {c1}
  Booking = {b1}
  Request = {r1}
  FlowTimeout = 1
  OfferTimeout = 1
  PaymentTimeout = 0
  PricePath <- FlowPath
  CanCleanUp = FALSE
  NoQuery = NoQuery
  NoContext = NoContext
  NoFlow = NoFlow
  NoOffers = NoOffers
  NoPayment = NoPayment
  NoRow = NoRow
  NoEntry = NoEntry
  NoSummary = NoSummary
INVARIANT BookedAsQuoted
