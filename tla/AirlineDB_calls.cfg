SPECIFICATION Spec
CONSTANTS
  Users <- MCUsers
  Cabins <- MCCabins
  Flights <- MCFlights
  Seats <- MCSeats
  Prices <- MCPrices
  OpeningWallets <- MCWallets
  OpeningReservations <- MCOpening
  OpeningLists <- MCLists
  Itineraries <- MCItineraries
  Parties <- MCParties
  Offers <- MCOffers
  BagCounts = {0, 2}
  CertificateAmounts = {100}
  NewIds <- MCNewIds
  CertificateIds <- MCCertificates
  MaxBookings = 3
  MaxCalls = 4
INVARIANT TypeOK
INVARIANT PaidInFull
INVARIANT GiftCardsBalance
INVARIANT CertificatesSpentOnce
PROPERTY CancelReverses
INVARIANT ListsTrue
CHECK_DEADLOCK FALSE
