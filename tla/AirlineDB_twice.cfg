SPECIFICATION Spec
CONSTANTS
  Users <- MCUsers
  Cabins <- MCCabins
  Flights <- MCFlights
  Seats <- MCSeats
  Prices <- MCPrices
  OpeningWallets <- MCWallets
  OpeningReservations <- MCOpening
  OpeningLists <- MCLists
  Itineraries <- MCItineraries
  Parties <- MCParties
  Offers <- MCTwice
  BagCounts = {0, 2}
  CertificateAmounts = {100}
  NewIds <- MCNewIds
  CertificateIds <- MCCertificates
  MaxBookings = 3
  MaxCalls = 3
PROPERTY ErrorsChangeNothing
CHECK_DEADLOCK FALSE
