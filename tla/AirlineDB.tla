------------------------------ MODULE AirlineDB ------------------------------
(***************************************************************************)
(* The writing tools of tau-bench's airline domain, over the users'        *)
(* payment methods and the reservations: what a policy's calls may do to   *)
(* the database an episode is graded by.  A call runs to its end before    *)
(* the next begins; one that raises is answered with an error by Env.step. *)
(* No tool writes the flights: seats and prices are constants.             *)
(*                                                                         *)
(* A flight is a flight number with its date.  A flight that is not        *)
(* available on its date has no seats.  Passengers are a tuple of names.   *)
(* What an entry of a payment history was written by is recorded for the   *)
(* properties.                                                             *)
(***************************************************************************)
EXTENDS Integers, SequencesExt

CONSTANTS Users,
          Cabins, Flights,
          Seats, Prices,      \* available_seats and prices, by flight and cabin
          OpeningWallets,     \* payment methods by user
          OpeningReservations,
          OpeningLists,       \* user["reservations"]
          Itineraries,        \* lists of flights a caller may give
          Parties,            \* passengers of the reservations, and those a caller may give
          Offers,             \* payment_methods a caller may give to book_reservation
          BagCounts, CertificateAmounts,
          NewIds,             \* <<"HATHAT", "HATHAU", "HATHAV">>
          CertificateIds,     \* the ids send_certificate tries, in this order
          MaxBookings,        \* bound of the model, which the tool only assumes of its
                              \* callers: "assume each task makes at most 3 reservations"
          MaxCalls            \* bound of the model

ASSUME IdsAssumption ==
  /\ DOMAIN NewIds = 1 .. 3
  /\ \A i, j \in 1 .. 3 : NewIds[i] = NewIds[j] => i = j
  /\ \A i \in 1 .. 3 : NewIds[i] \notin DOMAIN OpeningReservations
  /\ MaxBookings \in 0 .. 3
  /\ DOMAIN CertificateIds = 1 .. 3

Methods == (UNION {DOMAIN OpeningWallets[u] : u \in Users}) \cup ToSet(CertificateIds)

\* A payment method, of which the amount of a credit card is not used; an entry of a
\* payment history; and a reservation.
Holdings == [source : {"gift_card", "credit_card", "certificate"}, amount : Nat]
Entries == [method : Methods, amount : Int, by : {"before", "call", "refund"}]
Reservations ==
  [user : Users, cabin : Cabins, flights : Seq([flight : Flights, price : Nat]), passengers : Parties,
   history : Seq(Entries), bags : Nat, insured : BOOLEAN, cancelled : BOOLEAN]

ASSUME ArgumentsAssumption ==
  /\ Prices \in [Flights -> [Cabins -> Nat]]
  /\ Itineraries \subseteq Seq(Flights)
  /\ \A party \in Parties : party \in Seq(ToSet(party))
  /\ \A offer \in Offers : offer \in Seq(ToSet(offer)) /\ \A p \in ToSet(offer) : p.amount \in Int
  /\ BagCounts \subseteq Nat /\ CertificateAmounts \subseteq Nat
  /\ MaxCalls \in Nat

\* The data a task begins with: the users' lists name their reservations, and the ids
\* of the certificates that send_certificate gives out name nothing but certificates.
ASSUME OpeningAssumption ==
  /\ IsFiniteSet(DOMAIN OpeningReservations)
  /\ OpeningLists \in [Users -> Seq(DOMAIN OpeningReservations)]
  /\ \A id \in DOMAIN OpeningReservations :
       /\ OpeningReservations[id] \in Reservations
       /\ \A u \in Users : (OpeningReservations[id].user = u) <=>
                               \E n \in DOMAIN OpeningLists[u] : OpeningLists[u][n] = id
       /\ \A p \in ToSet(OpeningReservations[id].history) :
            p.by = "before" /\ p.method \notin ToSet(CertificateIds)
  /\ \A u \in Users : \A n, k \in DOMAIN OpeningLists[u] :
       OpeningLists[u][n] = OpeningLists[u][k] => n = k
  /\ DOMAIN OpeningWallets = Users
  /\ \A u \in Users : \A m \in DOMAIN OpeningWallets[u] :
       /\ OpeningWallets[u][m] \in Holdings
       /\ m \in ToSet(CertificateIds) => OpeningWallets[u][m].source = "certificate"

VARIABLES wallet,        \* payment methods by user and id
          reservations,  \* by id
          lists,         \* user["reservations"]
          bookings,      \* reservations made
          calls,         \* calls made that changed the database
          issued,        \* certificates sent, by user and id
          answer         \* to the last call

db == <<wallet, reservations, lists>>
vars == <<wallet, reservations, lists, bookings, calls, issued, answer>>

-----------------------------------------------------------------------------
(* What the tools compute                                                  *)

Max0(n) == IF n > 0 THEN n ELSE 0

Total(amounts) == SumFunction(amounts)
Paid(history) == Total([i \in DOMAIN history |-> history[i].amount])
PaidBy(history, m) ==
  Total([i \in DOMAIN history |-> IF history[i].method = m THEN history[i].amount ELSE 0])
Fare(flights) == Total([i \in DOMAIN flights |-> flights[i].price])

SeatsFor(party, flight, cabin) == Seats[flight][cabin] >= Len(party)

Priced(itinerary, cabin) ==
  [i \in DOMAIN itinerary |-> [flight |-> itinerary[i], price |-> Prices[itinerary[i]][cabin]]]

\* A segment of the reservation is kept with its price, in the cabin that was booked.
Kept(r, flight, cabin) == {i \in DOMAIN r.flights : r.flights[i].flight = flight /\ cabin = r.cabin}

Repriced(r, itinerary, cabin) ==
  [i \in DOMAIN itinerary |->
     [flight |-> itinerary[i],
      price  |-> IF Kept(r, itinerary[i], cabin) # {}
                 THEN r.flights[Min(Kept(r, itinerary[i], cabin))].price
                 ELSE Prices[itinerary[i]][cabin]]]

\* Wrong variant: the difference for one passenger.
DifferenceForOne(r, flights) == Fare(flights) - Fare(r.flights)

Difference(r, flights) == (Fare(flights) - Fare(r.flights)) * Len(r.passengers)

\* Wrong variant: the balance is not looked at.
CoveredByAny(method, amount) == TRUE

Covered(method, amount) == method.source = "credit_card" \/ method.amount >= amount

\* Wrong variant: a downgrade is paid back outside of the gift card.
ChargedIfPositive(w, m, amount) ==
  IF w[m].source = "gift_card" THEN [w EXCEPT ![m].amount = @ - Max0(amount)] ELSE w

\* The wallet after an update was charged to m.
Charged(w, m, amount) ==
  IF w[m].source = "gift_card" THEN [w EXCEPT ![m].amount = @ - amount] ELSE w

\* An update may be charged to m: any method that is no certificate.
Chargeable(w, m, amount) ==
  m \in DOMAIN w /\ w[m].source # "certificate" /\ Covered(w[m], amount)

Charge(m, amount) ==
  IF amount = 0 THEN <<>> ELSE <<[method |-> m, amount |-> amount, by |-> "call"]>>

\* Wrong variant: certificates are charged like gift cards.
SpentKept(w, offer) ==
  [m \in DOMAIN w |->
     IF w[m].source = "credit_card" THEN w[m]
     ELSE [w[m] EXCEPT !.amount = @ - PaidBy(offer, m)]]

\* The wallet after a booking: gift cards are charged, certificates are gone.
Spent(w, offer) ==
  [m \in {m \in DOMAIN w : w[m].source # "certificate" \/ \A p \in ToSet(offer) : p.method # m} |->
     IF w[m].source = "gift_card" THEN [w[m] EXCEPT !.amount = @ - PaidBy(offer, m)] ELSE w[m]]

\* Wrong variant: the second id serves every later booking.
NewIdOfTwo(taken) == IF NewIds[1] \notin taken THEN NewIds[1] ELSE NewIds[2]

NewId(taken) ==
  IF NewIds[1] \notin taken THEN NewIds[1]
  ELSE IF NewIds[2] \notin taken THEN NewIds[2] ELSE NewIds[3]

-----------------------------------------------------------------------------
Init ==
  /\ wallet = OpeningWallets
  /\ reservations = OpeningReservations
  /\ lists = OpeningLists
  /\ bookings = 0
  /\ calls = 0
  /\ issued = [u \in Users |-> [c \in ToSet(CertificateIds) |-> 0]]
  /\ answer = "done"

Call(outcome) == calls' = calls + 1 /\ answer' = outcome

\* An error is answered, or nothing, and nothing done.
Refuse == answer' = "error" /\ UNCHANGED <<db, bookings, calls, issued>>

\* The reservation of a cancellation or an update is not known.
NotFound == Refuse

-----------------------------------------------------------------------------
(* book_reservation                                                        *)

Cost(flights, party, bags, insured) ==
  (Fare(flights) + IF insured THEN 30 ELSE 0) * Len(party) + 50 * bags

\* What it cost was paid for every reservation of the data.
ASSUME OpeningPaid ==
  \A id \in DOMAIN OpeningReservations :
    LET r == OpeningReservations[id]
    IN  Paid(r.history) >= Cost(r.flights, r.passengers, r.bags, r.insured)

\* The checks of a booking, each payment looked at by itself.
Bookable(u, itinerary, cabin, party, bags, insured, offer) ==
  /\ \A p \in ToSet(offer) : p.method \in DOMAIN wallet[u] /\ Covered(wallet[u][p.method], p.amount)
  /\ \A f \in ToSet(itinerary) : SeatsFor(party, f, cabin)
  /\ Paid(offer) = Cost(Priced(itinerary, cabin), party, bags, insured)

\* Listings of a certificate that an earlier payment of the offer has deleted.
Gone(u, offer) ==
  {j \in DOMAIN offer : /\ wallet[u][offer[j].method].source = "certificate"
                        /\ \E i \in 1 .. j - 1 : offer[i].method = offer[j].method}

Book(u, itinerary, cabin, party, bags, insured, offer) ==
  LET id == NewId(DOMAIN reservations)
  IN  /\ bookings < MaxBookings
      /\ Bookable(u, itinerary, cabin, party, bags, insured, offer)
      /\ Gone(u, offer) = {}
      /\ wallet' = [wallet EXCEPT ![u] = Spent(@, offer)]
      /\ reservations' =
           [i \in DOMAIN reservations \cup {id} |->
              IF i # id THEN reservations[i]
              ELSE [user       |-> u,
                    cabin      |-> cabin,
                    flights    |-> Priced(itinerary, cabin),
                    passengers |-> party,
                    history    |-> [n \in DOMAIN offer |->
                                      [method |-> offer[n].method, amount |-> offer[n].amount,
                                       by |-> "call"]],
                    bags       |-> bags,
                    insured    |-> insured,
                    cancelled  |-> FALSE]]
      /\ lists' = [lists EXCEPT ![u] = Append(@, id)]
      /\ bookings' = bookings + 1
      /\ Call("done")
      /\ UNCHANGED issued

\* The second listing of a certificate is a KeyError: the payments before it are made.
BookRaises(u, itinerary, cabin, party, bags, insured, offer) ==
  /\ Bookable(u, itinerary, cabin, party, bags, insured, offer)
  /\ Gone(u, offer) # {}
  /\ wallet' = [wallet EXCEPT ![u] = Spent(@, SubSeq(offer, 1, Min(Gone(u, offer)) - 1))]
  /\ Call("error")
  /\ UNCHANGED <<reservations, lists, bookings, issued>>

BookRefused(u, itinerary, cabin, party, bags, insured, offer) ==
  /\ ~Bookable(u, itinerary, cabin, party, bags, insured, offer)
  /\ Refuse

-----------------------------------------------------------------------------
(* The tools that change a reservation, whether it is cancelled or not     *)

\* Wrong variant: what was paid back already is not charged again.
RefundsOfCharges(history) ==
  LET charges == SelectSeq(history, LAMBDA p : p.amount > 0)
  IN  [i \in DOMAIN charges |-> [charges[i] EXCEPT !.amount = -@, !.by = "refund"]]

Refunds(history) ==
  [i \in DOMAIN history |-> [history[i] EXCEPT !.amount = -@, !.by = "refund"]]

\* The refund is noted, no balance changes.
Cancel(id) ==
  /\ reservations' = [reservations EXCEPT ![id].history = @ \o Refunds(@), ![id].cancelled = TRUE]
  /\ Call("done")
  /\ UNCHANGED <<wallet, lists, bookings, issued>>

Owner(id) == reservations[id].user
Wallet(id) == wallet[Owner(id)]

BagsPrice(id, bags) == 50 * Max0(bags - reservations[id].bags)

UpdateBaggages(id, bags, m) ==
  /\ Chargeable(Wallet(id), m, BagsPrice(id, bags))
  /\ wallet' = [wallet EXCEPT ![Owner(id)] = Charged(@, m, BagsPrice(id, bags))]
  /\ reservations' = [reservations EXCEPT ![id].bags = bags,
                                          ![id].history = @ \o Charge(m, BagsPrice(id, bags))]
  /\ Call("done")
  /\ UNCHANGED <<lists, bookings, issued>>

UpdateBaggagesRefused(id, bags, m) ==
  /\ ~Chargeable(Wallet(id), m, BagsPrice(id, bags))
  /\ Refuse

Changeable(id, itinerary, cabin, m) ==
  LET r == reservations[id]
  IN  /\ \A f \in ToSet(itinerary) : Kept(r, f, cabin) # {} \/ SeatsFor(r.passengers, f, cabin)
      /\ Chargeable(Wallet(id), m, Difference(r, Repriced(r, itinerary, cabin)))

\* The cabin of the reservation stays what it was booked with.
UpdateFlights(id, itinerary, cabin, m) ==
  LET r == reservations[id]
      flights == Repriced(r, itinerary, cabin)
  IN  /\ Changeable(id, itinerary, cabin, m)
      /\ wallet' = [wallet EXCEPT ![Owner(id)] = Charged(@, m, Difference(r, flights))]
      /\ reservations' = [reservations EXCEPT ![id].flights = flights,
                                              ![id].history = @ \o Charge(m, Difference(r, flights))]
      /\ Call("done")
      /\ UNCHANGED <<lists, bookings, issued>>

UpdateFlightsRefused(id, itinerary, cabin, m) ==
  /\ ~Changeable(id, itinerary, cabin, m)
  /\ Refuse

UpdatePassengers(id, party) ==
  /\ Len(party) = Len(reservations[id].passengers)
  /\ reservations' = [reservations EXCEPT ![id].passengers = party]
  /\ Call("done")
  /\ UNCHANGED <<wallet, lists, bookings, issued>>

UpdatePassengersRefused(id, party) ==
  /\ Len(party) # Len(reservations[id].passengers)
  /\ Refuse

-----------------------------------------------------------------------------
(* send_certificate                                                        *)

FreeSlots(u) == {n \in DOMAIN CertificateIds : CertificateIds[n] \notin DOMAIN wallet[u]}

SendCertificate(u, amount) ==
  LET c == CertificateIds[Min(FreeSlots(u))]
  IN  /\ FreeSlots(u) # {}
      /\ wallet' = [wallet EXCEPT ![u] =
                      [m \in DOMAIN @ \cup {c} |->
                         IF m = c THEN [source |-> "certificate", amount |-> amount] ELSE @[m]]]
      /\ issued' = [issued EXCEPT ![u][c] = @ + 1]
      /\ Call("done")
      /\ UNCHANGED <<reservations, lists, bookings>>

\* No id is left: nothing happens and None is returned.
SendNothing(u) ==
  /\ FreeSlots(u) = {}
  /\ Refuse

-----------------------------------------------------------------------------
CallBook ==
  \E u \in Users, itinerary \in Itineraries, cabin \in Cabins, party \in Parties,
     bags \in BagCounts, insured \in BOOLEAN, offer \in Offers :
    \/ Book(u, itinerary, cabin, party, bags, insured, offer)
    \/ BookRaises(u, itinerary, cabin, party, bags, insured, offer)
    \/ BookRefused(u, itinerary, cabin, party, bags, insured, offer)

CallUpdate(id) ==
  \/ Cancel(id)
  \/ \E m \in Methods, bags \in BagCounts :
       UpdateBaggages(id, bags, m) \/ UpdateBaggagesRefused(id, bags, m)
  \/ \E m \in Methods, itinerary \in Itineraries, cabin \in Cabins :
       UpdateFlights(id, itinerary, cabin, m) \/ UpdateFlightsRefused(id, itinerary, cabin, m)
  \/ \E party \in Parties : UpdatePassengers(id, party) \/ UpdatePassengersRefused(id, party)

CallCertificate ==
  \E u \in Users : SendNothing(u) \/ \E amount \in CertificateAmounts : SendCertificate(u, amount)

Next ==
  /\ calls < MaxCalls
  /\ \/ CallBook
     \/ \E id \in DOMAIN reservations : CallUpdate(id)
     \/ CallCertificate
     \/ NotFound

Spec == Init /\ [][Next]_vars

-----------------------------------------------------------------------------
(* Properties                                                              *)

GiftCards(u) == {m \in DOMAIN OpeningWallets[u] : OpeningWallets[u][m].source = "gift_card"}

\* What the two properties below ask of the offers of the callers: each payment of a
\* gift card is checked against the whole balance, and a certificate that is listed
\* twice stops a booking after the payments before it were made.
NoGiftCardTwice ==
  \A u \in Users, offer \in Offers : \A i, j \in DOMAIN offer :
    offer[i].method \in GiftCards(u) /\ offer[i].method = offer[j].method => i = j

CertificatesFirst ==
  \A u \in Users, offer \in Offers : \A i, k \in DOMAIN offer :
    LET m == offer[k].method
        certificate == \/ m \in ToSet(CertificateIds)
                       \/ m \in DOMAIN OpeningWallets[u] /\ OpeningWallets[u][m].source = "certificate"
    IN  i < k /\ offer[i].method = m /\ certificate =>
          \A j \in DOMAIN offer : j < k => offer[j].method \notin GiftCards(u)

\* Type invariant.  No stored balance is ever negative ("not enough balance",
\* book_reservation and the updates), as long as no offer lists a gift card twice
\* (NoGiftCardTwice).
TypeOK ==
  /\ \A u \in Users :
       /\ DOMAIN wallet[u] \subseteq Methods
       /\ \A m \in DOMAIN wallet[u] :
            wallet[u][m].source # "credit_card" => wallet[u][m].amount \in Nat
  /\ \A id \in DOMAIN reservations : reservations[id] \in Reservations
  /\ lists \in [Users -> Seq(DOMAIN reservations)]
  /\ bookings \in 0 .. MaxBookings /\ calls \in 0 .. MaxCalls

\* Whatever was changed, in whatever order, a reservation that was never cancelled has
\* been paid in full: fares of all passengers, insurance and bags (book_reservation and
\* the differences charged by the updates).
PaidInFull ==
  \A id \in DOMAIN reservations :
    LET r == reservations[id]
    IN  ~r.cancelled => Paid(r.history) >= Cost(r.flights, r.passengers, r.bags, r.insured)

\* What the calls charged to m.
CalledFor(history, m) ==
  Total([i \in DOMAIN history |->
           IF history[i].method = m /\ history[i].by = "call" THEN history[i].amount ELSE 0])

\* What a gift card lost since the reset is what the reservations of its user say was
\* charged to it, refunds of cancellations apart: they "will go to original payment
\* methods in 5 to 7 business days" (book_reservation, the updates).  For offers that
\* do not list a certificate twice after a gift card (CertificatesFirst).
GiftCardsBalance ==
  \A u \in Users : \A m \in DOMAIN OpeningWallets[u] :
    OpeningWallets[u][m].source = "gift_card" =>
      OpeningWallets[u][m].amount - wallet[u][m].amount =
        Total([id \in {id \in DOMAIN reservations : Owner(id) = u} |->
                 CalledFor(reservations[id].history, m)])

\* A certificate, whose id may be given out again once it was used, pays for no more
\* reservations than it was sent times (book_reservation and send_certificate).
CertificatesSpentOnce ==
  \A u \in Users : \A c \in ToSet(CertificateIds) :
    LET paidFor == {id \in DOMAIN reservations :
                      /\ Owner(id) = u
                      /\ \E p \in ToSet(reservations[id].history) : p.method = c}
    IN  Cardinality(paidFor) + (IF c \in DOMAIN wallet[u] THEN 1 ELSE 0)
          <= issued[u][c] + (IF c \in DOMAIN OpeningWallets[u] THEN 1 ELSE 0)

\* A cancellation leaves nothing charged to any method, also that of a reservation
\* which was updated, cancelled before, or updated after it was cancelled.
CancelReverses ==
  [][\A id \in DOMAIN reservations : Cancel(id) =>
       \A m \in Methods : PaidBy(reservations'[id].history, m) = 0]_vars

\* The list of a user names the user's reservations, each once, and no others.
ListsTrue ==
  /\ \A u \in Users, id \in DOMAIN reservations :
       (reservations[id].user = u) <=> \E n \in DOMAIN lists[u] : lists[u][n] = id
  /\ \A u \in Users : \A n \in DOMAIN lists[u] : lists[u][n] \in DOMAIN reservations
  /\ \A u \in Users : \A n, k \in DOMAIN lists[u] : lists[u][n] = lists[u][k] => n = k

\* "Cabin changes require the user to pay for the difference between their current cabin
\* and the new cabin class" (wiki.md): a reservation made with these tools, updated to
\* another cabin on the same flights, holds that cabin's fares (update_reservation_flights).
CabinPaid ==
  [][\A id \in DOMAIN reservations \cap ToSet(NewIds), cabin \in Cabins :
       LET flights == reservations[id].flights
           same == [i \in DOMAIN flights |-> flights[i].flight]
       IN  (\E m \in Methods : UpdateFlights(id, same, cabin, m)) =>
             reservations'[id].flights = Priced(same, cabin)]_vars

\* "if checks pass, deduct payment" (book_reservation): a call that answers an error
\* has changed nothing.
ErrorsChangeNothing == [][answer' = "error" => UNCHANGED db]_vars
=============================================================================
