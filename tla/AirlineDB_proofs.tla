--------------------------- MODULE AirlineDB_proofs ---------------------------
(***************************************************************************)
(* The theorems about AirlineDB, for any data, flights, offers and number  *)
(* of calls, as long as no more than three reservations are made.          *)
(*                                                                         *)
(* The lists of the users name their reservations: the ids of new ones are *)
(* taken in order, so that one that is free remains for the next booking   *)
(* (Numbered).                                                             *)
(*                                                                         *)
(* The theorems about money rest on what each call does to the             *)
(* reservations, the certificates and the gift cards (Steps), on the types *)
(* of the records, which the opening data have and every call keeps        *)
(* (Typed), and on the sums of SumTheorems.                                *)
(***************************************************************************)
EXTENDS AirlineDB, SumTheorems, TLAPS

Ids == DOMAIN OpeningReservations \cup {NewIds[i] : i \in 1 .. 3}

\* After n bookings the first n new ids are taken.
Numbered ==
  /\ bookings \in 0 .. MaxBookings
  /\ DOMAIN reservations = DOMAIN OpeningReservations \cup {NewIds[i] : i \in 1 .. bookings}

Owned == \A id \in DOMAIN reservations : "user" \in DOMAIN reservations[id]

ListInv ==
  /\ Numbered
  /\ Owned
  /\ lists \in [Users -> Seq(Ids)]
  /\ ListsTrue

\* What an update of a reservation leaves alone.
Unmoved ==
  /\ UNCHANGED <<lists, bookings>>
  /\ DOMAIN reservations' = DOMAIN reservations
  /\ \A id \in DOMAIN reservations :
       /\ reservations'[id].user = reservations[id].user
       /\ "user" \in DOMAIN reservations'[id]

\* A step that leaves the owners, the lists and the bookings alone keeps the invariant.
LEMMA UnmovedKeeps == ListInv /\ Unmoved => ListInv'
<1>1. SUFFICES ASSUME ListInv, Unmoved PROVE ListInv'
  OBVIOUS
<1>2. Numbered'
  BY <1>1 DEF ListInv, Numbered, Unmoved
<1>3. Owned'
  BY <1>1 DEF ListInv, Owned, Unmoved
<1>4. (lists \in [Users -> Seq(Ids)])'
  BY <1>1 DEF ListInv, Unmoved
<1>5. ListsTrue'
  BY <1>1 DEF ListInv, ListsTrue, Unmoved
<1>6. QED
  BY <1>2, <1>3, <1>4, <1>5 DEF ListInv

\* The tools that change a reservation leave its owner alone.
LEMMA UpdatesUnmoved ==
  ASSUME Owned, NEW id \in DOMAIN reservations, CallUpdate(id)
  PROVE  Unmoved
<1>1. CASE Cancel(id)
  BY <1>1 DEF Cancel, Unmoved, Owned
<1>2. CASE \E m \in Methods, bags \in BagCounts : UpdateBaggages(id, bags, m)
  BY <1>2 DEF UpdateBaggages, Unmoved, Owned
<1>3. CASE \E m \in Methods, itinerary \in Itineraries, cabin \in Cabins :
             UpdateFlights(id, itinerary, cabin, m)
  BY <1>3 DEF UpdateFlights, Unmoved, Owned
<1>4. CASE \E party \in Parties : UpdatePassengers(id, party)
  BY <1>4 DEF UpdatePassengers, Unmoved, Owned
<1>5. CASE Refuse
  BY <1>5 DEF Refuse, db, Unmoved, Owned
<1>6. QED
  BY <1>1, <1>2, <1>3, <1>4, <1>5
  DEF CallUpdate, UpdateBaggagesRefused, UpdateFlightsRefused, UpdatePassengersRefused

\* A booking that fails, a certificate or an unknown reservation changes no reservation.
LEMMA OthersUnmoved ==
  ASSUME Owned,
         Refuse \/ CallCertificate
         \/ \E u \in Users, itinerary \in Itineraries, cabin \in Cabins, party \in Parties,
               bags \in BagCounts, insured \in BOOLEAN, offer \in Offers :
              BookRaises(u, itinerary, cabin, party, bags, insured, offer)
  PROVE  Unmoved
<1>1. UNCHANGED <<reservations, lists, bookings>>
  BY DEF Refuse, db, CallCertificate, SendNothing, SendCertificate, BookRaises
<1>2. QED
  BY <1>1 DEF Unmoved, Owned

\* The id of a new reservation is the next one, and free.
LEMMA NextId ==
  ASSUME Numbered, bookings < MaxBookings
  PROVE  /\ NewId(DOMAIN reservations) = NewIds[bookings + 1]
         /\ NewIds[bookings + 1] \notin DOMAIN reservations
         /\ bookings + 1 \in 1 .. 3
<1>1. bookings \in 0 .. 2
  BY IdsAssumption DEF Numbered
<1>2. \A i \in 1 .. 3 : NewIds[i] \in DOMAIN reservations <=> i <= bookings
  BY <1>1, IdsAssumption DEF Numbered
<1>3. CASE bookings = 0
  BY <1>2, <1>3 DEF NewId
<1>4. CASE bookings = 1
  BY <1>2, <1>4 DEF NewId
<1>5. CASE bookings = 2
  BY <1>2, <1>5 DEF NewId
<1>6. QED
  BY <1>1, <1>3, <1>4, <1>5

\* A booking adds the reservation to the list of its user.
LEMMA BookKeeps ==
  ASSUME ListInv, NEW u \in Users, NEW itinerary, NEW cabin, NEW party, NEW bags,
         NEW insured, NEW offer, Book(u, itinerary, cabin, party, bags, insured, offer)
  PROVE  ListInv'
<1> DEFINE id == NewIds[bookings + 1]
<1>1. /\ NewId(DOMAIN reservations) = id
      /\ id \notin DOMAIN reservations
      /\ bookings + 1 \in 1 .. 3
  BY NextId DEF ListInv, Book
<1>2. /\ DOMAIN reservations' = DOMAIN reservations \cup {id}
      /\ \A i \in DOMAIN reservations : reservations'[i] = reservations[i]
      /\ reservations'[id].user = u
      /\ "user" \in DOMAIN reservations'[id]
  BY <1>1 DEF Book
<1>3. /\ lists' = [lists EXCEPT ![u] = Append(@, id)]
      /\ bookings' = bookings + 1 /\ bookings < MaxBookings
  BY <1>1 DEF Book
<1>4. id \in Ids
  BY <1>1 DEF Ids
<1> HIDE DEF id
<1>5. Numbered'
  <2>1. bookings \in 0 .. MaxBookings
    BY DEF ListInv, Numbered
  <2>2. {NewIds[i] : i \in 1 .. bookings} \cup {id} = {NewIds[i] : i \in 1 .. bookings + 1}
    BY <2>1, IdsAssumption DEF id
  <2>3. bookings' \in 0 .. MaxBookings
    BY <1>3, <2>1, IdsAssumption
  <2>4. DOMAIN reservations = DOMAIN OpeningReservations \cup {NewIds[i] : i \in 1 .. bookings}
    BY DEF ListInv, Numbered
  <2>5. DOMAIN reservations' = DOMAIN OpeningReservations \cup {NewIds[i] : i \in 1 .. bookings'}
    BY <1>2, <1>3, <2>2, <2>4, Zenon
  <2>6. QED
    BY <2>3, <2>5 DEF Numbered
<1>6. Owned'
  BY <1>2 DEF ListInv, Owned
<1>7. lists \in [Users -> Seq(Ids)]
  BY DEF ListInv
<1>8. /\ lists' \in [Users -> Seq(Ids)]
      /\ \A v \in Users \ {u} : lists'[v] = lists[v]
      /\ DOMAIN lists'[u] = 1 .. Len(lists[u]) + 1
      /\ Len(lists[u]) \in Nat
      /\ \A n \in 1 .. Len(lists[u]) : lists'[u][n] = lists[u][n]
      /\ lists'[u][Len(lists[u]) + 1] = id
      /\ \A v \in Users : DOMAIN lists[v] = 1 .. Len(lists[v])
  BY <1>3, <1>4, <1>7
<1>9. \A v \in Users : \A n \in DOMAIN lists[v] : lists[v][n] \in DOMAIN reservations /\ lists[v][n] # id
  BY <1>1 DEF ListInv, ListsTrue, id
<1>10. \A v \in Users : \A n \in DOMAIN lists'[v] :
         \/ n \in DOMAIN lists[v] /\ lists'[v][n] = lists[v][n]
         \/ v = u /\ n = Len(lists[u]) + 1 /\ lists'[v][n] = id
  BY <1>8
<1>11. \A v \in Users : \A n \in DOMAIN lists[v] : n \in DOMAIN lists'[v] /\ lists'[v][n] = lists[v][n]
  BY <1>8
<1>12. ListsTrue'
  <2>1. ASSUME NEW v \in Users, NEW i \in DOMAIN reservations'
        PROVE  (reservations'[i].user = v) <=> \E n \in DOMAIN lists'[v] : lists'[v][n] = i
    <3>1. CASE i = id
      <4>1. reservations'[i].user = v <=> v = u
        BY <3>1, <1>2
      <4>2. v = u => \E n \in DOMAIN lists'[v] : lists'[v][n] = i
        BY <3>1, <1>8
      <4>3. (\E n \in DOMAIN lists'[v] : lists'[v][n] = i) => v = u
        BY <3>1, <1>9, <1>10
      <4>4. QED
        BY <4>1, <4>2, <4>3
    <3>2. CASE i # id
      <4>1. i \in DOMAIN reservations /\ reservations'[i].user = reservations[i].user
        BY <3>2, <1>2
      <4>2. (reservations[i].user = v) <=> \E n \in DOMAIN lists[v] : lists[v][n] = i
        BY <4>1 DEF ListInv, ListsTrue
      <4>3. QED
        BY <3>2, <4>1, <4>2, <1>10, <1>11
    <3>3. QED
      BY <3>1, <3>2
  <2>2. \A v \in Users : \A n \in DOMAIN lists'[v] : lists'[v][n] \in DOMAIN reservations'
    BY <1>2, <1>9, <1>10
  <2>3. ASSUME NEW v \in Users, NEW n \in DOMAIN lists'[v], NEW k \in DOMAIN lists'[v],
               lists'[v][n] = lists'[v][k]
        PROVE  n = k
    BY <2>3, <1>9, <1>10 DEF ListInv, ListsTrue
  <2>4. QED
    BY <2>1, <2>2, <2>3 DEF ListsTrue
<1>13. QED
  BY <1>5, <1>6, <1>8, <1>12 DEF ListInv

\* The data of the task satisfies the invariant.
LEMMA OpeningListed == Init => ListInv
<1>1. SUFFICES ASSUME Init PROVE ListInv
  OBVIOUS
<1>2. Numbered
  BY <1>1, IdsAssumption DEF Init, Numbered
<1>3. Owned
  <2>1. \A id \in DOMAIN OpeningReservations : OpeningReservations[id] \in Reservations
    BY OpeningAssumption
  <2>2. QED
    BY <1>1, <2>1 DEF Init, Owned, Reservations
<1>4. lists \in [Users -> Seq(DOMAIN OpeningReservations)]
  BY <1>1, OpeningAssumption DEF Init
<1>5. \A u \in Users : lists[u] \in Seq(Ids) /\ \A n \in DOMAIN lists[u] : lists[u][n] \in DOMAIN reservations
  BY <1>1, <1>4 DEF Init, Ids
<1>6. ListsTrue
  BY <1>1, <1>5, OpeningAssumption DEF Init, ListsTrue
<1>7. QED
  BY <1>2, <1>3, <1>4, <1>5, <1>6 DEF ListInv

\* Every call keeps the lists and the ids of the reservations.
LEMMA ListStep == ListInv /\ [Next]_vars => ListInv'
<1>1. SUFFICES ASSUME ListInv, [Next]_vars PROVE ListInv'
  OBVIOUS
<1>2. Owned
  BY <1>1 DEF ListInv
<1>3. CASE CallBook
  <2>1. PICK u \in Users, itinerary \in Itineraries, cabin \in Cabins, party \in Parties,
             bags \in BagCounts, insured \in BOOLEAN, offer \in Offers :
               \/ Book(u, itinerary, cabin, party, bags, insured, offer)
               \/ BookRaises(u, itinerary, cabin, party, bags, insured, offer)
               \/ Refuse
    BY <1>3 DEF CallBook, BookRefused
  <2>2. CASE Book(u, itinerary, cabin, party, bags, insured, offer)
    BY <1>1, <2>2, BookKeeps
  <2>3. CASE BookRaises(u, itinerary, cabin, party, bags, insured, offer) \/ Refuse
    BY <1>1, <1>2, <2>3, OthersUnmoved, UnmovedKeeps
  <2>4. QED
    BY <2>1, <2>2, <2>3
<1>4. CASE \E id \in DOMAIN reservations : CallUpdate(id)
  BY <1>1, <1>2, <1>4, UpdatesUnmoved, UnmovedKeeps
<1>5. CASE CallCertificate \/ NotFound
  BY <1>1, <1>2, <1>5, OthersUnmoved, UnmovedKeeps DEF NotFound
<1>6. CASE UNCHANGED vars
  BY <1>1, <1>2, <1>6, UnmovedKeeps DEF vars, Unmoved, Owned
<1>7. QED
  BY <1>1, <1>3, <1>4, <1>5, <1>6 DEF Next

\* ListsTrue: the list of a user names the user's reservations, each once, and no others.
THEOREM ListsKept == Spec => []ListsTrue
<1>1. ListInv => ListsTrue
  BY DEF ListInv
<1>2. QED
  BY OpeningListed, ListStep, <1>1, PTL DEF Spec

-----------------------------------------------------------------------------
(* What the amounts of a history sum up to                                 *)

\* The elements of a sequence.
LEMMA Elements ==
  ASSUME NEW s, s \in Seq(ToSet(s))
  PROVE  /\ DOMAIN s = 1 .. Len(s) /\ Len(s) \in Nat
         /\ \A i \in DOMAIN s : s[i] \in ToSet(s)
  BY DEF ToSet

Amount == [e \in Entries |-> e.amount]
AmountBy(m) == [e \in Entries |-> IF e.method = m THEN e.amount ELSE 0]
AmountCalled(m) == [e \in Entries |-> IF e.method = m /\ e.by = "call" THEN e.amount ELSE 0]

\* The totals of a payment history as sums over its entries.
LEMMA HistoryValued ==
  ASSUME NEW s, s \in Seq(Entries), NEW m
  PROVE  /\ Paid(s) = Valued(s, Amount)
         /\ PaidBy(s, m) = Valued(s, AmountBy(m))
         /\ CalledFor(s, m) = Valued(s, AmountCalled(m))
<1>1. \A i \in DOMAIN s : s[i] \in Entries
  OBVIOUS
<1>2. [i \in DOMAIN s |-> s[i].amount] = [i \in DOMAIN s |-> Amount[s[i]]]
  BY <1>1 DEF Amount
<1>3. [i \in DOMAIN s |-> IF s[i].method = m THEN s[i].amount ELSE 0]
        = [i \in DOMAIN s |-> AmountBy(m)[s[i]]]
  BY <1>1 DEF AmountBy
<1>4. [i \in DOMAIN s |-> IF s[i].method = m /\ s[i].by = "call" THEN s[i].amount ELSE 0]
        = [i \in DOMAIN s |-> AmountCalled(m)[s[i]]]
  BY <1>1 DEF AmountCalled
<1>5. QED
  BY <1>2, <1>3, <1>4 DEF Valued, Paid, PaidBy, CalledFor, Total

\* Histories and what is put behind them.
LEMMA JoinedSums ==
  ASSUME NEW s, NEW t, s \in Seq(Entries), t \in Seq(Entries), NEW m
  PROVE  /\ s \o t \in Seq(Entries)
         /\ Paid(s \o t) = Paid(s) + Paid(t) /\ Paid(s) \in Int /\ Paid(t) \in Int
         /\ PaidBy(s \o t, m) = PaidBy(s, m) + PaidBy(t, m) /\ PaidBy(s, m) \in Int /\ PaidBy(t, m) \in Int
         /\ CalledFor(s \o t, m) = CalledFor(s, m) + CalledFor(t, m)
         /\ CalledFor(s, m) \in Int /\ CalledFor(t, m) \in Int
<1>1. s \o t \in Seq(Entries)
  OBVIOUS
<1>2. /\ Amount \in [Entries -> Int] /\ AmountBy(m) \in [Entries -> Int]
      /\ AmountCalled(m) \in [Entries -> Int]
  BY DEF Entries, Amount, AmountBy, AmountCalled
<1>3. \A v \in [Entries -> Int] : /\ Valued(s \o t, v) = Valued(s, v) + Valued(t, v)
                                  /\ Valued(s, v) \in Int /\ Valued(t, v) \in Int
  BY ValuedJoin
<1>4. QED
  BY <1>1, <1>2, <1>3, HistoryValued

\* What is charged for an update.
LEMMA ChargeSums ==
  ASSUME NEW m, NEW amount \in Int, m \in Methods \/ amount = 0, NEW k
  PROVE  /\ Charge(m, amount) \in Seq(Entries)
         /\ Paid(Charge(m, amount)) = amount
         /\ CalledFor(Charge(m, amount), k) = IF k = m THEN amount ELSE 0
         /\ \A p \in ToSet(Charge(m, amount)) : p.method = m
<1> DEFINE e == [method |-> m, amount |-> amount, by |-> "call"]
           c == Charge(m, amount)
<1>1. /\ m \in Methods => e \in Entries
      /\ e.method = m /\ e.amount = amount /\ e.by = "call"
  BY DEF Entries
<1>2. CASE amount = 0
  <2>1. c = <<>> /\ DOMAIN c = {} /\ ToSet(c) = {} /\ c \in Seq(Entries)
    BY <1>2 DEF Charge, ToSet
  <2>2. Paid(c) = 0 /\ CalledFor(c, k) = 0
    <3> HIDE DEF c
    <3>1. QED
      BY <2>1, SumOfNone DEF Paid, CalledFor, Total, SumFunction
  <2>3. QED
    BY <1>2, <2>1, <2>2
<1>3. CASE amount # 0
  <2>1. c = <<e>>
    BY <1>3 DEF Charge
  <2> HIDE DEF c, e
  <2>2. c \in Seq(Entries) /\ DOMAIN c = {1} /\ c[1] = e /\ ToSet(c) = {e}
    <3>1. e \in Entries
      BY <1>1, <1>3
    <3>2. QED
      BY <2>1, <3>1 DEF ToSet
  <2> DEFINE f == [i \in DOMAIN c |-> c[i].amount]
             g == [i \in DOMAIN c |-> IF c[i].method = k /\ c[i].by = "call" THEN c[i].amount ELSE 0]
  <2>3. /\ DOMAIN f = {1} /\ f[1] = amount
        /\ DOMAIN g = {1} /\ g[1] = (IF k = m THEN amount ELSE 0) /\ g[1] \in Int
    BY <1>1, <2>2
  <2>4. Paid(c) = Total(f) /\ CalledFor(c, k) = Total(g)
    BY DEF Paid, CalledFor
  <2> HIDE DEF f, g
  <2>5. Total(f) = f[1] /\ Total(g) = g[1]
    BY <2>3, SumOfOne DEF Total, SumFunction
  <2>6. QED
    BY <1>1, <2>2, <2>3, <2>4, <2>5 DEF c
<1>4. QED
  BY <1>2, <1>3

\* The refund of an entry.
LEMMA RefundEntry ==
  ASSUME NEW e \in Entries
  PROVE  LET f == [e EXCEPT !.amount = -@, !.by = "refund"]
         IN  /\ f \in Entries /\ e.amount \in Int /\ f.amount = -e.amount
             /\ f.method = e.method /\ f.by = "refund"
<1>1. \A x \in Int : LET f == [e EXCEPT !.amount = x, !.by = "refund"]
                    IN  /\ f \in Entries /\ f.amount = x
                        /\ f.method = e.method /\ f.by = "refund"
  BY DEF Entries
<1>2. e.amount \in Int /\ -e.amount \in Int
  BY DEF Entries
<1>3. QED
  BY ONLY <1>1, <1>2

\* A refund for every entry.
LEMMA RefundSums ==
  ASSUME NEW h, h \in Seq(Entries), NEW m
  PROVE  /\ Refunds(h) \in Seq(Entries)
         /\ PaidBy(Refunds(h), m) = -PaidBy(h, m)
         /\ CalledFor(Refunds(h), m) = 0
         /\ \A p \in ToSet(Refunds(h)) : \E q \in ToSet(h) : p.method = q.method
<1> DEFINE r == Refunds(h)
<1>1. /\ DOMAIN h = 1 .. Len(h) /\ Len(h) \in Nat /\ DOMAIN r = DOMAIN h
      /\ \A i \in DOMAIN h :
           /\ h[i] \in Entries /\ r[i] \in Entries
           /\ h[i].amount \in Int /\ r[i].amount = -h[i].amount
           /\ r[i].method = h[i].method /\ r[i].by = "refund"
  <2>1. DOMAIN h = 1 .. Len(h) /\ Len(h) \in Nat /\ \A i \in DOMAIN h : h[i] \in Entries
    OBVIOUS
  <2>3. DOMAIN r = DOMAIN h
        /\ \A i \in DOMAIN h : r[i] = [h[i] EXCEPT !.amount = -@, !.by = "refund"]
    BY DEF Refunds
  <2> HIDE DEF r
  <2>4. ASSUME NEW i \in DOMAIN h
        PROVE  /\ r[i] \in Entries /\ h[i].amount \in Int /\ r[i].amount = -h[i].amount
               /\ r[i].method = h[i].method /\ r[i].by = "refund"
    <3> DEFINE e == h[i]
               f == r[i]
    <3>1. e \in Entries /\ f = [e EXCEPT !.amount = -@, !.by = "refund"]
      BY <2>1, <2>3
    <3> HIDE DEF e, f
    <3>2. /\ f \in Entries /\ e.amount \in Int /\ f.amount = -e.amount
          /\ f.method = e.method /\ f.by = "refund"
      BY ONLY <3>1, RefundEntry
    <3>3. QED
      BY <3>2 DEF e, f
  <2>5. QED
    BY ONLY <2>1, <2>3, <2>4
<1>2. r \in Seq(Entries)
  <2>1. r = [i \in 1 .. Len(h) |-> r[i]]
    BY <1>1 DEF Refunds
  <2> HIDE DEF r
  <2>2. QED
    BY ONLY <1>1, <2>1
<1> HIDE DEF r
<1>3. PaidBy(r, m) = -PaidBy(h, m)
  <2> DEFINE f == [i \in DOMAIN h |-> IF h[i].method = m THEN h[i].amount ELSE 0]
             g == [i \in DOMAIN r |-> IF r[i].method = m THEN r[i].amount ELSE 0]
  <2>1. DOMAIN f = 1 .. Len(h) /\ DOMAIN g = 1 .. Len(h)
        /\ \A i \in 1 .. Len(h) : f[i] \in Int /\ g[i] = -f[i]
    BY <1>1
  <2> HIDE DEF f, g
  <2>2. Total(g) = -Total(f)
    BY <1>1, <2>1, FiniteIndices, SumNegated DEF Total, SumFunction
  <2>3. QED
    BY <2>2 DEF f, g, PaidBy
<1>4. CalledFor(r, m) = 0
  <2> DEFINE g == [i \in DOMAIN r |-> IF r[i].method = m /\ r[i].by = "call" THEN r[i].amount ELSE 0]
  <2>1. DOMAIN g = 1 .. Len(h) /\ \A i \in 1 .. Len(h) : g[i] = 0
    BY <1>1
  <2> HIDE DEF g
  <2>2. Total(g) = 0
    BY <1>1, <2>1, FiniteIndices, SumOfZeros DEF Total, SumFunction
  <2>3. QED
    BY <2>2 DEF g, CalledFor
<1>5. \A p \in ToSet(r) : \E q \in ToSet(h) : p.method = q.method
  BY <1>1 DEF ToSet
<1>6. QED
  BY <1>2, <1>3, <1>4, <1>5 DEF r

-----------------------------------------------------------------------------
(* Types                                                                   *)

\* What every call keeps of a user's payment methods: gift cards stay, certificates are
\* the only ones that come and go, and the source of a method never changes.
SoundWallet(u, w) ==
  /\ DOMAIN w \subseteq DOMAIN OpeningWallets[u] \cup ToSet(CertificateIds)
  /\ GiftCards(u) \subseteq DOMAIN w
  /\ \A m \in DOMAIN w :
       /\ w[m] \in [source : {"gift_card", "credit_card", "certificate"}, amount : Int]
       /\ w[m].source = IF m \in ToSet(CertificateIds) THEN "certificate" ELSE OpeningWallets[u][m].source

Typed ==
  /\ DOMAIN wallet = Users /\ \A u \in Users : SoundWallet(u, wallet[u])
  /\ \A id \in DOMAIN reservations : reservations[id] \in Reservations
  /\ Numbered
  /\ issued \in [Users -> [ToSet(CertificateIds) -> Nat]]
  /\ calls \in 0 .. MaxCalls

\* The least of a set of numbers.
LEMMA MinIn ==
  ASSUME NEW S, S \subseteq Nat, S # {}
  PROVE  Min(S) \in S /\ \A k \in S : Min(S) <= k
  BY LeastIn DEF Min

\* No gift card has an id that certificates are given.
LEMMA GiftCardsAreNoCertificates ==
  ASSUME NEW u \in Users
  PROVE  /\ GiftCards(u) \subseteq DOMAIN OpeningWallets[u]
         /\ \A m \in GiftCards(u) : m \notin ToSet(CertificateIds)
                                   /\ OpeningWallets[u][m].source = "gift_card"
  BY OpeningAssumption DEF GiftCards

\* What a sound wallet holds.
LEMMA SoundIsTyped ==
  ASSUME NEW u \in Users, NEW w, SoundWallet(u, w)
  PROVE  /\ DOMAIN w \subseteq Methods
         /\ \A m \in DOMAIN w : /\ w[m].amount \in Int
                                /\ (w[m].source = "gift_card") <=> m \in GiftCards(u)
                                /\ m \in ToSet(CertificateIds) => w[m].source = "certificate"
         /\ \A m \in GiftCards(u) : m \in DOMAIN w
  BY OpeningAssumption DEF SoundWallet, Methods, GiftCards

\* An offer's amounts.
LEMMA OfferSums ==
  ASSUME NEW offer, offer \in Seq(ToSet(offer)), \A p \in ToSet(offer) : p.amount \in Int, NEW m
  PROVE  Paid(offer) \in Int /\ PaidBy(offer, m) \in Int
<1>1. DOMAIN offer = 1 .. Len(offer) /\ Len(offer) \in Nat /\ \A i \in DOMAIN offer : offer[i].amount \in Int
  BY Elements
<1> DEFINE f == [i \in DOMAIN offer |-> offer[i].amount]
           g == [i \in DOMAIN offer |-> IF offer[i].method = m THEN offer[i].amount ELSE 0]
<1>2. /\ DOMAIN f = 1 .. Len(offer) /\ \A i \in DOMAIN f : f[i] \in Int
      /\ DOMAIN g = 1 .. Len(offer) /\ \A i \in DOMAIN g : g[i] \in Int
  BY <1>1
<1>3. IsFiniteSet(1 .. Len(offer))
  BY <1>1, FiniteIndices
<1> HIDE DEF f, g
<1>4. SumFunctionOnSet(f, DOMAIN f) \in Int /\ SumFunctionOnSet(g, DOMAIN g) \in Int
  BY <1>2, <1>3, SumIsInt
<1>5. QED
  BY <1>4 DEF f, g, Paid, PaidBy, Total, SumFunction

\* The wallet after a booking.
LEMMA SpentSound ==
  ASSUME NEW u \in Users, NEW w, SoundWallet(u, w),
         NEW offer, offer \in Seq(ToSet(offer)), \A p \in ToSet(offer) : p.amount \in Int
  PROVE  /\ SoundWallet(u, Spent(w, offer))
         /\ \A m \in DOMAIN Spent(w, offer) :
              /\ m \in DOMAIN w
              /\ Spent(w, offer)[m].source = w[m].source
              /\ Spent(w, offer)[m].amount =
                   IF m \in GiftCards(u) THEN w[m].amount - PaidBy(offer, m) ELSE w[m].amount
              /\ w[m].source = "certificate" => \A p \in ToSet(offer) : p.method # m
<1>1. \A m \in DOMAIN w : /\ w[m] \in [source : {"gift_card", "credit_card", "certificate"}, amount : Int]
                          /\ (w[m].source = "gift_card") <=> m \in GiftCards(u)
  BY SoundIsTyped DEF SoundWallet
<1>2. \A m : PaidBy(offer, m) \in Int
  BY OfferSums
<1> DEFINE s == Spent(w, offer)
<1>3. /\ DOMAIN s = {m \in DOMAIN w : w[m].source # "certificate" \/ \A p \in ToSet(offer) : p.method # m}
      /\ \A m \in DOMAIN s :
           s[m] = IF w[m].source = "gift_card" THEN [w[m] EXCEPT !.amount = @ - PaidBy(offer, m)] ELSE w[m]
  BY DEF Spent
<1> HIDE DEF s
<1>4. ASSUME NEW m \in DOMAIN s
      PROVE  /\ s[m] \in [source : {"gift_card", "credit_card", "certificate"}, amount : Int]
             /\ s[m].source = w[m].source
             /\ s[m].amount = IF m \in GiftCards(u) THEN w[m].amount - PaidBy(offer, m) ELSE w[m].amount
  <2> DEFINE e == w[m]
             x == e.amount - PaidBy(offer, m)
  <2>1. e \in [source : {"gift_card", "credit_card", "certificate"}, amount : Int] /\ x \in Int
    BY <1>1, <1>2, <1>3
  <2>2. s[m] = IF m \in GiftCards(u) THEN [e EXCEPT !.amount = x] ELSE e
    BY <1>1, <1>3
  <2> HIDE DEF e, x
  <2>3. /\ s[m] \in [source : {"gift_card", "credit_card", "certificate"}, amount : Int]
        /\ s[m].source = e.source /\ s[m].amount = IF m \in GiftCards(u) THEN x ELSE e.amount
    BY ONLY <2>1, <2>2
  <2>4. QED
    BY <2>3 DEF e, x
<1>5. GiftCards(u) \subseteq DOMAIN s
  BY <1>1, <1>3, SoundIsTyped DEF SoundWallet
<1>6. SoundWallet(u, s)
  BY <1>3, <1>4, <1>5 DEF SoundWallet
<1>7. QED
  BY <1>3, <1>4, <1>6 DEF s

-----------------------------------------------------------------------------
(* The calls                                                               *)

\* The wallet after an update.
LEMMA ChargedSound ==
  ASSUME NEW u \in Users, NEW w, SoundWallet(u, w), NEW m, NEW amount \in Int, Chargeable(w, m, amount)
  PROVE  /\ SoundWallet(u, Charged(w, m, amount))
         /\ m \in Methods /\ m \notin ToSet(CertificateIds)
         /\ DOMAIN Charged(w, m, amount) = DOMAIN w
         /\ \A k \in DOMAIN w :
              /\ Charged(w, m, amount)[k].source = w[k].source
              /\ Charged(w, m, amount)[k].amount =
                   IF k = m /\ k \in GiftCards(u) THEN w[k].amount - amount ELSE w[k].amount
<1>1. /\ m \in DOMAIN w /\ w[m].source # "certificate"
      /\ DOMAIN w \subseteq Methods
      /\ \A k \in DOMAIN w : /\ w[k] \in [source : {"gift_card", "credit_card", "certificate"}, amount : Int]
                             /\ (w[k].source = "gift_card") <=> k \in GiftCards(u)
                             /\ k \in ToSet(CertificateIds) => w[k].source = "certificate"
  BY SoundIsTyped DEF SoundWallet, Chargeable
<1> DEFINE e == w[m]
           x == e.amount - amount
           c == Charged(w, m, amount)
<1>2. e \in [source : {"gift_card", "credit_card", "certificate"}, amount : Int] /\ x \in Int
  BY <1>1
<1>3. /\ DOMAIN c = DOMAIN w
      /\ \A k \in DOMAIN w : k # m => c[k] = w[k]
      /\ c[m] = IF m \in GiftCards(u) THEN [e EXCEPT !.amount = x] ELSE e
  BY <1>1 DEF Charged
<1> HIDE DEF e, x, c
<1>4. /\ c[m] \in [source : {"gift_card", "credit_card", "certificate"}, amount : Int]
      /\ c[m].source = e.source /\ c[m].amount = IF m \in GiftCards(u) THEN x ELSE e.amount
  BY ONLY <1>2, <1>3
<1>5. \A k \in DOMAIN w :
        /\ c[k] \in [source : {"gift_card", "credit_card", "certificate"}, amount : Int]
        /\ c[k].source = w[k].source
        /\ c[k].amount = IF k = m /\ k \in GiftCards(u) THEN w[k].amount - amount ELSE w[k].amount
  BY <1>1, <1>3, <1>4 DEF e, x
<1>6. SoundWallet(u, c)
  BY <1>3, <1>5 DEF SoundWallet
<1>7. QED
  BY <1>1, <1>3, <1>5, <1>6 DEF c

Segment == [flight : Flights, price : Nat]

\* Fares are integers, and priced segments have their type.
LEMMA FareIsInt ==
  ASSUME NEW flights, flights \in Seq(Segment)
  PROVE  Fare(flights) \in Int
<1> DEFINE f == [i \in DOMAIN flights |-> flights[i].price]
<1>0. /\ DOMAIN flights = 1 .. Len(flights) /\ Len(flights) \in Nat
      /\ \A i \in DOMAIN flights : flights[i] \in Segment
  OBVIOUS
<1>1. DOMAIN f = 1 .. Len(flights) /\ Len(flights) \in Nat /\ \A i \in DOMAIN f : f[i] \in Int
  BY ONLY <1>0 DEF Segment
<1> HIDE DEF f
<1>2. SumFunctionOnSet(f, DOMAIN f) \in Int
  BY <1>1, FiniteIndices, SumIsInt
<1>3. QED
  BY <1>2 DEF f, Fare, Total, SumFunction

LEMMA PricedTyped ==
  ASSUME NEW itinerary \in Itineraries, NEW cabin \in Cabins
  PROVE  Priced(itinerary, cabin) \in Seq(Segment)
<1>1. itinerary \in Seq(Flights) /\ Prices \in [Flights -> [Cabins -> Nat]]
  BY ArgumentsAssumption
<1> DEFINE part(f) == [flight |-> f, price |-> Prices[f][cabin]]
<1>2. \A f \in Flights : part(f) \in Segment
  BY <1>1 DEF Segment
<1>3. Priced(itinerary, cabin) = [i \in DOMAIN itinerary |-> part(itinerary[i])]
  BY DEF Priced
<1> HIDE DEF part
<1>4. /\ DOMAIN itinerary = 1 .. Len(itinerary) /\ Len(itinerary) \in Nat
      /\ \A i \in DOMAIN itinerary : part(itinerary[i]) \in Segment
  BY <1>1, <1>2
<1>5. QED
  BY ONLY <1>3, <1>4

LEMMA RepricedTyped ==
  ASSUME NEW r \in Reservations, NEW itinerary \in Itineraries, NEW cabin \in Cabins
  PROVE  Repriced(r, itinerary, cabin) \in Seq(Segment)
<1>1. itinerary \in Seq(Flights) /\ Prices \in [Flights -> [Cabins -> Nat]]
  BY ArgumentsAssumption
<1>2. r.flights \in Seq(Segment)
  BY DEF Reservations, Segment
<1>3. ASSUME NEW f \in Flights, Kept(r, f, cabin) # {}
      PROVE  r.flights[Min(Kept(r, f, cabin))].price \in Nat
  <2>1. Kept(r, f, cabin) \subseteq DOMAIN r.flights /\ DOMAIN r.flights \subseteq Nat
    BY <1>2 DEF Kept
  <2>2. Min(Kept(r, f, cabin)) \in DOMAIN r.flights
    BY <1>3, <2>1, MinIn
  <2>3. \A i \in DOMAIN r.flights : r.flights[i] \in Segment
    BY <1>2
  <2>4. QED
    BY <2>2, <2>3 DEF Segment
<1> DEFINE price(f) == IF Kept(r, f, cabin) # {} THEN r.flights[Min(Kept(r, f, cabin))].price
                       ELSE Prices[f][cabin]
<1>4. \A f \in Flights : price(f) \in Nat
  BY <1>1, <1>3
<1>5. Repriced(r, itinerary, cabin) = [i \in DOMAIN itinerary |-> [flight |-> itinerary[i], price |-> price(itinerary[i])]]
  BY DEF Repriced
<1> HIDE DEF price
<1>6. \A i \in DOMAIN itinerary : [flight |-> itinerary[i], price |-> price(itinerary[i])] \in Segment
  BY <1>1, <1>4 DEF Segment
<1>7. QED
  BY <1>1, <1>5, <1>6

\* What a reservation costs.
LEMMA CostParts ==
  ASSUME NEW r \in Reservations
  PROVE  /\ Fare(r.flights) \in Int /\ Len(r.passengers) \in Nat /\ r.bags \in Nat /\ r.insured \in BOOLEAN
         /\ r.history \in Seq(Entries) /\ r.user \in Users /\ r.cancelled \in BOOLEAN
         /\ Cost(r.flights, r.passengers, r.bags, r.insured) \in Int
<1>1. /\ r.flights \in Seq(Segment) /\ r.passengers \in Parties /\ r.bags \in Nat /\ r.insured \in BOOLEAN
      /\ r.history \in Seq(Entries) /\ r.user \in Users /\ r.cancelled \in BOOLEAN
  BY DEF Reservations, Segment
<1>2. Len(r.passengers) \in Nat
  BY <1>1, ArgumentsAssumption, Elements
<1>3. Fare(r.flights) \in Int
  BY <1>1, FareIsInt
<1> DEFINE fare == Fare(r.flights)
           n == Len(r.passengers)
<1>4. Cost(r.flights, r.passengers, r.bags, r.insured) = (fare + (IF r.insured THEN 30 ELSE 0)) * n + 50 * r.bags
  BY DEF Cost
<1> HIDE DEF fare, n
<1>5. \A a, b \in Int : a * b \in Int
  OBVIOUS
<1>6. fare + (IF r.insured THEN 30 ELSE 0) \in Int /\ n \in Int /\ 50 * r.bags \in Int
  BY <1>1, <1>2, <1>3 DEF fare, n
<1>7. QED
  BY <1>1, <1>2, <1>3, <1>4, <1>5, <1>6

\* An update of a reservation: what is added to its cost is charged to a method of its
\* owner, or nothing is.
Updated(id, r, m, amount) ==
  /\ r \in Reservations /\ amount \in Int
  /\ r.user = Owner(id) /\ r.cancelled = reservations[id].cancelled
  /\ r.history = reservations[id].history \o Charge(m, amount)
  /\ Cost(r.flights, r.passengers, r.bags, r.insured)
       <= amount + LET old == reservations[id]
                   IN  Cost(old.flights, old.passengers, old.bags, old.insured)
  /\ reservations' = [reservations EXCEPT ![id] = r]
  /\ \/ Chargeable(Wallet(id), m, amount) /\ wallet' = [wallet EXCEPT ![Owner(id)] = Charged(@, m, amount)]
     \/ amount = 0 /\ wallet' = wallet
  /\ calls' = calls + 1 /\ UNCHANGED <<lists, bookings, issued>>

\* Bags: 50 for each that is added, nothing for those taken away.
LEMMA BagsUpdated ==
  ASSUME Typed, NEW id \in DOMAIN reservations, NEW bags \in BagCounts, NEW m,
         UpdateBaggages(id, bags, m)
  PROVE  \E r : Updated(id, r, m, BagsPrice(id, bags))
<1> DEFINE old == reservations[id]
           amount == BagsPrice(id, bags)
           charge == Charge(m, amount)
           r == [old EXCEPT !.bags = bags, !.history = @ \o charge]
<1>1. /\ old \in Reservations /\ bags \in Nat
      /\ old.flights \in Seq([flight : Flights, price : Nat]) /\ old.history \in Seq(Entries)
  BY ArgumentsAssumption DEF Typed, Reservations
<1>2. /\ Fare(old.flights) \in Int /\ Len(old.passengers) \in Nat /\ old.bags \in Nat
      /\ Cost(old.flights, old.passengers, old.bags, old.insured) \in Int /\ old.user \in Users
  BY <1>1, CostParts
<1>3. amount = 50 * Max0(bags - old.bags) /\ amount \in Int
  BY <1>1, <1>2 DEF BagsPrice, Max0
<1>4. /\ Chargeable(Wallet(id), m, amount)
      /\ wallet' = [wallet EXCEPT ![Owner(id)] = Charged(@, m, amount)]
      /\ reservations' = [reservations EXCEPT ![id] = r]
      /\ calls' = calls + 1 /\ UNCHANGED <<lists, bookings, issued>>
  BY DEF UpdateBaggages, Call
<1>5. charge \in Seq(Entries)
  <2>1. SoundWallet(Owner(id), Wallet(id)) /\ Owner(id) \in Users
    BY <1>2 DEF Typed, Wallet, Owner
  <2>2. m \in Methods
    BY <1>3, <1>4, <2>1, ChargedSound
  <2>3. QED
    BY <1>3, <2>2, ChargeSums
<1> HIDE DEF amount, charge
<1>6. r \in Reservations
  <2>1. old.history \o charge \in Seq(Entries)
    BY <1>1, <1>5
  <2>2. QED
    BY <1>1, <2>1 DEF Reservations
<1>7. /\ r.user = old.user /\ r.cancelled = old.cancelled /\ r.history = old.history \o charge
      /\ r.flights = old.flights /\ r.passengers = old.passengers /\ r.insured = old.insured /\ r.bags = bags
  BY <1>1 DEF Reservations
<1>8. Cost(old.flights, old.passengers, bags, old.insured)
        <= amount + Cost(old.flights, old.passengers, old.bags, old.insured)
  <2> DEFINE fares == (Fare(old.flights) + (IF old.insured THEN 30 ELSE 0)) * Len(old.passengers)
  <2>1. /\ Cost(old.flights, old.passengers, bags, old.insured) = fares + 50 * bags
        /\ Cost(old.flights, old.passengers, old.bags, old.insured) = fares + 50 * old.bags
    BY DEF Cost
  <2>2. fares \in Int
    <3>1. \A a, b \in Int : a * b \in Int
      OBVIOUS
    <3>2. Fare(old.flights) + (IF old.insured THEN 30 ELSE 0) \in Int
      BY <1>2
    <3>3. QED
      BY <1>2, <3>1, <3>2
  <2> HIDE DEF fares
  <2>3. QED
    BY <1>1, <1>2, <1>3, <2>1, <2>2 DEF Max0
<1> HIDE DEF r
<1>9. Updated(id, r, m, amount)
  BY <1>3, <1>4, <1>6, <1>7, <1>8 DEF Updated, Owner, charge
<1>10. QED
  BY <1>9 DEF amount

\* Flights: the difference of the fares, for every passenger.
LEMMA FlightsUpdated ==
  ASSUME Typed, NEW id \in DOMAIN reservations, NEW itinerary \in Itineraries, NEW cabin \in Cabins,
         NEW m, UpdateFlights(id, itinerary, cabin, m)
  PROVE  \E r, amount : Updated(id, r, m, amount)
<1> DEFINE old == reservations[id]
           flights == Repriced(old, itinerary, cabin)
           amount == Difference(old, flights)
           charge == Charge(m, amount)
           r == [old EXCEPT !.flights = flights, !.history = @ \o charge]
<1>1. old \in Reservations /\ old.history \in Seq(Entries)
  BY DEF Typed, Reservations
<1>2. /\ Fare(old.flights) \in Int /\ Len(old.passengers) \in Nat /\ old.bags \in Nat
      /\ Cost(old.flights, old.passengers, old.bags, old.insured) \in Int /\ old.user \in Users
  BY <1>1, CostParts
<1>3. flights \in Seq(Segment) /\ Fare(flights) \in Int
  BY <1>1, RepricedTyped, FareIsInt
<1>4. /\ Chargeable(Wallet(id), m, amount)
      /\ wallet' = [wallet EXCEPT ![Owner(id)] = Charged(@, m, amount)]
      /\ reservations' = [reservations EXCEPT ![id] = r]
      /\ calls' = calls + 1 /\ UNCHANGED <<lists, bookings, issued>>
  BY DEF UpdateFlights, Changeable, Call
<1> HIDE DEF flights
<1>5. amount = (Fare(flights) - Fare(old.flights)) * Len(old.passengers) /\ amount \in Int
  <2>1. \A a, b \in Int : a * b \in Int
    OBVIOUS
  <2>2. QED
    BY <1>2, <1>3, <2>1 DEF Difference
<1>6. charge \in Seq(Entries)
  <2>1. SoundWallet(Owner(id), Wallet(id)) /\ Owner(id) \in Users
    BY <1>2 DEF Typed, Wallet, Owner
  <2>2. m \in Methods
    BY <1>4, <1>5, <2>1, ChargedSound
  <2>3. QED
    BY <1>5, <2>2, ChargeSums
<1> HIDE DEF amount, charge
<1>7. r \in Reservations
  <2>1. old.history \o charge \in Seq(Entries)
    BY <1>1, <1>6
  <2>2. QED
    BY <1>1, <1>3, <2>1 DEF Reservations, Segment
<1>8. /\ r.user = old.user /\ r.cancelled = old.cancelled /\ r.history = old.history \o charge
      /\ r.flights = flights /\ r.passengers = old.passengers /\ r.insured = old.insured /\ r.bags = old.bags
  BY <1>1 DEF Reservations
<1>9. Cost(flights, old.passengers, old.bags, old.insured)
        <= amount + Cost(old.flights, old.passengers, old.bags, old.insured)
  <2> DEFINE n == Len(old.passengers)
             extra == IF old.insured THEN 30 ELSE 0
             f == Fare(old.flights)
             g == Fare(flights)
  <2>1. /\ Cost(flights, old.passengers, old.bags, old.insured) = (g + extra) * n + 50 * old.bags
        /\ Cost(old.flights, old.passengers, old.bags, old.insured) = (f + extra) * n + 50 * old.bags
        /\ amount = (g - f) * n
    BY <1>5 DEF Cost
  <2>2. f \in Int /\ g \in Int /\ extra \in Int /\ n \in Int
    BY <1>2, <1>3
  <2> HIDE DEF n, extra, f, g
  <2>3. /\ (g + extra) * n = g * n + extra * n /\ (f + extra) * n = f * n + extra * n
        /\ (g - f) * n = g * n - f * n
        /\ g * n \in Int /\ f * n \in Int /\ extra * n \in Int
    BY ONLY <2>2
  <2> DEFINE gn == g * n
             fn == f * n
             more == extra * n
             bags == 50 * old.bags
  <2>4. /\ Cost(flights, old.passengers, old.bags, old.insured) = gn + more + bags
        /\ Cost(old.flights, old.passengers, old.bags, old.insured) = fn + more + bags
        /\ amount = gn - fn
    BY ONLY <2>1, <2>3
  <2>5. gn \in Int /\ fn \in Int /\ more \in Int /\ bags \in Int
    BY <1>2, <2>3
  <2> HIDE DEF gn, fn, more, bags
  <2>6. QED
    BY ONLY <2>4, <2>5
<1> HIDE DEF r
<1>10. Updated(id, r, m, amount)
  BY <1>4, <1>5, <1>7, <1>8, <1>9 DEF Updated, Owner, charge
<1>11. QED
  BY <1>10

\* Passengers: as many as there were.
LEMMA PassengersUpdated ==
  ASSUME Typed, NEW id \in DOMAIN reservations, NEW party \in Parties, NEW m, UpdatePassengers(id, party)
  PROVE  \E r : Updated(id, r, m, 0)
<1> DEFINE old == reservations[id]
           r == [old EXCEPT !.passengers = party]
<1>1. old \in Reservations /\ old.history \in Seq(Entries)
  BY DEF Typed, Reservations
<1>2. Cost(old.flights, old.passengers, old.bags, old.insured) \in Int
  BY <1>1, CostParts
<1>3. /\ Len(party) = Len(old.passengers) /\ reservations' = [reservations EXCEPT ![id] = r]
      /\ calls' = calls + 1 /\ UNCHANGED <<wallet, lists, bookings, issued>>
  BY DEF UpdatePassengers, Call
<1>4. /\ r \in Reservations /\ r.user = old.user /\ r.cancelled = old.cancelled
      /\ r.history = old.history /\ r.flights = old.flights /\ r.passengers = party
      /\ r.insured = old.insured /\ r.bags = old.bags
  BY <1>1 DEF Reservations
<1>5. old.history \o Charge(m, 0) = old.history
  BY <1>1 DEF Charge
<1>6. Cost(r.flights, r.passengers, r.bags, r.insured) = Cost(old.flights, old.passengers, old.bags, old.insured)
  BY <1>3, <1>4 DEF Cost
<1> HIDE DEF r
<1>7. Updated(id, r, m, 0)
  BY <1>2, <1>3, <1>4, <1>5, <1>6 DEF Updated, Owner
<1>8. QED
  BY <1>7

\* The three updates and the cancellation as two kinds of steps.
LEMMA UpdateCases ==
  ASSUME Typed, NEW id \in DOMAIN reservations, CallUpdate(id)
  PROVE  \/ Cancel(id)
         \/ \E r, m, amount : Updated(id, r, m, amount)
         \/ Refuse
  BY BagsUpdated, FlightsUpdated, PassengersUpdated
  DEF CallUpdate, UpdateBaggagesRefused, UpdateFlightsRefused, UpdatePassengersRefused

\* The history of a new reservation, which says what the offer says.
LEMMA BookedHistory ==
  ASSUME NEW offer, offer \in Seq(ToSet(offer)),
         \A p \in ToSet(offer) : p.amount \in Int /\ p.method \in Methods, NEW m
  PROVE  LET h == [n \in DOMAIN offer |->
                     [method |-> offer[n].method, amount |-> offer[n].amount, by |-> "call"]]
         IN  /\ h \in Seq(Entries) /\ Paid(h) = Paid(offer) /\ CalledFor(h, m) = PaidBy(offer, m)
             /\ \A p \in ToSet(h) : \E q \in ToSet(offer) : p.method = q.method
<1> DEFINE e(n) == [method |-> offer[n].method, amount |-> offer[n].amount, by |-> "call"]
           h == [n \in DOMAIN offer |-> e(n)]
<1>1. /\ DOMAIN offer = 1 .. Len(offer) /\ Len(offer) \in Nat
      /\ \A n \in DOMAIN offer : offer[n] \in ToSet(offer)
  BY Elements
<1>2. \A n \in DOMAIN offer : /\ e(n) \in Entries /\ e(n).method = offer[n].method
                              /\ e(n).amount = offer[n].amount /\ e(n).by = "call"
  BY <1>1 DEF Entries
<1> HIDE DEF e
<1>3. h \in Seq(Entries)
  BY <1>1, <1>2
<1>4. DOMAIN h = DOMAIN offer /\ \A n \in DOMAIN offer : h[n] = e(n)
  OBVIOUS
<1> HIDE DEF h
<1>5. Paid(h) = Paid(offer)
  <2>1. [i \in DOMAIN h |-> h[i].amount] = [i \in DOMAIN offer |-> offer[i].amount]
    BY <1>2, <1>4
  <2>2. QED
    BY <2>1 DEF Paid
<1>6. CalledFor(h, m) = PaidBy(offer, m)
  <2>1. [i \in DOMAIN h |-> IF h[i].method = m /\ h[i].by = "call" THEN h[i].amount ELSE 0]
          = [i \in DOMAIN offer |-> IF offer[i].method = m THEN offer[i].amount ELSE 0]
    BY <1>2, <1>4
  <2>2. QED
    BY <2>1 DEF CalledFor, PaidBy
<1>7. ASSUME NEW p \in ToSet(h)
      PROVE  \E q \in ToSet(offer) : p.method = q.method
  <2>1. PICK n \in DOMAIN h : p = h[n]
    BY DEF ToSet
  <2>2. offer[n] \in ToSet(offer) /\ p.method = offer[n].method
    BY ONLY <1>1, <1>2, <1>4, <2>1
  <2>3. QED
    BY ONLY <2>2
<1>8. QED
  BY <1>3, <1>5, <1>6, <1>7 DEF h, e

\* What a booking adds.
Booked(u, offer, id) ==
  /\ id \notin DOMAIN reservations /\ DOMAIN reservations' = DOMAIN reservations \cup {id}
  /\ \A i \in DOMAIN reservations : reservations'[i] = reservations[i]
  /\ LET r == reservations'[id]
     IN  /\ r \in Reservations /\ r.user = u /\ ~r.cancelled
         /\ Paid(r.history) = Cost(r.flights, r.passengers, r.bags, r.insured)
         /\ \A m : CalledFor(r.history, m) = PaidBy(offer, m)
         /\ \A p \in ToSet(r.history) : \E q \in ToSet(offer) : p.method = q.method

\* A booking adds the reservation of the next id, with its history paid.
LEMMA BookAdds ==
  ASSUME Typed, NEW u \in Users, NEW itinerary \in Itineraries, NEW cabin \in Cabins,
         NEW party \in Parties, NEW bags \in BagCounts, NEW insured \in BOOLEAN, NEW offer \in Offers,
         Book(u, itinerary, cabin, party, bags, insured, offer)
  PROVE  /\ Booked(u, offer, NewIds[bookings + 1])
         /\ Numbered'
<1> DEFINE id == NewIds[bookings + 1]
           h == [n \in DOMAIN offer |->
                   [method |-> offer[n].method, amount |-> offer[n].amount, by |-> "call"]]
           flights == Priced(itinerary, cabin)
           r == [user |-> u, cabin |-> cabin, flights |-> flights, passengers |-> party,
                 history |-> h, bags |-> bags, insured |-> insured, cancelled |-> FALSE]
<1>1. NewId(DOMAIN reservations) = id /\ id \notin DOMAIN reservations /\ bookings + 1 \in 1 .. 3
  BY NextId DEF Typed, Book
<1>2. /\ DOMAIN reservations' = DOMAIN reservations \cup {id}
      /\ \A i \in DOMAIN reservations : reservations'[i] = reservations[i]
      /\ reservations'[id] = r
      /\ bookings' = bookings + 1 /\ bookings < MaxBookings
      /\ Bookable(u, itinerary, cabin, party, bags, insured, offer)
  BY <1>1 DEF Book
<1>3. /\ offer \in Seq(ToSet(offer)) /\ \A p \in ToSet(offer) : p.amount \in Int
      /\ bags \in Nat
  BY ArgumentsAssumption
<1>4. \A p \in ToSet(offer) : p.method \in Methods
  <2>1. DOMAIN wallet[u] \subseteq Methods
    BY SoundIsTyped DEF Typed
  <2>2. QED
    BY <1>2, <2>1 DEF Bookable
<1>5. /\ h \in Seq(Entries) /\ Paid(h) = Paid(offer) /\ \A m : CalledFor(h, m) = PaidBy(offer, m)
      /\ \A p \in ToSet(h) : \E q \in ToSet(offer) : p.method = q.method
  BY <1>3, <1>4, BookedHistory
<1>6. Paid(offer) = Cost(flights, party, bags, insured)
  BY <1>2 DEF Bookable
<1>7. flights \in Seq([flight : Flights, price : Nat])
  BY PricedTyped DEF Segment
<1> HIDE DEF h, flights
<1>8. r \in Reservations
  BY <1>3, <1>5, <1>7 DEF Reservations
<1>9. /\ r.user = u /\ ~r.cancelled /\ r.history = h /\ r.flights = flights /\ r.passengers = party
      /\ r.bags = bags /\ r.insured = insured
  OBVIOUS
<1> HIDE DEF r
<1>10. Booked(u, offer, id)
  <2> HIDE DEF id
  <2>1. QED
    BY <1>1, <1>2, <1>5, <1>6, <1>8, <1>9 DEF Booked
<1>11. Numbered'
  <2>1. bookings \in 0 .. MaxBookings
    BY DEF Typed, Numbered
  <2>2. {NewIds[i] : i \in 1 .. bookings} \cup {id} = {NewIds[i] : i \in 1 .. bookings + 1}
    BY <2>1, IdsAssumption
  <2>3. bookings' \in 0 .. MaxBookings
    BY <1>2, <2>1, IdsAssumption
  <2>4. DOMAIN reservations = DOMAIN OpeningReservations \cup {NewIds[i] : i \in 1 .. bookings}
    BY DEF Typed, Numbered
  <2> HIDE DEF id
  <2>5. DOMAIN reservations' = DOMAIN OpeningReservations \cup {NewIds[i] : i \in 1 .. bookings'}
    BY <1>2, <2>2, <2>4, Zenon
  <2>6. QED
    BY <2>3, <2>5 DEF Numbered
<1>12. QED
  BY <1>10, <1>11

\* The payments of an offer before the one that raises.
LEMMA SpentBefore ==
  ASSUME Typed, NEW u \in Users, NEW itinerary, NEW cabin, NEW party, NEW bags, NEW insured,
         NEW offer \in Offers, BookRaises(u, itinerary, cabin, party, bags, insured, offer)
  PROVE  \E k \in DOMAIN offer :
           LET before == SubSeq(offer, 1, k - 1)
           IN  /\ k \in Gone(u, offer)
               /\ before \in Seq(ToSet(before)) /\ \A p \in ToSet(before) : p.amount \in Int
               /\ DOMAIN before = 1 .. k - 1 /\ \A i \in 1 .. k - 1 : i \in DOMAIN offer /\ before[i] = offer[i]
               /\ wallet' = [wallet EXCEPT ![u] = Spent(@, before)]
<1> DEFINE k == Min(Gone(u, offer))
           before == SubSeq(offer, 1, k - 1)
<1>1. /\ offer \in Seq(ToSet(offer)) /\ \A p \in ToSet(offer) : p.amount \in Int
      /\ DOMAIN offer = 1 .. Len(offer) /\ Len(offer) \in Nat
      /\ \A i \in DOMAIN offer : offer[i] \in ToSet(offer)
  BY ArgumentsAssumption, Elements
<1>2. Gone(u, offer) # {} /\ wallet' = [wallet EXCEPT ![u] = Spent(@, before)]
  BY DEF BookRaises
<1>3. k \in Gone(u, offer) /\ k \in DOMAIN offer
  <2>1. Gone(u, offer) \subseteq DOMAIN offer /\ DOMAIN offer \subseteq Nat
    BY <1>1 DEF Gone
  <2>2. QED
    BY <1>2, <2>1, MinIn
<1> HIDE DEF k
<1>4. DOMAIN before = 1 .. k - 1 /\ \A i \in 1 .. k - 1 : i \in DOMAIN offer /\ before[i] = offer[i]
  BY <1>1, <1>3
<1>5. before \in Seq(ToSet(before)) /\ \A p \in ToSet(before) : p.amount \in Int
  <2>1. before = [i \in 1 .. k - 1 |-> before[i]] /\ k - 1 \in Nat
    BY <1>1, <1>3
  <2> HIDE DEF before
  <2>2. \A i \in 1 .. k - 1 : before[i] \in ToSet(before) /\ before[i].amount \in Int
    BY <1>1, <1>4 DEF ToSet
  <2>3. \A p \in ToSet(before) : p.amount \in Int
    BY <1>4, <2>2 DEF ToSet
  <2>4. before \in Seq(ToSet(before))
    BY ONLY <2>1, <2>2
  <2>5. QED
    BY <2>3, <2>4
<1>6. QED
  BY <1>2, <1>3, <1>4, <1>5

\* A cancellation: the refund of every entry is noted.
Cancelled(id, r) ==
  /\ r \in Reservations /\ r.user = Owner(id) /\ r.cancelled
  /\ r.history = reservations[id].history \o Refunds(reservations[id].history)
  /\ reservations' = [reservations EXCEPT ![id] = r]
  /\ calls' = calls + 1 /\ UNCHANGED <<wallet, lists, bookings, issued>>

\* A cancellation appends the refunds and leaves the wallets alone.
LEMMA CancelNoted ==
  ASSUME Typed, NEW id \in DOMAIN reservations, Cancel(id)
  PROVE  \E r : Cancelled(id, r)
<1> DEFINE old == reservations[id]
           h == old.history \o Refunds(old.history)
           r == [old EXCEPT !.history = h, !.cancelled = TRUE]
<1>1. old \in Reservations /\ old.history \in Seq(Entries)
  BY DEF Typed, Reservations
<1>2. h \in Seq(Entries)
  BY <1>1, RefundSums
<1>3. /\ reservations' = [reservations EXCEPT ![id] = r]
      /\ calls' = calls + 1 /\ UNCHANGED <<wallet, lists, bookings, issued>>
  BY DEF Cancel, Call
<1> HIDE DEF h
<1>4. r \in Reservations /\ r.user = old.user /\ r.cancelled /\ r.history = h
  BY <1>1, <1>2 DEF Reservations
<1> HIDE DEF r
<1>5. Cancelled(id, r)
  BY <1>3, <1>4 DEF Cancelled, Owner, h
<1>6. QED
  BY <1>5

\* A certificate is sent under an id the user does not hold.
WithCertificate(w, c, amount) ==
  [m \in DOMAIN w \cup {c} |-> IF m = c THEN [source |-> "certificate", amount |-> amount] ELSE w[m]]

Sent(u, c, amount) ==
  /\ c \in ToSet(CertificateIds) /\ c \notin DOMAIN wallet[u] /\ amount \in Nat
  /\ wallet' = [wallet EXCEPT ![u] = WithCertificate(@, c, amount)]
  /\ issued' = [issued EXCEPT ![u][c] = @ + 1]
  /\ calls' = calls + 1 /\ UNCHANGED <<reservations, lists, bookings>>

\* A certificate that is sent is held, under an id that was not.
LEMMA CertificateSent ==
  ASSUME NEW u \in Users, NEW amount \in CertificateAmounts, SendCertificate(u, amount)
  PROVE  \E c : Sent(u, c, amount)
<1> DEFINE n == Min(FreeSlots(u))
           c == CertificateIds[n]
<1>1. FreeSlots(u) # {} /\ FreeSlots(u) \subseteq Nat
  BY IdsAssumption DEF SendCertificate, FreeSlots
<1>2. n \in DOMAIN CertificateIds /\ c \notin DOMAIN wallet[u]
  BY <1>1, MinIn DEF FreeSlots
<1>3. /\ wallet' = [wallet EXCEPT ![u] = WithCertificate(@, c, amount)]
      /\ issued' = [issued EXCEPT ![u][c] = @ + 1]
      /\ calls' = calls + 1 /\ UNCHANGED <<reservations, lists, bookings>>
  BY DEF SendCertificate, Call, WithCertificate
<1> HIDE DEF n
<1>4. c \in ToSet(CertificateIds)
  BY <1>2 DEF ToSet
<1>5. amount \in Nat
  BY ArgumentsAssumption
<1> HIDE DEF c
<1>6. Sent(u, c, amount)
  BY <1>2, <1>3, <1>4, <1>5 DEF Sent, c
<1>7. QED
  BY <1>6

\* A booking, and the payments made before one that raises.
Paying(u, offer, paid) ==
  /\ paid \in Seq(ToSet(paid)) /\ \A p \in ToSet(paid) : p.amount \in Int
  /\ wallet' = [wallet EXCEPT ![u] = Spent(@, paid)]
  /\ \A p \in ToSet(offer) : p.method \in DOMAIN wallet[u] /\ Covered(wallet[u][p.method], p.amount)
  /\ calls' = calls + 1 /\ UNCHANGED issued

Step ==
  \/ \E id \in DOMAIN reservations : \E r : Cancelled(id, r)
  \/ \E id \in DOMAIN reservations : \E r, m, amount : Updated(id, r, m, amount)
  \/ \E u \in Users, offer \in Offers :
       /\ Paying(u, offer, offer) /\ Gone(u, offer) = {}
       /\ Booked(u, offer, NewIds[bookings + 1]) /\ Numbered'
  \/ \E u \in Users, offer \in Offers : \E k \in Gone(u, offer) :
       /\ k \in DOMAIN offer
       /\ LET paid == SubSeq(offer, 1, k - 1)
          IN  /\ Paying(u, offer, paid)
              /\ DOMAIN paid = 1 .. k - 1 /\ \A i \in 1 .. k - 1 : i \in DOMAIN offer /\ paid[i] = offer[i]
       /\ UNCHANGED <<reservations, lists, bookings>>
  \/ \E u \in Users : \E c, amount : Sent(u, c, amount)
  \/ UNCHANGED <<db, bookings, calls, issued>>

\* The calls, by what they change.
LEMMA Steps ==
  ASSUME Typed, [Next]_vars
  PROVE  /\ Step
         /\ calls' = calls \/ (calls < MaxCalls /\ calls' = calls + 1)
<1>1. CASE CallBook /\ calls < MaxCalls
  <2>1. PICK u \in Users, itinerary \in Itineraries, cabin \in Cabins, party \in Parties,
             bags \in BagCounts, insured \in BOOLEAN, offer \in Offers :
               \/ Book(u, itinerary, cabin, party, bags, insured, offer)
               \/ BookRaises(u, itinerary, cabin, party, bags, insured, offer)
               \/ Refuse
    BY <1>1 DEF CallBook, BookRefused
  <2>2. CASE Book(u, itinerary, cabin, party, bags, insured, offer)
    <3>1. offer \in Seq(ToSet(offer)) /\ \A p \in ToSet(offer) : p.amount \in Int
      BY ArgumentsAssumption
    <3>2. Paying(u, offer, offer) /\ Gone(u, offer) = {} /\ calls' = calls + 1
      BY <2>2, <3>1 DEF Book, Bookable, Call, Paying
    <3>3. Booked(u, offer, NewIds[bookings + 1]) /\ Numbered'
      BY <2>2, BookAdds
    <3>4. QED
      BY <1>1, <3>2, <3>3 DEF Step
  <2>3. CASE BookRaises(u, itinerary, cabin, party, bags, insured, offer)
    <3>1. PICK k \in DOMAIN offer :
            LET before == SubSeq(offer, 1, k - 1)
            IN  /\ k \in Gone(u, offer)
                /\ before \in Seq(ToSet(before)) /\ \A p \in ToSet(before) : p.amount \in Int
                /\ DOMAIN before = 1 .. k - 1 /\ \A i \in 1 .. k - 1 : i \in DOMAIN offer /\ before[i] = offer[i]
                /\ wallet' = [wallet EXCEPT ![u] = Spent(@, before)]
      BY <2>3, SpentBefore
    <3>2. /\ \A p \in ToSet(offer) : p.method \in DOMAIN wallet[u] /\ Covered(wallet[u][p.method], p.amount)
          /\ calls' = calls + 1 /\ UNCHANGED <<reservations, lists, bookings, issued>>
      BY <2>3 DEF BookRaises, Bookable, Call
    <3> DEFINE before == SubSeq(offer, 1, k - 1)
    <3>3. /\ Paying(u, offer, before) /\ k \in Gone(u, offer)
          /\ DOMAIN before = 1 .. k - 1 /\ \A i \in 1 .. k - 1 : i \in DOMAIN offer /\ before[i] = offer[i]
      BY <3>1, <3>2 DEF Paying
    <3> HIDE DEF before
    <3>4. Step
      BY <3>1, <3>2, <3>3 DEF Step, before
    <3>5. QED
      BY <1>1, <3>2, <3>4
  <2>4. CASE Refuse
    BY <2>4 DEF Refuse, Step
  <2>5. QED
    BY <2>1, <2>2, <2>3, <2>4
<1>2. CASE (\E id \in DOMAIN reservations : CallUpdate(id)) /\ calls < MaxCalls
  <2>1. PICK id \in DOMAIN reservations : CallUpdate(id)
    BY <1>2
  <2>2. \/ \E r : Cancelled(id, r)
        \/ \E r, m, amount : Updated(id, r, m, amount)
        \/ Refuse
    BY <2>1, UpdateCases, CancelNoted
  <2>3. CASE \E r : Cancelled(id, r)
    <3>1. calls' = calls + 1
      BY <2>3 DEF Cancelled
    <3>2. QED
      BY <1>2, <2>3, <3>1 DEF Step
  <2>4. CASE \E r, m, amount : Updated(id, r, m, amount)
    <3>1. calls' = calls + 1
      BY <2>4 DEF Updated
    <3>2. QED
      BY <1>2, <2>4, <3>1 DEF Step
  <2>5. CASE Refuse
    BY <2>5 DEF Refuse, Step
  <2>6. QED
    BY <2>2, <2>3, <2>4, <2>5
<1>3. CASE CallCertificate /\ calls < MaxCalls
  <2>1. PICK u \in Users : SendNothing(u) \/ \E amount \in CertificateAmounts : SendCertificate(u, amount)
    BY <1>3 DEF CallCertificate
  <2>2. CASE SendNothing(u)
    BY <2>2 DEF SendNothing, Refuse, Step
  <2>3. CASE \E amount \in CertificateAmounts : SendCertificate(u, amount)
    <3>1. PICK amount, c : Sent(u, c, amount)
      BY <2>3, CertificateSent
    <3>2. calls' = calls + 1
      BY <3>1 DEF Sent
    <3>3. QED
      BY <1>3, <3>1, <3>2 DEF Step
  <2>4. QED
    BY <2>1, <2>2, <2>3
<1>4. CASE NotFound \/ UNCHANGED vars
  BY <1>4 DEF NotFound, Refuse, vars, db, Step
<1>5. QED
  BY <1>1, <1>2, <1>3, <1>4 DEF Next

\* A step that replaces the wallet of one user by a sound one.
LEMMA WalletReplaced ==
  ASSUME DOMAIN wallet = Users, \A v \in Users : SoundWallet(v, wallet[v]),
         NEW u \in Users, NEW w, SoundWallet(u, w), wallet' = [wallet EXCEPT ![u] = w]
  PROVE  DOMAIN wallet' = Users /\ \A v \in Users : SoundWallet(v, wallet'[v])
<1>1. DOMAIN wallet' = Users /\ wallet'[u] = w /\ \A v \in Users : v # u => wallet'[v] = wallet[v]
  OBVIOUS
<1>2. QED
  BY <1>1

\* A wallet with one more certificate.
LEMMA SentSound ==
  ASSUME NEW u \in Users, NEW w, SoundWallet(u, w), NEW c \in ToSet(CertificateIds), NEW amount \in Nat
  PROVE  SoundWallet(u, WithCertificate(w, c, amount))
<1> DEFINE x == WithCertificate(w, c, amount)
<1>1. /\ DOMAIN x = DOMAIN w \cup {c}
      /\ \A m \in DOMAIN w : m # c => x[m] = w[m]
      /\ x[c] = [source |-> "certificate", amount |-> amount]
  BY DEF WithCertificate
<1>2. x[c] \in [source : {"gift_card", "credit_card", "certificate"}, amount : Int] /\ x[c].source = "certificate"
  BY <1>1
<1> HIDE DEF x
<1>3. SoundWallet(u, x)
  BY <1>1, <1>2 DEF SoundWallet
<1>4. QED
  BY <1>3 DEF x

\* A change of one reservation.
LEMMA ReservationReplaced ==
  ASSUME NEW id \in DOMAIN reservations, NEW r, reservations' = [reservations EXCEPT ![id] = r]
  PROVE  /\ DOMAIN reservations' = DOMAIN reservations /\ reservations'[id] = r
         /\ \A i \in DOMAIN reservations : i # id => reservations'[i] = reservations[i]
  OBVIOUS

\* The types hold in the opening data and are kept by every call.
LEMMA OpeningTyped == Init => Typed
<1>1. SUFFICES ASSUME Init PROVE Typed
  OBVIOUS
<1>2. DOMAIN wallet = Users
  BY <1>1, OpeningAssumption DEF Init
<1>3. ASSUME NEW u \in Users
      PROVE  SoundWallet(u, wallet[u])
  <2>1. \A m \in DOMAIN OpeningWallets[u] :
          /\ OpeningWallets[u][m] \in [source : {"gift_card", "credit_card", "certificate"}, amount : Int]
          /\ m \in ToSet(CertificateIds) => OpeningWallets[u][m].source = "certificate"
    BY OpeningAssumption DEF Holdings
  <2>2. QED
    BY <1>1, <2>1 DEF Init, SoundWallet, GiftCards
<1>4. \A id \in DOMAIN reservations : reservations[id] \in Reservations
  BY <1>1, OpeningAssumption DEF Init
<1>5. Numbered
  BY <1>1, IdsAssumption DEF Init, Numbered
<1>6. issued \in [Users -> [ToSet(CertificateIds) -> Nat]] /\ calls \in 0 .. MaxCalls
  BY <1>1, ArgumentsAssumption DEF Init
<1>7. QED
  BY <1>2, <1>3, <1>4, <1>5, <1>6 DEF Typed

LEMMA TypedStep == Typed /\ [Next]_vars => Typed'
<1>1. SUFFICES ASSUME Typed, [Next]_vars PROVE Typed'
  OBVIOUS
<1>2. Step /\ (calls' = calls \/ (calls < MaxCalls /\ calls' = calls + 1))
  BY <1>1, Steps
<1>3. (calls \in 0 .. MaxCalls)'
  BY <1>1, <1>2, ArgumentsAssumption DEF Typed
<1>4. /\ DOMAIN wallet = Users /\ \A u \in Users : SoundWallet(u, wallet[u])
      /\ \A id \in DOMAIN reservations : reservations[id] \in Reservations
      /\ Numbered /\ issued \in [Users -> [ToSet(CertificateIds) -> Nat]]
  BY <1>1 DEF Typed
<1>5. CASE \E id \in DOMAIN reservations : \E r : Cancelled(id, r)
  <2>1. PICK id, r : id \in DOMAIN reservations /\ Cancelled(id, r)
    BY <1>5
  <2>2. /\ DOMAIN reservations' = DOMAIN reservations
        /\ \A i \in DOMAIN reservations : reservations'[i] \in Reservations
    BY <1>4, <2>1, ReservationReplaced DEF Cancelled
  <2>3. UNCHANGED <<wallet, bookings, issued>>
    BY <2>1 DEF Cancelled
  <2>4. QED
    BY <1>3, <1>4, <2>2, <2>3 DEF Typed, Numbered
<1>6. CASE \E id \in DOMAIN reservations : \E r, m, amount : Updated(id, r, m, amount)
  <2>1. PICK id, r, m, amount : id \in DOMAIN reservations /\ Updated(id, r, m, amount)
    BY <1>6
  <2>2. /\ DOMAIN reservations' = DOMAIN reservations
        /\ \A i \in DOMAIN reservations : reservations'[i] \in Reservations
    BY <1>4, <2>1, ReservationReplaced DEF Updated
  <2>3. UNCHANGED <<bookings, issued>> /\ amount \in Int
    BY <2>1 DEF Updated
  <2>4. Owner(id) \in Users
    BY <2>1, <1>4, CostParts DEF Owner
  <2>5. DOMAIN wallet' = Users /\ \A u \in Users : SoundWallet(u, wallet'[u])
    <3>1. CASE wallet' = wallet
      BY <1>4, <3>1
    <3>2. CASE /\ Chargeable(Wallet(id), m, amount)
               /\ wallet' = [wallet EXCEPT ![Owner(id)] = Charged(@, m, amount)]
      <4>1. SoundWallet(Owner(id), Charged(wallet[Owner(id)], m, amount))
        BY <1>4, <2>3, <2>4, <3>2, ChargedSound DEF Wallet
      <4>2. wallet' = [wallet EXCEPT ![Owner(id)] = Charged(wallet[Owner(id)], m, amount)]
        BY <3>2
      <4>3. QED
        BY <1>4, <2>4, <4>1, <4>2, WalletReplaced
    <3>3. QED
      BY <2>1, <3>1, <3>2 DEF Updated
  <2>6. QED
    BY <1>3, <1>4, <2>2, <2>3, <2>5 DEF Typed, Numbered
<1>7. ASSUME NEW u \in Users, NEW offer, NEW paid, Paying(u, offer, paid)
      PROVE  DOMAIN wallet' = Users /\ \A v \in Users : SoundWallet(v, wallet'[v])
  <2>1. SoundWallet(u, Spent(wallet[u], paid))
    BY <1>4, <1>7, SpentSound DEF Paying
  <2>2. wallet' = [wallet EXCEPT ![u] = Spent(wallet[u], paid)]
    BY <1>7 DEF Paying
  <2>3. QED
    BY <1>4, <2>1, <2>2, WalletReplaced
<1>8. CASE \E u \in Users, offer \in Offers :
             /\ Paying(u, offer, offer) /\ Gone(u, offer) = {}
             /\ Booked(u, offer, NewIds[bookings + 1]) /\ Numbered'
  <2>1. PICK u \in Users, offer \in Offers :
             /\ Paying(u, offer, offer) /\ Gone(u, offer) = {}
             /\ Booked(u, offer, NewIds[bookings + 1]) /\ Numbered'
    BY <1>8
  <2>2. \A i \in DOMAIN reservations' : reservations'[i] \in Reservations
    BY <1>4, <2>1 DEF Booked
  <2>3. DOMAIN wallet' = Users /\ (\A v \in Users : SoundWallet(v, wallet'[v])) /\ UNCHANGED issued
    BY <1>7, <2>1 DEF Paying
  <2>4. QED
    BY <1>3, <1>4, <2>1, <2>2, <2>3 DEF Typed
<1>9. CASE \E u \in Users, offer \in Offers : \E k \in Gone(u, offer) :
             /\ Paying(u, offer, SubSeq(offer, 1, k - 1))
             /\ UNCHANGED <<reservations, lists, bookings>>
  <2>1. DOMAIN wallet' = Users /\ (\A v \in Users : SoundWallet(v, wallet'[v])) /\ UNCHANGED issued
    BY <1>7, <1>9 DEF Paying
  <2>2. QED
    BY <1>3, <1>4, <1>9, <2>1 DEF Typed, Numbered
<1>10. CASE \E u \in Users : \E c, amount : Sent(u, c, amount)
  <2>1. PICK u, c, amount : u \in Users /\ Sent(u, c, amount)
    BY <1>10
  <2> DEFINE x == WithCertificate(wallet[u], c, amount)
  <2>2. c \in ToSet(CertificateIds) /\ amount \in Nat /\ UNCHANGED <<reservations, bookings>>
        /\ wallet' = [wallet EXCEPT ![u] = x] /\ issued' = [issued EXCEPT ![u][c] = @ + 1]
    BY <2>1 DEF Sent
  <2>3. SoundWallet(u, x)
    BY <2>1, <1>4, <2>2, SentSound
  <2> HIDE DEF x
  <2>4. DOMAIN wallet' = Users /\ \A v \in Users : SoundWallet(v, wallet'[v])
    BY <1>4, <2>2, <2>3, WalletReplaced
  <2>5. issued' \in [Users -> [ToSet(CertificateIds) -> Nat]]
    BY <2>1, <1>4, <2>2
  <2>6. QED
    BY <1>3, <1>4, <2>2, <2>4, <2>5 DEF Typed, Numbered
<1>11. CASE UNCHANGED <<db, bookings, calls, issued>>
  BY <1>4, <1>3, <1>11 DEF Typed, Numbered, db
<1>12. QED
  BY <1>2, <1>5, <1>6, <1>8, <1>9, <1>10, <1>11 DEF Step

-----------------------------------------------------------------------------
(* What the calls of any length keep true                                  *)

LEMMA AlwaysTyped == Spec => []Typed
  BY OpeningTyped, TypedStep, PTL DEF Spec

\* CancelReverses: a cancellation leaves nothing charged to any method.
THEOREM CancellationsReverse == Spec => CancelReverses
<1>1. ASSUME Typed, [Next]_vars
      PROVE  [\A id \in DOMAIN reservations : Cancel(id) =>
                \A m \in Methods : PaidBy(reservations'[id].history, m) = 0]_vars
  <2>1. SUFFICES ASSUME NEW id \in DOMAIN reservations, Cancel(id), NEW m \in Methods
                 PROVE  PaidBy(reservations'[id].history, m) = 0
    OBVIOUS
  <2>2. PICK r : Cancelled(id, r)
    BY <1>1, <2>1, CancelNoted
  <2> DEFINE h == reservations[id].history
  <2>3. h \in Seq(Entries)
    BY <1>1 DEF Typed, Reservations
  <2>4. reservations'[id].history = h \o Refunds(h)
    BY <2>2, ReservationReplaced DEF Cancelled
  <2> HIDE DEF h
  <2>5. /\ Refunds(h) \in Seq(Entries) /\ PaidBy(Refunds(h), m) = -PaidBy(h, m)
    BY <2>3, RefundSums
  <2>6. PaidBy(h \o Refunds(h), m) = PaidBy(h, m) + PaidBy(Refunds(h), m) /\ PaidBy(h, m) \in Int
    BY <2>3, <2>5, JoinedSums
  <2>7. QED
    BY <2>4, <2>5, <2>6
<1>2. QED
  BY <1>1, AlwaysTyped, PTL DEF Spec, CancelReverses

\* PaidInFull: whatever was changed, in whatever order, a reservation that was never
\* cancelled has been paid in full.
THEOREM AllPaid == Spec => []PaidInFull
<1> DEFINE PaidFor(r) == Paid(r.history) >= Cost(r.flights, r.passengers, r.bags, r.insured)
<1>1. Init => PaidInFull
  BY OpeningPaid DEF Init, PaidInFull
<1>2. ASSUME Typed, PaidInFull, [Next]_vars
      PROVE  PaidInFull'
  <2>1. Step
    BY <1>2, Steps
  <2>2. \A i \in DOMAIN reservations : ~reservations[i].cancelled => PaidFor(reservations[i])
    BY <1>2 DEF PaidInFull
  <2>3. SUFFICES \A i \in DOMAIN reservations' : ~reservations'[i].cancelled => PaidFor(reservations'[i])
    BY DEF PaidInFull
  <2>4. CASE \E id \in DOMAIN reservations : \E r : Cancelled(id, r)
    <3>1. PICK id, r : id \in DOMAIN reservations /\ Cancelled(id, r)
      BY <2>4
    <3>2. /\ DOMAIN reservations' = DOMAIN reservations /\ reservations'[id].cancelled
          /\ \A i \in DOMAIN reservations : i # id => reservations'[i] = reservations[i]
      BY <3>1, ReservationReplaced DEF Cancelled
    <3> HIDE DEF PaidFor
    <3>3. QED
      BY <2>2, <3>2
  <2>5. CASE \E id \in DOMAIN reservations : \E r, m, amount : Updated(id, r, m, amount)
    <3>1. PICK id, r, m, amount : id \in DOMAIN reservations /\ Updated(id, r, m, amount)
      BY <2>5
    <3> DEFINE old == reservations[id]
               charge == Charge(m, amount)
    <3>2. /\ DOMAIN reservations' = DOMAIN reservations /\ reservations'[id] = r
          /\ \A i \in DOMAIN reservations : i # id => reservations'[i] = reservations[i]
      BY <3>1, ReservationReplaced DEF Updated
    <3>3. /\ r.cancelled = old.cancelled /\ r.history = old.history \o charge /\ amount \in Int
          /\ Cost(r.flights, r.passengers, r.bags, r.insured)
               <= amount + Cost(old.flights, old.passengers, old.bags, old.insured)
          /\ r \in Reservations /\ old \in Reservations
      BY <1>2, <3>1 DEF Updated, Typed
    <3>4. m \in Methods \/ amount = 0
      <4>1. Owner(id) \in Users
        BY <3>3, CostParts DEF Owner
      <4>2. CASE Chargeable(Wallet(id), m, amount)
        BY <1>2, <3>3, <4>1, <4>2, ChargedSound DEF Typed, Wallet
      <4>3. QED
        BY <3>1, <4>2 DEF Updated
    <3>5. charge \in Seq(Entries) /\ Paid(charge) = amount /\ old.history \in Seq(Entries)
      BY <3>3, <3>4, ChargeSums, CostParts
    <3>6. /\ Cost(r.flights, r.passengers, r.bags, r.insured) \in Int
          /\ Cost(old.flights, old.passengers, old.bags, old.insured) \in Int
      BY <3>3, CostParts
    <3> HIDE DEF charge
    <3>7. Paid(r.history) = Paid(old.history) + amount /\ Paid(old.history) \in Int
      BY <3>3, <3>5, JoinedSums
    <3>8. PaidFor(old) => PaidFor(r)
      BY <3>3, <3>6, <3>7
    <3> HIDE DEF PaidFor
    <3>9. QED
      BY <2>2, <3>2, <3>3, <3>8
  <2>6. CASE \E u \in Users, offer \in Offers : Booked(u, offer, NewIds[bookings + 1])
    <3>1. PICK u \in Users, offer \in Offers : Booked(u, offer, NewIds[bookings + 1])
      BY <2>6
    <3> DEFINE id == NewIds[bookings + 1]
               r == reservations'[id]
    <3>2. /\ DOMAIN reservations' = DOMAIN reservations \cup {id}
          /\ \A i \in DOMAIN reservations : reservations'[i] = reservations[i]
          /\ r \in Reservations /\ Paid(r.history) = Cost(r.flights, r.passengers, r.bags, r.insured)
      BY <3>1 DEF Booked
    <3>3. PaidFor(r)
      BY <3>2, CostParts
    <3> HIDE DEF PaidFor
    <3>4. QED
      BY <2>2, <3>2, <3>3
  <2>7. CASE UNCHANGED reservations
    BY <2>2, <2>7
  <2>8. QED
    BY <2>1, <2>4, <2>5, <2>6, <2>7 DEF Step, Sent, db
<1>3. QED
  BY <1>1, <1>2, AlwaysTyped, PTL DEF Spec

-----------------------------------------------------------------------------
(* Certificates                                                            *)

Named(r, u, c) == r.user = u /\ \E p \in ToSet(r.history) : p.method = c
PaidFor(u, c) == {id \in DOMAIN reservations : Named(reservations[id], u, c)}
Held(w, c) == IF c \in DOMAIN w THEN 1 ELSE 0

\* The methods of two histories that are joined.
LEMMA JoinedMethods ==
  ASSUME NEW s, NEW t, s \in Seq(Entries), t \in Seq(Entries)
  PROVE  ToSet(s \o t) = ToSet(s) \cup ToSet(t)
<1>1. DOMAIN (s \o t) = 1 .. Len(s) + Len(t) /\ DOMAIN s = 1 .. Len(s) /\ DOMAIN t = 1 .. Len(t)
      /\ Len(s) \in Nat /\ Len(t) \in Nat
  OBVIOUS
<1>2. ASSUME NEW i \in DOMAIN (s \o t)
      PROVE  (s \o t)[i] \in ToSet(s) \cup ToSet(t)
  <2>1. CASE i <= Len(s)
    <3>1. i \in DOMAIN s /\ (s \o t)[i] = s[i]
      BY <1>1, <2>1
    <3>2. QED
      BY ONLY <3>1 DEF ToSet
  <2>2. CASE i > Len(s)
    <3>1. i - Len(s) \in DOMAIN t /\ (s \o t)[i] = t[i - Len(s)]
      BY <1>1, <2>2
    <3>2. QED
      BY ONLY <3>1 DEF ToSet
  <2>3. QED
    BY <1>1, <2>1, <2>2
<1>3. ASSUME NEW i \in DOMAIN s
      PROVE  s[i] \in ToSet(s \o t)
  <2>1. i \in DOMAIN (s \o t) /\ (s \o t)[i] = s[i]
    BY <1>1
  <2>2. QED
    BY ONLY <2>1 DEF ToSet
<1>4. ASSUME NEW i \in DOMAIN t
      PROVE  t[i] \in ToSet(s \o t)
  <2>1. Len(s) + i \in DOMAIN (s \o t) /\ (s \o t)[Len(s) + i] = t[i]
    BY <1>1
  <2>2. QED
    BY ONLY <2>1 DEF ToSet
<1> DEFINE j == s \o t
<1> HIDE DEF j
<1>5. (\A i \in DOMAIN j : j[i] \in ToSet(s) \cup ToSet(t))
      /\ (\A i \in DOMAIN s : s[i] \in ToSet(j)) /\ (\A i \in DOMAIN t : t[i] \in ToSet(j))
  BY <1>2, <1>3, <1>4 DEF j
<1>6. ToSet(j) = ToSet(s) \cup ToSet(t)
  BY ONLY <1>5 DEF ToSet
<1>7. QED
  BY <1>6 DEF j

\* There are finitely many reservations.
LEMMA FiniteReservations ==
  ASSUME Numbered
  PROVE  IsFiniteSet(DOMAIN reservations)
<1>1. IsFiniteSet(DOMAIN OpeningReservations)
  BY OpeningAssumption
<1>2. IsFiniteSet({NewIds[i] : i \in 1 .. bookings})
  <2>1. IsFiniteSet(1 .. bookings)
    BY IdsAssumption, FiniteIndices DEF Numbered
  <2>2. QED
    BY ONLY <2>1, FiniteImage
<1>3. QED
  BY <1>1, <1>2, FS_Union DEF Numbered

\* CertificatesSpentOnce: a certificate pays for no more reservations than it was sent times.
THEOREM CertificatesOnce == Spec => []CertificatesSpentOnce
<1> DEFINE Once(u, c) == Cardinality(PaidFor(u, c)) + Held(wallet[u], c)
                           <= issued[u][c] + Held(OpeningWallets[u], c)
<1>1. CertificatesSpentOnce <=> \A u \in Users : \A c \in ToSet(CertificateIds) : Once(u, c)
  BY DEF CertificatesSpentOnce, PaidFor, Named, Held, Owner
<1>2. ASSUME Init
      PROVE  CertificatesSpentOnce
  <2>1. SUFFICES ASSUME NEW u \in Users, NEW c \in ToSet(CertificateIds)
                 PROVE  Once(u, c)
    BY <1>1
  <2>2. PaidFor(u, c) = {}
    BY <1>2, OpeningAssumption DEF Init, PaidFor, Named
  <2>3. Cardinality(PaidFor(u, c)) = 0 /\ Held(wallet[u], c) = Held(OpeningWallets[u], c) /\ issued[u][c] = 0
        /\ Held(wallet[u], c) \in Nat
    BY <1>2, <2>2, FS_EmptySet DEF Init, Held
  <2>4. QED
    BY <2>3
<1>3. ASSUME Typed, CertificatesSpentOnce, [Next]_vars
      PROVE  CertificatesSpentOnce'
  <2>1. SUFFICES ASSUME NEW u \in Users, NEW c \in ToSet(CertificateIds)
                 PROVE  Once(u, c)'
    BY DEF CertificatesSpentOnce, PaidFor, Named, Held, Owner
  <2>2. Step
    BY <1>3, Steps
  <2>3. /\ IsFiniteSet(PaidFor(u, c)) /\ Cardinality(PaidFor(u, c)) \in Nat
        /\ Once(u, c) /\ issued[u][c] \in Nat
        /\ SoundWallet(u, wallet[u]) /\ DOMAIN wallet = Users
        /\ DOMAIN issued = Users /\ DOMAIN issued[u] = ToSet(CertificateIds)
    <3>1. IsFiniteSet(PaidFor(u, c))
      BY <1>3, FiniteReservations, FS_Subset DEF Typed, PaidFor
    <3>2. QED
      BY <1>1, <1>3, <3>1, FS_CardinalityType DEF Typed
  <2>4. \A w : Held(w, c) \in {0, 1}
    BY DEF Held
  <2>5. ASSUME PaidFor(u, c)' = PaidFor(u, c), UNCHANGED issued,
               c \in DOMAIN wallet'[u] => c \in DOMAIN wallet[u]
        PROVE  Once(u, c)'
    <3>1. Held(wallet'[u], c) <= Held(wallet[u], c)
      BY <2>5 DEF Held
    <3>2. QED
      BY <2>3, <2>4, <2>5, <3>1
  <2>6. CASE \E id \in DOMAIN reservations : \E r : Cancelled(id, r)
    <3>1. PICK id, r : id \in DOMAIN reservations /\ Cancelled(id, r)
      BY <2>6
    <3> DEFINE h == reservations[id].history
    <3>2. h \in Seq(Entries) /\ Refunds(h) \in Seq(Entries)
          /\ \A p \in ToSet(Refunds(h)) : \E q \in ToSet(h) : p.method = q.method
      <4>1. h \in Seq(Entries)
        BY <3>1, <1>3 DEF Typed, Reservations
      <4> HIDE DEF h
      <4>2. QED
        BY <4>1, RefundSums
    <3>3. r.history = h \o Refunds(h) /\ r.user = reservations[id].user
      BY <3>1 DEF Cancelled, Owner
    <3>4. Named(r, u, c) <=> Named(reservations[id], u, c)
      <4> HIDE DEF h
      <4>1. ToSet(h \o Refunds(h)) = ToSet(h) \cup ToSet(Refunds(h))
        BY <3>2, JoinedMethods
      <4>2. (\E p \in ToSet(r.history) : p.method = c) <=> (\E p \in ToSet(h) : p.method = c)
        BY <3>2, <3>3, <4>1
      <4>3. QED
        BY <3>3, <4>2 DEF Named, h
    <3>5. PaidFor(u, c)' = PaidFor(u, c)
      BY <3>1, <3>4, ReservationReplaced DEF Cancelled, PaidFor
    <3>6. QED
      BY <2>5, <3>1, <3>5 DEF Cancelled
  <2>7. CASE \E id \in DOMAIN reservations : \E r, m, amount : Updated(id, r, m, amount)
    <3>1. PICK id, r, m, amount : id \in DOMAIN reservations /\ Updated(id, r, m, amount)
      BY <2>7
    <3> DEFINE old == reservations[id]
               charge == Charge(m, amount)
    <3>2. /\ r.user = old.user /\ r.history = old.history \o charge /\ amount \in Int /\ UNCHANGED issued
          /\ old \in Reservations /\ old.history \in Seq(Entries) /\ old.user \in Users
      BY <1>3, <3>1 DEF Updated, Typed, Owner, Reservations
    <3>3. /\ (m \in Methods /\ m # c) \/ amount = 0
          /\ \A v \in Users : DOMAIN wallet'[v] = DOMAIN wallet[v]
      <4>1. CASE /\ Chargeable(Wallet(id), m, amount)
                 /\ wallet' = [wallet EXCEPT ![Owner(id)] = Charged(@, m, amount)]
        <5>1. /\ m \in Methods /\ m \notin ToSet(CertificateIds)
              /\ DOMAIN Charged(wallet[Owner(id)], m, amount) = DOMAIN wallet[Owner(id)]
          BY <1>3, <3>2, <4>1, ChargedSound DEF Typed, Wallet, Owner
        <5>2. QED
          BY <4>1, <5>1, <2>3
      <4>2. CASE amount = 0 /\ wallet' = wallet
        BY <4>2
      <4>3. QED
        BY <3>1, <4>1, <4>2 DEF Updated
    <3>4. charge \in Seq(Entries) /\ \A p \in ToSet(charge) : p.method # c
      <4>1. charge \in Seq(Entries) /\ \A p \in ToSet(charge) : p.method = m
        BY <3>2, <3>3, ChargeSums
      <4>2. amount = 0 => ToSet(charge) = {}
        BY DEF Charge, ToSet
      <4>3. QED
        BY <3>3, <4>1, <4>2
    <3>5. Named(r, u, c) <=> Named(old, u, c)
      <4> HIDE DEF charge, old
      <4>1. ToSet(old.history \o charge) = ToSet(old.history) \cup ToSet(charge)
        BY <3>2, <3>4, JoinedMethods
      <4>2. QED
        BY <3>2, <3>4, <4>1 DEF Named
    <3>6. PaidFor(u, c)' = PaidFor(u, c)
      BY <3>1, <3>5, ReservationReplaced DEF Updated, PaidFor
    <3>7. QED
      BY <2>5, <3>2, <3>3, <3>6
  <2>8. ASSUME NEW v \in Users, NEW offer, NEW paid, Paying(v, offer, paid)
        PROVE  /\ \A x \in Users : x # v => wallet'[x] = wallet[x]
               /\ \A m \in DOMAIN wallet'[v] :
                    /\ m \in DOMAIN wallet[v]
                    /\ wallet[v][m].source = "certificate" => \A p \in ToSet(paid) : p.method # m
    <3>1. wallet' = [wallet EXCEPT ![v] = Spent(wallet[v], paid)] /\ SoundWallet(v, wallet[v])
          /\ paid \in Seq(ToSet(paid)) /\ \A p \in ToSet(paid) : p.amount \in Int
      BY <1>3, <2>8 DEF Paying, Typed
    <3>2. wallet'[v] = Spent(wallet[v], paid) /\ \A x \in Users : x # v => wallet'[x] = wallet[x]
      BY <3>1, <2>3
    <3>3. QED
      BY <3>1, <3>2, SpentSound
  <2>9. CASE \E v \in Users, offer \in Offers :
               /\ Paying(v, offer, offer) /\ Booked(v, offer, NewIds[bookings + 1])
    <3>1. PICK v \in Users, offer \in Offers :
               /\ Paying(v, offer, offer) /\ Booked(v, offer, NewIds[bookings + 1])
      BY <2>9
    <3> DEFINE id == NewIds[bookings + 1]
               r == reservations'[id]
    <3>2. /\ id \notin DOMAIN reservations /\ DOMAIN reservations' = DOMAIN reservations \cup {id}
          /\ \A i \in DOMAIN reservations : reservations'[i] = reservations[i]
          /\ r.user = v /\ \A p \in ToSet(r.history) : \E q \in ToSet(offer) : p.method = q.method
          /\ UNCHANGED issued
      BY <3>1 DEF Booked, Paying
    <3> HIDE DEF id
    <3>3. PaidFor(u, c)' = PaidFor(u, c) \cup (IF Named(r, u, c) THEN {id} ELSE {}) /\ id \notin PaidFor(u, c)
      BY <3>2 DEF PaidFor
    <3>4. c \in DOMAIN wallet'[u] => c \in DOMAIN wallet[u]
      BY <2>8, <3>1
    <3>5. CASE Named(r, u, c)
      <4>1. u = v /\ \E q \in ToSet(offer) : q.method = c
        BY <3>2, <3>5 DEF Named
      <4>2. c \in DOMAIN wallet[u] /\ wallet[u][c].source = "certificate"
        BY <2>3, <3>1, <4>1 DEF Paying, SoundWallet
      <4>3. c \notin DOMAIN wallet'[u]
        BY <2>8, <3>1, <4>1, <4>2
      <4>4. Cardinality(PaidFor(u, c)') = Cardinality(PaidFor(u, c)) + 1
        BY <2>3, <3>3, <3>5, FS_AddElement
      <4>5. Held(wallet'[u], c) = 0 /\ Held(wallet[u], c) = 1
        BY <4>2, <4>3 DEF Held
      <4>6. QED
        BY <2>3, <2>4, <3>2, <4>4, <4>5
    <3>6. CASE ~Named(r, u, c)
      BY <2>5, <3>2, <3>3, <3>4, <3>6
    <3>7. QED
      BY <3>5, <3>6
  <2>10. CASE \E v \in Users : \E offer, paid : Paying(v, offer, paid) /\ UNCHANGED reservations
    <3>1. PICK v, offer, paid : v \in Users /\ Paying(v, offer, paid) /\ UNCHANGED reservations
      BY <2>10
    <3>2. c \in DOMAIN wallet'[u] => c \in DOMAIN wallet[u]
      BY <2>8, <3>1
    <3>3. QED
      BY <2>5, <3>1, <3>2 DEF Paying, PaidFor
  <2>11. CASE \E v \in Users : \E d, amount : Sent(v, d, amount)
    <3>1. PICK v, d, amount : v \in Users /\ Sent(v, d, amount)
      BY <2>11
    <3>2. /\ UNCHANGED reservations /\ d \in ToSet(CertificateIds) /\ d \notin DOMAIN wallet[v]
          /\ wallet' = [wallet EXCEPT ![v] = WithCertificate(@, d, amount)]
          /\ issued' = [issued EXCEPT ![v][d] = @ + 1]
      BY <3>1 DEF Sent
    <3>3. PaidFor(u, c)' = PaidFor(u, c)
      BY <3>2 DEF PaidFor
    <3>4. CASE u = v /\ c = d
      <4>1. issued'[u][c] = issued[u][c] + 1
        BY <2>3, <3>2, <3>4
      <4>2. Held(wallet[u], c) = 0
        BY <3>2, <3>4 DEF Held
      <4>3. QED
        BY <2>3, <2>4, <3>3, <4>1, <4>2
    <3>5. CASE ~(u = v /\ c = d)
      <4>1. issued'[u][c] = issued[u][c]
        BY <2>3, <3>2, <3>5
      <4>2. Held(wallet'[u], c) = Held(wallet[u], c)
        BY <2>3, <3>2, <3>5 DEF Held, WithCertificate
      <4>3. QED
        BY <2>3, <2>4, <3>3, <4>1, <4>2
    <3>6. QED
      BY <3>4, <3>5
  <2>12. CASE UNCHANGED <<db, bookings, calls, issued>>
    BY <2>5, <2>12 DEF db, PaidFor
  <2>13. QED
    BY <2>2, <2>6, <2>7, <2>9, <2>10, <2>11, <2>12 DEF Step
<1>4. QED
  BY <1>2, <1>3, AlwaysTyped, PTL DEF Spec

-----------------------------------------------------------------------------
(* Balances                                                                *)

\* What was paid by m: nothing, or its only entry.
LEMMA PaidByNone ==
  ASSUME NEW offer, offer \in Seq(ToSet(offer)), NEW m, \A i \in DOMAIN offer : offer[i].method # m
  PROVE  PaidBy(offer, m) = 0
<1> DEFINE f == [i \in DOMAIN offer |-> IF offer[i].method = m THEN offer[i].amount ELSE 0]
<1>1. DOMAIN f = 1 .. Len(offer) /\ Len(offer) \in Nat /\ \A i \in DOMAIN f : f[i] = 0
  BY Elements
<1> HIDE DEF f
<1>2. SumFunctionOnSet(f, DOMAIN f) = 0
  BY <1>1, FiniteIndices, SumOfZeros
<1>3. QED
  BY <1>2 DEF f, PaidBy, Total, SumFunction

\* What a method pays that is listed once.
LEMMA PaidByOne ==
  ASSUME NEW offer, offer \in Seq(ToSet(offer)), NEW m, NEW i \in DOMAIN offer,
         offer[i].method = m, offer[i].amount \in Int,
         \A j \in DOMAIN offer : offer[j].method = m => j = i
  PROVE  PaidBy(offer, m) = offer[i].amount
<1> DEFINE f == [j \in DOMAIN offer |-> IF offer[j].method = m THEN offer[j].amount ELSE 0]
           T == DOMAIN offer \ {i}
<1>1. /\ DOMAIN f = DOMAIN offer /\ DOMAIN offer = 1 .. Len(offer) /\ Len(offer) \in Nat
      /\ f[i] = offer[i].amount /\ f[i] \in Int /\ \A j \in T : f[j] = 0
  BY Elements
<1>2. IsFiniteSet(DOMAIN offer) /\ IsFiniteSet(T) /\ i \notin T /\ DOMAIN offer = T \cup {i}
  BY <1>1, FiniteIndices, FS_Subset
<1> HIDE DEF f, T
<1>3. SumFunctionOnSet(f, T) = 0
  BY <1>1, <1>2, SumOfZeros
<1>4. SumFunctionOnSet(f, DOMAIN offer) = f[i] + SumFunctionOnSet(f, T)
  <2>1. \A y \in T \cup {i} : f[y] \in Int
    BY <1>1
  <2>2. QED
    BY ONLY <1>2, <2>1, SumTakesIn
<1>5. QED
  BY <1>1, <1>3, <1>4 DEF f, PaidBy, Total, SumFunction

\* The amounts that no call may take below zero.
Balanced ==
  \A u \in Users : \A m \in DOMAIN wallet[u] :
    wallet[u][m].source # "credit_card" => wallet[u][m].amount \in Nat

\* Under NoGiftCardTwice each gift card holds what is taken from it.
LEMMA PaymentsCovered ==
  ASSUME NoGiftCardTwice, Typed, Balanced, NEW u \in Users, NEW offer \in Offers, NEW paid,
         Paying(u, offer, paid), \A i \in DOMAIN paid : i \in DOMAIN offer /\ paid[i] = offer[i],
         NEW m \in GiftCards(u)
  PROVE  wallet[u][m].amount - PaidBy(paid, m) \in Nat
<1>1. /\ paid \in Seq(ToSet(paid)) /\ offer \in Seq(ToSet(offer))
      /\ \A p \in ToSet(offer) : p.amount \in Int /\ Covered(wallet[u][p.method], p.amount)
  BY ArgumentsAssumption DEF Paying
<1>2. m \in DOMAIN wallet[u] /\ wallet[u][m].source = "gift_card" /\ wallet[u][m].amount \in Nat
  BY SoundIsTyped DEF Typed, Balanced
<1>3. CASE \A i \in DOMAIN paid : paid[i].method # m
  BY <1>1, <1>2, <1>3, PaidByNone
<1>4. CASE \E i \in DOMAIN paid : paid[i].method = m
  <2>1. PICK i \in DOMAIN paid : paid[i].method = m
    BY <1>4
  <2>2. i \in DOMAIN offer /\ paid[i] = offer[i] /\ offer[i] \in ToSet(offer)
    BY <1>1, Elements
  <2>3. \A j \in DOMAIN paid : paid[j].method = m => j = i
    BY <2>1, <2>2 DEF NoGiftCardTwice
  <2>4. paid[i].amount \in Int /\ paid[i].amount <= wallet[u][m].amount
    BY <1>1, <1>2, <2>1, <2>2 DEF Covered
  <2>5. PaidBy(paid, m) = paid[i].amount
    BY <1>1, <2>1, <2>3, <2>4, PaidByOne
  <2>6. QED
    BY <1>2, <2>4, <2>5
<1>5. QED
  BY <1>3, <1>4

\* No call takes a balance below zero.
LEMMA BalancedStep == NoGiftCardTwice /\ Typed /\ Balanced /\ [Next]_vars => Balanced'
<1>1. SUFFICES ASSUME NoGiftCardTwice, Typed, Balanced, [Next]_vars PROVE Balanced'
  OBVIOUS
<1>2. Step
  BY <1>1, Steps
<1>3. /\ DOMAIN wallet = Users /\ \A u \in Users : SoundWallet(u, wallet[u])
  BY <1>1 DEF Typed
<1> DEFINE Sound(w) == \A m \in DOMAIN w : w[m].source # "credit_card" => w[m].amount \in Nat
<1>4. Balanced <=> \A u \in Users : Sound(wallet[u])
  BY DEF Balanced
<1>5. ASSUME NEW u \in Users, NEW w, wallet' = [wallet EXCEPT ![u] = w], Sound(w)
      PROVE  Balanced'
  <2>1. wallet'[u] = w /\ \A v \in Users : v # u => wallet'[v] = wallet[v]
    BY <1>3, <1>5
  <2>2. \A v \in Users : Sound(wallet'[v])
    BY <1>1, <1>4, <1>5, <2>1
  <2>3. QED
    BY <2>2 DEF Balanced
<1>6. CASE UNCHANGED wallet
  BY <1>1, <1>6 DEF Balanced
<1>7. CASE \E id \in DOMAIN reservations : \E r, m, amount : Updated(id, r, m, amount)
  <2>1. PICK id, r, m, amount : id \in DOMAIN reservations /\ Updated(id, r, m, amount)
    BY <1>7
  <2> DEFINE u == Owner(id)
             w == wallet[u]
  <2>2. amount \in Int /\ u \in Users
    BY <1>1, <2>1, CostParts DEF Updated, Typed
  <2>3. CASE /\ Chargeable(Wallet(id), m, amount)
             /\ wallet' = [wallet EXCEPT ![Owner(id)] = Charged(@, m, amount)]
    <3>1. Chargeable(w, m, amount) /\ wallet' = [wallet EXCEPT ![u] = Charged(w, m, amount)]
      BY <2>3 DEF Wallet
    <3>2. SoundWallet(u, w) /\ Sound(w)
      BY <1>1, <1>3, <1>4, <2>2
    <3> HIDE DEF u, w
    <3>3. /\ DOMAIN Charged(w, m, amount) = DOMAIN w
          /\ \A k \in DOMAIN w :
               /\ Charged(w, m, amount)[k].source = w[k].source
               /\ Charged(w, m, amount)[k].amount =
                    IF k = m /\ k \in GiftCards(u) THEN w[k].amount - amount ELSE w[k].amount
      BY <2>2, <3>1, <3>2, ChargedSound
    <3>4. m \in GiftCards(u) => w[m].amount >= amount /\ w[m].amount \in Nat /\ m \in DOMAIN w
      BY <2>2, <3>1, <3>2, SoundIsTyped DEF Chargeable, Covered
    <3>5. Sound(Charged(w, m, amount))
      BY <2>2, <3>2, <3>3, <3>4
    <3>6. QED
      BY <1>5, <2>2, <3>1, <3>5
  <2>4. QED
    BY <1>6, <2>1, <2>3 DEF Updated
<1>8. ASSUME NEW u \in Users, NEW offer \in Offers, NEW paid,
             Paying(u, offer, paid), \A i \in DOMAIN paid : i \in DOMAIN offer /\ paid[i] = offer[i]
      PROVE  Balanced'
  <2> DEFINE w == wallet[u]
  <2>1. wallet' = [wallet EXCEPT ![u] = Spent(w, paid)] /\ SoundWallet(u, w) /\ Sound(w)
        /\ paid \in Seq(ToSet(paid)) /\ \A p \in ToSet(paid) : p.amount \in Int
    BY <1>1, <1>3, <1>4, <1>8 DEF Paying
  <2>2. \A m \in GiftCards(u) : w[m].amount - PaidBy(paid, m) \in Nat
    BY <1>1, <1>8, PaymentsCovered
  <2> HIDE DEF w
  <2>3. \A m \in DOMAIN Spent(w, paid) :
          /\ m \in DOMAIN w
          /\ Spent(w, paid)[m].source = w[m].source
          /\ Spent(w, paid)[m].amount =
               IF m \in GiftCards(u) THEN w[m].amount - PaidBy(paid, m) ELSE w[m].amount
    BY <2>1, SpentSound
  <2>4. Sound(Spent(w, paid))
    BY <2>1, <2>2, <2>3
  <2>5. QED
    BY <1>5, <2>1, <2>4
<1>9. CASE \E u \in Users, offer \in Offers : Paying(u, offer, offer)
  BY <1>8, <1>9
<1>10. CASE \E u \in Users, offer \in Offers : \E k \in Gone(u, offer) :
              LET paid == SubSeq(offer, 1, k - 1)
              IN  /\ Paying(u, offer, paid)
                  /\ DOMAIN paid = 1 .. k - 1 /\ \A i \in 1 .. k - 1 : i \in DOMAIN offer /\ paid[i] = offer[i]
  BY <1>8, <1>10
<1>11. CASE \E u \in Users : \E c, amount : Sent(u, c, amount)
  <2>1. PICK u, c, amount : u \in Users /\ Sent(u, c, amount)
    BY <1>11
  <2>2. wallet' = [wallet EXCEPT ![u] = WithCertificate(wallet[u], c, amount)] /\ amount \in Nat
    BY <2>1 DEF Sent
  <2>3. Sound(wallet[u])
    BY <2>1, <1>1, <1>4
  <2>4. Sound(WithCertificate(wallet[u], c, amount))
    BY <2>2, <2>3 DEF WithCertificate
  <2>5. QED
    BY <2>1, <1>5, <2>2, <2>4
<1>12. QED
  BY <1>2, <1>6, <1>7, <1>9, <1>10, <1>11 DEF Step, Cancelled, db

\* TypeOK: no stored balance is ever negative, as long as no offer lists a gift card twice.
THEOREM BalancesTyped == NoGiftCardTwice => (Spec => []TypeOK)
<1>1. SUFFICES ASSUME NoGiftCardTwice PROVE Spec => []TypeOK
  OBVIOUS
<1>2. Init => Balanced
  <2>1. \A u \in Users : \A m \in DOMAIN OpeningWallets[u] : OpeningWallets[u][m].amount \in Nat
    BY OpeningAssumption DEF Holdings
  <2>2. QED
    BY <2>1 DEF Init, Balanced
<1>3. Typed /\ Balanced /\ [Next]_vars => Balanced'
  BY <1>1, BalancedStep
<1>4. Typed /\ Balanced /\ ListInv => TypeOK
  <2>1. SUFFICES ASSUME Typed, Balanced, ListInv PROVE TypeOK
    OBVIOUS
  <2>2. \A u \in Users : DOMAIN wallet[u] \subseteq Methods
    BY <2>1, SoundIsTyped DEF Typed
  <2>3. lists \in [Users -> Seq(DOMAIN reservations)]
    <3>1. lists \in [Users -> Seq(Ids)]
          /\ \A u \in Users : \A n \in DOMAIN lists[u] : lists[u][n] \in DOMAIN reservations
      BY <2>1 DEF ListInv, ListsTrue
    <3>2. ASSUME NEW u \in Users
          PROVE  lists[u] \in Seq(DOMAIN reservations)
      <4> DEFINE s == lists[u]
      <4>1. s \in Seq(Ids) /\ \A n \in DOMAIN s : s[n] \in DOMAIN reservations
        BY <3>1
      <4> HIDE DEF s
      <4>2. s = [n \in 1 .. Len(s) |-> s[n]] /\ Len(s) \in Nat /\ DOMAIN s = 1 .. Len(s)
        BY ONLY <4>1
      <4>3. s \in Seq(DOMAIN reservations)
        BY ONLY <4>1, <4>2
      <4>4. QED
        BY <4>3 DEF s
    <3>3. QED
      BY <3>1, <3>2
  <2>4. QED
    BY <2>1, <2>2, <2>3 DEF TypeOK, Typed, Balanced, Numbered
<1>5. QED
  BY <1>2, <1>3, <1>4, AlwaysTyped, OpeningListed, ListStep, PTL DEF Spec

\* What the reservations of a user say was charged to a method.
Of(u) == {id \in DOMAIN reservations : Owner(id) = u}
Charges(u, m) == [id \in Of(u) |-> CalledFor(reservations[id].history, m)]

\* What the calls charged to a method, by reservation of its user.
LEMMA ChargesTyped ==
  ASSUME Typed, NEW u \in Users, NEW m
  PROVE  /\ IsFiniteSet(Of(u)) /\ DOMAIN Charges(u, m) = Of(u)
         /\ \A id \in Of(u) : Charges(u, m)[id] = CalledFor(reservations[id].history, m)
                              /\ Charges(u, m)[id] \in Int
<1>1. IsFiniteSet(Of(u))
  BY FiniteReservations, FS_Subset DEF Typed, Of
<1>2. ASSUME NEW id \in Of(u)
      PROVE  CalledFor(reservations[id].history, m) \in Int
  <2>1. reservations[id].history \in Seq(Entries)
    BY CostParts DEF Typed, Of
  <2>2. QED
    BY <2>1, JoinedSums
<1>3. QED
  BY <1>1, <1>2 DEF Charges

\* A change of one reservation changes the charges of its owner.
LEMMA ChargesReplaced ==
  ASSUME Typed, NEW u \in Users, NEW m, NEW id \in DOMAIN reservations, NEW r, NEW amount \in Int,
         reservations' = [reservations EXCEPT ![id] = r], r.user = Owner(id),
         CalledFor(r.history, m) = CalledFor(reservations[id].history, m) + amount
  PROVE  SumFunction(Charges(u, m)') = SumFunction(Charges(u, m)) + IF Owner(id) = u THEN amount ELSE 0
<1> DEFINE f == Charges(u, m)
           g == Charges(u, m)'
           S == Of(u)
<1>1. /\ DOMAIN reservations' = DOMAIN reservations /\ reservations'[id] = r
      /\ \A i \in DOMAIN reservations : i # id => reservations'[i] = reservations[i]
  BY ReservationReplaced
<1>2. Of(u)' = S
  BY <1>1 DEF Of, Owner
<1>3. /\ IsFiniteSet(S) /\ DOMAIN f = S
      /\ \A i \in S : f[i] = CalledFor(reservations[i].history, m) /\ f[i] \in Int
  BY ChargesTyped
<1>4. DOMAIN g = S /\ \A i \in S : g[i] = CalledFor(reservations'[i].history, m)
  BY <1>2 DEF Charges
<1>5. \A i \in S : /\ i # id => g[i] = f[i]
                   /\ i = id => g[i] = f[i] + amount
                   /\ g[i] \in Int
  BY <1>1, <1>3, <1>4 DEF Of
<1>6. id \in S <=> Owner(id) = u
  BY DEF Of
<1> HIDE DEF f, g, S
<1>7. CASE id \in S
  <2>1. SumFunctionOnSet(g, S) = SumFunctionOnSet(f, S) + g[id] - f[id]
    BY ONLY <1>3, <1>5, <1>7, SumChangesIn
  <2>2. SumFunctionOnSet(f, S) \in Int
    BY ONLY <1>3, SumIsInt
  <2>3. SumFunctionOnSet(g, S) = SumFunctionOnSet(f, S) + amount
    BY <1>3, <1>5, <1>7, <2>1, <2>2
  <2>4. QED
    BY <1>3, <1>4, <1>6, <1>7, <2>3 DEF f, g, SumFunction
<1>8. CASE id \notin S
  <2>1. \A i \in S : f[i] = g[i]
    BY <1>5, <1>8
  <2>2. SumFunctionOnSet(g, S) = SumFunctionOnSet(f, S) /\ SumFunctionOnSet(f, S) \in Int
    BY <1>3, <2>1, SumsEqual, SumIsInt
  <2>3. QED
    BY <1>3, <1>4, <1>6, <1>8, <2>2 DEF f, g, SumFunction
<1>9. QED
  BY <1>7, <1>8

\* A booking adds what its offer charges.
LEMMA ChargesAdded ==
  ASSUME Typed, NEW u \in Users, NEW v \in Users, NEW m, NEW offer, NEW id, Booked(v, offer, id),
         PaidBy(offer, m) \in Int
  PROVE  SumFunction(Charges(u, m)') = SumFunction(Charges(u, m)) + IF v = u THEN PaidBy(offer, m) ELSE 0
<1> DEFINE f == Charges(u, m)
           g == Charges(u, m)'
           S == Of(u)
           n == PaidBy(offer, m)
<1>1. /\ id \notin DOMAIN reservations /\ DOMAIN reservations' = DOMAIN reservations \cup {id}
      /\ \A i \in DOMAIN reservations : reservations'[i] = reservations[i]
      /\ reservations'[id].user = v /\ CalledFor(reservations'[id].history, m) = n
  BY DEF Booked
<1>2. Of(u)' = S \cup (IF v = u THEN {id} ELSE {}) /\ id \notin S
  BY <1>1 DEF Of, Owner
<1>3. /\ IsFiniteSet(S) /\ DOMAIN f = S
      /\ \A i \in S : f[i] = CalledFor(reservations[i].history, m) /\ f[i] \in Int
  BY ChargesTyped
<1>4. DOMAIN g = Of(u)' /\ \A i \in Of(u)' : g[i] = CalledFor(reservations'[i].history, m)
  BY DEF Charges
<1>5. \A i \in S : g[i] = f[i]
  BY <1>1, <1>2, <1>3, <1>4 DEF Of
<1>6. v = u => g[id] = n
  BY <1>1, <1>2, <1>4
<1> HIDE DEF f, g, S, n
<1>7. SumFunctionOnSet(g, S) = SumFunctionOnSet(f, S) /\ SumFunctionOnSet(f, S) \in Int
  BY <1>3, <1>5, SumsEqual, SumIsInt
<1>8. CASE v = u
  <2>1. \A y \in S \cup {id} : g[y] \in Int
    BY <1>3, <1>5, <1>6, <1>8 DEF n
  <2>2. SumFunctionOnSet(g, S \cup {id}) = g[id] + SumFunctionOnSet(g, S)
    BY ONLY <1>2, <1>3, <2>1, SumTakesIn
  <2>3. SumFunctionOnSet(g, DOMAIN g) = SumFunctionOnSet(f, DOMAIN f) + n
    BY <1>2, <1>3, <1>4, <1>6, <1>7, <1>8, <2>1, <2>2
  <2>4. QED
    BY <1>8, <2>3 DEF f, g, n, SumFunction
<1>9. CASE v # u
  <2>1. SumFunctionOnSet(g, DOMAIN g) = SumFunctionOnSet(f, DOMAIN f) /\ SumFunctionOnSet(f, DOMAIN f) \in Int
    BY <1>2, <1>3, <1>4, <1>7, <1>9
  <2>2. QED
    BY <1>9, <2>1 DEF f, g, SumFunction
<1>10. QED
  BY <1>8, <1>9

\* A booking that raises has charged no gift card before.
LEMMA NothingBefore ==
  ASSUME CertificatesFirst, Typed, NEW u \in Users, NEW offer \in Offers, NEW k \in Gone(u, offer),
         NEW paid, Paying(u, offer, paid), k \in DOMAIN offer, DOMAIN paid = 1 .. k - 1,
         \A i \in 1 .. k - 1 : i \in DOMAIN offer /\ paid[i] = offer[i], NEW m \in GiftCards(u)
  PROVE  PaidBy(paid, m) = 0
<1>1. /\ paid \in Seq(ToSet(paid)) /\ offer \in Seq(ToSet(offer)) /\ DOMAIN offer \subseteq Nat
      /\ \A p \in ToSet(offer) : p.method \in DOMAIN wallet[u]
  BY ArgumentsAssumption, Elements DEF Paying
<1> DEFINE c == offer[k].method
<1>2. wallet[u][c].source = "certificate" /\ \E i \in 1 .. k - 1 : offer[i].method = c
  BY DEF Gone
<1>3. c \in DOMAIN wallet[u]
  BY <1>1, Elements
<1>4. c \in ToSet(CertificateIds) \/ (c \in DOMAIN OpeningWallets[u] /\ OpeningWallets[u][c].source = "certificate")
  BY <1>2, <1>3 DEF Typed, SoundWallet
<1>5. PICK i \in 1 .. k - 1 : offer[i].method = c
  BY <1>2
<1>6. i \in DOMAIN offer /\ i < k
  BY <1>1, <1>5
<1>7. \A j \in DOMAIN offer : j < k => offer[j].method \notin GiftCards(u)
  BY <1>4, <1>5, <1>6 DEF CertificatesFirst
<1>8. \A j \in DOMAIN paid : paid[j].method # m
  <2>1. \A j \in 1 .. k - 1 : j < k
    BY <1>1
  <2>2. QED
    BY <1>7, <2>1
<1>9. QED
  BY <1>1, <1>8, PaidByNone

\* GiftCardsBalance: what a gift card lost is what the reservations of its user say was
\* charged to it, for offers that do not list a certificate twice after a gift card.
THEOREM GiftCardsAddUp == CertificatesFirst => (Spec => []GiftCardsBalance)
<1>1. SUFFICES ASSUME CertificatesFirst PROVE Spec => []GiftCardsBalance
  OBVIOUS
<1> DEFINE Even(u, m) == OpeningWallets[u][m].amount - wallet[u][m].amount = SumFunction(Charges(u, m))
<1>2. GiftCardsBalance <=> \A u \in Users : \A m \in GiftCards(u) : Even(u, m)
  BY DEF GiftCardsBalance, GiftCards, Charges, Of, Total
<1>3. ASSUME NEW u \in Users, NEW m \in GiftCards(u), Typed
      PROVE  /\ OpeningWallets[u][m].amount \in Int /\ wallet[u][m].amount \in Int
             /\ m \in DOMAIN wallet[u] /\ m \notin ToSet(CertificateIds)
             /\ SumFunction(Charges(u, m)) \in Int
  <2>1. OpeningWallets[u][m].amount \in Int /\ m \notin ToSet(CertificateIds)
    BY OpeningAssumption, GiftCardsAreNoCertificates DEF Holdings
  <2>2. m \in DOMAIN wallet[u] /\ wallet[u][m].amount \in Int
    BY <1>3, SoundIsTyped DEF Typed
  <2>3. SumFunction(Charges(u, m)) \in Int
    <3> DEFINE f == Charges(u, m)
    <3>1. IsFiniteSet(DOMAIN f) /\ \A id \in DOMAIN f : f[id] \in Int
      BY <1>3, ChargesTyped
    <3> HIDE DEF f
    <3>2. QED
      BY <3>1, SumIsInt DEF f, SumFunction
  <2>4. QED
    BY <2>1, <2>2, <2>3
<1>4. ASSUME Init
      PROVE  GiftCardsBalance
  <2>1. Typed
    BY <1>4, OpeningTyped
  <2>2. ASSUME NEW u \in Users, NEW m \in GiftCards(u)
        PROVE  Even(u, m)
    <3> DEFINE f == Charges(u, m)
    <3>1. /\ IsFiniteSet(Of(u)) /\ DOMAIN f = Of(u)
          /\ \A id \in Of(u) : f[id] = CalledFor(reservations[id].history, m)
      BY <2>1, ChargesTyped
    <3>2. ASSUME NEW id \in Of(u)
          PROVE  f[id] = 0
      <4> DEFINE h == reservations[id].history
                 g == [i \in DOMAIN h |-> IF h[i].method = m /\ h[i].by = "call" THEN h[i].amount ELSE 0]
      <4>1. h \in Seq(Entries) /\ \A p \in ToSet(h) : p.by = "before"
        BY <1>4, <2>1, OpeningAssumption, CostParts DEF Init, Of, Typed
      <4>2. DOMAIN h = 1 .. Len(h) /\ Len(h) \in Nat /\ \A i \in DOMAIN h : h[i].by = "before"
        BY <4>1 DEF ToSet
      <4> HIDE DEF h
      <4>3. DOMAIN g = 1 .. Len(h) /\ \A i \in DOMAIN g : g[i] = 0
        BY <4>2
      <4>4. CalledFor(h, m) = SumFunctionOnSet(g, DOMAIN g)
        BY DEF CalledFor, Total, SumFunction
      <4> HIDE DEF g
      <4>5. QED
        BY <3>1, <4>2, <4>3, <4>4, FiniteIndices, SumOfZeros DEF h
    <3> HIDE DEF f
    <3>3. SumFunctionOnSet(f, DOMAIN f) = 0
      BY <3>1, <3>2, SumOfZeros
    <3>4. wallet[u][m].amount = OpeningWallets[u][m].amount
      BY <1>4 DEF Init
    <3>5. QED
      BY <1>3, <2>1, <3>3, <3>4 DEF f, SumFunction
  <2>3. QED
    BY <1>2, <2>2
<1>5. ASSUME Typed, GiftCardsBalance, [Next]_vars
      PROVE  GiftCardsBalance'
  <2>1. SUFFICES ASSUME NEW u \in Users, NEW m \in GiftCards(u)
                 PROVE  OpeningWallets[u][m].amount - wallet'[u][m].amount = SumFunction(Charges(u, m)')
    BY DEF GiftCardsBalance, GiftCards, Charges, Of, Total
  <2>2. Step /\ SoundWallet(u, wallet[u]) /\ DOMAIN wallet = Users
    BY <1>5, Steps DEF Typed
  <2>3. /\ OpeningWallets[u][m].amount \in Int /\ wallet[u][m].amount \in Int
        /\ m \in DOMAIN wallet[u] /\ m \notin ToSet(CertificateIds)
        /\ SumFunction(Charges(u, m)) \in Int
        /\ OpeningWallets[u][m].amount - wallet[u][m].amount = SumFunction(Charges(u, m))
    BY <1>2, <1>3, <1>5
  <2>4. ASSUME NEW n \in Int, wallet'[u][m].amount = wallet[u][m].amount - n,
               SumFunction(Charges(u, m)') = SumFunction(Charges(u, m)) + n
        PROVE  OpeningWallets[u][m].amount - wallet'[u][m].amount = SumFunction(Charges(u, m)')
    BY <2>3, <2>4
  <2>5. CASE \E id \in DOMAIN reservations : \E r : Cancelled(id, r)
    <3>1. PICK id, r : id \in DOMAIN reservations /\ Cancelled(id, r)
      BY <2>5
    <3> DEFINE h == reservations[id].history
    <3>2. h \in Seq(Entries) /\ r.history = h \o Refunds(h) /\ r.user = Owner(id) /\ wallet' = wallet
          /\ reservations' = [reservations EXCEPT ![id] = r]
      BY <1>5, <3>1, CostParts DEF Cancelled, Typed
    <3>3. CalledFor(r.history, m) = CalledFor(h, m) + 0
      <4> HIDE DEF h
      <4>1. Refunds(h) \in Seq(Entries) /\ CalledFor(Refunds(h), m) = 0
        BY <3>2, RefundSums
      <4>2. QED
        BY <3>2, <4>1, JoinedSums
    <3> DEFINE n == 0
    <3>4. CalledFor(r.history, m) = CalledFor(h, m) + n /\ n \in Int
      BY <3>3
    <3> HIDE DEF n
    <3>5. SumFunction(Charges(u, m)') = SumFunction(Charges(u, m)) + IF Owner(id) = u THEN n ELSE 0
      BY <3>1, <1>5, <3>2, <3>4, ChargesReplaced
    <3>6. QED
      BY <2>3, <2>4, <3>2, <3>5 DEF n
  <2>6. CASE \E id \in DOMAIN reservations : \E r, k, amount : Updated(id, r, k, amount)
    <3>1. PICK id, r, k, amount : id \in DOMAIN reservations /\ Updated(id, r, k, amount)
      BY <2>6
    <3> DEFINE h == reservations[id].history
               n == IF m = k THEN amount ELSE 0
    <3>2. /\ h \in Seq(Entries) /\ r.history = h \o Charge(k, amount) /\ r.user = Owner(id)
          /\ Owner(id) \in Users /\ amount \in Int /\ n \in Int
          /\ reservations' = [reservations EXCEPT ![id] = r]
      BY <1>5, <3>1, CostParts DEF Updated, Typed, Owner
    <3>3. /\ k \in Methods \/ amount = 0
          /\ wallet'[u][m].amount = wallet[u][m].amount - IF Owner(id) = u THEN n ELSE 0
      <4>1. CASE /\ Chargeable(Wallet(id), k, amount)
                 /\ wallet' = [wallet EXCEPT ![Owner(id)] = Charged(@, k, amount)]
        <5> DEFINE v == Owner(id)
                   w == wallet[v]
        <5>1. /\ Chargeable(w, k, amount) /\ SoundWallet(v, w)
              /\ wallet' = [wallet EXCEPT ![v] = Charged(w, k, amount)]
          BY <1>5, <3>2, <4>1 DEF Typed, Wallet
        <5> HIDE DEF v, w
        <5>2. /\ k \in Methods
              /\ \A j \in DOMAIN w :
                   Charged(w, k, amount)[j].amount =
                     IF j = k /\ j \in GiftCards(v) THEN w[j].amount - amount ELSE w[j].amount
          BY <3>2, <5>1, ChargedSound DEF v
        <5>3. /\ wallet'[v] = Charged(w, k, amount)
              /\ \A x \in Users : x # v => wallet'[x] = wallet[x]
          BY <2>2, <3>2, <5>1 DEF v
        <5>4. CASE v = u
          BY <2>3, <3>2, <5>2, <5>3, <5>4 DEF v, w
        <5>5. CASE v # u
          BY <2>3, <5>2, <5>3, <5>5 DEF v
        <5>6. QED
          BY <5>4, <5>5
      <4>2. CASE amount = 0 /\ wallet' = wallet
        BY <2>3, <4>2
      <4>3. QED
        BY <3>1, <4>1, <4>2 DEF Updated
    <3>4. CalledFor(r.history, m) = CalledFor(h, m) + n
      <4> HIDE DEF h
      <4>1. Charge(k, amount) \in Seq(Entries) /\ CalledFor(Charge(k, amount), m) = n
        BY <3>2, <3>3, ChargeSums
      <4>2. QED
        BY <3>2, <4>1, JoinedSums
    <3> HIDE DEF n
    <3>5. SumFunction(Charges(u, m)') = SumFunction(Charges(u, m)) + IF Owner(id) = u THEN n ELSE 0
      BY <3>1, <1>5, <3>2, <3>4, ChargesReplaced
    <3>6. QED
      BY <2>4, <3>2, <3>3, <3>5
  <2>7. ASSUME NEW v \in Users, NEW offer, NEW paid, Paying(v, offer, paid)
        PROVE  /\ wallet'[u][m].amount = wallet[u][m].amount - IF v = u THEN PaidBy(paid, m) ELSE 0
               /\ PaidBy(paid, m) \in Int
    <3>1. /\ wallet' = [wallet EXCEPT ![v] = Spent(wallet[v], paid)] /\ SoundWallet(v, wallet[v])
          /\ paid \in Seq(ToSet(paid)) /\ \A p \in ToSet(paid) : p.amount \in Int
      BY <1>5, <2>7 DEF Paying, Typed
    <3>2. PaidBy(paid, m) \in Int
      BY <3>1, OfferSums
    <3>3. /\ wallet'[v] = Spent(wallet[v], paid)
          /\ \A x \in Users : x # v => wallet'[x] = wallet[x]
      BY <2>2, <3>1
    <3>4. CASE v = u
      <4>1. m \in DOMAIN Spent(wallet[u], paid)
        BY <2>2, <3>1, <3>4, SpentSound DEF SoundWallet
      <4>2. Spent(wallet[u], paid)[m].amount = wallet[u][m].amount - PaidBy(paid, m)
        BY <2>2, <3>1, <4>1, SpentSound
      <4>3. QED
        BY <3>2, <3>3, <3>4, <4>2
    <3>5. CASE v # u
      BY <2>3, <3>2, <3>3, <3>5
    <3>6. QED
      BY <3>4, <3>5
  <2>8. CASE \E v \in Users, offer \in Offers :
               /\ Paying(v, offer, offer) /\ Booked(v, offer, NewIds[bookings + 1])
    <3>1. PICK v \in Users, offer \in Offers :
               /\ Paying(v, offer, offer) /\ Booked(v, offer, NewIds[bookings + 1])
      BY <2>8
    <3>2. /\ wallet'[u][m].amount = wallet[u][m].amount - IF v = u THEN PaidBy(offer, m) ELSE 0
          /\ PaidBy(offer, m) \in Int
      BY <2>7, <3>1
    <3>3. SumFunction(Charges(u, m)') = SumFunction(Charges(u, m)) + IF v = u THEN PaidBy(offer, m) ELSE 0
      BY <1>5, <3>1, <3>2, ChargesAdded
    <3>4. QED
      BY <2>4, <3>2, <3>3
  <2>9. ASSUME UNCHANGED reservations
        PROVE  SumFunction(Charges(u, m)') = SumFunction(Charges(u, m))
    BY <2>9 DEF Charges, Of, Owner
  <2>10. CASE \E v \in Users, offer \in Offers : \E k \in Gone(v, offer) :
                /\ k \in DOMAIN offer
                /\ LET paid == SubSeq(offer, 1, k - 1)
                   IN  /\ Paying(v, offer, paid)
                       /\ DOMAIN paid = 1 .. k - 1
                       /\ \A i \in 1 .. k - 1 : i \in DOMAIN offer /\ paid[i] = offer[i]
                /\ UNCHANGED reservations
    <3>1. PICK v \in Users, offer \in Offers : \E k \in Gone(v, offer) :
                /\ k \in DOMAIN offer
                /\ LET paid == SubSeq(offer, 1, k - 1)
                   IN  /\ Paying(v, offer, paid)
                       /\ DOMAIN paid = 1 .. k - 1
                       /\ \A i \in 1 .. k - 1 : i \in DOMAIN offer /\ paid[i] = offer[i]
                /\ UNCHANGED reservations
      BY <2>10
    <3>2. PICK k \in Gone(v, offer) :
                /\ k \in DOMAIN offer
                /\ LET paid == SubSeq(offer, 1, k - 1)
                   IN  /\ Paying(v, offer, paid)
                       /\ DOMAIN paid = 1 .. k - 1
                       /\ \A i \in 1 .. k - 1 : i \in DOMAIN offer /\ paid[i] = offer[i]
                /\ UNCHANGED reservations
      BY <3>1
    <3> DEFINE paid == SubSeq(offer, 1, k - 1)
    <3>3. /\ k \in DOMAIN offer /\ Paying(v, offer, paid)
          /\ DOMAIN paid = 1 .. k - 1
          /\ \A i \in 1 .. k - 1 : i \in DOMAIN offer /\ paid[i] = offer[i]
          /\ UNCHANGED reservations
      BY <3>2
    <3> HIDE DEF paid
    <3>4. v = u => PaidBy(paid, m) = 0
      BY <1>1, <1>5, <3>3, NothingBefore
    <3>5. wallet'[u][m].amount = wallet[u][m].amount - IF v = u THEN PaidBy(paid, m) ELSE 0
      BY <2>7, <3>3
    <3>6. QED
      BY <2>3, <2>4, <2>9, <3>3, <3>4, <3>5
  <2>11. CASE \E v \in Users : \E c, amount : Sent(v, c, amount)
    <3>1. PICK v, c, amount : v \in Users /\ Sent(v, c, amount)
      BY <2>11
    <3>2. /\ UNCHANGED reservations /\ c \in ToSet(CertificateIds)
          /\ wallet' = [wallet EXCEPT ![v] = WithCertificate(@, c, amount)]
      BY <3>1 DEF Sent
    <3>3. wallet'[u][m] = wallet[u][m]
      BY <2>2, <2>3, <3>2 DEF WithCertificate
    <3>4. QED
      BY <2>3, <2>4, <2>9, <3>2, <3>3
  <2>12. CASE UNCHANGED db
    BY <2>3, <2>4, <2>9, <2>12 DEF db
  <2>13. QED
    BY <2>2, <2>5, <2>6, <2>8, <2>10, <2>11, <2>12 DEF Step
<1>6. QED
  BY <1>4, <1>5, AlwaysTyped, PTL DEF Spec

=============================================================================
