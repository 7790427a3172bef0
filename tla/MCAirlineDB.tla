----------------------------- MODULE MCAirlineDB -----------------------------
(* Constants for the runs of AirlineDB: a user with a gift card, a credit  *)
(* card and an earlier reservation, another with a credit card; two        *)
(* flights, the second with a single business seat; and offers that pay    *)
(* for some of the bookings, one way or several.                           *)
EXTENDS AirlineDB

MCUsers == {"mia", "raj"}
MCCabins == {"economy", "business"}
MCFlights == {"f1", "f2"}

MCPrices == [f \in MCFlights |->
  IF f = "f1" THEN [economy |-> 100, business |-> 200] ELSE [economy |-> 50, business |-> 150]]
MCSeats == [f \in MCFlights |->
  IF f = "f1" THEN [economy |-> 9, business |-> 9] ELSE [economy |-> 9, business |-> 1]]

Method(source, amount) == [source |-> source, amount |-> amount]

MCWallets == [u \in MCUsers |->
  IF u = "mia" THEN [gift |-> Method("gift_card", 160), card |-> Method("credit_card", 0)]
               ELSE [card2 |-> Method("credit_card", 0)]]

\* Bought at another price.
MCOpening == [old |->
  [user |-> "mia", cabin |-> "economy", flights |-> <<[flight |-> "f1", price |-> 70]>>,
   passengers |-> <<"ann">>, history |-> <<[method |-> "card", amount |-> 70, by |-> "before"]>>,
   bags |-> 0, insured |-> FALSE, cancelled |-> FALSE]]

MCLists == [u \in MCUsers |-> IF u = "mia" THEN <<"old">> ELSE <<>>]

MCItineraries == {<<"f1">>, <<"f1", "f2">>}
MCParties == {<<"ann">>, <<"bob">>, <<"ann", "bob">>}

Pay(method, amount) == [method |-> method, amount |-> amount]

MCOffers ==
  { <<Pay("gift", 100)>>, <<Pay("card", 300)>>, <<Pay("card2", 200)>>,
    <<Pay("cert1", 60), Pay("gift", 40)>>,
    <<Pay("cert1", 50), Pay("cert1", 50)>>,
    <<Pay("card", 50), Pay("gift", 150)>> }

\* An offer that lists a certificate twice, after a gift card.
MCTwice == { <<Pay("gift", 40), Pay("cert1", 30), Pay("cert1", 30)>> }

MCCertificates == <<"cert1", "cert2", "cert3">>
MCNewIds == <<"HATHAT", "HATHAU", "HATHAV">>
=============================================================================
