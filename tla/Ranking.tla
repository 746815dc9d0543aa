------------------------------- MODULE Ranking -------------------------------
(***************************************************************************)
(* internal/ranking/ranker.go, the choice of the best offer at the end of  *)
(* executeCheckWithRetry, and what GenerateHandler makes of an offer for   *)
(* the score and for the display. An offer has a price in hundredths of    *)
(* its currency and may be bundled with hosting. Amounts are compared in   *)
(* half paise, so that the rate of 83.50 rupees to the dollar is a whole   *)
(* number: a paisa is 2 of them and a cent is 167.                         *)
(***************************************************************************)
EXTENDS Integers, Sequences

\* n dollars.
Usd(n) == 16700 * n

\* The pool compares offers in rupees, and takes for rupees what is not in
\* dollars.
InRupees(offer) == IF offer.currency = "USD" THEN 167 * offer.price ELSE 2 * offer.price

\* The handler scores a price in dollars, and takes for dollars what is not in
\* rupees.
ScoredAt(offer) == IF offer.currency = "INR" THEN 2 * offer.price ELSE 167 * offer.price

\* It shows dollars in rupees, and the rest in its own currency (twice the
\* hundredths, so that rupees are in half paise).
Shown(offer) ==
  IF offer.currency = "USD"
  THEN [offer EXCEPT !.price = 167 * @, !.currency = "INR"]
  ELSE [offer EXCEPT !.price = 2 * @]

\* Mutated: amounts are compared whatever their currency.
Cheapest_AnyCurrency(offers) ==
  LET standalone == {i \in DOMAIN offers : offers[i].price > 0 /\ ~offers[i].bundled}
  IN  IF standalone = {} THEN 1
      ELSE CHOOSE i \in standalone : \A k \in standalone : offers[i].price <= offers[k].price

\* The first of the cheapest standalone offers; of those with a price, if all
\* are bundled; the first offer, if none has a price.
Cheapest(offers) ==
  LET priced == {i \in DOMAIN offers : offers[i].price > 0}
      standalone == {i \in priced : ~offers[i].bundled}
      eligible == IF standalone # {} THEN standalone ELSE IF priced # {} THEN priced ELSE {1}
  IN  CHOOSE i \in eligible : \A k \in eligible :
        \/ InRupees(offers[i]) < InRupees(offers[k])
        \/ InRupees(offers[i]) = InRupees(offers[k]) /\ i <= k

\* Scores of CalculateScore, in the order of its sections.
TldBoost(tld) ==
  CASE tld = ".com" -> 15 [] tld = ".ai" -> 12 [] tld = ".io" -> 8 [] tld = ".net" -> 3 [] OTHER -> 0

LengthBonus(n) ==
  CASE n \in 4 .. 6 -> 10 [] n < 4 \/ n \in 7 .. 8 -> 5 [] n > 11 -> -10 [] OTHER -> 0

PriceBonus(price) ==
  CASE price <= Usd(10) -> 10
    [] price > Usd(10) /\ price <= Usd(20) -> 5
    [] price > Usd(100) /\ price <= Usd(500) -> -10
    [] price > Usd(500) -> -25
    [] OTHER -> 0

\* Mutated: a taken domain gets the same as an available one.
CalculateScore_NoPenalty(brand, tld, available, price, length) ==
  LET score == brand + 10 + TldBoost(tld) + LengthBonus(length) + PriceBonus(price)
  IN  IF score > 100 THEN 100 ELSE IF score < 1 THEN 1 ELSE score

CalculateScore(brand, tld, available, price, length) ==
  LET score == brand + TldBoost(tld) + LengthBonus(length)
                 + (IF available THEN 10 + PriceBonus(price) ELSE -45)
  IN  IF score > 100 THEN 100 ELSE IF score < 1 THEN 1 ELSE score
===============================================================================
