------------------------------ MODULE Providers ------------------------------
(***************************************************************************)
(* GetPrice of the providers that main.go wires (godaddy.go, hostinger.go, *)
(* mock.go): what each asks for a domain, as a list of plans, from what    *)
(* its source has said. Amounts are in hundredths of the currency. How the *)
(* sources are reached, and fail, is in KeylessProvider and Failover.      *)
(***************************************************************************)
EXTENDS Integers, Sequences

Hundred(n) == 100 * n

\* One stands for all that are neither rupees nor dollars.
Currencies == {"INR", "USD", "EUR"}

Plans == [price : Int, currency : Currencies, bundled : BOOLEAN]

Plan(price, currency) == [price |-> price, currency |-> currency, bundled |-> FALSE]

\* "Hostinger (Free with Hosting)": the only name that the pool takes for a bundle.
FreeWithHosting == [price |-> 0, currency |-> "INR", bundled |-> TRUE]

\* No page, because the scraper is tripped or the scrape has failed.
NoPage == [price |-> -1, old |-> 0]

\* The TLDs that the scraper supports.
Scrapable == {".com", ".in", ".online", ".io"}

\* ---------------------------------------------------------------- Hostinger --

\* The 1-year price that getLivePrice makes of a page with a promotion price
\* and, perhaps, the old price it replaces.
LivePrice(page, tld) ==
  CASE tld = ".com" -> IF page.old > 0 THEN (page.old + page.price) \div 2 ELSE Hundred(749)
    [] tld = ".in" -> Hundred(399)
    [] tld = ".io" -> Hundred(3199)
    [] tld = ".online" -> page.price
    [] OTHER -> IF page.old > 0 THEN (page.old + page.price) \div 2 ELSE page.price

HostingerLive(page, tld) ==
  LET standalone == LivePrice(page, tld)
      average == IF page.old > 0 THEN (standalone + page.old) \div 2 ELSE (standalone * 6) \div 5
  IN  <<Plan(standalone, "INR"), Plan(average, "INR"), FreeWithHosting>>

HostingerBase(tld) ==
  CASE tld = ".com" -> Hundred(749) [] tld = ".in" -> Hundred(399) [] tld = ".net" -> Hundred(899)
    [] tld = ".org" -> Hundred(849) [] tld = ".ai" -> Hundred(4999) [] tld = ".io" -> Hundred(3199)
    [] OTHER -> Hundred(999)

\* mockPrice: the hash of the domain moves the price by -40 to 109 rupees, and
\* by thousands for a premium domain. The renewal is half as much again.
HostingerMock(tld, variation) ==
  LET price == HostingerBase(tld) + variation
  IN  <<Plan(price, "INR"), Plan((price * 5) \div 4, "INR"), FreeWithHosting>>

Scraped(page, tld) == page # NoPage /\ tld \in Scrapable

\* GetPrice, with an API key or without: the page, or else the mock.
HostingerPlans(page, tld, variation) ==
  IF Scraped(page, tld) THEN HostingerLive(page, tld) ELSE HostingerMock(tld, variation)

\* ------------------------------------------------------------------ GoDaddy --

Rates(promo, renewal, standalone) ==
  [promo |-> promo, renewal |-> renewal, standalone |-> standalone]

\* getGoDaddyPricingContext: a table, and a base price for the other TLDs.
PricingContext(tld, price) ==
  LET base == IF price <= 0 THEN Hundred(999) ELSE price
  IN  CASE tld = ".com" -> Rates(Hundred(499), Hundred(1399), Hundred(1199))
        [] tld = ".in" -> Rates(Hundred(399), Hundred(699), Hundred(699))
        [] tld = ".net" -> Rates(Hundred(799), Hundred(1599), Hundred(1399))
        [] tld = ".org" -> Rates(Hundred(799), Hundred(1399), Hundred(1299))
        [] tld = ".ai" -> Rates(Hundred(5999), Hundred(5999), Hundred(5999))
        [] tld = ".io" -> Rates(Hundred(3799), Hundred(3799), Hundred(3799))
        [] OTHER -> Rates(base, (base * 3) \div 2, (base * 13) \div 10)

\* One year alone, two years on average, and the promotion with e-mail.
ThreePlans(rates, email, currency) ==
  <<Plan(rates.standalone, currency),
    Plan((rates.promo + rates.renewal) \div 2, currency),
    Plan(rates.promo + email, currency)>>

\* Without a key the price is made of Hostinger's page.
GoDaddyKeyless(page, tld) ==
  LET price == IF Scraped(page, tld) THEN LivePrice(page, tld) ELSE 0
  IN  ThreePlans(PricingContext(tld, price), Hundred(348), "INR")

\* With a key: an answer without a price stands for 12.99 dollars; a price in
\* rupees is replaced by the table.
GoDaddyQuoted(price, currency, tld) ==
  IF price = 0
  THEN ThreePlans(Rates((1299 * 7) \div 10, (1299 * 3) \div 2, 1299), Hundred(4), "USD")
  ELSE IF currency = "INR"
  THEN ThreePlans(PricingContext(tld, price), Hundred(348), "INR")
  ELSE ThreePlans(Rates((price * 7) \div 10, (price * 3) \div 2, price), Hundred(4), currency)

\* ---------------------------------------------------------------- MockProvider --

\* The two that main.go boots with USE_MOCK_PROVIDERS, in whole rupees.
MockGoDaddy == [com |-> 899, in |-> 449, ai |-> 5299, io |-> 3299]
MockHostinger == [com |-> 749, in |-> 399, ai |-> 4999, io |-> 3199]

MockBase(mock, tld) ==
  CASE tld = ".com" -> mock.com [] tld = ".in" -> mock.in [] tld = ".ai" -> mock.ai [] tld = ".io" -> mock.io
    [] tld = ".net" -> mock.com + 100 [] tld = ".org" -> mock.com + 50
    [] OTHER -> mock.com + 200

\* The hash moves the price by -50 to 99 rupees, or makes the domain premium.
MockPlans(mock, tld, variation) ==
  LET price == Hundred(MockBase(mock, tld)) + variation
  IN  <<Plan(price, "INR"), Plan((price * 5) \div 4, "INR"), Plan((price * 3) \div 2, "INR")>>

\* -------------------------------------------------------------- the price scan --

\* What one provider offers for a domain with this TLD, from what it has met.
PlansOf(source, tld) ==
  CASE source.of = "GoDaddy keyless" -> GoDaddyKeyless(source.page, tld)
    [] source.of = "GoDaddy" -> GoDaddyQuoted(source.price, source.currency, tld)
    [] source.of = "Hostinger" -> HostingerPlans(source.page, tld, source.variation)
    [] source.of = "mock GoDaddy" -> MockPlans(MockGoDaddy, tld, source.variation)
    [] OTHER -> MockPlans(MockHostinger, tld, source.variation)

\* What a source may have said. A page and an answer may have a price of 0; the
\* hash of a name takes no more than 40 or 50 rupees off a price, but may add
\* thousands.
HostingerSpread == {n \in Int : n >= -4000}
MockSpread == {n \in Int : n >= -5000}
Pages == [price : Nat, old : Nat] \cup {NoPage}
Sources ==
  [of : {"GoDaddy keyless"}, page : Pages] \cup
  [of : {"GoDaddy"}, price : Nat, currency : Currencies] \cup
  [of : {"Hostinger"}, page : Pages, variation : HostingerSpread] \cup
  [of : {"mock GoDaddy", "mock Hostinger"}, variation : MockSpread]
Scans == {scan \in Seq(Sources) : Len(scan) <= 2}

Standard == Plan(Hundred(12), "USD")

\* The offers of a scan: the plans of the (at most two) providers that have
\* quoted a price, in the order in which they did, or the "Standard" one.
Offers(scan, tld) ==
  CASE scan = << >> -> <<Standard>>
    [] Len(scan) = 1 -> PlansOf(scan[1], tld)
    [] OTHER -> PlansOf(scan[1], tld) \o PlansOf(scan[2], tld)
===============================================================================
