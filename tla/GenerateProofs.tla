---------------------------- MODULE GenerateProofs ----------------------------
(* Machine-checked proofs about GenerateRequest, for any lists of names, TLDs, *)
(* avoided words and price scans, and any limits.                              *)
EXTENDS GenerateRequest, FiniteSetTheorems, SequenceTheorems, WellFoundedInduction, TLAPS

Draft == [key : Seq(STRING), title : BOOLEAN]
Name == [key : Seq(STRING), title : BOOLEAN, score : 0 .. 100, id : Nat]
Job == [key : Seq(STRING), tld : DOMAIN Clean \cup CleanTLDs, nameID : Nat]

\* --------------------------------------------------------------- sequences --

LEMMA SortingFacts ==
  ASSUME NEW S, NEW s \in Sortings(S)
  PROVE  /\ DOMAIN s = 1 .. Cardinality(S)
         /\ s \in [1 .. Cardinality(S) -> S]
         /\ \A i, k \in DOMAIN s : i < k => s[i] # s[k] /\ s[i].score >= s[k].score
BY DEF Sortings

\* The ranking of a finite set of names, and its cut.
LEMMA BestFacts ==
  ASSUME NEW S, IsFiniteSet(S), NEW s \in Sortings(S)
  PROVE  /\ Best(s) \in Seq(S)
         /\ Len(Best(s)) <= TopNames
         /\ \A i, k \in DOMAIN Best(s) : Best(s)[i] = Best(s)[k] => i = k
<1>1. /\ Cardinality(S) \in Nat
      /\ TopNames \in Nat \ {0}
  BY FS_CardinalityType, LimitsAssumption
<1>2. s \in Seq(S) /\ Len(s) = Cardinality(S)
  BY <1>1, SortingFacts, SeqDef
<1> DEFINE m == IF Len(s) > TopNames THEN TopNames ELSE Len(s)
<1>3. m \in 0 .. Len(s) /\ m <= TopNames
  BY <1>1, <1>2
<1>4. /\ Best(s) \in Seq(S)
      /\ Len(Best(s)) = m
      /\ \A i \in 1 .. m : Best(s)[i] = s[i]
  BY <1>2, <1>3 DEF Best
<1>5. \A i, k \in 1 .. m : s[i] = s[k] => i = k
  <2>1. \A i, k \in 1 .. m : i < k => s[i] # s[k]
    BY <1>1, <1>2, <1>3, SortingFacts
  <2>2. QED
    BY <1>3, <2>1
<1>6. QED
  BY <1>3, <1>4, <1>5

\* A sequence with another one added at its end.
LEMMA Appended ==
  ASSUME NEW S, NEW s \in Seq(S), NEW t \in Seq(S)
  PROVE  /\ s \o t \in Seq(S)
         /\ DOMAIN (s \o t) = 1 .. Len(s) + Len(t)
         /\ \A i \in 1 .. Len(s) : i \in DOMAIN (s \o t) /\ (s \o t)[i] = s[i]
         /\ \A k \in 1 .. Len(t) : (s \o t)[Len(s) + k] = t[k]
         /\ \A i \in DOMAIN (s \o t) : i \in 1 .. Len(s) \/ \E k \in 1 .. Len(t) : i = Len(s) + k
<1>1. Len(s) \in Nat /\ Len(t) \in Nat
  OBVIOUS
<1>2. /\ s \o t \in Seq(S)
      /\ Len(s \o t) = Len(s) + Len(t)
      /\ \A i \in 1 .. Len(s) + Len(t) :
           (s \o t)[i] = IF i <= Len(s) THEN s[i] ELSE t[i - Len(s)]
  BY ConcatProperties
<1>3. DOMAIN (s \o t) = 1 .. Len(s) + Len(t)
  BY <1>2
<1>4. \A i \in 1 .. Len(s) : i \in 1 .. Len(s) + Len(t) /\ i <= Len(s)
  BY <1>1
<1>5. \A k \in 1 .. Len(t) :
        /\ Len(s) + k \in 1 .. Len(s) + Len(t)
        /\ ~(Len(s) + k <= Len(s))
        /\ (Len(s) + k) - Len(s) = k
  BY <1>1
<1>6. \A i \in 1 .. Len(s) + Len(t) : i \in 1 .. Len(s) \/ \E k \in 1 .. Len(t) : i = Len(s) + k
  <2> SUFFICES ASSUME NEW i \in 1 .. Len(s) + Len(t), i \notin 1 .. Len(s)
               PROVE  \E k \in 1 .. Len(t) : i = Len(s) + k
    OBVIOUS
  <2>1. i - Len(s) \in 1 .. Len(t) /\ i = Len(s) + (i - Len(s))
    BY <1>1
  <2>2. QED
    BY <2>1
<1>7. QED
  BY <1>2, <1>3, <1>4, <1>5, <1>6

\* ------------------------------------------------------------- brand scores --

LEMMA Quotients ==
  /\ \A a \in 20 .. 100, b \in 30 .. 95, c \in 60 .. 100 : a + b + c \in 0 .. 300
  /\ \A a \in Int : \A d \in 1 .. 14 : a \div d \in Int
  /\ \A a \in 0 .. 300 : a \div 3 \in 0 .. 100
<1>1. ASSUME NEW a \in Int, NEW d \in 1 .. 14 PROVE a \div d \in Int
  OBVIOUS
<1>2. ASSUME NEW a \in 0 .. 300 PROVE a \div 3 \in 0 .. 100
  OBVIOUS
<1>3. ASSUME NEW a \in 20 .. 100, NEW b \in 30 .. 95, NEW c \in 60 .. 100 PROVE a + b + c \in 0 .. 300
  OBVIOUS
<1>4. QED
  BY <1>1, <1>2, <1>3

LEMMA BrandScoreBounds ==
  ASSUME NEW key \in Seq(STRING), Len(key) \in 3 .. 15
  PROVE  BrandScore(key) \in 0 .. 100
<1>1. Pronounceability(key) \in 20 .. 100
  <2> DEFINE turns == {i \in 1 .. Len(key) - 1 : (key[i] \in Vowels) # (key[i + 1] \in Vowels)}
             smooth == IF key[Len(key)] \in {"a", "o", "e", "x"} THEN 10 ELSE 0
             share == (100 * Cardinality(turns)) \div (Len(key) - 1)
  <2>1. Cardinality(turns) \in Nat
    <3>1. IsFiniteSet(1 .. Len(key) - 1)
      BY FS_Interval
    <3>2. QED
      BY <3>1, FS_Subset, FS_CardinalityType
  <2>2. share \in Int
    <3> HIDE DEF turns
    <3>1. 100 * Cardinality(turns) \in Int /\ Len(key) - 1 \in 1 .. 14
      BY <2>1
    <3>2. QED
      BY <3>1, Quotients
  <2>3. smooth \in Int
    OBVIOUS
  <2>4. Pronounceability(key) =
          IF share + smooth > 100 THEN 100 ELSE IF share + smooth < 20 THEN 20 ELSE share + smooth
    BY DEF Pronounceability
  <2> HIDE DEF share, smooth
  <2>5. QED
    BY <2>2, <2>3, <2>4
<1>2. Memorability(key) \in 30 .. 95
  BY DEF Memorability
<1>3. StartupFeel(key) \in 60 .. 100
  <2> DEFINE suffix == IF \E w \in Suffixes : HasSuffix(key, w) THEN 25 ELSE 0
             prefix == IF \E w \in Prefixes : HasPrefix(key, w) THEN 15 ELSE 0
  <2>1. StartupFeel(key) = 60 + suffix + prefix
    BY DEF StartupFeel
  <2>2. suffix \in 0 .. 25 /\ prefix \in 0 .. 15
    OBVIOUS
  <2> HIDE DEF suffix, prefix
  <2>3. QED
    BY <2>1, <2>2
<1>4. Pronounceability(key) + Memorability(key) + StartupFeel(key) \in 0 .. 300
  BY <1>1, <1>2, <1>3, Quotients
<1> DEFINE sum == Pronounceability(key) + Memorability(key) + StartupFeel(key)
<1>5. BrandScore(key) = sum \div 3
  BY DEF BrandScore
<1> HIDE DEF sum
<1>6. sum \div 3 \in 0 .. 100
  BY <1>4, Quotients DEF sum
<1>7. QED
  BY <1>5, <1>6

\* What a merge of drafts brings: fit names, each spelling once.
LEMMA MergeFacts ==
  ASSUME NEW list \in Seq(Draft)
  PROVE  /\ IsFiniteSet(Merge(list))
         /\ Merge(list) \subseteq Name
         /\ \A n \in Merge(list) : \A w \in avoid : ~Contains(n.key, w)
         /\ \A n, m \in Merge(list) : n.key = m.key => n = m
<1> DEFINE P == {k \in DOMAIN list : FirstOfItsKind(list, k) /\ IsValid(list[k].key, avoid)}
           F(i) == [key |-> list[i].key, title |-> list[i].title,
                    score |-> BrandScore(list[i].key), id |-> Unsaved]
<1>1. Merge(list) = {F(i) : i \in P}
  BY DEF Merge
<1>2. P \subseteq 1 .. Len(list) /\ \A i \in P : list[i] \in Draft
  OBVIOUS
<1>3. \A i \in P : FirstOfItsKind(list, i) /\ IsValid(list[i].key, avoid)
  OBVIOUS
<1> HIDE DEF P
<1>4. IsFiniteSet(Merge(list))
  <2>1. IsFiniteSet(P)
    <3>1. IsFiniteSet(1 .. Len(list))
      BY FS_Interval
    <3>2. QED
      BY <1>2, <3>1, FS_Subset
  <2> DEFINE f == [i \in P |-> F(i)]
  <2>2. f \in Surjection(P, Merge(list))
    <3>1. f \in [P -> Merge(list)]
      BY <1>1
    <3>2. \A n \in Merge(list) : \E i \in P : f[i] = n
      BY <1>1
    <3>3. QED
      BY <3>1, <3>2 DEF Surjection
  <2> HIDE DEF f
  <2>3. QED
    BY <2>1, <2>2, FS_Surjection
<1>5. \A i \in P : F(i) \in Name /\ \A w \in avoid : ~Contains(F(i).key, w)
  <2> TAKE i \in P
  <2>1. list[i].key \in Seq(STRING) /\ list[i].title \in BOOLEAN
    BY <1>2 DEF Draft
  <2>2. Len(list[i].key) \in 3 .. 15 /\ \A w \in avoid : ~Contains(list[i].key, w)
    BY <1>3 DEF IsValid
  <2>3. BrandScore(list[i].key) \in 0 .. 100
    BY <2>1, <2>2, BrandScoreBounds
  <2>4. QED
    BY <2>1, <2>2, <2>3 DEF Name, Unsaved
<1>6. \A i, k \in P : list[i].key = list[k].key => i = k
  <2> SUFFICES ASSUME NEW i \in P, NEW k \in P, i < k, list[i].key = list[k].key PROVE FALSE
    BY <1>2
  <2>1. i \in 1 .. k - 1
    BY <1>2
  <2>2. QED
    BY <1>3, <2>1 DEF FirstOfItsKind
<1>7. QED
  BY <1>1, <1>4, <1>5, <1>6

\* ---------------------------------------------------------- ranking scores --

Clamped(n) == IF n > 100 THEN 100 ELSE IF n < 1 THEN 1 ELSE n

LEMMA Scores ==
  /\ \A a \in 0 .. 100, b, c \in 0 .. 15, l \in -10 .. 10, p \in -25 .. 10 :
       /\ a + b + l + (10 + p) \in Int
       /\ a + c + l + (-45) \in Int
       /\ a + c + l + (-45) <= a + b + l + (10 + p)
  /\ \A n, m \in Int : n <= m =>
       Clamped(n) \in 1 .. 100 /\ Clamped(m) \in 1 .. 100 /\ Clamped(n) <= Clamped(m)
<1>1. ASSUME NEW a \in 0 .. 100, NEW b \in 0 .. 15, NEW c \in 0 .. 15,
             NEW l \in -10 .. 10, NEW p \in -25 .. 10
      PROVE  /\ a + b + l + (10 + p) \in Int
             /\ a + c + l + (-45) \in Int
             /\ a + c + l + (-45) <= a + b + l + (10 + p)
  OBVIOUS
<1>2. ASSUME NEW n \in Int, NEW m \in Int, n <= m
      PROVE  Clamped(n) \in 1 .. 100 /\ Clamped(m) \in 1 .. 100 /\ Clamped(n) <= Clamped(m)
  BY <1>2 DEF Clamped
<1>3. QED
  BY <1>1, <1>2

\* Scores are in range, and of two domains of one name, with its brand score and
\* its length, the taken one scores no higher.
LEMMA ScoreFacts ==
  ASSUME NEW brand \in 0 .. 100, NEW length,
         NEW tld1, NEW free1 \in BOOLEAN, NEW price1, NEW tld2, NEW free2 \in BOOLEAN, NEW price2
  PROVE  /\ CalculateScore(brand, tld1, free1, price1, length) \in 1 .. 100
         /\ free1 /\ ~free2 =>
              CalculateScore(brand, tld2, free2, price2, length)
                <= CalculateScore(brand, tld1, free1, price1, length)
<1>1. TldBoost(tld1) \in 0 .. 15 /\ TldBoost(tld2) \in 0 .. 15
  BY DEF TldBoost
<1>2. LengthBonus(length) \in -10 .. 10
  BY DEF LengthBonus
<1>3. PriceBonus(price1) \in -25 .. 10 /\ PriceBonus(price2) \in -25 .. 10
  BY DEF PriceBonus
<1> DEFINE Free(tld, price) == brand + TldBoost(tld) + LengthBonus(length) + (10 + PriceBonus(price))
           Taken(tld) == brand + TldBoost(tld) + LengthBonus(length) + (-45)
<1>4. /\ Free(tld1, price1) \in Int /\ Taken(tld1) \in Int /\ Taken(tld2) \in Int
      /\ Taken(tld2) <= Free(tld1, price1)
  BY <1>1, <1>2, <1>3, Scores
<1>5. /\ CalculateScore(brand, tld1, free1, price1, length) =
           Clamped(IF free1 THEN Free(tld1, price1) ELSE Taken(tld1))
      /\ CalculateScore(brand, tld2, free2, price2, length) =
           Clamped(IF free2 THEN Free(tld2, price2) ELSE Taken(tld2))
  BY DEF CalculateScore, Clamped
<1> HIDE DEF Free, Taken
<1>6. CASE free1
  BY <1>4, <1>5, <1>6, Scores
<1>7. CASE ~free1
  <2>1. Clamped(Taken(tld1)) \in 1 .. 100
    BY <1>4 DEF Clamped
  <2>2. QED
    BY <1>5, <1>7, <2>1
<1>8. QED
  BY <1>6, <1>7

\* A name that does not contain a word differs from it wherever it is laid on.
LEMMA NotContained ==
  ASSUME NEW key \in Seq(STRING), NEW w \in Seq(STRING) \ {<< >>}, ~Contains(key, w),
         NEW j \in 0 .. Len(key) - Len(w)
  PROVE  \E n \in DOMAIN w : key[j + n] # w[n]
<1> SUFFICES ASSUME \A n \in DOMAIN w : key[j + n] = w[n] PROVE FALSE
  OBVIOUS
<1>1. Len(w) \in Nat \ {0} /\ Len(key) \in Nat
  BY EmptySeq, LenProperties
<1>2. DOMAIN w = 1 .. Len(w)
  BY LenProperties
<1>3. /\ j \in Nat /\ j + Len(w) <= Len(key) /\ j + 1 \in 1 .. Len(key)
      /\ (j + 1) + Len(w) - 1 = j + Len(w)
  BY <1>1
<1> DEFINE part == SubSeq(key, j + 1, j + Len(w))
<1>4. part = w
  <2>1. \A i \in j + 1 .. j + Len(w) : key[i] \in STRING
    <3>1. \A i \in 1 .. Len(key) : key[i] \in STRING
      BY ElementOfSeq
    <3>2. QED
      BY <1>1, <1>2, <1>3, <3>1
  <2>2. /\ part \in Seq(STRING)
        /\ Len(part) = Len(w)
        /\ \A n \in 1 .. Len(w) : part[n] = key[j + n]
    <3>1. /\ part \in Seq(STRING)
          /\ Len(part) = IF j + 1 <= j + Len(w) THEN j + Len(w) - (j + 1) + 1 ELSE 0
          /\ \A n \in 1 .. j + Len(w) - (j + 1) + 1 : part[n] = key[j + 1 + n - 1]
      BY <1>1, <1>2, <1>3, <2>1, SubSeqProperties
    <3> HIDE DEF part
    <3>2. QED
      BY <1>1, <1>2, <1>3, <3>1
  <2>3. \A n \in 1 .. Len(part) : part[n] = w[n]
    BY <1>1, <2>2
  <2> HIDE DEF part
  <2>4. QED
    BY <2>2, <2>3, SeqEqual
<1>5. StandsAt(w, key, j + 1)
  BY <1>3, <1>4 DEF StandsAt
<1>6. QED
  BY <1>3, <1>5 DEF Contains

\* ------------------------------------------------------------------ prices --

LEMMA LeastNatural ==
  ASSUME NEW T, T \subseteq Nat, T # {}
  PROVE  \E x \in T : \A y \in T : x <= y
<1> DEFINE R == OpToRel(<, Nat)
<1>1. \A x, y \in Nat : <<x, y>> \in R <=> x < y
  BY DEF OpToRel
<1>2. IsWellFoundedOn(R, Nat)
  BY NatLessThanWellFounded, Zenon
<1> HIDE DEF R
<1>3. PICK x \in T : \A y \in T : ~(<<y, x>> \in R)
  BY <1>2, WFMin
<1>4. \A y \in T : ~(y < x)
  BY <1>1, <1>3
<1>5. QED
  BY <1>4

\* An offer with a price of its own, without hosting.
Priced(offers) == {i \in DOMAIN offers : offers[i].price > 0 /\ ~offers[i].bundled}

\* The offer that Cheapest picks is of the lowest of these prices, in the pool's
\* conversion.
LEMMA CheapestFacts ==
  ASSUME NEW offers \in Seq(Plans), Priced(offers) # {}
  PROVE  /\ Cheapest(offers) \in Priced(offers)
         /\ \A k \in Priced(offers) :
              InRupees(offers[Cheapest(offers)]) <= InRupees(offers[k])
<1> DEFINE standalone == {i \in DOMAIN offers : offers[i].price > 0 /\ ~offers[i].bundled}
           amount(i) == InRupees(offers[i])
           P(i) == \A k \in standalone : amount(i) < amount(k) \/ (amount(i) = amount(k) /\ i <= k)
<1>1. standalone \subseteq Nat /\ standalone # {}
  BY DEF Priced
<1>2. \A i \in standalone : amount(i) \in Nat
  <2> TAKE i \in standalone
  <2>1. offers[i] \in Plans /\ offers[i].price > 0
    OBVIOUS
  <2>2. offers[i].price \in Nat
    BY <2>1 DEF Plans
  <2>3. QED
    BY <2>2 DEF InRupees
<1>3. Cheapest(offers) = CHOOSE i \in standalone : P(i)
  BY <1>1 DEF Cheapest
<1> HIDE DEF standalone, amount
<1>4. PICK m \in {amount(i) : i \in standalone} : \A n \in {amount(i) : i \in standalone} : m <= n
  <2>1. {amount(i) : i \in standalone} \subseteq Nat /\ {amount(i) : i \in standalone} # {}
    BY <1>1, <1>2
  <2>2. QED
    BY <2>1, LeastNatural
<1>5. PICK c \in {i \in standalone : amount(i) = m} : \A k \in {i \in standalone : amount(i) = m} : c <= k
  <2>1. {i \in standalone : amount(i) = m} \subseteq Nat /\ {i \in standalone : amount(i) = m} # {}
    BY <1>1, <1>4
  <2>2. QED
    BY <2>1, LeastNatural
<1>6. c \in standalone /\ P(c)
  <2>1. c \in standalone /\ amount(c) = m
    BY <1>5
  <2>2. ASSUME NEW k \in standalone PROVE amount(c) < amount(k) \/ (amount(c) = amount(k) /\ c <= k)
    <3>1. m <= amount(k) /\ m \in Nat /\ amount(k) \in Nat
      BY <1>2, <1>4
    <3>2. CASE amount(k) = m
      BY <1>5, <2>1, <3>2
    <3>3. CASE amount(k) # m
      BY <2>1, <3>1, <3>3
    <3>4. QED
      BY <3>2, <3>3
  <2>3. QED
    BY <2>1, <2>2
<1>7. Cheapest(offers) \in standalone /\ P(Cheapest(offers))
  <2>1. \E i \in standalone : P(i)
    BY <1>6
  <2> HIDE DEF P
  <2>2. QED
    BY <1>3, <2>1
<1>8. \A k \in standalone : amount(Cheapest(offers)) <= amount(k)
  BY <1>2, <1>7
<1>9. QED
  BY <1>7, <1>8 DEF standalone, amount, Priced

\* What is shown is, as a number, what the pool has compared.
LEMMA ShownFacts ==
  ASSUME NEW offer \in Plans
  PROVE  /\ Shown(offer).price = InRupees(offer)
         /\ Shown(offer).bundled = offer.bundled
         /\ Shown(offer).price > 0 <=> offer.price > 0
<1>1. offer.price \in Int
  BY DEF Plans
<1>2. CASE offer.currency = "USD"
  BY <1>1, <1>2 DEF Shown, InRupees, Plans
<1>3. CASE offer.currency # "USD"
  BY <1>1, <1>3 DEF Shown, InRupees, Plans
<1>4. QED
  BY <1>2, <1>3

LEMMA PlanFacts ==
  ASSUME NEW price \in Int, NEW currency \in Currencies
  PROVE  Plan(price, currency) \in Plans
BY DEF Plan, Plans

LEMMA ThreeOffered ==
  ASSUME NEW plan1 \in Plans, NEW plan2 \in Plans, NEW plan3 \in Plans
  PROVE  Offered(<<plan1, plan2, plan3>>)
BY DEF Offered

\* Prices are rounded to whole hundredths.
LEMMA Parts ==
  \A a \in Int : /\ a \div 2 \in Int /\ a \div 4 \in Int /\ a \div 5 \in Int /\ a \div 10 \in Int
                 /\ a * 5 \in Int /\ a * 3 \in Int /\ a * 6 \in Int /\ a * 7 \in Int
                 /\ a * 13 \in Int
OBVIOUS

LEMMA LivePriceFacts ==
  ASSUME NEW page \in Pages, NEW tld
  PROVE  page.old \in Int /\ LivePrice(page, tld) \in Int
<1>1. page.price \in Int /\ page.old \in Int
  BY DEF Pages, NoPage
<1>2. page.old + page.price \in Int
  BY <1>1
<1> DEFINE mean == (page.old + page.price) \div 2
<1>3. mean \in Int
  BY <1>2, Parts
<1> HIDE DEF mean
<1>4. LivePrice(page, tld) \in {mean, page.price, Hundred(749), Hundred(399), Hundred(3199)}
  BY DEF LivePrice, mean
<1>5. Hundred(749) \in Int /\ Hundred(399) \in Int /\ Hundred(3199) \in Int
  BY DEF Hundred
<1>6. QED
  BY <1>1, <1>3, <1>4, <1>5

LEMMA HostingerOffers ==
  ASSUME NEW page \in Pages, NEW tld, NEW variation \in HostingerSpread
  PROVE  Offered(HostingerPlans(page, tld, variation))
<1>1. FreeWithHosting \in Plans /\ "INR" \in Currencies
  BY DEF FreeWithHosting, Plans, Currencies
<1>2. CASE Scraped(page, tld)
  <2> DEFINE standalone == LivePrice(page, tld)
             average == IF page.old > 0 THEN (standalone + page.old) \div 2 ELSE (standalone * 6) \div 5
  <2>1. standalone \in Int /\ page.old \in Int
    BY LivePriceFacts
  <2> HIDE DEF standalone
  <2>2. average \in Int
    <3>1. standalone + page.old \in Int /\ standalone * 6 \in Int
      BY <2>1
    <3>2. (standalone + page.old) \div 2 \in Int /\ (standalone * 6) \div 5 \in Int
      BY <3>1, Parts
    <3>3. QED
      BY <3>2
  <2> HIDE DEF average
  <2>3. Offered(<<Plan(standalone, "INR"), Plan(average, "INR"), FreeWithHosting>>)
    BY <1>1, <2>1, <2>2, PlanFacts, ThreeOffered
  <2>4. QED
    BY <1>2, <2>3 DEF HostingerPlans, HostingerLive, standalone, average
<1>3. CASE ~Scraped(page, tld)
  <2> DEFINE price == HostingerBase(tld) + variation
  <2>1. price \in Int
    <3>1. HostingerBase(tld) \in Int
      BY DEF HostingerBase, Hundred
    <3>2. QED
      BY <3>1 DEF HostingerSpread
  <2> HIDE DEF price
  <2>2. (price * 5) \div 4 \in Int
    <3>1. price * 5 \in Int
      BY <2>1
    <3>2. QED
      BY <3>1, Parts
  <2>3. Offered(<<Plan(price, "INR"), Plan((price * 5) \div 4, "INR"), FreeWithHosting>>)
    BY <1>1, <2>1, <2>2, PlanFacts, ThreeOffered
  <2>4. QED
    BY <1>3, <2>3 DEF HostingerPlans, HostingerMock, price
<1>4. QED
  BY <1>2, <1>3

LEMMA ThreePlansOffered ==
  ASSUME NEW rates \in [promo : Int, renewal : Int, standalone : Int],
         NEW email \in Int, NEW currency \in Currencies
  PROVE  Offered(ThreePlans(rates, email, currency))
<1> DEFINE average == (rates.promo + rates.renewal) \div 2
           mail == rates.promo + email
<1>1. rates.standalone \in Int /\ rates.promo + rates.renewal \in Int /\ mail \in Int
  OBVIOUS
<1>2. average \in Int
  BY <1>1, Parts
<1>3. ThreePlans(rates, email, currency) =
        <<Plan(rates.standalone, currency), Plan(average, currency), Plan(mail, currency)>>
  BY DEF ThreePlans
<1> HIDE DEF average, mail
<1>4. QED
  BY <1>1, <1>2, <1>3, PlanFacts, ThreeOffered

LEMMA ContextFacts ==
  ASSUME NEW tld, NEW price \in Int
  PROVE  PricingContext(tld, price) \in [promo : Int, renewal : Int, standalone : Int]
<1> DEFINE base == IF price <= 0 THEN Hundred(999) ELSE price
<1>1. base \in Int
  BY DEF Hundred
<1>2. PricingContext(tld, price) =
        CASE tld = ".com" -> Rates(Hundred(499), Hundred(1399), Hundred(1199))
          [] tld = ".in" -> Rates(Hundred(399), Hundred(699), Hundred(699))
          [] tld = ".net" -> Rates(Hundred(799), Hundred(1599), Hundred(1399))
          [] tld = ".org" -> Rates(Hundred(799), Hundred(1399), Hundred(1299))
          [] tld = ".ai" -> Rates(Hundred(5999), Hundred(5999), Hundred(5999))
          [] tld = ".io" -> Rates(Hundred(3799), Hundred(3799), Hundred(3799))
          [] OTHER -> Rates(base, (base * 3) \div 2, (base * 13) \div 10)
  BY DEF PricingContext
<1> HIDE DEF base
<1>3. (base * 3) \div 2 \in Int /\ (base * 13) \div 10 \in Int
  <2>1. base * 3 \in Int /\ base * 13 \in Int
    BY <1>1
  <2>2. QED
    BY <2>1, Parts
<1> DEFINE half == (base * 3) \div 2
           more == (base * 13) \div 10
<1> HIDE DEF half, more
<1>4. Rates(base, half, more) \in [promo : Int, renewal : Int, standalone : Int]
  BY <1>1, <1>3 DEF Rates, half, more
<1>5. QED
  BY <1>2, <1>4 DEF Rates, Hundred, half, more

LEMMA GoDaddyOffers ==
  /\ \A page \in Pages : \A tld : Offered(GoDaddyKeyless(page, tld))
  /\ \A price \in Nat : \A currency \in Currencies : \A tld : Offered(GoDaddyQuoted(price, currency, tld))
<1>1. ASSUME NEW page \in Pages, NEW tld PROVE Offered(GoDaddyKeyless(page, tld))
  <2> DEFINE price == IF Scraped(page, tld) THEN LivePrice(page, tld) ELSE 0
  <2>1. price \in Int
    BY LivePriceFacts
  <2> HIDE DEF price
  <2>2. Offered(ThreePlans(PricingContext(tld, price), Hundred(348), "INR"))
    <3>1. "INR" \in Currencies /\ Hundred(348) \in Int
      BY DEF Currencies, Hundred
    <3>2. QED
      BY <2>1, <3>1, ContextFacts, ThreePlansOffered
  <2>3. QED
    BY <2>2 DEF GoDaddyKeyless, price
<1>2. ASSUME NEW price \in Nat, NEW currency \in Currencies, NEW tld
      PROVE  Offered(GoDaddyQuoted(price, currency, tld))
  <2>1. CASE price = 0
    <3>1. (1299 * 7) \div 10 \in Int /\ (1299 * 3) \div 2 \in Int
      OBVIOUS
    <3>2. Rates((1299 * 7) \div 10, (1299 * 3) \div 2, 1299) \in [promo : Int, renewal : Int, standalone : Int]
      BY <3>1 DEF Rates
    <3>3. QED
      BY <2>1, <3>2, ThreePlansOffered DEF GoDaddyQuoted, Hundred, Currencies
  <2>2. CASE price # 0 /\ currency = "INR"
    BY <2>2, ContextFacts, ThreePlansOffered DEF GoDaddyQuoted, Hundred
  <2>3. CASE price # 0 /\ currency # "INR"
    <3>1. price * 7 \in Int /\ price * 3 \in Int
      OBVIOUS
    <3>2. (price * 7) \div 10 \in Int /\ (price * 3) \div 2 \in Int
      BY <3>1, Parts
    <3>3. Rates((price * 7) \div 10, (price * 3) \div 2, price) \in [promo : Int, renewal : Int, standalone : Int]
      BY <3>2 DEF Rates
    <3>4. QED
      BY <2>3, <3>3, ThreePlansOffered DEF GoDaddyQuoted, Hundred
  <2>4. QED
    BY <2>1, <2>2, <2>3
<1>3. QED
  BY <1>1, <1>2

LEMMA MockOffers ==
  ASSUME NEW mock \in {MockGoDaddy, MockHostinger}, NEW tld, NEW variation \in MockSpread
  PROVE  Offered(MockPlans(mock, tld, variation))
<1> DEFINE price == Hundred(MockBase(mock, tld)) + variation
<1>1. price \in Int
  <2>1. MockBase(mock, tld) \in Int
    BY DEF MockBase, MockGoDaddy, MockHostinger
  <2>2. QED
    BY <2>1 DEF Hundred, MockSpread
<1> HIDE DEF price
<1>2. (price * 5) \div 4 \in Int /\ (price * 3) \div 2 \in Int
  <2>1. price * 5 \in Int /\ price * 3 \in Int
    BY <1>1
  <2>2. QED
    BY <2>1, Parts
<1>3. Offered(<<Plan(price, "INR"), Plan((price * 5) \div 4, "INR"), Plan((price * 3) \div 2, "INR")>>)
  <2>1. "INR" \in Currencies
    BY DEF Currencies
  <2>2. QED
    BY <1>1, <1>2, <2>1, PlanFacts, ThreeOffered
<1>4. QED
  BY <1>3 DEF MockPlans, price

\* Whatever a provider that is wired has met, it offers plans.
LEMMA PlansOffered ==
  ASSUME NEW source \in Sources, NEW tld
  PROVE  Offered(PlansOf(source, tld))
<1>1. CASE source \in [of : {"GoDaddy keyless"}, page : Pages]
  <2>1. source.of = "GoDaddy keyless" /\ source.page \in Pages
    BY <1>1
  <2>2. QED
    BY <2>1, GoDaddyOffers DEF PlansOf
<1>2. CASE source \in [of : {"GoDaddy"}, price : Nat, currency : Currencies]
  <2>1. source.of = "GoDaddy" /\ source.price \in Nat /\ source.currency \in Currencies
    BY <1>2
  <2>2. QED
    BY <2>1, GoDaddyOffers DEF PlansOf
<1>3. CASE source \in [of : {"Hostinger"}, page : Pages, variation : HostingerSpread]
  <2>1. source.of = "Hostinger" /\ source.page \in Pages /\ source.variation \in HostingerSpread
    BY <1>3
  <2>2. QED
    BY <2>1, HostingerOffers DEF PlansOf
<1>4. CASE source \in [of : {"mock GoDaddy", "mock Hostinger"}, variation : MockSpread]
  <2>1. source.of \in {"mock GoDaddy", "mock Hostinger"} /\ source.variation \in MockSpread
    BY <1>4
  <2>2. \A mock \in {MockGoDaddy, MockHostinger} : Offered(MockPlans(mock, tld, source.variation))
    BY <2>1, MockOffers
  <2>3. QED
    BY <2>1, <2>2 DEF PlansOf
<1>5. QED
  BY <1>1, <1>2, <1>3, <1>4 DEF Sources

\* So an available domain always has offers, if only the standard one.
LEMMA OffersOffered ==
  ASSUME NEW scan \in Scans, NEW tld
  PROVE  Offered(Offers(scan, tld))
<1>1. /\ scan \in Seq(Sources) /\ Len(scan) <= 2 /\ Len(scan) \in Nat
      /\ \A i \in 1 .. Len(scan) : scan[i] \in Sources
  BY DEF Scans
<1>2. CASE Len(scan) = 0
  <2>1. scan = << >>
    BY <1>1, <1>2
  <2>2. Plan(1200, "USD") \in Plans
    <3>1. "USD" \in Currencies
      BY DEF Currencies
    <3>2. QED
      BY <3>1, PlanFacts
  <2>3. Offers(scan, tld) = <<Plan(1200, "USD")>>
    BY <2>1 DEF Offers, Standard, Hundred
  <2> DEFINE plan == Plan(1200, "USD")
  <2> HIDE DEF plan
  <2>4. Offered(<<plan>>)
    BY <2>2 DEF Offered, plan
  <2>5. QED
    BY <2>3, <2>4 DEF plan
<1>3. CASE Len(scan) = 1
  <2>1. scan # << >> /\ scan[1] \in Sources
    BY <1>1, <1>3
  <2>2. Offers(scan, tld) = PlansOf(scan[1], tld)
    BY <1>3, <2>1 DEF Offers
  <2>3. QED
    BY <2>1, <2>2, PlansOffered
<1>4. CASE Len(scan) = 2
  <2>1. scan # << >> /\ scan[1] \in Sources /\ scan[2] \in Sources
    <3>1. 1 \in 1 .. Len(scan) /\ 2 \in 1 .. Len(scan)
      BY <1>4
    <3>2. scan[1] \in Sources /\ scan[2] \in Sources
      BY <1>1, <3>1
    <3>3. scan # << >>
      BY <1>4
    <3>4. QED
      BY <3>2, <3>3
  <2>2. Offers(scan, tld) = PlansOf(scan[1], tld) \o PlansOf(scan[2], tld)
    BY <1>4, <2>1 DEF Offers
  <2> DEFINE first == PlansOf(scan[1], tld)
             second == PlansOf(scan[2], tld)
  <2>3. Offered(first) /\ Offered(second)
    BY <2>1, PlansOffered
  <2> HIDE DEF first, second
  <2>4. first \in Seq(Plans) /\ second \in Seq(Plans) /\ Len(first) >= 1
    BY <2>3 DEF Offered
  <2>5. first \o second \in Seq(Plans) /\ 1 \in DOMAIN (first \o second)
    BY <2>4, Appended
  <2>6. QED
    BY <2>2, <2>5 DEF Offered, first, second
<1>5. Len(scan) \in {0, 1, 2}
  <2> DEFINE n == Len(scan)
  <2>1. n \in Nat /\ n <= 2
    BY <1>1
  <2> HIDE DEF n
  <2>2. n \in {0, 1, 2}
    BY <2>1
  <2>3. QED
    BY <2>2 DEF n
<1>6. QED
  BY <1>2, <1>3, <1>4, <1>5

\* ----------------------------------------------------------- initial states --

LEMMA InitIndInv == Init => IndInv
<1> SUFFICES ASSUME Init PROVE IndInv
  OBVIOUS
<1>1. tlds \in Seq(DOMAIN Clean \cup CleanTLDs)
  <2>1. tlds \in Seq(DOMAIN Clean)
    BY CleanAssumption DEF Init
  <2>2. QED
    BY <2>1, SeqMonotonic
<1>2. names = << >> /\ jobs = << >> /\ items = << >> /\ results = {} /\ logged = {} /\ saving = 1
  BY DEF Init
<1>3. TypeOK
  <2>1. /\ pc = "validate" /\ status = 0 /\ ctx = "live" /\ hasDB \in BOOLEAN
        /\ wiring \in Wirings /\ avoid \in AvoidSets /\ pending = Engines /\ searchID = Unsaved
        /\ tlds \in Seq(DOMAIN Clean)
    BY CleanAssumption DEF Init
  <2>2. drafts \in [Engines -> Texts \cup Locals \cup {<< >>}]
    BY DEF Init
  <2>3. /\ names \in Seq([key : Seq(STRING), title : BOOLEAN, score : 0 .. 100, id : Nat])
        /\ Len(names) <= TopNames
        /\ jobs \in Seq([key : Seq(STRING), tld : DOMAIN Clean \cup CleanTLDs, nameID : Nat])
    BY <1>2, EmptySeq, LimitsAssumption
  <2>4. saving \in 1 .. TopNames + 1
    BY <1>2, LimitsAssumption
  <2>5. \A i \in DOMAIN items : items[i].score \in 1 .. 100
    BY <1>2
  <2>6. QED
    BY <1>1, <2>1, <2>2, <2>3, <2>4, <2>5 DEF TypeOK
<1>4. NothingEarly /\ NamesFit /\ JobsOfNames /\ ResultsOfJobs
  BY <1>2 DEF NothingEarly, NamesFit, JobsOfNames, ResultsOfJobs
<1>5. LoggedUnderOwnName /\ OneItemPerDomain /\ AvoidedNeverShown /\ TakenNeverOutranks
  BY <1>2 DEF LoggedUnderOwnName, OneItemPerDomain, AvoidedNeverShown, TakenNeverOutranks
<1>6. AvailableOffered /\ PriceIsLowest
  BY <1>2 DEF AvailableOffered, PriceIsLowest
<1>7. QED
  BY <1>3, <1>4, <1>5, <1>6 DEF IndInv

\* ------------------------------------------------------------------- steps --

\* The steps that touch nothing of what IndInv speaks of, beside the types.
LEMMA QuietSteps ==
  ASSUME IndInv, TypeOK',
         UNCHANGED <<tlds, avoid, names, saving, rows, jobs, results, items, logged>>,
         pc' \in {"validate", "search", "engines"} => pc \in {"validate", "search", "engines"}
  PROVE  IndInv'
<1>1. NothingEarly'
  BY DEF IndInv, NothingEarly
<1>2. NamesFit'
  BY DEF IndInv, NamesFit, Contains, StandsAt
<1>3. JobsOfNames' /\ ResultsOfJobs'
  BY DEF IndInv, JobsOfNames, ResultsOfJobs, Own, NoTLDTwice
<1>4. LoggedUnderOwnName' /\ OneItemPerDomain'
  BY DEF IndInv, LoggedUnderOwnName, OneItemPerDomain, Own, NoTLDTwice
<1>5. AvoidedNeverShown' /\ TakenNeverOutranks'
  BY DEF IndInv, AvoidedNeverShown, TakenNeverOutranks
<1>6. AvailableOffered' /\ PriceIsLowest'
  BY DEF IndInv, AvailableOffered, PriceIsLowest
<1>7. QED
  BY <1>1, <1>2, <1>3, <1>4, <1>5, <1>6 DEF IndInv

LEMMA AcceptStep == IndInv /\ Accept => IndInv'
<1> SUFFICES ASSUME IndInv, Accept PROVE IndInv'
  OBVIOUS
<1>1. /\ TypeOK
      /\ jobs = << >> /\ items = << >> /\ saving = 1
      /\ pc' = "search"
  BY DEF IndInv, NothingEarly, Accept
<1>2. UNCHANGED <<status, ctx, hasDB, wiring, avoid, drafts, pending, searchID, names, saving, rows, jobs,
                  results, items, logged>>
  BY DEF Accept
<1>3. tlds' \in Seq(DOMAIN Clean \cup CleanTLDs)
  <2>1. ".com" \in DOMAIN Clean \cup CleanTLDs
    BY DEF CleanTLDs
  <2>2. CASE tlds = << >>
    BY <2>1, <2>2 DEF Accept
  <2>3. CASE tlds # << >>
    <3>1. tlds' = [i \in DOMAIN tlds |-> Clean[tlds[i]]]
      BY <2>3 DEF Accept
    <3>2. tlds \in Seq(DOMAIN Clean)
      BY <1>1 DEF TypeOK, Accept
    <3>3. /\ Len(tlds) \in Nat
          /\ DOMAIN tlds = 1 .. Len(tlds)
          /\ \A i \in 1 .. Len(tlds) : tlds[i] \in DOMAIN Clean
      BY <3>2
    <3>4. \A i \in 1 .. Len(tlds) : Clean[tlds[i]] \in DOMAIN Clean \cup CleanTLDs
      BY <3>3 DEF CleanTLDs
    <3>5. QED
      BY <3>1, <3>3, <3>4
  <2>4. QED
    BY <2>2, <2>3
<1>4. TypeOK'
  BY <1>1, <1>2, <1>3 DEF TypeOK
<1>5. NamesFit' /\ ResultsOfJobs'
  BY <1>2 DEF IndInv, NamesFit, ResultsOfJobs, Contains, StandsAt
<1>6. NothingEarly' /\ JobsOfNames' /\ LoggedUnderOwnName'
  BY <1>1, <1>2 DEF IndInv, NothingEarly, JobsOfNames, LoggedUnderOwnName, Own
<1>7. OneItemPerDomain' /\ AvoidedNeverShown' /\ TakenNeverOutranks'
  BY <1>1, <1>2 DEF OneItemPerDomain, AvoidedNeverShown, TakenNeverOutranks
<1>8. AvailableOffered' /\ PriceIsLowest'
  BY <1>1, <1>2 DEF IndInv, AvailableOffered, PriceIsLowest
<1>9. QED
  BY <1>4, <1>5, <1>6, <1>7, <1>8 DEF IndInv

\* What a merge has to work on is a list of names.
LEMMA DraftsListed ==
  ASSUME TypeOK, NEW hybrid \in Locals
  PROVE  drafts.ai \o drafts.morph \o hybrid \in Seq(Draft)
<1>1. Texts \cup Locals \cup {<< >>} \subseteq Seq(Draft)
  BY ListsAssumption, EmptySeq DEF Draft
<1>2. drafts["ai"] \in Seq(Draft) /\ drafts["morph"] \in Seq(Draft)
  BY <1>1 DEF TypeOK, Engines
<1>3. hybrid \in Seq(Draft)
  BY <1>1
<1>4. drafts.ai \o drafts.morph \in Seq(Draft)
  BY <1>2, ConcatProperties
<1>5. QED
  BY <1>3, <1>4, ConcatProperties

LEMMA MergeStep == IndInv /\ MergeDrafts => IndInv'
<1> SUFFICES ASSUME IndInv, MergeDrafts PROVE IndInv'
  OBVIOUS
<1>1. TypeOK /\ pc = "engines"
  BY DEF IndInv, MergeDrafts
<1>2. /\ UNCHANGED <<ctx, hasDB, wiring, tlds, avoid, pending, searchID, saving, rows, jobs, results, items, logged>>
      /\ drafts' \in [Engines -> Texts \cup Locals \cup {<< >>}]
  BY DEF MergeDrafts
<1>3. PICK hybrid \in Locals :
        LET fit == Merge(drafts.ai \o drafts.morph \o hybrid)
        IN  IF fit = {}
            THEN Respond(500) /\ UNCHANGED names
            ELSE /\ \E s \in Sortings(fit) : names' = Best(s)
                 /\ pc' = "save"
                 /\ UNCHANGED status
  BY DEF MergeDrafts
<1> DEFINE fit == Merge(drafts.ai \o drafts.morph \o hybrid)
<1>4. /\ IsFiniteSet(fit)
      /\ fit \subseteq Name
      /\ \A n \in fit : \A w \in avoid : ~Contains(n.key, w)
      /\ \A n, m \in fit : n.key = m.key => n = m
  BY <1>1, DraftsListed, MergeFacts
<1>5. CASE fit = {}
  <2>1. pc' = "done" /\ status' = 500 /\ UNCHANGED names
    BY <1>3, <1>5 DEF Respond
  <2>2. TypeOK'
    BY <1>1, <1>2, <2>1 DEF TypeOK
  <2>3. QED
    BY <1>2, <2>1, <2>2, QuietSteps
<1>6. CASE fit # {}
  <2>1. PICK s \in Sortings(fit) : names' = Best(s)
    BY <1>3, <1>6
  <2>2. pc' = "save" /\ UNCHANGED status
    BY <1>3, <1>6
  <2> HIDE DEF fit
  <2>3. /\ names' \in Seq(fit)
        /\ Len(names') <= TopNames
        /\ \A i, k \in DOMAIN names' : names'[i] = names'[k] => i = k
    BY <1>4, <2>1, BestFacts
  <2>4. TypeOK'
    <3>1. names' \in Seq(Name)
      BY <1>4, <2>3, SeqMonotonic
    <3>2. QED
      BY <1>1, <1>2, <2>2, <2>3, <3>1 DEF TypeOK, Name
  <2>5. NamesFit'
    <3>1. \A i \in DOMAIN names' : names'[i] \in fit
      BY <2>3
    <3>2. \A i \in DOMAIN names' : \A w \in avoid' : ~Contains(names'[i].key, w)
      BY <1>2, <1>4, <3>1
    <3>3. \A i, k \in DOMAIN names' : names'[i].key = names'[k].key => i = k
      BY <1>4, <2>3, <3>1
    <3>4. QED
      BY <3>2, <3>3 DEF NamesFit
  <2>6. NothingEarly'
    BY <2>2 DEF NothingEarly
  <2>7. jobs = << >> /\ items = << >>
    BY <1>1 DEF IndInv, NothingEarly
  <2>8. JobsOfNames' /\ ResultsOfJobs' /\ LoggedUnderOwnName'
    BY <1>2, <2>7 DEF IndInv, JobsOfNames, ResultsOfJobs, LoggedUnderOwnName, Own
  <2>9. OneItemPerDomain' /\ AvoidedNeverShown' /\ TakenNeverOutranks'
    BY <1>2, <2>7 DEF OneItemPerDomain, AvoidedNeverShown, TakenNeverOutranks
  <2>10. AvailableOffered' /\ PriceIsLowest'
    BY <1>2, <2>7 DEF IndInv, AvailableOffered, PriceIsLowest
  <2>11. QED
    BY <2>4, <2>5, <2>6, <2>8, <2>9, <2>10 DEF IndInv
<1>7. QED
  BY <1>5, <1>6

LEMMA SaveNameStep == IndInv /\ SaveName => IndInv'
<1> SUFFICES ASSUME IndInv, SaveName PROVE IndInv'
  OBVIOUS
<1>1. TypeOK /\ NamesFit /\ JobsOfNames
  BY DEF IndInv
<1>2. /\ pc = "save" /\ saving <= Len(names) /\ saving' = saving + 1
      /\ UNCHANGED <<pc, status, ctx, hasDB, wiring, tlds, avoid, drafts, pending, searchID, results,
                     items, logged>>
  BY DEF SaveName
<1>3. /\ names \in Seq(Name) /\ Len(names) \in Nat /\ Len(names) <= TopNames
      /\ DOMAIN names = 1 .. Len(names)
      /\ saving \in 1 .. Len(names)
  BY <1>1, <1>2, LimitsAssumption DEF TypeOK, Name
<1>4. PICK id \in {Unsaved} \cup (IF searchID # Unsaved /\ ctx = "live" THEN {saving} ELSE {}) :
        /\ names' = [names EXCEPT ![saving].id = id]
        /\ rows' = IF id = Unsaved THEN rows ELSE rows \cup {[id |-> id, key |-> names[saving].key]}
        /\ jobs' = jobs \o JobsFor(names[saving], id)
  BY DEF SaveName
<1>5. id \in Nat
  BY <1>3 DEF Unsaved
<1>6. /\ names' \in Seq(Name) /\ Len(names') = Len(names)
      /\ DOMAIN names' = DOMAIN names
      /\ \A i \in DOMAIN names : names'[i].key = names[i].key
  <2> DEFINE n == [names[saving] EXCEPT !.id = id]
  <2>1. names[saving] \in Name
    BY <1>3
  <2>2. n \in Name /\ n.key = names[saving].key
    BY <1>5, <2>1 DEF Name
  <2>3. names' = [names EXCEPT ![saving] = n]
    BY <1>4
  <2> HIDE DEF n
  <2>4. QED
    BY <1>3, <2>2, <2>3
<1> DEFINE added == JobsFor(names[saving], id)
<1>7. /\ Len(tlds) \in Nat /\ DOMAIN tlds = 1 .. Len(tlds)
      /\ added \in Seq(Job)
      /\ Len(added) = Len(tlds)
      /\ \A n \in 1 .. Len(tlds) :
           added[n].key = names[saving].key /\ added[n].tld = tlds[n] /\ added[n].nameID = id
  <2>1. /\ Len(tlds) \in Nat /\ DOMAIN tlds = 1 .. Len(tlds)
        /\ \A n \in 1 .. Len(tlds) : tlds[n] \in DOMAIN Clean \cup CleanTLDs
    BY <1>1 DEF TypeOK
  <2>2. added = [n \in 1 .. Len(tlds) |-> [key |-> names[saving].key, tld |-> tlds[n], nameID |-> id]]
    BY <2>1 DEF JobsFor
  <2>3. names[saving] \in Name
    BY <1>3
  <2>4. names[saving].key \in Seq(STRING)
    BY <2>3 DEF Name
  <2>5. \A n \in 1 .. Len(tlds) : [key |-> names[saving].key, tld |-> tlds[n], nameID |-> id] \in Job
    BY <1>5, <2>1, <2>4 DEF Job
  <2> HIDE DEF added
  <2>6. QED
    BY <2>1, <2>2, <2>5
<1> HIDE DEF added
<1>8. jobs \in Seq(Job) /\ DOMAIN jobs = 1 .. Len(jobs) /\ Len(jobs) \in Nat
  BY <1>1 DEF TypeOK, Job
<1>9. /\ jobs' \in Seq(Job)
      /\ \A i \in DOMAIN jobs : i \in DOMAIN jobs' /\ jobs'[i] = jobs[i]
      /\ \A n \in 1 .. Len(tlds) : jobs'[Len(jobs) + n] = added[n]
      /\ \A i \in DOMAIN jobs' : i \in DOMAIN jobs \/ \E n \in 1 .. Len(tlds) : i = Len(jobs) + n
  <2>1. jobs' = jobs \o added
    BY <1>4 DEF added
  <2>2. QED
    BY <1>7, <1>8, <2>1, Appended
<1>10. \A i \in DOMAIN jobs' :
         \/ i \in DOMAIN jobs /\ jobs'[i] = jobs[i]
         \/ \E n \in 1 .. Len(tlds) :
              /\ i = Len(jobs) + n
              /\ jobs'[i].key = names[saving].key /\ jobs'[i].tld = tlds[n] /\ jobs'[i].nameID = id
  BY <1>7, <1>9
<1>11. TypeOK'
  <2>1. saving' \in 1 .. TopNames + 1
    BY <1>2, <1>3, LimitsAssumption
  <2>2. QED
    BY <1>1, <1>2, <1>3, <1>6, <1>9, <2>1 DEF TypeOK, Name, Job
<1>12. NothingEarly'
  BY <1>2 DEF NothingEarly
<1>13. NamesFit'
  BY <1>1, <1>2, <1>6 DEF NamesFit
<1>14. \A n, key : Own(n, key) => Own(n, key)'
  BY <1>4 DEF Own
<1>15. JobsOfNames'
  <2>1. \A i \in DOMAIN jobs : \E k \in DOMAIN names : k < saving /\ jobs[i].key = names[k].key
    BY <1>1 DEF JobsOfNames
  <2>2. /\ \A k \in DOMAIN names : k < saving => k < saving'
        /\ saving < saving'
    BY <1>2, <1>3
  <2>3. \A i \in DOMAIN jobs' : \E k \in DOMAIN names' : k < saving' /\ jobs'[i].key = names'[k].key
    <3> TAKE i \in DOMAIN jobs'
    <3>1. CASE i \in DOMAIN jobs /\ jobs'[i] = jobs[i]
      BY <1>6, <2>1, <2>2, <3>1
    <3>2. CASE jobs'[i].key = names[saving].key
      BY <1>3, <1>6, <2>2, <3>2
    <3>3. QED
      BY <1>10, <3>1, <3>2
  <2>4. \A i \in DOMAIN jobs' : Own(jobs[i].nameID, jobs[i].key)'
    <3> TAKE i \in DOMAIN jobs'
    <3>1. CASE i \in DOMAIN jobs /\ jobs'[i] = jobs[i]
      <4>1. Own(jobs[i].nameID, jobs[i].key)
        BY <1>1, <3>1 DEF JobsOfNames
      <4>2. jobs[i].nameID = Unsaved \/ \E row \in rows : row.id = jobs[i].nameID /\ row.key = jobs[i].key
        BY <4>1 DEF Own
      <4>3. rows \subseteq rows'
        BY <1>4
      <4>4. QED
        BY <3>1, <4>2, <4>3 DEF Own
    <3>2. CASE jobs'[i].key = names[saving].key /\ jobs'[i].nameID = id
      <4>1. id = Unsaved \/ [id |-> id, key |-> names[saving].key] \in rows'
        BY <1>4
      <4>2. QED
        BY <3>2, <4>1 DEF Own
    <3>3. QED
      BY <1>10, <3>1, <3>2
  <2>5. ASSUME NoTLDTwice, NEW i \in DOMAIN jobs', NEW k \in DOMAIN jobs',
               jobs'[i].key = jobs'[k].key, jobs'[i].tld = jobs'[k].tld
        PROVE  i = k
    <3>1. \A m \in DOMAIN jobs : jobs[m].key # names[saving].key
      <4>1. \A m \in DOMAIN names : m < saving => names[m].key # names[saving].key
        BY <1>1, <1>3 DEF NamesFit
      <4>2. QED
        BY <2>1, <4>1
    <3>2. CASE i \in DOMAIN jobs /\ jobs'[i] = jobs[i]
      <4>1. k \in DOMAIN jobs /\ jobs'[k] = jobs[k]
        BY <1>10, <2>5, <3>1, <3>2
      <4>2. QED
        BY <1>1, <2>5, <3>2, <4>1 DEF JobsOfNames
    <3>3. CASE i \notin DOMAIN jobs
      <4>1. PICK n \in 1 .. Len(tlds) :
              i = Len(jobs) + n /\ jobs'[i].key = names[saving].key /\ jobs'[i].tld = tlds[n]
        BY <1>10, <3>3
      <4>2. ~(k \in DOMAIN jobs /\ jobs'[k] = jobs[k])
        BY <2>5, <3>1, <4>1
      <4>3. PICK m \in 1 .. Len(tlds) : k = Len(jobs) + m /\ jobs'[k].tld = tlds[m]
        BY <1>10, <4>2
      <4>4. n = m
        BY <1>7, <2>5, <4>1, <4>3 DEF NoTLDTwice
      <4>5. QED
        BY <4>1, <4>3, <4>4
    <3>4. QED
      BY <1>9, <3>2, <3>3
  <2>6. NoTLDTwice' = NoTLDTwice
    BY <1>2 DEF NoTLDTwice
  <2>7. QED
    BY <2>3, <2>4, <2>5, <2>6 DEF JobsOfNames
<1>16. ResultsOfJobs'
  BY <1>2, <1>9 DEF IndInv, ResultsOfJobs
<1>17. LoggedUnderOwnName'
  BY <1>2, <1>14 DEF IndInv, LoggedUnderOwnName
<1>18. OneItemPerDomain' /\ AvoidedNeverShown' /\ TakenNeverOutranks'
  BY <1>2 DEF IndInv, OneItemPerDomain, NoTLDTwice, AvoidedNeverShown, TakenNeverOutranks
<1>19. AvailableOffered' /\ PriceIsLowest'
  BY <1>2 DEF IndInv, AvailableOffered, PriceIsLowest
<1>20. QED
  BY <1>11, <1>12, <1>13, <1>15, <1>16, <1>17, <1>18, <1>19 DEF IndInv

\* Whoever led the lookup, the result of a job carries the job's own name.
LEMMA RunChecksStep == IndInv /\ RunChecks => IndInv'
<1> SUFFICES ASSUME IndInv, RunChecks PROVE IndInv'
  OBVIOUS
<1>1. /\ pc' = "rank"
      /\ UNCHANGED <<status, ctx, hasDB, wiring, tlds, avoid, drafts, pending, searchID, names, saving,
                     rows, jobs, items, logged>>
  BY DEF RunChecks
<1>2. PICK found \in [DOMAIN jobs -> Findings] :
        results' = {[job |-> i, res |-> Reinject(Result(jobs[i], found[i]), jobs[i])] :
                      i \in {k \in DOMAIN jobs : found[k].kind # "lost"}}
  BY DEF RunChecks
<1>3. \A r \in results' : r.job \in DOMAIN jobs
        /\ r.res = Reinject(Result(jobs[r.job], found[r.job]), jobs[r.job])
        /\ r = [job |-> r.job, res |-> r.res]
  BY <1>2
<1>4. \A res : \A job : Reinject(Result(job, res), job).nameID = job.nameID
  BY DEF Reinject, Result
<1>5. ResultsOfJobs'
  <2>1. \A r \in results' : r.job \in DOMAIN jobs' /\ r.res.nameID = jobs'[r.job].nameID
    BY <1>1, <1>3, <1>4
  <2>2. \A r, q \in results' : r.job = q.job => r = q
    BY <1>3
  <2>3. QED
    BY <2>1, <2>2 DEF ResultsOfJobs
<1>6. TypeOK'
  BY <1>1 DEF IndInv, TypeOK
<1>7. NothingEarly' /\ NamesFit'
  BY <1>1 DEF IndInv, NothingEarly, NamesFit
<1>8. JobsOfNames' /\ LoggedUnderOwnName'
  BY <1>1 DEF IndInv, JobsOfNames, NoTLDTwice, LoggedUnderOwnName, Own
<1>9. OneItemPerDomain' /\ AvoidedNeverShown' /\ TakenNeverOutranks'
  BY <1>1 DEF IndInv, OneItemPerDomain, NoTLDTwice, AvoidedNeverShown, TakenNeverOutranks
<1>10. AvailableOffered'
  <2> SUFFICES ASSUME NEW r \in results', r.res.kind = "available" PROVE Offered(r.res.offers)
    BY DEF AvailableOffered
  <2>1. /\ r.job \in DOMAIN jobs
        /\ r.res = Reinject(Result(jobs[r.job], found[r.job]), jobs[r.job])
    BY <1>3
  <2> DEFINE finding == found[r.job]
  <2>2. finding \in Findings
    BY <2>1
  <2>3. \A res, job : Reinject(Result(job, res), job).kind = res.kind
                     /\ Reinject(Result(job, res), job).offers = Result(job, res).offers
    BY DEF Reinject, Result
  <2>4. finding.kind = "available" /\ r.res.offers = Result(jobs[r.job], finding).offers
    BY <2>1, <2>3
  <2> HIDE DEF finding
  <2>5. finding.scan \in wiring
    BY <2>2, <2>4 DEF Findings
  <2>6. finding.scan \in Scans
    BY <2>5, WiringsAssumption DEF IndInv, TypeOK
  <2>7. r.res.offers = Offers(finding.scan, jobs[r.job].tld)
    BY <2>4 DEF Result
  <2>8. QED
    BY <2>6, <2>7, OffersOffered
<1>11. PriceIsLowest'
  BY <1>1 DEF IndInv, PriceIsLowest
<1>12. QED
  BY <1>5, <1>6, <1>7, <1>8, <1>9, <1>10, <1>11 DEF IndInv

\* There are finitely many results, as each has a job of its own.
LEMMA FiniteResults ==
  ASSUME TypeOK, ResultsOfJobs
  PROVE  IsFiniteSet(results)
<1>1. IsFiniteSet(DOMAIN jobs)
  <2>1. DOMAIN jobs = 1 .. Len(jobs) /\ Len(jobs) \in Nat
    BY DEF TypeOK
  <2>2. QED
    BY <2>1, FS_Interval
<1> DEFINE f == [r \in results |-> r.job]
<1>2. f \in Injection(results, DOMAIN jobs)
  BY DEF ResultsOfJobs, Injection, IsInjective
<1> HIDE DEF f
<1>3. QED
  BY <1>1, <1>2, FS_Injection

\* A name's brand score is in range, and so is the default.
LEMMA BrandOfBounds ==
  ASSUME TypeOK, NEW key
  PROVE  BrandOf(key) \in 0 .. 100
<1>1. names \in Seq(Name)
  BY DEF TypeOK, Name
<1>2. \A i \in DOMAIN names : names[i].score \in 0 .. 100
  <2>1. \A i \in DOMAIN names : names[i] \in Name
    BY <1>1
  <2>2. QED
    BY <2>1 DEF Name
<1>3. QED
  BY <1>2 DEF BrandOf

LEMMA RankStep == IndInv /\ Rank => IndInv'
<1> SUFFICES ASSUME IndInv, Rank PROVE IndInv'
  OBVIOUS
<1>1. TypeOK /\ NamesFit /\ JobsOfNames /\ ResultsOfJobs
  BY DEF IndInv
<1>2. /\ pc' = "log" /\ results' = {}
      /\ UNCHANGED <<status, ctx, hasDB, wiring, tlds, avoid, drafts, pending, searchID, names, saving,
                     rows, jobs>>
  BY DEF Rank
<1> DEFINE ranked == {Item(r) : r \in Answered}
<1>3. PICK s \in Sortings(ranked) : items' = s
  BY DEF Rank
<1>4. \A r \in Answered : r \in results /\ r.job \in DOMAIN jobs /\ r.res.nameID = jobs[r.job].nameID
  BY <1>1 DEF Answered, ResultsOfJobs
<1>5. Cardinality(ranked) \in Nat
  <2>1. IsFiniteSet(Answered)
    <3>1. Answered \subseteq results
      BY DEF Answered
    <3>2. QED
      BY <1>1, <3>1, FiniteResults, FS_Subset
  <2> DEFINE f == [r \in Answered |-> Item(r)]
  <2>2. f \in Surjection(Answered, ranked)
    BY DEF Surjection
  <2> HIDE DEF f, ranked
  <2>3. QED
    BY <2>1, <2>2, FS_Surjection, FS_CardinalityType
<1>6. /\ DOMAIN items' = 1 .. Cardinality(ranked)
      /\ \A i \in DOMAIN items' : items'[i] \in ranked
      /\ \A i, k \in DOMAIN items' : i < k => items'[i] # items'[k] /\ items'[i].score >= items'[k].score
  <2> HIDE DEF ranked
  <2>1. /\ DOMAIN s = 1 .. Cardinality(ranked)
        /\ s \in [1 .. Cardinality(ranked) -> ranked]
        /\ \A i, k \in DOMAIN s : i < k => s[i] # s[k] /\ s[i].score >= s[k].score
    BY SortingFacts
  <2>2. QED
    BY <1>3, <2>1
<1>7. \A i \in DOMAIN items' : \E r \in Answered : items'[i] = Item(r)
  BY <1>6
<1> HIDE DEF ranked
<1>8. \A r \in Answered :
        /\ Item(r).job = r.job /\ Item(r).key = jobs[r.job].key /\ Item(r).tld = jobs[r.job].tld
        /\ Item(r).available \in BOOLEAN
        /\ \E price : Item(r).score = CalculateScore(BrandOf(Item(r).key), Item(r).tld,
                                                     Item(r).available, price, Len(Item(r).key))
  BY DEF Item
<1>9. \A i \in DOMAIN items' :
        /\ \E j \in DOMAIN jobs : items'[i].key = jobs[j].key
        /\ items'[i].available \in BOOLEAN
        /\ \E price : items'[i].score = CalculateScore(BrandOf(items'[i].key), items'[i].tld,
                                                       items'[i].available, price, Len(items'[i].key))
  BY <1>4, <1>7, <1>8
<1>10. \A i \in DOMAIN items' : items'[i].score \in 1 .. 100
  <2> TAKE i \in DOMAIN items'
  <2>1. BrandOf(items'[i].key) \in 0 .. 100
    BY <1>1, BrandOfBounds
  <2>2. \A price : CalculateScore(BrandOf(items'[i].key), items'[i].tld, items'[i].available, price,
                                  Len(items'[i].key)) \in 1 .. 100
    BY <1>9, <2>1, ScoreFacts
  <2>3. QED
    BY <1>9, <2>2
<1>11. TypeOK'
  BY <1>1, <1>2, <1>10 DEF TypeOK
<1>12. NothingEarly' /\ NamesFit' /\ ResultsOfJobs'
  BY <1>1, <1>2 DEF NothingEarly, NamesFit, ResultsOfJobs
<1>13. JobsOfNames'
  BY <1>1, <1>2 DEF JobsOfNames, NoTLDTwice, Own
<1>14. LoggedUnderOwnName'
  <2>1. logged' = {[nameID |-> r.res.nameID, key |-> jobs[r.job].key, job |-> r.job] : r \in Answered}
    BY DEF Rank
  <2>2. \A r \in Answered : Own(r.res.nameID, jobs[r.job].key)
    BY <1>1, <1>4 DEF JobsOfNames
  <2>3. \A c \in logged' : Own(c.nameID, c.key)
    BY <2>1, <2>2
  <2>4. QED
    BY <1>2, <2>3 DEF LoggedUnderOwnName, Own
<1>15. OneItemPerDomain'
  <2> SUFFICES ASSUME NoTLDTwice, NEW i \in DOMAIN items', NEW k \in DOMAIN items',
                      items'[i].key = items'[k].key, items'[i].tld = items'[k].tld
               PROVE  i = k
    BY <1>2 DEF OneItemPerDomain, NoTLDTwice
  <2>1. PICK r \in Answered : items'[i] = Item(r)
    BY <1>7
  <2>2. PICK q \in Answered : items'[k] = Item(q)
    BY <1>7
  <2>3. jobs[r.job].key = jobs[q.job].key /\ jobs[r.job].tld = jobs[q.job].tld
    BY <1>8, <2>1, <2>2
  <2>4. r.job = q.job
    BY <1>1, <1>4, <2>3 DEF JobsOfNames
  <2>5. r = q
    BY <1>1, <1>4, <2>4 DEF ResultsOfJobs
  <2>6. items'[i] = items'[k]
    BY <2>1, <2>2, <2>5
  <2>7. ~(i < k) /\ ~(k < i)
    BY <1>6, <2>6
  <2>8. QED
    BY <1>5, <1>6, <2>7
<1>16. AvoidedNeverShown'
  <2> SUFFICES ASSUME NEW i \in DOMAIN items', NEW w \in avoid,
                      NEW j \in 0 .. Len(items'[i].key) - Len(w)
               PROVE  \E n \in DOMAIN w : items'[i].key[j + n] # w[n]
    BY <1>2 DEF AvoidedNeverShown
  <2>1. PICK m \in DOMAIN jobs : items'[i].key = jobs[m].key
    BY <1>9
  <2>2. PICK n \in DOMAIN names : jobs[m].key = names[n].key
    BY <1>1 DEF JobsOfNames
  <2>3. names \in Seq(Name)
    BY <1>1 DEF TypeOK, Name
  <2>4. names[n].key \in Seq(STRING)
    <3>1. names[n] \in Name
      BY <2>3
    <3>2. QED
      BY <3>1 DEF Name
  <2>5. ~Contains(names[n].key, w)
    BY <1>1 DEF NamesFit
  <2>6. w \in Seq(STRING) \ {<< >>}
    BY <1>1, AvoidAssumption DEF TypeOK
  <2>7. j \in 0 .. Len(names[n].key) - Len(w)
    BY <2>1, <2>2
  <2>8. \E p \in DOMAIN w : names[n].key[j + p] # w[p]
    BY <2>4, <2>5, <2>6, <2>7, NotContained
  <2>9. QED
    BY <2>1, <2>2, <2>8
<1>17. TakenNeverOutranks'
  <2> SUFFICES ASSUME NEW i \in DOMAIN items', NEW k \in DOMAIN items', i < k,
                      items'[i].key = items'[k].key, ~items'[i].available, items'[k].available
               PROVE  items'[i].score = items'[k].score
    BY DEF TakenNeverOutranks
  <2>1. BrandOf(items'[i].key) \in 0 .. 100
    BY <1>1, BrandOfBounds
  <2>2. \A price1, price2 :
          CalculateScore(BrandOf(items'[i].key), items'[i].tld, items'[i].available, price1,
                         Len(items'[i].key))
            <= CalculateScore(BrandOf(items'[i].key), items'[k].tld, items'[k].available, price2,
                              Len(items'[i].key))
    BY <1>9, <2>1, ScoreFacts
  <2>3. items'[i].score <= items'[k].score
    BY <1>9, <2>2
  <2>4. items'[i].score >= items'[k].score
    BY <1>6
  <2>5. QED
    BY <1>10, <2>3, <2>4
<1>18. AvailableOffered'
  BY <1>2 DEF AvailableOffered
<1>19. PriceIsLowest'
  <2> SUFFICES ASSUME NEW i \in DOMAIN items', items'[i].available,
                      {o \in items'[i].offers : o.price > 0 /\ ~o.bundled} # {}
               PROVE  LET standalone == {o \in items'[i].offers : o.price > 0 /\ ~o.bundled}
                      IN  /\ \E o \in standalone : /\ o.price = items'[i].price
                                                   /\ o.currency = items'[i].currency
                          /\ \A o \in standalone :
                               o.currency = items'[i].currency => items'[i].price <= o.price
    BY DEF PriceIsLowest
  <2>1. PICK r \in Answered : items'[i] = Item(r)
    BY <1>7
  <2>2. r \in results /\ r.res.kind = "available"
    <3>1. Item(r).available => r.res.kind = "available"
      BY Zenon DEF Item
    <3>2. QED
      BY <1>4, <2>1, <3>1
  <2> DEFINE offers == r.res.offers
             best == Cheapest(offers)
  <2>3. offers \in Seq(Plans)
    BY <2>2 DEF IndInv, AvailableOffered, Offered
  <2>4. /\ items'[i].offers = {Shown(offers[m]) : m \in DOMAIN offers}
        /\ items'[i].price = Shown(offers[best]).price
        /\ items'[i].currency = Shown(offers[best]).currency
    BY <2>1, <2>2 DEF Item, Quote
  <2> HIDE DEF offers, best
  <2>5. \A m \in DOMAIN offers :
          /\ Shown(offers[m]).price = InRupees(offers[m])
          /\ Shown(offers[m]).bundled = offers[m].bundled
          /\ Shown(offers[m]).price > 0 <=> offers[m].price > 0
    BY <2>3, ShownFacts
  <2>6. \A o \in items'[i].offers : o.price > 0 /\ ~o.bundled =>
          \E m \in Priced(offers) : o = Shown(offers[m])
    BY <2>4, <2>5 DEF Priced
  <2>7. /\ best \in Priced(offers)
        /\ \A m \in Priced(offers) : InRupees(offers[best]) <= InRupees(offers[m])
    BY <2>3, <2>6, CheapestFacts DEF best
  <2>8. best \in DOMAIN offers /\ offers[best].price > 0 /\ ~offers[best].bundled
    BY <2>7 DEF Priced
  <2>9. /\ Shown(offers[best]) \in items'[i].offers
        /\ Shown(offers[best]).price > 0 /\ ~Shown(offers[best]).bundled
    BY <2>4, <2>5, <2>8
  <2>10. ASSUME NEW o \in items'[i].offers, o.price > 0 /\ ~o.bundled
         PROVE  items'[i].price <= o.price
    <3>1. PICK m \in Priced(offers) : o = Shown(offers[m])
      BY <2>6, <2>10
    <3>2. m \in DOMAIN offers
      BY DEF Priced
    <3>3. QED
      BY <2>4, <2>5, <2>7, <2>8, <3>1, <3>2
  <2>11. QED
    BY <2>4, <2>9, <2>10
<1>20. QED
  BY <1>11, <1>12, <1>13, <1>14, <1>15, <1>16, <1>17, <1>18, <1>19 DEF IndInv

LEMMA FinishStep == IndInv /\ Finish => IndInv'
<1> SUFFICES ASSUME IndInv, Finish PROVE IndInv'
  OBVIOUS
<1>1. /\ pc' = "done" /\ status' = 200
      /\ logged' \subseteq logged
      /\ UNCHANGED <<ctx, hasDB, wiring, tlds, avoid, drafts, pending, searchID, names, saving, rows,
                     jobs, results, items>>
  BY DEF Finish, Respond
<1>2. TypeOK'
  BY <1>1 DEF IndInv, TypeOK
<1>3. NothingEarly' /\ NamesFit' /\ ResultsOfJobs'
  BY <1>1 DEF IndInv, NothingEarly, NamesFit, ResultsOfJobs
<1>4. JobsOfNames' /\ LoggedUnderOwnName'
  BY <1>1 DEF IndInv, JobsOfNames, NoTLDTwice, LoggedUnderOwnName, Own
<1>5. OneItemPerDomain' /\ AvoidedNeverShown' /\ TakenNeverOutranks'
  BY <1>1 DEF IndInv, OneItemPerDomain, NoTLDTwice, AvoidedNeverShown, TakenNeverOutranks
<1>6. AvailableOffered' /\ PriceIsLowest'
  BY <1>1 DEF IndInv, AvailableOffered, PriceIsLowest
<1>7. QED
  BY <1>2, <1>3, <1>4, <1>5, <1>6 DEF IndInv

\* An engine that returns leaves its names, and nothing else.
LEMMA EngineStep ==
  ASSUME IndInv, NEW e \in Engines, NEW lists, lists \subseteq Texts \cup Locals \cup {<< >>},
         EngineReturns(e, lists)
  PROVE  IndInv'
<1>1. /\ pc = "engines"
      /\ UNCHANGED <<pc, status, ctx, hasDB, wiring, tlds, avoid, searchID, names, saving, rows, jobs,
                     results, items, logged>>
      /\ pending' \subseteq pending
  BY DEF EngineReturns
<1>2. PICK list \in lists : drafts' = [drafts EXCEPT ![e] = list]
  BY DEF EngineReturns
<1>3. drafts' \in [Engines -> Texts \cup Locals \cup {<< >>}]
  BY <1>2 DEF IndInv, TypeOK
<1>4. TypeOK'
  BY <1>1, <1>3 DEF IndInv, TypeOK
<1>5. QED
  BY <1>1, <1>4, QuietSteps

LEMMA NextIndInv == IndInv /\ [Next]_vars => IndInv'
<1> SUFFICES ASSUME IndInv, [Next]_vars PROVE IndInv'
  OBVIOUS
<1>1. TypeOK
  BY DEF IndInv
<1>2. CASE ExpireCtx
  <2>1. ctx' = "done" /\ UNCHANGED <<pc, status, data>>
    BY <1>2 DEF ExpireCtx
  <2>2. TypeOK'
    BY <1>1, <2>1 DEF TypeOK, data
  <2>3. QED
    BY <2>1, <2>2, QuietSteps DEF data
<1>3. CASE Refuse
  <2>1. pc' = "done" /\ status' \in {400, 413} /\ UNCHANGED <<ctx, data>>
    BY <1>3 DEF Refuse, Respond
  <2>2. TypeOK'
    BY <1>1, <2>1 DEF TypeOK, data
  <2>3. QED
    BY <2>1, <2>2, QuietSteps DEF data
<1>4. CASE SaveSearch
  <2>1. /\ pc = "search" /\ pc' = "engines" /\ searchID' \in {Unsaved, 1}
        /\ UNCHANGED <<status, ctx, hasDB, wiring, tlds, avoid, drafts, pending, names, saving, rows, jobs,
                       results, items, logged>>
    BY <1>4 DEF SaveSearch
  <2>2. TypeOK'
    BY <1>1, <2>1 DEF TypeOK
  <2>3. QED
    BY <2>1, <2>2, QuietSteps
<1>5. CASE AiReturns
  <2>1. "ai" \in Engines
    BY DEF Engines
  <2>2. QED
    BY <1>5, <2>1, EngineStep DEF AiReturns
<1>6. CASE MorphReturns
  <2>1. "morph" \in Engines
    BY DEF Engines
  <2>2. QED
    BY <1>6, <2>1, EngineStep DEF MorphReturns
<1>7. CASE SaveDone
  <2>1. pc' = "check" /\ UNCHANGED <<status, ctx, data>>
    BY <1>7 DEF SaveDone
  <2>2. TypeOK'
    BY <1>1, <2>1 DEF TypeOK, data
  <2>3. QED
    BY <2>1, <2>2, QuietSteps DEF data
<1>8. CASE Done \/ UNCHANGED vars
  <2>1. UNCHANGED vars
    BY <1>8 DEF Done
  <2>2. TypeOK'
    BY <1>1, <2>1 DEF TypeOK, vars
  <2>3. QED
    BY <2>1, <2>2, QuietSteps DEF vars
<1>9. QED
  BY <1>2, <1>3, <1>4, <1>5, <1>6, <1>7, <1>8, AcceptStep, MergeStep, SaveNameStep, RunChecksStep,
     RankStep, FinishStep DEF Next

\* ---------------------------------------------------------------- theorems --

\* Every part of the invariant holds of GenerateHandler in every state, whatever
\* the request asks for and the engines, the lookups and the database answer.
THEOREM Invariance == Spec => []IndInv
<1>1. QED
  BY InitIndInv, NextIndInv, PTL DEF Spec

\* The domain checks that GenerateHandler queues carry the row of their own name.
THEOREM LoggedRight == Spec => []LoggedUnderOwnName
<1>1. IndInv => LoggedUnderOwnName
  BY DEF IndInv
<1>2. QED
  BY <1>1, Invariance, PTL

\* Orchestrator.Generate tells names apart as domains are, and the loops over
\* names and TLDs bring no domain twice, so the response has none twice.
THEOREM NoDomainTwice == Spec => []OneItemPerDomain
<1>1. IndInv => OneItemPerDomain
  BY DEF IndInv
<1>2. QED
  BY <1>1, Invariance, PTL

\* A name that IsValid refuses for an avoided word never reaches the response.
THEOREM AvoidedHidden == Spec => []AvoidedNeverShown
<1>1. IndInv => AvoidedNeverShown
  BY DEF IndInv
<1>2. QED
  BY <1>1, Invariance, PTL

\* CalculateScore and the sort put no taken domain before an available one of
\* the same name, but on equal scores, whatever TLDs and prices are compared.
THEOREM FreeFirst == Spec => []TakenNeverOutranks
<1>1. IndInv => TakenNeverOutranks
  BY DEF IndInv
<1>2. QED
  BY <1>1, Invariance, PTL

\* Whatever the providers that are wired have met, the price that GenerateHandler
\* shows is that of an offer it shows, and none in the same currency that comes
\* without hosting is shown cheaper, although the pool has chosen in another
\* conversion (pool.go 389-433, handler.go 265-286).
THEOREM LowestPrice == Spec => []PriceIsLowest
<1>1. IndInv => PriceIsLowest
  BY DEF IndInv
<1>2. QED
  BY <1>1, Invariance, PTL
==============================================================================
