---------------------------- MODULE KeylessProofs ----------------------------
(* Machine-checked proofs about KeylessProvider, for any callers, top-level   *)
(* domains, threshold, cooldown and number of calls.                          *)
EXTENDS KeylessProvider, TLAPS

\* ----------------------------------------------------------- initial states --

LEMMA InitIndInv == Init => IndInv
<1> SUFFICES ASSUME Init PROVE IndInv
  OBVIOUS
<1>1. (CHOOSE t \in TLDs : TRUE) \in TLDs
  BY TLDsAssumption
<1>2. TypeOK
  <2>1. servers \in SUBSET TLDs /\ Static \subseteq servers
    BY TLDsAssumption DEF Init
  <2>2. failures \in Nat /\ left \in 0 .. Cooldown /\ calls \in 0 .. MaxCalls
    BY BoundsAssumption DEF Init
  <2>8. tripped \in BOOLEAN
    BY DEF Init
  <2>3. tld \in [Callers -> TLDs]
    BY <1>1 DEF Init
  <2>4. /\ pc \in [Callers -> {"idle"} \cup Asking \cup Pricing]
        /\ taken \in [Callers -> BOOLEAN] /\ pending \in [Callers -> SUBSET Records]
    BY DEF Init
  <2>5. found \in [Callers -> BOOLEAN] /\ failed \in [Callers -> BOOLEAN]
    BY DEF Init
  <2>6. answer \in [Callers -> Answers] /\ word \in [Callers -> Words]
    BY DEF Init, Answers, Words
  <2>7. QED
    BY <2>1, <2>2, <2>3, <2>4, <2>5, <2>6, <2>8 DEF TypeOK
<1>3. PhasesInOrder
  BY DEF Init, PhasesInOrder, Asking
<1>4. WrongAnswersExplained /\ RecordsBelieved
  BY DEF Init, WrongAnswersExplained, RecordsBelieved
<1>5. ScraperCountsFailures
  BY BoundsAssumption DEF Init, ScraperCountsFailures
<1>6. QED
  BY <1>2, <1>3, <1>4, <1>5 DEF IndInv

\* -------------------------------------------------------- type correctness --

LEMMA GotoTyped ==
  ASSUME TypeOK, NEW c \in Callers, NEW s \in {"idle"} \cup Asking \cup Pricing, Goto(c, s)
  PROVE  pc' \in [Callers -> {"idle"} \cup Asking \cup Pricing]
BY DEF TypeOK, Goto

LEMMA BeginTyped ==
  ASSUME TypeOK, NEW c \in Callers, NEW s \in {"idle"} \cup Asking \cup Pricing, Begin(c, s)
  PROVE  /\ pc' \in [Callers -> {"idle"} \cup Asking \cup Pricing]
         /\ calls' \in 0 .. MaxCalls
         /\ tld' \in [Callers -> TLDs]
         /\ UNCHANGED <<servers, failures, tripped, left>>
<1>1. pc' \in [Callers -> {"idle"} \cup Asking \cup Pricing]
  BY GotoTyped DEF Begin
<1>2. calls' \in 0 .. MaxCalls
  BY BoundsAssumption DEF Begin, TypeOK
<1>3. tld' \in [Callers -> TLDs]
  BY DEF Begin, TypeOK
<1>4. QED
  BY <1>1, <1>2, <1>3 DEF Begin, scraper

LEMMA ReportTyped ==
  ASSUME TypeOK, NEW c \in Callers, NEW a, NEW s \in Words, Report(c, a, s)
  PROVE  /\ pc' \in [Callers -> {"idle"} \cup Asking \cup Pricing]
         /\ answer' \in [Callers -> Answers]
         /\ word' \in [Callers -> Words]
<1>1. pc' \in [Callers -> {"idle"} \cup Asking \cup Pricing]
  BY GotoTyped DEF Report
<1>2. answer' \in [Callers -> Answers]
  BY DEF Report, TypeOK, Answers
<1>3. word' \in [Callers -> Words]
  BY DEF Report, TypeOK
<1>4. QED
  BY <1>1, <1>2, <1>3

\* A caller in the middle of an availability check either moves on or reports.
MovesOn(c) ==
  /\ \E s \in Asking : Goto(c, s)
  /\ UNCHANGED asked

Reports(c) ==
  \/ found[c] /\ pc[c] = "dns" /\ Report(c, FALSE, "dns record")
  \/ /\ ~found[c] /\ pc[c] \in Asking /\ pending[c] = {}
     /\ \/ Report(c, ~taken[c], "registry")
        \/ tld[c] \notin Served /\ Report(c, TRUE, "no registry")
        \/ \E s \in {"phrase", "nothing"} : Report(c, TRUE, s)
        \/ Report(c, FALSE, "no phrase")

LEMMA CheckSteps ==
  ASSUME TypeOK, PhasesInOrder, RecordsBelieved, NEW c \in Callers, CheckStep(c)
  PROVE  /\ pc[c] \in Asking
         /\ pending[c] = {}
         /\ (MovesOn(c) /\ ~found[c]) \/ Reports(c)
         /\ UNCHANGED <<failures, tripped, left, calls>>
         /\ servers' \in SUBSET TLDs /\ Static \subseteq servers'
<1>1. /\ servers \in SUBSET TLDs /\ Static \subseteq servers
      /\ tld[c] \in TLDs
  BY DEF TypeOK
<1>2. pc[c] # "dns" => pending[c] = {}
  BY DEF PhasesInOrder
<1>3. found[c] => pc[c] \notin Asking \ {"dns"}
  BY DEF RecordsBelieved
<1>4. CASE Resolved(c)
  BY <1>1, <1>2, <1>3, <1>4 DEF Resolved, MovesOn, Reports, Asking, scraper
<1>5. CASE RdapFails(c) \/ ServerKnown(c) \/ ServerMissing(c)
  BY <1>1, <1>2, <1>3, <1>5 DEF RdapFails, ServerKnown, ServerMissing, MovesOn, Asking, scraper
<1>6. CASE ServerNamed(c)
  BY <1>1, <1>2, <1>3, <1>6 DEF ServerNamed, MovesOn, Asking, scraper
<1>7. CASE RdapAnswers(c) \/ WhoisAnswers(c)
  BY <1>1, <1>2, <1>3, <1>7 DEF RdapAnswers, WhoisAnswers, Reports, Asking, scraper
<1>8. CASE ServerUnknown(c) \/ WhoisFails(c)
  BY <1>1, <1>2, <1>3, <1>8 DEF ServerUnknown, WhoisFails, Reports, Asking, scraper
<1>9. QED
  BY <1>4, <1>5, <1>6, <1>7, <1>8 DEF CheckStep

LEMMA CheckStepTypeOK ==
  ASSUME TypeOK, PhasesInOrder, RecordsBelieved, NEW c \in Callers, CheckStep(c)
  PROVE  TypeOK'
<1>1. /\ UNCHANGED <<failures, tripped, left, calls>>
      /\ servers' \in SUBSET TLDs /\ Static \subseteq servers'
      /\ MovesOn(c) \/ Reports(c)
  BY CheckSteps
<1>2. CASE MovesOn(c)
  <2>1. pc' \in [Callers -> {"idle"} \cup Asking \cup Pricing]
    BY <1>2, GotoTyped DEF MovesOn
  <2>2. UNCHANGED <<tld, taken, pending, found, failed, answer, word>>
    BY <1>2 DEF MovesOn, asked
  <2>3. QED
    BY <1>1, <2>1, <2>2 DEF TypeOK
<1>3. CASE Reports(c)
  <2>1. PICK a \in BOOLEAN, s \in Words : Report(c, a, s)
    <3>1. taken[c] \in BOOLEAN
      BY DEF TypeOK
    <3>2. QED
      BY <1>3, <3>1 DEF Reports, Words
  <2>2. UNCHANGED <<tld, taken, pending, found, failed>>
    BY <2>1 DEF Report
  <2>3. QED
    BY <1>1, <2>1, <2>2, ReportTyped DEF TypeOK
<1>4. QED
  BY <1>1, <1>2, <1>3

LEMMA PriceStepTypeOK ==
  ASSUME TypeOK, NEW c \in Callers, PriceStep(c) \/ Price(c)
  PROVE  TypeOK'
<1>1. CASE Price(c)
  <2>1. Begin(c, "check")
    BY <1>1 DEF Price
  <2>2. answer' \in [Callers -> Answers]
    BY <1>1 DEF Price, TypeOK, Answers
  <2>3. QED
    BY <1>1, <2>1, <2>2, BeginTyped DEF Price, TypeOK, Pricing
<1>2. CASE IsScraperTripped(c)
  <2>1. pc' \in [Callers -> {"idle"} \cup Asking \cup Pricing]
    BY <1>2, GotoTyped DEF IsScraperTripped, Pricing
  <2>2. /\ UNCHANGED <<servers, failures, tripped, left, calls>>
        /\ UNCHANGED <<tld, taken, pending, found, failed, answer, word>>
    BY <1>2 DEF IsScraperTripped, scraper, asked
  <2>3. QED
    BY <2>1, <2>2 DEF TypeOK
<1>3. CASE ResetScraper(c)
  <2>1. pc' \in [Callers -> {"idle"} \cup Asking \cup Pricing]
    BY <1>3, GotoTyped DEF ResetScraper, Pricing
  <2>2. failures' \in Nat
    BY <1>3 DEF ResetScraper, TypeOK
  <2>5. tripped' \in BOOLEAN
    BY <1>3 DEF ResetScraper, TypeOK
  <2>3. /\ UNCHANGED <<servers, left, calls>>
        /\ UNCHANGED <<tld, taken, pending, found, failed, answer, word>>
    BY <1>3 DEF ResetScraper, asked
  <2>4. QED
    BY <2>1, <2>2, <2>3, <2>5 DEF TypeOK
<1>4. CASE ScrapeSucceeds(c)
  <2>1. pc' \in [Callers -> {"idle"} \cup Asking \cup Pricing]
    BY <1>4, GotoTyped DEF ScrapeSucceeds
  <2>2. /\ failures' = 0 /\ tripped' = FALSE /\ UNCHANGED <<servers, left, calls>>
        /\ UNCHANGED <<tld, taken, pending, found, failed, answer, word>>
    BY <1>4 DEF ScrapeSucceeds, RecordSuccess, asked
  <2>3. QED
    BY <2>1, <2>2 DEF TypeOK
<1>5. CASE ScrapeFails(c)
  <2>1. pc' \in [Callers -> {"idle"} \cup Asking \cup Pricing]
    BY <1>5, GotoTyped DEF ScrapeFails
  <2>2. failures' \in Nat /\ left' \in 0 .. Cooldown
    BY <1>5, BoundsAssumption DEF ScrapeFails, RecordFailure, TypeOK
  <2>3. tripped' \in BOOLEAN
    BY <1>5 DEF ScrapeFails, RecordFailure, TypeOK
  <2>4. QED
    BY <1>5, <2>1, <2>2, <2>3 DEF ScrapeFails, asked, TypeOK
<1>6. QED
  BY <1>1, <1>2, <1>3, <1>4, <1>5 DEF PriceStep

LEMMA NextTypeOK ==
  TypeOK /\ PhasesInOrder /\ RecordsBelieved /\ [Next]_vars => TypeOK'
<1> SUFFICES ASSUME TypeOK, PhasesInOrder, RecordsBelieved, [Next]_vars PROVE TypeOK'
  OBVIOUS
<1>1. ASSUME NEW c \in Callers, Check(c) PROVE TypeOK'
  <2>1. Begin(c, "dns")
    BY <1>1 DEF Check
  <2>2. /\ pc' \in [Callers -> {"idle"} \cup Asking \cup Pricing]
        /\ calls' \in 0 .. MaxCalls
        /\ tld' \in [Callers -> TLDs]
        /\ UNCHANGED <<servers, failures, tripped, left>>
    BY <2>1, BeginTyped DEF Asking
  <2>3. taken' \in [Callers -> BOOLEAN] /\ pending' \in [Callers -> SUBSET Records]
    BY <1>1 DEF Check, TypeOK
  <2>4. /\ found' \in [Callers -> BOOLEAN] /\ failed' \in [Callers -> BOOLEAN]
        /\ answer' \in [Callers -> Answers] /\ word' \in [Callers -> Words]
    BY <1>1 DEF Check, TypeOK, Answers, Words
  <2>5. QED
    BY <2>2, <2>3, <2>4 DEF TypeOK
<1>2. ASSUME NEW c \in Callers, CheckStep(c) PROVE TypeOK'
  BY <1>2, CheckStepTypeOK
<1>3. ASSUME NEW c \in Callers, PriceStep(c) \/ Price(c) PROVE TypeOK'
  BY <1>3, PriceStepTypeOK
<1>4. ASSUME NEW c \in Callers, NEW r \in Records, Resolve(c, r) PROVE TypeOK'
  <2>1. pending' \in [Callers -> SUBSET Records]
    BY <1>4 DEF Resolve, TypeOK
  <2>2. found' \in [Callers -> BOOLEAN] /\ failed' \in [Callers -> BOOLEAN]
    BY <1>4 DEF Resolve, TypeOK
  <2>3. QED
    BY <1>4, <2>1, <2>2 DEF Resolve, scraper, TypeOK
<1>5. CASE CoolDown
  BY <1>5, BoundsAssumption DEF CoolDown, asked, TypeOK
<1>6. CASE UNCHANGED vars
  BY <1>6 DEF vars, scraper, asked, TypeOK
<1>7. QED
  BY <1>1, <1>2, <1>3, <1>4, <1>5, <1>6 DEF Next, Quiescent

\* ------------------------------------------------------ the scraper breaker --

\* What a step does to the scraper breaker, whoever takes it.
LEMMA ScraperSteps ==
  ASSUME [Next]_vars
  PROVE  \/ UNCHANGED scraper
         \/ RecordSuccess
         \/ RecordFailure
         \/ \E c \in Callers : ResetScraper(c)
         \/ CoolDown
<1>1. CASE UNCHANGED vars
  BY <1>1 DEF vars
<1>2. ASSUME NEW c \in Callers, Check(c) \/ Price(c) PROVE UNCHANGED scraper
  BY <1>2 DEF Check, Price, Begin
<1>3. ASSUME NEW c \in Callers, CheckStep(c) PROVE UNCHANGED scraper
  BY <1>3 DEF CheckStep, Resolved, RdapAnswers, RdapFails, ServerKnown, ServerMissing, ServerNamed,
              ServerUnknown, WhoisAnswers, WhoisFails
<1>4. ASSUME NEW c \in Callers, NEW r \in Records, Resolve(c, r) PROVE UNCHANGED scraper
  BY <1>4 DEF Resolve
<1>5. ASSUME NEW c \in Callers, PriceStep(c)
      PROVE  \/ UNCHANGED scraper \/ RecordSuccess \/ RecordFailure \/ ResetScraper(c)
  BY <1>5 DEF PriceStep, IsScraperTripped, ScrapeSucceeds, ScrapeFails
<1>6. QED
  BY <1>1, <1>2, <1>3, <1>4, <1>5 DEF Next, Quiescent

LEMMA NextScraperCounts ==
  TypeOK /\ ScraperCountsFailures /\ [Next]_vars => ScraperCountsFailures'
<1> SUFFICES ASSUME TypeOK, ScraperCountsFailures, [Next]_vars PROVE ScraperCountsFailures'
  OBVIOUS
<1>1. failures \in Nat /\ tripped \in BOOLEAN /\ TripAt \in Nat \ {0}
  BY BoundsAssumption DEF TypeOK
<1>2. tripped <=> failures >= TripAt
  BY DEF ScraperCountsFailures
<1>3. CASE UNCHANGED scraper \/ CoolDown
  BY <1>2, <1>3 DEF scraper, CoolDown, ScraperCountsFailures
<1>4. CASE RecordSuccess
  BY <1>1, <1>4 DEF RecordSuccess, ScraperCountsFailures
<1>5. CASE RecordFailure
  <2>1. CASE failures + 1 >= TripAt
    BY <1>1, <1>5, <2>1 DEF RecordFailure, ScraperCountsFailures
  <2>2. CASE ~(failures + 1 >= TripAt)
    BY <1>1, <1>2, <1>5, <2>2 DEF RecordFailure, ScraperCountsFailures
  <2>3. QED
    BY <2>1, <2>2
<1>6. ASSUME NEW c \in Callers, ResetScraper(c) PROVE ScraperCountsFailures'
  BY <1>1, <1>2, <1>6 DEF ResetScraper, ScraperCountsFailures
<1>7. QED
  BY <1>3, <1>4, <1>5, <1>6, ScraperSteps

\* Those who scrape: whose calls the breaker waits for.
Scraping == {c \in Callers : pc[c] = "scrape"}

\* What a caller that goes to a step does to the scrapes.
LEMMA ScrapingMoves ==
  ASSUME TypeOK, NEW c \in Callers, NEW s, Goto(c, s)
  PROVE  /\ s = "scrape" => Scraping' = Scraping \cup {c}
         /\ s # "scrape" => Scraping' = Scraping \ {c}
<1>1. /\ pc'[c] = s
      /\ \A d \in Callers \ {c} : pc'[d] = pc[d]
  BY DEF Goto, TypeOK
<1>2. QED
  BY <1>1 DEF Scraping

\* A step of an availability check leaves the scrapes alone.
LEMMA CheckStepScraping ==
  ASSUME TypeOK, PhasesInOrder, RecordsBelieved, NEW c \in Callers, CheckStep(c)
  PROVE  UNCHANGED <<scraper, Scraping>>
<1>1. /\ pc[c] \in Asking
      /\ MovesOn(c) \/ Reports(c)
      /\ UNCHANGED scraper
  BY CheckSteps DEF scraper
<1>2. c \notin Scraping
  BY <1>1 DEF Scraping, Asking
<1>3. PICK s \in Asking \cup {"idle"} : Goto(c, s)
  BY <1>1 DEF MovesOn, Reports, Report
<1>4. QED
  BY <1>1, <1>2, <1>3, ScrapingMoves DEF Asking

\* What a step that asks for a price, or scrapes one, is to the breaker.
LEMMA PriceStepMap ==
  ASSUME TypeOK, NEW c \in Callers, PriceStep(c)
  PROVE  \/ UNCHANGED <<scraper, Scraping>>
         \/ Scraper!Call(c)
         \/ Scraper!Report(c)
<1> USE DEF Scraping
<1>1. CASE IsScraperTripped(c)
  <2>1. c \notin Scraping /\ UNCHANGED scraper
    BY <1>1 DEF IsScraperTripped
  <2>2. CASE Goto(c, "scrape")
    <3>1. Scraping' = Scraping \cup {c}
      BY <2>2, ScrapingMoves
    <3>2. QED
      BY <2>1, <3>1 DEF Scraper!Call, Scraper!record, scraper
  <2>3. CASE Goto(c, "idle") \/ Goto(c, "reset")
    <3>1. Scraping' = Scraping \ {c}
      BY <2>3, ScrapingMoves
    <3>2. QED
      BY <2>1, <3>1
  <2>4. QED
    BY <1>1, <2>2, <2>3 DEF IsScraperTripped
<1>2. CASE ResetScraper(c)
  <2>1. c \notin Scraping /\ Scraping' = Scraping \cup {c}
    BY <1>2, ScrapingMoves DEF ResetScraper
  <2>2. Scraper!Expire \/ UNCHANGED Scraper!record
    BY <1>2 DEF ResetScraper, Scraper!Expire, Scraper!Close, Scraper!record
  <2>3. QED
    BY <2>1, <2>2 DEF Scraper!Call
<1>3. CASE ScrapeSucceeds(c)
  <2>1. c \in Scraping /\ Scraping' = Scraping \ {c}
    BY <1>3, ScrapingMoves DEF ScrapeSucceeds
  <2>2. Scraper!Close
    BY <1>3 DEF ScrapeSucceeds, RecordSuccess, Scraper!Close
  <2>3. QED
    BY <2>1, <2>2 DEF Scraper!Report
<1>4. CASE ScrapeFails(c)
  <2>1. c \in Scraping /\ Scraping' = Scraping \ {c}
    BY <1>4, ScrapingMoves DEF ScrapeFails
  <2>2. Scraper!Fail
    BY <1>4 DEF ScrapeFails, RecordFailure, Scraper!Fail
  <2>3. QED
    BY <2>1, <2>2 DEF Scraper!Report
<1>5. QED
  BY <1>1, <1>2, <1>3, <1>4 DEF PriceStep

LEMMA ScraperStepsMap ==
  ASSUME TypeOK, PhasesInOrder, RecordsBelieved, [Next]_vars
  PROVE  [Scraper!Next]_(Scraper!vars)
<1>1. CASE UNCHANGED <<scraper, Scraping>>
  BY <1>1 DEF scraper, Scraping, Scraper!vars, Scraper!record
<1>2. CASE UNCHANGED vars
  BY <1>1, <1>2 DEF vars, Scraping
<1>3. ASSUME NEW c \in Callers, Check(c) \/ Price(c) PROVE UNCHANGED <<scraper, Scraping>>
  <2>1. c \notin Scraping /\ UNCHANGED scraper
    BY <1>3 DEF Check, Price, Begin, Scraping
  <2>2. Scraping' = Scraping \ {c}
    BY <1>3, ScrapingMoves DEF Check, Price, Begin
  <2>3. QED
    BY <2>1, <2>2
<1>4. ASSUME NEW c \in Callers, CheckStep(c) PROVE UNCHANGED <<scraper, Scraping>>
  BY <1>4, CheckStepScraping
<1>5. ASSUME NEW c \in Callers, NEW r \in Records, Resolve(c, r) PROVE UNCHANGED <<scraper, Scraping>>
  BY <1>5 DEF Resolve, Scraping
<1>6. ASSUME NEW c \in Callers, PriceStep(c) PROVE [Scraper!Next]_(Scraper!vars)
  BY <1>1, <1>6, PriceStepMap DEF Scraper!Next
<1>7. CASE CoolDown
  <2>1. UNCHANGED Scraping
    BY <1>7 DEF CoolDown, Scraping
  <2>2. Scraper!CoolDown
    BY <1>7 DEF CoolDown, Scraper!CoolDown
  <2>3. QED
    BY <2>1, <2>2 DEF Scraper!Next, Scraping
<1>8. QED
  BY <1>1, <1>2, <1>3, <1>4, <1>5, <1>6, <1>7 DEF Next, Quiescent

\* ------------------------------------------------------------ the answers --

\* The three invariants about answers, for one caller.
AnswersRight(c) ==
  /\ found[c] => taken[c]
  /\ pc[c] # "dns" => pending[c] = {}
  /\ pc[c] \in Asking => answer[c] = "none"
  /\ answer[c] = "available" /\ taken[c] =>
       \/ word[c] = "no registry" /\ tld[c] \notin Served
       \/ word[c] \in {"phrase", "nothing"}
  /\ answer[c] = "taken" /\ ~taken[c] => word[c] = "no phrase"
  /\ found[c] => answer[c] # "available" /\ pc[c] \notin Asking \ {"dns"}

LEMMA AnswersByCaller ==
  (PhasesInOrder /\ WrongAnswersExplained /\ RecordsBelieved)
    <=> \A c \in Callers : AnswersRight(c)
BY DEF PhasesInOrder, WrongAnswersExplained, RecordsBelieved, AnswersRight

\* What a caller's step leaves of another caller.
LEMMA CallersApart ==
  ASSUME TypeOK, PhasesInOrder, RecordsBelieved, NEW c \in Callers, NEW d \in Callers, c # d,
         \/ Check(c) \/ Price(c) \/ CheckStep(c) \/ PriceStep(c)
         \/ \E r \in Records : Resolve(c, r)
  PROVE  UNCHANGED <<pc[d], tld[d], taken[d], pending[d], found[d], answer[d], word[d]>>
<1>1. CASE Check(c)
  BY <1>1 DEF Check, Begin, Goto, TypeOK
<1>2. CASE Price(c)
  BY <1>2 DEF Price, Begin, Goto, TypeOK
<1>3. CASE CheckStep(c)
  <2>1. MovesOn(c) \/ Reports(c)
    BY <1>3, CheckSteps
  <2>2. CASE MovesOn(c)
    BY <2>2 DEF MovesOn, Goto, asked, TypeOK
  <2>3. CASE Reports(c)
    <3>1. PICK a, s : Report(c, a, s)
      BY <2>3 DEF Reports
    <3>2. QED
      BY <3>1 DEF Report, Goto, TypeOK
  <2>4. QED
    BY <2>1, <2>2, <2>3
<1>4. CASE PriceStep(c)
  BY <1>4 DEF PriceStep, IsScraperTripped, ResetScraper, ScrapeSucceeds, ScrapeFails, Goto, asked, TypeOK
<1>5. CASE \E r \in Records : Resolve(c, r)
  BY <1>5 DEF Resolve, TypeOK
<1>6. QED
  BY <1>1, <1>2, <1>3, <1>4, <1>5

LEMMA CheckStepAnswers ==
  ASSUME TypeOK, PhasesInOrder, RecordsBelieved, NEW c \in Callers, AnswersRight(c), CheckStep(c)
  PROVE  AnswersRight(c)'
<1>1. /\ pc \in [Callers -> {"idle"} \cup Asking \cup Pricing]
      /\ answer \in [Callers -> Answers] /\ word \in [Callers -> Words]
      /\ taken[c] \in BOOLEAN
  BY DEF TypeOK
<1>2. pending[c] = {} /\ pc[c] \in Asking /\ ((MovesOn(c) /\ ~found[c]) \/ Reports(c))
  BY CheckSteps
<1>3. CASE MovesOn(c) /\ ~found[c]
  BY <1>1, <1>2, <1>3 DEF MovesOn, Goto, asked, AnswersRight
<1>4. CASE Reports(c)
  <2>1. PICK a \in BOOLEAN, s \in Words :
          /\ Report(c, a, s)
          /\ \/ found[c] /\ ~a /\ s = "dns record"
             \/ ~found[c] /\ a = ~taken[c]
             \/ ~found[c] /\ a /\ s = "no registry" /\ tld[c] \notin Served
             \/ ~found[c] /\ a /\ s \in {"phrase", "nothing"}
             \/ ~found[c] /\ ~a /\ s = "no phrase"
    BY <1>1, <1>4 DEF Reports, Words
  <2>2. /\ pc'[c] = "idle"
        /\ answer'[c] = IF a THEN "available" ELSE "taken"
        /\ word'[c] = s
        /\ UNCHANGED <<tld, taken, pending, found>>
    BY <1>1, <2>1 DEF Report, Goto
  <2>3. QED
    BY <1>1, <1>2, <2>1, <2>2 DEF AnswersRight, Asking
<1>5. QED
  BY <1>2, <1>3, <1>4

LEMMA OtherStepsAnswers ==
  ASSUME TypeOK, NEW c \in Callers, AnswersRight(c),
         Check(c) \/ Price(c) \/ PriceStep(c) \/ \E r \in Records : Resolve(c, r)
  PROVE  AnswersRight(c)'
<1>1. /\ pc \in [Callers -> {"idle"} \cup Asking \cup Pricing]
      /\ pending \in [Callers -> SUBSET Records] /\ found \in [Callers -> BOOLEAN]
      /\ answer \in [Callers -> Answers] /\ word \in [Callers -> Words]
  BY DEF TypeOK
<1>2. CASE Check(c)
  <2>1. pc'[c] = "dns" /\ found'[c] = FALSE /\ answer'[c] = "none"
    BY <1>1, <1>2 DEF Check, Begin, Goto
  <2>2. QED
    BY <2>1 DEF AnswersRight, Asking
<1>3. CASE Price(c) \/ PriceStep(c)
  <2>1. pc'[c] \in {"idle"} \cup Pricing /\ pc[c] \in {"idle"} \cup Pricing
    BY <1>1, <1>3 DEF Price, Begin, PriceStep, IsScraperTripped, ResetScraper, ScrapeSucceeds, ScrapeFails,
                      Goto, Pricing
  <2>2. UNCHANGED <<taken, pending, found, word>>
    BY <1>3 DEF Price, PriceStep, IsScraperTripped, ResetScraper, ScrapeSucceeds, ScrapeFails, asked
  <2>3. answer'[c] = "none" \/ UNCHANGED <<tld, answer>>
    BY <1>1, <1>3 DEF Price, PriceStep, IsScraperTripped, ResetScraper, ScrapeSucceeds, ScrapeFails, asked
  <2>4. QED
    BY <2>1, <2>2, <2>3 DEF AnswersRight, Asking, Pricing
<1>4. ASSUME NEW r \in Records, Resolve(c, r) PROVE AnswersRight(c)'
  <2>1. pc[c] = "dns" /\ answer[c] = "none"
    BY <1>4 DEF Resolve, AnswersRight, Asking
  <2>2. /\ UNCHANGED <<pc, tld, taken, answer, word>>
        /\ taken[c] \/ found'[c] = found[c]
    BY <1>1, <1>4 DEF Resolve
  <2>3. QED
    BY <2>1, <2>2 DEF AnswersRight
<1>5. QED
  BY <1>2, <1>3, <1>4

LEMMA NextAnswers ==
  ASSUME TypeOK, PhasesInOrder, WrongAnswersExplained, RecordsBelieved, [Next]_vars
  PROVE  PhasesInOrder' /\ WrongAnswersExplained' /\ RecordsBelieved'
<1> SUFFICES ASSUME NEW d \in Callers PROVE AnswersRight(d)'
  BY DEF PhasesInOrder, WrongAnswersExplained, RecordsBelieved, AnswersRight
<1>1. AnswersRight(d)
  BY AnswersByCaller
<1>2. CASE UNCHANGED <<pc[d], tld[d], taken[d], pending[d], found[d], answer[d], word[d]>>
  BY <1>1, <1>2 DEF AnswersRight
<1>3. CASE CoolDown \/ UNCHANGED vars
  BY <1>2, <1>3 DEF CoolDown, vars, asked
<1>4. ASSUME NEW c \in Callers,
             \/ Check(c) \/ Price(c) \/ CheckStep(c) \/ PriceStep(c)
             \/ \E r \in Records : Resolve(c, r)
      PROVE  AnswersRight(d)'
  <2>1. CASE c # d
    BY <1>2, <1>4, <2>1, CallersApart
  <2>2. CASE c = d /\ CheckStep(c)
    BY <1>1, <2>2, CheckStepAnswers
  <2>3. CASE c = d /\ ~CheckStep(c)
    BY <1>1, <1>4, <2>3, OtherStepsAnswers
  <2>4. QED
    BY <2>1, <2>2, <2>3
<1>5. QED
  BY <1>3, <1>4 DEF Next, Quiescent

\* --------------------------------------------------------------------- theorems --

LEMMA NextIndInv == IndInv /\ [Next]_vars => IndInv'
BY NextTypeOK, NextAnswers, NextScraperCounts DEF IndInv

\* The inductive invariant holds of every reachable state.
THEOREM Invariance == Spec => []IndInv
BY InitIndInv, NextIndInv, PTL DEF Spec

\* A wrong answer is never DNS' nor a registry's: a registered domain is called
\* available only where RDAP knows no registry, on a phrase somewhere in a WHOIS
\* text, or when no source could be asked; a free one taken only on a WHOIS text
\* without a phrase (keyless.go:130-273).
THEOREM MistakesExplained == Spec => []WrongAnswersExplained
<1>1. IndInv => WrongAnswersExplained
  BY DEF IndInv
<1>2. QED
  BY <1>1, Invariance, PTL

\* No phase overrules a DNS record (keyless.go:176-181).
THEOREM RecordsSettle == Spec => []RecordsBelieved
<1>1. IndInv => RecordsBelieved
  BY DEF IndInv
<1>2. QED
  BY <1>1, Invariance, PTL

\* The scraper breaker (hostinger.go:20-65) behaves like a Breaker, although
\* whoever finds it expired changes locks before resetting it: only its time, or
\* the success of a scrape that was begun, closes it.
THEOREM ScraperImplements == Spec => ScraperIsBreaker
<1>1. Init => Scraper!Init
  BY DEF Init, Scraper!Init
<1>2. IndInv /\ [Next]_vars => [Scraper!Next]_(Scraper!vars)
  BY ScraperStepsMap DEF IndInv
<1>3. QED
  BY <1>1, <1>2, Invariance, PTL DEF Spec, ScraperIsBreaker, Scraper!Spec
==============================================================================
