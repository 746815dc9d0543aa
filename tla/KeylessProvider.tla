--------------------------- MODULE KeylessProvider ---------------------------
(***************************************************************************)
(* internal/providers/keyless.go and the head of hostinger.go: what a      *)
(* provider without an API key does. Availability is asked of DNS, then of *)
(* RDAP, then of WHOIS; prices are scraped behind a circuit breaker that   *)
(* the whole process shares.                                               *)
(*                                                                         *)
(* Assumed: a DNS record and the answer of a registry over RDAP are true   *)
(* of the domain. Either may be missing. A WHOIS text is free text, and    *)
(* what it says is not assumed to be what the scan for phrases finds.      *)
(***************************************************************************)
EXTENDS Integers, FiniteSets

CONSTANTS
  Callers,    \* goroutines that ask for an availability or a price
  TLDs,       \* top-level domains
  Served,     \* those whose registry rdap.org (rdap.nic.co for .co) can ask
  Static,     \* those of tldWhoisMap as it is compiled in
  Scrapable,  \* those the scraper supports: com, in, online, io
  TripAt,     \* scrapes that trip the breaker: 3
  Cooldown,   \* time it stays tripped: 60 s, in units of CoolDown
  MaxCalls    \* bound: calls made in one behaviour

ASSUME TLDsAssumption ==
  TLDs # {} /\ Served \subseteq TLDs /\ Static \subseteq TLDs /\ Scrapable \subseteq TLDs
ASSUME BoundsAssumption ==
  /\ IsFiniteSet(Callers)
  /\ TripAt \in Nat \ {0}
  /\ Cooldown \in Nat \ {0}
  /\ MaxCalls \in Nat

Records == {"host", "ns", "mx"}
Asking == {"dns", "rdap", "server", "iana", "whois"}
Pricing == {"check", "reset", "scrape"}
Answers == {"none", "available", "taken"}
Words == {"dns record", "registry", "no registry", "phrase", "no phrase", "nothing"}

VARIABLES
  servers,   \* TLDs whose WHOIS server is in tldWhoisMap
  failures,  \* scraperFailures
  tripped,   \* scraperTripped
  left,      \* time until scraperTrippedUntil; 0 once it has passed
  calls,     \* calls made so far
  pc,        \* pc[c]: where the call of c stands
  tld,       \* tld[c]: the TLD of its domain
  taken,     \* taken[c]: whether the domain is registered
  pending,   \* pending[c]: DNS lookups that have not returned
  found,     \* found[c]: one of them has returned a record (isRegistered)
  failed,    \* failed[c]: one of them has failed; the code does not keep this
  answer,    \* answer[c]: what its last call has returned, if for an availability
  word       \* word[c]: what that answer rests on

scraper == <<failures, tripped, left>>
asked == <<tld, taken, pending, found, failed, answer, word>>
vars == <<servers, scraper, calls, pc, asked>>

TypeOK ==
  /\ servers \in SUBSET TLDs /\ Static \subseteq servers
  /\ failures \in Nat
  /\ tripped \in BOOLEAN
  /\ left \in 0 .. Cooldown
  /\ calls \in 0 .. MaxCalls
  /\ pc \in [Callers -> {"idle"} \cup Asking \cup Pricing]
  /\ tld \in [Callers -> TLDs]
  /\ taken \in [Callers -> BOOLEAN]
  /\ pending \in [Callers -> SUBSET Records]
  /\ found \in [Callers -> BOOLEAN]
  /\ failed \in [Callers -> BOOLEAN]
  /\ answer \in [Callers -> Answers]
  /\ word \in [Callers -> Words]

Init ==
  /\ servers = Static
  /\ failures = 0
  /\ tripped = FALSE
  /\ left = 0
  /\ calls = 0
  /\ pc = [c \in Callers |-> "idle"]
  /\ tld = [c \in Callers |-> CHOOSE t \in TLDs : TRUE]
  /\ taken = [c \in Callers |-> FALSE]
  /\ pending = [c \in Callers |-> {}]
  /\ found = [c \in Callers |-> FALSE]
  /\ failed = [c \in Callers |-> FALSE]
  /\ answer = [c \in Callers |-> "none"]
  /\ word = [c \in Callers |-> "nothing"]

Goto(c, step) == pc' = [pc EXCEPT ![c] = step]

\* A new call, for some domain.
Begin(c, step) ==
  /\ pc[c] = "idle"
  /\ calls < MaxCalls
  /\ calls' = calls + 1
  /\ \E t \in TLDs : tld' = [tld EXCEPT ![c] = t]
  /\ Goto(c, step)
  /\ UNCHANGED <<servers, scraper>>

\* ----------------------------------------------- KeylessCheckAvailability --

\* The three DNS lookups start together.
Check(c) ==
  /\ Begin(c, "dns")
  /\ \E b \in BOOLEAN : taken' = [taken EXCEPT ![c] = b]
  /\ pending' = [pending EXCEPT ![c] = Records]
  /\ found' = [found EXCEPT ![c] = FALSE]
  /\ failed' = [failed EXCEPT ![c] = FALSE]
  /\ answer' = [answer EXCEPT ![c] = "none"]
  /\ word' = [word EXCEPT ![c] = "nothing"]

\* Return &DomainResult{Available: a}, on the word of source s.
Report(c, a, s) ==
  /\ answer' = [answer EXCEPT ![c] = IF a THEN "available" ELSE "taken"]
  /\ word' = [word EXCEPT ![c] = s]
  /\ Goto(c, "idle")
  /\ UNCHANGED <<tld, taken, pending, found, failed>>

\* A DNS lookup returns: a record, which only a registered domain can have;
\* no record; an error or a timeout, which the code does not tell from that.
Resolve(c, r) ==
  /\ r \in pending[c]
  /\ pending' = [pending EXCEPT ![c] = @ \ {r}]
  /\ \/ taken[c] /\ found' = [found EXCEPT ![c] = TRUE] /\ UNCHANGED failed
     \/ UNCHANGED <<found, failed>>
     \/ failed' = [failed EXCEPT ![c] = TRUE] /\ UNCHANGED found
  /\ UNCHANGED <<servers, scraper, calls, pc, tld, taken, answer, word>>

\* Mutated: only one of the three lookups is waited for.
Resolved_FirstOnly(c) ==
  /\ pc[c] = "dns"
  /\ pending[c] # Records
  /\ \/ found[c] /\ Report(c, FALSE, "dns record")
     \/ ~found[c] /\ Goto(c, "rdap") /\ UNCHANGED asked
  /\ UNCHANGED <<servers, scraper, calls>>

\* dnsWg.Wait() returns.
Resolved(c) ==
  /\ pc[c] = "dns"
  /\ pending[c] = {}
  /\ \/ found[c] /\ Report(c, FALSE, "dns record")
     \/ ~found[c] /\ Goto(c, "rdap") /\ UNCHANGED asked
  /\ UNCHANGED <<servers, scraper, calls>>

\* Mutated: any status other than 200 is taken for "not found".
RdapFails_Available(c) ==
  /\ pc[c] = "rdap"
  /\ Report(c, TRUE, "registry")
  /\ UNCHANGED <<servers, scraper, calls>>

\* 404 or 200, of the registry; or the 404 of rdap.org itself, for a TLD that it
\* knows no registry of.
RdapAnswers(c) ==
  /\ pc[c] = "rdap"
  /\ \/ tld[c] \in Served /\ Report(c, ~taken[c], "registry")
     \/ tld[c] \notin Served /\ Report(c, TRUE, "no registry")
  /\ UNCHANGED <<servers, scraper, calls>>

\* 429, any other status, or no answer within 2 s.
RdapFails(c) ==
  /\ pc[c] = "rdap"
  /\ Goto(c, "server")
  /\ UNCHANGED <<servers, scraper, calls, asked>>

\* GetWhoisServer: the server is in the map, or IANA is asked, without the
\* lock; it names a server, which is added, or the answer is "available".
ServerKnown(c) ==
  /\ pc[c] = "server"
  /\ tld[c] \in servers
  /\ Goto(c, "whois")
  /\ UNCHANGED <<servers, scraper, calls, asked>>

ServerMissing(c) ==
  /\ pc[c] = "server"
  /\ tld[c] \notin servers
  /\ Goto(c, "iana")
  /\ UNCHANGED <<servers, scraper, calls, asked>>

ServerNamed(c) ==
  /\ pc[c] = "iana"
  /\ servers' = servers \cup {tld[c]}
  /\ Goto(c, "whois")
  /\ UNCHANGED <<scraper, calls, asked>>

ServerUnknown(c) ==
  /\ pc[c] = "iana"
  /\ Report(c, TRUE, "nothing")
  /\ UNCHANGED <<servers, scraper, calls>>

\* QueryWhois returns a text, whole or as far as it was read before an error or the
\* deadline of 1.2 s: perhaps nothing. The answer is whether one of the phrases is in
\* it, anywhere. They are as short as "available", "not found" or "is free": the terms
\* of use of a registered domain may have one, and a free one's text none.
WhoisAnswers(c) ==
  /\ pc[c] = "whois"
  /\ \/ Report(c, TRUE, "phrase")
     \/ Report(c, FALSE, "no phrase")
  /\ UNCHANGED <<servers, scraper, calls>>

\* The connection, or writing the query, fails: the final fallback.
WhoisFails(c) ==
  /\ pc[c] = "whois"
  /\ Report(c, TRUE, "nothing")
  /\ UNCHANGED <<servers, scraper, calls>>

\* ------------------------------------------------------ the scraper breaker --

\* RecordScraperSuccess
RecordSuccess ==
  /\ failures' = 0
  /\ tripped' = FALSE
  /\ UNCHANGED left

\* Mutated: the breaker trips one failure late.
RecordFailure_Late ==
  /\ failures' = failures + 1
  /\ IF failures + 1 > TripAt
     THEN tripped' = TRUE /\ left' = Cooldown
     ELSE UNCHANGED <<tripped, left>>

\* RecordScraperFailure
RecordFailure ==
  /\ failures' = failures + 1
  /\ IF failures + 1 >= TripAt
     THEN tripped' = TRUE /\ left' = Cooldown
     ELSE UNCHANGED <<tripped, left>>

CoolDown ==
  /\ left > 0
  /\ left' = left - 1
  /\ UNCHANGED <<servers, failures, tripped, calls, pc, asked>>

\* GetPrice of Hostinger, and of GoDaddy without a key.
Price(c) ==
  /\ Begin(c, "check")
  /\ answer' = [answer EXCEPT ![c] = "none"]
  /\ UNCHANGED <<taken, pending, found, failed, word>>

\* IsScraperTripped under the read lock: open means no scrape (the price is
\* made up); expired means that the write lock is taken next.
IsScraperTripped(c) ==
  /\ pc[c] = "check"
  /\ Goto(c, IF ~tripped THEN "scrape" ELSE IF left > 0 THEN "idle" ELSE "reset")
  /\ UNCHANGED <<servers, scraper, calls, asked>>

\* Mutated: the condition is not checked again.
ResetScraper_Unchecked(c) ==
  /\ pc[c] = "reset"
  /\ tripped' = FALSE /\ failures' = 0
  /\ Goto(c, "scrape")
  /\ UNCHANGED <<servers, left, calls, asked>>

\* Under the write lock the condition is checked again; the caller goes on to
\* scrape either way.
ResetScraper(c) ==
  /\ pc[c] = "reset"
  /\ IF tripped /\ left = 0
     THEN tripped' = FALSE /\ failures' = 0
     ELSE UNCHANGED <<tripped, failures>>
  /\ Goto(c, "scrape")
  /\ UNCHANGED <<servers, left, calls, asked>>

\* getLivePrice. For a TLD that is not scrapable it fails without a call, and
\* that is recorded as a failure of the scraper like any other.
ScrapeSucceeds(c) ==
  /\ pc[c] = "scrape"
  /\ tld[c] \in Scrapable
  /\ RecordSuccess
  /\ Goto(c, "idle")
  /\ UNCHANGED <<servers, calls, asked>>

ScrapeFails(c) ==
  /\ pc[c] = "scrape"
  /\ RecordFailure
  /\ Goto(c, "idle")
  /\ UNCHANGED <<servers, calls, asked>>

\* ----------------------------------------------------------- specification --

CheckStep(c) ==
  \/ Resolved(c) \/ RdapAnswers(c) \/ RdapFails(c)
  \/ ServerKnown(c) \/ ServerMissing(c) \/ ServerNamed(c) \/ ServerUnknown(c)
  \/ WhoisAnswers(c) \/ WhoisFails(c)

PriceStep(c) ==
  IsScraperTripped(c) \/ ResetScraper(c) \/ ScrapeSucceeds(c) \/ ScrapeFails(c)

Quiescent ==
  /\ calls = MaxCalls
  /\ \A c \in Callers : pc[c] = "idle"
  /\ UNCHANGED vars

Next ==
  \/ \E c \in Callers :
       \/ Check(c) \/ Price(c) \/ CheckStep(c) \/ PriceStep(c)
       \/ \E r \in Records : Resolve(c, r)
  \/ CoolDown
  \/ Quiescent

Spec == Init /\ [][Next]_vars

\* -------------------------------------------------------------- properties --

\* A wrong answer is never that of DNS, nor of a registry over RDAP. A registered
\* domain is called available only where RDAP knows no registry, on a phrase in
\* a WHOIS text, or when no source could be asked; and a free one taken only on
\* a WHOIS text without a phrase (keyless.go:130-273).
WrongAnswersExplained ==
  \A c \in Callers :
    /\ answer[c] = "available" /\ taken[c] =>
         \/ word[c] = "no registry" /\ tld[c] \notin Served
         \/ word[c] \in {"phrase", "nothing"}
    /\ answer[c] = "taken" /\ ~taken[c] => word[c] = "no phrase"

\* One DNS record, from whichever of the three lookups, settles the question:
\* no later phase overrules it and no lookup is left behind (keyless.go:136).
RecordsBelieved ==
  \A c \in Callers : found[c] => answer[c] # "available" /\ pc[c] \notin Asking \ {"dns"}

\* The two halves of the scraper breaker agree, although expiry is looked at
\* under one lock and acted upon under another.
ScraperCountsFailures == tripped <=> failures >= TripAt

\* The scraper's breaker is a Breaker: nothing but its time, or a success of a
\* scrape that was begun, closes it. In particular, one that has tripped again
\* while a caller waited for the write lock stays tripped, whatever that caller
\* saw under its read lock (hostinger.go:45-65).
Scraper == INSTANCE Breaker WITH
  calls <- {c \in Callers : pc[c] = "scrape"}, Forgiving <- FALSE, Fragile <- FALSE
ScraperIsBreaker == Scraper!Spec

\* keyless.go:267: at the final fallback, "DNS pre-check already confirmed no
\* A/NS/MX records exist".
FallbackConfirmed ==
  \A c \in Callers : answer[c] = "available" /\ word[c] = "nothing" => ~failed[c]

\* -------------------------------------------- the inductive invariant, by parts --

\* A record is found for a registered domain only; no lookup runs once the
\* caller has stopped waiting; and no answer is given before the last phase.
PhasesInOrder ==
  \A c \in Callers :
    /\ found[c] => taken[c]
    /\ pc[c] # "dns" => pending[c] = {}
    /\ pc[c] \in Asking => answer[c] = "none"

\* The inductive strengthening of the safety properties above.
IndInv ==
  /\ TypeOK
  /\ PhasesInOrder
  /\ WrongAnswersExplained
  /\ RecordsBelieved
  /\ ScraperCountsFailures
===============================================================================
