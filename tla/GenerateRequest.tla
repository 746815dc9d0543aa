--------------------------- MODULE GenerateRequest ---------------------------
(***************************************************************************)
(* internal/api/handler.go, GenerateHandler, with generator.go: one        *)
(* request on its way from the parsed body to the response. The engines    *)
(* that make up names, RunChecks and the database are seen from here: what *)
(* they may return. Module BatchCheck says what RunChecks promises, module *)
(* LogQueue what becomes of the queued writes.                             *)
(***************************************************************************)
EXTENDS NameFilter, Ranking, Providers

CONSTANTS
  TLDLists,    \* lists of TLDs a request may bring
  Clean,       \* Clean[t]: t trimmed, in lower case, with its dot; or Bad
  AvoidSets,   \* sets of avoided words a request may bring
  Texts,       \* the lists of names that may be read from a reply of Gemini
  Locals,      \* the lists that the generators of this process may make up
  Wirings,     \* for each choice of providers: the price scans it may lead to
  TopNames,    \* names kept for checking: 25
  MaxTLDs      \* TLDs permitted: 5

Bad == "invalid"
\* The name id of a job of another request, and that of a name not saved.
Foreign == -1
Unsaved == 0

ASSUME CleanAssumption == TLDLists \subseteq Seq(DOMAIN Clean)
ASSUME ListsAssumption == Texts \cup Locals \subseteq Seq([key : Seq(STRING), title : BOOLEAN])
\* Avoided words are not empty: the handler requires letters.
ASSUME AvoidAssumption == \A words \in AvoidSets : words \subseteq Seq(STRING) \ {<< >>}
ASSUME WiringsAssumption == \A scans \in Wirings : scans \subseteq Scans
ASSUME LimitsAssumption == TopNames \in Nat \ {0} /\ MaxTLDs \in Nat \ {0}

VARIABLES
  pc,        \* where the request stands
  status,    \* 0 before the response, then 200, 400, 413 or 500
  ctx,       \* the request's context of 25 s, "live" or "done"
  hasDB,     \* the process has a database
  wiring,    \* the price scans its providers may lead to
  tlds,      \* req.TLDs
  avoid,     \* req.Avoid
  drafts,    \* drafts[e]: the names of engine e, until they are merged
  pending,   \* engines that have not returned
  searchID,  \* id of the row of this search, or 0
  names,     \* generatedNames: records [key, title, score, id]
  saving,    \* the loop over names: the one in turn
  rows,      \* rows of generated_names written
  jobs,      \* jobs for RunChecks, in order
  results,   \* what RunChecks has returned, until it is ranked
  items,     \* the response's items, ranked
  logged     \* dbChecksToSave: domain checks queued for the log

vars == <<pc, status, ctx, hasDB, wiring, tlds, avoid, drafts, pending, searchID, names, saving, rows,
          jobs, results, items, logged>>
data == <<hasDB, wiring, tlds, avoid, drafts, pending, searchID, names, saving, rows, jobs, results, items, logged>>

Engines == {"ai", "morph"}

\* The TLDs of jobs and items: what a request may bring, as it is cleaned.
CleanTLDs == {".com"} \cup {Clean[t] : t \in DOMAIN Clean}

TypeOK ==
  /\ pc \in {"validate", "search", "engines", "save", "check", "rank", "log", "done"}
  /\ status \in {0, 200, 400, 413, 500}
  /\ ctx \in {"live", "done"}
  /\ hasDB \in BOOLEAN
  /\ wiring \in Wirings
  /\ tlds \in Seq(DOMAIN Clean \cup CleanTLDs)
  /\ pc = "validate" => tlds \in Seq(DOMAIN Clean)
  /\ avoid \in AvoidSets
  /\ drafts \in [Engines -> Texts \cup Locals \cup {<< >>}]
  /\ pending \subseteq Engines
  /\ searchID \in {Unsaved, 1}
  /\ names \in Seq([key : Seq(STRING), title : BOOLEAN, score : 0 .. 100, id : Nat])
  /\ Len(names) <= TopNames
  /\ saving \in 1 .. TopNames + 1
  /\ jobs \in Seq([key : Seq(STRING), tld : DOMAIN Clean \cup CleanTLDs, nameID : Nat])
  /\ \A i \in DOMAIN items : items[i].score \in 1 .. 100

Init ==
  /\ pc = "validate"
  /\ status = 0
  /\ ctx = "live"
  /\ hasDB \in BOOLEAN
  /\ wiring \in Wirings
  /\ tlds \in TLDLists
  /\ avoid \in AvoidSets
  /\ drafts = [e \in Engines |-> << >>]
  /\ pending = Engines
  /\ searchID = Unsaved
  /\ names = << >>
  /\ saving = 1
  /\ rows = {}
  /\ jobs = << >>
  /\ results = {}
  /\ items = << >>
  /\ logged = {}

\* The sequences that hold each element of S once, the higher scores first.
\* sort.Slice leaves the order of equal scores open.
Sortings(S) ==
  {s \in [1 .. Cardinality(S) -> S] :
     \A i, k \in DOMAIN s : i < k => s[i] # s[k] /\ s[i].score >= s[k].score}

Respond(code) == pc' = "done" /\ status' = code

\* The 25 s are over, at any time before the checks are done; later nobody
\* looks at the context.
ExpireCtx ==
  /\ pc \in {"search", "engines", "save", "check"}
  /\ ctx = "live"
  /\ ctx' = "done"
  /\ UNCHANGED <<pc, status, data>>

\* ------------------------------------------------------------- validation --

Acceptable == Len(tlds) <= MaxTLDs /\ \A i \in DOMAIN tlds : Clean[tlds[i]] # Bad

\* The body is too large, or any of the checks on it fails.
Refuse ==
  /\ pc = "validate"
  /\ \E code \in {400, 413} : Respond(code)
  /\ UNCHANGED <<ctx, data>>

\* All of them pass; the TLDs are cleaned in place, duplicates are kept.
Accept ==
  /\ pc = "validate"
  /\ Acceptable
  /\ tlds' = IF tlds = << >> THEN <<".com">> ELSE [i \in DOMAIN tlds |-> Clean[tlds[i]]]
  /\ pc' = "search"
  /\ UNCHANGED <<status, ctx, hasDB, wiring, avoid, drafts, pending, searchID, names, saving, rows, jobs,
                 results, items, logged>>

\* SaveSearch, which a failure does not stop.
SaveSearch ==
  /\ pc = "search"
  /\ searchID' \in (IF hasDB /\ ctx = "live" THEN {Unsaved, 1} ELSE {Unsaved})
  /\ pc' = "engines"
  /\ UNCHANGED <<status, ctx, hasDB, wiring, tlds, avoid, drafts, pending, names, saving, rows, jobs,
                 results, items, logged>>

\* ---------------------------------------------------------- Orchestrator --

\* The goroutine of engine e is done.
EngineReturns(e, lists) ==
  /\ pc = "engines"
  /\ e \in pending
  /\ \E list \in lists : drafts' = [drafts EXCEPT ![e] = list]
  /\ pending' = pending \ {e}
  /\ UNCHANGED <<pc, status, ctx, hasDB, wiring, tlds, avoid, searchID, names, saving, rows, jobs,
                 results, items, logged>>

\* AIGenerator.Generate: without a key, and when the call fails or brings no
\* candidate, names are made up here; a reply that cannot be decoded, perhaps
\* because the context ended on the way, brings none at all.
AiReturns == EngineReturns("ai", Texts \cup Locals \cup {<< >>})

MorphReturns == EngineReturns("morph", Locals)

\* Mutated: names are told apart by case.
FirstOfItsKind_Cased(list, i) == \A k \in 1 .. i - 1 : list[k] # list[i]

\* The name at i is the first of its spelling, whatever its case.
FirstOfItsKind(list, i) == \A k \in 1 .. i - 1 : list[k].key # list[i].key

\* The fit names of a list, each once, with their brand score.
Merge(list) ==
  {[key |-> list[i].key, title |-> list[i].title, score |-> BrandScore(list[i].key), id |-> Unsaved]
     : i \in {k \in DOMAIN list : FirstOfItsKind(list, k) /\ IsValid(list[k].key, avoid)}}

\* Mutated: the cut is forgotten.
Best_All(s) == s

\* The first names of a ranking: no more than can be checked in time.
Best(s) == SubSeq(s, 1, IF Len(s) > TopNames THEN TopNames ELSE Len(s))

\* wg.Wait(), the hybrid engine, the merge, and the cut to the best names.
MergeDrafts ==
  /\ pc = "engines"
  /\ pending = {}
  /\ \E hybrid \in Locals :
     LET fit == Merge(drafts.ai \o drafts.morph \o hybrid)
     IN  IF fit = {}
         THEN Respond(500) /\ UNCHANGED names
         ELSE /\ \E s \in Sortings(fit) : names' = Best(s)
              /\ pc' = "save"
              /\ UNCHANGED status
  /\ drafts' = [e \in Engines |-> << >>]
  /\ UNCHANGED <<ctx, hasDB, wiring, tlds, avoid, pending, searchID, saving, rows, jobs, results, items, logged>>

\* ------------------------------------------------------------ names, jobs --

JobsFor(name, id) ==
  [i \in DOMAIN tlds |-> [key |-> name.key, tld |-> tlds[i], nameID |-> id]]

\* One round of the loop: the name is saved, or not, and gets its jobs.
SaveName ==
  /\ pc = "save"
  /\ saving <= Len(names)
  /\ \E id \in {Unsaved} \cup (IF searchID # Unsaved /\ ctx = "live" THEN {saving} ELSE {}) :
       /\ names' = [names EXCEPT ![saving].id = id]
       /\ rows' = IF id = Unsaved THEN rows ELSE rows \cup {[id |-> id, key |-> names[saving].key]}
       /\ jobs' = jobs \o JobsFor(names[saving], id)
  /\ saving' = saving + 1
  /\ UNCHANGED <<pc, status, ctx, hasDB, wiring, tlds, avoid, drafts, pending, searchID, results, items, logged>>

SaveDone ==
  /\ pc = "save"
  /\ saving > Len(names)
  /\ pc' = "check"
  /\ UNCHANGED <<status, ctx, data>>

\* -------------------------------------------------------------- RunChecks --

\* Mutated: the name of the lookup's leader stays in the result.
Reinject_Forgotten(res, job) == res

\* The worker puts its own job back into the result of a shared lookup.
Reinject(res, job) == [res EXCEPT !.nameID = job.nameID]

\* What may become of the lookup for a job: it may have been led by the job of
\* another request, or be lost to a panic. Under a context that was over
\* before, all that are not lost fail.
Findings ==
  [kind : {"lost", "error"}, own : {TRUE}, scan : {<< >>}] \cup
  IF ctx = "done" THEN {}
  ELSE [kind : {"taken"}, own : BOOLEAN, scan : {<< >>}] \cup
       [kind : {"available"}, own : BOOLEAN, scan : wiring]

\* The result of a lookup, as its leader has it.
Result(job, finding) ==
  [kind |-> finding.kind,
   nameID |-> IF finding.own THEN job.nameID ELSE Foreign,
   offers |-> IF finding.kind = "available" THEN Offers(finding.scan, job.tld) ELSE << >>]

\* RunChecks returns: a result for each job, but for those that were lost.
RunChecks ==
  /\ pc = "check"
  /\ \E found \in [DOMAIN jobs -> Findings] :
       results' = {[job |-> i, res |-> Reinject(Result(jobs[i], found[i]), jobs[i])] :
                     i \in {k \in DOMAIN jobs : found[k].kind # "lost"}}
  /\ pc' = "rank"
  /\ UNCHANGED <<status, ctx, hasDB, wiring, tlds, avoid, drafts, pending, searchID, names, saving, rows,
                 jobs, items, logged>>

\* -------------------------------------------------------- scoring, ranking --

\* namesMap finds the name of a job; the default is for one that is not there.
BrandOf(key) ==
  IF \E i \in DOMAIN names : names[i].key = key
  THEN names[CHOOSE i \in DOMAIN names : names[i].key = key].score
  ELSE 50

\* The best offer of a lookup; 0 dollars for a taken domain.
Quote(res) ==
  IF res.kind = "available" THEN res.offers[Cheapest(res.offers)] ELSE Plan(0, "USD")

Item(r) ==
  LET job == jobs[r.job]
      shown == Shown(Quote(r.res))
  IN  [job |-> r.job, key |-> job.key, tld |-> job.tld,
       available |-> r.res.kind = "available",
       price |-> shown.price, currency |-> shown.currency,
       offers |-> {Shown(r.res.offers[i]) : i \in DOMAIN r.res.offers},
       score |-> CalculateScore(BrandOf(job.key), job.tld, r.res.kind = "available",
                                ScoredAt(Quote(r.res)), Len(job.key))]

Answered == {r \in results : r.res.kind # "error"}

\* The results without error become items, ranked, and checks for the log.
Rank ==
  /\ pc = "rank"
  /\ \E s \in Sortings({Item(r) : r \in Answered}) : items' = s
  /\ logged' = {[nameID |-> r.res.nameID, key |-> jobs[r.job].key, job |-> r.job] : r \in Answered}
  /\ results' = {}
  /\ pc' = "log"
  /\ UNCHANGED <<status, ctx, hasDB, wiring, tlds, avoid, drafts, pending, searchID, names, saving, rows, jobs>>

\* EnqueueDomainChecks takes the checks if there is a database; the response.
Finish ==
  /\ pc = "log"
  /\ logged' = IF hasDB THEN logged ELSE {}
  /\ Respond(200)
  /\ UNCHANGED <<ctx, hasDB, wiring, tlds, avoid, drafts, pending, searchID, names, saving, rows, jobs,
                 results, items>>

\* ---------------------------------------------------------- specification --

Done == pc = "done" /\ UNCHANGED vars

Next ==
  \/ ExpireCtx
  \/ Refuse \/ Accept \/ SaveSearch
  \/ AiReturns \/ MorphReturns \/ MergeDrafts
  \/ SaveName \/ SaveDone \/ RunChecks \/ Rank \/ Finish
  \/ Done

Spec == Init /\ [][Next]_vars

\* -------------------------------------------------------------- properties --

\* Of two domains of one name the available one never scores lower, whatever
\* its TLD and price and wherever the clamp bites: in the ranked response no
\* taken domain stands above an available one but on equal scores.
TakenNeverOutranks ==
  \A i, k \in DOMAIN items :
    i < k /\ items[i].key = items[k].key /\ ~items[i].available /\ items[k].available
      => items[i].score = items[k].score

\* The price shown for a domain is that of an offer shown with it that does not
\* come with hosting, and of these none of the same currency is shown cheaper:
\* the pool has compared the offers in one conversion and the handler shows
\* them in another. Without such an offer, which takes a page that asks for 0,
\* nothing is said; nor is an offer in a foreign currency, which the pool has
\* taken for rupees, comparable to one in rupees (pool.go 389-433, handler.go
\* 265-286).
PriceIsLowest ==
  \A i \in DOMAIN items : items[i].available =>
    LET standalone == {o \in items[i].offers : o.price > 0 /\ ~o.bundled}
    IN  standalone # {} =>
          /\ \E o \in standalone : o.price = items[i].price /\ o.currency = items[i].currency
          /\ \A o \in standalone : o.currency = items[i].currency => items[i].price <= o.price

\* A domain check is logged under the name that asked for it: the row of that
\* name, written by this request, or no row at all. Lookups shared with other
\* requests do not mix their names in.
Own(id, key) == id = Unsaved \/ \E row \in rows : row.id = id /\ row.key = key
LoggedUnderOwnName == \A c \in logged : Own(c.nameID, c.key)

\* A response that names no TLD twice names no domain twice: the engines'
\* names are told apart the way domains are.
NoTLDTwice == \A i, k \in DOMAIN tlds : tlds[i] = tlds[k] => i = k
OneItemPerDomain ==
  NoTLDTwice =>
    \A i, k \in DOMAIN items :
      items[i].key = items[k].key /\ items[i].tld = items[k].tld => i = k

\* No name of the response has an avoided word in it, wherever it stands and
\* whichever engine has made the name up. (The TLD is the client's choice.)
AvoidedNeverShown ==
  \A i \in DOMAIN items : \A w \in avoid :
    \A j \in 0 .. Len(items[i].key) - Len(w) :
      \E n \in DOMAIN w : items[i].key[j + n] # w[n]

\* -------------------------------------------- the inductive invariant, by parts --

\* Nothing is left to check or shown before the loop over the names.
NothingEarly ==
  pc \in {"validate", "search", "engines"} => jobs = << >> /\ items = << >> /\ saving = 1

\* The names kept are fit, and no two are spelled alike.
NamesFit ==
  /\ \A i \in DOMAIN names : \A w \in avoid : ~Contains(names[i].key, w)
  /\ \A i, k \in DOMAIN names : names[i].key = names[k].key => i = k

\* A job is for a name that has had its turn, under its id; and a domain has
\* one job, if no TLD stands twice in the request.
JobsOfNames ==
  /\ \A i \in DOMAIN jobs : \E k \in DOMAIN names : k < saving /\ jobs[i].key = names[k].key
  /\ \A i \in DOMAIN jobs : Own(jobs[i].nameID, jobs[i].key)
  /\ NoTLDTwice =>
       \A i, k \in DOMAIN jobs : jobs[i].key = jobs[k].key /\ jobs[i].tld = jobs[k].tld => i = k

\* A result belongs to a job, whose name it has, and is the only one to do so.
ResultsOfJobs ==
  /\ \A r \in results : r.job \in DOMAIN jobs /\ r.res.nameID = jobs[r.job].nameID
  /\ \A r, q \in results : r.job = q.job => r = q

\* An available domain comes with offers.
Offered(offers) == offers \in Seq(Plans) /\ Len(offers) >= 1
AvailableOffered == \A r \in results : r.res.kind = "available" => Offered(r.res.offers)

\* The inductive strengthening of all properties above.
IndInv ==
  /\ TypeOK
  /\ NothingEarly
  /\ NamesFit
  /\ JobsOfNames
  /\ ResultsOfJobs
  /\ AvailableOffered
  /\ LoggedUnderOwnName
  /\ OneItemPerDomain
  /\ AvoidedNeverShown
  /\ TakenNeverOutranks
  /\ PriceIsLowest
===============================================================================
