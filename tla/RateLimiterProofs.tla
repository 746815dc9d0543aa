--------------------------- MODULE RateLimiterProofs ---------------------------
(* Machine-checked proofs about RateLimiter, for any number of requests at a  *)
(* time, any tokens of one kind and any limits, window, patience and clock.   *)
EXTENDS RateLimiter, FiniteSetTheorems, TLAPS

\* ---------------------------------------------------------------- constants --

\* The limits are finitely many natural numbers.
LEMMA LimitFacts ==
  /\ Limits \subseteq Nat
  /\ IsFiniteSet(Limits)
<1>1. Limits \subseteq Nat
  BY TokensAssumption, LimitAssumption DEF Limits, LimitOf, NoClaim
<1>2. IsFiniteSet(Limits)
  <2> DEFINE g == [token \in Tokens |-> LimitOf(token)]
  <2>1. g \in Surjection(Tokens, Limits)
    BY DEF Surjection, Limits
  <2> HIDE DEF g
  <2>2. QED
    BY <2>1, TokensAssumption, FS_Surjection
<1>3. QED
  BY <1>1, <1>2

LEMMA TimeFacts ==
  /\ Times \subseteq Nat
  /\ \A T \in SUBSET Times : IsFiniteSet(T)
  /\ \A x, y : Between(x, y) \subseteq Times
<1>1. IsFiniteSet(Times)
  BY FS_Interval, TimesAssumption DEF Times
<1>2. Times \subseteq Nat
  BY DEF Times
<1>3. QED
  BY <1>1, <1>2, FS_Subset DEF Between

\* The places at which requests are counted are finitely many.
LEMMA PlacesFinite ==
  ASSUME NEW T \in SUBSET Times, NEW L \in SUBSET Limits
  PROVE  /\ T \X L \subseteq Times \X Limits
         /\ IsFiniteSet(T \X L)
<1>1. IsFiniteSet(T) /\ IsFiniteSet(L)
  BY TimeFacts, LimitFacts, FS_Subset
<1>2. QED
  BY <1>1, FS_Product

\* ------------------------------------------------------------------ counting --

\* What is counted: the k-th one of a place.
LEMMA EntryOf ==
  ASSUME NEW I, NEW f \in [I -> Nat], NEW S \in SUBSET I
  PROVE  /\ \A x \in S : \A k \in 1 .. f[x] : <<x, k>> \in Entries(f, S)
         /\ \A e \in Entries(f, S) : \E x \in S : \E k \in 1 .. f[x] : e = <<x, k>>
         /\ \A x, k : <<x, k>> \in Entries(f, S) => x \in S /\ k \in 1 .. f[x]
BY DEF Entries

LEMMA EntriesFinite ==
  ASSUME NEW I, NEW f \in [I -> Nat], NEW S \in SUBSET I, IsFiniteSet(S)
  PROVE  IsFiniteSet(Entries(f, S)) /\ CountIn(f, S) \in Nat
<1> DEFINE Piece(x) == {x} \X (1 .. f[x])
           P == {Piece(x) : x \in S}
           g == [x \in S |-> Piece(x)]
<1>1. ASSUME NEW x \in S PROVE IsFiniteSet(Piece(x))
  <2>1. f[x] \in Nat
    OBVIOUS
  <2>2. IsFiniteSet(1 .. f[x])
    BY <2>1, FS_Interval
  <2>3. QED
    BY <2>2, FS_Singleton, FS_Product
<1>2. IsFiniteSet(P)
  <2>1. g \in Surjection(S, P)
    BY DEF Surjection
  <2> HIDE DEF g, P
  <2>2. QED
    BY <2>1, FS_Surjection
<1>3. \A X \in P : IsFiniteSet(X)
  BY <1>1
<1>4. Entries(f, S) = UNION P
  BY DEF Entries
<1> HIDE DEF P
<1>5. IsFiniteSet(Entries(f, S))
  BY <1>2, <1>3, <1>4, FS_UNION
<1>6. QED
  BY <1>5, FS_CardinalityType DEF CountIn

\* One more at the place x.
LEMMA CountOneMore ==
  ASSUME NEW I, NEW f \in [I -> Nat], NEW g \in [I -> Nat],
         NEW S \in SUBSET I, IsFiniteSet(S), NEW x \in I,
         g[x] = f[x] + 1, \A y \in I : y # x => g[y] = f[y]
  PROVE  CountIn(g, S) = CountIn(f, S) + (IF x \in S THEN 1 ELSE 0)
<1>1. CASE x \in S
  <2> DEFINE new == <<x, f[x] + 1>>
  <2>1. f[x] \in Nat
    OBVIOUS
  <2>2. ASSUME NEW e \in Entries(g, S) PROVE e \in Entries(f, S) \cup {new}
    <3>0. PICK y \in S : \E k \in 1 .. g[y] : e = <<y, k>>
      BY EntryOf
    <3>1. PICK k \in 1 .. g[y] : e = <<y, k>>
      BY <3>0
    <3>2. CASE y = x /\ k = f[x] + 1
      BY <3>1, <3>2
    <3>3. CASE ~(y = x /\ k = f[x] + 1)
      <4>1. k \in 1 .. f[y]
        BY <2>1, <3>3
      <4>2. QED
        BY <3>1, <4>1, EntryOf
    <3>4. QED
      BY <3>2, <3>3
  <2>3. ASSUME NEW e \in Entries(f, S) PROVE e \in Entries(g, S)
    <3>0. PICK y \in S : \E k \in 1 .. f[y] : e = <<y, k>>
      BY EntryOf
    <3>1. PICK k \in 1 .. f[y] : e = <<y, k>>
      BY <3>0
    <3>2. k \in 1 .. g[y]
      BY <2>1
    <3>3. QED
      BY <3>1, <3>2, EntryOf
  <2>4. new \in Entries(g, S)
    <3>1. f[x] + 1 \in 1 .. g[x]
      BY <2>1
    <3>2. QED
      BY <1>1, <3>1, EntryOf
  <2>5. new \notin Entries(f, S)
    <3>1. f[x] + 1 \notin 1 .. f[x]
      BY <2>1
    <3>2. QED
      BY <3>1, EntryOf
  <2>6. Entries(g, S) = Entries(f, S) \cup {new}
    BY <2>2, <2>3, <2>4
  <2> HIDE DEF new
  <2>7. QED
    BY <1>1, <2>5, <2>6, EntriesFinite, FS_AddElement DEF CountIn
<1>2. CASE x \notin S
  <2>1. \A y \in S : g[y] = f[y]
    BY <1>2
  <2>2. Entries(g, S) = Entries(f, S)
    BY <2>1 DEF Entries
  <2>3. QED
    BY <1>2, <2>2, EntriesFinite DEF CountIn
<1>3. QED
  BY <1>1, <1>2

\* No less is counted where everything counted is counted as well.
LEMMA CountMonotone ==
  ASSUME NEW I, NEW f \in [I -> Nat], NEW g \in [I -> Nat],
         NEW S \in SUBSET I, NEW U \in SUBSET I, IsFiniteSet(U),
         \A x \in S : f[x] = 0 \/ (x \in U /\ f[x] <= g[x])
  PROVE  CountIn(f, S) <= CountIn(g, U)
<1>1. ASSUME NEW e \in Entries(f, S) PROVE e \in Entries(g, U)
  <2>0. PICK x \in S : \E k \in 1 .. f[x] : e = <<x, k>>
    BY EntryOf
  <2>1. PICK k \in 1 .. f[x] : e = <<x, k>>
    BY <2>0
  <2>2. f[x] \in Nat /\ g[x] \in Nat
    OBVIOUS
  <2>3. x \in U /\ k \in 1 .. g[x]
    BY <2>2
  <2>4. QED
    BY <2>1, <2>3, EntryOf
<1>2. QED
  BY <1>1, EntriesFinite, FS_Subset DEF CountIn

\* Counts that differ only where there is nothing to count.
LEMMA CountSame ==
  ASSUME NEW I, NEW f \in [I -> Nat], NEW g \in [I -> Nat],
         NEW S \in SUBSET I, NEW U \in SUBSET I, IsFiniteSet(S), IsFiniteSet(U),
         \A x \in S : f[x] = 0 \/ (x \in U /\ f[x] = g[x]),
         \A x \in U : g[x] = 0 \/ (x \in S /\ f[x] = g[x])
  PROVE  CountIn(f, S) = CountIn(g, U)
<1>1. CountIn(f, S) <= CountIn(g, U)
  <2>1. \A x \in S : f[x] = 0 \/ (x \in U /\ f[x] <= g[x])
    OBVIOUS
  <2>2. QED
    BY <2>1, CountMonotone
<1>2. CountIn(g, U) <= CountIn(f, S)
  <2>1. \A x \in U : g[x] = 0 \/ (x \in S /\ g[x] <= f[x])
    OBVIOUS
  <2>2. QED
    BY <2>1, CountMonotone
<1>3. CountIn(f, S) \in Nat /\ CountIn(g, U) \in Nat
  BY EntriesFinite
<1>4. QED
  BY <1>1, <1>2, <1>3

\* Where nothing is counted there are none.
LEMMA CountNone ==
  ASSUME NEW I, NEW f \in [I -> Nat], NEW S \in SUBSET I, \A x \in S : f[x] = 0
  PROVE  CountIn(f, S) = 0
<1>1. Entries(f, S) = {}
  BY EntryOf
<1>2. QED
  BY <1>1, FS_EmptySet DEF CountIn

\* The counts of requests, of all limits and of limits up to m.
LEMMA AdmittedTyped ==
  ASSUME NEW f \in [Times \X Limits -> Nat], NEW T \in SUBSET Times
  PROVE  /\ Admitted(f, T) \in Nat
         /\ \A m \in Limits : UpTo(m, f, T) \in Nat
<1>1. ASSUME NEW L \in SUBSET Limits PROVE CountIn(f, T \X L) \in Nat
  BY PlacesFinite, EntriesFinite
<1>2. QED
  BY <1>1 DEF Admitted, UpTo

\* g counts one more request than f, of limit n at time t.
AddsOne(f, g, t, n) ==
  /\ f \in [Times \X Limits -> Nat] /\ g \in [Times \X Limits -> Nat]
  /\ t \in Times /\ n \in Limits
  /\ g[<<t, n>>] = f[<<t, n>>] + 1
  /\ \A x \in Times \X Limits : x # <<t, n>> => g[x] = f[x]

LEMMA AddsOneExcept ==
  ASSUME NEW f \in [Times \X Limits -> Nat], NEW t \in Times, NEW n \in Limits,
         NEW g, g = [f EXCEPT ![<<t, n>>] = @ + 1]
  PROVE  AddsOne(f, g, t, n)
<1>1. <<t, n>> \in Times \X Limits
  OBVIOUS
<1>2. QED
  BY <1>1 DEF AddsOne

LEMMA AdmittedOneMore ==
  ASSUME NEW f, NEW g, NEW t, NEW n, AddsOne(f, g, t, n), NEW T \in SUBSET Times
  PROVE  /\ Admitted(g, T) = Admitted(f, T) + (IF t \in T THEN 1 ELSE 0)
         /\ \A m \in Limits :
              UpTo(m, g, T) = UpTo(m, f, T) + (IF t \in T /\ n <= m THEN 1 ELSE 0)
<1>1. t \in Times /\ n \in Limits /\ <<t, n>> \in Times \X Limits
  BY DEF AddsOne
<1>2. ASSUME NEW L \in SUBSET Limits
      PROVE  CountIn(g, T \X L) = CountIn(f, T \X L) + (IF t \in T /\ n \in L THEN 1 ELSE 0)
  <2>1. <<t, n>> \in T \X L <=> t \in T /\ n \in L
    OBVIOUS
  <2>2. CountIn(g, T \X L) = CountIn(f, T \X L) + (IF <<t, n>> \in T \X L THEN 1 ELSE 0)
    BY <1>1, PlacesFinite, CountOneMore DEF AddsOne
  <2>3. QED
    BY <2>1, <2>2
<1>3. Admitted(g, T) = Admitted(f, T) + (IF t \in T THEN 1 ELSE 0)
  BY <1>1, <1>2 DEF Admitted
<1>4. ASSUME NEW m \in Limits
      PROVE  UpTo(m, g, T) = UpTo(m, f, T) + (IF t \in T /\ n <= m THEN 1 ELSE 0)
  BY <1>1, <1>2 DEF UpTo
<1>5. QED
  BY <1>3, <1>4

\* No fewer requests where every request is counted as well.
LEMMA AdmittedMonotone ==
  ASSUME NEW f \in [Times \X Limits -> Nat], NEW g \in [Times \X Limits -> Nat],
         NEW T \in SUBSET Times, NEW U \in SUBSET Times,
         \A t \in T : \A n \in Limits :
           f[<<t, n>>] = 0 \/ (t \in U /\ f[<<t, n>>] <= g[<<t, n>>])
  PROVE  /\ Admitted(f, T) <= Admitted(g, U)
         /\ \A m \in Limits : UpTo(m, f, T) <= UpTo(m, g, U)
         /\ \A m \in Limits : UpTo(m, f, T) <= Admitted(g, U)
<1>1. ASSUME NEW L \in SUBSET Limits, NEW M \in SUBSET Limits, L \subseteq M
      PROVE  CountIn(f, T \X L) <= CountIn(g, U \X M)
  <2>1. ASSUME NEW x \in T \X L
        PROVE  f[x] = 0 \/ (x \in U \X M /\ f[x] <= g[x])
    <3>1. PICK t \in T, n \in L : x = <<t, n>>
      OBVIOUS
    <3>2. n \in M /\ n \in Limits
      BY <1>1
    <3>3. QED
      BY <3>1, <3>2
  <2>2. QED
    BY <2>1, PlacesFinite, CountMonotone
<1>2. Admitted(f, T) <= Admitted(g, U)
  BY <1>1 DEF Admitted
<1>3. ASSUME NEW m \in Limits
      PROVE  UpTo(m, f, T) <= UpTo(m, g, U) /\ UpTo(m, f, T) <= Admitted(g, U)
  BY <1>1 DEF UpTo, Admitted
<1>4. QED
  BY <1>2, <1>3

\* There is none where nothing is counted.
LEMMA AdmittedNone ==
  ASSUME NEW f \in [Times \X Limits -> Nat], NEW T \in SUBSET Times,
         \A t \in T : \A n \in Limits : f[<<t, n>>] = 0
  PROVE  /\ Admitted(f, T) = 0
         /\ \A m \in Limits : UpTo(m, f, T) = 0
<1>1. ASSUME NEW L \in SUBSET Limits PROVE CountIn(f, T \X L) = 0
  <2>1. ASSUME NEW x \in T \X L PROVE f[x] = 0
    <3>1. PICK t \in T, n \in L : x = <<t, n>>
      OBVIOUS
    <3>2. QED
      BY <3>1
  <2>2. QED
    BY <2>1, PlacesFinite, CountNone
<1>2. QED
  BY <1>1 DEF Admitted, UpTo

\* ------------------------------------------------------------- what a step leaves --

\* A step that leaves the local limiter alone, and the clock.
LEMMA LocalFrame ==
  ASSUME LocalRecorded, LocalWindow, UNCHANGED <<now, tracks, byLocal>>
  PROVE  LocalRecorded' /\ LocalWindow'
BY DEF LocalRecorded, LocalWindow

\* A step that leaves Redis alone, the clock and what was let through.
LEMMA RedisFrame ==
  ASSUME PassedInSet, RedisWindow, SetAdmitted,
         UNCHANGED <<now, zset, expiry, passed, byRedis>>
  PROVE  PassedInSet' /\ RedisWindow' /\ SetAdmitted'
BY DEF PassedInSet, RedisWindow, PassedUpTo, SetAdmitted

\* ------------------------------------------------------------- the local limiter --

\* What the mutex sees is what was let through in the window that ends now.
LEMMA ActiveCount ==
  ASSUME TypeOK, NothingAhead, LocalRecorded
  PROVE  /\ Active \in [Times -> Nat]
         /\ CountIn(Active, Times) = Admitted(byLocal, Between(now - Window, now))
<1> DEFINE B == Between(now - Window, now)
<1>1. /\ now \in Int /\ Window \in Int /\ now - Window \in Starts
      /\ now - Window >= now - Window
  <2>1. now \in 0 .. MaxTime /\ Window \in Nat /\ Patience \in Nat /\ MaxTime \in Nat
    BY LimitAssumption, TimesAssumption DEF TypeOK, Times
  <2>2. QED
    BY <2>1 DEF Starts
<1>2. tracks \in [Times -> Nat] /\ Active \in [Times -> Nat]
  BY DEF TypeOK, Active
<1>3. \A t \in Times : Active[t] = 0 \/ (t \in B /\ Active[t] = tracks[t])
  BY <1>1 DEF Active, Between, NothingAhead, Times
<1>4. \A t \in B : t \in Times /\ Active[t] = tracks[t]
  BY <1>1 DEF Active, Between, Times
<1>5. B \subseteq Times /\ IsFiniteSet(B) /\ IsFiniteSet(Times)
  BY TimeFacts
<1> HIDE DEF B
<1>6. CountIn(Active, Times) = CountIn(tracks, B)
  BY <1>2, <1>3, <1>4, <1>5, CountSame
<1>7. CountIn(tracks, B) = Admitted(byLocal, B)
  BY <1>1 DEF LocalRecorded, B
<1>8. QED
  BY <1>2, <1>6, <1>7 DEF B

\* A request is let through, or refused: the requests recorded and the exact window.
LEMMA AllowLocal ==
  ASSUME TypeOK, OnTheWay, NothingAhead, LocalRecorded, LocalWindow,
         NEW c \in Clients, Allow(c)
  PROVE  LocalRecorded' /\ LocalWindow'
<1> DEFINE n == limit[c]
<1>1. /\ now \in Times /\ now' = now /\ n \in Limits
      /\ byLocal \in [Times \X Limits -> Nat] /\ tracks \in [Times -> Nat]
  BY DEF TypeOK, OnTheWay, Allow
<1>2. /\ now \in Int /\ Window \in Nat /\ Patience \in Nat /\ MaxTime \in Nat
      /\ Starts \subseteq Int /\ Times \subseteq Int /\ Limits \subseteq Nat
  BY <1>1, LimitAssumption, TimesAssumption, LimitFacts DEF Times, Starts
<1>3. Active \in [Times -> Nat]
  BY ActiveCount
<1>4. \A x, y : Between(x, y) \subseteq Times /\ IsFiniteSet(Between(x, y))
  BY TimeFacts
\* Only what has left every window of interest is dropped.
<1>5. ASSUME NEW x \in Starts, x >= now - Window
      PROVE  CountIn(Active, Between(x, now)) = Admitted(byLocal, Between(x, now))
  <2> DEFINE B == Between(x, now)
  <2>1. \A t \in B : Active[t] = tracks[t]
    BY <1>2, <1>5 DEF Active, Between
  <2>2. B \subseteq Times /\ IsFiniteSet(B)
    BY <1>4
  <2> HIDE DEF B
  <2>3. CountIn(Active, B) = CountIn(tracks, B)
    BY <1>1, <1>3, <2>1, <2>2, CountSame
  <2>4. QED
    BY <1>5, <2>3 DEF LocalRecorded, B
<1>6. CASE LocalAdmits(c)
  <2>1. /\ tracks' = [Active EXCEPT ![now] = @ + 1]
        /\ byLocal' = [byLocal EXCEPT ![<<now, n>>] = @ + 1]
    BY <1>6 DEF Allow
  <2>2. ASSUME NEW T \in SUBSET Times
        PROVE  /\ Admitted(byLocal', T) = Admitted(byLocal, T) + (IF now \in T THEN 1 ELSE 0)
               /\ \A m \in Limits : UpTo(m, byLocal', T) =
                    UpTo(m, byLocal, T) + (IF now \in T /\ n <= m THEN 1 ELSE 0)
    <3>1. AddsOne(byLocal, byLocal', now, n)
      BY <1>1, <2>1, AddsOneExcept
    <3>2. QED
      BY <3>1, AdmittedOneMore
  <2>3. LocalRecorded'
    <3>1. SUFFICES ASSUME NEW x \in Starts, x >= now - Window
                   PROVE  Admitted(byLocal', Between(x, now)) = CountIn(tracks', Between(x, now))
      BY <1>1 DEF LocalRecorded
    <3> DEFINE B == Between(x, now)
    <3>2. B \subseteq Times /\ IsFiniteSet(B)
      BY <1>4
    <3>3. Admitted(byLocal, B) = CountIn(Active, B)
      BY <1>5, <3>1
    <3> HIDE DEF B
    <3>4. CountIn(tracks', B) = CountIn(Active, B) + (IF now \in B THEN 1 ELSE 0)
      <4>1. tracks' \in [Times -> Nat] /\ tracks'[now] = Active[now] + 1
        BY <1>1, <1>3, <2>1
      <4>2. \A t \in Times : t # now => tracks'[t] = Active[t]
        BY <1>1, <1>3, <2>1
      <4>3. QED
        BY <1>1, <1>3, <3>2, <4>1, <4>2, CountOneMore
    <3>5. QED
      BY <2>2, <3>2, <3>3, <3>4 DEF B
  <2>4. LocalWindow'
    <3>1. SUFFICES ASSUME NEW m \in Limits, NEW t \in Times
                   PROVE  UpTo(m, byLocal', Between(t - Window, t)) <= m
      BY DEF LocalWindow
    <3> DEFINE B == Between(t - Window, t)
               W == Between(now - Window, now)
    <3>2. B \in SUBSET Times /\ W \in SUBSET Times
      BY <1>4
    <3>3. UpTo(m, byLocal, B) <= m
      BY DEF LocalWindow
    <3>4. CASE now \in B /\ n <= m
      <4>1. \A u \in B : \A l \in Limits :
              byLocal[<<u, l>>] = 0 \/ (u \in W /\ byLocal[<<u, l>>] <= byLocal[<<u, l>>])
        <5> SUFFICES ASSUME NEW u \in B, NEW l \in Limits
                     PROVE  byLocal[<<u, l>>] = 0 \/ (u \in W /\ byLocal[<<u, l>>] <= byLocal[<<u, l>>])
          OBVIOUS
        <5>1. u \in Times /\ u \in Int /\ byLocal[<<u, l>>] \in Nat
          BY <1>1, <1>2, <3>2
        <5>2. u > now => byLocal[<<u, l>>] = 0
          BY <5>1 DEF NothingAhead
        <5>3. u <= now => u \in W
          BY <1>2, <3>4, <5>1 DEF Between
        <5>4. u > now \/ u <= now
          BY <1>2, <5>1
        <5>5. byLocal[<<u, l>>] <= byLocal[<<u, l>>]
          BY <5>1
        <5>6. QED
          BY <5>2, <5>3, <5>4, <5>5
      <4>2. Admitted(byLocal, W) < n
        BY <1>6, ActiveCount DEF LocalAdmits
      <4> HIDE DEF B, W
      <4>3. UpTo(m, byLocal, B) <= Admitted(byLocal, W)
        BY <1>1, <3>2, <4>1, AdmittedMonotone
      <4>4. UpTo(m, byLocal', B) = UpTo(m, byLocal, B) + 1
        BY <2>2, <3>2, <3>4
      <4>5. UpTo(m, byLocal, B) \in Nat /\ Admitted(byLocal, W) \in Nat
        BY <1>1, <3>2, AdmittedTyped
      <4>6. n \in Nat /\ m \in Nat
        BY <1>1, <1>2
      <4> HIDE DEF n
      <4>7. QED
        BY <3>4, <4>2, <4>3, <4>4, <4>5, <4>6 DEF B
    <3>5. CASE ~(now \in B /\ n <= m)
      <4>1. UpTo(m, byLocal, B) \in Nat
        BY <1>1, <3>2, AdmittedTyped
      <4>2. UpTo(m, byLocal', B) = UpTo(m, byLocal, B)
        BY <2>2, <3>2, <3>5, <4>1
      <4>3. QED
        BY <3>3, <4>2
    <3>6. QED
      BY <3>4, <3>5
  <2>5. QED
    BY <2>3, <2>4
<1>7. CASE ~LocalAdmits(c)
  <2>1. tracks' = Active /\ byLocal' = byLocal
    BY <1>1, <1>7 DEF Allow
  <2>2. LocalRecorded'
    BY <1>1, <1>5, <2>1 DEF LocalRecorded
  <2>3. LocalWindow'
    BY <2>1 DEF LocalWindow
  <2>4. QED
    BY <2>2, <2>3
<1>8. QED
  BY <1>6, <1>7

\* ------------------------------------------------------------------ the script --

\* The numbers a step is about.
LEMMA Numbers ==
  ASSUME TypeOK
  PROVE  /\ now \in Int /\ now >= 0 /\ now <= MaxTime /\ expiry \in Int
         /\ Window \in Int /\ Window > 0 /\ Patience \in Int /\ Patience >= 0 /\ MaxTime \in Int
         /\ Starts \subseteq Int /\ Times \subseteq Int
         /\ \A c \in Clients : stamp[c] \in Int /\ stamp[c] \in Times
         /\ zset \subseteq Times
         /\ \A x \in Int : 0 - Window - Patience <= x /\ x <= MaxTime => x \in Starts
<1>1. RateLimitMax \in Nat /\ Window \in Nat /\ Window # 0 /\ Patience \in Nat /\ MaxTime \in Nat
  BY LimitAssumption, TimesAssumption
<1>2. now \in 0 .. MaxTime /\ expiry \in Nat /\ zset \subseteq Times
  BY DEF TypeOK, Times
<1>3. \A c \in Clients : stamp[c] \in 0 .. MaxTime
  BY DEF TypeOK, Times
<1>4. QED
  BY <1>1, <1>2, <1>3 DEF Starts, Times

\* The expiry is a number of ticks, and the window itself when it is whole seconds.
LEMMA ExpireFacts ==
  /\ ExpireTicks \in Nat
  /\ Window % Second = 0 => ExpireTicks = Window
<1>1. Window \in Nat /\ Second \in Nat /\ Second > 0
  BY LimitAssumption
<1>2. (Window \div Second) * Second \in Nat
  BY <1>1
<1>3. Window % Second = 0 => (Window \div Second) * Second = Window
  BY <1>1
<1>4. QED
  BY <1>2, <1>3 DEF ExpireTicks

\* A set grows by one at most.
LEMMA OneMore ==
  ASSUME NEW S, IsFiniteSet(S), NEW x
  PROVE  /\ IsFiniteSet(S \cup {x}) /\ Cardinality(S \cup {x}) \in Nat
         /\ Cardinality(S \cup {x}) <= Cardinality(S) + 1
<1> DEFINE U == S \cup {x}
<1>1. /\ IsFiniteSet(U)
      /\ Cardinality(U) = IF x \in S THEN Cardinality(S) ELSE Cardinality(S) + 1
  BY FS_AddElement
<1>2. Cardinality(S) \in Nat
  BY FS_CardinalityType
<1> HIDE DEF U
<1>3. QED
  BY <1>1, <1>2 DEF U

LEMMA SubsetCount ==
  ASSUME NEW B \in SUBSET Times, NEW A \in SUBSET B
  PROVE  /\ IsFiniteSet(A) /\ IsFiniteSet(B)
         /\ Cardinality(A) \in Nat /\ Cardinality(B) \in Nat
         /\ Cardinality(A) <= Cardinality(B)
<1>1. IsFiniteSet(B)
  BY TimeFacts
<1>2. IsFiniteSet(A) /\ Cardinality(A) <= Cardinality(B)
  BY <1>1, FS_Subset
<1>3. QED
  BY <1>1, <1>2, FS_CardinalityType

\* A script leaves the set as what it has seen, with the new member if it admits.
LEMMA ScriptSet ==
  ASSUME NEW s \in Times, NEW n \in Limits, Script(s, n)
  PROVE  /\ Seen(s) \subseteq zset
         /\ Seen(s) \subseteq zset' \/ ExpireTicks = 0
         /\ zset' \subseteq Seen(s) \cup {s}
         /\ Admits(s, n) /\ ExpireTicks # 0 => s \in zset'
         /\ Admits(s, n) => expiry' = now + ExpireTicks
         /\ ~Admits(s, n) => expiry' = expiry /\ byRedis' = byRedis /\ zset' \subseteq zset
BY DEF Script, Seen

\* A request that the shorter window reaches is seen by every script whose clock was
\* read before now, however long ago: ZREMRANGEBYSCORE does not reach so far, and the
\* key has not expired.
LEMMA PassSeen ==
  ASSUME TypeOK, PassedInSet, Window % Second = 0,
         NEW s \in Times, s <= now,
         NEW p \in passed, p.at > now - (Window - Patience)
  PROVE  p.stamp \in Seen(s)
<1>1. p.stamp \in zset /\ p.at + Window <= expiry /\ p.at <= p.stamp + Patience
  BY DEF PassedInSet
<1>2. p.stamp \in Int /\ p.at \in Int /\ s \in Int
  <2>1. p \in [stamp : Times, at : Times, limit : Limits]
    BY DEF TypeOK, Passes
  <2>2. p.stamp \in Times /\ p.at \in Times
    BY <2>1
  <2>3. QED
    BY <2>2, Numbers
<1>3. ~(expiry <= now) /\ p.stamp > s - Window
  BY <1>1, <1>2, Numbers
<1>4. QED
  BY <1>1, <1>3 DEF Seen

\* So a script sees no fewer entries than requests that the window reaches: they are
\* told apart by their clocks.
LEMMA PassesSeen ==
  ASSUME TypeOK, PassedInSet, StampsApart, ~SameTick, Window % Second = 0,
         NEW s \in Times, s <= now
  PROVE  LET S == {p \in passed : p.at > now - (Window - Patience)}
         IN  /\ IsFiniteSet(S) /\ IsFiniteSet(Seen(s))
             /\ Cardinality(S) \in Nat /\ Cardinality(Seen(s)) \in Nat
             /\ Cardinality(S) <= Cardinality(Seen(s))
<1> DEFINE S == {p \in passed : p.at > now - (Window - Patience)}
           f == [p \in S |-> p.stamp]
<1>1. Seen(s) \subseteq Times /\ IsFiniteSet(Seen(s))
  BY Numbers, TimeFacts DEF Seen
<1>2. \A p \in S : p \in passed /\ p.stamp \in Seen(s)
  BY PassSeen
<1>3. \A p, q \in passed : p.stamp = q.stamp => p = q
  BY DEF StampsApart
<1> HIDE DEF S
<1>4. f \in Injection(S, Seen(s))
  BY <1>2, <1>3 DEF Injection, IsInjective
<1> HIDE DEF f
<1>5. IsFiniteSet(S) /\ Cardinality(S) <= Cardinality(Seen(s))
  BY <1>1, <1>4, FS_Injection
<1>6. QED
  BY <1>1, <1>5, FS_CardinalityType DEF S

\* Redis runs a script whose clock was read before, for a request that waits or for
\* nobody: the counts stay counts.
LEMMA ScriptTyped ==
  ASSUME TypeOK, NothingAhead, NEW s \in Times, NEW n \in Limits, Script(s, n)
  PROVE  /\ zset' \subseteq Times /\ expiry' \in Nat
         /\ byRedis' \in [Times \X Limits -> Nat]
         /\ AddsOne(byRedis, byRedis', now, n) \/ (byRedis' = byRedis /\ ~Admits(s, n))
         /\ \A t \in Times : t > now => \A m \in Limits : byRedis'[<<t, m>>] = 0
<1>1. now \in Times /\ now \in Nat /\ expiry \in Nat /\ byRedis \in [Times \X Limits -> Nat]
  BY TimeFacts DEF TypeOK
<1>2. zset' \subseteq Times
  BY ScriptSet, Numbers
<1>3. expiry' \in Nat
  <2>1. expiry' = expiry \/ expiry' = now + ExpireTicks
    BY ScriptSet
  <2>2. QED
    BY <1>1, <2>1, ExpireFacts
<1>4. AddsOne(byRedis, byRedis', now, n) \/ (byRedis' = byRedis /\ ~Admits(s, n))
  <2>1. CASE Admits(s, n)
    <3>1. byRedis' = [byRedis EXCEPT ![<<now, n>>] = @ + 1]
      BY <2>1 DEF Script
    <3>2. QED
      BY <1>1, <3>1, AddsOneExcept
  <2>2. CASE ~Admits(s, n)
    BY <2>2, ScriptSet
  <2>3. QED
    BY <2>1, <2>2
<1>5. byRedis' \in [Times \X Limits -> Nat]
  BY <1>1, <1>4 DEF AddsOne
<1>6. ASSUME NEW t \in Times, t > now, NEW m \in Limits PROVE byRedis'[<<t, m>>] = 0
  <2>1. byRedis[<<t, m>>] = 0
    BY <1>6 DEF NothingAhead
  <2>2. <<t, m>> \in Times \X Limits /\ <<t, m>> # <<now, n>>
    BY <1>6, Numbers
  <2>3. QED
    BY <1>4, <2>1, <2>2 DEF AddsOne
<1>7. QED
  BY <1>2, <1>3, <1>4, <1>5, <1>6

\* No entry is lost of a request that the window reaches, and its key is kept.
LEMMA ScriptKeeps ==
  ASSUME TypeOK, PassedInSet, NEW s \in Times, s <= now, NEW n \in Limits, Script(s, n),
         Window % Second = 0, NEW p \in passed, p.at > now - (Window - Patience)
  PROVE  p.stamp \in zset' /\ p.at + Window <= expiry'
<1>1. p.stamp \in Seen(s) /\ p.at + Window <= expiry /\ p.at <= now
  BY PassSeen DEF PassedInSet
<1>2. ExpireTicks = Window /\ ExpireTicks # 0
  BY ExpireFacts, Numbers
<1>3. p.stamp \in zset'
  BY <1>1, <1>2, ScriptSet
<1>4. expiry' = expiry \/ expiry' = now + Window
  BY <1>2, ScriptSet
<1>5. p.at \in Int
  <2>1. p \in [stamp : Times, at : Times, limit : Limits]
    BY DEF TypeOK, Passes
  <2>2. p.at \in Times
    BY <2>1
  <2>3. QED
    BY <2>2, Numbers
<1>6. p.at + Window <= expiry'
  BY <1>1, <1>4, <1>5, Numbers
<1>7. QED
  BY <1>3, <1>6

\* A new member is the clock of a script that has just admitted.
LEMMA ScriptAdmitted ==
  ASSUME TypeOK, NothingAhead, SetAdmitted, NEW s \in Times, s <= now, NEW n \in Limits,
         Script(s, n), now' = now
  PROVE  SetAdmitted'
<1>1. SUFFICES ASSUME NEW x \in Starts, x >= now - Window - Patience
               PROVE  Cardinality({z \in zset' : z > x}) <= Admitted(byRedis', Between(x, now))
  BY DEF SetAdmitted
<1> DEFINE B == Between(x, now)
           Old == {z \in zset : z > x}
           New == {z \in zset' : z > x}
<1>2. Cardinality(Old) <= Admitted(byRedis, B)
  BY <1>1 DEF SetAdmitted
<1>3. zset \subseteq Times /\ zset' \subseteq zset \cup {s} /\ (~Admits(s, n) => zset' \subseteq zset)
  BY Numbers, ScriptSet
<1>4. s \in Int /\ x \in Int
  BY Numbers
<1>5. B \in SUBSET Times
  BY TimeFacts
<1>6. Old \subseteq Times /\ New \subseteq Old \cup {s} /\ Old \cup {s} \subseteq Times
  BY <1>3
<1>7. byRedis \in [Times \X Limits -> Nat] /\ byRedis' \in [Times \X Limits -> Nat]
  BY ScriptTyped DEF TypeOK
<1>8. CASE Admits(s, n) /\ s > x
  <2>1. now \in B
    BY <1>4, <1>8, Numbers DEF Between, TypeOK
  <2>2. AddsOne(byRedis, byRedis', now, n)
    BY <1>8, ScriptTyped
  <2> HIDE DEF Old, New, B
  <2>3. /\ IsFiniteSet(Old) /\ Cardinality(Old) \in Nat /\ Cardinality(New) \in Nat
        /\ Cardinality(New) <= Cardinality(Old \cup {s})
    BY <1>6, SubsetCount
  <2>4. Cardinality(Old \cup {s}) <= Cardinality(Old) + 1
    BY <2>3, OneMore
  <2>5. Cardinality(Old \cup {s}) \in Nat
    BY <1>6, SubsetCount
  <2>6. Admitted(byRedis', B) = Admitted(byRedis, B) + 1 /\ Admitted(byRedis, B) \in Nat
    <3>1. Admitted(byRedis, B) \in Nat
      BY <1>5, <1>7, AdmittedTyped
    <3>2. Admitted(byRedis', B) = Admitted(byRedis, B) + (IF now \in B THEN 1 ELSE 0)
      BY <1>5, <2>2, AdmittedOneMore
    <3>3. QED
      BY <2>1, <3>1, <3>2
  <2>7. QED
    BY <1>2, <2>3, <2>4, <2>5, <2>6 DEF B, New
<1>9. CASE ~(Admits(s, n) /\ s > x)
  <2>1. New \subseteq Old
    BY <1>3, <1>9
  <2> HIDE DEF Old, New, B
  <2>2. Cardinality(Old) \in Nat /\ Cardinality(New) \in Nat /\ Cardinality(New) <= Cardinality(Old)
    BY <1>6, <2>1, SubsetCount
  <2>3. /\ Admitted(byRedis, B) \in Nat /\ Admitted(byRedis', B) \in Nat
        /\ Admitted(byRedis, B) <= Admitted(byRedis', B)
    <3>1. Admitted(byRedis, B) \in Nat /\ Admitted(byRedis', B) \in Nat
      BY <1>5, <1>7, AdmittedTyped
    <3>2. CASE byRedis' = byRedis
      BY <3>1, <3>2
    <3>3. CASE AddsOne(byRedis, byRedis', now, n)
      BY <1>5, <3>1, <3>3, AdmittedOneMore
    <3>4. QED
      BY <3>1, <3>2, <3>3, ScriptTyped
  <2>4. QED
    BY <1>2, <2>2, <2>3 DEF B, New
<1>10. QED
  BY <1>8, <1>9

\* The reply lets the request through: what the window held was in what the script
\* has seen, which is less than the limit.
LEMMA LetThrough ==
  ASSUME TypeOK, StampsApart, PassedInSet, RedisWindow,
         NEW s \in Times, s <= now, NEW n \in Limits, Admits(s, n),
         passed' = passed \cup {[stamp |-> s, at |-> now, limit |-> n]}
  PROVE  RedisWindow'
<1> DEFINE new == [stamp |-> s, at |-> now, limit |-> n]
           S == {p \in passed : p.at > now - (Window - Patience)}
<1>1. SUFFICES ASSUME ~SameTick, Window % Second = 0, NEW m \in Limits, NEW t \in Times
               PROVE  Cardinality(PassedUpTo(m, t)') <= m
  BY DEF RedisWindow
<1> DEFINE Old == PassedUpTo(m, t)
           New == PassedUpTo(m, t)'
           B == Between(t - (Window - Patience), t)
<1>2. New = {p \in passed \cup {new} : p.at \in B /\ p.limit <= m}
  BY DEF PassedUpTo
<1>3. Old = {p \in passed : p.at \in B /\ p.limit <= m}
  BY DEF PassedUpTo
<1>4. /\ IsFiniteSet(S) /\ Cardinality(S) \in Nat /\ Cardinality(Seen(s)) \in Nat
      /\ Cardinality(S) <= Cardinality(Seen(s))
  BY <1>1, PassesSeen
<1>5. Cardinality(Seen(s)) < n /\ n \in Nat /\ m \in Nat
  BY LimitFacts DEF Admits
<1>6. new.at = now /\ new.limit = n
  OBVIOUS
<1> HIDE DEF new, B
<1>7. CASE now \in B /\ n <= m
  <2>1. t \in Int /\ now <= t /\ t - (Window - Patience) < now
    BY <1>7, Numbers DEF Between, B
  <2>2. ASSUME NEW p \in New PROVE p \in S \cup {new}
    <3>1. CASE p = new
      BY <3>1
    <3>2. CASE p # new
      <4>1. p \in passed /\ p.at \in B
        BY <1>2, <3>2
      <4>2. p.at \in Int /\ t - (Window - Patience) < p.at
        BY <4>1, Numbers DEF B, Between
      <4>3. p.at > now - (Window - Patience)
        BY <2>1, <4>2, Numbers
      <4>4. QED
        BY <4>1, <4>3
    <3>3. QED
      BY <3>1, <3>2
  <2> HIDE DEF S, New
  <2>3. New \subseteq S \cup {new}
    BY <2>2
  <2>4. IsFiniteSet(S \cup {new}) /\ Cardinality(S \cup {new}) <= Cardinality(S) + 1
    BY <1>4, OneMore
  <2>5. IsFiniteSet(New) /\ Cardinality(New) <= Cardinality(S \cup {new})
    BY <2>3, <2>4, FS_Subset
  <2>6. Cardinality(New) \in Nat /\ Cardinality(S \cup {new}) \in Nat
    BY <2>4, <2>5, FS_CardinalityType
  <2>7. QED
    BY <1>4, <1>5, <1>7, <2>4, <2>5, <2>6 DEF New
<1>8. CASE ~(now \in B /\ n <= m)
  <2>1. New = Old
    BY <1>2, <1>3, <1>6, <1>8
  <2>2. Cardinality(Old) <= m
    BY <1>1 DEF RedisWindow
  <2>3. QED
    BY <2>1, <2>2
<1>9. QED
  BY <1>7, <1>8

\* ---------------------------------------------------------------- the clock --

\* Nothing that a window looks back at is forgotten when the clock moves.
LEMMA RecentSame ==
  ASSUME TypeOK, NothingAhead, NEW f, f = byRedis \/ f = byLocal
  PROVE  /\ Recent(f) \in [Times \X Limits -> Nat]
         /\ \A t \in Times : \A n \in Limits :
              /\ f[<<t, n>>] \in Nat
              /\ Recent(f)[<<t, n>>] = IF t > now - Window - Patience THEN f[<<t, n>>] ELSE 0
              /\ Recent(f)[<<t, n>>] <= f[<<t, n>>]
              /\ t > now => f[<<t, n>>] = 0
<1>1. f \in [Times \X Limits -> Nat]
  BY DEF TypeOK
<1>2. ASSUME NEW x \in Times \X Limits PROVE f[x] \in Nat /\ (IF x[1] > now - Window - Patience THEN f[x] ELSE 0) \in Nat
  BY <1>1
<1>3. Recent(f) \in [Times \X Limits -> Nat]
  BY <1>2 DEF Recent
<1>4. ASSUME NEW t \in Times, NEW n \in Limits
      PROVE  /\ f[<<t, n>>] \in Nat
             /\ Recent(f)[<<t, n>>] = IF t > now - Window - Patience THEN f[<<t, n>>] ELSE 0
  <2>1. <<t, n>> \in Times \X Limits
    OBVIOUS
  <2>2. Recent(f)[<<t, n>>] = IF <<t, n>>[1] > now - Window - Patience THEN f[<<t, n>>] ELSE 0
    BY <2>1 DEF Recent
  <2>3. QED
    BY <1>2, <2>1, <2>2
<1>5. ASSUME NEW t \in Times, NEW n \in Limits
      PROVE  /\ Recent(f)[<<t, n>>] <= f[<<t, n>>]
             /\ t > now => f[<<t, n>>] = 0
  BY <1>4 DEF NothingAhead
<1>6. QED
  BY <1>3, <1>4, <1>5

\* A window that starts at x holds the same when the clock moves.
LEMMA TickWindow ==
  ASSUME TypeOK, NothingAhead, NEW f, f = byRedis \/ f = byLocal,
         NEW x \in Starts, x >= now + 1 - Window - Patience
  PROVE  Admitted(Recent(f), Between(x, now + 1)) = Admitted(f, Between(x, now))
<1> DEFINE T == Between(x, now + 1)
           U == Between(x, now)
<1>1. T \in SUBSET Times /\ U \in SUBSET Times
  BY TimeFacts
<1>2. f \in [Times \X Limits -> Nat] /\ Recent(f) \in [Times \X Limits -> Nat]
  BY RecentSame DEF TypeOK
<1>3. x \in Int
  BY Numbers
<1>4. ASSUME NEW t \in T, NEW n \in Limits
      PROVE  Recent(f)[<<t, n>>] = 0 \/ (t \in U /\ Recent(f)[<<t, n>>] <= f[<<t, n>>])
  <2>1. t \in Times /\ t \in Int /\ x < t /\ t <= now + 1
    BY <1>1, Numbers DEF Between
  <2>2. /\ f[<<t, n>>] \in Nat
        /\ Recent(f)[<<t, n>>] = IF t > now - Window - Patience THEN f[<<t, n>>] ELSE 0
        /\ t > now => f[<<t, n>>] = 0
    BY <2>1, RecentSame
  <2>3. CASE t > now
    BY <2>2, <2>3
  <2>4. CASE ~(t > now)
    <3>1. t \in U
      BY <2>1, <2>4, Numbers DEF Between
    <3>2. QED
      BY <2>2, <3>1
  <2>5. QED
    BY <2>3, <2>4
<1>5. ASSUME NEW t \in U, NEW n \in Limits
      PROVE  f[<<t, n>>] = 0 \/ (t \in T /\ f[<<t, n>>] <= Recent(f)[<<t, n>>])
  <2>1. t \in Times /\ t \in Int /\ x < t /\ t <= now
    BY <1>1, Numbers DEF Between
  <2>2. t \in T /\ t > now - Window - Patience
    BY <1>3, <2>1, Numbers DEF Between
  <2>3. f[<<t, n>>] \in Nat /\ Recent(f)[<<t, n>>] = f[<<t, n>>]
    BY <2>1, <2>2, RecentSame
  <2>4. QED
    BY <2>2, <2>3
<1> HIDE DEF T, U
<1>6. Admitted(Recent(f), T) <= Admitted(f, U)
  BY <1>1, <1>2, <1>4, AdmittedMonotone
<1>7. Admitted(f, U) <= Admitted(Recent(f), T)
  BY <1>1, <1>2, <1>5, AdmittedMonotone
<1>8. Admitted(Recent(f), T) \in Nat /\ Admitted(f, U) \in Nat
  BY <1>1, <1>2, AdmittedTyped
<1>9. QED
  BY <1>6, <1>7, <1>8 DEF T, U

\* No window holds more than before.
LEMMA TickUpTo ==
  ASSUME TypeOK, NothingAhead, NEW f, f = byRedis \/ f = byLocal,
         NEW T \in SUBSET Times, NEW m \in Limits
  PROVE  /\ UpTo(m, Recent(f), T) <= UpTo(m, f, T)
         /\ UpTo(m, Recent(f), T) \in Nat /\ UpTo(m, f, T) \in Nat
<1>1. f \in [Times \X Limits -> Nat] /\ Recent(f) \in [Times \X Limits -> Nat]
  BY RecentSame DEF TypeOK
<1>2. \A t \in T : \A n \in Limits :
        Recent(f)[<<t, n>>] = 0 \/ (t \in T /\ Recent(f)[<<t, n>>] <= f[<<t, n>>])
  BY RecentSame
<1>3. UpTo(m, Recent(f), T) <= UpTo(m, f, T)
  BY <1>1, <1>2, AdmittedMonotone
<1>4. QED
  BY <1>1, <1>3, AdmittedTyped

\* --------------------------------------------------------- the steps, one by one --

LEMMA TickStep ==
  ASSUME IndInv, Tick
  PROVE  IndInv'
<1>1. TypeOK /\ OnTheWay /\ LateOnes /\ NothingAhead /\ LocalRecorded /\ LocalWindow
      /\ StampsApart /\ PassedInSet /\ RedisWindow /\ SetAdmitted
  BY DEF IndInv
<1>2. /\ now' = now + 1 /\ now + 1 \in Times
      /\ \A c \in Clients : pc[c] = "redis" => now < stamp[c] + Patience
      /\ byRedis' = Recent(byRedis) /\ byLocal' = Recent(byLocal)
      /\ passed' = {p \in passed : p.at > now + 1 - (Window - Patience)}
      /\ pc' = pc /\ limit' = limit /\ stamp' = stamp /\ sent' = sent /\ late' = late
      /\ zset' = zset /\ expiry' = expiry /\ tracks' = tracks
  BY <1>1, Numbers DEF Tick, Times
<1>3. TypeOK'
  <2>1. byRedis' \in [Times \X Limits -> Nat] /\ byLocal' \in [Times \X Limits -> Nat]
    BY <1>1, <1>2, RecentSame
  <2>2. QED
    BY <1>1, <1>2, <2>1 DEF TypeOK
<1>4. OnTheWay'
  <2>1. \A c \in Clients : stamp[c] <= now + 1
    BY <1>1, Numbers DEF OnTheWay
  <2>2. \A c \in Clients : pc[c] = "redis" => now + 1 <= stamp[c] + Patience
    BY <1>1, <1>2, Numbers
  <2>3. QED
    BY <1>1, <1>2, <2>1, <2>2 DEF OnTheWay
<1>5. NothingAhead'
  <2>1. SUFFICES ASSUME NEW t \in Times, t > now + 1
                 PROVE  /\ tracks[t] = 0
                        /\ \A n \in Limits : byRedis'[<<t, n>>] = 0 /\ byLocal'[<<t, n>>] = 0
    BY <1>2 DEF NothingAhead
  <2>2. t > now
    BY <1>1, <2>1, Numbers
  <2>3. ASSUME NEW n \in Limits, NEW f, f = byRedis \/ f = byLocal PROVE Recent(f)[<<t, n>>] = 0
    BY <1>1, <2>2, <2>3, RecentSame
  <2>4. QED
    BY <1>1, <1>2, <2>2, <2>3 DEF NothingAhead
<1>6. LocalRecorded'
  <2>1. SUFFICES ASSUME NEW x \in Starts, x >= now' - Window
                 PROVE  Admitted(byLocal', Between(x, now')) = CountIn(tracks', Between(x, now'))
    BY DEF LocalRecorded
  <2> DEFINE T == Between(x, now + 1)
             U == Between(x, now)
  <2>2. x \in Int /\ x >= now - Window /\ x >= now + 1 - Window - Patience
    BY <1>1, <1>2, <2>1, Numbers
  <2>3. Admitted(Recent(byLocal), T) = Admitted(byLocal, U)
    BY <1>1, <2>2, TickWindow
  <2>4. Admitted(byLocal, U) = CountIn(tracks, U)
    BY <1>1, <2>2 DEF LocalRecorded
  <2>5. /\ T \in SUBSET Times /\ U \in SUBSET Times /\ IsFiniteSet(T) /\ IsFiniteSet(U)
        /\ tracks \in [Times -> Nat]
    BY <1>1, TimeFacts DEF TypeOK
  <2>6. \A t \in T : tracks[t] = 0 \/ (t \in U /\ tracks[t] = tracks[t])
    BY <1>1, <2>2, Numbers DEF NothingAhead, Between
  <2>7. \A t \in U : t \in T /\ tracks[t] = tracks[t]
    BY <1>1, <2>2, Numbers DEF Between
  <2> HIDE DEF T, U
  <2>8. CountIn(tracks, T) = CountIn(tracks, U)
    BY <2>5, <2>6, <2>7, CountSame
  <2>9. QED
    BY <1>2, <2>3, <2>4, <2>8 DEF T
<1>7. LocalWindow'
  <2>1. SUFFICES ASSUME NEW n \in Limits, NEW t \in Times
                 PROVE  UpTo(n, Recent(byLocal), Between(t - Window, t)) <= n
    BY <1>2 DEF LocalWindow
  <2> DEFINE B == Between(t - Window, t)
  <2>2. UpTo(n, byLocal, B) <= n /\ n \in Nat /\ B \in SUBSET Times
    BY <1>1, TimeFacts, LimitFacts DEF LocalWindow
  <2> HIDE DEF B
  <2>3. QED
    BY <1>1, <2>2, TickUpTo DEF B
<1>8. passed' \subseteq passed
  BY <1>2
<1>9. StampsApart'
  BY <1>1, <1>2, <1>8 DEF StampsApart
<1>10. PassedInSet'
  <2>1. IsFiniteSet(passed')
    BY <1>1, <1>8, FS_Subset DEF PassedInSet
  <2>2. SUFFICES ASSUME NEW p \in passed'
                 PROVE  /\ p.stamp <= p.at /\ p.at <= p.stamp + Patience /\ p.at <= now + 1
                        /\ Window % Second = 0 => p.stamp \in zset /\ p.at + Window <= expiry
    BY <1>2, <2>1 DEF PassedInSet
  <2>3. p \in passed /\ p.at > now + 1 - (Window - Patience)
    BY <1>2
  <2>4. p.at \in Int
    <3>1. p \in [stamp : Times, at : Times, limit : Limits]
      BY <1>1, <2>3 DEF TypeOK, Passes
    <3>2. p.at \in Times
      BY <3>1
    <3>3. QED
      BY <1>1, <3>2, Numbers
  <2>5. p.stamp <= p.at /\ p.at <= p.stamp + Patience /\ p.at <= now
    BY <1>1, <2>3 DEF PassedInSet
  <2>6. p.at <= now + 1 /\ p.at > now - (Window - Patience)
    BY <1>1, <2>3, <2>4, <2>5, Numbers
  <2>7. QED
    BY <1>1, <2>3, <2>5, <2>6 DEF PassedInSet
<1>11. RedisWindow'
  <2>1. SUFFICES ASSUME ~SameTick, Window % Second = 0, NEW n \in Limits, NEW t \in Times
                 PROVE  Cardinality(PassedUpTo(n, t)') <= n
    BY DEF RedisWindow
  <2>2. PassedUpTo(n, t)' \subseteq PassedUpTo(n, t) /\ PassedUpTo(n, t) \subseteq passed
    BY <1>8 DEF PassedUpTo
  <2>3. IsFiniteSet(PassedUpTo(n, t))
    BY <1>1, <2>2, FS_Subset DEF PassedInSet
  <2>4. /\ IsFiniteSet(PassedUpTo(n, t)')
        /\ Cardinality(PassedUpTo(n, t)') <= Cardinality(PassedUpTo(n, t))
    BY <2>2, <2>3, FS_Subset
  <2>5. Cardinality(PassedUpTo(n, t)') \in Nat /\ Cardinality(PassedUpTo(n, t)) \in Nat
    BY <2>3, <2>4, FS_CardinalityType
  <2>6. Cardinality(PassedUpTo(n, t)) <= n /\ n \in Nat
    BY <1>1, <2>1, LimitFacts DEF RedisWindow
  <2>7. QED
    BY <2>4, <2>5, <2>6
<1>12. SetAdmitted'
  <2>1. SUFFICES ASSUME NEW x \in Starts, x >= now' - Window - Patience
                 PROVE  Cardinality({z \in zset' : z > x}) <= Admitted(byRedis', Between(x, now'))
    BY DEF SetAdmitted
  <2>2. x >= now - Window - Patience /\ x >= now + 1 - Window - Patience
    BY <1>1, <1>2, <2>1, Numbers
  <2>3. Admitted(Recent(byRedis), Between(x, now + 1)) = Admitted(byRedis, Between(x, now))
    BY <1>1, <2>2, TickWindow
  <2>4. QED
    BY <1>1, <1>2, <2>2, <2>3 DEF SetAdmitted
<1>13. LateOnes'
  <2>1. SUFFICES ASSUME NEW m \in late PROVE m.stamp <= now + 1
    BY <1>2 DEF LateOnes
  <2>2. m.stamp <= now
    BY <1>1 DEF LateOnes
  <2>3. m.stamp \in Int
    <3>1. m \in [stamp : Times, limit : Limits]
      BY <1>1 DEF TypeOK, Scripts
    <3>2. m.stamp \in Times
      BY <3>1
    <3>3. QED
      BY <1>1, <3>2, Numbers
  <2>4. QED
    BY <1>1, <2>2, <2>3, Numbers
<1>14. QED
  BY <1>3, <1>4, <1>5, <1>6, <1>7, <1>9, <1>10, <1>11, <1>12, <1>13 DEF IndInv

LEMMA ArriveStep ==
  ASSUME IndInv, NEW c \in Clients, Arrive(c)
  PROVE  IndInv'
<1>1. TypeOK /\ OnTheWay /\ LateOnes /\ NothingAhead /\ LocalRecorded /\ LocalWindow
      /\ StampsApart /\ PassedInSet /\ RedisWindow /\ SetAdmitted
  BY DEF IndInv
<1>2. PICK n \in Limits : limit' = [limit EXCEPT ![c] = n]
  BY DEF Arrive, Limits
<1>3. /\ stamp' = [stamp EXCEPT ![c] = now] /\ pc' = [pc EXCEPT ![c] = "redis"]
      /\ sent' = [sent EXCEPT ![c] = 1]
      /\ SameTick \/ \A d \in Clients : stamp[d] < now
      /\ now' = now /\ zset' = zset /\ expiry' = expiry /\ tracks' = tracks
      /\ late' = late /\ passed' = passed /\ byRedis' = byRedis /\ byLocal' = byLocal
  BY DEF Arrive
<1>4. TypeOK'
  <2>1. 1 \in 0 .. Attempts
    BY AttemptsAssumption
  <2>2. sent' \in [Clients -> 0 .. Attempts]
    BY <1>1, <1>3, <2>1 DEF TypeOK
  <2>3. QED
    BY <1>1, <1>2, <1>3, <2>2 DEF TypeOK
<1>5. OnTheWay'
  <2>1. SUFFICES ASSUME NEW d \in Clients
                 PROVE  /\ pc'[d] # "idle" => limit'[d] \in Limits
                        /\ stamp'[d] <= now
                        /\ pc'[d] = "redis" => now <= stamp'[d] + Patience
    BY <1>3 DEF OnTheWay
  <2>2. CASE d = c
    <3>1. limit'[d] = n /\ stamp'[d] = now
      BY <1>1, <1>2, <1>3, <2>2 DEF TypeOK
    <3>2. QED
      BY <1>1, <3>1, Numbers
  <2>3. CASE d # c
    <3>1. pc'[d] = pc[d] /\ limit'[d] = limit[d] /\ stamp'[d] = stamp[d]
      BY <1>1, <1>2, <1>3, <2>3 DEF TypeOK
    <3>2. QED
      BY <1>1, <3>1 DEF OnTheWay
  <2>4. QED
    BY <2>2, <2>3
<1>6. NothingAhead' /\ LateOnes'
  BY <1>1, <1>3 DEF NothingAhead, LateOnes
<1>7. LocalRecorded' /\ LocalWindow'
  BY <1>1, <1>3, LocalFrame
\* This request reads a millisecond that nobody has read before.
<1>8. StampsApart'
  <2>1. SUFFICES ASSUME ~SameTick
                 PROVE  /\ \A d, e \in Clients : pc'[d] = "redis" /\ stamp'[d] = stamp'[e] => d = e
                        /\ \A p \in passed : \A d \in Clients : pc'[d] = "redis" => p.stamp # stamp'[d]
                        /\ \A p \in passed : \E d \in Clients : p.stamp <= stamp'[d]
    BY <1>1, <1>3 DEF StampsApart
  <2>2. \A d \in Clients : stamp[d] < now /\ stamp[d] \in Int
    BY <1>1, <1>3, <2>1, Numbers
  <2>3. stamp'[c] = now /\ now \in Int
    BY <1>1, <1>3, Numbers DEF TypeOK
  <2>4. \A d \in Clients : d # c => stamp'[d] = stamp[d] /\ pc'[d] = pc[d]
    BY <1>1, <1>3 DEF TypeOK
  <2>5. /\ \A d, e \in Clients : pc[d] = "redis" /\ stamp[d] = stamp[e] => d = e
        /\ \A p \in passed : \A d \in Clients : pc[d] = "redis" => p.stamp # stamp[d]
        /\ \A p \in passed : \E d \in Clients : p.stamp <= stamp[d]
    BY <1>1, <2>1 DEF StampsApart
  <2>6. \A d, e \in Clients : pc'[d] = "redis" /\ stamp'[d] = stamp'[e] => d = e
    <3>1. SUFFICES ASSUME NEW d \in Clients, NEW e \in Clients,
                          pc'[d] = "redis", stamp'[d] = stamp'[e]
                   PROVE  d = e
      OBVIOUS
    <3>2. CASE d = c \/ e = c
      BY <2>2, <2>3, <2>4, <3>1, <3>2
    <3>3. CASE d # c /\ e # c
      BY <2>4, <2>5, <3>1, <3>3
    <3>4. QED
      BY <3>2, <3>3
  <2>7. ASSUME NEW p \in passed PROVE p.stamp \in Int /\ p.stamp < now
    <3>1. PICK d \in Clients : p.stamp <= stamp[d]
      BY <2>5
    <3>2. p \in [stamp : Times, at : Times, limit : Limits]
      BY <1>1 DEF TypeOK, Passes
    <3>3. p.stamp \in Times
      BY <3>2
    <3>4. p.stamp \in Int
      BY <1>1, <3>3, Numbers
    <3>5. QED
      BY <2>2, <2>3, <3>1, <3>4
  <2>8. \A p \in passed : \A d \in Clients : pc'[d] = "redis" => p.stamp # stamp'[d]
    <3>1. SUFFICES ASSUME NEW p \in passed, NEW d \in Clients, pc'[d] = "redis"
                   PROVE  p.stamp # stamp'[d]
      OBVIOUS
    <3>2. CASE d = c
      BY <2>3, <2>7, <3>2
    <3>3. CASE d # c
      BY <2>4, <2>5, <3>1, <3>3
    <3>4. QED
      BY <3>2, <3>3
  <2>9. \A p \in passed : p.stamp <= stamp'[c]
    BY <2>3, <2>7
  <2>10. QED
    BY <2>6, <2>8, <2>9
<1>9. PassedInSet' /\ RedisWindow' /\ SetAdmitted'
  BY <1>1, <1>3, RedisFrame
<1>10. QED
  BY <1>4, <1>5, <1>6, <1>7, <1>8, <1>9 DEF IndInv

\* A request that is answered or passed on, sends its script again or falls back.
LEMMA GoesOn ==
  ASSUME TypeOK, OnTheWay, NEW c \in Clients, pc[c] # "idle", now' = now, stamp' = stamp,
         Leave(c) \/ (GivesUp(c) /\ limit' = limit)
  PROVE  /\ pc' \in [Clients -> {"idle", "redis", "local"}]
         /\ limit' \in [Clients -> Limits \cup {0}]
         /\ sent' \in [Clients -> 0 .. Attempts]
         /\ OnTheWay'
         /\ Leave(c) => pc'[c] = "idle"
         /\ \A d \in Clients : pc'[d] = "redis" => pc[d] = "redis" \/ d = c
         /\ \A d \in Clients : d # c => pc'[d] = pc[d]
<1>0. 0 \in 0 .. Attempts /\ sent \in [Clients -> 0 .. Attempts]
  BY AttemptsAssumption DEF TypeOK
<1>1. CASE Leave(c)
  <2>1. /\ pc' = [pc EXCEPT ![c] = "idle"] /\ limit' = [limit EXCEPT ![c] = 0]
        /\ sent' = [sent EXCEPT ![c] = 0]
    BY <1>1 DEF Leave
  <2>2. pc' \in [Clients -> {"idle", "redis", "local"}]
    BY <2>1 DEF TypeOK
  <2>3. limit' \in [Clients -> Limits \cup {0}]
    BY <2>1 DEF TypeOK
  <2>4. /\ pc'[c] = "idle"
        /\ \A d \in Clients : d # c => pc'[d] = pc[d] /\ limit'[d] = limit[d]
    BY <2>1 DEF TypeOK
  <2>5. OnTheWay'
    BY <2>4 DEF OnTheWay
  <2>6. sent' \in [Clients -> 0 .. Attempts]
    BY <1>0, <2>1
  <2>7. QED
    BY <2>2, <2>3, <2>4, <2>5, <2>6
<1>2. CASE GivesUp(c) /\ limit' = limit /\ ~Leave(c)
  <2>1. pc' = pc \/ pc' = [pc EXCEPT ![c] = "local"]
    BY <1>2 DEF GivesUp
  <2>2. pc' \in [Clients -> {"idle", "redis", "local"}]
    BY <2>1 DEF TypeOK
  <2>3. /\ pc'[c] = pc[c] \/ pc'[c] = "local"
        /\ \A d \in Clients : d # c => pc'[d] = pc[d]
    BY <2>1 DEF TypeOK
  <2>4. OnTheWay'
    BY <1>2, <2>3 DEF OnTheWay
  <2>5. sent' \in [Clients -> 0 .. Attempts]
    <3>1. CASE sent[c] < Attempts /\ sent' = [sent EXCEPT ![c] = @ + 1]
      <4>1. sent[c] + 1 \in 0 .. Attempts
        BY <1>0, <3>1, AttemptsAssumption
      <4>2. QED
        BY <1>0, <3>1, <4>1
    <3>2. CASE sent' = [sent EXCEPT ![c] = 0]
      BY <1>0, <3>2
    <3>3. QED
      BY <1>2, <3>1, <3>2 DEF GivesUp
  <2>6. limit' \in [Clients -> Limits \cup {0}]
    BY <1>2 DEF TypeOK
  <2>7. QED
    BY <1>2, <2>2, <2>3, <2>4, <2>5, <2>6
<1>3. QED
  BY <1>1, <1>2

LEMMA EvalStep ==
  ASSUME IndInv, NEW c \in Clients, Eval(c)
  PROVE  IndInv'
<1> DEFINE s == stamp[c]
           n == limit[c]
           new == [stamp |-> s, at |-> now, limit |-> n]
<1>1. TypeOK /\ OnTheWay /\ LateOnes /\ NothingAhead /\ LocalRecorded /\ LocalWindow
      /\ StampsApart /\ PassedInSet /\ RedisWindow /\ SetAdmitted
  BY DEF IndInv
<1>2. /\ pc[c] = "redis" /\ Script(s, n)
      /\ now' = now /\ stamp' = stamp /\ late' = late /\ tracks' = tracks /\ byLocal' = byLocal
      /\ n \in Limits /\ s \in Times /\ s <= now /\ now <= s + Patience /\ now \in Times
  BY <1>1 DEF Eval, OnTheWay, TypeOK
<1>3. \/ Leave(c) /\ passed' = passed
      \/ Leave(c) /\ Admits(s, n) /\ passed' = passed \cup {new}
      \/ GivesUp(c) /\ limit' = limit /\ passed' = passed
  BY DEF Eval
<1>4. /\ pc' \in [Clients -> {"idle", "redis", "local"}]
      /\ limit' \in [Clients -> Limits \cup {0}]
      /\ sent' \in [Clients -> 0 .. Attempts]
      /\ OnTheWay'
      /\ Leave(c) => pc'[c] = "idle"
      /\ \A d \in Clients : pc'[d] = "redis" => pc[d] = "redis"
  BY <1>1, <1>2, <1>3, GoesOn
<1>5. new \in Passes /\ new.stamp = s /\ new.at = now /\ new.limit = n
  BY <1>2 DEF Passes
<1> HIDE DEF s, n, new
<1>6. TypeOK'
  <2>1. passed' \subseteq Passes
    BY <1>1, <1>3, <1>5 DEF TypeOK
  <2>2. /\ zset' \subseteq Times /\ expiry' \in Nat
        /\ byRedis' \in [Times \X Limits -> Nat]
    BY <1>1, <1>2, ScriptTyped
  <2>3. QED
    BY <1>1, <1>2, <1>4, <2>1, <2>2 DEF TypeOK
<1>7. NothingAhead'
  BY <1>1, <1>2, ScriptTyped DEF NothingAhead
<1>8. LocalRecorded' /\ LocalWindow' /\ LateOnes'
  BY <1>1, <1>2, LocalFrame DEF LateOnes
<1>9. SetAdmitted'
  BY <1>1, <1>2, ScriptAdmitted
\* The request that is let through waits no longer.
<1>10. StampsApart'
  <2>1. SUFFICES ASSUME ~SameTick
                 PROVE  /\ \A d, e \in Clients : pc'[d] = "redis" /\ stamp[d] = stamp[e] => d = e
                        /\ \A p, q \in passed' : p.stamp = q.stamp => p = q
                        /\ \A p \in passed' : \A d \in Clients : pc'[d] = "redis" => p.stamp # stamp[d]
                        /\ \A p \in passed' : \E d \in Clients : p.stamp <= stamp[d]
    BY <1>2 DEF StampsApart
  <2>2. /\ \A d, e \in Clients : pc[d] = "redis" /\ stamp[d] = stamp[e] => d = e
        /\ \A p, q \in passed : p.stamp = q.stamp => p = q
        /\ \A p \in passed : \A d \in Clients : pc[d] = "redis" => p.stamp # stamp[d]
        /\ \A p \in passed : \E d \in Clients : p.stamp <= stamp[d]
    BY <1>1, <2>1 DEF StampsApart
  <2>3. \A d, e \in Clients : pc'[d] = "redis" /\ stamp[d] = stamp[e] => d = e
    BY <1>4, <2>2
  <2>4. CASE passed' = passed
    BY <1>4, <2>2, <2>3, <2>4
  <2>5. CASE Leave(c) /\ passed' = passed \cup {new}
    <3>1. \A p \in passed : p.stamp # s
      BY <1>2, <2>2 DEF s
    <3>2. \A d \in Clients : pc'[d] = "redis" => s # stamp[d]
      <4>1. SUFFICES ASSUME NEW d \in Clients, pc'[d] = "redis", s = stamp[d] PROVE FALSE
        OBVIOUS
      <4>2. d = c
        BY <1>4, <2>2, <4>1 DEF s
      <4>3. QED
        BY <1>4, <2>5, <4>1, <4>2
    <3>3. s <= stamp[c]
      BY <1>1, <1>2, Numbers DEF s
    <3>4. \A p, q \in passed' : p.stamp = q.stamp => p = q
      BY <1>5, <2>2, <2>5, <3>1
    <3>5. \A p \in passed' : \A d \in Clients : pc'[d] = "redis" => p.stamp # stamp[d]
      BY <1>4, <1>5, <2>2, <2>5, <3>2
    <3>6. \A p \in passed' : \E d \in Clients : p.stamp <= stamp[d]
      BY <1>5, <2>2, <2>5, <3>3
    <3>7. QED
      BY <2>3, <3>4, <3>5, <3>6
  <2>6. QED
    BY <1>3, <2>4, <2>5
<1>11. PassedInSet'
  <2>1. IsFiniteSet(passed')
    BY <1>1, <1>3, FS_AddElement DEF PassedInSet
  <2>2. SUFFICES ASSUME NEW p \in passed'
                 PROVE  /\ p.stamp <= p.at /\ p.at <= p.stamp + Patience /\ p.at <= now
                        /\ Window % Second = 0 /\ p.at > now - (Window - Patience) =>
                             p.stamp \in zset' /\ p.at + Window <= expiry'
    BY <1>2, <2>1 DEF PassedInSet
  <2>3. CASE p \in passed
    <3>1. p.stamp <= p.at /\ p.at <= p.stamp + Patience /\ p.at <= now
      BY <1>1, <2>3 DEF PassedInSet
    <3>2. QED
      BY <1>1, <1>2, <2>3, <3>1, ScriptKeeps
  <2>4. CASE p = new /\ Admits(s, n)
    <3>1. p.stamp = s /\ p.at = now
      BY <1>5, <2>4
    <3>2. Window % Second = 0 => s \in zset' /\ now + Window <= expiry'
      <4>1. SUFFICES ASSUME Window % Second = 0 PROVE s \in zset' /\ now + Window <= expiry'
        OBVIOUS
      <4>2. ExpireTicks = Window /\ ExpireTicks # 0
        BY <1>1, <4>1, ExpireFacts, Numbers
      <4>3. s \in zset' /\ expiry' = now + ExpireTicks
        BY <1>2, <2>4, <4>2, ScriptSet
      <4>4. QED
        BY <1>1, <4>2, <4>3, Numbers
    <3>3. now <= now
      BY <1>1, Numbers
    <3>4. QED
      BY <1>2, <3>1, <3>2, <3>3
  <2>5. QED
    BY <1>3, <2>3, <2>4
<1>12. RedisWindow'
  <2>1. CASE passed' = passed
    BY <1>1, <2>1 DEF RedisWindow, PassedUpTo
  <2>2. CASE Admits(s, n) /\ passed' = passed \cup {new}
    BY <1>1, <1>2, <2>2, LetThrough DEF new
  <2>3. QED
    BY <1>3, <2>1, <2>2
<1>13. QED
  BY <1>4, <1>6, <1>7, <1>8, <1>9, <1>10, <1>11, <1>12 DEF IndInv

LEMMA AbandonStep ==
  ASSUME IndInv, NEW c \in Clients, Abandon(c)
  PROVE  IndInv'
<1>1. TypeOK /\ OnTheWay /\ LateOnes /\ NothingAhead /\ LocalRecorded /\ LocalWindow
      /\ StampsApart /\ PassedInSet /\ RedisWindow /\ SetAdmitted
  BY DEF IndInv
<1>2. /\ pc[c] = "redis" /\ GivesUp(c) /\ limit[c] \in Limits
      /\ UNCHANGED <<now, limit, stamp, zset, expiry, tracks, passed, byRedis, byLocal>>
  BY <1>1 DEF Abandon, OnTheWay
<1>3. /\ pc' \in [Clients -> {"idle", "redis", "local"}]
      /\ sent' \in [Clients -> 0 .. Attempts]
      /\ OnTheWay'
      /\ \A d \in Clients : pc'[d] = "redis" => pc[d] = "redis"
  BY <1>1, <1>2, GoesOn
<1>4. /\ late' \subseteq Scripts
      /\ \A m \in late' : m.stamp <= now
  <2> DEFINE new == [stamp |-> stamp[c], limit |-> limit[c]]
  <2>1. late' \subseteq late \cup {new}
    BY DEF Abandon
  <2>2. new \in Scripts /\ new.stamp <= now
    BY <1>1, <1>2 DEF Scripts, TypeOK, OnTheWay
  <2> HIDE DEF new
  <2>3. QED
    BY <1>1, <2>1, <2>2 DEF TypeOK, LateOnes
<1>5. TypeOK' /\ LateOnes'
  BY <1>1, <1>2, <1>3, <1>4 DEF TypeOK, LateOnes
<1>6. NothingAhead'
  BY <1>1, <1>2 DEF NothingAhead
<1>7. LocalRecorded' /\ LocalWindow'
  BY <1>1, <1>2, LocalFrame
<1>8. StampsApart'
  BY <1>1, <1>2, <1>3 DEF StampsApart
<1>9. PassedInSet' /\ RedisWindow' /\ SetAdmitted'
  BY <1>1, <1>2, RedisFrame
<1>10. QED
  BY <1>3, <1>5, <1>6, <1>7, <1>8, <1>9 DEF IndInv

\* A script nobody waits for lets nobody through, and spares whom the window reaches.
LEMMA EvalLateStep ==
  ASSUME IndInv, NEW m \in late, EvalLate(m)
  PROVE  IndInv'
<1>1. TypeOK /\ OnTheWay /\ LateOnes /\ NothingAhead /\ LocalRecorded /\ LocalWindow
      /\ StampsApart /\ PassedInSet /\ RedisWindow /\ SetAdmitted
  BY DEF IndInv
<1>2. /\ late' \subseteq late
      /\ UNCHANGED <<now, pc, limit, stamp, sent, tracks, passed, byLocal>>
  BY DEF EvalLate
<1>3. m.stamp \in Times /\ m.limit \in Limits /\ m.stamp <= now
  <2>1. m \in [stamp : Times, limit : Limits]
    BY <1>1 DEF TypeOK, Scripts
  <2>2. QED
    BY <1>1, <2>1 DEF LateOnes
<1>4. OnTheWay' /\ LateOnes'
  BY <1>1, <1>2 DEF OnTheWay, LateOnes
<1>5. LocalRecorded' /\ LocalWindow'
  BY <1>1, <1>2, LocalFrame
<1>6. StampsApart' /\ RedisWindow'
  BY <1>1, <1>2 DEF StampsApart, RedisWindow, PassedUpTo
<1>7. CASE UNCHANGED <<zset, expiry, byRedis>>
  <2>1. TypeOK' /\ NothingAhead'
    BY <1>1, <1>2, <1>7 DEF TypeOK, NothingAhead
  <2>2. PassedInSet' /\ SetAdmitted'
    BY <1>1, <1>2, <1>7, RedisFrame
  <2>3. QED
    BY <1>4, <1>5, <1>6, <2>1, <2>2 DEF IndInv
<1>8. CASE Script(m.stamp, m.limit)
  <2>1. /\ zset' \subseteq Times /\ expiry' \in Nat
        /\ byRedis' \in [Times \X Limits -> Nat]
        /\ \A t \in Times : t > now => \A n \in Limits : byRedis'[<<t, n>>] = 0
    BY <1>1, <1>3, <1>8, ScriptTyped
  <2>2. TypeOK'
    BY <1>1, <1>2, <2>1 DEF TypeOK
  <2>3. NothingAhead'
    BY <1>1, <1>2, <2>1 DEF NothingAhead
  <2>4. SetAdmitted'
    BY <1>1, <1>2, <1>3, <1>8, ScriptAdmitted
  <2>5. ASSUME Window % Second = 0, NEW p \in passed, p.at > now - (Window - Patience)
        PROVE  p.stamp \in zset' /\ p.at + Window <= expiry'
    BY <1>1, <1>3, <1>8, <2>5, ScriptKeeps
  <2>6. PassedInSet'
    BY <1>1, <1>2, <2>5 DEF PassedInSet
  <2>7. QED
    BY <1>4, <1>5, <1>6, <2>2, <2>3, <2>4, <2>6 DEF IndInv
<1>9. QED
  BY <1>7, <1>8 DEF EvalLate

LEMMA AllowStep ==
  ASSUME IndInv, NEW c \in Clients, Allow(c)
  PROVE  IndInv'
<1>1. TypeOK /\ OnTheWay /\ LateOnes /\ NothingAhead /\ LocalRecorded /\ LocalWindow
      /\ StampsApart /\ PassedInSet /\ RedisWindow /\ SetAdmitted
  BY DEF IndInv
<1>2. /\ pc[c] = "local" /\ Leave(c) /\ limit[c] \in Limits
      /\ UNCHANGED <<now, stamp, late, zset, expiry, passed, byRedis>>
  BY <1>1 DEF Allow, OnTheWay
<1>3. /\ pc' \in [Clients -> {"idle", "redis", "local"}]
      /\ limit' \in [Clients -> Limits \cup {0}]
      /\ sent' \in [Clients -> 0 .. Attempts]
      /\ OnTheWay'
      /\ \A d \in Clients : pc'[d] = "redis" => pc[d] = "redis"
  BY <1>1, <1>2, GoesOn
<1>4. Active \in [Times -> Nat] /\ now \in Times
  BY <1>1, ActiveCount DEF TypeOK
<1>5. AddsOne(byLocal, byLocal', now, limit[c]) \/ byLocal' = byLocal
  <2>1. CASE LocalAdmits(c)
    <3>1. byLocal' = [byLocal EXCEPT ![<<now, limit[c]>>] = @ + 1]
      BY <2>1 DEF Allow
    <3>2. byLocal \in [Times \X Limits -> Nat]
      BY <1>1 DEF TypeOK
    <3>3. QED
      BY <1>2, <1>4, <3>1, <3>2, AddsOneExcept
  <2>2. CASE ~LocalAdmits(c)
    BY <1>1, <2>2 DEF Allow, TypeOK
  <2>3. QED
    BY <2>1, <2>2
<1>6. TypeOK'
  <2>1. byLocal' \in [Times \X Limits -> Nat]
    BY <1>1, <1>5 DEF AddsOne, TypeOK
  <2>2. tracks' \in [Times -> Nat]
    BY <1>4 DEF Allow
  <2>3. QED
    BY <1>1, <1>2, <1>3, <2>1, <2>2 DEF TypeOK
<1>7. NothingAhead'
  <2>1. SUFFICES ASSUME NEW t \in Times, t > now
                 PROVE  tracks'[t] = 0 /\ \A n \in Limits : byLocal'[<<t, n>>] = 0
    BY <1>1, <1>2 DEF NothingAhead
  <2>2. t # now
    BY <1>1, <2>1, Numbers
  <2>3. Active[t] = 0
    BY <1>1, <2>1 DEF NothingAhead, Active
  <2>4. tracks'[t] = 0
    BY <1>4, <2>2, <2>3 DEF Allow
  <2>5. ASSUME NEW n \in Limits PROVE byLocal'[<<t, n>>] = 0
    <3>1. byLocal[<<t, n>>] = 0
      BY <1>1, <2>1 DEF NothingAhead
    <3>2. <<t, n>> \in Times \X Limits /\ <<t, n>> # <<now, limit[c]>>
      BY <2>2
    <3>3. QED
      BY <1>5, <3>1, <3>2 DEF AddsOne
  <2>6. QED
    BY <2>4, <2>5
<1>8. LocalRecorded' /\ LocalWindow'
  BY <1>1, AllowLocal
<1>9. StampsApart' /\ LateOnes'
  BY <1>1, <1>2, <1>3 DEF StampsApart, LateOnes
<1>10. PassedInSet' /\ RedisWindow' /\ SetAdmitted'
  BY <1>1, <1>2, RedisFrame
<1>11. QED
  BY <1>3, <1>6, <1>7, <1>8, <1>9, <1>10 DEF IndInv

LEMMA InitEstablishes ==
  ASSUME Init
  PROVE  IndInv
<1>1. /\ now = 0 /\ pc = [c \in Clients |-> "idle"] /\ limit = [c \in Clients |-> 0]
      /\ stamp = [c \in Clients |-> 0] /\ zset = {} /\ expiry = 0
      /\ sent = [c \in Clients |-> 0] /\ late = {} /\ passed = {}
      /\ tracks = [t \in Times |-> 0]
      /\ byRedis = Nobody /\ byLocal = Nobody
      /\ Nobody \in [Times \X Limits -> Nat]
      /\ \A x \in Times \X Limits : Nobody[x] = 0
  BY DEF Init, Nobody
<1>2. TypeOK
  <2>1. 0 \in Times
    BY TimesAssumption DEF Times
  <2>2. 0 \in 0 .. Attempts
    BY AttemptsAssumption
  <2>3. sent \in [Clients -> 0 .. Attempts]
    BY <1>1, <2>2
  <2>4. QED
    BY <1>1, <2>1, <2>3 DEF TypeOK
<1>3. ASSUME NEW T \in SUBSET Times
      PROVE  /\ Admitted(Nobody, T) = 0 /\ \A m \in Limits : UpTo(m, Nobody, T) = 0
             /\ CountIn(tracks, T) = 0
  <2>1. \A t \in T : \A n \in Limits : Nobody[<<t, n>>] = 0
    BY <1>1
  <2>2. Admitted(Nobody, T) = 0 /\ \A m \in Limits : UpTo(m, Nobody, T) = 0
    BY <1>1, <2>1, AdmittedNone
  <2>3. tracks \in [Times -> Nat] /\ \A t \in T : tracks[t] = 0
    BY <1>1
  <2>4. CountIn(tracks, T) = 0
    BY <2>3, CountNone
  <2>5. QED
    BY <2>2, <2>4
<1>4. \A x, y : Between(x, y) \in SUBSET Times
  BY TimeFacts
<1>5. ASSUME NEW m \in Limits PROVE 0 <= m
  BY LimitFacts
<1>6. OnTheWay
  BY <1>1, <1>2, Numbers DEF OnTheWay
<1>7. NothingAhead
  BY <1>1 DEF NothingAhead
<1>8. LocalRecorded
  BY <1>1, <1>3, <1>4 DEF LocalRecorded
<1>9. LocalWindow
  BY <1>1, <1>3, <1>4, <1>5 DEF LocalWindow
<1>10. StampsApart
  BY <1>1 DEF StampsApart
<1>11. LateOnes
  BY <1>1 DEF LateOnes
<1>12. \A x : Cardinality({z \in zset : z > x}) = 0
  BY <1>1, FS_EmptySet
<1>13. PassedInSet
  BY <1>1, FS_EmptySet DEF PassedInSet
<1>14. RedisWindow
  <2>1. \A n, t : PassedUpTo(n, t) = {}
    BY <1>1 DEF PassedUpTo
  <2>2. QED
    BY <1>5, <2>1, FS_EmptySet DEF RedisWindow
<1>15. SetAdmitted
  BY <1>1, <1>3, <1>4, <1>12 DEF SetAdmitted
<1>16. QED
  BY <1>2, <1>6, <1>7, <1>8, <1>9, <1>10, <1>11, <1>13, <1>14, <1>15 DEF IndInv

LEMMA NextKeeps ==
  ASSUME IndInv, [Next]_vars
  PROVE  IndInv'
<1>1. CASE Tick
  BY <1>1, TickStep
<1>2. ASSUME NEW c \in Clients, Arrive(c) PROVE IndInv'
  BY <1>2, ArriveStep
<1>3. ASSUME NEW c \in Clients, Eval(c) PROVE IndInv'
  BY <1>3, EvalStep
<1>4. ASSUME NEW c \in Clients, Abandon(c) PROVE IndInv'
  BY <1>4, AbandonStep
<1>5. ASSUME NEW m \in late, EvalLate(m) PROVE IndInv'
  BY <1>5, EvalLateStep
<1>6. ASSUME NEW c \in Clients, Allow(c) PROVE IndInv'
  BY <1>6, AllowStep
<1>7. CASE UNCHANGED vars
  <2>1. /\ TypeOK /\ OnTheWay /\ LateOnes /\ NothingAhead /\ LocalRecorded /\ LocalWindow
        /\ StampsApart /\ PassedInSet /\ RedisWindow /\ SetAdmitted
        /\ UNCHANGED <<now, pc, limit, stamp, sent, late, zset, expiry, tracks>>
        /\ UNCHANGED <<passed, byRedis, byLocal>>
    BY <1>7 DEF IndInv, vars
  <2>2. TypeOK' /\ OnTheWay' /\ LateOnes'
    BY <2>1 DEF TypeOK, OnTheWay, LateOnes
  <2>3. NothingAhead' /\ StampsApart'
    BY <2>1 DEF NothingAhead, StampsApart
  <2>4. LocalRecorded' /\ LocalWindow' /\ PassedInSet' /\ RedisWindow' /\ SetAdmitted'
    BY <2>1, LocalFrame, RedisFrame
  <2>5. QED
    BY <2>2, <2>3, <2>4 DEF IndInv
<1>8. QED
  BY <1>1, <1>2, <1>3, <1>4, <1>5, <1>6, <1>7 DEF Next, Stopped

\* ------------------------------------------------------------------ theorems --

\* The parts hold together in every state that the limiters reach.
THEOREM Invariance == Spec => []IndInv
<1>1. Init => IndInv
  BY InitEstablishes
<1>2. IndInv /\ [Next]_vars => IndInv'
  BY NextKeeps
<1>3. QED
  BY <1>1, <1>2, PTL DEF Spec

\* The in-memory fallback is exact: no window of the configured length holds more
\* requests of a limit up to n than n, however many requests race for the mutex.
THEOREM LocalExact == Spec => []LocalWindow
<1>1. IndInv => LocalWindow
  BY DEF IndInv
<1>2. QED
  BY <1>1, Invariance, PTL

\* No window shorter by the time a request may wait for its reply holds more than n
\* requests that Redis let through with a limit up to n, whatever the order in which
\* scripts run, the replies that are lost, the scripts that are sent again and those
\* that run after their callers have gone, when milliseconds are distinct and the
\* window is whole seconds.
THEOREM RedisExact == Spec => []RedisWindow
<1>1. IndInv => RedisWindow
  BY DEF IndInv
<1>2. QED
  BY <1>1, Invariance, PTL

\* Whoever is under the limit is let through, by the script and by the fallback.
LEMMA UnderLimitAdmitted ==
  ASSUME IndInv
  PROVE  NoLockout
<1>1. TypeOK /\ OnTheWay /\ NothingAhead /\ LocalRecorded /\ SetAdmitted
  BY DEF IndInv
<1>2. SUFFICES ASSUME NEW c \in Clients
               PROVE  /\ pc[c] = "redis" /\ Admitted(byRedis, Between(stamp[c] - Window, now)) < limit[c] => Admits(stamp[c], limit[c])
                      /\ pc[c] = "local" /\ Admitted(byLocal, Between(now - Window, now)) < limit[c] => LocalAdmits(c)
  BY DEF NoLockout
<1>3. ASSUME pc[c] = "redis", Admitted(byRedis, Between(stamp[c] - Window, now)) < limit[c]
      PROVE  Admits(stamp[c], limit[c])
  <2> DEFINE x == stamp[c] - Window
             InWindow == {z \in zset : z > x}
  <2>1. limit[c] \in Nat /\ stamp[c] \in Int /\ stamp[c] <= now /\ now <= stamp[c] + Patience
    BY <1>1, <1>3, LimitFacts, Numbers DEF OnTheWay
  <2>2. x \in Int /\ x \in Starts /\ x >= now - Window - Patience
    <3>1. x \in Int /\ 0 - Window - Patience <= x /\ x <= MaxTime /\ x >= now - Window - Patience
      BY <1>1, <2>1, Numbers
    <3> HIDE DEF x
    <3>2. QED
      BY <1>1, <3>1, Numbers
  <2>3. Cardinality(InWindow) <= Admitted(byRedis, Between(x, now))
    <3> HIDE DEF x
    <3>1. QED
      BY <1>1, <2>2 DEF SetAdmitted
  <2>4. Seen(stamp[c]) \subseteq InWindow /\ InWindow \subseteq Times
    BY <1>1, Numbers DEF Seen
  <2>5. Admitted(byRedis, Between(x, now)) \in Nat
    BY <1>1, TimeFacts, AdmittedTyped DEF TypeOK
  <2> HIDE DEF x, InWindow
  <2>6. Cardinality(Seen(stamp[c])) \in Nat /\ Cardinality(InWindow) \in Nat
        /\ Cardinality(Seen(stamp[c])) <= Cardinality(InWindow)
    BY <2>4, SubsetCount
  <2>7. Admitted(byRedis, Between(x, now)) < limit[c]
    BY <1>3 DEF x
  <2>8. QED
    BY <2>1, <2>3, <2>5, <2>6, <2>7 DEF Admits
<1>4. ASSUME pc[c] = "local", Admitted(byLocal, Between(now - Window, now)) < limit[c]
      PROVE  LocalAdmits(c)
  BY <1>1, <1>4, ActiveCount DEF LocalAdmits
<1>5. QED
  BY <1>3, <1>4

\* Nobody under the limit is turned away, whatever limits the others had: every
\* member of Redis' set stands for a script that admitted in the window, every entry
\* of the fallback for a request let through.
THEOREM NobodyLockedOut == Spec => []NoLockout
<1>1. IndInv => NoLockout
  BY UnderLimitAdmitted
<1>2. QED
  BY <1>1, Invariance, PTL
================================================================================
