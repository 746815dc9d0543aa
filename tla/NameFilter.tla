------------------------------ MODULE NameFilter ------------------------------
(***************************************************************************)
(* internal/filters/filter.go: which names are fit to be brands, and how   *)
(* good they are. A name is the sequence of its lower-case letters: every  *)
(* rule ignores case. The constant operators here have no state.           *)
(***************************************************************************)
EXTENDS Integers, Sequences, FiniteSets

Vowels == {"a", "e", "i", "o", "u", "y"}
Consonants == {"b", "c", "d", "f", "g", "h", "j", "k", "l", "m", "n", "p",
               "q", "r", "s", "t", "v", "w", "x", "y", "z"}
Letters == Vowels \cup Consonants

\* Word w stands in name from place i on.
StandsAt(w, name, i) == i + Len(w) - 1 <= Len(name) /\ SubSeq(name, i, i + Len(w) - 1) = w

\* strings.Contains, HasPrefix and HasSuffix
Contains(name, w) == \E i \in 1 .. Len(name) : StandsAt(w, name, i)
HasPrefix(name, w) == StandsAt(w, name, 1)
HasSuffix(name, w) == Len(w) <= Len(name) /\ StandsAt(w, name, Len(name) - Len(w) + 1)

\* A run of n letters of a class, anywhere.
HasRun(name, n, class) ==
  \E i \in 1 .. Len(name) - n + 1 : \A k \in i .. i + n - 1 : name[k] \in class

\* hasTripleRepeatedChar
HasTriple(name) ==
  \E i \in 1 .. Len(name) - 2 : name[i] = name[i + 1] /\ name[i] = name[i + 2]

\* Mutated: only a name that begins with an avoided word is rejected.
IsValid_PrefixOnly(name, avoid) ==
  /\ Len(name) \in 3 .. 15
  /\ \A w \in avoid : ~HasPrefix(name, w)

\* EvaluateName: rules 1 to 6. Avoided words are not empty (the handler
\* requires letters).
IsValid(name, avoid) ==
  /\ Len(name) \in 3 .. 15
  /\ \A i \in DOMAIN name : name[i] \in Letters
  /\ \A w \in avoid : ~Contains(name, w)
  /\ ~HasRun(name, 4, Consonants)
  /\ ~HasRun(name, 4, Vowels)
  /\ ~HasTriple(name)

\* calculatePronounceability: the share of steps between a vowel and a
\* consonant, of a name of two letters or more.
Pronounceability(name) ==
  LET turns == {i \in 1 .. Len(name) - 1 : (name[i] \in Vowels) # (name[i + 1] \in Vowels)}
      smooth == IF name[Len(name)] \in {"a", "o", "e", "x"} THEN 10 ELSE 0
      score == (100 * Cardinality(turns)) \div (Len(name) - 1) + smooth
  IN  IF score > 100 THEN 100 ELSE IF score < 20 THEN 20 ELSE score

\* calculateMemorability
Memorability(name) ==
  CASE Len(name) <= 5 -> 95
    [] Len(name) \in 6 .. 7 -> 85
    [] Len(name) \in 8 .. 10 -> 70
    [] Len(name) \in 11 .. 12 -> 50
    [] OTHER -> 30

Suffixes == {<<"i", "x">>, <<"l", "y">>, <<"i", "f", "y">>, <<"i", "o">>, <<"o", "r", "a">>,
             <<"i", "s">>, <<"e", "x">>, <<"v", "a">>, <<"u", "s">>, <<"o", "n">>}
Prefixes == {<<"v", "e", "l">>, <<"n", "o", "v">>, <<"n", "e", "o">>, <<"s", "y", "n">>,
             <<"v", "o", "l">>, <<"z", "e", "n">>, <<"f", "l", "e", "x">>, <<"o", "m", "n">>}

\* calculateStartupFeel
StartupFeel(name) ==
  60 + (IF \E w \in Suffixes : HasSuffix(name, w) THEN 25 ELSE 0)
     + (IF \E w \in Prefixes : HasPrefix(name, w) THEN 15 ELSE 0)

\* The brand score of the orchestrator: domain friendliness has no part in it.
BrandScore(name) == (Pronounceability(name) + Memorability(name) + StartupFeel(name)) \div 3
===============================================================================
