-------------------------- MODULE MCGenerateRequest --------------------------
(* A small instance of GenerateRequest. *)
EXTENDS GenerateRequest, TLC

Velix == [key |-> <<"v", "e", "l", "i", "x">>, title |-> TRUE]
velix == [key |-> <<"v", "e", "l", "i", "x">>, title |-> FALSE]
Bana == [key |-> <<"b", "a", "n", "a">>, title |-> TRUE]
Long == [key |-> <<"a", "r", "t", "a", "m", "e", "r", "t", "a", "n", "o", "s">>, title |-> TRUE]
\* Rejected: four consonants.
Brsta == [key |-> <<"b", "r", "s", "t", "a">>, title |-> TRUE]
\* A reply may bring names in lower case, with a hyphen, with a letter three times.
MCTexts == {<<velix, Long, [key |-> <<"a", "-", "b">>, title |-> FALSE],
              [key |-> <<"b", "o", "o", "o">>, title |-> FALSE]>>}
MCLocals == {<<Velix, Bana>>, <<Brsta>>}

MCTLDLists == {<< >>, <<"COM", ".online">>, <<"COM", ".com">>, <<"c0m">>,
               <<"COM", "COM", "COM">>}
MCClean == [t \in {"COM", ".com", ".online", "c0m"} |->
              CASE t \in {"COM", ".com"} -> ".com" [] t = ".online" -> ".online" [] OTHER -> Bad]

MCAvoidSets == {{}, {<<"n", "a">>}}

Page(price, old) == [price |-> price, old |-> old]
Hostinger(page, variation) == [of |-> "Hostinger", page |-> page, variation |-> variation]
\* Without keys: pages, one of which asks for nothing, prices by default, or no
\* provider that answers.
Keyless == {<<Hostinger(Page(69900, 109900), 0), [of |-> "GoDaddy keyless", page |-> Page(8900, 0)]>>,
            <<Hostinger(Page(0, 0), 0)>>, << >>}
\* GoDaddy with a key: no price, a premium domain, or euros beside rupees.
Keyed == {<<[of |-> "GoDaddy", price |-> 0, currency |-> "USD"], Hostinger(NoPage, -4000)>>,
          <<[of |-> "GoDaddy", price |-> 90000, currency |-> "USD"]>>,
          <<[of |-> "GoDaddy", price |-> 1100, currency |-> "EUR"], Hostinger(NoPage, 0)>>}
\* The mocks: a usual and a premium domain.
Mocked == {<<[of |-> "mock Hostinger", variation |-> 9900], [of |-> "mock GoDaddy", variation |-> -5000]>>,
           <<[of |-> "mock GoDaddy", variation |-> 2000000]>>}
MCWirings == {Keyless, Keyed, Mocked}
=============================================================================
