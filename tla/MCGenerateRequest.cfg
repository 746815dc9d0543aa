SPECIFICATION Spec
CONSTANTS
  TLDLists <- MCTLDLists
  Clean <- MCClean
  AvoidSets <- MCAvoidSets
  Texts <- MCTexts
  Locals <- MCLocals
  Wirings <- MCWirings
  TopNames = 2
  MaxTLDs = 2
INVARIANTS
  IndInv
  TakenNeverOutranks
  PriceIsLowest
  LoggedUnderOwnName
  OneItemPerDomain
  AvoidedNeverShown
