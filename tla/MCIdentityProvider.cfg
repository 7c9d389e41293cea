SPECIFICATION IdpSpec
CONSTANTS
  Names = {"idp"}
  IdpKeyName = "idp"
  MaxGeneration <- MCMaxGeneration
  MaxTime = 3
  Subjects = {"security", "helper"}
  Audiences = {"tools"}
  Lifetimes <- MCLifetimes
  Extras <- MCExtras
  Verifiers = {"v1", "v2"}
  MaxTokens = 2
  MaxCodes = 2
CHECK_DEADLOCK FALSE
INVARIANTS
  FirstExchangeDecides
  MintedAsAuthorized
PROPERTIES
  AcceptanceOnlyShrinks
  EveryTokenDies
