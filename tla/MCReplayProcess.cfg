SPECIFICATION Spec
CONSTANTS
  Names = {"idp", "security"}
  IdpKeyName = "idp"
  MaxGeneration <- MCMaxGeneration
  MaxTime = 1
  Agents = {"security"}
  Capabilities = {"read"}
  Withdrawals = {"revoked"}
  NewRecords = {}
  LabRecords <- MCLabOne
  KeySources <- MCKeySources
  Scopes = {}
  GrantLifetimes = {}
  MaxGrants = 0
  Subjects = {"security"}
  Audiences = {"tools"}
  Lifetimes = {1}
  Extras = {}
  Verifiers = {}
  MaxTokens = 1
  MaxCodes = 0
  Window = 1
  Gateways = {"B3a", "B3b"}
  Mode <- MCMode
  WeightsOf <- MCWeights
  ThresholdsOf <- MCThresholds
  Observed = "B3a"
  Channels = {"mcp"}
  Resources = {"tool"}
  TrustedResources = {"tool"}
  CardScopes = {}
  Deviations = {100}
  Risks = {0}
  Malformed = {FALSE, TRUE}
  Slip = 1
CHECK_DEADLOCK FALSE
INVARIANT ProcessLocalReplay
