SPECIFICATION Spec
CONSTANTS
  Names = {"idp", "security", "helper"}
  IdpKeyName = "idp"
  MaxGeneration <- MCRotateSecurity
  MaxTime = 2
  Agents = {"security", "helper"}
  Capabilities = {"read", "search"}
  Withdrawals = {"revoked"}
  NewRecords <- MCNewRecords
  LabRecords <- MCLabTwo
  KeySources <- MCKeySources
  Scopes = {{"read"}, {"search"}}
  GrantLifetimes = {1}
  MaxGrants = 1
  Subjects = {"helper"}
  Audiences = {"tools"}
  Lifetimes = {2}
  Extras = {}
  Verifiers = {}
  MaxTokens = 1
  MaxCodes = 0
  Window = 1
  Gateways = {"B3_STATIC"}
  Mode <- MCMode
  WeightsOf <- MCWeights
  ThresholdsOf <- MCThresholds
  Observed = "B3_STATIC"
  Channels = {"mcp"}
  Resources = {"tool"}
  TrustedResources = {"tool"}
  CardScopes = {}
  Deviations = {}
  Risks = {0}
  Malformed = {FALSE}
  Slip = 1
CHECK_DEADLOCK FALSE
INVARIANTS
  CapabilityIsHeld
PROPERTIES
  AuthorityOnlyShrinks
  RotationVoidsGrants
