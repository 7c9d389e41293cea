SPECIFICATION Spec
CONSTANTS
  Names = {"idp", "security", "helper"}
  IdpKeyName = "idp"
  MaxGeneration <- MCRotateBoth
  MaxTime = 2
  Agents = {"security", "helper"}
  Capabilities = {"read"}
  Withdrawals = {"revoked", "suspended"}
  NewRecords <- MCNewRecords
  LabRecords <- MCLabOne
  KeySources <- MCKeySources
  Scopes = {}
  GrantLifetimes = {}
  MaxGrants = 0
  Subjects = {"security"}
  Audiences = {"tools"}
  Lifetimes = {2}
  Extras <- MCLater
  Verifiers = {}
  MaxTokens = 1
  MaxCodes = 0
  Window = 1
  Gateways = {"B3_STATIC"}
  Mode <- MCMode
  WeightsOf <- MCWeights
  ThresholdsOf <- MCThresholds
  Observed = "B3_STATIC"
  Channels = {"mcp", "a2a"}
  Resources = {"tool", "helper"}
  TrustedResources = {"tool"}
  CardScopes <- MCCardScopes
  Deviations = {}
  Risks = {0}
  Malformed = {FALSE}
  Slip = 1
CHECK_DEADLOCK FALSE
INVARIANTS
  WithdrawnIsOut
PROPERTIES
  AuthorityOnlyShrinks
  EntryDecides
