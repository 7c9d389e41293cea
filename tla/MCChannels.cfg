SPECIFICATION ChannelsSpec
CONSTANTS
  Names = {"idp", "security", "helper"}
  IdpKeyName = "idp"
  MaxGeneration <- MCGenerations
  MaxTime = 1
  Agents = {"security", "helper"}
  Capabilities = {"read"}
  Withdrawals = {"suspended"}
  NewRecords = {}
  LabRecords <- MCLab
  KeySources <- MCKeySources
  Scopes = {}
  GrantLifetimes = {}
  MaxGrants = 0
  Subjects = {"security"}
  Audiences = {"tools"}
  Lifetimes = {1}
  Extras = {}
  Verifiers = {}
  MaxTokens = 1
  MaxCodes = 0
  Window = 1
  Gateways = {"B3_STATIC"}
  Mode <- MCModes
  WeightsOf <- MCWeights
  ThresholdsOf <- MCThresholds
  Observed = "B3_STATIC"
  Channels = {"mcp", "a2a"}
  Resources = {"tool", "helper"}
  TrustedResources = {"tool"}
  CardScopes <- MCCardScopes
  Deviations = {}
  Risks = {0}
  Malformed = {FALSE, TRUE}
  Slip = 1
  Objects = {"request"}
CHECK_DEADLOCK FALSE
PROPERTY FacadeDecidesChecks
