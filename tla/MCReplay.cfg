SPECIFICATION Spec
CONSTANTS
  Names = {"idp", "security", "helper"}
  IdpKeyName = "idp"
  MaxGeneration <- MCRotateIdp
  MaxTime = 1
  Agents = {"security", "helper"}
  Capabilities = {"read"}
  Withdrawals = {"suspended"}
  NewRecords <- MCActiveRecords
  LabRecords <- MCLabTwo
  KeySources <- MCKeySources
  Scopes = {}
  GrantLifetimes = {}
  MaxGrants = 0
  Subjects = {"security"}
  Audiences = {"tools"}
  Lifetimes = {1}
  Extras <- MCExtras
  Verifiers = {}
  MaxTokens = 2
  MaxCodes = 0
  Window = 1
  Gateways = {"B3", "B3_NO_BEHAVIOR"}
  Mode <- MCMode
  WeightsOf <- MCWeights
  ThresholdsOf <- MCThresholds
  Observed = "B3"
  Channels = {"mcp"}
  Resources = {"tool"}
  TrustedResources = {"tool"}
  CardScopes = {}
  Deviations = {100}
  Risks = {0}
  Malformed = {FALSE, TRUE}
  Slip = 1
CHECK_DEADLOCK FALSE
INVARIANTS
  TypeOK
  AtMostOncePerGateway
PROPERTIES
  SettledAtFirstUse
  ImplementsFeedback
  ImplementsAccessControl
