SPECIFICATION CampaignSpec
CONSTANTS
  Names = {"idp", "security", "helper", "rogue"}
  IdpKeyName = "idp"
  MaxGeneration <- MCGenerations
  MaxTime = 4
  Agents = {"security", "helper", "rogue"}
  Capabilities = {"incident.read", "incident.analyze", "incident.delete",
                  "threat.search", "database.admin"}
  Withdrawals = {"revoked"}
  NewRecords = {}
  LabRecords <- LabWorldRecords
  KeySources <- MCKeySources
  Scopes <- MCScopes
  GrantLifetimes = {4}
  MaxGrants = 1
  Subjects = {"security", "helper"}
  Audiences = {"tools"}
  Lifetimes <- MCLifetimes
  Extras = {}
  Verifiers = {}
  MaxTokens = 1
  MaxCodes = 0
  Window = 8
  Gateways = {"B1", "B2", "B3", "B3_STATIC", "B3_NO_BEHAVIOR", "B3_NO_RESOURCE"}
  Mode <- MCModes
  WeightsOf <- MCWeights
  ThresholdsOf <- MCThresholds
  Observed = "B3"
  Channels = {"mcp", "a2a"}
  Resources = {"tool.read", "tool.delete", "tool.search", "helper"}
  TrustedResources = {"tool.read", "tool.delete", "tool.search"}
  CardScopes = {}
  Deviations = {100}
  Risks = {0, 20}
  Malformed = {FALSE}
  Slip = 1
  Attacks <- MCAttacks
  Controls <- MCControls
  Repeats = 4
  TTL = 4
  Slow = {"A5", "L2"}
  Tested = {"h2", "h3", "h5", "h5static", "h5behavior"}
CHECK_DEADLOCK FALSE
INVARIANTS
  BookingsAgree
  SummariesAgree
  OnlyB3Prevents
  ControlsPermitted
  HypothesesHold
  BehaviourAloneHolds
