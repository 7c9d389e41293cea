SPECIFICATION RegistrySpec
CONSTANTS
  Names = {"idp", "security", "helper"}
  IdpKeyName = "idp"
  MaxGeneration <- MCMaxGeneration
  MaxTime = 3
  Agents = {"security", "helper"}
  Capabilities = {"incident.read"}
  Withdrawals = {"revoked", "suspended", "retired"}
  NewRecords <- MCNewRecords
  LabRecords <- MCLabRecords
  KeySources <- MCKeySources
INVARIANTS
  WithdrawnStaysInactive
PROPERTIES
  OnlyRegistrationActivates
