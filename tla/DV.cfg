SPECIFICATION FairSpec
CONSTANTS
  r1 = r1
  r2 = r2
  web = web
  k = k
  q1 = q1
  Rules <- MCRules
  Covers <- MCCovers
  Templated <- MCTemplated
  Names <- MCNames
  Addresses <- MCAddresses
  Keys <- MCKeys
  Requests <- MCRequests
  Edits <- NoClash
  MaxDisturbances = 2
INVARIANTS TypeOK ProvisionedComplete NoLockCycle
PROPERTY DueRulesScanned
