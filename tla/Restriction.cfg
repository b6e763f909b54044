CONSTANTS
  Accounts <- OneAccounts
  Names <- OneNames
  AccountOf <- OneAccountOf
  Loads <- MCLoads
  Configs <- LiveModes
  AgeCap = 2
SPECIFICATION FairSpec
INVARIANTS ThrottledHasTimer
PROPERTIES NoEarlyRelease StaysEnforced Released Forgiven
