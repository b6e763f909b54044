CONSTANTS
  Accounts <- OneAccounts
  Names <- OneNames
  AccountOf <- OneAccountOf
  Loads <- CpuLoads
  Configs <- PeriodOnly
  AgeCap = 2
SPECIFICATION FairSpec
PROPERTY EnforcedAtStart
