CONSTANTS
  Users <- MCUsers
  Clients <- OneClient
  Batches <- Small
  MaxEmits = 2
  SpawnFails = FALSE
SPECIFICATION Spec
INVARIANT SettledAgrees

