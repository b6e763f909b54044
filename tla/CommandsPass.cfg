CONSTANTS
  Users <- MCUsers
  Clients <- NoClients
  Batches <- MCBatches
  MaxEmits = 3
  SpawnFails = FALSE
SPECIFICATION FairSpec
INVARIANTS OneCycle SettledAgrees
PROPERTIES ReliableDelivery EventualDelivery
