CONSTANTS
  Users <- MCUsers
  Clients <- OneClient
  Batches <- Small
  MaxEmits = 4
  SpawnFails = TRUE
SPECIFICATION Spec
PROPERTIES LossyDelivery SendListStable
