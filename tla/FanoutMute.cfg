SPECIFICATION FairSpec
CONSTANTS
  Servers = {"s1", "s2"}
  Objects = {o1}
  HomeOf <- MCHomeOf
  Configs <- OnlyMute
  Faces = 1
  Capacity = 1
  RequestSlots = {r1}
  JobSlots = {j1}
  ManySlots = {k1}
  Arrivals = {"Forward"}
  MaxAccepts = 1
  MaxTries = 0
  MaxErrors = 0
  Restarts = FALSE
PROPERTIES
  ReceiveOnlyIsSilent
