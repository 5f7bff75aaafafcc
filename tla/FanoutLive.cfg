SPECIFICATION FairSpec
CONSTANTS
  Servers = {"s1", "s2"}
  Objects = {o1, o2}
  HomeOf <- MCHomeOf
  Configs <- OnlyMute
  Faces = 1
  Capacity = 1
  RequestSlots = {r1}
  JobSlots = {j1}
  ManySlots = {k1}
  Arrivals = {"Announce"}
  MaxAccepts = 2
  MaxTries = 1
  MaxErrors = 1
  Restarts = FALSE
INVARIANTS
  TypeOK
PROPERTIES
  SettledStaysSettled
  ListenersReceive
  ReceiveOnlySilencesAnnounces
  ImplementsLedger
