SPECIFICATION Spec
CONSTANTS
  Servers = {"s1", "s2", "s3"}
  Objects = {o1}
  HomeOf <- MCHomeOf
  Configs <- OnlyPicky
  Faces = 2
  Capacity = 1
  RequestSlots = {r1}
  JobSlots = {j1}
  ManySlots = {k1}
  Arrivals = {"Announce", "Forward"}
  MaxAccepts = 2
  MaxTries = 1
  MaxErrors = 1
  Restarts = TRUE
SYMMETRY Symmetry
INVARIANTS
  NeverSentHome
  CopiesAccountedFor
