SPECIFICATION RelayFairSpec
CONSTANTS
  Actors = {"sub", "else"}
  AuthorityOf <- MCAuthorityOf
  LabelPrefix <- MCLabelPrefix
  DomainNames <- BTest
  Restricted = FALSE
  RequestSlots = {r1}
  JobSlots = {j1}
  Admins = {m1}
  Arrivals = {"FollowPublic"}
  EditsMade = {"block", "unblock"}
  MaxTries = 0
  MaxErrors = 0
  MaxCrashes = 1
  Objects = {o1}
  HomeOf <- MCHomeOf
  Configs = {}
  Faces = 1
  Capacity = 1
  PostSlots = {p1}
  RelaySlots = {a1}
  ManySlots = {k1}
  PostKinds = {"Forward"}
  MaxPosts = 1
  MaxFaults = 0
PROPERTIES
  CutOffStays
  BlockTakesEffect
  ImplementsFanout
