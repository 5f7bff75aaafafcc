SPECIFICATION FairSpec
CONSTANTS
  Actors = {"sub"}
  AuthorityOf <- MCAuthorityOf
  LabelPrefix <- MCLabelPrefix
  DomainNames <- TestAndBTest
  Restricted = TRUE
  RequestSlots = {r1}
  JobSlots = {j1}
  Admins = {m1}
  Arrivals = {"FollowSelf", "Undo"}
  EditsMade = {"block", "allow", "disallow"}
  MaxTries = 1
  MaxErrors = 2
  MaxCrashes = 0
INVARIANTS
  TypeOK
  DeniedListenersAreLate
  ScanAgreesWithNames
PROPERTIES
  BarredStaysOut
  FollowJoins
  UndoLeaves
