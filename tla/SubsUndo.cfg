SPECIFICATION IntentSpec
CONSTANTS
  Actors = {"sub"}
  AuthorityOf <- MCAuthorityOf
  LabelPrefix <- MCLabelPrefix
  DomainNames <- BTest
  Restricted = FALSE
  RequestSlots = {r1}
  JobSlots = {j1}
  Admins = {m1}
  Arrivals = {"FollowSelf", "Undo"}
  EditsMade = {}
  MaxTries = 0
  MaxErrors = 0
  MaxCrashes = 0
INVARIANTS
  UndoStopsListening
