SPECIFICATION Spec
CONSTANTS
  Actors = {"sub"}
  AuthorityOf <- MCAuthorityOf
  LabelPrefix <- MCLabelPrefix
  DomainNames <- BTest
  Restricted = FALSE
  RequestSlots = {r1}
  JobSlots = {j1, j2}
  Admins = {m1}
  Arrivals = {"FollowSelf", "FollowPublic", "Undo", "Reject"}
  EditsMade = {"block", "unblock"}
  MaxTries = 1
  MaxErrors = 1
  MaxCrashes = 1
SYMMETRY Symmetry
INVARIANTS
  ListenersHaveActors
  DeniedListenersAreLate
PROPERTIES
  BarredStaysOut
  ImplementsPromise
