SPECIFICATION FairSpec
CONSTANTS
  Actors = {a1}
  Pictures = {p1, p2}
  Workers = {w1}
  Outdated = 1
  MaxIds = 3
  MaxFaults = 1
INVARIANTS
  TypeOK
  AvatarsResolve
PROPERTIES
  ProfilesAreRenewed
