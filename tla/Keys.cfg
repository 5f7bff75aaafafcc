SPECIFICATION FairSpec
CONSTANTS
  Requests = {r1, r2}
  KeyIds = {k1, k2}
  Refetch = 2
  MaxKey = 1
INVARIANTS
  CurrentKeyVerifies
PROPERTIES
  OldKeysExpire
