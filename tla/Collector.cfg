SPECIFICATION Spec
CONSTANTS
  Histograms = {"h1"}
  Recorders = {t1}
  Snapshots = {s1, s2}
  MaxJobs = 3
  MaxSamples = 2
  MaxIdles = 1
SYMMETRY Symmetry
CONSTRAINT JobsOrSamples
INVARIANTS
  TypeOK
  RunningIsNear
  SamplesAreKept
