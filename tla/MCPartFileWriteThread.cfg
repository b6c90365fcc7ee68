CONSTANTS
  f1 = f1
  f2 = f2
  Files = {f1, f2}
  NoFile = NoFile
  MaxToken = 4
SPECIFICATION Spec
INVARIANTS
  TypeOK
  NoDanglingOwner
  NoJobLost
PROPERTIES
  NobodyWaitsForever
  ImplementsWriteJobs
