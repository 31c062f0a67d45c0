CONSTANTS
  Own = {b1}
  Foreign = {f1}
  Imports = {i1, i2}
  Elsewhere <- ElsewhereMC
  MaxFaults = 3
SPECIFICATION Spec
INVARIANTS BackupHasArtifact ImportedIsListed DestinationIsListed
SYMMETRY ImportSymmetry
CHECK_DEADLOCK FALSE
