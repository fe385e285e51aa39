SPECIFICATION Spec
CONSTANTS
  Runs = {r1, r2}
  Provisioners = {p1, p2}
  Opposites = {{p1, p2}}
  OffSnapshots = {o1}
  Snapshots = {s1}
  Restores = {v1}
  Exclusive = TRUE
INVARIANTS
  ImagesAreClean
  OnlyVerifiedIsBaked
  ProvisionedIsKept
  RunStartsFromGolden
PROPERTIES
  AlwaysASnapshot
  NewImagesAreDiskOnly
CHECK_DEADLOCK FALSE
