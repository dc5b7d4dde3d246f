SPECIFICATION Spec
CONSTANTS
  Reqs = {r1, r2, r3}
  Svcs = {s1, s2, s3}
  Process = process
  NoSvc = NoSvc
SYMMETRY Handles
INVARIANTS
  TypeOK
  SharingIsReported
  OneServiceShares
