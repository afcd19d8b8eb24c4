CONSTANTS
  owner = owner
  reader = reader
  f2 = f2
  Users = {owner, reader}
  Files = {f1, f2}
  Shares = {s1}
  Clients = {c1, c2}
  Requests = {r1, r2}
  None = None
  Sizes = {2, 4}
  ShareInputs <- InputsDef
  MaxFileBytes = 2
  MaxFilesPerUser = 2
  MaxUserBytes = 3
  MinFreeDiskBytes = 3
  MaxConcurrentUploadsPerUser = 2
  MaxConcurrentUploads = 2
  MaxSharesPerFile = 1
  MaxAttempts = 1
  AttemptWindow = 2
  MaxAttemptKeys = 1
  BcryptGate = 1
  GrantLifetime = 1
  DiskBytes = 7
  MaxTime = 2
  MaxCrashes = 1
SPECIFICATION Spec
CHECK_DEADLOCK FALSE
CONSTRAINT Focus
SYMMETRY Alike
INVARIANTS FilesMatchRows WithinLimits AttemptsBounded
PROPERTIES DownloadsAdmitted
