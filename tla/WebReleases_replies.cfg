SPECIFICATION Spec
CONSTANTS
  p1 = p1
  p2 = p2
  u1 = u1
  u2 = u2
  e1 = e1
  e2 = e2
  k1 = k1
  Maintenance = Maintenance
  None = None
  Never = Never
  NoKey = NoKey
  Projects = {p1}
  Uploads = {u1}
  Editors = {}
  Keys = {k1}
  Sizes = {1}
  MaxReleases = 1
  MaxProjectBytes = 2
  MaxUserBytes = 3
  MaxProjects = 1
  CleanupBatch = 2
  Retention = 1
  LostAcks = FALSE
  MaxRelease = 3
  MaxRevision = 1
  MaxTime = 1
  MaxVersion = 2
  MaxCrash = 0
  MaxSwitch = 0
  MaxGuess = 0
PROPERTIES UploadReportsReady
