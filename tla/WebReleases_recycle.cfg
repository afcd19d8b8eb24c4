SPECIFICATION Spec
CONSTANTS
  p1 = p1
  p2 = p2
  u1 = u1
  u2 = u2
  e1 = e1
  e2 = e2
  k1 = k1
  Maintenance = Maintenance
  None = None
  Never = Never
  NoKey = NoKey
  Projects = {p1, p2}
  Uploads = {u1, u2}
  Editors = {e1, e2}
  Keys = {}
  Sizes = {1, 2}
  MaxReleases = 2
  MaxProjectBytes = 2
  MaxUserBytes = 4
  MaxProjects = 2
  CleanupBatch = 1
  Retention = 1
  LostAcks = FALSE
  MaxRelease = 3
  MaxRevision = 5
  MaxTime = 2
  MaxVersion = 1
  MaxCrash = 1
  MaxSwitch = 2
  MaxGuess = 1
SYMMETRY Symmetry
CONSTRAINT Focus
INVARIANTS FilesMatchRows RecycleBinSound WithinQuota
PROPERTIES OnlyPublishReveals
