SPECIFICATION Spec
CONSTANTS
  m1 = m1
  i1 = i1
  i2 = i2
  r1 = r1
  r2 = r2
  k1 = k1
  k2 = k2
  None = None
  Manuals = {m1}
  Items = {i1, i2}
  Requests = {r1, r2}
  Keys = {k1, k2}
  Bodies <- SmallBodies
  MaxManualsPerUser = 1
  MaxItemsPerManual = 2
  MaxManualBytes = 3
  MaxUserBytes = 3
  MaxFileBytes = 2
  PDFPreviewOutputLimitBytes = 1
  MinFreeDiskBytes = 1
  MaxConcurrentPDFPreviews = 1
  DiskBytes = 7
  MaxRevision = 5
  MaxCrashes = 1
SYMMETRY Symmetry
CHECK_DEADLOCK FALSE
INVARIANTS RowsConsistent FilesMatchRows WithinLimits
PROPERTIES RevisionNamesContent
