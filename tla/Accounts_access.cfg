SPECIFICATION Spec
CONSTANTS
  r1 = r1
  r2 = r2
  a1 = a1
  a2 = a2
  a3 = a3
  None = None
  Requests = {r1, r2}
  Apps = {a1, a2, a3}
  Requested <- LibraryScopes
  Grants <- LibraryGrants
  Limits = {1, 2}
  MaxApps = 2
  SessionTTL = 1
  RestrictedTTL = 1
  TemporaryTTL = 1
  TokenTTL = 1
  CredentialTTL = 2
  MaxSession = 3
  MaxToken = 1
  MaxVersion = 2
  MaxHash = 2
  MaxRevision = 4
  MaxTime = 2
\* A deleted account takes no more requests.
CHECK_DEADLOCK FALSE
SYMMETRY Symmetry
CONSTRAINT Focus
INVARIANTS CredentialsSound ApplicationsSound
PROPERTIES CredentialsNeverRevive LoginKeepsNewest WritesAuthorised
