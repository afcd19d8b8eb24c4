CONSTANTS
  Clients = {c1}
  Unlocks = {n1, n2}
  Passwords = {p1, p2}
  None = None
  MaxKeys = 1
  MaxConcurrent = 1
  MaxAttempts = 1
  Window = 2
  GrantTTL = 1
  MaxVersion = 3
  MaxTime = 2
  MaxRestarts = 1
  Users = {owner, reader}
  Owner = owner
  Threads = {t1}
  Calls = {k1}
  Requests = {q1, q2}
  Releases = {1, 2}
  MaxEvents = 3
SPECIFICATION Spec
SYMMETRY Alike
CONSTRAINT Focus
CHECK_DEADLOCK FALSE
INVARIANTS PasswordsProved GuessesBounded
PROPERTIES KeepsPromise WritesAllowed
