SPECIFICATION Spec
CONSTANTS
  Username = {owner, guest}
  Owner = owner
  Client = {c1}
  Attempt = {a1, a2}
  FreeFailures = 1
  LockFailures = 4
  LockoutDuration = 2
  MaxThrottle = 1
  MaxClock = 2
  MaxFailures = 5
SYMMETRY Symmetry
INVARIANTS
  BucketsAgree
  WaitBounded
  GuessesBounded
PROPERTIES
  LockoutNotExtended
  EarlyUnlockNeedsPassword
