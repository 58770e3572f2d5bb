SPECIFICATION Spec
CONSTANTS
  Tab = {t1, t2}
  Token = {k1, k2}
  Session = {s1, s2}
  None = None
  TTL = 3
  Second = 2
  MaxClock = 3
  MaxProcess = 1
SYMMETRY Symmetry
INVARIANTS
  LastPageWorks
  LoginGrantsAccess
  LogoutClearsBrowser
