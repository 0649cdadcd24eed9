SPECIFICATION InsistSpec

CONSTANTS
  Workers = {w1, w2}
  Emails = {e1, e2}
  Handles = {h1, h2}
  Ids = {u1, u2}
  Sessions = {s1, s2}
  None = None

INVARIANT AccountsOK
INVARIANT HomeBeforeSession
INVARIANT RotationRevokes
PROPERTY RegistrationCompletes
