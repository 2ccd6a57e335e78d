SPECIFICATION Spec
CONSTANTS
  Users = {ann, bob, eve}
  Registered = {ann, bob}
  Workspaces = {acme, other}
  Passwords = {p, q}
  Requests = {r1, r2}
  None = None
  MaxRows = 4
  MaxRequests = 3
SYMMETRY Symmetry
INVARIANTS OwnerStays
PROPERTIES WithinRank PasswordIsKept
CHECK_DEADLOCK FALSE
