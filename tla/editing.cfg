SPECIFICATION Spec
CONSTANTS
  Clients = {u1, u2}
  Definitions = {d0, d1}
  Default = d0
  MaxCalls = 3
  MaxVisits = 1
  MaxRefetches = 1
  MaxFailures = 1
SYMMETRY EditingSymmetry
INVARIANTS ConfirmedIsStored
PROPERTIES RunsAreFresh OwnVersionIsShown DraftIsKept
CHECK_DEADLOCK FALSE
