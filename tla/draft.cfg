SPECIFICATION Spec
CONSTANTS
  Initial <- Definitions
  CredentialType <- CredentialTypes
  None = None
  MaxNodes = 4
  MaxEdits = 2
INVARIANTS TypeOK DraftIsWellFormed LayoutFollowsEdges CredentialFits
CHECK_DEADLOCK FALSE
