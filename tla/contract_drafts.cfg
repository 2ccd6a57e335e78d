SPECIFICATION Spec
CONSTANTS Ids = {a, b, c}
          MaxNodes = 3
          MaxEdges = 3
INVARIANTS TypeOK AcceptsExecutable SearchesAreExact
CHECK_DEADLOCK FALSE
PROPERTY ValidationEnds
