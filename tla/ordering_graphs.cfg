SPECIFICATION Spec
CONSTANT Nodes = {n1, n2, n3, n4}
INVARIANTS TypeOK NeverUnordered InputsAreThere TriggersGetRequest
PROPERTY EveryNodeRuns
CHECK_DEADLOCK FALSE
