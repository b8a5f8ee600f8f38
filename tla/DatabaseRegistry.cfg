SPECIFICATION Spec
CONSTANTS
    n1 = n1  r1 = r1  r2 = r2  i1 = i1  s1 = s1
    Nodes = {n1}
    Reqs = {r1, r2}
    Ids = {i1}
    Slugs = {s1}
    Protected = {s1}
    Kinds = {"delete", "write"}
    Keys = {s1, i1}
    Quota = 1
    BatchSize = 1  MaxBatches = 1
    MaxDocs = 2
    MaxFailures = 1
    None = None
INVARIANTS NoOrphanDocuments
PROPERTIES DeletionCompletes RemovedIsForgotten
CHECK_DEADLOCK FALSE
