SPECIFICATION Spec
CONSTANTS
    Drafts = {d1, d2}
    Kinds = {service, point}
    Names = {a, b}
    MaxRecords = 2
    MaxGroups = 2
    MaxOperations = 2
    MaxRevision = 2
SYMMETRY Symmetry
INVARIANT HandlesTellTheTruth
INVARIANT CommittedIsClosed
PROPERTY OneKindForEver
CHECK_DEADLOCK FALSE
