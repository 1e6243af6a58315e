SPECIFICATION Spec
CONSTANTS
    ReviewIds = {rev1, rev2}
    LayoffIds = {lay1}
    Moderators = {m1, m2}
SYMMETRY Symmetry
INVARIANTS
    TypeOK
    StatusExplainedByAudit
    DecisionCeiling
PROPERTIES
    RevisableLifecycle
CHECK_DEADLOCK FALSE
