SPECIFICATION Spec
CONSTANTS
    Users = {u1, u2}
    Domains = {dom1, dom2}
    Codes = {c1, c2}
    Docs = {d1, d2}
    Requests = {r1, r2, r3}
SYMMETRY Symmetry
INVARIANTS
    TypeOK
    EmailTierBacked
    DocumentTierBacked
    LadderNotSkipped
    DecidedFileGone
PROPERTIES
    OneRungAtATime
CHECK_DEADLOCK FALSE
