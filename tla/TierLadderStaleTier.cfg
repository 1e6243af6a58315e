SPECIFICATION Spec
CONSTANTS
    Users = {u1}
    Domains = {dom1}
    Codes = {c1, c2}
    Docs = {d1}
    Requests = {r1, r2}
INVARIANTS
    ApprovedMeansTier3
CHECK_DEADLOCK FALSE
