SPECIFICATION Spec
CONSTANTS
    Users = {u1, u2}
    Domains = {dom1, dom2}
    Codes = {c1, c2}
    Docs = {d1, d2}
    Requests = {r1}
INVARIANTS
    ApprovedMeansTier3
    Tier3MeansApproved
PROPERTIES
    LadderSpec
CHECK_DEADLOCK FALSE
