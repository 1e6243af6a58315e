\* Two employers that may share a domain, one user, one admin and two handlers:
\* who is admitted when, and what a withdrawn account can still do.
SPECIFICATION Spec
CONSTANTS
    Users = {u1}
    Employers = {e1, e2}
    Admins = {a1}
    Domains = {d1, d2}
    Requests = {r1, r2}
    AccessLife = 1
    RefreshLife = 3
    Horizon = 3
    MaxTokens = 3
SYMMETRY Symmetry
INVARIANTS TypeOK AccessWindow RevocationCeiling ClashLocksOut
CHECK_DEADLOCK FALSE
