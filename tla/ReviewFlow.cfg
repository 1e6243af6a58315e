SPECIFICATION Spec
CONSTANTS
    Users = {u1, u2}
    Companies = {co1, co2}
    ReviewIds = {rev1, rev2}
    LayoffIds = {lay1}
    Moderators = {m1}
    Requests = {r1, r2, r3}
SYMMETRY Symmetry
INVARIANTS
    TypeOK
    OneReviewPerAuthor
    BackersAreOthers
    OneOfficialReply
    ChecksStillHold
PROPERTIES
    QueueSpec
