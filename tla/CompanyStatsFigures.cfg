SPECIFICATION FairSpec
CONSTANTS
    rev1 = rev1
    rev2 = rev2
    rev3 = rev3
    Reviews = {rev1, rev2, rev3}
    NumColumns = 2
    NumKinds = 3
    Kind <- TwoColumns
    MinReviews = 2
    TTL = 1
    Readers = {r1, r2}
    Scale = 1000
INVARIANTS
    TypeOK
    FiguresAreModerated
    SharesAreFair
PROPERTIES
    StaleFiguresDieOut
