SPECIFICATION Spec
CONSTANTS
    r1 = r1
    r2 = r2
    None = None
    Width <- Lengths
    TermsSize = 2
    HitsSize = 2
    UsersSize = 2
    PrefixOf <- NamePrefixes
    Requests = {r1}
    Asks <- TwoGroupsOnly
    Indexes <- SmallIndexes
    MaxFailures = 1
INVARIANTS
    RowsKeepTheirKeys
