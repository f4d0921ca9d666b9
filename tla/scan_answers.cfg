SPECIFICATION Spec
CONSTANTS
    LogW = 2
    CharBits = 2
    SkelChars = 2
    Percent = 3
    Null = Null
    Indexes = {0, 2, 4, 9}
    MaxVersion = 3
    MaxFresh = 1
    MaxRows = 6
    GramBits <- MCGramBits
    AllRows <- MCAllRows
    NewRows <- MCNewRows
    Loads <- MCLoads
    NameLengths <- MCNameLengths
    Queries <- MCQueries
INVARIANTS TypeOK ScanFindsMatchingRows SumsAreOfFoundRows MergedExtremes FilesReadBack
PROPERTY ImplementsRowTable
