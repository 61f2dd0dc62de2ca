\* One fetch, with every kind of settings; tags come two instances at a time,
\* RDS answers one instance per page.
SPECIFICATION Spec
CONSTANTS
    NIL = NIL
    BLANK = BLANK
    AllRegions <- MCAllRegions
    Data <- MCData
    FirstTags <- MCFirstTags
    Retags <- MCRetags
    Late = {3, 5, 11}
    Records <- MCRecords
    Substrings <- MCSubstrings
    Settings <- MCSettings
    Parts <- MCParts
    Marks <- MCMarks
    Dashes <- MCDashes
    Lower <- MCLower
    ChunkSize = 2
    PageSize = 1
    CachePage = 2
    MaxChanges = 2
INVARIANTS TypeOK FetchWhole NamesResolve TagsRight CachePathsApart
PROPERTY FetchEnds
CHECK_DEADLOCK FALSE
