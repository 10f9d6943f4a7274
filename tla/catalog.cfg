SPECIFICATION Spec
CONSTANTS
    MaxTime = 2
    Artifacts = {1, 2, 3}
    PageLimit = 2
    Candidates = 2
    RowCounts = {0, 2}
    PagesTime = 2
    MaxWrites = 1
    Nodes = {a, b, c}
    Root = a
    NodeLimit = 3
    MaxDepth = 2
    MaxLinks = 3
    MaxUpdates = 2
    Runs = {r1, r2}
    MaxCandidates = 2
    MaxArtifacts = 4
    MaxEdits = 1
    Channels = {ch1, ch2}
    Ids = {m1, m2}
    MaxSpan = 2
    MaxMessages = 2
    MaxSearches = 1
SYMMETRY Symmetry
INVARIANT PagesWhole
INVARIANT WalksTell
INVARIANT OneOfEach
INVARIANT SavedAsApproved
CHECK_DEADLOCK FALSE
