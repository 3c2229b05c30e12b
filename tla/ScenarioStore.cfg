SPECIFICATION EditorSpec
CONSTANTS
    a1 = a1
    a2 = a2
    Editors = {a1, a2}
    MaxDocs = 4
    Ids <- MCIds
    NoId = "none"
    MaxNodes = 3
    MaxEdges = 3
    Drafts <- MCDrafts
SYMMETRY Symmetry
INVARIANT AtMostOnePublished
INVARIANT PublishedStays
INVARIANT DraftsJudged
CHECK_DEADLOCK FALSE
