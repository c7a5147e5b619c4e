SPECIFICATION AllSpec
CONSTANTS
    p1 = p1
    p2 = p2
    m1 = m1
    empty = empty
    plain = plain
    illustrated = illustrated
    Posts <- TwoPosts
    Assets <- OneAsset
    NoAsset = NoAsset
    Documents <- ThreeDocuments
    EmptyDocument = empty
    Inline <- Images
    MaxRevision = 3
    Tries = 3
    Entries = {1, 2, 3}
    SortKeys = {1, 2}
    PageSize = 2
    MaxChanges = 2
    MAX_NODES = 5
    MAX_DEPTH = 3
    MAX_TEXT_CHARS = 1
    EditorNodes = 5
    Kinds <- EditorKinds
INVARIANTS PublishedMediaIsPublic WalksTell AcceptsGrammar RendersAccepted
PROPERTIES ChangesAreCounted SnapshotListsRevision
