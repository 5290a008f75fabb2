CONSTANTS
    p = p
    q = q
    r = r
    Null = Null
    Tasks = {t1, t2}
    Files = {f1}
    Objects = {x1, x2}
    Identifiers <- MCIdentifiers
    MaxMappings = 2
    PageSize = 2
    MaxAddress = 7
    MaxWindows = 1
    CreateRequests <- MCCreateRequests
    IdSources = {"create", "list"}
SYMMETRY Symmetric
SPECIFICATION Spec
INVARIANT
    DestroyRemovesNode
