CONSTANTS
    Thread = {1, 2}
    Address = {1, 2, 4, 5, 6}
    Index = {0, 1}
    path <- MCpath
    Dir = {0, 1, 2, 3, 4, 5, 6, 7}
    pgd = 0
    None = None
    Block <- MCBlock
    Grains = 2
    IntLimit = 5
    Infos = {1, 2, 3, 4}
    ways = 2
    rows = 1
    Programs <- MCPrograms
    LibSite = LibSite
SPECIFICATION Spec
INVARIANTS TypeOK AccessFindsOwner NoDanglingInfos
PROPERTY PageMapSpec
