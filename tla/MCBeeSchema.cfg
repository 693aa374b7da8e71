CONSTANTS
    a = a
    b = b
    b0 = b0
    b1 = b1
    b2 = b2
    Names <- MCNames
    SpaceNos <- MCSpaceNos
    IndexNos <- MCIndexNos
    Bytes <- MCBytes
    Catalogs <- MCCatalogs
    Ids <- MCIds
    IndexIds <- MCIndexIds
    None = None

SPECIFICATION Spec

INVARIANTS TypeOK NothingLost SinceFlush NoDangling FreedOnce
PROPERTY IsCache
