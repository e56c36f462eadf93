CONSTANTS
    s1 = s1  s2 = s2  b1 = b1  b2 = b2  c1 = c1  c2 = c2  i1 = i1  i2 = i2
    Users = {}
    SDs = {s1, s2}
    Blobs = {b1, b2}
    Content <- SharedContent
    IVs = {i1, i2}
    NoIV = NoIV
    IV <- IVOfStream
    NoSD = NoSD
    NoBlob = NoBlob
    Callers = {c1, c2}
    Faults = TRUE
SYMMETRY CallerSymmetry
SPECIFICATION Spec
INVARIANTS TypeOK PutIsServed GetFailsForCause IInv
PROPERTIES ReadableUntilDisplaced KeepsShelf
