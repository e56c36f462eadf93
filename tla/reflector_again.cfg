CONSTANTS
    u1 = u1
    s1 = s1  s2 = s2
    b1 = b1  b2 = b2
    c1 = c1  c2 = c2  i1 = i1  i2 = i2
    Users = {u1}
    SDs = {s1}
    Blobs = {b1, b2}
    Content <- SingleContent
    IVs = {i1, i2}
    NoIV = NoIV
    IV <- IVOfStream
    NoStream = NoStream
    NoBlob = NoBlob
    Conns = {c1}
    ConnUser <- OneUser
    MaxRuns = 2
    Faults = FALSE
    UniqueBlobNumber = TRUE
    ForeignKeys = FALSE
SPECIFICATION Spec
INVARIANTS StoredStreamIsPending
