CONSTANTS
    u1 = u1  u2 = u2  s1 = s1  b1 = b1  b2 = b2  a1 = a1  a2 = a2  p1 = p1  q1 = q1  q2 = q2  i1 = i1
    Users = {u1, u2}
    SDs = {s1}
    Blobs = {b1, b2}
    Content <- SmallContent
    IVs = {i1}
    NoIV = NoIV
    IV <- OneIV
    NoStream = NoStream
    NoBlob = NoBlob
    NoUser = NoUser
    NoAddress = NoAddress
    Addresses = {a1, a2}
    Requests = {q1, q2}
    MaxDevices = 2
    SnapshotReads = FALSE
    Peers = {p1}
    PeerAddress <- PeerAtFirst
    Faults = TRUE
    UniqueBlobNumber = TRUE
    ForeignKeys = FALSE
SYMMETRY UserRequestSymmetry
SPECIFICATION Spec
INVARIANTS TypeOK OneDevicePerAddress UploadStaysWithUser IInv
PROPERTIES AddressKeepsOwner RevokedUsersKeepOut
