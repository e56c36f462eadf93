CONSTANTS
    u1 = u1  u2 = u2  s1 = s1  s2 = s2  s3 = s3  b1 = b1  b2 = b2  b3 = b3  b4 = b4
    post = post  pinMade = pinMade  pinFound = pinFound  i1 = i1
    Users = {u1, u2}
    SDs = {s1, s2, s3}
    Blobs = {b1, b2, b3, b4}
    Content <- ThreeStreams
    IVs = {i1}
    NoIV = NoIV
    IV <- OneIV
    Uploads = {post}
    Retrieves = {pinMade, pinFound}
    RunUser <- TwoUsers
    Makes <- OneUpload
    Asked <- TwoPins
    Network = {s3}
    Faults = TRUE
SPECIFICATION FairSpec
INVARIANTS TypeOK PinnedStreamReadable PublishedIsStored WorksNotBlocked IInv
PROPERTIES WorkflowsFinish OnlyPutsOnShelf
