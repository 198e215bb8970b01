SPECIFICATION FairSpec
CONSTANTS
    None = None
    b1 = b1
    b2 = b2
    b3 = b3
    web = web
    cdn = cdn
    stray = stray
    MaxTag = 2
    Blobs <- ThreeBlobs
    Size <- Sizes
    MaxAssetBytes = 2
    MaxArtifactBytes = 2
    Critical = FALSE
    Archive <- Archives
    Documents <- FewDocuments
    Truth <- Built
    Repositories <- TwoRepositories
    FirstOwner = "first"
    Hosts <- ThreeHosts
    AllowedHosts <- TwoAllowed
    Route <- TwoHops
    MaxRedirects = 1
    Skip <- AllGates
    MaxSkips = 2
    MaxChanges = 4
    MaxFaults = 0
INVARIANT SubstitutionIsRejected
