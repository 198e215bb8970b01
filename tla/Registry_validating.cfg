SPECIFICATION FairSpec
CONSTANTS
    r1 = r1
    a1 = a1
    i1 = i1
    i2 = i2
    s1 = s1
    q1 = q1
    q2 = q2
    Rows <- OneRow
    Apps <- OneApp
    AppOf <- OneAppOf
    Forge <- GitHub
    Ingesters <- OneIngester
    Signers <- OneSigner
    Requests <- OneRequest
    MaxTag = 1
    Good <- AllGood
    MaxSkips = 0
    MaxFaults = 0
PROPERTY ValidatingEnds
