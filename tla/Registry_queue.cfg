SPECIFICATION FairSpec
CONSTANTS
    r1 = r1
    a1 = a1
    i1 = i1
    i2 = i2
    s1 = s1
    q1 = q1
    q2 = q2
    Rows <- OneRow
    Apps <- OneApp
    AppOf <- OneAppOf
    Forge <- GitHub
    Ingesters <- OneIngester
    Signers <- OneSigner
    Requests <- TwoRequests
    MaxTag = 2
    Good <- AllGood
    MaxSkips = 1
    MaxFaults = 1
ACTION_CONSTRAINT RequestsInTurn
INVARIANT TypeOK
INVARIANT ActiveWasDelegated
INVARIANT OneWorkerPerSource
INVARIANT ExecutorHoldsOpenJob
INVARIANT PublishedWasApproved
PROPERTY CurrentNeverRegresses
PROPERTY JobsFinish
PROPERTY ReleaseReachesClients
