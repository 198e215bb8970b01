SPECIFICATION ClientSpec
CONSTANTS
    a1 = a1
    a2 = a2
    c1 = c1
    s1 = s1
    Apps <- OneApp
    Writers <- CeremonyAndSigner
    Ceremonies <- OneCeremony
    Online <- OneApp
    MaxRelease = 2
    MaxVersion = 6
    MaxFaults = 1
    Lock = "process"
    Reached <- SecondRelease
INVARIANT ClientTypeOK
INVARIANT ChecksComplete
INVARIANT OffersOnePublication
PROPERTY FilesAreImmutable
PROPERTY TimestampAdvances
PROPERTY ReportedIsPublished
PROPERTY PublishesAtomically
