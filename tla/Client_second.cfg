SPECIFICATION ClientSpec
CONSTANTS
    a1 = a1
    a2 = a2
    c1 = c1
    s1 = s1
    Apps <- TwoApps
    Writers <- CeremonyAndSigner
    Ceremonies <- OneCeremony
    Online <- TwoApps
    MaxRelease = 1
    MaxVersion = 5
    MaxFaults = 0
    Lock = "process"
    Reached <- AllReleases
INVARIANT NothingToOffer
