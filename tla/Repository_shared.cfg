SPECIFICATION Spec
CONSTANTS
    a1 = a1
    a2 = a2
    c1 = c1
    s1 = s1
    Apps <- TwoApps
    Writers <- CeremonyAndSigner
    Ceremonies <- OneCeremony
    Online <- OneApp
    MaxRelease = 2
    MaxVersion = 3
    MaxFaults = 1
    Lock = "operation"
INVARIANT TypeOK
INVARIANT ReferencesResolve
INVARIANT PointerIsServed
