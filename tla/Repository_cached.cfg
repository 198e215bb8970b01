SPECIFICATION Spec
CONSTANTS
    a1 = a1
    a2 = a2
    c1 = c1
    s1 = s1
    Apps <- OneApp
    Writers <- CeremonyAndSigner
    Ceremonies <- OneCeremony
    Online <- OneApp
    MaxRelease = 1
    MaxVersion = 4
    MaxFaults = 0
    Lock = "operation"
PROPERTY FilesAreImmutable
