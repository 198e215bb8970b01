SPECIFICATION Spec
CONSTANTS
    v1 = v1
    v2 = v2
    v3 = v3
    Versions <- ThreeVersions
    Healthy <- SomeHealthy
    MaxAttempts = 3
    MaxFaults = 2
SYMMETRY Symmetric
INVARIANT TypeOK
INVARIANT UsableInstall
INVARIANT RollbackReady
INVARIANT TriesBounded
CONSTRAINT NoStaleWriter
