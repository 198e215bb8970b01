SPECIFICATION BrokerSpec
CONSTANTS
    Releases <- TwoReleases
    Overlong <- None
    Lifetime <- Lifetimes
    RootExpires = 2
    MaxVersion = 3
    MaxTime = 2
    SamePublisher <- SecondRelease
    MaxLapses = 2
INVARIANT BrokerTypeOK
INVARIANT NeverRollsBack
INVARIANT OneSnapshot
INVARIANT RefreshRecovers
PROPERTY InstallsWhatWasSigned
PROPERTY ConsentIsToWhatWasReported
