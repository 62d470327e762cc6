SPECIFICATION FairSpec
CONSTANTS
    Jobs = {j1}
    PlainJobs = {}
    MaxLoss = 1
    Environments = {{"crashes"}, {"refusals", "losses", "crashes"}}
    NoHash = NoHash
CHECK_DEADLOCK FALSE
INVARIANTS EngineStartsBounded InputsOutliveQueue DispatchedJobHasHash CompletedHasOutput HashAgreesWhenAcked SyncAnswerAgrees
PROPERTIES FriendlyErrorKept CompletedFailsOnlyAfterLoss PublishedSettles UploadsDrain
