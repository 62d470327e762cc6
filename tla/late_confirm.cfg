SPECIFICATION Spec
CONSTANTS
    Jobs = {j1}
    PlainJobs = {}
    MaxLoss = 1
    Environments = {{}}
    NoHash = NoHash
CHECK_DEADLOCK FALSE
PROPERTIES ConfirmUpdatesOnlyDispatchFields
