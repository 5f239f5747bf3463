\* One request of every strategy, with edits, a change of hour and disconnects.
SPECIFICATION Spec
CONSTANTS
    Requests = {r1}
    m1 = m1
    m2 = m2
    Models <- MCModels
    Names <- MCNames
    UpstreamName <- MCUpstreamName
    Configs <- AllConfigs
    NoVModel = NoVModel
    NoJudge = NoJudge
    ChannelCap = 2
    MaxTools = 1
    MaxHour = 1
    MaxPrice = 1
    MaxEdits = 1
INVARIANTS
    TypeOK
    BilledOnce
    EveryCallBilled
    SameBasis
    ErrorsAsSeen
    CountedBeforeAnswered
    FailoverInOrder
    JudgeLast
PROPERTIES
    CommittedToStream
