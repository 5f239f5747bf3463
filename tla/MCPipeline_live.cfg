\* One request of every strategy under fairness of the gateway and of the providers.
SPECIFICATION FairSpec
CONSTANTS
    Requests = {r1}
    m1 = m1
    m2 = m2
    Models <- MCModels
    Names <- MCNames
    UpstreamName <- MCUpstreamName
    Configs <- AllConfigs
    NoVModel = NoVModel
    NoJudge = NoJudge
    ChannelCap = 2
    MaxTools = 1
    MaxHour = 0
    MaxPrice = 0
    MaxEdits = 1
PROPERTIES
    EveryRequestEnds
