\* A member that never answers, under fairness of the gateway alone.
SPECIFICATION GatewayFairSpec
CONSTANTS
    Requests = {r1}
    m1 = m1
    m2 = m2
    Models <- MCModels
    Names <- MCNames
    UpstreamName <- MCUpstreamName
    Configs <- SingleConfigs
    NoVModel = NoVModel
    NoJudge = NoJudge
    ChannelCap = 2
    MaxTools = 1
    MaxHour = 0
    MaxPrice = 1
    MaxEdits = 0
PROPERTIES
    FailoverTimesOut
