---------------------------- MODULE MCPipeline ----------------------------
(* The request pipeline on small instances. *)
EXTENDS PipelineProperties, TLC

CONSTANTS m1, m2

MCModels == {m1, m2}
MCNames == MCModels \cup {"upstream"}
\* m1 is known to its provider by another name, m2 by its own.
MCUpstreamName == (m1 :> "upstream") @@ (m2 :> m2)

Config(strategy, members, judge, min, strict, iterations) ==
    [strategy |-> strategy, members |-> members, judge |-> judge, min |-> min,
     strict |-> strict, maxIter |-> iterations]

SingleConfigs ==
    { Config("failover", <<m1, m2>>, NoJudge, 1, FALSE, 0),
      Config("speed", <<m1, m2>>, NoJudge, 1, FALSE, 0),
      Config("cheapest", <<m2>>, NoJudge, 1, FALSE, 0) }

PanelConfigs ==
    { Config("synthesize", <<m1, m2>>, m2, 2, TRUE, 0),
      Config("best-of-n", <<m2, m1>>, m1, 1, FALSE, 0),
      Config("best-of-n", <<m1>>, NoJudge, 1, FALSE, 0) }

LoopConfigs ==
    { Config("multimodal", <<m1>>, NoJudge, 1, FALSE, 2) }

AllConfigs == SingleConfigs \cup PanelConfigs \cup LoopConfigs
=============================================================================
