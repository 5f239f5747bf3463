-------------------------- MODULE RequestPipeline --------------------------
(***************************************************************************)
(* The life of an inference request: handle() (ingress/handler.rs) reads   *)
(* the strategy's name for the log, Router::dispatch (router.rs) reads the *)
(* virtual model and, in a query of its own, its members, a strategy calls *)
(* the upstream models, and the calls are counted and the client answered. *)
(* Around it the environment acts: providers answer or break off, the      *)
(* client goes away, an operator edits the virtual model and the prices,   *)
(* time passes.                                                            *)
(***************************************************************************)
EXTENDS SingleModel, Panel, Multimodal, Accounting

TypeOK ==
    /\ pc \in [Requests -> PCs]
    /\ want \in [Requests -> BOOLEAN]
    /\ logName \in [Requests -> Strategies \cup {""}]
    /\ cfg \in [Requests -> ConfigSpace]
    /\ idx \in [Requests -> Nat]
    /\ waiting \in [Requests -> SUBSET Nat]
    /\ answers \in [Requests -> SUBSET Nat]
    /\ tools \in [Requests -> Nat]
    /\ attempts \in [Requests -> Seq(Attempt)]
    /\ recorder \in [Requests -> Seq(Usage)]
    /\ stream \in [Requests -> Streams]
    /\ tail \in [Requests -> Seq(Usage)]
    /\ errFlag \in [Requests -> BOOLEAN]
    /\ todo \in [Requests -> Seq(Usage)]
    /\ agg \in [Requests -> Seq(RealEntry)]
    /\ stamp \in [Requests -> Nat]
    /\ aborted \in [Requests -> BOOLEAN]
    /\ real \in [Requests -> Seq(RealEntry)]
    /\ virtual \in [Requests -> Seq(SummaryEntry)]
    /\ total \in [Requests -> Seq(SummaryEntry)]
    /\ reqLog \in [Requests -> Seq(LogEntry)]
    /\ client \in [Requests -> ClientViews]
    /\ vmodel \in Configs \cup {NoVModel}
    /\ prices \in [Models -> Nat]
    /\ hour \in Nat
    /\ edits \in Nat

Init ==
    /\ pc = [r \in Requests |-> "received"]
    /\ want \in [Requests -> BOOLEAN]
    /\ logName = [r \in Requests |-> ""]
    /\ cfg = [r \in Requests |->
                 [strategy |-> "failover", members |-> << >>, judge |-> NoJudge,
                  min |-> 1, strict |-> FALSE, maxIter |-> 0]]
    /\ idx = [r \in Requests |-> 1]
    /\ waiting = [r \in Requests |-> {}]
    /\ answers = [r \in Requests |-> {}]
    /\ tools = [r \in Requests |-> 0]
    /\ attempts = [r \in Requests |-> << >>]
    /\ recorder = [r \in Requests |-> << >>]
    /\ stream = [r \in Requests |-> NoStream]
    /\ tail = [r \in Requests |-> << >>]
    /\ errFlag = [r \in Requests |-> FALSE]
    /\ todo = [r \in Requests |-> << >>]
    /\ agg = [r \in Requests |-> << >>]
    /\ stamp = [r \in Requests |-> 0]
    /\ aborted = [r \in Requests |-> FALSE]
    /\ real = [r \in Requests |-> << >>]
    /\ virtual = [r \in Requests |-> << >>]
    /\ total = [r \in Requests |-> << >>]
    /\ reqLog = [r \in Requests |-> << >>]
    /\ client = [r \in Requests |-> "waiting"]
    /\ vmodel \in Configs
    /\ prices = [m \in Models |-> 0]
    /\ hour = 0
    /\ edits = 0

-----------------------------------------------------------------------------
(* handle() up to the strategy *)

\* No model in the body, a key that is refused, a body that does not parse:
\* answered at once, before anything is counted.
Reject(r) ==
    /\ Goto(r, "received", "done")
    /\ client' = [client EXCEPT ![r] = "rejected"]
    /\ UNCHANGED <<dispatchVars, strategyVars, callVars, streamVars, writeVars,
                   ledgerVars, envVars>>

Accept(r) ==
    /\ Goto(r, "received", "name")
    /\ UNCHANGED <<dispatchVars, strategyVars, callVars, streamVars, writeVars,
                   ledgerVars, client, envVars>>

\* The name for the request log; a missing row or a failing query gives "".
ReadStrategyName(r) ==
    /\ Goto(r, "name", "vmodel")
    /\ \E name \in {""} \cup (IF vmodel = NoVModel THEN {} ELSE {vmodel.strategy}) :
          logName' = [logName EXCEPT ![r] = name]
    /\ UNCHANGED <<want, cfg, strategyVars, callVars, streamVars, writeVars,
                   ledgerVars, client, envVars>>

\* dispatch(): strategy and params ...
LoadVModel(r) ==
    /\ vmodel # NoVModel
    /\ Goto(r, "vmodel", "members")
    /\ cfg' = [cfg EXCEPT ![r] = WithMembers(vmodel, << >>)]
    /\ UNCHANGED <<want, logName, strategyVars, callVars, streamVars, writeVars,
                   ledgerVars, client, envVars>>

\* ... and the members, of whatever the virtual model is by now.
LoadMembers(r) ==
    /\ Goto(r, "members", "dispatch")
    /\ cfg' = [cfg EXCEPT ![r] =
           WithMembers(@, IF vmodel = NoVModel THEN << >> ELSE vmodel.members)]
    /\ UNCHANGED <<want, logName, strategyVars, callVars, streamVars, writeVars,
                   ledgerVars, client, envVars>>

\* The virtual model does not exist, a query fails, a member cannot be
\* resolved, or speed or cheapest cannot read its metric.
DispatchFails(r) ==
    /\ \E from \in {"vmodel", "members", "dispatch"} : Goto(r, from, "failed")
    /\ UNCHANGED <<dispatchVars, strategyVars, callVars, streamVars, writeVars,
                   ledgerVars, client, envVars>>

\* All members are resolved: Strategy::execute starts.
Begin(r) == BeginFailover(r) \/ BeginPick(r) \/ BeginPanel(r) \/ BeginMultimodal(r)

-----------------------------------------------------------------------------
(* The environment *)

\* The last call of `calls` has come to an end.
EndLast(calls, result) ==
    [k \in DOMAIN calls |->
        IF k < Len(calls) THEN calls[k]
        ELSE [model |-> calls[k].model, role |-> calls[k].role, via |-> calls[k].via,
              result |-> result]]

\* The result of the stream is known when its last event is sent.
StreamSends(r, kind) ==
    /\ CanSend(stream[r])
    /\ stream' = [stream EXCEPT ![r] = Send(@, kind)]
    /\ IF kind \in Terminal
         THEN attempts' = [attempts EXCEPT ![r] =
                  EndLast(@, IF kind = "done" THEN "ok" ELSE "failed")]
         ELSE UNCHANGED attempts
    /\ UNCHANGED <<pc, dispatchVars, strategyVars, recorder, tail, writeVars,
                   ledgerVars, client, envVars>>

StreamEnds(r) == \E kind \in Terminal : StreamSends(r, kind)

\* The client closes its connection: the server drops the task of the
\* request with every call it is awaiting, or the body it is sending.
Disconnect(r) ==
    /\ pc[r] \notin {"done", "gone"}
    /\ pc' = [pc EXCEPT ![r] = "gone"]
    /\ stream' = [stream EXCEPT ![r] = DropReceiver(@)]
    /\ UNCHANGED <<dispatchVars, strategyVars, callVars, tail, writeVars, ledgerVars,
                   client, envVars>>

Edit ==
    /\ edits < MaxEdits
    /\ edits' = edits + 1

\* virtual_models and virtual_model_members change in one transaction.
EditVModel ==
    /\ Edit
    /\ vmodel' \in Configs \cup {NoVModel}
    /\ UNCHANGED <<pc, dispatchVars, strategyVars, callVars, streamVars, writeVars,
                   ledgerVars, client, prices, hour>>

EditPrice ==
    /\ Edit
    /\ \E m \in Models, p \in 0 .. MaxPrice : prices' = [prices EXCEPT ![m] = p]
    /\ UNCHANGED <<pc, dispatchVars, strategyVars, callVars, streamVars, writeVars,
                   ledgerVars, client, vmodel, hour>>

Tick ==
    /\ hour < MaxHour
    /\ hour' = hour + 1
    /\ UNCHANGED <<pc, dispatchVars, strategyVars, callVars, streamVars, writeVars,
                   ledgerVars, client, vmodel, prices, edits>>

-----------------------------------------------------------------------------
(* What the gateway does by itself, and what it waits for *)
GatewayStep(r) ==
    \/ Reject(r) \/ Accept(r)
    \/ ReadStrategyName(r) \/ LoadVModel(r) \/ LoadMembers(r) \/ DispatchFails(r)
    \/ Begin(r)
    \/ PanelDecides(r)
    \/ UnroutedTool(r) \/ RoutedTool(r)
    \/ AccountingStep(r)

UpstreamReply(r) == SingleReply(r) \/ PanelReply(r) \/ MultimodalReply(r)

Next ==
    \/ \E r \in Requests :
          \/ GatewayStep(r)
          \/ UpstreamReply(r)
          \/ StreamSends(r, "delta") \/ StreamEnds(r)
          \/ Disconnect(r)
    \/ EditVModel \/ EditPrice \/ Tick
    \/ (\A r \in Requests : pc[r] \in {"done", "gone"}) /\ UNCHANGED vars

Spec == Init /\ [][Next]_vars

\* The runtime runs every task that is ready.
GatewayFairness == \A r \in Requests : WF_vars(GatewayStep(r))

\* Providers: every call is answered some day, and no stream goes on forever
\* (it is given infinitely many chances to end while the channel has room).
UpstreamFairness ==
    \A r \in Requests : WF_vars(UpstreamReply(r)) /\ SF_vars(StreamEnds(r))

FairSpec == Spec /\ GatewayFairness /\ UpstreamFairness

\* The gateway alone: nothing is assumed of the providers.
GatewayFairSpec == Spec /\ GatewayFairness
=============================================================================
