---------------------------- MODULE RequestCore ----------------------------
(***************************************************************************)
(* The state of the inference requests that the gateway serves, and the    *)
(* operators every strategy uses on it: the upstream call that records     *)
(* itself (strategy/mod.rs, call_member) and the CallRecorder (unified.rs).*)
(*                                                                         *)
(* Each request is one task: handle() of ingress/handler.rs, and after it  *)
(* the body generator of stream_real.  A step of the model is what that    *)
(* task does between two awaits.  Text, prompts and tokens are left out; a *)
(* call is known by its position in attempts[r].                           *)
(***************************************************************************)
EXTENDS StreamOps, FiniteSets

CONSTANTS
    Requests,       \* the requests that arrive
    Models,         \* ids of the models table
    Names,          \* what a usage row may be named: model ids, upstream names
    UpstreamName,   \* models.model: the name the provider knows a model by
    Configs,        \* the configurations an operator may give the virtual model
    NoVModel,       \* the virtual model does not exist
    NoJudge,        \* params.judge is absent
    MaxTools,       \* bound: tool calls in one reply of a multimodal main model
    MaxHour,        \* bound: hours that pass
    MaxPrice,       \* bound: prices are 0 .. MaxPrice, 0 when no row exists
    MaxEdits        \* bound: operator edits of prices or of the virtual model

SingleStrategies == {"failover", "speed", "cheapest"}
PanelStrategies  == {"synthesize", "best-of-n"}
Strategies       == SingleStrategies \cup PanelStrategies \cup {"multimodal"}

\* A row of virtual_models with its virtual_model_members in position order.
ConfigSpace ==
    [strategy : Strategies, members : Seq(Models), judge : Models \cup {NoJudge},
     min : Nat, strict : BOOLEAN, maxIter : Nat]

\* The same virtual model with other members.
WithMembers(c, members) ==
    [strategy |-> c.strategy, members |-> members, judge |-> c.judge,
     min |-> c.min, strict |-> c.strict, maxIter |-> c.maxIter]

ASSUME CoreAssumption ==
    /\ Models \subseteq Names
    /\ UpstreamName \in [Models -> Names]
    /\ Configs \subseteq ConfigSpace
    /\ NoVModel \notin Configs
    /\ MaxTools \in Nat /\ MaxHour \in Nat /\ MaxPrice \in Nat /\ MaxEdits \in Nat

Roles    == {"member", "judge", "tool"}
Statuses == {"ok", "failed"}

\* ModelUsage as the recorder and Done.call / Error.call carry it; k is the
\* position of the call it describes, which the code does not store.
Usage == [k : Nat, name : Names, status : Statuses]

\* What one upsert of a "real" row added, and what one upsert of the
\* "virtual" or the "total" row added: the sum of the summands it lists.
RealEntry    == [k : Nat, name : Names, status : Statuses, hour : Nat, cost : Nat]
SummaryEntry == [hour : Nat, calls : Seq(RealEntry), err : BOOLEAN]
LogEntry     == [strategy : Strategies \cup {""}, hour : Nat, calls : Seq(RealEntry),
                 err : BOOLEAN]

Attempt == [model : Models, role : Roles, via : {"complete", "stream"},
            result : Statuses \cup {"open"}]

PCs == {"received", "name", "vmodel", "members", "dispatch",   \* handle, dispatch
        "connect", "call",                                     \* one member
        "panel", "judge",                                      \* panel
        "main", "tools", "tool",                               \* multimodal
        "forward", "full", "failed",                           \* strategy returned
        "real", "total", "log", "reply",                       \* write_stats
        "done", "gone"}

ClientViews == {"waiting", "rejected", "full", "error",
                "streaming", "stream-done", "stream-error"}

VARIABLES
    pc,         \* where the task of each request stands
    want,       \* req.stream, as parsed from the body
    logName,    \* the strategy name handle() read for the request log
    cfg,        \* what dispatch() read of the virtual model
    idx,        \* failover: member being tried; multimodal: iteration
    waiting,    \* panel: members whose call is in flight
    answers,    \* panel: members that answered with a non-blank text
    tools,      \* multimodal: tool calls of the last reply not yet handled
    attempts,   \* history: every upstream call that has been answered, in order
    recorder,   \* CallRecorder.calls
    stream,     \* the channel of stream_real
    tail,       \* stream_real's Option<ModelUsage>, as a sequence
    errFlag,    \* request_failed, the argument of write_stats
    todo,       \* write_stats: all_calls not yet written
    agg,        \* write_stats: the summands of agg_in, agg_out and agg_cost
    stamp,      \* write_stats: hour of now_ts
    aborted,    \* history: a statement of write_stats failed
    real, virtual, total, reqLog,  \* what each request added to the tables
    client,     \* history: what the client has been told
    vmodel,     \* the virtual model's current configuration
    prices,     \* the prices table
    hour,       \* the clock, in hours
    edits       \* bound: operator edits so far

dispatchVars == <<want, logName, cfg>>
strategyVars == <<idx, waiting, answers, tools>>
callVars     == <<attempts, recorder>>
streamVars   == <<stream, tail>>
writeVars    == <<errFlag, todo, agg, stamp, aborted>>
ledgerVars   == <<real, virtual, total, reqLog>>
envVars      == <<vmodel, prices, hour, edits>>

vars == <<pc, dispatchVars, strategyVars, callVars, streamVars, writeVars,
          ledgerVars, client, envVars>>

\* The task of r moves from one await to the next.
Goto(r, from, to) == pc[r] = from /\ pc' = [pc EXCEPT ![r] = to]

Members(r) == cfg[r].members

\* ModelUsage of a call to model m: a failure carries the id of the models
\* table, an answer the name the connector was given (egress.model).
UsageOf(k, m, status) ==
    [k |-> k, name |-> IF status = "ok" THEN UpstreamName[m] ELSE m, status |-> status]

\* CallRecorder::record
Record(r, usage) == recorder' = [recorder EXCEPT ![r] = Append(@, usage)]

\* History: an upstream call to m has been answered.
Answered(r, m, role, via, result) ==
    attempts' = [attempts EXCEPT
        ![r] = Append(@, [model |-> m, role |-> role, via |-> via, result |-> result])]

\* The call that Done.call or Error.call of the request's stream describes: the
\* stream is the last call the request made, and both carry egress.model.
StreamCall(r, status) ==
    [k |-> Len(attempts[r]), name |-> UpstreamName[attempts[r][Len(attempts[r])].model],
     status |-> status]

\* call_member: Connector::complete has returned, and whatever it returned
\* is recorded.
CallMember(r, m, role, status) ==
    /\ Answered(r, m, role, "complete", status)
    /\ Record(r, UsageOf(Len(attempts[r]) + 1, m, status))

\* A strategy returns Ok(StrategyOutput::Full(..)) or Err(..).
Outcome(status) == IF status = "ok" THEN "full" ELSE "failed"
=============================================================================
