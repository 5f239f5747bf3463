------------------------- MODULE PipelineProperties -------------------------
(***************************************************************************)
(* What the request pipeline promises: section 6.3, 7 and 8 of the design  *)
(* document, as far as the code keeps it.                                  *)
(***************************************************************************)
EXTENDS RequestPipeline

Finished(r) == pc[r] \in {"done", "gone"}

\* No upstream call is billed twice, and a call is billed only once its
\* result is known and with that result: the failed attempts come from the
\* recorder, the stream's own call from its last event, and never both
\* (call_member, stream_real, write_stats).
BilledOnce ==
    \A r \in Requests : \A i, j \in DOMAIN real[r] :
        /\ real[r][i].k = real[r][j].k => i = j
        /\ real[r][i].k \in DOMAIN attempts[r]
        /\ real[r][i].status = attempts[r][real[r][i].k].result

\* The one kind of call that is never recorded: speed and cheapest pass on
\* the error of a stream that could not be opened.
Unrecorded(r, k) ==
    /\ cfg[r].strategy \in {"speed", "cheapest"}
    /\ attempts[r][k].via = "stream" /\ attempts[r][k].result = "failed"

BilledCall(r, k) == \E i \in DOMAIN real[r] : real[r][i].k = k

\* Once a request is over, and neither the client left nor a statement
\* failed, every upstream call it made is in the real rows, save for the
\* calls Unrecorded describes: members that failed before another answered,
\* members of a panel whose judge failed, tools, streams that broke off.
EveryCallBilled ==
    \A r \in Requests : pc[r] = "done" /\ ~aborted[r] =>
        \A k \in DOMAIN attempts[r] : BilledCall(r, k) \/ Unrecorded(r, k)

\* A summary row sums the real rows of its request, all of one hour.
SumsReal(r, summary) ==
    /\ summary.calls = real[r]
    /\ \A j \in DOMAIN real[r] : real[r][j].hour = summary.hour

OneBasis(r) ==
    /\ Len(virtual[r]) <= 1
    /\ Len(total[r]) <= Len(virtual[r])
    /\ Len(reqLog[r]) <= Len(total[r])
    /\ \A i \in DOMAIN virtual[r] : SumsReal(r, virtual[r][i])
    /\ \A i \in DOMAIN total[r] : total[r][i] = virtual[r][i]
    /\ \A i \in DOMAIN reqLog[r] :
          /\ SumsReal(r, reqLog[r][i])
          /\ reqLog[r][i].err = virtual[r][i].err

\* The tables are written in one order and from one set of calls: a summary
\* row in the virtual, the total or the log table sums exactly the real rows
\* of the request, with the costs that were written there though prices may
\* have changed since, all in one hour; and none is there without the one
\* before it (write_stats).
SameBasis == \A r \in Requests : OneBasis(r)

\* A request counts as an error exactly when its client was told of one, by
\* a status or by the last event of its stream (handle, stream_real).
ErrorsAsSeen ==
    \A r \in Requests : pc[r] = "done" =>
        \A i \in DOMAIN virtual[r] :
            virtual[r][i].err <=> client[r] \in {"error", "stream-error"}

\* A client that has a full answer or an error status can read its request
\* in the tables, unless a statement failed: they are written before handle
\* returns.
CountedBeforeAnswered ==
    \A r \in Requests :
        client[r] \in {"full", "error"} => aborted[r] \/ Len(reqLog[r]) = 1

\* failover calls the members in their order, and a member only after all
\* before it failed; so whatever went well is the last call.
FailoverInOrder ==
    \A r \in Requests : cfg[r].strategy = "failover" =>
        \A k \in DOMAIN attempts[r] :
            /\ k <= Len(Members(r)) /\ attempts[r][k].model = Members(r)[k]
            /\ k < Len(attempts[r]) => attempts[r][k].result = "failed"

\* The judge is called once, last, after every member's call has been
\* answered, on at least one answer, and in synthesize's strict mode on
\* min_answers of them unless all members answered.
JudgeLast ==
    \A r \in Requests : \A k \in DOMAIN attempts[r] :
        attempts[r][k].role = "judge" =>
            /\ cfg[r].strategy \in PanelStrategies
            /\ k = Len(attempts[r]) /\ k = Len(Members(r)) + 1
            /\ answers[r] # {}
            /\ cfg[r].strategy = "synthesize" /\ cfg[r].strict =>
                  \/ Cardinality(answers[r]) = Len(Members(r))
                  \/ Cardinality(answers[r]) >= cfg[r].min

\* Once a stream is open the request makes no other call: bytes may have
\* reached the client, and no member can take over (failover, section 7.1).
CommittedToStream ==
    [][\A r \in Requests :
          stream[r] # NoStream => Len(attempts'[r]) = Len(attempts[r])]_vars

\* Every request comes to an end, when every upstream call does.
EveryRequestEnds == \A r \in Requests : pc[r] = "received" ~> Finished(r)

-----------------------------------------------------------------------------
(* What documents of the repository say, and the code does otherwise *)

\* "each underlying call is recorded exactly once", a stream that fails before
\* Started included: docs/superpowers/specs/2026-06-26-localfusion-design.md:536-552.
EveryCallRecorded ==
    \A r \in Requests : pc[r] = "done" /\ ~aborted[r] =>
        \A k \in DOMAIN attempts[r] : BilledCall(r, k)

\* "token/cost: the sum of the real rows equals the increment of virtual and
\* of total, always": the design document, section 8.
RealEqualsVirtual ==
    \A r \in Requests : Finished(r) /\ real[r] # << >> => virtual[r] # << >>

\* "a member fails on a connection error, a 5xx or a timeout (params
\* timeout_secs); then the next one": the design document, section 7.1.
FailoverTimesOut ==
    \A r \in Requests : \A i \in 1 .. 2 :
        (pc[r] \in {"connect", "call"} /\ cfg[r].strategy = "failover" /\ idx[r] = i)
            ~> (pc[r] \notin {"connect", "call"} \/ idx[r] # i)
=============================================================================
