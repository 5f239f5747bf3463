----------------------------- MODULE Accounting -----------------------------
(***************************************************************************)
(* How a request is answered and counted: the ends of handle() and the     *)
(* body generator of stream_real (ingress/handler.rs), and write_stats     *)
(* (pipeline.rs), whose statements are separate and not in a transaction.  *)
(*                                                                         *)
(* The rows of usage_hourly are sums that every statement adds to in place *)
(* (db/usage.rs, usage_upsert).  Addition commutes, so the tables are kept *)
(* as what each request has added to them: real[r], virtual[r] and         *)
(* total[r] list the summands, and reqLog[r] the request's log rows.       *)
(***************************************************************************)
EXTENDS RequestCore

\* Mutant of Forward: an Error event is passed on but not remembered.
ForwardQuietError(r) ==
    LET kind == Head(stream[r].queue) IN
        /\ pc[r] = "forward"
        /\ CanRecv(stream[r])
        /\ stream' = [stream EXCEPT ![r] = Recv(@)]
        /\ tail' = [tail EXCEPT ![r] =
               CASE kind = "done"  -> <<StreamCall(r, "ok")>>
                 [] kind = "error" -> <<StreamCall(r, "failed")>>
                 [] OTHER          -> @]
        /\ errFlag' = [errFlag EXCEPT ![r] = FALSE]
        /\ client' = [client EXCEPT ![r] =
               CASE kind = "done"  -> "stream-done"
                 [] kind = "error" -> "stream-error"
                 [] OTHER          -> "streaming"]
        /\ UNCHANGED <<pc, dispatchVars, strategyVars, callVars, todo, agg, stamp,
                       aborted, ledgerVars, envVars>>

\* Mutant of Forward: after an Error event the next member is tried.
ForwardFailsOver(r) ==
    LET kind == Head(stream[r].queue)
        next == kind = "error" /\ idx[r] < Len(Members(r))
    IN  /\ pc[r] = "forward"
        /\ CanRecv(stream[r])
        /\ stream' = [stream EXCEPT ![r] = Recv(@)]
        /\ pc' = [pc EXCEPT ![r] = IF next THEN "connect" ELSE @]
        /\ idx' = [idx EXCEPT ![r] = IF next THEN @ + 1 ELSE @]
        /\ client' = [client EXCEPT ![r] = "streaming"]
        /\ UNCHANGED <<dispatchVars, waiting, answers, tools, callVars, tail, writeVars,
                       ledgerVars, envVars>>

\* stream_real receives one event, keeps the call of the last one, and
\* yields the event's lines to the client.
Forward(r) ==
    LET kind == Head(stream[r].queue) IN
        /\ pc[r] = "forward"
        /\ CanRecv(stream[r])
        /\ stream' = [stream EXCEPT ![r] = Recv(@)]
        /\ tail' = [tail EXCEPT ![r] =
               CASE kind = "done"  -> <<StreamCall(r, "ok")>>
                 [] kind = "error" -> <<StreamCall(r, "failed")>>
                 [] OTHER          -> @]
        /\ errFlag' = [errFlag EXCEPT ![r] = @ \/ kind = "error"]
        /\ client' = [client EXCEPT ![r] =
               CASE kind = "done"  -> "stream-done"
                 [] kind = "error" -> "stream-error"
                 [] OTHER          -> "streaming"]
        /\ UNCHANGED <<pc, dispatchVars, strategyVars, callVars, todo, agg, stamp,
                       aborted, ledgerVars, envVars>>

\* write_stats is entered: `all` is drained from the recorder, and the time
\* is read once.
EnterWriteStats(r, from, all) ==
    /\ Goto(r, from, "real")
    /\ recorder' = [recorder EXCEPT ![r] = << >>]
    /\ todo' = [todo EXCEPT ![r] = all]
    /\ agg' = [agg EXCEPT ![r] = << >>]
    /\ stamp' = [stamp EXCEPT ![r] = hour]
    /\ UNCHANGED <<dispatchVars, strategyVars, attempts, streamVars, aborted,
                   ledgerVars, client, envVars>>

FinalizeFull(r) ==
    /\ EnterWriteStats(r, "full", recorder[r])
    /\ UNCHANGED errFlag

FinalizeError(r) ==
    /\ EnterWriteStats(r, "failed", recorder[r])
    /\ errFlag' = [errFlag EXCEPT ![r] = TRUE]

\* The channel has closed: the attempts that failed before Started, then
\* the call of the stream itself.
FinalizeStream(r) ==
    /\ Exhausted(stream[r])
    /\ EnterWriteStats(r, "forward", recorder[r] \o tail[r])
    /\ UNCHANGED errFlag

\* cost_for: the price of the name the usage carries, 0 without a row.
CostFor(name) == IF name \in Models THEN prices[name] ELSE 0

\* One round of the loop.  The price is read just before the row is added
\* to; no step of another task between the two could tell.
WriteReal(r) ==
    LET c     == Head(todo[r])
        entry == [k |-> c.k, name |-> c.name, status |-> c.status,
                  hour |-> stamp[r], cost |-> CostFor(c.name)]
    IN  /\ pc[r] = "real" /\ todo[r] # << >>
        /\ real' = [real EXCEPT ![r] = Append(@, entry)]
        /\ agg' = [agg EXCEPT ![r] = Append(@, entry)]
        /\ todo' = [todo EXCEPT ![r] = Tail(@)]
        /\ UNCHANGED <<pc, dispatchVars, strategyVars, callVars, streamVars, errFlag,
                       stamp, aborted, virtual, total, reqLog, client, envVars>>

\* Mutant of Summary: the hour is read anew for every statement.
SummaryNow(r) == [hour |-> hour, calls |-> agg[r], err |-> errFlag[r]]

Summary(r) == [hour |-> stamp[r], calls |-> agg[r], err |-> errFlag[r]]

WriteVirtual(r) ==
    /\ todo[r] = << >>
    /\ Goto(r, "real", "total")
    /\ virtual' = [virtual EXCEPT ![r] = Append(@, Summary(r))]
    /\ UNCHANGED <<dispatchVars, strategyVars, callVars, streamVars, writeVars,
                   real, total, reqLog, client, envVars>>

WriteTotal(r) ==
    /\ Goto(r, "total", "log")
    /\ total' = [total EXCEPT ![r] = Append(@, Summary(r))]
    /\ UNCHANGED <<dispatchVars, strategyVars, callVars, streamVars, writeVars,
                   real, virtual, reqLog, client, envVars>>

WriteLog(r) ==
    /\ Goto(r, "log", "reply")
    /\ reqLog' = [reqLog EXCEPT ![r] =
           Append(@, [strategy |-> logName[r], hour |-> stamp[r], calls |-> agg[r],
                      err |-> errFlag[r]])]
    /\ UNCHANGED <<dispatchVars, strategyVars, callVars, streamVars, writeVars,
                   real, virtual, total, client, envVars>>

\* A statement fails, `?` leaves write_stats, and the caller ignores it.
WriteFails(r) ==
    /\ \E from \in {"real", "total", "log"} : Goto(r, from, "reply")
    /\ aborted' = [aborted EXCEPT ![r] = TRUE]
    /\ UNCHANGED <<dispatchVars, strategyVars, callVars, streamVars, errFlag, todo,
                   agg, stamp, ledgerVars, client, envVars>>

\* Mutant of Reply: answers while write_stats is still at work.
ReplyEarly(r) ==
    /\ \E from \in {"real", "reply"} : Goto(r, from, "done")
    /\ client' = [client EXCEPT ![r] =
           CASE @ # "waiting" -> @
             [] errFlag[r]    -> "error"
             [] OTHER         -> "full"]
    /\ UNCHANGED <<dispatchVars, strategyVars, callVars, streamVars, writeVars,
                   ledgerVars, envVars>>

\* handle() answers; the body of a real stream just ends.
Reply(r) ==
    /\ Goto(r, "reply", "done")
    /\ client' = [client EXCEPT ![r] =
           CASE @ # "waiting" -> @
             [] errFlag[r]    -> "error"
             [] OTHER         -> "full"]
    /\ UNCHANGED <<dispatchVars, strategyVars, callVars, streamVars, writeVars,
                   ledgerVars, envVars>>

AccountingStep(r) ==
    \/ Forward(r)
    \/ FinalizeFull(r) \/ FinalizeError(r) \/ FinalizeStream(r)
    \/ WriteReal(r) \/ WriteVirtual(r) \/ WriteTotal(r) \/ WriteLog(r) \/ WriteFails(r)
    \/ Reply(r)
=============================================================================
