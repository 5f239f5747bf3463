---------------------------- MODULE SingleModel ----------------------------
(***************************************************************************)
(* The strategies that answer from one member: failover                    *)
(* (strategy/failover.rs), speed (strategy/speed.rs) and cheapest          *)
(* (strategy/cheapest.rs).  With want_stream they open a stream, and what  *)
(* happens to it later is no longer theirs; otherwise they call complete.  *)
(* Which member speed and cheapest rank first is left open here.           *)
(***************************************************************************)
EXTENDS RequestCore

FirstCall(r) == IF want[r] THEN "connect" ELSE "call"

\* Mutant of Member: the index counts from zero, and the first is tried twice.
MemberOffByOne(r) == Members(r)[IF idx[r] = 1 THEN 1 ELSE idx[r] - 1]

Member(r) == Members(r)[idx[r]]

BeginFailover(r) ==
    /\ cfg[r].strategy = "failover"
    /\ Goto(r, "dispatch", IF Members(r) = << >> THEN "failed" ELSE FirstCall(r))
    /\ idx' = [idx EXCEPT ![r] = 1]
    /\ UNCHANGED <<dispatchVars, waiting, answers, tools, callVars, streamVars,
                   writeVars, ledgerVars, client, envVars>>

\* speed and cheapest choose before they call, and call only their choice.
BeginPick(r) ==
    /\ cfg[r].strategy \in {"speed", "cheapest"}
    /\ \/ /\ Members(r) = << >>
          /\ Goto(r, "dispatch", "failed")
          /\ UNCHANGED idx
       \/ \E best \in DOMAIN Members(r) :
             /\ Goto(r, "dispatch", FirstCall(r))
             /\ idx' = [idx EXCEPT ![r] = best]
    /\ UNCHANGED <<dispatchVars, waiting, answers, tools, callVars, streamVars,
                   writeVars, ledgerVars, client, envVars>>

\* failover after a failed member: the next one, or the last error.
TryNext(r, from) ==
    /\ Goto(r, from, IF idx[r] < Len(Members(r)) THEN from ELSE "failed")
    /\ idx' = [idx EXCEPT ![r] = @ + 1]

\* Mutant of StreamConnects: the opened stream is recorded like a complete().
StreamConnectsRecorded(r) ==
    /\ Goto(r, "connect", "forward")
    /\ Answered(r, Member(r), "member", "stream", "open")
    /\ Record(r, UsageOf(Len(attempts[r]) + 1, Member(r), "ok"))
    /\ stream' = [stream EXCEPT ![r] = Connected]
    /\ UNCHANGED <<dispatchVars, strategyVars, tail, writeVars, ledgerVars,
                   client, envVars>>

\* Connector::stream returned Ok: Started is in the channel and the reading
\* task runs.  The strategy returns without recording anything.
StreamConnects(r) ==
    /\ Goto(r, "connect", "forward")
    /\ Answered(r, Member(r), "member", "stream", "open")
    /\ stream' = [stream EXCEPT ![r] = Connected]
    /\ UNCHANGED <<dispatchVars, strategyVars, recorder, tail, writeVars,
                   ledgerVars, client, envVars>>

\* Connector::stream returned Err (no connection, or a status other than 2xx).
FailoverConnectFails(r) ==
    /\ cfg[r].strategy = "failover"
    /\ TryNext(r, "connect")
    /\ Answered(r, Member(r), "member", "stream", "failed")
    /\ Record(r, UsageOf(Len(attempts[r]) + 1, Member(r), "failed"))
    /\ UNCHANGED <<dispatchVars, waiting, answers, tools, streamVars, writeVars,
                   ledgerVars, client, envVars>>

\* speed and cheapest pass the error on with `?` and record nothing.
PickConnectFails(r) ==
    /\ cfg[r].strategy # "failover"
    /\ Goto(r, "connect", "failed")
    /\ Answered(r, Member(r), "member", "stream", "failed")
    /\ UNCHANGED <<dispatchVars, strategyVars, recorder, streamVars, writeVars,
                   ledgerVars, client, envVars>>

FailoverCallReplies(r, status) ==
    /\ cfg[r].strategy = "failover"
    /\ \/ status = "ok" /\ Goto(r, "call", "full") /\ UNCHANGED idx
       \/ status = "failed" /\ TryNext(r, "call")
    /\ CallMember(r, Member(r), "member", status)
    /\ UNCHANGED <<dispatchVars, waiting, answers, tools, streamVars, writeVars,
                   ledgerVars, client, envVars>>

PickCallReplies(r, status) ==
    /\ cfg[r].strategy # "failover"
    /\ Goto(r, "call", Outcome(status))
    /\ CallMember(r, Member(r), "member", status)
    /\ UNCHANGED <<dispatchVars, strategyVars, streamVars, writeVars, ledgerVars,
                   client, envVars>>

SingleReply(r) ==
    \/ StreamConnects(r)
    \/ FailoverConnectFails(r)
    \/ PickConnectFails(r)
    \/ \E status \in Statuses : FailoverCallReplies(r, status) \/ PickCallReplies(r, status)
=============================================================================
