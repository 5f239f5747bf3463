---------------------------- MODULE OrderProofs ----------------------------
(***************************************************************************)
(* What a client is told and in which order a strategy calls, for every    *)
(* instance: ErrorsAsSeen, CountedBeforeAnswered, FailoverInOrder,         *)
(* JudgeLast and CommittedToStream.                                        *)
(*                                                                         *)
(* Told follows request_failed and the answer from the stream's events to  *)
(* the reply; it needs Billing, which knows that the queue of a stream     *)
(* whose last event was received is empty, and Ledger, which knows what    *)
(* write_stats has written.  Ordered and Judged follow the calls of the    *)
(* two strategies that promise an order.                                   *)
(***************************************************************************)
EXTENDS LedgerProofs, FiniteSetTheorems

USE DEF vars, dispatchVars, strategyVars, callVars, streamVars, writeVars,
        ledgerVars, envVars

Counted(r) == aborted[r] \/ Len(reqLog[r]) = 1

Told(r) ==
    /\ pc[r] \notin Late \cup {"forward"} => client[r] = "waiting" /\ errFlag[r] = FALSE
    /\ pc[r] = "forward" /\ tail[r] = << >> =>
          client[r] \in {"waiting", "streaming"} /\ errFlag[r] = FALSE
    /\ pc[r] = "forward" /\ tail[r] # << >> =>
          \/ client[r] = "stream-done" /\ errFlag[r] = FALSE
          \/ client[r] = "stream-error" /\ errFlag[r] = TRUE
    /\ pc[r] \in Writing \cup {"reply"} =>
          \/ client[r] = "waiting"
          \/ client[r] = "stream-done" /\ errFlag[r] = FALSE
          \/ client[r] = "stream-error" /\ errFlag[r] = TRUE
    /\ pc[r] \in Late => \A i \in DOMAIN virtual[r] : virtual[r][i].err = errFlag[r]
    /\ pc[r] = "reply" => Counted(r)
    /\ pc[r] = "done" =>
          \/ client[r] = "rejected" /\ virtual[r] = << >>
          \/ client[r] \in {"full", "stream-done"} /\ errFlag[r] = FALSE /\ Counted(r)
          \/ client[r] \in {"error", "stream-error"} /\ errFlag[r] = TRUE /\ Counted(r)
    /\ client[r] \in {"full", "error"} => pc[r] = "done"

AllTold == \A r \in Requests : Told(r)

-----------------------------------------------------------------------------
(* What the client is told *)

LEMMA OneIsNotNone == \A x : <<x>> # << >>
OBVIOUS

\* Nothing is forwarded, written or answered.
Silent(r) ==
    /\ client'[r] = client[r] /\ errFlag'[r] = errFlag[r]
    /\ pc[r] \notin Late \cup {"forward"} /\ pc'[r] \notin Late \cup {"forward"}

LEMMA SilentTold ==
    ASSUME NEW r \in Requests, Told(r), Silent(r)
    PROVE  Told(r)'
BY DEF Told, Silent, Late, Writing, Over

LEMMA HandlerTold ==
    ASSUME TypeOK, NEW r \in Requests, Told(r), Ledger(r),
           \/ Reject(r) \/ Accept(r) \/ ReadStrategyName(r) \/ LoadVModel(r)
           \/ LoadMembers(r) \/ DispatchFails(r) \/ Begin(r)
    PROVE  Told(r)'
<1>1. CASE Reject(r)
  <2>1. /\ pc[r] = "received" /\ pc'[r] = "done" /\ client'[r] = "rejected"
        /\ virtual'[r] = virtual[r]
    BY <1>1, Domains DEF Reject, Goto
  <2>2. virtual[r] = << >>
    BY <2>1 DEF Ledger, Late, Writing, Over
  <2>3. QED BY <2>1, <2>2 DEF Told, Late, Writing, Over
<1>2. CASE ~Reject(r)
  <2> USE Domains DEF Silent, Goto, Late, Writing, Over
  <2>1. CASE Accept(r) BY <2>1, SilentTold DEF Accept
  <2>2. CASE ReadStrategyName(r) BY <2>2, SilentTold DEF ReadStrategyName
  <2>3. CASE LoadVModel(r) BY <2>3, SilentTold DEF LoadVModel
  <2>4. CASE LoadMembers(r) BY <2>4, SilentTold DEF LoadMembers
  <2>5. CASE DispatchFails(r) BY <2>5, SilentTold DEF DispatchFails
  <2>6. CASE BeginFailover(r) BY <2>6, SilentTold DEF BeginFailover, FirstCall
  <2>7. CASE BeginPick(r) BY <2>7, SilentTold DEF BeginPick, FirstCall
  <2>8. CASE BeginPanel(r) BY <2>8, SilentTold DEF BeginPanel
  <2>9. CASE BeginMultimodal(r) BY <2>9, SilentTold DEF BeginMultimodal
  <2>10. QED
    BY <1>2, <2>1, <2>2, <2>3, <2>4, <2>5, <2>6, <2>7, <2>8, <2>9 DEF Begin
<1>3. QED BY <1>1, <1>2

LEMMA StrategyTold ==
    ASSUME TypeOK, NEW r \in Requests, Told(r), Billing(r),
           UpstreamReply(r) \/ PanelDecides(r) \/ UnroutedTool(r) \/ RoutedTool(r)
    PROVE  Told(r)'
<1>1. CASE StreamConnects(r)
  <2>1. /\ pc[r] = "connect" /\ pc'[r] = "forward" /\ client'[r] = client[r]
        /\ errFlag'[r] = errFlag[r] /\ tail'[r] = tail[r]
    BY <1>1, Domains DEF StreamConnects, Goto
  <2>2. tail[r] = << >>
    BY <2>1 DEF Billing, Late, Writing, Over
  <2>3. QED BY <2>1, <2>2 DEF Told, Late, Writing, Over
<1> USE Domains DEF Silent, Goto, Late, Writing, Over
<1>2. CASE FailoverConnectFails(r)
  BY <1>2, SilentTold DEF FailoverConnectFails, TryNext
<1>3. CASE PickConnectFails(r) BY <1>3, SilentTold DEF PickConnectFails
<1>4. ASSUME NEW status, FailoverCallReplies(r, status) PROVE Told(r)'
  BY <1>4, SilentTold DEF FailoverCallReplies, TryNext
<1>5. ASSUME NEW status, PickCallReplies(r, status) PROVE Told(r)'
  BY <1>5, SilentTold DEF PickCallReplies, Outcome
<1>6. ASSUME NEW i, NEW reply, MemberReplies(r, i, reply) PROVE Told(r)'
  BY <1>6, SilentTold DEF MemberReplies
<1>7. ASSUME NEW status, JudgeReplies(r, status) PROVE Told(r)'
  BY <1>7, SilentTold DEF JudgeReplies, Outcome
<1>8. ASSUME NEW status, NEW n, MainReplies(r, status, n) PROVE Told(r)'
  BY <1>8, SilentTold DEF MainReplies
<1>9. ASSUME NEW backend, NEW status, ToolReplies(r, backend, status) PROVE Told(r)'
  BY <1>9, SilentTold DEF ToolReplies, ToolHandled
<1>10. CASE PanelDecides(r) BY <1>10, SilentTold DEF PanelDecides
<1>11. CASE UnroutedTool(r) BY <1>11, SilentTold DEF UnroutedTool, ToolHandled
<1>12. CASE RoutedTool(r) BY <1>12, SilentTold DEF RoutedTool
<1>13. QED
  BY <1>1, <1>2, <1>3, <1>4, <1>5, <1>6, <1>7, <1>8, <1>9, <1>10, <1>11, <1>12
     DEF UpstreamReply, SingleReply, PanelReply, MultimodalReply

\* The queue is not empty, so the last event has not been received, and no
\* error has been seen so far.
LEMMA ForwardTold ==
    ASSUME TypeOK, NEW r \in Requests, Told(r), Billing(r), Forward(r)
    PROVE  Told(r)'
<1> DEFINE kind == Head(stream[r].queue)
<1>1. /\ pc[r] = "forward" /\ pc'[r] = "forward" /\ stream[r].queue # << >>
      /\ tail'[r] = CASE kind = "done"  -> <<StreamCall(r, "ok")>>
                      [] kind = "error" -> <<StreamCall(r, "failed")>>
                      [] OTHER          -> tail[r]
      /\ errFlag'[r] = (errFlag[r] \/ kind = "error")
      /\ client'[r] = CASE kind = "done"  -> "stream-done"
                        [] kind = "error" -> "stream-error"
                        [] OTHER          -> "streaming"
  BY Domains DEF Forward, CanRecv
<1>2. tail[r] = << >>
  BY <1>1 DEF Billing, Streaming
<1>3. errFlag[r] = FALSE
  BY <1>1, <1>2 DEF Told
<1> HIDE DEF kind
<1>4. CASE kind = "done"
  <2>1. tail'[r] # << >> /\ client'[r] = "stream-done" /\ errFlag'[r] = FALSE
    BY <1>1, <1>3, <1>4, OneIsNotNone
  <2>2. QED BY <1>1, <2>1 DEF Told, Late, Writing, Over
<1>5. CASE kind = "error"
  <2>1. tail'[r] # << >> /\ client'[r] = "stream-error" /\ errFlag'[r] = TRUE
    BY <1>1, <1>3, <1>5, OneIsNotNone
  <2>2. QED BY <1>1, <2>1 DEF Told, Late, Writing, Over
<1>6. CASE kind \notin {"done", "error"}
  <2>1. tail'[r] = << >> /\ client'[r] = "streaming" /\ errFlag'[r] = FALSE
    BY <1>1, <1>2, <1>3, <1>6
  <2>2. QED BY <1>1, <2>1 DEF Told, Late, Writing, Over
<1>7. QED BY <1>4, <1>5, <1>6

LEMMA FinalizeTold ==
    ASSUME TypeOK, NEW r \in Requests, Told(r), Billing(r), Ledger(r),
           FinalizeFull(r) \/ FinalizeError(r) \/ FinalizeStream(r)
    PROVE  Told(r)'
<1>1. /\ pc[r] \in {"full", "failed", "forward"} /\ pc'[r] = "real"
      /\ client'[r] = client[r] /\ virtual'[r] = virtual[r]
  BY Domains DEF FinalizeFull, FinalizeError, FinalizeStream, EnterWriteStats, Goto
<1>2. virtual[r] = << >>
  BY <1>1 DEF Ledger, Late, Writing, Over
<1>3. CASE FinalizeStream(r)
  <2>1. /\ pc[r] = "forward" /\ errFlag'[r] = errFlag[r]
        /\ ~stream[r].open /\ stream[r].queue = << >>
    BY <1>3, Domains DEF FinalizeStream, EnterWriteStats, Goto, Exhausted
  <2>2. tail[r] # << >>
    BY <2>1, OneIsNotNone DEF Billing, Streaming
  <2>3. QED BY <1>1, <1>2, <2>1, <2>2 DEF Told, Late, Writing, Over
<1>4. CASE FinalizeFull(r) \/ FinalizeError(r)
  <2>1. pc[r] \in {"full", "failed"}
    BY <1>4, Domains DEF FinalizeFull, FinalizeError, EnterWriteStats, Goto
  <2>2. client[r] = "waiting"
    BY <2>1 DEF Told, Late, Writing, Over
  <2>3. QED BY <1>1, <1>2, <2>2 DEF Told, Late, Writing, Over
<1>5. QED BY <1>3, <1>4

LEMMA WritesTold ==
    ASSUME TypeOK, NEW r \in Requests, Told(r), Ledger(r), Ledger(r)',
           WriteReal(r) \/ WriteVirtual(r) \/ WriteTotal(r) \/ WriteLog(r) \/ WriteFails(r)
    PROVE  Told(r)'
<1>1. /\ pc[r] \in Writing /\ pc'[r] \in Writing \cup {"reply"}
      /\ client'[r] = client[r] /\ errFlag'[r] = errFlag[r]
  BY Domains
     DEF WriteReal, WriteVirtual, WriteTotal, WriteLog, WriteFails, Goto, Writing
<1>2. /\ \/ client[r] = "waiting"
         \/ client[r] = "stream-done" /\ errFlag[r] = FALSE
         \/ client[r] = "stream-error" /\ errFlag[r] = TRUE
      /\ \A i \in DOMAIN virtual[r] : virtual[r][i].err = errFlag[r]
  BY <1>1 DEF Told, Late
<1>3. \A i \in DOMAIN virtual'[r] : virtual'[r][i].err = errFlag[r]
  <2>1. CASE WriteVirtual(r)
    <3>1. pc'[r] = "total"
      BY <2>1, Domains DEF WriteVirtual, Goto
    <3>2. virtual'[r] = <<Summary(r)'>>
      BY <3>1 DEF Ledger
    <3>3. Summary(r)'.err = errFlag[r]
      BY <1>1 DEF Summary
    <3>4. QED BY <3>2, <3>3
  <2>2. CASE ~WriteVirtual(r)
    <3>1. virtual'[r] = virtual[r]
      BY <2>2, Domains DEF WriteReal, WriteTotal, WriteLog, WriteFails
    <3>2. QED BY <1>2, <3>1
  <2>3. QED BY <2>1, <2>2
<1>4. ASSUME pc'[r] = "reply" PROVE Counted(r)'
  <2>1. CASE WriteLog(r)
    <3>1. /\ pc[r] = "log"
          /\ \E x : reqLog'[r] = Append(reqLog[r], x)
      BY <2>1, Domains DEF WriteLog, Goto
    <3>2. reqLog[r] = << >>
      BY <3>1 DEF Ledger, Writing
    <3>3. Len(reqLog'[r]) = 1
      BY <3>1, <3>2
    <3>4. QED BY <3>3 DEF Counted
  <2>2. CASE WriteFails(r)
    BY <2>2, Domains DEF WriteFails, Counted
  <2>3. CASE WriteReal(r) \/ WriteVirtual(r) \/ WriteTotal(r)
    BY <1>1, <1>4, <2>3, Domains DEF WriteReal, WriteVirtual, WriteTotal, Goto, Writing
  <2>4. QED BY <2>1, <2>2, <2>3
<1>5. QED BY <1>1, <1>2, <1>3, <1>4 DEF Told, Late, Writing, Over

LEMMA ReplyTold ==
    ASSUME TypeOK, NEW r \in Requests, Told(r), Reply(r)
    PROVE  Told(r)'
<1>1. /\ pc[r] = "reply" /\ pc'[r] = "done"
      /\ errFlag'[r] = errFlag[r] /\ virtual'[r] = virtual[r]
      /\ aborted'[r] = aborted[r] /\ reqLog'[r] = reqLog[r]
      /\ client'[r] = CASE client[r] # "waiting" -> client[r]
                        [] errFlag[r]            -> "error"
                        [] OTHER                 -> "full"
  BY Domains DEF Reply, Goto
<1>2. /\ \/ client[r] = "waiting"
         \/ client[r] = "stream-done" /\ errFlag[r] = FALSE
         \/ client[r] = "stream-error" /\ errFlag[r] = TRUE
      /\ \A i \in DOMAIN virtual[r] : virtual[r][i].err = errFlag[r]
      /\ Counted(r)
  BY <1>1 DEF Told, Late, Over
<1>3. Counted(r)'
  BY <1>1, <1>2 DEF Counted
<1>4. errFlag[r] \in BOOLEAN
  BY DEF TypeOK
<1>5. \/ client'[r] \in {"full", "stream-done"} /\ errFlag[r] = FALSE
      \/ client'[r] \in {"error", "stream-error"} /\ errFlag[r] = TRUE
  BY <1>1, <1>2, <1>4
<1>6. QED BY <1>1, <1>2, <1>3, <1>5 DEF Told, Late, Writing, Over

LEMMA EnvironmentTold ==
    ASSUME TypeOK, NEW r \in Requests, Told(r), Ledger(r),
           Disconnect(r) \/ (\E kind \in EventKinds : StreamSends(r, kind))
    PROVE  Told(r)'
<1>1. /\ client'[r] = client[r] /\ errFlag'[r] = errFlag[r] /\ virtual'[r] = virtual[r]
      /\ aborted'[r] = aborted[r] /\ reqLog'[r] = reqLog[r] /\ tail'[r] = tail[r]
  BY Domains DEF Disconnect, StreamSends
<1>2. CASE Disconnect(r)
  <2>1. pc'[r] = "gone" /\ pc[r] \notin {"done", "gone"}
    BY <1>2, Domains DEF Disconnect
  <2>2. client[r] \notin {"full", "error"}
    BY <2>1 DEF Told
  <2>3. \A i \in DOMAIN virtual[r] : virtual[r][i].err = errFlag[r]
    BY DEF Told, Ledger
  <2>4. QED BY <1>1, <2>1, <2>2, <2>3 DEF Told, Late, Writing, Over
<1>3. CASE \E kind \in EventKinds : StreamSends(r, kind)
  <2>1. pc'[r] = pc[r]
    BY <1>3 DEF StreamSends
  <2>2. Counted(r)' = Counted(r)
    BY <1>1 DEF Counted
  <2>3. QED BY <1>1, <2>1, <2>2 DEF Told
<1>4. QED BY <1>2, <1>3

LEMMA StillTold ==
    ASSUME NEW q \in Requests, Still(q), Told(q)
    PROVE  Told(q)'
BY DEF Still, Told, Counted

LEMMA ToldStep ==
    ASSUME TypeOK, NEW r \in Requests, Told(r), Billing(r), Ledger(r), Ledger(r)', StepOf(r)
    PROVE  Told(r)'
BY HandlerTold, StrategyTold, ForwardTold, FinalizeTold, WritesTold, ReplyTold,
   EnvironmentTold DEF StepOf, AccountingStep

LEMMA AllToldInductive ==
    ASSUME TypeOK, Billings, Ledgers, Ledgers', AllTold, [Next]_vars
    PROVE  AllTold'
<1>1. CASE EditVModel \/ EditPrice \/ Tick \/ UNCHANGED vars
  BY <1>1, EnvironmentStill, StillTold DEF AllTold
<1>2. ASSUME NEW r \in Requests, StepOf(r)
      PROVE  AllTold'
  <2>1. Told(r)'
    BY <1>2, ToldStep DEF AllTold, Billings, Ledgers
  <2>2. ASSUME NEW q \in Requests \ {r} PROVE Told(q)'
    BY <1>2, <2>2, OnlyOne, StillTold DEF OthersStill, AllTold
  <2>3. QED BY <2>1, <2>2 DEF AllTold
<1>3. QED BY <1>1, <1>2, StepCases

LEMMA ToldAlways == Spec => []AllTold
<1>1. Init => AllTold
  <2>1. ASSUME Init, NEW r \in Requests PROVE Told(r)
    <3>1. pc[r] = "received" /\ client[r] = "waiting" /\ errFlag[r] = FALSE
      BY <2>1 DEF Init
    <3>2. QED BY <3>1 DEF Told, Late, Writing, Over
  <2>2. QED BY <2>1 DEF AllTold
<1>2. TypeOK /\ Billings /\ Ledgers /\ Ledgers' /\ AllTold /\ [Next]_vars => AllTold'
  BY AllToldInductive
<1>3. QED BY <1>1, <1>2, TypeAndShape, LedgerAndBilling, PTL DEF Spec

\* In the tables a finished request is an error exactly when its client was
\* told of one, whichever way the error came: from a strategy or as the last
\* event of a stream.
THEOREM ErrorsAsSeenForAll == Spec => []ErrorsAsSeen
<1>1. AllTold => ErrorsAsSeen
  <2> SUFFICES ASSUME AllTold, NEW r \in Requests, pc[r] = "done",
                      NEW i \in DOMAIN virtual[r]
               PROVE  virtual[r][i].err <=> client[r] \in {"error", "stream-error"}
    BY DEF ErrorsAsSeen
  <2>1. virtual[r][i].err = errFlag[r]
    BY DEF AllTold, Told, Late, Over
  <2>2. \/ client[r] \in {"full", "stream-done"} /\ errFlag[r] = FALSE
        \/ client[r] \in {"error", "stream-error"} /\ errFlag[r] = TRUE
    BY DEF AllTold, Told
  <2>3. QED BY <2>1, <2>2
<1>2. QED BY <1>1, ToldAlways, PTL

\* Whoever has an answer or an error status can read his request in the
\* tables, unless a statement of write_stats failed.
THEOREM CountedBeforeAnsweredForAll == Spec => []CountedBeforeAnswered
<1>1. AllTold => CountedBeforeAnswered
  BY DEF AllTold, Told, CountedBeforeAnswered, Counted
<1>2. QED BY <1>1, ToldAlways, PTL

\* One row in the virtual table, one in the total and one in the log, all of
\* one list of calls, and this has every call that the request has made, with
\* no exception but Unrecorded.
Accounted(r) ==
    /\ Len(virtual[r]) = 1 /\ Len(total[r]) = 1 /\ Len(reqLog[r]) = 1
    /\ total[r][1] = virtual[r][1] /\ SumsReal(r, virtual[r][1])
    /\ reqLog[r][1].calls = real[r]
    /\ \A k \in DOMAIN attempts[r] : BilledCall(r, k) \/ Unrecorded(r, k)

\* So it is for every request that has ended, unless a statement failed:
\* streams, whose clients are answered first and counted later, included
\* (write_stats of pipeline.rs, from handle and from stream_real).
EndedAccounted ==
    \A r \in Requests :
        pc[r] = "done" /\ client[r] # "rejected" => aborted[r] \/ Accounted(r)

\* This is what the code keeps of the sum that the design document promises
\* of the three tables, for any number of requests, members and calls, and
\* whatever interleaves with write_stats.
THEOREM EndedAccountedForAll == Spec => []EndedAccounted
<1>1. AllTold /\ Ledgers /\ TypeOK /\ EveryCallBilled => EndedAccounted
  <2> SUFFICES ASSUME AllTold, Ledgers, TypeOK, EveryCallBilled, NEW r \in Requests,
                      pc[r] = "done", client[r] # "rejected", ~aborted[r]
               PROVE  Accounted(r)
    BY DEF EndedAccounted
  <2>1. Len(reqLog[r]) = 1
    BY DEF AllTold, Told, Counted
  <2>2. OneBasis(r)
    BY DEF Ledgers, Ledger
  <2>3. Len(virtual[r]) \in Nat /\ Len(total[r]) \in Nat
    <3>1. virtual[r] \in Seq(SummaryEntry) /\ total[r] \in Seq(SummaryEntry)
      BY DEF TypeOK
    <3>2. QED BY <3>1
  <2>4. Len(virtual[r]) = 1 /\ Len(total[r]) = 1
    <3>1. /\ Len(virtual[r]) <= 1 /\ Len(total[r]) <= Len(virtual[r])
          /\ Len(reqLog[r]) <= Len(total[r])
      BY <2>2 DEF OneBasis
    <3>2. \A v, t \in Nat : v <= 1 /\ t <= v /\ 1 <= t => v = 1 /\ t = 1
      OBVIOUS
    <3>3. QED BY <2>1, <2>3, <3>1, <3>2
  <2>5. 1 \in DOMAIN virtual[r] /\ 1 \in DOMAIN total[r] /\ 1 \in DOMAIN reqLog[r]
    <3>1. /\ virtual[r] \in Seq(SummaryEntry) /\ total[r] \in Seq(SummaryEntry)
          /\ reqLog[r] \in Seq(LogEntry)
      BY DEF TypeOK
    <3>2. QED BY <2>1, <2>4, <3>1
  <2>6. /\ SumsReal(r, virtual[r][1]) /\ total[r][1] = virtual[r][1]
        /\ reqLog[r][1].calls = real[r]
    BY <2>2, <2>5 DEF OneBasis, SumsReal
  <2>7. QED BY <2>1, <2>4, <2>6 DEF Accounted, EveryCallBilled
<1>2. QED BY <1>1, ToldAlways, LedgerAndBilling, TypeAndShape, EveryCallBilledForAll, PTL

-----------------------------------------------------------------------------
(* The order of the calls *)

AtWork == {"connect", "call", "panel", "judge", "main", "tools", "tool"}

\* Every strategy has its own places, and a stream is opened by the last call.
Kinds(r) ==
    /\ pc[r] \in {"connect", "call"} => cfg[r].strategy \in SingleStrategies
    /\ pc[r] \in {"panel", "judge"} => cfg[r].strategy \in PanelStrategies
    /\ pc[r] \in {"main", "tools", "tool"} => cfg[r].strategy = "multimodal"
    /\ stream[r] # NoStream => pc[r] \in Late \cup {"forward"}

\* The calls went to the first members, and all but the last failed.
Ordered(calls, members) ==
    \A k \in DOMAIN calls :
        /\ k <= Len(members) /\ calls[k].model = members[k]
        /\ k < Len(calls) => calls[k].result = "failed"

AllFailed(calls) == \A k \in DOMAIN calls : calls[k].result = "failed"

Failover(r) ==
    cfg[r].strategy = "failover" =>
        /\ Ordered(attempts[r], Members(r))
        /\ pc[r] \in {"connect", "call"} =>
              idx[r] = Len(attempts[r]) + 1 /\ AllFailed(attempts[r])

Unjudged(calls) == \A k \in DOMAIN calls : calls[k].role # "judge"

\* What must hold of the panel for the judge to have been called.
Verdict(r) ==
    /\ cfg[r].strategy \in PanelStrategies
    /\ Len(attempts[r]) = Len(Members(r)) + 1
    /\ answers[r] # {}
    /\ cfg[r].strategy = "synthesize" /\ cfg[r].strict =>
          \/ Cardinality(answers[r]) = Len(Members(r))
          \/ Cardinality(answers[r]) >= cfg[r].min

\* In the panel the members whose call is in flight and the calls that have
\* been answered add up to the members.
Judged(r) ==
    /\ pc[r] \in Fresh \cup AtWork => Unjudged(attempts[r])
    /\ pc[r] \in {"panel", "judge"} => answers[r] \subseteq DOMAIN Members(r)
    /\ pc[r] = "panel" =>
          /\ waiting[r] \subseteq DOMAIN Members(r)
          /\ Cardinality(waiting[r]) + Len(attempts[r]) = Len(Members(r))
    /\ pc[r] = "judge" =>
          /\ Len(attempts[r]) = Len(Members(r))
          /\ answers[r] # {} /\ ~StrictStop(r)
    /\ \A k \in DOMAIN attempts[r] :
          attempts[r][k].role = "judge" => k = Len(attempts[r]) /\ Verdict(r)

InOrder(r) == Kinds(r) /\ Failover(r) /\ Judged(r)

AllInOrder == \A r \in Requests : InOrder(r)

-----------------------------------------------------------------------------
(* Lemmas on sequences of calls *)

LEMMA AppendFacts ==
    ASSUME NEW calls \in Seq(Attempt), NEW a \in Attempt
    PROVE  LET more == Append(calls, a)
           IN  /\ Len(more) = Len(calls) + 1 /\ Len(calls) \in Nat
               /\ DOMAIN calls = 1 .. Len(calls)
               /\ DOMAIN more = 1 .. Len(calls) + 1
               /\ more[Len(calls) + 1] = a
               /\ \A k \in DOMAIN calls : more[k] = calls[k]
OBVIOUS

\* The next member is called after all before it have failed.
LEMMA NextInOrder ==
    ASSUME NEW calls \in Seq(Attempt), NEW a \in Attempt, NEW members \in Seq(Models),
           Ordered(calls, members), AllFailed(calls),
           Len(calls) + 1 \in DOMAIN members, a.model = members[Len(calls) + 1]
    PROVE  /\ Ordered(Append(calls, a), members)
           /\ a.result = "failed" => AllFailed(Append(calls, a))
<1> DEFINE more == Append(calls, a)
<1>1. /\ Len(more) = Len(calls) + 1 /\ Len(calls) \in Nat
      /\ DOMAIN calls = 1 .. Len(calls) /\ DOMAIN more = 1 .. Len(calls) + 1
      /\ more[Len(calls) + 1] = a
      /\ \A k \in DOMAIN calls : more[k] = calls[k]
  BY AppendFacts
<1>2. Len(calls) + 1 <= Len(members)
  OBVIOUS
<1> HIDE DEF more
<1>3. \A k \in DOMAIN more : k \in DOMAIN calls \/ k = Len(calls) + 1
  BY <1>1
<1>4. ASSUME NEW k \in DOMAIN more
      PROVE  /\ k <= Len(members) /\ more[k].model = members[k]
             /\ k < Len(more) => more[k].result = "failed"
  <2>1. CASE k \in DOMAIN calls BY <1>1, <2>1 DEF Ordered, AllFailed
  <2>2. CASE k = Len(calls) + 1 BY <1>1, <1>2, <2>2
  <2>3. QED BY <1>3, <1>4, <2>1, <2>2
<1>5. a.result = "failed" => AllFailed(more)
  BY <1>1, <1>3 DEF AllFailed
<1>6. Ordered(more, members)
  BY <1>4 DEF Ordered
<1>7. QED BY <1>5, <1>6 DEF more

LEMMA AppendUnjudged ==
    ASSUME NEW calls \in Seq(Attempt), NEW a \in Attempt, Unjudged(calls)
    PROVE  /\ a.role # "judge" => Unjudged(Append(calls, a))
           /\ \A k \in DOMAIN Append(calls, a) :
                 Append(calls, a)[k].role = "judge" => k = Len(Append(calls, a))
<1> DEFINE more == Append(calls, a)
<1>1. /\ Len(more) = Len(calls) + 1
      /\ more[Len(calls) + 1] = a
      /\ \A k \in DOMAIN calls : more[k] = calls[k]
      /\ \A k \in DOMAIN more : k \in DOMAIN calls \/ k = Len(calls) + 1
  BY AppendFacts
<1> HIDE DEF more
<1>2. /\ a.role # "judge" => Unjudged(more)
      /\ \A k \in DOMAIN more : more[k].role = "judge" => k = Len(more)
  BY <1>1 DEF Unjudged
<1>3. QED BY <1>2 DEF more

\* The end of the last call changes neither who was called nor what for.
LEMMA EndLastKeeps ==
    ASSUME NEW calls \in Seq(Attempt), NEW result
    PROVE  LET ended == EndLast(calls, result)
           IN  /\ DOMAIN ended = DOMAIN calls
               /\ \A k \in DOMAIN calls : /\ ended[k].model = calls[k].model
                                          /\ ended[k].role = calls[k].role
BY DEF EndLast

-----------------------------------------------------------------------------
(* Each step keeps the order *)

\* Before the strategy starts no call has been made.
LEMMA FreshInOrder ==
    ASSUME TypeOK, NEW r \in Requests, Billing(r), InOrder(r), pc[r] \in Fresh,
           attempts'[r] = attempts[r], stream'[r] = stream[r],
           cfg'[r].members \in Seq(Models),
           pc'[r] \in Fresh \cup {"connect", "call", "panel", "main", "failed", "done"},
           pc'[r] \in {"connect", "call"} => cfg'[r].strategy \in SingleStrategies,
           pc'[r] \in {"connect", "call"} /\ cfg'[r].strategy = "failover" => idx'[r] = 1,
           pc'[r] = "main" => cfg'[r].strategy = "multimodal",
           pc'[r] = "panel" => /\ cfg'[r].strategy \in PanelStrategies
                               /\ waiting'[r] = DOMAIN cfg'[r].members
                               /\ answers'[r] = {}
    PROVE  InOrder(r)'
<1>1. attempts[r] = << >> /\ stream[r] = NoStream
  BY DEF Billing, InOrder, Kinds, Fresh, Late, Writing, Over
<1>2. /\ DOMAIN attempts'[r] = {} /\ Len(attempts'[r]) = 0
  BY <1>1
<1>3. Kinds(r)'
  BY <1>1 DEF Kinds, Fresh
<1>4. Failover(r)'
  BY <1>2 DEF Failover, Ordered, AllFailed
<1>5. ASSUME pc'[r] = "panel"
      PROVE  Cardinality(waiting'[r]) = Len(cfg'[r].members) /\ Len(cfg'[r].members) \in Nat
  <2>1. waiting'[r] = 1 .. Len(cfg'[r].members) /\ Len(cfg'[r].members) \in Nat
    BY <1>5
  <2>2. QED BY <2>1, FS_Interval
<1>6. Judged(r)'
  BY <1>2, <1>5 DEF Judged, Unjudged, Fresh, Members
<1>7. QED BY <1>3, <1>4, <1>6 DEF InOrder

LEMMA HandlerInOrder ==
    ASSUME TypeOK, TypeOK', NEW r \in Requests, Billing(r), InOrder(r),
           \/ Reject(r) \/ Accept(r) \/ ReadStrategyName(r) \/ LoadVModel(r)
           \/ LoadMembers(r) \/ DispatchFails(r) \/ Begin(r)
    PROVE  InOrder(r)'
<1>1. cfg'[r].members \in Seq(Models)
  BY DEF TypeOK, ConfigSpace
<1> USE <1>1, Domains, FreshInOrder
    DEF Goto, Fresh, SingleStrategies, PanelStrategies, Members
<1>2. CASE Reject(r) BY <1>2 DEF Reject
<1>3. CASE Accept(r) BY <1>3 DEF Accept
<1>4. CASE ReadStrategyName(r) BY <1>4 DEF ReadStrategyName
<1>5. CASE LoadVModel(r) BY <1>5 DEF LoadVModel
<1>6. CASE LoadMembers(r) BY <1>6 DEF LoadMembers
<1>7. CASE DispatchFails(r) BY <1>7 DEF DispatchFails
<1>8. CASE BeginFailover(r) BY <1>8 DEF BeginFailover, FirstCall
<1>9. CASE BeginPick(r) BY <1>9 DEF BeginPick, FirstCall
<1>10. CASE BeginPanel(r) BY <1>10 DEF BeginPanel
<1>11. CASE BeginMultimodal(r) BY <1>11 DEF BeginMultimodal
<1>12. QED
  BY <1>2, <1>3, <1>4, <1>5, <1>6, <1>7, <1>8, <1>9, <1>10, <1>11 DEF Begin

LEMMA CallJudged ==
    ASSUME TypeOK, NEW r \in Requests, Judged(r), NEW a \in Attempt, a.role # "judge",
           attempts'[r] = Append(attempts[r], a),
           pc[r] \in AtWork, pc'[r] \notin {"panel", "judge"}
    PROVE  Judged(r)'
<1>1. attempts[r] \in Seq(Attempt)
  BY DEF TypeOK
<1>2. Unjudged(attempts[r])
  BY DEF Judged
<1>3. Unjudged(attempts'[r])
  BY <1>1, <1>2, AppendUnjudged
<1>4. QED BY <1>3 DEF Judged, Unjudged

\* failover's call of the member at idx, whatever came of it.
LEMMA CallFailover ==
    ASSUME TypeOK, NEW r \in Requests, Failover(r), Shape(r), NEW a \in Attempt,
           a.model = Member(r), attempts'[r] = Append(attempts[r], a),
           cfg'[r] = cfg[r], pc[r] \in {"connect", "call"},
           pc'[r] \in {"connect", "call"} => idx'[r] = idx[r] + 1 /\ a.result = "failed"
    PROVE  Failover(r)'
<1> SUFFICES ASSUME cfg[r].strategy = "failover"
             PROVE  /\ Ordered(attempts'[r], Members(r))
                    /\ pc'[r] \in {"connect", "call"} =>
                          idx'[r] = Len(attempts'[r]) + 1 /\ AllFailed(attempts'[r])
  BY DEF Failover, Members
<1>1. attempts[r] \in Seq(Attempt) /\ Members(r) \in Seq(Models)
  BY MembersType DEF TypeOK
<1>2. /\ Ordered(attempts[r], Members(r)) /\ idx[r] = Len(attempts[r]) + 1
      /\ AllFailed(attempts[r])
  BY DEF Failover
<1>3. Len(attempts[r]) + 1 \in DOMAIN Members(r) /\ a.model = Members(r)[Len(attempts[r]) + 1]
  BY <1>2 DEF Shape, Member
<1>4. /\ Ordered(attempts'[r], Members(r))
      /\ a.result = "failed" => AllFailed(attempts'[r])
  BY <1>1, <1>2, <1>3, NextInOrder
<1>5. Len(attempts'[r]) = Len(attempts[r]) + 1
  BY <1>1, AppendFacts
<1>6. QED BY <1>2, <1>4, <1>5

LEMMA SingleInOrder ==
    ASSUME TypeOK, NEW r \in Requests, Shape(r), InOrder(r), SingleReply(r)
    PROVE  InOrder(r)'
<1> DEFINE Call(via, result) == [model |-> Member(r), role |-> "member", via |-> via,
                                 result |-> result]
<1>0. Kinds(r) /\ Failover(r) /\ Judged(r)
  BY DEF InOrder
<1>1. ASSUME NEW via \in {"complete", "stream"}, NEW result \in Statuses \cup {"open"},
             Answered(r, Member(r), "member", via, result),
             cfg'[r] = cfg[r], pc[r] \in {"connect", "call"},
             stream'[r] = stream[r] \/ pc'[r] = "forward",
             pc'[r] \in {"connect", "call", "forward", "full", "failed"},
             pc'[r] \in {"connect", "call"} => idx'[r] = idx[r] + 1 /\ result = "failed"
      PROVE  InOrder(r)'
  <2> DEFINE a == Call(via, result)
  <2>1. Member(r) \in Models
    BY <1>1, MembersType DEF Shape, Member
  <2>2. /\ a \in Attempt /\ a.role # "judge" /\ a.model = Member(r) /\ a.result = result
    BY <2>1 DEF Attempt, Roles
  <2>3. attempts'[r] = Append(attempts[r], a)
    BY <1>1, Domains DEF Answered
  <2> HIDE DEF a
  <2>4. Failover(r)'
    BY <1>0, <1>1, <2>2, <2>3, CallFailover
  <2>5. Judged(r)'
    BY <1>0, <1>1, <2>2, <2>3, CallJudged DEF AtWork
  <2>6. Kinds(r)'
    BY <1>0, <1>1 DEF Kinds, Late, Writing, Over
  <2>7. QED BY <2>4, <2>5, <2>6 DEF InOrder
<1> HIDE DEF Call
<1> USE Domains DEF Goto
<1>2. CASE StreamConnects(r)
  BY <1>1, <1>2 DEF StreamConnects
<1>3. CASE FailoverConnectFails(r)
  BY <1>1, <1>3 DEF FailoverConnectFails, TryNext, Statuses
<1>4. CASE PickConnectFails(r)
  BY <1>1, <1>4 DEF PickConnectFails, Statuses
<1>5. ASSUME NEW status \in Statuses, FailoverCallReplies(r, status) PROVE InOrder(r)'
  BY <1>1, <1>5 DEF FailoverCallReplies, CallMember, TryNext, Statuses
<1>6. ASSUME NEW status \in Statuses, PickCallReplies(r, status) PROVE InOrder(r)'
  BY <1>1, <1>6 DEF PickCallReplies, CallMember, Outcome
<1>7. QED BY <1>2, <1>3, <1>4, <1>5, <1>6 DEF SingleReply

LEMMA MultimodalInOrder ==
    ASSUME TypeOK, NEW r \in Requests, Shape(r), InOrder(r), MultimodalReply(r)
    PROVE  InOrder(r)'
<1>0. Kinds(r) /\ Judged(r)
  BY DEF InOrder
<1>1. ASSUME NEW m \in Models, NEW role \in {"member", "tool"}, NEW status \in Statuses,
             Answered(r, m, role, "complete", status),
             cfg'[r] = cfg[r], pc[r] \in {"main", "tools", "tool"}, stream'[r] = stream[r],
             pc'[r] \in {"main", "tools", "tool", "full", "failed"}
      PROVE  InOrder(r)'
  <2> DEFINE a == [model |-> m, role |-> role, via |-> "complete", result |-> status]
  <2>1. a \in Attempt /\ a.role # "judge"
    BY DEF Attempt, Roles
  <2>2. attempts'[r] = Append(attempts[r], a)
    BY <1>1, Domains DEF Answered
  <2> HIDE DEF a
  <2>3. Judged(r)'
    BY <1>0, <1>1, <2>1, <2>2, CallJudged DEF AtWork
  <2>4. cfg[r].strategy = "multimodal" /\ stream[r] = NoStream
    BY <1>0, <1>1 DEF Kinds, Late, Writing, Over
  <2>5. Kinds(r)' /\ Failover(r)'
    BY <1>1, <2>4 DEF Kinds, Failover
  <2>6. QED BY <2>3, <2>5 DEF InOrder
<1> USE Domains DEF Goto
<1>2. ASSUME NEW status \in Statuses, NEW n, MainReplies(r, status, n) PROVE InOrder(r)'
  <2>1. Members(r)[1] \in Models
    BY <1>2, MembersType DEF MainReplies, Shape
  <2>2. QED BY <1>1, <1>2, <2>1 DEF MainReplies, CallMember
<1>3. ASSUME NEW backend \in Models, NEW status \in Statuses, ToolReplies(r, backend, status)
      PROVE  InOrder(r)'
  BY <1>1, <1>3 DEF ToolReplies, ToolHandled, CallMember
<1>4. QED BY <1>2, <1>3 DEF MultimodalReply

LEMMA PanelSets ==
    ASSUME TypeOK, NEW r \in Requests, NEW S, S \subseteq DOMAIN Members(r)
    PROVE  /\ IsFiniteSet(S) /\ Cardinality(S) \in Nat
           /\ Cardinality(S) <= Len(Members(r)) /\ Len(Members(r)) \in Nat
<1>1. Members(r) \in Seq(Models) /\ DOMAIN Members(r) = 1 .. Len(Members(r))
  BY MembersType
<1>2. Len(Members(r)) \in Nat
  BY <1>1
<1>3. /\ IsFiniteSet(1 .. Len(Members(r)))
      /\ Cardinality(1 .. Len(Members(r))) = Len(Members(r))
  <2>1. \A n \in Nat : IsFiniteSet(1 .. n) /\ Cardinality(1 .. n) = n
    BY FS_Interval
  <2>2. QED BY ONLY <1>2, <2>1
<1>4. IsFiniteSet(S) /\ Cardinality(S) <= Len(Members(r))
  BY <1>1, <1>3, FS_Subset
<1>5. QED BY <1>2, <1>4, FS_CardinalityType

LEMMA MemberInOrder ==
    ASSUME TypeOK, NEW r \in Requests, InOrder(r),
           NEW i \in DOMAIN Members(r), NEW reply, MemberReplies(r, i, reply)
    PROVE  InOrder(r)'
<1> DEFINE status == IF reply = "error" THEN "failed" ELSE "ok"
           a == [model |-> Members(r)[i], role |-> "member", via |-> "complete",
                 result |-> status]
<1>1. /\ pc[r] = "panel" /\ pc'[r] = "panel" /\ i \in waiting[r]
      /\ attempts'[r] = Append(attempts[r], a) /\ waiting'[r] = waiting[r] \ {i}
      /\ answers'[r] = answers[r] \/ answers'[r] = answers[r] \cup {i}
      /\ cfg'[r] = cfg[r] /\ stream'[r] = stream[r]
  BY Domains DEF MemberReplies, CallMember, Answered
<1>2. a \in Attempt /\ a.role # "judge"
  BY MembersType DEF Attempt, Roles, Statuses
<1> HIDE DEF a
<1>3. attempts[r] \in Seq(Attempt)
  BY DEF TypeOK
<1>4. /\ Unjudged(attempts[r]) /\ answers[r] \subseteq DOMAIN Members(r)
      /\ waiting[r] \subseteq DOMAIN Members(r)
      /\ Cardinality(waiting[r]) + Len(attempts[r]) = Len(Members(r))
  BY <1>1 DEF InOrder, Judged, AtWork
<1>5. Unjudged(attempts'[r]) /\ Len(attempts'[r]) = Len(attempts[r]) + 1
  BY <1>1, <1>2, <1>3, <1>4, AppendUnjudged, AppendFacts
<1>6. Members(r)' = Members(r)
  BY <1>1 DEF Members
<1>7. Cardinality(waiting'[r]) + Len(attempts'[r]) = Len(Members(r))
  <2>1. Cardinality(waiting'[r]) = Cardinality(waiting[r]) - 1
    BY <1>1, <1>4, PanelSets, FS_RemoveElement
  <2>2. Cardinality(waiting[r]) \in Nat /\ Len(attempts[r]) \in Nat
    BY <1>3, <1>4, PanelSets
  <2>3. QED BY <1>4, <1>5, <2>1, <2>2
<1>8. Judged(r)'
  BY <1>1, <1>4, <1>5, <1>6, <1>7 DEF Judged, Unjudged
<1>9. Kinds(r)' /\ Failover(r)'
  BY <1>1 DEF InOrder, Kinds, Failover, PanelStrategies, Late, Writing, Over
<1>10. QED BY <1>8, <1>9 DEF InOrder

\* The judge's call is the last: the request has nothing more to call.
LEMMA JudgeInOrder ==
    ASSUME TypeOK, NEW r \in Requests, Shape(r), InOrder(r),
           NEW status \in Statuses, JudgeReplies(r, status)
    PROVE  InOrder(r)'
<1> DEFINE a == [model |-> cfg[r].judge, role |-> "judge", via |-> "complete",
                 result |-> status]
<1>1. /\ pc[r] = "judge" /\ pc'[r] \in {"full", "failed"}
      /\ attempts'[r] = Append(attempts[r], a) /\ answers'[r] = answers[r]
      /\ cfg'[r] = cfg[r] /\ stream'[r] = stream[r]
  BY Domains DEF JudgeReplies, CallMember, Answered, Goto, Outcome
<1>2. a \in Attempt
  BY <1>1 DEF Shape, Attempt, Roles
<1> HIDE DEF a
<1>3. attempts[r] \in Seq(Attempt) /\ cfg[r].min \in Nat
  BY DEF TypeOK, ConfigSpace
<1>4. /\ Unjudged(attempts[r]) /\ answers[r] \subseteq DOMAIN Members(r)
      /\ Len(attempts[r]) = Len(Members(r)) /\ answers[r] # {} /\ ~StrictStop(r)
      /\ cfg[r].strategy \in PanelStrategies
  BY <1>1 DEF InOrder, Judged, Kinds, AtWork
<1>5. /\ Len(attempts'[r]) = Len(Members(r)) + 1
      /\ \A k \in DOMAIN attempts'[r] :
            attempts'[r][k].role = "judge" => k = Len(attempts'[r])
  BY <1>1, <1>2, <1>3, <1>4, AppendUnjudged, AppendFacts
<1>6. cfg[r].strategy = "synthesize" /\ cfg[r].strict =>
         \/ Cardinality(answers[r]) = Len(Members(r))
         \/ Cardinality(answers[r]) >= cfg[r].min
  BY <1>3, <1>4, PanelSets DEF StrictStop
<1>7. Verdict(r)'
  BY <1>1, <1>4, <1>5, <1>6 DEF Verdict, Members
<1>8. Judged(r)'
  BY <1>1, <1>5, <1>7 DEF Judged, Fresh, AtWork
<1>9. Kinds(r)' /\ Failover(r)'
  BY <1>1, <1>4 DEF InOrder, Kinds, Failover, PanelStrategies, Late, Writing, Over
<1>10. QED BY <1>8, <1>9 DEF InOrder

LEMMA BetweenInOrder ==
    ASSUME TypeOK, NEW r \in Requests, InOrder(r),
           PanelDecides(r) \/ UnroutedTool(r) \/ RoutedTool(r)
    PROVE  InOrder(r)'
<1>1. /\ attempts'[r] = attempts[r] /\ answers'[r] = answers[r]
      /\ cfg'[r] = cfg[r] /\ stream'[r] = stream[r]
      /\ pc[r] \in {"panel", "tools"}
  BY Domains DEF PanelDecides, UnroutedTool, RoutedTool, ToolHandled, Goto
<1>2. Unjudged(attempts[r])
  BY <1>1 DEF InOrder, Judged, AtWork
<1>3. stream[r] = NoStream /\ cfg[r].strategy # "failover"
  BY <1>1 DEF InOrder, Kinds, PanelStrategies, Late, Writing, Over
<1>4. CASE PanelDecides(r)
  <2>1. /\ pc[r] = "panel" /\ waiting[r] = {}
        /\ \/ pc'[r] = "judge" /\ answers[r] # {} /\ ~StrictStop(r)
           \/ pc'[r] = "failed"
    BY <1>4, Domains DEF PanelDecides, Goto
  <2>2. /\ cfg[r].strategy \in PanelStrategies /\ answers[r] \subseteq DOMAIN Members(r)
        /\ Cardinality(waiting[r]) + Len(attempts[r]) = Len(Members(r))
    BY <2>1 DEF InOrder, Kinds, Judged
  <2>3. Len(attempts[r]) = Len(Members(r))
    <3>1. Cardinality(waiting[r]) = 0
      BY <2>1, FS_EmptySet
    <3>2. attempts[r] \in Seq(Attempt)
      BY DEF TypeOK
    <3>3. Len(attempts[r]) \in Nat
      BY <3>2
    <3>4. QED BY <2>2, <3>1, <3>3
  <2>4. StrictStop(r)' = StrictStop(r)
    BY <1>1 DEF StrictStop, Members
  <2>5. Judged(r)'
    BY <1>1, <1>2, <2>1, <2>2, <2>3, <2>4 DEF Judged, Unjudged, Members
  <2>6. Kinds(r)' /\ Failover(r)'
    BY <1>1, <1>3, <2>1, <2>2 DEF Kinds, Failover
  <2>7. QED BY <2>5, <2>6 DEF InOrder
<1>5. CASE UnroutedTool(r) \/ RoutedTool(r)
  <2>1. pc[r] = "tools" /\ pc'[r] \in {"main", "tools", "tool", "failed"}
    BY <1>5, Domains DEF UnroutedTool, RoutedTool, ToolHandled, Goto
  <2>2. cfg[r].strategy = "multimodal"
    BY <2>1 DEF InOrder, Kinds
  <2>3. Kinds(r)' /\ Failover(r)' /\ Judged(r)'
    BY <1>1, <1>2, <1>3, <2>1, <2>2 DEF Kinds, Failover, Judged, Unjudged
  <2>4. QED BY <2>3 DEF InOrder
<1>6. QED BY <1>4, <1>5

\* After the strategy has returned, no call is made.
LEMMA AccountingInOrder ==
    ASSUME TypeOK, NEW r \in Requests, InOrder(r), AccountingStep(r) \/ Disconnect(r)
    PROVE  InOrder(r)'
<1>1. /\ attempts'[r] = attempts[r] /\ answers'[r] = answers[r] /\ cfg'[r] = cfg[r]
      /\ pc'[r] \in Late \cup {"forward"}
  <2> USE Domains DEF Goto, EnterWriteStats, Late, Writing, Over
  <2>1. CASE Forward(r) BY <2>1 DEF Forward
  <2>2. CASE FinalizeFull(r) BY <2>2 DEF FinalizeFull
  <2>3. CASE FinalizeError(r) BY <2>3 DEF FinalizeError
  <2>4. CASE FinalizeStream(r) BY <2>4 DEF FinalizeStream
  <2>5. CASE WriteReal(r) BY <2>5 DEF WriteReal
  <2>6. CASE WriteVirtual(r) BY <2>6 DEF WriteVirtual
  <2>7. CASE WriteTotal(r) BY <2>7 DEF WriteTotal
  <2>8. CASE WriteLog(r) BY <2>8 DEF WriteLog
  <2>9. CASE WriteFails(r) BY <2>9 DEF WriteFails
  <2>10. CASE Reply(r) BY <2>10 DEF Reply
  <2>11. CASE Disconnect(r) BY <2>11 DEF Disconnect
  <2>12. QED
    BY <2>1, <2>2, <2>3, <2>4, <2>5, <2>6, <2>7, <2>8, <2>9, <2>10, <2>11
       DEF AccountingStep
<1>2. Verdict(r)' = Verdict(r) /\ Members(r)' = Members(r)
  BY <1>1 DEF Verdict, Members
<1>3. pc'[r] \notin Fresh \cup AtWork
  BY <1>1 DEF Fresh, AtWork, Late, Writing, Over
<1>4. Judged(r)'
  BY <1>1, <1>2, <1>3 DEF InOrder, Judged, AtWork
<1>5. Kinds(r)' /\ Failover(r)'
  BY <1>1, <1>2, <1>3 DEF InOrder, Kinds, Failover, AtWork
<1>6. QED BY <1>4, <1>5 DEF InOrder

LEMMA SendInOrder ==
    ASSUME TypeOK, NEW r \in Requests, Shape(r), InOrder(r),
           NEW kind \in EventKinds, StreamSends(r, kind)
    PROVE  InOrder(r)'
<1> DEFINE result == IF kind = "done" THEN "ok" ELSE "failed"
<1>1. /\ pc[r] = "forward" /\ pc'[r] = "forward"
      /\ answers'[r] = answers[r] /\ cfg'[r] = cfg[r]
      /\ attempts'[r] = attempts[r] \/ attempts'[r] = EndLast(attempts[r], result)
  BY Domains DEF StreamSends, CanSend, Shape
<1>2. attempts[r] \in Seq(Attempt) /\ attempts[r] # << >> /\ result \in Statuses
  BY <1>1 DEF TypeOK, Shape, Statuses
<1> HIDE DEF result
<1>3. Len(attempts[r]) > 0
  BY <1>2
<1>4. /\ Len(attempts'[r]) = Len(attempts[r]) /\ DOMAIN attempts'[r] = DOMAIN attempts[r]
      /\ \A k \in DOMAIN attempts[r] :
            /\ attempts'[r][k].model = attempts[r][k].model
            /\ attempts'[r][k].role = attempts[r][k].role
            /\ k < Len(attempts[r]) => attempts'[r][k] = attempts[r][k]
  BY <1>1, <1>2, <1>3, EndLastFacts, EndLastKeeps
<1>5. Verdict(r)' = Verdict(r) /\ Members(r)' = Members(r)
  BY <1>1, <1>4 DEF Verdict, Members
<1>6. Judged(r)'
  BY <1>1, <1>4, <1>5 DEF InOrder, Judged, Fresh, AtWork
<1>7. Ordered(attempts[r], Members(r)) => Ordered(attempts'[r], Members(r))
  BY <1>4 DEF Ordered
<1>8. Kinds(r)' /\ Failover(r)'
  BY <1>1, <1>5, <1>7 DEF InOrder, Kinds, Failover
<1>9. QED BY <1>6, <1>8 DEF InOrder

LEMMA StillInOrder ==
    ASSUME NEW q \in Requests, Still(q), InOrder(q)
    PROVE  InOrder(q)'
<1>1. /\ Members(q)' = Members(q) /\ Verdict(q)' = Verdict(q)
      /\ StrictStop(q)' = StrictStop(q)
  BY DEF Still, Members, Verdict, StrictStop
<1>2. QED BY <1>1 DEF Still, InOrder, Kinds, Failover, Judged

LEMMA InOrderStep ==
    ASSUME TypeOK, TypeOK', NEW r \in Requests, Shape(r), Billing(r), InOrder(r), StepOf(r)
    PROVE  InOrder(r)'
<1>1. CASE UpstreamReply(r)
  BY <1>1, SingleInOrder, MultimodalInOrder, MemberInOrder, JudgeInOrder
     DEF UpstreamReply, PanelReply
<1>2. CASE ~UpstreamReply(r)
  BY <1>2, HandlerInOrder, BetweenInOrder, AccountingInOrder, SendInOrder DEF StepOf
<1>3. QED BY <1>1, <1>2

LEMMA AllInOrderInductive ==
    ASSUME TypeOK, TypeOK', Shapes, Billings, AllInOrder, [Next]_vars
    PROVE  AllInOrder'
<1>1. CASE EditVModel \/ EditPrice \/ Tick \/ UNCHANGED vars
  BY <1>1, EnvironmentStill, StillInOrder DEF AllInOrder
<1>2. ASSUME NEW r \in Requests, StepOf(r)
      PROVE  AllInOrder'
  <2>1. InOrder(r)'
    BY <1>2, InOrderStep DEF AllInOrder, Billings, Shapes
  <2>2. ASSUME NEW q \in Requests \ {r} PROVE InOrder(q)'
    BY <1>2, <2>2, OnlyOne, StillInOrder DEF OthersStill, AllInOrder
  <2>3. QED BY <2>1, <2>2 DEF AllInOrder
<1>3. QED BY <1>1, <1>2, StepCases

LEMMA InOrderAlways == Spec => []AllInOrder
<1>1. Init => AllInOrder
  <2>1. ASSUME Init, NEW r \in Requests PROVE InOrder(r)
    <3>1. /\ pc[r] = "received" /\ attempts[r] = << >> /\ stream[r] = NoStream
      BY <2>1 DEF Init
    <3>2. DOMAIN attempts[r] = {}
      BY <3>1
    <3>3. QED
      BY <3>1, <3>2 DEF InOrder, Kinds, Failover, Ordered, Judged, Unjudged
  <2>2. QED BY <2>1 DEF AllInOrder
<1>2. TypeOK /\ TypeOK' /\ Shapes /\ Billings /\ AllInOrder /\ [Next]_vars => AllInOrder'
  BY AllInOrderInductive
<1>3. QED BY <1>1, <1>2, TypeAndShape, LedgerAndBilling, PTL DEF Spec

-----------------------------------------------------------------------------
(* The theorems *)

\* However many members there are and whichever fail: failover calls them in
\* their order, each after all before it failed, and none after one that
\* answered.
THEOREM FailoverInOrderForAll == Spec => []FailoverInOrder
<1>1. AllInOrder => FailoverInOrder
  BY DEF AllInOrder, InOrder, Failover, Ordered, FailoverInOrder
<1>2. QED BY <1>1, InOrderAlways, PTL

\* For panels of any size, answered in any order: the judge is called once,
\* after every member's call was answered, and only on enough answers.
THEOREM JudgeLastForAll == Spec => []JudgeLast
<1>1. AllInOrder => JudgeLast
  BY DEF AllInOrder, InOrder, Judged, Verdict, JudgeLast
<1>2. QED BY <1>1, InOrderAlways, PTL

LEMMA SendLength ==
    ASSUME TypeOK, NEW r \in Requests, Shape(r), NEW kind \in EventKinds,
           StreamSends(r, kind)
    PROVE  Len(attempts'[r]) = Len(attempts[r])
<1> DEFINE result == IF kind = "done" THEN "ok" ELSE "failed"
<1>1. /\ pc[r] = "forward"
      /\ attempts'[r] = attempts[r] \/ attempts'[r] = EndLast(attempts[r], result)
  BY Domains DEF StreamSends, CanSend, Shape
<1>2. attempts[r] \in Seq(Attempt) /\ attempts[r] # << >> /\ result \in Statuses
  BY <1>1 DEF TypeOK, Shape, Statuses
<1> HIDE DEF result
<1>3. Len(attempts[r]) > 0
  BY <1>2
<1>4. QED BY <1>1, <1>2, <1>3, EndLastFacts

\* Calls are answered only by UpstreamReply, and end only by StreamSends.
LEMMA SameCalls ==
    ASSUME TypeOK, NEW r \in Requests, StepOf(r), ~UpstreamReply(r),
           ~(\E kind \in EventKinds : StreamSends(r, kind))
    PROVE  attempts'[r] = attempts[r]
<1> USE Domains
<1>1. CASE \/ Reject(r) \/ Accept(r) \/ ReadStrategyName(r) \/ LoadVModel(r)
           \/ LoadMembers(r) \/ DispatchFails(r) \/ Begin(r)
  BY <1>1 DEF Reject, Accept, ReadStrategyName, LoadVModel, LoadMembers, DispatchFails,
     Begin, BeginFailover, BeginPick, BeginPanel, BeginMultimodal
<1>2. CASE PanelDecides(r) \/ UnroutedTool(r) \/ RoutedTool(r) \/ Disconnect(r)
  BY <1>2 DEF PanelDecides, UnroutedTool, RoutedTool, Disconnect
<1>3. CASE AccountingStep(r)
  BY <1>3 DEF AccountingStep, Forward, FinalizeFull, FinalizeError, FinalizeStream,
     EnterWriteStats, WriteReal, WriteVirtual, WriteTotal, WriteLog, WriteFails, Reply
<1>4. QED BY <1>1, <1>2, <1>3 DEF StepOf

\* Once a stream is open its request makes no call any more, whatever the
\* stream, the client and the other requests do.
THEOREM CommittedToStreamForAll == Spec => CommittedToStream
<1>1. ASSUME TypeOK, Shapes, AllInOrder, [Next]_vars, NEW q \in Requests,
             stream[q] # NoStream
      PROVE  Len(attempts'[q]) = Len(attempts[q])
  <2>1. CASE EditVModel \/ EditPrice \/ Tick \/ UNCHANGED vars
    BY <2>1, EnvironmentStill DEF Still
  <2>2. ASSUME NEW r \in Requests \ {q}, StepOf(r)
        PROVE  Len(attempts'[q]) = Len(attempts[q])
    BY <1>1, <2>2, OnlyOne DEF OthersStill, Still
  <2>3. ASSUME StepOf(q)
        PROVE  Len(attempts'[q]) = Len(attempts[q])
    <3>1. pc[q] \in Late \cup {"forward"}
      BY <1>1 DEF AllInOrder, InOrder, Kinds
    <3>2. ~UpstreamReply(q)
      BY <3>1 DEF UpstreamReply, SingleReply, StreamConnects, FailoverConnectFails, TryNext,
         PickConnectFails, FailoverCallReplies, PickCallReplies, PanelReply, MemberReplies,
         JudgeReplies, MultimodalReply, MainReplies, ToolReplies, ToolHandled, Goto,
         Late, Writing, Over
    <3>3. ASSUME NEW kind \in EventKinds, StreamSends(q, kind)
          PROVE  Len(attempts'[q]) = Len(attempts[q])
      BY <1>1, <3>3, SendLength DEF Shapes
    <3>4. CASE ~(\E kind \in EventKinds : StreamSends(q, kind))
      <4>1. attempts'[q] = attempts[q]
        BY <2>3, <3>2, <3>4, <1>1, SameCalls
      <4>2. QED BY <4>1
    <3>5. QED BY <3>3, <3>4
  <2>4. QED BY <1>1, <2>1, <2>2, <2>3, StepCases
<1>2. TypeOK /\ Shapes /\ AllInOrder /\ [Next]_vars =>
         [\A r \in Requests :
             stream[r] # NoStream => Len(attempts'[r]) = Len(attempts[r])]_vars
  BY <1>1
<1>3. QED BY <1>2, TypeAndShape, InOrderAlways, PTL DEF Spec, CommittedToStream

-----------------------------------------------------------------------------
(* The stream of a request and the contract of streams *)

\* A step of StreamContract on the channel of r, the history left out.
StreamMove(r) ==
    \/ stream[r] = NoStream /\ stream'[r] = Connected
    \/ /\ CanSend(stream[r])
       /\ \E kind \in EventKinds \ {"started"} : stream'[r] = Send(stream[r], kind)
    \/ CanRecv(stream[r]) /\ stream'[r] = Recv(stream[r])
    \/ stream[r].rx /\ stream'[r] = DropReceiver(stream[r])

\* Whatever moves the stream of a request (stream_real of ingress/handler.rs,
\* the egress task, a disconnect) moves it as the contract does.
StreamMoves == [][\A r \in Requests : stream'[r] # stream[r] => StreamMove(r)]_vars

\* What is queued is dropped with the receiver.
Listening(r) == stream[r].rx \/ stream[r].queue = << >>

\* By itself a request moves its stream only when it opens it and forwards.
LEMMA StreamStill ==
    ASSUME TypeOK, NEW r \in Requests, GatewayStep(r) \/ UpstreamReply(r),
           ~StreamConnects(r), ~Forward(r)
    PROVE  stream'[r] = stream[r]
<1>1. CASE Reject(r) \/ Accept(r) \/ ReadStrategyName(r) \/ LoadVModel(r)
           \/ LoadMembers(r) \/ DispatchFails(r)
  BY <1>1 DEF Reject, Accept, ReadStrategyName, LoadVModel, LoadMembers, DispatchFails
<1>2. CASE Begin(r)
  BY <1>2 DEF Begin, BeginFailover, BeginPick, BeginPanel, BeginMultimodal
<1>3. CASE SingleReply(r)
  BY <1>3 DEF SingleReply, FailoverConnectFails, PickConnectFails, FailoverCallReplies,
              PickCallReplies
<1>4. CASE PanelReply(r) BY <1>4 DEF PanelReply, MemberReplies, JudgeReplies
<1>5. CASE MultimodalReply(r) BY <1>5 DEF MultimodalReply, MainReplies, ToolReplies
<1>6. CASE PanelDecides(r) \/ UnroutedTool(r) \/ RoutedTool(r)
  BY <1>6 DEF PanelDecides, UnroutedTool, RoutedTool
<1>7. CASE AccountingStep(r)
  BY <1>7 DEF AccountingStep, FinalizeFull, FinalizeError, FinalizeStream, EnterWriteStats,
              WriteReal, WriteVirtual, WriteTotal, WriteLog, WriteFails, Reply
<1>8. QED
  BY <1>1, <1>2, <1>3, <1>4, <1>5, <1>6, <1>7 DEF GatewayStep, UpstreamReply

LEMMA OwnMove ==
    ASSUME TypeOK, NEW r \in Requests, InOrder(r), Listening(r),
           \/ GatewayStep(r) \/ UpstreamReply(r) \/ Disconnect(r)
           \/ StreamSends(r, "delta") \/ StreamEnds(r)
    PROVE  stream'[r] = stream[r] \/ StreamMove(r)
<1>1. CASE StreamSends(r, "delta") \/ StreamEnds(r)
  <2>1. PICK kind \in EventKinds \ {"started"} : StreamSends(r, kind)
    BY <1>1 DEF StreamEnds, EventKinds, Terminal
  <2>2. CanSend(stream[r]) /\ stream'[r] = Send(stream[r], kind)
    BY <2>1, Domains DEF StreamSends
  <2>3. QED BY <2>2 DEF StreamMove
<1>2. CASE StreamConnects(r)
  <2>1. stream[r] = NoStream
    BY <1>2 DEF StreamConnects, Goto, InOrder, Kinds, Late, Writing, Over
  <2>2. stream'[r] = Connected
    BY <1>2, Domains DEF StreamConnects
  <2>3. QED BY <2>1, <2>2 DEF StreamMove
<1>3. CASE Forward(r)
  <2>1. CanRecv(stream[r]) /\ stream'[r] = Recv(stream[r])
    BY <1>3, Domains DEF Forward
  <2>2. QED BY <2>1 DEF StreamMove
<1>4. CASE Disconnect(r)
  <2>1. stream'[r] = DropReceiver(stream[r])
    BY <1>4, Domains DEF Disconnect
  <2>2. CASE stream[r].rx BY <2>1, <2>2 DEF StreamMove
  <2>3. CASE ~stream[r].rx
    <3>1. stream[r] \in Streams BY DEF TypeOK
    <3>2. stream[r].queue = << >> BY <2>3 DEF Listening
    <3>3. stream[r] = [queue |-> << >>, open |-> stream[r].open, rx |-> FALSE]
      BY <2>3, <3>1, <3>2 DEF Streams
    <3>4. QED BY <2>1, <3>3 DEF DropReceiver
  <2>4. QED BY <2>2, <2>3
<1>5. QED BY <1>1, <1>2, <1>3, <1>4, StreamStill

LEMMA AnyMove ==
    ASSUME TypeOK, AllInOrder, [Next]_vars, NEW r \in Requests, Listening(r)
    PROVE  stream'[r] = stream[r] \/ StreamMove(r)
<1>1. ASSUME NEW q \in Requests,
             \/ GatewayStep(q) \/ UpstreamReply(q) \/ Disconnect(q)
             \/ StreamSends(q, "delta") \/ StreamEnds(q)
      PROVE  stream'[r] = stream[r] \/ StreamMove(r)
  <2>1. CASE q = r
    BY <1>1, <2>1, OwnMove DEF AllInOrder
  <2>2. CASE q # r
    <3>1. StepOf(q)
      BY <1>1 DEF StepOf, GatewayStep, StreamEnds, EventKinds, Terminal
    <3>2. Still(r) BY <2>2, <3>1, OnlyOne DEF OthersStill
    <3>3. QED BY <3>2 DEF Still
  <2>3. QED BY <2>1, <2>2
<1>2. CASE EditVModel \/ EditPrice \/ Tick \/ UNCHANGED vars
  BY <1>2, EnvironmentStill DEF Still
<1>3. QED BY <1>1, <1>2 DEF Next

AllListening == \A r \in Requests : Listening(r)

LEMMA MoveListens ==
    ASSUME NEW r \in Requests, Listening(r), stream'[r] = stream[r] \/ StreamMove(r)
    PROVE  Listening(r)'
<1>1. CASE stream'[r] = stream[r] BY <1>1 DEF Listening
<1>2. CASE stream'[r] = Connected BY <1>2 DEF Listening, Connected
<1>3. ASSUME NEW kind, stream[r].rx, stream'[r] = Send(stream[r], kind) PROVE Listening(r)'
  BY <1>3 DEF Listening, Send
<1>4. CASE stream[r].rx /\ stream'[r] = Recv(stream[r]) BY <1>4 DEF Listening, Recv
<1>5. CASE stream'[r] = DropReceiver(stream[r]) BY <1>5 DEF Listening, DropReceiver
<1>6. QED BY <1>1, <1>2, <1>3, <1>4, <1>5 DEF StreamMove, CanSend, CanRecv

LEMMA ListensAlways == Spec => []AllListening
<1>1. Init => AllListening
  <2>1. ASSUME Init, NEW r \in Requests PROVE Listening(r)
    <3>1. stream[r] = NoStream BY <2>1 DEF Init
    <3>2. QED BY <3>1 DEF Listening, NoStream
  <2>2. QED BY <2>1 DEF AllListening
<1>2. TypeOK /\ AllInOrder /\ AllListening /\ [Next]_vars => AllListening'
  BY AnyMove, MoveListens DEF AllListening
<1>3. QED BY <1>1, <1>2, TypeAndShape, InOrderAlways, PTL DEF Spec

\* No request opens a second stream, reads one that it has left or is sent
\* Started twice: of the egress task the pipeline assumes what the contract
\* lets it do, which EgressImplementsContract proves of the task
\* (stream_real of ingress/handler.rs, run_egress of connector/sse.rs).
THEOREM StreamsByContract == Spec => StreamMoves
<1>1. TypeOK /\ AllInOrder /\ AllListening /\ [Next]_vars =>
          [\A r \in Requests : stream'[r] # stream[r] => StreamMove(r)]_vars
  BY AnyMove DEF AllListening
<1>2. QED BY <1>1, TypeAndShape, InOrderAlways, ListensAlways, PTL DEF StreamMoves, Spec
=============================================================================
