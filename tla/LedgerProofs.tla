---------------------------- MODULE LedgerProofs ----------------------------
(***************************************************************************)
(* What is billed and counted, for every instance: SameBasis, BilledOnce   *)
(* and EveryCallBilled.                                                    *)
(*                                                                         *)
(* Ledger says what the rows of a request are at each statement of         *)
(* write_stats.  Billing follows the calls from the place where they are   *)
(* answered through the recorder, the tail of the stream and write_stats   *)
(* to the real rows: positions rise, so none is there twice, and together  *)
(* the places a request has filled cover every call it has made.           *)
(***************************************************************************)
EXTENDS PipelineProofs

USE DEF vars, dispatchVars, strategyVars, callVars, streamVars, writeVars,
        ledgerVars, envVars

Fresh   == {"received", "name", "vmodel", "members", "dispatch"}
Writing == {"real", "total", "log"}
Over    == {"reply", "done", "gone"}
Late    == Writing \cup Over

Ledger(r) ==
    /\ pc[r] \notin Late =>
          real[r] = << >> /\ virtual[r] = << >> /\ total[r] = << >> /\ reqLog[r] = << >>
    /\ pc[r] \in Writing =>
          /\ agg[r] = real[r]
          /\ \A j \in DOMAIN real[r] : real[r][j].hour = stamp[r]
          /\ reqLog[r] = << >>
    /\ pc[r] = "real" => virtual[r] = << >>
    /\ pc[r] \in {"total", "log"} => virtual[r] = <<Summary(r)>>
    /\ pc[r] \in {"real", "total"} => total[r] = << >>
    /\ pc[r] = "log" => total[r] = <<Summary(r)>>
    /\ OneBasis(r)

Ledgers == \A r \in Requests : Ledger(r)

-----------------------------------------------------------------------------

\* The entries of s describe calls, with the results they have.
Matches(s, calls) ==
    \A i \in DOMAIN s : s[i].k \in DOMAIN calls /\ s[i].status = calls[s[i].k].result

Rising(s) == \A i, j \in DOMAIN s : i < j => s[i].k < s[j].k

Below(s, t) == \A i \in DOMAIN s, j \in DOMAIN t : s[i].k < t[j].k

Has(s, k) == \E i \in DOMAIN s : s[i].k = k

\* Unrecorded, as a statement on the call itself.
Excused(strategy, call) ==
    strategy \in {"speed", "cheapest"} /\ call.via = "stream" /\ call.result = "failed"

\* s has the first n calls, but for those that are excused.
Covers(s, calls, n, strategy) ==
    \A k \in 1 .. n : Has(s, k) \/ Excused(strategy, calls[k])

EventOf(result) == IF result = "ok" THEN "done" ELSE "error"

\* The stream of a request that forwards one: its call is the last, and is not
\* in the recorder; its terminal event is queued or has been received, and
\* says what became of the call.
Streaming(r) ==
    LET q      == stream[r].queue
        n      == Len(attempts[r])
        result == attempts[r][n].result
    IN  /\ n > 0 /\ stream[r].rx
        /\ \A i \in DOMAIN recorder[r] : recorder[r][i].k < n
        /\ Covers(recorder[r], attempts[r], n - 1, cfg[r].strategy)
        /\ stream[r].open =>
              /\ result = "open" /\ tail[r] = << >>
              /\ \A i \in DOMAIN q : q[i] \notin Terminal
        /\ ~stream[r].open =>
              /\ result \in Statuses
              /\ \/ /\ tail[r] = << >> /\ q # << >>
                    /\ q[Len(q)] = EventOf(result)
                    /\ \A i \in DOMAIN q : i < Len(q) => q[i] \notin Terminal
                 \/ q = << >> /\ tail[r] = <<StreamCall(r, result)>>

Billing(r) ==
    /\ pc[r] \in Fresh => attempts[r] = << >>
    /\ pc[r] = "connect" => cfg[r].strategy \in SingleStrategies
    /\ pc[r] \notin Late => Matches(recorder[r], attempts[r]) /\ Rising(recorder[r])
    /\ pc[r] \notin Late \cup {"forward"} =>
          /\ tail[r] = << >>
          /\ Covers(recorder[r], attempts[r], Len(attempts[r]), cfg[r].strategy)
    /\ pc[r] = "forward" => Streaming(r)
    /\ pc[r] = "real" =>
          /\ Matches(todo[r], attempts[r]) /\ Rising(todo[r]) /\ Below(real[r], todo[r])
          /\ \A k \in DOMAIN attempts[r] :
                Has(real[r], k) \/ Has(todo[r], k) \/ Excused(cfg[r].strategy, attempts[r][k])
    /\ pc[r] \in {"total", "log"} \/ (pc[r] \in {"reply", "done"} /\ ~aborted[r]) =>
          Covers(real[r], attempts[r], Len(attempts[r]), cfg[r].strategy)
    /\ Matches(real[r], attempts[r]) /\ Rising(real[r])

Billings == \A r \in Requests : Billing(r)

-----------------------------------------------------------------------------
(* The ledger *)

\* No row is written, and write_stats is neither entered nor continued.
Quiet(r) ==
    /\ real'[r] = real[r] /\ virtual'[r] = virtual[r]
    /\ total'[r] = total[r] /\ reqLog'[r] = reqLog[r]
    /\ pc'[r] \in Over \/ (pc[r] \notin Late /\ pc'[r] \notin Late)

LEMMA QuietLedger ==
    ASSUME NEW r \in Requests, Ledger(r), Quiet(r)
    PROVE  Ledger(r)'
<1>1. OneBasis(r)'
  BY DEF Ledger, Quiet, OneBasis, SumsReal
<1>2. QED BY <1>1 DEF Ledger, Quiet, Late, Writing, Over

LEMMA HandlerQuiet ==
    ASSUME TypeOK, NEW r \in Requests,
           \/ Reject(r) \/ Accept(r) \/ ReadStrategyName(r) \/ LoadVModel(r)
           \/ LoadMembers(r) \/ DispatchFails(r) \/ Begin(r)
    PROVE  Quiet(r)
<1> USE Domains DEF Quiet, Goto, Late, Writing, Over
<1>1. CASE Reject(r) BY <1>1 DEF Reject
<1>2. CASE Accept(r) BY <1>2 DEF Accept
<1>3. CASE ReadStrategyName(r) BY <1>3 DEF ReadStrategyName
<1>4. CASE LoadVModel(r) BY <1>4 DEF LoadVModel
<1>5. CASE LoadMembers(r) BY <1>5 DEF LoadMembers
<1>6. CASE DispatchFails(r) BY <1>6 DEF DispatchFails
<1>7. CASE BeginFailover(r) BY <1>7 DEF BeginFailover, FirstCall
<1>8. CASE BeginPick(r) BY <1>8 DEF BeginPick, FirstCall
<1>9. CASE BeginPanel(r) BY <1>9 DEF BeginPanel
<1>10. CASE BeginMultimodal(r) BY <1>10 DEF BeginMultimodal
<1>11. QED
  BY <1>1, <1>2, <1>3, <1>4, <1>5, <1>6, <1>7, <1>8, <1>9, <1>10 DEF Begin

LEMMA ReplyQuiet ==
    ASSUME TypeOK, NEW r \in Requests, UpstreamReply(r)
    PROVE  Quiet(r)
<1> USE Domains DEF Quiet, Goto, Late, Writing, Over
<1>1. CASE StreamConnects(r) BY <1>1 DEF StreamConnects
<1>2. CASE FailoverConnectFails(r) BY <1>2 DEF FailoverConnectFails, TryNext
<1>3. CASE PickConnectFails(r) BY <1>3 DEF PickConnectFails
<1>4. ASSUME NEW status, FailoverCallReplies(r, status) PROVE Quiet(r)
  BY <1>4 DEF FailoverCallReplies, TryNext
<1>5. ASSUME NEW status, PickCallReplies(r, status) PROVE Quiet(r)
  BY <1>5 DEF PickCallReplies, Outcome
<1>6. ASSUME NEW i, NEW reply, MemberReplies(r, i, reply) PROVE Quiet(r)
  BY <1>6 DEF MemberReplies
<1>7. ASSUME NEW status, JudgeReplies(r, status) PROVE Quiet(r)
  BY <1>7 DEF JudgeReplies, Outcome
<1>8. ASSUME NEW status, NEW n, MainReplies(r, status, n) PROVE Quiet(r)
  BY <1>8 DEF MainReplies
<1>9. ASSUME NEW backend, NEW status, ToolReplies(r, backend, status) PROVE Quiet(r)
  BY <1>9 DEF ToolReplies, ToolHandled
<1>10. QED
  BY <1>1, <1>2, <1>3, <1>4, <1>5, <1>6, <1>7, <1>8, <1>9
     DEF UpstreamReply, SingleReply, PanelReply, MultimodalReply

LEMMA LaterQuiet ==
    ASSUME TypeOK, NEW r \in Requests, Shape(r),
           \/ PanelDecides(r) \/ UnroutedTool(r) \/ RoutedTool(r) \/ Forward(r)
           \/ WriteFails(r) \/ Reply(r) \/ Disconnect(r)
           \/ (\E kind \in EventKinds : StreamSends(r, kind))
    PROVE  Quiet(r)
<1> USE Domains DEF Quiet, Goto, Late, Writing, Over
<1>1. CASE PanelDecides(r) BY <1>1 DEF PanelDecides
<1>2. CASE UnroutedTool(r) BY <1>2 DEF UnroutedTool, ToolHandled
<1>3. CASE RoutedTool(r) BY <1>3 DEF RoutedTool
<1>4. CASE Forward(r) BY <1>4 DEF Forward
<1>5. CASE WriteFails(r) BY <1>5 DEF WriteFails
<1>6. CASE Reply(r) BY <1>6 DEF Reply
<1>7. CASE Disconnect(r) BY <1>7 DEF Disconnect
<1>8. ASSUME NEW kind, StreamSends(r, kind) PROVE Quiet(r)
  BY <1>8 DEF StreamSends, CanSend, Shape
<1>9. QED BY <1>1, <1>2, <1>3, <1>4, <1>5, <1>6, <1>7, <1>8

\* write_stats starts from empty sums and writes to empty rows.
LEMMA EnterLedger ==
    ASSUME TypeOK, NEW r \in Requests, Ledger(r), NEW from \in {"full", "failed", "forward"},
           NEW all, EnterWriteStats(r, from, all)
    PROVE  Ledger(r)'
<1>1. /\ pc[r] = from /\ pc'[r] = "real" /\ agg'[r] = << >>
      /\ real'[r] = real[r] /\ virtual'[r] = virtual[r]
      /\ total'[r] = total[r] /\ reqLog'[r] = reqLog[r]
  BY Domains DEF EnterWriteStats, Goto
<1>2. real[r] = << >> /\ virtual[r] = << >> /\ total[r] = << >> /\ reqLog[r] = << >>
  BY <1>1 DEF Ledger, Late, Writing, Over
<1>3. OneBasis(r)'
  BY <1>1, <1>2 DEF OneBasis
<1>4. QED BY <1>1, <1>2, <1>3 DEF Ledger, Late, Writing, Over

LEMMA WriteRealLedger ==
    ASSUME TypeOK, NEW r \in Requests, Ledger(r), WriteReal(r)
    PROVE  Ledger(r)'
<1> DEFINE c == Head(todo[r])
           entry == [k |-> c.k, name |-> c.name, status |-> c.status,
                     hour |-> stamp[r], cost |-> CostFor(c.name)]
<1>1. /\ pc[r] = "real" /\ pc'[r] = "real"
      /\ real'[r] = Append(real[r], entry) /\ agg'[r] = Append(agg[r], entry)
      /\ stamp'[r] = stamp[r] /\ virtual'[r] = virtual[r] /\ total'[r] = total[r]
      /\ reqLog'[r] = reqLog[r]
  BY Domains DEF WriteReal
<1>2. entry.hour = stamp[r]
  OBVIOUS
<1>3. real[r] \in Seq(RealEntry)
  BY DEF TypeOK
<1> HIDE DEF entry
<1>4. \A j \in DOMAIN real'[r] : real'[r][j].hour = stamp[r]
  <2>1. \A j \in DOMAIN real[r] : real[r][j].hour = stamp[r]
    BY <1>1 DEF Ledger, Writing
  <2>2. ASSUME NEW j \in DOMAIN Append(real[r], entry)
        PROVE  Append(real[r], entry)[j].hour = stamp[r]
    <3>1. CASE j = Len(real[r]) + 1
      BY <1>2, <1>3, <3>1
    <3>2. CASE j \in DOMAIN real[r]
      BY <1>3, <2>1, <3>2
    <3>3. QED BY <1>3, <3>1, <3>2
  <2>3. QED BY <1>1, <2>2
<1>5. virtual[r] = << >> /\ total[r] = << >> /\ reqLog[r] = << >> /\ agg[r] = real[r]
  BY <1>1 DEF Ledger, Writing
<1>6. OneBasis(r)'
  BY <1>1, <1>5 DEF OneBasis
<1>7. QED BY <1>1, <1>4, <1>5, <1>6 DEF Ledger, Late, Writing, Over

LEMMA WriteVirtualLedger ==
    ASSUME TypeOK, NEW r \in Requests, Ledger(r), WriteVirtual(r)
    PROVE  Ledger(r)'
<1>1. /\ pc[r] = "real" /\ pc'[r] = "total"
      /\ virtual'[r] = Append(virtual[r], Summary(r))
      /\ real'[r] = real[r] /\ total'[r] = total[r] /\ reqLog'[r] = reqLog[r]
      /\ agg'[r] = agg[r] /\ stamp'[r] = stamp[r] /\ errFlag'[r] = errFlag[r]
  BY Domains DEF WriteVirtual, Goto
<1>2. /\ virtual[r] = << >> /\ total[r] = << >> /\ reqLog[r] = << >> /\ agg[r] = real[r]
      /\ \A j \in DOMAIN real[r] : real[r][j].hour = stamp[r]
  BY <1>1 DEF Ledger, Writing
<1>3. Summary(r)' = Summary(r)
  BY <1>1 DEF Summary
<1>4. virtual'[r] = <<Summary(r)>>
  BY <1>1, <1>2
<1>5. SumsReal(r, Summary(r))'
  BY <1>1, <1>2, <1>3 DEF Summary, SumsReal
<1>6. OneBasis(r)'
  BY <1>1, <1>2, <1>3, <1>4, <1>5 DEF OneBasis
<1>7. QED BY <1>1, <1>2, <1>3, <1>4, <1>6 DEF Ledger, Late, Writing, Over

LEMMA WriteTotalLedger ==
    ASSUME TypeOK, NEW r \in Requests, Ledger(r), WriteTotal(r)
    PROVE  Ledger(r)'
<1>1. /\ pc[r] = "total" /\ pc'[r] = "log"
      /\ total'[r] = Append(total[r], Summary(r))
      /\ real'[r] = real[r] /\ virtual'[r] = virtual[r] /\ reqLog'[r] = reqLog[r]
      /\ agg'[r] = agg[r] /\ stamp'[r] = stamp[r] /\ errFlag'[r] = errFlag[r]
  BY Domains DEF WriteTotal, Goto
<1>2. /\ virtual[r] = <<Summary(r)>> /\ total[r] = << >> /\ reqLog[r] = << >>
      /\ agg[r] = real[r] /\ \A j \in DOMAIN real[r] : real[r][j].hour = stamp[r]
      /\ SumsReal(r, Summary(r))
  BY <1>1 DEF Ledger, Writing, OneBasis
<1>3. Summary(r)' = Summary(r)
  BY <1>1 DEF Summary
<1>4. total'[r] = <<Summary(r)>>
  BY <1>1, <1>2
<1>5. SumsReal(r, Summary(r))'
  BY <1>1, <1>2, <1>3 DEF SumsReal
<1>6. OneBasis(r)'
  BY <1>1, <1>2, <1>4, <1>5, <1>3 DEF OneBasis
<1>7. QED BY <1>1, <1>2, <1>3, <1>4, <1>6 DEF Ledger, Late, Writing, Over

LEMMA WriteLogLedger ==
    ASSUME TypeOK, NEW r \in Requests, Ledger(r), WriteLog(r)
    PROVE  Ledger(r)'
<1> DEFINE row == [strategy |-> logName[r], hour |-> stamp[r], calls |-> agg[r],
                   err |-> errFlag[r]]
<1>1. /\ pc[r] = "log" /\ pc'[r] = "reply"
      /\ reqLog'[r] = Append(reqLog[r], row)
      /\ real'[r] = real[r] /\ virtual'[r] = virtual[r] /\ total'[r] = total[r]
      /\ agg'[r] = agg[r] /\ stamp'[r] = stamp[r] /\ errFlag'[r] = errFlag[r]
  BY Domains DEF WriteLog, Goto
<1>2. /\ virtual[r] = <<Summary(r)>> /\ total[r] = <<Summary(r)>> /\ reqLog[r] = << >>
      /\ agg[r] = real[r] /\ \A j \in DOMAIN real[r] : real[r][j].hour = stamp[r]
      /\ SumsReal(r, Summary(r))
  BY <1>1 DEF Ledger, Writing, OneBasis
<1>3. row.calls = agg[r] /\ row.hour = stamp[r] /\ row.err = errFlag[r]
  OBVIOUS
<1>4. Summary(r).err = errFlag[r]
  BY DEF Summary
<1> HIDE DEF row
<1>5. reqLog'[r] = <<row>>
  BY <1>1, <1>2
<1>6. \A s : s = row \/ s = Summary(r) =>
         s.calls = real'[r] /\ \A j \in DOMAIN real'[r] : real'[r][j].hour = s.hour
  BY <1>1, <1>2, <1>3 DEF SumsReal
<1>7. OneBasis(r)'
  BY <1>1, <1>2, <1>3, <1>4, <1>5, <1>6 DEF OneBasis, SumsReal
<1>8. QED BY <1>1, <1>7 DEF Ledger, Late, Writing, Over

LEMMA StillLedger ==
    ASSUME NEW q \in Requests, Still(q), Ledger(q)
    PROVE  Ledger(q)'
<1>1. OneBasis(q)'
  BY DEF Still, Ledger, OneBasis, SumsReal
<1>2. QED BY <1>1 DEF Still, Ledger, Summary

LEMMA LedgerStep ==
    ASSUME TypeOK, NEW r \in Requests, Shape(r), Ledger(r), StepOf(r)
    PROVE  Ledger(r)'
<1>1. CASE AccountingStep(r)
  <2>1. CASE Forward(r) \/ WriteFails(r) \/ Reply(r)
    BY <2>1, LaterQuiet, QuietLedger
  <2>2. CASE FinalizeFull(r)
    BY <2>2, EnterLedger DEF FinalizeFull
  <2>3. CASE FinalizeError(r)
    BY <2>3, EnterLedger DEF FinalizeError
  <2>4. CASE FinalizeStream(r)
    BY <2>4, EnterLedger DEF FinalizeStream
  <2>5. CASE WriteReal(r) \/ WriteVirtual(r) \/ WriteTotal(r) \/ WriteLog(r)
    BY <2>5, WriteRealLedger, WriteVirtualLedger, WriteTotalLedger, WriteLogLedger
  <2>6. QED BY <1>1, <2>1, <2>2, <2>3, <2>4, <2>5 DEF AccountingStep
<1>2. CASE ~AccountingStep(r)
  <2>1. Quiet(r)
    BY <1>2, HandlerQuiet, ReplyQuiet, LaterQuiet DEF StepOf
  <2>2. QED BY <2>1, QuietLedger
<1>3. QED BY <1>1, <1>2

LEMMA LedgersInductive ==
    ASSUME TypeOK, Shapes, Ledgers, [Next]_vars
    PROVE  Ledgers'
<1>1. CASE EditVModel \/ EditPrice \/ Tick \/ UNCHANGED vars
  BY <1>1, EnvironmentStill, StillLedger DEF Ledgers
<1>2. ASSUME NEW r \in Requests, StepOf(r)
      PROVE  Ledgers'
  <2>1. Ledger(r)'
    BY <1>2, LedgerStep DEF Ledgers, Shapes
  <2>2. ASSUME NEW q \in Requests \ {r} PROVE Ledger(q)'
    BY <1>2, <2>2, OnlyOne, StillLedger DEF OthersStill, Ledgers
  <2>3. QED BY <2>1, <2>2 DEF Ledgers
<1>3. QED BY <1>1, <1>2, StepCases

LEMMA InitLedgers == ASSUME Init PROVE Ledgers
<1>1. ASSUME NEW r \in Requests PROVE Ledger(r)
  <2>1. /\ pc[r] = "received" /\ real[r] = << >> /\ virtual[r] = << >>
        /\ total[r] = << >> /\ reqLog[r] = << >>
    BY DEF Init
  <2>2. QED BY <2>1 DEF Ledger, Late, Writing, Over, OneBasis
<1>2. QED BY <1>1 DEF Ledgers

\* Whatever the requests do, whichever statement fails and whenever a client
\* leaves: a row of the virtual, the total or the log table that a request
\* has written sums exactly its real rows, at one hour and at the prices
\* written there.
THEOREM OneBasisForAll == Spec => []SameBasis
<1>1. Init => Ledgers
  BY InitLedgers
<1>2. TypeOK /\ Shapes /\ Ledgers /\ [Next]_vars => Ledgers'
  BY LedgersInductive
<1>3. Ledgers => SameBasis
  BY DEF Ledgers, Ledger, SameBasis
<1>4. QED BY <1>1, <1>2, <1>3, TypeAndShape, PTL DEF Spec

-----------------------------------------------------------------------------
(* Calls and the entries that describe them *)

LEMMA SeqFacts ==
    ASSUME NEW S, NEW s \in Seq(S)
    PROVE  DOMAIN s = 1 .. Len(s) /\ Len(s) \in Nat
OBVIOUS

\* An entry of a call is added behind those of earlier ones.
LEMMA AppendEntry ==
    ASSUME NEW calls \in Seq(Attempt), NEW S, NEW s \in Seq(S), NEW u \in S,
           Matches(s, calls), Rising(s),
           u.k \in DOMAIN calls, u.status = calls[u.k].result,
           \A i \in DOMAIN s : s[i].k < u.k
    PROVE  /\ Matches(Append(s, u), calls)
           /\ Rising(Append(s, u))
           /\ \A k \in Nat : Has(Append(s, u), k) <=> Has(s, k) \/ k = u.k
<1> DEFINE t == Append(s, u)
<1>1. /\ DOMAIN t = 1 .. Len(s) + 1 /\ DOMAIN s = 1 .. Len(s) /\ Len(s) \in Nat
      /\ DOMAIN calls = 1 .. Len(calls) /\ Len(calls) \in Nat
      /\ t[Len(s) + 1] = u
      /\ \A i \in DOMAIN s : t[i] = s[i]
  OBVIOUS
<1>2. \A i \in DOMAIN t : i \in DOMAIN s \/ i = Len(s) + 1
  BY <1>1
<1> HIDE DEF t
<1>3. Matches(t, calls)
  BY <1>1, <1>2 DEF Matches
<1>4. Rising(t)
  BY <1>1, <1>2 DEF Rising
<1>5. ASSUME NEW k \in Nat PROVE Has(t, k) <=> Has(s, k) \/ k = u.k
  BY <1>1, <1>2 DEF Has
<1>6. QED BY <1>3, <1>4, <1>5 DEF t

\* A call is added, and no entry.
LEMMA AppendCall ==
    ASSUME NEW calls \in Seq(Attempt), NEW a \in Attempt, NEW S, NEW s \in Seq(S),
           Matches(s, calls), NEW strategy, Covers(s, calls, Len(calls), strategy)
    PROVE  /\ Append(calls, a) \in Seq(Attempt)
           /\ Len(Append(calls, a)) = Len(calls) + 1
           /\ Append(calls, a)[Len(calls) + 1] = a
           /\ \A i \in DOMAIN s : s[i].k \in Nat /\ s[i].k < Len(calls) + 1
           /\ Matches(s, Append(calls, a))
           /\ Covers(s, Append(calls, a), Len(calls), strategy)
<1> DEFINE more == Append(calls, a)
<1>1. /\ more \in Seq(Attempt) /\ Len(more) = Len(calls) + 1
      /\ more[Len(calls) + 1] = a
      /\ DOMAIN more = 1 .. Len(calls) + 1 /\ DOMAIN calls = 1 .. Len(calls)
      /\ Len(calls) \in Nat /\ \A k \in DOMAIN calls : more[k] = calls[k]
  OBVIOUS
<1> HIDE DEF more
<1>2. \A i \in DOMAIN s : s[i].k \in Nat /\ s[i].k < Len(calls) + 1
  BY <1>1 DEF Matches
<1>3. Matches(s, more)
  BY <1>1 DEF Matches
<1>4. Covers(s, more, Len(calls), strategy)
  BY <1>1 DEF Covers
<1>5. QED BY <1>1, <1>2, <1>3, <1>4 DEF more

\* A call is added and its entry with it: what call_member does.
LEMMA AppendBoth ==
    ASSUME NEW calls \in Seq(Attempt), NEW a \in Attempt,
           NEW s \in Seq(Usage), NEW u \in Usage,
           Matches(s, calls), Rising(s), NEW strategy,
           Covers(s, calls, Len(calls), strategy),
           u.k = Len(calls) + 1, u.status = a.result
    PROVE  /\ Matches(Append(s, u), Append(calls, a))
           /\ Rising(Append(s, u))
           /\ Covers(Append(s, u), Append(calls, a), Len(Append(calls, a)), strategy)
<1> DEFINE more == Append(calls, a)
<1>1. /\ more \in Seq(Attempt) /\ Len(more) = Len(calls) + 1
      /\ more[Len(calls) + 1] = a
      /\ \A i \in DOMAIN s : s[i].k \in Nat /\ s[i].k < Len(calls) + 1
      /\ Matches(s, more) /\ Covers(s, more, Len(calls), strategy)
  BY AppendCall
<1>2. Len(calls) \in Nat
  OBVIOUS
<1> HIDE DEF more
<1>3. u.k \in DOMAIN more /\ u.status = more[u.k].result
  BY <1>1, <1>2
<1>4. /\ Matches(Append(s, u), more) /\ Rising(Append(s, u))
      /\ \A k \in Nat : Has(Append(s, u), k) <=> Has(s, k) \/ k = u.k
  BY <1>1, <1>3, AppendEntry
<1>5. Covers(Append(s, u), more, Len(more), strategy)
  <2> SUFFICES ASSUME NEW k \in 1 .. Len(more)
               PROVE  Has(Append(s, u), k) \/ Excused(strategy, more[k])
    BY DEF Covers
  <2>1. CASE k = Len(calls) + 1 BY <1>4, <2>1
  <2>2. CASE k \in 1 .. Len(calls) BY <1>1, <1>4, <2>2 DEF Covers
  <2>3. QED BY <1>1, <1>2, <2>1, <2>2
<1>6. QED BY <1>4, <1>5 DEF more

\* The call of the stream, which is the last, joins the entries of the others.
LEMMA LastJoins ==
    ASSUME NEW calls \in Seq(Attempt), NEW s \in Seq(Usage), NEW u \in Usage,
           Matches(s, calls), Rising(s), NEW strategy, Len(calls) > 0,
           Covers(s, calls, Len(calls) - 1, strategy),
           \A i \in DOMAIN s : s[i].k < Len(calls),
           u.k = Len(calls), u.status = calls[Len(calls)].result
    PROVE  /\ Matches(s \o <<u>>, calls) /\ Rising(s \o <<u>>)
           /\ Covers(s \o <<u>>, calls, Len(calls), strategy)
<1>1. s \o <<u>> = Append(s, u)
  OBVIOUS
<1>2. u.k \in DOMAIN calls /\ Len(calls) \in Nat
  OBVIOUS
<1>3. /\ Matches(Append(s, u), calls) /\ Rising(Append(s, u))
      /\ \A k \in Nat : Has(Append(s, u), k) <=> Has(s, k) \/ k = u.k
  BY <1>2, AppendEntry
<1>4. Covers(Append(s, u), calls, Len(calls), strategy)
  BY <1>2, <1>3 DEF Covers
<1>5. QED BY <1>1, <1>3, <1>4

\* write_stats takes the first entry of todo over to the real rows.
LEMMA MoveHead ==
    ASSUME NEW calls \in Seq(Attempt), NEW todo0 \in Seq(Usage), todo0 # << >>,
           NEW done \in Seq(RealEntry), NEW e \in RealEntry,
           e.k = Head(todo0).k, e.status = Head(todo0).status,
           Matches(todo0, calls), Rising(todo0),
           Matches(done, calls), Rising(done), Below(done, todo0)
    PROVE  /\ Matches(Tail(todo0), calls) /\ Rising(Tail(todo0))
           /\ Matches(Append(done, e), calls) /\ Rising(Append(done, e))
           /\ Below(Append(done, e), Tail(todo0))
           /\ \A k \in Nat : Has(done, k) \/ Has(todo0, k) =>
                 Has(Append(done, e), k) \/ Has(Tail(todo0), k)
<1> DEFINE rest == Tail(todo0)
           more == Append(done, e)
<1>1. /\ DOMAIN rest = 1 .. Len(todo0) - 1 /\ DOMAIN todo0 = 1 .. Len(todo0)
      /\ Len(todo0) \in Nat \ {0} /\ Head(todo0) = todo0[1]
      /\ \A i \in DOMAIN rest : rest[i] = todo0[i + 1]
  OBVIOUS
<1>2. /\ DOMAIN more = 1 .. Len(done) + 1 /\ DOMAIN done = 1 .. Len(done)
      /\ Len(done) \in Nat /\ more[Len(done) + 1] = e
      /\ \A i \in DOMAIN done : more[i] = done[i]
  OBVIOUS
<1>3. 1 \in DOMAIN todo0 /\ \A i \in DOMAIN rest : i + 1 \in DOMAIN todo0 /\ i + 1 > 1
  BY <1>1
<1>4. e.k \in DOMAIN calls /\ e.status = calls[e.k].result
  BY <1>1, <1>3 DEF Matches
<1>5. \A i \in DOMAIN done : done[i].k < e.k
  BY <1>1, <1>3 DEF Below
<1>6. /\ Matches(more, calls) /\ Rising(more)
      /\ \A k \in Nat : Has(more, k) <=> Has(done, k) \/ k = e.k
  BY <1>4, <1>5, AppendEntry
<1> HIDE DEF rest, more
<1>7. Matches(rest, calls)
  BY <1>1, <1>3 DEF Matches
<1>8. Rising(rest)
  <2> SUFFICES ASSUME NEW i \in DOMAIN rest, NEW j \in DOMAIN rest, i < j
               PROVE  rest[i].k < rest[j].k
    BY DEF Rising
  <2>1. i + 1 < j + 1
    BY <1>1
  <2>2. QED BY <1>1, <1>3, <2>1 DEF Rising
<1>9. Below(more, rest)
  <2> SUFFICES ASSUME NEW i \in DOMAIN more, NEW j \in DOMAIN rest
               PROVE  more[i].k < rest[j].k
    BY DEF Below
  <2>1. e.k < todo0[j + 1].k
    BY <1>1, <1>3 DEF Rising
  <2>2. CASE i \in DOMAIN done
    BY <1>1, <1>2, <1>3, <2>2 DEF Below
  <2>3. CASE i = Len(done) + 1
    BY <1>1, <1>2, <2>1, <2>3
  <2>4. QED BY <1>2, <2>2, <2>3
<1>10. ASSUME NEW k \in Nat, Has(done, k) \/ Has(todo0, k)
       PROVE  Has(more, k) \/ Has(rest, k)
  <2>1. CASE Has(done, k) BY <1>6, <2>1
  <2>2. CASE Has(todo0, k)
    <3>1. PICK i \in DOMAIN todo0 : todo0[i].k = k
      BY <2>2 DEF Has
    <3>2. CASE i = 1 BY <1>1, <1>6, <3>1, <3>2
    <3>3. CASE i # 1
      <4>1. i - 1 \in DOMAIN rest /\ rest[i - 1] = todo0[i]
        BY <1>1, <3>3
      <4>2. QED BY <3>1, <4>1 DEF Has
    <3>4. QED BY <3>2, <3>3
  <2>3. QED BY <1>10, <2>1, <2>2
<1>11. QED BY <1>6, <1>7, <1>8, <1>9, <1>10 DEF rest, more

-----------------------------------------------------------------------------
(* Billing, while the strategy is at work *)

Mid == {"connect", "call", "panel", "judge", "main", "tools", "tool", "full", "failed"}

\* Neither the calls of r nor the places their entries are in change.
Keeps(r) ==
    /\ attempts'[r] = attempts[r] /\ recorder'[r] = recorder[r]
    /\ tail'[r] = tail[r] /\ todo'[r] = todo[r] /\ real'[r] = real[r]

LEMMA EarlyBilling ==
    ASSUME NEW r \in Requests, Billing(r), Keeps(r),
           pc[r] \in Fresh, pc'[r] \in Fresh \cup Mid \cup {"done"},
           pc'[r] = "connect" => cfg'[r].strategy \in SingleStrategies
    PROVE  Billing(r)'
<1>1. attempts[r] = << >> /\ tail[r] = << >>
  BY DEF Billing, Fresh, Late, Writing, Over
<1>2. \A s, strategy : Covers(s, attempts'[r], Len(attempts'[r]), strategy)
  BY <1>1 DEF Covers, Keeps
<1>3. /\ Matches(recorder[r], attempts[r]) /\ Rising(recorder[r])
      /\ Matches(real[r], attempts[r]) /\ Rising(real[r])
  BY DEF Billing, Fresh, Late, Writing, Over
<1>4. QED BY <1>1, <1>2, <1>3 DEF Billing, Keeps, Fresh, Mid, Late, Writing, Over

LEMMA MidBilling ==
    ASSUME NEW r \in Requests, Billing(r), Keeps(r), cfg'[r] = cfg[r],
           pc[r] \in Mid, pc'[r] \in Mid, pc'[r] # "connect"
    PROVE  Billing(r)'
<1>1. /\ tail[r] = << >>
      /\ Covers(recorder[r], attempts[r], Len(attempts[r]), cfg[r].strategy)
      /\ Matches(recorder[r], attempts[r]) /\ Rising(recorder[r])
      /\ Matches(real[r], attempts[r]) /\ Rising(real[r])
  BY DEF Billing, Mid, Late, Writing, Over
<1>2. /\ pc'[r] \notin Fresh /\ pc'[r] \notin Late /\ pc'[r] # "forward"
      /\ pc'[r] # "real" /\ pc'[r] \notin {"total", "log", "reply", "done"}
  BY DEF Mid, Fresh, Late, Writing, Over
<1>3. QED BY <1>1, <1>2 DEF Billing, Keeps

\* A call that records itself, wherever the strategy goes from there.
LEMMA CallBilling ==
    ASSUME TypeOK, NEW r \in Requests, Billing(r), Ledger(r),
           NEW a \in Attempt, NEW u \in Usage,
           u.k = Len(attempts[r]) + 1, u.status = a.result,
           attempts'[r] = Append(attempts[r], a), recorder'[r] = Append(recorder[r], u),
           tail'[r] = tail[r], real'[r] = real[r], cfg'[r] = cfg[r],
           pc[r] \in Mid, pc'[r] \in Mid, pc'[r] = "connect" => pc[r] = "connect"
    PROVE  Billing(r)'
<1>1. /\ tail[r] = << >>
      /\ Covers(recorder[r], attempts[r], Len(attempts[r]), cfg[r].strategy)
      /\ Matches(recorder[r], attempts[r]) /\ Rising(recorder[r])
      /\ pc[r] = "connect" => cfg[r].strategy \in SingleStrategies
  BY DEF Billing, Mid, Late, Writing, Over
<1>2. real[r] = << >>
  BY DEF Ledger, Mid, Late, Writing, Over
<1>3. /\ attempts[r] \in Seq(Attempt) /\ recorder[r] \in Seq(Usage)
  BY DEF TypeOK
<1>4. /\ Matches(recorder'[r], attempts'[r]) /\ Rising(recorder'[r])
      /\ Covers(recorder'[r], attempts'[r], Len(attempts'[r]), cfg[r].strategy)
  BY <1>1, <1>3, AppendBoth
<1>5. Matches(real'[r], attempts'[r]) /\ Rising(real'[r])
  BY <1>2 DEF Matches, Rising
<1>6. /\ pc'[r] \notin Fresh /\ pc'[r] \notin Late /\ pc'[r] # "forward"
      /\ pc'[r] # "real" /\ pc'[r] \notin {"total", "log", "reply", "done"}
  BY DEF Mid, Fresh, Late, Writing, Over
<1>7. QED BY <1>1, <1>4, <1>5, <1>6 DEF Billing

\* CallMember does just that.
LEMMA CallMemberBilling ==
    ASSUME TypeOK, NEW r \in Requests, Billing(r), Ledger(r),
           NEW m \in Models, NEW role \in Roles, NEW via \in {"complete", "stream"},
           NEW status \in Statuses, Answered(r, m, role, via, status),
           Record(r, UsageOf(Len(attempts[r]) + 1, m, status)),
           tail' = tail, real' = real, cfg' = cfg,
           pc[r] \in Mid, pc'[r] \in Mid, pc'[r] = "connect" => pc[r] = "connect"
    PROVE  Billing(r)'
<1> DEFINE a == [model |-> m, role |-> role, via |-> via, result |-> status]
           u == UsageOf(Len(attempts[r]) + 1, m, status)
<1>1. a \in Attempt
  BY DEF Attempt
<1>2. Len(attempts[r]) + 1 \in Nat
  <2>1. attempts[r] \in Seq(Attempt)
    BY DEF TypeOK
  <2>2. QED BY <2>1
<1>3. u \in Usage
  BY <1>2, UsageType
<1>4. u.k = Len(attempts[r]) + 1 /\ u.status = a.result
  BY DEF UsageOf
<1>5. attempts'[r] = Append(attempts[r], a) /\ recorder'[r] = Append(recorder[r], u)
  BY Domains DEF Answered, Record
<1> HIDE DEF a, u
<1>6. QED BY <1>1, <1>3, <1>4, <1>5, CallBilling

LEMMA HandlerBilling ==
    ASSUME TypeOK, NEW r \in Requests, Billing(r),
           \/ Reject(r) \/ Accept(r) \/ ReadStrategyName(r) \/ LoadVModel(r)
           \/ LoadMembers(r) \/ DispatchFails(r) \/ Begin(r)
    PROVE  Billing(r)'
<1>1. /\ Keeps(r) /\ pc[r] \in Fresh /\ pc'[r] \in Fresh \cup Mid \cup {"done"}
      /\ pc'[r] = "connect" => cfg'[r].strategy \in SingleStrategies
  <2> USE Domains DEF Keeps, Goto, Fresh, Mid, SingleStrategies
  <2>1. CASE Reject(r) BY <2>1 DEF Reject
  <2>2. CASE Accept(r) BY <2>2 DEF Accept
  <2>3. CASE ReadStrategyName(r) BY <2>3 DEF ReadStrategyName
  <2>4. CASE LoadVModel(r) BY <2>4 DEF LoadVModel
  <2>5. CASE LoadMembers(r) BY <2>5 DEF LoadMembers
  <2>6. CASE DispatchFails(r) BY <2>6 DEF DispatchFails
  <2>7. CASE BeginFailover(r) BY <2>7 DEF BeginFailover, FirstCall
  <2>8. CASE BeginPick(r) BY <2>8 DEF BeginPick, FirstCall
  <2>9. CASE BeginPanel(r) BY <2>9 DEF BeginPanel
  <2>10. CASE BeginMultimodal(r) BY <2>10 DEF BeginMultimodal
  <2>11. QED
    BY <2>1, <2>2, <2>3, <2>4, <2>5, <2>6, <2>7, <2>8, <2>9, <2>10 DEF Begin
<1>2. QED BY <1>1, EarlyBilling

LEMMA ReplyBilling ==
    ASSUME TypeOK, NEW r \in Requests, Shape(r), Billing(r), Ledger(r), UpstreamReply(r)
    PROVE  Billing(r)'
<1>0. /\ \A i \in DOMAIN Members(r) : Members(r)[i] \in Models
      /\ DOMAIN pc = Requests
  BY MembersType, Domains
<1> DEFINE Calls(m, role, via, status) ==
               /\ Answered(r, m, role, via, status)
               /\ Record(r, UsageOf(Len(attempts[r]) + 1, m, status))
               /\ tail' = tail /\ real' = real /\ cfg' = cfg
               /\ pc[r] \in Mid /\ pc'[r] \in Mid
               /\ pc'[r] = "connect" => pc[r] = "connect"
<1>a. ASSUME NEW m \in Models, NEW role \in Roles, NEW via \in {"complete", "stream"},
             NEW status \in Statuses, Calls(m, role, via, status)
      PROVE  Billing(r)'
  BY <1>a, CallMemberBilling
<1>1. CASE StreamConnects(r)
  <2> DEFINE a == [model |-> Member(r), role |-> "member", via |-> "stream",
                   result |-> "open"]
  <2>1. /\ pc[r] = "connect" /\ pc'[r] = "forward"
        /\ attempts'[r] = Append(attempts[r], a) /\ stream'[r] = Connected
        /\ recorder'[r] = recorder[r] /\ tail'[r] = tail[r] /\ real'[r] = real[r]
        /\ cfg'[r] = cfg[r]
    BY <1>1, Domains DEF StreamConnects, Goto, Answered
  <2>2. a \in Attempt /\ a.result = "open"
    <3>1. Member(r) \in Models
      BY <1>0, <2>1 DEF Member, Shape
    <3>2. QED BY <3>1 DEF Attempt, Roles
  <2>3. attempts[r] \in Seq(Attempt) /\ recorder[r] \in Seq(Usage)
    BY DEF TypeOK
  <2>4. /\ tail[r] = << >> /\ real[r] = << >>
        /\ Covers(recorder[r], attempts[r], Len(attempts[r]), cfg[r].strategy)
        /\ Matches(recorder[r], attempts[r]) /\ Rising(recorder[r])
    BY <2>1 DEF Billing, Ledger, Late, Writing, Over
  <2> HIDE DEF a
  <2>5. /\ Len(attempts'[r]) = Len(attempts[r]) + 1 /\ Len(attempts[r]) \in Nat
        /\ attempts'[r][Len(attempts[r]) + 1] = a
        /\ \A i \in DOMAIN recorder[r] : recorder[r][i].k < Len(attempts[r]) + 1
        /\ Matches(recorder[r], attempts'[r])
        /\ Covers(recorder[r], attempts'[r], Len(attempts[r]), cfg[r].strategy)
    BY <2>1, <2>2, <2>3, <2>4, AppendCall
  <2>6. /\ stream'[r].rx /\ stream'[r].open
        /\ \A i \in DOMAIN stream'[r].queue : stream'[r].queue[i] \notin Terminal
    BY <2>1 DEF Connected, Terminal
  <2>7. Streaming(r)'
    BY <2>1, <2>2, <2>4, <2>5, <2>6 DEF Streaming
  <2>8. Matches(real'[r], attempts'[r]) /\ Rising(real'[r])
    BY <2>1, <2>4 DEF Matches, Rising
  <2>9. QED
    BY <2>1, <2>4, <2>5, <2>7, <2>8 DEF Billing, Fresh, Late, Writing, Over
<1>2. CASE FailoverConnectFails(r)
  <2>1. Calls(Member(r), "member", "stream", "failed")
    BY <1>0, <1>2 DEF FailoverConnectFails, TryNext, Goto, Mid
  <2>2. Member(r) \in Models
    BY <1>0, <2>1, <1>2 DEF FailoverConnectFails, TryNext, Goto, Member, Shape
  <2>3. QED BY <2>1, <2>2, <1>a DEF Roles, Statuses
<1>3. CASE PickConnectFails(r)
  <2> DEFINE a == [model |-> Member(r), role |-> "member", via |-> "stream",
                   result |-> "failed"]
  <2>1. /\ pc[r] = "connect" /\ pc'[r] = "failed" /\ cfg[r].strategy # "failover"
        /\ attempts'[r] = Append(attempts[r], a)
        /\ recorder'[r] = recorder[r] /\ tail'[r] = tail[r] /\ real'[r] = real[r]
        /\ cfg'[r] = cfg[r]
    BY <1>3, Domains DEF PickConnectFails, Goto, Answered
  <2>2. a \in Attempt /\ a.result = "failed" /\ a.via = "stream"
    <3>1. Member(r) \in Models
      BY <1>0, <2>1 DEF Member, Shape
    <3>2. QED BY <3>1 DEF Attempt, Roles, Statuses
  <2>3. attempts[r] \in Seq(Attempt) /\ recorder[r] \in Seq(Usage)
    BY DEF TypeOK
  <2>4. /\ tail[r] = << >> /\ real[r] = << >> /\ cfg[r].strategy \in SingleStrategies
        /\ Covers(recorder[r], attempts[r], Len(attempts[r]), cfg[r].strategy)
        /\ Matches(recorder[r], attempts[r]) /\ Rising(recorder[r])
    BY <2>1 DEF Billing, Ledger, Late, Writing, Over
  <2> HIDE DEF a
  <2>5. /\ Len(attempts'[r]) = Len(attempts[r]) + 1 /\ Len(attempts[r]) \in Nat
        /\ attempts'[r][Len(attempts[r]) + 1] = a
        /\ Matches(recorder[r], attempts'[r])
        /\ Covers(recorder[r], attempts'[r], Len(attempts[r]), cfg[r].strategy)
    BY <2>1, <2>2, <2>3, <2>4, AppendCall
  <2>6. Excused(cfg[r].strategy, a)
    BY <2>1, <2>2, <2>4 DEF Excused, SingleStrategies
  <2>7. Covers(recorder[r], attempts'[r], Len(attempts'[r]), cfg[r].strategy)
    BY <2>5, <2>6 DEF Covers
  <2>8. Matches(real'[r], attempts'[r]) /\ Rising(real'[r])
    BY <2>1, <2>4 DEF Matches, Rising
  <2>9. QED
    BY <2>1, <2>4, <2>5, <2>7, <2>8 DEF Billing, Fresh, Late, Writing, Over
<1>4. ASSUME NEW status \in Statuses, FailoverCallReplies(r, status)
      PROVE  Billing(r)'
  <2>1. Calls(Member(r), "member", "complete", status) /\ pc[r] = "call"
    BY <1>0, <1>4 DEF FailoverCallReplies, TryNext, Goto, Mid, CallMember
  <2>2. Member(r) \in Models
    BY <1>0, <2>1 DEF Member, Shape
  <2>3. QED BY <2>1, <2>2, <1>a DEF Roles
<1>5. ASSUME NEW status \in Statuses, PickCallReplies(r, status)
      PROVE  Billing(r)'
  <2>1. Calls(Member(r), "member", "complete", status) /\ pc[r] = "call"
    BY <1>0, <1>5 DEF PickCallReplies, Outcome, Goto, Mid, CallMember
  <2>2. Member(r) \in Models
    BY <1>0, <2>1 DEF Member, Shape
  <2>3. QED BY <2>1, <2>2, <1>a DEF Roles
<1>6. ASSUME NEW i \in DOMAIN Members(r), NEW reply, MemberReplies(r, i, reply)
      PROVE  Billing(r)'
  <2>1. PICK status \in Statuses : Calls(Members(r)[i], "member", "complete", status)
    BY <1>6 DEF MemberReplies, Mid, CallMember, Statuses
  <2>2. QED BY <1>0, <2>1, <1>a DEF Roles
<1>7. ASSUME NEW status \in Statuses, JudgeReplies(r, status)
      PROVE  Billing(r)'
  <2>1. Calls(cfg[r].judge, "judge", "complete", status) /\ pc[r] = "judge"
    BY <1>0, <1>7 DEF JudgeReplies, Outcome, Goto, Mid, CallMember
  <2>2. cfg[r].judge \in Models
    BY <2>1 DEF Shape
  <2>3. QED BY <2>1, <2>2, <1>a DEF Roles
<1>8. ASSUME NEW status \in Statuses, NEW n, MainReplies(r, status, n)
      PROVE  Billing(r)'
  <2>1. Calls(Members(r)[1], "member", "complete", status) /\ pc[r] = "main"
    BY <1>0, <1>8 DEF MainReplies, Goto, Mid, CallMember
  <2>2. Members(r)[1] \in Models
    BY <1>0, <2>1 DEF Shape
  <2>3. QED BY <2>1, <2>2, <1>a DEF Roles
<1>9. ASSUME NEW backend \in Models, NEW status \in Statuses,
             ToolReplies(r, backend, status)
      PROVE  Billing(r)'
  <2>1. Calls(backend, "tool", "complete", status)
    BY <1>0, <1>9 DEF ToolReplies, ToolHandled, Goto, Mid, CallMember
  <2>2. QED BY <2>1, <1>a DEF Roles
<1>10. QED
  BY <1>1, <1>2, <1>3, <1>4, <1>5, <1>6, <1>7, <1>8, <1>9
     DEF UpstreamReply, SingleReply, PanelReply, MultimodalReply

LEMMA BetweenBilling ==
    ASSUME TypeOK, NEW r \in Requests, Billing(r),
           PanelDecides(r) \/ UnroutedTool(r) \/ RoutedTool(r)
    PROVE  Billing(r)'
<1>1. /\ Keeps(r) /\ cfg'[r] = cfg[r]
      /\ pc[r] \in Mid /\ pc'[r] \in Mid /\ pc'[r] # "connect"
  BY Domains DEF PanelDecides, UnroutedTool, RoutedTool, ToolHandled, Goto, Keeps, Mid
<1>2. QED BY <1>1, MidBilling

\* Only the last call changes, and only in its result.
LEMMA EndLastFacts ==
    ASSUME NEW calls \in Seq(Attempt), Len(calls) > 0, NEW result \in Statuses
    PROVE  LET ended == EndLast(calls, result)
           IN  /\ ended \in Seq(Attempt) /\ Len(ended) = Len(calls)
               /\ DOMAIN ended = DOMAIN calls
               /\ ended[Len(calls)].result = result
               /\ \A k \in DOMAIN calls : k < Len(calls) => ended[k] = calls[k]
<1> DEFINE ended == EndLast(calls, result)
<1>1. ended \in Seq(Attempt)
  BY EndLastType
<1>2. /\ DOMAIN calls = 1 .. Len(calls) /\ Len(calls) \in DOMAIN calls
      /\ Len(calls) \in Nat
  OBVIOUS
<1>3. /\ DOMAIN ended = DOMAIN calls
      /\ ended[Len(calls)].result = result
      /\ \A k \in DOMAIN calls : k < Len(calls) => ended[k] = calls[k]
  BY <1>2 DEF EndLast
<1> HIDE DEF ended
<1>4. Len(ended) = Len(calls)
  BY <1>1, <1>2, <1>3
<1>5. QED BY <1>1, <1>3, <1>4 DEF ended

LEMMA SendBilling ==
    ASSUME TypeOK, NEW r \in Requests, Shape(r), Billing(r), Ledger(r),
           NEW kind \in EventKinds, StreamSends(r, kind)
    PROVE  Billing(r)'
<1> DEFINE q == stream[r].queue
           n == Len(attempts[r])
           result == IF kind = "done" THEN "ok" ELSE "failed"
<1>1. /\ stream[r].open /\ stream[r].rx /\ stream'[r] = Send(stream[r], kind)
      /\ pc'[r] = pc[r] /\ recorder'[r] = recorder[r] /\ tail'[r] = tail[r]
      /\ real'[r] = real[r] /\ cfg'[r] = cfg[r]
      /\ attempts'[r] = IF kind \in Terminal THEN EndLast(attempts[r], result)
                                             ELSE attempts[r]
  BY Domains DEF StreamSends, CanSend
<1>2. pc[r] = "forward"
  BY <1>1 DEF Shape
<1>3. /\ n > 0 /\ \A i \in DOMAIN recorder[r] : recorder[r][i].k < n
      /\ Covers(recorder[r], attempts[r], n - 1, cfg[r].strategy)
      /\ attempts[r][n].result = "open" /\ tail[r] = << >>
      /\ \A i \in DOMAIN q : q[i] \notin Terminal
      /\ Matches(recorder[r], attempts[r]) /\ Rising(recorder[r])
  BY <1>1, <1>2 DEF Billing, Streaming, Late, Writing, Over
<1>4. real[r] = << >>
  BY <1>2 DEF Ledger, Late, Writing, Over
<1>5. /\ attempts[r] \in Seq(Attempt) /\ recorder[r] \in Seq(Usage)
      /\ stream[r] \in Streams
  BY DEF TypeOK
<1>6. q \in Seq(EventKinds)
  BY <1>5 DEF Streams
<1> HIDE DEF q
<1>7. /\ Append(q, kind) # << >> /\ Len(Append(q, kind)) = Len(q) + 1
      /\ Append(q, kind)[Len(q) + 1] = kind /\ Len(q) \in Nat
      /\ \A i \in DOMAIN Append(q, kind) : i \in DOMAIN q \/ i = Len(q) + 1
      /\ \A i \in DOMAIN q : i < Len(q) + 1 /\ Append(q, kind)[i] = q[i]
  BY <1>6
<1>8. /\ stream'[r].queue = Append(q, kind) /\ stream'[r].rx
      /\ stream'[r].open = (kind \notin Terminal)
  <2>1. Send(stream[r], kind) =
            [queue |-> Append(q, kind), open |-> kind \notin Terminal, rx |-> stream[r].rx]
    BY DEF Send, q
  <2> DEFINE opened == kind \notin Terminal
  <2> HIDE DEF opened
  <2>2. stream'[r] = [queue |-> Append(q, kind), open |-> opened, rx |-> stream[r].rx]
    BY <1>1, <2>1 DEF opened
  <2>3. /\ stream'[r].queue = Append(q, kind) /\ stream'[r].rx = stream[r].rx
        /\ stream'[r].open = opened
    BY <2>2
  <2>4. QED BY <1>1, <2>3 DEF opened
<1>9. Matches(real'[r], attempts'[r]) /\ Rising(real'[r])
  BY <1>1, <1>4 DEF Matches, Rising
<1>10. CASE kind \notin Terminal
  <2>1. attempts'[r] = attempts[r]
    BY <1>1, <1>10
  <2>2. stream'[r].open /\ \A i \in DOMAIN stream'[r].queue : stream'[r].queue[i] \notin Terminal
    BY <1>3, <1>7, <1>8, <1>10
  <2>3. Streaming(r)'
    BY <1>1, <1>3, <1>8, <2>1, <2>2 DEF Streaming
  <2>4. QED
    BY <1>1, <1>2, <1>3, <1>9, <2>1, <2>3 DEF Billing, Fresh, Late, Writing, Over
<1>11. CASE kind \in Terminal
  <2>1. /\ Len(attempts'[r]) = n /\ DOMAIN attempts'[r] = DOMAIN attempts[r]
        /\ attempts'[r][n].result = result /\ n \in Nat
        /\ DOMAIN attempts[r] = 1 .. n
        /\ \A k \in DOMAIN attempts[r] : k < n => attempts'[r][k] = attempts[r][k]
    <3>1. result \in Statuses
      BY DEF Statuses
    <3>2. DOMAIN attempts[r] = 1 .. n /\ n \in Nat
      BY <1>5
    <3> HIDE DEF result
    <3>3. attempts'[r] = EndLast(attempts[r], result)
      BY <1>1, <1>11
    <3>4. QED BY <1>3, <1>5, <3>1, <3>2, <3>3, EndLastFacts
  <2>2. Matches(recorder[r], attempts'[r])
    BY <1>3, <2>1 DEF Matches
  <2>3. Covers(recorder[r], attempts'[r], n - 1, cfg[r].strategy)
    BY <1>3, <2>1 DEF Covers
  <2>4. kind = EventOf(result) /\ result \in Statuses
    BY <1>11 DEF EventOf, Terminal, Statuses
  <2>5. /\ ~stream'[r].open /\ stream'[r].queue # << >>
        /\ stream'[r].queue[Len(stream'[r].queue)] = EventOf(result)
        /\ \A i \in DOMAIN stream'[r].queue :
              i < Len(stream'[r].queue) => stream'[r].queue[i] \notin Terminal
    <3> DEFINE longer == Append(q, kind)
    <3>1. /\ longer # << >> /\ longer[Len(longer)] = kind
          /\ \A i \in DOMAIN longer : i < Len(longer) => longer[i] \notin Terminal
      <4> HIDE DEF longer
      <4>1. /\ longer # << >> /\ Len(longer) = Len(q) + 1 /\ longer[Len(q) + 1] = kind
            /\ \A i \in DOMAIN longer : i \in DOMAIN q \/ i = Len(q) + 1
            /\ Len(q) \in Nat /\ \A i \in DOMAIN q : longer[i] = q[i]
        BY <1>7 DEF longer
      <4>2. QED BY <1>3, <4>1
    <3> HIDE DEF longer
    <3>2. stream'[r].queue = longer /\ ~stream'[r].open
      BY <1>8, <1>11 DEF longer
    <3>3. QED BY <2>4, <3>1, <3>2
  <2> HIDE DEF n, result
  <2>6. Streaming(r)'
    BY <1>1, <1>3, <1>8, <2>1, <2>3, <2>4, <2>5 DEF Streaming
  <2>7. QED
    BY <1>1, <1>2, <1>3, <1>9, <2>2, <2>6 DEF Billing, Fresh, Late, Writing, Over
<1>12. QED BY <1>10, <1>11

LEMMA ForwardBilling ==
    ASSUME TypeOK, NEW r \in Requests, Billing(r), Ledger(r), Forward(r)
    PROVE  Billing(r)'
<1> DEFINE q == stream[r].queue
           n == Len(attempts[r])
           result == attempts[r][n].result
<1>1. /\ pc[r] = "forward" /\ pc'[r] = "forward" /\ stream[r].rx /\ q # << >>
      /\ stream'[r] = Recv(stream[r])
      /\ attempts'[r] = attempts[r] /\ recorder'[r] = recorder[r]
      /\ real'[r] = real[r] /\ cfg'[r] = cfg[r]
      /\ tail'[r] = CASE Head(q) = "done"  -> <<StreamCall(r, "ok")>>
                      [] Head(q) = "error" -> <<StreamCall(r, "failed")>>
                      [] OTHER             -> tail[r]
  BY Domains DEF Forward, CanRecv
<1>2. Streaming(r) /\ Matches(recorder[r], attempts[r]) /\ Rising(recorder[r])
  BY <1>1 DEF Billing, Late, Writing, Over
<1>3. /\ Matches(real'[r], attempts'[r]) /\ Rising(real'[r])
  BY <1>1 DEF Billing
<1>4. stream[r] \in Streams
  BY DEF TypeOK
<1>5. q \in Seq(EventKinds)
  BY <1>4 DEF Streams
<1>6. /\ stream'[r].queue = Tail(q) /\ stream'[r].open = stream[r].open /\ stream'[r].rx
  BY <1>1 DEF Recv
<1>7. \A status : StreamCall(r, status)' = StreamCall(r, status)
  BY <1>1 DEF StreamCall
<1>8. /\ n > 0 /\ \A i \in DOMAIN recorder[r] : recorder[r][i].k < n
      /\ Covers(recorder[r], attempts[r], n - 1, cfg[r].strategy)
      /\ stream[r].open => /\ result = "open" /\ tail[r] = << >>
                           /\ \A i \in DOMAIN q : q[i] \notin Terminal
      /\ ~stream[r].open =>
            /\ result \in Statuses /\ tail[r] = << >>
            /\ q[Len(q)] = EventOf(result)
            /\ \A i \in DOMAIN q : i < Len(q) => q[i] \notin Terminal
  BY <1>1, <1>2 DEF Streaming
<1> HIDE DEF q, n, result
<1>9. /\ 1 \in DOMAIN q /\ Head(q) = q[1] /\ Len(q) \in Nat \ {0}
      /\ DOMAIN Tail(q) = 1 .. Len(q) - 1 /\ DOMAIN q = 1 .. Len(q)
      /\ Len(Tail(q)) = Len(q) - 1
      /\ \A i \in 1 .. Len(q) - 1 : Tail(q)[i] = q[i + 1]
  BY <1>1, <1>5
<1>10. CASE stream[r].open
  <2>1. tail'[r] = << >>
    BY <1>1, <1>8, <1>9, <1>10 DEF Terminal
  <2>2. \A i \in DOMAIN Tail(q) : Tail(q)[i] \notin Terminal
    BY <1>8, <1>9, <1>10
  <2>3. Streaming(r)'
    BY <1>1, <1>6, <1>8, <1>10, <2>1, <2>2 DEF Streaming, n, result
  <2>4. QED
    BY <1>1, <1>2, <1>3, <2>3 DEF Billing, Fresh, Late, Writing, Over
<1>11. CASE ~stream[r].open /\ Len(q) = 1
  <2>1. Tail(q) = << >>
    BY <1>5, <1>9, <1>11
  <2>2. Head(q) = EventOf(result) /\ result \in {"ok", "failed"}
    BY <1>8, <1>9, <1>11 DEF Statuses
  <2>3. tail'[r] = <<StreamCall(r, result)>>
    BY <1>1, <2>2 DEF EventOf
  <2>4. Streaming(r)'
    BY <1>1, <1>6, <1>7, <1>8, <1>11, <2>1, <2>3 DEF Streaming, n, result
  <2>5. QED
    BY <1>1, <1>2, <1>3, <2>4 DEF Billing, Fresh, Late, Writing, Over
<1>12. CASE ~stream[r].open /\ Len(q) > 1
  <2>1. tail'[r] = << >>
    BY <1>1, <1>8, <1>9, <1>12 DEF Terminal
  <2>2. /\ Tail(q) # << >> /\ Tail(q)[Len(Tail(q))] = EventOf(result)
        /\ \A i \in DOMAIN Tail(q) : i < Len(Tail(q)) => Tail(q)[i] \notin Terminal
    <3>1. Len(Tail(q)) > 0 /\ Len(Tail(q)) + 1 = Len(q)
      BY <1>9, <1>12
    <3>2. Tail(q) # << >> /\ Tail(q)[Len(Tail(q))] = q[Len(q)]
      BY <1>9, <3>1
    <3>3. ASSUME NEW i \in DOMAIN Tail(q), i < Len(Tail(q))
          PROVE  Tail(q)[i] \notin Terminal
      <4>1. i + 1 \in DOMAIN q /\ i + 1 < Len(q) /\ Tail(q)[i] = q[i + 1]
        BY <1>9, <3>1, <3>3
      <4>2. QED BY <1>8, <1>12, <4>1
    <3>4. QED BY <1>8, <1>12, <3>2, <3>3
  <2>3. Streaming(r)'
    BY <1>1, <1>6, <1>8, <1>12, <2>1, <2>2 DEF Streaming, n, result
  <2>4. QED
    BY <1>1, <1>2, <1>3, <2>3 DEF Billing, Fresh, Late, Writing, Over
<1>13. QED BY <1>9, <1>10, <1>11, <1>12

-----------------------------------------------------------------------------
(* Billing, while the request is counted *)

\* What is drained from the recorder describes every call.
LEMMA EnterBilling ==
    ASSUME NEW r \in Requests, Billing(r), Ledger(r),
           NEW from, NEW all, EnterWriteStats(r, from, all),
           pc'[r] = "real", pc[r] \notin Late, todo'[r] = all,
           attempts'[r] = attempts[r], real'[r] = real[r], cfg'[r] = cfg[r],
           Matches(all, attempts[r]), Rising(all),
           Covers(all, attempts[r], Len(attempts[r]), cfg[r].strategy),
           DOMAIN attempts[r] = 1 .. Len(attempts[r])
    PROVE  Billing(r)'
<1>1. real[r] = << >>
  BY DEF Ledger
<1>2. Below(real[r], all)
  BY <1>1 DEF Below
<1>3. \A k \in DOMAIN attempts[r] : Has(all, k) \/ Excused(cfg[r].strategy, attempts[r][k])
  BY DEF Covers
<1>4. Matches(real[r], attempts[r]) /\ Rising(real[r])
  BY <1>1 DEF Matches, Rising
<1>5. QED BY <1>2, <1>3, <1>4 DEF Billing, Fresh, Late, Writing, Over

LEMMA FinalizeBilling ==
    ASSUME TypeOK, NEW r \in Requests, Billing(r), Ledger(r),
           FinalizeFull(r) \/ FinalizeError(r) \/ FinalizeStream(r)
    PROVE  Billing(r)'
<1>1. /\ attempts[r] \in Seq(Attempt) /\ recorder[r] \in Seq(Usage)
      /\ tail[r] \in Seq(Usage)
  BY DEF TypeOK
<1>2. DOMAIN attempts[r] = 1 .. Len(attempts[r])
  BY <1>1
<1>3. ASSUME NEW from \in {"full", "failed", "forward"}, NEW all,
             EnterWriteStats(r, from, all)
      PROVE  /\ pc'[r] = "real" /\ pc[r] = from /\ pc[r] \notin Late /\ todo'[r] = all
             /\ attempts'[r] = attempts[r] /\ real'[r] = real[r] /\ cfg'[r] = cfg[r]
  BY <1>3, Domains DEF EnterWriteStats, Goto, Late, Writing, Over
<1>4. CASE FinalizeFull(r) \/ FinalizeError(r)
  <2>1. PICK from \in {"full", "failed"} : EnterWriteStats(r, from, recorder[r])
    BY <1>4 DEF FinalizeFull, FinalizeError
  <2>2. pc[r] = from /\ pc[r] \notin Late
    BY <1>3, <2>1
  <2>3. /\ Covers(recorder[r], attempts[r], Len(attempts[r]), cfg[r].strategy)
        /\ Matches(recorder[r], attempts[r]) /\ Rising(recorder[r])
    BY <2>2 DEF Billing
  <2>4. QED BY <1>2, <1>3, <2>1, <2>3, EnterBilling
<1>5. CASE FinalizeStream(r)
  <2> DEFINE n == Len(attempts[r])
             result == attempts[r][n].result
             u == StreamCall(r, result)
  <2>1. /\ EnterWriteStats(r, "forward", recorder[r] \o tail[r])
        /\ stream[r].queue = << >> /\ ~stream[r].open
    BY <1>5 DEF FinalizeStream, Exhausted
  <2>2. pc[r] = "forward" /\ pc[r] \notin Late
    BY <1>3, <2>1
  <2>3. Streaming(r) /\ Matches(recorder[r], attempts[r]) /\ Rising(recorder[r])
    BY <2>2 DEF Billing
  <2>4. /\ n > 0 /\ \A i \in DOMAIN recorder[r] : recorder[r][i].k < n
        /\ Covers(recorder[r], attempts[r], n - 1, cfg[r].strategy)
        /\ result \in Statuses /\ tail[r] = <<u>>
    BY <2>1, <2>3 DEF Streaming
  <2>5. u \in Usage
    <3>1. attempts[r] # << >>
      BY <1>1, <2>4
    <3>2. QED BY <2>4, <3>1, StreamCallType DEF TypeOK
  <2>6. u.k = n /\ u.status = result
    BY DEF StreamCall
  <2> HIDE DEF u
  <2>7. /\ Matches(recorder[r] \o <<u>>, attempts[r]) /\ Rising(recorder[r] \o <<u>>)
        /\ Covers(recorder[r] \o <<u>>, attempts[r], n, cfg[r].strategy)
    BY <1>1, <2>3, <2>4, <2>5, <2>6, LastJoins
  <2>8. QED BY <1>2, <1>3, <2>1, <2>4, <2>7, EnterBilling
<1>6. QED BY <1>4, <1>5

LEMMA WriteRealBilling ==
    ASSUME TypeOK, NEW r \in Requests, Billing(r), WriteReal(r)
    PROVE  Billing(r)'
<1> DEFINE c == Head(todo[r])
           entry == [k |-> c.k, name |-> c.name, status |-> c.status,
                     hour |-> stamp[r], cost |-> CostFor(c.name)]
<1>1. /\ pc[r] = "real" /\ pc'[r] = "real" /\ todo[r] # << >>
      /\ real'[r] = Append(real[r], entry) /\ todo'[r] = Tail(todo[r])
      /\ attempts'[r] = attempts[r] /\ cfg'[r] = cfg[r]
  BY Domains DEF WriteReal
<1>2. entry \in RealEntry
  BY <1>1, EntryType
<1>3. entry.k = c.k /\ entry.status = c.status
  OBVIOUS
<1> HIDE DEF entry
<1>4. /\ attempts[r] \in Seq(Attempt) /\ todo[r] \in Seq(Usage)
      /\ real[r] \in Seq(RealEntry)
  BY DEF TypeOK
<1>5. /\ Matches(todo[r], attempts[r]) /\ Rising(todo[r]) /\ Below(real[r], todo[r])
      /\ \A k \in DOMAIN attempts[r] :
            Has(real[r], k) \/ Has(todo[r], k) \/ Excused(cfg[r].strategy, attempts[r][k])
      /\ Matches(real[r], attempts[r]) /\ Rising(real[r])
  BY <1>1 DEF Billing
<1>6. /\ Matches(todo'[r], attempts[r]) /\ Rising(todo'[r])
      /\ Matches(real'[r], attempts[r]) /\ Rising(real'[r])
      /\ Below(real'[r], todo'[r])
      /\ \A k \in Nat : Has(real[r], k) \/ Has(todo[r], k) =>
            Has(real'[r], k) \/ Has(todo'[r], k)
  BY <1>1, <1>2, <1>3, <1>4, <1>5, MoveHead
<1>7. DOMAIN attempts[r] \subseteq Nat
  BY <1>4
<1>8. \A k \in DOMAIN attempts[r] :
         Has(real'[r], k) \/ Has(todo'[r], k) \/ Excused(cfg[r].strategy, attempts[r][k])
  BY <1>5, <1>6, <1>7
<1>9. QED BY <1>1, <1>6, <1>8 DEF Billing, Fresh, Late, Writing, Over

\* From the last real row on, nothing is added to them.
LEMMA EndBilling ==
    ASSUME TypeOK, NEW r \in Requests, Billing(r),
           \/ WriteVirtual(r) \/ WriteTotal(r) \/ WriteLog(r) \/ WriteFails(r)
           \/ Reply(r) \/ Disconnect(r)
    PROVE  Billing(r)'
<1>1. /\ real'[r] = real[r] /\ attempts'[r] = attempts[r] /\ cfg'[r] = cfg[r]
  BY Domains DEF WriteVirtual, WriteTotal, WriteLog, WriteFails, Reply, Disconnect
<1>2. /\ Matches(real'[r], attempts'[r]) /\ Rising(real'[r])
  BY <1>1 DEF Billing
<1>3. CASE Disconnect(r)
  <2>1. pc'[r] = "gone"
    BY <1>3, Domains DEF Disconnect
  <2>2. QED BY <1>2, <2>1 DEF Billing, Fresh, Late, Writing, Over
<1>4. CASE WriteFails(r)
  <2>1. pc'[r] = "reply" /\ aborted'[r]
    BY <1>4, Domains DEF WriteFails, Goto
  <2>2. QED BY <1>2, <2>1 DEF Billing, Fresh, Late, Writing, Over
<1>5. CASE WriteVirtual(r)
  <2>1. pc[r] = "real" /\ pc'[r] = "total" /\ todo[r] = << >>
    BY <1>5, Domains DEF WriteVirtual, Goto
  <2>2. attempts[r] \in Seq(Attempt)
    BY DEF TypeOK
  <2>3. Covers(real[r], attempts[r], Len(attempts[r]), cfg[r].strategy)
    BY <2>1, <2>2 DEF Billing, Covers, Has
  <2>4. QED BY <1>1, <1>2, <2>1, <2>3 DEF Billing, Fresh, Late, Writing, Over
<1>6. CASE WriteTotal(r) \/ WriteLog(r) \/ Reply(r)
  <2>1. /\ pc'[r] \in {"log", "reply", "done"} /\ aborted'[r] = aborted[r]
        /\ pc[r] \in {"total", "log"} \/ (pc[r] = "reply" /\ pc'[r] = "done")
    BY <1>6, Domains DEF WriteTotal, WriteLog, Reply, Goto
  <2>2. CASE pc[r] = "reply" /\ aborted[r]
    BY <1>2, <2>1, <2>2 DEF Billing, Fresh, Late, Writing, Over
  <2>3. CASE ~(pc[r] = "reply" /\ aborted[r])
    <3>1. Covers(real[r], attempts[r], Len(attempts[r]), cfg[r].strategy)
      BY <2>1, <2>3 DEF Billing
    <3>2. QED BY <1>1, <1>2, <2>1, <3>1 DEF Billing, Fresh, Late, Writing, Over
  <2>4. QED BY <2>2, <2>3
<1>7. QED BY <1>3, <1>4, <1>5, <1>6

LEMMA StillBilling ==
    ASSUME NEW q \in Requests, Still(q), Billing(q)
    PROVE  Billing(q)'
<1>1. StreamCall(q, attempts[q][Len(attempts[q])].result)'
        = StreamCall(q, attempts[q][Len(attempts[q])].result)
  BY DEF Still, StreamCall
<1>2. Streaming(q) => Streaming(q)'
  BY <1>1 DEF Still, Streaming
<1>3. QED BY <1>2 DEF Still, Billing

LEMMA BillingStep ==
    ASSUME TypeOK, NEW r \in Requests, Shape(r), Ledger(r), Billing(r), StepOf(r)
    PROVE  Billing(r)'
BY HandlerBilling, ReplyBilling, BetweenBilling, SendBilling, ForwardBilling,
   FinalizeBilling, WriteRealBilling, EndBilling DEF StepOf, AccountingStep

LEMMA BillingsInductive ==
    ASSUME TypeOK, Shapes, Ledgers, Billings, [Next]_vars
    PROVE  Billings'
<1>1. CASE EditVModel \/ EditPrice \/ Tick \/ UNCHANGED vars
  BY <1>1, EnvironmentStill, StillBilling DEF Billings
<1>2. ASSUME NEW r \in Requests, StepOf(r)
      PROVE  Billings'
  <2>1. Billing(r)'
    BY <1>2, BillingStep DEF Billings, Ledgers, Shapes
  <2>2. ASSUME NEW q \in Requests \ {r} PROVE Billing(q)'
    BY <1>2, <2>2, OnlyOne, StillBilling DEF OthersStill, Billings
  <2>3. QED BY <2>1, <2>2 DEF Billings
<1>3. QED BY <1>1, <1>2, StepCases

LEMMA InitBillings == ASSUME Init PROVE Billings
<1>1. ASSUME NEW r \in Requests PROVE Billing(r)
  <2>1. /\ pc[r] = "received" /\ attempts[r] = << >> /\ recorder[r] = << >>
        /\ tail[r] = << >> /\ real[r] = << >>
    BY DEF Init
  <2>2. QED
    BY <2>1 DEF Billing, Fresh, Late, Writing, Over, Matches, Rising, Covers
<1>2. QED BY <1>1 DEF Billings

LEMMA LedgerAndBilling == Spec => [](Ledgers /\ Billings)
<1>1. Init => Ledgers /\ Billings
  BY InitLedgers, InitBillings
<1>2. TypeOK /\ Shapes /\ Ledgers /\ Billings /\ [Next]_vars => (Ledgers /\ Billings)'
  BY LedgersInductive, BillingsInductive
<1>3. QED BY <1>1, <1>2, TypeAndShape, PTL DEF Spec

\* A call is in the real rows at most once, with the result it had, however
\* its entry came there: through the recorder or through the end of a stream.
THEOREM BilledOnceForAll == Spec => []BilledOnce
<1>1. TypeOK /\ Billings => BilledOnce
  <2> SUFFICES ASSUME TypeOK, Billings, NEW r \in Requests,
                      NEW i \in DOMAIN real[r], NEW j \in DOMAIN real[r]
               PROVE  /\ real[r][i].k = real[r][j].k => i = j
                      /\ real[r][i].k \in DOMAIN attempts[r]
                      /\ real[r][i].status = attempts[r][real[r][i].k].result
    BY DEF BilledOnce
  <2>1. Matches(real[r], attempts[r]) /\ Rising(real[r])
    BY DEF Billings, Billing
  <2>2. real[r] \in Seq(RealEntry) /\ attempts[r] \in Seq(Attempt)
    BY DEF TypeOK
  <2>3. i \in Nat /\ j \in Nat /\ real[r][i].k \in Nat /\ real[r][j].k \in Nat
    BY <2>1, <2>2 DEF Matches
  <2>4. QED BY <2>1, <2>3 DEF Matches, Rising
<1>2. QED BY <1>1, TypeCorrect, LedgerAndBilling, PTL

\* When a request is done, every upstream call it has made is in the real
\* rows, but for the failed connection of speed and cheapest.
THEOREM EveryCallBilledForAll == Spec => []EveryCallBilled
<1>1. TypeOK /\ Billings => EveryCallBilled
  <2> SUFFICES ASSUME TypeOK, Billings, NEW r \in Requests, pc[r] = "done", ~aborted[r],
                      NEW k \in DOMAIN attempts[r]
               PROVE  BilledCall(r, k) \/ Unrecorded(r, k)
    BY DEF EveryCallBilled
  <2>1. Covers(real[r], attempts[r], Len(attempts[r]), cfg[r].strategy)
    BY DEF Billings, Billing
  <2>2. attempts[r] \in Seq(Attempt)
    BY DEF TypeOK
  <2>3. QED
    BY <2>1, <2>2 DEF Covers, Has, BilledCall, Excused, Unrecorded
<1>2. QED BY <1>1, TypeCorrect, LedgerAndBilling, PTL
=============================================================================
