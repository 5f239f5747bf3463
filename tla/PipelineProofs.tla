-------------------------- MODULE PipelineProofs --------------------------
(***************************************************************************)
(* Type correctness of the request pipeline.  The types are not inductive  *)
(* alone: that a call is made to a model needs the index of the member to  *)
(* be in range, that tools stays natural needs it to be positive where it  *)
(* is decremented.  Shape says so, per place the request can be in.        *)
(***************************************************************************)
EXTENDS PipelineProperties, TLAPS

Shape(r) ==
    /\ pc[r] \in {"connect", "call"} => idx[r] \in DOMAIN Members(r)
    /\ pc[r] = "panel" => waiting[r] \subseteq DOMAIN Members(r)
    /\ pc[r] \in {"panel", "judge"} => cfg[r].judge \in Models
    /\ pc[r] \in {"main", "tools", "tool"} => 1 \in DOMAIN Members(r)
    /\ pc[r] \in {"tools", "tool"} => tools[r] > 0
    /\ pc[r] = "forward" => attempts[r] # << >>
    /\ stream[r].open /\ stream[r].rx => pc[r] = "forward"

Shapes == \A r \in Requests : Shape(r)

USE DEF vars, dispatchVars, strategyVars, callVars, streamVars, writeVars,
        ledgerVars, envVars

-----------------------------------------------------------------------------
(* Lemmas on the operators of RequestCore *)

\* What call_member and failover record is a usage.
LEMMA UsageType ==
    ASSUME NEW k \in Nat, NEW m \in Models, NEW status \in Statuses
    PROVE  UsageOf(k, m, status) \in Usage
BY CoreAssumption DEF UsageOf, Usage, Statuses

LEMMA AnsweredType ==
    ASSUME attempts \in [Requests -> Seq(Attempt)], NEW r \in Requests,
           NEW m \in Models, NEW role \in Roles, NEW via \in {"complete", "stream"},
           NEW result \in Statuses \cup {"open"}, Answered(r, m, role, via, result)
    PROVE  attempts' \in [Requests -> Seq(Attempt)]
<1>1. [model |-> m, role |-> role, via |-> via, result |-> result] \in Attempt
  BY DEF Attempt
<1>2. QED BY <1>1 DEF Answered

LEMMA RecordType ==
    ASSUME attempts \in [Requests -> Seq(Attempt)],
           recorder \in [Requests -> Seq(Usage)], NEW r \in Requests,
           NEW m \in Models, NEW status \in Statuses,
           Record(r, UsageOf(Len(attempts[r]) + 1, m, status))
    PROVE  recorder' \in [Requests -> Seq(Usage)]
<1>1. Len(attempts[r]) + 1 \in Nat OBVIOUS
<1>2. UsageOf(Len(attempts[r]) + 1, m, status) \in Usage BY <1>1, UsageType
<1>3. QED BY <1>2 DEF Record

LEMMA CallMemberType ==
    ASSUME attempts \in [Requests -> Seq(Attempt)],
           recorder \in [Requests -> Seq(Usage)], NEW r \in Requests,
           NEW m \in Models, NEW role \in Roles, NEW status \in Statuses,
           CallMember(r, m, role, status)
    PROVE  /\ attempts' \in [Requests -> Seq(Attempt)]
           /\ recorder' \in [Requests -> Seq(Usage)]
BY AnsweredType, RecordType DEF CallMember, Statuses

LEMMA GotoType ==
    ASSUME pc \in [Requests -> PCs], NEW r, NEW from, NEW to \in PCs, Goto(r, from, to)
    PROVE  pc' \in [Requests -> PCs]
BY DEF Goto

LEMMA MembersType ==
    ASSUME TypeOK, NEW r \in Requests
    PROVE  /\ cfg[r] \in ConfigSpace
           /\ Members(r) \in Seq(Models)
           /\ DOMAIN Members(r) = 1 .. Len(Members(r))
           /\ \A i \in DOMAIN Members(r) : Members(r)[i] \in Models
<1>1. cfg[r] \in ConfigSpace
  BY DEF TypeOK
<1>2. Members(r) \in Seq(Models)
  BY <1>1 DEF ConfigSpace, Members
<1>3. QED BY <1>1, <1>2

LEMMA WithMembersType ==
    ASSUME NEW c \in ConfigSpace, NEW ms \in Seq(Models)
    PROVE  WithMembers(c, ms) \in ConfigSpace
BY DEF ConfigSpace, WithMembers

LEMMA VModelType ==
    ASSUME TypeOK, vmodel # NoVModel
    PROVE  vmodel \in ConfigSpace /\ vmodel.members \in Seq(Models)
           /\ vmodel.strategy \in Strategies
<1>1. vmodel \in ConfigSpace
  BY CoreAssumption DEF TypeOK
<1>2. QED BY <1>1 DEF ConfigSpace

-----------------------------------------------------------------------------
(* Each action keeps the types *)

\* One row is added to what a request has.
LEMMA AppendType ==
    ASSUME NEW I, NEW S, NEW f \in [I -> Seq(S)], NEW i \in I, NEW x \in S
    PROVE  [f EXCEPT ![i] = Append(@, x)] \in [I -> Seq(S)]
<1>1. Append(f[i], x) \in Seq(S)
  OBVIOUS
<1>2. QED BY <1>1

LEMMA HandlerTyped ==
    ASSUME TypeOK, NEW r \in Requests,
           \/ Reject(r) \/ Accept(r) \/ ReadStrategyName(r) \/ LoadVModel(r)
           \/ LoadMembers(r) \/ DispatchFails(r)
    PROVE  TypeOK'
<1> USE CoreAssumption
<1>0. /\ pc \in [Requests -> PCs] /\ cfg \in [Requests -> ConfigSpace]
      /\ vmodel \in Configs \cup {NoVModel}
      /\ logName \in [Requests -> Strategies \cup {""}]
  BY DEF TypeOK
<1>1. CASE Reject(r)
  BY <1>1 DEF TypeOK, Reject, Goto, PCs, ClientViews
<1>2. CASE Accept(r)
  BY <1>2 DEF TypeOK, Accept, Goto, PCs
<1>3. CASE ReadStrategyName(r)
  <2>1. pc' \in [Requests -> PCs]
    BY <1>0, <1>3 DEF ReadStrategyName, PCs, Goto
  <2>2. PICK n \in {""} \cup (IF vmodel = NoVModel THEN {} ELSE {vmodel.strategy}) :
           logName' = [logName EXCEPT ![r] = n]
    BY <1>3 DEF ReadStrategyName
  <2> n \in Strategies \cup {""}
    BY VModelType
  <2>3. logName' \in [Requests -> Strategies \cup {""}]
    BY <1>0, <2>2
  <2>4. QED BY <2>1, <2>3, <1>3 DEF TypeOK, ReadStrategyName
<1>4. CASE LoadVModel(r)
  <2>1. pc' \in [Requests -> PCs]
    BY <1>0, <1>4 DEF LoadVModel, PCs, Goto
  <2>2. WithMembers(vmodel, << >>) \in ConfigSpace
    <3>1. vmodel # NoVModel
      BY <1>4 DEF LoadVModel
    <3>2. vmodel \in ConfigSpace
      BY <3>1, VModelType
    <3>3. << >> \in Seq(Models)
      OBVIOUS
    <3>4. QED BY <3>2, <3>3, WithMembersType
  <2>3. cfg' \in [Requests -> ConfigSpace]
    BY <1>0, <1>4, <2>2 DEF LoadVModel
  <2>4. QED BY <2>1, <2>3, <1>4 DEF TypeOK, LoadVModel
<1>5. CASE LoadMembers(r)
  <2> DEFINE now == IF vmodel = NoVModel THEN << >> ELSE vmodel.members
  <2>1. pc' \in [Requests -> PCs]
    BY <1>0, <1>5 DEF LoadMembers, PCs, Goto
  <2>2. now \in Seq(Models)
    BY VModelType
  <2>3. cfg[r] \in ConfigSpace
    BY <1>0
  <2>4. WithMembers(cfg[r], now) \in ConfigSpace
    BY <2>2, <2>3, WithMembersType
  <2>5. cfg' \in [Requests -> ConfigSpace]
    BY <1>0, <1>5, <2>4 DEF LoadMembers
  <2>6. QED BY <2>1, <2>5, <1>5 DEF TypeOK, LoadMembers
<1>6. CASE DispatchFails(r)
  BY <1>6 DEF TypeOK, DispatchFails, Goto, PCs
<1>7. QED BY <1>1, <1>2, <1>3, <1>4, <1>5, <1>6

LEMMA BeginTyped ==
    ASSUME TypeOK, NEW r \in Requests, Begin(r)
    PROVE  TypeOK'
<1>0. /\ pc \in [Requests -> PCs] /\ idx \in [Requests -> Nat]
      /\ waiting \in [Requests -> SUBSET Nat] /\ answers \in [Requests -> SUBSET Nat]
      /\ DOMAIN Members(r) \subseteq Nat
  <2>1. DOMAIN Members(r) \subseteq Nat
    BY MembersType
  <2>2. QED BY <2>1 DEF TypeOK
<1>1. CASE BeginFailover(r)
  <2>1. pc' \in [Requests -> PCs]
    BY <1>0, <1>1 DEF BeginFailover, PCs, Goto, FirstCall
  <2>2. idx' \in [Requests -> Nat]
    BY <1>0, <1>1 DEF BeginFailover
  <2>3. QED BY <2>1, <2>2, <1>1 DEF TypeOK, BeginFailover
<1>2. CASE BeginPick(r)
  <2>1. pc' \in [Requests -> PCs]
    BY <1>0, <1>2 DEF BeginPick, PCs, Goto, FirstCall
  <2>2. idx' \in [Requests -> Nat]
    BY <1>0, <1>2 DEF BeginPick
  <2>3. QED BY <2>1, <2>2, <1>2 DEF TypeOK, BeginPick
<1>3. CASE BeginPanel(r)
  <2>1. pc' \in [Requests -> PCs]
    BY <1>0, <1>3 DEF BeginPanel, PCs, Goto
  <2>2. /\ waiting' \in [Requests -> SUBSET Nat]
        /\ answers' \in [Requests -> SUBSET Nat]
    BY <1>0, <1>3 DEF BeginPanel
  <2>3. QED BY <2>1, <2>2, <1>3 DEF TypeOK, BeginPanel
<1>4. CASE BeginMultimodal(r)
  <2>1. pc' \in [Requests -> PCs]
    BY <1>0, <1>4 DEF BeginMultimodal, PCs, Goto
  <2>2. idx' \in [Requests -> Nat]
    BY <1>0, <1>4 DEF BeginMultimodal
  <2>3. QED BY <2>1, <2>2, <1>4 DEF TypeOK, BeginMultimodal
<1>5. QED BY <1>1, <1>2, <1>3, <1>4 DEF Begin

LEMMA SingleTyped ==
    ASSUME TypeOK, Shapes, NEW r \in Requests, SingleReply(r)
    PROVE  TypeOK'
<1>0. /\ pc \in [Requests -> PCs] /\ idx \in [Requests -> Nat]
      /\ attempts \in [Requests -> Seq(Attempt)] /\ recorder \in [Requests -> Seq(Usage)]
      /\ stream \in [Requests -> Streams]
      /\ "member" \in Roles /\ "failed" \in Statuses
  BY DEF TypeOK, Roles, Statuses
<1>1. pc[r] \in {"connect", "call"} => Member(r) \in Models
  BY MembersType DEF Shapes, Shape, Member
<1>2. CASE StreamConnects(r)
  <2>1. pc' \in [Requests -> PCs]
    BY <1>0, <1>2 DEF StreamConnects, PCs, Goto
  <2>2. Member(r) \in Models
    BY <1>1, <1>2 DEF StreamConnects, Goto
  <2>3. attempts' \in [Requests -> Seq(Attempt)]
    BY <1>0, <1>2, <2>2, AnsweredType DEF StreamConnects
  <2>4. stream' \in [Requests -> Streams]
    BY <1>0, <1>2 DEF StreamConnects, Connected, Streams, EventKinds
  <2>5. QED BY <2>1, <2>3, <2>4, <1>2 DEF TypeOK, StreamConnects
<1>3. CASE FailoverConnectFails(r)
  <2>1. pc' \in [Requests -> PCs] /\ idx' \in [Requests -> Nat]
    BY <1>0, <1>3 DEF FailoverConnectFails, TryNext, PCs, Goto
  <2>2. Member(r) \in Models
    BY <1>1, <1>3 DEF FailoverConnectFails, TryNext, Goto
  <2>3. attempts' \in [Requests -> Seq(Attempt)]
    BY <1>0, <1>3, <2>2, AnsweredType DEF FailoverConnectFails
  <2>4. recorder' \in [Requests -> Seq(Usage)]
    BY <1>0, <1>3, <2>2, RecordType DEF FailoverConnectFails
  <2>5. QED BY <2>1, <2>3, <2>4, <1>3 DEF TypeOK, FailoverConnectFails
<1>4. CASE PickConnectFails(r)
  <2>1. pc' \in [Requests -> PCs]
    BY <1>0, <1>4 DEF PickConnectFails, PCs, Goto
  <2>2. Member(r) \in Models
    BY <1>1, <1>4 DEF PickConnectFails, Goto
  <2>3. attempts' \in [Requests -> Seq(Attempt)]
    BY <1>0, <1>4, <2>2, AnsweredType DEF PickConnectFails
  <2>4. QED BY <2>1, <2>3, <1>4 DEF TypeOK, PickConnectFails
<1>5. ASSUME NEW status \in Statuses, FailoverCallReplies(r, status)
      PROVE  TypeOK'
  <2>1. pc' \in [Requests -> PCs] /\ idx' \in [Requests -> Nat]
    <3>1. CASE status = "ok"
      BY <1>0, <1>5, <3>1 DEF FailoverCallReplies, PCs, Goto
    <3>2. CASE status = "failed"
      <4>1. TryNext(r, "call")
        BY <1>5, <3>2 DEF FailoverCallReplies
      <4>2. QED BY <1>0, <4>1 DEF TryNext, PCs, Goto
    <3>3. QED BY <3>1, <3>2 DEF Statuses
  <2>2. Member(r) \in Models
    BY <1>1, <1>5 DEF FailoverCallReplies, TryNext, Goto
  <2>3. attempts' \in [Requests -> Seq(Attempt)] /\ recorder' \in [Requests -> Seq(Usage)]
    BY <1>0, <1>5, <2>2, CallMemberType DEF FailoverCallReplies
  <2>4. QED BY <2>1, <2>3, <1>5 DEF TypeOK, FailoverCallReplies
<1>6. ASSUME NEW status \in Statuses, PickCallReplies(r, status)
      PROVE  TypeOK'
  <2>1. pc' \in [Requests -> PCs]
    BY <1>0, <1>6 DEF PickCallReplies, Outcome, PCs, Goto
  <2>2. Member(r) \in Models
    BY <1>1, <1>6 DEF PickCallReplies, Goto
  <2>3. attempts' \in [Requests -> Seq(Attempt)] /\ recorder' \in [Requests -> Seq(Usage)]
    BY <1>0, <1>6, <2>2, CallMemberType DEF PickCallReplies
  <2>4. QED BY <2>1, <2>3, <1>6 DEF TypeOK, PickCallReplies
<1>7. QED BY <1>2, <1>3, <1>4, <1>5, <1>6 DEF SingleReply

LEMMA PanelTyped ==
    ASSUME TypeOK, Shapes, NEW r \in Requests, PanelReply(r) \/ PanelDecides(r)
    PROVE  TypeOK'
<1>0. /\ pc \in [Requests -> PCs]
      /\ waiting \in [Requests -> SUBSET Nat] /\ answers \in [Requests -> SUBSET Nat]
      /\ attempts \in [Requests -> Seq(Attempt)] /\ recorder \in [Requests -> Seq(Usage)]
      /\ {"member", "judge"} \subseteq Roles /\ {"ok", "failed"} = Statuses
  BY DEF TypeOK, Roles, Statuses
<1>1. ASSUME NEW i \in DOMAIN Members(r), NEW reply \in Replies, MemberReplies(r, i, reply)
      PROVE  TypeOK'
  <2>1. Members(r)[i] \in Models /\ i \in Nat
    BY MembersType
  <2>2. attempts' \in [Requests -> Seq(Attempt)] /\ recorder' \in [Requests -> Seq(Usage)]
    <3> DEFINE status == IF reply = "error" THEN "failed" ELSE "ok"
    <3>1. CallMember(r, Members(r)[i], "member", status)
      BY <1>1 DEF MemberReplies
    <3>2. status \in Statuses /\ "member" \in Roles
      BY <1>0
    <3> HIDE DEF status
    <3>3. QED BY <1>0, <2>1, <3>1, <3>2, CallMemberType
  <2>3. waiting' \in [Requests -> SUBSET Nat] /\ answers' \in [Requests -> SUBSET Nat]
    BY <1>0, <1>1, <2>1 DEF MemberReplies
  <2>4. QED BY <2>2, <2>3, <1>1 DEF TypeOK, MemberReplies
<1>2. ASSUME NEW status \in Statuses, JudgeReplies(r, status)
      PROVE  TypeOK'
  <2>1. pc' \in [Requests -> PCs]
    BY <1>0, <1>2 DEF JudgeReplies, Outcome, PCs, Goto
  <2>2. cfg[r].judge \in Models
    BY <1>2 DEF Shapes, Shape, JudgeReplies, Goto
  <2>3. attempts' \in [Requests -> Seq(Attempt)] /\ recorder' \in [Requests -> Seq(Usage)]
    BY <1>0, <1>2, <2>2, CallMemberType DEF JudgeReplies
  <2>4. QED BY <2>1, <2>3, <1>2 DEF TypeOK, JudgeReplies
<1>3. CASE PanelDecides(r)
  <2>1. pc' \in [Requests -> PCs]
    BY <1>0, <1>3 DEF PanelDecides, PCs, Goto
  <2>2. QED BY <2>1, <1>3 DEF TypeOK, PanelDecides
<1>4. QED BY <1>1, <1>2, <1>3 DEF PanelReply

LEMMA MultimodalTyped ==
    ASSUME TypeOK, Shapes, NEW r \in Requests,
           MultimodalReply(r) \/ UnroutedTool(r) \/ RoutedTool(r)
    PROVE  TypeOK'
<1>0. /\ pc \in [Requests -> PCs]
      /\ idx \in [Requests -> Nat] /\ tools \in [Requests -> Nat]
      /\ attempts \in [Requests -> Seq(Attempt)] /\ recorder \in [Requests -> Seq(Usage)]
      /\ {"member", "tool"} \subseteq Roles /\ {"ok", "failed"} = Statuses
      /\ MaxTools \in Nat
  BY CoreAssumption DEF TypeOK, Roles, Statuses
<1>1. ASSUME NEW from \in {"tools", "tool"}, ToolHandled(r, from)
      PROVE  /\ pc' \in [Requests -> PCs]
             /\ idx' \in [Requests -> Nat]
             /\ tools' \in [Requests -> Nat]
  <2>1. pc[r] = from
    BY <1>1 DEF ToolHandled, Goto
  <2>2. tools[r] \in Nat /\ tools[r] > 0
    BY <1>0, <2>1 DEF Shapes, Shape
  <2>3. tools' \in [Requests -> Nat]
    BY <1>0, <1>1, <2>2 DEF ToolHandled
  <2>4. pc' \in [Requests -> PCs]
    BY <1>0, <1>1 DEF ToolHandled, Goto, PCs
  <2>5. idx' = idx \/ idx' = [idx EXCEPT ![r] = @ + 1]
    BY <1>1 DEF ToolHandled
  <2>6. idx' \in [Requests -> Nat]
    <3>1. idx[r] + 1 \in Nat
      BY <1>0
    <3>2. idx' = idx \/ idx' = [idx EXCEPT ![r] = idx[r] + 1]
      BY <2>5
    <3>3. QED BY <1>0, <3>1, <3>2
  <2>7. QED BY <2>3, <2>4, <2>6
<1>2. ASSUME NEW status \in Statuses, NEW n \in 0 .. MaxTools, MainReplies(r, status, n)
      PROVE  TypeOK'
  <2>1. pc' \in [Requests -> PCs]
    BY <1>0, <1>2 DEF MainReplies, Goto, PCs
  <2>2. tools' \in [Requests -> Nat]
    <3>1. n \in Nat
      BY <1>0
    <3>2. tools' = [tools EXCEPT ![r] = n]
      BY <1>2 DEF MainReplies
    <3>3. QED BY <1>0, <3>1, <3>2
  <2>3. pc[r] = "main"
    BY <1>2 DEF MainReplies, Goto
  <2>4. Members(r)[1] \in Models
    BY <2>3, MembersType DEF Shapes, Shape
  <2>5. attempts' \in [Requests -> Seq(Attempt)] /\ recorder' \in [Requests -> Seq(Usage)]
    BY <1>0, <1>2, <2>4, CallMemberType DEF MainReplies
  <2>6. QED BY <2>1, <2>2, <2>5, <1>2 DEF TypeOK, MainReplies
<1>3. ASSUME NEW backend \in Models, NEW status \in Statuses, ToolReplies(r, backend, status)
      PROVE  TypeOK'
  <2>1. /\ pc' \in [Requests -> PCs]
        /\ idx' \in [Requests -> Nat]
        /\ tools' \in [Requests -> Nat]
    <3>1. CASE ToolHandled(r, "tool")
      BY <1>1, <3>1
    <3>2. CASE Goto(r, "tool", "failed") /\ UNCHANGED <<idx, tools>>
      BY <1>0, <3>2 DEF Goto, PCs
    <3>3. QED BY <1>3, <3>1, <3>2 DEF ToolReplies
  <2>2. attempts' \in [Requests -> Seq(Attempt)] /\ recorder' \in [Requests -> Seq(Usage)]
    BY <1>0, <1>3, CallMemberType DEF ToolReplies
  <2>3. QED BY <2>1, <2>2, <1>3 DEF TypeOK, ToolReplies
<1>4. CASE UnroutedTool(r)
  <2>1. ToolHandled(r, "tools")
    BY <1>4 DEF UnroutedTool
  <2>2. QED BY <1>1, <2>1, <1>4 DEF TypeOK, UnroutedTool
<1>5. CASE RoutedTool(r)
  <2>1. pc' \in [Requests -> PCs]
    BY <1>0, <1>5 DEF RoutedTool, PCs, Goto
  <2>2. QED BY <2>1, <1>5 DEF TypeOK, RoutedTool
<1>6. QED BY <1>2, <1>3, <1>4, <1>5 DEF MultimodalReply

-----------------------------------------------------------------------------
(* Lemmas on the operators of Accounting *)

LEMMA StreamCallType ==
    ASSUME attempts \in [Requests -> Seq(Attempt)], NEW r \in Requests,
           attempts[r] # << >>, NEW status \in Statuses
    PROVE  StreamCall(r, status) \in Usage
<1>1. Len(attempts[r]) \in Nat /\ Len(attempts[r]) \in DOMAIN attempts[r]
  OBVIOUS
<1>2. attempts[r][Len(attempts[r])] \in Attempt
  BY <1>1
<1>3. attempts[r][Len(attempts[r])].model \in Models
  BY <1>2 DEF Attempt
<1>4. QED BY <1>1, <1>3, CoreAssumption DEF StreamCall, Usage

LEMMA CostForType ==
    ASSUME TypeOK, NEW name
    PROVE  CostFor(name) \in Nat
BY DEF TypeOK, CostFor

\* The row of one call: its hour is the one write_stats was entered in.
LEMMA EntryType ==
    ASSUME TypeOK, NEW r \in Requests, todo[r] # << >>
    PROVE  LET c == Head(todo[r])
           IN  [k |-> c.k, name |-> c.name, status |-> c.status,
                hour |-> stamp[r], cost |-> CostFor(c.name)] \in RealEntry
<1> DEFINE c == Head(todo[r])
<1>1. c \in Usage
  <2>1. todo[r] \in Seq(Usage)
    BY DEF TypeOK
  <2>2. QED BY <2>1
<1>2. c.k \in Nat /\ c.name \in Names /\ c.status \in Statuses
  BY <1>1 DEF Usage
<1>3. CostFor(c.name) \in Nat
  BY CostForType
<1>4. stamp[r] \in Nat
  BY DEF TypeOK
<1> HIDE DEF c
<1>5. [k |-> c.k, name |-> c.name, status |-> c.status,
       hour |-> stamp[r], cost |-> CostFor(c.name)] \in RealEntry
  BY <1>2, <1>3, <1>4 DEF RealEntry
<1>6. QED BY <1>5 DEF c

LEMMA SummaryType ==
    ASSUME TypeOK, NEW r \in Requests
    PROVE  Summary(r) \in SummaryEntry
<1>1. stamp[r] \in Nat /\ agg[r] \in Seq(RealEntry) /\ errFlag[r] \in BOOLEAN
  BY DEF TypeOK
<1>2. QED BY <1>1 DEF Summary, SummaryEntry

LEMMA RecvType ==
    ASSUME NEW s \in Streams, CanRecv(s)
    PROVE  Recv(s) \in Streams /\ Head(s.queue) \in EventKinds
<1>1. s.queue \in Seq(EventKinds) /\ s.queue # << >> /\ s.open \in BOOLEAN /\ s.rx \in BOOLEAN
  BY DEF Streams, CanRecv
<1>2. Tail(s.queue) \in Seq(EventKinds) /\ Head(s.queue) \in EventKinds
  BY <1>1
<1>3. QED BY <1>1, <1>2 DEF Recv, Streams

LEMMA SendType ==
    ASSUME NEW s \in Streams, NEW kind \in EventKinds
    PROVE  Send(s, kind) \in Streams
<1>1. s.queue \in Seq(EventKinds) /\ s.open \in BOOLEAN /\ s.rx \in BOOLEAN
  BY DEF Streams
<1>2. Append(s.queue, kind) \in Seq(EventKinds)
  BY <1>1
<1>3. QED BY <1>1, <1>2 DEF Send, Streams

LEMMA DropReceiverType ==
    ASSUME NEW s \in Streams
    PROVE  DropReceiver(s) \in Streams
BY DEF DropReceiver, Streams

\* EndLast changes no model, no role and no way of calling.
LEMMA EndLastType ==
    ASSUME NEW calls \in Seq(Attempt), NEW result \in Statuses
    PROVE  EndLast(calls, result) \in Seq(Attempt)
<1>1. ASSUME NEW k \in DOMAIN calls
      PROVE  [model |-> calls[k].model, role |-> calls[k].role, via |-> calls[k].via,
              result |-> result] \in Attempt
  <2>1. calls[k] \in Attempt
    OBVIOUS
  <2>2. calls[k].model \in Models /\ calls[k].role \in Roles
        /\ calls[k].via \in {"complete", "stream"}
    BY <2>1 DEF Attempt
  <2>3. QED BY <2>2 DEF Attempt
<1>2. \A k \in DOMAIN calls : calls[k] \in Attempt
  OBVIOUS
<1>3. EndLast(calls, result) \in [1 .. Len(calls) -> Attempt]
  BY <1>1, <1>2 DEF EndLast
<1>4. QED BY <1>3

-----------------------------------------------------------------------------

LEMMA ForwardTyped ==
    ASSUME TypeOK, Shapes, NEW r \in Requests, Forward(r)
    PROVE  TypeOK'
<1> DEFINE kind == Head(stream[r].queue)
<1>0. /\ tail \in [Requests -> Seq(Usage)] /\ errFlag \in [Requests -> BOOLEAN]
      /\ client \in [Requests -> ClientViews] /\ stream \in [Requests -> Streams]
      /\ attempts \in [Requests -> Seq(Attempt)]
  BY DEF TypeOK
<1>1. attempts[r] # << >>
  BY DEF Forward, Shapes, Shape
<1>2. stream' \in [Requests -> Streams]
  BY <1>0, RecvType DEF Forward
<1>3. StreamCall(r, "ok") \in Usage /\ StreamCall(r, "failed") \in Usage
  BY <1>0, <1>1, StreamCallType DEF Statuses
<1>4. tail' \in [Requests -> Seq(Usage)]
  <2>1. <<StreamCall(r, "ok")>> \in Seq(Usage) /\ <<StreamCall(r, "failed")>> \in Seq(Usage)
    BY <1>3
  <2>2. \/ tail' = [tail EXCEPT ![r] = <<StreamCall(r, "ok")>>]
        \/ tail' = [tail EXCEPT ![r] = <<StreamCall(r, "failed")>>]
        \/ tail' = [tail EXCEPT ![r] = @]
    BY DEF Forward
  <2>3. QED BY <1>0, <2>1, <2>2
<1>5. errFlag' \in [Requests -> BOOLEAN]
  BY <1>0 DEF Forward
<1>6. client' \in [Requests -> ClientViews]
  BY <1>0 DEF Forward, ClientViews
<1>7. QED BY <1>2, <1>4, <1>5, <1>6 DEF TypeOK, Forward

LEMMA EnterWriteStatsTyped ==
    ASSUME TypeOK, NEW r \in Requests, NEW from, NEW all \in Seq(Usage),
           EnterWriteStats(r, from, all), errFlag' \in [Requests -> BOOLEAN]
    PROVE  TypeOK'
<1>0. /\ pc \in [Requests -> PCs] /\ recorder \in [Requests -> Seq(Usage)]
      /\ todo \in [Requests -> Seq(Usage)] /\ agg \in [Requests -> Seq(RealEntry)]
      /\ stamp \in [Requests -> Nat] /\ hour \in Nat
  BY DEF TypeOK
<1>1. pc' \in [Requests -> PCs]
  BY <1>0 DEF EnterWriteStats, Goto, PCs
<1>2. recorder' \in [Requests -> Seq(Usage)] /\ todo' \in [Requests -> Seq(Usage)]
  BY <1>0 DEF EnterWriteStats
<1>3. agg' \in [Requests -> Seq(RealEntry)] /\ stamp' \in [Requests -> Nat]
  BY <1>0 DEF EnterWriteStats
<1>4. QED BY <1>1, <1>2, <1>3 DEF TypeOK, EnterWriteStats

LEMMA WritesTyped ==
    ASSUME TypeOK, NEW r \in Requests,
           WriteReal(r) \/ WriteVirtual(r) \/ WriteTotal(r) \/ WriteLog(r) \/ WriteFails(r)
    PROVE  TypeOK'
<1>0. /\ pc \in [Requests -> PCs] /\ todo \in [Requests -> Seq(Usage)]
      /\ agg \in [Requests -> Seq(RealEntry)] /\ real \in [Requests -> Seq(RealEntry)]
      /\ virtual \in [Requests -> Seq(SummaryEntry)]
      /\ total \in [Requests -> Seq(SummaryEntry)]
      /\ reqLog \in [Requests -> Seq(LogEntry)] /\ aborted \in [Requests -> BOOLEAN]
      /\ logName \in [Requests -> Strategies \cup {""}] /\ stamp \in [Requests -> Nat]
      /\ errFlag \in [Requests -> BOOLEAN]
  BY DEF TypeOK
<1>1. CASE WriteReal(r)
  <2> DEFINE c == Head(todo[r])
             entry == [k |-> c.k, name |-> c.name, status |-> c.status,
                       hour |-> stamp[r], cost |-> CostFor(c.name)]
  <2>1. entry \in RealEntry
    BY <1>1, EntryType DEF WriteReal
  <2>2. /\ real' = [real EXCEPT ![r] = Append(@, entry)]
        /\ agg' = [agg EXCEPT ![r] = Append(@, entry)]
    BY <1>1 DEF WriteReal
  <2> HIDE DEF entry
  <2>3. real' \in [Requests -> Seq(RealEntry)] /\ agg' \in [Requests -> Seq(RealEntry)]
    BY <1>0, <2>1, <2>2, AppendType
  <2>4. todo' \in [Requests -> Seq(Usage)]
    <3>0. todo[r] # << >> /\ todo[r] \in Seq(Usage)
      BY <1>0, <1>1 DEF WriteReal
    <3>1. Tail(todo[r]) \in Seq(Usage)
      BY <3>0
    <3>2. todo' = [todo EXCEPT ![r] = Tail(todo[r])]
      BY <1>1 DEF WriteReal
    <3>3. QED BY <1>0, <3>1, <3>2
  <2>5. QED BY <2>3, <2>4, <1>1 DEF TypeOK, WriteReal
<1>2. CASE WriteVirtual(r)
  <2>1. pc' \in [Requests -> PCs]
    BY <1>0, <1>2 DEF WriteVirtual, Goto, PCs
  <2>2. virtual' \in [Requests -> Seq(SummaryEntry)]
    <3>1. virtual' = [virtual EXCEPT ![r] = Append(@, Summary(r))]
      BY <1>2 DEF WriteVirtual
    <3>2. QED BY <1>0, <3>1, SummaryType, AppendType
  <2>3. QED BY <2>1, <2>2, <1>2 DEF TypeOK, WriteVirtual
<1>3. CASE WriteTotal(r)
  <2>1. pc' \in [Requests -> PCs]
    BY <1>0, <1>3 DEF WriteTotal, Goto, PCs
  <2>2. total' \in [Requests -> Seq(SummaryEntry)]
    <3>1. total' = [total EXCEPT ![r] = Append(@, Summary(r))]
      BY <1>3 DEF WriteTotal
    <3>2. QED BY <1>0, <3>1, SummaryType, AppendType
  <2>3. QED BY <2>1, <2>2, <1>3 DEF TypeOK, WriteTotal
<1>4. CASE WriteLog(r)
  <2> DEFINE row == [strategy |-> logName[r], hour |-> stamp[r], calls |-> agg[r],
                     err |-> errFlag[r]]
  <2>1. pc' \in [Requests -> PCs]
    BY <1>0, <1>4 DEF WriteLog, Goto, PCs
  <2>2. row \in LogEntry
    BY <1>0 DEF LogEntry
  <2>3. reqLog' = [reqLog EXCEPT ![r] = Append(@, row)]
    BY <1>4 DEF WriteLog
  <2> HIDE DEF row
  <2>4. reqLog' \in [Requests -> Seq(LogEntry)]
    BY <1>0, <2>2, <2>3, AppendType
  <2>5. QED BY <2>1, <2>4, <1>4 DEF TypeOK, WriteLog
<1>5. CASE WriteFails(r)
  BY <1>0, <1>5 DEF TypeOK, WriteFails, Goto, PCs
<1>6. QED BY <1>1, <1>2, <1>3, <1>4, <1>5

LEMMA AccountingTyped ==
    ASSUME TypeOK, Shapes, NEW r \in Requests, AccountingStep(r)
    PROVE  TypeOK'
<1>0. /\ recorder[r] \in Seq(Usage) /\ tail[r] \in Seq(Usage)
      /\ errFlag \in [Requests -> BOOLEAN] /\ pc \in [Requests -> PCs]
      /\ client \in [Requests -> ClientViews]
  BY DEF TypeOK
<1>1. CASE Forward(r)
  BY <1>1, ForwardTyped
<1>2. CASE FinalizeFull(r)
  BY <1>0, <1>2, EnterWriteStatsTyped DEF FinalizeFull
<1>3. CASE FinalizeError(r)
  BY <1>0, <1>3, EnterWriteStatsTyped DEF FinalizeError
<1>4. CASE FinalizeStream(r)
  <2>1. recorder[r] \o tail[r] \in Seq(Usage)
    BY <1>0
  <2>2. QED BY <1>0, <2>1, <1>4, EnterWriteStatsTyped DEF FinalizeStream
<1>5. CASE Reply(r)
  <2>1. pc' \in [Requests -> PCs]
    BY <1>0, <1>5 DEF Reply, Goto, PCs
  <2>2. client' \in [Requests -> ClientViews]
    BY <1>0, <1>5 DEF Reply, ClientViews
  <2>3. QED BY <2>1, <2>2, <1>5 DEF TypeOK, Reply
<1>6. QED BY <1>1, <1>2, <1>3, <1>4, <1>5, WritesTyped DEF AccountingStep

LEMMA EnvironmentTyped ==
    ASSUME TypeOK
    PROVE  /\ \A r \in Requests :
                 /\ \A kind \in EventKinds : StreamSends(r, kind) => TypeOK'
                 /\ Disconnect(r) => TypeOK'
           /\ EditVModel \/ EditPrice \/ Tick => TypeOK'
<1>0. /\ pc \in [Requests -> PCs] /\ stream \in [Requests -> Streams]
      /\ attempts \in [Requests -> Seq(Attempt)]
      /\ hour \in Nat /\ edits \in Nat /\ prices \in [Models -> Nat]
      /\ MaxPrice \in Nat
  BY CoreAssumption DEF TypeOK
<1>1. ASSUME NEW r \in Requests, NEW kind \in EventKinds, StreamSends(r, kind)
      PROVE  TypeOK'
  <2>1. stream' \in [Requests -> Streams]
    BY <1>0, <1>1, SendType DEF StreamSends
  <2>2. attempts' \in [Requests -> Seq(Attempt)]
    <3> DEFINE result == IF kind = "done" THEN "ok" ELSE "failed"
    <3>1. result \in Statuses
      BY DEF Statuses
    <3>2. EndLast(attempts[r], result) \in Seq(Attempt)
      BY <1>0, <3>1, EndLastType
    <3>3. \/ attempts' = attempts
          \/ attempts' = [attempts EXCEPT ![r] = EndLast(attempts[r], result)]
      BY <1>1 DEF StreamSends
    <3> HIDE DEF result
    <3>4. QED BY <1>0, <3>2, <3>3
  <2>3. QED BY <2>1, <2>2, <1>1 DEF TypeOK, StreamSends
<1>2. ASSUME NEW r \in Requests, Disconnect(r)
      PROVE  TypeOK'
  <2>1. pc' \in [Requests -> PCs]
    BY <1>0, <1>2 DEF Disconnect, PCs
  <2>2. stream' \in [Requests -> Streams]
    BY <1>0, <1>2, DropReceiverType DEF Disconnect
  <2>3. QED BY <2>1, <2>2, <1>2 DEF TypeOK, Disconnect
<1>3. CASE EditVModel
  <2>1. edits' \in Nat /\ vmodel' \in Configs \cup {NoVModel}
    BY <1>0, <1>3 DEF EditVModel, Edit
  <2>2. QED BY <2>1, <1>3 DEF TypeOK, EditVModel
<1>4. CASE EditPrice
  <2>1. prices' \in [Models -> Nat]
    BY <1>0, <1>4 DEF EditPrice
  <2>2. edits' \in Nat
    BY <1>0, <1>4 DEF EditPrice, Edit
  <2>3. QED BY <2>1, <2>2, <1>4 DEF TypeOK, EditPrice
<1>5. CASE Tick
  <2>1. hour' \in Nat
    BY <1>0, <1>5 DEF Tick
  <2>2. QED BY <2>1, <1>5 DEF TypeOK, Tick
<1>6. QED BY <1>1, <1>2, <1>3, <1>4, <1>5

LEMMA InitTyped == ASSUME Init PROVE TypeOK
<1> DEFINE noVModel == [strategy |-> "failover", members |-> << >>, judge |-> NoJudge,
                        min |-> 1, strict |-> FALSE, maxIter |-> 0]
<1>1. noVModel \in ConfigSpace
  BY DEF ConfigSpace, Strategies, SingleStrategies
<1>2. cfg = [r \in Requests |-> noVModel]
  BY DEF Init
<1> HIDE DEF noVModel
<1>3. cfg \in [Requests -> ConfigSpace]
  BY <1>1, <1>2
<1>4. NoStream \in Streams
  BY DEF NoStream, Streams
<1>5. stream \in [Requests -> Streams]
  BY <1>4 DEF Init
<1>6. /\ pc \in [Requests -> PCs] /\ want \in [Requests -> BOOLEAN]
      /\ logName \in [Requests -> Strategies \cup {""}]
      /\ client \in [Requests -> ClientViews]
  BY DEF Init, PCs, ClientViews
<1>7. /\ idx \in [Requests -> Nat] /\ waiting \in [Requests -> SUBSET Nat]
      /\ answers \in [Requests -> SUBSET Nat] /\ tools \in [Requests -> Nat]
      /\ stamp \in [Requests -> Nat] /\ errFlag \in [Requests -> BOOLEAN]
      /\ aborted \in [Requests -> BOOLEAN]
  BY DEF Init
<1> DEFINE nothing == [r \in Requests |-> << >>]
<1>11. \A S : nothing \in [Requests -> Seq(S)]
  OBVIOUS
<1>12. /\ attempts = nothing /\ recorder = nothing /\ tail = nothing /\ todo = nothing
       /\ agg = nothing /\ real = nothing /\ virtual = nothing /\ total = nothing
       /\ reqLog = nothing
  BY DEF Init
<1> HIDE DEF nothing
<1>8. /\ attempts \in [Requests -> Seq(Attempt)] /\ recorder \in [Requests -> Seq(Usage)]
      /\ tail \in [Requests -> Seq(Usage)] /\ todo \in [Requests -> Seq(Usage)]
      /\ agg \in [Requests -> Seq(RealEntry)] /\ real \in [Requests -> Seq(RealEntry)]
      /\ virtual \in [Requests -> Seq(SummaryEntry)]
      /\ total \in [Requests -> Seq(SummaryEntry)] /\ reqLog \in [Requests -> Seq(LogEntry)]
  BY <1>11, <1>12
<1>9. vmodel \in Configs \cup {NoVModel} /\ prices \in [Models -> Nat] /\ hour \in Nat /\ edits \in Nat
  BY DEF Init
<1>10. QED BY <1>3, <1>5, <1>6, <1>7, <1>8, <1>9 DEF TypeOK

-----------------------------------------------------------------------------
(* A step of one request leaves the others where they are *)

\* Nothing of request q changes, its view of the environment aside.
Still(q) ==
    /\ pc'[q] = pc[q] /\ want'[q] = want[q] /\ logName'[q] = logName[q]
    /\ cfg'[q] = cfg[q] /\ idx'[q] = idx[q] /\ waiting'[q] = waiting[q]
    /\ answers'[q] = answers[q] /\ tools'[q] = tools[q] /\ attempts'[q] = attempts[q]
    /\ recorder'[q] = recorder[q] /\ stream'[q] = stream[q] /\ tail'[q] = tail[q]
    /\ errFlag'[q] = errFlag[q] /\ todo'[q] = todo[q] /\ agg'[q] = agg[q]
    /\ stamp'[q] = stamp[q] /\ aborted'[q] = aborted[q] /\ real'[q] = real[q]
    /\ virtual'[q] = virtual[q] /\ total'[q] = total[q] /\ reqLog'[q] = reqLog[q]
    /\ client'[q] = client[q]

OthersStill(r) == \A q \in Requests \ {r} : Still(q)

LEMMA Domains ==
    ASSUME TypeOK
    PROVE  /\ DOMAIN pc = Requests /\ DOMAIN want = Requests /\ DOMAIN logName = Requests
           /\ DOMAIN cfg = Requests /\ DOMAIN idx = Requests /\ DOMAIN waiting = Requests
           /\ DOMAIN answers = Requests /\ DOMAIN tools = Requests
           /\ DOMAIN attempts = Requests /\ DOMAIN recorder = Requests
           /\ DOMAIN stream = Requests /\ DOMAIN tail = Requests
           /\ DOMAIN errFlag = Requests /\ DOMAIN todo = Requests
           /\ DOMAIN agg = Requests /\ DOMAIN stamp = Requests
           /\ DOMAIN aborted = Requests /\ DOMAIN real = Requests
           /\ DOMAIN virtual = Requests /\ DOMAIN total = Requests
           /\ DOMAIN reqLog = Requests /\ DOMAIN client = Requests
BY DEF TypeOK

LEMMA HandlerLocal ==
    ASSUME TypeOK, NEW r \in Requests,
           \/ Reject(r) \/ Accept(r) \/ ReadStrategyName(r) \/ LoadVModel(r)
           \/ LoadMembers(r) \/ DispatchFails(r) \/ Begin(r)
    PROVE  OthersStill(r)
<1> SUFFICES ASSUME NEW q \in Requests \ {r} PROVE Still(q)
  BY DEF OthersStill
<1> USE Domains DEF Still, Goto
<1>1. CASE Reject(r) BY <1>1 DEF Reject
<1>2. CASE Accept(r) BY <1>2 DEF Accept
<1>3. CASE ReadStrategyName(r) BY <1>3 DEF ReadStrategyName
<1>4. CASE LoadVModel(r) BY <1>4 DEF LoadVModel
<1>5. CASE LoadMembers(r) BY <1>5 DEF LoadMembers
<1>6. CASE DispatchFails(r) BY <1>6 DEF DispatchFails
<1>7. CASE BeginFailover(r) BY <1>7 DEF BeginFailover
<1>8. CASE BeginPick(r) BY <1>8 DEF BeginPick
<1>9. CASE BeginPanel(r) BY <1>9 DEF BeginPanel
<1>10. CASE BeginMultimodal(r) BY <1>10 DEF BeginMultimodal
<1>11. QED
  BY <1>1, <1>2, <1>3, <1>4, <1>5, <1>6, <1>7, <1>8, <1>9, <1>10 DEF Begin

LEMMA ReplyLocal ==
    ASSUME TypeOK, NEW r \in Requests, UpstreamReply(r)
    PROVE  OthersStill(r)
<1> SUFFICES ASSUME NEW q \in Requests \ {r} PROVE Still(q)
  BY DEF OthersStill
<1> USE Domains DEF Still, Goto, Answered, Record, CallMember
<1>1. CASE StreamConnects(r) BY <1>1 DEF StreamConnects
<1>2. CASE FailoverConnectFails(r) BY <1>2 DEF FailoverConnectFails, TryNext
<1>3. CASE PickConnectFails(r) BY <1>3 DEF PickConnectFails
<1>4. ASSUME NEW status, FailoverCallReplies(r, status) PROVE Still(q)
  BY <1>4 DEF FailoverCallReplies, TryNext
<1>5. ASSUME NEW status, PickCallReplies(r, status) PROVE Still(q)
  BY <1>5 DEF PickCallReplies
<1>6. ASSUME NEW i, NEW reply, MemberReplies(r, i, reply) PROVE Still(q)
  BY <1>6 DEF MemberReplies
<1>7. ASSUME NEW status, JudgeReplies(r, status) PROVE Still(q)
  BY <1>7 DEF JudgeReplies
<1>8. ASSUME NEW status, NEW n, MainReplies(r, status, n) PROVE Still(q)
  BY <1>8 DEF MainReplies
<1>9. ASSUME NEW backend, NEW status, ToolReplies(r, backend, status) PROVE Still(q)
  BY <1>9 DEF ToolReplies, ToolHandled
<1>10. QED
  BY <1>1, <1>2, <1>3, <1>4, <1>5, <1>6, <1>7, <1>8, <1>9
     DEF UpstreamReply, SingleReply, PanelReply, MultimodalReply

LEMMA LaterLocal ==
    ASSUME TypeOK, NEW r \in Requests,
           \/ PanelDecides(r) \/ UnroutedTool(r) \/ RoutedTool(r) \/ AccountingStep(r)
           \/ Disconnect(r) \/ (\E kind \in EventKinds : StreamSends(r, kind))
    PROVE  OthersStill(r)
<1> SUFFICES ASSUME NEW q \in Requests \ {r} PROVE Still(q)
  BY DEF OthersStill
<1> USE Domains DEF Still, Goto
<1>1. CASE PanelDecides(r) BY <1>1 DEF PanelDecides
<1>2. CASE UnroutedTool(r) BY <1>2 DEF UnroutedTool, ToolHandled
<1>3. CASE RoutedTool(r) BY <1>3 DEF RoutedTool
<1>4. CASE Forward(r) BY <1>4 DEF Forward
<1>5. CASE FinalizeFull(r) BY <1>5 DEF FinalizeFull, EnterWriteStats
<1>6. CASE FinalizeError(r) BY <1>6 DEF FinalizeError, EnterWriteStats
<1>7. CASE FinalizeStream(r) BY <1>7 DEF FinalizeStream, EnterWriteStats
<1>8. CASE WriteReal(r) BY <1>8 DEF WriteReal
<1>9. CASE WriteVirtual(r) BY <1>9 DEF WriteVirtual
<1>10. CASE WriteTotal(r) BY <1>10 DEF WriteTotal
<1>11. CASE WriteLog(r) BY <1>11 DEF WriteLog
<1>12. CASE WriteFails(r) BY <1>12 DEF WriteFails
<1>13. CASE Reply(r) BY <1>13 DEF Reply
<1>14. CASE Disconnect(r) BY <1>14 DEF Disconnect
<1>15. ASSUME NEW kind, StreamSends(r, kind) PROVE Still(q)
  BY <1>15 DEF StreamSends
<1>16. QED
  BY <1>1, <1>2, <1>3, <1>4, <1>5, <1>6, <1>7, <1>8, <1>9, <1>10, <1>11, <1>12, <1>13,
     <1>14, <1>15 DEF AccountingStep

-----------------------------------------------------------------------------
(* Each action keeps the shape of its request *)

LEMMA StillShape ==
    ASSUME NEW q \in Requests, Still(q), Shape(q)
    PROVE  Shape(q)'
BY DEF Still, Shape, Members

LEMMA HandlerShape ==
    ASSUME TypeOK, NEW r \in Requests, Shape(r),
           \/ Reject(r) \/ Accept(r) \/ ReadStrategyName(r) \/ LoadVModel(r)
           \/ LoadMembers(r) \/ DispatchFails(r) \/ Begin(r)
    PROVE  Shape(r)'
<1> USE Domains DEF Shape, Goto, Members
<1>1. CASE Reject(r) BY <1>1 DEF Reject
<1>2. CASE Accept(r) BY <1>2 DEF Accept
<1>3. CASE ReadStrategyName(r) BY <1>3 DEF ReadStrategyName
<1>4. CASE LoadVModel(r) BY <1>4 DEF LoadVModel
<1>5. CASE LoadMembers(r) BY <1>5 DEF LoadMembers
<1>6. CASE DispatchFails(r) BY <1>6 DEF DispatchFails
<1>0. cfg[r].members \in Seq(Models) /\ cfg[r].judge \in Models \cup {NoJudge}
  BY DEF TypeOK, ConfigSpace
<1>7. CASE BeginFailover(r) BY <1>0, <1>7 DEF BeginFailover, FirstCall
<1>8. CASE BeginPick(r) BY <1>0, <1>8 DEF BeginPick, FirstCall
<1>9. CASE BeginPanel(r) BY <1>0, <1>9 DEF BeginPanel
<1>10. CASE BeginMultimodal(r) BY <1>0, <1>10 DEF BeginMultimodal
<1>11. QED
  BY <1>1, <1>2, <1>3, <1>4, <1>5, <1>6, <1>7, <1>8, <1>9, <1>10 DEF Begin

LEMMA ReplyShape ==
    ASSUME TypeOK, NEW r \in Requests, Shape(r), UpstreamReply(r)
    PROVE  Shape(r)'
<1> USE Domains DEF Shape, Goto, Members
<1>0. /\ cfg[r].members \in Seq(Models) /\ idx[r] \in Nat /\ attempts[r] \in Seq(Attempt)
      /\ MaxTools \in Nat
  BY CoreAssumption DEF TypeOK, ConfigSpace
<1>1. CASE StreamConnects(r)
  <2>1. attempts'[r] # << >>
    BY <1>0, <1>1 DEF StreamConnects, Answered
  <2>2. QED BY <2>1, <1>1 DEF StreamConnects
<1>2. CASE FailoverConnectFails(r)
  BY <1>0, <1>2 DEF FailoverConnectFails, TryNext
<1>3. CASE PickConnectFails(r) BY <1>3 DEF PickConnectFails
<1>4. ASSUME NEW status, FailoverCallReplies(r, status) PROVE Shape(r)'
  BY <1>0, <1>4 DEF FailoverCallReplies, TryNext
<1>5. ASSUME NEW status, PickCallReplies(r, status) PROVE Shape(r)'
  BY <1>5 DEF PickCallReplies, Outcome
<1>6. ASSUME NEW i, NEW reply, MemberReplies(r, i, reply) PROVE Shape(r)'
  BY <1>6 DEF MemberReplies
<1>7. ASSUME NEW status, JudgeReplies(r, status) PROVE Shape(r)'
  BY <1>7 DEF JudgeReplies, Outcome
<1>8. ASSUME NEW status, NEW n \in 0 .. MaxTools, MainReplies(r, status, n)
      PROVE  Shape(r)'
  BY <1>0, <1>8 DEF MainReplies
<1>9. ASSUME NEW backend, NEW status, ToolReplies(r, backend, status) PROVE Shape(r)'
  <2>0. tools[r] \in Nat
    BY DEF TypeOK
  <2>1. QED BY <2>0, <1>9 DEF ToolReplies, ToolHandled
<1>10. QED
  BY <1>1, <1>2, <1>3, <1>4, <1>5, <1>6, <1>7, <1>8, <1>9
     DEF UpstreamReply, SingleReply, PanelReply, MultimodalReply

LEMMA LaterShape ==
    ASSUME TypeOK, NEW r \in Requests, Shape(r),
           \/ PanelDecides(r) \/ UnroutedTool(r) \/ RoutedTool(r) \/ AccountingStep(r)
           \/ Disconnect(r) \/ (\E kind \in EventKinds : StreamSends(r, kind))
    PROVE  Shape(r)'
<1> USE Domains DEF Shape, Goto, Members
<1>0. tools[r] \in Nat /\ attempts[r] \in Seq(Attempt)
  BY DEF TypeOK
<1>1. CASE PanelDecides(r) BY <1>1 DEF PanelDecides
<1>2. CASE UnroutedTool(r) BY <1>0, <1>2 DEF UnroutedTool, ToolHandled
<1>3. CASE RoutedTool(r) BY <1>3 DEF RoutedTool
<1>4. CASE Forward(r) BY <1>4 DEF Forward, Recv
<1>5. CASE FinalizeFull(r) BY <1>5 DEF FinalizeFull, EnterWriteStats
<1>6. CASE FinalizeError(r) BY <1>6 DEF FinalizeError, EnterWriteStats
<1>7. CASE FinalizeStream(r) BY <1>7 DEF FinalizeStream, EnterWriteStats, Exhausted
<1>8. CASE WriteReal(r) BY <1>8 DEF WriteReal
<1>9. CASE WriteVirtual(r) BY <1>9 DEF WriteVirtual
<1>10. CASE WriteTotal(r) BY <1>10 DEF WriteTotal
<1>11. CASE WriteLog(r) BY <1>11 DEF WriteLog
<1>12. CASE WriteFails(r) BY <1>12 DEF WriteFails
<1>13. CASE Reply(r) BY <1>13 DEF Reply
<1>14. CASE Disconnect(r) BY <1>14 DEF Disconnect, DropReceiver
<1>15. ASSUME NEW kind, StreamSends(r, kind) PROVE Shape(r)'
  <2>1. pc[r] = "forward" /\ attempts[r] # << >>
    BY <1>15 DEF StreamSends, CanSend
  <2>2. attempts'[r] # << >>
    <3>1. \/ attempts' = attempts
          \/ \E result : attempts' = [attempts EXCEPT ![r] = EndLast(@, result)]
      BY <1>15 DEF StreamSends
    <3>2. ASSUME NEW result PROVE EndLast(attempts[r], result) # << >>
      <4>1. DOMAIN EndLast(attempts[r], result) = 1 .. Len(attempts[r])
        BY <1>0 DEF EndLast
      <4>2. 1 \in DOMAIN EndLast(attempts[r], result)
        BY <1>0, <2>1, <4>1
      <4>3. QED BY <4>2
    <3>3. QED BY <2>1, <3>1, <3>2
  <2>3. QED BY <2>1, <2>2, <1>15 DEF StreamSends
<1>16. QED
  BY <1>1, <1>2, <1>3, <1>4, <1>5, <1>6, <1>7, <1>8, <1>9, <1>10, <1>11, <1>12, <1>13,
     <1>14, <1>15 DEF AccountingStep

-----------------------------------------------------------------------------
(* The theorem *)

\* A step of request r, whoever takes it.
StepOf(r) ==
    \/ Reject(r) \/ Accept(r) \/ ReadStrategyName(r) \/ LoadVModel(r)
    \/ LoadMembers(r) \/ DispatchFails(r) \/ Begin(r)
    \/ UpstreamReply(r)
    \/ PanelDecides(r) \/ UnroutedTool(r) \/ RoutedTool(r) \/ AccountingStep(r)
    \/ Disconnect(r) \/ (\E kind \in EventKinds : StreamSends(r, kind))

\* Every step is a step of one request, of the environment, or no step.
LEMMA StepCases ==
    ASSUME [Next]_vars
    PROVE  \/ \E r \in Requests : StepOf(r)
           \/ EditVModel \/ EditPrice \/ Tick
           \/ UNCHANGED vars
<1>1. ASSUME NEW r \in Requests, GatewayStep(r) PROVE StepOf(r)
  BY <1>1 DEF GatewayStep, StepOf
<1>2. ASSUME NEW r \in Requests, UpstreamReply(r) PROVE StepOf(r)
  BY <1>2 DEF StepOf
<1>3. ASSUME NEW r \in Requests, StreamSends(r, "delta") \/ StreamEnds(r) PROVE StepOf(r)
  BY <1>3 DEF StreamEnds, EventKinds, Terminal, StepOf
<1>4. ASSUME NEW r \in Requests, Disconnect(r) PROVE StepOf(r)
  BY <1>4 DEF StepOf
<1>5. QED BY <1>1, <1>2, <1>3, <1>4 DEF Next

LEMMA OnlyOne ==
    ASSUME TypeOK, NEW r \in Requests, StepOf(r)
    PROVE  OthersStill(r)
BY HandlerLocal, ReplyLocal, LaterLocal DEF StepOf

\* An edit or the clock touches no request.
LEMMA EnvironmentStill ==
    ASSUME EditVModel \/ EditPrice \/ Tick \/ UNCHANGED vars, NEW q \in Requests
    PROVE  Still(q)
BY DEF EditVModel, EditPrice, Tick, Still

LEMMA TypeInductive ==
    ASSUME TypeOK, Shapes, [Next]_vars
    PROVE  TypeOK' /\ Shapes'
<1>1. CASE UNCHANGED vars
  <2>1. TypeOK'
    BY <1>1 DEF TypeOK
  <2>2. Shapes'
    BY <1>1, EnvironmentStill, StillShape DEF Shapes
  <2>3. QED BY <2>1, <2>2
<1>2. CASE EditVModel \/ EditPrice \/ Tick
  BY <1>2, EnvironmentTyped, EnvironmentStill, StillShape DEF Shapes
<1>3. ASSUME NEW r \in Requests, StepOf(r)
      PROVE  TypeOK' /\ Shapes'
  <2>1. TypeOK'
    BY <1>3, HandlerTyped, BeginTyped, SingleTyped, PanelTyped, MultimodalTyped,
       AccountingTyped, EnvironmentTyped DEF StepOf, UpstreamReply
  <2>2. Shape(r)'
    BY <1>3, HandlerShape, ReplyShape, LaterShape DEF StepOf, Shapes
  <2>3. ASSUME NEW q \in Requests \ {r} PROVE Shape(q)'
    BY <1>3, <2>3, OnlyOne, StillShape DEF OthersStill, Shapes
  <2>4. Shapes'
    BY <2>2, <2>3 DEF Shapes
  <2>5. QED BY <2>1, <2>4
<1>4. QED BY <1>1, <1>2, <1>3, StepCases

LEMMA InitShape == ASSUME Init PROVE Shapes
BY DEF Init, Shapes, Shape, NoStream

LEMMA TypeAndShape == Spec => [](TypeOK /\ Shapes)
<1>1. Init => TypeOK /\ Shapes
  BY InitTyped, InitShape
<1>2. TypeOK /\ Shapes /\ [Next]_vars => (TypeOK /\ Shapes)'
  BY TypeInductive
<1>3. QED BY <1>1, <1>2, PTL DEF Spec

\* Every variable keeps its type, for any number of requests, any models and
\* configurations: among other things, no strategy ever indexes its members
\* out of range, calls a judge that is not configured, or counts its tool
\* calls below zero.
THEOREM TypeCorrect == Spec => []TypeOK
BY TypeAndShape, PTL
=============================================================================
